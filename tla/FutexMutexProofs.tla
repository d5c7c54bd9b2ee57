--------------------------- MODULE FutexMutexProofs ---------------------------
(***************************************************************************)
(* Proofs about FutexMutex, for any set of threads, any recursion limit    *)
(* and any choice of the threads that use the timed lock.                  *)
(***************************************************************************)
EXTENDS FutexMutex, TLAPS

(* The word is not UNLOCKED exactly when some thread really has it, and    *)
(* then only one thread has it.                                            *)
WordInv ==
  /\ state = UNLOCKED <=> \A t \in Threads : ~Holds(t)
  /\ \A s, t \in Threads : Holds(s) /\ Holds(t) => s = t

(* The owner is in guest code, count is its depth, at most one unless the  *)
(* mutex is recursive, and the guest's tally is that depth for the owner   *)
(* and zero for everybody else.                                            *)
OwnerInv ==
  /\ owner = NoThread <=> count = 0
  /\ Recursive \/ count <= 1
  /\ \A t \in Threads : owner = t => pc[t] = "idle"
  /\ \A t \in Threads : held[t] = IF owner = t THEN count ELSE 0

IInv == TypeOK /\ WordInv /\ OwnerInv

USE FutexMutexAssumption DEF UNLOCKED, LOCKED, CONTENDED

LEMMA InitIInv == Init => IInv
BY DEF Init, IInv, TypeOK, WordInv, OwnerInv, Holds, MutexState, PCs, Results

(* A thread that does not have the word and does not get it may go         *)
(* anywhere, and may turn LOCKED into CONTENDED.                           *)
LEMMA BystanderStep ==
  ASSUME IInv, NEW t \in Threads, NEW l \in PCs \ {"won", "release"},
         pc[t] \notin {"won", "release"}, owner = t => l = "idle",
         pc' = [pc EXCEPT ![t] = l],
         state' = UNLOCKED <=> state = UNLOCKED,
         UNCHANGED <<owner, count, held>>
  PROVE  WordInv' /\ OwnerInv'
<1>1. \A s \in Threads : pc'[s] = IF s = t THEN l ELSE pc[s]
  BY DEF IInv, TypeOK
<1>2. \A s \in Threads : Holds(s)' <=> Holds(s)
  BY <1>1 DEF Holds
<1>3. WordInv'
  BY <1>2 DEF IInv, WordInv
<1>4. OwnerInv'
  BY <1>1 DEF IInv, OwnerInv
<1> QED
  BY <1>3, <1>4

(* A thread that wins the word becomes its one holder. *)
LEMMA WinStep ==
  ASSUME IInv, NEW t \in Threads, NEW s \in {LOCKED, CONTENDED}, Win(t, s),
         UNCHANGED <<owner, count, held>>
  PROVE  WordInv' /\ OwnerInv'
<1>1. \A u \in Threads : pc'[u] = IF u = t THEN "won" ELSE pc[u]
  BY DEF Win, Goto, IInv, TypeOK
<1>2. \A u \in Threads : ~Holds(u)
  BY DEF Win, IInv, WordInv
<1>3. \A u \in Threads : Holds(u)' <=> u = t
  BY <1>1, <1>2 DEF Holds
<1>4. WordInv'
  BY <1>3 DEF Win, WordInv
<1>5. OwnerInv'
  BY <1>1, <1>2 DEF Holds, IInv, OwnerInv
<1> QED
  BY <1>4, <1>5

(* Winning the word keeps the types. *)
LEMMA WinType ==
  ASSUME TypeOK, NEW t \in Threads, NEW s \in {LOCKED, CONTENDED}, Win(t, s),
         UNCHANGED <<owner, count, cur, expired, held, result>>,
         timed' \in [Threads -> BOOLEAN]
  PROVE  TypeOK'
BY DEF TypeOK, Win, Goto, MutexState, PCs

(* A call that returns without having touched the mutex. *)
LEMMA RefusalStep ==
  ASSUME IInv, NEW t \in Threads, NEW r \in Results, Return(t, r),
         pc[t] \notin {"won", "release"},
         UNCHANGED <<state, owner, count, held>>
  PROVE  IInv'
<1>1. TypeOK'
  BY DEF IInv, TypeOK, Return, MutexState, PCs
<1>2. WordInv' /\ OwnerInv'
  BY BystanderStep DEF Return, PCs
<1> QED
  BY <1>1, <1>2 DEF IInv

(* The holder counts one level up or down. *)
LEMMA DepthStep ==
  ASSUME IInv, NEW t \in Threads, owner = t, Return(t, "OK"), Recursive,
         NEW d \in 1..MaxCount, count' = d, held' = [held EXCEPT ![t] = d],
         UNCHANGED <<state, owner>>
  PROVE  IInv'
<1>1. TypeOK'
  BY DEF IInv, TypeOK, Return, MutexState, PCs, Results
<1>2. \A s \in Threads : pc'[s] = pc[s] /\ (Holds(s)' <=> Holds(s))
  BY DEF IInv, TypeOK, OwnerInv, Return, Holds
<1>3. WordInv'
  BY <1>2 DEF IInv, WordInv
<1>4. OwnerInv'
  BY <1>2 DEF IInv, TypeOK, OwnerInv
<1> QED
  BY <1>1, <1>3, <1>4 DEF IInv

LEMMA RequestStep ==
  ASSUME IInv, NEW t \in Threads, Request(t)
  PROVE  IInv'
<1>1. ASSUME NEW tm \in BOOLEAN, LockFast(t, tm) PROVE IInv'
  <2>1. TypeOK'
    BY <1>1, WinType DEF LockFast, IInv, TypeOK
  <2> QED
    BY <1>1, <2>1, WinStep DEF LockFast, IInv
<1>2. ASSUME NEW tm \in BOOLEAN, LockAgain(t, tm) PROVE IInv'
  <2>1. CASE Recursive /\ count < MaxCount
    <3>1. count + 1 \in 1..MaxCount /\ held[t] = count
      BY <1>2, <2>1 DEF LockAgain, IInv, TypeOK, OwnerInv
    <3> QED
      BY <1>2, <2>1, <3>1, DepthStep DEF LockAgain
  <2>2. CASE ~(Recursive /\ count < MaxCount)
    BY <1>2, <2>2, RefusalStep DEF LockAgain, Results
  <2> QED
    BY <2>1, <2>2
<1>3. ASSUME NEW tm \in BOOLEAN, LockSlow(t, tm) PROVE IInv'
  <2>1. TypeOK'
    BY <1>3 DEF LockSlow, Goto, IInv, TypeOK, PCs
  <2>2. WordInv' /\ OwnerInv'
    BY <1>3, BystanderStep DEF LockSlow, Goto, PCs
  <2> QED
    BY <2>1, <2>2 DEF IInv
<1>4. CASE LockNoWait(t)
  BY <1>4, RefusalStep DEF LockNoWait, Results
<1>5. CASE TrylockWin(t)
  <2>1. TypeOK'
    BY <1>5, WinType DEF TrylockWin, IInv, TypeOK
  <2> QED
    BY <1>5, <2>1, WinStep DEF TrylockWin, IInv
<1>6. CASE TrylockFail(t)
  BY <1>6, RefusalStep DEF TrylockFail, Results
<1>7. CASE TrylockAgain(t)
  <2>1. CASE Recursive /\ count < MaxCount
    <3>1. count + 1 \in 1..MaxCount /\ held[t] = count
      BY <1>7, <2>1 DEF TrylockAgain, IInv, TypeOK, OwnerInv
    <3> QED
      BY <1>7, <2>1, <3>1, DepthStep DEF TrylockAgain
  <2>2. CASE ~(Recursive /\ count < MaxCount)
    BY <1>7, <2>2, RefusalStep DEF TrylockAgain, Results
  <2> QED
    BY <2>1, <2>2
<1> QED
  BY <1>1, <1>2, <1>3, <1>4, <1>5, <1>6, <1>7 DEF Request

(* The steps of NativeMutexLockContended. *)
LEMMA LockContendedStep ==
  ASSUME IInv, NEW t \in Threads, LockContended(t)
  PROVE  IInv'
<1>1. CASE Announce(t)
  <2>1. TypeOK'
    BY <1>1 DEF Announce, Goto, IInv, TypeOK, MutexState, PCs
  <2>2. state' = UNLOCKED <=> state = UNLOCKED
    BY <1>1 DEF Announce
  <2>3. owner # t
    BY <1>1 DEF Announce, IInv, OwnerInv
  <2>4. WordInv' /\ OwnerInv'
    BY <1>1, <2>2, <2>3, BystanderStep DEF Announce, Goto, PCs
  <2> QED
    BY <2>1, <2>4 DEF IInv
<1>2. CASE LoopWin(t)
  <2>1. TypeOK'
    BY <1>2, WinType DEF LoopWin, IInv, TypeOK
  <2> QED
    BY <1>2, <2>1, WinStep DEF LoopWin, IInv
<1>3. CASE LoopLose(t)
  <2>1. TypeOK'
    BY <1>3 DEF LoopLose, IInv, TypeOK, MutexState
  <2>2. pc' = [pc EXCEPT ![t] = "loop"] /\ owner # t
    BY <1>3 DEF LoopLose, IInv, TypeOK, OwnerInv
  <2>3. WordInv' /\ OwnerInv'
    BY <1>3, <2>2, BystanderStep DEF LoopLose, PCs
  <2> QED
    BY <2>1, <2>3 DEF IInv
<1>4. CASE LoopTimeout(t)
  BY <1>4, RefusalStep DEF LoopTimeout, Results
<1>5. CASE FutexWait(t)
  <2>1. TypeOK'
    BY <1>5 DEF FutexWait, Goto, IInv, TypeOK, PCs
  <2>2. WordInv' /\ OwnerInv'
    BY <1>5, BystanderStep DEF FutexWait, Goto, PCs, IInv, OwnerInv
  <2> QED
    BY <2>1, <2>2 DEF IInv
<1>6. CASE WokenLateWin(t)
  <2>1. TypeOK'
    BY <1>6, WinType DEF WokenLateWin, IInv, TypeOK
  <2> QED
    BY <1>6, <2>1, WinStep DEF WokenLateWin, IInv
<1>7. CASE WokenLateTimeout(t)
  BY <1>7, RefusalStep DEF WokenLateTimeout, Results
<1>8. CASE Reload(t)
  <2>1. TypeOK'
    BY <1>8 DEF Reload, Goto, IInv, TypeOK, PCs, MutexState
  <2>2. WordInv' /\ OwnerInv'
    BY <1>8, BystanderStep DEF Reload, Goto, PCs, IInv, OwnerInv
  <2> QED
    BY <2>1, <2>2 DEF IInv
<1>9. CASE Mark(t)
  <2>1. TypeOK'
    BY <1>9 DEF Mark, Goto, IInv, TypeOK, MutexState, PCs
  <2>2. state' = UNLOCKED <=> state = UNLOCKED
    BY <1>9 DEF Mark
  <2>3. owner # t
    BY <1>9 DEF Mark, IInv, OwnerInv
  <2>4. WordInv' /\ OwnerInv'
    BY <1>9, <2>2, <2>3, BystanderStep DEF Mark, Goto, PCs
  <2> QED
    BY <2>1, <2>4 DEF IInv
<1> QED
  BY <1>1, <1>2, <1>3, <1>4, <1>5, <1>6, <1>7, <1>8, <1>9 DEF LockContended

(* The thread that has won the word makes itself its owner. *)
LEMMA StoreOwnerStep ==
  ASSUME IInv, NEW t \in Threads, StoreOwner(t)
  PROVE  IInv'
<1>1. TypeOK'
  BY DEF StoreOwner, Return, IInv, TypeOK, MutexState, PCs, Results
<1>2. \A s \in Threads : Holds(s) <=> s = t
  BY DEF StoreOwner, IInv, WordInv, Holds
<1>3. owner = NoThread
  BY <1>2 DEF StoreOwner, IInv, TypeOK, OwnerInv, Holds
<1>4. \A s \in Threads : pc'[s] = IF s = t THEN "idle" ELSE pc[s]
  BY DEF StoreOwner, Return, IInv, TypeOK
<1>5. \A s \in Threads : Holds(s)' <=> s = t
  BY <1>2, <1>4 DEF StoreOwner, Holds
<1>6. WordInv'
  BY <1>2, <1>5 DEF StoreOwner, IInv, WordInv
<1>7. OwnerInv'
  BY <1>3, <1>4 DEF StoreOwner, IInv, TypeOK, OwnerInv
<1> QED
  BY <1>1, <1>6, <1>7 DEF IInv

(* An unlock: the owner is cleared while the word is still held ... *)
LEMMA UnlockClearStep ==
  ASSUME IInv, NEW t \in Threads, UnlockClear(t)
  PROVE  IInv'
<1>1. held[t] = 1 /\ count = 1
  BY DEF UnlockClear, IInv, TypeOK, OwnerInv
<1>2. \A s \in Threads : Holds(s) <=> s = t
  BY DEF UnlockClear, IInv, WordInv, Holds
<1>3. \A s \in Threads : pc'[s] = IF s = t THEN "release" ELSE pc[s]
  BY DEF UnlockClear, Goto, IInv, TypeOK
<1>4. \A s \in Threads : Holds(s)' <=> s = t
  BY <1>2, <1>3 DEF UnlockClear, Holds, IInv, OwnerInv
<1>5. TypeOK'
  BY <1>1 DEF UnlockClear, Goto, IInv, TypeOK, PCs
<1>6. WordInv'
  BY <1>2, <1>4 DEF UnlockClear, IInv, WordInv
<1>7. OwnerInv'
  BY <1>1 DEF UnlockClear, IInv, TypeOK, OwnerInv
<1> QED
  BY <1>5, <1>6, <1>7 DEF IInv

(* ... and given up by the exchange. *)
LEMMA UnlockExchangeStep ==
  ASSUME IInv, NEW t \in Threads, UnlockExchange(t)
  PROVE  IInv'
<1>1. TypeOK'
  BY DEF UnlockExchange, Goto, Return, IInv, TypeOK, MutexState, PCs, Results
<1>2. PICK l \in {"wake", "idle"} : pc' = [pc EXCEPT ![t] = l]
  BY DEF UnlockExchange, Goto, Return
<1>3. \A s \in Threads : pc'[s] = IF s = t THEN l ELSE pc[s]
  BY <1>2 DEF IInv, TypeOK
<1>4. \A s \in Threads : Holds(s) <=> s = t
  BY DEF UnlockExchange, IInv, WordInv, Holds
<1>5. owner = NoThread
  BY <1>4 DEF UnlockExchange, IInv, TypeOK, OwnerInv, Holds
<1>6. \A s \in Threads : ~Holds(s)'
  BY <1>3, <1>4, <1>5 DEF UnlockExchange, Holds
<1>7. WordInv'
  BY <1>6 DEF UnlockExchange, WordInv
<1>8. OwnerInv'
  BY <1>3, <1>5 DEF UnlockExchange, IInv, OwnerInv
<1> QED
  BY <1>1, <1>7, <1>8 DEF IInv

(* The end of an unlock that must wake somebody. *)
LEMMA FutexWakeStep ==
  ASSUME IInv, NEW t \in Threads, FutexWake(t)
  PROVE  IInv'
<1>1. TypeOK'
  BY DEF FutexWake, Goto, Sleepers, IInv, TypeOK, PCs, Results
<1>2. \A s \in Threads :
        \/ pc'[s] = pc[s]
        \/ pc'[s] \in {"idle", "woken"} /\ pc[s] \in {"wake", "asleep"}
  BY DEF FutexWake, Goto, Sleepers, IInv, TypeOK
<1>3. \A s \in Threads : Holds(s)' <=> Holds(s)
  BY <1>2 DEF FutexWake, Holds
<1>4. WordInv'
  BY <1>3 DEF FutexWake, IInv, WordInv
<1>5. OwnerInv'
  BY <1>2 DEF FutexWake, IInv, OwnerInv
<1> QED
  BY <1>1, <1>4, <1>5 DEF IInv

LEMMA ContinueStep ==
  ASSUME IInv, NEW t \in Threads, Continue(t)
  PROVE  IInv'
<1>1. CASE StoreOwner(t)
  BY <1>1, StoreOwnerStep
<1>2. CASE SpinWin(t)
  <2>1. TypeOK'
    BY <1>2, WinType DEF SpinWin, IInv, TypeOK
  <2> QED
    BY <1>2, <2>1, WinStep DEF SpinWin, IInv
<1>3. CASE SpinGiveUp(t)
  <2>1. TypeOK'
    BY <1>3 DEF SpinGiveUp, Goto, IInv, TypeOK, PCs
  <2>2. owner # t
    BY <1>3 DEF SpinGiveUp, IInv, OwnerInv
  <2>3. WordInv' /\ OwnerInv'
    BY <1>3, <2>2, BystanderStep DEF SpinGiveUp, Goto, PCs
  <2> QED
    BY <2>1, <2>3 DEF IInv
<1>4. CASE LockContended(t)
  BY <1>4, LockContendedStep
<1>5. CASE UnlockExchange(t)
  BY <1>5, UnlockExchangeStep
<1>6. CASE FutexWake(t)
  BY <1>6, FutexWakeStep
<1> QED
  BY <1>1, <1>2, <1>3, <1>4, <1>5, <1>6 DEF Continue

LEMMA UnlockStep ==
  ASSUME IInv, NEW t \in Threads, Unlock(t) \/ UnlockRefused(t)
  PROVE  IInv'
<1>1. CASE UnlockNested(t)
  <2>1. count - 1 \in 1..MaxCount /\ held[t] = count
    BY <1>1 DEF UnlockNested, IInv, TypeOK, OwnerInv
  <2> QED
    BY <1>1, <2>1, DepthStep DEF UnlockNested
<1>2. CASE UnlockClear(t)
  BY <1>2, UnlockClearStep
<1>3. CASE UnlockRefused(t)
  BY <1>3, RefusalStep DEF UnlockRefused, Results
<1> QED
  BY <1>1, <1>2, <1>3 DEF Unlock

(* The two steps a waiting thread takes by itself. *)
LEMMA TimeStep ==
  ASSUME IInv, NEW t \in Threads, FutexReturn(t) \/ DeadlinePasses(t)
  PROVE  IInv'
<1>1. CASE FutexReturn(t)
  <2>1. TypeOK'
    BY <1>1 DEF FutexReturn, Goto, IInv, TypeOK, PCs
  <2>2. owner # t
    BY <1>1 DEF FutexReturn, IInv, OwnerInv
  <2>3. WordInv' /\ OwnerInv'
    BY <1>1, <2>2, BystanderStep DEF FutexReturn, Goto, PCs
  <2> QED
    BY <2>1, <2>3 DEF IInv
<1>2. CASE DeadlinePasses(t)
  BY <1>2 DEF DeadlinePasses, IInv, TypeOK, WordInv, OwnerInv, Holds
<1> QED
  BY <1>1, <1>2

LEMMA NextIInv == IInv /\ [Next]_vars => IInv'
<1> SUFFICES ASSUME IInv, [Next]_vars PROVE IInv'
  OBVIOUS
<1>1. ASSUME NEW t \in Threads,
             \/ Request(t) \/ Continue(t) \/ Unlock(t) \/ UnlockRefused(t)
             \/ FutexReturn(t) \/ DeadlinePasses(t)
      PROVE  IInv'
  BY <1>1, RequestStep, ContinueStep, UnlockStep, TimeStep
<1>2. CASE UNCHANGED vars
  BY <1>2 DEF vars, IInv, TypeOK, WordInv, OwnerInv, Holds
<1> QED
  BY <1>1, <1>2 DEF Next

(* The inductive invariant holds in every reachable state. *)
THEOREM InductiveInvariant == Spec => []IInv
<1> QED
  BY InitIInv, NextIInv, PTL DEF Spec

(* Every field of the mutex and every local of a call keeps its type; in   *)
(* particular the recursion count never passes its limit.                  *)
THEOREM TypeCorrect == Spec => []TypeOK
<1>1. IInv => TypeOK
  BY DEF IInv
<1> QED
  BY <1>1, InductiveInvariant, PTL

(* Mutual exclusion: whatever the interleaving of fast paths, spins,       *)
(* futex sleeps, timeouts and unlocks, no two threads both have a lock the *)
(* mutex told them they hold.                                              *)
THEOREM MutexIsExclusive == Spec => []MutualExclusion
<1>1. ASSUME IInv, NEW s \in Threads, NEW t \in Threads, held[s] > 0, held[t] > 0
      PROVE  s = t
  <2>1. owner = s
    BY <1>1 DEF IInv, OwnerInv
  <2>2. owner = t
    BY <1>1 DEF IInv, OwnerInv
  <2> QED
    BY <2>1, <2>2
<1>2. IInv => MutualExclusion
  BY <1>1 DEF MutualExclusion
<1> QED
  BY <1>2, InductiveInvariant, PTL

(* The owner and count fields always say what the guest believes. *)
THEOREM OwnerIsRight == Spec => []OwnerAgrees
<1>1. ASSUME IInv, NEW t \in Threads
      PROVE  (held[t] > 0 <=> owner = t) /\ (held[t] > 0 => held[t] = count)
  <2>1. count \in Nat /\ held[t] = (IF owner = t THEN count ELSE 0)
    BY <1>1 DEF IInv, TypeOK, OwnerInv
  <2>2. owner = t => count # 0
    BY <1>1 DEF IInv, OwnerInv
  <2> QED
    BY <2>1, <2>2
<1>2. IInv => OwnerAgrees
  BY <1>1 DEF OwnerAgrees
<1> QED
  BY <1>2, InductiveInvariant, PTL

------------------------------------------------------------------------------
(* Without timed callers no deadline exists, and no wake-up is lost. *)

Untimed == \A t \in Threads : ~timed[t] /\ ~expired[t]

SleepInv == TypeOK /\ Untimed /\ NoStrandedSleeper

(* A thread that moves, without sleeping, out of or into the caretakers. *)
LEMMA MoveKeepsSleepers ==
  ASSUME TypeOK, NEW t \in Threads, NEW l \in PCs \ {"asleep"},
         pc' = [pc EXCEPT ![t] = l]
  PROVE  /\ Sleepers' = Sleepers \ {t}
         /\ Caretakers \ {t} \subseteq Caretakers'
         /\ l \in {"contend", "loop", "woken", "mark", "wake"} => t \in Caretakers'
<1>1. \A s \in Threads : pc'[s] = IF s = t THEN l ELSE pc[s]
  BY DEF TypeOK
<1>2. Sleepers' = Sleepers \ {t}
  BY <1>1 DEF Sleepers
<1>3. Caretakers \ {t} \subseteq Caretakers'
  BY <1>1 DEF Caretakers
<1>4. l \in {"contend", "loop", "woken", "mark", "wake"} => t \in Caretakers'
  BY <1>1 DEF Caretakers
<1> QED
  BY <1>2, <1>3, <1>4

(* A thread that is no caretaker and does not become a sleeper, leaving a  *)
(* CONTENDED word alone, forgets nobody. *)
LEMMA OthersStep ==
  ASSUME SleepInv, NEW t \in Threads, NEW l \in PCs \ {"asleep"},
         pc' = [pc EXCEPT ![t] = l],
         t \notin Caretakers \/ l \in {"contend", "loop", "woken", "mark", "wake"},
         state = CONTENDED => state' = CONTENDED
  PROVE  NoStrandedSleeper'
<1>1. /\ Sleepers' = Sleepers \ {t}
      /\ Caretakers \ {t} \subseteq Caretakers'
      /\ l \in {"contend", "loop", "woken", "mark", "wake"} => t \in Caretakers'
  BY MoveKeepsSleepers DEF SleepInv
<1>2. Sleepers # {} => state = CONTENDED \/ Caretakers # {}
  BY DEF SleepInv, NoStrandedSleeper
<1>3. Sleepers' # {} => state' = CONTENDED \/ Caretakers' # {}
  BY <1>1, <1>2
<1> QED
  BY <1>3 DEF NoStrandedSleeper

LEMMA UntimedStep ==
  ASSUME TimedCallers = {}, SleepInv, [Next]_vars
  PROVE  Untimed'
<1>1. CASE UNCHANGED vars
  BY <1>1 DEF vars, SleepInv, Untimed
<1>2. ASSUME NEW t \in Threads, Request(t) PROVE Untimed'
  BY <1>2 DEF Request, LockFast, LockAgain, LockSlow, LockNoWait, TrylockWin,
       TrylockFail, TrylockAgain, Return, SleepInv, TypeOK, Untimed
<1>3. ASSUME NEW t \in Threads, Continue(t) PROVE Untimed'
  BY <1>3 DEF Continue, StoreOwner, SpinWin, SpinGiveUp, LockContended,
       Announce, LoopWin, LoopLose, LoopTimeout, FutexWait, WokenLateWin,
       WokenLateTimeout, Reload, Mark, UnlockExchange, FutexWake, Return,
       SleepInv, TypeOK, Untimed
<1>4. ASSUME NEW t \in Threads,
             Unlock(t) \/ UnlockRefused(t) \/ FutexReturn(t) \/ DeadlinePasses(t)
      PROVE  Untimed'
  BY <1>4 DEF Unlock, UnlockRefused, UnlockNested, UnlockClear, FutexReturn,
       DeadlinePasses, Return, SleepInv, TypeOK, Untimed
<1> QED
  BY <1>1, <1>2, <1>3, <1>4 DEF Next

(* The slow path: a waiter is a caretaker until it sleeps on a CONTENDED   *)
(* word or takes the word as CONTENDED.                                    *)
LEMMA ContendedKeepsSleepers ==
  ASSUME SleepInv, NEW t \in Threads, LockContended(t)
  PROVE  NoStrandedSleeper'
<1>1. CASE Announce(t) \/ Mark(t)
  <2>1. pc' = [pc EXCEPT ![t] = "loop"] /\ (state = CONTENDED => state' = CONTENDED)
    BY <1>1 DEF Announce, Mark, Goto
  <2> QED
    BY <2>1, OthersStep DEF PCs
<1>2. CASE LoopWin(t) \/ WokenLateWin(t)
  BY <1>2 DEF LoopWin, WokenLateWin, Win, NoStrandedSleeper
<1>3. CASE LoopLose(t)
  <2>1. pc' = pc /\ state' = state
    BY <1>3 DEF LoopLose
  <2> QED
    BY <2>1 DEF SleepInv, NoStrandedSleeper, Sleepers, Caretakers
<1>4. CASE LoopTimeout(t) \/ WokenLateTimeout(t)
  BY <1>4 DEF LoopTimeout, WokenLateTimeout, SleepInv, Untimed
<1>5. CASE FutexWait(t)
  <2>1. CASE state = CONTENDED
    BY <1>5, <2>1 DEF FutexWait, NoStrandedSleeper
  <2>2. CASE state # CONTENDED
    BY <1>5, <2>2, OthersStep DEF FutexWait, Goto, PCs
  <2> QED
    BY <2>1, <2>2
<1>6. CASE Reload(t)
  BY <1>6, OthersStep DEF Reload, Goto, PCs
<1> QED
  BY <1>1, <1>2, <1>3, <1>4, <1>5, <1>6 DEF LockContended

LEMMA SleepStep ==
  ASSUME TimedCallers = {}, SleepInv, IInv, IInv', [Next]_vars
  PROVE  SleepInv'
<1>1. TypeOK' /\ Untimed'
  BY UntimedStep DEF IInv
<1>2. ASSUME UNCHANGED vars PROVE NoStrandedSleeper'
  BY <1>2 DEF vars, SleepInv, NoStrandedSleeper, Sleepers, Caretakers
<1>3. ASSUME NEW t \in Threads, Request(t) \/ Unlock(t) \/ UnlockRefused(t)
      PROVE  NoStrandedSleeper'
  <2>1. t \notin Caretakers
    BY <1>3 DEF Request, LockFast, LockAgain, LockSlow, LockNoWait, TrylockWin,
         TrylockFail, TrylockAgain, Unlock, UnlockRefused, UnlockNested,
         UnlockClear, Caretakers
  <2>2. PICK l \in {"idle", "won", "spin", "release"} : pc' = [pc EXCEPT ![t] = l]
    BY <1>3 DEF Request, LockFast, LockAgain, LockSlow, LockNoWait, TrylockWin,
         TrylockFail, TrylockAgain, Unlock, UnlockRefused, UnlockNested,
         UnlockClear, Win, Goto, Return
  <2>3. state = CONTENDED => state' = CONTENDED
    BY <1>3 DEF Request, LockFast, LockAgain, LockSlow, LockNoWait, TrylockWin,
         TrylockFail, TrylockAgain, Unlock, UnlockRefused, UnlockNested,
         UnlockClear, Win
  <2> QED
    BY <2>1, <2>2, <2>3, OthersStep DEF PCs
<1>4. ASSUME NEW t \in Threads, Continue(t)
      PROVE  NoStrandedSleeper'
  <2>1. CASE StoreOwner(t)
    BY <2>1, OthersStep DEF StoreOwner, Return, Caretakers, PCs
  <2>2. CASE SpinWin(t) \/ SpinGiveUp(t)
    BY <2>2, OthersStep DEF SpinWin, SpinGiveUp, Win, Goto, Caretakers, PCs
  <2>3. CASE LockContended(t)
    BY <2>3, ContendedKeepsSleepers
  <2>4. CASE UnlockExchange(t)
    <3>1. CASE state = CONTENDED
      BY <2>4, <3>1, MoveKeepsSleepers
         DEF UnlockExchange, Goto, SleepInv, NoStrandedSleeper, PCs
    <3>2. CASE state # CONTENDED
      BY <2>4, <3>2, OthersStep DEF UnlockExchange, Return, Caretakers, PCs
    <3> QED
      BY <3>1, <3>2
  <2>5. CASE FutexWake(t)
    <3>1. CASE Sleepers = {}
      <4>1. Sleepers' = {}
        BY <2>5, <3>1 DEF FutexWake, Goto, Sleepers, SleepInv, TypeOK
      <4> QED
        BY <4>1 DEF NoStrandedSleeper
    <3>2. CASE Sleepers # {}
      <4>1. PICK s \in Sleepers : pc' = [pc EXCEPT ![t] = "idle", ![s] = "woken"]
        BY <2>5, <3>2 DEF FutexWake
      <4>2. s \in Caretakers'
        BY <4>1 DEF Sleepers, Caretakers, SleepInv, TypeOK
      <4> QED
        BY <4>2 DEF NoStrandedSleeper
    <3> QED
      BY <3>1, <3>2
  <2> QED
    BY <1>4, <2>1, <2>2, <2>3, <2>4, <2>5 DEF Continue
<1>5. ASSUME NEW t \in Threads, FutexReturn(t)
      PROVE  NoStrandedSleeper'
  BY <1>5, OthersStep DEF FutexReturn, Goto, PCs
<1>6. ASSUME NEW t \in Threads, DeadlinePasses(t)
      PROVE  NoStrandedSleeper'
  BY <1>6 DEF DeadlinePasses, SleepInv, Untimed
<1>7. NoStrandedSleeper'
  BY <1>2, <1>3, <1>4, <1>5, <1>6 DEF Next
<1> QED
  BY <1>1, <1>7 DEF SleepInv

(* No lost wake-up: when no thread uses the timed lock, a thread asleep on *)
(* the futex is always answered for, by a CONTENDED word or by a thread    *)
(* awake.  With a timed caller this is false (run MutexStranded).          *)
THEOREM NoWakeupLost == TimedCallers = {} => (Spec => []NoStrandedSleeper)
<1> SUFFICES ASSUME TimedCallers = {} PROVE Spec => []NoStrandedSleeper
  OBVIOUS
<1>1. Init => SleepInv
  BY InitIInv DEF Init, SleepInv, IInv, Untimed, NoStrandedSleeper, Sleepers
<1>2. SleepInv /\ IInv /\ IInv' /\ [Next]_vars => SleepInv'
  BY SleepStep
<1>3. SleepInv => NoStrandedSleeper
  BY DEF SleepInv
<1> QED
  BY <1>1, <1>2, <1>3, InductiveInvariant, PTL DEF Spec

------------------------------------------------------------------------------
(* The refinement of AbstractMutex. *)

LEMMA HolderIs ==
  ASSUME IInv, NEW t \in Threads, Holds(t)
  PROVE  Holder = t
BY DEF IInv, WordInv, Holder

LEMMA NoHolder ==
  ASSUME \A t \in Threads : ~Holds(t)
  PROVE  Holder = NoThread
BY DEF Holder

(* A step that changes neither who holds the word nor count is a stutter.  *)
LEMMA SameHolder ==
  ASSUME IInv, IInv', \A t \in Threads : Holds(t)' <=> Holds(t)
  PROVE  Holder' = Holder
<1>1. CASE \A t \in Threads : ~Holds(t)
  BY <1>1 DEF Holder
<1>2. CASE \E t \in Threads : Holds(t)
  <2>1. PICK t \in Threads : Holds(t)
    BY <1>2
  <2>2. Holder = t
    BY <2>1, HolderIs
  <2>3. Holds(t)'
    BY <2>1
  <2>4. \A s \in Threads : Holds(s)' => s = t
    BY <2>3 DEF IInv, WordInv
  <2>5. Holder' = t
    BY <2>3, <2>4 DEF Holder
  <2> QED
    BY <2>2, <2>5
<1> QED
  BY <1>1, <1>2

LEMMA StutterStep ==
  ASSUME IInv, IInv', \A t \in Threads : Holds(t)' <=> Holds(t),
         UNCHANGED count
  PROVE  UNCHANGED Abstract!vars
<1>1. Holder' = Holder
  BY SameHolder
<1>2. Depth' = Depth
  BY <1>1 DEF Depth
<1> QED
  BY <1>1, <1>2 DEF Abstract!vars

(* Steps by a thread that does not have the word before or after. *)
LEMMA BystanderStutters ==
  ASSUME IInv, IInv', NEW t \in Threads, NEW l \in PCs \ {"won", "release"},
         pc[t] \notin {"won", "release"}, pc' = [pc EXCEPT ![t] = l],
         UNCHANGED <<owner, count>>
  PROVE  UNCHANGED Abstract!vars
<1>1. \A s \in Threads : pc'[s] = IF s = t THEN l ELSE pc[s]
  BY DEF IInv, TypeOK
<1>2. \A s \in Threads : Holds(s)' <=> Holds(s)
  BY <1>1 DEF Holds
<1> QED
  BY <1>2, StutterStep

LEMMA WinAcquires ==
  ASSUME IInv, IInv', NEW t \in Threads, NEW s \in {LOCKED, CONTENDED},
         Win(t, s), UNCHANGED <<owner, count>>
  PROVE  Abstract!Acquire(t)
<1>1. \A u \in Threads : ~Holds(u)
  BY DEF Win, IInv, WordInv
<1>2. Holder = NoThread
  BY <1>1, NoHolder
<1>3. Holds(t)'
  BY DEF Win, Goto, IInv, TypeOK, Holds
<1>4. \A u \in Threads : Holds(u)' => u = t
  BY <1>3 DEF IInv, WordInv
<1>5. Holder' = t
  BY <1>3, <1>4 DEF Holder
<1>6. owner = NoThread
  BY <1>1 DEF Holds, IInv, TypeOK
<1>7. count = 0 /\ t # NoThread
  BY <1>6 DEF IInv, OwnerInv
<1>8. Depth' = 1
  BY <1>5, <1>7 DEF Depth
<1> QED
  BY <1>2, <1>5, <1>8 DEF Abstract!Acquire

(* The owner counting a level up or down. *)
LEMMA DepthChanges ==
  ASSUME IInv, IInv', NEW t \in Threads, owner = t, UNCHANGED owner,
         Return(t, "OK"), count' # 0
  PROVE  Holder = t /\ Holder' = t /\ Depth = count /\ Depth' = count'
<1>1. Holds(t) /\ Holds(t)'
  BY DEF Holds
<1>2. Holder = t
  BY <1>1, HolderIs
<1>3. \A u \in Threads : Holds(u)' => u = t
  BY <1>1 DEF IInv, WordInv
<1>4. Holder' = t
  BY <1>1, <1>3 DEF Holder
<1>5. count # 0 /\ t # NoThread
  BY DEF IInv, OwnerInv
<1> QED
  BY <1>2, <1>4, <1>5 DEF Depth

LEMMA ReenterRefines ==
  ASSUME IInv, IInv', NEW t \in Threads, owner = t, UNCHANGED owner,
         Return(t, "OK"), Recursive, count < MaxCount, count' = count + 1
  PROVE  Abstract!Reenter(t)
<1>1. count' # 0
  BY DEF IInv, TypeOK
<1> QED
  BY <1>1, DepthChanges DEF Abstract!Reenter

LEMMA RequestRefines ==
  ASSUME IInv, IInv', NEW t \in Threads, Request(t)
  PROVE  [Abstract!Next]_(Abstract!vars)
<1>1. ASSUME NEW tm \in BOOLEAN, LockFast(t, tm) PROVE Abstract!Acquire(t)
  BY <1>1, WinAcquires DEF LockFast
<1>2. ASSUME NEW tm \in BOOLEAN, LockAgain(t, tm)
      PROVE  Abstract!Reenter(t) \/ UNCHANGED Abstract!vars
  <2>1. CASE Recursive /\ count < MaxCount
    BY <1>2, <2>1, ReenterRefines DEF LockAgain
  <2>2. CASE ~(Recursive /\ count < MaxCount)
    BY <1>2, <2>2, BystanderStutters DEF LockAgain, Return, PCs
  <2> QED
    BY <2>1, <2>2
<1>3. ASSUME NEW tm \in BOOLEAN, LockSlow(t, tm) PROVE UNCHANGED Abstract!vars
  BY <1>3, BystanderStutters DEF LockSlow, Goto, PCs
<1>4. CASE LockNoWait(t)
  BY <1>4, BystanderStutters DEF LockNoWait, Return, PCs
<1>5. CASE TrylockWin(t)
  <2>1. Abstract!Acquire(t)
    BY <1>5, WinAcquires DEF TrylockWin
  <2> QED
    BY <2>1 DEF Abstract!Next
<1>6. CASE TrylockFail(t)
  BY <1>6, BystanderStutters DEF TrylockFail, Return, PCs
<1>7. CASE TrylockAgain(t)
  <2>1. CASE Recursive /\ count < MaxCount
    <3>1. Abstract!Reenter(t)
      BY <1>7, <2>1, ReenterRefines DEF TrylockAgain
    <3> QED
      BY <3>1 DEF Abstract!Next
  <2>2. CASE ~(Recursive /\ count < MaxCount)
    BY <1>7, <2>2, BystanderStutters DEF TrylockAgain, Return, PCs
  <2> QED
    BY <2>1, <2>2
<1> QED
  BY <1>1, <1>2, <1>3, <1>4, <1>5, <1>6, <1>7 DEF Request, Abstract!Next

LEMMA ContinueRefines ==
  ASSUME IInv, IInv', NEW t \in Threads, Continue(t)
  PROVE  [Abstract!Next]_(Abstract!vars)
<1>1. CASE StoreOwner(t)
  <2>1. Holds(t) /\ Holds(t)'
    BY <1>1 DEF StoreOwner, Holds
  <2>2. Holder = t
    BY <2>1, HolderIs
  <2>3. \A u \in Threads : Holds(u)' => u = t
    BY <2>1 DEF IInv, WordInv
  <2>4. Holder' = t
    BY <2>1, <2>3 DEF Holder
  <2>5. owner = NoThread
    BY <1>1, <2>1 DEF StoreOwner, Holds, IInv, WordInv, OwnerInv, TypeOK
  <2>6. count = 0 /\ count' = 1 /\ t # NoThread
    BY <1>1, <2>5 DEF StoreOwner, IInv, OwnerInv
  <2>7. Depth = 1 /\ Depth' = 1
    BY <2>2, <2>4, <2>6 DEF Depth
  <2> QED
    BY <2>2, <2>4, <2>7 DEF Abstract!vars
<1>2. CASE SpinWin(t) \/ LoopWin(t) \/ WokenLateWin(t)
  <2>1. Abstract!Acquire(t)
    BY <1>2, WinAcquires DEF SpinWin, LoopWin, WokenLateWin
  <2> QED
    BY <2>1 DEF Abstract!Next
<1>3. CASE SpinGiveUp(t) \/ Announce(t) \/ FutexWait(t) \/ Reload(t) \/ Mark(t)
  <2>1. PICK l \in PCs \ {"won", "release"} : pc' = [pc EXCEPT ![t] = l]
    BY <1>3 DEF SpinGiveUp, Announce, FutexWait, Reload, Mark, Goto, PCs
  <2>2. pc[t] \notin {"won", "release"} /\ UNCHANGED <<owner, count>>
    BY <1>3 DEF SpinGiveUp, Announce, FutexWait, Reload, Mark
  <2> QED
    BY <2>1, <2>2, BystanderStutters
<1>4. CASE LoopLose(t)
  BY <1>4, StutterStep DEF LoopLose, Holds
<1>5. CASE LoopTimeout(t) \/ WokenLateTimeout(t)
  BY <1>5, BystanderStutters DEF LoopTimeout, WokenLateTimeout, Return, PCs
<1>6. CASE UnlockExchange(t)
  <2>1. Holds(t)
    BY <1>6 DEF UnlockExchange, Holds
  <2>2. Holder = t
    BY <2>1, HolderIs
  <2>3. \A u \in Threads : ~Holds(u)'
    BY <1>6 DEF UnlockExchange, IInv, WordInv
  <2>4. Holder' = NoThread
    BY <2>3 DEF Holder
  <2>5. owner = NoThread
    BY <1>6, <2>1 DEF UnlockExchange, Holds, IInv, WordInv, OwnerInv, TypeOK
  <2>6. count = 0 /\ t # NoThread
    BY <2>5 DEF IInv, OwnerInv
  <2>7. Depth = 1 /\ Depth' = 0
    BY <2>2, <2>4, <2>6 DEF Depth
  <2>8. Abstract!Release(t)
    BY <2>2, <2>4, <2>7 DEF Abstract!Release
  <2> QED
    BY <2>8 DEF Abstract!Next
<1>7. CASE FutexWake(t)
  <2>1. \A s \in Threads :
          \/ pc'[s] = pc[s]
          \/ pc'[s] \in {"idle", "woken"} /\ pc[s] \in {"wake", "asleep"}
    BY <1>7 DEF FutexWake, Goto, Sleepers, IInv, TypeOK
  <2>2. \A s \in Threads : Holds(s)' <=> Holds(s)
    BY <1>7, <2>1 DEF FutexWake, Holds
  <2> QED
    BY <1>7, <2>2, StutterStep DEF FutexWake
<1> QED
  BY <1>1, <1>2, <1>3, <1>4, <1>5, <1>6, <1>7 DEF Continue, LockContended

LEMMA UnlockRefines ==
  ASSUME IInv, IInv', NEW t \in Threads, Unlock(t) \/ UnlockRefused(t)
  PROVE  [Abstract!Next]_(Abstract!vars)
<1>1. CASE UnlockNested(t)
  <2>1. count' = count - 1 /\ count > 1 /\ count \in Nat
    BY <1>1 DEF UnlockNested, IInv, TypeOK
  <2>2. Holder = t /\ Holder' = t /\ Depth = count /\ Depth' = count'
    BY <1>1, <2>1, DepthChanges DEF UnlockNested
  <2>3. Abstract!Leave(t)
    BY <2>1, <2>2 DEF Abstract!Leave
  <2> QED
    BY <2>3 DEF Abstract!Next
<1>2. CASE UnlockClear(t)
  <2>1. Holds(t) /\ Holds(t)'
    BY <1>2 DEF UnlockClear, Goto, Holds, IInv, TypeOK
  <2>2. Holder = t
    BY <2>1, HolderIs
  <2>3. \A u \in Threads : Holds(u)' => u = t
    BY <2>1 DEF IInv, WordInv
  <2>4. Holder' = t
    BY <2>1, <2>3 DEF Holder
  <2>5. count = 1 /\ count' = 0 /\ t # NoThread
    BY <1>2 DEF UnlockClear, IInv, OwnerInv, TypeOK
  <2>6. Depth = 1 /\ Depth' = 1
    BY <2>2, <2>4, <2>5 DEF Depth
  <2> QED
    BY <2>2, <2>4, <2>6 DEF Abstract!vars
<1>3. CASE UnlockRefused(t)
  BY <1>3, BystanderStutters DEF UnlockRefused, Return, PCs
<1> QED
  BY <1>1, <1>2, <1>3 DEF Unlock

(* The futex mutex implements the abstract one: for any threads, limit and *)
(* timed callers, whatever a guest can see of who holds the mutex and how  *)
(* deeply is a behaviour of AbstractMutex.                                 *)
THEOREM MutexRefines == Spec => ImplementsAbstractMutex
<1>1. Init => Abstract!Init
  <2> SUFFICES ASSUME Init PROVE Abstract!Init
    OBVIOUS
  <2>1. \A t \in Threads : ~Holds(t)
    BY DEF Init, Holds
  <2>2. Holder = NoThread
    BY <2>1, NoHolder
  <2> QED
    BY <2>2 DEF Depth, Abstract!Init
<1>2. IInv /\ IInv' /\ [Next]_vars => [Abstract!Next]_(Abstract!vars)
  <2> SUFFICES ASSUME IInv, IInv', [Next]_vars
               PROVE  [Abstract!Next]_(Abstract!vars)
    OBVIOUS
  <2>1. ASSUME NEW t \in Threads, Request(t) \/ Continue(t) \/ Unlock(t) \/ UnlockRefused(t)
        PROVE  [Abstract!Next]_(Abstract!vars)
    BY <2>1, RequestRefines, ContinueRefines, UnlockRefines
  <2>2. ASSUME NEW t \in Threads, FutexReturn(t)
        PROVE  UNCHANGED Abstract!vars
    BY <2>2, BystanderStutters DEF FutexReturn, Goto, PCs
  <2>3. ASSUME NEW t \in Threads, DeadlinePasses(t)
        PROVE  UNCHANGED Abstract!vars
    BY <2>3, StutterStep DEF DeadlinePasses, Holds
  <2>4. CASE UNCHANGED vars
    BY <2>4, StutterStep DEF vars, Holds
  <2> QED
    BY <2>1, <2>2, <2>3, <2>4 DEF Next
<1> QED
  BY <1>1, <1>2, InductiveInvariant, PTL DEF Spec, ImplementsAbstractMutex, Abstract!Spec
==============================================================================
