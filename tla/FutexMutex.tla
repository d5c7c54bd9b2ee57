------------------------------ MODULE FutexMutex ------------------------------
(***************************************************************************)
(* The guest mutex of src/src/kernel/pthread.cpp: a three-state word       *)
(* (UNLOCKED, LOCKED, CONTENDED) moved by compare-and-swap, an owner field *)
(* stored AFTER the word is won and cleared BEFORE it is given up, and the *)
(* Linux futex for waiting.  One action is one atomic access to the shared *)
(* word (or the purely local work that follows it), so every interleaving  *)
(* of the code's atomic operations is a behaviour.                         *)
(*                                                                         *)
(* The kernel's futex queue is external: the sleepers are the threads      *)
(* whose pc is "asleep"; FUTEX_WAIT enqueues only while the word still     *)
(* holds the expected value, FUTEX_WAKE(1) releases some sleeper.          *)
(***************************************************************************)
EXTENDS Naturals

CONSTANTS Threads,        \* the guest threads
          NoThread,       \* the null Pthread
          TimedCallers,   \* the threads that may call the timed lock
          Recursive,      \* type == 2
          MaxCount        \* UINT32_MAX

ASSUME FutexMutexAssumption ==
  /\ NoThread \notin Threads
  /\ TimedCallers \subseteq Threads
  /\ Recursive \in BOOLEAN
  /\ MaxCount \in Nat \ {0}

VARIABLES
  state,     \* the futex word
  owner,     \* PthreadMutexPrivate::owner
  count,     \* PthreadMutexPrivate::count
  pc,        \* where each thread is in the lock or unlock code
  cur,       \* the local current_state of NativeMutexLockContended
  timed,     \* is the call in progress a timed one
  expired,   \* has the deadline of the call in progress passed
  held,      \* what the guest believes: locks that returned OK less unlocks
  result     \* what the thread's last call returned

vars == <<state, owner, count, pc, cur, timed, expired, held, result>>

UNLOCKED == 0
LOCKED == 1
CONTENDED == 2
MutexState == {UNLOCKED, LOCKED, CONTENDED}

Results == {"OK", "ETIMEDOUT", "EBUSY", "EDEADLK", "EPERM", "EAGAIN"}

PCs == {"idle",     \* in guest code
        "won",      \* won the word, owner and count not stored yet
        "spin",     \* the 16 adaptive spins
        "contend",  \* entering NativeMutexLockContended
        "loop",     \* head of its while (true)
        "asleep",   \* in FUTEX_WAIT
        "woken",    \* back from FUTEX_WAIT
        "mark",     \* saw LOCKED, about to announce itself
        "release",  \* owner cleared, word not exchanged yet
        "wake"}     \* exchanged a CONTENDED word, FUTEX_WAKE not done yet

Sleepers == {t \in Threads : pc[t] = "asleep"}

Init ==
  /\ state = UNLOCKED
  /\ owner = NoThread
  /\ count = 0
  /\ pc = [t \in Threads |-> "idle"]
  /\ cur = [t \in Threads |-> UNLOCKED]
  /\ timed = [t \in Threads |-> FALSE]
  /\ expired = [t \in Threads |-> FALSE]
  /\ held = [t \in Threads |-> 0]
  /\ result = [t \in Threads |-> "OK"]

(* The call of t returns r and its locals die. *)
Return(t, r) ==
  /\ pc' = [pc EXCEPT ![t] = "idle"]
  /\ cur' = [cur EXCEPT ![t] = UNLOCKED]
  /\ timed' = [timed EXCEPT ![t] = FALSE]
  /\ expired' = [expired EXCEPT ![t] = FALSE]
  /\ result' = [result EXCEPT ![t] = r]

Goto(t, l) == pc' = [pc EXCEPT ![t] = l]

(* Fault: a store where the code has a compare-and-swap. *)
WinByStore(t, s) ==
  /\ state' = s
  /\ Goto(t, "won")

(* Compare-and-swap of the word from UNLOCKED to s, succeeding. *)
Win(t, s) ==
  /\ state = UNLOCKED
  /\ state' = s
  /\ Goto(t, "won")

------------------------------------------------------------------------------
(* NativeMutexLock *)

(* The fast path, for a plain or a timed call. *)
LockFast(t, tm) ==
  /\ pc[t] = "idle"
  /\ tm => t \in TimedCallers
  /\ Win(t, LOCKED)
  /\ timed' = [timed EXCEPT ![t] = tm]
  /\ UNCHANGED <<owner, count, cur, expired, held, result>>

(* owner.store(self); count = 1; return OK. *)
StoreOwner(t) ==
  /\ pc[t] = "won"
  /\ owner' = t
  /\ count' = 1
  /\ held' = [held EXCEPT ![t] = 1]
  /\ Return(t, "OK")
  /\ UNCHANGED state

(* Fault: the recursion depth is not checked against its limit. *)
LockAgainUnbounded(t, tm) ==
  /\ pc[t] = "idle"
  /\ tm => t \in TimedCallers
  /\ state # UNLOCKED
  /\ owner = t
  /\ Recursive
  /\ count' = count + 1
  /\ held' = [held EXCEPT ![t] = @ + 1]
  /\ Return(t, "OK")
  /\ UNCHANGED <<state, owner>>

(* The word is taken, and by the caller itself: a recursive mutex counts,  *)
(* any other refuses (a timed call sleeps its time away first).            *)
LockAgain(t, tm) ==
  /\ pc[t] = "idle"
  /\ tm => t \in TimedCallers
  /\ state # UNLOCKED
  /\ owner = t
  /\ IF Recursive /\ count < MaxCount
       THEN /\ count' = count + 1
            /\ held' = [held EXCEPT ![t] = @ + 1]
            /\ Return(t, "OK")
       ELSE /\ Return(t, CASE Recursive -> "EAGAIN"
                           [] ~Recursive /\ tm -> "ETIMEDOUT"
                           [] OTHER -> "EDEADLK")
            /\ UNCHANGED <<count, held>>
  /\ UNCHANGED <<state, owner>>

(* The word is taken by another thread: a zero timeout gives up at once... *)
LockNoWait(t) ==
  /\ pc[t] = "idle"
  /\ t \in TimedCallers
  /\ state # UNLOCKED
  /\ owner # t
  /\ Return(t, "ETIMEDOUT")
  /\ UNCHANGED <<state, owner, count, held>>

(* ... and any other call goes on to spin. *)
LockSlow(t, tm) ==
  /\ pc[t] = "idle"
  /\ tm => t \in TimedCallers
  /\ state # UNLOCKED
  /\ owner # t
  /\ Goto(t, "spin")
  /\ timed' = [timed EXCEPT ![t] = tm]
  /\ UNCHANGED <<state, owner, count, cur, expired, held, result>>

(* A spin that wins the word as the fast path does.  The deadline is only  *)
(* computed by NativeMutexLockContended: spinning never expires.           *)
SpinWin(t) ==
  /\ pc[t] = "spin"
  /\ Win(t, LOCKED)
  /\ UNCHANGED <<owner, count, cur, timed, expired, held, result>>

(* All the spins failed (the last of them may be a while ago, or spurious).*)
SpinGiveUp(t) ==
  /\ pc[t] = "spin"
  /\ Goto(t, "contend")
  /\ UNCHANGED <<state, owner, count, cur, timed, expired, held, result>>

------------------------------------------------------------------------------
(* NativeMutexLockContended *)

(* The entry loop: announce a waiter on a LOCKED word. *)
Announce(t) ==
  /\ pc[t] = "contend"
  /\ state' = IF state = LOCKED THEN CONTENDED ELSE state
  /\ cur' = [cur EXCEPT ![t] = IF state = UNLOCKED THEN UNLOCKED ELSE CONTENDED]
  /\ Goto(t, "loop")
  /\ UNCHANGED <<owner, count, timed, expired, held, result>>

(* current_state == UNLOCKED: try to take the word, as CONTENDED because   *)
(* other waiters may exist.                                                *)
LoopWin(t) ==
  /\ pc[t] = "loop"
  /\ cur[t] = UNLOCKED
  /\ Win(t, CONTENDED)
  /\ UNCHANGED <<owner, count, cur, timed, expired, held, result>>

LoopLose(t) ==
  /\ pc[t] = "loop"
  /\ cur[t] = UNLOCKED
  /\ state # UNLOCKED
  /\ cur' = [cur EXCEPT ![t] = state]
  /\ UNCHANGED <<state, owner, count, pc, timed, expired, held, result>>

(* The deadline is checked before sleeping. *)
LoopTimeout(t) ==
  /\ pc[t] = "loop"
  /\ cur[t] # UNLOCKED
  /\ expired[t]
  /\ Return(t, "ETIMEDOUT")
  /\ UNCHANGED <<state, owner, count, held>>

(* FUTEX_WAIT: sleep only if the word still says CONTENDED. *)
FutexWait(t) ==
  /\ pc[t] = "loop"
  /\ cur[t] # UNLOCKED
  /\ ~expired[t]
  /\ Goto(t, IF state = CONTENDED THEN "asleep" ELSE "woken")
  /\ UNCHANGED <<state, owner, count, cur, timed, expired, held, result>>

(* FUTEX_WAIT returns without a wake: its time is up, a host signal        *)
(* interrupted it, or the 10 ms slice of a thread with pending guest       *)
(* signals ended.                                                          *)
FutexReturn(t) ==
  /\ pc[t] = "asleep"
  /\ Goto(t, "woken")
  /\ UNCHANGED <<state, owner, count, cur, timed, expired, held, result>>

(* steady_clock reaches the deadline of a timed call. *)
DeadlinePasses(t) ==
  /\ pc[t] \in {"loop", "asleep", "woken", "mark"}
  /\ timed[t]
  /\ ~expired[t]
  /\ expired' = [expired EXCEPT ![t] = TRUE]
  /\ UNCHANGED <<state, owner, count, pc, cur, timed, held, result>>

(* Back from FUTEX_WAIT after the deadline: one last compare-and-swap. *)
WokenLateWin(t) ==
  /\ pc[t] = "woken"
  /\ expired[t]
  /\ Win(t, CONTENDED)
  /\ UNCHANGED <<owner, count, cur, timed, expired, held, result>>

WokenLateTimeout(t) ==
  /\ pc[t] = "woken"
  /\ expired[t]
  /\ state # UNLOCKED
  /\ Return(t, "ETIMEDOUT")
  /\ UNCHANGED <<state, owner, count, held>>

(* Back from FUTEX_WAIT in time: reload the word ... *)
Reload(t) ==
  /\ pc[t] = "woken"
  /\ ~expired[t]
  /\ cur' = [cur EXCEPT ![t] = state]
  /\ Goto(t, IF state = LOCKED THEN "mark" ELSE "loop")
  /\ UNCHANGED <<state, owner, count, timed, expired, held, result>>

(* ... and announce itself again; current_state is CONTENDED afterwards    *)
(* whether or not the compare-and-swap succeeded.                          *)
Mark(t) ==
  /\ pc[t] = "mark"
  /\ state' = IF state = LOCKED THEN CONTENDED ELSE state
  /\ cur' = [cur EXCEPT ![t] = CONTENDED]
  /\ Goto(t, "loop")
  /\ UNCHANGED <<owner, count, timed, expired, held, result>>

------------------------------------------------------------------------------
(* NativeMutexTrylock: the owner test, then one compare-and-swap. *)

TrylockWin(t) ==
  /\ pc[t] = "idle"
  /\ owner # t
  /\ Win(t, LOCKED)
  /\ UNCHANGED <<owner, count, cur, timed, expired, held, result>>

TrylockFail(t) ==
  /\ pc[t] = "idle"
  /\ owner # t
  /\ state # UNLOCKED
  /\ Return(t, "EBUSY")
  /\ UNCHANGED <<state, owner, count, held>>

TrylockAgain(t) ==
  /\ pc[t] = "idle"
  /\ owner = t
  /\ IF Recursive /\ count < MaxCount
       THEN /\ count' = count + 1
            /\ held' = [held EXCEPT ![t] = @ + 1]
            /\ Return(t, "OK")
       ELSE /\ Return(t, IF Recursive THEN "EAGAIN" ELSE "EBUSY")
            /\ UNCHANGED <<count, held>>
  /\ UNCHANGED <<state, owner>>

------------------------------------------------------------------------------
(* NativeMutexUnlock *)

UnlockRefused(t) ==
  /\ pc[t] = "idle"
  /\ owner # t
  /\ Return(t, "EPERM")
  /\ UNCHANGED <<state, owner, count, held>>

UnlockNested(t) ==
  /\ pc[t] = "idle"
  /\ owner = t
  /\ Recursive
  /\ count > 1
  /\ count' = count - 1
  /\ held' = [held EXCEPT ![t] = @ - 1]
  /\ Return(t, "OK")
  /\ UNCHANGED <<state, owner>>

(* Fault: a recursive mutex freed whatever its depth. *)
UnlockClearAtOnce(t) ==
  /\ pc[t] = "idle"
  /\ owner = t
  /\ owner' = NoThread
  /\ count' = 0
  /\ held' = [held EXCEPT ![t] = @ - 1]
  /\ Goto(t, "release")
  /\ UNCHANGED <<state, cur, timed, expired, result>>

(* owner.store(nullptr); count = 0: from here the guest no longer holds    *)
(* the mutex, although the word still says so.                             *)
UnlockClear(t) ==
  /\ pc[t] = "idle"
  /\ owner = t
  /\ ~(Recursive /\ count > 1)
  /\ owner' = NoThread
  /\ count' = 0
  /\ held' = [held EXCEPT ![t] = @ - 1]
  /\ Goto(t, "release")
  /\ UNCHANGED <<state, cur, timed, expired, result>>

(* Fault: the previous value is tested against LOCKED. *)
UnlockExchangeWrongTest(t) ==
  /\ pc[t] = "release"
  /\ state' = UNLOCKED
  /\ IF state = LOCKED
       THEN Goto(t, "wake") /\ UNCHANGED <<cur, timed, expired, result>>
       ELSE Return(t, "OK")
  /\ UNCHANGED <<owner, count, held>>

(* state.exchange(UNLOCKED) and the test of its previous value. *)
UnlockExchange(t) ==
  /\ pc[t] = "release"
  /\ state' = UNLOCKED
  /\ IF state = CONTENDED
       THEN Goto(t, "wake") /\ UNCHANGED <<cur, timed, expired, result>>
       ELSE Return(t, "OK")
  /\ UNCHANGED <<owner, count, held>>

(* FUTEX_WAKE(1): the waker returns, and one sleeper too if there is one. *)
FutexWake(t) ==
  /\ pc[t] = "wake"
  /\ \/ /\ Sleepers = {}
        /\ Goto(t, "idle")
     \/ \E s \in Sleepers : pc' = [pc EXCEPT ![t] = "idle", ![s] = "woken"]
  /\ result' = [result EXCEPT ![t] = "OK"]
  /\ UNCHANGED <<state, owner, count, cur, timed, expired, held>>

------------------------------------------------------------------------------
LockContended(t) ==
  \/ Announce(t) \/ LoopWin(t) \/ LoopLose(t) \/ LoopTimeout(t)
  \/ FutexWait(t) \/ WokenLateWin(t) \/ WokenLateTimeout(t)
  \/ Reload(t) \/ Mark(t)

(* The start of a guest call that asks for the mutex. *)
Request(t) ==
  \/ \E tm \in BOOLEAN : LockFast(t, tm) \/ LockAgain(t, tm) \/ LockSlow(t, tm)
  \/ LockNoWait(t)
  \/ TrylockWin(t) \/ TrylockFail(t) \/ TrylockAgain(t)

(* The rest of a call, which the host scheduler must let run. *)
Continue(t) ==
  \/ StoreOwner(t)
  \/ SpinWin(t) \/ SpinGiveUp(t)
  \/ LockContended(t)
  \/ UnlockExchange(t) \/ FutexWake(t)

(* A holder giving one level of the mutex back. *)
Unlock(t) == UnlockNested(t) \/ UnlockClear(t)

Next ==
  \E t \in Threads :
    \/ Request(t) \/ Continue(t) \/ Unlock(t) \/ UnlockRefused(t)
    \/ FutexReturn(t) \/ DeadlinePasses(t)

Spec == Init /\ [][Next]_vars

(* The host runs every thread that can run, a holder eventually unlocks,   *)
(* and time passes.  Nothing is assumed about new calls, about which       *)
(* sleeper FUTEX_WAKE picks, or about FUTEX_WAIT returning by itself.      *)
Fairness ==
  \A t \in Threads :
    /\ WF_vars(Continue(t))
    /\ WF_vars(Unlock(t))
    /\ WF_vars(DeadlinePasses(t))

FairSpec == Spec /\ Fairness

------------------------------------------------------------------------------
(* Properties *)

(* Every variable keeps its type; the locals of a call are reset on return. *)
TypeOK ==
  /\ state \in MutexState
  /\ owner \in Threads \cup {NoThread}
  /\ count \in 0..MaxCount
  /\ pc \in [Threads -> PCs]
  /\ cur \in [Threads -> MutexState]
  /\ timed \in [Threads -> BOOLEAN]
  /\ expired \in [Threads -> BOOLEAN]
  /\ held \in [Threads -> 0..MaxCount]
  /\ result \in [Threads -> Results]

(* Two threads never both hold locks the mutex told them they had: the     *)
(* compare-and-swaps, the late owner store and the early owner clear never *)
(* let a second caller through.                                            *)
MutualExclusion ==
  \A s, t \in Threads : held[s] > 0 /\ held[t] > 0 => s = t

(* The owner and count fields always agree with the guest's own tally, so  *)
(* a holder's unlock is never refused, a stranger's always is, and a       *)
(* recursive mutex is freed by exactly as many unlocks as locks.           *)
OwnerAgrees ==
  \A t \in Threads :
    /\ held[t] > 0 <=> owner = t
    /\ held[t] > 0 => held[t] = count

(* Threads on their way to the mutex that will look at the word again, or  *)
(* to a FUTEX_WAKE: whoever sleeps meanwhile will not be forgotten.        *)
Caretakers ==
  {t \in Threads : pc[t] \in {"contend", "loop", "woken", "mark", "wake"}}

(* No wake-up is lost: while a thread sleeps on the futex, either the word *)
(* says CONTENDED, so that the unlock to come will wake somebody, or some  *)
(* thread is awake that will make it say so or will wake the sleeper.      *)
NoStrandedSleeper ==
  Sleepers # {} => state = CONTENDED \/ Caretakers # {}

(* If no call is a timed one and from some time on the guest asks for      *)
(* nothing more, every call still waiting for the mutex returns: nobody is *)
(* left asleep on a free lock.                                             *)
NoWaiterLeftBehind ==
  [](\A t \in Threads : ~timed[t]) /\ <>[][\A t \in Threads : ~Request(t)]_vars
    => <>[](\A t \in Threads : pc[t] = "idle")

(* Who really has the word: its owner, the thread that has won it and not  *)
(* said so, or the one that has cleared owner and not exchanged it.        *)
Holds(t) == owner = t \/ pc[t] \in {"won", "release"}

Holder ==
  IF \E t \in Threads : Holds(t) THEN CHOOSE t \in Threads : Holds(t) ELSE NoThread

Depth ==
  CASE Holder = NoThread -> 0
    [] Holder # NoThread /\ count = 0 -> 1
    [] OTHER -> count

Abstract == INSTANCE AbstractMutex WITH holder <- Holder, depth <- Depth

(* The code implements the abstract mutex: a step that takes the word is   *)
(* an acquisition by that thread alone, the exchange in unlock is the      *)
(* release, and no other step changes who holds the mutex or how deeply.   *)
ImplementsAbstractMutex == Abstract!Spec
==============================================================================
