----------------------------- MODULE CondVarProofs -----------------------------
(***************************************************************************)
(* Proofs about CondVar, for every set of threads, both kinds of mutex and *)
(* every recursion depth.                                                  *)
(***************************************************************************)
EXTENDS CondVar, SequenceTheorems, TLAPS

(* A newcomer at the end of the queue. *)
LEMMA AppendFacts ==
  ASSUME NEW S, NEW s \in Seq(S), NEW e \in S
  PROVE  /\ Append(s, e) \in Seq(S)
         /\ Range(Append(s, e)) = Range(s) \cup {e}
         /\ e \notin Range(s) /\ IsInjective(s) => IsInjective(Append(s, e))
<1> DEFINE a == Append(s, e)
<1>1. /\ a \in Seq(S) /\ Len(a) = Len(s) + 1 /\ Len(s) \in Nat
      /\ \A i \in 1..Len(s) : a[i] = s[i]
      /\ a[Len(s) + 1] = e
      /\ DOMAIN a = 1..(Len(s) + 1) /\ DOMAIN s = 1..Len(s)
  BY AppendProperties, LenProperties
<1> HIDE DEF a
<1>2. Range(a) = Range(s) \cup {e}
  BY <1>1 DEF Range
<1>3. e \notin Range(s) /\ IsInjective(s) => IsInjective(a)
  BY <1>1 DEF IsInjective, Range
<1> QED
  BY <1>1, <1>2, <1>3 DEF a

LEMMA TailFacts ==
  ASSUME NEW S, NEW s \in Seq(S), IsInjective(s), s # <<>>
  PROVE  /\ Tail(s) \in Seq(S) /\ Head(s) \in Range(s)
         /\ Range(Tail(s)) = Range(s) \ {Head(s)}
         /\ IsInjective(Tail(s))
<1> DEFINE r == Tail(s)
<1>1. /\ r \in Seq(S) /\ Len(r) = Len(s) - 1 /\ Len(s) \in Nat \ {0}
      /\ \A j \in 1..(Len(s) - 1) : r[j] = s[j + 1]
      /\ DOMAIN r = 1..(Len(s) - 1) /\ DOMAIN s = 1..Len(s)
  BY HeadTailProperties, LenProperties, EmptySeq
<1>2. Head(s) = s[1] /\ Head(s) \in Range(s)
  BY <1>1 DEF Range
<1> HIDE DEF r
<1>3. IsInjective(r)
  BY <1>1 DEF IsInjective
<1>4. Range(r) \subseteq Range(s) \ {Head(s)}
  BY <1>1, <1>2 DEF IsInjective, Range
<1>5. ASSUME NEW x \in Range(s) \ {Head(s)} PROVE x \in Range(r)
  <2>1. PICK j \in 1..Len(s) : s[j] = x /\ j # 1
    BY <1>1, <1>2 DEF Range
  <2>2. j - 1 \in 1..(Len(s) - 1) /\ r[j - 1] = x
    BY <1>1, <2>1
  <2> QED
    BY <1>1, <2>2 DEF Range
<1> QED
  BY <1>1, <1>2, <1>3, <1>4, <1>5 DEF r

(* All of a queue but its last member. *)
LEMMA FrontFacts ==
  ASSUME NEW S, NEW s \in Seq(S), s # <<>>
  PROVE  /\ Front(s) \in Seq(S)
         /\ Range(Front(s)) \subseteq Range(s)
         /\ s = Append(Front(s), s[Len(s)])
         /\ IsInjective(s) => s[Len(s)] \notin Range(Front(s))
<1> DEFINE f == Front(s)
           last == s[Len(s)]
<1>1. Len(s) \in Nat \ {0} /\ DOMAIN s = 1..Len(s) /\ \A i \in 1..Len(s) : s[i] \in S
  BY EmptySeq, LenProperties, ElementOfSeq
<1>2. /\ f \in Seq(S) /\ Len(f) = Len(s) - 1
      /\ \A i \in 1..(Len(s) - 1) : f[i] = s[i]
  <2>1. \A i \in 1..(Len(s) - 1) : s[i] \in S
    BY <1>1
  <2>2. /\ SubSeq(s, 1, Len(s) - 1) \in Seq(S)
        /\ Len(SubSeq(s, 1, Len(s) - 1))
             = IF 1 <= Len(s) - 1 THEN (Len(s) - 1) - 1 + 1 ELSE 0
        /\ \A i \in 1..((Len(s) - 1) - 1 + 1) : SubSeq(s, 1, Len(s) - 1)[i] = s[1 + i - 1]
    BY <1>1, <2>1, SubSeqProperties
  <2>3. f = SubSeq(s, 1, Len(s) - 1)
    BY DEF Front
  <2> HIDE DEF f
  <2> QED
    BY <1>1, <2>2, <2>3
<1> HIDE DEF f
<1>3. DOMAIN f = 1..(Len(s) - 1) /\ last \in S
  BY <1>1, <1>2, LenProperties
<1>4. Range(f) \subseteq Range(s)
  BY <1>1, <1>2, <1>3 DEF Range
<1>5. IsInjective(s) => last \notin Range(f)
  BY <1>1, <1>2, <1>3 DEF Range, IsInjective
<1> HIDE DEF last
<1>6. /\ Append(f, last) \in Seq(S) /\ Len(Append(f, last)) = Len(s)
      /\ \A i \in 1..(Len(s) - 1) : Append(f, last)[i] = s[i]
      /\ Append(f, last)[Len(s)] = last
  <2>1. /\ Append(f, last) \in Seq(S) /\ Len(Append(f, last)) = Len(f) + 1
        /\ \A i \in 1..Len(f) : Append(f, last)[i] = f[i]
        /\ Append(f, last)[Len(f) + 1] = last
    BY <1>2, <1>3, AppendProperties
  <2>2. Len(f) + 1 = Len(s)
    BY <1>1, <1>2
  <2> QED
    BY <1>2, <2>1, <2>2
<1>7. \A i \in 1..Len(s) : s[i] = Append(f, last)[i]
  BY <1>1, <1>6 DEF last
<1>8. s = Append(f, last)
  BY <1>6, <1>7, SeqEqual
<1> QED
  BY <1>2, <1>4, <1>5, <1>8 DEF f, last

(* Dropping the newcomer again. *)
LEMMA FrontOfAppend ==
  ASSUME NEW S, NEW s \in Seq(S), NEW e \in S
  PROVE  Front(Append(s, e)) = s
<1>1. Append(s, e) \in Seq(S) /\ Append(s, e) # <<>> /\ Append(s, e)[Len(Append(s, e))] = e
  BY AppendProperties, LenProperties
<1>2. /\ Front(Append(s, e)) \in Seq(S)
      /\ Append(s, e) = Append(Front(Append(s, e)), e)
  BY <1>1, FrontFacts
<1> QED
  BY <1>2, AppendInjective

(* The queue without its i-th member. *)
LEMMA RemoveAtElements ==
  ASSUME NEW S, NEW s \in Seq(S), NEW i \in 1..Len(s)
  PROVE  /\ RemoveAt(s, i) \in Seq(S)
         /\ Len(RemoveAt(s, i)) = Len(s) - 1
         /\ \A j \in 1..(Len(s) - 1) :
              RemoveAt(s, i)[j] = IF j < i THEN s[j] ELSE s[j + 1]
<1>1. Len(s) \in Nat /\ \A j \in 1..Len(s) : s[j] \in S
  BY LenProperties, ElementOfSeq
<1> DEFINE front == SubSeq(s, 1, i - 1)
           back == SubSeq(s, i + 1, Len(s))
<1>2. /\ front \in Seq(S) /\ Len(front) = i - 1
      /\ \A j \in 1..(i - 1) : front[j] = s[j]
  <2>1. \A j \in 1..(i - 1) : s[j] \in S
    BY <1>1
  <2> QED
    BY <1>1, <2>1, SubSeqProperties
<1>3. /\ back \in Seq(S) /\ Len(back) = Len(s) - i
      /\ \A j \in 1..(Len(s) - i) : back[j] = s[j + i]
  <2>1. \A j \in (i + 1)..Len(s) : s[j] \in S
    BY <1>1
  <2>2. /\ back \in Seq(S)
        /\ Len(back) = IF i + 1 <= Len(s) THEN Len(s) - (i + 1) + 1 ELSE 0
        /\ \A j \in 1..(Len(s) - (i + 1) + 1) : back[j] = s[(i + 1) + j - 1]
    BY <1>1, <2>1, SubSeqProperties
  <2> HIDE DEF back
  <2> QED
    BY <1>1, <2>2
<1> HIDE DEF front, back
<1> DEFINE both == front \o back
<1>4. /\ both \in Seq(S)
      /\ Len(both) = Len(front) + Len(back)
      /\ \A j \in 1..(Len(front) + Len(back)) :
           both[j] = IF j <= Len(front) THEN front[j] ELSE back[j - Len(front)]
  BY <1>2, <1>3, ConcatProperties
<1> HIDE DEF both
<1>5. Len(both) = Len(s) - 1
  BY <1>1, <1>2, <1>3, <1>4
<1>6. ASSUME NEW j \in 1..(Len(s) - 1)
      PROVE  both[j] = IF j < i THEN s[j] ELSE s[j + 1]
  <2>1. both[j] = IF j <= i - 1 THEN front[j] ELSE back[j - (i - 1)]
    BY <1>1, <1>2, <1>3, <1>4
  <2>2. CASE j < i
    BY <1>1, <1>2, <2>1, <2>2
  <2>3. CASE ~(j < i)
    <3>1. j - (i - 1) \in 1..(Len(s) - i) /\ (j - (i - 1)) + i = j + 1
      BY <1>1, <2>3
    <3> QED
      BY <1>1, <1>3, <2>1, <2>3, <3>1
  <2> QED
    BY <2>2, <2>3
<1> QED
  BY <1>4, <1>5, <1>6 DEF RemoveAt, both, front, back

LEMMA RemoveAtFacts ==
  ASSUME NEW S, NEW s \in Seq(S), IsInjective(s), NEW i \in 1..Len(s)
  PROVE  /\ RemoveAt(s, i) \in Seq(S)
         /\ Range(RemoveAt(s, i)) = Range(s) \ {s[i]}
         /\ IsInjective(RemoveAt(s, i))
<1> DEFINE r == RemoveAt(s, i)
<1>1. /\ r \in Seq(S) /\ Len(r) = Len(s) - 1 /\ Len(s) \in Nat
      /\ \A j \in 1..(Len(s) - 1) : r[j] = IF j < i THEN s[j] ELSE s[j + 1]
      /\ DOMAIN r = 1..(Len(s) - 1) /\ DOMAIN s = 1..Len(s)
  BY RemoveAtElements, LenProperties
<1> HIDE DEF r
<1>2. IsInjective(r)
  BY <1>1 DEF IsInjective
<1>3. Range(r) \subseteq Range(s) \ {s[i]}
  BY <1>1 DEF IsInjective, Range
<1>4. ASSUME NEW x \in Range(s) \ {s[i]} PROVE x \in Range(r)
  <2>1. PICK j \in 1..Len(s) : s[j] = x /\ j # i
    BY <1>1 DEF Range
  <2>2. CASE j < i
    BY <1>1, <2>1, <2>2 DEF Range
  <2>3. CASE j > i
    <3>1. j - 1 \in 1..(Len(s) - 1) /\ r[j - 1] = s[j]
      BY <1>1, <2>1, <2>3
    <3> QED
      BY <1>1, <2>1, <3>1 DEF Range
  <2> QED
    BY <2>1, <2>2, <2>3
<1> QED
  BY <1>1, <1>2, <1>3, <1>4 DEF r


(* A thread outside a wait has not been chosen by a signal. *)
GuestInv == \A t \in Threads : pc[t] = "guest" => ~ready[t]

IInv == TypeOK /\ WaitersExact /\ GuestInv

USE CondAssumption DEF CondAssumption

------------------------------------------------------------------------------
LEMMA InitIInv == Init => IInv
<1> SUFFICES ASSUME Init PROVE IInv
  OBVIOUS
<1>1. waiters = <<>> /\ <<>> \in Seq(Threads) /\ DOMAIN <<>> = {}
  BY EmptySeq DEF Init
<1>2. IsInjective(waiters) /\ Range(waiters) = {}
  BY <1>1 DEF IsInjective, Range
<1>3. TypeOK
  BY <1>1, <1>2 DEF Init, TypeOK, Mutex!Init, Mutex!TypeOK, PCs
<1> QED
  BY <1>2, <1>3 DEF Init, IInv, WaitersExact, GuestInv, InWait

(* A step that leaves the queue, the choices and the places alone. *)
LEMMA MutexStep ==
  ASSUME IInv, Mutex!TypeOK', UNCHANGED <<m, waiters, ready, pc, recurse, timed, expired, result>>
  PROVE  IInv'
BY DEF IInv, TypeOK, WaitersExact, GuestInv, InWait

LEMMA GuestStep ==
  ASSUME IInv, NEW t \in Threads, Locks(t) \/ Unlocks(t)
  PROVE  IInv'
<1>1. Mutex!TypeOK'
  BY DEF IInv, TypeOK, Locks, Unlocks, Mutex!TypeOK, Mutex!Acquire, Mutex!Reenter,
         Mutex!Leave, Mutex!Release
<1> QED
  BY <1>1, MutexStep DEF Locks, Unlocks

LEMMA JoinStep ==
  ASSUME IInv, NEW t \in Threads, NEW tm \in {"no", "zero", "deadline"}, JoinWaiters(t, tm)
  PROVE  IInv'
<1>1. t \notin Range(waiters) /\ ~ready[t]
  BY DEF JoinWaiters, IInv, WaitersExact, GuestInv, InWait
<1>2. /\ waiters' \in Seq(Threads) /\ IsInjective(waiters')
      /\ Range(waiters') = Range(waiters) \cup {t}
  BY <1>1, AppendFacts DEF JoinWaiters, IInv, TypeOK
<1>3. TypeOK'
  BY <1>2 DEF JoinWaiters, IInv, TypeOK, Mutex!TypeOK, PCs
<1>4. InWait' = InWait \cup {t}
  BY DEF JoinWaiters, IInv, TypeOK, InWait
<1>5. WaitersExact'
  BY <1>1, <1>2, <1>4 DEF JoinWaiters, IInv, WaitersExact
<1>6. GuestInv'
  BY DEF JoinWaiters, IInv, TypeOK, GuestInv
<1> QED
  BY <1>3, <1>5, <1>6 DEF IInv

(* A thread moves inside its wait. *)
LEMMA InsideStep ==
  ASSUME IInv, NEW t \in Threads,
         UnlockAll(t) \/ Sleep(t) \/ TakeHostMutex(t) \/ DeadlinePasses(t) \/ SleepEnds(t)
  PROVE  IInv'
<1>1. TypeOK'
  <2>1. CASE UnlockAll(t)
    BY <2>1 DEF UnlockAll, IInv, TypeOK, Mutex!TypeOK, PCs
  <2>2. CASE Sleep(t) \/ TakeHostMutex(t) \/ SleepEnds(t)
    BY <2>2 DEF Sleep, TakeHostMutex, SleepEnds, IInv, TypeOK, Mutex!TypeOK, PCs
  <2>3. CASE DeadlinePasses(t)
    BY <2>3 DEF DeadlinePasses, IInv, TypeOK, Mutex!TypeOK
  <2> QED
    BY <2>1, <2>2, <2>3
<1>2. InWait' = InWait /\ UNCHANGED <<waiters, ready>>
  BY DEF UnlockAll, Sleep, TakeHostMutex, DeadlinePasses, SleepEnds, IInv, TypeOK, InWait
<1>3. GuestInv'
  BY DEF UnlockAll, Sleep, TakeHostMutex, DeadlinePasses, SleepEnds, IInv, TypeOK, GuestInv
<1> QED
  BY <1>1, <1>2, <1>3 DEF IInv, WaitersExact

LEMMA LeaveStep ==
  ASSUME IInv, NEW t \in Threads, LeaveLoop(t)
  PROVE  IInv'
<1>1. /\ waiters' \in Seq(Threads) /\ IsInjective(waiters')
      /\ Range(waiters') = Range(waiters) \ {t}
  <2>1. CASE t \notin Range(waiters) /\ UNCHANGED waiters
    BY <2>1 DEF IInv, TypeOK
  <2>2. ASSUME NEW i \in DOMAIN waiters, waiters[i] = t, waiters' = RemoveAt(waiters, i)
        PROVE  /\ waiters' \in Seq(Threads) /\ IsInjective(waiters')
               /\ Range(waiters') = Range(waiters) \ {t}
    BY <2>2, RemoveAtFacts, LenProperties DEF IInv, TypeOK
  <2> QED
    BY <2>1, <2>2 DEF LeaveLoop, RemoveWaiter
<1>2. TypeOK'
  BY <1>1 DEF LeaveLoop, Outcome, IInv, TypeOK, Mutex!TypeOK, PCs
<1>3. InWait' = InWait \ {t} /\ UNCHANGED ready
  BY DEF LeaveLoop, IInv, TypeOK, InWait
<1>4. GuestInv'
  BY DEF LeaveLoop, IInv, TypeOK, GuestInv
<1> QED
  BY <1>1, <1>2, <1>3, <1>4 DEF IInv, WaitersExact

LEMMA RelockStep ==
  ASSUME IInv, NEW t \in Threads, Relock(t)
  PROVE  IInv'
<1>1. TypeOK'
  BY DEF Relock, Return, IInv, TypeOK, Mutex!TypeOK, PCs
<1>2. /\ InWait' = InWait /\ t \notin InWait
      /\ \A s \in Threads \ {t} : ready'[s] = ready[s]
      /\ UNCHANGED waiters
  BY DEF Relock, Return, IInv, TypeOK, InWait
<1>3. WaitersExact'
  BY <1>2 DEF IInv, WaitersExact, InWait
<1>4. GuestInv'
  BY DEF Relock, Return, IInv, TypeOK, GuestInv
<1> QED
  BY <1>1, <1>3, <1>4 DEF IInv

(* Whoever is chosen leaves the queue, and nobody else does. *)
LEMMA ChooseStep ==
  ASSUME IInv, NEW S \in SUBSET Range(waiters), NEW rest \in Seq(Threads), Choose(S, rest),
         IsInjective(rest), Range(rest) = Range(waiters) \ S
  PROVE  IInv'
<1>1. S \subseteq InWait
  BY DEF IInv, WaitersExact
<1>2. TypeOK'
  BY DEF Choose, Notify, IInv, TypeOK, Mutex!TypeOK, PCs
<1>3. InWait' = InWait /\ \A t \in Threads : ready'[t] = (ready[t] \/ t \in S)
  BY DEF Choose, Notify, IInv, TypeOK, InWait
<1>4. WaitersExact'
  BY <1>3 DEF Choose, IInv, WaitersExact, InWait
<1>5. GuestInv'
  BY <1>1 DEF Choose, Notify, IInv, TypeOK, GuestInv, InWait
<1> QED
  BY <1>2, <1>4, <1>5 DEF IInv

LEMMA SignalStep ==
  ASSUME IInv, AnySignal
  PROVE  IInv'
<1>1. waiters \in Seq(Threads) /\ IsInjective(waiters) /\ DOMAIN waiters = 1..Len(waiters)
  BY LenProperties DEF IInv, TypeOK
<1>2. CASE Signal
  BY <1>1, <1>2, TailFacts, ChooseStep DEF Signal
<1>3. CASE SignalTo
  <2>1. PICK i \in 1..Len(waiters) : Choose({waiters[i]}, RemoveAt(waiters, i))
    BY <1>1, <1>3 DEF SignalTo
  <2>2. waiters[i] \in Range(waiters)
    BY <1>1 DEF Range
  <2> QED
    BY <1>1, <2>1, <2>2, RemoveAtFacts, ChooseStep
<1>4. CASE Broadcast
  <2>1. <<>> \in Seq(Threads) /\ IsInjective(<<>>) /\ Range(<<>>) = {}
    BY EmptySeq DEF IsInjective, Range
  <2> QED
    BY <1>4, <2>1, ChooseStep DEF Broadcast
<1> QED
  BY <1>2, <1>3, <1>4 DEF AnySignal

LEMMA NextIInv == IInv /\ [Next]_vars => IInv'
<1> SUFFICES ASSUME IInv, [Next]_vars PROVE IInv'
  OBVIOUS
<1>1. ASSUME NEW t \in Threads,
             \/ Locks(t) \/ Unlocks(t)
             \/ \E tm \in {"no", "zero", "deadline"} : JoinWaiters(t, tm)
             \/ CondWait(t) \/ DeadlinePasses(t) \/ SleepEnds(t)
      PROVE  IInv'
  BY <1>1, GuestStep, JoinStep, InsideStep, LeaveStep, RelockStep DEF CondWait
<1>2. CASE AnySignal
  BY <1>2, SignalStep
<1>3. CASE UNCHANGED vars
  <2>1. Mutex!TypeOK'
    BY <1>3 DEF vars, IInv, TypeOK, Mutex!TypeOK
  <2> QED
    BY <1>3, <2>1, MutexStep DEF vars
<1> QED
  BY <1>1, <1>2, <1>3 DEF Next

LEMMA IInvHolds == Spec => []IInv
<1> QED
  BY InitIInv, NextIInv, PTL DEF Spec

------------------------------------------------------------------------------
(* The types of CondVar, and no thread twice in the queue. *)
THEOREM TypeCorrect == Spec => []TypeOK
<1>1. IInv => TypeOK
  BY DEF IInv
<1> QED
  BY <1>1, IInvHolds, PTL

(* The queue holds exactly the threads in a wait that no signal has chosen *)
(* yet, whatever signals, deadlines and spurious returns do in between.    *)
THEOREM QueueIsExact == Spec => []WaitersExact
<1>1. IInv => WaitersExact
  BY DEF IInv
<1> QED
  BY <1>1, IInvHolds, PTL

------------------------------------------------------------------------------
(* The refinement *)

(* From joining the queue to the first sleep a thread holds cond->m, it is *)
(* the last in the queue until it lets the guest mutex go, and a wait of   *)
(* zero microseconds ends before anybody can choose it.                    *)
JoinInv ==
  \A t \in Threads :
    /\ pc[t] \in {"joined", "loop"} => m = t
    /\ pc[t] = "joined" => holder = t /\ waiters # <<>> /\ waiters[Len(waiters)] = t
    /\ timed[t] = "zero" => ~ready[t] /\ pc[t] \notin {"asleep", "awake"}

(* A mutex that is held is held at least once, and that is remembered. *)
DepthInv ==
  /\ holder # NoThread => depth >= 1
  /\ \A t \in Threads :
       pc[t] \in {"loop", "asleep", "awake", "relock"} => recurse[t] >= 1

RInv == IInv /\ JoinInv /\ DepthInv

LEMMA InitRInv == Init => RInv
BY InitIInv DEF Init, Mutex!Init, RInv, JoinInv, DepthInv

LEMMA NextRInv == RInv /\ [Next]_vars => RInv'
<1> SUFFICES ASSUME RInv, [Next]_vars PROVE RInv'
  OBVIOUS
<1>1. IInv'
  BY NextIInv DEF RInv
<1>2. TypeOK /\ WaitersExact /\ GuestInv
  BY DEF RInv, IInv
<1> SUFFICES JoinInv' /\ DepthInv'
  BY <1>1 DEF RInv
<1>3. ASSUME NEW t \in Threads, Locks(t) \/ Unlocks(t) PROVE JoinInv' /\ DepthInv'
  BY <1>2, <1>3
     DEF RInv, JoinInv, DepthInv, TypeOK, Mutex!TypeOK, Locks, Unlocks, Mutex!Acquire,
         Mutex!Reenter, Mutex!Leave, Mutex!Release
<1>4. ASSUME NEW t \in Threads, NEW tm \in {"no", "zero", "deadline"}, JoinWaiters(t, tm)
      PROVE  JoinInv' /\ DepthInv'
  <2>1. waiters' # <<>> /\ waiters'[Len(waiters')] = t
    BY <1>2, <1>4, AppendProperties DEF TypeOK, JoinWaiters
  <2> QED
    BY <1>2, <1>4, <2>1 DEF RInv, JoinInv, DepthInv, TypeOK, GuestInv, JoinWaiters
<1>5. ASSUME NEW t \in Threads, CondWait(t) PROVE JoinInv' /\ DepthInv'
  <2>1. CASE UnlockAll(t)
    BY <1>2, <2>1 DEF RInv, JoinInv, DepthInv, TypeOK, Mutex!TypeOK, UnlockAll
  <2>2. CASE Sleep(t) \/ TakeHostMutex(t)
    BY <1>2, <2>2 DEF RInv, JoinInv, DepthInv, TypeOK, Sleep, TooLate, TakeHostMutex
  <2>3. CASE LeaveLoop(t)
    BY <1>2, <2>3 DEF RInv, JoinInv, DepthInv, TypeOK, LeaveLoop
  <2>4. CASE Relock(t)
    BY <1>2, <2>4 DEF RInv, JoinInv, DepthInv, TypeOK, Relock, Return
  <2> QED
    BY <1>5, <2>1, <2>2, <2>3, <2>4 DEF CondWait
<1>6. ASSUME NEW t \in Threads, DeadlinePasses(t) \/ SleepEnds(t)
      PROVE  JoinInv' /\ DepthInv'
  BY <1>2, <1>6 DEF RInv, JoinInv, DepthInv, TypeOK, DeadlinePasses, SleepEnds
<1>7. CASE AnySignal
  <2>1. ASSUME NEW S, NEW rest, Choose(S, rest), S \subseteq Range(waiters)
        PROVE  JoinInv' /\ DepthInv'
    BY <1>2, <2>1
       DEF RInv, JoinInv, DepthInv, TypeOK, WaitersExact, InWait, Choose, Notify, HostMutexFree
  <2>2. waiters \in Seq(Threads) /\ IsInjective(waiters)
    BY <1>2 DEF TypeOK
  <2>3. CASE Signal
    BY <2>1, <2>2, <2>3, TailFacts DEF Signal
  <2>4. CASE SignalTo
    BY <2>1, <2>4 DEF SignalTo, Range
  <2>5. CASE Broadcast
    BY <2>1, <2>5 DEF Broadcast
  <2> QED
    BY <1>7, <2>3, <2>4, <2>5 DEF AnySignal
<1>8. CASE UNCHANGED vars
  BY <1>8 DEF RInv, JoinInv, DepthInv, vars
<1>9. CASE \E t \in Threads :
             \/ Locks(t) \/ Unlocks(t)
             \/ \E tm \in {"no", "zero", "deadline"} : JoinWaiters(t, tm)
             \/ CondWait(t) \/ DeadlinePasses(t) \/ SleepEnds(t)
  BY <1>3, <1>4, <1>5, <1>6, <1>9
<1> QED
  BY <1>7, <1>8, <1>9 DEF Next

LEMMA RInvHolds == Spec => []RInv
<1> QED
  BY InitRInv, NextRInv, PTL DEF Spec

(* While nobody has just joined, the queue is what the guest sees. *)
LEMMA QueueSeen ==
  ASSUME \A t \in Threads : pc[t] # "joined"
  PROVE  Waiting = waiters
BY DEF Waiting

(* Who is outside a wait is neither queued nor on the way back. *)
LEMMA GuestIsOut ==
  ASSUME RInv, NEW t \in Threads, pc[t] = "guest"
  PROVE  Abstract!Out(t)
<1>1. waiters \in Seq(Threads) /\ t \notin Range(waiters)
  BY DEF RInv, IInv, TypeOK, WaitersExact, InWait
<1>2. Range(Waiting) \subseteq Range(waiters)
  <2>1. CASE \E s \in Threads : pc[s] = "joined"
    <3>1. waiters # <<>> /\ Waiting = Front(waiters)
      BY <2>1 DEF RInv, JoinInv, Waiting
    <3> QED
      BY <1>1, <3>1, FrontFacts
  <2> QED
    BY <2>1, QueueSeen
<1>3. t \notin Returning
  BY DEF Returning, InWait
<1> QED
  BY <1>1, <1>2, <1>3 DEF Abstract!Out, Abstract!Range, Range

LEMMA InitRefines == Init => Abstract!Init
<1> SUFFICES ASSUME Init PROVE Abstract!Init
  OBVIOUS
<1>1. Waiting = <<>>
  BY QueueSeen DEF Init
<1>2. Returning = {} /\ Known = [t \in Threads |-> "Ok"]
  BY DEF Init, Returning, Known, InWait
<1> QED
  BY <1>1, <1>2 DEF Init, Mutex!Init, Abstract!Init, Abstract!Mutex!Init

(* A step of the guest's own use of the mutex is one of the abstract guest.*)
LEMMA MutexRefines ==
  ASSUME RInv, NEW t \in Threads, Locks(t) \/ Unlocks(t)
  PROVE  Abstract!UseMutex(t)
<1>1. Abstract!Out(t)
  BY GuestIsOut DEF Locks, Unlocks
<1>2. UNCHANGED <<Waiting, Returning, recurse, Known>>
  BY DEF Locks, Unlocks, Waiting, Returning, Known, InWait
<1>3. \/ Abstract!Mutex!Acquire(t) \/ Abstract!Mutex!Reenter(t)
      \/ Abstract!Mutex!Leave(t) \/ Abstract!Mutex!Release(t)
  BY DEF Locks, Unlocks, Mutex!Acquire, Mutex!Reenter, Mutex!Leave, Mutex!Release,
         Abstract!Mutex!Acquire, Abstract!Mutex!Reenter, Abstract!Mutex!Leave,
         Abstract!Mutex!Release
<1> QED
  BY <1>1, <1>2, <1>3 DEF Abstract!UseMutex

(* Joining the queue is invisible: the thread still holds the mutex. *)
LEMMA JoinRefines ==
  ASSUME RInv, NEW t \in Threads, NEW tm \in {"no", "zero", "deadline"}, JoinWaiters(t, tm)
  PROVE  UNCHANGED Abstract!vars
<1>1. ~ready[t] /\ waiters \in Seq(Threads) /\ pc \in [Threads -> PCs]
  BY DEF RInv, IInv, GuestInv, TypeOK, JoinWaiters
<1>2. Waiting = waiters
  BY <1>1, QueueSeen DEF JoinWaiters, RInv, JoinInv, HostMutexFree, CondAssumption
<1>3. Waiting' = waiters
  BY <1>1, FrontOfAppend DEF JoinWaiters, Waiting
<1>4. Returning' = Returning /\ Known' = Known
  BY <1>1 DEF JoinWaiters, Returning, Known, InWait
<1> QED
  BY <1>2, <1>3, <1>4 DEF JoinWaiters, Abstract!vars

(* Letting the mutex go is the abstract wait. *)
LEMMA UnlockRefines ==
  ASSUME RInv, NEW t \in Threads, UnlockAll(t)
  PROVE  Abstract!Wait(t)
<1>1. /\ waiters \in Seq(Threads) /\ waiters # <<>> /\ IsInjective(waiters)
      /\ pc \in [Threads -> PCs] /\ pc[t] = "joined"
      /\ waiters[Len(waiters)] = t
  BY DEF RInv, JoinInv, IInv, TypeOK, UnlockAll
<1>2. \A s \in Threads \ {t} : pc[s] # "joined"
  BY <1>1 DEF RInv, JoinInv
<1>3. Waiting = Front(waiters)
  BY <1>1 DEF Waiting
<1>4. Waiting' = waiters
  BY <1>1, <1>2 DEF Waiting, UnlockAll
<1>5. Waiting' = Append(Waiting, t) /\ t \notin Range(Waiting)
  BY <1>1, <1>3, <1>4, FrontFacts
<1>6. t \in Range(waiters)
  BY <1>1, LenProperties, EmptySeq DEF Range
<1>7. ~ready[t]
  BY <1>6 DEF RInv, IInv, WaitersExact
<1>8. Returning' = Returning /\ Known' = Known /\ t \notin Returning
  BY <1>1, <1>7 DEF UnlockAll, Returning, Known, InWait
<1> QED
  BY <1>5, <1>8 DEF Abstract!Wait, Abstract!Out, Abstract!Range, Range, UnlockAll

(* Sleeping, waking and the passing of the deadline are invisible. *)
LEMMA SleepRefines ==
  ASSUME RInv, NEW t \in Threads,
         Sleep(t) \/ TakeHostMutex(t) \/ DeadlinePasses(t) \/ SleepEnds(t)
  PROVE  UNCHANGED Abstract!vars
<1>1. /\ pc \in [Threads -> PCs] /\ UNCHANGED <<holder, depth, waiters, ready, recurse, result>>
      /\ InWait' = InWait
      /\ \A s \in Threads : pc'[s] = "joined" <=> pc[s] = "joined"
      /\ \A s \in Threads : pc'[s] = "relock" <=> pc[s] = "relock"
  BY DEF RInv, IInv, TypeOK, PCs, InWait, Sleep, TakeHostMutex, DeadlinePasses, SleepEnds
<1>2. Waiting' = Waiting
  BY <1>1 DEF Waiting
<1>3. Returning' = Returning /\ Known' = Known
  BY <1>1 DEF Returning, Known
<1> QED
  BY <1>1, <1>2, <1>3 DEF Abstract!vars

(* Leaving the loop late is the abstract time-out; a thread that was       *)
(* chosen has left the abstract queue already.                             *)
LEMMA LeaveRefines ==
  ASSUME RInv, NEW t \in Threads, LeaveLoop(t)
  PROVE  Abstract!GiveUp \/ UNCHANGED Abstract!vars
<1>1. /\ waiters \in Seq(Threads) /\ IsInjective(waiters) /\ DOMAIN waiters = 1..Len(waiters)
      /\ pc \in [Threads -> PCs] /\ result \in [Threads -> {"Ok", "TimedOut"}]
      /\ pc[t] = "loop" /\ UNCHANGED <<holder, depth, ready, recurse>>
  BY LenProperties DEF RInv, IInv, TypeOK, LeaveLoop
<1>2. \A s \in Threads : pc[s] # "joined" /\ pc'[s] # "joined"
  BY <1>1 DEF RInv, JoinInv, LeaveLoop, CondAssumption
<1>3. Waiting = waiters /\ Waiting' = waiters'
  BY <1>2 DEF Waiting
<1>4. InWait' = InWait \ {t} /\ t \in InWait
  BY <1>1 DEF InWait, LeaveLoop
<1>5. CASE ready[t]
  <2>1. t \notin Range(waiters) /\ timed[t] # "zero"
    BY <1>5 DEF RInv, IInv, WaitersExact, JoinInv
  <2>2. UNCHANGED waiters
    BY <1>1, <2>1 DEF LeaveLoop, RemoveWaiter, Range
  <2>3. result' = [result EXCEPT ![t] = "Ok"]
    BY <1>5, <2>1 DEF LeaveLoop, Outcome
  <2>4. Returning' = Returning
    BY <1>1, <1>4, <1>5 DEF Returning, LeaveLoop
  <2>5. Known' = Known
    BY <1>1, <1>4, <1>5, <2>3 DEF Known
  <2> QED
    BY <1>1, <1>3, <2>2, <2>4, <2>5 DEF Abstract!vars
<1>6. CASE ~ready[t]
  <2>1. t \in Range(waiters)
    BY <1>4, <1>6 DEF RInv, IInv, WaitersExact
  <2>2. PICK i \in DOMAIN waiters : waiters[i] = t /\ waiters' = RemoveAt(waiters, i)
    BY <2>1 DEF LeaveLoop, RemoveWaiter
  <2>3. result' = [result EXCEPT ![t] = "TimedOut"]
    BY <1>6 DEF LeaveLoop, Outcome
  <2>4. Returning' = Returning \cup {t}
    BY <1>1, <1>4, <1>6 DEF Returning, LeaveLoop
  <2>5. Known' = [s \in Threads |-> IF s \in {t} THEN "TimedOut" ELSE Known[s]]
    BY <1>1, <1>4, <1>6, <2>3 DEF Known
  <2>6. Abstract!Take({Waiting[i]}, RemoveAt(Waiting, i), "TimedOut")
    BY <1>1, <1>3, <2>2, <2>4, <2>5 DEF Abstract!Take
  <2> QED
    BY <1>3, <2>2, <2>6 DEF Abstract!GiveUp, Abstract!TakeOne, Abstract!RemoveAt, RemoveAt
<1> QED
  BY <1>5, <1>6

(* Getting the mutex back is the abstract return, as deep as it was. *)
LEMMA RelockRefines ==
  ASSUME RInv, NEW t \in Threads, Relock(t)
  PROVE  Abstract!Resume(t)
<1>1. /\ pc \in [Threads -> PCs] /\ recurse \in [Threads -> 0..MaxCount]
      /\ result \in [Threads -> {"Ok", "TimedOut"}]
      /\ ready \in [Threads -> BOOLEAN]
      /\ pc[t] = "relock" /\ recurse[t] >= 1
      /\ pc' = [pc EXCEPT ![t] = "guest"] /\ ready' = [ready EXCEPT ![t] = FALSE]
      /\ result' = [result EXCEPT ![t] = "Ok"] /\ recurse' = [recurse EXCEPT ![t] = 0]
      /\ UNCHANGED waiters
  BY DEF RInv, DepthInv, IInv, TypeOK, Relock, Return
<1>2. depth' = recurse[t]
  BY <1>1 DEF Relock
<1>3. \A s \in Threads : pc[s] = "joined" <=> pc'[s] = "joined"
  BY <1>1
<1>4. Waiting' = Waiting
  BY <1>1, <1>3 DEF Waiting
<1>5. InWait' = InWait /\ t \notin InWait
  BY <1>1 DEF InWait
<1>6. t \in Returning /\ Returning' = Returning \ {t}
  BY <1>1, <1>5 DEF Returning
<1>7. Known' = [Known EXCEPT ![t] = "Ok"]
  BY <1>1, <1>5 DEF Known
<1> QED
  BY <1>1, <1>2, <1>4, <1>6, <1>7 DEF Abstract!Resume, Relock

(* Whoever a signal chooses leaves the abstract queue with OK. *)
LEMMA ChooseRefines ==
  ASSUME RInv, NEW S \in SUBSET Range(waiters), NEW rest, Choose(S, rest)
  PROVE  Waiting = waiters /\ Abstract!Take(S, rest, "Ok")
<1>1. /\ pc \in [Threads -> PCs] /\ S \subseteq InWait
      /\ UNCHANGED <<holder, depth, recurse, result>>
      /\ pc' = [t \in Threads |-> IF t \in S /\ pc[t] = "asleep" THEN "awake" ELSE pc[t]]
      /\ ready' = [t \in Threads |-> ready[t] \/ t \in S]
  BY DEF RInv, IInv, TypeOK, WaitersExact, Choose, Notify
<1>2. \A s \in Threads : pc[s] # "joined" /\ pc'[s] # "joined"
  BY <1>1 DEF RInv, JoinInv, Choose, HostMutexFree, CondAssumption
<1>3. Waiting = waiters /\ Waiting' = rest
  BY <1>2 DEF Waiting, Choose
<1>4. InWait' = InWait
  BY <1>1 DEF InWait
<1>5. Returning' = Returning \cup S
  BY <1>1, <1>4 DEF Returning, InWait
<1>6. Known' = [t \in Threads |-> IF t \in S THEN "Ok" ELSE Known[t]]
  BY <1>1, <1>4 DEF Known
<1> QED
  BY <1>1, <1>3, <1>5, <1>6 DEF Abstract!Take

LEMMA SignalRefines ==
  ASSUME RInv, AnySignal
  PROVE  Abstract!Signal \/ Abstract!SignalTo \/ Abstract!Broadcast
<1>1. waiters \in Seq(Threads) /\ IsInjective(waiters)
  BY DEF RInv, IInv, TypeOK
<1>2. CASE Signal
  <2>1. Waiting = waiters /\ Abstract!Take({Head(waiters)}, Tail(waiters), "Ok")
    BY <1>1, <1>2, TailFacts, ChooseRefines DEF Signal
  <2> QED
    BY <1>2, <2>1 DEF Signal, Abstract!Signal
<1>3. CASE SignalTo
  <2>1. PICK i \in DOMAIN waiters : Choose({waiters[i]}, RemoveAt(waiters, i))
    BY <1>3 DEF SignalTo
  <2>2. Waiting = waiters /\ Abstract!Take({waiters[i]}, RemoveAt(waiters, i), "Ok")
    BY <2>1, ChooseRefines DEF Range
  <2> QED
    BY <2>1, <2>2 DEF Abstract!SignalTo, Abstract!TakeOne, Abstract!RemoveAt, RemoveAt
<1>4. CASE Broadcast
  <2>1. Waiting = waiters /\ Abstract!Take(Range(waiters), <<>>, "Ok")
    BY <1>4, ChooseRefines DEF Broadcast
  <2> QED
    BY <1>4, <2>1 DEF Broadcast, Abstract!Broadcast, Abstract!Range, Range
<1> QED
  BY <1>2, <1>3, <1>4 DEF AnySignal

LEMMA StepRefines == RInv /\ [Next]_vars => [Abstract!Next]_(Abstract!vars)
<1> SUFFICES ASSUME RInv, [Next]_vars PROVE [Abstract!Next]_(Abstract!vars)
  OBVIOUS
<1>1. ASSUME NEW t \in Threads,
             \/ Locks(t) \/ Unlocks(t)
             \/ \E tm \in {"no", "zero", "deadline"} : JoinWaiters(t, tm)
             \/ CondWait(t) \/ DeadlinePasses(t) \/ SleepEnds(t)
      PROVE  [Abstract!Next]_(Abstract!vars)
  BY <1>1, MutexRefines, JoinRefines, UnlockRefines, SleepRefines, LeaveRefines, RelockRefines
     DEF CondWait, Abstract!Next
<1>2. CASE AnySignal
  BY <1>2, SignalRefines DEF Abstract!Next
<1>3. CASE UNCHANGED vars
  BY <1>3 DEF vars, Abstract!vars, Waiting, Returning, Known, InWait
<1> QED
  BY <1>1, <1>2, <1>3 DEF Next

(* The condition variable of the code, built on the mutex of the code,     *)
(* implements the abstract one: releasing the mutex and waiting is one     *)
(* step for the guest, OK is for those a signal chose and ETIMEDOUT for    *)
(* the others, and the mutex comes back as deeply as it was held.          *)
THEOREM CondRefines == Spec => ImplementsAbstractCond
<1> QED
  BY InitRefines, StepRefines, RInvHolds, PTL DEF Spec, ImplementsAbstractCond, Abstract!Spec

------------------------------------------------------------------------------
(* No wakeup is lost: who has been chosen is not asleep, nor does it go to *)
(* sleep again, whatever deadlines pass and spurious wakeups happen in     *)
(* between; and who sleeps is in the queue, where the next signal finds it.*)
NoWakeupLost == \A t \in Threads :
  /\ ready[t] => pc[t] \in {"loop", "awake", "relock"}
  /\ pc[t] = "asleep" => t \in Range(waiters)

ChosenInv == \A t \in Threads : ready[t] => pc[t] \in {"loop", "awake", "relock"}

LEMMA NextChosen ==
  ASSUME RInv, ChosenInv, [Next]_vars
  PROVE  ChosenInv'
<1>1. /\ pc \in [Threads -> PCs] /\ ready \in [Threads -> BOOLEAN]
      /\ \A t \in Threads : pc[t] = "guest" => ~ready[t]
      /\ \A t \in Threads : pc[t] \in {"joined", "loop"} => m = t
      /\ \A t \in Range(waiters) : t \in InWait /\ ~ready[t]
  BY DEF RInv, IInv, TypeOK, GuestInv, JoinInv, WaitersExact
<1>2. ASSUME NEW t \in Threads, Locks(t) \/ Unlocks(t) PROVE ChosenInv'
  BY <1>1, <1>2 DEF ChosenInv, Locks, Unlocks
<1>3. ASSUME NEW t \in Threads, NEW tm \in {"no", "zero", "deadline"}, JoinWaiters(t, tm)
      PROVE  ChosenInv'
  BY <1>1, <1>3 DEF ChosenInv, JoinWaiters
<1>4. ASSUME NEW t \in Threads, UnlockAll(t) \/ Sleep(t) \/ TakeHostMutex(t) \/ LeaveLoop(t)
      PROVE  ChosenInv'
  BY <1>1, <1>4 DEF ChosenInv, UnlockAll, Sleep, TakeHostMutex, LeaveLoop
<1>5. ASSUME NEW t \in Threads, Relock(t) PROVE ChosenInv'
  BY <1>1, <1>5 DEF ChosenInv, Relock, Return
<1>6. ASSUME NEW t \in Threads, DeadlinePasses(t) \/ SleepEnds(t) PROVE ChosenInv'
  BY <1>1, <1>6 DEF ChosenInv, DeadlinePasses, SleepEnds
<1>7. ASSUME NEW S \in SUBSET Range(waiters), NEW rest, Choose(S, rest) PROVE ChosenInv'
  <2>1. ASSUME NEW t \in S PROVE pc'[t] \in {"loop", "awake", "relock"}
    <3>1. t \in InWait /\ t \in Threads /\ m = NoThread
      BY <1>1, <1>7, <2>1 DEF InWait, Choose, HostMutexFree
    <3>2. pc[t] \in {"asleep", "awake"}
      BY <1>1, <3>1 DEF InWait
    <3> QED
      BY <1>7, <2>1, <3>1, <3>2 DEF Choose, Notify
  <2>2. ASSUME NEW t \in Threads, t \notin S PROVE pc'[t] = pc[t] /\ (ready'[t] => ready[t])
    <3>1. pc'[t] = pc[t]
      BY <1>7, <2>2 DEF Choose, Notify
    <3>2. ready'[t] => ready[t]
      BY <1>7, <2>2 DEF Choose
    <3> QED
      BY <3>1, <3>2
  <2> QED
    BY <2>1, <2>2 DEF ChosenInv
<1>8. CASE AnySignal
  <2>1. /\ Head(waiters) = waiters[1] /\ (waiters # <<>> => 1 \in DOMAIN waiters)
    BY HeadTailProperties, LenProperties, EmptySeq DEF RInv, IInv, TypeOK
  <2>2. \E S \in SUBSET Range(waiters) : \E rest : Choose(S, rest)
    BY <1>8, <2>1 DEF AnySignal, Signal, SignalTo, Broadcast, Range
  <2> QED
    BY <1>7, <2>2
<1>9. CASE UNCHANGED vars
  BY <1>9 DEF vars, ChosenInv
<1> QED
  BY <1>2, <1>3, <1>4, <1>5, <1>6, <1>8, <1>9 DEF Next, CondWait

(* PthreadCond*signal never leaves a thread it chose asleep.               *)
THEOREM ChosenThreadsWake == Spec => []NoWakeupLost
<1>1. Init => ChosenInv
  BY DEF Init, ChosenInv
<1>2. RInv /\ ChosenInv /\ [Next]_vars => ChosenInv'
  BY NextChosen
<1>3. RInv /\ ChosenInv => NoWakeupLost
  BY DEF RInv, IInv, WaitersExact, InWait, ChosenInv, NoWakeupLost
<1> QED
  BY <1>1, <1>2, <1>3, RInvHolds, PTL DEF Spec
================================================================================
