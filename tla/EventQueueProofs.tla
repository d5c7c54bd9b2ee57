--------------------------- MODULE EventQueueProofs ---------------------------
(***************************************************************************)
(* Proofs about EventQueue, for every set of threads and of events of      *)
(* every kind, every array size and every number of pending triggers.      *)
(***************************************************************************)
EXTENDS EventQueue, SequenceTheorems, WellFoundedInduction, TLAPS

(* A newcomer at the end of the queue. *)
LEMMA AppendFacts ==
  ASSUME NEW S, NEW s \in Seq(S), NEW e \in S
  PROVE  /\ Append(s, e) \in Seq(S)
         /\ Range(Append(s, e)) = Range(s) \cup {e}
         /\ e \notin Range(s) /\ IsInjective(s) => IsInjective(Append(s, e))
<1> DEFINE a == Append(s, e)
<1>1. /\ a \in Seq(S) /\ Len(a) = Len(s) + 1 /\ Len(s) \in Nat
      /\ \A i \in 1..Len(s) : a[i] = s[i]
      /\ a[Len(s) + 1] = e
      /\ DOMAIN a = 1..(Len(s) + 1) /\ DOMAIN s = 1..Len(s)
  BY AppendProperties, LenProperties
<1> HIDE DEF a
<1>2. Range(a) = Range(s) \cup {e}
  BY <1>1 DEF Range
<1>3. e \notin Range(s) /\ IsInjective(s) => IsInjective(a)
  BY <1>1 DEF IsInjective, Range
<1> QED
  BY <1>1, <1>2, <1>3 DEF a


States == {"idle", "pinned", "asleep", "awake", "closing"}

(* Types, without the bounds the history variables do not have. *)
TypeInv ==
  /\ registered \in BOOLEAN /\ closed \in BOOLEAN /\ freed \in BOOLEAN
  /\ events \in Seq(Keys) /\ IsInjective(events)
  /\ n \in [Keys -> 0..MaxQueued]
  /\ due \in [Keys -> {"none", "running", "expired"}]
  /\ pc \in [Threads -> States]
  /\ late \in [Threads -> BOOLEAN]
  /\ owed \in [Keys -> Int] /\ attached \in [Keys -> Int]
  /\ leftover \in BOOLEAN

(* A thread inside the queue has a call, and only waits sleep. *)
CallInv ==
  /\ DOMAIN call = Threads
  /\ \A t \in Threads :
       /\ call[t] \in CallsOf(t) \cup {NoCall}
       /\ pc[t] \in {"pinned", "asleep", "awake"} => call[t] \in CallsOf(t)
       /\ pc[t] \in {"asleep", "awake"} => call[t].op = "wait"

(* Nothing is left of an event that has gone; only queued ones count       *)
(* triggers, and only timers have a deadline.                              *)
EventInv == \A k \in Keys :
  /\ k \notin Present => n[k] = 0 /\ owed[k] = 0 /\ due[k] = "none"
  /\ Kind[k] # "queued" => n[k] <= 1
  /\ Kind[k] # "timer" => due[k] = "none"

IInv == /\ TypeInv /\ CallInv /\ EventInv
        /\ TriggersAccounted /\ CallbackOnce /\ NoStrandedSleeper

USE EventQueueAssumption DEF EventQueueAssumption

------------------------------------------------------------------------------
(* Induction, as the least member of a set of natural numbers. *)
Less == {pair \in Nat \X Nat : pair[1] < pair[2]}

LEMMA Least ==
  ASSUME NEW T \in SUBSET Nat, T # {}
  PROVE  \E x \in T : \A y \in T : x <= y
<1>1. OpToRel(<, Nat) = Less
  BY DEF OpToRel, Less
<1>2. IsWellFoundedOn(Less, Nat)
  BY <1>1, NatLessThanWellFounded
<1>3. PICK x \in T : \A y \in T : <<y, x>> \notin Less
  BY <1>2, WFMin
<1>4. ASSUME NEW y \in T PROVE x <= y
  <2>1. <<y, x>> \in Nat \X Nat /\ <<y, x>> \notin Less
    BY <1>3
  <2> QED
    BY <2>1 DEF Less
<1> QED
  BY <1>4

(* One turn of the recursion of Without. *)
Turn(s, K, f, i) ==
  IF i = 0 THEN <<>> ELSE IF s[i] \in K THEN f[i - 1] ELSE Append(f[i - 1], s[i])

(* What is built of the first m of s. *)
Built(s, K, m, f) ==
  /\ f \in [0..m -> Seq(Range(s))]
  /\ \A i \in 0..m : f[i] = Turn(s, K, f, i)

LEMMA BuiltExists ==
  ASSUME NEW S, NEW s \in Seq(S), NEW K, NEW m \in 0..Len(s)
  PROVE  \E f : Built(s, K, m, f)
<1> DEFINE T == {j \in 0..Len(s) : ~ \E f : Built(s, K, j, f)}
<1>1. SUFFICES ASSUME T # {} PROVE FALSE
  OBVIOUS
<1>2. Len(s) \in Nat /\ DOMAIN s = 1..Len(s)
  BY LenProperties
<1>3. T \in SUBSET Nat
  BY <1>2
<1>4. PICK j \in T : \A i \in T : j <= i
  <2> HIDE DEF T
  <2> QED
    BY <1>1, <1>3, Least
<1>5. j # 0
  <2>1. Built(s, K, 0, [i \in 0..0 |-> <<>>])
    BY EmptySeq DEF Built, Turn
  <2> QED
    BY <2>1
<1>6. PICK f : Built(s, K, j - 1, f)
  BY <1>2, <1>4, <1>5
<1> DEFINE g == [i \in 0..j |-> IF i < j THEN f[i] ELSE Turn(s, K, f, j)]
<1>7. j \in 1..Len(s) /\ s[j] \in Range(s) /\ j - 1 \in 0..(j - 1)
  BY <1>2, <1>5 DEF Range
<1>8. f[j - 1] \in Seq(Range(s))
  BY <1>6, <1>7 DEF Built
<1>9. Turn(s, K, f, j) \in Seq(Range(s))
  BY <1>7, <1>8, AppendProperties DEF Turn
<1>10. g \in [0..j -> Seq(Range(s))]
  BY <1>6, <1>7, <1>9 DEF Built
<1>11. ASSUME NEW i \in 0..j PROVE g[i] = Turn(s, K, g, i)
  <2>1. CASE i < j
    <3>1. i \in 0..(j - 1) /\ g[i] = f[i] /\ (i # 0 => g[i - 1] = f[i - 1])
      BY <1>7, <2>1
    <3> QED
      BY <1>6, <3>1 DEF Built, Turn
  <2>2. CASE i = j
    <3>1. g[j] = Turn(s, K, f, j) /\ g[j - 1] = f[j - 1]
      BY <1>7
    <3> QED
      BY <2>2, <3>1 DEF Turn
  <2> QED
    BY <1>7, <2>1, <2>2
<1>12. Built(s, K, j, g)
  BY <1>10, <1>11 DEF Built
<1> QED
  BY <1>12

(* Without is what its recursion says. *)
LEMMA WithoutIsBuilt ==
  ASSUME NEW S, NEW s \in Seq(S), NEW K
  PROVE  \E f : /\ \A i \in 0..Len(s) : f[i] = Turn(s, K, f, i)
                /\ Without(s, K) = f[Len(s)]
<1>1. PICK g : Built(s, K, Len(s), g)
  <2>1. Len(s) \in 0..Len(s)
    BY LenProperties
  <2> QED
    BY <2>1, BuiltExists
<1> DEFINE Is(f) == f = [i \in 0..Len(s) |-> Turn(s, K, f, i)]
           h == CHOOSE f : Is(f)
<1>2. Is(g)
  BY <1>1 DEF Built
<1>3. Is(h)
  <2> HIDE DEF Is
  <2> QED
    BY <1>2
<1>4. Without(s, K) = h[Len(s)]
  BY DEF Without, Turn
<1> HIDE DEF h
<1>5. \A i \in 0..Len(s) : h[i] = Turn(s, K, h, i)
  BY <1>3
<1> QED
  BY <1>4, <1>5

(* The list without some keys. *)
LEMMA WithoutFacts ==
  ASSUME NEW S, NEW s \in Seq(S), IsInjective(s), NEW K
  PROVE  /\ Without(s, K) \in Seq(S)
         /\ Range(Without(s, K)) = Range(s) \ K
         /\ IsInjective(Without(s, K))
<1>1. PICK f : /\ \A i \in 0..Len(s) : f[i] = Turn(s, K, f, i)
               /\ Without(s, K) = f[Len(s)]
  BY WithoutIsBuilt
<1>2. /\ Len(s) \in Nat /\ DOMAIN s = 1..Len(s)
      /\ \A i \in 1..Len(s) : s[i] \in S
  BY LenProperties, ElementOfSeq
<1> DEFINE Prefix(i) == {s[j] : j \in 1..i}
           Right(i) == f[i] \in Seq(S) /\ Range(f[i]) = Prefix(i) \ K /\ IsInjective(f[i])
           T == {i \in 0..Len(s) : ~Right(i)}
<1>3. T = {}
  <2>1. SUFFICES ASSUME T # {} PROVE FALSE
    OBVIOUS
  <2>2. PICK i \in T : \A j \in T : i <= j
    <3>1. T \in SUBSET Nat
      BY <1>2
    <3> HIDE DEF T
    <3> QED
      BY <2>1, <3>1, Least
  <2>3. i # 0
    <3>1. f[0] = <<>>
      BY <1>1, <1>2 DEF Turn
    <3>2. <<>> \in Seq(S) /\ DOMAIN <<>> = {}
      BY EmptySeq
    <3>3. Range(<<>>) = {} /\ IsInjective(<<>>)
      BY <3>2 DEF Range, IsInjective
    <3>4. Prefix(0) = {}
      OBVIOUS
    <3>5. Right(0)
      <4> HIDE DEF Prefix
      <4> QED
        BY <3>1, <3>2, <3>3, <3>4
    <3> QED
      BY <3>5
  <2>4. i \in 1..Len(s) /\ i - 1 \in 0..Len(s) /\ i - 1 \notin T
    <3> HIDE DEF Right
    <3> QED
      BY <1>2, <2>2, <2>3
  <2>5. Right(i - 1)
    BY <2>4
  <2>6. Prefix(i) = Prefix(i - 1) \cup {s[i]}
    <3>1. 1..i = 1..(i - 1) \cup {i}
      BY <2>4, <1>2
    <3> QED
      BY <3>1
  <2>7. s[i] \notin Prefix(i - 1)
    BY <1>2, <2>4 DEF IsInjective
  <2>8. f[i] = IF s[i] \in K THEN f[i - 1] ELSE Append(f[i - 1], s[i])
    BY <1>1, <1>2, <2>4 DEF Turn
  <2>9. Right(i)
    <3> HIDE DEF Prefix
    <3>1. CASE s[i] \in K
      BY <2>5, <2>6, <2>8, <3>1
    <3>2. CASE s[i] \notin K
      <4>1. f[i - 1] \in Seq(S) /\ s[i] \in S /\ s[i] \notin Range(f[i - 1])
        BY <1>2, <2>4, <2>5, <2>7
      <4>2. /\ f[i] \in Seq(S) /\ Range(f[i]) = Range(f[i - 1]) \cup {s[i]}
            /\ IsInjective(f[i])
        BY <2>5, <2>8, <3>2, <4>1, AppendFacts
      <4> QED
        BY <2>5, <2>6, <3>2, <4>2
    <3> QED
      BY <3>1, <3>2
  <2> QED
    BY <2>9
<1>4. Right(Len(s))
  <2> HIDE DEF Right
  <2> QED
    BY <1>2, <1>3
<1>5. Prefix(Len(s)) = Range(s)
  BY <1>2 DEF Range
<1> QED
  BY <1>1, <1>4, <1>5

------------------------------------------------------------------------------
(* The loop over the queue. *)

(* The room only shrinks. *)
LEMMA RoomShrinks ==
  ASSUME TypeInv, NEW num \in Nat, NEW room \in [0..Len(events) -> 0..num], Loop(room, num),
         NEW i \in 0..Len(events)
  PROVE  room[Len(events)] <= room[i]
<1> DEFINE T == {j \in i..Len(events) : ~(room[j] <= room[i])}
<1>1. Len(events) \in Nat /\ DOMAIN events = 1..Len(events)
      /\ \A j \in 1..Len(events) : events[j] \in Keys
  BY LenProperties, ElementOfSeq DEF TypeInv
<1>2. T = {}
  <2>1. SUFFICES ASSUME T # {} PROVE FALSE
    OBVIOUS
  <2>2. PICK j \in T : \A l \in T : j <= l
    <3>1. T \in SUBSET Nat
      BY <1>1
    <3> HIDE DEF T
    <3> QED
      BY <2>1, <3>1, Least
  <2>3. j \in (i + 1)..Len(events) /\ j - 1 \in i..Len(events) /\ j - 1 \notin T
    BY <1>1, <2>2
  <2>4. /\ room[j - 1] <= room[i] /\ room[j] = room[j - 1] - Given(events[j], room[j - 1])
        /\ events[j] \in Keys /\ {room[i], room[j], room[j - 1]} \subseteq Nat
    BY <1>1, <2>3 DEF Loop
  <2>5. Given(events[j], room[j - 1]) \in Nat
    BY <2>4 DEF Given, Smaller, Offer, TypeInv
  <2>6. room[j] <= room[i]
    BY <2>4, <2>5
  <2> QED
    BY <2>2, <2>6
<1> QED
  BY <1>1, <1>2

LEMMA DeliveredFacts ==
  ASSUME TypeInv, NEW num \in Nat, NEW room \in [0..Len(events) -> 0..num], Loop(room, num),
         NEW k \in Present
  PROVE  /\ k \in Keys /\ Offer(k) \in Nat /\ Delivered(room, k) \in Nat
         /\ Kind[k] # "level" => Delivered(room, k) <= Offer(k)
         /\ room[Len(events)] # 0 =>
              /\ Kind[k] # "level" => Delivered(room, k) = Offer(k)
              /\ Kind[k] = "level" => Offer(k) = 0
<1>1. Len(events) \in Nat /\ DOMAIN events = 1..Len(events)
      /\ \A j \in 1..Len(events) : events[j] \in Keys
  BY LenProperties, ElementOfSeq DEF TypeInv
<1>2. Place(k) \in 1..Len(events) /\ events[Place(k)] = k
  BY <1>1 DEF Place, Present, Range
<1> DEFINE i == Place(k)
<1>3. /\ i \in 1..Len(events) /\ i - 1 \in 0..Len(events) /\ i \in 0..Len(events)
      /\ events[i] = k
  BY <1>1, <1>2
<1> HIDE DEF i
<1>4. k \in Keys /\ Offer(k) \in Nat
  BY <1>1, <1>3 DEF Offer, TypeInv
<1>5. /\ room[i] = room[i - 1] - Given(k, room[i - 1])
      /\ room[i] \in 0..num /\ room[i - 1] \in 0..num
      /\ room[Len(events)] \in 0..num
  BY <1>1, <1>3 DEF Loop
<1>6. Given(k, room[i - 1]) \in 0..room[i - 1]
  BY <1>4, <1>5 DEF Given, Smaller
<1>7. Delivered(room, k) = Given(k, room[i - 1])
  BY <1>5, <1>6 DEF Delivered, i
<1>8. room[Len(events)] <= room[i]
  BY <1>3, RoomShrinks
<1> QED
  BY <1>4, <1>5, <1>6, <1>7, <1>8 DEF Given, Smaller

------------------------------------------------------------------------------
LEMMA InitIInv == Init => IInv
<1> SUFFICES ASSUME Init PROVE IInv
  OBVIOUS
<1>1. events = <<>> /\ <<>> \in Seq(Keys) /\ DOMAIN <<>> = {}
  BY EmptySeq DEF Init
<1>2. IsInjective(events) /\ Present = {}
  BY <1>1 DEF IsInjective, Range, Present
<1>3. TypeInv
  <2>1. events \in Seq(Keys) /\ IsInjective(events)
    BY <1>1, <1>2
  <2>2. n \in [Keys -> 0..MaxQueued]
    BY DEF Init
  <2>3. /\ registered \in BOOLEAN /\ closed \in BOOLEAN /\ freed \in BOOLEAN
        /\ leftover \in BOOLEAN
    BY DEF Init
  <2>4. /\ due \in [Keys -> {"none", "running", "expired"}]
        /\ pc \in [Threads -> States]
        /\ owed \in [Keys -> Int] /\ attached \in [Keys -> Int]
    BY DEF Init, States
  <2>5. late \in [Threads -> BOOLEAN]
    BY DEF Init
  <2> QED
    BY <2>1, <2>2, <2>3, <2>4, <2>5 DEF TypeInv
<1>4. CallInv
  BY DEF Init, CallInv
<1>5. EventInv /\ TriggersAccounted /\ CallbackOnce /\ NoStrandedSleeper
  BY <1>1, <1>2 DEF Init, EventInv, TriggersAccounted, CallbackOnce, NoStrandedSleeper
<1> QED
  BY <1>3, <1>4, <1>5 DEF IInv

(* t's call is over: what that does to the places of the threads. *)
LEMMA DoneFacts ==
  ASSUME IInv, NEW t \in Threads, NEW W \in SUBSET Threads, W \subseteq Sleepers, Done(t, W)
  PROVE  /\ pc' \in [Threads -> States] /\ late' \in [Threads -> BOOLEAN]
         /\ CallInv'
         /\ Sleepers' = Sleepers \ (W \cup {t})
         /\ \A s \in Threads \ {t} : Waiting(s) => Waiting(s)'
         /\ \A s \in W \ {t} : Waiting(s)'
<1>1. /\ pc' = [s \in Threads |-> IF s = t THEN "idle" ELSE IF s \in W THEN "awake" ELSE pc[s]]
      /\ call' = [call EXCEPT ![t] = NoCall] /\ late' = [late EXCEPT ![t] = FALSE]
      /\ TypeInv /\ CallInv
  BY DEF Done, IInv
<1>2. /\ pc' \in [Threads -> States] /\ late' \in [Threads -> BOOLEAN]
  BY <1>1 DEF TypeInv, States
<1>3. CallInv'
  BY <1>1 DEF CallInv, Sleepers, TypeInv
<1>4. Sleepers' = Sleepers \ (W \cup {t})
  BY <1>1 DEF Sleepers
<1>5. /\ \A s \in Threads \ {t} : Waiting(s) => Waiting(s)'
      /\ \A s \in W \ {t} : Waiting(s)'
  BY <1>1 DEF Waiting, Doing, Sleepers, TypeInv
<1> QED
  BY <1>2, <1>3, <1>4, <1>5

(* What the call of a pinned thread is about. *)
LEMMA CallFacts ==
  ASSUME IInv, NEW t \in Threads, pc[t] = "pinned" \/ pc[t] = "awake"
  PROVE  /\ call[t].op \in {"add", "remove", "trigger"} => call[t].key \in Keys
         /\ call[t].op = "trigger" => Kind[call[t].key] # "timer"
         /\ call[t].op = "wait" => call[t].num \in Nums
<1>1. call[t] \in CallsOf(t)
  BY DEF IInv, CallInv
<1>2. \/ call[t] \in [op : {"add", "remove"}, key : Keys]
      \/ call[t] \in [op : {"trigger"}, key : {k \in Keys : Kind[k] # "timer"}]
      \/ call[t] \in [op : {"wait"}, num : Nums, timeout : {"none", "some", "zero"}]
  BY <1>1 DEF CallsOf
<1> QED
  BY <1>2

(* A notification of one waiter leaves no sleeper without a waiter awake. *)
LEMMA SignalledSleeper ==
  ASSUME IInv, NEW t \in Threads, pc[t] # "asleep", NEW W \in SignalOne, Done(t, W)
  PROVE  W \in SUBSET Threads /\ W \subseteq Sleepers /\ NoStrandedSleeper'
<1>1. W \in SUBSET Threads /\ W \subseteq Sleepers /\ t \notin Sleepers
  BY DEF SignalOne, Sleepers
<1>2. Sleepers' = Sleepers \ (W \cup {t}) /\ \A s \in W \ {t} : Waiting(s)'
  BY <1>1, DoneFacts
<1>3. CASE W = {}
  <2>1. Sleepers' = {}
    BY <1>2, <1>3 DEF SignalOne
  <2> QED
    BY <1>1, <2>1 DEF NoStrandedSleeper
<1>4. CASE W # {}
  <2>1. \E s \in Threads : Waiting(s)'
    BY <1>1, <1>2, <1>4
  <2> QED
    BY <1>1, <2>1 DEF NoStrandedSleeper
<1> QED
  BY <1>3, <1>4

(* Steps that leave the events alone and take nobody from those awake. *)
LEMMA QuietStep ==
  ASSUME IInv, TypeInv', CallInv',
         UNCHANGED <<closed, events, n, owed, attached>>,
         EventInv',
         leftover' = leftover, Sleepers' \subseteq Sleepers,
         \A s \in Threads : Waiting(s) => Waiting(s)'
  PROVE  IInv'
<1>1. NoStrandedSleeper'
  BY DEF IInv, NoStrandedSleeper, Present
<1>2. TriggersAccounted' /\ CallbackOnce'
  BY DEF IInv, TriggersAccounted, CallbackOnce, Present
<1> QED
  BY <1>1, <1>2 DEF IInv

LEMMA PinStep ==
  ASSUME IInv, NEW t \in Threads, NEW c \in CallsOf(t), Pin(t, c)
  PROVE  IInv'
<1>1. TypeInv'
  BY DEF Pin, IInv, TypeInv, States
<1>2. CallInv'
  BY DEF Pin, IInv, TypeInv, CallInv
<1>3. EventInv'
  BY DEF Pin, IInv, EventInv, Present
<1>4. Sleepers' = Sleepers /\ \A s \in Threads : Waiting(s) => Waiting(s)'
  BY DEF Pin, IInv, TypeInv, CallInv, Sleepers, Waiting, Doing
<1> QED
  BY <1>1, <1>2, <1>3, <1>4, QuietStep DEF Pin

(* A call or a deadline that changes nothing but the threads' places. *)
LEMMA RefusedStep ==
  ASSUME IInv, NEW t \in Threads, Refused(t)
  PROVE  IInv'
<1>1. Done(t, {}) /\ ~Waiting(t)
  BY DEF Refused, Waiting, Doing
<1>2. /\ pc' \in [Threads -> States] /\ late' \in [Threads -> BOOLEAN] /\ CallInv'
      /\ Sleepers' = Sleepers \ {t}
      /\ \A s \in Threads \ {t} : Waiting(s) => Waiting(s)'
  BY <1>1, DoneFacts
<1>3. TypeInv' /\ EventInv'
  BY <1>2 DEF Refused, IInv, TypeInv, EventInv, Present
<1> QED
  BY <1>1, <1>2, <1>3, QuietStep DEF Refused

LEMMA SleeperStep ==
  ASSUME IInv, NEW t \in Threads, SleepEnds(t) \/ DeadlinePasses(t) \/ Unregister(t)
  PROVE  IInv'
<1>1. TypeInv'
  BY DEF SleepEnds, DeadlinePasses, Unregister, IInv, TypeInv, States
<1>2. CallInv'
  BY DEF SleepEnds, DeadlinePasses, Unregister, IInv, TypeInv, CallInv
<1>3. EventInv'
  BY DEF SleepEnds, DeadlinePasses, Unregister, IInv, EventInv, Present
<1>4. Sleepers' \subseteq Sleepers /\ \A s \in Threads : Waiting(s) => Waiting(s)'
  BY DEF SleepEnds, DeadlinePasses, Unregister, IInv, TypeInv, Sleepers, Waiting, Doing
<1> QED
  BY <1>1, <1>2, <1>3, <1>4, QuietStep DEF SleepEnds, DeadlinePasses, Unregister

LEMMA TimerStep ==
  ASSUME IInv, NEW k \in Keys, TimerExpires(k)
  PROVE  IInv'
<1>1. TypeInv' /\ CallInv'
  BY DEF TimerExpires, IInv, TypeInv, CallInv
<1>2. EventInv'
  BY DEF TimerExpires, IInv, TypeInv, EventInv, Present
<1>3. Sleepers' = Sleepers /\ \A s \in Threads : Waiting(s) => Waiting(s)'
  BY DEF TimerExpires, Sleepers, Waiting, Doing
<1> QED
  BY <1>1, <1>2, <1>3, QuietStep DEF TimerExpires

LEMMA AddStep ==
  ASSUME IInv, NEW t \in Threads, AddEvent(t)
  PROVE  IInv'
<1> DEFINE k == call[t].key
<1>1. PICK W \in SignalOne : Done(t, W)
  BY DEF AddEvent
<1>2. /\ TypeInv /\ EventInv /\ TriggersAccounted /\ CallbackOnce /\ k \in Keys
      /\ ~closed /\ pc[t] = "pinned" /\ events' = Added(k)
      /\ due' = [due EXCEPT ![k] = IF Kind[k] = "timer" THEN "running" ELSE "none"]
      /\ attached' = [attached EXCEPT ![k] = IF Kind[k] = "queued"
                                              THEN @ + Len(events') - Len(events) ELSE @]
      /\ UNCHANGED <<registered, closed, freed, n, owed, leftover>>
  BY CallFacts DEF AddEvent, Open, Doing, IInv
<1> HIDE DEF k
<1>3. /\ W \in SUBSET Threads /\ W \subseteq Sleepers /\ NoStrandedSleeper'
  BY <1>1, <1>2, SignalledSleeper
<1>4. pc' \in [Threads -> States] /\ late' \in [Threads -> BOOLEAN] /\ CallInv'
  BY <1>1, <1>3, DoneFacts
<1>5. /\ events' \in Seq(Keys) /\ IsInjective(events') /\ Present' = Present \cup {k}
      /\ Len(events') = IF k \in Present THEN Len(events) ELSE Len(events) + 1
      /\ Len(events) \in Nat
  <2>1. Len(events) \in Nat
    BY <1>2, LenProperties DEF TypeInv
  <2>2. CASE k \in Present
    BY <1>2, <2>1, <2>2 DEF Added, TypeInv, Present
  <2>3. CASE k \notin Present
    <3>1. /\ Append(events, k) \in Seq(Keys) /\ IsInjective(Append(events, k))
          /\ Range(Append(events, k)) = Range(events) \cup {k}
          /\ Len(Append(events, k)) = Len(events) + 1
      BY <1>2, <2>3, AppendFacts, AppendProperties DEF TypeInv, Present
    <3> QED
      BY <1>2, <2>1, <2>3, <3>1 DEF Added, Present
  <2> QED
    BY <2>2, <2>3
<1>6. attached' \in [Keys -> Int] /\ due' \in [Keys -> {"none", "running", "expired"}]
  BY <1>2, <1>5 DEF TypeInv
<1>7. TypeInv'
  BY <1>2, <1>4, <1>5, <1>6 DEF TypeInv
<1>8. EventInv'
  BY <1>2, <1>5 DEF EventInv, TypeInv
<1>9. CallbackOnce'
  BY <1>2, <1>5 DEF CallbackOnce, TypeInv
<1>10. TriggersAccounted'
  BY <1>2 DEF TriggersAccounted
<1> QED
  BY <1>3, <1>4, <1>7, <1>8, <1>9, <1>10 DEF IInv

LEMMA TriggerStep ==
  ASSUME IInv, NEW t \in Threads, TriggerEvent(t)
  PROVE  IInv'
<1> DEFINE k == call[t].key
<1>1. PICK W \in SignalOne : Done(t, W)
  BY DEF TriggerEvent, TriggerTells
<1>2. /\ TypeInv /\ EventInv /\ TriggersAccounted /\ CallbackOnce /\ k \in Keys
      /\ Kind[k] # "timer" /\ ~closed /\ pc[t] = "pinned" /\ k \in Present
      /\ Kind[k] = "queued" => n[k] < MaxQueued
      /\ n' = [n EXCEPT ![k] = IF Kind[k] = "queued" THEN @ + 1 ELSE 1]
      /\ owed' = [owed EXCEPT ![k] = IF Kind[k] = "queued" THEN @ + 1 ELSE 1]
      /\ UNCHANGED <<registered, closed, freed, events, due, attached>>
      /\ leftover' = FALSE
  BY CallFacts DEF TriggerEvent, Triggered, Open, Doing, IInv
<1> HIDE DEF k
<1>3. /\ W \in SUBSET Threads /\ W \subseteq Sleepers /\ NoStrandedSleeper'
  BY <1>1, <1>2, SignalledSleeper
<1>4. pc' \in [Threads -> States] /\ late' \in [Threads -> BOOLEAN] /\ CallInv'
  BY <1>1, <1>3, DoneFacts
<1>5. n' \in [Keys -> 0..MaxQueued] /\ owed' \in [Keys -> Int]
  BY <1>2 DEF TypeInv
<1>6. TypeInv'
  BY <1>2, <1>4, <1>5 DEF TypeInv
<1>7. EventInv'
  BY <1>2 DEF EventInv, TypeInv, Present
<1>8. TriggersAccounted' /\ CallbackOnce'
  BY <1>2 DEF TriggersAccounted, CallbackOnce, TypeInv, Present
<1> QED
  BY <1>3, <1>4, <1>6, <1>7, <1>8 DEF IInv

LEMMA PresentKeys ==
  ASSUME TypeInv
  PROVE  Present \subseteq Keys
BY LenProperties, ElementOfSeq DEF TypeInv, Present, Range

LEMMA DeleteStep ==
  ASSUME IInv, NEW t \in Threads, DeleteEvent(t)
  PROVE  IInv'
<1> DEFINE k == call[t].key
<1>1. /\ TypeInv /\ EventInv /\ TriggersAccounted /\ CallbackOnce /\ k \in Keys
      /\ ~closed /\ pc[t] = "pinned" /\ ~Waiting(t) /\ k \in Present
      /\ events' = Without(events, {k}) /\ attached' = CalledBack({k}) /\ Forget({k})
      /\ Done(t, {})
      /\ UNCHANGED <<registered, closed, freed, leftover>>
  BY CallFacts DEF DeleteEvent, Open, Doing, Waiting, IInv
<1> HIDE DEF k
<1>2. /\ pc' \in [Threads -> States] /\ late' \in [Threads -> BOOLEAN] /\ CallInv'
      /\ Sleepers' = Sleepers \ {t}
      /\ \A s \in Threads \ {t} : Waiting(s) => Waiting(s)'
  BY <1>1, DoneFacts
<1>3. events' \in Seq(Keys) /\ IsInjective(events') /\ Present' = Present \ {k}
  BY <1>1, WithoutFacts DEF TypeInv, Present
<1>4. /\ n' = [j \in Keys |-> IF j = k THEN 0 ELSE n[j]]
      /\ owed' = [j \in Keys |-> IF j = k THEN 0 ELSE owed[j]]
      /\ due' = [j \in Keys |-> IF j = k THEN "none" ELSE due[j]]
      /\ attached' = [j \in Keys |-> IF j = k /\ Kind[j] = "queued" THEN attached[j] - 1
                                     ELSE attached[j]]
  BY <1>1 DEF Forget, CalledBack
<1>5. TypeInv'
  <2>1. n' \in [Keys -> 0..MaxQueued] /\ owed' \in [Keys -> Int]
    BY <1>1, <1>4 DEF TypeInv
  <2>2. due' \in [Keys -> {"none", "running", "expired"}]
    BY <1>1, <1>4 DEF TypeInv
  <2>3. attached' \in [Keys -> Int]
    <3>1. \A j \in Keys : attached[j] \in Int
      BY <1>1 DEF TypeInv
    <3> QED
      BY <1>4, <3>1
  <2> QED
    BY <1>1, <1>2, <1>3, <2>1, <2>2, <2>3 DEF TypeInv
<1>6. EventInv'
  BY <1>1, <1>3, <1>4 DEF EventInv, TypeInv
<1>7. TriggersAccounted'
  BY <1>1, <1>4 DEF TriggersAccounted
<1>8. CallbackOnce'
  <2>1. ASSUME NEW j \in Keys
        PROVE  attached'[j] = IF j \in Present' /\ Kind[j] = "queued" THEN 1 ELSE 0
    <3>1. attached[j] = IF j \in Present /\ Kind[j] = "queued" THEN 1 ELSE 0
      BY <1>1 DEF CallbackOnce
    <3>2. attached'[j] = IF j = k /\ Kind[j] = "queued" THEN attached[j] - 1 ELSE attached[j]
      BY <1>4
    <3>3. (j \in Present' <=> j \in Present /\ j # k) /\ k \in Present
      BY <1>1, <1>3
    <3> QED
      BY <3>1, <3>2, <3>3
  <2> QED
    BY <1>1, <2>1 DEF CallbackOnce
<1>9. NoStrandedSleeper'
  <2>1. SUFFICES ASSUME Sleepers' # {}, NEW j \in Present', Kind[j] # "timer", n'[j] > 0, ~leftover'
                 PROVE  \E s \in Threads : Waiting(s)'
    BY DEF NoStrandedSleeper
  <2>2. j \in Keys /\ j \in Present /\ j # k
    BY <1>1, <1>3, <2>1, PresentKeys
  <2>3. n[j] > 0 /\ ~leftover /\ Sleepers # {}
    BY <1>1, <1>2, <1>4, <2>1, <2>2
  <2>4. \E s \in Threads : Waiting(s)
    BY <2>1, <2>2, <2>3 DEF IInv, NoStrandedSleeper
  <2> QED
    BY <1>1, <1>2, <2>4
<1> QED
  BY <1>2, <1>5, <1>6, <1>7, <1>8, <1>9 DEF IInv

(* A pass of the wait that leaves the events alone: there was nothing to   *)
(* deliver, or the queue is closed.                                        *)
LEMMA NothingToMiss ==
  ASSUME IInv, closed \/ NothingThere, UNCHANGED <<events, n>>
  PROVE  NoStrandedSleeper'
<1>1. SUFFICES ASSUME NEW k \in Present, Kind[k] # "timer", n[k] > 0 PROVE FALSE
  BY DEF NoStrandedSleeper, Present
<1>2. k \in Keys
  BY PresentKeys DEF IInv
<1>3. ~closed
  <2>1. closed => events = <<>>
    BY DEF IInv, CallbackOnce
  <2>2. DOMAIN <<>> = {}
    BY EmptySeq
  <2> QED
    BY <2>1, <2>2 DEF Present, Range
<1>4. Offer(k) = n[k]
  BY <1>1, <1>2 DEF IInv, EventInv, Offer
<1> QED
  BY <1>1, <1>2, <1>3, <1>4 DEF NothingThere, IInv, TypeInv

LEMMA WaitEndsStep ==
  ASSUME IInv, NEW t \in Threads, WaitClosed(t) \/ WaitTimeout(t)
  PROVE  IInv'
<1>1. /\ Done(t, {}) /\ (closed \/ NothingThere)
      /\ UNCHANGED <<registered, closed, freed, events, n, due, owed, attached, leftover>>
  BY DEF WaitClosed, WaitTimeout
<1>2. /\ pc' \in [Threads -> States] /\ late' \in [Threads -> BOOLEAN] /\ CallInv'
  BY <1>1, DoneFacts
<1>3. TypeInv' /\ EventInv' /\ TriggersAccounted' /\ CallbackOnce'
  BY <1>1, <1>2 DEF IInv, TypeInv, EventInv, TriggersAccounted, CallbackOnce, Present
<1>4. NoStrandedSleeper'
  BY <1>1, NothingToMiss
<1> QED
  BY <1>2, <1>3, <1>4 DEF IInv

LEMMA WaitSleepStep ==
  ASSUME IInv, NEW t \in Threads, WaitSleep(t)
  PROVE  IInv'
<1>1. /\ NothingThere /\ pc' = [pc EXCEPT ![t] = "asleep"] /\ Waiting(t)
      /\ UNCHANGED <<registered, closed, freed, events, n, due, call, late, owed, attached,
                     leftover>>
  BY DEF WaitSleep
<1>2. TypeInv' /\ EventInv' /\ TriggersAccounted' /\ CallbackOnce'
  BY <1>1 DEF IInv, TypeInv, States, EventInv, TriggersAccounted, CallbackOnce, Present
<1>3. CallInv'
  BY <1>1 DEF IInv, TypeInv, CallInv, Waiting, Doing
<1>4. NoStrandedSleeper'
  BY <1>1, NothingToMiss
<1> QED
  BY <1>2, <1>3, <1>4 DEF IInv

LEMMA DeliverStep ==
  ASSUME IInv, NEW t \in Threads, WaitDeliver(t)
  PROVE  IInv'
<1> DEFINE num == call[t].num
<1>1. PICK room \in [0..Len(events) -> 0..num] : Loop(room, num) /\ Deliver(room)
  BY DEF WaitDeliver
<1>2. /\ TypeInv /\ EventInv /\ TriggersAccounted /\ CallbackOnce /\ CallInv
      /\ ~closed /\ Done(t, {}) /\ UNCHANGED <<registered, closed, freed, attached>>
  BY DEF WaitDeliver, IInv
<1>3. num \in Nat
  <2>1. call[t].op = "wait" /\ (pc[t] = "pinned" \/ pc[t] = "awake")
    BY <1>2 DEF WaitDeliver, Waiting, Doing, CallInv
  <2> QED
    BY <2>1, CallFacts
<1> HIDE DEF num
<1> DEFINE Got(k) == Delivered(room, k)
           gone == {k \in Present : Kind[k] = "timer" /\ Got(k) > 0}
<1>4. /\ events' = Without(events, gone)
      /\ \A k \in Keys :
           /\ n'[k] = IF k \in Present THEN Remains(k, Got(k)) ELSE 0
           /\ owed'[k] = CASE k \in gone \/ k \notin Present -> 0
                           [] k \in Present \ gone /\ Kind[k] = "level" -> owed[k]
                           [] k \in Present \ gone /\ Kind[k] = "timer" -> Offer(k)
                           [] OTHER -> owed[k] - Got(k)
           /\ due'[k] = IF k \in gone THEN "none" ELSE due[k]
      /\ leftover' = (room[Len(events)] = 0 /\ \E k \in Present : n'[k] > 0)
      /\ DOMAIN n' = Keys /\ DOMAIN owed' = Keys /\ DOMAIN due' = Keys
      /\ n' = [k \in Keys |-> n'[k]] /\ owed' = [k \in Keys |-> owed'[k]]
      /\ due' = [k \in Keys |-> due'[k]]
  BY <1>1 DEF Deliver
<1>5. /\ events' \in Seq(Keys) /\ IsInjective(events') /\ Present' = Present \ gone
  BY <1>2, <1>4, WithoutFacts DEF TypeInv, Present
<1>6. \A k \in Present :
        /\ k \in Keys /\ Offer(k) \in Nat /\ Got(k) \in Nat
        /\ Kind[k] # "level" => Got(k) <= Offer(k)
        /\ room[Len(events)] # 0 =>
             /\ Kind[k] # "level" => Got(k) = Offer(k)
             /\ Kind[k] = "level" => Offer(k) = 0
  BY <1>1, <1>2, <1>3, DeliveredFacts
<1> HIDE DEF Got
<1>7. \A k \in Keys : /\ Offer(k) \in 0..MaxQueued
                      /\ Kind[k] # "queued" => Offer(k) <= 1
                      /\ Kind[k] # "timer" => Offer(k) = n[k]
  BY <1>2 DEF Offer, TypeInv, EventInv
<1>8. \A k \in Keys : /\ n'[k] \in 0..MaxQueued
                      /\ Kind[k] # "queued" => n'[k] <= 1
                      /\ k \notin Present' => n'[k] = 0 /\ owed'[k] = 0 /\ due'[k] = "none"
                      /\ owed'[k] \in Int
  <2> SUFFICES ASSUME NEW k \in Keys
               PROVE  /\ n'[k] \in 0..MaxQueued
                      /\ Kind[k] # "queued" => n'[k] <= 1
                      /\ k \notin Present' => n'[k] = 0 /\ owed'[k] = 0 /\ due'[k] = "none"
                      /\ owed'[k] \in Int
    OBVIOUS
  <2>1. CASE k \notin Present
    BY <1>2, <1>4, <1>5, <2>1 DEF EventInv
  <2>2. CASE k \in gone
    <3>1. n'[k] = Offer(k) - Got(k) /\ owed'[k] = 0 /\ due'[k] = "none" /\ k \in Present
      BY <1>4, <2>2 DEF Remains
    <3>2. Got(k) > 0 /\ Kind[k] = "timer" /\ Got(k) <= Offer(k) /\ Offer(k) <= 1
          /\ Offer(k) \in Nat /\ Got(k) \in Nat
      BY <1>6, <1>7, <2>2
    <3> QED
      BY <3>1, <3>2
  <2>3. CASE k \in Present \ gone
    <3>1. k \in Present' /\ n'[k] = IF Kind[k] = "level" THEN Offer(k) ELSE Offer(k) - Got(k)
      BY <1>4, <1>5, <2>3 DEF Remains
    <3>2. owed'[k] \in {owed[k], Offer(k), owed[k] - Got(k)} /\ owed[k] \in Int
      BY <1>2, <1>4, <2>3 DEF TypeInv
    <3>3. /\ Got(k) \in Nat /\ (Kind[k] # "level" => Got(k) <= Offer(k))
          /\ Offer(k) \in 0..MaxQueued /\ (Kind[k] # "queued" => Offer(k) <= 1)
      BY <1>6, <1>7, <2>3
    <3> QED
      BY <3>1, <3>2, <3>3
  <2> QED
    BY <2>1, <2>2, <2>3
<1>9. /\ pc' \in [Threads -> States] /\ late' \in [Threads -> BOOLEAN] /\ CallInv'
  BY <1>2, DoneFacts
<1>10. TypeInv'
  <2>1. n' \in [Keys -> 0..MaxQueued] /\ owed' \in [Keys -> Int]
    BY <1>4, <1>8
  <2>2. due' \in [Keys -> {"none", "running", "expired"}]
    BY <1>2, <1>4 DEF TypeInv
  <2>3. leftover' \in BOOLEAN
    BY <1>4
  <2> QED
    BY <1>2, <1>5, <1>9, <2>1, <2>2, <2>3 DEF TypeInv
<1>11. EventInv'
  BY <1>2, <1>4, <1>8 DEF EventInv
<1>12. TriggersAccounted'
  <2> SUFFICES ASSUME NEW k \in Keys, Kind[k] \in {"edge", "queued"} PROVE n'[k] = owed'[k]
    BY DEF TriggersAccounted
  <2>1. CASE k \notin Present
    BY <1>4, <2>1
  <2>2. CASE k \in Present
    <3>1. n'[k] = n[k] - Got(k) /\ owed'[k] = owed[k] - Got(k)
      BY <1>4, <1>7, <2>2 DEF Remains
    <3> QED
      BY <1>2, <3>1 DEF TriggersAccounted
  <2> QED
    BY <2>1, <2>2
<1>13. CallbackOnce'
  BY <1>2, <1>5 DEF CallbackOnce
<1>14. NoStrandedSleeper'
  <2>1. SUFFICES ASSUME NEW k \in Present', Kind[k] # "timer", n'[k] > 0, ~leftover'
                 PROVE  FALSE
    BY DEF NoStrandedSleeper
  <2>2. k \in Present /\ k \in Keys /\ room[Len(events)] # 0
    BY <1>4, <1>5, <1>6, <2>1
  <2>3. n'[k] = IF Kind[k] = "level" THEN Offer(k) ELSE Offer(k) - Got(k)
    BY <1>4, <2>2 DEF Remains
  <2> QED
    BY <1>6, <2>1, <2>2, <2>3
<1> QED
  BY <1>9, <1>10, <1>11, <1>12, <1>13, <1>14 DEF IInv

------------------------------------------------------------------------------
(* Close and the destructor: the second of them finds nothing to do. *)
LEMMA CloseFacts ==
  ASSUME IInv, CloseEvents
  PROVE  /\ closed' \in BOOLEAN /\ events' = <<>> /\ Present' = {}
         /\ events' \in Seq(Keys) /\ IsInjective(events')
         /\ n' \in [Keys -> 0..MaxQueued] /\ due' \in [Keys -> {"none", "running", "expired"}]
         /\ owed' \in [Keys -> Int] /\ attached' \in [Keys -> Int]
         /\ EventInv' /\ TriggersAccounted' /\ CallbackOnce'
<1>1. TypeInv /\ EventInv /\ TriggersAccounted /\ CallbackOnce
  BY DEF IInv
<1>2. <<>> \in Seq(Keys) /\ DOMAIN <<>> = {}
  BY EmptySeq
<1>3. IsInjective(<<>>) /\ Range(<<>>) = {}
  BY <1>2 DEF IsInjective, Range
<1>4. CASE closed
  <2>1. /\ events = <<>> /\ UNCHANGED <<closed, events, attached, n, owed, due>>
    BY <1>1, <1>4 DEF CloseEvents, CallbackOnce
  <2>2. EventInv' /\ TriggersAccounted' /\ CallbackOnce'
    BY <1>1, <2>1 DEF EventInv, TriggersAccounted, CallbackOnce, Present
  <2> QED
    BY <1>1, <1>2, <1>3, <2>1, <2>2 DEF TypeInv, Present
<1>5. CASE ~closed
  <2>1. /\ closed' = TRUE /\ events' = <<>>
        /\ n' = [k \in Keys |-> 0] /\ owed' = [k \in Keys |-> 0]
        /\ due' = [k \in Keys |-> "none"]
        /\ attached' = [k \in Keys |-> IF k \in Present /\ Kind[k] = "queued"
                                       THEN attached[k] - 1 ELSE attached[k]]
    BY <1>5 DEF CloseEvents, Forget, CalledBack
  <2>2. \A k \in Keys : attached'[k] = 0
    <3>1. \A k \in Keys : attached[k] = IF k \in Present /\ Kind[k] = "queued" THEN 1 ELSE 0
      BY <1>1 DEF CallbackOnce
    <3> QED
      BY <2>1, <3>1
  <2>3. attached' \in [Keys -> Int]
    <3>1. attached' = [k \in Keys |-> attached'[k]]
      BY <2>1
    <3> QED
      BY <2>2, <3>1
  <2>4. Present' = {}
    BY <1>3, <2>1 DEF Present
  <2>5. EventInv' /\ TriggersAccounted' /\ CallbackOnce'
    BY <2>1, <2>2, <2>4 DEF EventInv, TriggersAccounted, CallbackOnce
  <2>6. n' \in [Keys -> 0..MaxQueued] /\ owed' \in [Keys -> Int]
        /\ due' \in [Keys -> {"none", "running", "expired"}]
    BY <2>1
  <2> QED
    BY <1>2, <1>3, <2>1, <2>3, <2>4, <2>5, <2>6
<1> QED
  BY <1>4, <1>5

LEMMA CloseStep ==
  ASSUME IInv, NEW t \in Threads, Close(t)
  PROVE  IInv'
<1>1. /\ CloseEvents /\ Done(t, Sleepers) /\ UNCHANGED <<registered, freed, leftover>>
  BY DEF Close, CloseReleases, SignalAll
<1>2. /\ pc' \in [Threads -> States] /\ late' \in [Threads -> BOOLEAN] /\ CallInv'
  <2>1. Sleepers \in SUBSET Threads
    BY DEF Sleepers
  <2> QED
    BY <1>1, <2>1, DoneFacts
<1>3. TypeInv'
  BY <1>1, <1>2, CloseFacts DEF TypeInv, IInv
<1>4. NoStrandedSleeper'
  BY <1>1, CloseFacts DEF NoStrandedSleeper
<1> QED
  BY <1>1, <1>2, <1>3, <1>4, CloseFacts DEF IInv

LEMMA DestroyStep ==
  ASSUME IInv, Destroy
  PROVE  IInv'
<1>1. CloseEvents /\ freed' = TRUE /\ UNCHANGED <<registered, pc, call, late, leftover>>
  BY DEF Destroy
<1>2. TypeInv'
  BY <1>1, CloseFacts DEF TypeInv, IInv
<1>3. CallInv'
  BY <1>1 DEF IInv, CallInv
<1>4. NoStrandedSleeper'
  BY <1>1, CloseFacts DEF NoStrandedSleeper
<1> QED
  BY <1>1, <1>2, <1>3, <1>4, CloseFacts DEF IInv

LEMMA NextIInv ==
  ASSUME IInv, [Next]_vars
  PROVE  IInv'
<1>1. CASE UNCHANGED vars
  BY <1>1 DEF vars, IInv, TypeInv, CallInv, EventInv, TriggersAccounted, CallbackOnce,
              NoStrandedSleeper, Present, Sleepers, Waiting, Doing
<1>2. ASSUME NEW t \in Threads, NEW c \in CallsOf(t), Pin(t, c) PROVE IInv'
  BY <1>2, PinStep
<1>3. ASSUME NEW t \in Threads,
             Refused(t) \/ AddEvent(t) \/ TriggerEvent(t) \/ DeleteEvent(t)
      PROVE  IInv'
  BY <1>3, RefusedStep, AddStep, TriggerStep, DeleteStep
<1>4. ASSUME NEW t \in Threads, WaitPass(t) PROVE IInv'
  BY <1>4, WaitEndsStep, DeliverStep, WaitSleepStep DEF WaitPass
<1>5. ASSUME NEW t \in Threads, SleepEnds(t) \/ DeadlinePasses(t) \/ Unregister(t) \/ Close(t)
      PROVE  IInv'
  BY <1>5, SleeperStep, CloseStep
<1>6. ASSUME NEW k \in Keys, TimerExpires(k) PROVE IInv'
  BY <1>6, TimerStep
<1> QED
  BY <1>1, <1>2, <1>3, <1>4, <1>5, <1>6, DestroyStep DEF Next

(* The inductive invariant holds of every reachable state of a queue. *)
THEOREM Inductive == Spec => []IInv
<1>1. Init => IInv
  BY InitIInv
<1>2. IInv /\ [Next]_vars => IInv'
  BY NextIInv
<1> QED
  BY <1>1, <1>2, PTL DEF Spec

(* Every variable of the queue keeps its type: an event is in m_events     *)
(* once, and a thread inside has a call.                                   *)
THEOREM TypeCorrect == Spec => []TypeOK
<1>1. IInv => TypeOK
  BY DEF IInv, TypeInv, CallInv, TypeOK, States
<1> QED
  BY <1>1, Inductive, PTL

(* A trigger that TriggerEvent accepted is delivered by one pass of one    *)
(* wait, or goes with its event.                                           *)
THEOREM TriggersAreAccounted == Spec => []TriggersAccounted
<1>1. IInv => TriggersAccounted
  BY DEF IInv
<1> QED
  BY <1>1, Inductive, PTL

(* The delete callback of an event runs once, whoever of DeleteEvent,      *)
(* Close and the destructor takes it away, and a closed queue stays empty. *)
THEOREM CallbacksRunOnce == Spec => []CallbackOnce
<1>1. IInv => CallbackOnce
  BY DEF IInv
<1> QED
  BY <1>1, Inductive, PTL

(* Nobody sleeps in WaitForEvents past a trigger that no other thread is   *)
(* awake for, unless a full array left it behind.                          *)
THEOREM NobodyStranded == Spec => []NoStrandedSleeper
<1>1. IInv => NoStrandedSleeper
  BY DEF IInv
<1> QED
  BY <1>1, Inductive, PTL

------------------------------------------------------------------------------
(* The loop of GetTriggeredEventsLocked never gets stuck: whatever is in   *)
(* the queue, it leaves some room behind each event.                       *)
THEOREM LoopEnds ==
  ASSUME IInv, NEW num \in Nat
  PROVE  \E room \in [0..Len(events) -> 0..num] : Loop(room, num)
<1> DEFINE Upto(m, room) ==
             /\ room \in [0..m -> 0..num] /\ room[0] = num
             /\ \A i \in 1..m : room[i] = room[i - 1] - Given(events[i], room[i - 1])
           T == {m \in 0..Len(events) : ~ \E room : Upto(m, room)}
<1>1. /\ Len(events) \in Nat /\ DOMAIN events = 1..Len(events)
      /\ \A j \in 1..Len(events) : events[j] \in Keys
      /\ TypeInv
  BY LenProperties, ElementOfSeq DEF TypeInv, IInv
<1>2. T = {}
  <2>1. SUFFICES ASSUME T # {} PROVE FALSE
    OBVIOUS
  <2>2. PICK m \in T : \A l \in T : m <= l
    <3>1. T \in SUBSET Nat
      BY <1>1
    <3> HIDE DEF T
    <3> QED
      BY <2>1, <3>1, Least
  <2>3. m # 0
    <3>1. Upto(0, [i \in 0..0 |-> num])
      OBVIOUS
    <3> QED
      BY <3>1
  <2>4. m \in 1..Len(events) /\ m - 1 \in 0..Len(events) /\ m - 1 \notin T
    <3> HIDE DEF Upto
    <3> QED
      BY <1>1, <2>2, <2>3
  <2>5. PICK room : Upto(m - 1, room)
    <3> HIDE DEF Upto
    <3> QED
      BY <2>4
  <2> DEFINE last == room[m - 1] - Given(events[m], room[m - 1])
             new == [i \in 0..m |-> IF i < m THEN room[i] ELSE last]
  <2>6. room[m - 1] \in 0..num
    BY <2>4, <2>5
  <2>7. last \in 0..num
    <3>1. Offer(events[m]) \in Nat
      BY <1>1, <2>4 DEF Offer, TypeInv
    <3> QED
      BY <2>6, <3>1 DEF Given, Smaller
  <2> HIDE DEF last
  <2>8. new \in [0..m -> 0..num] /\ new[0] = num
    BY <2>4, <2>5, <2>7
  <2>9. ASSUME NEW i \in 1..m PROVE new[i] = new[i - 1] - Given(events[i], new[i - 1])
    <3>1. CASE i < m
      <4>1. i \in 1..(m - 1) /\ new[i] = room[i] /\ new[i - 1] = room[i - 1]
        BY <2>4, <3>1
      <4> QED
        BY <2>5, <4>1
    <3>2. CASE i = m
      <4>1. new[i] = last /\ new[i - 1] = room[i - 1]
        BY <2>4, <3>2
      <4> QED
        BY <3>2, <4>1 DEF last
    <3> QED
      BY <2>4, <3>1, <3>2
  <2>10. Upto(m, new)
    <3> HIDE DEF new
    <3> QED
      BY <2>8, <2>9
  <2> QED
    BY <2>10
<1>3. PICK room : Upto(Len(events), room)
  <2> HIDE DEF Upto
  <2> QED
    BY <1>1, <1>2
<1> QED
  BY <1>1, <1>3 DEF Loop
==============================================================================
