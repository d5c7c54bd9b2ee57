---------------------------- MODULE EventFlagProofs ----------------------------
(***************************************************************************)
(* Proofs about EventFlag, for every set of threads, of bits and of calls. *)
(***************************************************************************)
EXTENDS EventFlag, FiniteSetTheorems, TLAPS

(* Who was struck is awake, and the status lasts until he has left. *)
StruckInv ==
  \A t \in Threads : doomed[t] # "no" => pc[t] = "awake" /\ status = doomed[t]

(* One call at a time drains, and the status says which kind it is; once   *)
(* the flag is deleted nobody spins.                                       *)
DrainInv ==
  /\ \A s, t \in Threads : pc[s] = "drain" /\ pc[t] = "drain" => s = t
  /\ \A t \in Threads :
       pc[t] = "drain" => status = IF call[t] = Deletion THEN "deleted" ELSE "canceled"
  /\ status = "deleted" => deleting /\ \A t \in Threads : pc[t] # "spin"

(* A freed flag is deleted, and nobody drains it or waits on it. *)
FreedInv ==
  freed => /\ status = "deleted"
           /\ \A t \in Threads : pc[t] \notin {"drain", "asleep", "awake"}

(* The call of a thread inside is a wait. *)
WaitInv == \A t \in Threads : pc[t] \in {"asleep", "awake"} => call[t] \in WaitCalls

IInv ==
  TypeOK /\ SingleWaiter /\ NoStrandedSleeper /\ WaitInv /\ StruckInv /\ DrainInv /\ FreedInv

USE EventFlagAssumption

------------------------------------------------------------------------------
(* The count of those inside *)

LEMMA CountFacts ==
  ASSUME TypeOK
  PROVE  /\ IsFiniteSet(Inside)
         /\ waiting \in Nat
         /\ waiting = 0 <=> Inside = {}
<1>1. IsFiniteSet(Inside)
  BY FS_Subset DEF Inside
<1> QED
  BY <1>1, FS_CardinalityType, FS_EmptySet DEF TypeOK

(* Bits that are cleared end no sleeper's wait. *)
LEMMA FewerBits ==
  ASSUME NEW t \in Threads, ~Met(call[t]), call'[t] = call[t], bits' \subseteq bits
  PROVE  ~Met(call[t])'
BY DEF Met

------------------------------------------------------------------------------
LEMMA InitIInv == Init => IInv
<1> SUFFICES ASSUME Init PROVE IInv
  OBVIOUS
<1>1. Inside = {} /\ Cardinality(Inside) = 0
  BY FS_EmptySet DEF Init, Inside
<1>2. TypeOK
  BY <1>1 DEF Init, TypeOK
<1>3. SingleWaiter
  BY <1>1 DEF SingleWaiter
<1> QED
  BY <1>2, <1>3 DEF Init, IInv, NoStrandedSleeper, WaitInv, StruckInv, DrainInv, FreedInv

(* A wait that goes through the loop: t was outside, or inside and not     *)
(* counted any more; others is the number of the other threads inside.     *)
LEMMA PassStep ==
  ASSUME IInv, NEW t \in Threads, NEW c \in WaitCalls, NEW others \in Nat,
         pc[t] \in {"idle", "awake"}, status = "set" \/ pc[t] = "idle", ~deleting \/ pc[t] = "awake",
         others = Cardinality(Inside \ {t}),
         single => others = 0,
         Pass(t, c, others),
         UNCHANGED <<single, status, deleting, freed>>
  PROVE  IInv'
<1>1. PICK l \in {"idle", "asleep"} :
         /\ pc' = [pc EXCEPT ![t] = l]
         /\ waiting' = IF l = "idle" THEN others ELSE others + 1
         /\ call' = [call EXCEPT ![t] = IF l = "idle" THEN NoCall ELSE c]
         /\ l = "asleep" => ~Met(c) /\ UNCHANGED <<bits, late, doomed, result>>
         /\ l = "idle" => /\ late' = [late EXCEPT ![t] = FALSE]
                          /\ doomed' = [doomed EXCEPT ![t] = "no"]
                          /\ result' \in {"ok", "timed_out"}
  BY DEF Pass, Returns
<1>2. bits' \subseteq bits
  BY DEF Pass, Left, WaitArguments
<1>3. \A s \in Threads : pc'[s] = IF s = t THEN l ELSE pc[s]
  BY <1>1 DEF IInv, TypeOK
<1>4. /\ Inside' = IF l = "idle" THEN Inside \ {t} ELSE Inside \cup {t}
      /\ t \notin Inside \ {t}
  BY <1>3 DEF Inside
<1>5. waiting' = Cardinality(Inside')
  <2>1. IsFiniteSet(Inside \ {t})
    BY CountFacts, FS_Subset DEF IInv
  <2>2. Inside \cup {t} = (Inside \ {t}) \cup {t}
    OBVIOUS
  <2>3. Cardinality((Inside \ {t}) \cup {t}) = others + 1
    BY <2>1, <1>4, FS_AddElement
  <2> QED
    BY <2>2, <2>3, <1>1, <1>4
<1>6. TypeOK'
  <2>1. /\ pc' \in [Threads -> {"idle", "asleep", "awake", "spin", "drain"}]
        /\ bits' \subseteq Bits
    BY <1>1, <1>2 DEF IInv, TypeOK
  <2>2. call' \in [Threads -> WaitCalls \cup Changes \cup {Deletion, NoCall}]
    BY <1>1 DEF IInv, TypeOK
  <2>3. /\ late' \in [Threads -> BOOLEAN]
        /\ doomed' \in [Threads -> {"no", "canceled", "deleted"}]
        /\ result' \in {"none", "ok", "already_waiting", "timed_out", "canceled", "deleted"}
    BY <1>1 DEF IInv, TypeOK
  <2> QED
    BY <1>5, <2>1, <2>2, <2>3 DEF IInv, TypeOK
<1>7. SingleWaiter'
  BY <1>1, <1>5 DEF SingleWaiter
<1>8. NoStrandedSleeper'
  <2> SUFFICES ASSUME NEW s \in Threads, pc'[s] = "asleep" PROVE ~Met(call[s])'
    BY DEF NoStrandedSleeper
  <2>1. CASE s = t
    BY <2>1, <1>1, <1>3 DEF Met, IInv, TypeOK
  <2>2. CASE s # t
    <3>1. ~Met(call[s]) /\ call'[s] = call[s]
      BY <2>2, <1>1, <1>3 DEF IInv, NoStrandedSleeper, TypeOK
    <3> QED
      BY <3>1, <1>2, FewerBits
  <2> QED
    BY <2>1, <2>2
<1>9. StruckInv'
  <2>1. doomed[t] = "no"
    BY DEF IInv, StruckInv, TypeOK
  <2> QED
    BY <2>1, <1>1, <1>3 DEF IInv, StruckInv, TypeOK
<1>10. WaitInv'
  BY <1>1, <1>3 DEF IInv, WaitInv, TypeOK
<1>11. DrainInv'
  BY <1>1, <1>3 DEF IInv, DrainInv, TypeOK
<1>12. FreedInv'
  BY <1>3 DEF IInv, FreedInv, DrainInv
<1> QED
  BY <1>6, <1>7, <1>8, <1>9, <1>10, <1>11, <1>12 DEF IInv

(* A step that moves nobody in or out leaves the count right. *)
LEMMA SameInside ==
  ASSUME TypeOK, waiting' = waiting,
         \A s \in Threads : pc'[s] \in {"asleep", "awake"} <=> pc[s] \in {"asleep", "awake"}
  PROVE  Inside' = Inside /\ waiting' = Cardinality(Inside')
<1>1. Inside' = Inside
  BY DEF Inside
<1> QED
  BY <1>1 DEF TypeOK

LEMMA EnterStep ==
  ASSUME IInv, NEW t \in Threads, NEW c \in WaitCalls, Enter(t, c)
  PROVE  IInv'
<1>1. CASE ~Refused
  <2>1. Inside \ {t} = Inside
    BY DEF Enter, Inside
  <2>2. waiting = Cardinality(Inside \ {t}) /\ waiting \in Nat
    BY <2>1, CountFacts DEF IInv, TypeOK
  <2>3. single => waiting = 0
    BY <1>1, <2>2 DEF Refused
  <2> QED
    BY <1>1, <2>2, <2>3, PassStep DEF Enter
<1>2. CASE Refused
  <2>0. /\ pc[t] = "idle"
        /\ Returns(t, "already_waiting")
        /\ UNCHANGED <<single, bits, waiting, status, deleting, freed>>
    BY <1>2 DEF Enter
  <2>1. /\ pc[t] = "idle" /\ pc' = pc
        /\ call' = [call EXCEPT ![t] = NoCall]
        /\ late' = [late EXCEPT ![t] = FALSE]
        /\ doomed' = [doomed EXCEPT ![t] = "no"]
        /\ result' = "already_waiting"
        /\ UNCHANGED <<single, bits, waiting, status, deleting, freed>>
    BY <2>0 DEF Returns, IInv, TypeOK
  <2>2. Inside' = Inside /\ waiting' = Cardinality(Inside')
    BY <2>1, SameInside DEF IInv
  <2>3. TypeOK' /\ SingleWaiter'
    BY <2>1, <2>2 DEF IInv, TypeOK, SingleWaiter
  <2>4. NoStrandedSleeper'
    <3> SUFFICES ASSUME NEW s \in Threads, pc[s] = "asleep" PROVE ~Met(call[s])'
      BY <2>1 DEF NoStrandedSleeper
    <3> QED
      BY <2>1, FewerBits DEF IInv, NoStrandedSleeper, TypeOK
  <2>5. WaitInv' /\ StruckInv' /\ DrainInv' /\ FreedInv'
    BY <2>1 DEF IInv, TypeOK, WaitInv, StruckInv, DrainInv, FreedInv
  <2> QED
    BY <2>3, <2>4, <2>5 DEF IInv
<1> QED
  BY <1>1, <1>2

LEMMA ResumeStep ==
  ASSUME IInv, NEW t \in Threads, Resume(t)
  PROVE  IInv'
<1>1. t \in Inside /\ call[t] \in WaitCalls
  BY DEF Resume, Inside, IInv, WaitInv
<1>2. /\ IsFiniteSet(Inside) /\ waiting = Cardinality(Inside) /\ waiting \in Nat
  BY CountFacts DEF IInv, TypeOK
<1>3. /\ Cardinality(Inside \ {t}) = waiting - 1
      /\ waiting - 1 \in Nat
  <2>1. IsFiniteSet(Inside \ {t}) /\ Cardinality(Inside \ {t}) = waiting - 1
    BY <1>1, <1>2, FS_RemoveElement
  <2> QED
    BY <2>1, FS_CardinalityType
<1>4. CASE status = "set"
  <2>1. single => waiting - 1 = 0
    BY <1>2, <1>3 DEF IInv, SingleWaiter
  <2> QED
    BY <1>1, <1>3, <1>4, <2>1, PassStep DEF Resume, Uncounted
<1>5. CASE status # "set"
  <2>1. /\ pc[t] = "awake"
        /\ pc' = [pc EXCEPT ![t] = "idle"]
        /\ call' = [call EXCEPT ![t] = NoCall]
        /\ late' = [late EXCEPT ![t] = FALSE]
        /\ doomed' = [doomed EXCEPT ![t] = "no"]
        /\ result' = status
        /\ waiting' = waiting - 1
        /\ UNCHANGED <<single, bits, status, deleting, freed>>
    BY <1>5 DEF Resume, Returns, Uncounted
  <2>2. \A s \in Threads : pc'[s] = IF s = t THEN "idle" ELSE pc[s]
    BY <2>1 DEF IInv, TypeOK
  <2>3. Inside' = Inside \ {t}
    BY <2>2 DEF Inside
  <2>4. waiting' = Cardinality(Inside')
    BY <1>3, <2>1, <2>3
  <2>5. TypeOK'
    BY <1>5, <2>1, <2>4 DEF IInv, TypeOK
  <2>6. SingleWaiter'
    BY <1>2, <2>1, <2>4 DEF IInv, SingleWaiter
  <2>7. NoStrandedSleeper'
    <3> SUFFICES ASSUME NEW s \in Threads, pc'[s] = "asleep" PROVE ~Met(call[s])'
      BY DEF NoStrandedSleeper
    <3>1. s # t /\ pc[s] = "asleep"
      BY <2>2
    <3> QED
      BY <2>1, <3>1, FewerBits DEF IInv, NoStrandedSleeper, TypeOK
  <2>8. WaitInv' /\ StruckInv' /\ DrainInv' /\ FreedInv'
    BY <2>1, <2>2 DEF IInv, TypeOK, WaitInv, StruckInv, DrainInv, FreedInv
  <2> QED
    BY <2>5, <2>6, <2>7, <2>8 DEF IInv
<1> QED
  BY <1>4, <1>5

------------------------------------------------------------------------------
(* The other steps *)

LEMMA TimeStep ==
  ASSUME IInv, NEW t \in Threads, SleepEnds(t) \/ DeadlinePasses(t)
  PROVE  IInv'
<1>1. /\ UNCHANGED <<single, bits, status, waiting, deleting, freed, call, doomed, result>>
      /\ late' \in [Threads -> BOOLEAN]
      /\ \A s \in Threads : pc'[s] = pc[s] \/ (pc[s] = "asleep" /\ pc'[s] = "awake")
      /\ pc' \in [Threads -> {"idle", "asleep", "awake", "spin", "drain"}]
  <2>1. CASE SleepEnds(t)
    BY <2>1 DEF SleepEnds, IInv, TypeOK
  <2>2. CASE DeadlinePasses(t)
    BY <2>2 DEF DeadlinePasses, IInv, TypeOK
  <2> QED
    BY <2>1, <2>2
<1>2. Inside' = Inside /\ waiting' = Cardinality(Inside')
  BY <1>1, SameInside DEF IInv
<1>3. TypeOK' /\ SingleWaiter'
  BY <1>1, <1>2 DEF IInv, TypeOK, SingleWaiter
<1>4. NoStrandedSleeper'
  <2> SUFFICES ASSUME NEW s \in Threads, pc'[s] = "asleep" PROVE ~Met(call[s])'
    BY DEF NoStrandedSleeper
  <2> QED
    BY <1>1, FewerBits DEF IInv, NoStrandedSleeper
<1>5. WaitInv' /\ StruckInv' /\ DrainInv' /\ FreedInv'
  BY <1>1 DEF IInv, WaitInv, StruckInv, DrainInv, FreedInv
<1> QED
  BY <1>3, <1>4, <1>5 DEF IInv

LEMMA SpinStep ==
  ASSUME IInv, NEW t \in Threads, NEW c \in Changes \cup {Deletion}, Spin(t, c)
  PROVE  IInv'
<1>1. /\ pc[t] = "idle" /\ ~deleting
      /\ \A s \in Threads : pc'[s] = IF s = t THEN "spin" ELSE pc[s]
      /\ \A s \in Threads : s # t => call'[s] = call[s]
      /\ UNCHANGED <<single, bits, status, waiting, freed, late, doomed, result>>
  BY DEF Spin, IInv, TypeOK
<1>2. Inside' = Inside /\ waiting' = Cardinality(Inside')
  BY <1>1, SameInside DEF IInv
<1>3. TypeOK' /\ SingleWaiter'
  BY <1>1, <1>2 DEF Spin, IInv, TypeOK, SingleWaiter
<1>4. NoStrandedSleeper'
  <2> SUFFICES ASSUME NEW s \in Threads, pc'[s] = "asleep" PROVE ~Met(call[s])'
    BY DEF NoStrandedSleeper
  <2> QED
    BY <1>1, FewerBits DEF IInv, NoStrandedSleeper
<1>5. WaitInv' /\ StruckInv' /\ DrainInv' /\ FreedInv'
  BY <1>1 DEF IInv, WaitInv, StruckInv, DrainInv, FreedInv
<1> QED
  BY <1>3, <1>4, <1>5 DEF IInv

(* SignalAll, but for the thread that calls it. *)
LEMMA Signalled ==
  ASSUME IInv, NEW t \in Threads, NEW l \in {"idle", "drain"},
         pc' = [SignalAll EXCEPT ![t] = l]
  PROVE  /\ \A s \in Threads : pc'[s] = IF s = t THEN l
                                        ELSE IF pc[s] = "asleep" THEN "awake" ELSE pc[s]
         /\ pc' \in [Threads -> {"idle", "asleep", "awake", "spin", "drain"}]
BY DEF SignalAll, IInv, TypeOK

(* Set and Clear: t's call ends, the status is "set", the waiters may be   *)
(* woken, and whoever sleeps on misses his bits still.                     *)
LEMMA BitsStep ==
  ASSUME IInv, NEW t \in Threads, NEW m \in Masks, Set(t, m) \/ Clear(t, m)
  PROVE  IInv'
<1>1. /\ pc[t] \in {"idle", "spin"} /\ status = "set" /\ bits' \subseteq Bits
      /\ call' = [call EXCEPT ![t] = NoCall]
      /\ UNCHANGED <<single, status, waiting, deleting, freed, late, doomed, result>>
  BY DEF Set, Clear, Begins, Finished, IInv, TypeOK
<1>2. /\ \A s \in Threads : s # t => pc'[s] = pc[s] \/ (pc[s] = "asleep" /\ pc'[s] = "awake")
      /\ pc'[t] = "idle"
      /\ pc' \in [Threads -> {"idle", "asleep", "awake", "spin", "drain"}]
  <2>1. CASE Set(t, m)
    <3>1. pc' = [SignalAll EXCEPT ![t] = "idle"]
      BY <2>1 DEF Set, Finished, SetWakes
    <3> QED
      BY <3>1, Signalled
  <2>2. CASE Clear(t, m)
    <3>1. pc' = [pc EXCEPT ![t] = "idle"]
      BY <2>2 DEF Clear, Finished
    <3> QED
      BY <3>1 DEF IInv, TypeOK
  <2> QED
    BY <2>1, <2>2
<1>3. Inside' = Inside /\ waiting' = Cardinality(Inside')
  BY <1>1, <1>2, SameInside DEF IInv
<1>4. TypeOK' /\ SingleWaiter'
  BY <1>1, <1>2, <1>3 DEF IInv, TypeOK, SingleWaiter
<1>5. NoStrandedSleeper'
  <2> SUFFICES ASSUME NEW s \in Threads, pc'[s] = "asleep" PROVE ~Met(call[s])'
    BY DEF NoStrandedSleeper
  <2>1. s # t /\ pc[s] = "asleep" /\ call'[s] = call[s] /\ ~Met(call[s])
    BY <1>1, <1>2 DEF IInv, TypeOK, NoStrandedSleeper
  <2>2. ~Set(t, m)
    BY <2>1 DEF Set, Finished, SetWakes, SignalAll, IInv, TypeOK
  <2>3. bits' \subseteq bits
    BY <2>2 DEF Clear
  <2> QED
    BY <2>1, <2>3, FewerBits
<1>6. WaitInv' /\ StruckInv' /\ DrainInv' /\ FreedInv'
  BY <1>1, <1>2 DEF IInv, TypeOK, WaitInv, StruckInv, DrainInv, FreedInv
<1> QED
  BY <1>4, <1>5, <1>6 DEF IInv

(* While the status is "set" nobody is struck and nobody drains. *)
LEMMA Quiet ==
  ASSUME IInv, status = "set"
  PROVE  \A s \in Threads : doomed[s] = "no" /\ pc[s] # "drain"
BY DEF IInv, TypeOK, StruckInv, DrainInv

(* Cancel and Delete: whoever waits is struck and woken, and t drains if   *)
(* there is anybody; r is what they are to return.                         *)
LEMMA StrikeStep ==
  ASSUME IInv, NEW t \in Threads, NEW c \in Changes \cup {Deletion},
         NEW r \in {"canceled", "deleted"}, Strike(t, c, r),
         r = "deleted" <=> c = Deletion,
         pc[t] \in {"idle", "spin"}, status = "set",
         bits' \subseteq Bits, deleting' \in BOOLEAN, freed' \in BOOLEAN,
         status' = IF c # Deletion /\ Drained THEN "set" ELSE r,
         r = "deleted" => deleting' /\ \A s \in Threads \ {t} : pc[s] # "spin",
         freed' => r = "deleted" /\ Drained,
         UNCHANGED <<single, waiting, late, result>>
  PROVE  IInv'
<1> DEFINE l == IF Drained THEN "idle" ELSE "drain"
<1>1. /\ pc' = [SignalAll EXCEPT ![t] = l]
      /\ call' = [call EXCEPT ![t] = IF Drained THEN NoCall ELSE c]
      /\ doomed' = [s \in Threads |-> IF s \in Inside THEN r ELSE doomed[s]]
  BY DEF Strike, Finished
<1>2. /\ \A s \in Threads : pc'[s] = IF s = t THEN l
                                     ELSE IF pc[s] = "asleep" THEN "awake" ELSE pc[s]
      /\ pc' \in [Threads -> {"idle", "asleep", "awake", "spin", "drain"}]
  BY <1>1, Signalled
<1>3. Drained <=> Inside = {}
  BY CountFacts DEF IInv, Drained
<1>4. \A s \in Threads : doomed[s] = "no" /\ pc[s] # "drain"
  BY Quiet
<1>5. Inside' = Inside /\ waiting' = Cardinality(Inside')
  BY <1>2, SameInside DEF IInv
<1>6. TypeOK' /\ SingleWaiter'
  <2>1. /\ call' \in [Threads -> WaitCalls \cup Changes \cup {Deletion, NoCall}]
        /\ doomed' \in [Threads -> {"no", "canceled", "deleted"}]
        /\ status' \in {"set", "canceled", "deleted"}
    BY <1>1 DEF IInv, TypeOK
  <2> QED
    BY <1>2, <1>5, <2>1 DEF IInv, TypeOK, SingleWaiter
<1>7. NoStrandedSleeper'
  BY <1>2 DEF NoStrandedSleeper
<1>8. StruckInv'
  <2> SUFFICES ASSUME NEW s \in Threads, doomed'[s] # "no"
               PROVE  pc'[s] = "awake" /\ status' = doomed'[s]
    BY DEF StruckInv
  <2>1. s \in Inside /\ doomed'[s] = r
    BY <1>1, <1>4
  <2>2. pc[s] \in {"asleep", "awake"} /\ s # t /\ ~Drained
    BY <2>1, <1>3 DEF Inside
  <2> QED
    BY <2>1, <2>2, <1>2
<1>9. DrainInv'
  <2>1. \A s \in Threads : pc'[s] = "drain" => s = t /\ ~Drained
    BY <1>2, <1>4
  <2>2. ~Drained => call'[t] = c
    BY <1>1 DEF IInv, TypeOK
  <2>3. \A s \in Threads : pc'[s] = "drain" =>
          status' = IF call'[s] = Deletion THEN "deleted" ELSE "canceled"
    BY <2>1, <2>2
  <2>4. status' = "deleted" => deleting' /\ \A s \in Threads : pc'[s] # "spin"
    BY <1>2
  <2> QED
    BY <2>1, <2>3, <2>4 DEF DrainInv
<1>10. FreedInv'
  BY <1>2, <1>3, <1>4, <1>5 DEF FreedInv, Inside
<1>11. WaitInv'
  <2> SUFFICES ASSUME NEW s \in Threads, pc'[s] \in {"asleep", "awake"}
               PROVE  call'[s] \in WaitCalls
    BY DEF WaitInv
  <2>1. s # t /\ call[s] \in WaitCalls
    BY <1>2 DEF IInv, WaitInv
  <2> QED
    BY <2>1, <1>1 DEF IInv, TypeOK
<1> QED
  BY <1>6, <1>7, <1>8, <1>9, <1>10, <1>11 DEF IInv

LEMMA CancelStep ==
  ASSUME IInv, NEW t \in Threads, NEW m \in Masks, Cancel(t, m)
  PROVE  IInv'
<1> DEFINE c == [op |-> "cancel", bits |-> m]
<1>1. c \in Changes /\ c # Deletion
  <2>1. c.op = "cancel" /\ Deletion.op = "delete"
    BY DEF Deletion
  <2> QED
    BY <2>1 DEF Changes
<1>2. /\ pc[t] \in {"idle", "spin"} /\ status = "set" /\ bits' \subseteq Bits
      /\ status' = (IF Drained THEN "set" ELSE "canceled")
      /\ Strike(t, c, "canceled")
      /\ UNCHANGED <<single, waiting, deleting, freed, late, result>>
  BY DEF Cancel, Begins
<1>3. deleting' \in BOOLEAN /\ freed' \in BOOLEAN /\ ~freed'
  BY <1>2 DEF IInv, TypeOK, FreedInv
<1> HIDE DEF c
<1> QED
  BY <1>1, <1>2, <1>3, StrikeStep

LEMMA DeleteStep ==
  ASSUME IInv, NEW t \in Threads, Delete(t)
  PROVE  IInv'
<1>1. /\ pc[t] \in {"idle", "spin"} /\ status = "set" /\ status' = "deleted"
      /\ deleting' = TRUE /\ freed' = Drained
      /\ \A s \in Threads \ {t} : pc[s] # "spin"
      /\ Strike(t, Deletion, "deleted")
      /\ UNCHANGED <<single, bits, waiting, late, result>>
  BY DEF Delete, Begins
<1>2. bits' \subseteq Bits /\ freed' \in BOOLEAN
  BY <1>1 DEF IInv, TypeOK, Drained
<1> QED
  BY <1>1, <1>2, StrikeStep

(* The end of a drain, by a cancellation or by the deletion. *)
LEMMA DrainEndStep ==
  ASSUME IInv, NEW t \in Threads, CancelEnds(t) \/ DeleteEnds(t)
  PROVE  IInv'
<1>1. /\ pc[t] = "drain" /\ waiting = 0
      /\ pc' = [pc EXCEPT ![t] = "idle"]
      /\ call' = [call EXCEPT ![t] = NoCall]
      /\ UNCHANGED <<single, bits, waiting, deleting, late, doomed, result>>
  BY DEF CancelEnds, DeleteEnds, Finished, Drained
<1>2. \/ status' = "set" /\ freed' = freed
      \/ status = "deleted" /\ status' = status /\ freed' = TRUE
  BY <1>1 DEF CancelEnds, DeleteEnds, IInv, DrainInv
<1>3. Inside = {} /\ Inside' = Inside /\ waiting' = Cardinality(Inside')
  <2>1. \A s \in Threads : pc'[s] = IF s = t THEN "idle" ELSE pc[s]
    BY <1>1 DEF IInv, TypeOK
  <2> QED
    BY <2>1, <1>1, CountFacts, SameInside DEF IInv
<1>4. \A s \in Threads : /\ doomed[s] = "no"
                         /\ pc'[s] \in {"idle", "spin"}
                         /\ pc'[s] = "spin" => pc[s] = "spin"
  <2>1. \A s \in Threads : pc[s] \notin {"asleep", "awake"}
    BY <1>3 DEF Inside
  <2>2. \A s \in Threads : pc[s] = "drain" => s = t
    BY <1>1 DEF IInv, DrainInv
  <2> QED
    BY <2>1, <2>2, <1>1 DEF IInv, TypeOK, StruckInv
<1>5. TypeOK' /\ SingleWaiter'
  <2>1. /\ pc' \in [Threads -> {"idle", "asleep", "awake", "spin", "drain"}]
        /\ call' \in [Threads -> WaitCalls \cup Changes \cup {Deletion, NoCall}]
    BY <1>1 DEF IInv, TypeOK
  <2> QED
    BY <1>1, <1>2, <1>3, <2>1 DEF IInv, TypeOK, SingleWaiter
<1>6. NoStrandedSleeper' /\ WaitInv' /\ StruckInv'
  BY <1>1, <1>4 DEF NoStrandedSleeper, WaitInv, StruckInv
<1>7. ~freed
  BY <1>1 DEF IInv, FreedInv
<1>8. DrainInv' /\ FreedInv'
  BY <1>1, <1>2, <1>4, <1>7 DEF IInv, DrainInv, FreedInv
<1> QED
  BY <1>5, <1>6, <1>8 DEF IInv

LEMMA StutterStep == ASSUME IInv, UNCHANGED vars PROVE IInv'
<1>1. Inside' = Inside
  BY DEF vars, Inside
<1>2. TypeOK' /\ SingleWaiter'
  BY <1>1 DEF vars, IInv, TypeOK, SingleWaiter
<1> QED
  BY <1>2 DEF vars, IInv, NoStrandedSleeper, Met, WaitInv, StruckInv, DrainInv, FreedInv

LEMMA NextIInv == IInv /\ [Next]_vars => IInv'
<1> SUFFICES ASSUME IInv, [Next]_vars PROVE IInv'
  OBVIOUS
<1>1. CASE UNCHANGED vars
  BY <1>1, StutterStep
<1>2. CASE Next
  <2>1. PICK t \in Threads :
          \/ \E c \in WaitCalls : Enter(t, c)
          \/ SleepEnds(t) \/ DeadlinePasses(t) \/ Resume(t)
          \/ \E c \in Changes \cup {Deletion} : Spin(t, c)
          \/ \E m \in Masks : Set(t, m) \/ Clear(t, m) \/ Cancel(t, m)
          \/ CancelEnds(t) \/ Delete(t) \/ DeleteEnds(t)
    BY <1>2 DEF Next, Change
  <2>2. CASE \E c \in WaitCalls : Enter(t, c)
    BY <2>2, EnterStep
  <2>3. CASE SleepEnds(t) \/ DeadlinePasses(t)
    BY <2>3, TimeStep
  <2>4. CASE Resume(t)
    BY <2>4, ResumeStep
  <2>5. CASE \E c \in Changes \cup {Deletion} : Spin(t, c)
    BY <2>5, SpinStep
  <2>6. CASE \E m \in Masks : Set(t, m) \/ Clear(t, m) \/ Cancel(t, m)
    BY <2>6, BitsStep, CancelStep
  <2>7. CASE CancelEnds(t) \/ DeleteEnds(t)
    BY <2>7, DrainEndStep
  <2>8. CASE Delete(t)
    BY <2>8, DeleteStep
  <2> QED
    BY <2>1, <2>2, <2>3, <2>4, <2>5, <2>6, <2>7, <2>8
<1> QED
  BY <1>1, <1>2

------------------------------------------------------------------------------
(* IInv holds in every reachable state: m_waiting_threads counts those     *)
(* inside a wait, at most one on a single-thread flag; no sleeper's bits   *)
(* are set; who was struck is awake under the status it will return.       *)
THEOREM InductiveInvariant == Spec => []IInv
<1> QED
  BY InitIInv, NextIInv, PTL DEF Spec

(* The fields keep their types, and m_waiting_threads is the number of     *)
(* threads inside a wait at every moment m_mutex is free.                  *)
THEOREM TypeCorrect == Spec => []TypeOK
<1>1. IInv => TypeOK
  BY DEF IInv
<1> QED
  BY <1>1, InductiveInvariant, PTL

(* However waits, sets, clears and cancellations interleave, a flag made   *)
(* for a single thread never has two threads in KernelWaitEventFlag.       *)
THEOREM SingleWaiterHolds == Spec => []SingleWaiter
<1>1. IInv => SingleWaiter
  BY DEF IInv
<1> QED
  BY <1>1, InductiveInvariant, PTL

(* No thread sleeps in a wait for bits the flag has: Set wakes everybody   *)
(* and Clear and Cancel cannot end a sleeper's wait behind its back.       *)
THEOREM NoSleeperStranded == Spec => []NoStrandedSleeper
<1>1. IInv => NoStrandedSleeper
  BY DEF IInv
<1> QED
  BY <1>1, InductiveInvariant, PTL

(* The destructor returns only when no thread is in any call on the flag.  *)
THEOREM FreedIsEmpty == Spec => []NobodyInFreed
<1>1. IInv => NobodyInFreed
  BY DEF IInv, TypeOK, FreedInv, DrainInv, NobodyInFreed
<1> QED
  BY <1>1, InductiveInvariant, PTL

(* A thread found waiting by Cancel or by the destructor does not sleep    *)
(* again, and its wait returns "canceled" or "deleted" accordingly.        *)
THEOREM StruckReturns == Spec => StruckReturn
<1> DEFINE Step(t) == doomed[t] # "no" => /\ pc'[t] = "idle" => result' = doomed[t]
                                          /\ pc'[t] # "asleep"
<1>1. IInv /\ [Next]_vars => [\A t \in Threads : Step(t)]_vars
  <2> SUFFICES ASSUME IInv, Next, NEW t \in Threads, doomed[t] # "no"
               PROVE  /\ pc'[t] = "idle" => result' = doomed[t]
                      /\ pc'[t] # "asleep"
    OBVIOUS
  <2>1. pc[t] = "awake" /\ status = doomed[t] /\ status # "set"
    BY DEF IInv, StruckInv, TypeOK
  <2>2. Resume(t) => pc'[t] = "idle" /\ result' = status
    BY <2>1 DEF Resume, Returns, IInv, TypeOK
  <2>3. ASSUME ~Resume(t) PROVE pc'[t] = "awake"
    <3>1. PICK s \in Threads :
            \/ \E c \in WaitCalls : Enter(s, c)
            \/ SleepEnds(s) \/ DeadlinePasses(s) \/ Resume(s)
            \/ \E c \in Changes \cup {Deletion} : Spin(s, c)
            \/ \E m \in Masks : Set(s, m) \/ Clear(s, m) \/ Cancel(s, m)
            \/ CancelEnds(s) \/ Delete(s) \/ DeleteEnds(s)
      BY DEF Next, Change
    <3>2. ~ \E m \in Masks : Set(s, m) \/ Clear(s, m) \/ Cancel(s, m)
      BY <2>1 DEF Set, Clear, Cancel
    <3>3. ~Delete(s)
      BY <2>1 DEF Delete
    <3>4. CASE \E c \in WaitCalls : Enter(s, c)
      BY <2>1, <3>4 DEF Enter, Pass, Returns, IInv, TypeOK
    <3>5. CASE SleepEnds(s) \/ DeadlinePasses(s)
      BY <2>1, <3>5 DEF SleepEnds, DeadlinePasses, IInv, TypeOK
    <3>6. CASE Resume(s)
      <4>1. s # t
        BY <2>3, <3>6
      <4> QED
        BY <2>1, <3>6, <4>1 DEF Resume, Returns, IInv, TypeOK
    <3>7. CASE \E c \in Changes \cup {Deletion} : Spin(s, c)
      BY <2>1, <3>7 DEF Spin, IInv, TypeOK
    <3>8. CASE CancelEnds(s) \/ DeleteEnds(s)
      BY <2>1, <3>8 DEF CancelEnds, DeleteEnds, Finished, IInv, TypeOK
    <3> QED
      BY <3>1, <3>2, <3>3, <3>4, <3>5, <3>6, <3>7, <3>8
  <2> QED
    BY <2>1, <2>2, <2>3
<1> QED
  BY <1>1, InductiveInvariant, PTL DEF StruckReturn, Spec
==============================================================================
