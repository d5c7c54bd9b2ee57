--------------------------- MODULE GraphicsProofs ----------------------------
(***************************************************************************)
(* Proofs about CommandScheduler, for every number of ticks and of         *)
(* deferred operations and every step by which the pool grows, and about   *)
(* FlipQueue, for every number of guest threads, ports, buffers, frames    *)
(* and flips.  The two meet in the priority thread, which completes the    *)
(* flips of end-of-pipe events; their proofs share lemmas about queues.    *)
(***************************************************************************)
EXTENDS CommandScheduler, FlipQueue, SequenceTheorems, FiniteSetTheorems, TLAPS

(* A newcomer at the end of the queue. *)
LEMMA AppendFacts ==
  ASSUME NEW S, NEW s \in Seq(S), NEW e \in S
  PROVE  /\ Append(s, e) \in Seq(S)
         /\ Range(Append(s, e)) = Range(s) \cup {e}
         /\ e \notin Range(s) /\ IsInjective(s) => IsInjective(Append(s, e))
<1> DEFINE a == Append(s, e)
<1>1. /\ a \in Seq(S) /\ Len(a) = Len(s) + 1 /\ Len(s) \in Nat
      /\ \A i \in 1..Len(s) : a[i] = s[i]
      /\ a[Len(s) + 1] = e
      /\ DOMAIN a = 1..(Len(s) + 1) /\ DOMAIN s = 1..Len(s)
  BY AppendProperties, LenProperties
<1> HIDE DEF a
<1>2. Range(a) = Range(s) \cup {e}
  BY <1>1 DEF Range
<1>3. e \notin Range(s) /\ IsInjective(s) => IsInjective(a)
  BY <1>1 DEF IsInjective, Range
<1> QED
  BY <1>1, <1>2, <1>3 DEF a

LEMMA TailFacts ==
  ASSUME NEW S, NEW s \in Seq(S), IsInjective(s), s # <<>>
  PROVE  /\ Tail(s) \in Seq(S) /\ Head(s) \in Range(s)
         /\ Range(Tail(s)) = Range(s) \ {Head(s)}
         /\ IsInjective(Tail(s))
<1> DEFINE r == Tail(s)
<1>1. /\ r \in Seq(S) /\ Len(r) = Len(s) - 1 /\ Len(s) \in Nat \ {0}
      /\ \A j \in 1..(Len(s) - 1) : r[j] = s[j + 1]
      /\ DOMAIN r = 1..(Len(s) - 1) /\ DOMAIN s = 1..Len(s)
  BY HeadTailProperties, LenProperties, EmptySeq
<1>2. Head(s) = s[1] /\ Head(s) \in Range(s)
  BY <1>1 DEF Range
<1> HIDE DEF r
<1>3. IsInjective(r)
  BY <1>1 DEF IsInjective
<1>4. Range(r) \subseteq Range(s) \ {Head(s)}
  BY <1>1, <1>2 DEF IsInjective, Range
<1>5. ASSUME NEW x \in Range(s) \ {Head(s)} PROVE x \in Range(r)
  <2>1. PICK j \in 1..Len(s) : s[j] = x /\ j # 1
    BY <1>1, <1>2 DEF Range
  <2>2. j - 1 \in 1..(Len(s) - 1) /\ r[j - 1] = x
    BY <1>1, <2>1
  <2> QED
    BY <1>1, <2>2 DEF Range
<1> QED
  BY <1>1, <1>2, <1>3, <1>4, <1>5 DEF r


(* The device never runs ahead of what was submitted, and what is known of *)
(* it never runs ahead of the device.                                      *)
TickInv ==
  /\ current \in Nat /\ known \in Nat /\ counter \in Nat
  /\ known <= counter
  /\ counter < current

(* The pool stamps the buffer that is being recorded with the tick it will *)
(* be submitted at, the highest of all stamps.                             *)
PoolInv ==
  /\ ticks \in Seq(Nat)
  /\ \A i \in 1..Len(ticks) : ticks[i] <= current
  /\ hint \in 1..(Len(ticks) + 1)
  /\ recording \in 0..Len(ticks)
  /\ recording # NoBuffer => ticks[recording] = current

(* A buffer the device has not finished keeps the stamp of its submission, *)
(* which is above the counter.                                             *)
FlightInv ==
  /\ inflight \subseteq [tick : Nat, buffer : 1..Len(ticks)]
  /\ \A s \in inflight :
       counter < s.tick /\ s.tick < current /\ ticks[s.buffer] = s.tick
  /\ \A r, s \in inflight : r.tick = s.tick => r = s

DeviceInv == TickInv /\ PoolInv /\ FlightInv

USE CommandSchedulerAssumption

------------------------------------------------------------------------------
LEMMA InitDevice == Init => DeviceInv
<1> SUFFICES ASSUME Init PROVE DeviceInv
  OBVIOUS
<1>1. ticks \in Seq(Nat) /\ Len(ticks) = 0
  BY EmptySeq DEF Init
<1> QED
  BY <1>1 DEF Init, DeviceInv, TickInv, PoolInv, FlightInv, NoBuffer

(* A step that touches no buffer and looks at the counter at most. *)
LEMMA LookStep ==
  ASSUME DeviceInv, UNCHANGED submission, known' \in {known, Refreshed}
  PROVE  DeviceInv'
BY DEF DeviceInv, TickInv, PoolInv, FlightInv, submission, Refreshed

(* What the pool hands out is not with the device. *)
LEMMA FreeIsIdle ==
  ASSUME DeviceInv, NEW S \in SUBSET (1..Len(ticks)), NEW tick \in Nat, tick <= counter,
         NEW i \in FreeBuffers(S, tick)
  PROVE  /\ i \in 1..Len(ticks)
         /\ \A s \in inflight : s.buffer # i
<1>1. i \in 1..Len(ticks) /\ ticks[i] <= tick /\ ticks[i] \in Nat
  BY ElementOfSeq DEF FreeBuffers, DeviceInv, PoolInv
<1>2. ASSUME NEW s \in inflight, s.buffer = i PROVE FALSE
  BY <1>1, <1>2 DEF DeviceInv, TickInv, FlightInv
<1> QED
  BY <1>1, <1>2

(* The pool grown by GrowStep unused buffers. *)
LEMMA GrownPool ==
  ASSUME NEW p \in Seq(Nat)
  PROVE  LET grown == p \o [i \in 1..GrowStep |-> 0]
         IN  /\ grown \in Seq(Nat)
             /\ Len(grown) = Len(p) + GrowStep
             /\ \A i \in 1..Len(p) : grown[i] = p[i]
             /\ \A i \in (Len(p) + 1)..Len(grown) : grown[i] = 0
<1> DEFINE new == [i \in 1..GrowStep |-> 0]
<1>1. new \in Seq(Nat) /\ Len(new) = GrowStep
  BY IsASeq DEF CommandSchedulerAssumption
<1>2. GrowStep \in Nat /\ \A i \in 1..GrowStep : new[i] = 0
  BY DEF CommandSchedulerAssumption
<1> HIDE DEF new
<1>3. /\ p \o new \in Seq(Nat) /\ Len(p \o new) = Len(p) + GrowStep /\ Len(p) \in Nat
      /\ \A i \in 1..(Len(p) + GrowStep) :
           (p \o new)[i] = IF i <= Len(p) THEN p[i] ELSE new[i - Len(p)]
  BY <1>1, ConcatProperties, LenProperties
<1>4. /\ \A i \in 1..Len(p) : (p \o new)[i] = p[i]
      /\ \A i \in (Len(p) + 1)..(Len(p) + GrowStep) : (p \o new)[i] = 0
  BY <1>2, <1>3
<1> QED
  BY <1>3, <1>4 DEF new

(* Handing out a buffer stamps one that nobody uses. *)
LEMMA StampStep ==
  ASSUME DeviceInv, recording = NoBuffer,
         NEW p \in Seq(Nat), Len(ticks) <= Len(p), \A i \in 1..Len(ticks) : p[i] = ticks[i],
         \A i \in 1..Len(p) : p[i] <= current,
         NEW found \in 1..Len(p), \A s \in inflight : s.buffer # found,
         ticks' = [p EXCEPT ![found] = current],
         recording' = found,
         hint' = (found % Len(p)) + 1,
         known' \in {known, Refreshed},
         UNCHANGED <<current, counter, inflight>>
  PROVE  DeviceInv' /\ recording' # NoBuffer
<1>1. current \in Nat /\ Len(p) \in Nat
  BY DEF DeviceInv, TickInv
<1>2. /\ ticks' \in Seq(Nat)
      /\ Len(ticks') = Len(p)
      /\ ticks'[found] = current
      /\ \A i \in 1..Len(p) : i # found => ticks'[i] = p[i]
  BY <1>1, ExceptSeq
<1>3. TickInv'
  BY DEF DeviceInv, TickInv, Refreshed
<1>4. hint' \in 1..(Len(ticks') + 1)
  BY <1>1, <1>2
<1>5. PoolInv'
  BY <1>1, <1>2, <1>4 DEF PoolInv
<1>6. Len(ticks) \in Nat
  BY DEF DeviceInv, PoolInv
<1>7. ASSUME NEW s \in inflight
      PROVE  /\ s \in [tick : Nat, buffer : 1..Len(p)]
             /\ counter < s.tick /\ s.tick < current
             /\ ticks'[s.buffer] = s.tick
  BY <1>1, <1>2, <1>6 DEF DeviceInv, FlightInv
<1>8. FlightInv'
  BY <1>2, <1>7 DEF DeviceInv, FlightInv
<1> QED
  BY <1>3, <1>5, <1>8 DEF DeviceInv, NoBuffer

LEMMA CommitStep ==
  ASSUME DeviceInv, recording = NoBuffer, Commit, UNCHANGED <<current, counter, inflight>>
  PROVE  DeviceInv' /\ recording' # NoBuffer
<1> DEFINE size == Len(ticks)
           stale == FreeBuffers(hint..size, known)
           fresh == FreeBuffers(hint..size, Refreshed)
           below == FreeBuffers(1..(hint - 1), Refreshed)
           usable == CASE stale # {} -> stale
                       [] stale = {} /\ fresh # {} -> fresh
                       [] stale = {} /\ fresh = {} /\ below # {} -> below
                       [] OTHER -> {size + 1}
           slots == IF usable = {size + 1} THEN ticks \o [i \in 1..GrowStep |-> 0]
                                           ELSE ticks
<1>1. PICK found \in usable :
        /\ recording' = found
        /\ ticks' = [slots EXCEPT ![found] = current]
        /\ hint' = (found % Len(slots)) + 1
        /\ known' = IF stale # {} THEN known ELSE Refreshed
  BY DEF Commit
<1>2. /\ size \in Nat /\ hint \in 1..(size + 1)
      /\ known \in Nat /\ Refreshed \in Nat /\ known <= counter /\ Refreshed <= counter
  BY DEF DeviceInv, TickInv, PoolInv, Refreshed
<1>3. hint..size \subseteq 1..size /\ 1..(hint - 1) \subseteq 1..size
  BY <1>2
<1>4. \A i \in stale \cup fresh \cup below :
        i \in 1..size /\ \A s \in inflight : s.buffer # i
  BY <1>2, <1>3, FreeIsIdle
<1>5. usable = stale \/ usable = fresh \/ usable = below \/ usable = {size + 1}
  OBVIOUS
<1>6. CASE usable = {size + 1}
  <2>1. /\ slots \in Seq(Nat) /\ Len(slots) = size + GrowStep
        /\ \A i \in 1..size : slots[i] = ticks[i]
        /\ \A i \in (size + 1)..Len(slots) : slots[i] = 0
    BY <1>6, GrownPool DEF DeviceInv, PoolInv
  <2>2. found = size + 1
    BY <1>1, <1>6
  <2>3. found \in 1..Len(slots)
    BY <1>2, <2>1, <2>2 DEF CommandSchedulerAssumption
  <2>4. \A s \in inflight : s.buffer # found
    BY <1>2, <2>2 DEF DeviceInv, FlightInv
  <2>5. Len(ticks) <= Len(slots)
    BY <1>2, <2>1 DEF CommandSchedulerAssumption
  <2>6. \A i \in 1..Len(ticks) : slots[i] = ticks[i]
    BY <2>1
  <2>7. known' \in {known, Refreshed}
    BY <1>1
  <2>8. slots \in Seq(Nat) /\ ticks' = [slots EXCEPT ![found] = current]
    BY <1>1, <2>1
  <2>9. recording' = found /\ hint' = (found % Len(slots)) + 1
    BY <1>1
  <2> HIDE DEF slots
  <2>0. ASSUME NEW i \in 1..Len(slots) PROVE slots[i] <= current
    <3>1. /\ current \in Nat /\ Len(slots) \in Nat
          /\ \A j \in 1..size : ticks[j] <= current
      BY <2>1 DEF DeviceInv, PoolInv, TickInv
    <3> HIDE DEF size
    <3>2. i \in 1..size \/ i \in (size + 1)..Len(slots)
      BY <1>2, <3>1
    <3> QED
      BY <2>1, <3>1, <3>2
  <2> QED
    BY <2>0, <2>3, <2>4, <2>5, <2>6, <2>7, <2>8, <2>9, StampStep
<1>7. CASE usable # {size + 1}
  <2>1. slots = ticks
    BY <1>7
  <2>2. found \in 1..size /\ \A s \in inflight : s.buffer # found
    BY <1>1, <1>4, <1>5, <1>7
  <2>3. /\ ticks \in Seq(Nat) /\ Len(ticks) <= Len(ticks)
        /\ \A i \in 1..Len(ticks) : ticks[i] <= current
    BY <1>2 DEF DeviceInv, PoolInv
  <2>4. known' \in {known, Refreshed}
    BY <1>1
  <2>5. ticks' = [ticks EXCEPT ![found] = current]
    BY <1>1, <2>1
  <2>6. recording' = found /\ hint' = (found % Len(ticks)) + 1
    BY <1>1, <2>1
  <2> QED
    BY <2>2, <2>3, <2>4, <2>5, <2>6, StampStep
<1> QED
  BY <1>6, <1>7

LEMMA SubmitStep ==
  ASSUME DeviceInv, Submit
  PROVE  DeviceInv'
<1> DEFINE new == [tick |-> current, buffer |-> recording]
<1>1. /\ inflight' = inflight \cup {new} /\ current' = current + 1
      /\ recording' = NoBuffer /\ UNCHANGED <<counter, ticks, hint, known>>
  BY DEF Submit
<1>2. current \in Nat /\ Len(ticks) \in Nat /\ counter < current
  BY DEF DeviceInv, TickInv, PoolInv
<1>3. recording \in 1..Len(ticks) /\ ticks[recording] = current
  BY <1>2 DEF Submit, DeviceInv, PoolInv, NoBuffer
<1>4. TickInv' /\ PoolInv'
  BY <1>1, <1>2 DEF DeviceInv, TickInv, PoolInv, NoBuffer
<1>5. FlightInv'
  <2>1. new \in [tick : Nat, buffer : 1..Len(ticks)]
    BY <1>2, <1>3
  <2>2. \A s \in inflight' :
          counter < s.tick /\ s.tick < current + 1 /\ ticks[s.buffer] = s.tick
    BY <1>1, <1>2, <1>3 DEF DeviceInv, FlightInv, TickInv
  <2>3. \A r, s \in inflight' : r.tick = s.tick => r = s
    BY <1>1, <1>2 DEF DeviceInv, FlightInv
  <2> QED
    BY <1>1, <2>1, <2>2, <2>3 DEF DeviceInv, FlightInv
<1> QED
  BY <1>4, <1>5 DEF DeviceInv

LEMMA FinishStep ==
  ASSUME DeviceInv, GpuFinish
  PROVE  DeviceInv'
<1>1. PICK next \in inflight :
        /\ \A s \in inflight : next.tick <= s.tick
        /\ counter' = next.tick
        /\ inflight' = inflight \ {next}
        /\ UNCHANGED <<current, recording, ticks, hint, known>>
  BY DEF GpuFinish
<1>2. next.tick \in Nat /\ counter < next.tick /\ next.tick < current
  BY DEF DeviceInv, FlightInv
<1>3. TickInv' /\ PoolInv'
  BY <1>1, <1>2 DEF DeviceInv, TickInv, PoolInv
<1>4. \A s \in inflight' : next.tick < s.tick
  BY <1>1, <1>2 DEF DeviceInv, FlightInv
<1> QED
  BY <1>1, <1>3, <1>4 DEF DeviceInv, FlightInv

LEMMA NextDevice == DeviceInv /\ [Next]_vars => DeviceInv'
<1> SUFFICES ASSUME DeviceInv, [Next]_vars PROVE DeviceInv'
  OBVIOUS
<1>1. CASE Request
  BY <1>1, LookStep
     DEF Request, Begin, DeferOperation, DeferPriorityOperation, MayDefer, Start,
         PopPendingOperations, Wait, Flush, FlushAndWait, Finish,
         FinishAndWaitPriority, ShutdownGpu
<1>2. CASE Shutdown
  BY <1>2, LookStep DEF Shutdown
<1>3. CASE OwnerStep
  <2>1. CASE BeginNext
    BY <2>1, CommitStep DEF BeginNext
  <2>2. CASE Submit
    BY <2>2, SubmitStep
  <2>3. CASE WaitTick \/ PopRefresh
    BY <2>3, LookStep DEF WaitTick, PopRefresh, MasterWaited
  <2>4. CASE Pop \/ WaitPriorityOperations \/ DrainPriorityOperations \/ Run
    BY <2>4, LookStep
       DEF Pop, WaitPriorityOperations, DrainPriorityOperations, AwaitPriority, Run
  <2>5. CASE Notify \/ RequestStop \/ Join \/ Close
    BY <2>5, LookStep DEF Notify, RequestStop, Join, Close
  <2> QED
    BY <1>3, <2>1, <2>2, <2>3, <2>4, <2>5 DEF OwnerStep
<1>4. CASE PriorityStep
  BY <1>4, LookStep
     DEF PriorityStep, PriorityCheck, PriorityBlock, PriorityWaitDevice, PriorityRun,
         PriorityClear, PriorityNotify, MasterWaited
<1>5. CASE GpuFinish
  BY <1>5, FinishStep
<1>6. CASE SpuriousWakeup
  BY <1>6, LookStep DEF SpuriousWakeup
<1>7. CASE UNCHANGED vars
  BY <1>7, LookStep DEF vars
<1> QED
  BY <1>1, <1>2, <1>3, <1>4, <1>5, <1>6, <1>7 DEF Next

LEMMA DeviceHolds == Spec => []DeviceInv
<1> QED
  BY InitDevice, NextDevice, PTL DEF Spec

LEMMA StampsTellBuffersApart == DeviceInv => BufferNotInFlight
<1> SUFFICES ASSUME DeviceInv PROVE BufferNotInFlight
  OBVIOUS
<1>1. ASSUME NEW s \in inflight, s.buffer = recording PROVE FALSE
  BY <1>1 DEF DeviceInv, TickInv, PoolInv, FlightInv, NoBuffer
<1>2. \A r, s \in inflight : r.buffer = s.buffer => r = s
  BY DEF DeviceInv, FlightInv
<1> QED
  BY <1>1, <1>2 DEF BufferNotInFlight

(* The command buffer that the pool hands out for recording is one the     *)
(* device is done with, and no buffer is with the device twice: whatever   *)
(* the interleaving of refreshes, waits and completions, the tick known to *)
(* the pool never runs ahead of the device.                                *)
THEOREM BuffersAreReusedInTime == Spec => []BufferNotInFlight
<1> QED
  BY DeviceHolds, StampsTellBuffersApart, PTL

------------------------------------------------------------------------------
(* Where the owner is in its call *)

Step == IF todo = <<>> THEN "idle" ELSE Head(todo)

(* The step after step s of call c; "idle" when the call returns. *)
After(c, s) ==
  CASE s = "submit" -> IF c = "flush" THEN "begin" ELSE "wait"
    [] s = "wait" -> IF c = "shutdown" THEN "refresh"
                     ELSE IF c = "waitTick" THEN "idle" ELSE "begin"
    [] s = "begin" -> IF c \in {"finish", "unmap", "shutdownGpu"} THEN "refresh" ELSE "idle"
    [] s = "refresh" -> "pop"
    [] s = "waitJob" -> "run"
    [] s = "run" -> "pop"
    [] s = "pop" -> IF c \in {"shutdownGpu", "shutdown"} THEN "drain"
                    ELSE IF c = "unmap" THEN "waitPriority" ELSE "idle"
    [] s = "drain" -> IF c = "shutdown" THEN "requestStop" ELSE "idle"
    [] s = "requestStop" -> "notify"
    [] s = "notify" -> IF c = "shutdown" THEN "join" ELSE "idle"
    [] s = "join" -> "close"
    [] OTHER -> "idle"

Steps == {"submit", "wait", "begin", "refresh", "pop", "waitJob", "run", "waitPriority",
          "drain", "requestStop", "notify", "join", "close"}

UnmapSteps == {"idle", "submit", "wait", "begin", "refresh", "pop", "waitJob", "run",
               "waitPriority"}
ShutdownSteps == {"idle", "submit", "wait", "refresh", "pop", "waitJob", "run", "drain",
                  "requestStop", "notify", "join", "close"}

(* The rest of call c: each step is the one after the step before it. *)
Chain(c, steps) ==
  \A i \in 1..Len(steps) :
    After(c, steps[i]) = IF i = Len(steps) THEN "idle" ELSE steps[i + 1]

(* What is left of a call is what the call does after its current step. *)
ControlInv ==
  /\ todo \in Seq(Steps) /\ Chain(call, todo)
  /\ call = "unmap" => Step \in UnmapSteps
  /\ call = "shutdown" => Step \in ShutdownSteps
  /\ Step \in {"requestStop", "join", "close"} => call = "shutdown"

LEMMA AtStep ==
  ASSUME NEW s, At(s)
  PROVE  Step = s /\ ~Idle
BY DEF At, Step, Idle

LEMMA StayStep ==
  ASSUME ControlInv, UNCHANGED <<call, todo>>
  PROVE  ControlInv' /\ Step' = Step
BY DEF ControlInv, Step

LEMMA DoneStep ==
  ASSUME ControlInv, ~Idle, Done, call' = call
  PROVE  ControlInv' /\ Step' = After(call, Step)
<1>0. /\ todo' \in Seq(Steps) /\ Len(todo') = Len(todo) - 1
      /\ \A i \in 1..Len(todo') : todo'[i] = todo[i + 1]
      /\ Head(todo) = todo[1]
  BY HeadTailProperties DEF ControlInv, Idle, Done
<1>1. /\ todo' \in Seq(Steps) /\ Len(todo') = Len(todo) - 1 /\ Len(todo) \in Nat \ {0}
      /\ \A i \in 1..Len(todo') : todo'[i] = todo[i + 1]
      /\ todo' = <<>> <=> Len(todo) = 1
      /\ Head(todo) = todo[1]
      /\ todo' # <<>> => Head(todo') = todo'[1]
  <2>1. Len(todo) \in Nat \ {0}
    BY EmptySeq, LenProperties DEF ControlInv, Idle
  <2>2. todo' = <<>> <=> Len(todo') = 0
    BY <1>0, EmptySeq
  <2>3. todo' # <<>> => Head(todo') = todo'[1]
    BY <1>0, HeadTailProperties
  <2> QED
    BY <1>0, <2>1, <2>2, <2>3
<1>2. Step' = After(call, Step)
  BY <1>1 DEF ControlInv, Chain, Step, Idle
<1>3. Chain(call', todo')
  BY <1>1 DEF ControlInv, Chain
<1>4. call' = "unmap" => Step' \in UnmapSteps
  BY <1>2 DEF ControlInv, After, UnmapSteps
<1>6. call' = "shutdown" => Step' \in ShutdownSteps
  BY <1>2 DEF ControlInv, After, ShutdownSteps, Steps
<1>5. Step' \in {"requestStop", "join", "close"} => call' = "shutdown"
  BY <1>2 DEF ControlInv, After, UnmapSteps
<1> QED
  BY <1>1, <1>3, <1>4, <1>2, <1>5, <1>6 DEF ControlInv

(* An operation is taken: its two steps go before the next pop. *)
LEMMA PushStep ==
  ASSUME ControlInv, At("pop"), call' = call, todo' = <<"waitJob", "run">> \o todo
  PROVE  ControlInv' /\ Step' = "waitJob"
<1>1. /\ todo' \in Seq(Steps) /\ Len(todo') = Len(todo) + 2 /\ Len(todo) \in Nat \ {0}
      /\ \A i \in 1..Len(todo) : todo'[i + 2] = todo[i]
      /\ todo'[1] = "waitJob" /\ todo'[2] = "run"
      /\ todo' # <<>> /\ Head(todo') = todo'[1] /\ todo[1] = "pop"
  <2>1. todo \in Seq(Steps) /\ todo # <<>> /\ todo[1] = "pop"
    BY HeadTailProperties DEF ControlInv, At, Idle
  <2>2. Len(todo) \in Nat \ {0}
    BY <2>1, EmptySeq, LenProperties
  <2> DEFINE new == <<"waitJob", "run">>
  <2>3. new \in Seq(Steps) /\ Len(new) = 2 /\ new[1] = "waitJob" /\ new[2] = "run"
    BY DEF Steps
  <2> HIDE DEF new
  <2>4. /\ todo' \in Seq(Steps) /\ Len(todo') = Len(todo) + 2
        /\ \A i \in 1..Len(todo') :
             todo'[i] = IF i <= 2 THEN new[i] ELSE todo[i - 2]
    BY <2>1, <2>2, <2>3, ConcatProperties DEF new
  <2>5. todo' # <<>> /\ Head(todo') = todo'[1]
    BY <2>2, <2>4, EmptySeq, HeadTailProperties
  <2>6. todo'[1] = "waitJob" /\ todo'[2] = "run"
    BY <2>2, <2>3, <2>4
  <2>7. ASSUME NEW i \in 1..Len(todo) PROVE todo'[i + 2] = todo[i]
    <3>1. i + 2 \in 1..Len(todo') /\ ~(i + 2 <= 2) /\ i + 2 - 2 = i
      BY <2>2, <2>4
    <3> QED
      BY <2>4, <3>1
  <2> QED
    BY <2>1, <2>2, <2>4, <2>5, <2>6, <2>7
<1>2. Step' = "waitJob"
  BY <1>1 DEF Step
<1>3. ASSUME NEW i \in 1..Len(todo')
      PROVE  After(call, todo'[i]) = IF i = Len(todo') THEN "idle" ELSE todo'[i + 1]
  <2>1. CASE i = 1
    BY <1>1, <2>1 DEF After
  <2>2. CASE i = 2
    <3>1. todo'[3] = todo[1]
      BY <1>1
    <3> QED
      BY <1>1, <2>2, <3>1 DEF After
  <2>3. CASE i > 2
    <3>1. i - 2 \in 1..Len(todo) /\ todo'[i] = todo[i - 2]
      BY <1>1, <2>3
    <3>2. i # Len(todo') => todo'[i + 1] = todo[i - 2 + 1]
      BY <1>1, <2>3
    <3>3. i = Len(todo') <=> i - 2 = Len(todo)
      BY <1>1
    <3> QED
      BY <3>1, <3>2, <3>3 DEF ControlInv, Chain
  <2> QED
    BY <1>1, <2>1, <2>2, <2>3
<1> QED
  BY <1>1, <1>2, <1>3 DEF ControlInv, Chain, UnmapSteps, ShutdownSteps, Steps

(* The calls begin with their first step. *)
LEMMA StartStep ==
  ASSUME NEW c, NEW steps \in Seq(Steps), NEW tick,
         Start(c, steps, tick), steps # <<>>,
         Chain(c, steps), c # "shutdown", steps[1] \in {"begin", "submit", "wait", "refresh"}
  PROVE  ControlInv' /\ Step' = steps[1]
BY DEF Start, ControlInv, Step, UnmapSteps, ShutdownSteps, Steps

(* A call that does what Finish does and one step more. *)
LEMMA OneStepMore ==
  \A s \in Seq(Steps), x \in Steps :
    LET steps == Append(s, x)
    IN  /\ steps \in Seq(Steps) /\ steps # <<>> /\ Len(steps) = Len(s) + 1
        /\ \A i \in 1..Len(s) : steps[i] = s[i]
        /\ steps[Len(s) + 1] = x
BY AppendProperties

(* Where each call of the owner begins. *)
LEMMA CallsStart ==
  /\ Begin => ControlInv' /\ Step' = "begin"
  /\ Flush \/ FlushAndWait \/ Finish \/ FinishAndWaitPriority \/ ShutdownGpu
       => ControlInv' /\ Step' = "submit"
  /\ PopPendingOperations => ControlInv' /\ Step' = "refresh"
  /\ \A tick : Wait(tick) => ControlInv' /\ Step' \in {"submit", "wait"}
<1>0. /\ FinishSteps \in Seq(Steps) /\ Len(FinishSteps) = 5
      /\ FinishSteps[1] = "submit" /\ FinishSteps[2] = "wait" /\ FinishSteps[3] = "begin"
      /\ FinishSteps[4] = "refresh" /\ FinishSteps[5] = "pop"
  BY DEF FinishSteps, Steps
<1>1. ASSUME NEW tick, Start("begin", <<"begin">>, tick)
      PROVE  ControlInv' /\ Step' = "begin"
  <2> DEFINE steps == <<"begin">>
  <2>1. steps \in Seq(Steps) /\ steps # <<>> /\ steps[1] = "begin"
    BY DEF Steps
  <2>2. Chain("begin", steps)
    BY DEF After, Chain
  <2> HIDE DEF steps
  <2> QED
    BY <1>1, <2>1, <2>2, StartStep DEF steps
<1>2. ASSUME NEW tick, Start("flush", <<"submit", "begin">>, tick)
      PROVE  ControlInv' /\ Step' = "submit"
  <2> DEFINE steps == <<"submit", "begin">>
  <2>1. steps \in Seq(Steps) /\ steps # <<>> /\ steps[1] = "submit"
    BY DEF Steps
  <2>2. Chain("flush", steps)
    BY DEF After, Chain
  <2> HIDE DEF steps
  <2> QED
    BY <1>2, <2>1, <2>2, StartStep DEF steps
<1>3. ASSUME NEW tick, NEW c \in {"flushAndWait", "waitCurrent"},
             Start(c, <<"submit", "wait", "begin">>, tick)
      PROVE  ControlInv' /\ Step' = "submit"
  <2> DEFINE steps == <<"submit", "wait", "begin">>
  <2>1. steps \in Seq(Steps) /\ steps # <<>> /\ steps[1] = "submit"
    BY DEF Steps
  <2>2. Chain(c, steps)
    BY DEF After, Chain
  <2> HIDE DEF steps
  <2> QED
    BY <1>3, <2>1, <2>2, StartStep DEF steps
<1>4. ASSUME NEW tick, Start("finish", FinishSteps, tick)
      PROVE  ControlInv' /\ Step' = "submit"
  <2> DEFINE steps == FinishSteps
  <2>1. steps \in Seq(Steps) /\ steps # <<>> /\ steps[1] = "submit"
    BY DEF Steps, FinishSteps
  <2>2. Chain("finish", steps)
    BY DEF After, Chain, FinishSteps
  <2> HIDE DEF steps
  <2> QED
    BY <1>4, <2>1, <2>2, StartStep DEF steps
<1>5. ASSUME NEW tick, Start("waitTick", <<"wait">>, tick)
      PROVE  ControlInv' /\ Step' = "wait"
  <2> DEFINE steps == <<"wait">>
  <2>1. steps \in Seq(Steps) /\ steps # <<>> /\ steps[1] = "wait"
    BY DEF Steps
  <2>2. Chain("waitTick", steps)
    BY DEF After, Chain
  <2> HIDE DEF steps
  <2> QED
    BY <1>5, <2>1, <2>2, StartStep DEF steps
<1>6. ASSUME NEW tick, Start("pop", <<"refresh", "pop">>, tick)
      PROVE  ControlInv' /\ Step' = "refresh"
  <2> DEFINE steps == <<"refresh", "pop">>
  <2>1. steps \in Seq(Steps) /\ steps # <<>> /\ steps[1] = "refresh"
    BY DEF Steps
  <2>2. Chain("pop", steps)
    BY DEF After, Chain
  <2> HIDE DEF steps
  <2> QED
    BY <1>6, <2>1, <2>2, StartStep DEF steps
<1>7. ASSUME NEW tick, Start("unmap", Append(FinishSteps, "waitPriority"), tick)
      PROVE  ControlInv' /\ Step' = "submit"
  <2> DEFINE steps == Append(FinishSteps, "waitPriority")
  <2>1. /\ steps \in Seq(Steps) /\ steps # <<>> /\ Len(steps) = 6
        /\ \A i \in 1..5 : steps[i] = FinishSteps[i]
        /\ steps[6] = "waitPriority"
    <3>1. "waitPriority" \in Steps
      BY DEF Steps
    <3>2. FinishSteps \in Seq(Steps)
      BY <1>0
    <3>3. /\ steps \in Seq(Steps) /\ steps # <<>> /\ Len(steps) = Len(FinishSteps) + 1
          /\ \A i \in 1..Len(FinishSteps) : steps[i] = FinishSteps[i]
          /\ steps[Len(FinishSteps) + 1] = "waitPriority"
      BY <3>1, <3>2, OneStepMore, Zenon
    <3> HIDE DEF steps
    <3> QED
      BY <1>0, <3>3
  <2> HIDE DEF steps
  <2>2. /\ steps[1] = "submit" /\ steps[2] = "wait" /\ steps[3] = "begin"
        /\ steps[4] = "refresh" /\ steps[5] = "pop"
    BY <1>0, <2>1
  <2>3. Chain("unmap", steps)
    BY <2>1, <2>2 DEF After, Chain
  <2> QED
    BY <1>7, <2>1, <2>2, <2>3, StartStep DEF steps
<1>8. ASSUME NEW tick, Start("shutdownGpu", Append(FinishSteps, "drain"), tick)
      PROVE  ControlInv' /\ Step' = "submit"
  <2> DEFINE steps == Append(FinishSteps, "drain")
  <2>1. /\ steps \in Seq(Steps) /\ steps # <<>> /\ Len(steps) = 6
        /\ \A i \in 1..5 : steps[i] = FinishSteps[i]
        /\ steps[6] = "drain"
    <3>1. "drain" \in Steps
      BY DEF Steps
    <3>2. FinishSteps \in Seq(Steps)
      BY <1>0
    <3>3. /\ steps \in Seq(Steps) /\ steps # <<>> /\ Len(steps) = Len(FinishSteps) + 1
          /\ \A i \in 1..Len(FinishSteps) : steps[i] = FinishSteps[i]
          /\ steps[Len(FinishSteps) + 1] = "drain"
      BY <3>1, <3>2, OneStepMore, Zenon
    <3> HIDE DEF steps
    <3> QED
      BY <1>0, <3>3
  <2> HIDE DEF steps
  <2>2. /\ steps[1] = "submit" /\ steps[2] = "wait" /\ steps[3] = "begin"
        /\ steps[4] = "refresh" /\ steps[5] = "pop"
    BY <1>0, <2>1
  <2>3. Chain("shutdownGpu", steps)
    BY <2>1, <2>2 DEF After, Chain
  <2> QED
    BY <1>8, <2>1, <2>2, <2>3, StartStep DEF steps
<1> QED
  BY <1>1, <1>2, <1>3, <1>4, <1>5, <1>6, <1>7, <1>8
     DEF Begin, Flush, FlushAndWait, Finish, PopPendingOperations, Wait,
         FinishAndWaitPriority, ShutdownGpu

------------------------------------------------------------------------------
(* Where the operations are *)

(* The operation the owner has taken and not run. *)
Held == {job} \ {NoOp}

(* The queued operations were deferred at ticks that do not go down. *)
InOrder(at, queue) ==
  \A i, j \in 1..Len(queue) : i <= j => at[queue[i]] <= at[queue[j]]

SeatInv ==
  /\ ops \in Seq(1..current)
  /\ pending \in Seq(DOMAIN ops) /\ IsInjective(pending) /\ InOrder(ops, pending)
  /\ priority \in Seq(DOMAIN ops) /\ IsInjective(priority) /\ InOrder(ops, priority)
  /\ ran \in Seq(DOMAIN ops) /\ IsInjective(ran)
  /\ Range(pending) \cup Range(priority) \cup Range(ran) \cup Held \cup Busy = DOMAIN ops
  /\ Range(pending) \cap Range(priority) = {} /\ Range(pending) \cap Range(ran) = {}
  /\ Range(pending) \cap Held = {} /\ Range(pending) \cap Busy = {}
  /\ Range(priority) \cap Range(ran) = {} /\ Range(priority) \cap Held = {}
  /\ Range(priority) \cap Busy = {} /\ Range(ran) \cap Held = {}
  /\ Range(ran) \cap Busy = {} /\ Held \cap Busy = {}

LEMMA HeadIsFirst ==
  ASSUME NEW S, NEW queue \in Seq(S), queue # <<>>, NEW at, InOrder(at, queue),
         NEW x \in Range(queue)
  PROVE  at[Head(queue)] <= at[x]
<1>1. Len(queue) \in Nat \ {0} /\ DOMAIN queue = 1..Len(queue) /\ Head(queue) = queue[1]
  BY EmptySeq, LenProperties
<1>2. PICK i \in 1..Len(queue) : queue[i] = x
  BY <1>1 DEF Range
<1> QED
  BY <1>1, <1>2 DEF InOrder

LEMMA TailInOrder ==
  ASSUME NEW S, NEW queue \in Seq(S), queue # <<>>, NEW at, InOrder(at, queue)
  PROVE  InOrder(at, Tail(queue))
<1>1. /\ Len(queue) \in Nat \ {0} /\ Len(Tail(queue)) = Len(queue) - 1
      /\ \A i \in 1..Len(Tail(queue)) : Tail(queue)[i] = queue[i + 1]
  BY EmptySeq, LenProperties, HeadTailProperties
<1> QED
  BY <1>1 DEF InOrder

(* A sequence of operations is one of the operations of a longer history. *)
LEMMA LongerHistory ==
  ASSUME NEW S, NEW T, S \subseteq T, NEW s \in Seq(S)
  PROVE  s \in Seq(T)
<1>1. /\ Len(s) \in Nat /\ s \in [1..Len(s) -> S]
  BY LenProperties
<1> QED
  BY <1>1

LEMMA NarrowerRange ==
  ASSUME NEW S, NEW T, NEW s \in Seq(S), \A i \in 1..Len(s) : s[i] \in T
  PROVE  s \in Seq(T)
<1>1. /\ Len(s) \in Nat /\ s \in [1..Len(s) -> S]
  BY LenProperties
<1>2. s \in [1..Len(s) -> T]
  BY <1>1
<1> QED
  BY <1>1, <1>2

(* Deferring at the current tick gives an operation a number of its own.   *)
LEMMA Deferred ==
  ASSUME DeviceInv, SeatInv, ops' = Append(ops, current)
  PROVE  /\ ops' \in Seq(1..current)
         /\ Len(ops') = Len(ops) + 1 /\ Len(ops') \in Nat \ {NoOp}
         /\ DOMAIN ops' = DOMAIN ops \cup {Len(ops')} /\ Len(ops') \notin DOMAIN ops
         /\ ops'[Len(ops')] = current
         /\ \A i \in DOMAIN ops : ops'[i] = ops[i] /\ ops[i] \in 1..current
<1>1. current \in 1..current /\ ops \in Seq(1..current) /\ current \in Nat
  BY DEF DeviceInv, TickInv, SeatInv
<1>2. /\ ops' \in Seq(1..current) /\ Len(ops') = Len(ops) + 1
      /\ \A i \in 1..Len(ops) : ops'[i] = ops[i]
      /\ ops'[Len(ops) + 1] = current
  BY <1>1, AppendProperties
<1>3. Len(ops) \in Nat /\ DOMAIN ops = 1..Len(ops) /\ DOMAIN ops' = 1..Len(ops')
  BY <1>1, <1>2, LenProperties
<1>4. \A i \in DOMAIN ops : ops[i] \in 1..current
  BY <1>1, <1>3, ElementOfSeq
<1> QED
  BY <1>1, <1>2, <1>3, <1>4 DEF NoOp

(* The queues stay in order in the longer history, the newcomer last. *)
LEMMA DeferredInOrder ==
  ASSUME DeviceInv, SeatInv, ops' = Append(ops, current),
         NEW queue \in Seq(DOMAIN ops), InOrder(ops, queue)
  PROVE  /\ queue \in Seq(DOMAIN ops')
         /\ InOrder(ops', queue)
         /\ InOrder(ops', Append(queue, Len(ops')))
<1>1. queue \in Seq(DOMAIN ops')
  BY Deferred, LongerHistory
<1>2. /\ Len(queue) \in Nat
      /\ \A i \in 1..Len(queue) : queue[i] \in DOMAIN ops
  BY LenProperties, ElementOfSeq
<1>3. InOrder(ops', queue)
  BY <1>2, Deferred DEF InOrder
<1> DEFINE q == Append(queue, Len(ops'))
<1>4. /\ Len(q) = Len(queue) + 1
      /\ \A i \in 1..Len(queue) : q[i] = queue[i]
      /\ q[Len(queue) + 1] = Len(ops')
  BY <1>1, Deferred, AppendProperties
<1> HIDE DEF q
<1>0. current \in Nat /\ current \in 1..current
  BY DEF DeviceInv, TickInv
<1>5. ASSUME NEW i \in 1..Len(q) PROVE ops'[q[i]] \in 1..current
  <2>1. i \in 1..Len(queue) \/ i = Len(queue) + 1
    BY <1>2, <1>4
  <2> QED
    BY <1>0, <1>2, <1>4, <2>1, Deferred
<1>6. InOrder(ops', q)
  <2>1. SUFFICES ASSUME NEW i \in 1..Len(q), NEW j \in 1..Len(q), i <= j
                 PROVE  ops'[q[i]] <= ops'[q[j]]
    BY DEF InOrder
  <2>2. CASE j = Len(queue) + 1
    <3>1. ops'[q[j]] = current /\ ops'[q[i]] \in 1..current
      BY <1>4, <1>5, <2>2, Deferred
    <3>2. \A x \in 1..current : x <= current
      BY <1>0
    <3> QED
      BY <3>1, <3>2
  <2>3. CASE j # Len(queue) + 1
    <3>1. i \in 1..Len(queue) /\ j \in 1..Len(queue)
      BY <1>2, <1>4, <2>1, <2>3
    <3> QED
      BY <1>3, <1>4, <2>1, <3>1 DEF InOrder
  <2> QED
    BY <2>2, <2>3
<1> QED
  BY <1>1, <1>3, <1>6 DEF q

LEMMA SeatsStay ==
  ASSUME DeviceInv, DeviceInv', SeatInv, current <= current',
         UNCHANGED <<ops, pending, priority, ran, job, Busy>>
  PROVE  SeatInv'
<1>1. 1..current \subseteq 1..current'
  BY DEF DeviceInv, TickInv
<1>2. ops \in Seq(1..current')
  BY <1>1, LongerHistory DEF SeatInv
<1>3. Held' = Held
  BY DEF Held
<1> QED
  BY <1>2, <1>3 DEF SeatInv

(* The owner takes the front of the pending queue. *)
LEMMA SeatsPop ==
  ASSUME SeatInv, job = NoOp, pending # <<>>,
         job' = Head(pending), pending' = Tail(pending),
         UNCHANGED <<current, ops, priority, ran, Busy>>
  PROVE  SeatInv' /\ job' \in DOMAIN ops /\ Range(pending') \subseteq Range(pending)
<1>1. /\ pending' \in Seq(DOMAIN ops) /\ job' \in Range(pending)
      /\ Range(pending') = Range(pending) \ {job'}
      /\ IsInjective(pending')
  BY TailFacts DEF SeatInv
<1>2. InOrder(ops, pending')
  BY TailInOrder DEF SeatInv
<1>3. job' \in DOMAIN ops /\ job' # NoOp
  BY <1>1, LenProperties DEF SeatInv, NoOp
<1>4. Held = {} /\ Held' = {job'}
  BY <1>3 DEF Held
<1>5. Range(pending') \cup Range(priority) \cup Range(ran) \cup Held' \cup Busy = DOMAIN ops
  BY <1>1, <1>4 DEF SeatInv
<1>6. /\ job' \notin Range(pending') /\ job' \notin Range(priority)
      /\ job' \notin Range(ran) /\ job' \notin Busy
      /\ Range(pending') \subseteq Range(pending)
  BY <1>1 DEF SeatInv
<1> QED
  BY <1>1, <1>2, <1>3, <1>4, <1>5, <1>6 DEF SeatInv

(* The owner runs what it has taken. *)
LEMMA SeatsRun ==
  ASSUME SeatInv, job # NoOp, job' = NoOp, ran' = Append(ran, job),
         UNCHANGED <<current, ops, pending, priority, Busy>>
  PROVE  SeatInv'
<1>1. Held = {job} /\ Held' = {}
  BY DEF Held
<1>2. job \in DOMAIN ops /\ job \notin Range(ran)
  BY <1>1 DEF SeatInv
<1>3. /\ ran' \in Seq(DOMAIN ops) /\ Range(ran') = Range(ran) \cup {job} /\ IsInjective(ran')
  BY <1>2, AppendFacts DEF SeatInv
<1> QED
  BY <1>1, <1>3 DEF SeatInv

(* The priority thread takes the front of its queue, and runs it. *)
LEMMA SeatsTake ==
  ASSUME SeatInv, ppc = "check", ppc' = "device", priority # <<>>,
         pjob' = Head(priority), priority' = Tail(priority),
         UNCHANGED <<current, ops, pending, ran, job>>
  PROVE  SeatInv' /\ PriorityLeft' = PriorityLeft /\ pjob' # NoOp
<1>1. /\ priority' \in Seq(DOMAIN ops) /\ pjob' \in Range(priority)
      /\ Range(priority') = Range(priority) \ {pjob'}
      /\ IsInjective(priority')
  BY TailFacts DEF SeatInv
<1>2. InOrder(ops, priority')
  BY TailInOrder DEF SeatInv
<1>3. Busy = {} /\ Busy' = {pjob'} /\ Held' = Held
  BY DEF Busy, Held
<1>4. pjob' # NoOp
  BY <1>1, LenProperties DEF SeatInv, NoOp
<1>5. Range(pending) \cup Range(priority') \cup Range(ran) \cup Held \cup Busy' = DOMAIN ops
  BY <1>1, <1>3 DEF SeatInv
<1>6. /\ pjob' \notin Range(priority') /\ pjob' \notin Range(pending)
      /\ pjob' \notin Range(ran) /\ pjob' \notin Held
      /\ Range(priority') \subseteq Range(priority)
  BY <1>1 DEF SeatInv
<1>7. SeatInv'
  BY <1>1, <1>2, <1>3, <1>5, <1>6 DEF SeatInv
<1>8. PriorityLeft' = PriorityLeft
  BY <1>1, <1>3 DEF PriorityLeft
<1> QED
  BY <1>4, <1>7, <1>8

LEMMA SeatsPriorityRun ==
  ASSUME SeatInv, ppc = "run", ppc' = "clear", ran' = Append(ran, pjob),
         UNCHANGED <<current, ops, pending, priority, job>>
  PROVE  SeatInv'
<1>1. Busy = {pjob} /\ Busy' = {} /\ Held' = Held
  BY DEF Busy, Held
<1>2. pjob \in DOMAIN ops /\ pjob \notin Range(ran)
  BY <1>1 DEF SeatInv
<1>3. /\ ran' \in Seq(DOMAIN ops) /\ Range(ran') = Range(ran) \cup {pjob}
      /\ IsInjective(ran')
  BY <1>2, AppendFacts DEF SeatInv
<1> QED
  BY <1>1, <1>3 DEF SeatInv

(* What a deferral leaves of the seats: a newcomer without one. *)
LEMMA Newcomer ==
  ASSUME DeviceInv, SeatInv, ops' = Append(ops, current)
  PROVE  /\ pending \in Seq(DOMAIN ops') /\ InOrder(ops', pending)
         /\ InOrder(ops', Append(pending, Len(ops')))
         /\ priority \in Seq(DOMAIN ops') /\ InOrder(ops', priority)
         /\ InOrder(ops', Append(priority, Len(ops')))
         /\ ran \in Seq(DOMAIN ops')
         /\ \A seat \in {Range(pending), Range(priority), Range(ran), Held, Busy} :
              Len(ops') \notin seat
<1>1. \A seat \in {Range(pending), Range(priority), Range(ran), Held, Busy} :
        Len(ops') \notin seat
  BY Deferred DEF SeatInv
<1>2. /\ pending \in Seq(DOMAIN ops') /\ InOrder(ops', pending)
      /\ InOrder(ops', Append(pending, Len(ops')))
  BY DeferredInOrder DEF SeatInv
<1>3. /\ priority \in Seq(DOMAIN ops') /\ InOrder(ops', priority)
      /\ InOrder(ops', Append(priority, Len(ops')))
  BY DeferredInOrder DEF SeatInv
<1>4. ran \in Seq(DOMAIN ops')
  BY Deferred, LongerHistory DEF SeatInv
<1> QED
  BY <1>1, <1>2, <1>3, <1>4

LEMMA SeatsDefer ==
  ASSUME DeviceInv, SeatInv, ops' = Append(ops, current),
         pending' = Append(pending, Len(ops')),
         UNCHANGED <<current, priority, ran, job, Busy>>
  PROVE  SeatInv' /\ Range(pending') = Range(pending) \cup {Len(ops')}
<1> DEFINE n == Len(ops')
<1>1. n \in DOMAIN ops' /\ n \notin Range(pending) /\ pending \in Seq(DOMAIN ops')
  BY Deferred, Newcomer
<1>2. /\ pending' \in Seq(DOMAIN ops') /\ Range(pending') = Range(pending) \cup {n}
      /\ IsInjective(pending')
  <2>1. IsInjective(pending) /\ pending' = Append(pending, n)
    BY DEF SeatInv
  <2> HIDE DEF n
  <2> QED
    BY <1>1, <2>1, AppendFacts
<1>3. Held' = Held
  BY DEF Held
<1>4. /\ ops' \in Seq(1..current') /\ DOMAIN ops' = DOMAIN ops \cup {n}
      /\ InOrder(ops', pending') /\ InOrder(ops', priority)
      /\ priority \in Seq(DOMAIN ops') /\ ran \in Seq(DOMAIN ops')
      /\ n \notin Range(pending) /\ n \notin Range(priority) /\ n \notin Range(ran)
      /\ n \notin Held /\ n \notin Busy
  BY Deferred, Newcomer
<1> HIDE DEF n
<1> QED
  BY <1>2, <1>3, <1>4 DEF SeatInv, n

LEMMA SeatsDeferPriority ==
  ASSUME DeviceInv, SeatInv, ops' = Append(ops, current),
         priority' = Append(priority, Len(ops')),
         UNCHANGED <<current, pending, ran, job, Busy>>
  PROVE  SeatInv'
<1> DEFINE n == Len(ops')
<1>1. n \in DOMAIN ops' /\ n \notin Range(priority) /\ priority \in Seq(DOMAIN ops')
  BY Deferred, Newcomer
<1>2. /\ priority' \in Seq(DOMAIN ops') /\ Range(priority') = Range(priority) \cup {n}
      /\ IsInjective(priority')
  <2>1. IsInjective(priority) /\ priority' = Append(priority, n)
    BY DEF SeatInv
  <2> HIDE DEF n
  <2> QED
    BY <1>1, <2>1, AppendFacts
<1>3. Held' = Held
  BY DEF Held
<1>4. /\ ops' \in Seq(1..current') /\ DOMAIN ops' = DOMAIN ops \cup {n}
      /\ InOrder(ops', priority') /\ InOrder(ops', pending)
      /\ pending \in Seq(DOMAIN ops') /\ ran \in Seq(DOMAIN ops')
      /\ n \notin Range(pending) /\ n \notin Range(priority) /\ n \notin Range(ran)
      /\ n \notin Held /\ n \notin Busy
  BY Deferred, Newcomer
<1> HIDE DEF n
<1> QED
  BY <1>2, <1>3, <1>4 DEF SeatInv, n

(* A callback of the owner defers while Open: the newcomer is queued. *)
LEMMA SeatsRunAndDefer ==
  ASSUME DeviceInv, SeatInv, job # NoOp, job' = NoOp, ops' = Append(ops, current),
         pending' = Append(pending, Len(ops')), ran' = Append(ran, job),
         UNCHANGED <<current, priority, Busy>>
  PROVE  SeatInv' /\ Range(pending') = Range(pending) \cup {Len(ops')}
<1> DEFINE n == Len(ops')
<1>1. n \in DOMAIN ops' /\ n \notin Range(pending) /\ pending \in Seq(DOMAIN ops')
  BY Deferred, Newcomer
<1>2. /\ pending' \in Seq(DOMAIN ops') /\ Range(pending') = Range(pending) \cup {n}
      /\ IsInjective(pending')
  <2>1. IsInjective(pending) /\ pending' = Append(pending, n)
    BY DEF SeatInv
  <2> HIDE DEF n
  <2> QED
    BY <1>1, <2>1, AppendFacts
<1>3. Held = {job} /\ Held' = {}
  BY DEF Held
<1>4. /\ ops' \in Seq(1..current') /\ DOMAIN ops' = DOMAIN ops \cup {n}
      /\ InOrder(ops', pending') /\ InOrder(ops', priority)
      /\ priority \in Seq(DOMAIN ops') /\ ran \in Seq(DOMAIN ops')
      /\ n \notin Range(pending) /\ n \notin Range(priority) /\ n \notin Range(ran)
      /\ n \notin Held /\ n \notin Busy
  BY Deferred, Newcomer
<1> HIDE DEF n
<1>5. job \in DOMAIN ops' /\ job \notin Range(ran)
  BY <1>3, <1>4 DEF SeatInv
<1>6. /\ ran' \in Seq(DOMAIN ops') /\ Range(ran') = Range(ran) \cup {job}
      /\ IsInjective(ran')
  BY <1>4, <1>5, AppendFacts DEF SeatInv
<1>7. Range(pending') \cup Range(priority) \cup Range(ran') \cup Held' \cup Busy = DOMAIN ops'
  BY <1>2, <1>3, <1>4, <1>6 DEF SeatInv
<1>0. /\ job \notin Range(pending) /\ job \notin Range(priority) /\ job \notin Busy
      /\ job \in DOMAIN ops /\ n \notin DOMAIN ops /\ job # n
  BY <1>3, <1>4, Deferred DEF SeatInv, n
<1>8. /\ Range(pending') \cap Range(priority) = {} /\ Range(pending') \cap Busy = {}
      /\ Range(priority) \cap Range(ran') = {} /\ Range(ran') \cap Busy = {}
  BY <1>0, <1>2, <1>4, <1>6 DEF SeatInv
<1>10. Range(pending') \cap Range(ran') = {}
  BY <1>0, <1>2, <1>4, <1>6 DEF SeatInv
<1>9. SeatInv'
  BY <1>2, <1>3, <1>4, <1>6, <1>7, <1>8, <1>10 DEF SeatInv
<1> QED
  BY <1>2, <1>9 DEF n

(* A callback of the owner defers while Draining: the newcomer runs first. *)
LEMMA SeatsRunBoth ==
  ASSUME DeviceInv, SeatInv, job # NoOp, job' = NoOp, ops' = Append(ops, current),
         ran' = Append(Append(ran, Len(ops')), job),
         UNCHANGED <<current, pending, priority, Busy>>
  PROVE  SeatInv'
<1> DEFINE n == Len(ops')
           half == Append(ran, n)
<1>1. Held = {job} /\ Held' = {}
  BY DEF Held
<1>2. /\ ops' \in Seq(1..current') /\ DOMAIN ops' = DOMAIN ops \cup {n}
      /\ InOrder(ops', pending) /\ InOrder(ops', priority)
      /\ priority \in Seq(DOMAIN ops') /\ pending \in Seq(DOMAIN ops')
      /\ ran \in Seq(DOMAIN ops')
      /\ n \notin Range(pending) /\ n \notin Range(priority) /\ n \notin Range(ran)
      /\ n \notin Held /\ n \notin Busy
  BY Deferred, Newcomer
<1>3. n \in DOMAIN ops'
  BY <1>2
<1>4. job \in DOMAIN ops' /\ job \notin Range(ran) /\ job # n
  BY <1>1, <1>2 DEF SeatInv
<1> HIDE DEF n
<1>5. /\ half \in Seq(DOMAIN ops') /\ Range(half) = Range(ran) \cup {n} /\ IsInjective(half)
  BY <1>2, <1>3, AppendFacts DEF SeatInv
<1>6. ran' = Append(half, job)
  BY DEF n
<1> HIDE DEF half
<1>7. /\ ran' \in Seq(DOMAIN ops') /\ Range(ran') = Range(ran) \cup {n, job}
      /\ IsInjective(ran')
  <2>1. /\ Append(half, job) \in Seq(DOMAIN ops')
        /\ Range(Append(half, job)) = Range(half) \cup {job}
        /\ job \notin Range(half) /\ IsInjective(half) => IsInjective(Append(half, job))
    BY <1>4, <1>5, AppendFacts
  <2> QED
    BY <1>4, <1>5, <1>6, <2>1
<1>8. Range(pending) \cup Range(priority) \cup Range(ran') \cup Held' \cup Busy = DOMAIN ops'
  BY <1>1, <1>2, <1>7 DEF SeatInv
<1>9. /\ Range(pending) \cap Range(ran') = {} /\ Range(priority) \cap Range(ran') = {}
      /\ Range(ran') \cap Busy = {}
  BY <1>1, <1>2, <1>7 DEF SeatInv
<1> QED
  BY <1>1, <1>2, <1>7, <1>8, <1>9 DEF SeatInv

------------------------------------------------------------------------------
(* What each step of a call may rely on *)

OwnerInv ==
  /\ opState \in {"Open", "Draining", "Closed"} /\ asleep \in BOOLEAN
  /\ arg \in 0..current
  /\ opState # "Open" <=> call = "shutdown"
  /\ job # NoOp <=> Step \in {"waitJob", "run"}
  /\ job # NoOp => ops[job] <= known
  /\ Step = "run" => \A p \in PriorityLeft : ops[p] > ops[job]
  /\ opState = "Open" /\ Step \in {"refresh", "pop", "waitJob", "run"} => recording # NoBuffer
  /\ opState = "Open" /\ recording = NoBuffer => \A op \in DOMAIN ops : ops[op] < current

(* Ending the work of a tick: the device is past it, that is known, and    *)
(* nothing of it is pending.                                               *)
UnmapInv ==
  call = "unmap" =>
    /\ Step \in {"begin", "refresh", "pop", "waitJob", "run", "waitPriority"}
         => arg <= counter
    /\ Step \in {"pop", "waitJob", "run", "waitPriority"} => arg <= known
    /\ Step = "waitPriority" => \A op \in Range(pending) : ops[op] > arg

(* Shutting down: nothing is recorded any more, the device has finished,   *)
(* and then neither queue is filled again.                                 *)
ShutInv ==
  call = "shutdown" =>
    /\ IF Step = "submit" THEN arg = current /\ recording # NoBuffer
                          ELSE current = arg + 1 /\ recording = NoBuffer
    /\ \A op \in Range(pending) : ops[op] <= arg
    /\ Step \notin {"submit", "wait"} => arg <= counter
    /\ Step \notin {"submit", "wait", "refresh"} => arg <= known
    /\ Step \in {"drain", "requestStop", "notify", "join", "close", "idle"}
         => pending = <<>>
    /\ Step \in {"requestStop", "notify", "join", "close", "idle"} => PriorityDrained

PriorityInv ==
  /\ ppc \in {"check", "blocking", "asleep", "device", "run", "clear", "notify", "gone"}
  /\ pjob # NoOp <=> ppc \in {"device", "run", "clear"}
  /\ ppc = "run" => ops[pjob] <= counter
  /\ stop \in BOOLEAN
  /\ stop => call = "shutdown" /\ Step \in {"notify", "join", "close", "idle"}

IInv == DeviceInv /\ ControlInv /\ SeatInv /\ OwnerInv /\ UnmapInv /\ ShutInv /\ PriorityInv

LEMMA InitIInv == Init => IInv
<1> SUFFICES ASSUME Init PROVE IInv
  OBVIOUS
<1>1. ControlInv /\ Step = "idle"
  BY EmptySeq DEF Init, ControlInv, Chain, Step, UnmapSteps, ShutdownSteps
<1>2. SeatInv
  <2>1. /\ ops \in Seq(1..current) /\ DOMAIN ops = {}
        /\ pending \in Seq(DOMAIN ops) /\ priority \in Seq(DOMAIN ops) /\ ran \in Seq(DOMAIN ops)
        /\ Len(pending) = 0 /\ Len(priority) = 0
    BY EmptySeq DEF Init
  <2>2. /\ Range(pending) = {} /\ Range(priority) = {} /\ Range(ran) = {}
        /\ IsInjective(pending) /\ IsInjective(priority) /\ IsInjective(ran)
    BY DEF Init, Range, IsInjective
  <2>3. Held = {} /\ Busy = {}
    BY DEF Init, Held, Busy
  <2> QED
    BY <2>1, <2>2, <2>3 DEF SeatInv, InOrder
<1>3. OwnerInv
  <2>1. DOMAIN ops = {} /\ arg \in 0..current
    BY DEF Init
  <2>2. asleep \in BOOLEAN
    BY DEF Init
  <2> QED
    BY <1>1, <2>1, <2>2 DEF Init, OwnerInv
<1>4. stop \in BOOLEAN
  BY DEF Init
<1>5. UnmapInv /\ ShutInv /\ PriorityInv
  BY <1>4 DEF Init, UnmapInv, ShutInv, PriorityInv
<1> QED
  BY <1>1, <1>2, <1>3, <1>5, InitDevice DEF IInv

------------------------------------------------------------------------------
(* The steps *)

LEMMA TickFacts ==
  ASSUME DeviceInv
  PROVE  current \in Nat /\ known \in Nat /\ counter \in Nat /\ known <= counter
         /\ counter < current /\ known <= Refreshed /\ counter <= Refreshed
BY DEF DeviceInv, TickInv, Refreshed

(* What is taken has a tick. *)
LEMMA TakenHaveTicks ==
  ASSUME SeatInv
  PROVE  /\ \A op \in DOMAIN ops : ops[op] \in Nat /\ ops[op] <= current
         /\ job # NoOp => job \in DOMAIN ops
         /\ ppc \in {"device", "run"} => pjob \in DOMAIN ops
<1>1. ops \in Seq(1..current) /\ DOMAIN ops = 1..Len(ops)
  BY LenProperties DEF SeatInv
<1>2. \A op \in DOMAIN ops : ops[op] \in 1..current
  BY <1>1, ElementOfSeq
<1>3. job # NoOp => job \in DOMAIN ops
  BY DEF SeatInv, Held
<1>4. ppc \in {"device", "run"} => pjob \in DOMAIN ops
  BY DEF SeatInv, Busy
<1> QED
  BY <1>2, <1>3, <1>4

(* A step that leaves the owner where it is and only lets the device or the *)
(* priority thread go on.                                                  *)
LEMMA OwnerStays ==
  ASSUME IInv, DeviceInv',
         UNCHANGED <<current, recording, ops, pending, opState, call, todo, arg, job>>,
         counter <= counter', known <= known', asleep' \in BOOLEAN,
         PriorityLeft' \subseteq PriorityLeft, PriorityDrained => PriorityDrained'
  PROVE  ControlInv' /\ OwnerInv' /\ UnmapInv' /\ ShutInv' /\ Step' = Step
<1>1. ControlInv' /\ Step' = Step
  BY StayStep DEF IInv
<1>2. /\ current \in Nat /\ known \in Nat /\ counter \in Nat
      /\ known' \in Nat /\ counter' \in Nat
  BY DEF IInv, DeviceInv, TickInv
<1>3. arg \in 0..current
  BY DEF IInv, OwnerInv
<1>4. job # NoOp => ops[job] \in Nat
  BY TakenHaveTicks DEF IInv
<1>5. OwnerInv'
  BY <1>1, <1>2, <1>4 DEF IInv, OwnerInv
<1>6. UnmapInv'
  BY <1>1, <1>2, <1>3 DEF IInv, UnmapInv
<1>7. ShutInv'
  BY <1>1, <1>2, <1>3 DEF IInv, ShutInv
<1> QED
  BY <1>1, <1>5, <1>6, <1>7

LEMMA DeviceStep ==
  ASSUME IInv, DeviceInv', GpuFinish
  PROVE  IInv'
<1>1. /\ UNCHANGED <<current, recording, ticks, hint, known, queues, owner, runner, ran>>
      /\ counter < counter'
  BY DEF GpuFinish, IInv, DeviceInv, FlightInv
<1>2. Busy' = Busy /\ PriorityLeft' = PriorityLeft /\ PriorityDrained' = PriorityDrained
  BY <1>1 DEF Busy, PriorityLeft, PriorityDrained, queues, runner
<1>3. /\ current \in Nat /\ known \in Nat /\ counter \in Nat /\ counter' \in Nat
  BY DEF IInv, DeviceInv, TickInv
<1>4. SeatInv'
  BY <1>1, <1>2, <1>3, SeatsStay DEF IInv, queues, owner
<1>5. ControlInv' /\ OwnerInv' /\ UnmapInv' /\ ShutInv' /\ Step' = Step
  <2>1. asleep' \in BOOLEAN
    BY <1>1 DEF IInv, OwnerInv, owner
  <2> QED
    BY <1>1, <1>2, <1>3, <2>1, OwnerStays DEF queues, owner
<1>6. PriorityInv'
  <2>1. ppc = "run" => ops[pjob] \in Nat
    BY TakenHaveTicks DEF IInv
  <2> QED
    BY <1>1, <1>3, <1>5, <2>1 DEF IInv, PriorityInv, queues, owner, runner
<1> QED
  BY <1>4, <1>5, <1>6 DEF IInv

(* The steps of the priority thread. *)
LEMMA PrioritySteps ==
  ASSUME IInv, DeviceInv', PriorityStep
  PROVE  IInv'
<1>1. UNCHANGED <<submission, ops, pending, opState, call, todo, arg, job, stop>>
  BY DEF PriorityStep, PriorityCheck, PriorityBlock, PriorityWaitDevice, PriorityRun,
         PriorityClear, PriorityNotify, owner, queues
<1>2. /\ current \in Nat /\ known \in Nat /\ counter \in Nat /\ known' \in Nat
      /\ known <= known' /\ counter' = counter
      /\ current' = current /\ recording' = recording
  <2>1. known' \in {known, Refreshed}
    BY DEF PriorityStep, PriorityCheck, PriorityBlock, PriorityWaitDevice, PriorityRun,
           PriorityClear, PriorityNotify, MasterWaited
  <2> QED
    BY <1>1, <2>1, TickFacts DEF IInv, submission, Refreshed
<1>3. asleep' \in BOOLEAN
  BY DEF PriorityStep, PriorityCheck, PriorityBlock, PriorityWaitDevice, PriorityRun,
         PriorityClear, PriorityNotify, owner, IInv, OwnerInv
<1>4. SeatInv' /\ PriorityLeft' \subseteq PriorityLeft /\ (PriorityDrained => PriorityDrained')
      /\ ppc' \in {"check", "blocking", "asleep", "device", "run", "clear", "notify", "gone"}
      /\ (pjob' # NoOp <=> ppc' \in {"device", "run", "clear"})
      /\ (ppc' = "run" => ops[pjob'] <= counter)
  <2>1. CASE PriorityCheck /\ ~stop /\ priority # <<>>
    <3>1. /\ ppc = "check" /\ ppc' = "device" /\ pjob' = Head(priority)
          /\ priority' = Tail(priority) /\ ran' = ran
      BY <2>1 DEF PriorityCheck
    <3>2. SeatInv' /\ PriorityLeft' = PriorityLeft /\ pjob' # NoOp
      BY <1>1, <1>2, <2>1, <3>1, SeatsTake DEF IInv
    <3> QED
      BY <2>1, <3>1, <3>2 DEF PriorityDrained
  <2>2. CASE PriorityCheck /\ (stop \/ priority = <<>>)
    <3>1. /\ ppc = "check" /\ ppc' \in {"gone", "blocking"} /\ pjob' = pjob
          /\ UNCHANGED <<priority, ran>>
      BY <2>2 DEF PriorityCheck
    <3>2. Busy' = Busy
      BY <3>1 DEF Busy
    <3> QED
      BY <1>1, <1>2, <3>1, <3>2, SeatsStay
         DEF IInv, PriorityInv, PriorityLeft, PriorityDrained
  <2>3. CASE PriorityBlock
    <3>1. ppc = "blocking" /\ ppc' = "asleep" /\ UNCHANGED <<pjob, priority, ran>>
      BY <2>3 DEF PriorityBlock, queues
    <3>2. Busy' = Busy
      BY <3>1 DEF Busy
    <3> QED
      BY <1>1, <1>2, <3>1, <3>2, SeatsStay
         DEF IInv, PriorityInv, PriorityLeft, PriorityDrained
  <2>4. CASE PriorityWaitDevice
    <3>1. ppc = "device" /\ ppc' = "run" /\ UNCHANGED <<pjob, priority, ran>>
      BY <2>4 DEF PriorityWaitDevice, queues
    <3>2. Busy' = Busy
      BY <3>1 DEF Busy
    <3>3. ops[pjob] \in Nat
      BY <3>1, TakenHaveTicks DEF IInv
    <3>4. ops[pjob] <= counter
      BY <1>2, <2>4, <3>3, TickFacts DEF IInv, PriorityWaitDevice, MasterWaited, IsFree
    <3> QED
      BY <1>1, <1>2, <3>1, <3>2, <3>4, SeatsStay
         DEF IInv, PriorityInv, PriorityLeft, PriorityDrained
  <2>5. CASE PriorityRun
    <3>1. ppc = "run" /\ ppc' = "clear" /\ UNCHANGED <<pjob, priority>> /\ pjob # NoOp
      BY <2>5 DEF PriorityRun, queues, IInv, PriorityInv
    <3>2. ~stop
      BY <3>1 DEF IInv, PriorityInv, ShutInv, PriorityDrained
    <3>3. ran' = Append(ran, pjob)
      BY <2>5, <3>2 DEF PriorityRun
    <3>4. PriorityLeft' \subseteq PriorityLeft
      BY <3>1 DEF PriorityLeft, Busy
    <3>5. SeatInv'
      BY <1>1, <1>2, <3>1, <3>3, SeatsPriorityRun DEF IInv
    <3> QED
      BY <3>1, <3>4, <3>5 DEF IInv, PriorityInv, PriorityDrained
  <2>6. CASE PriorityClear
    <3>1. ppc = "clear" /\ ppc' = "notify" /\ pjob' = NoOp /\ UNCHANGED <<priority, ran>>
      BY <2>6 DEF PriorityClear, queues
    <3>2. Busy' = Busy
      BY <3>1 DEF Busy
    <3> QED
      BY <1>1, <1>2, <3>1, <3>2, SeatsStay
         DEF IInv, PriorityInv, PriorityLeft, PriorityDrained
  <2>7. CASE PriorityNotify
    <3>1. ppc = "notify" /\ ppc' = "check" /\ UNCHANGED <<pjob, priority, ran>>
      BY <2>7 DEF PriorityNotify, queues
    <3>2. Busy' = Busy
      BY <3>1 DEF Busy
    <3> QED
      BY <1>1, <1>2, <3>1, <3>2, SeatsStay
         DEF IInv, PriorityInv, PriorityLeft, PriorityDrained
  <2>8. PriorityCheck => (~stop /\ priority # <<>>) \/ (stop \/ priority = <<>>)
    OBVIOUS
  <2> QED
    BY <2>1, <2>2, <2>3, <2>4, <2>5, <2>6, <2>7, <2>8 DEF PriorityStep
<1>5. ControlInv' /\ OwnerInv' /\ UnmapInv' /\ ShutInv' /\ Step' = Step
  BY <1>1, <1>2, <1>3, <1>4, OwnerStays
<1>6. PriorityInv'
  BY <1>1, <1>2, <1>4, <1>5 DEF IInv, PriorityInv
<1> QED
  BY <1>4, <1>5, <1>6 DEF IInv

(* What a step of the owner means for the priority thread. *)
LEMMA PriorityStays ==
  ASSUME IInv, DeviceInv', UNCHANGED <<counter, ppc, pjob, stop>>,
         \A op \in DOMAIN ops : ops'[op] = ops[op],
         stop => call' = call /\ Step' \in {"notify", "join", "close", "idle"}
  PROVE  PriorityInv'
<1>1. ppc = "run" => ops'[pjob] = ops[pjob]
  BY TakenHaveTicks DEF IInv
<1> QED
  BY <1>1 DEF IInv, PriorityInv

(* A step of a call that touches no operation: what it has to show is what *)
(* the next step of the call relies on.                                    *)
LEMMA OwnerGoesOn ==
  ASSUME IInv, DeviceInv', ~Idle, Done, call' = call,
         UNCHANGED <<counter, ops, pending, priority, ran, job, arg, asleep, pjob>>,
         ppc' = ppc \/ (ppc = "asleep" /\ ppc' = "check"),
         current <= current', known <= known',
         stop' = stop \/ (stop' = TRUE /\ Step = "requestStop"),
         opState' = opState \/ (opState' = "Closed" /\ Step = "close"),
         Step # "run", Step = "pop" => ~MayPop,
         Step = "waitJob" => \A p \in PriorityLeft : ops[p] > ops[job],
         Step \notin {"begin", "submit"} => UNCHANGED <<current, recording>>,
         Step = "begin" => current' = current /\ recording' # NoBuffer,
         Step = "submit" => current' = current + 1 /\ recording' = NoBuffer,
         Step = "wait" => arg <= counter,
         Step = "refresh" => counter <= known',
         Step = "drain" => PriorityDrained
  PROVE  IInv'
<1>1. ControlInv' /\ Step' = After(call, Step)
  BY DoneStep DEF IInv
<1>2. /\ current \in Nat /\ known \in Nat /\ counter \in Nat
      /\ known' \in Nat /\ current' \in Nat
  BY DEF IInv, DeviceInv, TickInv
<1>3. arg \in 0..current
  BY DEF IInv, OwnerInv
<1>4. /\ Busy' = Busy /\ PriorityLeft' = PriorityLeft /\ PriorityDrained' = PriorityDrained
  BY DEF Busy, PriorityLeft, PriorityDrained
<1>5. SeatInv'
  BY <1>4, SeatsStay DEF IInv
<1>6. /\ \A op \in DOMAIN ops : ops[op] \in Nat /\ ops[op] <= current
      /\ job # NoOp => job \in DOMAIN ops
  BY TakenHaveTicks DEF IInv
<1>7. Step # "idle" /\ (Step \in {"requestStop", "join", "close"} => call = "shutdown")
      /\ (call = "unmap" => Step \in UnmapSteps)
      /\ (call = "shutdown" => Step \in ShutdownSteps)
      /\ Step \in Steps
  <2>1. Step \in Steps
    BY HeadTailProperties DEF IInv, ControlInv, Step, Idle
  <2> QED
    BY <2>1 DEF IInv, ControlInv, Steps
<1>0. Step = "pop" => \A op \in Range(pending) : ops[op] > known
  <2> SUFFICES ASSUME Step = "pop", NEW op \in Range(pending) PROVE ops[op] > known
    OBVIOUS
  <2>1. pending # <<>> /\ op \in DOMAIN ops /\ Head(pending) \in DOMAIN ops
    BY TailFacts DEF Range, IInv, SeatInv
  <2>2. ops[Head(pending)] <= ops[op]
    BY <2>1, HeadIsFirst DEF IInv, SeatInv
  <2>3. ~(known >= ops[Head(pending)])
    BY <2>1 DEF MayPop, IsFree
  <2> QED
    BY <1>2, <1>6, <2>1, <2>2, <2>3
<1>8. OwnerInv'
  <2>1. /\ opState' \in {"Open", "Draining", "Closed"} /\ asleep' \in BOOLEAN
        /\ arg' \in 0..current'
        /\ (opState' # "Open" <=> call' = "shutdown")
    BY <1>2, <1>3, <1>7 DEF IInv, OwnerInv
  <2>2. job' # NoOp <=> Step' \in {"waitJob", "run"}
    BY <1>1, <1>7 DEF IInv, OwnerInv, After, Steps
  <2>3. job' # NoOp => ops'[job'] <= known'
    BY <1>2, <1>6 DEF IInv, OwnerInv
  <2>4. Step' = "run" => \A p \in PriorityLeft' : ops'[p] > ops'[job']
    BY <1>1, <1>4, <1>7 DEF After, Steps
  <2>5. opState' = "Open" /\ Step' \in {"refresh", "pop", "waitJob", "run"}
          => recording' # NoBuffer
    BY <1>1, <1>7 DEF IInv, OwnerInv, After, Steps
  <2>6. opState' = "Open" /\ recording' = NoBuffer => \A op \in DOMAIN ops : ops[op] < current'
    BY <1>2, <1>6, <1>7 DEF IInv, OwnerInv
  <2> QED
    BY <2>1, <2>2, <2>3, <2>4, <2>5, <2>6 DEF OwnerInv
<1>9. UnmapInv'
  <2> SUFFICES ASSUME call = "unmap" PROVE UnmapInv'
    BY DEF UnmapInv
  <2>1. Step' \in {"begin", "refresh", "pop", "waitJob", "run", "waitPriority"}
          => arg <= counter
    BY <1>1, <1>7 DEF IInv, UnmapInv, After, UnmapSteps
  <2>2. Step' \in {"pop", "waitJob", "run", "waitPriority"} => arg <= known'
    BY <1>1, <1>2, <1>3, <1>7, <2>1 DEF IInv, UnmapInv, After, UnmapSteps
  <2>3. Step' = "waitPriority" => \A op \in Range(pending) : ops[op] > arg
    <3>1. Step' = "waitPriority" => Step = "pop"
      BY <1>1, <1>7 DEF After, UnmapSteps
    <3>2. Step = "pop" => arg <= known
      BY DEF IInv, UnmapInv
    <3>3. Range(pending) \subseteq DOMAIN ops
      BY DEF IInv, SeatInv
    <3> QED
      BY <1>0, <1>2, <1>3, <1>6, <3>1, <3>2, <3>3
  <2> QED
    BY <2>1, <2>2, <2>3 DEF UnmapInv
<1>10. ShutInv'
  <2> SUFFICES ASSUME call = "shutdown" PROVE ShutInv'
    BY DEF ShutInv
  <2>1. Step' # "submit" /\ current' = arg + 1 /\ recording' = NoBuffer
    BY <1>1, <1>2, <1>3, <1>7 DEF IInv, ShutInv, After, ShutdownSteps
  <2>2. Step' \notin {"submit", "wait"} => arg <= counter
    BY <1>1, <1>7 DEF IInv, ShutInv, After, ShutdownSteps
  <2>3. Step' \notin {"submit", "wait", "refresh"} => arg <= known'
    BY <1>1, <1>2, <1>3, <1>7, <2>2 DEF IInv, ShutInv, After, ShutdownSteps
  <2>4. Step' \in {"drain", "requestStop", "notify", "join", "close", "idle"}
          => pending = <<>>
    <3>1. CASE Step = "pop"
      <4>1. /\ \A op \in Range(pending) : ops[op] <= arg
            /\ arg <= known
        BY <3>1 DEF IInv, ShutInv
      <4>2. Range(pending) \subseteq DOMAIN ops
        BY DEF IInv, SeatInv
      <4>3. Range(pending) = {}
        BY <1>0, <1>2, <1>3, <1>6, <3>1, <4>1, <4>2
      <4>4. pending # <<>> => Head(pending) \in Range(pending)
        BY TailFacts DEF IInv, SeatInv
      <4> QED
        BY <4>3, <4>4
    <3>2. CASE Step # "pop"
      BY <1>1, <1>7, <3>2 DEF IInv, ShutInv, After, ShutdownSteps
    <3> QED
      BY <3>1, <3>2
  <2>5. Step' \in {"requestStop", "notify", "join", "close", "idle"} => PriorityDrained
    BY <1>1, <1>7 DEF IInv, ShutInv, After, ShutdownSteps
  <2> QED
    BY <1>4, <2>1, <2>2, <2>3, <2>4, <2>5 DEF IInv, ShutInv
<1>11. PriorityInv'
  <2>1. stop' \in BOOLEAN /\ (ppc' = "run" => ops[pjob] <= counter)
        /\ ppc' \in {"check", "blocking", "asleep", "device", "run", "clear", "notify", "gone"}
        /\ (pjob # NoOp <=> ppc' \in {"device", "run", "clear"})
    BY DEF IInv, PriorityInv
  <2>2. stop' => call' = "shutdown" /\ Step' \in {"notify", "join", "close", "idle"}
    BY <1>1, <1>7 DEF IInv, PriorityInv, After
  <2> QED
    BY <2>1, <2>2 DEF PriorityInv
<1> QED
  BY <1>1, <1>5, <1>8, <1>9, <1>10, <1>11 DEF IInv

LEMMA WaitPriorityStep ==
  ASSUME IInv, DeviceInv', WaitPriorityOperations \/ DrainPriorityOperations
  PROVE  IInv'
<1>1. /\ UNCHANGED <<submission, known, queues, call, arg, job, runner, ran>>
      /\ ~Idle /\ Step \in {"waitJob", "waitPriority", "drain"}
  BY AtStep DEF WaitPriorityOperations, DrainPriorityOperations, AwaitPriority
<1>2. /\ current' = current /\ counter' = counter /\ recording' = recording
      /\ UNCHANGED <<ops, pending, priority, opState, ppc, pjob, stop>>
      /\ known <= known' /\ current <= current' /\ counter <= counter'
      /\ asleep \in BOOLEAN
  BY <1>1, TickFacts DEF submission, queues, runner, IInv, OwnerInv
<1>3. CASE asleep' = TRUE /\ UNCHANGED todo
  <2>1. Busy' = Busy /\ PriorityLeft' = PriorityLeft /\ PriorityDrained' = PriorityDrained
    BY <1>2 DEF Busy, PriorityLeft, PriorityDrained
  <2>2. ControlInv' /\ OwnerInv' /\ UnmapInv' /\ ShutInv' /\ Step' = Step
    BY <1>1, <1>2, <1>3, <2>1, OwnerStays
  <2>3. SeatInv'
    BY <1>1, <1>2, <2>1, SeatsStay DEF IInv
  <2>4. PriorityInv'
    BY <1>1, <1>2, <2>2 DEF IInv, PriorityInv
  <2> QED
    BY <2>2, <2>3, <2>4 DEF IInv
<1>4. CASE Done /\ UNCHANGED asleep /\ Step = "waitJob" /\ PriorityDoneUpTo(ops[job])
  <2>1. \A p \in PriorityLeft : ops[p] > ops[job]
    <3>1. ASSUME NEW p \in Range(priority) PROVE ops[p] > ops[job]
      <4>1. priority # <<>> /\ ops[Head(priority)] > ops[job]
        BY <1>4, <3>1 DEF PriorityDoneUpTo, Range
      <4>2. ops[Head(priority)] <= ops[p]
        BY <3>1, <4>1, HeadIsFirst DEF IInv, SeatInv
      <4>3. /\ p \in DOMAIN ops /\ Head(priority) \in DOMAIN ops /\ job \in DOMAIN ops
        BY <1>4, <3>1, <4>1, TailFacts, TakenHaveTicks DEF IInv, OwnerInv, SeatInv
      <4> QED
        BY <4>1, <4>2, <4>3, TakenHaveTicks DEF IInv
    <3>2. ASSUME NEW p \in Busy PROVE ops[p] > ops[job]
      BY <1>4, <3>2 DEF PriorityDoneUpTo, Busy, IInv, PriorityInv
    <3> QED
      BY <3>1, <3>2 DEF PriorityLeft
  <2> QED
    BY <1>1, <1>2, <1>4, <2>1, OwnerGoesOn
<1>5. CASE Done /\ UNCHANGED asleep /\ Step = "waitPriority"
  BY <1>1, <1>2, <1>5, OwnerGoesOn
<1>6. CASE Done /\ UNCHANGED asleep /\ Step = "drain" /\ PriorityDrained
  BY <1>1, <1>2, <1>6, OwnerGoesOn
<1> QED
  BY <1>3, <1>4, <1>5, <1>6, AtStep
     DEF WaitPriorityOperations, DrainPriorityOperations, AwaitPriority

(* The steps that only the timeline, the stop token and the state of the   *)
(* operations see.                                                         *)
LEMMA PlainSteps ==
  ASSUME IInv, DeviceInv',
         BeginNext \/ Submit \/ WaitTick \/ PopRefresh \/ Notify \/ RequestStop
           \/ Join \/ Close
  PROVE  IInv'
<1>0. current \in Nat /\ known \in Nat /\ counter \in Nat /\ known <= counter
      /\ known' \in Nat /\ current' \in Nat /\ arg \in Nat
      /\ known <= Refreshed /\ counter <= Refreshed
  BY TickFacts DEF IInv, DeviceInv, TickInv, OwnerInv
<1>1. CASE BeginNext
  <2>1. /\ UNCHANGED <<current, counter, inflight, queues, call, arg, job, asleep, runner, ran>>
        /\ Step = "begin" /\ ~Idle /\ Done /\ Commit
    BY <1>1, AtStep DEF BeginNext
  <2>2. recording' # NoBuffer /\ known <= known'
    <3>1. known' \in {known, Refreshed}
      BY <2>1 DEF Commit
    <3>2. recording' # NoBuffer
      BY <1>1, <2>1, CommitStep DEF BeginNext, IInv
    <3> QED
      BY <1>0, <3>1, <3>2
  <2> QED
    BY <1>0, <2>1, <2>2, OwnerGoesOn DEF queues, runner
<1>2. CASE Submit
  <2>1. /\ UNCHANGED <<counter, known, queues, call, arg, job, asleep, runner, ran>>
        /\ Step = "submit" /\ ~Idle /\ Done
        /\ current' = current + 1 /\ recording' = NoBuffer
    BY <1>2, AtStep DEF Submit
  <2> QED
    BY <1>0, <2>1, OwnerGoesOn DEF queues, runner
<1>3. CASE WaitTick
  <2>1. /\ UNCHANGED <<submission, queues, call, arg, job, asleep, runner, ran>>
        /\ Step = "wait" /\ ~Idle /\ Done /\ MasterWaited(arg)
    BY <1>3, AtStep DEF WaitTick
  <2>2. arg <= counter /\ known <= known'
    BY <1>0, <2>1 DEF MasterWaited, IsFree
  <2> QED
    BY <1>0, <2>1, <2>2, OwnerGoesOn DEF submission, queues, runner
<1>4. CASE PopRefresh
  <2>1. /\ UNCHANGED <<submission, queues, call, arg, job, asleep, runner, ran>>
        /\ Step = "refresh" /\ ~Idle /\ Done /\ known' = Refreshed
    BY <1>4, AtStep DEF PopRefresh
  <2> QED
    BY <1>0, <2>1, OwnerGoesOn DEF submission, queues, runner
<1>5. CASE Notify
  <2>1. /\ UNCHANGED <<submission, known, queues, call, arg, job, asleep, pjob, stop, ran>>
        /\ Step = "notify" /\ ~Idle /\ Done
        /\ (ppc' = ppc \/ (ppc = "asleep" /\ ppc' = "check"))
    BY <1>5, AtStep DEF Notify
  <2> QED
    BY <1>0, <2>1, OwnerGoesOn DEF submission, queues
<1>6. CASE RequestStop
  <2>1. /\ UNCHANGED <<submission, known, queues, call, arg, job, asleep, ppc, pjob, ran>>
        /\ Step = "requestStop" /\ ~Idle /\ Done /\ stop' = TRUE
    BY <1>6, AtStep DEF RequestStop
  <2> QED
    BY <1>0, <2>1, OwnerGoesOn DEF submission, queues
<1>7. CASE Join
  <2>1. /\ UNCHANGED <<submission, known, queues, call, arg, job, asleep, runner, ran>>
        /\ Step = "join" /\ ~Idle /\ Done
    BY <1>7, AtStep DEF Join
  <2> QED
    BY <1>0, <2>1, OwnerGoesOn DEF submission, queues, runner
<1>8. CASE Close
  <2>1. /\ UNCHANGED <<submission, known, ops, pending, priority, call, arg, job, asleep,
                       runner, ran>>
        /\ Step = "close" /\ ~Idle /\ Done /\ opState' = "Closed"
    BY <1>8, AtStep DEF Close
  <2> QED
    BY <1>0, <2>1, OwnerGoesOn DEF submission, runner
<1> QED
  BY <1>1, <1>2, <1>3, <1>4, <1>5, <1>6, <1>7, <1>8

LEMMA PopStep ==
  ASSUME IInv, DeviceInv', Pop
  PROVE  IInv'
<1>1. /\ UNCHANGED <<submission, known, ops, priority, opState, call, arg, asleep, runner, ran>>
      /\ At("pop") /\ Step = "pop" /\ ~Idle
  BY AtStep DEF Pop
<1>2. /\ UNCHANGED <<current, counter, recording, ppc, pjob, stop>>
      /\ current \in Nat /\ known \in Nat /\ counter \in Nat
  BY <1>1 DEF submission, runner, IInv, DeviceInv, TickInv
<1>3. CASE ~MayPop
  <2>1. Done /\ UNCHANGED <<job, pending>>
    BY <1>3 DEF Pop
  <2> QED
    BY <1>1, <1>2, <1>3, <2>1, OwnerGoesOn
<1>4. CASE MayPop
  <2>1. /\ job' = Head(pending) /\ pending' = Tail(pending)
        /\ todo' = <<"waitJob", "run">> \o todo
        /\ pending # <<>> /\ known >= ops[Head(pending)]
    BY <1>4 DEF Pop, MayPop, IsFree
  <2>2. ControlInv' /\ Step' = "waitJob"
    BY <1>1, <2>1, PushStep DEF IInv
  <2>3. job = NoOp
    BY <1>1 DEF IInv, OwnerInv
  <2>4. /\ Busy' = Busy /\ PriorityLeft' = PriorityLeft /\ PriorityDrained' = PriorityDrained
    BY <1>1, <1>2 DEF Busy, PriorityLeft, PriorityDrained
  <2>5. SeatInv' /\ job' \in DOMAIN ops /\ Range(pending') \subseteq Range(pending)
    BY <1>1, <1>2, <2>1, <2>3, <2>4, SeatsPop DEF IInv
  <2>6. job' # NoOp /\ ops[job'] <= known
    <3>1. job' # NoOp /\ ops[job'] \in Nat
      BY <2>5, TakenHaveTicks, LenProperties DEF IInv, SeatInv, NoOp
    <3> QED
      BY <1>2, <2>1, <3>1
  <2>7. OwnerInv'
    BY <1>1, <1>2, <2>2, <2>6 DEF IInv, OwnerInv
  <2>8. UnmapInv'
    BY <1>1, <1>2, <2>2 DEF IInv, UnmapInv
  <2>9. ShutInv'
    BY <1>1, <1>2, <2>2, <2>5 DEF IInv, ShutInv
  <2>10. PriorityInv'
    BY <1>1, <1>2 DEF IInv, PriorityInv
  <2> QED
    BY <2>2, <2>5, <2>7, <2>8, <2>9, <2>10 DEF IInv
<1> QED
  BY <1>3, <1>4

LEMMA RunStep ==
  ASSUME IInv, DeviceInv', Run
  PROVE  IInv'
<1>1. /\ UNCHANGED <<submission, known, priority, opState, call, arg, asleep, runner>>
      /\ Step = "run" /\ ~Idle /\ Done /\ job' = NoOp
  BY AtStep DEF Run
<1>2. /\ UNCHANGED <<current, counter, recording, ppc, pjob, stop>>
      /\ current \in Nat /\ known \in Nat /\ counter \in Nat
  BY <1>1 DEF submission, runner, IInv, DeviceInv, TickInv
<1>3. ControlInv' /\ Step' = "pop"
  BY <1>1, DoneStep DEF IInv, After
<1>4. job # NoOp /\ Busy' = Busy
  BY <1>1, <1>2 DEF IInv, OwnerInv, Busy
<1>5. /\ SeatInv'
      /\ \A op \in DOMAIN ops : ops'[op] = ops[op]
      /\ opState # "Open" => pending' = pending
  <2>1. CASE ran' = Append(ran, job) /\ UNCHANGED <<ops, pending>>
    BY <1>1, <1>2, <1>4, <2>1, SeatsRun DEF IInv
  <2>2. CASE /\ ops' = Append(ops, current) /\ opState = "Open"
             /\ pending' = Append(pending, Len(ops')) /\ ran' = Append(ran, job)
    BY <1>1, <1>2, <1>4, <2>2, SeatsRunAndDefer, Deferred DEF IInv
  <2>3. CASE /\ ops' = Append(ops, current) /\ opState # "Open"
             /\ ran' = Append(Append(ran, Len(ops')), job) /\ UNCHANGED pending
    BY <1>1, <1>2, <1>4, <2>3, SeatsRunBoth, Deferred DEF IInv
  <2> QED
    BY <2>1, <2>2, <2>3 DEF Run
<1>6. Range(pending) \subseteq DOMAIN ops
  BY DEF IInv, SeatInv
<1>7. OwnerInv'
  BY <1>1, <1>2, <1>3 DEF IInv, OwnerInv
<1>8. UnmapInv'
  BY <1>1, <1>2, <1>3 DEF IInv, UnmapInv
<1>9. ShutInv'
  BY <1>1, <1>2, <1>3, <1>5, <1>6 DEF IInv, ShutInv, OwnerInv
<1>10. PriorityInv'
  BY <1>1, <1>2, <1>3, <1>5, PriorityStays DEF IInv, PriorityInv
<1> QED
  BY <1>3, <1>5, <1>7, <1>8, <1>9, <1>10 DEF IInv

LEMMA DeferStep ==
  ASSUME IInv, DeviceInv', DeferOperation \/ DeferPriorityOperation
  PROVE  IInv'
<1>1. /\ UNCHANGED <<submission, known, opState, arg, job, asleep, runner, ran>>
      /\ Idle /\ recording # NoBuffer /\ opState = "Open" /\ ops' = Append(ops, current)
  BY DEF DeferOperation, DeferPriorityOperation, MayDefer
<1>2. /\ UNCHANGED <<current, counter, recording, ppc, pjob, stop>>
      /\ current \in Nat /\ known \in Nat /\ counter \in Nat
  BY <1>1 DEF submission, runner, IInv, DeviceInv, TickInv
<1>3. Step = "idle" /\ job = NoOp /\ Busy' = Busy /\ ~stop /\ call # "shutdown"
  BY <1>1, <1>2 DEF Step, Idle, IInv, OwnerInv, PriorityInv, Busy
<1>4. ControlInv' /\ Step' \in {"idle", "notify"} /\ call' # "shutdown"
  <2>1. CASE DeferOperation
    BY <1>3, <2>1, StayStep DEF DeferOperation, IInv
  <2>2. CASE DeferPriorityOperation
    <3>1. call' = "defer" /\ todo' = <<"notify">>
      BY <2>2 DEF DeferPriorityOperation
    <3>2. todo' \in Seq(Steps) /\ Step' = "notify"
      BY <3>1 DEF Steps, Step
    <3>3. Chain(call', todo')
      BY <3>1 DEF Chain, After
    <3> QED
      BY <3>1, <3>2, <3>3 DEF ControlInv
  <2> QED
    BY <2>1, <2>2
<1>5. SeatInv'
  <2>1. CASE DeferOperation
    BY <1>1, <1>2, <1>3, <2>1, SeatsDefer DEF DeferOperation, IInv
  <2>2. CASE DeferPriorityOperation
    BY <1>1, <1>2, <1>3, <2>2, SeatsDeferPriority DEF DeferPriorityOperation, IInv
  <2> QED
    BY <2>1, <2>2
<1>6. OwnerInv'
  BY <1>1, <1>2, <1>3, <1>4 DEF IInv, OwnerInv
<1>7. UnmapInv' /\ ShutInv'
  BY <1>4 DEF UnmapInv, ShutInv
<1>8. PriorityInv'
  BY <1>1, <1>2, <1>3, Deferred, PriorityStays DEF IInv
<1> QED
  BY <1>4, <1>5, <1>6, <1>7, <1>8 DEF IInv

LEMMA BeginCall ==
  ASSUME IInv, DeviceInv', NEW c, NEW steps, NEW tick \in 0..current,
         c # "shutdown", Start(c, steps, tick), ControlInv',
         Step' \in {"begin", "submit", "wait"} \/ (Step' = "refresh" /\ recording # NoBuffer),
         c = "unmap" => Step' = "submit"
  PROVE  IInv'
<1>1. /\ UNCHANGED <<submission, known, queues, job, asleep, runner, ran>>
      /\ Idle /\ opState = "Open" /\ call' = c /\ arg' = tick
  BY DEF Start
<1>2. /\ UNCHANGED <<current, counter, recording, ops, pending, priority, opState,
                      ppc, pjob, stop>>
      /\ current \in Nat /\ known \in Nat /\ counter \in Nat
  BY <1>1 DEF submission, queues, runner, IInv, DeviceInv, TickInv
<1>3. Step = "idle" /\ job = NoOp /\ Busy' = Busy /\ ~stop
  BY <1>1, <1>2 DEF Step, Idle, IInv, OwnerInv, PriorityInv, Busy
<1>4. SeatInv'
  BY <1>1, <1>2, <1>3, SeatsStay DEF IInv
<1>5. OwnerInv'
  BY <1>1, <1>2, <1>3 DEF IInv, OwnerInv
<1>6. UnmapInv' /\ ShutInv'
  BY <1>1 DEF UnmapInv, ShutInv
<1>7. PriorityInv'
  BY <1>1, <1>2, <1>3, PriorityStays DEF IInv
<1> QED
  BY <1>4, <1>5, <1>6, <1>7 DEF IInv

LEMMA RequestStep ==
  ASSUME IInv, DeviceInv', Request
  PROVE  IInv'
<1>0. current \in Nat /\ current \in 0..current /\ 0 \in 0..current
  BY DEF IInv, DeviceInv, TickInv
<1>1. CASE DeferOperation \/ DeferPriorityOperation
  BY <1>1, DeferStep
<1>2. CASE Begin
  <2>1. ControlInv' /\ Step' = "begin"
    BY <1>2, CallsStart
  <2>2. Start("begin", <<"begin">>, 0)
    BY <1>2 DEF Begin
  <2> QED
    BY <1>0, <2>1, <2>2, BeginCall
<1>3. CASE Flush \/ FlushAndWait \/ Finish \/ FinishAndWaitPriority \/ ShutdownGpu
  <2>1. ControlInv' /\ Step' = "submit"
    BY <1>3, CallsStart
  <2>2. CASE Flush
    <3>1. Start("flush", <<"submit", "begin">>, 0)
      BY <2>2 DEF Flush
    <3> QED
      BY <1>0, <2>1, <3>1, BeginCall
  <2>3. CASE FlushAndWait
    <3>1. Start("flushAndWait", <<"submit", "wait", "begin">>, current)
      BY <2>3 DEF FlushAndWait
    <3> QED
      BY <1>0, <2>1, <3>1, BeginCall
  <2>4. CASE Finish
    <3>1. Start("finish", FinishSteps, current)
      BY <2>4 DEF Finish
    <3> QED
      BY <1>0, <2>1, <3>1, BeginCall
  <2>5. CASE FinishAndWaitPriority
    <3>1. Start("unmap", Append(FinishSteps, "waitPriority"), current)
      BY <2>5 DEF FinishAndWaitPriority
    <3> QED
      BY <1>0, <2>1, <3>1, BeginCall
  <2>6. CASE ShutdownGpu
    <3>1. Start("shutdownGpu", Append(FinishSteps, "drain"), current)
      BY <2>6 DEF ShutdownGpu
    <3> QED
      BY <1>0, <2>1, <3>1, BeginCall
  <2> QED
    BY <1>3, <2>2, <2>3, <2>4, <2>5, <2>6
<1>4. CASE recording # NoBuffer /\ PopPendingOperations
  BY <1>0, <1>4, CallsStart, BeginCall DEF PopPendingOperations
<1>5. ASSUME NEW tick \in 0..current, Wait(tick) PROVE IInv'
  <2>1. ControlInv' /\ Step' \in {"submit", "wait"}
    BY <1>5, CallsStart
  <2>2. CASE tick = current
    <3>1. Start("waitCurrent", <<"submit", "wait", "begin">>, tick)
      BY <1>5, <2>2 DEF Wait
    <3> QED
      BY <1>0, <2>1, <3>1, BeginCall
  <2>3. CASE tick # current
    <3>1. Start("waitTick", <<"wait">>, tick)
      BY <1>5, <2>3 DEF Wait
    <3> QED
      BY <1>0, <2>1, <3>1, BeginCall
  <2> QED
    BY <2>2, <2>3
<1>6. 1..(current - 1) \subseteq 0..current
  BY <1>0
<1> QED
  BY <1>0, <1>1, <1>2, <1>3, <1>4, <1>5, <1>6 DEF Request

(* The steps of Shutdown: the last submission, if there is one to make. *)
LEMMA ShutdownControl ==
  ASSUME Shutdown
  PROVE  ControlInv' /\ Step' = IF recording # NoBuffer THEN "submit" ELSE "wait"
<1> DEFINE rest == <<"wait", "refresh", "pop", "drain",
                     "requestStop", "notify", "join", "close">>
<1>1. call' = "shutdown"
  BY DEF Shutdown
<1>2. rest \in Seq(Steps) /\ rest # <<>> /\ Len(rest) = 8 /\ rest[1] = "wait"
  BY DEF Steps
<1>3. Chain("shutdown", rest)
  BY DEF Chain, After
<1>4. todo' = IF recording # NoBuffer THEN <<"submit">> \o rest ELSE <<>> \o rest
  BY DEF Shutdown
<1> HIDE DEF rest
<1>5. CASE recording = NoBuffer
  <2>1. todo' = rest
    BY <1>2, <1>4, <1>5, ConcatEmptySeq
  <2> QED
    BY <1>1, <1>2, <1>3, <1>5, <2>1 DEF ControlInv, Step, ShutdownSteps
<1>6. CASE recording # NoBuffer
  <2>1. <<"submit">> \in Seq(Steps) /\ Len(<<"submit">>) = 1 /\ <<"submit">>[1] = "submit"
    BY DEF Steps
  <2>2. /\ todo' \in Seq(Steps) /\ Len(todo') = 1 + Len(rest)
        /\ \A i \in 1..(1 + Len(rest)) :
             todo'[i] = IF i <= 1 THEN <<"submit">>[i] ELSE rest[i - 1]
    BY <1>2, <1>4, <1>6, <2>1, ConcatProperties, ZenonT(60)
  <2>3. Len(todo') = 9 /\ todo'[1] = "submit" /\ \A i \in 1..8 : todo'[i + 1] = rest[i]
    BY <1>2, <2>1, <2>2
  <2>4. todo' # <<>> /\ Head(todo') = todo'[1]
    BY <2>2, <2>3, EmptySeq, HeadTailProperties
  <2>5. Chain("shutdown", todo')
    <3>1. SUFFICES ASSUME NEW i \in 1..9
                   PROVE  After("shutdown", todo'[i])
                            = IF i = 9 THEN "idle" ELSE todo'[i + 1]
      BY <2>3 DEF Chain
    <3>2. CASE i = 1
      BY <1>2, <2>3, <3>2 DEF After
    <3>3. CASE i # 1
      <4>1. i - 1 \in 1..8 /\ todo'[i] = rest[i - 1]
        BY <2>3, <3>3
      <4>2. i # 9 => i \in 1..8 /\ todo'[i + 1] = rest[i - 1 + 1]
        BY <2>3, <3>3
      <4> QED
        BY <1>2, <1>3, <4>1, <4>2 DEF Chain
    <3> QED
      BY <3>2, <3>3
  <2> QED
    BY <1>1, <1>6, <2>2, <2>3, <2>4, <2>5 DEF ControlInv, Step, ShutdownSteps
<1> QED
  BY <1>5, <1>6

LEMMA ShutdownStep ==
  ASSUME IInv, DeviceInv', Shutdown
  PROVE  IInv'
<1>1. /\ UNCHANGED <<submission, known, ops, pending, priority, job, asleep, runner, ran>>
      /\ Idle /\ opState = "Open" /\ opState' = "Draining" /\ call' = "shutdown"
      /\ arg' = IF recording # NoBuffer THEN current ELSE current - 1
  BY DEF Shutdown
<1>2. /\ UNCHANGED <<current, counter, recording, ppc, pjob, stop>>
      /\ current \in Nat \ {0} /\ known \in Nat /\ counter \in Nat
  BY <1>1 DEF submission, runner, IInv, DeviceInv, TickInv
<1>3. Step = "idle" /\ job = NoOp /\ Busy' = Busy /\ ~stop
  BY <1>1, <1>2 DEF Step, Idle, IInv, OwnerInv, PriorityInv, Busy
<1>4. ControlInv' /\ Step' = IF recording # NoBuffer THEN "submit" ELSE "wait"
  BY ShutdownControl
<1>5. SeatInv'
  BY <1>1, <1>2, <1>3, SeatsStay DEF IInv
<1>6. OwnerInv'
  BY <1>1, <1>2, <1>3, <1>4 DEF IInv, OwnerInv
<1>7. UnmapInv'
  BY <1>1 DEF UnmapInv
<1>8. ShutInv'
  <2>1. ASSUME NEW op \in Range(pending) PROVE ops[op] <= arg'
    <3>1. op \in DOMAIN ops /\ ops[op] \in Nat /\ ops[op] <= current
      BY TakenHaveTicks DEF IInv, SeatInv
    <3> QED
      BY <1>1, <1>2, <3>1 DEF IInv, OwnerInv
  <2> QED
    BY <1>1, <1>2, <1>4, <2>1 DEF ShutInv
<1>9. PriorityInv'
  BY <1>1, <1>2, <1>3, PriorityStays DEF IInv
<1> QED
  BY <1>4, <1>5, <1>6, <1>7, <1>8, <1>9 DEF IInv

(* A spurious wake-up, and a stutter. *)
LEMMA WakeupStep ==
  ASSUME IInv, DeviceInv', SpuriousWakeup \/ UNCHANGED vars
  PROVE  IInv'
<1>1. /\ UNCHANGED <<submission, known, queues, ran, call, todo, arg, job, pjob, stop>>
      /\ asleep' \in {FALSE, asleep}
      /\ (ppc' = ppc \/ (ppc = "asleep" /\ ppc' = "check"))
  BY DEF SpuriousWakeup, owner, runner, vars
<1>2. /\ UNCHANGED <<current, counter, recording, ops, pending, priority, opState>>
      /\ current \in Nat /\ known \in Nat /\ counter \in Nat
      /\ counter <= counter' /\ known <= known' /\ current <= current'
  BY <1>1 DEF submission, queues, IInv, DeviceInv, TickInv
<1>3. asleep' \in BOOLEAN
  BY <1>1 DEF IInv, OwnerInv
<1>4. /\ Busy' = Busy /\ PriorityLeft' = PriorityLeft /\ PriorityDrained' = PriorityDrained
  BY <1>1, <1>2 DEF Busy, PriorityLeft, PriorityDrained
<1>5. ControlInv' /\ OwnerInv' /\ UnmapInv' /\ ShutInv' /\ Step' = Step
  BY <1>1, <1>2, <1>3, <1>4, OwnerStays
<1>6. SeatInv'
  BY <1>1, <1>2, <1>4, SeatsStay DEF IInv
<1>7. PriorityInv'
  BY <1>1, <1>2, <1>5 DEF IInv, PriorityInv
<1> QED
  BY <1>5, <1>6, <1>7 DEF IInv

LEMMA NextIInv == IInv /\ [Next]_vars => IInv'
<1> SUFFICES ASSUME IInv, [Next]_vars PROVE IInv'
  OBVIOUS
<1>1. DeviceInv'
  BY NextDevice DEF IInv
<1> QED
  BY <1>1, RequestStep, ShutdownStep, PlainSteps, PopStep, WaitPriorityStep, RunStep,
     PrioritySteps, DeviceStep, WakeupStep
     DEF Next, OwnerStep

LEMMA IInvHolds == Spec => []IInv
<1> QED
  BY InitIInv, NextIInv, PTL DEF Spec

------------------------------------------------------------------------------
(* What follows from the invariant *)

LEMMA IInvTypes == IInv => TypeOK
<1> SUFFICES ASSUME IInv PROVE TypeOK
  OBVIOUS
<1>1. /\ current \in Nat /\ known \in Nat /\ counter \in Nat
      /\ known <= counter /\ counter < current
  BY DEF IInv, DeviceInv, TickInv
<1>2. /\ ticks \in Seq(Nat) /\ DOMAIN ticks = 1..Len(ticks) /\ Len(ticks) \in Nat
      /\ \A i \in 1..Len(ticks) : ticks[i] <= current
      /\ hint \in 1..(Len(ticks) + 1) /\ recording \in 0..Len(ticks)
  BY LenProperties DEF IInv, DeviceInv, PoolInv
<1>3. ticks \in Seq(0..current)
  <2>1. \A i \in 1..Len(ticks) : ticks[i] \in 0..current
    BY <1>1, <1>2, ElementOfSeq
  <2> QED
    BY <1>2, <2>1, NarrowerRange
<1>4. inflight \subseteq [tick : (counter + 1)..(current - 1), buffer : DOMAIN ticks]
  <2>1. SUFFICES ASSUME NEW s \in inflight
                 PROVE  s \in [tick : (counter + 1)..(current - 1), buffer : DOMAIN ticks]
    OBVIOUS
  <2>2. /\ s \in [tick : Nat, buffer : 1..Len(ticks)]
        /\ counter < s.tick /\ s.tick < current
    BY DEF IInv, DeviceInv, FlightInv
  <2>3. s.tick \in (counter + 1)..(current - 1)
    BY <1>1, <2>2
  <2> QED
    BY <1>2, <2>2, <2>3
<1>5. recording \in DOMAIN ticks \cup {NoBuffer}
  BY <1>2 DEF NoBuffer
<1>6. Seated
  <2> DEFINE places == <<Range(pending), Range(priority), Range(ran), {job} \ {NoOp}, Busy>>
  <2>1. /\ DOMAIN places = 1..5
        /\ places[1] = Range(pending) /\ places[2] = Range(priority)
        /\ places[3] = Range(ran) /\ places[4] = Held /\ places[5] = Busy
    BY DEF Held
  <2> HIDE DEF places
  <2>2. Range(places) = {places[1], places[2], places[3], places[4], places[5]}
    BY <2>1 DEF Range
  <2>3. UNION Range(places) = DOMAIN ops
    <3>1. Range(pending) \cup Range(priority) \cup Range(ran) \cup Held \cup Busy = DOMAIN ops
      BY DEF IInv, SeatInv
    <3>2. UNION Range(places) =
            places[1] \cup places[2] \cup places[3] \cup places[4] \cup places[5]
      BY <2>2
    <3> QED
      BY <2>1, <3>1, <3>2
  <2>4. ASSUME NEW a \in 1..5, NEW b \in 1..5, a # b
        PROVE  places[a] \cap places[b] = {}
    <3>1. a \in {1, 2, 3, 4, 5} /\ b \in {1, 2, 3, 4, 5}
      OBVIOUS
    <3> QED
      BY <2>1, <2>4, <3>1 DEF IInv, SeatInv
  <2> QED
    BY <2>1, <2>3, <2>4 DEF Seated, places, IInv, SeatInv
<1>7. stop \in BOOLEAN /\ asleep \in BOOLEAN
  BY DEF IInv, PriorityInv, OwnerInv
<1>8. ops \in Seq(1..current) /\ arg \in 0..current
  BY DEF IInv, SeatInv, OwnerInv
<1> QED
  BY <1>1, <1>2, <1>3, <1>4, <1>5, <1>6, <1>7, <1>8
     DEF TypeOK, IInv, OwnerInv, PriorityInv

(* No operation is lost and none can run twice: each that was deferred is  *)
(* in one queue once, taken by one thread, or was run once; and every      *)
(* variable keeps its type.                                                *)
THEOREM TypeCorrect == Spec => []TypeOK
<1> QED
  BY IInvHolds, IInvTypes, PTL

LEMMA DeviceIsPast ==
  ASSUME IInv, NEW tick \in Nat, tick <= counter
  PROVE  ~Unfinished(tick)
BY DEF IInv, DeviceInv, TickInv, FlightInv, Unfinished

(* What an appended operation adds to the ones that have run. *)
LEMMA RanOne ==
  ASSUME NEW S, ran \in Seq(S), NEW op \in S, ran' = Append(ran, op)
  PROVE  RanNow = {op}
<1>1. Len(ran') = Len(ran) + 1 /\ ran'[Len(ran) + 1] = op /\ Len(ran) \in Nat
  BY AppendProperties, LenProperties
<1> QED
  BY <1>1 DEF RanNow

LEMMA RanTwo ==
  ASSUME NEW S, ran \in Seq(S), NEW op1 \in S, NEW op2 \in S,
         ran' = Append(Append(ran, op1), op2)
  PROVE  RanNow = {op1, op2}
<1> DEFINE half == Append(ran, op1)
<1>1. /\ half \in Seq(S) /\ Len(half) = Len(ran) + 1 /\ half[Len(ran) + 1] = op1
      /\ Len(ran) \in Nat
  BY AppendProperties, LenProperties
<1> HIDE DEF half
<1>2. /\ Len(ran') = Len(half) + 1 /\ ran'[Len(half) + 1] = op2
      /\ \A i \in 1..Len(half) : ran'[i] = half[i]
  BY <1>1, AppendProperties DEF half
<1>3. /\ Len(ran') = Len(ran) + 2 /\ ran'[Len(ran) + 1] = op1 /\ ran'[Len(ran) + 2] = op2
  BY <1>1, <1>2
<1> QED
  BY <1>1, <1>3 DEF RanNow

InTurn ==
  \A op \in RanNow :
    /\ ~Unfinished(ops'[op])
    /\ op # pjob /\ op \in DOMAIN ops => \A p \in PriorityLeft : ops[p] > ops[op]

LEMMA StepsRunInTurn == IInv /\ [Next]_vars => InTurn
<1> SUFFICES ASSUME IInv, [Next]_vars PROVE InTurn
  OBVIOUS
<1>1. ran \in Seq(DOMAIN ops) /\ Len(ran) \in Nat
  BY LenProperties DEF IInv, SeatInv
<1>2. /\ current \in Nat /\ known \in Nat /\ counter \in Nat /\ known <= counter
  BY DEF IInv, DeviceInv, TickInv
<1>3. CASE ran' = ran
  BY <1>1, <1>3 DEF InTurn, RanNow
<1>4. CASE Run
  <2>1. /\ Step = "run" /\ job # NoOp /\ job \in DOMAIN ops
        /\ ops[job] \in Nat /\ ops[job] <= counter
        /\ \A p \in PriorityLeft : ops[p] > ops[job]
    <3>1. Step = "run"
      BY <1>4, AtStep DEF Run
    <3>2. /\ job # NoOp /\ ops[job] <= known
          /\ \A p \in PriorityLeft : ops[p] > ops[job]
      BY <3>1 DEF IInv, OwnerInv
    <3> QED
      BY <1>2, <3>1, <3>2, TakenHaveTicks DEF IInv
  <2>2. ~Unfinished(ops[job])
    BY <2>1, DeviceIsPast
  <2>3. CASE ran' = Append(ran, job) /\ UNCHANGED <<ops, pending>>
    BY <1>1, <2>1, <2>2, <2>3, RanOne DEF InTurn
  <2>4. CASE ops' = Append(ops, current) /\ ran' = Append(ran, job)
    <3>1. ops'[job] = ops[job]
      BY <2>1, <2>4, Deferred DEF IInv
    <3> QED
      BY <1>1, <2>1, <2>2, <2>4, <3>1, RanOne DEF InTurn
  <2>5. CASE /\ ops' = Append(ops, current) /\ opState # "Open"
             /\ ran' = Append(Append(ran, Len(ops')), job)
    <3>1. /\ ops'[job] = ops[job] /\ ops'[Len(ops')] = current
          /\ Len(ops') \notin DOMAIN ops /\ DOMAIN ops' = DOMAIN ops \cup {Len(ops')}
      BY <2>1, <2>5, Deferred DEF IInv
    <3>2. RanNow = {Len(ops'), job}
      <4>1. ran \in Seq(DOMAIN ops')
        BY <2>5, Newcomer DEF IInv
      <4> QED
        BY <2>1, <2>5, <3>1, <4>1, RanTwo
    <3>3. ~Unfinished(current)
      <4>1. current = arg + 1 /\ recording = NoBuffer /\ arg <= counter /\ arg \in Nat
        BY <2>1, <2>5 DEF IInv, OwnerInv, ShutInv
      <4>2. ASSUME NEW s \in inflight PROVE FALSE
        BY <1>2, <4>1 DEF IInv, DeviceInv, FlightInv
      <4> QED
        BY <4>1, <4>2 DEF Unfinished
    <3> QED
      BY <2>1, <2>2, <3>1, <3>2, <3>3 DEF InTurn
  <2> QED
    BY <1>4, <2>3, <2>4, <2>5 DEF Run
<1>5. CASE PriorityRun /\ ran' # ran
  <2>1. /\ ppc = "run" /\ ran' = Append(ran, pjob) /\ ops' = ops
    BY <1>5 DEF PriorityRun, queues
  <2>2. pjob \in DOMAIN ops /\ ops[pjob] \in Nat /\ ops[pjob] <= counter
    BY <2>1, TakenHaveTicks DEF IInv, PriorityInv
  <2>3. ~Unfinished(ops[pjob])
    BY <2>2, DeviceIsPast
  <2> QED
    BY <1>1, <2>1, <2>2, <2>3, RanOne DEF InTurn
<1>6. ran' = ran \/ Run \/ PriorityRun
  BY DEF Next, Request, Begin, DeferOperation, DeferPriorityOperation, MayDefer, Start,
         PopPendingOperations, Wait, Flush, FlushAndWait, Finish, FinishAndWaitPriority,
         ShutdownGpu, Shutdown, OwnerStep, BeginNext, Submit, WaitTick, PopRefresh, Pop,
         WaitPriorityOperations, DrainPriorityOperations, AwaitPriority, Notify,
         RequestStop, Join, Close, PriorityStep, PriorityCheck, PriorityBlock,
         PriorityWaitDevice, PriorityClear, PriorityNotify, GpuFinish, SpuriousWakeup, vars
<1> QED
  BY <1>3, <1>4, <1>5, <1>6

(* A callback runs only when the device has finished what was recorded up  *)
(* to the tick it was deferred at, also one that a callback defers while   *)
(* the scheduler drains; and one from the pending queue only after the     *)
(* priority operations of its tick and before, queued or being run.        *)
THEOREM CallbacksRunInTurn == Spec => RunsInTurn
<1>1. IInv /\ [Next]_vars => [InTurn]_vars
  BY StepsRunInTurn
<1>2. RunsInTurn <=> [][InTurn]_vars
  BY DEF RunsInTurn, InTurn
<1> QED
  BY <1>1, <1>2, IInvHolds, PTL DEF Spec

NoneLeft ==
  /\ (call = "unmap" /\ ~Idle /\ todo' = <<>>)
       => \A op \in DOMAIN ops : ops[op] <= arg => op \in Range(ran')
  /\ stop' => Range(ran') = DOMAIN ops'

(* An unmap ends with the wait for the priority operations.                *)
LEMMA UnmapEnds ==
  ASSUME IInv, Next, call = "unmap", ~Idle, todo' = <<>>
  PROVE  Step = "waitPriority" /\ PriorityDoneUpTo(arg) /\ ran' = ran
<1>1. todo # <<>> /\ todo' # todo
  BY DEF Idle
<1>2. ~Request /\ ~Shutdown /\ ~PriorityStep /\ ~GpuFinish /\ ~SpuriousWakeup
  BY <1>1
     DEF Request, Begin, DeferOperation, DeferPriorityOperation, MayDefer, Start,
         PopPendingOperations, Wait, Flush, FlushAndWait, Finish, FinishAndWaitPriority,
         ShutdownGpu, Shutdown, PriorityStep, PriorityCheck, PriorityBlock, PriorityRun,
         PriorityWaitDevice, PriorityClear, PriorityNotify, GpuFinish, SpuriousWakeup, owner
<1>3. OwnerStep
  BY <1>2 DEF Next
<1>4. Done /\ call' = call => Step = "waitPriority"
  <2> SUFFICES ASSUME Done, call' = call PROVE Step = "waitPriority"
    OBVIOUS
  <2>1. Step' = "idle" /\ Step' = After("unmap", Step)
    BY DoneStep DEF IInv, Step
  <2>2. Step \in Steps /\ Step \in UnmapSteps
    BY HeadTailProperties DEF IInv, ControlInv, Step, Idle
  <2> QED
    BY <2>1, <2>2 DEF After, UnmapSteps, Steps
<1>5. ~BeginNext /\ ~Submit /\ ~WaitTick /\ ~PopRefresh /\ ~Run /\ ~Notify
      /\ ~RequestStop /\ ~Join /\ ~Close
  BY <1>4, AtStep
     DEF BeginNext, Submit, WaitTick, PopRefresh, Run, Notify, RequestStop, Join, Close
<1>6. ~Pop
  <2> SUFFICES ASSUME Pop PROVE FALSE
    OBVIOUS
  <2>1. Step = "pop" /\ call' = call
    BY AtStep DEF Pop
  <2>2. CASE todo' = <<"waitJob", "run">> \o todo
    <3>1. Step' = "waitJob"
      BY <2>1, <2>2, PushStep DEF IInv, Pop
    <3> QED
      BY <3>1 DEF Step
  <2>3. CASE Done
    BY <1>4, <2>1, <2>3
  <2> QED
    BY <2>2, <2>3 DEF Pop
<1>7. At("waitPriority") /\ AwaitPriority(PriorityDoneUpTo(arg))
  <2>1. ~DrainPriorityOperations
    BY <1>1, <1>4, AtStep DEF DrainPriorityOperations, AwaitPriority
  <2>2. ~(At("waitJob") /\ AwaitPriority(PriorityDoneUpTo(ops[job])))
    BY <1>1, <1>4, AtStep DEF AwaitPriority
  <2> QED
    BY <1>3, <1>5, <1>6, <2>1, <2>2 DEF OwnerStep, WaitPriorityOperations
<1>8. PriorityDoneUpTo(arg)
  BY <1>1, <1>7, Zenon DEF AwaitPriority
<1>9. Step = "waitPriority" /\ ran' = ran
  BY <1>7, AtStep DEF AwaitPriority
<1> QED
  BY <1>8, <1>9

LEMMA StepsLeaveNothing == IInv /\ IInv' /\ [Next]_vars => [NoneLeft]_vars
<1> SUFFICES ASSUME IInv, IInv', Next PROVE NoneLeft
  OBVIOUS
<1>1. ASSUME call = "unmap", ~Idle, todo' = <<>>, NEW op \in DOMAIN ops, ops[op] <= arg
      PROVE  op \in Range(ran')
  <2>1. Step = "waitPriority" /\ PriorityDoneUpTo(arg) /\ ran' = ran
    BY <1>1, UnmapEnds
  <2>2. arg \in Nat /\ ops[op] \in Nat
    BY <1>1, TakenHaveTicks DEF IInv, OwnerInv, DeviceInv, TickInv
  <2>3. op \notin Range(pending)
    BY <1>1, <2>1, <2>2 DEF IInv, UnmapInv
  <2>4. op \notin Range(priority)
    <3> SUFFICES ASSUME op \in Range(priority) PROVE FALSE
      OBVIOUS
    <3>1. priority # <<>> /\ ops[Head(priority)] > arg
      BY <2>1 DEF PriorityDoneUpTo, Range
    <3>2. ops[Head(priority)] <= ops[op] /\ ops[Head(priority)] \in Nat
      <4>1. Head(priority) \in DOMAIN ops
        BY <3>1, TailFacts DEF IInv, SeatInv
      <4> QED
        BY <3>1, <4>1, HeadIsFirst, TakenHaveTicks DEF IInv, SeatInv
    <3> QED
      BY <1>1, <2>2, <3>1, <3>2
  <2>5. op \notin Busy
    BY <1>1, <2>1, <2>2 DEF PriorityDoneUpTo, Busy, IInv, PriorityInv
  <2>6. Held = {}
    BY <2>1 DEF Held, IInv, OwnerInv
  <2> QED
    BY <2>1, <2>3, <2>4, <2>5, <2>6 DEF IInv, SeatInv
<1>2. ASSUME stop' PROVE Range(ran') = DOMAIN ops'
  <2>1. call' = "shutdown" /\ Step' \in {"notify", "join", "close", "idle"}
    BY <1>2 DEF IInv, PriorityInv
  <2>2. pending' = <<>> /\ priority' = <<>> /\ pjob' = NoOp
    BY <2>1 DEF IInv, ShutInv, PriorityDrained
  <2>3. Busy' = {} /\ Held' = {}
    BY <2>1, <2>2 DEF IInv, OwnerInv, PriorityInv, Busy, Held
  <2>4. Range(pending') = {} /\ Range(priority') = {}
    BY <2>2 DEF Range
  <2> QED
    BY <2>3, <2>4 DEF IInv, SeatInv
<1> QED
  BY <1>1, <1>2 DEF NoneLeft

(* When UnmapMemory or DownloadBufferMemory has ended the work of a tick,  *)
(* every operation deferred up to that tick has run, whichever thread it   *)
(* was given to; and when Shutdown stops the priority thread every         *)
(* operation there is has run.                                             *)
THEOREM NothingIsLeftBehind == Spec => NothingLeftBehind
<1>1. IInv /\ IInv' /\ [Next]_vars => [NoneLeft]_vars
  BY StepsLeaveNothing
<1>2. NothingLeftBehind <=> [][NoneLeft]_vars
  BY DEF NothingLeftBehind, NoneLeft
<1> QED
  BY <1>1, <1>2, IInvHolds, PTL DEF Spec

------------------------------------------------------------------------------
(* The flip queue: its inductive invariant *)

(* The fields of a port's context, of a request and of the calls. *)
PortRecords ==
  [opened : BOOLEAN, closing : BOOLEAN, generation : Nat, phase : Nat, pending : Nat, gc : Nat]
Requests ==
  [port : Ports, generation : Nat, index : Indices, eop : BOOLEAN,
   state : {"Reserved", "Recording", "Ready", "Presenting"}, frame : 0..FrameCount]
Calls(pcs) ==
  [pc : pcs, port : Ports \cup {Resting.port}, index : Indices \cup {Resting.index}, id : Nat]

FlipTypes ==
  /\ instance \in Instances
  /\ port \in [Ports -> PortRecords]
  /\ request \in [DOMAIN request -> Requests]
  /\ requests \in Seq(Nat) /\ work \in Seq(Nat) /\ device \in Seq(Nat)
  /\ reserved \in Nat
  /\ processing \in BOOLEAN
  /\ free \in Seq(Frames) /\ last \in 0..FrameCount
  /\ guest \in [Guests -> Calls({"idle", "reserve", "submit", "cancel"})]
  /\ gpu \in Calls({"idle", "get", "reserve", "slot", "wait", "prepare",
                    "current", "drop", "frame", "prepared"})
  /\ presenter \in [pc : {"flip", "due", "mark", "present", "idle", "blank", "end"}, id : Nat]
  /\ sleepers \subseteq Guests \cup {"gpu"}
  /\ exit \in {"no", "closed", "saturated"}

Queued == Range(requests) \cup cpu

(* A request is in one list. *)
ListInv ==
  /\ DOMAIN request = Live
  /\ Live \subseteq 1..reserved
  /\ IsInjective(requests)
  /\ Range(requests) \cap cpu = {} /\ Queued \cap cancelled = {}

(* What is known of a request by the list it is in and by its state. *)
StateInv ==
  /\ \A id \in cpu : request[id].state = "Reserved" /\ ~request[id].eop
  /\ \A id \in Live :
       /\ request[id].state = "Reserved" => request[id].frame = NoFrame
       /\ request[id].state \in {"Ready", "Presenting"} =>
            id \in Range(requests) /\ request[id].frame # NoFrame
       /\ request[id].generation <= port[request[id].port].generation
       /\ port[request[id].port].generation > 0

(* A port that has been opened is closing or open.  The calls are about    *)
(* such ports, and a Close about one that has just been closed.            *)
PortInv ==
  /\ \A p \in Ports : /\ port[p].generation > 0 => port[p].closing = ~port[p].opened
                      /\ port[p].generation = 0 => ~port[p].opened
                      /\ port[p].phase \in 0..Rate[p]
  /\ \A g \in Guests :
       /\ guest[g].pc \in {"reserve", "cancel"} =>
            guest[g].port \in Ports /\ port[guest[g].port].generation > 0
       /\ guest[g].pc = "reserve" => guest[g].index \in Indices
       /\ guest[g].pc = "cancel" => port[guest[g].port].closing
  /\ gpu.pc \in {"get", "reserve", "slot", "wait"} =>
       gpu.port \in Ports /\ gpu.index \in Indices /\ port[gpu.port].generation > 0

(* The bounds of the queue and of the flips that are reserved. *)
BudgetInv ==
  /\ Total <= Capacity
  /\ reserved + Cardinality(Reserving) + GpuReserving <= instance.requests

(* Each request to be completed has one completion under way. *)
CarryInv ==
  /\ IsInjective(work) /\ IsInjective(device)
  /\ \A id \in Range(work) :
       /\ id \in Live /\ request[id].state = "Reserved"
       /\ id \notin Range(device) /\ id # gpu.id /\ \A g \in Guests : guest[g].id # id
  /\ \A id \in Range(device) :
       /\ Recorded(id)
       /\ id # gpu.id /\ \A g \in Guests : guest[g].id # id
  /\ \A g \in Guests : guest[g].id # NoId <=> guest[g].pc = "submit"
  /\ \A g \in Guests : guest[g].pc = "submit" =>
       /\ guest[g].id \in Live /\ request[guest[g].id].state = "Reserved"
       /\ guest[g].id # gpu.id
       /\ \A h \in Guests : guest[h].id = guest[g].id => h = g
  /\ \A id \in Awaited :
       \/ id \in Range(work) \/ id \in Range(device) \/ id = gpu.id
       \/ \E g \in Guests : guest[g].id = id

(* How far the GPU thread is with the request it prepares. *)
GpuInv ==
  /\ gpu.id # NoId <=> gpu.pc \in {"prepare", "current", "drop", "frame", "prepared"}
  /\ gpu.pc = "prepare" => gpu.id \in Live /\ request[gpu.id].state = "Reserved"
  /\ gpu.pc \in {"current", "drop", "frame"} =>
       /\ gpu.id \in Range(requests) \cup cancelled
       /\ request[gpu.id].state = "Recording" /\ request[gpu.id].frame = NoFrame
  /\ gpu.pc = "drop" => ~Current(gpu.id)
  /\ gpu.pc = "prepared" => Recorded(gpu.id)

FrameInv == FramesExact /\ (last # NoFrame => last \in Range(free))

(* The request that is being presented stays the first of the queue, and   *)
(* its port as it is once the presenter has its lock.                      *)
PresenterInv ==
  /\ processing <=> presenter.pc \in {"due", "mark", "present"}
  /\ presenter.pc \in {"due", "mark"} => AtFront("Ready")
  /\ presenter.pc = "present" => AtFront("Presenting")
  /\ presenter.pc \in {"mark", "present"} => Current(presenter.id)
  /\ \A id \in Live : request[id].state = "Presenting" =>
       presenter.pc = "present" /\ presenter.id = id

(* The end-of-pipe flips of a port. *)
EopOf(p) == {id \in OfPort(p) : request[id].eop}

StatusInv ==
  /\ \A p \in Ports : {port[p].pending, port[p].gc} \subseteq 0..Capacity
  /\ \A p \in {q \in Ports : Usable(q)} :
       /\ port[p].gc = Cardinality(EopOf(p))
       /\ port[p].pending >= Cardinality(OfPort(p))
       /\ (\A q \in Ports \ {p} : port[q].generation = 0) => port[p].pending = Total

FlipIInv ==
  /\ FlipTypes /\ ListInv /\ StateInv /\ PortInv /\ BudgetInv /\ CarryInv
  /\ GpuInv /\ FrameInv /\ PresenterInv /\ ClosedPortsEmpty /\ StatusInv

------------------------------------------------------------------------------
(* The queues of the model *)

Smaller == {p \in Nat \X Nat : p[1] < p[2]}

(* A set of numbers has a least member. *)
LEMMA Least ==
  ASSUME NEW T \in SUBSET Nat, T # {}
  PROVE  \E x \in T : \A y \in T : x <= y
<1>1. OpToRel(<, Nat) = Smaller
  BY DEF OpToRel, Smaller
<1>2. IsWellFoundedOn(Smaller, Nat)
  BY <1>1, NatLessThanWellFounded
<1>3. PICK x \in T : \A y \in T : <<y, x>> \notin Smaller
  BY <1>2, WFMin
<1>4. ASSUME NEW y \in T PROVE x <= y
  <2>1. <<y, x>> \in Nat \X Nat /\ <<y, x>> \notin Smaller
    BY <1>3
  <2> QED
    BY <2>1 DEF Smaller
<1> QED
  BY <1>4

Enumerates(at, P) ==
  /\ at \in [1..Cardinality(P) -> P]
  /\ \A i, j \in 1..Cardinality(P) : i < j => at[i] < at[j]

(* Every finite set of numbers has an increasing enumeration: a least      *)
(* bound under which one had none would be the largest member of that set, *)
(* and come last in an enumeration of it.                                  *)
LEMMA EnumerationExists ==
  ASSUME NEW n \in Nat, NEW P \in SUBSET (1..n)
  PROVE  \E at : Enumerates(at, P)
<1> DEFINE T == {m \in Nat : \E Q \in SUBSET (1..m) : ~ \E at : Enumerates(at, Q)}
<1>1. SUFFICES ASSUME T # {} PROVE FALSE
  OBVIOUS
<1>2. PICK m \in T : \A k \in T : m <= k
  <2>1. T \in SUBSET Nat
    OBVIOUS
  <2> HIDE DEF T
  <2> QED
    BY <1>1, <2>1, Least
<1>3. m \in Nat
  OBVIOUS
<1>4. PICK Q \in SUBSET (1..m) : ~ \E at : Enumerates(at, Q)
  OBVIOUS
<1>5. Q # {}
  <2>1. SUFFICES ASSUME Q = {} PROVE FALSE
    OBVIOUS
  <2>2. Cardinality(Q) = 0
    BY <2>1, FS_EmptySet
  <2>3. Enumerates([i \in 1..0 |-> 0], Q)
    BY <2>1, <2>2 DEF Enumerates
  <2> QED
    BY <1>4, <2>3
<1>6. m # 0
  <2>1. m = 0 => 1..m = {}
    BY <1>3
  <2>2. Q \in SUBSET (1..m)
    BY <1>4
  <2> QED
    BY <1>5, <2>1, <2>2
<1>7. m - 1 \in Nat /\ m - 1 \notin T
  BY <1>2, <1>3, <1>6
<1> DEFINE R == Q \ {m}
<1>8. R \in SUBSET (1..(m - 1))
  BY <1>3
<1>9. PICK f : Enumerates(f, R)
  BY <1>7, <1>8
<1>10. m \in Q
  <2>1. SUFFICES ASSUME m \notin Q PROVE FALSE
    OBVIOUS
  <2>2. R = Q
    BY <2>1
  <2> QED
    BY <1>4, <1>9, <2>2
<1>11. IsFiniteSet(R) /\ Cardinality(R) \in Nat
  <2>1. IsFiniteSet(1..(m - 1))
    BY <1>7, FS_Interval
  <2> HIDE DEF R
  <2>2. IsFiniteSet(R)
    BY <1>8, <2>1, FS_Subset
  <2> QED
    BY <2>2, FS_CardinalityType
<1> DEFINE c == Cardinality(R)
<1>12. Cardinality(Q) = c + 1
  <2>1. Q = R \cup {m} /\ m \notin R
    BY <1>10
  <2> HIDE DEF R
  <2> QED
    BY <1>11, <2>1, FS_AddElement
<1> DEFINE at == [i \in 1..(c + 1) |-> IF i = c + 1 THEN m ELSE f[i]]
<1>13. f \in [1..c -> R] /\ \A i, j \in 1..c : i < j => f[i] < f[j]
  BY <1>9 DEF Enumerates
<1>14. \A i \in 1..c : f[i] \in Q /\ f[i] < m
  <2>1. \A x \in R : x \in Q /\ x < m
    BY <1>3, <1>4
  <2> HIDE DEF R
  <2> QED
    BY <1>13, <2>1
<1> HIDE DEF R, T
<1>15. Enumerates(at, Q)
  <2>1. c \in Nat
    BY <1>11
  <2> HIDE DEF c
  <2>2. at \in [1..(c + 1) -> Q]
    BY <1>10, <1>14, <2>1
  <2>3. ASSUME NEW i \in 1..(c + 1), NEW j \in 1..(c + 1), i < j
        PROVE  at[i] < at[j]
    BY <1>13, <1>14, <2>1, <2>3
  <2> QED
    BY <1>12, <2>2, <2>3 DEF Enumerates
<1> QED
  BY <1>4, <1>15

(* An increasing enumeration is one-to-one, and misses no member. *)
LEMMA IncreasingFacts ==
  ASSUME NEW n \in Nat, NEW P \in SUBSET (1..n)
  PROVE  /\ Cardinality(P) \in Nat
         /\ Increasing(P) \in [1..Cardinality(P) -> P]
         /\ \A i, j \in 1..Cardinality(P) : i < j => Increasing(P)[i] < Increasing(P)[j]
         /\ IsInjective(Increasing(P))
         /\ Range(Increasing(P)) = P
<1> DEFINE c == Cardinality(P)
           at == Increasing(P)
<1>1. IsFiniteSet(P) /\ c \in Nat
  <2>1. IsFiniteSet(1..n)
    BY FS_Interval
  <2>2. IsFiniteSet(P)
    BY <2>1, FS_Subset
  <2> QED
    BY <2>2, FS_CardinalityType
<1>2. at \in [1..c -> P] /\ \A i, j \in 1..c : i < j => at[i] < at[j]
  BY EnumerationExists DEF Enumerates, Increasing
<1> HIDE DEF at
<1>3. IsInjective(at)
  <2> SUFFICES ASSUME NEW i \in 1..c, NEW j \in 1..c, at[i] = at[j] PROVE i = j
    BY <1>2 DEF IsInjective
  <2>1. at[i] \in Nat /\ at[j] \in Nat
    <3>1. at[i] \in P /\ at[j] \in P
      BY <1>2
    <3>2. P \subseteq Nat
      OBVIOUS
    <3> QED
      BY <3>1, <3>2
  <2>2. ~(i < j) /\ ~(j < i)
    BY <1>2, <2>1
  <2> QED
    BY <1>1, <2>2
<1>4. at \in Injection(1..c, P)
  BY <1>2, <1>3 DEF Injection
<1>5. Cardinality(1..c) = Cardinality(P)
  BY <1>1, FS_Interval
<1>6. at \in Surjection(1..c, P)
  BY <1>1, <1>4, <1>5, FS_Injection
<1>7. Range(at) = P
  BY <1>2, <1>6 DEF Surjection, Range
<1> QED
  BY <1>1, <1>2, <1>3, <1>7 DEF at

(* Keep keeps the members of S, each as often as it was there, and with    *)
(* the first of the queue its place.                                       *)
LEMMA KeepFacts ==
  ASSUME NEW T, NEW q \in Seq(T), NEW S
  PROVE  /\ Keep(q, S) \in Seq(T)
         /\ Range(Keep(q, S)) = Range(q) \cap S
         /\ IsInjective(q) => IsInjective(Keep(q, S))
         /\ q # <<>> /\ Head(q) \in S => Keep(q, S) # <<>> /\ Head(Keep(q, S)) = Head(q)
<1> DEFINE P == {i \in DOMAIN q : q[i] \in S}
           at == Increasing(P)
           c == Cardinality(P)
           k == Keep(q, S)
<1>1. Len(q) \in Nat /\ DOMAIN q = 1..Len(q) /\ \A i \in DOMAIN q : q[i] \in T
  BY LenProperties, ElementOfSeq
<1>2. P \in SUBSET (1..Len(q))
  BY <1>1
<1>3. k = [i \in DOMAIN at |-> q[at[i]]]
  BY DEF Keep
<1> HIDE DEF k, P
<1>4. /\ c \in Nat /\ at \in [1..c -> P]
      /\ \A i, j \in 1..c : i < j => at[i] < at[j]
      /\ IsInjective(at) /\ Range(at) = P
  BY <1>1, <1>2, IncreasingFacts
<1> HIDE DEF at, c
<1>5. k = [i \in 1..c |-> q[at[i]]] /\ DOMAIN k = 1..c
  BY <1>3, <1>4
<1>6. k \in Seq(T)
  <2>1. \A i \in 1..c : q[at[i]] \in T
    BY <1>1, <1>4 DEF P
  <2> QED
    BY <1>4, <1>5, <2>1, IsASeq
<1>7. Range(k) = Range(q) \cap S
  <2>1. \A i \in 1..c : q[at[i]] \in Range(q) \cap S
    BY <1>4 DEF P, Range
  <2>2. ASSUME NEW x \in Range(q) \cap S PROVE \E i \in 1..c : q[at[i]] = x
    <3>1. PICK j \in DOMAIN q : q[j] = x
      BY DEF Range
    <3>2. j \in Range(at)
      BY <1>4, <3>1 DEF P
    <3> QED
      BY <1>4, <3>1, <3>2 DEF Range
  <2> QED
    BY <1>5, <2>1, <2>2 DEF Range
<1>8. IsInjective(q) => IsInjective(k)
  BY <1>4, <1>5 DEF IsInjective, P
<1>9. ASSUME q # <<>>, Head(q) \in S PROVE k # <<>> /\ Head(k) = Head(q)
  <2>1. Len(q) > 0 /\ Head(q) = q[1]
    BY <1>9, <1>1, EmptySeq
  <2>2. 1 \in Range(at)
    BY <1>1, <1>4, <1>9, <2>1 DEF P
  <2>3. PICK j \in 1..c : at[j] = 1
    BY <1>4, <2>2 DEF Range
  <2>4. c > 0 /\ 1 \in 1..c /\ at[1] \in 1..Len(q)
    <3>1. c > 0 /\ 1 \in 1..c
      BY <1>4, <2>3
    <3>2. at[1] \in P
      BY <1>4, <3>1
    <3> QED
      BY <1>2, <3>1, <3>2
  <2>5. at[1] = 1
    <3>1. j > 1 => at[1] < 1
      BY <1>4, <2>3, <2>4
    <3> QED
      BY <1>1, <1>4, <2>3, <2>4, <3>1
  <2>6. Len(k) = c
    BY <1>4, <1>5, <1>6, LenProperties
  <2> QED
    BY <1>5, <1>6, <2>1, <2>4, <2>5, <2>6, EmptySeq
<1> QED
  BY <1>6, <1>7, <1>8, <1>9 DEF k

(* The length of a queue whose members are distinct. *)
LEMMA LengthIsNumber ==
  ASSUME NEW T, NEW q \in Seq(T), IsInjective(q)
  PROVE  /\ IsFiniteSet(Range(q))
         /\ Len(q) = Cardinality(Range(q))
         /\ Len(q) \in Nat
<1>1. Len(q) \in Nat /\ q \in [1..Len(q) -> T] /\ DOMAIN q = 1..Len(q)
  BY LenProperties
<1>2. q \in Bijection(1..Len(q), Range(q))
  BY <1>1 DEF Bijection, Injection, Surjection, Range
<1>3. IsFiniteSet(1..Len(q)) /\ Cardinality(1..Len(q)) = Len(q)
  BY <1>1, FS_Interval
<1>4. ExistsBijection(1..Len(q), Range(q))
  BY <1>2 DEF ExistsBijection
<1> QED
  BY <1>1, <1>3, <1>4, FS_Bijection

(* Two queues in a row. *)
LEMMA ConcatFacts ==
  ASSUME NEW T, NEW q \in Seq(T), NEW r \in Seq(T)
  PROVE  /\ q \o r \in Seq(T)
         /\ Range(q \o r) = Range(q) \cup Range(r)
         /\ IsInjective(q) /\ IsInjective(r) /\ Range(q) \cap Range(r) = {} => IsInjective(q \o r)
<1> DEFINE b == q \o r
<1>1. /\ b \in Seq(T) /\ Len(b) = Len(q) + Len(r)
      /\ \A i \in 1..(Len(q) + Len(r)) : b[i] = IF i <= Len(q) THEN q[i] ELSE r[i - Len(q)]
      /\ Len(q) \in Nat /\ Len(r) \in Nat
  BY ConcatProperties, LenProperties
<1>2. /\ DOMAIN q = 1..Len(q) /\ DOMAIN r = 1..Len(r) /\ DOMAIN b = 1..(Len(q) + Len(r))
  BY <1>1, LenProperties
<1> HIDE DEF b
<1>3. \A i \in 1..Len(q) : i \in DOMAIN b /\ b[i] = q[i]
  BY <1>1, <1>2
<1>4. \A i \in 1..Len(r) : i + Len(q) \in DOMAIN b /\ b[i + Len(q)] = r[i]
  BY <1>1, <1>2
<1>5. \A i \in DOMAIN b : \/ i \in DOMAIN q /\ b[i] = q[i]
                          \/ i - Len(q) \in DOMAIN r /\ b[i] = r[i - Len(q)]
  BY <1>1, <1>2
<1>6. Range(b) = Range(q) \cup Range(r)
  <2>1. Range(b) \subseteq Range(q) \cup Range(r)
    BY <1>5 DEF Range
  <2>2. Range(q) \subseteq Range(b)
    BY <1>2, <1>3 DEF Range
  <2>3. Range(r) \subseteq Range(b)
    BY <1>2, <1>4 DEF Range
  <2> QED
    BY <2>1, <2>2, <2>3
<1>7. ASSUME IsInjective(q), IsInjective(r), Range(q) \cap Range(r) = {}
      PROVE  IsInjective(b)
  <2> SUFFICES ASSUME NEW i \in DOMAIN b, NEW j \in DOMAIN b, b[i] = b[j] PROVE i = j
    BY DEF IsInjective
  <2>1. (i \in DOMAIN q /\ b[i] = q[i]) \/ (i - Len(q) \in DOMAIN r /\ b[i] = r[i - Len(q)])
    BY <1>5
  <2>2. (j \in DOMAIN q /\ b[j] = q[j]) \/ (j - Len(q) \in DOMAIN r /\ b[j] = r[j - Len(q)])
    BY <1>5
  <2>3. \A x \in DOMAIN q : \A y \in DOMAIN r : q[x] # r[y]
    BY <1>7 DEF Range
  <2> QED
    BY <1>1, <1>2, <1>7, <2>1, <2>2, <2>3 DEF IsInjective
<1> QED
  BY <1>1, <1>6, <1>7 DEF b

------------------------------------------------------------------------------
(* What a step leaves as it was *)

SamePorts == \A p \in Ports :
  /\ port'[p].opened <=> port[p].opened
  /\ port'[p].closing <=> port[p].closing
  /\ port'[p].generation = port[p].generation

SameStatus == \A p \in Ports :
  port'[p].pending = port[p].pending /\ port'[p].gc = port[p].gc

(* No request is new, and none changes whose it is. *)
SameRequests == \A id \in Live' :
  /\ id \in Live
  /\ request'[id].port = request[id].port
  /\ request'[id].generation = request[id].generation
  /\ request'[id].eop <=> request[id].eop

SameCancels == \A g \in Guests :
  guest[g].pc = "cancel" => guest'[g].pc = "cancel" /\ guest'[g].port = guest[g].port

(* A request to be completed stays one, and does not come back.            *)
AwaitedStay(done) == \A id \in Awaited \ done :
  /\ id \in Live' /\ request'[id] = request[id]
  /\ id \in Range(requests) \cup cancelled => id \in Range(requests') \cup cancelled'
  /\ id \in Range(requests') => id \in Range(requests)

(* The frames in use stay with their requests. *)
SameFrames ==
  /\ \A id \in Live : request[id].frame # NoFrame =>
       id \in Live' /\ request'[id].frame = request[id].frame
  /\ \A id \in Live' : request'[id].frame # NoFrame =>
       id \in Live /\ request[id].frame # NoFrame

(* The request the presenter has taken is as it was. *)
SameFront == presenter.pc \in {"due", "mark", "present"} =>
  /\ requests' # <<>> /\ Head(requests') = Head(requests)
  /\ request'[presenter.id] = request[presenter.id]

LEMMA Parts ==
  FlipIInv => /\ FlipTypes /\ ListInv /\ StateInv /\ PortInv /\ BudgetInv /\ CarryInv
              /\ GpuInv /\ FrameInv /\ PresenterInv /\ ClosedPortsEmpty /\ StatusInv
BY DEF FlipIInv

(* What is in the lists, and in the record of a request. *)
LEMMA RequestFacts ==
  ASSUME FlipTypes, ListInv
  PROVE  \A id \in Live :
           /\ id \in Nat /\ id # NoId /\ id \in DOMAIN request
           /\ request[id] \in Requests
           /\ request[id].port \in Ports /\ request[id].generation \in Nat
           /\ request[id].frame \in 0..FrameCount
           /\ request[id].eop \in BOOLEAN
           /\ request[id].state \in {"Reserved", "Recording", "Ready", "Presenting"}
<1> TAKE id \in Live
<1>1. id \in Nat /\ id # 0 /\ id \in DOMAIN request
  BY DEF ListInv, FlipTypes
<1>2. request[id] \in Requests
  BY <1>1 DEF FlipTypes
<1> QED
  BY <1>1, <1>2 DEF Requests, NoId

LEMMA PortFacts ==
  ASSUME FlipTypes, NEW p \in Ports
  PROVE  /\ port[p] \in PortRecords
         /\ port[p].opened \in BOOLEAN /\ port[p].closing \in BOOLEAN
         /\ port[p].generation \in Nat /\ port[p].phase \in Nat
         /\ port[p].pending \in Nat /\ port[p].gc \in Nat
<1>1. port[p] \in PortRecords
  BY DEF FlipTypes
<1> QED
  BY <1>1 DEF PortRecords

LEMMA LiveStays ==
  ASSUME UNCHANGED <<requests, cpu, cancelled>>
  PROVE  Live' = Live /\ Queued' = Queued /\ Total' = Total
BY DEF Live, Queued, Total

LEMMA ListStays ==
  ASSUME ListInv, UNCHANGED <<requests, cpu, cancelled, reserved>>, DOMAIN request' = DOMAIN request
  PROVE  ListInv'
BY LiveStays DEF ListInv

LEMMA CurrentStays ==
  ASSUME FlipTypes, ListInv, SamePorts, NEW id \in Live, request'[id].port = request[id].port,
         request'[id].generation = request[id].generation
  PROVE  Current(id)' <=> Current(id)
<1>1. request[id].port \in Ports
  BY RequestFacts
<1> QED
  BY <1>1 DEF Current, Usable, SamePorts

LEMMA StateStays ==
  ASSUME FlipTypes, ListInv, StateInv, UNCHANGED <<request, requests, cpu, cancelled>>,
         \A p \in Ports : port'[p].generation \in Nat /\ port'[p].generation >= port[p].generation
  PROVE  StateInv'
<1>1. Live' = Live
  BY LiveStays
<1>2. \A id \in Live : /\ request[id].port \in Ports /\ request[id].generation \in Nat
                       /\ port[request[id].port].generation \in Nat
  BY RequestFacts, PortFacts
<1> QED
  BY <1>1, <1>2 DEF StateInv

LEMMA GpuStays ==
  ASSUME NEW done, CarryInv, GpuInv, FlipTypes, ListInv, AwaitedStay(done), gpu.id \notin done,
         UNCHANGED gpu, gpu.pc = "drop" => ~Current(gpu.id)'
  PROVE  GpuInv'
<1>1. gpu.id # NoId => gpu.id \in Awaited
  BY DEF GpuInv, Recorded, Awaited, ToComplete, Live
<1>2. gpu.id # NoId =>
        /\ gpu.id \in Live' /\ request'[gpu.id] = request[gpu.id]
        /\ gpu.id \in Range(requests) \cup cancelled => gpu.id \in Range(requests') \cup cancelled'
        /\ gpu.id \in Range(requests') => gpu.id \in Range(requests)
  BY <1>1 DEF AwaitedStay
<1> QED
  BY <1>2 DEF GpuInv, Recorded

(* The preparations under way stay, but for one that may have ended. *)
LEMMA CarryStays ==
  ASSUME NEW done, CarryInv, FlipTypes, ListInv, AwaitedStay(done), Awaited' \subseteq Awaited,
         \A g \in Guests : guest[g].id \notin done,
         (Range(work) \cup Range(device')) \cap done = {},
         work' = work, IsInjective(device'), Range(device') \subseteq Range(device),
         gpu'.id \in {gpu.id, NoId},
         \A id \in Range(device) \cup {gpu.id} :
           id \in Range(device') \/ id = gpu'.id \/ id \notin Awaited',
         \A g \in Guests : /\ guest'[g].id = guest[g].id
                           /\ guest'[g].pc = "submit" <=> guest[g].pc = "submit"
  PROVE  CarryInv'
<1>0. \A id \in Range(work) \cup Range(device) : id \in Awaited /\ id # NoId
  BY RequestFacts DEF CarryInv, Recorded, Awaited, ToComplete, Live
<1>1. \A id \in Range(work) : id \in Live' /\ request'[id] = request[id]
  BY <1>0 DEF AwaitedStay
<1>2. \A id \in Range(device') : Recorded(id)'
  <2> TAKE id \in Range(device')
  <2>1. Recorded(id) /\ id \in Awaited \ done
    BY <1>0 DEF CarryInv
  <2> QED
    BY <2>1 DEF AwaitedStay, Recorded
<1>3. \A g \in Guests : guest[g].pc = "submit" =>
        /\ guest[g].id \in Live' /\ request'[guest[g].id] = request[guest[g].id]
        /\ guest[g].id # gpu'.id
  BY DEF CarryInv, AwaitedStay, Awaited, ToComplete
<1>4. IsInjective(work') /\ IsInjective(device')
  BY DEF CarryInv
<1>5. \A id \in Range(work') :
        /\ id \in Live' /\ request'[id].state = "Reserved"
        /\ id \notin Range(device') /\ id # gpu'.id /\ \A g \in Guests : guest'[g].id # id
  BY <1>0, <1>1 DEF CarryInv
<1>6. \A id \in Range(device') :
        /\ Recorded(id)'
        /\ id # gpu'.id /\ \A g \in Guests : guest'[g].id # id
  BY <1>0, <1>2 DEF CarryInv
<1>7. \A g \in Guests : guest'[g].id # NoId <=> guest'[g].pc = "submit"
  BY DEF CarryInv
<1>8. \A g \in Guests : guest'[g].pc = "submit" =>
       /\ guest'[g].id \in Live' /\ request'[guest'[g].id].state = "Reserved"
       /\ guest'[g].id # gpu'.id
       /\ \A h \in Guests : guest'[h].id = guest'[g].id => h = g
  BY <1>3 DEF CarryInv
<1>9. \A id \in Awaited' :
       \/ id \in Range(work') \/ id \in Range(device') \/ id = gpu'.id
       \/ \E g \in Guests : guest'[g].id = id
  BY DEF CarryInv
<1> QED
  BY <1>4, <1>5, <1>6, <1>7, <1>8, <1>9 DEF CarryInv

LEMMA CarryKept ==
  ASSUME NEW done, CarryInv, FlipTypes, ListInv, AwaitedStay(done), Awaited' \subseteq Awaited,
         \A g \in Guests : guest[g].id \notin done,
         (Range(work) \cup Range(device)) \cap done = {},
         UNCHANGED <<work, device>>, gpu'.id = gpu.id,
         \A g \in Guests : /\ guest'[g].id = guest[g].id
                           /\ guest'[g].pc = "submit" <=> guest[g].pc = "submit"
  PROVE  CarryInv'
<1>1. IsInjective(device') /\ Range(device') = Range(device)
  BY DEF CarryInv
<1> QED
  BY <1>1, CarryStays

LEMMA FrameStays ==
  ASSUME FrameInv, UNCHANGED <<free, last>>, SameFrames
  PROVE  FrameInv'
<1> DEFINE used == {id \in Live : request[id].frame # NoFrame}
           used2 == {id \in Live' : request'[id].frame # NoFrame}
<1>1. used2 = used /\ \A id \in used : request'[id].frame = request[id].frame
  BY DEF SameFrames
<1>2. /\ IsInjective(free)
      /\ \A id \in used : request[id].frame \notin Range(free)
      /\ \A id, other \in used : request[id].frame = request[other].frame => id = other
      /\ Range(free) \cup {request[id].frame : id \in used} = Frames
  BY DEF FrameInv, FramesExact
<1>3. {request'[id].frame : id \in used2} = {request[id].frame : id \in used}
  BY <1>1
<1>4. /\ IsInjective(free')
      /\ \A id \in used2 : request'[id].frame \notin Range(free')
      /\ \A id, other \in used2 : request'[id].frame = request'[other].frame => id = other
      /\ Range(free') \cup {request'[id].frame : id \in used2} = Frames
  <2> HIDE DEF used, used2
  <2> QED
    BY <1>1, <1>2, <1>3
<1>5. FramesExact'
  BY <1>4 DEF FramesExact, Frames, NoFrame
<1> QED
  BY <1>5 DEF FrameInv, NoFrame

LEMMA PresenterStays ==
  ASSUME PresenterInv, UNCHANGED <<processing, presenter>>, SameFront,
         presenter.pc \in {"mark", "present"} => Current(presenter.id)',
         \A id \in Live' : request'[id].state = "Presenting" =>
           id \in Live /\ request[id].state = "Presenting"
  PROVE  PresenterInv'
BY DEF PresenterInv, SameFront, AtFront

LEMMA ClosedStays ==
  ASSUME FlipTypes, ListInv, ClosedPortsEmpty, SamePorts, SameRequests, SameCancels,
         Queued' \subseteq Queued
  PROVE  ClosedPortsEmpty'
<1> SUFFICES ASSUME NEW p \in Ports, NEW id \in OfPort(p)'
             PROVE  \/ Current(id)'
                    \/ \E g \in Guests : guest'[g].pc = "cancel" /\ guest'[g].port = p
  BY DEF ClosedPortsEmpty
<1>1. id \in Queued' /\ request'[id].port = p
  BY DEF OfPort, Queued
<1>2. id \in Live' /\ id \in Queued
  BY <1>1 DEF Live, Queued
<1>3. /\ id \in Live /\ request'[id].port = request[id].port
      /\ request'[id].generation = request[id].generation
  BY <1>2 DEF SameRequests
<1>4. id \in OfPort(p)
  BY <1>1, <1>2, <1>3 DEF OfPort, Queued
<1>5. CASE Current(id)
  BY <1>3, <1>5, CurrentStays
<1>6. CASE \E g \in Guests : guest[g].pc = "cancel" /\ guest[g].port = p
  BY <1>6 DEF SameCancels
<1> QED
  BY <1>4, <1>5, <1>6 DEF ClosedPortsEmpty

LEMMA StatusStays ==
  ASSUME StatusInv, SamePorts, SameStatus, SameRequests, Queued' = Queued, Total' = Total
  PROVE  StatusInv'
<1>1. Queued \subseteq Live'
  BY DEF Queued, Live
<1>2. \A p \in Ports : OfPort(p)' = OfPort(p) /\ EopOf(p)' = EopOf(p)
  BY <1>1 DEF OfPort, EopOf, Queued, SameRequests
<1>3. \A p \in Ports : Usable(p)' <=> Usable(p)
  BY DEF Usable, SamePorts
<1> QED
  BY <1>2, <1>3 DEF StatusInv, SamePorts, SameStatus

------------------------------------------------------------------------------
(* The steps that leave the queue, the ports and the pool alone *)

LEMMA QuietStep ==
  ASSUME FlipIInv,
         UNCHANGED <<port, request, requests, cpu, cancelled, reserved, free, last, instance>>
  PROVE  /\ ListInv' /\ StateInv' /\ FrameInv' /\ StatusInv'
         /\ Live' = Live /\ Total' = Total /\ Awaited' = Awaited /\ AwaitedStay({})
         /\ \A id : Current(id)' <=> Current(id)
         /\ \A id : Recorded(id)' <=> Recorded(id)
         /\ UNCHANGED <<presenter, processing>> => PresenterInv'
         /\ SameCancels => ClosedPortsEmpty'
         /\ UNCHANGED gpu => GpuInv'
         /\ UNCHANGED <<guest, gpu>> => PortInv' /\ BudgetInv'
         /\ UNCHANGED <<guest, gpu, work, device>> => CarryInv'
<1>1. /\ FlipTypes /\ ListInv /\ StateInv /\ PortInv /\ BudgetInv /\ CarryInv
      /\ GpuInv /\ FrameInv /\ PresenterInv /\ ClosedPortsEmpty /\ StatusInv
  BY Parts
<1>2. Live' = Live /\ Total' = Total /\ Queued' = Queued
  BY LiveStays
<1>3. Awaited' = Awaited /\ AwaitedStay({})
  BY <1>2 DEF Awaited, ToComplete, AwaitedStay
<1>4. \A id : Current(id)' <=> Current(id)
  BY DEF Current, Usable
<1>5. \A id : Recorded(id)' <=> Recorded(id)
  BY DEF Recorded
<1>6. ListInv'
  BY <1>1, ListStays
<1>7. StateInv'
  <2>1. \A p \in Ports : port'[p].generation \in Nat /\ port'[p].generation >= port[p].generation
    BY <1>1, PortFacts
  <2> QED
    BY <1>1, <2>1, StateStays
<1>8. FrameInv'
  <2>1. SameFrames
    BY <1>2 DEF SameFrames
  <2> QED
    BY <1>1, <2>1, FrameStays
<1>9. SamePorts /\ SameStatus /\ SameRequests
  BY <1>2 DEF SamePorts, SameStatus, SameRequests
<1>10. StatusInv'
  BY <1>1, <1>2, <1>9, StatusStays
<1>11. UNCHANGED <<presenter, processing>> => PresenterInv'
  BY <1>1, <1>2, <1>4 DEF PresenterInv, AtFront
<1>12. SameCancels => ClosedPortsEmpty'
  BY <1>1, <1>2, <1>9, ClosedStays
<1>13. UNCHANGED gpu => GpuInv'
  BY <1>1, <1>2, <1>4, <1>5 DEF GpuInv
<1>14. UNCHANGED <<guest, gpu>> => PortInv' /\ BudgetInv'
  BY <1>1, <1>2 DEF PortInv, BudgetInv, Reserving, GpuReserving
<1>15. UNCHANGED <<guest, gpu, work, device>> => CarryInv'
  BY <1>1, <1>2, <1>3, <1>5 DEF CarryInv
<1> QED
  BY <1>2, <1>3, <1>4, <1>5, <1>6, <1>7, <1>8, <1>10, <1>11, <1>12, <1>13, <1>14, <1>15

LEMMA GuestFacts ==
  ASSUME FlipTypes, NEW g \in Guests
  PROVE  /\ guest[g] \in Calls({"idle", "reserve", "submit", "cancel"})
         /\ guest[g].id \in Nat /\ guest[g].port \in Ports \cup {Resting.port}
         /\ guest[g].index \in Indices \cup {Resting.index}
         /\ guest[g].pc \in {"idle", "reserve", "submit", "cancel"}
<1>1. guest[g] \in Calls({"idle", "reserve", "submit", "cancel"})
  BY DEF FlipTypes
<1> QED
  BY <1>1 DEF Calls

LEMMA GpuFacts ==
  ASSUME FlipTypes
  PROVE  /\ gpu.id \in Nat /\ gpu.port \in Ports \cup {Resting.port}
         /\ gpu.index \in Indices \cup {Resting.index}
         /\ gpu = [pc |-> gpu.pc, port |-> gpu.port, index |-> gpu.index, id |-> gpu.id]
BY DEF FlipTypes, Calls

(* How many may still reserve. *)
LEMMA ReservingFacts ==
  ASSUME FlipTypes
  PROVE  /\ IsFiniteSet(Reserving) /\ Cardinality(Reserving) \in Nat
         /\ GpuReserving \in {0, 1} /\ reserved \in Nat /\ instance.requests \in Nat
<1>1. IsFiniteSet(Guests)
  BY FlipQueueAssumption DEF FlipQueueAssumption
<1>2. Reserving \in SUBSET Guests
  BY DEF Reserving
<1>3. IsFiniteSet(Reserving)
  BY <1>1, <1>2, FS_Subset
<1>4. instance.requests \in Nat
  BY FlipQueueAssumption DEF FlipTypes, FlipQueueAssumption
<1> QED
  BY <1>3, <1>4, FS_CardinalityType DEF GpuReserving, FlipTypes

LEMMA ExitStep ==
  ASSUME FlipIInv, NEW why \in {"closed", "saturated"}, Exit(why)
  PROVE  FlipIInv'
<1>1. /\ FlipTypes
      /\ UNCHANGED <<port, request, requests, cpu, cancelled, processing, reserved, work, device,
                     free, last, guest, gpu, presenter, sleepers, instance>>
      /\ exit' = why
  BY Parts DEF Exit, lists, submissions, pool, threads
<1>2. FlipTypes'
  BY <1>1 DEF FlipTypes
<1>3. SameCancels
  BY <1>1 DEF SameCancels
<1> QED
  BY <1>1, <1>2, <1>3, QuietStep DEF FlipIInv

LEMMA SubmitFlipStep ==
  ASSUME FlipIInv, NEW g \in Guests, NEW p \in Ports, NEW i \in Indices, SubmitFlip(g, p, i)
  PROVE  FlipIInv'
<1> DEFINE made == [pc |-> "reserve", port |-> p, index |-> i, id |-> NoId]
<1>1. /\ FlipTypes /\ ListInv /\ StateInv /\ PortInv /\ BudgetInv /\ CarryInv
      /\ GpuInv /\ FrameInv /\ PresenterInv /\ ClosedPortsEmpty /\ StatusInv
  BY Parts
<1>2. UNCHANGED <<port, request, requests, cpu, cancelled, processing, reserved, work, device,
                  free, last, gpu, presenter, sleepers, exit, instance>>
  BY DEF SubmitFlip, lists, submissions, pool, ending
<1>3. /\ guest[g] = Resting /\ port[p].opened /\ Reservable
      /\ guest' = [guest EXCEPT ![g] = made]
  BY DEF SubmitFlip, MayCall, Call, Calling
<1>4. guest[g].pc = "idle" /\ guest[g].id = NoId
  BY <1>3 DEF Resting, Calling
<1>5. \A h \in Guests : guest'[h] = IF h = g THEN made ELSE guest[h]
  BY <1>1, <1>3 DEF FlipTypes
<1>6. FlipTypes'
  <2>1. made \in Calls({"idle", "reserve", "submit", "cancel"})
    BY DEF Calls, NoId
  <2>2. guest' \in [Guests -> Calls({"idle", "reserve", "submit", "cancel"})]
    BY <1>1, <1>3, <2>1 DEF FlipTypes
  <2> QED
    BY <1>1, <1>2, <2>2 DEF FlipTypes
<1>7. PortInv'
  <2>1. port[p].generation > 0
    BY <1>1, <1>3, PortFacts DEF PortInv
  <2> QED
    BY <1>1, <1>2, <1>5, <2>1 DEF PortInv
<1>8. BudgetInv'
  <2>1. Reserving' = Reserving \cup {g} /\ g \notin Reserving
    BY <1>4, <1>5 DEF Reserving
  <2>2. Cardinality(Reserving') = Cardinality(Reserving) + 1
    BY <1>1, <2>1, ReservingFacts, FS_AddElement
  <2>3. GpuReserving' = GpuReserving /\ Total' = Total
    BY <1>2 DEF GpuReserving, Total
  <2> QED
    BY <1>1, <1>2, <1>3, <2>2, <2>3, ReservingFacts DEF BudgetInv, Reservable
<1>9. SameCancels
  BY <1>4, <1>5 DEF SameCancels
<1>10. CarryInv'
  <2>1. \A h \in Guests : /\ guest'[h].id = guest[h].id
                          /\ guest'[h].pc = "submit" <=> guest[h].pc = "submit"
    BY <1>4, <1>5
  <2>2. Awaited' = Awaited /\ AwaitedStay({})
    BY <1>2, QuietStep
  <2> QED
    BY <1>1, <1>2, <2>1, <2>2, CarryKept
<1> QED
  BY <1>2, <1>6, <1>7, <1>8, <1>9, <1>10, QuietStep DEF FlipIInv

LEMMA SubmitPreparationStep ==
  ASSUME FlipIInv, NEW g \in Guests, SubmitPreparation(g)
  PROVE  FlipIInv'
<1> DEFINE id == guest[g].id
<1>1. /\ FlipTypes /\ ListInv /\ StateInv /\ PortInv /\ BudgetInv /\ CarryInv
      /\ GpuInv /\ FrameInv /\ PresenterInv /\ ClosedPortsEmpty /\ StatusInv
  BY Parts
<1>2. UNCHANGED <<port, request, requests, cpu, cancelled, processing, reserved, device,
                  free, last, gpu, presenter, sleepers, exit, instance>>
  BY DEF SubmitPreparation, lists, pool, ending
<1>3. /\ guest[g].pc = "submit" /\ work' = Append(work, id)
      /\ guest' = [guest EXCEPT ![g] = Resting]
  BY DEF SubmitPreparation, Return
<1>4. \A h \in Guests : guest'[h] = IF h = g THEN Resting ELSE guest[h]
  BY <1>1, <1>3 DEF FlipTypes
<1>5. /\ id \in Nat /\ id \in Live /\ request[id].state = "Reserved" /\ id # gpu.id
      /\ id # NoId
      /\ \A h \in Guests : guest[h].id = id => h = g
  BY <1>1, <1>3, GuestFacts DEF CarryInv
<1>6. id \notin Range(work) /\ id \notin Range(device)
  BY <1>1 DEF CarryInv
<1>7. work' \in Seq(Nat) /\ Range(work') = Range(work) \cup {id} /\ IsInjective(work')
  BY <1>1, <1>3, <1>5, <1>6, AppendFacts DEF FlipTypes, CarryInv
<1>8. FlipTypes'
  <2>1. Resting \in Calls({"idle", "reserve", "submit", "cancel"})
    BY DEF Calls, NoId, Resting, Calling
  <2>2. guest' \in [Guests -> Calls({"idle", "reserve", "submit", "cancel"})]
    BY <1>1, <1>3, <2>1 DEF FlipTypes
  <2> QED
    BY <1>1, <1>2, <1>7, <2>2 DEF FlipTypes
<1>9. Resting.pc = "idle" /\ Resting.id = NoId
  BY DEF Resting, Calling
<1> HIDE DEF id
<1>10. PortInv'
  BY <1>1, <1>2, <1>4, <1>9 DEF PortInv
<1>11. BudgetInv'
  <2>1. Reserving' = Reserving
    BY <1>3, <1>4, <1>9 DEF Reserving
  <2> QED
    BY <1>1, <1>2, <2>1 DEF BudgetInv, Total, GpuReserving
<1>12. SameCancels
  BY <1>3, <1>4 DEF SameCancels
<1>13. Live' = Live /\ Awaited' = Awaited /\ \A x : Recorded(x)' <=> Recorded(x)
  BY <1>2, QuietStep
<1>14. CarryInv'
  <2>1. \A x \in Range(work') :
          /\ x \in Live' /\ request'[x].state = "Reserved"
          /\ x \notin Range(device') /\ x # gpu'.id /\ \A h \in Guests : guest'[h].id # x
    <3>1. \A x \in Range(work) \cup {id} : x # NoId /\ x \in Live /\ request[x].state = "Reserved"
      BY <1>1, <1>5 DEF CarryInv, ListInv, Live, NoId
    <3>2. \A x \in Range(work) \cup {id} : x \notin Range(device) /\ x # gpu.id
      BY <1>1, <1>5, <1>6 DEF CarryInv
    <3>3. \A x \in Range(work) \cup {id} : \A h \in Guests : guest'[h].id # x
      BY <1>1, <1>4, <1>5, <1>9, <3>1 DEF CarryInv
    <3> QED
      BY <1>2, <1>7, <1>13, <3>1, <3>2, <3>3
  <2>2. \A x \in Range(device') :
          /\ Recorded(x)'
          /\ x # gpu'.id /\ \A h \in Guests : guest'[h].id # x
    <3>1. \A x \in Range(device) : x # NoId
      BY <1>1 DEF CarryInv, Recorded, ListInv, Live, NoId
    <3> QED
      BY <1>1, <1>2, <1>4, <1>9, <1>13, <3>1 DEF CarryInv
  <2>3. \A h \in Guests : guest'[h].id # NoId <=> guest'[h].pc = "submit"
    BY <1>1, <1>4, <1>9 DEF CarryInv
  <2>4. \A h \in Guests : guest'[h].pc = "submit" =>
          /\ guest'[h].id \in Live' /\ request'[guest'[h].id].state = "Reserved"
          /\ guest'[h].id # gpu'.id
          /\ \A k \in Guests : guest'[k].id = guest'[h].id => k = h
    BY <1>1, <1>2, <1>4, <1>9, <1>13 DEF CarryInv
  <2>5. \A x \in Awaited' :
          \/ x \in Range(work') \/ x \in Range(device') \/ x = gpu'.id
          \/ \E h \in Guests : guest'[h].id = x
    <3> SUFFICES ASSUME NEW x \in Awaited
                 PROVE  \/ x \in Range(work') \/ x \in Range(device) \/ x = gpu.id
                        \/ \E h \in Guests : guest'[h].id = x
      BY <1>2, <1>13
    <3>1. CASE \E h \in Guests : guest[h].id = x
      <4>1. PICK h \in Guests : guest[h].id = x
        BY <3>1
      <4>2. CASE h = g
        BY <1>7, <4>1, <4>2 DEF id
      <4>3. CASE h # g
        BY <1>4, <4>1, <4>3
      <4> QED
        BY <4>2, <4>3
    <3> QED
      BY <1>1, <1>7, <3>1 DEF CarryInv
  <2>6. IsInjective(work') /\ IsInjective(device')
    BY <1>1, <1>2, <1>7 DEF CarryInv
  <2> QED
    BY <2>1, <2>2, <2>3, <2>4, <2>5, <2>6 DEF CarryInv
<1> QED
  BY <1>2, <1>8, <1>10, <1>11, <1>12, <1>14, QuietStep DEF FlipIInv

GpuPcs == {"idle", "get", "reserve", "slot", "wait", "prepare", "current", "drop", "frame", "prepared"}

LEMMA RestingFacts ==
  /\ Resting.pc = "idle" /\ Resting.id = NoId
  /\ Resting \in Calls({"idle", "reserve", "submit", "cancel"})
  /\ Resting \in Calls(GpuPcs)
BY DEF Resting, Calling, Calls, GpuPcs, NoId

(* The GPU thread alone goes on, with the same request or none. *)
LEMMA GpuMoves ==
  ASSUME FlipIInv,
         UNCHANGED <<port, request, requests, cpu, cancelled, processing, reserved, work, device,
                     free, last, guest, presenter, exit, instance>>,
         sleepers' \subseteq Guests \cup {"gpu"},
         gpu' \in Calls(GpuPcs), gpu'.id = gpu.id,
         gpu'.pc \in {"get", "reserve", "slot", "wait"} =>
           gpu'.port \in Ports /\ gpu'.index \in Indices /\ port[gpu'.port].generation > 0,
         gpu'.pc \in {"get", "reserve", "slot"} =>
           gpu.pc \in {"get", "reserve", "slot"} \/ Reservable,
         GpuInv'
  PROVE  FlipIInv'
<1>1. /\ FlipTypes /\ ListInv /\ StateInv /\ PortInv /\ BudgetInv /\ CarryInv
      /\ GpuInv /\ FrameInv /\ PresenterInv /\ ClosedPortsEmpty /\ StatusInv
  BY Parts
<1>2. FlipTypes'
  BY <1>1 DEF FlipTypes, GpuPcs
<1>3. PortInv'
  BY <1>1 DEF PortInv
<1>4. BudgetInv'
  <2>1. Reserving' = Reserving /\ Total' = Total
    BY DEF Reserving, Total
  <2>2. \/ GpuReserving' <= GpuReserving
        \/ reserved + Cardinality(Reserving) + GpuReserving' <= instance.requests
    <3>1. CASE gpu'.pc \in {"get", "reserve", "slot"} /\ Reservable /\ GpuReserving = 0
      BY <1>1, <3>1, ReservingFacts DEF GpuReserving, Reservable
    <3> QED
      BY <1>1, <3>1, ReservingFacts DEF GpuReserving
  <2>3. GpuReserving' \in {0, 1}
    BY DEF GpuReserving
  <2> QED
    BY <1>1, <2>1, <2>2, <2>3, ReservingFacts DEF BudgetInv
<1>5. CarryInv'
  <2>1. Awaited' = Awaited /\ AwaitedStay({})
    BY QuietStep
  <2> QED
    BY <1>1, <2>1, CarryKept
<1>6. SameCancels
  BY DEF SameCancels
<1> QED
  BY <1>2, <1>3, <1>4, <1>5, <1>6, QuietStep DEF FlipIInv

LEMMA GpuGotoFacts ==
  ASSUME FlipTypes, NEW pc \in GpuPcs, GpuGoto(pc)
  PROVE  /\ gpu' \in Calls(GpuPcs) /\ gpu'.pc = pc /\ gpu'.id = gpu.id
         /\ gpu'.port = gpu.port /\ gpu'.index = gpu.index
BY DEF FlipTypes, Calls, GpuPcs, GpuGoto

LEMMA EopFlipStep ==
  ASSUME FlipIInv, NEW p \in Ports, NEW i \in Indices, EopFlip(p, i) \/ WaitFlipDone(p, i)
  PROVE  FlipIInv'
<1>1. /\ FlipTypes /\ PortInv /\ GpuInv
  BY Parts
<1>2. /\ UNCHANGED <<port, request, requests, cpu, cancelled, processing, reserved, work, device,
                     free, last, guest, presenter, sleepers, exit, instance>>
      /\ gpu.pc = "idle" /\ port[p].opened
  BY DEF EopFlip, WaitFlipDone, GpuAt, lists, submissions, pool, ending
<1>3. \/ gpu' = Calling("reserve", p, i, NoId) /\ Reservable
      \/ gpu' = Calling("wait", p, i, NoId)
  BY DEF EopFlip, WaitFlipDone
<1>4. /\ gpu' \in Calls(GpuPcs) /\ gpu'.id = NoId /\ gpu'.port = p /\ gpu'.index = i
      /\ gpu'.pc \in {"reserve", "wait"}
      /\ gpu'.pc = "reserve" => Reservable
  BY <1>3 DEF Calling, Calls, GpuPcs, NoId
<1>5. port[p].generation > 0
  BY <1>1, <1>2, PortFacts DEF PortInv
<1>6. gpu'.id = gpu.id /\ GpuInv'
  BY <1>1, <1>2, <1>4 DEF GpuInv
<1>7. sleepers' \subseteq Guests \cup {"gpu"}
  BY <1>1, <1>2 DEF FlipTypes
<1> QED
  BY <1>2, <1>4, <1>5, <1>6, <1>7, GpuMoves

(* The GPU thread before it has a request: the steps by which it gets or   *)
(* awaits one, or waits for flips to be done.                              *)
LEMMA GpuSeeks ==
  ASSUME FlipIInv,
         UNCHANGED <<port, request, requests, cpu, cancelled, processing, reserved, work, device,
                     free, last, guest, presenter, exit, instance>>,
         sleepers' \subseteq Guests \cup {"gpu"},
         gpu.pc \in {"get", "reserve", "slot", "wait"},
         \/ UNCHANGED gpu
         \/ gpu.pc # "wait" /\ \E pc \in {"get", "reserve", "slot"} : GpuGoto(pc)
         \/ gpu' = Resting
  PROVE  FlipIInv'
<1>1. /\ FlipTypes /\ PortInv /\ GpuInv
  BY Parts
<1>2. gpu.id = NoId
  BY <1>1 DEF GpuInv
<1>3. CASE UNCHANGED gpu
  <2>1. gpu' \in Calls(GpuPcs)
    BY <1>1, <1>3 DEF FlipTypes, GpuPcs
  <2>2. GpuInv'
    BY <1>1, <1>3, QuietStep
  <2> QED
    BY <1>1, <1>3, <2>1, <2>2, GpuMoves DEF PortInv
<1>4. CASE gpu.pc # "wait" /\ \E pc \in {"get", "reserve", "slot"} : GpuGoto(pc)
  <2>1. PICK pc \in {"get", "reserve", "slot"} : GpuGoto(pc)
    BY <1>4
  <2>2. /\ gpu' \in Calls(GpuPcs) /\ gpu'.pc = pc /\ gpu'.id = gpu.id
        /\ gpu'.port = gpu.port /\ gpu'.index = gpu.index
    BY <1>1, <2>1, GpuGotoFacts DEF GpuPcs
  <2>3. GpuInv'
    BY <1>2, <2>2 DEF GpuInv
  <2>4. gpu.port \in Ports /\ gpu.index \in Indices /\ port[gpu.port].generation > 0
    BY <1>1 DEF PortInv
  <2> QED
    BY <1>4, <2>2, <2>3, <2>4, GpuMoves
<1>5. CASE gpu' = Resting
  <2>1. GpuInv'
    BY <1>5, RestingFacts DEF GpuInv
  <2> QED
    BY <1>2, <1>5, <2>1, RestingFacts, GpuMoves
<1> QED
  BY <1>3, <1>4, <1>5

LEMMA GpuSeekSteps ==
  ASSUME FlipIInv, SubmitFlipFromGpu \/ WaitForSubmitSlot \/ AwaitFlips
  PROVE  FlipIInv'
<1>1. FlipTypes
  BY Parts
<1>2. CASE SubmitFlipFromGpu
  <2>1. CASE Exit("closed")
    BY <2>1, ExitStep
  <2>2. CASE ~Exit("closed")
    <3>1. /\ UNCHANGED <<port, request, requests, cpu, cancelled, processing, reserved, work, device,
                         free, last, guest, presenter, sleepers, exit, instance>>
          /\ gpu.pc = "get" /\ GpuGoto("reserve")
      BY <1>2, <2>2 DEF SubmitFlipFromGpu, GpuAt, lists, submissions, pool, ending
    <3>2. sleepers' \subseteq Guests \cup {"gpu"}
      BY <1>1, <3>1 DEF FlipTypes
    <3> QED
      BY <3>1, <3>2, GpuSeeks
  <2> QED
    BY <2>1, <2>2
<1>3. CASE WaitForSubmitSlot
  <2>1. CASE Exit("saturated")
    BY <2>1, ExitStep
  <2>2. CASE ~Exit("saturated")
    <3>1. /\ UNCHANGED <<port, request, requests, cpu, cancelled, processing, reserved, work, device,
                         free, last, guest, presenter, exit, instance>>
          /\ gpu.pc = "slot" /\ (UNCHANGED gpu \/ GpuGoto("get"))
          /\ sleepers' \subseteq sleepers \cup {"gpu"}
      BY <1>3, <2>2 DEF WaitForSubmitSlot, GpuAt, lists, submissions, pool, ending
    <3>2. sleepers' \subseteq Guests \cup {"gpu"}
      BY <1>1, <3>1 DEF FlipTypes
    <3> QED
      BY <3>1, <3>2, GpuSeeks
  <2> QED
    BY <2>1, <2>2
<1>4. CASE AwaitFlips
  <2>1. /\ UNCHANGED <<port, request, requests, cpu, cancelled, processing, reserved, work, device,
                       free, last, guest, presenter, exit, instance>>
        /\ gpu.pc = "wait" /\ (UNCHANGED gpu \/ gpu' = Resting)
        /\ sleepers' \subseteq sleepers \cup {"gpu"}
    BY <1>4 DEF AwaitFlips, GpuAt, lists, submissions, pool, ending
  <2>2. sleepers' \subseteq Guests \cup {"gpu"}
    BY <1>1, <2>1 DEF FlipTypes
  <2> QED
    BY <2>1, <2>2, GpuSeeks
<1> QED
  BY <1>2, <1>3, <1>4

LEMMA PrepareCurrentStep ==
  ASSUME FlipIInv, PrepareCurrent
  PROVE  FlipIInv'
<1>1. /\ FlipTypes /\ GpuInv /\ PortInv
  BY Parts
<1>2. /\ UNCHANGED <<port, request, requests, cpu, cancelled, processing, reserved, work, device,
                     free, last, guest, presenter, sleepers, exit, instance>>
      /\ gpu.pc = "current" /\ GpuGoto(IF Current(gpu.id) THEN "frame" ELSE "drop")
  BY DEF PrepareCurrent, GpuAt, lists, submissions, pool, ending
<1>3. /\ gpu' \in Calls(GpuPcs) /\ gpu'.pc = (IF Current(gpu.id) THEN "frame" ELSE "drop")
      /\ gpu'.id = gpu.id
  BY <1>1, <1>2, GpuGotoFacts DEF GpuPcs
<1>4. GpuInv'
  <2>1. Current(gpu.id)' <=> Current(gpu.id)
    BY <1>2, <1>3 DEF Current, Usable
  <2> QED
    BY <1>1, <1>2, <1>3, <2>1 DEF GpuInv
<1>5. sleepers' \subseteq Guests \cup {"gpu"}
  BY <1>1, <1>2 DEF FlipTypes
<1> QED
  BY <1>2, <1>3, <1>4, <1>5, GpuMoves

------------------------------------------------------------------------------
(* A preparation changes hands *)

LEMMA PrepareCpuFlipStep ==
  ASSUME FlipIInv, PrepareCpuFlip
  PROVE  FlipIInv'
<1> DEFINE id == Head(work)
<1>1. /\ FlipTypes /\ ListInv /\ StateInv /\ PortInv /\ BudgetInv /\ CarryInv
      /\ GpuInv /\ FrameInv /\ PresenterInv /\ ClosedPortsEmpty /\ StatusInv
  BY Parts
<1>2. /\ UNCHANGED <<port, request, requests, cpu, cancelled, processing, reserved, device,
                     free, last, guest, presenter, sleepers, exit, instance>>
      /\ gpu.pc = "idle" /\ work # <<>> /\ work' = Tail(work)
      /\ gpu' = Calling("prepare", Resting.port, Resting.index, id)
  BY DEF PrepareCpuFlip, GpuAt, lists, pool, ending
<1>3. /\ work' \in Seq(Nat) /\ id \in Range(work) /\ id \in Nat
      /\ Range(work') = Range(work) \ {id} /\ IsInjective(work')
  BY <1>1, <1>2, TailFacts, HeadTailProperties DEF FlipTypes, CarryInv
<1> HIDE DEF id
<1>4. gpu' \in Calls(GpuPcs) /\ gpu'.id = id /\ gpu'.pc = "prepare"
  BY <1>2, <1>3 DEF Calling, Calls, GpuPcs
<1>5. /\ id \in Live /\ request[id].state = "Reserved" /\ id # NoId
      /\ id \notin Range(device) /\ \A g \in Guests : guest[g].id # id
  BY <1>1, <1>3, RequestFacts DEF CarryInv
<1>6. gpu.id = NoId
  BY <1>1, <1>2 DEF GpuInv
<1>7. Live' = Live /\ Awaited' = Awaited /\ \A x : Recorded(x)' <=> Recorded(x)
  BY <1>2, QuietStep
<1>8. FlipTypes'
  BY <1>1, <1>2, <1>3, <1>4 DEF FlipTypes, GpuPcs
<1>9. PortInv' /\ BudgetInv'
  <2>1. GpuReserving' = 0 /\ GpuReserving = 0 /\ Reserving' = Reserving /\ Total' = Total
    BY <1>2, <1>4 DEF GpuReserving, Reserving, Total
  <2> QED
    BY <1>1, <1>2, <1>4, <2>1 DEF PortInv, BudgetInv
<1>10. CarryInv'
  <2>1. IsInjective(work') /\ IsInjective(device')
    BY <1>1, <1>2, <1>3 DEF CarryInv
  <2>2. \A x \in Range(work') :
          /\ x \in Live' /\ request'[x].state = "Reserved"
          /\ x \notin Range(device') /\ x # gpu'.id /\ \A g \in Guests : guest'[g].id # x
    BY <1>1, <1>2, <1>3, <1>4, <1>7 DEF CarryInv
  <2>3. \A x \in Range(device') :
          /\ Recorded(x)'
          /\ x # gpu'.id /\ \A g \in Guests : guest'[g].id # x
    BY <1>1, <1>2, <1>4, <1>5, <1>7 DEF CarryInv
  <2>4. \A g \in Guests : guest'[g].id # NoId <=> guest'[g].pc = "submit"
    BY <1>1, <1>2 DEF CarryInv
  <2>5. \A g \in Guests : guest'[g].pc = "submit" =>
          /\ guest'[g].id \in Live' /\ request'[guest'[g].id].state = "Reserved"
          /\ guest'[g].id # gpu'.id
          /\ \A k \in Guests : guest'[k].id = guest'[g].id => k = g
    BY <1>1, <1>2, <1>4, <1>5, <1>7 DEF CarryInv
  <2>6. \A x \in Awaited' :
          \/ x \in Range(work') \/ x \in Range(device') \/ x = gpu'.id
          \/ \E g \in Guests : guest'[g].id = x
    <3>1. \A x \in Awaited : x # NoId
      BY <1>1, RequestFacts DEF Awaited
    <3> QED
      BY <1>1, <1>2, <1>3, <1>4, <1>6, <1>7, <3>1 DEF CarryInv
  <2> QED
    BY <2>1, <2>2, <2>3, <2>4, <2>5, <2>6 DEF CarryInv
<1>11. GpuInv'
  BY <1>2, <1>4, <1>5, <1>7 DEF GpuInv
<1>12. SameCancels
  BY <1>2 DEF SameCancels
<1> QED
  BY <1>2, <1>8, <1>9, <1>10, <1>11, <1>12, QuietStep DEF FlipIInv

LEMMA DeferCompletionStep ==
  ASSUME FlipIInv, DeferCompletion
  PROVE  FlipIInv'
<1> DEFINE id == gpu.id
<1>1. /\ FlipTypes /\ ListInv /\ StateInv /\ PortInv /\ BudgetInv /\ CarryInv
      /\ GpuInv /\ FrameInv /\ PresenterInv /\ ClosedPortsEmpty /\ StatusInv
  BY Parts
<1>2. /\ UNCHANGED <<port, request, requests, cpu, cancelled, processing, reserved, work,
                     free, last, guest, presenter, sleepers, exit, instance>>
      /\ gpu.pc = "prepared" /\ device' = Append(device, id) /\ gpu' = Resting
  BY DEF DeferCompletion, GpuAt, lists, pool, ending
<1>3. id \in Nat /\ id # NoId /\ Recorded(id)
  BY <1>1, <1>2, GpuFacts DEF GpuInv
<1>4. id \notin Range(work) /\ id \notin Range(device) /\ \A g \in Guests : guest[g].id # id
  <2>1. \A g \in Guests : guest[g].id = id => guest[g].pc = "submit"
    BY <1>1, <1>3 DEF CarryInv
  <2> QED
    BY <1>1, <2>1 DEF CarryInv
<1> HIDE DEF id
<1>5. /\ device' \in Seq(Nat) /\ Range(device') = Range(device) \cup {id} /\ IsInjective(device')
  BY <1>1, <1>2, <1>3, <1>4, AppendFacts DEF FlipTypes, CarryInv
<1>6. gpu' \in Calls(GpuPcs) /\ gpu'.id = NoId /\ gpu'.pc = "idle"
  BY <1>2, RestingFacts
<1>7. Live' = Live /\ Awaited' = Awaited /\ \A x : Recorded(x)' <=> Recorded(x)
  BY <1>2, QuietStep
<1>8. FlipTypes'
  BY <1>1, <1>2, <1>5, <1>6 DEF FlipTypes, GpuPcs
<1>9. PortInv' /\ BudgetInv'
  <2>1. GpuReserving' = 0 /\ GpuReserving = 0 /\ Reserving' = Reserving /\ Total' = Total
    BY <1>2, <1>6 DEF GpuReserving, Reserving, Total
  <2> QED
    BY <1>1, <1>2, <1>6, <2>1 DEF PortInv, BudgetInv
<1>10. CarryInv'
  <2>0. \A x \in Live : x # NoId
    BY <1>1, RequestFacts
  <2>1. IsInjective(work') /\ IsInjective(device')
    BY <1>1, <1>2, <1>5 DEF CarryInv
  <2>2. \A x \in Range(work') :
          /\ x \in Live' /\ request'[x].state = "Reserved"
          /\ x \notin Range(device') /\ x # gpu'.id /\ \A g \in Guests : guest'[g].id # x
    BY <1>1, <1>2, <1>4, <1>5, <1>6, <1>7, <2>0 DEF CarryInv
  <2>3. \A x \in Range(device') :
          /\ Recorded(x)'
          /\ x # gpu'.id /\ \A g \in Guests : guest'[g].id # x
    <3>1. \A x \in Range(device) \cup {id} : Recorded(x) /\ x # NoId
      BY <1>1, <1>3, <2>0 DEF CarryInv, Recorded, Live
    <3> QED
      BY <1>1, <1>2, <1>4, <1>5, <1>6, <1>7, <3>1 DEF CarryInv
  <2>4. \A g \in Guests : guest'[g].id # NoId <=> guest'[g].pc = "submit"
    BY <1>1, <1>2 DEF CarryInv
  <2>5. \A g \in Guests : guest'[g].pc = "submit" =>
          /\ guest'[g].id \in Live' /\ request'[guest'[g].id].state = "Reserved"
          /\ guest'[g].id # gpu'.id
          /\ \A k \in Guests : guest'[k].id = guest'[g].id => k = g
    BY <1>1, <1>2, <1>6, <1>7 DEF CarryInv
  <2>6. \A x \in Awaited' :
          \/ x \in Range(work') \/ x \in Range(device') \/ x = gpu'.id
          \/ \E g \in Guests : guest'[g].id = x
    BY <1>1, <1>2, <1>5, <1>7 DEF CarryInv, id
  <2> QED
    BY <2>1, <2>2, <2>3, <2>4, <2>5, <2>6 DEF CarryInv
<1>11. GpuInv'
  BY <1>6 DEF GpuInv
<1>12. SameCancels
  BY <1>2 DEF SameCancels
<1> QED
  BY <1>2, <1>8, <1>9, <1>10, <1>11, <1>12, QuietStep DEF FlipIInv

------------------------------------------------------------------------------
(* The present thread, when the queue is left as it is *)

PresenterRecords == [pc : {"flip", "due", "mark", "present", "idle", "blank", "end"}, id : Nat]

LEMMA LoopingFacts ==
  ASSUME NEW pc \in {"flip", "due", "mark", "present", "idle", "blank", "end"}, Round(pc)
  PROVE  presenter' \in PresenterRecords /\ presenter'.pc = pc
BY DEF Round, Looping, PresenterRecords, NoId

LEMMA WakeFacts ==
  ASSUME FlipTypes, WakeDone \/ WakeAll
  PROVE  sleepers' \subseteq Guests \cup {"gpu"}
BY DEF FlipTypes, WakeDone, WakeAll

LEMMA PresenterMoves ==
  ASSUME FlipIInv,
         UNCHANGED <<port, request, requests, cpu, cancelled, reserved, work, device, guest, gpu,
                     exit, instance>>,
         sleepers' \subseteq Guests \cup {"gpu"},
         processing' \in BOOLEAN, presenter' \in PresenterRecords, PresenterInv',
         free' \in Seq(Frames), last' \in 0..FrameCount, FrameInv'
  PROVE  FlipIInv'
<1>1. /\ FlipTypes /\ ListInv /\ StateInv /\ PortInv /\ BudgetInv /\ CarryInv
      /\ GpuInv /\ FrameInv /\ PresenterInv /\ ClosedPortsEmpty /\ StatusInv
  BY Parts
<1>2. FlipTypes'
  BY <1>1 DEF FlipTypes, PresenterRecords
<1>3. Live' = Live /\ Queued' = Queued /\ Total' = Total
  BY LiveStays
<1>4. SamePorts /\ SameStatus /\ SameRequests /\ SameCancels /\ AwaitedStay({}) /\ Awaited' = Awaited
  BY <1>3 DEF SamePorts, SameStatus, SameRequests, SameCancels, AwaitedStay, Awaited, ToComplete
<1>5. StateInv'
  <2>1. \A p \in Ports : port'[p].generation \in Nat /\ port'[p].generation >= port[p].generation
    BY <1>1, PortFacts
  <2> QED
    BY <1>1, <2>1, StateStays
<1>6. ListInv' /\ ClosedPortsEmpty' /\ StatusInv'
  BY <1>1, <1>3, <1>4, ListStays, ClosedStays, StatusStays
<1>7. PortInv' /\ BudgetInv'
  BY <1>1, <1>3 DEF PortInv, BudgetInv, Reserving, GpuReserving
<1>8. CarryInv'
  BY <1>1, <1>4, CarryKept
<1>9. GpuInv'
  <2>1. gpu.pc = "drop" => ~Current(gpu.id)'
    BY <1>1 DEF GpuInv, Current, Usable
  <2> QED
    BY <1>1, <1>4, <2>1, GpuStays
<1> QED
  BY <1>2, <1>5, <1>6, <1>7, <1>8, <1>9 DEF FlipIInv

LEMMA FlipStep ==
  ASSUME FlipIInv, Flip
  PROVE  FlipIInv'
<1>1. FlipTypes /\ ListInv /\ PresenterInv
  BY Parts
<1>2. /\ UNCHANGED <<port, request, requests, cpu, cancelled, reserved, work, device, free, last,
                     guest, gpu, sleepers, exit, instance>>
      /\ presenter.pc = "flip"
      /\ \/ /\ requests # <<>> /\ request[Head(requests)].state = "Ready"
            /\ processing' = TRUE /\ presenter' = [pc |-> "due", id |-> Head(requests)]
         \/ Round("idle") /\ UNCHANGED processing
  BY DEF Flip, PresenterAt, lists, submissions, pool, ending
<1>3. /\ Live' = Live /\ FrameInv'
      /\ sleepers' \subseteq Guests \cup {"gpu"} /\ free' \in Seq(Frames) /\ last' \in 0..FrameCount
  BY <1>1, <1>2, QuietStep DEF FlipTypes
<1>4. CASE /\ requests # <<>> /\ request[Head(requests)].state = "Ready"
           /\ processing' = TRUE /\ presenter' = [pc |-> "due", id |-> Head(requests)]
  <2>1. Head(requests) \in Nat
    BY <1>1, <1>4, HeadTailProperties DEF FlipTypes
  <2>2. presenter' \in PresenterRecords /\ presenter'.pc = "due" /\ presenter'.id = Head(requests)
    BY <1>4, <2>1 DEF PresenterRecords
  <2>3. PresenterInv'
    BY <1>1, <1>2, <1>3, <1>4, <2>2 DEF PresenterInv, AtFront
  <2> QED
    BY <1>2, <1>3, <1>4, <2>2, <2>3, PresenterMoves
<1>5. CASE Round("idle") /\ UNCHANGED processing
  <2>1. presenter' \in PresenterRecords /\ presenter'.pc = "idle"
    BY <1>5, LoopingFacts
  <2>2. PresenterInv'
    BY <1>1, <1>2, <1>3, <1>5, <2>1 DEF PresenterInv
  <2> QED
    BY <1>1, <1>2, <1>3, <1>5, <2>1, <2>2, PresenterMoves DEF FlipTypes
<1> QED
  BY <1>2, <1>4, <1>5

LEMMA FlipDueStep ==
  ASSUME FlipIInv, FlipDue
  PROVE  FlipIInv'
<1>1. FlipTypes /\ ListInv /\ PresenterInv
  BY Parts
<1>2. /\ UNCHANGED <<port, request, requests, cpu, cancelled, reserved, work, device, free, last,
                     guest, gpu, exit, instance>>
      /\ presenter.pc = "due"
      /\ \/ Due(presenter.id) /\ PresenterGoto("mark") /\ UNCHANGED <<processing, sleepers>>
         \/ processing' = FALSE /\ WakeDone /\ Round("idle")
  BY DEF FlipDue, PresenterAt, lists, submissions, pool, ending
<1>3. /\ Live' = Live /\ FrameInv' /\ free' \in Seq(Frames) /\ last' \in 0..FrameCount
      /\ \A id : Current(id)' <=> Current(id)
  BY <1>1, <1>2, QuietStep DEF FlipTypes
<1>4. CASE Due(presenter.id) /\ PresenterGoto("mark") /\ UNCHANGED <<processing, sleepers>>
  <2>1. presenter' \in PresenterRecords /\ presenter'.pc = "mark" /\ presenter'.id = presenter.id
    BY <1>1, <1>4 DEF FlipTypes, PresenterRecords, PresenterGoto
  <2>2. PresenterInv'
    <3>1. Current(presenter.id)'
      BY <1>3, <1>4, <2>1 DEF Due
    <3> QED
      BY <1>1, <1>2, <1>3, <1>4, <2>1, <3>1 DEF PresenterInv, AtFront
  <2> QED
    BY <1>1, <1>2, <1>3, <1>4, <2>1, <2>2, PresenterMoves DEF FlipTypes
<1>5. CASE processing' = FALSE /\ WakeDone /\ Round("idle")
  <2>1. presenter' \in PresenterRecords /\ presenter'.pc = "idle"
    BY <1>5, LoopingFacts
  <2>2. PresenterInv'
    BY <1>1, <1>2, <1>3, <1>5, <2>1 DEF PresenterInv
  <2> QED
    BY <1>1, <1>2, <1>3, <1>5, <2>1, <2>2, PresenterMoves, WakeFacts
<1> QED
  BY <1>2, <1>4, <1>5

(* The free frames in another order. *)
LEMMA FramesReordered ==
  ASSUME FrameInv, UNCHANGED <<request, requests, cpu, cancelled>>,
         IsInjective(free'), Range(free') = Range(free), last' = NoFrame \/ last' \in Range(free)
  PROVE  FrameInv'
<1>1. Live' = Live
  BY LiveStays
<1> QED
  BY <1>1 DEF FrameInv, FramesExact

LEMMA RefreshStep ==
  ASSUME FlipIInv, Refresh \/ RefreshBlank
  PROVE  FlipIInv'
<1>1. FlipTypes /\ ListInv /\ PresenterInv /\ FrameInv
  BY Parts
<1>2. /\ UNCHANGED <<port, request, requests, cpu, cancelled, processing, reserved, work, device,
                     guest, gpu, sleepers, exit, instance>>
      /\ presenter.pc \in {"idle", "blank"} /\ \E pc \in {"end", "blank"} : Round(pc)
      /\ \/ UNCHANGED <<free, last>>
         \/ /\ last # NoFrame /\ last' = last
            /\ free' = Append(Keep(free, Frames \ {last}), last)
         \/ /\ free # <<>> /\ free' = Append(Tail(free), Head(free))
            /\ last' \in {NoFrame, last, Head(free)}
  BY DEF Refresh, RefreshBlank, PresenterAt, lists, submissions, pool, ending
<1>3. /\ presenter' \in PresenterRecords /\ presenter'.pc \in {"end", "blank"}
      /\ sleepers' \subseteq Guests \cup {"gpu"} /\ processing' \in BOOLEAN
  BY <1>1, <1>2, LoopingFacts DEF FlipTypes
<1>4. PresenterInv'
  <2>1. Live' = Live
    BY <1>2, LiveStays
  <2> QED
    BY <1>1, <1>2, <1>3, <2>1 DEF PresenterInv
<1>5. free' \in Seq(Frames) /\ last' \in 0..FrameCount /\ FrameInv'
  <2>1. IsInjective(free) /\ free \in Seq(Frames) /\ last \in 0..FrameCount
    BY <1>1 DEF FrameInv, FramesExact, FlipTypes
  <2>2. CASE UNCHANGED <<free, last>>
    BY <1>2, <2>1, <2>2, QuietStep
  <2>3. CASE /\ last # NoFrame /\ last' = last
             /\ free' = Append(Keep(free, Frames \ {last}), last)
    <3> DEFINE k == Keep(free, Frames \ {last})
    <3>1. /\ k \in Seq(Frames) /\ IsInjective(k)
          /\ Range(k) = Range(free) \cap (Frames \ {last})
      BY <2>1, KeepFacts
    <3>2. last \in Range(free) /\ Range(free) \subseteq Frames
      BY <1>1, <2>3 DEF FrameInv, FramesExact
    <3> HIDE DEF k
    <3>3. last \in Frames /\ last \notin Range(k) /\ Range(k) \cup {last} = Range(free)
      BY <3>1, <3>2
    <3>4. free' \in Seq(Frames) /\ IsInjective(free') /\ Range(free') = Range(free)
      <4>1. free' = Append(k, last)
        BY <2>3 DEF k
      <4>2. /\ Append(k, last) \in Seq(Frames)
            /\ Range(Append(k, last)) = Range(k) \cup {last}
            /\ IsInjective(Append(k, last))
        BY <3>1, <3>3, AppendFacts
      <4> QED
        BY <3>3, <4>1, <4>2
    <3> QED
      BY <1>1, <1>2, <2>1, <2>3, <3>2, <3>4, FramesReordered
  <2>4. CASE /\ free # <<>> /\ free' = Append(Tail(free), Head(free))
             /\ last' \in {NoFrame, last, Head(free)}
    <3> DEFINE k == Tail(free)
               f == Head(free)
    <3>1. /\ k \in Seq(Frames) /\ IsInjective(k) /\ f \in Range(free)
          /\ Range(k) = Range(free) \ {f}
      BY <2>1, <2>4, TailFacts
    <3>2. f \in Frames
      BY <2>1, <2>4, HeadTailProperties
    <3> HIDE DEF k, f
    <3>3. f \notin Range(k) /\ Range(k) \cup {f} = Range(free)
      BY <3>1
    <3>4. free' \in Seq(Frames) /\ IsInjective(free') /\ Range(free') = Range(free)
      <4>1. free' = Append(k, f)
        BY <2>4 DEF k, f
      <4>2. /\ Append(k, f) \in Seq(Frames)
            /\ Range(Append(k, f)) = Range(k) \cup {f}
            /\ IsInjective(Append(k, f))
        BY <3>1, <3>2, <3>3, AppendFacts
      <4> QED
        BY <3>3, <4>1, <4>2
    <3>5. last' = NoFrame \/ last' \in Range(free)
      BY <1>1, <2>4, <3>1 DEF f, FrameInv, FramesExact
    <3>6. last' \in 0..FrameCount
      BY <2>1, <2>4, <3>2, FlipQueueAssumption DEF f, NoFrame, Frames, FlipQueueAssumption
    <3> QED
      BY <1>1, <1>2, <3>4, <3>5, <3>6, FramesReordered
  <2> QED
    BY <1>2, <2>2, <2>3, <2>4
<1> QED
  BY <1>2, <1>3, <1>4, <1>5, PresenterMoves

------------------------------------------------------------------------------
(* A port is opened, closed or gets its vertical blank *)

(* The length of a queue and the size of a set that has none of it. *)
LEMMA CountFacts ==
  ASSUME NEW q \in Seq(Nat), IsInjective(q), NEW c, IsFiniteSet(c), Range(q) \cap c = {}
  PROVE  /\ IsFiniteSet(Range(q) \cup c)
         /\ Len(q) + Cardinality(c) = Cardinality(Range(q) \cup c)
         /\ Len(q) \in Nat /\ Cardinality(c) \in Nat
<1>1. IsFiniteSet(Range(q)) /\ Len(q) = Cardinality(Range(q)) /\ Len(q) \in Nat
  BY LengthIsNumber
<1>2. /\ IsFiniteSet(Range(q) \cup c)
      /\ Cardinality(Range(q) \cup c) = Cardinality(Range(q)) + Cardinality(c)
                                          - Cardinality(Range(q) \cap c)
  BY <1>1, FS_Union
<1>3. Cardinality(Range(q) \cap c) = 0 /\ Cardinality(c) \in Nat
  BY FS_EmptySet, FS_CardinalityType
<1> QED
  BY <1>1, <1>2, <1>3

LEMMA TotalFacts ==
  ASSUME FlipTypes, ListInv
  PROVE  /\ IsFiniteSet(Queued) /\ Total = Cardinality(Queued) /\ Total \in Nat
         /\ IsFiniteSet(cpu)
         /\ \A S \in SUBSET Queued :
              IsFiniteSet(S) /\ Cardinality(S) \in Nat /\ Cardinality(S) <= Total
<1>1. requests \in Seq(Nat) /\ IsInjective(requests) /\ reserved \in Nat
  BY DEF FlipTypes, ListInv
<1>2. cpu \in SUBSET (1..reserved) /\ Range(requests) \cap cpu = {}
  BY DEF ListInv, Live
<1>3. IsFiniteSet(1..reserved)
  BY <1>1, FS_Interval
<1>4. IsFiniteSet(cpu)
  BY <1>2, <1>3, FS_Subset
<1>5. IsFiniteSet(Queued) /\ Total = Cardinality(Queued) /\ Total \in Nat
  BY <1>1, <1>2, <1>4, CountFacts, FS_CardinalityType DEF Queued, Total
<1>6. ASSUME NEW S \in SUBSET Queued
      PROVE  IsFiniteSet(S) /\ Cardinality(S) \in Nat /\ Cardinality(S) <= Total
  BY <1>5, FS_Subset, FS_CardinalityType
<1> QED
  BY <1>4, <1>5, <1>6

LEMMA OfPortFacts ==
  /\ \A p : OfPort(p) = {id \in Queued : request[id].port = p} /\ OfPort(p) \subseteq Queued
  /\ \A p : EopOf(p) \subseteq OfPort(p)
  /\ Queued \subseteq Live
BY DEF OfPort, EopOf, Queued, Live

(* Each port is as it was, or has gone on to another generation. *)
PortsGoOn == \A p \in Ports :
  \/ /\ port'[p].opened <=> port[p].opened
     /\ port'[p].closing <=> port[p].closing
     /\ port'[p].generation = port[p].generation
  \/ port'[p].generation > port[p].generation

LEMMA PortsChange ==
  ASSUME FlipIInv, PortsGoOn, port' \in [Ports -> PortRecords],
         UNCHANGED <<request, requests, cpu, cancelled, reserved, work, device, free, last, gpu,
                     instance>>,
         \A g \in Guests : /\ guest'[g].id = guest[g].id
                           /\ guest'[g].pc = "submit" <=> guest[g].pc = "submit"
  PROVE  /\ ListInv' /\ StateInv' /\ FrameInv' /\ CarryInv' /\ GpuInv'
         /\ Live' = Live /\ Queued' = Queued /\ Total' = Total
         /\ \A p : OfPort(p)' = OfPort(p) /\ EopOf(p)' = EopOf(p)
<1>1. /\ FlipTypes /\ ListInv /\ StateInv /\ PortInv /\ BudgetInv /\ CarryInv
      /\ GpuInv /\ FrameInv /\ PresenterInv /\ ClosedPortsEmpty /\ StatusInv
  BY Parts
<1>2. Live' = Live /\ Queued' = Queued /\ Total' = Total
  BY LiveStays
<1>3. \A p : OfPort(p)' = OfPort(p) /\ EopOf(p)' = EopOf(p)
  BY DEF OfPort, EopOf
<1>4. \A p \in Ports : /\ port[p].generation \in Nat /\ port'[p].generation \in Nat
                       /\ port'[p].generation >= port[p].generation
  BY <1>1, PortFacts DEF PortsGoOn, PortRecords
<1>5. ListInv' /\ StateInv'
  BY <1>1, <1>4, ListStays, StateStays
<1>6. FrameInv'
  <2>1. SameFrames
    BY <1>2 DEF SameFrames
  <2> QED
    BY <1>1, <2>1, FrameStays
<1>7. AwaitedStay({}) /\ Awaited' = Awaited
  BY <1>2 DEF AwaitedStay, Awaited, ToComplete
<1>8. CarryInv'
  BY <1>1, <1>7, CarryKept
<1>9. gpu.pc = "drop" => ~Current(gpu.id)'
  <2> SUFFICES ASSUME gpu.pc = "drop" PROVE ~Current(gpu.id)'
    OBVIOUS
  <2>1. gpu.id \in Live /\ ~Current(gpu.id)
    BY <1>1 DEF GpuInv, Live
  <2>2. /\ request[gpu.id].port \in Ports /\ request[gpu.id].generation \in Nat
        /\ request[gpu.id].generation <= port[request[gpu.id].port].generation
    BY <1>1, <2>1, RequestFacts DEF StateInv
  <2> QED
    BY <1>4, <2>1, <2>2 DEF Current, Usable, PortsGoOn
<1>10. GpuInv'
  BY <1>1, <1>7, <1>9, GpuStays
<1> QED
  BY <1>2, <1>3, <1>5, <1>6, <1>8, <1>10

(* A port none of whose requests is being shown: the others are as they were. *)
LEMMA OnePortChanges ==
  ASSUME FlipIInv, NEW p \in Ports, PortFree(p),
         UNCHANGED <<request, requests, cpu, cancelled, processing, presenter>>,
         \A q \in Ports \ {p} : port'[q] = port[q]
  PROVE  /\ \A id \in Live : request[id].port # p => (Current(id)' <=> Current(id))
         /\ PresenterInv'
<1>1. /\ FlipTypes /\ ListInv /\ PresenterInv
  BY Parts
<1>2. \A id \in Live : request[id].port # p => (Current(id)' <=> Current(id))
  <2> TAKE id \in Live
  <2>1. request[id].port \in Ports
    BY <1>1, RequestFacts
  <2> QED
    BY <2>1 DEF Current, Usable
<1>3. presenter.pc \in {"mark", "present"} => Current(presenter.id)'
  <2> SUFFICES ASSUME presenter.pc \in {"mark", "present"} PROVE Current(presenter.id)'
    OBVIOUS
  <2>1. request[presenter.id].port # p
    BY DEF PortFree
  <2>2. requests # <<>> /\ presenter.id = Head(requests)
    BY <1>1 DEF PresenterInv, AtFront
  <2>3. presenter.id \in Range(requests)
    BY <1>1, <2>2, TailFacts DEF FlipTypes, ListInv
  <2> QED
    BY <1>1, <1>2, <2>1, <2>3 DEF Live, PresenterInv
<1>4. Live' = Live
  BY LiveStays
<1>5. PresenterInv'
  BY <1>1, <1>3, <1>4 DEF PresenterInv, AtFront
<1> QED
  BY <1>2, <1>5

LEMMA OpenPortStep ==
  ASSUME FlipIInv, NEW g \in Guests, NEW p \in Ports, OpenPort(g, p)
  PROVE  FlipIInv'
<1> DEFINE new == [opened |-> TRUE, closing |-> FALSE, phase |-> 0,
                   generation |-> port[p].generation + 1, pending |-> 0, gc |-> 0]
<1>1. /\ FlipTypes /\ ListInv /\ StateInv /\ PortInv /\ BudgetInv /\ CarryInv
      /\ GpuInv /\ FrameInv /\ PresenterInv /\ ClosedPortsEmpty /\ StatusInv
  BY Parts
<1>2. /\ UNCHANGED <<request, requests, cpu, cancelled, processing, reserved, work, device,
                     free, last, guest, gpu, presenter, sleepers, exit, instance>>
      /\ DriverFree /\ PortFree(p) /\ ~port[p].opened
      /\ port' = [port EXCEPT ![p] = new]
  BY DEF OpenPort, MayCall, lists, submissions, pool, threads, ending
<1>3. port[p].generation \in Nat
  BY <1>1, PortFacts
<1>4. new \in PortRecords /\ port' \in [Ports -> PortRecords]
  BY <1>1, <1>2, <1>3 DEF PortRecords, FlipTypes
<1>5. /\ \A q \in Ports \ {p} : port'[q] = port[q]
      /\ port'[p].opened /\ ~port'[p].closing /\ port'[p].generation = port[p].generation + 1
      /\ port'[p].generation > 0 /\ port'[p].generation > port[p].generation
      /\ port'[p].phase = 0 /\ port'[p].pending = 0 /\ port'[p].gc = 0
  BY <1>1, <1>2, <1>3 DEF FlipTypes
<1> HIDE DEF new
<1>6. PortsGoOn
  BY <1>5 DEF PortsGoOn
<1>7. /\ ListInv' /\ StateInv' /\ FrameInv' /\ CarryInv' /\ GpuInv'
      /\ Live' = Live /\ Queued' = Queued /\ Total' = Total
      /\ \A q : OfPort(q)' = OfPort(q) /\ EopOf(q)' = EopOf(q)
  BY <1>2, <1>4, <1>6, PortsChange
<1>8. FlipTypes'
  BY <1>1, <1>2, <1>4 DEF FlipTypes
<1>9. OfPort(p) = {}
  <2>1. \A id \in OfPort(p) : ~Current(id)
    BY <1>2 DEF Current, Usable, OfPort
  <2> QED
    BY <1>1, <1>2, <2>1 DEF ClosedPortsEmpty, DriverFree
<1>10. PresenterInv' /\ \A id \in Live : request[id].port # p => (Current(id)' <=> Current(id))
  BY <1>2, <1>5, OnePortChanges
<1>11. ClosedPortsEmpty'
  <2> SUFFICES ASSUME NEW q \in Ports, NEW id \in OfPort(q) PROVE Current(id)'
    BY <1>7 DEF ClosedPortsEmpty
  <2>1. q # p /\ id \in Live /\ request[id].port = q
    BY <1>9, OfPortFacts
  <2>2. Current(id)
    BY <1>1, <1>2 DEF ClosedPortsEmpty, DriverFree
  <2> QED
    BY <1>10, <2>1, <2>2
<1>12. PortInv'
  <2>1. \A q \in Ports : /\ port'[q].generation > 0 => port'[q].closing = ~port'[q].opened
                         /\ port'[q].generation = 0 => ~port'[q].opened
                         /\ port'[q].phase \in 0..Rate[q]
    <3>1. Rate[p] \in Nat
      BY FlipQueueAssumption DEF FlipQueueAssumption
    <3>2. 0 \in 0..Rate[p]
      BY <3>1
    <3>3. port'[p].closing = ~port'[p].opened
      BY <1>2, <1>1 DEF new, FlipTypes
    <3> QED
      BY <1>1, <1>5, <3>2, <3>3 DEF PortInv
  <2>2. \A q \in Ports : port[q].generation > 0 => port'[q].generation > 0
    BY <1>5
  <2> QED
    BY <1>1, <1>2, <2>1, <2>2 DEF PortInv, DriverFree
<1>13. BudgetInv'
  BY <1>1, <1>2, <1>7 DEF BudgetInv, Reserving, GpuReserving
<1>14. StatusInv'
  <2>1. \A q \in Ports : {port'[q].pending, port'[q].gc} \subseteq 0..Capacity
    <3>1. 0 \in 0..Capacity
      BY FlipQueueAssumption DEF FlipQueueAssumption
    <3> QED
      BY <1>1, <1>5, <3>1 DEF StatusInv
  <2>2. ASSUME NEW q \in Ports, Usable(q)'
        PROVE  /\ port'[q].gc = Cardinality(EopOf(q))
               /\ port'[q].pending >= Cardinality(OfPort(q))
               /\ (\A r \in Ports \ {q} : port'[r].generation = 0) => port'[q].pending = Total
    <3>1. CASE q = p
      <4>1. EopOf(p) = {} /\ Cardinality({}) = 0
        BY <1>9, OfPortFacts, FS_EmptySet
      <4>2. ASSUME \A r \in Ports \ {q} : port'[r].generation = 0 PROVE Total = 0
        <5>1. \A id \in Queued : id \in Live /\ request[id].port \in Ports /\ request[id].port # p
          BY <1>1, <1>9, OfPortFacts, RequestFacts
        <5>2. \A id \in Queued : port[request[id].port].generation > 0
          BY <1>1, <5>1 DEF StateInv
        <5>3. Queued = {}
          BY <1>5, <3>1, <4>2, <5>1, <5>2
        <5> QED
          BY <1>1, <4>1, <5>3, TotalFacts
      <4> QED
        BY <1>5, <1>9, <3>1, <4>1, <4>2
    <3>2. CASE q # p
      <4>1. Usable(q)
        BY <1>5, <2>2, <3>2 DEF Usable
      <4> QED
        BY <1>1, <1>5, <3>2, <4>1 DEF StatusInv
    <3> QED
      BY <3>1, <3>2
  <2> QED
    BY <1>7, <2>1, <2>2 DEF StatusInv
<1> QED
  BY <1>7, <1>8, <1>10, <1>11, <1>12, <1>13, <1>14 DEF FlipIInv

LEMMA ClosePortStep ==
  ASSUME FlipIInv, NEW g \in Guests, NEW p \in Ports, ClosePort(g, p)
  PROVE  FlipIInv'
<1> DEFINE made == Calling("cancel", p, Resting.index, NoId)
<1>1. /\ FlipTypes /\ ListInv /\ StateInv /\ PortInv /\ BudgetInv /\ CarryInv
      /\ GpuInv /\ FrameInv /\ PresenterInv /\ ClosedPortsEmpty /\ StatusInv
  BY Parts
<1>2. /\ UNCHANGED <<request, requests, cpu, cancelled, processing, reserved, work, device,
                     free, last, gpu, presenter, sleepers, exit, instance>>
      /\ DriverFree /\ PortFree(p) /\ port[p].opened /\ guest[g] = Resting
      /\ guest' = [guest EXCEPT ![g] = made]
  BY DEF ClosePort, MayCall, Call, lists, submissions, pool, ending
<1>3. port[p] \in PortRecords /\ port[p].generation \in Nat
  BY <1>1, PortFacts
<1>4. /\ port' = [port EXCEPT ![p].opened = FALSE, ![p].closing = TRUE, ![p].generation = @ + 1]
      /\ port' \in [Ports -> PortRecords]
  <2> DEFINE shut == [port EXCEPT ![p].opened = FALSE, ![p].closing = TRUE]
  <2>1. port' = [port EXCEPT ![p].opened = FALSE, ![p].closing = TRUE, ![p].generation = @ + 1]
    BY DEF ClosePort
  <2>2. shut \in [Ports -> PortRecords] /\ shut[p].generation = port[p].generation
    <3>1. port \in [Ports -> PortRecords] /\ p \in Ports
      BY <1>1 DEF FlipTypes
    <3>2. /\ port[p] \in PortRecords
          /\ [port[p] EXCEPT !.opened = FALSE, !.closing = TRUE] \in PortRecords
          /\ [port[p] EXCEPT !.opened = FALSE, !.closing = TRUE].generation = port[p].generation
      BY <3>1 DEF PortRecords
    <3>3. shut[p] = [port[p] EXCEPT !.opened = FALSE, !.closing = TRUE]
      BY <3>1
    <3> QED
      BY <3>1, <3>2, <3>3
  <2>3. port' = [shut EXCEPT ![p].generation = @ + 1]
    BY <2>1, <2>2
  <2> HIDE DEF shut
  <2>4. port' \in [Ports -> PortRecords]
    BY <2>2, <2>3 DEF PortRecords
  <2> QED
    BY <2>1, <2>4
<1>5. /\ \A q \in Ports \ {p} : port'[q] = port[q]
      /\ ~port'[p].opened /\ port'[p].closing /\ port'[p].generation = port[p].generation + 1
      /\ port'[p].generation > 0 /\ port'[p].generation > port[p].generation
      /\ port'[p].phase = port[p].phase /\ port'[p].pending = port[p].pending
      /\ port'[p].gc = port[p].gc
  <2>1. port \in [Ports -> PortRecords] /\ p \in Ports
    BY <1>1, <1>3 DEF FlipTypes
  <2>2. port[p].generation \in Nat /\ port[p] \in PortRecords
    BY <2>1 DEF PortRecords
  <2> QED
    BY <1>4, <2>1, <2>2 DEF PortRecords
<1>6. PortsGoOn
  BY <1>5 DEF PortsGoOn
<1>7. \A h \in Guests : guest'[h] = IF h = g THEN made ELSE guest[h]
  BY <1>1, <1>2 DEF FlipTypes
<1>8. /\ guest[g].pc = "idle" /\ guest[g].id = NoId
      /\ made.pc = "cancel" /\ made.id = NoId /\ made.port = p
      /\ made \in Calls({"idle", "reserve", "submit", "cancel"})
  BY <1>2, RestingFacts DEF Calling, Calls, NoId
<1> HIDE DEF made
<1>9. /\ ListInv' /\ StateInv' /\ FrameInv' /\ CarryInv' /\ GpuInv'
      /\ Live' = Live /\ Queued' = Queued /\ Total' = Total
      /\ \A q : OfPort(q)' = OfPort(q) /\ EopOf(q)' = EopOf(q)
  <2>1. \A h \in Guests : /\ guest'[h].id = guest[h].id
                          /\ guest'[h].pc = "submit" <=> guest[h].pc = "submit"
    BY <1>7, <1>8
  <2> QED
    BY <1>2, <1>4, <1>6, <2>1, PortsChange
<1>10. FlipTypes'
  <2>1. guest' \in [Guests -> Calls({"idle", "reserve", "submit", "cancel"})]
    BY <1>1, <1>2, <1>8 DEF FlipTypes
  <2> QED
    BY <1>1, <1>2, <1>4, <2>1 DEF FlipTypes
<1>11. PresenterInv' /\ \A id \in Live : request[id].port # p => (Current(id)' <=> Current(id))
  BY <1>2, <1>5, OnePortChanges
<1>12. ClosedPortsEmpty'
  <2> SUFFICES ASSUME NEW q \in Ports, NEW id \in OfPort(q)
               PROVE  \/ Current(id)'
                      \/ \E h \in Guests : guest'[h].pc = "cancel" /\ guest'[h].port = q
    BY <1>9 DEF ClosedPortsEmpty
  <2>1. id \in Live /\ request[id].port = q
    BY OfPortFacts
  <2>2. CASE q = p
    BY <1>7, <1>8, <2>2
  <2>3. CASE q # p
    BY <1>1, <1>2, <1>11, <2>1, <2>3 DEF ClosedPortsEmpty, DriverFree
  <2> QED
    BY <2>2, <2>3
<1>13. PortInv'
  <2>1. \A q \in Ports : /\ port'[q].generation > 0 => port'[q].closing = ~port'[q].opened
                         /\ port'[q].generation = 0 => ~port'[q].opened
                         /\ port'[q].phase \in 0..Rate[q]
    <3>1. port'[p].closing = ~port'[p].opened
      BY <1>1, <1>4 DEF FlipTypes, PortRecords
    <3> QED
      BY <1>1, <1>5, <3>1 DEF PortInv
  <2>2. \A q \in Ports : port[q].generation > 0 => port'[q].generation > 0
    BY <1>5
  <2>3. \A h \in Guests :
         /\ guest'[h].pc \in {"reserve", "cancel"} =>
              guest'[h].port \in Ports /\ port'[guest'[h].port].generation > 0
         /\ guest'[h].pc = "reserve" => guest'[h].index \in Indices
         /\ guest'[h].pc = "cancel" => port'[guest'[h].port].closing
    BY <1>1, <1>2, <1>5, <1>7, <1>8, <2>2 DEF PortInv, DriverFree
  <2> QED
    BY <1>1, <1>2, <2>1, <2>2, <2>3 DEF PortInv
<1>14. BudgetInv'
  <2>1. Reserving' = Reserving
    BY <1>7, <1>8 DEF Reserving
  <2> QED
    BY <1>1, <1>2, <1>9, <2>1 DEF BudgetInv, GpuReserving
<1>15. StatusInv'
  <2>1. \A q \in Ports : {port'[q].pending, port'[q].gc} \subseteq 0..Capacity
    BY <1>1, <1>5 DEF StatusInv
  <2>2. ASSUME NEW q \in Ports, Usable(q)'
        PROVE  /\ port'[q].gc = Cardinality(EopOf(q))
               /\ port'[q].pending >= Cardinality(OfPort(q))
               /\ (\A r \in Ports \ {q} : port'[r].generation = 0) => port'[q].pending = Total
    <3>1. q # p
      BY <1>5, <2>2 DEF Usable
    <3>2. Usable(q)
      BY <1>5, <2>2, <3>1 DEF Usable
    <3> QED
      BY <1>1, <1>5, <3>1, <3>2 DEF StatusInv
  <2> QED
    BY <1>9, <2>1, <2>2 DEF StatusInv
<1> QED
  BY <1>9, <1>10, <1>11, <1>12, <1>13, <1>14, <1>15 DEF FlipIInv

LEMMA VblankEndStep ==
  ASSUME FlipIInv, VblankEnd
  PROVE  FlipIInv'
<1> DEFINE ticked(p) == [port[p] EXCEPT !.phase = (@ + 1) % (Rate[p] + 1)]
<1>1. /\ FlipTypes /\ ListInv /\ StateInv /\ PortInv /\ BudgetInv /\ CarryInv
      /\ GpuInv /\ FrameInv /\ PresenterInv /\ ClosedPortsEmpty /\ StatusInv
  BY Parts
<1>2. /\ UNCHANGED <<request, requests, cpu, cancelled, processing, reserved, work, device,
                     free, last, guest, gpu, sleepers, exit, instance>>
      /\ presenter.pc = "end" /\ presenter' = Looping
      /\ port' = [p \in Ports |-> IF port[p].opened THEN ticked(p) ELSE port[p]]
  BY DEF VblankEnd, PresenterAt, lists, submissions, pool, ending
<1>3. \A p \in Ports : (port[p].phase + 1) % (Rate[p] + 1) \in 0..Rate[p]
  <2> TAKE p \in Ports
  <2>1. Rate[p] \in Nat /\ port[p].phase \in Nat
    BY <1>1, FlipQueueAssumption, PortFacts DEF FlipQueueAssumption
  <2>2. \A a, n \in Nat : a % (n + 1) \in 0..n
    OBVIOUS
  <2> DEFINE n == Rate[p]
             a == port[p].phase + 1
  <2>3. n \in Nat /\ a \in Nat
    BY <2>1
  <2> HIDE DEF n, a
  <2>4. a % (n + 1) \in 0..n
    BY <2>2, <2>3
  <2> QED
    BY <2>4 DEF n, a
<1>4. \A p \in Ports :
        /\ port'[p] \in PortRecords
        /\ (port'[p].opened <=> port[p].opened) /\ port'[p].opened = port[p].opened
        /\ (port'[p].closing <=> port[p].closing) /\ port'[p].closing = port[p].closing
        /\ port'[p].generation = port[p].generation
        /\ port'[p].pending = port[p].pending /\ port'[p].gc = port[p].gc
        /\ port'[p].phase \in 0..Rate[p]
  <2> TAKE p \in Ports
  <2>1. port[p] \in PortRecords /\ port[p].phase \in 0..Rate[p] /\ Rate[p] \in Nat
    BY <1>1, PortFacts, FlipQueueAssumption DEF PortInv, FlipQueueAssumption
  <2>2. port'[p] = IF port[p].opened THEN ticked(p) ELSE port[p]
    BY <1>2
  <2> QED
    BY <1>3, <2>1, <2>2 DEF PortRecords
<1> HIDE DEF ticked
<1>5. port' \in [Ports -> PortRecords] /\ PortsGoOn /\ SamePorts /\ SameStatus
  BY <1>2, <1>4 DEF PortsGoOn, SamePorts, SameStatus
<1>6. /\ ListInv' /\ StateInv' /\ FrameInv' /\ CarryInv' /\ GpuInv'
      /\ Live' = Live /\ Queued' = Queued /\ Total' = Total
  BY <1>2, <1>5, PortsChange
<1>7. presenter' \in PresenterRecords /\ presenter'.pc = "flip"
  BY <1>2 DEF Looping, PresenterRecords, NoId
<1>8. FlipTypes'
  BY <1>1, <1>2, <1>5, <1>7 DEF FlipTypes, PresenterRecords
<1>9. SameRequests /\ SameCancels
  BY <1>2, <1>6 DEF SameRequests, SameCancels
<1>10. ClosedPortsEmpty' /\ StatusInv'
  BY <1>1, <1>5, <1>6, <1>9, ClosedStays, StatusStays
<1>11. PortInv'
  BY <1>1, <1>2, <1>4 DEF PortInv
<1>12. BudgetInv'
  BY <1>1, <1>2, <1>6 DEF BudgetInv, Reserving, GpuReserving
<1>13. PresenterInv'
  BY <1>1, <1>2, <1>6, <1>7 DEF PresenterInv
<1> QED
  BY <1>6, <1>8, <1>10, <1>11, <1>12, <1>13 DEF FlipIInv

------------------------------------------------------------------------------
(* A request goes on *)

LEMMA StateChange ==
  ASSUME FlipTypes, ListInv, NEW id \in Live,
         NEW s \in {"Reserved", "Recording", "Ready", "Presenting"},
         request' = [request EXCEPT ![id].state = s]
  PROVE  /\ DOMAIN request' = DOMAIN request /\ request' \in [DOMAIN request' -> Requests]
         /\ \A x \in Live : x # id => request'[x] = request[x]
         /\ \A x \in Live : /\ request'[x].port = request[x].port
                            /\ request'[x].generation = request[x].generation
                            /\ request'[x].eop <=> request[x].eop
                            /\ request'[x].frame = request[x].frame
         /\ request'[id].state = s
<1>1. id \in DOMAIN request /\ DOMAIN request = Live /\ request \in [DOMAIN request -> Requests]
  BY DEF ListInv, FlipTypes
<1> QED
  BY <1>1 DEF Requests

LEMMA FrameChange ==
  ASSUME FlipTypes, ListInv, NEW id \in Live, NEW f \in 0..FrameCount,
         request' = [request EXCEPT ![id].frame = f]
  PROVE  /\ DOMAIN request' = DOMAIN request /\ request' \in [DOMAIN request' -> Requests]
         /\ \A x \in Live : x # id => request'[x] = request[x]
         /\ \A x \in Live : /\ request'[x].port = request[x].port
                            /\ request'[x].generation = request[x].generation
                            /\ request'[x].eop <=> request[x].eop
                            /\ request'[x].state = request[x].state
         /\ request'[id].frame = f
<1>1. id \in DOMAIN request /\ DOMAIN request = Live /\ request \in [DOMAIN request -> Requests]
  BY DEF ListInv, FlipTypes
<1> QED
  BY <1>1 DEF Requests

(* The presenter's request is the first of the queue and not awaited. *)
LEMMA FrontFacts ==
  ASSUME FlipTypes, ListInv, PresenterInv, presenter.pc \in {"due", "mark", "present"}
  PROVE  /\ requests # <<>> /\ presenter.id = Head(requests)
         /\ presenter.id \in Range(requests) /\ presenter.id \in Live
         /\ request[presenter.id].state \in {"Ready", "Presenting"}
         /\ presenter.id \notin Awaited
<1>1. requests # <<>> /\ presenter.id = Head(requests) /\ request[presenter.id].state \in {"Ready", "Presenting"}
  BY DEF PresenterInv, AtFront
<1>2. presenter.id \in Range(requests)
  BY <1>1, TailFacts DEF FlipTypes, ListInv
<1> QED
  BY <1>1, <1>2 DEF Live, Awaited, ToComplete

LEMMA GpuKept ==
  ASSUME FlipIInv, NEW done, AwaitedStay(done), gpu.id \notin done, SamePorts, UNCHANGED gpu
  PROVE  GpuInv'
<1>1. FlipTypes /\ ListInv /\ CarryInv /\ GpuInv
  BY Parts
<1>2. gpu.pc = "drop" => ~Current(gpu.id)'
  <2> SUFFICES ASSUME gpu.pc = "drop" PROVE ~Current(gpu.id)'
    OBVIOUS
  <2>1. gpu.id \in Awaited /\ ~Current(gpu.id)
    BY <1>1 DEF GpuInv, Live, Awaited, ToComplete
  <2>2. request'[gpu.id] = request[gpu.id]
    BY <2>1 DEF AwaitedStay
  <2>3. \A x \in Live : request'[x] = request[x] => (Current(x)' <=> Current(x))
    BY <1>1, CurrentStays
  <2> QED
    BY <2>1, <2>2, <2>3 DEF Awaited
<1> QED
  BY <1>1, <1>2, GpuStays

LEMMA FlipMarkStep ==
  ASSUME FlipIInv, FlipMark
  PROVE  FlipIInv'
<1> DEFINE id == presenter.id
<1>1. /\ FlipTypes /\ ListInv /\ StateInv /\ PortInv /\ BudgetInv /\ CarryInv
      /\ GpuInv /\ FrameInv /\ PresenterInv /\ ClosedPortsEmpty /\ StatusInv
  BY Parts
<1>2. /\ UNCHANGED <<port, requests, cpu, cancelled, processing, reserved, work, device,
                     free, last, guest, gpu, sleepers, exit, instance>>
      /\ presenter.pc = "mark" /\ PresenterGoto("present")
      /\ request' = [request EXCEPT ![id].state = "Presenting"]
  BY DEF FlipMark, PresenterAt, submissions, pool, ending
<1>3. /\ requests # <<>> /\ id = Head(requests) /\ id \in Range(requests) /\ id \in Live
      /\ id \notin Awaited /\ request[id].state = "Ready"
  BY <1>1, <1>2, FrontFacts DEF PresenterInv, AtFront
<1>4. /\ DOMAIN request' = DOMAIN request /\ request' \in [DOMAIN request' -> Requests]
      /\ \A x \in Live : x # id => request'[x] = request[x]
      /\ \A x \in Live : /\ request'[x].port = request[x].port
                         /\ request'[x].generation = request[x].generation
                         /\ request'[x].eop <=> request[x].eop
                         /\ request'[x].frame = request[x].frame
      /\ request'[id].state = "Presenting"
  <2>1. "Presenting" \in {"Reserved", "Recording", "Ready", "Presenting"}
    OBVIOUS
  <2> QED
    BY <1>1, <1>2, <1>3, <2>1, StateChange
<1>5. presenter' \in PresenterRecords /\ presenter'.pc = "present" /\ presenter'.id = id
  BY <1>1, <1>2 DEF FlipTypes, PresenterRecords, PresenterGoto
<1>6. Live' = Live /\ Queued' = Queued /\ Total' = Total
  BY <1>2, LiveStays
<1>7. FlipTypes'
  BY <1>1, <1>2, <1>4, <1>5 DEF FlipTypes, PresenterRecords
<1> HIDE DEF id
<1>8. SamePorts /\ SameStatus /\ SameRequests /\ SameCancels
  BY <1>2, <1>4, <1>6 DEF SamePorts, SameStatus, SameRequests, SameCancels
<1>9. AwaitedStay({}) /\ Awaited' \subseteq Awaited
  BY <1>2, <1>3, <1>4, <1>6 DEF AwaitedStay, Awaited, ToComplete
<1>10. ListInv' /\ ClosedPortsEmpty' /\ StatusInv'
  BY <1>1, <1>2, <1>4, <1>6, <1>8, ListStays, ClosedStays, StatusStays
<1>11. StateInv'
  <2>1. id \notin cpu
    BY <1>1, <1>3 DEF ListInv
  <2> QED
    BY <1>1, <1>2, <1>3, <1>4, <1>6, <2>1 DEF StateInv, Live
<1>12. PortInv' /\ BudgetInv'
  BY <1>1, <1>2, <1>6 DEF PortInv, BudgetInv, Reserving, GpuReserving
<1>13. CarryInv' /\ GpuInv'
  BY <1>1, <1>2, <1>8, <1>9, CarryKept, GpuKept
<1>14. FrameInv'
  <2>1. SameFrames
    BY <1>4, <1>6 DEF SameFrames
  <2> QED
    BY <1>1, <1>2, <2>1, FrameStays
<1>15. PresenterInv'
  <2>1. Current(id)
    BY <1>1, <1>2 DEF PresenterInv, id
  <2>2. \A x \in Live : Current(x)' <=> Current(x)
    BY <1>1, <1>4, <1>8, CurrentStays
  <2>3. \A x \in Live : request[x].state # "Presenting"
    BY <1>1, <1>2 DEF PresenterInv
  <2> QED
    BY <1>1, <1>2, <1>3, <1>4, <1>5, <1>6, <2>1, <2>2, <2>3 DEF PresenterInv, AtFront, id
<1> QED
  BY <1>7, <1>10, <1>11, <1>12, <1>13, <1>14, <1>15 DEF FlipIInv

(* The request the GPU thread is at is carried by nobody else. *)
LEMMA OnlyGpuCarries ==
  ASSUME FlipTypes, ListInv, CarryInv, GpuInv, gpu.id # NoId
  PROVE  /\ gpu.id \in Awaited
         /\ \A g \in Guests : guest[g].id # gpu.id
         /\ gpu.id \notin Range(work) /\ gpu.id \notin Range(device)
<1>1. gpu.id \in Awaited
  BY DEF GpuInv, Recorded, Awaited, ToComplete, Live
<1> QED
  BY <1>1 DEF CarryInv

LEMMA PrepareFrameStep ==
  ASSUME FlipIInv, PrepareFrame
  PROVE  FlipIInv'
<1> DEFINE id == gpu.id
           f == Head(free)
<1>1. /\ FlipTypes /\ ListInv /\ StateInv /\ PortInv /\ BudgetInv /\ CarryInv
      /\ GpuInv /\ FrameInv /\ PresenterInv /\ ClosedPortsEmpty /\ StatusInv
  BY Parts
<1>2. /\ UNCHANGED <<port, requests, cpu, cancelled, processing, reserved, work, device,
                     guest, presenter, sleepers, exit, instance>>
      /\ gpu.pc = "frame" /\ GpuGoto("prepared")
      /\ free # <<>> /\ free' = Tail(free) /\ last' = IF last = f THEN NoFrame ELSE last
      /\ request' = [request EXCEPT ![id].frame = f]
  BY DEF PrepareFrame, Acquire, GpuAt, submissions, ending
<1>3. /\ free \in Seq(Frames) /\ IsInjective(free)
      /\ last \in 0..FrameCount /\ (last # NoFrame => last \in Range(free))
  BY <1>1 DEF FlipTypes, FrameInv, FramesExact
<1>4. /\ f \in Frames /\ f \in Range(free)
      /\ free' \in Seq(Frames) /\ IsInjective(free') /\ Range(free') = Range(free) \ {f}
  BY <1>2, <1>3, TailFacts, HeadTailProperties
<1>5. /\ id # NoId /\ id \in Range(requests) \cup cancelled /\ id \in Live
      /\ request[id].state = "Recording" /\ request[id].frame = NoFrame
  BY <1>1, <1>2 DEF GpuInv, Live
<1>6. f \in 0..FrameCount /\ f # NoFrame
  BY <1>4, FlipQueueAssumption DEF Frames, NoFrame, FlipQueueAssumption
<1> HIDE DEF f
<1>7. /\ DOMAIN request' = DOMAIN request /\ request' \in [DOMAIN request' -> Requests]
      /\ \A x \in Live : x # id => request'[x] = request[x]
      /\ \A x \in Live : /\ request'[x].port = request[x].port
                         /\ request'[x].generation = request[x].generation
                         /\ request'[x].eop <=> request[x].eop
                         /\ request'[x].state = request[x].state
      /\ request'[id].frame = f
  BY <1>1, <1>2, <1>5, <1>6, FrameChange
<1>8. /\ gpu' \in Calls(GpuPcs) /\ gpu'.pc = "prepared" /\ gpu'.id = id
  BY <1>1, <1>2, GpuGotoFacts DEF GpuPcs
<1>9. FlipTypes'
  <2>1. last' \in 0..FrameCount
    BY <1>2, <1>3, FlipQueueAssumption DEF FlipQueueAssumption, NoFrame
  <2> QED
    BY <1>1, <1>2, <1>4, <1>7, <1>8, <2>1 DEF FlipTypes, GpuPcs
<1>10. Live' = Live /\ Queued' = Queued /\ Total' = Total
  BY <1>2, LiveStays
<1>11. /\ id \in Awaited /\ \A g \in Guests : guest[g].id # id
       /\ id \notin Range(work) /\ id \notin Range(device)
  BY <1>1, <1>5, OnlyGpuCarries
<1> HIDE DEF id
<1>12. SamePorts /\ SameStatus /\ SameRequests /\ SameCancels
  BY <1>2, <1>7, <1>10 DEF SamePorts, SameStatus, SameRequests, SameCancels
<1>13. AwaitedStay({id}) /\ Awaited' = Awaited
  BY <1>2, <1>7, <1>10 DEF AwaitedStay, Awaited, ToComplete
<1>14. ListInv' /\ ClosedPortsEmpty' /\ StatusInv'
  BY <1>1, <1>2, <1>7, <1>10, <1>12, ListStays, ClosedStays, StatusStays
<1>15. StateInv'
  BY <1>1, <1>2, <1>5, <1>7, <1>10 DEF StateInv, Live
<1>16. PortInv' /\ BudgetInv'
  <2>1. Reserving' = Reserving /\ GpuReserving' = 0 /\ GpuReserving = 0
    BY <1>2, <1>8 DEF Reserving, GpuReserving
  <2> QED
    BY <1>1, <1>2, <1>8, <1>10, <2>1 DEF PortInv, BudgetInv
<1>17. CarryInv'
  BY <1>1, <1>2, <1>8, <1>11, <1>13, CarryKept DEF id
<1>18. GpuInv'
  BY <1>2, <1>5, <1>6, <1>7, <1>8 DEF GpuInv, Recorded
<1>19. FrameInv'
  <2> DEFINE used == {x \in Live : request[x].frame # NoFrame}
             used2 == {x \in Live' : request'[x].frame # NoFrame}
  <2>1. /\ \A x \in used : request[x].frame \notin Range(free)
        /\ \A x, other \in used : request[x].frame = request[other].frame => x = other
        /\ Range(free) \cup {request[x].frame : x \in used} = Frames
    BY <1>1 DEF FrameInv, FramesExact
  <2>2. used2 = used \cup {id} /\ id \notin used
    BY <1>5, <1>6, <1>7, <1>10
  <2>3. request'[id].frame = f /\ \A x \in used : request'[x].frame = request[x].frame
    BY <1>7, <2>2
  <2> HIDE DEF used, used2
  <2>4. \A x \in used2 : request'[x].frame \notin Range(free')
    BY <1>4, <2>1, <2>2, <2>3
  <2>5. \A x, other \in used2 : request'[x].frame = request'[other].frame => x = other
    BY <1>4, <2>1, <2>2, <2>3
  <2>6. {request'[x].frame : x \in used2} = {request[x].frame : x \in used} \cup {f}
    BY <2>2, <2>3
  <2>7. Range(free') \cup {request'[x].frame : x \in used2} = Frames
    BY <1>4, <2>1, <2>6
  <2>8. FramesExact'
    BY <1>4, <2>4, <2>5, <2>7 DEF FramesExact, used2, Frames, NoFrame
  <2> QED
    BY <1>2, <1>3, <1>4, <2>8 DEF FrameInv, NoFrame
<1>20. PresenterInv'
  <2>1. SameFront
    <3>1. presenter.pc \in {"due", "mark", "present"} => presenter.id # id /\ presenter.id \in Live
      BY <1>1, <1>11, FrontFacts
    <3> QED
      BY <1>1, <1>2, <1>7, <3>1, FrontFacts DEF SameFront
  <2>2. presenter.pc \in {"mark", "present"} => Current(presenter.id)'
    <3>1. presenter.pc \in {"mark", "present"} => presenter.id \in Live /\ Current(presenter.id)
      BY <1>1, FrontFacts DEF PresenterInv
    <3>2. \A x \in Live : Current(x)' <=> Current(x)
      BY <1>1, <1>7, <1>12, CurrentStays
    <3> QED
      BY <1>2, <3>1, <3>2
  <2> QED
    BY <1>1, <1>2, <1>7, <1>10, <2>1, <2>2, PresenterStays
<1> QED
  BY <1>9, <1>14, <1>15, <1>16, <1>17, <1>18, <1>19, <1>20 DEF FlipIInv

LEMMA PresenterKept ==
  ASSUME FlipIInv, SamePorts, UNCHANGED <<processing, presenter>>, SameFront,
         \A id \in Live' : request'[id].state = "Presenting" =>
           id \in Live /\ request[id].state = "Presenting"
  PROVE  PresenterInv'
<1>1. FlipTypes /\ ListInv /\ PresenterInv
  BY Parts
<1>2. presenter.pc \in {"mark", "present"} => Current(presenter.id)'
  <2> SUFFICES ASSUME presenter.pc \in {"mark", "present"} PROVE Current(presenter.id)'
    OBVIOUS
  <2>1. presenter.id \in Live /\ Current(presenter.id)
    BY <1>1, FrontFacts DEF PresenterInv
  <2>2. request'[presenter.id] = request[presenter.id]
    BY DEF SameFront
  <2>3. \A x \in Live : request'[x] = request[x] => (Current(x)' <=> Current(x))
    BY <1>1, CurrentStays
  <2> QED
    BY <2>1, <2>2, <2>3
<1> QED
  BY <1>1, <1>2, PresenterStays

LEMMA PrepareStep ==
  ASSUME FlipIInv, Prepare
  PROVE  FlipIInv'
<1> DEFINE id == gpu.id
<1>1. /\ FlipTypes /\ ListInv /\ StateInv /\ PortInv /\ BudgetInv /\ CarryInv
      /\ GpuInv /\ FrameInv /\ PresenterInv /\ ClosedPortsEmpty /\ StatusInv
  BY Parts
<1>2. /\ UNCHANGED <<port, cancelled, processing, reserved, work, device, free, last,
                     guest, presenter, sleepers, exit, instance>>
      /\ gpu.pc = "prepare" /\ GpuGoto(IF id \in cancelled THEN "prepared" ELSE "current")
      /\ \/ id \in cpu /\ requests' = Append(requests, id) /\ cpu' = cpu \ {id}
         \/ id \notin cpu /\ UNCHANGED <<requests, cpu>>
      /\ request' = [request EXCEPT ![id].state = "Recording"]
  BY DEF Prepare, GpuAt, submissions, pool, ending
<1>3. /\ id # NoId /\ id \in Live /\ id \in Nat
      /\ request[id].state = "Reserved" /\ request[id].frame = NoFrame
  BY <1>1, <1>2, RequestFacts DEF GpuInv, StateInv
<1>4. /\ DOMAIN request' = DOMAIN request /\ request' \in [DOMAIN request' -> Requests]
      /\ \A x \in Live : x # id => request'[x] = request[x]
      /\ \A x \in Live : /\ request'[x].port = request[x].port
                         /\ request'[x].generation = request[x].generation
                         /\ request'[x].eop <=> request[x].eop
                         /\ request'[x].frame = request[x].frame
      /\ request'[id].state = "Recording"
  <2>1. "Recording" \in {"Reserved", "Recording", "Ready", "Presenting"}
    OBVIOUS
  <2> QED
    BY <1>1, <1>2, <1>3, <2>1, StateChange
<1>5. /\ gpu' \in Calls(GpuPcs) /\ gpu'.id = id
      /\ gpu'.pc = IF id \in cancelled THEN "prepared" ELSE "current"
  BY <1>1, <1>2, GpuGotoFacts DEF GpuPcs
<1>6. /\ id \in Awaited /\ \A g \in Guests : guest[g].id # id
      /\ id \notin Range(work) /\ id \notin Range(device)
  BY <1>1, <1>3, OnlyGpuCarries
<1> HIDE DEF id
<1>7. /\ requests \in Seq(Nat) /\ IsInjective(requests)
      /\ Range(requests) \cap cpu = {} /\ IsFiniteSet(cpu)
  BY <1>1, TotalFacts DEF FlipTypes, ListInv
<1>8. /\ requests' \in Seq(Nat) /\ IsInjective(requests')
      /\ Range(requests) \subseteq Range(requests')
      /\ Range(requests') \subseteq Range(requests) \cup {id}
      /\ id \in cpu => id \in Range(requests')
      /\ cpu' = cpu \ {id} /\ Range(requests') \cap cpu' = {}
      /\ Queued' = Queued
  <2>1. CASE id \in cpu
    <3>1. /\ requests' \in Seq(Nat) /\ Range(requests') = Range(requests) \cup {id}
          /\ IsInjective(requests')
      <4>1. requests' = Append(requests, id) /\ id \notin Range(requests)
        BY <1>2, <1>7, <2>1
      <4> QED
        BY <1>3, <1>7, <4>1, AppendFacts
    <3> QED
      BY <1>2, <1>7, <2>1, <3>1 DEF Queued
  <2>2. CASE id \notin cpu
    BY <1>2, <1>7, <2>2 DEF Queued
  <2> QED
    BY <2>1, <2>2
<1>9. requests # <<>> => requests' # <<>> /\ Head(requests') = Head(requests)
  <2>1. CASE id \in cpu
    <3> SUFFICES ASSUME requests # <<>> PROVE requests' # <<>> /\ Head(requests') = Head(requests)
      OBVIOUS
    <3>1. requests' = Append(requests, id)
      BY <1>2, <2>1
    <3>2. /\ Len(Append(requests, id)) = Len(requests) + 1 /\ Len(requests) \in Nat \ {0}
          /\ Append(requests, id)[1] = requests[1]
      BY <1>3, <1>7, AppendProperties, EmptySeq
    <3> QED
      BY <1>7, <1>8, <3>1, <3>2, EmptySeq
  <2>2. CASE id \notin cpu
    BY <1>2, <2>2
  <2> QED
    BY <2>1, <2>2
<1>10. Live' = Live /\ Live = Queued \cup cancelled
  BY <1>2, <1>8 DEF Live, Queued
<1>11. Total' = Total
  <2>1. IsFiniteSet(cpu')
    BY <1>7, <1>8, FS_Subset
  <2>2. Total' = Cardinality(Queued')
    BY <1>8, <2>1, CountFacts DEF Total, Queued
  <2> QED
    BY <1>1, <1>8, <2>2, TotalFacts
<1>12. FlipTypes'
  BY <1>1, <1>2, <1>4, <1>5, <1>8 DEF FlipTypes, GpuPcs
<1>13. ListInv'
  BY <1>1, <1>2, <1>4, <1>8, <1>10 DEF ListInv
<1>14. SamePorts /\ SameStatus /\ SameRequests /\ SameCancels
  BY <1>2, <1>4, <1>10 DEF SamePorts, SameStatus, SameRequests, SameCancels
<1>15. AwaitedStay({id}) /\ Awaited' \subseteq Awaited
  BY <1>2, <1>3, <1>4, <1>6, <1>8, <1>10 DEF AwaitedStay, Awaited, ToComplete
<1>16. ClosedPortsEmpty' /\ StatusInv'
  BY <1>1, <1>8, <1>11, <1>14, ClosedStays, StatusStays
<1>17. StateInv'
  <2>1. \A x \in cpu' : request'[x].state = "Reserved" /\ ~request'[x].eop
    BY <1>1, <1>4, <1>8 DEF StateInv, Live
  <2>2. \A x \in Live : x # id =>
          /\ request'[x].state = "Reserved" => request'[x].frame = NoFrame
          /\ request'[x].state \in {"Ready", "Presenting"} =>
               x \in Range(requests') /\ request'[x].frame # NoFrame
    BY <1>1, <1>4, <1>8 DEF StateInv
  <2>3. \A x \in Live :
          /\ request'[x].generation <= port[request'[x].port].generation
          /\ port[request'[x].port].generation > 0
    BY <1>1, <1>4 DEF StateInv
  <2> QED
    BY <1>2, <1>4, <1>10, <2>1, <2>2, <2>3 DEF StateInv
<1>18. PortInv' /\ BudgetInv'
  <2>1. Reserving' = Reserving /\ GpuReserving' = 0 /\ GpuReserving = 0
    BY <1>2, <1>5 DEF Reserving, GpuReserving
  <2> QED
    BY <1>1, <1>2, <1>5, <1>11, <2>1 DEF PortInv, BudgetInv
<1>19. CarryInv'
  BY <1>1, <1>2, <1>5, <1>6, <1>15, CarryKept DEF id
<1>20. GpuInv'
  <2>1. CASE id \in cancelled
    <3>1. id \notin Range(requests')
      BY <1>1, <1>8, <1>10, <1>13, <1>2, <2>1 DEF ListInv, Queued
    <3> QED
      BY <1>2, <1>3, <1>4, <1>5, <2>1, <3>1 DEF GpuInv, Recorded
  <2>2. CASE id \notin cancelled
    <3>1. id \in Range(requests')
      BY <1>3, <1>8, <1>10, <2>2 DEF Queued
    <3> QED
      BY <1>2, <1>3, <1>4, <1>5, <2>2, <3>1, ZenonT(60) DEF GpuInv
  <2> QED
    BY <2>1, <2>2
<1>21. FrameInv'
  <2>1. SameFrames
    BY <1>4, <1>10 DEF SameFrames
  <2> QED
    BY <1>1, <1>2, <2>1, FrameStays
<1>22. PresenterInv'
  <2>1. SameFront
    BY <1>1, <1>4, <1>6, <1>9, FrontFacts DEF SameFront
  <2> QED
    BY <1>2, <1>4, <1>10, <1>14, <2>1, PresenterKept
<1> QED
  BY <1>12, <1>13, <1>16, <1>17, <1>18, <1>19, <1>20, <1>21, <1>22 DEF FlipIInv

(* A port that can be used keeps its requests: those that are dropped are  *)
(* of ports that are closing.                                              *)
LEMMA DroppedPort ==
  ASSUME FlipIInv, NEW id \in Queued, ~Current(id)
  PROVE  request[id].port \in Ports /\ ~Usable(request[id].port)
<1>1. /\ FlipTypes /\ ListInv /\ PortInv /\ ClosedPortsEmpty
  BY Parts
<1>2. id \in Live /\ request[id].port \in Ports
  BY <1>1, RequestFacts DEF Queued, Live
<1>3. id \in OfPort(request[id].port)
  BY DEF OfPort, Queued
<1>4. PICK g \in Guests : guest[g].pc = "cancel" /\ guest[g].port = request[id].port
  BY <1>1, <1>2, <1>3 DEF ClosedPortsEmpty
<1> QED
  BY <1>1, <1>2, <1>4 DEF PortInv, Usable

LEMMA PrepareDropStep ==
  ASSUME FlipIInv, PrepareDrop
  PROVE  FlipIInv'
<1> DEFINE id == gpu.id
           rest == DOMAIN request \ {id}
<1>1. /\ FlipTypes /\ ListInv /\ StateInv /\ PortInv /\ BudgetInv /\ CarryInv
      /\ GpuInv /\ FrameInv /\ PresenterInv /\ ClosedPortsEmpty /\ StatusInv
  BY Parts
<1>2. /\ UNCHANGED <<port, request, cpu, processing, reserved, work, device, free, last,
                     guest, presenter, sleepers, exit, instance>>
      /\ gpu.pc = "drop" /\ GpuGoto("prepared")
      /\ \/ /\ id \in Range(requests) /\ requests' = Keep(requests, rest)
            /\ cancelled' = cancelled \cup {id}
         \/ id \notin Range(requests) /\ UNCHANGED <<requests, cancelled>>
  BY DEF PrepareDrop, GpuAt, submissions, pool, ending
<1>3. /\ id # NoId /\ id \in Range(requests) \cup cancelled /\ id \in Live
      /\ request[id].state = "Recording" /\ request[id].frame = NoFrame /\ ~Current(id)
  BY <1>1, <1>2 DEF GpuInv, Live
<1>4. /\ gpu' \in Calls(GpuPcs) /\ gpu'.id = id /\ gpu'.pc = "prepared"
  BY <1>1, <1>2, GpuGotoFacts DEF GpuPcs
<1>5. /\ id \in Awaited /\ \A g \in Guests : guest[g].id # id
      /\ id \notin Range(work) /\ id \notin Range(device)
  BY <1>1, <1>3, OnlyGpuCarries
<1> HIDE DEF id
<1>6. /\ requests \in Seq(Nat) /\ IsInjective(requests) /\ IsFiniteSet(cpu)
      /\ Range(requests) \cap cpu = {} /\ Queued \cap cancelled = {}
      /\ Range(requests) \subseteq DOMAIN request
  BY <1>1, TotalFacts DEF FlipTypes, ListInv, Live
<1>7. /\ requests' \in Seq(Nat) /\ IsInjective(requests')
      /\ Range(requests') = Range(requests) \ {id} /\ cancelled' = cancelled \cup {id}
  <2>1. CASE id \in Range(requests)
    <3>1. requests' = Keep(requests, rest) /\ cancelled' = cancelled \cup {id}
      BY <1>2, <2>1
    <3>2. /\ requests' \in Seq(Nat) /\ IsInjective(requests')
          /\ Range(requests') = Range(requests) \cap rest
      BY <1>6, <3>1, KeepFacts
    <3> QED
      BY <1>6, <3>1, <3>2
  <2>2. CASE id \notin Range(requests)
    BY <1>2, <1>3, <1>6, <2>2
  <2> QED
    BY <2>1, <2>2
<1>8. presenter.pc \in {"due", "mark", "present"} => requests' # <<>> /\ Head(requests') = Head(requests)
  <2> SUFFICES ASSUME presenter.pc \in {"due", "mark", "present"}
               PROVE  requests' # <<>> /\ Head(requests') = Head(requests)
    OBVIOUS
  <2>1. requests # <<>> /\ Head(requests) \in Live /\ Head(requests) \notin Awaited
    BY <1>1, FrontFacts
  <2>2. Head(requests) \in rest
    BY <1>1, <1>5, <2>1 DEF ListInv
  <2>3. Keep(requests, rest) # <<>> /\ Head(Keep(requests, rest)) = Head(requests)
    BY <1>6, <2>1, <2>2, KeepFacts
  <2> QED
    BY <1>2, <2>1, <2>3
<1> HIDE DEF rest
<1>9. id \notin cpu
  BY <1>1, <1>3 DEF StateInv
<1>10. Queued' = Queued \ {id} /\ Live' = Live /\ Queued' \cap cancelled' = {}
  <2>1. Live' = Live
    BY <1>2, <1>3, <1>7 DEF Live
  <2>2. Queued' = Queued \ {id}
    BY <1>2, <1>7, <1>9 DEF Queued
  <2> QED
    BY <1>6, <1>7, <2>1, <2>2
<1>11. /\ Total' \in Nat /\ Total' = Cardinality(Queued')
       /\ IsFiniteSet(Queued') /\ Total' <= Total
  <2>1. /\ IsFiniteSet(Queued') /\ Total' = Cardinality(Queued') /\ Total' \in Nat
    BY <1>2, <1>6, <1>7, CountFacts, FS_CardinalityType DEF Total, Queued
  <2> QED
    BY <1>1, <1>10, <2>1, TotalFacts
<1>12. FlipTypes'
  BY <1>1, <1>2, <1>4, <1>7 DEF FlipTypes, GpuPcs
<1>13. ListInv'
  BY <1>1, <1>2, <1>6, <1>7, <1>10 DEF ListInv
<1>14. SamePorts /\ SameStatus /\ SameRequests /\ SameCancels
  BY <1>2, <1>10 DEF SamePorts, SameStatus, SameRequests, SameCancels
<1>15. AwaitedStay({}) /\ Awaited' = Awaited
  BY <1>2, <1>7, <1>10 DEF AwaitedStay, Awaited, ToComplete
<1>16. ClosedPortsEmpty'
  BY <1>1, <1>10, <1>14, ClosedStays
<1>17. StateInv'
  BY <1>1, <1>2, <1>3, <1>7, <1>10 DEF StateInv
<1>18. PortInv' /\ BudgetInv'
  <2>1. Reserving' = Reserving /\ GpuReserving' = 0 /\ GpuReserving = 0
    BY <1>2, <1>4 DEF Reserving, GpuReserving
  <2>2. Total' <= Capacity
    BY <1>1, <1>11, TotalFacts, FlipQueueAssumption DEF BudgetInv, FlipQueueAssumption
  <2> QED
    BY <1>1, <1>2, <1>4, <2>1, <2>2 DEF PortInv, BudgetInv
<1>19. CarryInv'
  BY <1>1, <1>2, <1>4, <1>15, CarryKept DEF id
<1>20. GpuInv'
  BY <1>2, <1>3, <1>4, <1>7 DEF GpuInv, Recorded
<1>21. FrameInv'
  <2>1. SameFrames
    BY <1>2, <1>10 DEF SameFrames
  <2> QED
    BY <1>1, <1>2, <2>1, FrameStays
<1>22. PresenterInv'
  <2>1. SameFront
    BY <1>2, <1>8 DEF SameFront
  <2> QED
    BY <1>2, <1>10, <1>14, <2>1, PresenterKept
<1>23. StatusInv'
  <2> SUFFICES ASSUME NEW p \in Ports, Usable(p)
               PROVE  /\ port[p].gc = Cardinality(EopOf(p)')
                      /\ port[p].pending >= Cardinality(OfPort(p)')
                      /\ (\A q \in Ports \ {p} : port[q].generation = 0) => port[p].pending = Total'
    BY <1>1, <1>2 DEF StatusInv, Usable
  <2>1. id \in Queued => request[id].port \in Ports /\ request[id].port # p
                         /\ port[request[id].port].generation > 0
    BY <1>1, <1>3, DroppedPort DEF StateInv
  <2>2. OfPort(p)' = OfPort(p) /\ EopOf(p)' = EopOf(p)
    BY <1>2, <1>10, <2>1 DEF OfPort, EopOf, Queued
  <2>3. (\A q \in Ports \ {p} : port[q].generation = 0) => Total' = Total
    <3>1. id \notin Queued => Total' = Total
      BY <1>1, <1>10, <1>11, TotalFacts
    <3> QED
      BY <2>1, <3>1
  <2> QED
    BY <1>1, <2>2, <2>3 DEF StatusInv
<1> QED
  BY <1>12, <1>13, <1>16, <1>17, <1>18, <1>19, <1>20, <1>21, <1>22, <1>23 DEF FlipIInv

------------------------------------------------------------------------------
(* A request ends *)

(* Its frame goes back to the pool. *)
LEMMA FrameReleased ==
  ASSUME FlipTypes, ListInv, FrameInv, NEW id \in Live, request[id].frame # NoFrame,
         Live' = Live \ {id}, \A x \in Live' : request'[x].frame = request[x].frame,
         NEW shown \in BOOLEAN, Release(request[id].frame, shown)
  PROVE  FrameInv' /\ free' \in Seq(Frames) /\ last' \in 0..FrameCount
<1> DEFINE f == request[id].frame
           used == {x \in Live : request[x].frame # NoFrame}
           used2 == {x \in Live' : request'[x].frame # NoFrame}
<1>1. f \in Frames /\ f \in 0..FrameCount
  BY RequestFacts DEF Frames, NoFrame
<1>2. /\ free \in Seq(Frames) /\ IsInjective(free)
      /\ last \in 0..FrameCount /\ (last # NoFrame => last \in Range(free))
      /\ free' = Append(free, f) /\ last' \in {f, last}
  BY DEF FlipTypes, FrameInv, FramesExact, Release
<1>3. /\ \A x \in used : request[x].frame \notin Range(free)
      /\ \A x, other \in used : request[x].frame = request[other].frame => x = other
      /\ Range(free) \cup {request[x].frame : x \in used} = Frames
  BY DEF FrameInv, FramesExact
<1>4. used2 = used \ {id} /\ \A x \in used2 : request'[x].frame = request[x].frame
  OBVIOUS
<1>5. id \in used
  OBVIOUS
<1> HIDE DEF used, used2
<1>6. f \notin Range(free)
  BY <1>3, <1>5
<1> HIDE DEF f
<1>7. /\ free' \in Seq(Frames) /\ Range(free') = Range(free) \cup {f} /\ IsInjective(free')
  BY <1>1, <1>2, <1>6, AppendFacts
<1>8. \A x \in used2 : request'[x].frame \notin Range(free')
  BY <1>3, <1>4, <1>5, <1>7 DEF f
<1>9. \A x, other \in used2 : request'[x].frame = request'[other].frame => x = other
  BY <1>3, <1>4
<1>10. {request[x].frame : x \in used} = {request'[x].frame : x \in used2} \cup {f}
  BY <1>4, <1>5 DEF f
<1>11. Range(free') \cup {request'[x].frame : x \in used2} = Frames
  BY <1>3, <1>7, <1>10
<1>12. FramesExact'
  BY <1>7, <1>8, <1>9, <1>11 DEF FramesExact, used2, Frames, NoFrame
<1> QED
  BY <1>1, <1>2, <1>7, <1>12 DEF FrameInv, NoFrame

LEMMA CompleteStep ==
  ASSUME FlipIInv, NEW id, Recorded(id), Complete(id),
         UNCHANGED <<port, requests, cpu, processing, reserved, presenter, guest>>
  PROVE  /\ ListInv' /\ StateInv' /\ FrameInv' /\ PresenterInv' /\ ClosedPortsEmpty' /\ StatusInv'
         /\ Total' = Total /\ AwaitedStay({id}) /\ Awaited' = Awaited \ {id}
         /\ request' \in [DOMAIN request' -> Requests]
         /\ free' \in Seq(Frames) /\ last' \in 0..FrameCount
         /\ sleepers' \subseteq Guests \cup {"gpu"}
<1>1. /\ FlipTypes /\ ListInv /\ StateInv /\ PortInv /\ BudgetInv /\ CarryInv
      /\ GpuInv /\ FrameInv /\ PresenterInv /\ ClosedPortsEmpty /\ StatusInv
  BY Parts
<1>2. /\ id \in Live /\ request[id].state = "Recording" /\ id \in Range(requests) \cup cancelled
      /\ id \in Range(requests) => request[id].frame # NoFrame
      /\ id \in Awaited /\ id \in DOMAIN request
  BY <1>1, RequestFacts DEF Recorded, Live, Awaited, ToComplete
<1>3. SamePorts /\ SameStatus /\ SameCancels
  BY DEF SamePorts, SameStatus, SameCancels
<1>4. Queued' = Queued /\ Total' = Total
  BY DEF Queued, Total
<1>5. CASE id \in Range(requests)
  <2>1. /\ UNCHANGED <<cancelled, free, last, sleepers>>
        /\ request' = [request EXCEPT ![id].state = "Ready"]
    BY <1>5 DEF Complete, pool
  <2>2. /\ DOMAIN request' = DOMAIN request /\ request' \in [DOMAIN request' -> Requests]
        /\ \A x \in Live : x # id => request'[x] = request[x]
        /\ \A x \in Live : /\ request'[x].port = request[x].port
                           /\ request'[x].generation = request[x].generation
                           /\ request'[x].eop <=> request[x].eop
                           /\ request'[x].frame = request[x].frame
        /\ request'[id].state = "Ready"
    <3>1. "Ready" \in {"Reserved", "Recording", "Ready", "Presenting"}
      OBVIOUS
    <3> QED
      BY <1>1, <1>2, <2>1, <3>1, StateChange
  <2>3. Live' = Live
    BY <2>1, LiveStays
  <2>4. ListInv'
    BY <1>1, <2>1, <2>2, ListStays
  <2>5. StateInv'
    <3>1. id \notin cpu
      BY <1>1, <1>5 DEF ListInv
    <3> QED
      BY <1>1, <1>2, <1>5, <2>1, <2>2, <2>3, <3>1 DEF StateInv, Live
  <2>6. SameFrames /\ SameRequests
    BY <2>2, <2>3 DEF SameFrames, SameRequests
  <2>7. FrameInv' /\ ClosedPortsEmpty' /\ StatusInv'
    BY <1>1, <1>3, <1>4, <2>1, <2>6, FrameStays, ClosedStays, StatusStays
  <2>8. AwaitedStay({id}) /\ Awaited' = Awaited \ {id}
    BY <2>1, <2>2, <2>3 DEF AwaitedStay, Awaited, ToComplete
  <2>9. PresenterInv'
    <3>1. SameFront
      BY <1>1, <1>2, <2>2, FrontFacts DEF SameFront
    <3> QED
      BY <1>3, <2>2, <2>3, <3>1, PresenterKept
  <2> QED
    BY <1>1, <1>4, <2>1, <2>2, <2>4, <2>5, <2>7, <2>8, <2>9 DEF FlipTypes
<1>6. CASE id \notin Range(requests)
  <2>1. /\ cancelled' = cancelled \ {id} /\ WakeDone
        /\ request' = [x \in DOMAIN request \ {id} |-> request[x]]
        /\ \/ request[id].frame # NoFrame /\ Release(request[id].frame, FALSE)
           \/ request[id].frame = NoFrame /\ UNCHANGED <<free, last>>
    BY <1>6 DEF Complete, Dismiss, Forget, pool
  <2>2. id \notin Queued /\ id \in cancelled
    BY <1>1, <1>2, <1>6 DEF ListInv
  <2>3. Live' = Live \ {id} /\ DOMAIN request' = Live' /\ \A x \in Live' : request'[x] = request[x]
    <3>1. Live' = Live \ {id}
      BY <2>1, <2>2 DEF Live, Queued
    <3> QED
      BY <1>1, <2>1, <3>1 DEF ListInv
  <2>4. request' \in [DOMAIN request' -> Requests]
    BY <1>1, <2>1 DEF FlipTypes
  <2>5. ListInv'
    BY <1>1, <1>4, <2>1, <2>3 DEF ListInv
  <2>6. StateInv'
    BY <1>1, <2>3 DEF StateInv, Live
  <2>7. SameRequests
    BY <2>3 DEF SameRequests
  <2>8. ClosedPortsEmpty' /\ StatusInv'
    BY <1>1, <1>3, <1>4, <2>7, ClosedStays, StatusStays
  <2>9. AwaitedStay({id}) /\ Awaited' = Awaited \ {id}
    BY <2>1, <2>3 DEF AwaitedStay, Awaited, ToComplete
  <2>10. FrameInv' /\ free' \in Seq(Frames) /\ last' \in 0..FrameCount
    <3>1. CASE request[id].frame # NoFrame /\ Release(request[id].frame, FALSE)
      BY <1>1, <1>2, <2>3, <3>1, FrameReleased
    <3>2. CASE request[id].frame = NoFrame /\ UNCHANGED <<free, last>>
      <4>1. SameFrames
        BY <2>3, <3>2 DEF SameFrames
      <4> QED
        BY <1>1, <3>2, <4>1, FrameStays DEF FlipTypes
    <3> QED
      BY <2>1, <3>1, <3>2
  <2>11. PresenterInv'
    <3>1. SameFront
      <4>1. presenter.pc \in {"due", "mark", "present"} => presenter.id \in Live' /\ requests # <<>>
        BY <1>1, <1>2, <2>3, FrontFacts
      <4> QED
        BY <2>3, <4>1 DEF SameFront
    <3> QED
      BY <1>3, <2>3, <3>1, PresenterKept
  <2>12. sleepers' \subseteq Guests \cup {"gpu"}
    BY <1>1, <2>1, WakeFacts
  <2> QED
    BY <1>4, <2>4, <2>5, <2>6, <2>8, <2>9, <2>10, <2>11, <2>12
<1> QED
  BY <1>5, <1>6

LEMMA CompleteCpuFlipStep ==
  ASSUME FlipIInv, CompleteCpuFlip
  PROVE  FlipIInv'
<1> DEFINE id == gpu.id
<1>1. /\ FlipTypes /\ ListInv /\ PortInv /\ BudgetInv /\ CarryInv /\ GpuInv
  BY Parts
<1>2. /\ UNCHANGED <<port, requests, cpu, processing, reserved, work, device,
                     guest, presenter, exit, instance>>
      /\ gpu.pc = "prepared" /\ Complete(id) /\ gpu' = Resting
  BY DEF CompleteCpuFlip, GpuAt, submissions, ending
<1>3. Recorded(id) /\ id # NoId
  BY <1>1, <1>2 DEF GpuInv
<1>4. /\ id \in Awaited /\ \A g \in Guests : guest[g].id # id
      /\ id \notin Range(work) /\ id \notin Range(device)
  BY <1>1, <1>3, OnlyGpuCarries
<1> HIDE DEF id
<1>5. /\ ListInv' /\ StateInv' /\ FrameInv' /\ PresenterInv' /\ ClosedPortsEmpty' /\ StatusInv'
      /\ Total' = Total /\ AwaitedStay({id}) /\ Awaited' = Awaited \ {id}
      /\ request' \in [DOMAIN request' -> Requests]
      /\ free' \in Seq(Frames) /\ last' \in 0..FrameCount
      /\ sleepers' \subseteq Guests \cup {"gpu"}
  BY <1>2, <1>3, CompleteStep
<1>6. FlipTypes'
  BY <1>1, <1>2, <1>5, RestingFacts DEF FlipTypes, GpuPcs
<1>7. PortInv' /\ BudgetInv'
  <2>1. Reserving' = Reserving /\ GpuReserving' = 0 /\ GpuReserving = 0
    BY <1>2, RestingFacts DEF Reserving, GpuReserving
  <2> QED
    BY <1>1, <1>2, <1>5, <2>1, RestingFacts DEF PortInv, BudgetInv
<1>8. CarryInv'
  <2>1. IsInjective(device') /\ Range(device') = Range(device)
    BY <1>1, <1>2 DEF CarryInv
  <2> QED
    BY <1>1, <1>2, <1>4, <1>5, <2>1, RestingFacts, CarryStays DEF id
<1>9. GpuInv'
  BY <1>2, RestingFacts DEF GpuInv
<1> QED
  BY <1>5, <1>6, <1>7, <1>8, <1>9 DEF FlipIInv

LEMMA CompleteEopFlipStep ==
  ASSUME FlipIInv, CompleteEopFlip
  PROVE  FlipIInv'
<1> DEFINE id == Head(device)
<1>1. /\ FlipTypes /\ ListInv /\ PortInv /\ BudgetInv /\ CarryInv /\ GpuInv
  BY Parts
<1>2. /\ UNCHANGED <<port, requests, cpu, processing, reserved, work,
                     guest, gpu, presenter, exit, instance>>
      /\ device # <<>> /\ Complete(id) /\ device' = Tail(device)
  BY DEF CompleteEopFlip, ending
<1>3. /\ device' \in Seq(Nat) /\ id \in Range(device)
      /\ Range(device') = Range(device) \ {id} /\ IsInjective(device')
  BY <1>1, <1>2, TailFacts DEF FlipTypes, CarryInv
<1> HIDE DEF id
<1>4. /\ Recorded(id) /\ id # gpu.id /\ id \notin Range(work)
      /\ \A g \in Guests : guest[g].id # id
  BY <1>1, <1>3 DEF CarryInv
<1>5. /\ ListInv' /\ StateInv' /\ FrameInv' /\ PresenterInv' /\ ClosedPortsEmpty' /\ StatusInv'
      /\ Total' = Total /\ AwaitedStay({id}) /\ Awaited' = Awaited \ {id}
      /\ request' \in [DOMAIN request' -> Requests]
      /\ free' \in Seq(Frames) /\ last' \in 0..FrameCount
      /\ sleepers' \subseteq Guests \cup {"gpu"}
  BY <1>2, <1>4, CompleteStep
<1>6. FlipTypes'
  BY <1>1, <1>2, <1>3, <1>5 DEF FlipTypes
<1>7. PortInv' /\ BudgetInv'
  BY <1>1, <1>2, <1>5 DEF PortInv, BudgetInv, Reserving, GpuReserving
<1>8. CarryInv'
  BY <1>1, <1>2, <1>3, <1>4, <1>5, CarryStays
<1>9. GpuInv'
  <2>1. SamePorts
    BY <1>2 DEF SamePorts
  <2> QED
    BY <1>2, <1>4, <1>5, <2>1, GpuKept
<1> QED
  BY <1>5, <1>6, <1>7, <1>8, <1>9 DEF FlipIInv

(* The status of one port is written. *)
LEMMA StatusChange ==
  ASSUME FlipTypes, NEW p \in Ports, NEW n \in Nat, NEW c \in Nat,
         port' = [port EXCEPT ![p].pending = n, ![p].gc = c]
  PROVE  /\ port' \in [Ports -> PortRecords]
         /\ \A q \in Ports \ {p} : port'[q] = port[q]
         /\ port'[p].pending = n /\ port'[p].gc = c
         /\ \A q \in Ports : /\ (port'[q].opened <=> port[q].opened)
                             /\ port'[q].opened = port[q].opened
                             /\ (port'[q].closing <=> port[q].closing)
                             /\ port'[q].closing = port[q].closing
                             /\ port'[q].generation = port[q].generation
                             /\ port'[q].phase = port[q].phase
         /\ SamePorts
<1>1. port \in [Ports -> PortRecords]
  BY DEF FlipTypes
<1>2. port' \in [Ports -> PortRecords]
  BY <1>1 DEF PortRecords
<1>3. /\ \A q \in Ports \ {p} : port'[q] = port[q]
      /\ port'[p].pending = n /\ port'[p].gc = c
      /\ (port'[p].opened <=> port[p].opened) /\ port'[p].opened = port[p].opened
      /\ (port'[p].closing <=> port[p].closing) /\ port'[p].closing = port[p].closing
      /\ port'[p].generation = port[p].generation /\ port'[p].phase = port[p].phase
  BY <1>1 DEF PortRecords
<1> QED
  BY <1>2, <1>3 DEF SamePorts

LEMMA FlipPresentStep ==
  ASSUME FlipIInv, FlipPresent
  PROVE  FlipIInv'
<1> DEFINE id == presenter.id
           p == request[presenter.id].port
<1>1. /\ FlipTypes /\ ListInv /\ StateInv /\ PortInv /\ BudgetInv /\ CarryInv
      /\ GpuInv /\ FrameInv /\ PresenterInv /\ ClosedPortsEmpty /\ StatusInv
  BY Parts
<1>2. /\ UNCHANGED <<cpu, cancelled, reserved, work, device, guest, gpu, exit, instance>>
      /\ presenter.pc = "present" /\ requests' = Tail(requests)
      /\ request' = [x \in DOMAIN request \ {id} |-> request[x]]
      /\ processing' = FALSE /\ WakeAll /\ Round("end")
      /\ \E shown \in BOOLEAN : Release(request[id].frame, shown)
  BY DEF FlipPresent, PresenterAt, Forget, Present, submissions, ending
<1>3. port' = [port EXCEPT ![p].pending = Total - 1,
                           ![p].gc = IF request[id].eop /\ @ > 0 THEN @ - 1 ELSE @]
  BY DEF FlipPresent
<1>4. /\ requests # <<>> /\ id = Head(requests) /\ id \in Range(requests)
      /\ id \in Live /\ id \notin Awaited /\ request[id].state = "Presenting"
      /\ request[id].frame # NoFrame /\ Current(id)
  BY <1>1, <1>2, FrontFacts DEF PresenterInv, StateInv, AtFront
<1>5. p \in Ports /\ port[p].generation > 0 /\ Usable(p) /\ request[id].eop \in BOOLEAN
  BY <1>1, <1>4, RequestFacts DEF StateInv, Current
<1>6. /\ requests \in Seq(Nat) /\ IsInjective(requests) /\ IsFiniteSet(cpu)
      /\ Range(requests) \cap cpu = {} /\ Queued \cap cancelled = {}
      /\ IsFiniteSet(Queued) /\ Total = Cardinality(Queued) /\ Total \in Nat
  BY <1>1, TotalFacts DEF FlipTypes, ListInv
<1>7. /\ requests' \in Seq(Nat) /\ IsInjective(requests')
      /\ Range(requests') = Range(requests) \ {id}
  BY <1>2, <1>4, <1>6, TailFacts
<1>8. presenter' \in PresenterRecords /\ presenter'.pc = "end"
  BY <1>2, LoopingFacts
<1> HIDE DEF id
<1>9. /\ Queued' = Queued \ {id} /\ Live' = Live \ {id} /\ id \in Queued
      /\ id \notin cpu /\ id \notin cancelled
  <2>1. id \in Queued /\ id \notin cpu /\ id \notin cancelled
    BY <1>4, <1>6 DEF Queued
  <2> QED
    BY <1>2, <1>7, <2>1 DEF Live, Queued
<1>10. DOMAIN request' = Live' /\ \A x \in Live' : request'[x] = request[x]
  BY <1>1, <1>2, <1>9 DEF ListInv
<1>11. Total' = Total - 1 /\ Total' = Cardinality(Queued') /\ Total' \in Nat /\ IsFiniteSet(Queued')
  <2>1. IsFiniteSet(Queued') /\ Total' = Cardinality(Queued') /\ Total' \in Nat
    <3>1. Range(requests') \cap cpu' = {} /\ IsFiniteSet(cpu')
      BY <1>2, <1>6, <1>7
    <3> QED
      BY <1>7, <3>1, CountFacts, FS_CardinalityType DEF Total, Queued
  <2>2. Cardinality(Queued') = Cardinality(Queued) - 1
    BY <1>6, <1>9, FS_RemoveElement
  <2> QED
    BY <1>6, <2>1, <2>2
<1>12. /\ port[p] \in PortRecords /\ port[p].gc \in 0..Capacity /\ Total \in 0..Capacity
       /\ Capacity \in Nat
  BY <1>1, <1>5, <1>6, PortFacts, FlipQueueAssumption DEF StatusInv, BudgetInv, FlipQueueAssumption
<1> HIDE DEF p
<1>13. /\ port' \in [Ports -> PortRecords]
       /\ \A q \in Ports \ {p} : port'[q] = port[q]
       /\ port'[p].pending = Total - 1
       /\ port'[p].gc = IF request[id].eop /\ port[p].gc > 0 THEN port[p].gc - 1 ELSE port[p].gc
       /\ \A q \in Ports : /\ (port'[q].opened <=> port[q].opened)
                           /\ port'[q].opened = port[q].opened
                           /\ (port'[q].closing <=> port[q].closing)
                           /\ port'[q].closing = port[q].closing
                           /\ port'[q].generation = port[q].generation
                           /\ port'[q].phase = port[q].phase
       /\ SamePorts
  <2> DEFINE n == Total - 1
             c == IF request[id].eop /\ port[p].gc > 0 THEN port[p].gc - 1 ELSE port[p].gc
  <2>1. n \in Nat /\ c \in Nat
    BY <1>11, <1>12
  <2>2. port' = [port EXCEPT ![p].pending = n, ![p].gc = c]
    BY <1>3
  <2>3. n = Total - 1
    BY DEF n
  <2>4. c = IF request[id].eop /\ port[p].gc > 0 THEN port[p].gc - 1 ELSE port[p].gc
    BY DEF c
  <2> HIDE DEF n, c
  <2>5. /\ port' \in [Ports -> PortRecords]
        /\ \A q \in Ports \ {p} : port'[q] = port[q]
        /\ port'[p].pending = n /\ port'[p].gc = c
        /\ \A q \in Ports : /\ (port'[q].opened <=> port[q].opened)
                            /\ port'[q].opened = port[q].opened
                            /\ (port'[q].closing <=> port[q].closing)
                            /\ port'[q].closing = port[q].closing
                            /\ port'[q].generation = port[q].generation
                            /\ port'[q].phase = port[q].phase
        /\ SamePorts
    BY <1>1, <1>5, <2>1, <2>2, StatusChange
  <2> QED
    BY <2>3, <2>4, <2>5
<1>14. /\ FrameInv' /\ free' \in Seq(Frames) /\ last' \in 0..FrameCount
  BY <1>1, <1>2, <1>4, <1>9, <1>10, FrameReleased
<1>15. FlipTypes'
  <2>1. request' \in [DOMAIN request' -> Requests]
    BY <1>1, <1>2 DEF FlipTypes
  <2>2. sleepers' \subseteq Guests \cup {"gpu"} /\ processing' \in BOOLEAN
    BY <1>1, <1>2, WakeFacts
  <2> QED
    BY <1>1, <1>2, <1>7, <1>8, <1>13, <1>14, <2>1, <2>2 DEF FlipTypes, PresenterRecords
<1>16. ListInv'
  BY <1>1, <1>2, <1>7, <1>9, <1>10 DEF ListInv
<1>17. SamePorts
  BY <1>13
<1>18. SameRequests /\ SameCancels
  BY <1>2, <1>9, <1>10 DEF SameRequests, SameCancels
<1>19. AwaitedStay({}) /\ Awaited' = Awaited
  BY <1>2, <1>4, <1>7, <1>9, <1>10 DEF AwaitedStay, Awaited, ToComplete
<1>20. StateInv'
  <2>1. \A q \in Ports : port'[q].generation = port[q].generation
    BY <1>17 DEF SamePorts
  <2>2. \A x \in Live' : x \in Live /\ x # id /\ request'[x] = request[x] /\ request[x].port \in Ports
    BY <1>1, <1>9, <1>10, RequestFacts
  <2>3. \A x \in cpu' : x \in cpu /\ x \in Live'
    BY <1>2 DEF Live
  <2> QED
    BY <1>1, <1>7, <2>1, <2>2, <2>3 DEF StateInv
<1>21. ClosedPortsEmpty'
  BY <1>1, <1>9, <1>17, <1>18, ClosedStays
<1>22. PortInv'
  BY <1>1, <1>2, <1>13 DEF PortInv
<1>23. BudgetInv'
  <2>1. Reserving' = Reserving /\ GpuReserving' = GpuReserving
    BY <1>2 DEF Reserving, GpuReserving
  <2> QED
    BY <1>1, <1>2, <1>11, <1>12, <2>1 DEF BudgetInv
<1>24. CarryInv' /\ GpuInv'
  BY <1>1, <1>2, <1>17, <1>19, CarryKept, GpuKept
<1>25. PresenterInv'
  <2>1. \A x \in Live' : request'[x].state # "Presenting"
    BY <1>1, <1>9, <1>10 DEF PresenterInv, id
  <2> QED
    BY <1>2, <1>8, <2>1 DEF PresenterInv
<1>26. StatusInv'
  <2>1. \A q \in Ports : OfPort(q)' = OfPort(q) \ {id} /\ EopOf(q)' = EopOf(q) \ {id}
    <3>1. \A x \in Queued' : x \in Queued /\ x # id /\ request'[x] = request[x]
      BY <1>9, <1>10 DEF Queued, Live
    <3>2. \A q \in Ports : OfPort(q)' = OfPort(q) \ {id}
      BY <1>9, <3>1 DEF OfPort, Queued
    <3>3. \A q \in Ports : OfPort(q)' \subseteq Queued'
      BY DEF OfPort, Queued
    <3> QED
      BY <3>1, <3>2, <3>3 DEF EopOf
  <2>2. \A q \in Ports : {port'[q].pending, port'[q].gc} \subseteq 0..Capacity
    <3>1. port'[p].pending \in 0..Capacity /\ port'[p].gc \in 0..Capacity
      BY <1>11, <1>12, <1>13
    <3> QED
      BY <1>1, <1>13, <3>1 DEF StatusInv
  <2>3. ASSUME NEW q \in Ports, Usable(q)'
        PROVE  /\ port'[q].gc = Cardinality(EopOf(q)')
               /\ port'[q].pending >= Cardinality(OfPort(q)')
               /\ (\A r \in Ports \ {q} : port'[r].generation = 0) => port'[q].pending = Total'
    <3>1. CASE q = p
      <4>1. port[p].gc = Cardinality(EopOf(q))
        BY <1>1, <1>5, <3>1 DEF StatusInv
      <4>2. /\ EopOf(q) \in SUBSET Queued /\ OfPort(q)' \in SUBSET Queued'
        BY OfPortFacts DEF OfPort, Queued
      <4>3. IsFiniteSet(EopOf(q)) /\ Cardinality(EopOf(q)) \in Nat
        BY <1>1, <4>2, TotalFacts
      <4>4. Cardinality(OfPort(q)') <= Cardinality(Queued')
        BY <1>11, <4>2, FS_Subset
      <4>5. id \in EopOf(q) <=> request[id].eop
        BY <1>9, <3>1 DEF EopOf, OfPort, Queued, p, id
      <4>6. Cardinality(EopOf(q) \ {id})
              = IF request[id].eop THEN Cardinality(EopOf(q)) - 1 ELSE Cardinality(EopOf(q))
        BY <4>3, <4>5, FS_RemoveElement
      <4>7. request[id].eop => Cardinality(EopOf(q)) > 0
        <5>1. Cardinality(EopOf(q)) = 0 => EopOf(q) = {}
          BY <4>3, FS_EmptySet
        <5> QED
          BY <4>3, <4>5, <5>1
      <4>8. port'[p].gc = Cardinality(EopOf(q) \ {id})
        BY <1>13, <4>1, <4>6, <4>7
      <4>9. port'[p].gc = Cardinality(EopOf(q)')
        BY <1>5, <2>1, <4>8
      <4>10. port'[p].pending = Total'
        BY <1>11, <1>13
      <4>11. Cardinality(OfPort(q)') \in Nat /\ IsFiniteSet(OfPort(q)')
        BY <1>11, <4>2, FS_Subset, FS_CardinalityType
      <4>12. port'[p].pending >= Cardinality(OfPort(q)')
        BY <1>11, <4>4, <4>10, <4>11
      <4> QED
        BY <3>1, <4>9, <4>10, <4>12
    <3>2. CASE q # p
      <4>1. id \notin OfPort(q) /\ id \notin EopOf(q)
        BY <3>2 DEF OfPort, EopOf, p, id
      <4>2. OfPort(q)' = OfPort(q) /\ EopOf(q)' = EopOf(q)
        BY <2>1, <4>1
      <4>3. Usable(q) /\ port'[q] = port[q]
        BY <1>13, <2>3, <3>2 DEF Usable
      <4>4. ~ \A r \in Ports \ {q} : port'[r].generation = 0
        BY <1>5, <1>13, <3>2
      <4> QED
        BY <1>1, <4>2, <4>3, <4>4 DEF StatusInv
    <3> QED
      BY <3>1, <3>2
  <2> QED
    BY <2>2, <2>3 DEF StatusInv
<1> QED
  BY <1>14, <1>15, <1>16, <1>20, <1>21, <1>22, <1>23, <1>24, <1>25, <1>26 DEF FlipIInv

------------------------------------------------------------------------------
(* A request is reserved *)

LEMMA Reserved ==
  ASSUME FlipIInv, NEW p \in Ports, NEW i \in Indices, NEW eop \in BOOLEAN,
         Usable(p), ~Full, Reserve(p, i, eop), SameCancels,
         UNCHANGED <<processing, free, last, presenter>>
  PROVE  /\ reserved' = reserved + 1 /\ reserved' \in Nat /\ reserved' # NoId /\ reserved' \notin Live
         /\ Live' = Live \cup {reserved'} /\ request'[reserved'].state = "Reserved"
         /\ AwaitedStay({}) /\ Awaited' = Awaited \cup {reserved'}
         /\ requests' \in Seq(Nat) /\ request' \in [DOMAIN request' -> Requests]
         /\ port' \in [Ports -> PortRecords] /\ SamePorts
         /\ \A q \in Ports : /\ port'[q].opened = port[q].opened
                             /\ port'[q].closing = port[q].closing
                             /\ port'[q].phase = port[q].phase
         /\ ListInv' /\ StateInv' /\ FrameInv' /\ PresenterInv' /\ ClosedPortsEmpty' /\ StatusInv'
         /\ Total' <= Capacity
<1> DEFINE new == reserved + 1
           record == NewRequest(p, i, eop)
<1>1. /\ FlipTypes /\ ListInv /\ StateInv /\ PortInv /\ BudgetInv /\ CarryInv
      /\ GpuInv /\ FrameInv /\ PresenterInv /\ ClosedPortsEmpty /\ StatusInv
  BY Parts
<1>2. /\ reserved' = new /\ cancelled' = cancelled
      /\ request' = [x \in DOMAIN request \cup {new} |-> IF x = new THEN record ELSE request[x]]
      /\ \/ eop /\ requests' = Append(requests, new) /\ cpu' = cpu
         \/ ~eop /\ cpu' = cpu \cup {new} /\ requests' = requests
  BY DEF Reserve, PlaceRequest
<1>3. port' = [port EXCEPT ![p].pending = Total + 1, ![p].gc = IF eop THEN @ + 1 ELSE @]
  BY DEF Reserve
<1>4. /\ new \in Nat /\ new # NoId /\ new \in 1..new /\ 1..reserved \subseteq 1..new
      /\ new \notin 1..reserved
  BY <1>1 DEF FlipTypes, NoId
<1> HIDE DEF new
<1>5. /\ new \notin Live /\ new \notin Range(requests) /\ new \notin cpu /\ new \notin cancelled
      /\ new \notin Queued
  BY <1>1, <1>4 DEF ListInv, Live, Queued
<1>6. /\ requests \in Seq(Nat) /\ IsInjective(requests) /\ IsFiniteSet(cpu)
      /\ Range(requests) \cap cpu = {} /\ Queued \cap cancelled = {}
      /\ IsFiniteSet(Queued) /\ Total = Cardinality(Queued) /\ Total \in Nat
  BY <1>1, TotalFacts DEF FlipTypes, ListInv
<1>7. port[p] \in PortRecords /\ port[p].generation \in Nat /\ port[p].gc \in Nat
  BY <1>1, PortFacts
<1>8. /\ record \in Requests /\ record.port = p /\ record.generation = port[p].generation
      /\ record.eop = eop /\ (record.eop <=> eop)
      /\ record.state = "Reserved" /\ record.frame = NoFrame
  <2>1. 0 \in 0..FrameCount
    BY FlipQueueAssumption DEF FlipQueueAssumption
  <2> QED
    BY <1>7, <2>1 DEF NewRequest, Requests, NoFrame
<1> HIDE DEF record
<1>9. /\ requests' \in Seq(Nat) /\ IsInjective(requests')
      /\ Range(requests') \cup cpu' = Queued \cup {new} /\ Range(requests') \cap cpu' = {}
      /\ IsFiniteSet(cpu')
      /\ requests # <<>> => requests' # <<>> /\ Head(requests') = Head(requests)
      /\ Range(requests) \subseteq Range(requests') /\ Range(requests') \subseteq Range(requests) \cup {new}
      /\ ~eop => Range(requests') = Range(requests)
      /\ eop => cpu' = cpu
      /\ cpu' \subseteq cpu \cup {new}
  <2>1. CASE eop
    <3>1. requests' = Append(requests, new) /\ cpu' = cpu
      BY <1>2, <2>1
    <3>2. /\ requests' \in Seq(Nat) /\ IsInjective(requests')
          /\ Range(requests') = Range(requests) \cup {new}
      BY <1>4, <1>5, <1>6, <3>1, AppendFacts
    <3>3. requests # <<>> => requests' # <<>> /\ Head(requests') = Head(requests)
      <4>1. /\ Len(Append(requests, new)) = Len(requests) + 1 /\ Len(requests) \in Nat
            /\ Len(requests) > 0 => Append(requests, new)[1] = requests[1]
        BY <1>4, <1>6, AppendProperties, LenProperties
      <4> QED
        BY <1>6, <3>1, <3>2, <4>1, EmptySeq
    <3> QED
      BY <1>5, <1>6, <2>1, <3>1, <3>2, <3>3 DEF Queued
  <2>2. CASE ~eop
    <3>1. requests' = requests /\ cpu' = cpu \cup {new}
      BY <1>2, <2>2
    <3>2. IsFiniteSet(cpu')
      BY <1>6, <3>1, FS_AddElement
    <3> QED
      BY <1>5, <1>6, <2>2, <3>1, <3>2 DEF Queued
  <2> QED
    BY <2>1, <2>2
<1>10. Queued' = Queued \cup {new} /\ Live' = Live \cup {new}
  <2>1. Queued' = Queued \cup {new}
    BY <1>9 DEF Queued
  <2> QED
    BY <1>2, <2>1 DEF Live, Queued
<1>11. Total' = Total + 1
  <2>1. Total' = Cardinality(Queued')
    BY <1>9, CountFacts DEF Total, Queued
  <2> QED
    BY <1>5, <1>6, <1>10, <2>1, FS_AddElement
<1>12. Total + 1 <= Capacity /\ Capacity \in Nat
  BY <1>6, FlipQueueAssumption DEF Full, FlipQueueAssumption
<1>13. /\ DOMAIN request' = Live' /\ request'[new] = record
       /\ \A x \in Live : request'[x] = request[x]
       /\ request' \in [DOMAIN request' -> Requests]
  <2>1. DOMAIN request' = DOMAIN request \cup {new} /\ DOMAIN request = Live
    BY <1>1, <1>2 DEF ListInv
  <2>2. request'[new] = record /\ \A x \in Live : request'[x] = request[x]
    BY <1>2, <1>5, <2>1
  <2>3. \A x \in Live \cup {new} : request'[x] \in Requests
    BY <1>1, <1>8, <2>2, RequestFacts
  <2> QED
    BY <1>2, <1>10, <2>1, <2>2, <2>3
<1>14. /\ port[p].gc = Cardinality(EopOf(p)) /\ port[p].gc <= Total
  <2>1. port[p].gc = Cardinality(EopOf(p))
    BY <1>1 DEF StatusInv
  <2>2. EopOf(p) \in SUBSET Queued
    BY OfPortFacts
  <2> QED
    BY <1>1, <2>1, <2>2, TotalFacts
<1>15. /\ port' \in [Ports -> PortRecords]
       /\ \A q \in Ports \ {p} : port'[q] = port[q]
       /\ port'[p].pending = Total + 1
       /\ port'[p].gc = IF eop THEN port[p].gc + 1 ELSE port[p].gc
       /\ \A q \in Ports : /\ (port'[q].opened <=> port[q].opened)
                           /\ port'[q].opened = port[q].opened
                           /\ (port'[q].closing <=> port[q].closing)
                           /\ port'[q].closing = port[q].closing
                           /\ port'[q].generation = port[q].generation
                           /\ port'[q].phase = port[q].phase
       /\ SamePorts
  <2> DEFINE n == Total + 1
             c == IF eop THEN port[p].gc + 1 ELSE port[p].gc
  <2>1. n \in Nat /\ c \in Nat
    BY <1>6, <1>7
  <2>2. port' = [port EXCEPT ![p].pending = n, ![p].gc = c]
    BY <1>3
  <2>3. n = Total + 1
    BY DEF n
  <2>4. c = IF eop THEN port[p].gc + 1 ELSE port[p].gc
    BY DEF c
  <2> HIDE DEF n, c
  <2>5. /\ port' \in [Ports -> PortRecords]
        /\ \A q \in Ports \ {p} : port'[q] = port[q]
        /\ port'[p].pending = n /\ port'[p].gc = c
        /\ \A q \in Ports : /\ (port'[q].opened <=> port[q].opened)
                            /\ port'[q].opened = port[q].opened
                            /\ (port'[q].closing <=> port[q].closing)
                            /\ port'[q].closing = port[q].closing
                            /\ port'[q].generation = port[q].generation
                            /\ port'[q].phase = port[q].phase
        /\ SamePorts
    BY <1>1, <2>1, <2>2, StatusChange
  <2> QED
    BY <2>3, <2>4, <2>5
<1>16. ListInv'
  <2>1. Live' \subseteq 1..new
    BY <1>1, <1>4, <1>10 DEF ListInv
  <2>2. Queued' \cap cancelled' = {}
    BY <1>2, <1>5, <1>6, <1>10
  <2> QED
    BY <1>2, <1>9, <1>13, <2>1, <2>2 DEF ListInv
<1>17. AwaitedStay({})
  BY <1>2, <1>5, <1>9, <1>10, <1>13 DEF AwaitedStay, Awaited
<1>18. Awaited' = Awaited \cup {new}
  BY <1>8, <1>10, <1>13 DEF Awaited, ToComplete
<1>19. StateInv'
  <2>1. \A x \in cpu' : request'[x].state = "Reserved" /\ ~request'[x].eop
    <3>1. new \in cpu' => ~eop
      BY <1>5, <1>9
    <3>2. \A x \in cpu : x \in Live
      BY DEF Live
    <3> QED
      BY <1>1, <1>8, <1>9, <1>13, <3>1, <3>2 DEF StateInv
  <2>2. \A x \in Live :
          /\ request'[x].state = "Reserved" => request'[x].frame = NoFrame
          /\ request'[x].state \in {"Ready", "Presenting"} =>
               x \in Range(requests') /\ request'[x].frame # NoFrame
          /\ request'[x].generation <= port'[request'[x].port].generation
          /\ port'[request'[x].port].generation > 0
    <3>1. \A x \in Live : request[x].port \in Ports
      BY <1>1, RequestFacts
    <3> QED
      BY <1>1, <1>9, <1>13, <1>15, <3>1 DEF StateInv
  <2>3. port[p].generation > 0
    BY <1>1, <1>7 DEF PortInv, Usable
  <2>4. /\ record.generation <= port'[record.port].generation
        /\ port'[record.port].generation > 0
    BY <1>7, <1>8, <1>15, <2>3
  <2> QED
    BY <1>8, <1>10, <1>13, <2>1, <2>2, <2>4 DEF StateInv
<1>20. FrameInv'
  <2>1. SameFrames
    BY <1>8, <1>10, <1>13 DEF SameFrames
  <2> QED
    BY <1>1, <2>1, FrameStays
<1>21. PresenterInv'
  <2>1. SameFront
    BY <1>1, <1>9, <1>13, FrontFacts DEF SameFront
  <2> QED
    BY <1>8, <1>10, <1>13, <1>15, <2>1, PresenterKept
<1>22. ClosedPortsEmpty'
  <2> SUFFICES ASSUME NEW q \in Ports, NEW x \in OfPort(q)'
               PROVE  \/ Current(x)'
                      \/ \E g \in Guests : guest'[g].pc = "cancel" /\ guest'[g].port = q
    BY DEF ClosedPortsEmpty
  <2>1. x \in Queued \cup {new} /\ request'[x].port = q
    BY <1>10 DEF OfPort, Queued
  <2>2. CASE x = new
    BY <1>8, <1>13, <1>15, <2>2 DEF Current, Usable
  <2>3. CASE x # new
    <3>1. x \in Queued /\ x \in Live /\ request'[x] = request[x]
      BY <1>13, <2>1, <2>3 DEF Queued, Live
    <3>2. x \in OfPort(q)
      BY <2>1, <3>1 DEF OfPort, Queued
    <3>3. CASE Current(x)
      BY <1>1, <1>15, <3>1, <3>3, CurrentStays
    <3>4. CASE \E g \in Guests : guest[g].pc = "cancel" /\ guest[g].port = q
      BY <3>4 DEF SameCancels
    <3> QED
      BY <1>1, <3>2, <3>3, <3>4 DEF ClosedPortsEmpty
  <2> QED
    BY <2>2, <2>3
<1>23. StatusInv'
  <2>1. \A x \in Queued : request'[x] = request[x]
    BY <1>13 DEF Queued, Live
  <2>2. /\ OfPort(p)' = OfPort(p) \cup {new}
        /\ EopOf(p)' = IF eop THEN EopOf(p) \cup {new} ELSE EopOf(p)
    <3>1. OfPort(p)' = OfPort(p) \cup {new}
      BY <1>8, <1>10, <1>13, <2>1 DEF OfPort, Queued
    <3>2. OfPort(p) \subseteq Queued
      BY OfPortFacts
    <3> QED
      BY <1>8, <1>13, <2>1, <3>1, <3>2 DEF EopOf
  <2>3. \A q \in Ports \ {p} : OfPort(q)' = OfPort(q) /\ EopOf(q)' = EopOf(q)
    <3> TAKE q \in Ports \ {p}
    <3>1. OfPort(q)' = OfPort(q)
      BY <1>8, <1>10, <1>13, <2>1 DEF OfPort, Queued
    <3>2. OfPort(q) \subseteq Queued
      BY OfPortFacts
    <3> QED
      BY <2>1, <3>1, <3>2 DEF EopOf
  <2>4. \A q \in Ports : {port'[q].pending, port'[q].gc} \subseteq 0..Capacity
    <3>1. port'[p].pending \in 0..Capacity /\ port'[p].gc \in 0..Capacity
      BY <1>6, <1>7, <1>12, <1>14, <1>15
    <3> QED
      BY <1>1, <1>15, <3>1 DEF StatusInv
  <2>5. port'[p].gc = Cardinality(EopOf(p)')
    <3>1. EopOf(p) \in SUBSET Queued /\ new \notin EopOf(p)
      BY <1>5, OfPortFacts
    <3>2. IsFiniteSet(EopOf(p))
      BY <1>1, <3>1, TotalFacts
    <3>3. Cardinality(EopOf(p) \cup {new}) = Cardinality(EopOf(p)) + 1
      BY <3>1, <3>2, FS_AddElement
    <3> QED
      BY <1>14, <1>15, <2>2, <3>3
  <2>6. port'[p].pending >= Cardinality(OfPort(p)')
    <3>1. OfPort(p) \in SUBSET Queued /\ new \notin OfPort(p)
      BY <1>5, OfPortFacts
    <3>2. /\ IsFiniteSet(OfPort(p)) /\ Cardinality(OfPort(p)) \in Nat
          /\ Cardinality(OfPort(p)) <= Total
      BY <1>1, <3>1, TotalFacts
    <3>3. Cardinality(OfPort(p) \cup {new}) = Cardinality(OfPort(p)) + 1
      BY <3>1, <3>2, FS_AddElement
    <3> QED
      BY <1>6, <1>15, <2>2, <3>2, <3>3
  <2>7. ASSUME NEW q \in Ports, q # p, Usable(q)'
        PROVE  /\ port'[q].gc = Cardinality(EopOf(q)')
               /\ port'[q].pending >= Cardinality(OfPort(q)')
               /\ (\A r \in Ports \ {q} : port'[r].generation = 0) => port'[q].pending = Total'
    <3>1. Usable(q) /\ port'[q] = port[q]
      BY <1>15, <2>7 DEF Usable
    <3>2. OfPort(q)' = OfPort(q) /\ EopOf(q)' = EopOf(q)
      BY <2>3, <2>7
    <3>3. ~ \A r \in Ports \ {q} : port'[r].generation = 0
      <4>1. port[p].generation > 0
        BY <1>1, <1>7 DEF PortInv, Usable
      <4> QED
        BY <1>7, <1>15, <2>7, <4>1
    <3> QED
      BY <1>1, <3>1, <3>2, <3>3 DEF StatusInv
  <2> QED
    BY <1>11, <1>15, <2>4, <2>5, <2>6, <2>7 DEF StatusInv
<1>24. reserved' = reserved + 1
  BY <1>2 DEF new
<1>25. /\ reserved' \in Nat /\ reserved' # NoId /\ reserved' \notin Live
       /\ Live' = Live \cup {reserved'} /\ request'[reserved'].state = "Reserved"
       /\ Awaited' = Awaited \cup {reserved'}
  <2>1. reserved' = new
    BY <1>2
  <2> QED
    BY <1>4, <1>5, <1>8, <1>10, <1>13, <1>18, <2>1
<1>26. Total' <= Capacity
  BY <1>11, <1>12
<1> QED
  BY <1>9, <1>13, <1>15, <1>16, <1>17, <1>19, <1>20, <1>21, <1>22, <1>23, <1>24, <1>25, <1>26

(* The newcomer is carried by the thread that has reserved it. *)
LEMMA CarryAdded ==
  ASSUME FlipTypes, ListInv, CarryInv, GpuInv, AwaitedStay({}), NEW new, new # NoId, new \notin Live,
         Live' = Live \cup {new}, Awaited' = Awaited \cup {new},
         request'[new].state = "Reserved", UNCHANGED <<work, device>>,
         \/ /\ gpu.id = NoId /\ gpu'.id = new
            /\ UNCHANGED guest
         \/ /\ UNCHANGED gpu
            /\ \E g \in Guests : /\ guest[g].id = NoId
                                 /\ guest'[g].id = new /\ guest'[g].pc = "submit"
                                 /\ \A h \in Guests \ {g} : guest'[h] = guest[h]
  PROVE  CarryInv'
<1>1. /\ \A x \in Range(work) \cup Range(device) : x \in Live /\ x # new /\ x # NoId
      /\ gpu.id # new
  <2>1. \A x \in Range(work) \cup Range(device) : x \in Live /\ x # new /\ x # NoId
    BY RequestFacts DEF CarryInv, Recorded, Live
  <2>2. gpu.id # new
    BY OnlyGpuCarries DEF Awaited
  <2> QED
    BY <2>1, <2>2
<1>2. /\ \A x \in Range(work) : request'[x] = request[x]
      /\ \A x \in Range(device) : Recorded(x)'
      /\ \A g \in Guests : guest[g].pc = "submit" => request'[guest[g].id] = request[guest[g].id]
  <2>1. \A x \in Range(work) \cup Range(device) : x \in Awaited
    BY <1>1 DEF CarryInv, Recorded, Awaited, ToComplete
  <2>2. \A g \in Guests : guest[g].pc = "submit" => guest[g].id \in Awaited
    BY DEF CarryInv, Awaited, ToComplete
  <2> QED
    BY <2>1, <2>2 DEF AwaitedStay, CarryInv, Recorded
<1>3. \A g \in Guests : guest[g].id # new
  BY DEF CarryInv
<1>4. CASE gpu.id = NoId /\ gpu'.id = new /\ UNCHANGED guest
  <2>1. \A x \in Range(work') :
          /\ x \in Live' /\ request'[x].state = "Reserved"
          /\ x \notin Range(device') /\ x # gpu'.id /\ \A g \in Guests : guest'[g].id # x
    BY <1>1, <1>2, <1>4 DEF CarryInv
  <2>2. \A x \in Range(device') :
          /\ Recorded(x)'
          /\ x # gpu'.id /\ \A g \in Guests : guest'[g].id # x
    BY <1>1, <1>2, <1>4 DEF CarryInv
  <2>3. \A g \in Guests : guest'[g].pc = "submit" =>
          /\ guest'[g].id \in Live' /\ request'[guest'[g].id].state = "Reserved"
          /\ guest'[g].id # gpu'.id
          /\ \A h \in Guests : guest'[h].id = guest'[g].id => h = g
    BY <1>2, <1>3, <1>4 DEF CarryInv
  <2>4. \A x \in Awaited' :
          \/ x \in Range(work') \/ x \in Range(device') \/ x = gpu'.id
          \/ \E g \in Guests : guest'[g].id = x
    <3>1. \A x \in Awaited : x # NoId
      BY RequestFacts DEF Awaited
    <3> QED
      BY <1>4, <3>1 DEF CarryInv
  <2> QED
    BY <1>4, <2>1, <2>2, <2>3, <2>4 DEF CarryInv
<1>5. ASSUME UNCHANGED gpu, NEW g \in Guests, guest[g].id = NoId,
             guest'[g].id = new, guest'[g].pc = "submit",
             \A h \in Guests \ {g} : guest'[h] = guest[h]
      PROVE  CarryInv'
  <2>1. \A x \in Range(work') :
          /\ x \in Live' /\ request'[x].state = "Reserved"
          /\ x \notin Range(device') /\ x # gpu'.id /\ \A h \in Guests : guest'[h].id # x
    BY <1>1, <1>2, <1>5 DEF CarryInv
  <2>2. \A x \in Range(device') :
          /\ Recorded(x)'
          /\ x # gpu'.id /\ \A h \in Guests : guest'[h].id # x
    BY <1>1, <1>2, <1>5 DEF CarryInv
  <2>3. \A h \in Guests : guest'[h].id # NoId <=> guest'[h].pc = "submit"
    BY <1>5 DEF CarryInv
  <2>4. ASSUME NEW h \in Guests, guest'[h].pc = "submit"
        PROVE  /\ guest'[h].id \in Live' /\ request'[guest'[h].id].state = "Reserved"
               /\ guest'[h].id # gpu'.id
               /\ \A k \in Guests : guest'[k].id = guest'[h].id => k = h
    <3>1. CASE h = g
      BY <1>1, <1>3, <1>5, <3>1
    <3>2. CASE h # g
      <4>1. guest'[h] = guest[h] /\ guest[h].pc = "submit" /\ guest[h].id # new
        BY <1>3, <1>5, <2>4, <3>2
      <4> QED
        BY <1>2, <1>5, <4>1 DEF CarryInv
    <3> QED
      BY <3>1, <3>2
  <2>5. ASSUME NEW x \in Awaited'
        PROVE  \/ x \in Range(work') \/ x \in Range(device') \/ x = gpu'.id
               \/ \E h \in Guests : guest'[h].id = x
    <3>1. CASE x = new
      BY <1>5, <3>1
    <3>2. CASE x # new
      <4>1. x \in Awaited /\ x # NoId
        BY <2>5, <3>2, RequestFacts DEF Awaited
      <4>2. ASSUME NEW h \in Guests, guest[h].id = x PROVE guest'[h].id = x
        BY <1>5, <4>1, <4>2
      <4> QED
        BY <1>5, <4>1, <4>2 DEF CarryInv
    <3> QED
      BY <3>1, <3>2
  <2> QED
    BY <1>5, <2>1, <2>2, <2>3, <2>4, <2>5 DEF CarryInv
<1> QED
  BY <1>4, <1>5

LEMMA SubmitReserveStep ==
  ASSUME FlipIInv, NEW g \in Guests, SubmitReserve(g)
  PROVE  FlipIInv'
<1> DEFINE p == guest[g].port
           i == guest[g].index
<1>1. /\ FlipTypes /\ ListInv /\ StateInv /\ PortInv /\ BudgetInv /\ CarryInv
      /\ GpuInv /\ FrameInv /\ PresenterInv /\ ClosedPortsEmpty /\ StatusInv
  BY Parts
<1>2. /\ UNCHANGED <<processing, work, device, free, last, gpu, presenter, sleepers,
                     exit, instance>>
      /\ guest[g].pc = "reserve"
      /\ \/ /\ guest' = [guest EXCEPT ![g] = Resting]
            /\ UNCHANGED <<port, request, requests, cpu, cancelled, reserved>>
         \/ /\ ~port[p].closing /\ ~Full /\ Reserve(p, i, FALSE)
            /\ guest' = [guest EXCEPT ![g].pc = "submit", ![g].id = reserved']
  BY DEF SubmitReserve, Return, lists, pool, ending
<1>3. /\ p \in Ports /\ i \in Indices /\ port[p].generation > 0 /\ guest[g].id = NoId
      /\ g \in Reserving
  BY <1>1, <1>2 DEF PortInv, CarryInv, Reserving
<1> HIDE DEF p, i
<1>4. CASE /\ guest' = [guest EXCEPT ![g] = Resting]
           /\ UNCHANGED <<port, request, requests, cpu, cancelled, reserved>>
  <2>1. \A h \in Guests : guest'[h] = IF h = g THEN Resting ELSE guest[h]
    BY <1>1, <1>4 DEF FlipTypes
  <2>2. FlipTypes'
    <3>1. guest' \in [Guests -> Calls({"idle", "reserve", "submit", "cancel"})]
      BY <1>1, <1>4, RestingFacts DEF FlipTypes
    <3> QED
      BY <1>1, <1>2, <1>4, <3>1 DEF FlipTypes
  <2>3. PortInv'
    BY <1>1, <1>2, <1>4, <2>1, RestingFacts DEF PortInv
  <2>4. BudgetInv'
    <3>1. Reserving' = Reserving \ {g}
      BY <2>1, RestingFacts DEF Reserving
    <3>2. Cardinality(Reserving') = Cardinality(Reserving) - 1
      BY <1>1, <1>3, <3>1, ReservingFacts, FS_RemoveElement
    <3>3. Total' = Total /\ GpuReserving' = GpuReserving
      BY <1>2, <1>4 DEF Total, GpuReserving
    <3> QED
      BY <1>1, <1>2, <1>4, <3>2, <3>3, ReservingFacts DEF BudgetInv
  <2>5. SameCancels
    BY <1>2, <2>1 DEF SameCancels
  <2>6. CarryInv'
    <3>1. \A h \in Guests : /\ guest'[h].id = guest[h].id
                            /\ guest'[h].pc = "submit" <=> guest[h].pc = "submit"
      BY <1>2, <1>3, <2>1, RestingFacts
    <3>2. Awaited' = Awaited /\ AwaitedStay({})
      BY <1>2, <1>4, QuietStep
    <3> QED
      BY <1>1, <1>2, <3>1, <3>2, CarryKept
  <2> QED
    BY <1>2, <1>4, <2>2, <2>3, <2>4, <2>5, <2>6, QuietStep DEF FlipIInv
<1>5. CASE /\ ~port[p].closing /\ ~Full /\ Reserve(p, i, FALSE)
           /\ guest' = [guest EXCEPT ![g].pc = "submit", ![g].id = reserved']
  <2>1. Usable(p)
    BY <1>1, <1>3, <1>5, PortFacts DEF PortInv, Usable
  <2>2. /\ \A h \in Guests \ {g} : guest'[h] = guest[h]
        /\ guest'[g].pc = "submit" /\ guest'[g].id = reserved'
        /\ guest'[g].port = guest[g].port /\ guest'[g].index = guest[g].index
    BY <1>1, <1>5 DEF FlipTypes, Calls
  <2>3. SameCancels
    BY <1>2, <2>2 DEF SameCancels
  <2>4. /\ reserved' = reserved + 1 /\ reserved' \in Nat /\ reserved' # NoId /\ reserved' \notin Live
        /\ Live' = Live \cup {reserved'} /\ request'[reserved'].state = "Reserved"
        /\ AwaitedStay({}) /\ Awaited' = Awaited \cup {reserved'}
        /\ requests' \in Seq(Nat) /\ request' \in [DOMAIN request' -> Requests]
        /\ port' \in [Ports -> PortRecords] /\ SamePorts
        /\ \A q \in Ports : /\ port'[q].opened = port[q].opened
                            /\ port'[q].closing = port[q].closing
                            /\ port'[q].phase = port[q].phase
        /\ ListInv' /\ StateInv' /\ FrameInv' /\ PresenterInv' /\ ClosedPortsEmpty' /\ StatusInv'
        /\ Total' <= Capacity
    BY <1>2, <1>3, <1>5, <2>1, <2>3, Reserved
  <2>5. FlipTypes'
    <3>1. guest' \in [Guests -> Calls({"idle", "reserve", "submit", "cancel"})]
      <4>1. guest'[g] \in Calls({"idle", "reserve", "submit", "cancel"})
        BY <1>1, <1>5, <2>4, ZenonT(60) DEF FlipTypes, Calls
      <4> QED
        BY <1>1, <1>5, <4>1 DEF FlipTypes
    <3> QED
      BY <1>1, <1>2, <2>4, <3>1 DEF FlipTypes
  <2>6. PortInv'
    <3>1. \A q \in Ports : /\ port'[q].opened = port[q].opened
                           /\ port'[q].closing = port[q].closing
                           /\ port'[q].generation = port[q].generation
                           /\ port'[q].phase = port[q].phase
      BY <2>4 DEF SamePorts
    <3>2. \A h \in Guests :
           /\ guest'[h].pc \in {"reserve", "cancel"} =>
                /\ guest[h].pc \in {"reserve", "cancel"} /\ guest'[h].pc = guest[h].pc
                /\ guest'[h].port = guest[h].port /\ guest'[h].index = guest[h].index
      BY <2>2
    <3> QED
      BY <1>1, <1>2, <3>1, <3>2 DEF PortInv
  <2>7. BudgetInv'
    <3>1. Reserving' = Reserving \ {g}
      BY <2>2 DEF Reserving
    <3>2. Cardinality(Reserving') = Cardinality(Reserving) - 1
      BY <1>1, <1>3, <3>1, ReservingFacts, FS_RemoveElement
    <3>3. GpuReserving' = GpuReserving
      BY <1>2 DEF GpuReserving
    <3> QED
      BY <1>1, <1>2, <2>4, <3>2, <3>3, ReservingFacts DEF BudgetInv
  <2>8. CarryInv'
    BY <1>1, <1>2, <1>3, <2>2, <2>4, CarryAdded
  <2>9. GpuInv'
    BY <1>2, <2>4, GpuKept
  <2> QED
    BY <2>4, <2>5, <2>6, <2>7, <2>8, <2>9 DEF FlipIInv
<1> QED
  BY <1>2, <1>4, <1>5

LEMMA EopReserveStep ==
  ASSUME FlipIInv, EopReserve
  PROVE  FlipIInv'
<1> DEFINE p == gpu.port
           i == gpu.index
<1>1. /\ FlipTypes /\ ListInv /\ StateInv /\ PortInv /\ BudgetInv /\ CarryInv
      /\ GpuInv /\ FrameInv /\ PresenterInv /\ ClosedPortsEmpty /\ StatusInv
  BY Parts
<1>2. gpu.pc = "reserve"
  BY DEF EopReserve, GpuAt
<1>3. /\ p \in Ports /\ i \in Indices /\ port[p].generation > 0 /\ gpu.id = NoId
  BY <1>1, <1>2 DEF PortInv, GpuInv
<1>4. CASE Exit("closed")
  BY <1>4, ExitStep
<1>5. CASE /\ GpuGoto("slot")
           /\ UNCHANGED <<port, lists, reserved, processing, work, device, pool, guest, presenter,
                          sleepers, ending>>
  <2>1. UNCHANGED <<port, request, requests, cpu, cancelled, processing, reserved, work, device,
                    free, last, guest, presenter, sleepers, exit, instance>>
    BY <1>5 DEF lists, pool, ending
  <2>2. sleepers' \subseteq Guests \cup {"gpu"}
    BY <1>1, <2>1 DEF FlipTypes
  <2> QED
    BY <1>2, <1>5, <2>1, <2>2, GpuSeeks
<1>6. CASE /\ ~port[p].closing /\ ~Full /\ Reserve(p, i, TRUE)
           /\ gpu' = [gpu EXCEPT !.pc = "prepare", !.id = reserved']
           /\ UNCHANGED <<processing, work, device, pool, guest, presenter, sleepers, ending>>
  <2>1. UNCHANGED <<processing, work, device, free, last, guest, presenter, sleepers,
                    exit, instance>>
    BY <1>6 DEF pool, ending
  <2>2. Usable(p)
    BY <1>1, <1>3, <1>6, PortFacts DEF PortInv, Usable
  <2>3. SameCancels
    BY <2>1 DEF SameCancels
  <2> HIDE DEF p, i
  <2>4. /\ reserved' = reserved + 1 /\ reserved' \in Nat /\ reserved' # NoId /\ reserved' \notin Live
        /\ Live' = Live \cup {reserved'} /\ request'[reserved'].state = "Reserved"
        /\ AwaitedStay({}) /\ Awaited' = Awaited \cup {reserved'}
        /\ requests' \in Seq(Nat) /\ request' \in [DOMAIN request' -> Requests]
        /\ port' \in [Ports -> PortRecords] /\ SamePorts
        /\ \A q \in Ports : /\ port'[q].opened = port[q].opened
                            /\ port'[q].closing = port[q].closing
                            /\ port'[q].phase = port[q].phase
        /\ ListInv' /\ StateInv' /\ FrameInv' /\ PresenterInv' /\ ClosedPortsEmpty' /\ StatusInv'
        /\ Total' <= Capacity
    BY <1>3, <1>6, <2>1, <2>2, <2>3, Reserved
  <2>5. gpu' \in Calls(GpuPcs) /\ gpu'.pc = "prepare" /\ gpu'.id = reserved'
    BY <1>1, <1>6, <2>4 DEF FlipTypes, Calls, GpuPcs
  <2>6. FlipTypes'
    BY <1>1, <2>1, <2>4, <2>5 DEF FlipTypes, GpuPcs
  <2>7. PortInv'
    BY <1>1, <2>1, <2>4, <2>5 DEF PortInv, SamePorts
  <2>8. BudgetInv'
    <3>1. Reserving' = Reserving /\ GpuReserving' = 0 /\ GpuReserving = 1
      BY <1>2, <2>1, <2>5 DEF Reserving, GpuReserving
    <3> QED
      BY <1>1, <2>1, <2>4, <3>1, ReservingFacts DEF BudgetInv
  <2>9. CarryInv'
    BY <1>1, <1>3, <2>1, <2>4, <2>5, CarryAdded
  <2>10. GpuInv'
    BY <2>4, <2>5 DEF GpuInv
  <2> QED
    BY <2>4, <2>6, <2>7, <2>8, <2>9, <2>10 DEF FlipIInv
<1> QED
  BY <1>4, <1>5, <1>6 DEF EopReserve

------------------------------------------------------------------------------
(* A port's requests are dropped *)

(* The frames of some requests go back to the pool in the order given.     *)
LEMMA FramesReleased ==
  ASSUME FlipTypes, ListInv, FrameInv, NEW s \in Seq(Nat), IsInjective(s), Range(s) \subseteq Live,
         \A id \in Range(s) : request[id].frame # NoFrame,
         Live' = Live \ Range(s), \A x \in Live' : request'[x].frame = request[x].frame,
         free' = free \o [i \in DOMAIN s |-> request[s[i]].frame], last' = last
  PROVE  FrameInv' /\ free' \in Seq(Frames)
<1> DEFINE t == [i \in DOMAIN s |-> request[s[i]].frame]
           used == {x \in Live : request[x].frame # NoFrame}
           used2 == {x \in Live' : request'[x].frame # NoFrame}
<1>1. /\ free \in Seq(Frames) /\ IsInjective(free)
      /\ last # NoFrame => last \in Range(free)
      /\ \A x \in used : request[x].frame \notin Range(free)
      /\ \A x, other \in used : request[x].frame = request[other].frame => x = other
      /\ Range(free) \cup {request[x].frame : x \in used} = Frames
  BY DEF FlipTypes, FrameInv, FramesExact
<1>2. used2 = used \ Range(s) /\ \A x \in used2 : request'[x].frame = request[x].frame
  OBVIOUS
<1>3. Range(s) \subseteq used
  OBVIOUS
<1> HIDE DEF used, used2
<1>4. \A i \in DOMAIN s : s[i] \in used
  BY <1>3 DEF Range
<1>5. t \in Seq(Frames)
  <2>1. DOMAIN s = 1..Len(s) /\ Len(s) \in Nat
    BY LenProperties
  <2>2. \A i \in 1..Len(s) : request[s[i]].frame \in Frames
    BY <1>1, <1>4, <2>1
  <2> QED
    BY <2>1, <2>2, IsASeq
<1>6. IsInjective(t)
  BY <1>1, <1>4 DEF IsInjective
<1>7. Range(t) = {request[x].frame : x \in Range(s)}
  BY DEF Range
<1> HIDE DEF t
<1>8. Range(free) \cap Range(t) = {}
  BY <1>1, <1>3, <1>7
<1>9. free' \in Seq(Frames) /\ Range(free') = Range(free) \cup Range(t) /\ IsInjective(free')
  <2>1. free' = free \o t
    BY DEF t
  <2>2. /\ free \o t \in Seq(Frames) /\ IsInjective(free \o t)
        /\ Range(free \o t) = Range(free) \cup Range(t)
    BY <1>1, <1>5, <1>6, <1>8, ConcatFacts
  <2> QED
    BY <2>1, <2>2
<1>10. \A x \in used2 : request'[x].frame \notin Range(free')
  BY <1>1, <1>2, <1>3, <1>7, <1>9
<1>11. \A x, other \in used2 : request'[x].frame = request'[other].frame => x = other
  BY <1>1, <1>2
<1>12. {request'[x].frame : x \in used2} \cup Range(t) = {request[x].frame : x \in used}
  BY <1>2, <1>3, <1>7
<1>13. Range(free') \cup {request'[x].frame : x \in used2} = Frames
  BY <1>1, <1>9, <1>12
<1>14. FramesExact'
  BY <1>9, <1>10, <1>11, <1>13 DEF FramesExact, used2, Frames, NoFrame
<1> QED
  BY <1>1, <1>9, <1>14 DEF FrameInv, NoFrame

LEMMA CancelStep ==
  ASSUME FlipIInv, NEW g \in Guests, Cancel(g)
  PROVE  FlipIInv'
<1> DEFINE p == guest[g].port
           gone == OfPort(p)
           ready == {id \in gone : ~ToComplete(id)}
           inTurn == Keep(requests, ready)
           rest == DOMAIN request \ gone
<1>1. /\ FlipTypes /\ ListInv /\ StateInv /\ PortInv /\ BudgetInv /\ CarryInv
      /\ GpuInv /\ FrameInv /\ PresenterInv /\ ClosedPortsEmpty /\ StatusInv
  BY Parts
<1>2. /\ UNCHANGED <<processing, reserved, work, device, last, gpu, presenter, exit, instance>>
      /\ guest[g].pc = "cancel"
  BY DEF Cancel, submissions, ending
<1>3. CASE /\ sleepers' = sleepers \cup {g}
           /\ UNCHANGED <<port, request, requests, cpu, cancelled, free, guest>>
  <2>1. FlipTypes'
    BY <1>1, <1>2, <1>3 DEF FlipTypes
  <2>2. SameCancels
    BY <1>3 DEF SameCancels
  <2> QED
    BY <1>2, <1>3, <2>1, <2>2, QuietStep DEF FlipIInv
<1>4. /\ p = guest[g].port /\ gone = OfPort(p)
      /\ ready = {id \in gone : ~ToComplete(id)}
      /\ inTurn = Keep(requests, ready) /\ rest = DOMAIN request \ gone
  OBVIOUS
<1>5. \/ /\ sleepers' = sleepers \cup {g}
         /\ UNCHANGED <<port, request, requests, cpu, cancelled, free, guest>>
      \/ /\ ~(processing /\ requests # <<>> /\ request[Head(requests)].port = p)
         /\ requests' = Keep(requests, rest) /\ cpu' = cpu \ gone
         /\ cancelled' = cancelled \cup (gone \ ready)
         /\ request' = [id \in DOMAIN request \ ready |-> request[id]]
         /\ free' = free \o [i \in DOMAIN inTurn |-> request[inTurn[i]].frame]
         /\ port' = [port EXCEPT ![p].pending = 0, ![p].gc = 0]
         /\ sleepers' = {} /\ guest' = [guest EXCEPT ![g] = Resting]
  BY DEF Cancel, lists, Forget, WakeAll, Return
<1> HIDE DEF p, gone, ready, inTurn, rest
<1>6. ASSUME ~(processing /\ requests # <<>> /\ request[Head(requests)].port = p),
             requests' = Keep(requests, rest), cpu' = cpu \ gone,
             cancelled' = cancelled \cup (gone \ ready),
             request' = [id \in DOMAIN request \ ready |-> request[id]],
             free' = free \o [i \in DOMAIN inTurn |-> request[inTurn[i]].frame],
             port' = [port EXCEPT ![p].pending = 0, ![p].gc = 0],
             sleepers' = {}, guest' = [guest EXCEPT ![g] = Resting]
      PROVE  FlipIInv'
  <2>1. p \in Ports /\ port[p].generation > 0 /\ port[p].closing /\ ~Usable(p) /\ guest[g].port = p
    BY <1>1, <1>2, <1>4, <1>6 DEF PortInv, Usable
  <2>2. /\ requests \in Seq(Nat) /\ IsInjective(requests) /\ IsFiniteSet(cpu)
        /\ Range(requests) \cap cpu = {} /\ Queued \cap cancelled = {}
        /\ Range(requests) \subseteq DOMAIN request /\ DOMAIN request = Live
        /\ IsFiniteSet(Queued) /\ Total = Cardinality(Queued) /\ Total \in Nat
    BY <1>1, TotalFacts DEF FlipTypes, ListInv, Live
  <2>a. gone = OfPort(p) /\ ready = {id \in gone : ~ToComplete(id)}
    BY <1>4
  <2>b. cpu' = cpu \ gone /\ cancelled' = cancelled \cup (gone \ ready)
    BY <1>6
  <2>3. /\ gone = {id \in Queued : request[id].port = p} /\ gone \subseteq Queued
        /\ Queued \subseteq Live
    BY <2>a, OfPortFacts
  <2>4. ready \subseteq gone /\ ready \subseteq Range(requests) /\ ready \subseteq Live
    <3>1. \A id \in ready : id \notin cpu
      BY <1>1, <2>a DEF StateInv, ToComplete
    <3> QED
      BY <2>a, <2>3, <3>1 DEF Queued
  <2>5. /\ requests' \in Seq(Nat) /\ IsInjective(requests')
        /\ Range(requests') = Range(requests) \ gone
        /\ requests # <<>> /\ Head(requests) \notin gone =>
             requests' # <<>> /\ Head(requests') = Head(requests)
    <3>1. Range(requests) \cap rest = Range(requests) \ gone
      BY <1>4, <1>6, <2>2
    <3>2. requests # <<>> => Head(requests) \in DOMAIN request
      BY <2>2, TailFacts
    <3>3. /\ Keep(requests, rest) \in Seq(Nat) /\ IsInjective(Keep(requests, rest))
          /\ Range(Keep(requests, rest)) = Range(requests) \cap rest
          /\ requests # <<>> /\ Head(requests) \in rest =>
               Keep(requests, rest) # <<>> /\ Head(Keep(requests, rest)) = Head(requests)
      BY <2>2, KeepFacts
    <3> QED
      BY <1>4, <1>6, <3>1, <3>2, <3>3
  <2>6. inTurn \in Seq(Nat) /\ IsInjective(inTurn) /\ Range(inTurn) = ready
    <3>1. Range(requests) \cap ready = ready
      BY <2>4
    <3>2. /\ Keep(requests, ready) \in Seq(Nat) /\ IsInjective(Keep(requests, ready))
          /\ Range(Keep(requests, ready)) = Range(requests) \cap ready
      BY <2>2, KeepFacts
    <3>3. inTurn = Keep(requests, ready)
      BY <1>4, <1>6
    <3> QED
      BY <3>1, <3>2, <3>3
  <2>7. Queued' = Queued \ gone /\ Range(requests') \cap cpu' = {} /\ IsFiniteSet(cpu')
    <3>1. IsFiniteSet(cpu')
      <4>1. cpu' \in SUBSET cpu
        BY <2>b
      <4> QED
        BY <2>2, <4>1, FS_Subset
    <3> QED
      BY <2>2, <2>5, <2>b, <3>1 DEF Queued
  <2>8. Live' = Live \ ready /\ Queued' \cap cancelled' = {}
    <3>1. Live = Queued \cup cancelled /\ Live' = Queued' \cup cancelled'
      BY DEF Live, Queued
    <3>2. gone \cap cancelled = {}
      BY <2>2, <2>3
    <3> QED
      BY <2>2, <2>3, <2>4, <2>7, <2>b, <3>1, <3>2
  <2>9. DOMAIN request' = Live' /\ \A x \in Live' : x \in Live /\ x \notin ready /\ request'[x] = request[x]
    BY <1>4, <1>6, <2>2, <2>8
  <2>10. Total' <= Total /\ Total' \in Nat
    <3>1. Total' = Cardinality(Queued') /\ Total' \in Nat
      BY <2>5, <2>7, CountFacts, FS_CardinalityType DEF Total, Queued
    <3>2. Queued' \in SUBSET Queued
      BY <2>7
    <3> QED
      BY <1>1, <3>1, <3>2, TotalFacts
  <2>11. /\ port' \in [Ports -> PortRecords]
         /\ \A q \in Ports \ {p} : port'[q] = port[q]
         /\ port'[p].pending = 0 /\ port'[p].gc = 0
         /\ \A q \in Ports : /\ (port'[q].opened <=> port[q].opened)
                             /\ port'[q].opened = port[q].opened
                             /\ (port'[q].closing <=> port[q].closing)
                             /\ port'[q].closing = port[q].closing
                             /\ port'[q].generation = port[q].generation
                             /\ port'[q].phase = port[q].phase
         /\ SamePorts
    <3> DEFINE n == 0
               c == 0
    <3>1. port' = [port EXCEPT ![p].pending = n, ![p].gc = c]
      BY <1>6
    <3>2. n \in Nat /\ c \in Nat
      OBVIOUS
    <3>3. n = 0 /\ c = 0
      OBVIOUS
    <3> HIDE DEF n, c
    <3>4. /\ port' \in [Ports -> PortRecords]
          /\ \A q \in Ports \ {p} : port'[q] = port[q]
          /\ port'[p].pending = n /\ port'[p].gc = c
          /\ \A q \in Ports : /\ (port'[q].opened <=> port[q].opened)
                              /\ port'[q].opened = port[q].opened
                              /\ (port'[q].closing <=> port[q].closing)
                              /\ port'[q].closing = port[q].closing
                              /\ port'[q].generation = port[q].generation
                              /\ port'[q].phase = port[q].phase
          /\ SamePorts
      <4>1. FlipTypes /\ p \in Ports
        BY <1>1, <2>1
      <4> QED
        BY <3>1, <3>2, <4>1, StatusChange
    <3> QED
      BY <3>3, <3>4
  <2>12. \A h \in Guests : guest'[h] = IF h = g THEN Resting ELSE guest[h]
    BY <1>1, <1>4, <1>6 DEF FlipTypes
  <2>13. FrameInv' /\ free' \in Seq(Frames)
    <3>1. \A id \in ready : request[id].frame # NoFrame
      <4>1. \A id \in ready : id \in Live /\ request[id].state \in {"Ready", "Presenting"}
        BY <1>1, <1>4, <1>6, <2>4, RequestFacts, ZenonT(60) DEF ToComplete
      <4> QED
        BY <1>1, <4>1 DEF StateInv
    <3> QED
      BY <1>1, <1>2, <1>4, <1>6, <2>4, <2>6, <2>8, <2>9, <3>1, FramesReleased
  <2>14. FlipTypes'
    <3>1. guest' \in [Guests -> Calls({"idle", "reserve", "submit", "cancel"})]
      BY <1>1, <1>4, <1>6, RestingFacts DEF FlipTypes
    <3>2. request' \in [DOMAIN request' -> Requests]
      BY <1>1, <1>4, <1>6 DEF FlipTypes
    <3> QED
      <4>1. sleepers' \subseteq Guests \cup {"gpu"}
        BY <1>6
      <4>2. UNCHANGED <<instance, reserved, work, device, processing, last, gpu, presenter, exit>>
        BY <1>2
      <4> QED
        BY <1>1, <2>5, <2>11, <2>13, <3>1, <3>2, <4>1, <4>2 DEF FlipTypes
  <2>15. ListInv'
    <3>1. Live' \subseteq 1..reserved'
      BY <1>1, <1>2, <2>8 DEF ListInv
    <3> QED
      BY <2>5, <2>7, <2>8, <2>9, <3>1 DEF ListInv
  <2>16. StateInv'
    <3>1. \A x \in cpu' : request'[x].state = "Reserved" /\ ~request'[x].eop
      <4>1. \A x \in cpu' : x \in cpu /\ x \in Live'
        BY <1>4, <1>6 DEF Live
      <4> QED
        BY <1>1, <2>9, <4>1 DEF StateInv
    <3>2. \A x \in Live' :
            request[x].state \in {"Ready", "Presenting"} => x \in Range(requests')
      <4>1. \A x \in Live' : request[x].state \in {"Ready", "Presenting"} =>
              x \in Range(requests) /\ ~ToComplete(x)
        BY <1>1, <2>9 DEF StateInv, ToComplete
      <4> QED
        BY <1>4, <1>6, <2>5, <2>9, <4>1
    <3>3. \A x \in Live' : request[x].port \in Ports
      BY <1>1, <2>9, RequestFacts
    <3> QED
      BY <1>1, <2>9, <2>11, <3>1, <3>2, <3>3 DEF StateInv
  <2>17. PortInv'
    BY <1>1, <1>2, <2>11, <2>12, RestingFacts DEF PortInv
  <2>18. BudgetInv'
    <3>1. Reserving' = Reserving /\ GpuReserving' = GpuReserving
      BY <1>2, <2>12, RestingFacts DEF Reserving, GpuReserving
    <3>2. Total' <= Capacity
      BY <1>1, <2>2, <2>10, FlipQueueAssumption DEF BudgetInv, FlipQueueAssumption
    <3> QED
      BY <1>1, <1>2, <3>1, <3>2 DEF BudgetInv
  <2>19. AwaitedStay({}) /\ Awaited' = Awaited
    <3>1. \A id \in Awaited : id \in Live /\ id \notin ready /\ ToComplete(id)
      BY <1>4, <1>6 DEF Awaited
    <3>2. \A id \in Awaited : id \in Live' /\ request'[id] = request[id]
      BY <2>8, <2>9, <3>1
    <3>3. Awaited' = Awaited
      BY <2>9, <3>1, <3>2 DEF Awaited, ToComplete
    <3>4. \A id \in Awaited :
            id \in Range(requests) \cup cancelled => id \in Range(requests') \cup cancelled'
      BY <1>4, <1>6, <2>5, <3>1
    <3>5. \A id \in Awaited : id \in Range(requests') => id \in Range(requests)
      BY <2>5
    <3> QED
      BY <3>2, <3>3, <3>4, <3>5 DEF AwaitedStay
  <2>20. CarryInv'
    <3>1. \A h \in Guests : /\ guest'[h].id = guest[h].id
                            /\ guest'[h].pc = "submit" <=> guest[h].pc = "submit"
      BY <1>1, <1>2, <2>12, RestingFacts DEF CarryInv
    <3> QED
      BY <1>1, <1>2, <2>19, <3>1, CarryKept
  <2>21. GpuInv'
    BY <1>2, <2>11, <2>19, GpuKept
  <2>22. PresenterInv'
    <3>1. SameFront
      <4> SUFFICES ASSUME presenter.pc \in {"due", "mark", "present"}
                   PROVE  /\ requests' # <<>> /\ Head(requests') = Head(requests)
                          /\ request'[presenter.id] = request[presenter.id]
        BY DEF SameFront
      <4>1. /\ requests # <<>> /\ presenter.id = Head(requests)
            /\ presenter.id \in Range(requests) /\ processing
        <5>1. FlipTypes /\ ListInv /\ PresenterInv
          BY <1>1
        <5>2. processing
          BY <5>1, Zenon DEF PresenterInv
        <5> QED
          BY <5>1, <5>2, FrontFacts
      <4>2. Head(requests) \notin gone
        BY <1>4, <1>6, <2>3, <4>1
      <4>3. requests' # <<>> /\ Head(requests') = Head(requests)
        BY <2>5, <4>1, <4>2
      <4>4. presenter.id \in Live'
        BY <2>5, <4>1, <4>2 DEF Live
      <4> QED
        BY <2>9, <4>3, <4>4
    <3> QED
      BY <1>2, <2>9, <2>11, <3>1, PresenterKept
  <2>23. \A q \in Ports \ {p} : OfPort(q)' = OfPort(q) /\ EopOf(q)' = EopOf(q)
    <3> TAKE q \in Ports \ {p}
    <3>1. \A x \in Queued' : x \in Live' /\ x \in Queued /\ request'[x] = request[x]
      BY <2>7, <2>9 DEF Live, Queued
    <3>2. OfPort(q)' = OfPort(q)
      BY <2>3, <2>7, <3>1 DEF OfPort, Queued
    <3>3. OfPort(q)' \subseteq Queued'
      BY DEF OfPort, Queued
    <3> QED
      BY <3>1, <3>2, <3>3 DEF EopOf
  <2>24. ClosedPortsEmpty'
    <3> SUFFICES ASSUME NEW q \in Ports, NEW x \in OfPort(q)'
                 PROVE  \/ Current(x)'
                        \/ \E h \in Guests : guest'[h].pc = "cancel" /\ guest'[h].port = q
      BY DEF ClosedPortsEmpty
    <3>1. x \in Queued' /\ request'[x].port = q
      BY DEF OfPort, Queued
    <3>2. x \in Live' /\ x \in Live /\ request'[x] = request[x] /\ q # p
      <4>1. x \in Live'
        BY <3>1 DEF Live, Queued
      <4> QED
        BY <2>3, <2>7, <2>9, <3>1, <4>1
    <3>3. x \in OfPort(q)
      BY <2>23, <3>2
    <3>4. CASE Current(x)
      BY <1>1, <2>11, <3>2, <3>4, CurrentStays
    <3>5. CASE \E h \in Guests : guest[h].pc = "cancel" /\ guest[h].port = q
      BY <2>1, <2>12, <3>2, <3>5
    <3> QED
      BY <1>1, <3>3, <3>4, <3>5 DEF ClosedPortsEmpty
  <2>25. StatusInv'
    <3>1. \A q \in Ports : {port'[q].pending, port'[q].gc} \subseteq 0..Capacity
      <4>1. 0 \in 0..Capacity
        BY FlipQueueAssumption DEF FlipQueueAssumption
      <4> QED
        BY <1>1, <2>11, <4>1 DEF StatusInv
    <3>2. ASSUME NEW q \in Ports, Usable(q)'
          PROVE  /\ port'[q].gc = Cardinality(EopOf(q)')
                 /\ port'[q].pending >= Cardinality(OfPort(q)')
                 /\ (\A r \in Ports \ {q} : port'[r].generation = 0) => port'[q].pending = Total'
      <4>1. q # p /\ Usable(q) /\ port'[q] = port[q]
        BY <2>1, <2>11, <3>2 DEF Usable
      <4>2. ~ \A r \in Ports \ {q} : port'[r].generation = 0
        BY <2>1, <2>11, <4>1
      <4> QED
        BY <1>1, <2>23, <4>1, <4>2 DEF StatusInv
    <3> QED
      BY <3>1, <3>2 DEF StatusInv
  <2> QED
    BY <2>13, <2>14, <2>15, <2>16, <2>17, <2>18, <2>20, <2>21, <2>22, <2>24, <2>25 DEF FlipIInv
<1> QED
  BY <1>3, <1>5, <1>6

------------------------------------------------------------------------------
(* The specification keeps the invariant *)

LEMMA InitFlipIInv == FlipInit => FlipIInv
<1> SUFFICES ASSUME FlipInit PROVE FlipIInv
  OBVIOUS
<1>1. /\ request = <<>> /\ requests = <<>> /\ cpu = {} /\ cancelled = {}
      /\ processing = FALSE /\ reserved = 0 /\ work = <<>> /\ device = <<>>
      /\ free = [f \in Frames |-> f] /\ last = NoFrame
      /\ guest = [g \in Guests |-> Resting] /\ gpu = Resting /\ presenter = Looping
      /\ sleepers = {} /\ exit = "no" /\ instance \in Instances
      /\ port = [p \in Ports |-> [opened |-> FALSE, closing |-> FALSE, generation |-> 0,
                                  phase |-> 0, pending |-> 0, gc |-> 0]]
  BY DEF FlipInit
<1>2. /\ FrameCount \in Nat \ {0} /\ Capacity \in Nat \ {0} /\ \A p \in Ports : Rate[p] \in Nat
      /\ instance.requests \in Nat
  BY <1>1, FlipQueueAssumption DEF FlipQueueAssumption
<1>3. Range(requests) = {} /\ Range(work) = {} /\ Range(device) = {} /\ DOMAIN request = {}
  BY <1>1 DEF Range
<1>4. Queued = {} /\ Live = {} /\ Awaited = {} /\ \A p : OfPort(p) = {} /\ EopOf(p) = {}
  BY <1>1, <1>3 DEF Queued, Live, Awaited, OfPort, EopOf
<1>5. Total = 0
  BY <1>1, FS_EmptySet DEF Total
<1>6. /\ free \in Seq(Frames) /\ Range(free) = Frames /\ IsInjective(free)
  <2>1. free \in Seq(Frames)
    BY <1>1, <1>2, IsASeq DEF Frames
  <2> QED
    BY <1>1, <2>1 DEF Range, IsInjective
<1>7. presenter \in PresenterRecords /\ presenter.pc = "flip"
  BY <1>1 DEF Looping, PresenterRecords, NoId
<1>8. \A p \in Ports : /\ port[p] \in PortRecords /\ ~port[p].opened /\ ~Usable(p)
                       /\ port[p].generation = 0 /\ port[p].phase = 0
                       /\ port[p].pending = 0 /\ port[p].gc = 0
  BY <1>1 DEF PortRecords, Usable
<1>9. FlipTypes
  <2>1. request \in [DOMAIN request -> Requests]
    BY <1>1, <1>3
  <2>2. <<>> \in Seq(Nat) /\ 0 \in Nat /\ NoFrame \in 0..FrameCount
    BY <1>2 DEF NoFrame
  <2> QED
    BY <1>1, <1>6, <1>7, <1>8, <2>1, <2>2, RestingFacts DEF FlipTypes, PresenterRecords, GpuPcs
<1>10. ListInv
  BY <1>1, <1>3, <1>4 DEF ListInv, IsInjective
<1>11. StateInv /\ ClosedPortsEmpty
  BY <1>1, <1>4 DEF StateInv, ClosedPortsEmpty
<1>12. PortInv
  BY <1>1, <1>2, <1>8, RestingFacts DEF PortInv
<1>13. BudgetInv
  <2>1. Reserving = {} /\ GpuReserving = 0
    BY <1>1, RestingFacts DEF Reserving, GpuReserving
  <2>2. Cardinality(Reserving) = 0
    BY <2>1, FS_EmptySet
  <2> QED
    BY <1>1, <1>2, <1>5, <2>1, <2>2 DEF BudgetInv
<1>14. CarryInv
  BY <1>1, <1>3, <1>4, RestingFacts DEF CarryInv, IsInjective
<1>15. GpuInv
  BY <1>1, RestingFacts DEF GpuInv
<1>16. FrameInv
  BY <1>1, <1>4, <1>6 DEF FrameInv, FramesExact
<1>17. PresenterInv
  BY <1>1, <1>4, <1>7 DEF PresenterInv
<1>18. StatusInv
  BY <1>2, <1>8 DEF StatusInv
<1> QED
  BY <1>9, <1>10, <1>11, <1>12, <1>13, <1>14, <1>15, <1>16, <1>17, <1>18 DEF FlipIInv

LEMMA NextFlipIInv == FlipIInv /\ [FlipNext]_flipVars => FlipIInv'
<1> SUFFICES ASSUME FlipIInv, [FlipNext]_flipVars PROVE FlipIInv'
  OBVIOUS
<1>1. CASE \E g \in Guests, p \in Ports : OpenPort(g, p) \/ ClosePort(g, p)
  BY <1>1, OpenPortStep, ClosePortStep
<1>2. CASE \E g \in Guests, p \in Ports, i \in Indices : SubmitFlip(g, p, i)
  BY <1>2, SubmitFlipStep
<1>3. CASE \E g \in Guests : GuestStep(g)
  BY <1>3, SubmitReserveStep, SubmitPreparationStep, CancelStep DEF GuestStep
<1>4. CASE \E p \in Ports, i \in Indices : EopFlip(p, i) \/ WaitFlipDone(p, i)
  BY <1>4, EopFlipStep
<1>5. CASE PrepareCpuFlip
  BY <1>5, PrepareCpuFlipStep
<1>6. CASE GpuStep
  BY <1>6, GpuSeekSteps, EopReserveStep, PrepareStep, PrepareCurrentStep, PrepareDropStep,
     PrepareFrameStep, CompleteCpuFlipStep, DeferCompletionStep DEF GpuStep
<1>7. CASE CompleteEopFlip
  BY <1>7, CompleteEopFlipStep
<1>8. CASE PresenterStep
  BY <1>8, FlipStep, FlipDueStep, FlipMarkStep, FlipPresentStep, RefreshStep, VblankEndStep
     DEF PresenterStep
<1>9. CASE UNCHANGED flipVars
  <2>1. UNCHANGED <<port, request, requests, cpu, cancelled, processing, reserved, work, device,
                    free, last, guest, gpu, presenter, sleepers, exit, instance>>
    BY <1>9 DEF flipVars, lists, submissions, pool, threads, ending
  <2>2. SameCancels
    BY <2>1 DEF SameCancels
  <2>3. FlipTypes'
    BY <2>1, Parts DEF FlipTypes
  <2> QED
    BY <2>1, <2>2, <2>3, QuietStep DEF FlipIInv
<1> QED
  BY <1>1, <1>2, <1>3, <1>4, <1>5, <1>6, <1>7, <1>8, <1>9 DEF FlipNext

(* The invariant the properties rest on. *)
THEOREM FlipsHold == FlipSpec => []FlipIInv
BY InitFlipIInv, NextFlipIInv, PTL DEF FlipSpec

(* Who carries a request: the completions that are under way.              *)
LEMMA CarriedOnce ==
  ASSUME FlipIInv
  PROVE  CompletionsExact
<1> DEFINE T == Guests \cup {"gpu"}
<1>1. FlipTypes /\ ListInv /\ CarryInv /\ GpuInv
  BY Parts
<1>2. "gpu" \notin Guests
  BY FlipQueueAssumption DEF FlipQueueAssumption
<1>3. /\ Carried["gpu"] = gpu.id
      /\ \A g \in Guests : Carried[g] = guest[g].id
      /\ CarriedIds = ({gpu.id} \cup {guest[g].id : g \in Guests}) \ {NoId}
  <2>1. Carried["gpu"] = gpu.id /\ \A g \in Guests : Carried[g] = guest[g].id
    BY <1>2 DEF Carried
  <2>2. {Carried[t] : t \in T} = {gpu.id} \cup {guest[g].id : g \in Guests}
    BY <2>1
  <2> QED
    BY <2>1, <2>2 DEF CarriedIds
<1>4. \A id \in Live : id # NoId
  BY <1>1, RequestFacts
<1>5. \A id \in Range(work) \cup Range(device) : id \in Awaited
  BY <1>1 DEF CarryInv, Recorded, Awaited, ToComplete, Live
<1>6. \A g \in Guests : guest[g].id # NoId => guest[g].id \in Awaited /\ guest[g].id # gpu.id
  BY <1>1 DEF CarryInv, Awaited, ToComplete
<1>7. gpu.id # NoId => gpu.id \in Awaited
  BY <1>1, OnlyGpuCarries
<1>8. Range(work) \cap CarriedIds = {} /\ Range(device) \cap CarriedIds = {}
  BY <1>1, <1>3 DEF CarryInv
<1>9. ASSUME NEW s \in T, NEW t \in T, Carried[s] = Carried[t], Carried[s] # NoId
      PROVE  s = t
  <2>1. \A g, h \in Guests : guest[g].id = guest[h].id /\ guest[g].id # NoId => g = h
    BY <1>1 DEF CarryInv
  <2> QED
    BY <1>3, <1>6, <1>9, <2>1
<1>10. Range(work) \cup Range(device) \cup CarriedIds = Awaited
  <2>1. CarriedIds \subseteq Awaited
    BY <1>3, <1>6, <1>7
  <2>2. \A id \in Awaited : id \in Range(work) \cup Range(device) \cup CarriedIds
    <3>1. \A id \in Awaited : id # NoId
      BY <1>4 DEF Awaited
    <3> QED
      BY <1>1, <1>3, <3>1 DEF CarryInv
  <2> QED
    BY <1>5, <2>1, <2>2
<1>11. IsInjective(work) /\ IsInjective(device) /\ Range(work) \cap Range(device) = {}
  BY <1>1 DEF CarryInv
<1> QED
  BY <1>8, <1>9, <1>10, <1>11 DEF CompletionsExact

(* The checks the queue makes of itself. *)
LEMMA ChecksPass ==
  ASSUME FlipIInv
  PROVE  ChecksHold
<1>1. /\ FlipTypes /\ ListInv /\ CarryInv /\ GpuInv /\ PresenterInv
  BY Parts
<1>2. ASSUME ~processing, NEW g \in Guests, NEW id \in OfPort(guest[g].port)
      PROVE  request[id].state # "Presenting"
  <2>1. id \in Live
    BY OfPortFacts
  <2> QED
    BY <1>1, <1>2, <2>1 DEF PresenterInv
<1>3. /\ presenter.pc = "flip" => ~processing
      /\ presenter.pc = "mark" => AtFront("Ready") /\ processing
      /\ presenter.pc = "present" => AtFront("Presenting")
  BY <1>1 DEF PresenterInv
<1>4. \A id \in Range(device) : Recorded(id)
  BY <1>1 DEF CarryInv
<1>5. /\ gpu.pc = "prepare" => gpu.id \in Live /\ request[gpu.id].state = "Reserved"
      /\ gpu.pc = "frame" => /\ gpu.id \in Range(requests) \cup cancelled
                             /\ request[gpu.id].state = "Recording"
                             /\ request[gpu.id].frame = NoFrame
      /\ gpu.pc = "prepared" => Recorded(gpu.id)
  BY <1>1 DEF GpuInv
<1> QED
  BY <1>2, <1>3, <1>4, <1>5 DEF ChecksHold

LEMMA TypesFollow ==
  ASSUME FlipIInv
  PROVE  FlipTypeOK
<1>1. /\ FlipTypes /\ ListInv /\ PortInv /\ BudgetInv /\ FrameInv /\ StatusInv
  BY Parts
<1>2. ChecksHold /\ CompletionsExact
  BY ChecksPass, CarriedOnce
<1>3. reserved \in 0..instance.requests
  BY <1>1, ReservingFacts DEF BudgetInv
<1>4. \A id \in Live :
        /\ request[id].port \in Ports
        /\ request[id].state \in {"Reserved", "Recording", "Ready", "Presenting"}
  BY <1>1, RequestFacts
<1>5. \A p \in Ports : /\ port[p].phase \in 0..Rate[p]
                       /\ {port[p].pending, port[p].gc} \subseteq 0..Capacity
  BY <1>1 DEF PortInv, StatusInv
<1>6. FramesExact /\ (last # NoFrame => last \in Range(free))
  BY <1>1 DEF FrameInv
<1>7. /\ Live \subseteq 1..reserved /\ IsInjective(requests)
      /\ Range(requests) \cap cpu = {} /\ (Range(requests) \cup cpu) \cap cancelled = {}
  BY <1>1 DEF ListInv, Queued
<1>8. /\ Total <= Capacity /\ sleepers \subseteq Guests \cup {"gpu"}
      /\ exit \in {"no", "closed", "saturated"}
  BY <1>1 DEF BudgetInv, FlipTypes
<1> QED
  BY <1>2, <1>3, <1>4, <1>5, <1>6, <1>7, <1>8 DEF FlipTypeOK

(* A request is in one list, the list is never longer than the queue's     *)
(* capacity, and no check the queue makes of itself ends the program.      *)
(* Every frame of the pool is free or held by one request, and each        *)
(* request that is not ready has one completion under way: nothing is lost *)
(* and nothing is done twice however Close, the GPU thread and the device  *)
(* come between one another.                                               *)
THEOREM FlipTypeCorrect == FlipSpec => []FlipTypeOK
<1>1. FlipIInv => FlipTypeOK
  BY TypesFollow
<1> QED
  BY <1>1, FlipsHold, PTL

LEMMA ExactFollows ==
  ASSUME FlipIInv
  PROVE  FlipsExact
<1>1. /\ StateInv /\ PresenterInv /\ ClosedPortsEmpty /\ StatusInv
  BY Parts
<1>2. NothingPresentedLate
  BY <1>1 DEF NothingPresentedLate, PresenterInv
<1>3. ASSUME NEW p \in Ports
      PROVE  {id \in OfPort(p) \ cpu : request[id].eop} = EopOf(p)
  BY <1>1 DEF StateInv, EopOf
<1>4. StatusExact
  BY <1>1, <1>3 DEF StatusExact, StatusInv
<1> QED
  BY <1>1, <1>2, <1>4 DEF FlipsExact

(* Nothing of a port that has been closed since it was reserved is shown,  *)
(* whenever Close comes between the present thread's steps, and nothing is *)
(* left in the queue for the port's next opening; the status the guest     *)
(* reads of an open port counts its flips.                                 *)
THEOREM FlipsAreExact == FlipSpec => []FlipsExact
<1>1. FlipIInv => FlipsExact
  BY ExactFollows
<1> QED
  BY <1>1, FlipsHold, PTL
==============================================================================
