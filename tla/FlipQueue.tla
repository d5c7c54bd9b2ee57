------------------------------ MODULE FlipQueue ------------------------------
(***************************************************************************)
(* The flip queue of the video output (videoOut.cpp) with the pool of      *)
(* prepared frames it lives on (FramePool, swapchain.cpp).  The actors:    *)
(* guest threads, which open and close ports and submit flips; the GPU     *)
(* thread, which prepares every flip and submits those of end-of-pipe      *)
(* events itself; the priority thread, which completes these when the      *)
(* device gets to them; and the present thread.                            *)
(*                                                                         *)
(* Every section under the queue's m_mutex is one action.  A request is    *)
(* known by its id: the lists hold ids, and only that of the requests that *)
(* can be presented has an order that matters.  Buffers stay registered    *)
(* while a port is open; what the present thread does while the guest is   *)
(* paused, events and time stamps are left out.                            *)
(***************************************************************************)
EXTENDS Naturals, Sequences, SequencesExt, FiniteSets

CONSTANTS
  Guests,         \* guest threads
  Ports,          \* the contexts of m_video_out_ctx that can be opened
  Indices,        \* indices of registered buffers
  Rate,           \* flip_rate of each port
  Capacity,       \* VIDEO_OUT_FLIP_QUEUE_CAPACITY
  FrameCount,     \* frames in the pool: the images of the swapchain
  Instances       \* bound: what to check together, records of the guests and
                  \* ports that take part, how many flips they reserve and up
                  \* to which generation ports are opened

ASSUME FlipQueueAssumption ==
  /\ IsFiniteSet(Guests) /\ "gpu" \notin Guests
  /\ Rate \in [Ports -> Nat]
  /\ Capacity \in Nat \ {0} /\ FrameCount \in Nat \ {0}
  /\ Instances \subseteq [guests : SUBSET Guests, ports : SUBSET Ports,
                           requests : Nat, generations : Nat]

VARIABLES
  port,        \* VideoOutConfig; phase is vblank_status.count % (flip_rate + 1)
  request,     \* the Requests in the three lists
  requests,    \* m_requests
  cpu,         \* m_cpu_requests
  cancelled,   \* m_cancelled_requests
  processing,  \* m_processing
  reserved,    \* m_next_request_id - 1
  work,        \* flip preparations submitted to the GPU thread
  device,      \* end-of-pipe flips the device has still to finish
  free,        \* FramePool::m_free
  last,        \* FramePool::m_last_frame
  guest,       \* each guest thread's call
  gpu,         \* the GPU thread's command
  presenter,   \* the present thread, and the request it has copied
  sleepers,    \* threads blocked on m_done_cond_var or m_submit_slot_cond_var
  exit,        \* why the program has ended, "no" while it has not
  instance     \* the member of Instances

lists == <<request, requests, cpu, cancelled>>
submissions == <<reserved, work, device>>
pool == <<free, last>>
threads == <<guest, gpu, presenter, sleepers>>
ending == <<exit, instance>>
flipVars == <<port, lists, processing, submissions, pool, threads, ending>>

Frames == 1..FrameCount
NoFrame == 0
NoId == 0

Calling(pc, p, i, id) == [pc |-> pc, port |-> p, index |-> i, id |-> id]
Resting ==
  Calling("idle", CHOOSE p \in Ports : TRUE, CHOOSE i \in Indices : TRUE, NoId)
Looping == [pc |-> "flip", id |-> NoId]

FlipInit ==
  /\ port = [p \in Ports |-> [opened |-> FALSE, closing |-> FALSE, generation |-> 0,
                              phase |-> 0, pending |-> 0, gc |-> 0]]
  /\ request = <<>> /\ requests = <<>> /\ cpu = {} /\ cancelled = {}
  /\ processing = FALSE /\ reserved = 0
  /\ work = <<>> /\ device = <<>>
  /\ free = [f \in Frames |-> f] /\ last = NoFrame
  /\ guest = [g \in Guests |-> Resting]
  /\ gpu = Resting
  /\ presenter = Looping
  /\ sleepers = {}
  /\ exit = "no"
  /\ instance \in Instances

Running == exit = "no"

(* The driver's mutex is kept through a Close, a port's while its flip is  *)
(* presented; every other section under them is one action.                *)
DriverFree == \A g \in Guests : guest[g].pc # "cancel"
PortFree(p) == ~(presenter.pc \in {"mark", "present"} /\ request[presenter.id].port = p)

Usable(p) == port[p].opened /\ ~port[p].closing
Current(id) ==
  LET r == request[id]
  IN  Usable(r.port) /\ port[r.port].generation = r.generation

Total == Len(requests) + Cardinality(cpu)
Full == Total >= Capacity

(* Bound: the calls under way may still reserve. *)
Reserving == {g \in Guests : guest[g].pc = "reserve"}
GpuReserving == IF gpu.pc \in {"get", "reserve", "slot"} THEN 1 ELSE 0
Reservable == reserved + Cardinality(Reserving) + GpuReserving < instance.requests

ToComplete(id) == request[id].state \in {"Reserved", "Recording"}

(* The requests of a port that are still to be shown. *)
OfPort(p) == {id \in Range(requests) \cup cpu : request[id].port = p}

(* The increasing enumeration of a finite set of numbers. *)
Increasing(P) ==
  CHOOSE at \in [1..Cardinality(P) -> P] :
    \A i, j \in 1..Cardinality(P) : i < j => at[i] < at[j]

(* The subsequence of the members of S. *)
Keep(queue, S) ==
  LET at == Increasing({i \in DOMAIN queue : queue[i] \in S})
  IN  [i \in DOMAIN at |-> queue[at[i]]]

Forget(ids) == request' = [id \in DOMAIN request \ ids |-> request[id]]

(* SignalAll on both condition variables; only the GPU thread waits for a  *)
(* submit slot, everybody else for a flip to be done.                      *)
WakeDone == sleepers' = (IF gpu.pc = "slot" THEN sleepers \cap {"gpu"} ELSE {})
WakeAll == sleepers' = {}

------------------------------------------------------------------------------
(* FramePool: the free frames in the order they were released *)

Acquire ==
  /\ free # <<>>
  /\ free' = Tail(free)
  /\ last' = IF last = Head(free) THEN NoFrame ELSE last

Release(frame, makeLast) ==
  /\ free' = Append(free, frame)
  /\ last' = IF makeLast THEN frame ELSE last

(* Presenter::Present: the frame becomes the last one shown, unless the    *)
(* swapchain failed twice and it was dropped.                              *)
Present(frame) == \E shown \in BOOLEAN : Release(frame, shown)

------------------------------------------------------------------------------
(* Reserve *)

NewRequest(p, i, eop) ==
  [port |-> p, generation |-> port[p].generation, index |-> i, eop |-> eop,
   state |-> "Reserved", frame |-> NoFrame]

(* Fault: CPU flips take their place among the prepared ones at once. *)
PlaceInOrder(id, eop) == requests' = Append(requests, id) /\ UNCHANGED cpu

PlaceRequest(id, eop) ==
  IF eop THEN requests' = Append(requests, id) /\ UNCHANGED cpu
         ELSE cpu' = cpu \cup {id} /\ UNCHANGED requests

Reserve(p, i, eop) ==
  LET new == reserved + 1
  IN  /\ reserved' = new
      /\ request' = [id \in DOMAIN request \cup {new} |->
                       IF id = new THEN NewRequest(p, i, eop) ELSE request[id]]
      /\ PlaceRequest(new, eop)
      /\ port' = [port EXCEPT ![p].pending = Total + 1,
                              ![p].gc = IF eop THEN @ + 1 ELSE @]
      /\ UNCHANGED cancelled

------------------------------------------------------------------------------
(* Guest threads *)

Call(g, pc, p, i) == guest' = [guest EXCEPT ![g] = Calling(pc, p, i, NoId)]
Return(g) == guest' = [guest EXCEPT ![g] = Resting]

MayCall(g) == Running /\ guest[g] = Resting /\ g \in instance.guests /\ DriverFree

OpenPort(g, p) ==
  /\ MayCall(g)
  /\ PortFree(p)
  /\ ~port[p].opened
  /\ p \in instance.ports
  /\ port[p].generation < instance.generations
  /\ port' = [port EXCEPT ![p] = [opened |-> TRUE, closing |-> FALSE, phase |-> 0,
                                  generation |-> @.generation + 1, pending |-> 0, gc |-> 0]]
  /\ UNCHANGED <<lists, processing, submissions, pool, threads, ending>>

(* VideoOutSubmitFlip finds the port under the driver's mutex ... *)
SubmitFlip(g, p, i) ==
  /\ MayCall(g)
  /\ port[p].opened
  /\ Reservable
  /\ Call(g, "reserve", p, i)
  /\ UNCHANGED <<port, lists, processing, submissions, pool, gpu, presenter,
                 sleepers, ending>>

(* ... reserves under the port's and the queue's, or comes back with an    *)
(* error ...                                                               *)
SubmitReserve(g) ==
  LET p == guest[g].port
  IN  /\ Running
      /\ guest[g].pc = "reserve"
      /\ PortFree(p)
      /\ IF port[p].closing \/ Full
           THEN Return(g) /\ UNCHANGED <<port, lists, reserved>>
           ELSE /\ Reserve(p, guest[g].index, FALSE)
                /\ guest' = [guest EXCEPT ![g].pc = "submit", ![g].id = reserved']
      /\ UNCHANGED <<processing, work, device, pool, gpu, presenter, sleepers,
                     ending>>

(* ... and hands the preparation to the GPU thread. *)
SubmitPreparation(g) ==
  /\ Running
  /\ guest[g].pc = "submit"
  /\ work' = Append(work, guest[g].id)
  /\ Return(g)
  /\ UNCHANGED <<port, lists, processing, reserved, device, pool, gpu,
                 presenter, sleepers, ending>>

ClosePort(g, p) ==
  /\ MayCall(g)
  /\ PortFree(p)
  /\ port[p].opened
  /\ port' = [port EXCEPT ![p].opened = FALSE, ![p].closing = TRUE, ![p].generation = @ + 1]
  /\ Call(g, "cancel", p, Resting.index)
  /\ UNCHANGED <<lists, processing, submissions, pool, gpu, presenter,
                 sleepers, ending>>

(* FlipQueue::Cancel waits out a flip of the port, keeps the requests that *)
(* are still to be completed among the cancelled ones, and drops the Ready *)
(* ones, whose frames go back to the pool.  Then it clears the status of   *)
(* the port, which nobody looks at now, and Close releases the driver.     *)
Cancel(g) ==
  LET p == guest[g].port
      gone == OfPort(p)
      ready == {id \in gone : ~ToComplete(id)}
      inTurn == Keep(requests, ready)
  IN  /\ Running
      /\ guest[g].pc = "cancel" /\ g \notin sleepers
      /\ IF processing /\ requests # <<>> /\ request[Head(requests)].port = p
           THEN /\ sleepers' = sleepers \cup {g}
                /\ UNCHANGED <<port, lists, free, guest>>
           ELSE /\ requests' = Keep(requests, DOMAIN request \ gone)
                /\ cpu' = cpu \ gone
                /\ cancelled' = cancelled \cup (gone \ ready)
                /\ Forget(ready)
                /\ free' = free \o [i \in DOMAIN inTurn |-> request[inTurn[i]].frame]
                /\ port' = [port EXCEPT ![p].pending = 0, ![p].gc = 0]
                /\ WakeAll
                /\ Return(g)
      /\ UNCHANGED <<processing, submissions, last, gpu, presenter, ending>>

------------------------------------------------------------------------------
(* The GPU thread *)

Exit(why) ==
  /\ exit' = why
  /\ UNCHANGED <<port, lists, processing, submissions, pool, threads, instance>>

GpuAt(pc) == Running /\ gpu.pc = pc /\ "gpu" \notin sleepers
GpuGoto(pc) == gpu' = [gpu EXCEPT !.pc = pc]

(* The commands it may find: a flip of an end-of-pipe event, a wait for    *)
(* the flips of a buffer, or the preparation of a CPU flip.                *)
EopFlip(p, i) ==
  /\ GpuAt("idle")
  /\ DriverFree
  /\ port[p].opened
  /\ Reservable
  /\ gpu' = Calling("reserve", p, i, NoId)
  /\ UNCHANGED <<port, lists, processing, submissions, pool, guest, presenter,
                 sleepers, ending>>

WaitFlipDone(p, i) ==
  /\ GpuAt("idle")
  /\ DriverFree
  /\ port[p].opened
  /\ gpu' = Calling("wait", p, i, NoId)
  /\ UNCHANGED <<port, lists, processing, submissions, pool, guest, presenter,
                 sleepers, ending>>

PrepareCpuFlip ==
  /\ GpuAt("idle")
  /\ work # <<>>
  /\ work' = Tail(work)
  /\ gpu' = Calling("prepare", Resting.port, Resting.index, Head(work))
  /\ UNCHANGED <<port, lists, processing, reserved, device, pool, guest,
                 presenter, sleepers, ending>>

(* PrepareVideoOutFlip tries again when there was a slot.  A port that has *)
(* been closed meanwhile ends the program.                                 *)
SubmitFlipFromGpu ==
  /\ GpuAt("get")
  /\ DriverFree
  /\ IF ~port[gpu.port].opened
       THEN Exit("closed")
       ELSE /\ GpuGoto("reserve")
            /\ UNCHANGED <<port, lists, processing, submissions, pool, guest,
                           presenter, sleepers, ending>>

EopReserve ==
  /\ GpuAt("reserve")
  /\ PortFree(gpu.port)
  /\ IF port[gpu.port].closing
       THEN Exit("closed")
       ELSE /\ IF Full
                 THEN GpuGoto("slot") /\ UNCHANGED <<port, lists, reserved>>
                 ELSE /\ Reserve(gpu.port, gpu.index, TRUE)
                      /\ gpu' = [gpu EXCEPT !.pc = "prepare", !.id = reserved']
            /\ UNCHANGED <<processing, work, device, pool, guest, presenter,
                           sleepers, ending>>

WaitForSubmitSlot ==
  /\ GpuAt("slot")
  /\ IF Full /\ requests = <<>>
       THEN Exit("saturated")
       ELSE /\ IF Full
                 THEN sleepers' = sleepers \cup {"gpu"} /\ UNCHANGED gpu
                 ELSE GpuGoto("get") /\ UNCHANGED sleepers
            /\ UNCHANGED <<port, lists, processing, submissions, pool, guest,
                           presenter, ending>>

(* FlipQueue::Wait *)
AwaitFlips ==
  /\ GpuAt("wait")
  /\ IF \E id \in OfPort(gpu.port) : request[id].index = gpu.index
       THEN sleepers' = sleepers \cup {"gpu"} /\ UNCHANGED gpu
       ELSE gpu' = Resting /\ UNCHANGED sleepers
  /\ UNCHANGED <<port, lists, processing, submissions, pool, guest, presenter,
                 ending>>

(* Prepare: a CPU request joins the prepared ones at their end, whatever   *)
(* was reserved before it; one that has been cancelled needs no frame.     *)
Prepare ==
  LET id == gpu.id
  IN  /\ GpuAt("prepare")
      /\ IF id \in cpu
           THEN requests' = Append(requests, id) /\ cpu' = cpu \ {id}
           ELSE UNCHANGED <<requests, cpu>>
      /\ request' = [request EXCEPT ![id].state = "Recording"]
      /\ GpuGoto(IF id \in cancelled THEN "prepared" ELSE "current")
      /\ UNCHANGED <<port, cancelled, processing, submissions, pool, guest,
                     presenter, sleepers, ending>>

PrepareCurrent ==
  /\ GpuAt("current")
  /\ PortFree(request[gpu.id].port)
  /\ GpuGoto(IF Current(gpu.id) THEN "frame" ELSE "drop")
  /\ UNCHANGED <<port, lists, processing, submissions, pool, guest, presenter,
                 sleepers, ending>>

(* A port that is closing: the Close under way need not find the request.  *)
PrepareDrop ==
  /\ GpuAt("drop")
  /\ IF gpu.id \in Range(requests)
       THEN /\ requests' = Keep(requests, DOMAIN request \ {gpu.id})
            /\ cancelled' = cancelled \cup {gpu.id}
       ELSE UNCHANGED <<requests, cancelled>>
  /\ GpuGoto("prepared")
  /\ UNCHANGED <<port, request, cpu, processing, submissions, pool, guest,
                 presenter, sleepers, ending>>

(* PrepareFrame waits for a frame of the pool with no lock held; then it   *)
(* belongs to the request, wherever that is by now.                        *)
PrepareFrame ==
  /\ GpuAt("frame")
  /\ Acquire
  /\ request' = [request EXCEPT ![gpu.id].frame = Head(free)]
  /\ GpuGoto("prepared")
  /\ UNCHANGED <<port, requests, cpu, cancelled, processing, submissions,
                 guest, presenter, sleepers, ending>>

(* A cancelled request whose completion has come. *)
Dismiss(id) == cancelled' = cancelled \ {id} /\ Forget({id}) /\ WakeDone

(* Fault: the frame of a cancelled request is not discarded. *)
CompleteKeepingFrame(id) ==
  IF id \in Range(requests)
    THEN /\ request' = [request EXCEPT ![id].state = "Ready"]
         /\ UNCHANGED <<cancelled, pool, sleepers>>
    ELSE Dismiss(id) /\ UNCHANGED pool

(* Complete: the request is Ready, or forgotten if it has been cancelled.  *)
Complete(id) ==
  IF id \in Range(requests)
    THEN /\ request' = [request EXCEPT ![id].state = "Ready"]
         /\ UNCHANGED <<cancelled, pool, sleepers>>
    ELSE /\ Dismiss(id)
         /\ IF request[id].frame # NoFrame
              THEN Release(request[id].frame, FALSE)
              ELSE UNCHANGED pool

(* A CPU flip is completed as soon as its commands are submitted.          *)
CompleteCpuFlip ==
  /\ GpuAt("prepared") /\ ~request[gpu.id].eop
  /\ Complete(gpu.id)
  /\ gpu' = Resting
  /\ UNCHANGED <<port, requests, cpu, processing, submissions, guest,
                 presenter, ending>>

(* WriteAtEndOfPipe...Flip defers the completion of the other kind ...     *)
DeferCompletion ==
  /\ GpuAt("prepared") /\ request[gpu.id].eop
  /\ device' = Append(device, gpu.id)
  /\ gpu' = Resting
  /\ UNCHANGED <<port, lists, processing, reserved, work, pool, guest,
                 presenter, sleepers, ending>>

(* ... to when the device has come to it; the priority thread runs it.     *)
CompleteEopFlip ==
  /\ Running
  /\ device # <<>>
  /\ Complete(Head(device))
  /\ device' = Tail(device)
  /\ UNCHANGED <<port, requests, cpu, processing, reserved, work, guest, gpu,
                 presenter, ending>>

------------------------------------------------------------------------------
(* The present thread *)

PresenterAt(pc) == Running /\ presenter.pc = pc
PresenterGoto(pc) == presenter' = [presenter EXCEPT !.pc = pc]
Round(pc) == presenter' = [Looping EXCEPT !.pc = pc]

(* Flip(0): the wait for a first request gives up at once. *)
Flip ==
  /\ PresenterAt("flip")
  /\ IF requests # <<>> /\ request[Head(requests)].state = "Ready"
       THEN /\ processing' = TRUE
            /\ presenter' = [pc |-> "due", id |-> Head(requests)]
       ELSE Round("idle") /\ UNCHANGED processing
  /\ UNCHANGED <<port, lists, submissions, pool, guest, gpu, sleepers, ending>>

(* Fault: the port may be closing. *)
DueWhenClosing(id) == port[request[id].port].phase = 0

(* IsFlipDueLocked *)
Due(id) == Current(id) /\ port[request[id].port].phase = 0

(* The port's mutex is kept when the flip is due.  If not, processing ends *)
(* after the mutex is released; nobody can tell the two apart.             *)
FlipDue ==
  /\ PresenterAt("due")
  /\ IF Due(presenter.id)
       THEN PresenterGoto("mark") /\ UNCHANGED <<processing, sleepers>>
       ELSE processing' = FALSE /\ WakeDone /\ Round("idle")
  /\ UNCHANGED <<port, lists, submissions, pool, guest, gpu, ending>>

FlipMark ==
  /\ PresenterAt("mark")
  /\ request' = [request EXCEPT ![presenter.id].state = "Presenting"]
  /\ PresenterGoto("present")
  /\ UNCHANGED <<port, requests, cpu, cancelled, processing, submissions, pool,
                 guest, gpu, sleepers, ending>>

(* Present, and the request leaves the queue.  One slot is free. *)
FlipPresent ==
  LET id == presenter.id
      r == request[id]
  IN  /\ PresenterAt("present")
      /\ Present(r.frame)
      /\ requests' = Tail(requests)
      /\ Forget({id})
      /\ port' = [port EXCEPT ![r.port].pending = Total - 1,
                              ![r.port].gc = IF r.eop /\ @ > 0 THEN @ - 1 ELSE @]
      /\ processing' = FALSE
      /\ WakeAll
      /\ Round("end")
      /\ UNCHANGED <<cpu, cancelled, submissions, guest, gpu, ending>>

(* Nothing was presented.  If the overlay changed, the last frame is shown *)
(* again, staying the last whatever the swapchain does, or a blank one if  *)
(* there is none; if no port is open, always a blank one.  The thread may  *)
(* wait for it.                                                            *)
Refresh ==
  /\ PresenterAt("idle")
  /\ \/ Round("end") /\ UNCHANGED pool
     \/ /\ last # NoFrame
        /\ free' = Append(Keep(free, Frames \ {last}), last)
        /\ Round("end")
        /\ UNCHANGED last
     \/ /\ DriverFree
        /\ last = NoFrame \/ \A p \in Ports : ~port[p].opened
        /\ Round("blank")
        /\ UNCHANGED pool
  /\ UNCHANGED <<port, lists, processing, submissions, guest, gpu, sleepers,
                 ending>>

RefreshBlank ==
  /\ PresenterAt("blank")
  /\ free # <<>>
  /\ free' = Append(Tail(free), Head(free))
  /\ last' \in {Head(free), IF last = Head(free) THEN NoFrame ELSE last}
  /\ Round("end")
  /\ UNCHANGED <<port, lists, processing, submissions, guest, gpu, sleepers,
                 ending>>

VblankEnd ==
  /\ PresenterAt("end")
  /\ DriverFree
  /\ port' = [p \in Ports |-> IF port[p].opened
                                THEN [port[p] EXCEPT !.phase = (@ + 1) % (Rate[p] + 1)]
                                ELSE port[p]]
  /\ presenter' = Looping
  /\ UNCHANGED <<lists, processing, submissions, pool, guest, gpu, sleepers,
                 ending>>

------------------------------------------------------------------------------
GuestStep(g) == SubmitReserve(g) \/ SubmitPreparation(g) \/ Cancel(g)

GpuStep ==
  \/ SubmitFlipFromGpu \/ EopReserve \/ WaitForSubmitSlot \/ AwaitFlips
  \/ Prepare \/ PrepareCurrent \/ PrepareDrop \/ PrepareFrame
  \/ CompleteCpuFlip \/ DeferCompletion

PresenterStep ==
  \/ Flip \/ FlipDue \/ FlipMark \/ FlipPresent
  \/ Refresh \/ RefreshBlank \/ VblankEnd

FlipNext ==
  \/ \E g \in Guests, p \in Ports :
       \/ OpenPort(g, p) \/ ClosePort(g, p)
       \/ \E i \in Indices : SubmitFlip(g, p, i)
  \/ \E g \in Guests : GuestStep(g)
  \/ \E p \in Ports, i \in Indices : EopFlip(p, i) \/ WaitFlipDone(p, i)
  \/ PrepareCpuFlip \/ GpuStep \/ CompleteEopFlip \/ PresenterStep

FlipSpec == FlipInit /\ [][FlipNext]_flipVars

(* Every thread is run; the GPU thread takes submissions in their order,   *)
(* so a preparation has its turn whatever it waits for in between; the     *)
(* device finishes what it is given.                                       *)
FlipFairness ==
  /\ \A g \in Guests : WF_flipVars(GuestStep(g))
  /\ WF_flipVars(GpuStep) /\ SF_flipVars(PrepareCpuFlip)
  /\ WF_flipVars(CompleteEopFlip)
  /\ WF_flipVars(PresenterStep)

FlipFairSpec == FlipSpec /\ FlipFairness

------------------------------------------------------------------------------
(* Properties *)

Live == Range(requests) \cup cpu \cup cancelled

(* The requests whose completion is still to come, and who is to bring it: *)
(* a thread that has the id in its call, or one of the two queues.         *)
Awaited == {id \in Live : ToComplete(id)}
Carried == [t \in Guests \cup {"gpu"} |-> IF t = "gpu" THEN gpu.id ELSE guest[t].id]
CarriedIds == {Carried[t] : t \in Guests \cup {"gpu"}} \ {NoId}

(* Each of them has exactly one completion under way. *)
CompletionsExact ==
  /\ IsInjective(work) /\ IsInjective(device)
  /\ Range(work) \cap Range(device) = {}
  /\ Range(work) \cap CarriedIds = {} /\ Range(device) \cap CarriedIds = {}
  /\ \A s, t \in Guests \cup {"gpu"} : Carried[s] = Carried[t] /\ Carried[s] # NoId => s = t
  /\ Range(work) \cup Range(device) \cup CarriedIds = Awaited

(* Each frame of the pool is free or belongs to one request. *)
FramesExact ==
  LET used == {id \in Live : request[id].frame # NoFrame}
  IN  /\ IsInjective(free)
      /\ \A id \in used : request[id].frame \notin Range(free)
      /\ \A id, other \in used : request[id].frame = request[other].frame => id = other
      /\ Range(free) \cup {request[id].frame : id \in used} = Frames

AtFront(state) ==
  /\ requests # <<>>
  /\ Head(requests) = presenter.id
  /\ request[presenter.id].state = state

(* What Complete looks for. *)
Recorded(id) ==
  /\ id \in Range(requests) \cup cancelled
  /\ request[id].state = "Recording"
  /\ id \in Range(requests) => request[id].frame # NoFrame

(* The checks the queue makes of itself, each of which ends the program    *)
(* when it fails: in Prepare, Complete, Flip and Cancel.                   *)
ChecksHold ==
  /\ gpu.pc = "prepare" => gpu.id \in Live /\ request[gpu.id].state = "Reserved"
  /\ gpu.pc = "frame" => /\ gpu.id \in Range(requests) \cup cancelled
                         /\ request[gpu.id].state = "Recording"
                         /\ request[gpu.id].frame = NoFrame
  /\ gpu.pc = "prepared" => Recorded(gpu.id)
  /\ \A id \in Range(device) : Recorded(id)
  /\ presenter.pc = "flip" => ~processing
  /\ presenter.pc = "mark" => AtFront("Ready") /\ processing
  /\ presenter.pc = "present" => AtFront("Presenting")
  /\ \A g \in Guests : guest[g].pc = "cancel" /\ ~processing =>
       \A id \in OfPort(guest[g].port) : request[id].state # "Presenting"

(* Every variable keeps its type, and a request is in one list.  The       *)
(* program never ends at one of the checks the queue makes of itself.      *)
(* Each frame of the pool is free or in use once, so none is lost with a   *)
(* cancelled flip and none is released twice.  Each request that is not    *)
(* ready has exactly one completion under way, the cancelled ones too.     *)
FlipTypeOK ==
  /\ exit \in {"no", "closed", "saturated"}
  /\ reserved \in 0..instance.requests
  /\ Live \subseteq 1..reserved
  /\ \A id \in Live :
       /\ request[id].port \in Ports
       /\ request[id].state \in {"Reserved", "Recording", "Ready", "Presenting"}
  /\ IsInjective(requests)
  /\ Range(requests) \cap cpu = {} /\ (Range(requests) \cup cpu) \cap cancelled = {}
  /\ Total <= Capacity
  /\ \A p \in Ports : /\ port[p].phase \in 0..Rate[p]
                      /\ {port[p].pending, port[p].gc} \subseteq 0..Capacity
  /\ sleepers \subseteq Guests \cup {"gpu"}
  /\ last # NoFrame => last \in Range(free)
  /\ ChecksHold
  /\ FramesExact
  /\ CompletionsExact

(* What is on its way to the screen is the first request, of a port that   *)
(* is open and has not been closed since it was reserved: Close returns    *)
(* only when nothing of the port can be shown any more.                    *)
NothingPresentedLate ==
  presenter.pc = "present" => Current(presenter.id) /\ AtFront("Presenting")

(* A closed port has left nothing in the queue for its next opening.       *)
ClosedPortsEmpty ==
  \A p \in Ports : \A id \in OfPort(p) :
    \/ Current(id)
    \/ \E g \in Guests : guest[g].pc = "cancel" /\ guest[g].port = p

(* While the port is open, gcQueueNum is the number of its end-of-pipe     *)
(* flips, and flipPendingNum, which counts every port's, is exact when     *)
(* only one port has been opened and at least its own flips otherwise.     *)
StatusExact ==
  \A p \in {q \in Ports : Usable(q)} :
    /\ port[p].gc = Cardinality({id \in OfPort(p) \ cpu : request[id].eop})
    /\ port[p].pending >= Cardinality(OfPort(p))
    /\ (\A q \in Ports \ {p} : port[q].generation = 0) => port[p].pending = Total

FlipsExact == NothingPresentedLate /\ ClosedPortsEmpty /\ StatusExact

(* The GPU thread waits for a CPU flip whose preparation is in its own     *)
(* queue behind the wait.                                                  *)
GpuWaitsForItself ==
  gpu.pc = "wait" /\ \E id \in OfPort(gpu.port) \cap cpu : request[id].index = gpu.index

(* The present thread waits for a frame, and all are held by flips only it *)
(* can present.                                                            *)
PresenterStarved ==
  /\ presenter.pc = "blank"
  /\ Cardinality({id \in Range(requests) : request[id].frame # NoFrame}) = FrameCount

(* Unless one of these two happens or the program ends, every call of the  *)
(* guest returns, Close included, the GPU thread comes back from every     *)
(* command, waiting for slots, frames and flips, and every flip is shown   *)
(* or cancelled.                                                           *)
FlipCallsReturn ==
  [](exit = "no" /\ ~GpuWaitsForItself /\ ~PresenterStarved) =>
    /\ \A g \in Guests : guest[g].pc # "idle" ~> guest[g].pc = "idle"
    /\ gpu.pc # "idle" ~> gpu.pc = "idle"
    /\ Total > 0 ~> Total = 0
==============================================================================
