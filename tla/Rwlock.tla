-------------------------------- MODULE Rwlock --------------------------------
(***************************************************************************)
(* The guest reader-writer lock of src/src/kernel/pthread.cpp: a host      *)
(* mutex, one condition variable for readers and writers alike, writer     *)
(* preference through a count of waiting writers, and a table of readers   *)
(* with a few inline slots and an overflow vector.                         *)
(*                                                                         *)
(* Every pass of RwlockLockCooperative through the host mutex is one       *)
(* action; it ends by returning or by sleeping on the condition variable   *)
(* (external: notify_all releases every sleeper, and a sleeper may return  *)
(* by itself).  The try-locks are the same pass without the sleep; a call  *)
(* refused with EBUSY, EPERM, or ETIMEDOUT of a zero timeout changes       *)
(* nothing and has no action.                                              *)
(***************************************************************************)
EXTENDS Integers, Sequences, SequencesExt, FiniteSets

CONSTANTS Threads,
          NoThread,      \* the null Pthread
          InlineSlots,   \* size of inline_readers (8 in the code)
          MaxReads,      \* bound: read locks one thread may hold at once
          TimedReaders,  \* threads that may call timedrdlock
          TimedWriters   \* threads that may call timedwrlock

ASSUME RwlockAssumption ==
  /\ IsFiniteSet(Threads)
  /\ NoThread \notin Threads
  /\ InlineSlots \in Nat
  /\ MaxReads \in Nat \ {0}
  /\ TimedReaders \cup TimedWriters \subseteq Threads

VARIABLES
  writer, writer_count, reader_count, waiting_writers,
  inline,      \* the used inline slots, each [thread, count]
  overflow,    \* overflow_readers, each [thread, count]
  pc,          \* "idle", "asleep" on cv, or "awake" before the host mutex
  write,       \* does the call in progress want the write lock
  registered,  \* its writer_wait_registered
  timed,       \* has it a deadline
  expired,     \* has the deadline passed
  reads,       \* history: read locks the guest knows each thread holds
  writes       \* history: write locks the guest knows each thread holds

table == <<inline, overflow, reader_count>>
call == <<pc, write, registered, timed, expired>>
vars == <<writer, writer_count, waiting_writers, table, call, reads, writes>>

Init ==
  /\ writer = NoThread
  /\ writer_count = 0
  /\ reader_count = 0
  /\ waiting_writers = 0
  /\ inline = <<>>
  /\ overflow = <<>>
  /\ pc = [t \in Threads |-> "idle"]
  /\ write = [t \in Threads |-> FALSE]
  /\ registered = [t \in Threads |-> FALSE]
  /\ timed = [t \in Threads |-> FALSE]
  /\ expired = [t \in Threads |-> FALSE]
  /\ reads = [t \in Threads |-> 0]
  /\ writes = [t \in Threads |-> 0]

------------------------------------------------------------------------------
(* The table of readers. *)

Slots(seq, t) == {i \in DOMAIN seq : seq[i].thread = t}

(* RwlockFindReader *)
IsReader(t) == Slots(inline, t) # {} \/ Slots(overflow, t) # {}

First(S) == CHOOSE i \in S : \A j \in S : i <= j

(* Fault: one entry too many. *)
RoomForOneMore == Len(inline) <= InlineSlots
Room == Len(inline) < InlineSlots

(* RwlockAddReader: count in the entry found, else a new entry, inline     *)
(* while there is room.                                                    *)
AddReader(t) ==
  /\ reader_count' = reader_count + 1
  /\ reads' = [reads EXCEPT ![t] = @ + 1]
  /\ LET new == [thread |-> t, count |-> 1] IN
     \/ /\ Slots(inline, t) # {}
        /\ inline' = [inline EXCEPT ![First(Slots(inline, t))].count = @ + 1]
        /\ UNCHANGED overflow
     \/ /\ Slots(inline, t) = {} /\ Slots(overflow, t) # {}
        /\ overflow' = [overflow EXCEPT ![First(Slots(overflow, t))].count = @ + 1]
        /\ UNCHANGED inline
     \/ /\ ~IsReader(t) /\ Room
        /\ inline' = Append(inline, new)
        /\ UNCHANGED overflow
     \/ /\ ~IsReader(t) /\ ~Room
        /\ overflow' = Append(overflow, new)
        /\ UNCHANGED inline

(* Fault: the entries behind the hole are forgotten. *)
DropInlineTail(i) == SubSeq(inline, 1, i - 1)

(* The last inline entry fills the hole of one that is dropped. *)
DropInline(i) == Front([inline EXCEPT ![i] = Last(inline)])

(* RwlockRemoveReader, of a thread that is in the table. *)
RemoveReader(t) ==
  /\ IsReader(t)
  /\ reader_count' = reader_count - 1
  /\ reads' = [reads EXCEPT ![t] = @ - 1]
  /\ IF Slots(inline, t) # {}
       THEN LET i == First(Slots(inline, t)) IN
            /\ inline' = IF inline[i].count = 1 THEN DropInline(i)
                         ELSE [inline EXCEPT ![i].count = @ - 1]
            /\ UNCHANGED overflow
       ELSE LET i == First(Slots(overflow, t)) IN
            /\ overflow' = IF overflow[i].count = 1 THEN RemoveAt(overflow, i)
                           ELSE [overflow EXCEPT ![i].count = @ - 1]
            /\ UNCHANGED inline

------------------------------------------------------------------------------
(* One pass of RwlockLockCooperative *)

Sleepers == {t \in Threads : pc[t] = "asleep"}

Finished(t) ==
  /\ pc' = [pc EXCEPT ![t] = "idle"]
  /\ write' = [write EXCEPT ![t] = FALSE]
  /\ registered' = [registered EXCEPT ![t] = FALSE]
  /\ timed' = [timed EXCEPT ![t] = FALSE]
  /\ expired' = [expired EXCEPT ![t] = FALSE]

(* unregister_writer_wait; nobody is notified. *)
Unregister(t) ==
  waiting_writers' = IF registered[t] THEN waiting_writers - 1 ELSE waiting_writers

(* Fault: the readers are not looked at. *)
WriteFreeOfWriters == writer = NoThread

(* Who may be let in now. *)
WriteFree == writer = NoThread /\ reader_count = 0

(* Fault: readers pass waiting writers. *)
ReadFreeAlways(t) == writer = NoThread \/ writer = t

ReadFree(t) ==
  \/ writer = NoThread /\ (waiting_writers = 0 \/ IsReader(t))
  \/ writer = t

(* A call of t in progress, wanting the write lock or not. *)
InCall(t, w) ==
  \/ pc[t] = "idle"
  \/ pc[t] = "awake" /\ write[t] = w

WriteDeadlock(t) ==
  /\ InCall(t, TRUE)
  /\ writer = t \/ IsReader(t)
  /\ Unregister(t)
  /\ Finished(t)
  /\ UNCHANGED <<writer, writer_count, table, reads, writes>>

WriteAcquire(t) ==
  /\ InCall(t, TRUE)
  /\ writer # t /\ ~IsReader(t)
  /\ WriteFree
  /\ Unregister(t)
  /\ writer' = t
  /\ writer_count' = 1
  /\ writes' = [writes EXCEPT ![t] = @ + 1]
  /\ Finished(t)
  /\ UNCHANGED <<table, reads>>

ReadAcquire(t) ==
  /\ InCall(t, FALSE)
  /\ reads[t] < MaxReads
  /\ ReadFree(t)
  /\ AddReader(t)
  /\ Finished(t)
  /\ UNCHANGED <<writer, writer_count, waiting_writers, writes>>

MustWait(t, w) ==
  IF w THEN writer # t /\ ~IsReader(t) /\ ~WriteFree ELSE ~ReadFree(t)

(* Sleep: a writer registers once per call. *)
LockBlock(t, w, tm) ==
  /\ pc[t] = "idle"
  /\ MustWait(t, w)
  /\ tm => t \in IF w THEN TimedWriters ELSE TimedReaders
  /\ pc' = [pc EXCEPT ![t] = "asleep"]
  /\ write' = [write EXCEPT ![t] = w]
  /\ registered' = [registered EXCEPT ![t] = w]
  /\ timed' = [timed EXCEPT ![t] = tm]
  /\ waiting_writers' = IF w THEN waiting_writers + 1 ELSE waiting_writers
  /\ UNCHANGED <<writer, writer_count, table, expired, reads, writes>>

LockSleepAgain(t) ==
  /\ pc[t] = "awake"
  /\ MustWait(t, write[t])
  /\ ~expired[t]
  /\ pc' = [pc EXCEPT ![t] = "asleep"]
  /\ UNCHANGED <<writer, writer_count, waiting_writers, table, write,
                 registered, timed, expired, reads, writes>>

LockTimeout(t) ==
  /\ pc[t] = "awake"
  /\ MustWait(t, write[t])
  /\ expired[t]
  /\ Unregister(t)
  /\ Finished(t)
  /\ UNCHANGED <<writer, writer_count, table, reads, writes>>

DeadlinePasses(t) ==
  /\ timed[t] /\ ~expired[t]
  /\ expired' = [expired EXCEPT ![t] = TRUE]
  /\ UNCHANGED <<writer, writer_count, waiting_writers, table, pc, write,
                 registered, timed, reads, writes>>

(* The wait ends by itself: at its deadline, after the 10 ms of a thread   *)
(* with pending signals, or spuriously.                                    *)
SleepEnds(t) ==
  /\ pc[t] = "asleep"
  /\ pc' = [pc EXCEPT ![t] = "awake"]
  /\ UNCHANGED <<writer, writer_count, waiting_writers, table, write,
                 registered, timed, expired, reads, writes>>

------------------------------------------------------------------------------
(* PthreadRwlockUnlock *)

NotifyAll == pc' = [t \in Threads |-> IF pc[t] = "asleep" THEN "awake" ELSE pc[t]]

(* Fault: the last reader leaves without telling anyone. *)
UnlockReadSilently(t) ==
  /\ pc[t] = "idle"
  /\ RemoveReader(t)
  /\ UNCHANGED <<pc, writer, writer_count, waiting_writers, write, registered,
                 timed, expired, writes>>

(* A read lock goes first; the sleepers are told only when the last one    *)
(* goes and a writer is registered.                                        *)
UnlockRead(t) ==
  /\ pc[t] = "idle"
  /\ RemoveReader(t)
  /\ IF reader_count' = 0 /\ waiting_writers > 0 THEN NotifyAll ELSE UNCHANGED pc
  /\ UNCHANGED <<writer, writer_count, waiting_writers, write, registered,
                 timed, expired, writes>>

UnlockWrite(t) ==
  /\ pc[t] = "idle"
  /\ ~IsReader(t)
  /\ writer = t
  /\ writer_count' = writer_count - 1
  /\ writes' = [writes EXCEPT ![t] = @ - 1]
  /\ IF writer_count' = 0
       THEN writer' = NoThread /\ NotifyAll
       ELSE UNCHANGED <<writer, pc>>
  /\ UNCHANGED <<waiting_writers, table, write, registered, timed, expired, reads>>

------------------------------------------------------------------------------
Lock(t) ==
  \/ WriteDeadlock(t) \/ WriteAcquire(t) \/ ReadAcquire(t)
  \/ LockSleepAgain(t) \/ LockTimeout(t)

Unlock(t) == UnlockRead(t) \/ UnlockWrite(t)

Next ==
  \E t \in Threads :
    \/ Lock(t) \/ Unlock(t)
    \/ \E w, tm \in BOOLEAN : LockBlock(t, w, tm)
    \/ DeadlinePasses(t) \/ SleepEnds(t)

Spec == Init /\ [][Next]_vars

(* A thread released from the condition variable runs on, a holder         *)
(* eventually unlocks and, however often it locks again meanwhile,         *)
(* eventually holds nothing, and a timed wait ends.  An untimed sleeper    *)
(* need never wake unless it is notified.                                  *)
UnlockLast(t) == Unlock(t) /\ reads'[t] + writes'[t] = 0

Fairness ==
  \A t \in Threads :
    /\ WF_vars(pc[t] = "awake" /\ Lock(t))
    /\ WF_vars(Unlock(t)) /\ SF_vars(UnlockLast(t))
    /\ WF_vars(DeadlinePasses(t))
    /\ WF_vars(expired[t] /\ SleepEnds(t))

FairSpec == Spec /\ Fairness

------------------------------------------------------------------------------
(* Properties *)

(* Types of the fields. *)
TypeOK ==
  /\ writer \in Threads \cup {NoThread}
  /\ writer_count \in 0..1
  /\ reader_count \in Nat /\ waiting_writers \in Nat
  /\ inline \in Seq([thread : Threads, count : 1..MaxReads])
  /\ Len(inline) <= InlineSlots
  /\ overflow \in Seq([thread : Threads, count : 1..MaxReads])
  /\ pc \in [Threads -> {"idle", "asleep", "awake"}]
  /\ \A f \in {write, registered, timed, expired} : f \in [Threads -> BOOLEAN]
  /\ reads \in [Threads -> 0..MaxReads]
  /\ writes \in [Threads -> 0..1]

(* A write lock excludes every lock of other threads. *)
Exclusive ==
  \A s, t \in Threads : writes[s] > 0 /\ (writes[t] > 0 \/ reads[t] > 0) => s = t

Listed(seq) == {seq[i].thread : i \in DOMAIN seq}

(* One entry per thread, with the read locks it holds. *)
Faithful(seq) ==
  \A i \in DOMAIN seq :
    /\ seq[i].count = reads[seq[i].thread]
    /\ \A j \in DOMAIN seq : seq[i].thread = seq[j].thread => i = j

ReadLocks == {lock \in Threads \X (1..MaxReads) : lock[2] <= reads[lock[1]]}

(* The table, through every move between inline slots and overflow, is     *)
(* what the guest holds: no reader twice, none lost, exact counts.  The    *)
(* writer is the one that holds the write lock.  And waiting_writers is    *)
(* the number of writers waiting: one that leaves by any of the exits of   *)
(* the loop takes exactly its own registration along.                      *)
BookkeepingExact ==
  /\ Faithful(inline) /\ Faithful(overflow)
  /\ Listed(inline) \cap Listed(overflow) = {}
  /\ \A t \in Threads : reads[t] > 0 => t \in Listed(inline) \cup Listed(overflow)
  /\ reader_count = Cardinality(ReadLocks)
  /\ writer # NoThread <=> writer_count = 1
  /\ \A t \in Threads : writes[t] = IF writer = t THEN 1 ELSE 0
  /\ waiting_writers = Cardinality({t \in Threads : registered[t]})
  /\ \A t \in Threads : registered[t] <=> pc[t] # "idle" /\ write[t]

(* A writer that gives up at its deadline takes its registration away and  *)
(* tells nobody: what follows is said of locks no writer times out on.     *)
NoTimedWriter == \A t \in Threads : ~(timed[t] /\ write[t])

(* When the guest stops asking, every call still waiting returns: nobody   *)
(* is left asleep on a lock it could have.                                 *)
NewCall(t) ==
  pc[t] = "idle" /\ (pc'[t] # "idle" \/ reads'[t] > reads[t] \/ writes'[t] > writes[t])
NoWaiterLeftBehind ==
  []NoTimedWriter /\ <>[][\A t \in Threads : ~NewCall(t)]_vars
    => <>[](\A t \in Threads : pc[t] = "idle")

(* Writer preference works: while a writer waits, new readers cannot keep  *)
(* the lock from writers for ever.                                         *)
WritersGetIn ==
  []NoTimedWriter => (waiting_writers > 0 ~> writer # NoThread)
==============================================================================
