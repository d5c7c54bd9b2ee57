----------------------------- MODULE MemoryTracker -----------------------------
(***************************************************************************)
(* How the host GPU's caches follow what the guest writes: the tracker of  *)
(* CPU-dirty and GPU-dirty pages (memoryTracker, regionManager), the page  *)
(* watchers that protect guest pages (pageManager.cpp), the buffer cache   *)
(* and the texture cache that upload, download and forget by them, and the *)
(* fault handler through which a guest write or read reaches all four.     *)
(*                                                                         *)
(* One buffer covers all Pages; one image covers an interval of them, and  *)
(* may share its first and its last page with bytes that are not its own.  *)
(* A loop over tracking regions is one action for each region: lock it,    *)
(* change its bits, protect, unlock.  The calls of the page manager an     *)
(* action makes are kept in calls and run, protection by protection, before *)
(* the thread goes on.  The host's page protection and the device are      *)
(* external.                                                               *)
(***************************************************************************)
EXTENDS Naturals, Sequences, FiniteSets, FiniteSetsExt

CONSTANTS Guests,       \* the guest threads that touch tracked memory
          Gpu,          \* the GPU thread
          None,         \* nobody
          NPages,       \* the pages of guest memory
          RegionPages,  \* TRACKER_REGION_SIZE in pages
          Instances     \* bound: what to check together, records of an image (a set
                        \* of adjacent pages, or {}), of the guests that are active
                        \* and of the ranges the GPU obtains and the kernel writes

Pages == 1..NPages

ASSUME MemoryTrackerAssumption ==
  /\ Gpu \notin Guests /\ None \notin Guests \cup {Gpu}
  /\ NPages \in Nat \ {0} /\ RegionPages \in Nat \ {0}
  /\ Instances \subseteq [image : SUBSET Pages, guests : SUBSET Guests,
                            ranges : SUBSET ((SUBSET Pages) \ {{}})]

VARIABLES
  cpu_dirty,     \* the pages in RegionManager::m_cpu_dirty
  gpu_dirty,     \* the pages in RegionManager::m_gpu_dirty
  tracker_lock,  \* the owner of each RegionManager::lock
  watchers,      \* PageState: the write and access watchers of each page
  protection,    \* what the host lets the guest do with each page
  protects,      \* by region, the Protect calls the holder of its page lock
                 \* has still to make
  calls,         \* by thread, the page manager calls it has still to make
  at, job,       \* by thread, where it is and what it is working on
  commands,      \* the guests waiting in GuestGpu's command queue
  registered,    \* is there a cached buffer
  gpu_ranges,    \* BufferCache::m_gpu_modified_ranges
  copies,        \* the pages an upload or a download has still to copy
  guests,        \* the guest threads that are active
  ranges,        \* the ranges asked for
  image,         \* the pages of the cached image
  tracked,       \* its pages in [track_addr, track_addr_end)
  flags,         \* its m_cpu_dirty, m_maybe_cpu_dirty, m_buffer_modified
  m_lock,        \* the owner of TextureCache::m_lock
  stale,         \* pages the guest wrote after the buffer took its copy
  unread,        \* pages the device wrote in the buffer after memory did
  imageStale,    \* pages whose image bytes changed after the image's copy
  edgesChanged,  \* have image bytes changed since m_maybe_cpu_hash
  trimmed,       \* history: edge pages given up since the image's last copy
  failed         \* an EXIT or a Fatal of these components was reached

tracker == <<cpu_dirty, gpu_dirty, tracker_lock>>
pageManager == <<watchers, protection, protects>>
bufferCache == <<registered, gpu_ranges, copies, stale, unread>>
bounds == <<guests, ranges>>
textureCache == <<bounds, image, tracked, flags, m_lock, imageStale, edgesChanged, trimmed>>
vars == <<tracker, pageManager, calls, at, job, commands, bufferCache,
          textureCache, failed>>

Threads == Guests \cup {Gpu}
RegionOf(p) == (p - 1) \div RegionPages
Regions == {RegionOf(p) : p \in Pages}
In(r) == {p \in Pages : RegionOf(p) = r}
RegionsOf(S) == {r \in Regions : In(r) \cap S # {}}
FirstPage == Min(image)
LastPage == Max(image)

\* The calls for the pages S that are still to be made; none for an empty mask.
CallsFor(S, track, read) ==
  [pages |-> S, track |-> track /\ S # {}, read |-> read /\ S # {}]

NoJob == [pages |-> {}, left |-> {}, write |-> FALSE, keep |-> FALSE, loop |-> "idle",
          next |-> "idle"]

Init ==
  /\ cpu_dirty = Pages /\ gpu_dirty = {}
  /\ tracker_lock = [r \in Regions |-> None]
  /\ watchers = [p \in Pages |-> [write |-> 0, access |-> 0]]
  /\ protection = [p \in Pages |-> "rw"]
  /\ protects = [r \in Regions |-> [by |-> None, list |-> <<>>]]
  /\ calls = [t \in Threads |-> CallsFor({}, FALSE, FALSE)]
  /\ at = [t \in Threads |-> "idle"] /\ job = [t \in Threads |-> NoJob]
  /\ commands = <<>>
  /\ registered = FALSE /\ gpu_ranges = {} /\ copies = {}
  /\ \E i \in Instances : image = i.image /\ guests = i.guests /\ ranges = i.ranges
  /\ tracked = {}
  /\ flags = [cpu |-> TRUE, maybe |-> FALSE, buffer |-> FALSE]
  /\ m_lock = None
  /\ stale = Pages /\ unread = {} /\ imageStale = image
  /\ edgesChanged = FALSE /\ trimmed = {}
  /\ failed = FALSE

------------------------------------------------------------------------------
(* The page manager. *)

Perms(w) == CASE w.access > 0 -> "none"
              [] w.access = 0 /\ w.write > 0 -> "r"
              [] OTHER -> "rw"

\* The pages of the next one: a mask's pages in its first region, or of those
\* TrackImage watches the first that are adjacent.
Turn(t) ==
  LET first == Min(calls[t].pages)
      here == calls[t].pages \cap In(RegionOf(first))
  IN IF at[t] = "refresh" THEN {p \in here : first..p \subseteq here} ELSE here

Count(w, read) == IF read THEN w.access ELSE w.write
Limit(read) == IF read THEN 1 ELSE 127

\* The watchers of a page after AddDelta.
Counted(w, c) ==
  LET n == IF c.track THEN Count(w, c.read) + 1 ELSE Count(w, c.read) - 1
  IN IF c.read THEN [w EXCEPT !.access = n] ELSE [w EXCEPT !.write = n]
Fatal(c) ==
  \E p \in c.pages :
    LET n == Count(watchers[p], c.read)
    IN IF c.track THEN n = Limit(c.read) ELSE n = 0

\* release_pending: the pages collected so far become one Protect call.
Released(s) ==
  IF s.bytes = 0 THEN s
  ELSE [s EXCEPT !.out = Append(@, [pages |-> s.begin..(s.begin + s.bytes - 1),
                                    perms |-> s.perms]),
                 !.bytes = 0, !.potential = 0]

\* One turn of the loop of UpdateRegionWatchers, for page p of call c.
Visited(s, p, c) ==
  LET update == p \in c.pages
      old == Perms(watchers[p])
      after == IF update THEN Counted(watchers[p], c) ELSE watchers[p]
      new == Perms(after)
      moved == IF new # s.perms THEN [Released(s) EXCEPT !.perms = new]
               ELSE IF s.bytes # 0 THEN [s EXCEPT !.potential = @ + 1] ELSE s
      edge == update /\ Count(after, c.read) = (IF c.track THEN 1 ELSE 0) /\ old # new
      begun == IF moved.bytes = 0 THEN [moved EXCEPT !.begin = p, !.potential = 1]
               ELSE moved
  IN IF edge THEN [begun EXCEPT !.bytes = begun.potential] ELSE moved

\* The Protect calls of UpdateRegionWatchers for call c.
ProtectCalls(c) ==
  LET first == Min(c.pages)
      start == [perms |-> Perms(watchers[first]), begin |-> 0, bytes |-> 0,
                potential |-> 0, out |-> <<>>]
      loop[p \in 0..NPages] == IF p < first THEN start ELSE Visited(loop[p - 1], p, c)
  IN Released(loop[Max(c.pages)]).out

\* UpdateRegionWatchers: take the region's page lock and count.
Watch(t) ==
  /\ calls[t].pages # {}
  /\ LET r == RegionOf(Min(calls[t].pages))
         c == [calls[t] EXCEPT !.pages = Turn(t)]
     IN /\ protects[r].by = None
        /\ IF Fatal(c)
             THEN failed' = TRUE /\ UNCHANGED pageManager
             ELSE /\ watchers' = [p \in Pages |-> IF p \in c.pages
                                                    THEN Counted(watchers[p], c)
                                                    ELSE watchers[p]]
                  /\ protects' = IF ProtectCalls(c) = <<>> THEN protects
                                 ELSE [protects EXCEPT ![r] =
                                         [by |-> t, list |-> ProtectCalls(c)]]
                  /\ UNCHANGED <<protection, failed>>
        /\ calls' = [calls EXCEPT ![t] = CallsFor(@.pages \ c.pages, @.track, @.read)]
  /\ UNCHANGED <<tracker, at, job, commands, bufferCache, textureCache>>

Protecting(t, r) == protects[r].by = t

\* The next Protect call; after the last one the page lock is free.
Protect(t) == \E r \in Regions :
  /\ Protecting(t, r)
  /\ LET c == Head(protects[r].list)
         rest == Tail(protects[r].list)
     IN /\ protection' = [p \in Pages |-> IF p \in c.pages THEN c.perms ELSE protection[p]]
        /\ protects' = [protects EXCEPT ![r] =
                          [by |-> IF rest = <<>> THEN None ELSE t, list |-> rest]]
  /\ UNCHANGED <<tracker, watchers, calls, at, job, commands, bufferCache, textureCache,
                 failed>>

\* A thread goes on when the page manager has returned to it.
Ready(t) == calls[t].pages = {} /\ \A r \in Regions : ~Protecting(t, r)
PageManager(t) ==
  \/ (\A r \in Regions : ~Protecting(t, r)) /\ Watch(t)
  \/ Protect(t)

------------------------------------------------------------------------------
(* Walking the tracking regions of a range. *)

Goto(t, label) == at' = [at EXCEPT ![t] = label]

\* Start a walk over the regions of S: loop is its body, next comes after it.
Walk(t, S, write, loop, next) ==
  /\ Goto(t, loop)
  /\ job' = [job EXCEPT ![t] = [pages |-> S, left |-> RegionsOf(S), write |-> write,
                                keep |-> FALSE, loop |-> loop, next |-> next]]

Current(t) == Min(job[t].left)
Here(t) == job[t].pages \cap In(Current(t))

Lock(t) == /\ tracker_lock[Current(t)] = None
           /\ tracker_lock' = [tracker_lock EXCEPT ![Current(t)] = t]

\* On to the next region of the walk, or past its end.
Advance(t) ==
  LET left == job[t].left \ {Current(t)}
  IN /\ job' = [job EXCEPT ![t].left = left]
     /\ Goto(t, IF left = {} THEN job[t].next ELSE job[t].loop)

\* The end of a region's turn: unlock it, unless a written upload keeps it.
EndRegion(t) ==
  /\ at[t] = "end region" /\ Ready(t)
  /\ tracker_lock' = IF job[t].keep THEN tracker_lock
                     ELSE [tracker_lock EXCEPT ![Current(t)] = None]
  /\ Advance(t)
  /\ UNCHANGED <<cpu_dirty, gpu_dirty, pageManager, calls, commands, bufferCache,
                 textureCache, failed>>

\* ChangeState<Cpu, true>: the pages of S become CPU dirty and lose their watch.
SetCpuDirty(t, S) ==
  IF S \cap gpu_dirty # {}
    THEN failed' = TRUE /\ UNCHANGED <<cpu_dirty, calls>>
    ELSE /\ cpu_dirty' = cpu_dirty \cup S
         /\ calls' = [calls EXCEPT ![t] = CallsFor(S \ cpu_dirty, FALSE, FALSE)]
         /\ UNCHANGED failed

\* ChangeState<Gpu, true>.
SetGpuDirty(t, S) ==
  IF S \cap cpu_dirty # {}
    THEN failed' = TRUE /\ UNCHANGED <<gpu_dirty, calls>>
    ELSE /\ gpu_dirty' = gpu_dirty \cup S
         /\ calls' = [calls EXCEPT ![t] = CallsFor(S \ gpu_dirty, TRUE, TRUE)]
         /\ UNCHANGED failed

\* ChangeState<Gpu, false>.
ClearGpuDirty(t, S) ==
  /\ gpu_dirty' = gpu_dirty \ S
  /\ calls' = [calls EXCEPT ![t] = CallsFor(S \cap gpu_dirty, FALSE, TRUE)]

\* ForEachModifiedRange<Cpu, true>: the pages of S are watched again.
TakeCpuDirty(t, S) ==
  /\ cpu_dirty' = cpu_dirty \ S
  /\ calls' = [calls EXCEPT ![t] = CallsFor(S \cap cpu_dirty, TRUE, FALSE)]

------------------------------------------------------------------------------
(* The guest: a write or a read the host allows, the fault of one it does   *)
(* not, and the invalidation the kernel calls before it writes a range.     *)

\* A byte of page p is the image's own, or not: only its edges hold others.
MayBeOwn(p) == p \in image
MayBeOther(p) == p \in image => p \in {FirstPage, LastPage}

GuestWrite(t) == \E p \in Pages, own \in BOOLEAN :
  /\ at[t] = "idle"
  /\ IF own THEN MayBeOwn(p) ELSE MayBeOther(p)
  /\ IF protection[p] = "rw"
       THEN /\ stale' = stale \cup {p}
            /\ imageStale' = IF own THEN imageStale \cup {p} ELSE imageStale
            /\ edgesChanged' = (edgesChanged \/ (own /\ flags.maybe))
            /\ UNCHANGED <<at, job>>
       ELSE /\ Walk(t, {p}, own, "invalidate", "invalidate image")
            /\ UNCHANGED <<stale, imageStale, edgesChanged>>
  /\ UNCHANGED <<tracker, pageManager, calls, commands, registered, gpu_ranges, copies,
                 unread, bounds, image, tracked, flags, m_lock, trimmed, failed>>

\* KernelRead and the like: GpuResourceManager::InvalidateMemory of a range.
KernelInvalidate(t) == \E S \in ranges :
  /\ at[t] = "idle"
  /\ Walk(t, S, TRUE, "invalidate", "invalidate image")
  /\ UNCHANGED <<tracker, pageManager, calls, commands, bufferCache, textureCache, failed>>

\* A read fault: BufferCache::ReadMemory without is_write.
GuestRead(t) == \E p \in Pages :
  /\ at[t] = "idle"
  /\ protection[p] = "none"
  /\ job' = [job EXCEPT ![t] = [NoJob EXCEPT !.pages = {p}]]
  /\ Goto(t, "read")
  /\ commands' = Append(commands, t)
  /\ UNCHANGED <<tracker, pageManager, calls, bufferCache, textureCache, failed>>

\* MemoryTracker::InvalidateRegion, for one region: the GPU bits are tested
\* and the CPU bits set under one lock; a flush happens after it is dropped.
InvalidateRegion(t) ==
  /\ at[t] = "invalidate"
  /\ IF Here(t) \cap gpu_dirty # {}
       THEN /\ tracker_lock[Current(t)] = None
            /\ commands' = Append(commands, t)
            /\ Goto(t, "flush")
            /\ UNCHANGED <<tracker_lock, cpu_dirty, calls, failed>>
       ELSE /\ Lock(t)
            /\ SetCpuDirty(t, Here(t))
            /\ Goto(t, "end region")
            /\ UNCHANGED commands
  /\ UNCHANGED <<gpu_dirty, pageManager, job, bufferCache, textureCache>>

\* TextureCache::UntrackImage, after flags have become f.
Forget(t, f) ==
  /\ flags' = f
  /\ tracked' = {}
  /\ calls' = [calls EXCEPT ![t] = CallsFor(tracked, FALSE, FALSE)]
  /\ edgesChanged' = FALSE

\* MarkAsMaybeDirty of the image, whose watch of S ends: the hash is of the
\* bytes as they are now, unless one was taken before.
MaybeDirty(t, S) ==
  /\ flags' = [flags EXCEPT !.maybe = @ \/ ~flags.cpu]
  /\ edgesChanged' = (edgesChanged /\ flags.maybe)
  /\ tracked' = {}
  /\ calls' = [calls EXCEPT ![t] = CallsFor(S, FALSE, FALSE)]

\* Fault: the last watched page is given up like any other.
UntrackEdgeQuietly(t, p) ==
  IF p \in tracked
    THEN /\ tracked' = tracked \ {p}
         /\ calls' = [calls EXCEPT ![t] = CallsFor({p}, FALSE, FALSE)]
         /\ UNCHANGED <<flags, edgesChanged>>
    ELSE UNCHANGED <<flags, tracked, calls, edgesChanged>>

\* UntrackImageHead and UntrackImageTail: the watch of one edge page ends.
UntrackEdge(t, p) ==
  CASE p \notin tracked -> UNCHANGED <<flags, tracked, calls, edgesChanged>>
    [] tracked = {p} -> MaybeDirty(t, {p})
    [] OTHER -> /\ tracked' = tracked \ {p}
                /\ calls' = [calls EXCEPT ![t] = CallsFor({p}, FALSE, FALSE)]
                /\ UNCHANGED <<flags, edgesChanged>>

\* The edge that a write beside the image reaches; None for an image whose
\* pages are all in S.
EdgeBeside(S) == CASE Max(S) < LastPage -> FirstPage
                   [] Max(S) >= LastPage /\ FirstPage < Min(S) -> LastPage
                   [] OTHER -> None

\* InvalidateCpuAliases of the pages S; own: do the bytes overlap the image's.
InvalidateCpuAliases(t, S, own) ==
  IF own THEN Forget(t, [flags EXCEPT !.cpu = TRUE, !.maybe = FALSE])
  ELSE IF EdgeBeside(S) = None THEN MaybeDirty(t, tracked)
  ELSE UntrackEdge(t, EdgeBeside(S))

\* TextureCache::InvalidateMemory; at its end the fault handler returns and
\* the guest tries its write again.
InvalidateImage(t) ==
  /\ at[t] = "invalidate image"
  /\ m_lock = None /\ m_lock' = t
  /\ IF job[t].pages \cap image = {}
       THEN UNCHANGED <<flags, tracked, calls, edgesChanged>>
       ELSE InvalidateCpuAliases(t, job[t].pages, job[t].write)
  /\ trimmed' = trimmed \cup (IF tracked' = {} THEN {} ELSE tracked \ tracked')
  /\ Goto(t, "end image")
  /\ UNCHANGED <<tracker, pageManager, job, commands, bufferCache, bounds, image, imageStale,
                 failed>>

EndImage(t) ==
  /\ at[t] = "end image" /\ Ready(t)
  /\ m_lock' = None
  /\ Goto(t, "idle")
  /\ job' = [job EXCEPT ![t] = NoJob]
  /\ UNCHANGED <<tracker, pageManager, calls, commands, bufferCache, bounds, image, tracked, flags,
                 imageStale, edgesChanged, trimmed, failed>>

Guest(t) == \/ GuestWrite(t) \/ KernelInvalidate(t) \/ GuestRead(t)
            \/ InvalidateRegion(t) \/ InvalidateImage(t) \/ EndImage(t)

------------------------------------------------------------------------------
(* The GPU thread: uploads for the device, downloads for the guest, garbage *)
(* collection, and the image.                                              *)

AllFree(S) == \A r \in RegionsOf(S) : tracker_lock[r] = None

\* FindBuffer, which creates the buffer; a new one holds nothing of memory.
FindBuffer == /\ registered' = TRUE
              /\ UNCHANGED stale

\* ObtainBuffer, and before it what a binding for writing does to the image.
ObtainBuffer == \E S \in ranges, written \in BOOLEAN :
  /\ at[Gpu] = "idle"
  /\ written => m_lock = None
  /\ flags' = [flags EXCEPT !.buffer = @ \/ (written /\ S \cap image # {})]
  /\ FindBuffer
  /\ Walk(Gpu, S, written, "upload", "copy")
  /\ copies' = {}
  /\ UNCHANGED <<tracker, pageManager, calls, commands, gpu_ranges, unread, bounds, image, tracked,
                 m_lock, imageStale, edgesChanged, trimmed, failed>>

\* Fault: a written upload unlocks each region after its turn.
UploadRegionUnlocked ==
  /\ at[Gpu] = "upload"
  /\ Lock(Gpu)
  /\ TakeCpuDirty(Gpu, Here(Gpu))
  /\ copies' = copies \cup (Here(Gpu) \cap cpu_dirty)
  /\ Goto(Gpu, "end region")
  /\ UNCHANGED <<gpu_dirty, pageManager, job, commands, registered, gpu_ranges, stale, unread,
                 textureCache, failed>>

\* ForEachUploadRange, for one region: its CPU-dirty pages are to be copied,
\* and are watched before they are; a written upload keeps the region locked.
UploadRegion ==
  /\ at[Gpu] = "upload"
  /\ Lock(Gpu)
  /\ TakeCpuDirty(Gpu, Here(Gpu))
  /\ copies' = copies \cup (Here(Gpu) \cap cpu_dirty)
  /\ job' = [job EXCEPT ![Gpu].keep = job[Gpu].write]
  /\ Goto(Gpu, "end region")
  /\ UNCHANGED <<gpu_dirty, pageManager, commands, registered, gpu_ranges, stale, unread,
                 textureCache, failed>>

\* UploadCopies, a page at a time; then the GPU bits, or the end.
UploadCopies ==
  /\ at[Gpu] = "copy" /\ copies # {}
  /\ copies' = copies \ {Min(copies)}
  /\ stale' = stale \ {Min(copies)}
  /\ UNCHANGED <<tracker, pageManager, calls, at, job, commands, registered, gpu_ranges,
                 unread, textureCache, failed>>

EndUpload ==
  /\ at[Gpu] = "copy" /\ copies = {}
  /\ IF job[Gpu].write THEN Walk(Gpu, job[Gpu].pages, FALSE, "mark gpu", "draw")
     ELSE /\ Goto(Gpu, IF m_lock = Gpu THEN "image copy" ELSE "idle")
          /\ job' = [job EXCEPT ![Gpu] = NoJob]
  /\ UNCHANGED <<tracker, pageManager, calls, commands, bufferCache, textureCache, failed>>

\* The tail of a written upload, for a region still locked since its turn.
MarkGpuRegion ==
  /\ at[Gpu] = "mark gpu"
  /\ SetGpuDirty(Gpu, Here(Gpu))
  /\ Goto(Gpu, "end region")
  /\ UNCHANGED <<cpu_dirty, tracker_lock, pageManager, job, commands, bufferCache,
                 textureCache>>

\* ObtainBuffer records the bytes; the device writes them.
Draw ==
  /\ at[Gpu] = "draw"
  /\ gpu_ranges' = gpu_ranges \cup job[Gpu].pages
  /\ unread' = unread \cup job[Gpu].pages
  /\ imageStale' = imageStale \cup (job[Gpu].pages \cap image)
  /\ Goto(Gpu, "idle") /\ job' = [job EXCEPT ![Gpu] = NoJob]
  /\ UNCHANGED <<tracker, pageManager, calls, commands, registered, copies, stale, bounds, image,
                 tracked, flags, m_lock, edgesChanged, trimmed, failed>>

\* A command has run: its sender goes on, past this region of its walk, or
\* back to the read it tried.
Reply(t) ==
  /\ commands' = Tail(commands)
  /\ IF at[t] = "flush"
       THEN LET left == job[t].left \ {Current(t)}
            IN /\ job' = [job EXCEPT ![t].left = left, ![Gpu] = NoJob]
               /\ at' = [at EXCEPT ![t] = IF left = {} THEN job[t].next ELSE job[t].loop,
                                   ![Gpu] = "idle"]
       ELSE /\ job' = [job EXCEPT ![t] = NoJob, ![Gpu] = NoJob]
            /\ at' = [at EXCEPT ![t] = "idle", ![Gpu] = "idle"]

\* Fault: only the bytes asked for are downloaded, but the window is unmarked.
ReadAskedOnGpu ==
  /\ at[Gpu] = "idle" /\ commands # <<>>
  /\ LET t == Head(commands)
     IN /\ AllFree(Pages)
        /\ FindBuffer
        /\ copies' = gpu_dirty \cap gpu_ranges \cap job[t].pages
        /\ job' = [job EXCEPT ![Gpu] = [NoJob EXCEPT !.pages = job[t].pages,
                                                     !.write = at[t] = "flush"]]
        /\ Goto(Gpu, IF copies' = {} THEN "read done" ELSE "download")
        /\ UNCHANGED commands
  /\ UNCHANGED <<tracker, pageManager, calls, gpu_ranges, unread, textureCache, failed>>

\* ReadMemoryOnGpu up to the download: the dirty bytes of the whole buffer.
ReadMemoryOnGpu ==
  /\ at[Gpu] = "idle" /\ commands # <<>>
  /\ LET t == Head(commands)
         is_write == at[t] = "flush"
     IN IF is_write /\ ~registered
          THEN Reply(t) /\ UNCHANGED <<registered, stale, copies>>
          ELSE /\ AllFree(Pages)
               /\ FindBuffer
               /\ copies' = gpu_dirty \cap gpu_ranges
               /\ job' = [job EXCEPT ![Gpu] = [NoJob EXCEPT !.pages = job[t].pages,
                                                            !.write = is_write]]
               /\ Goto(Gpu, IF copies' = {} THEN "read done" ELSE "download")
               /\ UNCHANGED commands
  /\ UNCHANGED <<tracker, pageManager, calls, gpu_ranges, unread, textureCache, failed>>

\* DownloadBufferMemory: memory gets the bytes, then they are forgotten.
DownloadBufferMemory ==
  /\ at[Gpu] \in {"download", "collect download"}
  /\ unread' = unread \ copies
  /\ gpu_ranges' = gpu_ranges \ copies
  /\ copies' = {}
  /\ at' = [at EXCEPT ![Gpu] = "unmark"]
  /\ job' = [job EXCEPT ![Gpu].left = Regions,
                        ![Gpu].loop = "unmark",
                        ![Gpu].next = IF at[Gpu] = "download" THEN "read done"
                                      ELSE "untrack"]
  /\ UNCHANGED <<tracker, pageManager, calls, commands, registered, stale, textureCache,
                 failed>>

\* UnmarkRegionAsGpuModified of the window, for one region.
UnmarkGpuRegion ==
  /\ at[Gpu] = "unmark"
  /\ Lock(Gpu)
  /\ ClearGpuDirty(Gpu, In(Current(Gpu)))
  /\ Goto(Gpu, "end region")
  /\ UNCHANGED <<cpu_dirty, pageManager, job, commands, bufferCache, textureCache, failed>>

\* The end of ReadMemoryOnGpu: the pages of a write become CPU dirty.
ReadDone ==
  /\ at[Gpu] = "read done"
  /\ IF job[Gpu].write
       THEN /\ Walk(Gpu, job[Gpu].pages, FALSE, "mark cpu", "reply")
            /\ UNCHANGED commands
       ELSE Reply(Head(commands))
  /\ UNCHANGED <<tracker, pageManager, calls, bufferCache, textureCache, failed>>

MarkCpuRegion ==
  /\ at[Gpu] = "mark cpu"
  /\ Lock(Gpu)
  /\ SetCpuDirty(Gpu, Here(Gpu))
  /\ Goto(Gpu, "end region")
  /\ UNCHANGED <<gpu_dirty, pageManager, job, commands, bufferCache, textureCache>>

ReplyToSender ==
  /\ at[Gpu] = "reply"
  /\ Reply(Head(commands))
  /\ UNCHANGED <<tracker, pageManager, calls, bufferCache, textureCache, failed>>

\* RunGarbageCollector finds the buffer old enough; only under critical
\* pressure does it take one the device has written, after a download.
RunGarbageCollector ==
  /\ at[Gpu] = "idle" /\ registered
  /\ AllFree(Pages)
  /\ copies' = gpu_dirty \cap gpu_ranges
  /\ failed' = (gpu_dirty # {} /\ copies' = {})
  /\ Goto(Gpu, IF gpu_dirty = {} THEN "untrack" ELSE "collect download")
  /\ UNCHANGED <<tracker, pageManager, calls, job, commands, registered, gpu_ranges, stale,
                 unread, textureCache>>

\* UntrackMemory: all regions locked at once, all pages CPU dirty.
UntrackMemory ==
  /\ at[Gpu] = "untrack"
  /\ AllFree(Pages)
  /\ tracker_lock' = [r \in Regions |-> Gpu]
  /\ SetCpuDirty(Gpu, Pages)
  /\ Goto(Gpu, "delete")
  /\ UNCHANGED <<gpu_dirty, pageManager, job, commands, bufferCache, textureCache>>

\* ... and DeleteBuffer, or Unregister and erase.
DeleteBuffer ==
  /\ at[Gpu] = "delete" /\ Ready(Gpu)
  /\ tracker_lock' = [r \in Regions |-> None]
  /\ registered' = FALSE /\ stale' = Pages
  /\ Goto(Gpu, "idle") /\ job' = [job EXCEPT ![Gpu] = NoJob]
  /\ UNCHANGED <<cpu_dirty, gpu_dirty, pageManager, calls, commands, gpu_ranges, copies,
                 unread, textureCache, failed>>

\* RefreshImage, which watches the whole image first.
RefreshImage ==
  /\ at[Gpu] = "idle" /\ image # {}
  /\ m_lock = None /\ m_lock' = Gpu
  /\ tracked' = image
  /\ calls' = [calls EXCEPT ![Gpu] = CallsFor(image \ tracked, TRUE, FALSE)]
  /\ Goto(Gpu, "refresh")
  /\ UNCHANGED <<tracker, pageManager, job, commands, bufferCache, bounds, image, flags, imageStale,
                 edgesChanged, trimmed, failed>>

\* ... then resolves the hash, and uploads what is dirty.
ResolveImage ==
  /\ at[Gpu] = "refresh" /\ Ready(Gpu)
  /\ LET cpu == flags.cpu \/ (flags.maybe /\ edgesChanged)
         upload == cpu \/ flags.buffer
     IN /\ flags' = [flags EXCEPT !.cpu = cpu, !.maybe = FALSE]
        /\ edgesChanged' = FALSE
        /\ m_lock' = IF upload THEN Gpu ELSE None
        /\ IF upload /\ (registered \/ gpu_dirty \cap image # {})
             THEN Walk(Gpu, image, FALSE, "upload", "copy") /\ FindBuffer
             ELSE /\ Goto(Gpu, IF upload THEN "image read" ELSE "idle")
                  /\ UNCHANGED <<job, registered, stale>>
  /\ copies' = {}
  /\ UNCHANGED <<tracker, pageManager, calls, commands, gpu_ranges, unread, bounds, image, tracked,
                 imageStale, trimmed, failed>>

\* UploadImage from the buffer, or from memory itself, and RefreshComplete.
UploadImage ==
  /\ at[Gpu] \in {"image copy", "image read"}
  /\ imageStale' = IF at[Gpu] = "image copy" THEN imageStale \cap stale ELSE {}
  /\ trimmed' = {}
  /\ flags' = [cpu |-> FALSE, maybe |-> FALSE, buffer |-> FALSE]
  /\ edgesChanged' = FALSE
  /\ m_lock' = None
  /\ Goto(Gpu, "idle")
  /\ UNCHANGED <<tracker, pageManager, calls, job, commands, bufferCache, bounds, image, tracked,
                 failed>>

\* FindImage replaces the image: FreeImage of the old, InsertImage of a new.
ReplaceImage ==
  /\ at[Gpu] = "idle" /\ image # {}
  /\ m_lock = None /\ m_lock' = Gpu
  /\ Forget(Gpu, [cpu |-> TRUE, maybe |-> FALSE, buffer |-> image \cap gpu_ranges # {}])
  /\ imageStale' = image /\ trimmed' = {}
  /\ Goto(Gpu, "replace")
  /\ UNCHANGED <<tracker, pageManager, job, commands, bufferCache, bounds, image, failed>>

ReplaceDone ==
  /\ at[Gpu] = "replace" /\ Ready(Gpu)
  /\ m_lock' = None
  /\ Goto(Gpu, "idle")
  /\ UNCHANGED <<tracker, pageManager, calls, job, commands, bufferCache, bounds, image, tracked,
                 flags, imageStale, edgesChanged, trimmed, failed>>

ImageWork == RefreshImage \/ ResolveImage \/ UploadImage \/ ReplaceImage \/ ReplaceDone
Uploads == ObtainBuffer \/ UploadRegion \/ UploadCopies \/ EndUpload \/ MarkGpuRegion \/ Draw
Downloads == \/ ReadMemoryOnGpu \/ DownloadBufferMemory \/ UnmarkGpuRegion \/ ReadDone
             \/ MarkCpuRegion \/ ReplyToSender
Collection == RunGarbageCollector \/ UntrackMemory \/ DeleteBuffer

Next ==
  \/ \E t \in guests : Guest(t)
  \/ \E t \in Threads : PageManager(t) \/ EndRegion(t)
  \/ ImageWork \/ Uploads \/ Downloads \/ Collection

Spec == Init /\ [][Next]_vars

------------------------------------------------------------------------------
(* Properties. *)

Labels == {"idle", "read", "flush", "invalidate", "end region", "invalidate image",
           "end image", "upload", "copy", "mark gpu", "draw", "download",
           "collect download", "unmark", "read done", "mark cpu", "reply", "untrack",
           "delete", "refresh", "image copy", "image read", "replace"}

\* Nobody is changing region r.
Quiet(r) == /\ tracker_lock[r] = None /\ protects[r].by = None
            /\ \A t \in Threads : calls[t].pages \cap In(r) = {}

One(holds) == IF holds THEN 1 ELSE 0

\* Types, and what the bits, the watchers and the host's protection say of a
\* page agree wherever nobody is changing its region: a page is watched for
\* writes once unless it is CPU dirty and once if the image tracks it, for
\* reads if it is GPU dirty, and the host protects it for that.  No page is
\* dirty on both sides, and none of the EXITs that guard this (ChangeState,
\* AddDelta, UntrackMemory, RunGarbageCollector) is reached.
TypeOK ==
  /\ cpu_dirty \subseteq Pages /\ gpu_dirty \subseteq Pages
  /\ tracker_lock \in [Regions -> Threads \cup {None}]
  /\ watchers \in [Pages -> [write : 0..127, access : 0..1]]
  /\ protection \in [Pages -> {"rw", "r", "none"}]
  /\ at \in [Threads -> Labels]
  /\ m_lock \in Threads \cup {None}
  /\ tracked \subseteq image /\ trimmed \subseteq image
  /\ cpu_dirty \cap gpu_dirty = {}
  /\ ~failed
  /\ \A r \in Regions : Quiet(r) =>
       \A p \in In(r) :
         /\ watchers[p].write = One(p \notin cpu_dirty) + One(p \in tracked)
         /\ watchers[p].access = One(p \in gpu_dirty)
         /\ protection[p] = Perms(watchers[p])

\* No write is lost between memory and the buffer: a page the guest wrote
\* after the buffer's copy is CPU dirty, or the upload at work has still to
\* copy it; where the device has written and memory has not got it, the guest
\* can neither read nor write, and has not written.
NoWriteLost ==
  /\ registered => stale \subseteq cpu_dirty \cup copies
  /\ unread \subseteq gpu_dirty \cap gpu_ranges
  /\ \A p \in unread : protection[p] = "none" /\ p \notin stale

\* The image never shows old bytes for new: where its own bytes have changed
\* since its last copy it is dirty, or its hash tells, unless they lie on an
\* edge page whose watch it gave up to a write beside it.
NoStaleImage ==
  imageStale \ trimmed # {} =>
    flags.cpu \/ flags.buffer \/ (flags.maybe /\ edgesChanged)
==============================================================================
