-------------------------- MODULE MemoryTrackerProofs --------------------------
(***************************************************************************)
(* Proofs about MemoryTracker, for every number of pages, every size of a  *)
(* tracking region, every set of guests and every image.                   *)
(***************************************************************************)
EXTENDS MemoryTracker, SequenceTheorems, WellFoundedInduction, TLAPS

(* Where the threads may be, and where they wait for the page manager: at  *)
(* the end of a region's turn or of UntrackMemory, or holding m_lock.      *)
GuestLabels == {"idle", "read", "flush", "invalidate", "end region", "invalidate image",
                "end image"}
GpuLabels == {"idle", "end region", "upload", "copy", "mark gpu", "draw", "download",
              "collect download", "unmark", "read done", "mark cpu", "reply", "untrack",
              "delete", "refresh", "image copy", "image read", "replace"}
TrackerLabels == {"end region", "delete"}
ImageLabels == {"end image", "refresh", "replace"}
Loops == {"upload", "mark gpu", "unmark", "mark cpu"}

Protections == {"rw", "r", "none"}

(* Types. *)
Jobs == [pages : SUBSET Pages, left : SUBSET Regions, write : BOOLEAN, keep : BOOLEAN,
         loop : Labels, next : Labels]

TypeInv ==
  /\ cpu_dirty \in SUBSET Pages /\ gpu_dirty \in SUBSET Pages
  /\ tracker_lock \in [Regions -> Threads \cup {None}]
  /\ watchers \in [Pages -> [write : Nat, access : Nat]]
  /\ protection \in [Pages -> Protections]
  /\ protects \in [Regions -> [by : Threads \cup {None},
                               list : Seq([pages : SUBSET Pages, perms : Protections])]]
  /\ calls \in [Threads -> [pages : SUBSET Pages, track : BOOLEAN, read : BOOLEAN]]
  /\ at \in [Threads -> Labels]
  /\ job \in [Threads -> Jobs]
  /\ commands \in Seq(Guests)
  /\ registered \in BOOLEAN
  /\ gpu_ranges \in SUBSET Pages /\ copies \in SUBSET Pages
  /\ stale \in SUBSET Pages /\ unread \in SUBSET Pages
  /\ guests \in SUBSET Guests /\ ranges \in SUBSET ((SUBSET Pages) \ {{}})
  /\ image \in SUBSET Pages /\ tracked \in SUBSET image
  /\ imageStale \in SUBSET image /\ trimmed \in SUBSET image
  /\ flags \in [cpu : BOOLEAN, maybe : BOOLEAN, buffer : BOOLEAN]
  /\ m_lock \in Threads \cup {None}
  /\ edgesChanged \in BOOLEAN
  /\ failed = FALSE

(* What the GPU thread is doing, and the regions of its walk that are yet  *)
(* to have their turn: a turn is over but for its end at "end region".     *)
Phase == IF at[Gpu] = "end region" THEN job[Gpu].loop ELSE at[Gpu]
ToDo == IF at[Gpu] = "end region" THEN job[Gpu].left \ {Current(Gpu)} ELSE job[Gpu].left
Uploading == Phase \in {"upload", "copy"}
Serving == \/ Phase \in {"download", "read done", "mark cpu", "reply"}
           \/ Phase = "unmark" /\ job[Gpu].next = "read done"

(* What a thread's job is at each place, and who waits in the queue.       *)
GuestControl == \A t \in Guests :
  /\ at[t] \in GuestLabels
  /\ at[t] \in {"invalidate", "flush", "end region"} =>
       /\ job[t].left # {} /\ ~job[t].keep
       /\ job[t].loop = "invalidate" /\ job[t].next = "invalidate image"
  /\ at[t] \in {"read", "invalidate", "flush", "end region"} => job[t].pages # {}

GpuControl ==
  /\ at[Gpu] \in GpuLabels
  /\ at[Gpu] = "end region" => job[Gpu].loop \in Loops
  /\ at[Gpu] \in Loops => job[Gpu].loop = at[Gpu]
  /\ at[Gpu] \in Loops \cup {"end region"} => job[Gpu].left # {}
  /\ Phase = "upload" => job[Gpu].next = "copy"
  /\ Phase = "mark gpu" => job[Gpu].next = "draw"
  /\ Phase = "unmark" => job[Gpu].next \in {"read done", "untrack"}
  /\ Phase = "mark cpu" => job[Gpu].next = "reply"
  /\ Phase = "copy" => job[Gpu].left = {}
  /\ job[Gpu].keep => Uploading /\ job[Gpu].write
  /\ at[Gpu] = "end region" /\ Phase = "upload" => job[Gpu].keep = job[Gpu].write
  /\ Uploading \/ Serving => job[Gpu].pages # {}
  /\ at[Gpu] = "refresh" => image # {}

QueueInv ==
  /\ \A i \in 1..Len(commands) : at[commands[i]] \in {"flush", "read"}
  /\ \A i, j \in 1..Len(commands) : commands[i] = commands[j] => i = j
  /\ Serving => commands # <<>>

(* The regions a thread must have locked: the one whose turn it has begun, *)
(* those a written upload keeps, all of them when it deletes the buffer.   *)
Holds(t, r) ==
  \/ at[t] = "end region" /\ r = Current(t)
  \/ /\ t = Gpu
     /\ \/ Uploading /\ job[Gpu].write /\ r \in RegionsOf(job[Gpu].pages) \ ToDo
        \/ Phase = "mark gpu" /\ r \in job[Gpu].left
        \/ at[Gpu] = "delete"

LockInv == \A t \in Threads, r \in Regions : Holds(t, r) => tracker_lock[r] = t

MLockInv ==
  /\ \A t \in Guests : at[t] = "end image" => m_lock = t
  /\ at[Gpu] \in {"refresh", "image copy", "image read", "replace"} => m_lock = Gpu
  /\ m_lock = Gpu => \/ at[Gpu] \in {"refresh", "image copy", "image read", "replace"}
                     \/ Uploading /\ ~job[Gpu].write /\ job[Gpu].pages = image

(* The calls a thread has still to make agree with the bits it has already *)
(* changed, and nobody else can change these.                              *)
CallRight(t) ==
  /\ at[t] \in TrackerLabels \cup ImageLabels
  /\ at[t] \in TrackerLabels =>
       /\ \A p \in calls[t].pages : tracker_lock[RegionOf(p)] = t
       /\ calls[t].read =>
            /\ t = Gpu
            /\ IF calls[t].track THEN calls[t].pages \subseteq gpu_dirty /\ Phase = "mark gpu"
                                 ELSE calls[t].pages \cap gpu_dirty = {}
       /\ ~calls[t].read =>
            IF calls[t].track
              THEN /\ t = Gpu /\ Phase = "upload"
                   /\ calls[t].pages \subseteq copies \ cpu_dirty
              ELSE calls[t].pages \subseteq cpu_dirty
  /\ at[t] \in ImageLabels =>
       /\ m_lock = t /\ ~calls[t].read
       /\ IF calls[t].track THEN t = Gpu /\ calls[t].pages \subseteq tracked
                            ELSE calls[t].pages \cap tracked = {}

CallInv == \A t \in Threads : calls[t].pages # {} => CallRight(t)

(* The pages whose bits have changed and whose watchers have not yet.      *)
PendCpu == {p \in Pages : \E t \in Threads :
              at[t] \in TrackerLabels /\ ~calls[t].read /\ p \in calls[t].pages}
PendGpu == {p \in Pages : \E t \in Threads : calls[t].read /\ p \in calls[t].pages}
PendImg == {p \in Pages : \E t \in Threads :
              at[t] \in ImageLabels /\ p \in calls[t].pages}

CpuWatched(p) == (p \in cpu_dirty) = (p \in PendCpu)
GpuWatched(p) == (p \in gpu_dirty) # (p \in PendGpu)
ImgWatched(p) == (p \in tracked) # (p \in PendImg)

(* The watchers count the bits, but for the changes still to be counted.   *)
WatchInv == \A p \in Pages :
  /\ watchers[p].write = One(CpuWatched(p)) + One(ImgWatched(p))
  /\ watchers[p].access = One(GpuWatched(p))

(* A page lock is held by a thread with Protect calls to make.  These give *)
(* pages of the region what the watchers say, and every other page of it   *)
(* has that already.                                                       *)
InCalls(p, r) == \E i \in 1..Len(protects[r].list) : p \in protects[r].list[i].pages

ProtectInv == \A r \in Regions :
  /\ protects[r].by = None <=> protects[r].list = <<>>
  /\ protects[r].by # None => at[protects[r].by] \in TrackerLabels \cup ImageLabels
  /\ \A i \in 1..Len(protects[r].list) : \A p \in protects[r].list[i].pages :
       p \in In(r) /\ protects[r].list[i].perms = Perms(watchers[p])
  /\ \A p \in In(r) : ~InCalls(p, r) => protection[p] = Perms(watchers[p])

(* Guests only end watches: while one changes a region's protection a page *)
(* is never more open than its watchers say.                               *)
Stricter(one, other) == (one = "rw" => other = "rw") /\ (other = "none" => one = "none")

StrictInv == \A r \in Regions : protects[r].by # Gpu =>
  \A p \in In(r) : Stricter(protection[p], Perms(watchers[p]))

(* What the guest can write, or has, is CPU dirty or about to be copied.   *)
UpCopies == IF Uploading THEN copies ELSE {}

CopyInv ==
  /\ cpu_dirty \cap gpu_dirty = {}
  /\ stale \subseteq cpu_dirty \cup UpCopies
  /\ \A p \in Pages : protection[p] = "rw" => p \in cpu_dirty \cup UpCopies
  /\ UpCopies \cap gpu_dirty = {}
  /\ \A p \in job[Gpu].pages \cap cpu_dirty :
       /\ Uploading /\ job[Gpu].write => RegionOf(p) \in ToDo
       /\ Phase = "mark gpu" => RegionOf(p) \notin ToDo
  /\ at[Gpu] = "delete" => cpu_dirty = Pages

(* What the device has written and memory has not got is GPU dirty and out *)
(* of the guest's reach, and what is GPU dirty has been recorded.          *)
Unmarked == {"read done", "mark cpu", "reply", "untrack", "delete"}

UnreadInv ==
  /\ unread \subseteq gpu_dirty \cap gpu_ranges
  /\ unread \cap PendGpu = {}
  /\ \A p \in unread : protection[p] = "none"

GpuInv ==
  /\ Phase = "mark gpu" =>
       \A p \in job[Gpu].pages : RegionOf(p) \notin ToDo => p \in gpu_dirty
  /\ Phase = "draw" => job[Gpu].pages \subseteq gpu_dirty
  /\ Phase \in {"mark gpu", "draw"} => gpu_dirty \subseteq gpu_ranges \cup job[Gpu].pages
  /\ Phase = "unmark" => unread = {} /\ \A p \in gpu_dirty : RegionOf(p) \in ToDo
  /\ Phase \in Unmarked => unread = {} /\ gpu_dirty = {}
  /\ Phase \notin {"mark gpu", "draw", "unmark"} \cup Unmarked => gpu_dirty \subseteq gpu_ranges
  /\ Phase \in {"download", "collect download"} => copies = gpu_dirty \cap gpu_ranges

(* The image is watched, and settled, while the GPU thread works on it and *)
(* while it counts as clean.                                               *)
Firm == m_lock = Gpu /\ at[Gpu] \notin {"refresh", "replace"}

ImageInv ==
  /\ m_lock = Gpu /\ at[Gpu] # "replace" => tracked = image
  /\ Firm => \A p \in image : protection[p] # "rw"
  /\ ~flags.cpu /\ ~flags.maybe =>
       \A p \in image \ trimmed : p \in tracked /\ p \notin PendImg /\ protection[p] # "rw"
  /\ m_lock = Gpu /\ Uploading =>
       \A p \in stale \cap image : p \in copies \/ RegionOf(p) \in ToDo
  /\ at[Gpu] = "image copy" => stale \cap image = {}
  /\ Phase \in {"mark gpu", "draw"} \/ (Uploading /\ job[Gpu].write) =>
       (job[Gpu].pages \cap image # {} => flags.buffer)

IInv == /\ TypeInv /\ GuestControl /\ GpuControl /\ QueueInv /\ LockInv /\ MLockInv
        /\ CallInv /\ WatchInv /\ ProtectInv /\ StrictInv
        /\ CopyInv /\ UnreadInv /\ GpuInv /\ ImageInv /\ NoStaleImage

USE MemoryTrackerAssumption DEF MemoryTrackerAssumption

------------------------------------------------------------------------------
(* Constants, regions, least and greatest members *)

LEMMA Constants ==
  /\ Gpu \in Threads /\ None \notin Threads /\ Guests \subseteq Threads /\ Gpu \notin Guests
  /\ Threads = Guests \cup {Gpu}
  /\ NPages \in Nat \ {0} /\ RegionPages \in Nat \ {0}
BY DEF Threads

LEMMA RegionNat ==
  ASSUME NEW p \in Pages
  PROVE  RegionOf(p) \in Nat /\ RegionOf(p) \in Regions /\ p \in In(RegionOf(p))
<1>1. p - 1 \in Nat
  BY DEF Pages
<1>2. (p - 1) \div RegionPages \in Nat
  BY <1>1
<1> QED
  BY <1>2 DEF RegionOf, Regions, In

LEMMA RegionMonotone ==
  ASSUME NEW p \in Pages, NEW q \in Pages, p <= q
  PROVE  RegionOf(p) <= RegionOf(q)
<1> DEFINE x == (p - 1) \div RegionPages
           y == (q - 1) \div RegionPages
<1>1. p - 1 \in Nat /\ q - 1 \in Nat /\ p - 1 <= q - 1
  BY DEF Pages
<1>2. x \in Int /\ y \in Int
  BY <1>1
<1>3. RegionPages * x <= p - 1 /\ q - 1 < RegionPages * (y + 1)
  BY <1>1
<1> HIDE DEF x, y
<1>4. x < y + 1
  BY <1>1, <1>2, <1>3
<1> QED
  BY <1>2, <1>4 DEF RegionOf, x, y

LEMMA RegionFacts ==
  /\ Regions \subseteq Nat /\ Pages \subseteq Nat /\ RegionsOf(Pages) = Regions
  /\ \A p \in Pages : \A r : p \in In(r) <=> r = RegionOf(p)
  /\ \A S, r : r \in RegionsOf(S) <=> \E p \in S \cap Pages : r = RegionOf(p)
  /\ \A r : In(r) \subseteq Pages
<1>1. Pages \subseteq Nat
  BY DEF Pages
<1>2. \A p \in Pages : RegionOf(p) \in Nat
  BY RegionNat
<1>3. Regions \subseteq Nat
  BY <1>2 DEF Regions
<1>4. \A S, r : r \in RegionsOf(S) <=> \E p \in S \cap Pages : r = RegionOf(p)
  BY DEF RegionsOf, Regions, In
<1>5. RegionsOf(Pages) = Regions
  BY <1>4 DEF Regions, RegionsOf
<1> QED
  BY <1>1, <1>3, <1>4, <1>5 DEF In

LEMMA RegionConvex ==
  ASSUME NEW p \in Pages, NEW q \in Pages, RegionOf(p) = RegionOf(q), NEW x \in p..q
  PROVE  x \in Pages /\ RegionOf(x) = RegionOf(p)
<1>1. x \in Pages /\ p <= x /\ x <= q
  BY DEF Pages
<1>2. RegionOf(p) <= RegionOf(x) /\ RegionOf(x) <= RegionOf(q)
  BY <1>1, RegionMonotone
<1> QED
  BY <1>1, <1>2, RegionNat

(* Induction, as the least member of a set of natural numbers. *)
Less == {pair \in Nat \X Nat : pair[1] < pair[2]}

LEMMA Least ==
  ASSUME NEW T \in SUBSET Nat, T # {}
  PROVE  \E x \in T : \A y \in T : x <= y
<1>1. OpToRel(<, Nat) = Less
  BY DEF OpToRel, Less
<1>2. IsWellFoundedOn(Less, Nat)
  BY <1>1, NatLessThanWellFounded
<1>3. PICK x \in T : \A y \in T : <<y, x>> \notin Less
  BY <1>2, WFMin
<1>4. ASSUME NEW y \in T PROVE x <= y
  <2>1. <<y, x>> \in Nat \X Nat /\ <<y, x>> \notin Less
    BY <1>3
  <2> QED
    BY <2>1 DEF Less
<1> QED
  BY <1>4

LEMMA MinFacts ==
  ASSUME NEW T \in SUBSET Nat, T # {}
  PROVE  Min(T) \in T /\ \A y \in T : Min(T) <= y
BY Least DEF Min

LEMMA MaxFacts ==
  ASSUME NEW T \in SUBSET Pages, T # {}
  PROVE  Max(T) \in T /\ \A y \in T : y <= Max(T)
<1> DEFINE Bounds == {n \in Nat : \A y \in T : y <= n}
<1>1. T \subseteq Nat /\ NPages \in Bounds
  BY DEF Pages
<1>2. PICK n \in Bounds : \A m \in Bounds : n <= m
  <2>1. Bounds \in SUBSET Nat /\ Bounds # {}
    BY <1>1
  <2> HIDE DEF Bounds
  <2> QED
    BY <2>1, Least
<1>3. n \in T
  <2>1. SUFFICES ASSUME n \notin T PROVE FALSE
    OBVIOUS
  <2>2. \A y \in T : y <= n - 1 /\ y \in Nat
    BY <1>1, <1>2, <2>1
  <2>3. n - 1 \in Nat
    <3>1. PICK y \in T : TRUE
      OBVIOUS
    <3>2. y <= n - 1 /\ y \in Nat /\ n \in Nat
      BY <1>2, <2>2, <3>1
    <3> HIDE DEF Bounds
    <3> QED
      BY <3>2
  <2>4. n - 1 \in Bounds
    BY <2>2, <2>3
  <2> QED
    BY <1>2, <2>4
<1>4. \A y \in T : y <= n
  BY <1>2
<1> QED
  BY <1>1, <1>3, <1>4 DEF Max

(* The region whose turn it is. *)
LEMMA CurrentFacts ==
  ASSUME TypeInv, NEW t \in Threads, job[t].left # {}
  PROVE  Current(t) \in job[t].left /\ Current(t) \in Regions
<1>1. job[t].left \in SUBSET Regions
  BY DEF TypeInv, Jobs
<1> QED
  BY <1>1, RegionFacts, MinFacts DEF Current

------------------------------------------------------------------------------
(* The loop of UpdateRegionWatchers *)

LoopStart(c) ==
  [perms |-> Perms(watchers[Min(c.pages)]), begin |-> 0, bytes |-> 0, potential |-> 0,
   out |-> <<>>]

(* One turn of the recursion of ProtectCalls, and what is built by the     *)
(* first m of them.                                                        *)
LoopTurn(f, p, c) == IF p < Min(c.pages) THEN LoopStart(c) ELSE Visited(f[p - 1], p, c)
Looped(m, c, f) == f = [p \in 0..m |-> LoopTurn(f, p, c)]

LEMMA LoopedExists ==
  ASSUME NEW c, NEW m \in Nat, Min(c.pages) \in Nat \ {0}
  PROVE  \E f : Looped(m, c, f)
<1> DEFINE T == {j \in Nat : ~ \E f : Looped(j, c, f)}
<1>1. SUFFICES ASSUME T # {} PROVE FALSE
  OBVIOUS
<1>2. PICK j \in T : \A i \in T : j <= i
  <2>1. T \in SUBSET Nat
    OBVIOUS
  <2> HIDE DEF T
  <2> QED
    BY <1>1, <2>1, Least
<1>3. j # 0
  <2>1. Looped(0, c, [p \in 0..0 |-> LoopStart(c)])
    BY DEF Looped, LoopTurn
  <2> QED
    BY <2>1
<1>4. PICK f : Looped(j - 1, c, f)
  BY <1>2, <1>3
<1> DEFINE g == [i \in 0..j |-> IF i < j THEN f[i] ELSE LoopTurn(f, j, c)]
<1>5. ASSUME NEW i \in 0..j PROVE g[i] = LoopTurn(g, i, c)
  <2>1. CASE i < j
    <3>1. i \in 0..(j - 1) /\ g[i] = f[i] /\ (i # 0 => g[i - 1] = f[i - 1])
      BY <1>2, <1>3, <2>1
    <3>2. f[i] = LoopTurn(f, i, c)
      BY <1>4, <3>1 DEF Looped
    <3> QED
      BY <3>1, <3>2 DEF LoopTurn
  <2>2. CASE i = j
    <3>1. g[j] = LoopTurn(f, j, c) /\ g[j - 1] = f[j - 1]
      BY <1>2, <1>3
    <3> QED
      BY <2>2, <3>1 DEF LoopTurn
  <2> QED
    BY <1>2, <2>1, <2>2
<1>6. Looped(j, c, g)
  <2>1. g = [i \in 0..j |-> g[i]]
    OBVIOUS
  <2> HIDE DEF g
  <2>2. g = [i \in 0..j |-> LoopTurn(g, i, c)]
    BY <1>5, <2>1
  <2> QED
    BY <2>2 DEF Looped
<1> QED
  BY <1>2, <1>6

LEMMA ProtectCallsLoop ==
  ASSUME NEW c, Min(c.pages) \in Nat \ {0}
  PROVE  \E f : /\ \A p \in 0..NPages : f[p] = LoopTurn(f, p, c)
                /\ ProtectCalls(c) = Released(f[Max(c.pages)]).out
<1> DEFINE Is(f) == f = [p \in 0..NPages |-> LoopTurn(f, p, c)]
           h == CHOOSE f : Is(f)
<1>1. Is(h)
  <2>1. \E f : Looped(NPages, c, f)
    BY LoopedExists, Constants
  <2>2. \E f : Is(f)
    BY <2>1 DEF Looped
  <2> HIDE DEF Is
  <2> QED
    BY <2>2
<1>2. ProtectCalls(c) = Released(h[Max(c.pages)]).out
  BY DEF ProtectCalls, LoopTurn, LoopStart
<1> HIDE DEF h
<1>3. \A p \in 0..NPages : h[p] = LoopTurn(h, p, c)
  BY <1>1
<1> QED
  BY <1>2, <1>3

(* Where the loop is after page p of call c, which is about region r: what *)
(* has been released is right, what is pending has one protection up to p, *)
(* and nothing that changed is missing.                                    *)
Entries == [pages : SUBSET Pages, perms : Protections]
LoopStates == [perms : Protections, begin : Nat, bytes : Nat, potential : Nat,
               out : Seq(Entries)]
Changed(q) == Perms(watchers'[q]) # Perms(watchers[q])
InOut(out, q) == \E i \in 1..Len(out) : q \in out[i].pages

OutRight(out, r) ==
  \A i \in 1..Len(out) : \A q \in out[i].pages :
    q \in In(r) /\ out[i].perms = Perms(watchers'[q])
PendingRight(s, p, first) ==
  s.bytes # 0 => /\ first <= s.begin /\ s.begin + s.potential = p + 1
                 /\ s.bytes <= s.potential
                 /\ \A q \in s.begin..p : Perms(watchers'[q]) = s.perms
NothingMissing(s, p, first) ==
  \A q \in first..p : Changed(q) =>
    InOut(s.out, q) \/ (s.bytes # 0 /\ s.begin <= q /\ q <= s.begin + s.bytes - 1)
LoopRight(s, p, first, r) ==
  s \in LoopStates /\ OutRight(s.out, r) /\ PendingRight(s, p, first)
    /\ NothingMissing(s, p, first)

LEMMA ReleasedRight ==
  ASSUME NEW first \in Pages, NEW r, NEW s, NEW p \in Nat, p <= NPages,
         \A q \in first..p : q \in In(r),
         LoopRight(s, p, first, r)
  PROVE  /\ Released(s) \in LoopStates /\ Released(s).bytes = 0
         /\ Released(s).perms = s.perms
         /\ OutRight(Released(s).out, r)
         /\ \A q \in first..p : Changed(q) => InOut(Released(s).out, q)
<1>1. s \in LoopStates /\ OutRight(s.out, r) /\ PendingRight(s, p, first)
      /\ NothingMissing(s, p, first) /\ first \in Nat
  BY RegionFacts DEF LoopRight
<1>2. CASE s.bytes = 0
  BY <1>1, <1>2 DEF Released, NothingMissing
<1>3. CASE s.bytes # 0
  <2> DEFINE e == [pages |-> s.begin..(s.begin + s.bytes - 1), perms |-> s.perms]
             u == Released(s)
  <2>1. /\ s.begin \in Nat /\ s.bytes \in Nat /\ s.potential \in Nat /\ s.perms \in Protections
        /\ s.out \in Seq(Entries)
    BY <1>1 DEF LoopStates
  <2>2. \A q \in s.begin..(s.begin + s.bytes - 1) :
          q \in first..p /\ Perms(watchers'[q]) = s.perms
    BY <1>1, <1>3, <2>1 DEF PendingRight
  <2>3. e \in Entries
    <3>1. \A q \in s.begin..(s.begin + s.bytes - 1) : q \in Pages
      BY <2>2, RegionFacts
    <3> QED
      BY <2>1, <3>1 DEF Entries
  <2>4. u = [s EXCEPT !.out = Append(@, e), !.bytes = 0, !.potential = 0]
    BY <1>3 DEF Released
  <2>5. /\ Append(s.out, e) \in Seq(Entries) /\ Len(Append(s.out, e)) = Len(s.out) + 1
        /\ \A i \in 1..Len(s.out) : Append(s.out, e)[i] = s.out[i]
        /\ Append(s.out, e)[Len(s.out) + 1] = e /\ Len(s.out) \in Nat
    BY <2>1, <2>3, AppendProperties, LenProperties
  <2>6. /\ u \in LoopStates /\ u.bytes = 0 /\ u.perms = s.perms /\ u.out = Append(s.out, e)
    <3> DEFINE more == Append(s.out, e)
    <3> HIDE DEF e
    <3>1. u = [s EXCEPT !.out = more, !.bytes = 0, !.potential = 0]
      BY <2>4
    <3>2. more \in Seq(Entries)
      BY <2>5
    <3> HIDE DEF u, more
    <3>3. u = [perms |-> s.perms, begin |-> s.begin, bytes |-> 0, potential |-> 0,
               out |-> more]
      BY <1>1, <3>1 DEF LoopStates
    <3>4. u \in LoopStates
      BY <2>1, <3>2, <3>3 DEF LoopStates
    <3> QED
      BY <3>3, <3>4 DEF more
  <2>7. e.pages = s.begin..(s.begin + s.bytes - 1) /\ e.perms = s.perms
    OBVIOUS
  <2> HIDE DEF e, u
  <2>8. OutRight(u.out, r)
    <3> SUFFICES ASSUME NEW i \in 1..Len(u.out), NEW q \in u.out[i].pages
                 PROVE  q \in In(r) /\ u.out[i].perms = Perms(watchers'[q])
      BY DEF OutRight
    <3>1. CASE i \in 1..Len(s.out)
      BY <1>1, <2>5, <2>6, <3>1 DEF OutRight
    <3>2. CASE i = Len(s.out) + 1
      BY <2>2, <2>5, <2>6, <2>7, <3>2
    <3> QED
      BY <2>5, <2>6, <3>1, <3>2
  <2>9. ASSUME NEW q \in first..p, Changed(q) PROVE InOut(u.out, q)
    <3>1. CASE InOut(s.out, q)
      BY <2>5, <2>6, <3>1 DEF InOut
    <3>2. CASE s.begin <= q /\ q <= s.begin + s.bytes - 1
      <4>1. q \in e.pages
        BY <1>1, <2>1, <2>7, <2>9, <3>2
      <4> QED
        BY <2>5, <2>6, <4>1 DEF InOut
    <3> QED
      BY <1>1, <2>9, <3>1, <3>2 DEF NothingMissing
  <2> QED
    BY <2>6, <2>8, <2>9 DEF u
<1> QED
  BY <1>2, <1>3

LEMMA VisitedRight ==
  ASSUME NEW c \in [pages : SUBSET Pages, track : BOOLEAN, read : BOOLEAN],
         watchers \in [Pages -> [write : Nat, access : Nat]],
         watchers' = [p \in Pages |-> IF p \in c.pages THEN Counted(watchers[p], c)
                                      ELSE watchers[p]],
         ~Fatal(c),
         NEW first \in Pages, NEW r, NEW s, NEW p \in Pages, first <= p,
         \A q \in first..p : q \in In(r),
         LoopRight(s, p - 1, first, r)
  PROVE  LoopRight(Visited(s, p, c), p, first, r)
<1> DEFINE update == p \in c.pages
           new == Perms(watchers'[p])
           old == Perms(watchers[p])
           after == watchers'[p]
           moved == IF new # s.perms THEN [Released(s) EXCEPT !.perms = new]
                    ELSE IF s.bytes # 0 THEN [s EXCEPT !.potential = @ + 1] ELSE s
           edge == update /\ Count(after, c.read) = (IF c.track THEN 1 ELSE 0) /\ old # new
           begun == IF moved.bytes = 0 THEN [moved EXCEPT !.begin = p, !.potential = 1]
                    ELSE moved
           turned == IF edge THEN [begun EXCEPT !.bytes = begun.potential] ELSE moved
<1>1. Visited(s, p, c) = turned
  <2>1. watchers'[p] = IF p \in c.pages THEN Counted(watchers[p], c) ELSE watchers[p]
    OBVIOUS
  <2> QED
    BY <2>1 DEF Visited
<1>2. /\ p \in Nat /\ p - 1 \in Nat /\ first \in Nat \ {0} /\ p <= NPages /\ p - 1 <= NPages
  BY Constants DEF Pages
<1>3. new \in Protections /\ new = Perms(after)
  BY DEF Perms, Protections
<1>4. edge <=> old # new
  <2>1. watchers[p] \in [write : Nat, access : Nat]
    OBVIOUS
  <2>2. ASSUME ~update PROVE old = new
    BY <2>2
  <2>3. ASSUME update, old # new PROVE Count(after, c.read) = IF c.track THEN 1 ELSE 0
    <3>1. after = Counted(watchers[p], c)
      BY <2>3
    <3>2. ~c.track => Count(watchers[p], c.read) # 0
      BY <2>3 DEF Fatal
    <3> QED
      BY <2>1, <2>3, <3>1, <3>2 DEF Counted, Count, Perms
  <2> QED
    BY <2>2, <2>3
<1>5. s \in LoopStates /\ OutRight(s.out, r) /\ PendingRight(s, p - 1, first)
      /\ NothingMissing(s, p - 1, first)
  BY DEF LoopRight
<1> HIDE DEF update, new, old, after, edge
<1>6. /\ moved \in LoopStates /\ OutRight(moved.out, r) /\ moved.perms = new
      /\ PendingRight(moved, p, first) /\ NothingMissing(moved, p - 1, first)
  <2>1. CASE new # s.perms
    <3> DEFINE u == Released(s)
    <3>1. \A q \in first..(p - 1) : q \in In(r)
      BY <1>2
    <3>2. /\ u \in LoopStates /\ u.bytes = 0 /\ OutRight(u.out, r)
          /\ \A q \in first..(p - 1) : Changed(q) => InOut(u.out, q)
      BY <1>2, <3>1, ReleasedRight
    <3> HIDE DEF u
    <3>3. moved = [u EXCEPT !.perms = new]
      BY <2>1 DEF u
    <3> HIDE DEF moved
    <3>4. /\ moved \in LoopStates /\ moved.bytes = 0 /\ moved.out = u.out
          /\ moved.perms = new
      BY <1>3, <3>2, <3>3 DEF LoopStates
    <3> QED
      BY <3>2, <3>4 DEF PendingRight, NothingMissing
  <2>2. CASE new = s.perms /\ s.bytes # 0
    <3>1. moved = [s EXCEPT !.potential = @ + 1]
      BY <2>2
    <3> HIDE DEF moved
    <3>2. /\ moved \in LoopStates /\ moved.bytes = s.bytes /\ moved.out = s.out
          /\ moved.perms = new /\ moved.begin = s.begin
          /\ moved.potential = s.potential + 1
          /\ s.begin \in Nat /\ s.bytes \in Nat /\ s.potential \in Nat
      <4>1. /\ s.begin \in Nat /\ s.bytes \in Nat /\ s.potential \in Nat
            /\ s.out \in Seq(Entries) /\ s.perms \in Protections
        BY <1>5 DEF LoopStates
      <4>2. moved = [perms |-> s.perms, begin |-> s.begin, bytes |-> s.bytes,
                     potential |-> s.potential + 1, out |-> s.out]
        BY <1>5, <3>1 DEF LoopStates
      <4>3. moved \in LoopStates
        BY <4>1, <4>2 DEF LoopStates
      <4> QED
        BY <2>2, <4>1, <4>2, <4>3
    <3>3. PendingRight(moved, p, first)
      <4>1. /\ first <= s.begin /\ s.begin + s.potential = (p - 1) + 1
            /\ s.bytes <= s.potential
            /\ \A q \in s.begin..(p - 1) : Perms(watchers'[q]) = s.perms
        BY <1>5, <2>2 DEF PendingRight
      <4>2. \A q \in s.begin..p : Perms(watchers'[q]) = new
        <5>1. Perms(watchers'[p]) = new
          BY DEF new
        <5>2. \A q \in s.begin..p : q = p \/ q \in s.begin..(p - 1)
          BY <1>2, <3>2
        <5> QED
          BY <2>2, <4>1, <5>1, <5>2
      <4> QED
        BY <1>2, <3>2, <4>1, <4>2 DEF PendingRight
    <3> QED
      BY <1>5, <3>2, <3>3 DEF NothingMissing
  <2>3. CASE new = s.perms /\ s.bytes = 0
    BY <1>5, <2>3 DEF PendingRight
  <2> QED
    BY <2>1, <2>2, <2>3
<1> HIDE DEF moved
<1>7. LoopRight(turned, p, first, r)
  <2>0. /\ moved.begin \in Nat /\ moved.bytes \in Nat /\ moved.potential \in Nat
        /\ edge <=> Changed(p)
    BY <1>4, <1>6 DEF LoopStates, Changed, old, new
  <2>1. CASE edge /\ moved.bytes = 0
    <3>1. turned = [[moved EXCEPT !.begin = p, !.potential = 1] EXCEPT !.bytes = 1]
      <4>1. begun = [moved EXCEPT !.begin = p, !.potential = 1]
        BY <2>1
      <4>2. begun.potential = 1
        BY <1>6, <4>1 DEF LoopStates
      <4> QED
        BY <2>1, <4>1, <4>2
    <3> HIDE DEF turned
    <3>2. /\ turned \in LoopStates /\ turned.bytes = 1 /\ turned.begin = p
          /\ turned.potential = 1 /\ turned.out = moved.out /\ turned.perms = new
      BY <1>2, <1>6, <3>1 DEF LoopStates
    <3>3. PendingRight(turned, p, first)
      <4>1. \A q \in p..p : Perms(watchers'[q]) = new
        BY <1>2 DEF new
      <4> QED
        BY <1>2, <3>2, <4>1 DEF PendingRight
    <3>4. NothingMissing(turned, p, first)
      <4>1. \A q \in first..p : q = p \/ q \in first..(p - 1)
        BY <1>2
      <4> QED
        BY <1>2, <1>6, <2>1, <3>2, <4>1 DEF NothingMissing
    <3> QED
      BY <1>6, <3>2, <3>3, <3>4 DEF LoopRight
  <2>2. CASE edge /\ moved.bytes # 0
    <3>1. turned = [moved EXCEPT !.bytes = moved.potential]
      BY <2>2
    <3> HIDE DEF turned
    <3>2. /\ turned \in LoopStates /\ turned.bytes = moved.potential
          /\ turned.begin = moved.begin /\ turned.potential = moved.potential
          /\ turned.out = moved.out /\ turned.perms = new
      BY <1>6, <2>0, <3>1 DEF LoopStates
    <3>3. /\ first <= moved.begin /\ moved.begin + moved.potential = p + 1
          /\ moved.bytes <= moved.potential
          /\ \A q \in moved.begin..p : Perms(watchers'[q]) = moved.perms
      BY <1>6, <2>2 DEF PendingRight
    <3>4. PendingRight(turned, p, first)
      BY <1>6, <3>2, <3>3, <2>0 DEF PendingRight
    <3>5. NothingMissing(turned, p, first)
      <4> SUFFICES ASSUME NEW q \in first..p, Changed(q)
                   PROVE  InOut(turned.out, q)
                            \/ (turned.bytes # 0 /\ turned.begin <= q
                                  /\ q <= turned.begin + turned.bytes - 1)
        BY DEF NothingMissing
      <4>1. CASE q \in first..(p - 1)
        <5>1. InOut(moved.out, q) \/ (moved.begin <= q /\ q <= moved.begin + moved.bytes - 1)
          BY <1>6, <4>1 DEF NothingMissing
        <5> QED
          BY <1>2, <2>0, <2>2, <3>2, <3>3, <5>1
      <4>2. CASE q = p
        BY <1>2, <2>0, <2>2, <3>2, <3>3, <4>2
      <4> QED
        BY <1>2, <4>1, <4>2
    <3> QED
      BY <1>6, <3>2, <3>4, <3>5 DEF LoopRight
  <2>3. CASE ~edge
    <3>1. turned = moved
      BY <2>3
    <3>2. NothingMissing(moved, p, first)
      <4>1. \A q \in first..p : q = p \/ q \in first..(p - 1)
        BY <1>2
      <4> QED
        BY <1>6, <2>0, <2>3, <4>1 DEF NothingMissing
    <3> QED
      BY <1>6, <3>1, <3>2 DEF LoopRight
  <2> QED
    BY <2>1, <2>2, <2>3
<1> QED
  BY <1>1, <1>7

(* The Protect calls for call c give its pages, and those between them,    *)
(* what the watchers say afterwards, and miss no page whose protection     *)
(* changes.                                                                *)
LEMMA ProtectCallsFacts ==
  ASSUME NEW c \in [pages : SUBSET Pages, track : BOOLEAN, read : BOOLEAN],
         c.pages # {}, NEW r, c.pages \subseteq In(r),
         watchers \in [Pages -> [write : Nat, access : Nat]],
         watchers' = [p \in Pages |-> IF p \in c.pages THEN Counted(watchers[p], c)
                                      ELSE watchers[p]],
         ~Fatal(c)
  PROVE  /\ ProtectCalls(c) \in Seq(Entries)
         /\ OutRight(ProtectCalls(c), r)
         /\ \A q \in In(r) : Changed(q) => InOut(ProtectCalls(c), q)
<1> DEFINE first == Min(c.pages)
           last == Max(c.pages)
<1>1. /\ first \in c.pages /\ last \in c.pages /\ first \in Pages /\ last \in Pages
      /\ \A q \in c.pages : first <= q /\ q <= last
  <2>1. c.pages \in SUBSET Nat /\ c.pages \in SUBSET Pages
    BY RegionFacts
  <2> QED
    BY <2>1, MinFacts, MaxFacts
<1>2. PICK f : /\ \A p \in 0..NPages : f[p] = LoopTurn(f, p, c)
               /\ ProtectCalls(c) = Released(f[last]).out
  <2>1. first \in Nat \ {0}
    BY <1>1 DEF Pages
  <2> QED
    BY <2>1, ProtectCallsLoop
<1> HIDE DEF first, last
<1>3. \A q \in first..last : q \in In(r) /\ q \in Pages
  <2>1. RegionOf(first) = r /\ RegionOf(last) = r
    BY <1>1 DEF In
  <2> QED
    BY <1>1, <2>1, RegionConvex DEF In
<1>4. first \in Nat \ {0} /\ last \in Nat /\ first <= last /\ last <= NPages /\ NPages \in Nat
  BY <1>1 DEF Pages
<1> DEFINE T == {p \in (first - 1)..last : ~LoopRight(f[p], p, first, r)}
<1>5. T = {}
  <2>1. SUFFICES ASSUME T # {} PROVE FALSE
    OBVIOUS
  <2>2. PICK p \in T : \A q \in T : p <= q
    <3>1. T \in SUBSET Nat
      BY <1>4
    <3> HIDE DEF T
    <3> QED
      BY <2>1, <3>1, Least
  <2>3. CASE p = first - 1
    <3>1. f[p] = LoopStart(c)
      BY <1>2, <1>4, <2>3 DEF LoopTurn, first
    <3>2. LoopStart(c) \in LoopStates
      <4>1. <<>> \in Seq(Entries) /\ Perms(watchers[Min(c.pages)]) \in Protections
        BY EmptySeq DEF Perms, Protections
      <4> QED
        BY <4>1 DEF LoopStart, LoopStates
    <3>3. LoopStart(c).bytes = 0 /\ Len(LoopStart(c).out) = 0
      BY EmptySeq DEF LoopStart
    <3>4. LoopRight(f[p], p, first, r)
      BY <1>4, <2>3, <3>1, <3>2, <3>3
         DEF LoopRight, OutRight, PendingRight, NothingMissing
    <3> QED
      BY <2>2, <3>4
  <2>4. CASE p # first - 1
    <3>1. p \in first..last /\ p - 1 \in (first - 1)..last /\ p \in 0..NPages /\ p - 1 \notin T
      BY <1>4, <2>2, <2>4
    <3>2. LoopRight(f[p - 1], p - 1, first, r) /\ p \in Pages /\ first <= p
      BY <1>3, <3>1
    <3>3. f[p] = Visited(f[p - 1], p, c)
      BY <1>2, <1>4, <3>1 DEF LoopTurn, first
    <3>4. \A q \in first..p : q \in In(r)
      BY <1>3, <1>4, <3>1
    <3>5. LoopRight(f[p], p, first, r)
      BY <1>1, <3>2, <3>3, <3>4, VisitedRight
    <3> QED
      BY <2>2, <3>5
  <2> QED
    BY <2>3, <2>4
<1>6. LoopRight(f[last], last, first, r)
  BY <1>4, <1>5
<1>7. /\ Released(f[last]) \in LoopStates /\ OutRight(Released(f[last]).out, r)
      /\ \A q \in first..last : Changed(q) => InOut(Released(f[last]).out, q)
  BY <1>1, <1>3, <1>4, <1>6, ReleasedRight
<1>8. ASSUME NEW q \in In(r), Changed(q) PROVE q \in first..last
  <2>1. q \in Pages /\ q \in c.pages
    BY <1>8 DEF Changed, In
  <2> QED
    BY <1>1, <2>1, RegionFacts
<1> QED
  BY <1>2, <1>7, <1>8 DEF LoopStates

------------------------------------------------------------------------------
(* A turn of the page manager *)

TurnRegion(t) == RegionOf(Min(calls[t].pages))
TurnCall(t) == [calls[t] EXCEPT !.pages = Turn(t)]

LEMMA TurnFacts ==
  ASSUME TypeInv, NEW t \in Threads, calls[t].pages # {}
  PROVE  /\ TurnRegion(t) \in Regions
         /\ Turn(t) # {} /\ Turn(t) \subseteq calls[t].pages
         /\ Turn(t) \subseteq In(TurnRegion(t)) /\ Turn(t) \subseteq Pages
         /\ TurnCall(t) \in [pages : SUBSET Pages, track : BOOLEAN, read : BOOLEAN]
         /\ TurnCall(t).pages = Turn(t)
         /\ TurnCall(t).track = calls[t].track /\ TurnCall(t).read = calls[t].read
<1> DEFINE first == Min(calls[t].pages)
           here == calls[t].pages \cap In(RegionOf(first))
<1>1. calls[t] \in [pages : SUBSET Pages, track : BOOLEAN, read : BOOLEAN]
  BY DEF TypeInv
<1>2. first \in calls[t].pages /\ first \in Pages /\ first \in Nat
  <2>1. calls[t].pages \in SUBSET Nat
    BY <1>1, RegionFacts
  <2> QED
    BY <1>1, <2>1, MinFacts
<1>3. first \in here
  BY <1>2, RegionNat
<1>4. Turn(t) = IF at[t] = "refresh" THEN {p \in here : first..p \subseteq here} ELSE here
  BY DEF Turn
<1>5. TurnRegion(t) = RegionOf(first) /\ TurnRegion(t) \in Regions
  BY <1>2, RegionNat DEF TurnRegion
<1> HIDE DEF first
<1>6. first..first \subseteq here
  BY <1>2, <1>3
<1>7. Turn(t) # {} /\ Turn(t) \subseteq here
  BY <1>3, <1>4, <1>6
<1>8. Turn(t) \in SUBSET Pages
  BY <1>1, <1>7
<1> QED
  BY <1>1, <1>5, <1>7, <1>8 DEF TurnCall

LEMMA TurnNotFatal ==
  ASSUME TypeInv, CallInv, WatchInv, NEW t \in Threads, calls[t].pages # {}
  PROVE  ~Fatal(TurnCall(t))
<1> SUFFICES ASSUME NEW p \in Turn(t)
             PROVE  IF calls[t].track THEN Count(watchers[p], calls[t].read) # Limit(calls[t].read)
                                      ELSE Count(watchers[p], calls[t].read) # 0
  BY TurnFacts DEF Fatal
<1>1. p \in calls[t].pages /\ p \in Pages
  BY TurnFacts
<1>2. at[t] \in TrackerLabels \cup ImageLabels
  BY DEF CallInv, CallRight
<1>3. /\ watchers[p].write = One(CpuWatched(p)) + One(ImgWatched(p))
      /\ watchers[p].access = One(GpuWatched(p))
  BY <1>1 DEF WatchInv
<1>4. One(TRUE) = 1 /\ One(FALSE) = 0 /\ \A b : One(b) \in {0, 1}
  BY DEF One
<1>5. CASE at[t] \in TrackerLabels /\ calls[t].read
  <2>1. p \in PendGpu
    BY <1>1, <1>5 DEF PendGpu
  <2>2. IF calls[t].track THEN p \in gpu_dirty ELSE p \notin gpu_dirty
    BY <1>1, <1>5 DEF CallInv, CallRight
  <2>3. IF calls[t].track THEN ~GpuWatched(p) ELSE GpuWatched(p)
    BY <2>1, <2>2 DEF GpuWatched
  <2> QED
    BY <1>3, <1>4, <1>5, <2>3 DEF Count, Limit, One
<1>6. CASE at[t] \in TrackerLabels /\ ~calls[t].read
  <2>1. p \in PendCpu
    BY <1>1, <1>6 DEF PendCpu
  <2>2. IF calls[t].track THEN p \notin cpu_dirty ELSE p \in cpu_dirty
    BY <1>1, <1>6 DEF CallInv, CallRight
  <2>3. IF calls[t].track THEN ~CpuWatched(p) ELSE CpuWatched(p)
    BY <2>1, <2>2 DEF CpuWatched
  <2> QED
    BY <1>3, <1>4, <1>6, <2>3 DEF Count, Limit, One
<1>7. CASE at[t] \in ImageLabels
  <2>1. p \in PendImg /\ ~calls[t].read
    BY <1>1, <1>7 DEF PendImg, CallInv, CallRight
  <2>2. IF calls[t].track THEN p \in tracked ELSE p \notin tracked
    BY <1>1, <1>7 DEF CallInv, CallRight
  <2>3. IF calls[t].track THEN ~ImgWatched(p) ELSE ImgWatched(p)
    BY <2>1, <2>2 DEF ImgWatched
  <2> QED
    BY <1>3, <1>4, <2>1, <2>3 DEF Count, Limit, One
<1> QED
  BY <1>2, <1>5, <1>6, <1>7

(* Nobody else has a call to make for a page of t's.                       *)
LEMMA OneCaller ==
  ASSUME CallInv, NEW t \in Threads, NEW u \in Threads,
         NEW p, p \in calls[t].pages, p \in calls[u].pages,
         \/ at[t] \in TrackerLabels /\ at[u] \in TrackerLabels
         \/ at[t] \in ImageLabels /\ at[u] \in ImageLabels
         \/ calls[t].read /\ calls[u].read
  PROVE  t = u
<1>1. CASE at[t] \in TrackerLabels /\ at[u] \in TrackerLabels
  <2>1. tracker_lock[RegionOf(p)] = t
    BY <1>1 DEF CallInv, CallRight
  <2>2. tracker_lock[RegionOf(p)] = u
    BY <1>1 DEF CallInv, CallRight
  <2> QED
    BY <2>1, <2>2
<1>2. CASE at[t] \in ImageLabels /\ at[u] \in ImageLabels
  <2>1. m_lock = t
    BY <1>2 DEF CallInv, CallRight
  <2>2. m_lock = u
    BY <1>2 DEF CallInv, CallRight
  <2> QED
    BY <2>1, <2>2
<1>3. ASSUME NEW v \in {t, u}, calls[v].read PROVE at[v] \in TrackerLabels
  BY <1>3 DEF CallInv, CallRight
<1> QED
  BY <1>1, <1>2, <1>3

LEMMA TurnPending ==
  ASSUME TypeInv, CallInv, NEW t \in Threads, calls[t].pages # {}, UNCHANGED at,
         calls' = [calls EXCEPT ![t] = CallsFor(@.pages \ Turn(t), @.track, @.read)]
  PROVE  /\ PendCpu' = IF at[t] \in TrackerLabels /\ ~calls[t].read THEN PendCpu \ Turn(t)
                       ELSE PendCpu
         /\ PendGpu' = IF calls[t].read THEN PendGpu \ Turn(t) ELSE PendGpu
         /\ PendImg' = IF at[t] \in ImageLabels THEN PendImg \ Turn(t) ELSE PendImg
<1>1. /\ calls'[t].pages = calls[t].pages \ Turn(t)
      /\ calls'[t].pages # {} => (calls'[t].read <=> calls[t].read)
      /\ \A u \in Threads \ {t} : calls'[u] = calls[u]
  BY DEF CallsFor, TypeInv
<1>2. Turn(t) \subseteq calls[t].pages /\ Turn(t) \subseteq Pages
  BY TurnFacts
<1>3. at[t] \notin TrackerLabels \/ at[t] \notin ImageLabels
  BY DEF TrackerLabels, ImageLabels
<1>4. /\ at[t] \in TrackerLabels \cup ImageLabels
      /\ calls[t].read => at[t] \notin ImageLabels
  BY DEF CallInv, CallRight
<1>5. PendCpu' = IF at[t] \in TrackerLabels /\ ~calls[t].read THEN PendCpu \ Turn(t)
                 ELSE PendCpu
  BY <1>1, <1>2, <1>3, <1>4, OneCaller DEF PendCpu
<1>6. PendGpu' = IF calls[t].read THEN PendGpu \ Turn(t) ELSE PendGpu
  BY <1>1, <1>2, OneCaller DEF PendGpu
<1>7. PendImg' = IF at[t] \in ImageLabels THEN PendImg \ Turn(t) ELSE PendImg
  BY <1>1, <1>2, <1>3, <1>4, OneCaller DEF PendImg
<1> QED
  BY <1>5, <1>6, <1>7

(* Who waits for the page manager keeps everything but the page manager.   *)
controlVars == <<tracker, at, job, commands, bufferCache, textureCache>>

LEMMA WatchStep ==
  ASSUME IInv, NEW t \in Threads, Watch(t)
  PROVE  IInv'
<1> DEFINE S == Turn(t)
           r == TurnRegion(t)
           c == TurnCall(t)
<1>0. /\ TypeInv /\ GuestControl /\ GpuControl /\ QueueInv /\ LockInv /\ MLockInv
      /\ CallInv /\ WatchInv /\ ProtectInv /\ StrictInv
      /\ CopyInv /\ UnreadInv /\ GpuInv /\ ImageInv /\ NoStaleImage
  BY DEF IInv
<1>1. /\ calls[t].pages # {} /\ protects[r].by = None
      /\ calls' = [calls EXCEPT ![t] = CallsFor(@.pages \ S, @.track, @.read)]
      /\ UNCHANGED controlVars
      /\ IF Fatal(c)
           THEN failed' = TRUE /\ UNCHANGED pageManager
           ELSE /\ watchers' = [p \in Pages |-> IF p \in c.pages THEN Counted(watchers[p], c)
                                                ELSE watchers[p]]
                /\ protects' = IF ProtectCalls(c) = <<>> THEN protects
                               ELSE [protects EXCEPT ![r] =
                                       [by |-> t, list |-> ProtectCalls(c)]]
                /\ UNCHANGED <<protection, failed>>
  BY DEF Watch, TurnRegion, TurnCall, controlVars
<1>2. /\ r \in Regions /\ S # {} /\ S \subseteq calls[t].pages /\ S \subseteq In(r)
      /\ S \subseteq Pages
      /\ c \in [pages : SUBSET Pages, track : BOOLEAN, read : BOOLEAN]
      /\ c.pages = S /\ c.track = calls[t].track /\ c.read = calls[t].read
  BY <1>0, <1>1, TurnFacts
<1>3. ~Fatal(c)
  BY <1>0, <1>1, TurnNotFatal
<1>4. /\ PendCpu' = IF at[t] \in TrackerLabels /\ ~calls[t].read THEN PendCpu \ S ELSE PendCpu
      /\ PendGpu' = IF calls[t].read THEN PendGpu \ S ELSE PendGpu
      /\ PendImg' = IF at[t] \in ImageLabels THEN PendImg \ S ELSE PendImg
  BY <1>0, <1>1, TurnPending DEF controlVars
<1>5. /\ ProtectCalls(c) \in Seq(Entries) /\ OutRight(ProtectCalls(c), r)
      /\ \A q \in In(r) : Changed(q) => InOut(ProtectCalls(c), q)
  <2>1. watchers \in [Pages -> [write : Nat, access : Nat]]
    BY <1>0 DEF TypeInv
  <2>2. watchers' = [p \in Pages |-> IF p \in c.pages THEN Counted(watchers[p], c)
                                     ELSE watchers[p]]
    BY <1>1, <1>3
  <2>3. /\ c \in [pages : SUBSET Pages, track : BOOLEAN, read : BOOLEAN]
        /\ c.pages # {} /\ c.pages \subseteq In(r)
    BY <1>2
  <2> HIDE DEF c, r, S
  <2> QED
    BY <1>3, <2>1, <2>2, <2>3, ProtectCallsFacts
<1>6. /\ watchers' = [p \in Pages |-> IF p \in S THEN Counted(watchers[p], c) ELSE watchers[p]]
      /\ protects' = IF ProtectCalls(c) = <<>> THEN protects
                     ELSE [protects EXCEPT ![r] = [by |-> t, list |-> ProtectCalls(c)]]
      /\ UNCHANGED <<protection, failed>>
  BY <1>1, <1>2, <1>3
<1> HIDE DEF S, r, c
<1>7. /\ at[t] \in TrackerLabels \cup ImageLabels
      /\ calls[t].read => at[t] \in TrackerLabels
      /\ at[t] \notin TrackerLabels \/ at[t] \notin ImageLabels
  BY <1>0, <1>1 DEF CallInv, CallRight, TrackerLabels, ImageLabels
<1>8. /\ calls'[t].pages = calls[t].pages \ S /\ calls'[t].pages \subseteq calls[t].pages
      /\ calls'[t].pages # {} => calls'[t].track = calls[t].track /\ calls'[t].read = calls[t].read
      /\ \A u \in Threads \ {t} : calls'[u] = calls[u]
  BY <1>0, <1>1 DEF CallsFor, TypeInv
<1>9. TypeInv'
  <2>1. ASSUME NEW p \in Pages PROVE watchers'[p] \in [write : Nat, access : Nat]
    <3>1. watchers[p] \in [write : Nat, access : Nat]
      BY <1>0 DEF TypeInv
    <3>2. CASE p \in S
      <4>1. watchers'[p] = Counted(watchers[p], c)
        BY <1>6, <3>2
      <4>2. ~c.track => Count(watchers[p], c.read) # 0
        BY <1>2, <1>3, <3>2 DEF Fatal
      <4> QED
        BY <1>2, <3>1, <4>1, <4>2 DEF Counted, Count
    <3> QED
      BY <1>6, <3>1, <3>2
  <2>2. watchers' \in [Pages -> [write : Nat, access : Nat]]
    BY <1>6, <2>1
  <2>3. calls' \in [Threads -> [pages : SUBSET Pages, track : BOOLEAN, read : BOOLEAN]]
    BY <1>0, <1>1 DEF TypeInv, CallsFor
  <2>4. protects' \in [Regions -> [by : Threads \cup {None},
                               list : Seq([pages : SUBSET Pages, perms : Protections])]]
    <3>1. [by |-> t, list |-> ProtectCalls(c)]
            \in [by : Threads \cup {None}, list : Seq([pages : SUBSET Pages, perms : Protections])]
      BY <1>5 DEF Entries
    <3> QED
      BY <1>0, <1>6, <3>1 DEF TypeInv
  <2>5. UNCHANGED <<failed, protection>> /\ UNCHANGED controlVars
    BY <1>1, <1>6
  <2> QED
    BY <1>0, <2>2, <2>3, <2>4, <2>5
       DEF TypeInv, controlVars, tracker, bufferCache, textureCache, bounds
<1>10. CallInv'
  <2>1. UNCHANGED controlVars
    BY <1>1
  <2>2. ASSUME NEW u \in Threads \ {t} PROVE calls'[u] = calls[u]
    BY <1>8
  <2> USE DEF controlVars, tracker, bufferCache, textureCache, bounds
  <2> SUFFICES ASSUME NEW u \in Threads, calls'[u].pages # {}
               PROVE  CallRight(u)'
    BY DEF CallInv
  <2>3. Phase' = Phase
    BY <2>1 DEF Phase
  <2>4. CASE u # t
    BY <1>0, <2>1, <2>2, <2>3, <2>4 DEF CallInv, CallRight, RegionOf
  <2>5. CASE u = t
    <3>1. /\ calls'[t].pages \subseteq calls[t].pages /\ calls[t].pages # {}
          /\ calls'[t].track = calls[t].track /\ calls'[t].read = calls[t].read
      BY <1>8, <2>5
    <3>2. CallRight(t)
      BY <1>0, <1>1 DEF CallInv
    <3>3. /\ at[t] \in TrackerLabels \cup ImageLabels
          /\ at[t] \in TrackerLabels => \A p \in calls'[t].pages : tracker_lock[RegionOf(p)] = t
      BY <3>1, <3>2 DEF CallRight
    <3>4. ASSUME at[t] \in TrackerLabels, calls[t].read
          PROVE  /\ t = Gpu
                 /\ IF calls[t].track THEN calls'[t].pages \subseteq gpu_dirty /\ Phase = "mark gpu"
                                      ELSE calls'[t].pages \cap gpu_dirty = {}
      BY <3>1, <3>2, <3>4 DEF CallRight
    <3>5. ASSUME at[t] \in TrackerLabels, ~calls[t].read
          PROVE  IF calls[t].track
                   THEN t = Gpu /\ Phase = "upload" /\ calls'[t].pages \subseteq copies \ cpu_dirty
                   ELSE calls'[t].pages \subseteq cpu_dirty
      BY <3>1, <3>2, <3>5 DEF CallRight
    <3>6. ASSUME at[t] \in ImageLabels
          PROVE  /\ m_lock = t /\ ~calls[t].read
                 /\ IF calls[t].track THEN t = Gpu /\ calls'[t].pages \subseteq tracked
                                      ELSE calls'[t].pages \cap tracked = {}
      BY <3>1, <3>2, <3>6 DEF CallRight
    <3> QED
      BY <2>1, <2>3, <2>5, <3>1, <3>3, <3>4, <3>5, <3>6 DEF CallRight, RegionOf
  <2> QED
    BY <2>4, <2>5
<1>11. WatchInv'
  <2>0. One(TRUE) = 1 /\ One(FALSE) = 0
    BY DEF One
  <2>1. UNCHANGED <<cpu_dirty, gpu_dirty, tracked>>
    BY <1>1 DEF controlVars, tracker, textureCache
  <2> SUFFICES ASSUME NEW p \in Pages
               PROVE  /\ watchers'[p].write = One(CpuWatched(p)') + One(ImgWatched(p)')
                      /\ watchers'[p].access = One(GpuWatched(p)')
    BY DEF WatchInv
  <2>2. /\ watchers[p].write = One(CpuWatched(p)) + One(ImgWatched(p))
        /\ watchers[p].access = One(GpuWatched(p))
        /\ watchers[p] \in [write : Nat, access : Nat]
    BY <1>0 DEF WatchInv, TypeInv
  <2>3. CASE p \notin S
    <3>1. (CpuWatched(p)' <=> CpuWatched(p)) /\ (ImgWatched(p)' <=> ImgWatched(p))
          /\ (GpuWatched(p)' <=> GpuWatched(p))
      BY <1>4, <2>1, <2>3 DEF CpuWatched, ImgWatched, GpuWatched
    <3>2. watchers'[p] = watchers[p]
      BY <1>6, <2>3
    <3> QED
      BY <2>2, <3>1, <3>2 DEF One
  <2>4. CASE p \in S /\ calls[t].read
    <3>1. /\ p \in PendGpu /\ (calls[t].track <=> p \in gpu_dirty)
      BY <1>0, <1>1, <1>2, <1>7, <2>4 DEF PendGpu, CallInv, CallRight
    <3>2. /\ GpuWatched(p) <=> ~calls[t].track
          /\ GpuWatched(p)' <=> calls[t].track
          /\ (CpuWatched(p)' <=> CpuWatched(p)) /\ (ImgWatched(p)' <=> ImgWatched(p))
      BY <1>4, <1>7, <2>1, <2>4, <3>1 DEF CpuWatched, ImgWatched, GpuWatched
    <3>3. watchers'[p] = Counted(watchers[p], c)
      BY <1>6, <2>4
    <3> QED
      BY <1>2, <2>2, <2>4, <3>2, <3>3 DEF One, Counted, Count
  <2>5. CASE p \in S /\ at[t] \in TrackerLabels /\ ~calls[t].read
    <3>1. /\ p \in PendCpu /\ (calls[t].track <=> p \notin cpu_dirty)
      BY <1>0, <1>1, <1>2, <1>7, <2>5 DEF PendCpu, CallInv, CallRight
    <3>2. /\ CpuWatched(p) <=> ~calls[t].track
          /\ CpuWatched(p)' <=> calls[t].track
          /\ (GpuWatched(p)' <=> GpuWatched(p)) /\ (ImgWatched(p)' <=> ImgWatched(p))
      BY <1>4, <1>7, <2>1, <2>5, <3>1 DEF CpuWatched, ImgWatched, GpuWatched
    <3>3. watchers'[p] = Counted(watchers[p], c)
      BY <1>6, <2>5
    <3> QED
      BY <1>2, <2>2, <2>5, <3>2, <3>3 DEF One, Counted, Count
  <2>6. CASE p \in S /\ at[t] \in ImageLabels
    <3>1. /\ p \in PendImg /\ ~calls[t].read /\ (calls[t].track <=> p \in tracked)
      BY <1>0, <1>1, <1>2, <1>7, <2>6 DEF PendImg, CallInv, CallRight
    <3>2. /\ ImgWatched(p) <=> ~calls[t].track
          /\ ImgWatched(p)' <=> calls[t].track
          /\ (GpuWatched(p)' <=> GpuWatched(p)) /\ (CpuWatched(p)' <=> CpuWatched(p))
      BY <1>4, <1>7, <2>1, <2>6, <3>1 DEF CpuWatched, ImgWatched, GpuWatched
    <3>3. watchers'[p] = Counted(watchers[p], c)
      BY <1>6, <2>6
    <3> QED
      BY <1>2, <2>2, <3>1, <3>2, <3>3 DEF One, Counted, Count
  <2> QED
    BY <1>7, <2>3, <2>4, <2>5, <2>6
<1>12. ProtectInv'
  <2>1. UNCHANGED at
    BY <1>1 DEF controlVars
  <2>2. \A q \in Pages : RegionOf(q) # r => watchers'[q] = watchers[q]
    BY <1>2, <1>6, RegionFacts
  <2> SUFFICES ASSUME NEW v \in Regions
               PROVE  /\ protects'[v].by = None <=> protects'[v].list = <<>>
                      /\ protects'[v].by # None
                           => at'[protects'[v].by] \in TrackerLabels \cup ImageLabels
                      /\ \A i \in 1..Len(protects'[v].list) :
                           \A p \in protects'[v].list[i].pages :
                             p \in In(v) /\ protects'[v].list[i].perms = Perms(watchers'[p])
                      /\ \A p \in In(v) : ~InCalls(p, v)' => protection'[p] = Perms(watchers'[p])
    BY DEF ProtectInv
  <2>3. /\ protects[v].by = None <=> protects[v].list = <<>>
        /\ protects[v].by # None => at[protects[v].by] \in TrackerLabels \cup ImageLabels
        /\ \A i \in 1..Len(protects[v].list) : \A p \in protects[v].list[i].pages :
             p \in In(v) /\ protects[v].list[i].perms = Perms(watchers[p])
        /\ \A p \in In(v) : ~InCalls(p, v) => protection[p] = Perms(watchers[p])
    BY <1>0 DEF ProtectInv
  <2>4. CASE v # r
    <3>1. protects'[v] = protects[v]
      BY <1>0, <1>6, <2>4 DEF TypeInv
    <3>2. \A p \in In(v) : watchers'[p] = watchers[p] /\ (InCalls(p, v)' <=> InCalls(p, v))
      BY <2>2, <2>4, <3>1, RegionFacts DEF In, InCalls
    <3>3. at' = at /\ protection' = protection
      BY <1>6, <2>1
    <3>4. \A i \in 1..Len(protects[v].list) : \A p \in protects[v].list[i].pages :
            p \in In(v) /\ protects[v].list[i].perms = Perms(watchers'[p])
      BY <2>3, <3>2
    <3> QED
      BY <2>3, <3>1, <3>2, <3>3, <3>4
  <2>5. CASE v = r /\ ProtectCalls(c) = <<>>
    <3>1. protects'[v] = protects[v] /\ protects[v].list = <<>> /\ protects[v].by = None
      BY <1>1, <1>6, <2>3, <2>5
    <3>2. \A q \in In(v) : ~Changed(q) /\ ~InCalls(q, v)
      BY <1>5, <2>5, <3>1 DEF InOut, InCalls
    <3> QED
      BY <1>6, <2>3, <2>5, <3>1, <3>2 DEF Changed
  <2>6. CASE v = r /\ ProtectCalls(c) # <<>>
    <3>1. protects'[v] = [by |-> t, list |-> ProtectCalls(c)]
      BY <1>0, <1>2, <1>6, <2>6 DEF TypeInv
    <3>2. t # None
      BY Constants
    <3>3. \A q \in In(v) : ~InCalls(q, v)
      BY <1>1, <2>3, <2>6 DEF InCalls
    <3>4. ASSUME NEW p \in In(v), ~InCalls(p, v)' PROVE protection'[p] = Perms(watchers'[p])
      <4>1. ~InOut(ProtectCalls(c), p)
        BY <3>1, <3>4 DEF InCalls, InOut
      <4>2. ~Changed(p)
        BY <1>5, <2>6, <4>1
      <4> QED
        BY <1>6, <2>3, <3>3, <4>2 DEF Changed
    <3> QED
      BY <1>5, <1>7, <2>1, <2>6, <3>1, <3>2, <3>4 DEF OutRight
  <2> QED
    BY <2>4, <2>5, <2>6
<1>13. StrictInv'
  <2> SUFFICES ASSUME NEW v \in Regions, protects'[v].by # Gpu, NEW p \in In(v)
               PROVE  Stricter(protection'[p], Perms(watchers'[p]))
    BY DEF StrictInv
  <2>1. p \in Pages /\ RegionOf(p) = v
    BY RegionFacts
  <2>2. CASE ~Changed(p) /\ protects'[v].by = protects[v].by
    BY <1>0, <1>6, <2>2 DEF StrictInv, Changed
  <2>3. CASE v # r
    <3>1. protects'[v] = protects[v] /\ watchers'[p] = watchers[p]
      BY <1>0, <1>2, <1>6, <2>1, <2>3, RegionFacts DEF TypeInv
    <3> QED
      BY <2>2, <3>1 DEF Changed
  <2>4. CASE v = r /\ ProtectCalls(c) = <<>>
    <3>1. protects' = protects
      BY <1>6, <2>4
    <3>2. ~Changed(p)
      BY <1>5, <2>4 DEF InOut
    <3> QED
      BY <2>2, <3>1, <3>2
  <2>5. CASE v = r /\ ProtectCalls(c) # <<>>
    <3>1. protects'[v].by = t /\ protects[v].list = <<>>
      BY <1>0, <1>1, <1>2, <1>6, <2>5 DEF TypeInv, ProtectInv
    <3>2. protection'[p] = Perms(watchers[p])
      BY <1>0, <1>6, <3>1 DEF ProtectInv, InCalls
    <3>3. t # Gpu /\ ~calls[t].track /\ ~calls[t].read
      BY <1>0, <1>1, <1>7, <3>1 DEF CallInv, CallRight
    <3>4. CASE p \notin S
      <4>1. watchers'[p] = watchers[p]
        BY <1>6, <2>1, <3>4
      <4> QED
        BY <3>2, <4>1 DEF Stricter
    <3>5. CASE p \in S
      <4>1. watchers'[p] = Counted(watchers[p], c) /\ Count(watchers[p], c.read) # 0
        BY <1>2, <1>3, <1>6, <2>1, <3>3, <3>5 DEF Fatal
      <4>2. watchers[p] \in [write : Nat, access : Nat]
        BY <1>0, <2>1 DEF TypeInv
      <4>3. watchers[p].write # 0 /\ watchers'[p].access = watchers[p].access
        BY <1>2, <3>3, <4>1, <4>2 DEF Counted, Count
      <4> QED
        BY <3>2, <4>2, <4>3 DEF Stricter, Perms
    <3> QED
      BY <3>4, <3>5
  <2> QED
    BY <2>3, <2>4, <2>5
<1>14. (GuestControl /\ GpuControl /\ QueueInv /\ LockInv /\ MLockInv)'
  BY <1>0, <1>1 DEF GuestControl, GpuControl, QueueInv, LockInv, MLockInv, Holds, Phase, ToDo,
       Uploading, Serving, Current, controlVars, tracker, textureCache, bounds
<1>15. (CopyInv /\ UnreadInv /\ GpuInv)'
  <2>1. PendGpu' \subseteq PendGpu
    BY <1>4
  <2>2. UNCHANGED controlVars /\ UNCHANGED protection
    BY <1>1, <1>6
  <2> USE DEF controlVars, tracker, bufferCache, textureCache, bounds
  <2>3. Phase' = Phase /\ ToDo' = ToDo /\ UpCopies' = UpCopies /\ (Uploading' <=> Uploading)
    BY <2>2 DEF Phase, ToDo, Current, UpCopies, Uploading
  <2>4. CopyInv'
    BY <1>0, <2>2, <2>3 DEF CopyInv, RegionOf
  <2>5. UnreadInv'
    BY <1>0, <2>1, <2>2 DEF UnreadInv
  <2>6. GpuInv'
    BY <1>0, <2>2, <2>3 DEF GpuInv, RegionOf
  <2> QED
    BY <2>4, <2>5, <2>6
<1>16. (ImageInv /\ NoStaleImage)'
  <2>1. PendImg' \subseteq PendImg
    BY <1>4
  <2>2. UNCHANGED controlVars /\ UNCHANGED protection
    BY <1>1, <1>6
  <2> USE DEF controlVars, tracker, bufferCache, textureCache, bounds
  <2>3. Phase' = Phase /\ ToDo' = ToDo /\ (Uploading' <=> Uploading) /\ (Firm' <=> Firm)
    BY <2>2 DEF Phase, ToDo, Current, Uploading, Firm
  <2>4. ImageInv'
    BY <1>0, <2>1, <2>2, <2>3 DEF ImageInv, RegionOf
  <2>5. NoStaleImage'
    BY <1>0, <2>2 DEF NoStaleImage
  <2> QED
    BY <2>4, <2>5
<1> QED
  BY <1>9, <1>10, <1>11, <1>12, <1>13, <1>14, <1>15, <1>16 DEF IInv

(* What the watchers of a page say of it. *)
LEMMA WatchersSay ==
  ASSUME TypeInv, CallInv, WatchInv, NEW p \in Pages
  PROVE  /\ Perms(watchers[p]) \in Protections
         /\ Perms(watchers[p]) = "rw" => p \in cpu_dirty \cup UpCopies
         /\ p \in tracked /\ p \notin PendImg => Perms(watchers[p]) # "rw"
         /\ p \in gpu_dirty /\ p \notin PendGpu => Perms(watchers[p]) = "none"
<1>1. /\ watchers[p].write = One(CpuWatched(p)) + One(ImgWatched(p))
      /\ watchers[p].access = One(GpuWatched(p))
  BY DEF WatchInv
<1>2. One(TRUE) = 1 /\ One(FALSE) = 0 /\ \A b : One(b) \in {0, 1}
  BY DEF One
<1>3. Perms(watchers[p]) \in Protections
  BY DEF Perms, Protections
<1>4. ASSUME Perms(watchers[p]) = "rw" PROVE p \in cpu_dirty \cup UpCopies
  <2>1. ~CpuWatched(p)
    BY <1>1, <1>2, <1>4 DEF Perms, One
  <2>2. CASE p \in PendCpu /\ p \notin cpu_dirty
    <3>1. PICK u \in Threads : at[u] \in TrackerLabels /\ ~calls[u].read /\ p \in calls[u].pages
      BY <2>2 DEF PendCpu
    <3>2. Phase = "upload" /\ p \in copies
      BY <2>2, <3>1 DEF CallInv, CallRight
    <3> QED
      BY <3>2 DEF UpCopies, Uploading
  <2> QED
    BY <2>1, <2>2 DEF CpuWatched
<1>5. ASSUME p \in tracked, p \notin PendImg PROVE Perms(watchers[p]) # "rw"
  BY <1>1, <1>2, <1>5 DEF Perms, ImgWatched, One
<1>6. ASSUME p \in gpu_dirty, p \notin PendGpu PROVE Perms(watchers[p]) = "none"
  BY <1>1, <1>2, <1>6 DEF Perms, GpuWatched, One
<1> QED
  BY <1>3, <1>4, <1>5, <1>6

LEMMA FirmSettled ==
  ASSUME GpuControl, CallInv, Firm
  PROVE  PendImg = {}
<1>1. \A u \in Threads : calls[u].pages # {} /\ at[u] \in ImageLabels => u = Gpu
  BY DEF CallInv, CallRight, Firm
<1>2. at[Gpu] \notin ImageLabels
  BY DEF Firm, ImageLabels, GpuControl, GpuLabels
<1> QED
  BY <1>1, <1>2 DEF PendImg

LEMMA ProtectStep ==
  ASSUME IInv, NEW t \in Threads, Protect(t)
  PROVE  IInv'
<1>0. /\ TypeInv /\ GuestControl /\ GpuControl /\ QueueInv /\ LockInv /\ MLockInv
      /\ CallInv /\ WatchInv /\ ProtectInv /\ StrictInv
      /\ CopyInv /\ UnreadInv /\ GpuInv /\ ImageInv /\ NoStaleImage
  BY DEF IInv
<1>1. PICK r \in Regions :
        /\ protects[r].by = t
        /\ protection' = [p \in Pages |-> IF p \in Head(protects[r].list).pages
                                            THEN Head(protects[r].list).perms
                                            ELSE protection[p]]
        /\ protects' = [protects EXCEPT ![r] =
                          [by |-> IF Tail(protects[r].list) = <<>> THEN None ELSE t,
                           list |-> Tail(protects[r].list)]]
        /\ UNCHANGED controlVars /\ UNCHANGED <<watchers, calls, failed>>
  BY DEF Protect, Protecting, controlVars
<1> DEFINE list == protects[r].list
           rest == Tail(list)
<1>2. list \in Seq([pages : SUBSET Pages, perms : Protections]) /\ list # <<>>
  <2>1. protects[r] \in [by : Threads \cup {None},
                         list : Seq([pages : SUBSET Pages, perms : Protections])]
    BY <1>0 DEF TypeInv
  <2>2. protects[r].by # None
    BY <1>1, Constants
  <2>3. protects[r].list # <<>>
    BY <1>0, <2>2 DEF ProtectInv
  <2> QED
    BY <2>1, <2>3
<1>3. /\ rest \in Seq([pages : SUBSET Pages, perms : Protections])
      /\ Len(list) \in Nat \ {0} /\ Len(rest) = Len(list) - 1
      /\ \A i \in 1..Len(rest) : rest[i] = list[i + 1] /\ i + 1 \in 1..Len(list)
      /\ Head(list) = list[1] /\ 1 \in 1..Len(list)
      /\ list[1] \in [pages : SUBSET Pages, perms : Protections]
      /\ rest = <<>> <=> Len(list) = 1
  <2> HIDE DEF list
  <2>1. Len(list) \in Nat \ {0} /\ 1 \in 1..Len(list) /\ Head(list) = list[1]
    BY <1>2
  <2>2. list[1] \in [pages : SUBSET Pages, perms : Protections]
    BY <1>2, <2>1, ElementOfSeq
  <2>3. /\ Tail(list) \in Seq([pages : SUBSET Pages, perms : Protections])
        /\ Len(Tail(list)) = Len(list) - 1
        /\ \A i \in 1..Len(Tail(list)) : Tail(list)[i] = list[i + 1]
    BY <1>2, HeadTailProperties
  <2>4. \A i \in 1..Len(Tail(list)) : i + 1 \in 1..Len(list)
    BY <2>1, <2>3
  <2>5. Tail(list) = <<>> <=> Len(list) = 1
    BY <2>1, <2>3
  <2> QED
    BY <2>1, <2>2, <2>3, <2>4, <2>5
<1>4. \A p \in list[1].pages : p \in In(r) /\ list[1].perms = Perms(watchers[p])
  BY <1>0, <1>3 DEF ProtectInv
<1>5. protection' = [p \in Pages |-> IF p \in list[1].pages THEN Perms(watchers[p])
                                     ELSE protection[p]]
  BY <1>1, <1>3, <1>4
<1>6. protects' = [protects EXCEPT ![r] = [by |-> IF rest = <<>> THEN None ELSE t, list |-> rest]]
  BY <1>1
<1>7. protects'[r].by = (IF rest = <<>> THEN None ELSE t) /\ protects'[r].list = rest
      /\ \A v \in Regions \ {r} : protects'[v] = protects[v]
  BY <1>0, <1>6 DEF TypeInv
<1> HIDE DEF list, rest
<1>8. \A p \in Pages : protection'[p] = protection[p] \/ protection'[p] = Perms(watchers[p])
  BY <1>5
<1>9. /\ UNCHANGED controlVars
      /\ UNCHANGED <<watchers, calls, failed>>
  BY <1>1
<1>10. TypeInv'
  <2>1. protection' \in [Pages -> Protections]
    BY <1>0, <1>5, WatchersSay DEF TypeInv
  <2>2. protects' \in [Regions -> [by : Threads \cup {None},
                               list : Seq([pages : SUBSET Pages, perms : Protections])]]
    BY <1>0, <1>3, <1>6 DEF TypeInv
  <2> QED
    BY <1>0, <1>9, <2>1, <2>2
       DEF TypeInv, controlVars, tracker, bufferCache, textureCache, bounds
<1>11. (GuestControl /\ GpuControl /\ QueueInv /\ LockInv /\ MLockInv)'
  BY <1>0, <1>9 DEF GuestControl, GpuControl, QueueInv, LockInv, MLockInv, Holds, Phase, ToDo,
       Uploading, Serving, Current, controlVars, tracker, textureCache, bounds
<1>12. Phase' = Phase /\ ToDo' = ToDo /\ UpCopies' = UpCopies /\ (Uploading' <=> Uploading)
       /\ (Firm' <=> Firm)
  BY <1>9 DEF Phase, ToDo, Current, UpCopies, Uploading, Firm, controlVars, bufferCache,
       textureCache
<1>13. PendCpu' = PendCpu /\ PendGpu' = PendGpu /\ PendImg' = PendImg
  BY <1>9 DEF PendCpu, PendGpu, PendImg, controlVars
<1>14. CallInv'
  <2> SUFFICES ASSUME NEW u \in Threads, calls'[u].pages # {} PROVE CallRight(u)'
    BY DEF CallInv
  <2> QED
    BY <1>0, <1>9, <1>12 DEF CallInv, CallRight, RegionOf, controlVars, tracker, bufferCache,
         textureCache
<1>15. WatchInv'
  <2> SUFFICES ASSUME NEW p \in Pages
               PROVE  /\ watchers'[p].write = One(CpuWatched(p)') + One(ImgWatched(p)')
                      /\ watchers'[p].access = One(GpuWatched(p)')
    BY DEF WatchInv
  <2>1. /\ CpuWatched(p)' <=> CpuWatched(p)
        /\ GpuWatched(p)' <=> GpuWatched(p)
        /\ ImgWatched(p)' <=> ImgWatched(p)
    BY <1>9, <1>13 DEF CpuWatched, GpuWatched, ImgWatched, controlVars, tracker, textureCache
  <2> QED
    BY <1>0, <1>9, <2>1 DEF WatchInv, One
<1>16. ProtectInv'
  <2> SUFFICES ASSUME NEW v \in Regions
               PROVE  /\ protects'[v].by = None <=> protects'[v].list = <<>>
                      /\ protects'[v].by # None
                           => at'[protects'[v].by] \in TrackerLabels \cup ImageLabels
                      /\ \A i \in 1..Len(protects'[v].list) :
                           \A p \in protects'[v].list[i].pages :
                             p \in In(v) /\ protects'[v].list[i].perms = Perms(watchers'[p])
                      /\ \A p \in In(v) : ~InCalls(p, v)' => protection'[p] = Perms(watchers'[p])
    BY DEF ProtectInv
  <2>1. /\ protects[v].by = None <=> protects[v].list = <<>>
        /\ protects[v].by # None => at[protects[v].by] \in TrackerLabels \cup ImageLabels
        /\ \A i \in 1..Len(protects[v].list) : \A p \in protects[v].list[i].pages :
             p \in In(v) /\ protects[v].list[i].perms = Perms(watchers[p])
        /\ \A p \in In(v) : ~InCalls(p, v) => protection[p] = Perms(watchers[p])
    BY <1>0 DEF ProtectInv
  <2>2. UNCHANGED <<at, watchers>>
    BY <1>9 DEF controlVars
  <2>3. CASE v # r
    <3>1. protects'[v] = protects[v]
      BY <1>7, <2>3
    <3>2. \A p \in In(v) : protection'[p] = protection[p]
      <4> SUFFICES ASSUME NEW p \in In(v) PROVE protection'[p] = protection[p]
        OBVIOUS
      <4>1. p \in Pages /\ p \notin In(r)
        BY <2>3 DEF In
      <4> QED
        BY <1>4, <1>5, <4>1
    <3>3. \A p : InCalls(p, v)' <=> InCalls(p, v)
      BY <3>1 DEF InCalls
    <3> QED
      BY <2>1, <2>2, <3>1, <3>2, <3>3
  <2>4. CASE v = r
    <3>1. protects'[v].by = None <=> protects'[v].list = <<>>
      BY <1>7, <2>4, Constants
    <3>2. protects'[v].by # None => at'[protects'[v].by] \in TrackerLabels \cup ImageLabels
      BY <1>1, <1>7, <2>1, <2>2, <2>4
    <3>3. ASSUME NEW i \in 1..Len(rest), NEW p \in rest[i].pages
          PROVE  p \in In(v) /\ rest[i].perms = Perms(watchers'[p])
      <4>1. rest[i] = list[i + 1] /\ i + 1 \in 1..Len(list)
        BY <1>3
      <4>2. \A j \in 1..Len(list) : \A q \in list[j].pages :
              q \in In(v) /\ list[j].perms = Perms(watchers[q])
        BY <2>1, <2>4 DEF list
      <4> QED
        BY <2>2, <4>1, <4>2
    <3>4. ASSUME NEW p \in In(v), ~InCalls(p, v)' PROVE protection'[p] = Perms(watchers'[p])
      <4>1. \A i \in 1..Len(rest) : p \notin rest[i].pages
        BY <1>7, <2>4, <3>4 DEF InCalls
      <4>2. CASE p \in list[1].pages
        BY <1>5, <2>2, <4>2, RegionFacts
      <4>3. CASE p \notin list[1].pages
        <5>1. \A i \in 1..Len(list) : i = 1 \/ (i - 1 \in 1..Len(rest) /\ (i - 1) + 1 = i)
          BY <1>3
        <5>2. ~InCalls(p, v)
          <6> SUFFICES ASSUME NEW i \in 1..Len(list) PROVE p \notin list[i].pages
            BY <2>4 DEF InCalls, list
          <6>1. CASE i = 1
            BY <4>3, <6>1
          <6>2. CASE i # 1
            <7>1. rest[i - 1] = list[i]
              BY <1>3, <5>1, <6>2
            <7> QED
              BY <4>1, <5>1, <6>2, <7>1
          <6> QED
            BY <6>1, <6>2
        <5> QED
          BY <1>5, <2>1, <2>2, <4>3, <5>2, RegionFacts
      <4> QED
        BY <4>2, <4>3
    <3> QED
      BY <1>7, <2>4, <3>1, <3>2, <3>3, <3>4
  <2> QED
    BY <2>3, <2>4
<1>17. StrictInv'
  <2> SUFFICES ASSUME NEW v \in Regions, protects'[v].by # Gpu, NEW p \in In(v)
               PROVE  Stricter(protection'[p], Perms(watchers'[p]))
    BY DEF StrictInv
  <2>1. p \in Pages /\ watchers'[p] = watchers[p]
    BY <1>9, RegionFacts
  <2>2. CASE protection'[p] = Perms(watchers[p])
    BY <2>1, <2>2 DEF Stricter
  <2>3. CASE protects[v].by # Gpu
    BY <1>0, <1>8, <2>1, <2>2, <2>3 DEF StrictInv
  <2>4. CASE protects[v].by = Gpu
    <3>1. protects'[v].list = <<>>
      BY <1>1, <1>7, <2>4
    <3>2. protection'[p] = Perms(watchers[p])
      BY <1>16, <2>1, <3>1 DEF ProtectInv, InCalls
    <3> QED
      BY <2>2, <3>2
  <2> QED
    BY <2>3, <2>4
<1>18. CopyInv'
  <2>1. \A p \in Pages : protection'[p] = "rw" => p \in cpu_dirty \cup UpCopies
    BY <1>0, <1>8, WatchersSay DEF CopyInv
  <2> QED
    BY <1>0, <1>9, <1>12, <2>1 DEF CopyInv, RegionOf, controlVars, tracker, bufferCache
<1>19. UnreadInv'
  <2>1. \A p \in unread : protection'[p] = "none"
    BY <1>0, <1>8, WatchersSay DEF UnreadInv, TypeInv
  <2> QED
    BY <1>0, <1>9, <1>13, <2>1 DEF UnreadInv, controlVars, tracker, bufferCache
<1>20. GpuInv'
  BY <1>0, <1>9, <1>12 DEF GpuInv, RegionOf, controlVars, tracker, bufferCache
<1>21. ImageInv'
  <2>1. ASSUME Firm, NEW p \in image PROVE protection'[p] # "rw"
    <3>1. p \in Pages /\ p \in tracked /\ p \notin PendImg
      BY <1>0, <2>1, FirmSettled DEF ImageInv, Firm, TypeInv
    <3>2. protection[p] # "rw"
      BY <1>0, <2>1 DEF ImageInv
    <3> QED
      BY <1>0, <1>8, <3>1, <3>2, WatchersSay
  <2>2. ASSUME ~flags.cpu, ~flags.maybe, NEW p \in image \ trimmed
        PROVE  p \in tracked /\ p \notin PendImg /\ protection'[p] # "rw"
    <3>1. p \in Pages /\ p \in tracked /\ p \notin PendImg /\ protection[p] # "rw"
      BY <1>0, <2>2 DEF ImageInv, TypeInv
    <3> QED
      BY <1>0, <1>8, <3>1, WatchersSay
  <2> QED
    BY <1>0, <1>9, <1>12, <1>13, <2>1, <2>2
       DEF ImageInv, RegionOf, controlVars, bufferCache, textureCache, bounds
<1>22. NoStaleImage'
  BY <1>0, <1>9 DEF NoStaleImage, controlVars, textureCache, bounds
<1> QED
  BY <1>10, <1>11, <1>14, <1>15, <1>16, <1>17, <1>18, <1>19, <1>20, <1>21, <1>22 DEF IInv

------------------------------------------------------------------------------
(* The initial states, and what steps have in common *)

LEMMA InitIInv == Init => IInv
<1> SUFFICES ASSUME Init PROVE IInv
  OBVIOUS
<1>0. PICK i \in Instances : image = i.image /\ guests = i.guests /\ ranges = i.ranges
  BY DEF Init
<1>1. i \in [image : SUBSET Pages, guests : SUBSET Guests, ranges : SUBSET ((SUBSET Pages) \ {{}})]
  OBVIOUS
<1>2. image \in SUBSET Pages /\ guests \in SUBSET Guests /\ ranges \in SUBSET ((SUBSET Pages) \ {{}})
  BY <1>0, <1>1
<1>3. /\ calls \in [Threads -> [pages : SUBSET Pages, track : BOOLEAN, read : BOOLEAN]]
      /\ \A t \in Threads : calls[t].pages = {} /\ ~calls[t].read
  BY DEF Init, CallsFor
<1>4. job \in [Threads -> Jobs] /\ \A t \in Threads : job[t] = NoJob
  BY DEF Init, NoJob, Labels, Jobs
<1>5. \A t \in Threads : at[t] = "idle"
  BY DEF Init
<1>6. TypeInv
  <2>1. protects \in [Regions -> [by : Threads \cup {None},
                               list : Seq([pages : SUBSET Pages, perms : Protections])]]
    BY DEF Init
  <2>2. watchers \in [Pages -> [write : Nat, access : Nat]]
    BY DEF Init
  <2>3. flags \in [cpu : BOOLEAN, maybe : BOOLEAN, buffer : BOOLEAN]
    BY DEF Init
  <2>4. /\ cpu_dirty = Pages /\ gpu_dirty = {} /\ gpu_ranges = {} /\ copies = {} /\ tracked = {}
        /\ stale = Pages /\ unread = {} /\ imageStale = image /\ trimmed = {}
        /\ registered = FALSE /\ edgesChanged = FALSE /\ failed = FALSE
        /\ m_lock = None /\ commands = <<>>
    BY DEF Init
  <2>5. /\ tracker_lock \in [Regions -> Threads \cup {None}]
        /\ protection \in [Pages -> Protections]
        /\ at \in [Threads -> Labels]
    BY DEF Init, Protections, Labels
  <2>6. /\ cpu_dirty \in SUBSET Pages /\ gpu_dirty \in SUBSET Pages
        /\ gpu_ranges \in SUBSET Pages /\ copies \in SUBSET Pages
        /\ stale \in SUBSET Pages /\ unread \in SUBSET Pages
        /\ tracked \in SUBSET image /\ imageStale \in SUBSET image /\ trimmed \in SUBSET image
    BY <2>4
  <2>7. /\ registered \in BOOLEAN /\ edgesChanged \in BOOLEAN
        /\ m_lock \in Threads \cup {None} /\ commands \in Seq(Guests)
    BY <2>4, EmptySeq
  <2> QED
    BY <1>2, <1>3, <1>4, <2>1, <2>2, <2>3, <2>4, <2>5, <2>6, <2>7 DEF TypeInv
<1>7. GuestControl
  BY <1>5, Constants DEF GuestControl, GuestLabels
<1>8. Phase = "idle" /\ ~Uploading /\ ~Serving
  BY <1>5, Constants DEF Phase, Uploading, Serving
<1>9. GpuControl
  <2>1. at[Gpu] = "idle" /\ ~job[Gpu].keep
    BY <1>4, <1>5, Constants DEF NoJob
  <2> QED
    BY <1>8, <2>1 DEF GpuControl, GpuLabels, Loops
<1>10. QueueInv
  BY <1>8 DEF QueueInv, Init
<1>11. LockInv /\ MLockInv
  BY <1>5, <1>8, Constants DEF LockInv, Holds, MLockInv, Init
<1>12. CallInv
  BY <1>3 DEF CallInv
<1>13. PendCpu = {} /\ PendGpu = {} /\ PendImg = {}
  BY <1>3 DEF PendCpu, PendGpu, PendImg
<1>14. WatchInv
  <2> SUFFICES ASSUME NEW p \in Pages
               PROVE  /\ watchers[p].write = One(CpuWatched(p)) + One(ImgWatched(p))
                      /\ watchers[p].access = One(GpuWatched(p))
    BY DEF WatchInv
  <2>1. ~CpuWatched(p) /\ ~GpuWatched(p) /\ ~ImgWatched(p)
    BY <1>13 DEF Init, CpuWatched, GpuWatched, ImgWatched
  <2>2. watchers[p].write = 0 /\ watchers[p].access = 0
    BY DEF Init
  <2> QED
    BY <2>1, <2>2 DEF One
<1>15. \A p \in Pages : protection[p] = "rw" /\ Perms(watchers[p]) = "rw"
  BY DEF Init, Perms
<1>16. ProtectInv
  <2>1. \A r \in Regions : protects[r].by = None /\ protects[r].list = <<>>
    BY DEF Init
  <2>2. \A r \in Regions : \A p \in In(r) : protection[p] = Perms(watchers[p])
    BY <1>15, RegionFacts
  <2>3. Len(<<>>) = 0 /\ 1..0 = {}
    OBVIOUS
  <2> QED
    BY <2>1, <2>2, <2>3 DEF ProtectInv
<1>17. StrictInv
  BY <1>15, RegionFacts DEF StrictInv, Stricter
<1>18. CopyInv
  BY <1>4, <1>5, <1>8, Constants DEF CopyInv, Init, UpCopies, NoJob
<1>19. UnreadInv
  BY DEF UnreadInv, Init
<1>20. GpuInv
  BY <1>8 DEF GpuInv, Init, Unmarked
<1>21. ImageInv
  BY <1>8, <1>5, Constants DEF ImageInv, Firm, Init
<1>22. NoStaleImage
  BY DEF NoStaleImage, Init
<1> QED
  BY <1>6, <1>7, <1>9, <1>10, <1>11, <1>12, <1>14, <1>16, <1>17, <1>18, <1>19, <1>20, <1>21,
     <1>22 DEF IInv

(* Threads that are not where one waits for the page manager have nothing  *)
(* for it to do.                                                           *)
Waits == TrackerLabels \cup ImageLabels

LEMMA NotWaiting ==
  ASSUME CallInv, ProtectInv, NEW t \in Threads, at[t] \notin Waits
  PROVE  Ready(t)
BY Constants DEF CallInv, CallRight, ProtectInv, Ready, Protecting, Waits

(* A step of the threads T, which have nothing for the page manager to do; *)
(* one of them, t, gives it call c, about a page's bits of one kind as it  *)
(* changes these, and nobody else is about them.  Every lock another       *)
(* thread holds it keeps.                                                  *)
Keeps(T) ==
  /\ \A u \in Threads \ T : at'[u] = at[u]
  /\ \A u \in Threads \ T, r \in Regions : tracker_lock[r] = u => tracker_lock'[r] = u
  /\ \A u \in Threads \ T : m_lock = u => m_lock' = u
  /\ Gpu \in T \/ (job'[Gpu] = job[Gpu] /\ copies' = copies)
  /\ UNCHANGED pageManager

Starts(t, c) ==
  /\ calls' = [calls EXCEPT ![t] = c]
  /\ c.pages \in SUBSET Pages
  /\ c.pages # {} => CallRight(t)'
  /\ \A p \in Pages : p \in cpu_dirty' <=>
       IF p \in c.pages /\ ~c.read /\ at'[t] \in TrackerLabels THEN p \notin cpu_dirty
                                                         ELSE p \in cpu_dirty
  /\ \A p \in Pages : p \in gpu_dirty' <=>
       IF p \in c.pages /\ c.read THEN p \notin gpu_dirty ELSE p \in gpu_dirty
  /\ \A p \in Pages : p \in tracked' <=>
       IF p \in c.pages /\ at'[t] \in ImageLabels THEN p \notin tracked ELSE p \in tracked
  /\ at'[t] \in TrackerLabels => \A p \in c.pages : tracker_lock[RegionOf(p)] \in {None, t}
  /\ c.pages # {} /\ at'[t] \in ImageLabels => m_lock \in {None, t}

LEMMA CallStarts ==
  ASSUME TypeInv, CallInv, WatchInv, ProtectInv, StrictInv,
         NEW T \in SUBSET Threads, \A u \in T : Ready(u), Keeps(T),
         NEW t \in T, NEW c, Starts(t, c)
  PROVE  /\ CallInv' /\ WatchInv' /\ ProtectInv' /\ StrictInv'
         /\ PendCpu' = PendCpu \cup (IF at'[t] \in TrackerLabels /\ ~c.read THEN c.pages ELSE {})
         /\ PendGpu' = PendGpu \cup (IF c.read THEN c.pages ELSE {})
         /\ PendImg' = PendImg \cup (IF at'[t] \in ImageLabels THEN c.pages ELSE {})
<1>0. /\ calls' = [calls EXCEPT ![t] = c]
      /\ c.pages \in SUBSET Pages
      /\ c.pages # {} => CallRight(t)'
      /\ \A p \in Pages : p \in cpu_dirty' <=>
           IF p \in c.pages /\ ~c.read /\ at'[t] \in TrackerLabels THEN p \notin cpu_dirty
                                                             ELSE p \in cpu_dirty
      /\ \A p \in Pages : p \in gpu_dirty' <=>
           IF p \in c.pages /\ c.read THEN p \notin gpu_dirty ELSE p \in gpu_dirty
      /\ \A p \in Pages : p \in tracked' <=>
           IF p \in c.pages /\ at'[t] \in ImageLabels THEN p \notin tracked ELSE p \in tracked
      /\ at'[t] \in TrackerLabels => \A p \in c.pages : tracker_lock[RegionOf(p)] \in {None, t}
      /\ c.pages # {} /\ at'[t] \in ImageLabels => m_lock \in {None, t}
  BY DEF Starts
<1>1. /\ calls'[t] = c /\ calls[t].pages = {}
      /\ \A u \in Threads \ {t} : calls'[u] = calls[u]
      /\ \A u \in T : calls[u].pages = {} /\ \A r \in Regions : protects[r].by # u
  BY <1>0 DEF TypeInv, Ready, Protecting
<1>2. /\ \A u \in Threads : u # t /\ calls'[u].pages # {} =>
           u \notin T /\ at'[u] = at[u] /\ calls'[u] = calls[u]
      /\ \A u \in Threads : calls[u].pages # {} =>
           u # t /\ u \notin T /\ at'[u] = at[u] /\ calls'[u] = calls[u]
  BY <1>1 DEF Keeps
<1>3. /\ c.pages # {} => at'[t] \in Waits
      /\ c.pages # {} /\ c.read => at'[t] \in TrackerLabels /\ at'[t] \notin ImageLabels
  BY <1>0, <1>1 DEF CallRight, Waits
<1>4. /\ PendCpu' = PendCpu \cup (IF at'[t] \in TrackerLabels /\ ~c.read THEN c.pages ELSE {})
      /\ PendGpu' = PendGpu \cup (IF c.read THEN c.pages ELSE {})
      /\ PendImg' = PendImg \cup (IF at'[t] \in ImageLabels THEN c.pages ELSE {})
  <2>1. PendCpu' = PendCpu \cup (IF at'[t] \in TrackerLabels /\ ~c.read THEN c.pages ELSE {})
    BY <1>0, <1>1, <1>2 DEF PendCpu
  <2>2. PendGpu' = PendGpu \cup (IF c.read THEN c.pages ELSE {})
    BY <1>0, <1>1, <1>2 DEF PendGpu
  <2>3. PendImg' = PendImg \cup (IF at'[t] \in ImageLabels THEN c.pages ELSE {})
    BY <1>0, <1>1, <1>2 DEF PendImg
  <2> QED
    BY <2>1, <2>2, <2>3
<1>5. ASSUME NEW u \in Threads, calls[u].pages # {}, NEW p \in calls[u].pages, p \in c.pages
      PROVE  /\ ~(at[u] \in TrackerLabels /\ at'[t] \in TrackerLabels)
             /\ ~(at[u] \in ImageLabels /\ at'[t] \in ImageLabels)
  <2>1. u # t /\ u # None /\ CallRight(u)
    BY <1>2, <1>5, Constants DEF CallInv
  <2> QED
    BY <1>0, <1>5, <2>1 DEF CallRight
<1>6. CallInv'
  <2> SUFFICES ASSUME NEW u \in Threads, calls'[u].pages # {}, u # t PROVE CallRight(u)'
    BY <1>0, <1>1 DEF CallInv
  <2>1. /\ u \notin T /\ at'[u] = at[u] /\ calls'[u] = calls[u] /\ calls[u].pages # {}
        /\ CallRight(u) /\ calls[u].pages \in SUBSET Pages
    BY <1>2 DEF CallInv, TypeInv
  <2>2. u = Gpu => Phase' = Phase /\ copies' = copies
    BY <2>1 DEF Keeps, Phase
  <2>3. at[u] \in TrackerLabels => \A p \in calls[u].pages : tracker_lock'[RegionOf(p)] = u
    BY <2>1, RegionNat DEF CallRight, Keeps
  <2>4. at[u] \in ImageLabels => m_lock' = u
    BY <2>1 DEF CallRight, Keeps
  <2>5. /\ at[u] \in TrackerLabels => \A p \in calls[u].pages :
             (p \in cpu_dirty' <=> p \in cpu_dirty) /\ (p \in gpu_dirty' <=> p \in gpu_dirty)
        /\ at[u] \in ImageLabels => \A p \in calls[u].pages : p \in tracked' <=> p \in tracked
    BY <1>0, <1>3, <1>5, <2>1
  <2>6. ASSUME at[u] \in TrackerLabels, calls[u].read
        PROVE  /\ u = Gpu
               /\ IF calls[u].track THEN calls[u].pages \subseteq gpu_dirty' /\ Phase' = "mark gpu"
                                    ELSE calls[u].pages \cap gpu_dirty' = {}
    BY <2>1, <2>2, <2>5, <2>6 DEF CallRight
  <2>7. ASSUME at[u] \in TrackerLabels, ~calls[u].read
        PROVE  IF calls[u].track
                 THEN /\ u = Gpu /\ Phase' = "upload"
                      /\ calls[u].pages \subseteq copies' \ cpu_dirty'
                 ELSE calls[u].pages \subseteq cpu_dirty'
    BY <2>1, <2>2, <2>5, <2>7 DEF CallRight
  <2>8. ASSUME at[u] \in ImageLabels
        PROVE  /\ ~calls[u].read
               /\ IF calls[u].track THEN u = Gpu /\ calls[u].pages \subseteq tracked'
                                    ELSE calls[u].pages \cap tracked' = {}
    BY <2>1, <2>5, <2>8 DEF CallRight
  <2>9. at[u] \in TrackerLabels \cup ImageLabels
    BY <2>1 DEF CallRight
  <2> QED
    BY <2>1, <2>3, <2>4, <2>6, <2>7, <2>8, <2>9 DEF CallRight, RegionOf
<1>7. WatchInv'
  <2> SUFFICES ASSUME NEW p \in Pages
               PROVE  /\ watchers'[p].write = One(CpuWatched(p)') + One(ImgWatched(p)')
                      /\ watchers'[p].access = One(GpuWatched(p)')
    BY DEF WatchInv
  <2>1. p \in PendCpu => ~(at'[t] \in TrackerLabels /\ ~c.read /\ p \in c.pages)
    BY <1>5 DEF PendCpu
  <2>2. p \in PendGpu => ~(c.read /\ p \in c.pages)
    <3> SUFFICES ASSUME NEW u \in Threads, calls[u].read, p \in calls[u].pages,
                        c.read, p \in c.pages
                 PROVE  FALSE
      BY DEF PendGpu
    <3>1. at[u] \in TrackerLabels
      BY DEF CallInv, CallRight
    <3> QED
      BY <1>3, <1>5, <3>1
  <2>3. p \in PendImg => ~(at'[t] \in ImageLabels /\ p \in c.pages)
    BY <1>5 DEF PendImg
  <2>4. CpuWatched(p)' <=> CpuWatched(p)
    BY <1>0, <1>4, <2>1 DEF CpuWatched
  <2>5. GpuWatched(p)' <=> GpuWatched(p)
    BY <1>0, <1>4, <2>2 DEF GpuWatched
  <2>6. ImgWatched(p)' <=> ImgWatched(p)
    BY <1>0, <1>4, <2>3 DEF ImgWatched
  <2>7. watchers' = watchers
    BY DEF Keeps, pageManager
  <2> QED
    BY <2>4, <2>5, <2>6, <2>7 DEF WatchInv, One
<1>8. ProtectInv'
  <2>1. UNCHANGED <<watchers, protects, protection>>
    BY DEF Keeps, pageManager
  <2>2. \A r \in Regions : protects[r].by # None => at'[protects[r].by] \in TrackerLabels \cup ImageLabels
    <3> SUFFICES ASSUME NEW r \in Regions, protects[r].by # None
                 PROVE  at'[protects[r].by] \in TrackerLabels \cup ImageLabels
      OBVIOUS
    <3>1. protects[r].by \in Threads \ T
      BY <1>1 DEF TypeInv
    <3> QED
      BY <3>1 DEF Keeps, ProtectInv
  <2> QED
    BY <2>1, <2>2 DEF ProtectInv, InCalls
<1>9. StrictInv'
  BY DEF StrictInv, Keeps, pageManager
<1> QED
  BY <1>4, <1>6, <1>7, <1>8, <1>9

(* ... and none of them gives it one. *)
LEMMA NoCallStarts ==
  ASSUME TypeInv, CallInv, WatchInv, ProtectInv, StrictInv,
         NEW T \in SUBSET Threads, T # {}, \A u \in T : Ready(u), Keeps(T),
         UNCHANGED <<calls, cpu_dirty, gpu_dirty, tracked>>
  PROVE  /\ CallInv' /\ WatchInv' /\ ProtectInv' /\ StrictInv'
         /\ PendCpu' = PendCpu /\ PendGpu' = PendGpu /\ PendImg' = PendImg
<1>1. PICK t \in T : TRUE
  OBVIOUS
<1> DEFINE c == calls[t]
<1>2. c.pages = {}
  BY <1>1 DEF Ready
<1>3. calls' = [calls EXCEPT ![t] = c]
  BY DEF TypeInv
<1> HIDE DEF c
<1>4. Starts(t, c)
  BY <1>2, <1>3 DEF Starts
<1>7. /\ CallInv' /\ WatchInv' /\ ProtectInv' /\ StrictInv'
      /\ PendCpu' = PendCpu \cup (IF at'[t] \in TrackerLabels /\ ~c.read THEN c.pages ELSE {})
      /\ PendGpu' = PendGpu \cup (IF c.read THEN c.pages ELSE {})
      /\ PendImg' = PendImg \cup (IF at'[t] \in ImageLabels THEN c.pages ELSE {})
  BY <1>1, <1>4, CallStarts
<1> QED
  BY <1>2, <1>7

------------------------------------------------------------------------------
(* The guest *)

(* A guest's step leaves the GPU thread where it is. *)
LEMMA GuestMoves ==
  ASSUME NEW t \in Guests, GpuControl, GpuInv,
         \A u \in Threads \ {t} : at'[u] = at[u] /\ job'[u] = job[u],
         UNCHANGED <<gpu_dirty, gpu_ranges, unread, copies, image>>
  PROVE  /\ at'[Gpu] = at[Gpu] /\ job'[Gpu] = job[Gpu]
         /\ Phase' = Phase /\ ToDo' = ToDo /\ UpCopies' = UpCopies
         /\ (Uploading' <=> Uploading) /\ (Serving' <=> Serving)
         /\ GpuControl' /\ GpuInv'
         /\ \A u \in Threads \ {t} : \A r : Holds(u, r)' <=> Holds(u, r)
<1>1. /\ at'[Gpu] = at[Gpu] /\ job'[Gpu] = job[Gpu]
      /\ \A u \in Threads \ {t} : at'[u] = at[u] /\ job'[u] = job[u]
  BY Constants
<1>2. /\ Phase' = Phase /\ ToDo' = ToDo /\ (Uploading' <=> Uploading) /\ (Serving' <=> Serving)
      /\ UpCopies' = UpCopies
  BY <1>1 DEF Phase, ToDo, Current, Uploading, Serving, UpCopies
<1>3. GpuControl'
  BY <1>1, <1>2 DEF GpuControl
<1>4. GpuInv'
  BY <1>1, <1>2 DEF GpuInv, RegionOf
<1>5. ASSUME NEW u \in Threads \ {t}, NEW r PROVE Holds(u, r)' <=> Holds(u, r)
  BY <1>1, <1>2, <1>5 DEF Holds, Current, RegionsOf, Regions, In, RegionOf
<1> QED
  BY <1>1, <1>2, <1>3, <1>4, <1>5

(* Who comes to the queue, or is not in it, leaves it in order. *)
LEMMA QueueKept ==
  ASSUME TypeInv, QueueInv, NEW t \in Guests, at[t] \notin {"flush", "read"},
         \A u \in Threads \ {t} : at'[u] = at[u], Serving' <=> Serving,
         \/ commands' = commands
         \/ commands' = Append(commands, t) /\ at'[t] \in {"flush", "read"}
  PROVE  QueueInv' /\ commands' \in Seq(Guests)
<1>1. commands \in Seq(Guests)
  BY DEF TypeInv
<1>2. \A i \in 1..Len(commands) : commands[i] \in Guests /\ commands[i] # t
  BY <1>1, ElementOfSeq DEF QueueInv
<1>3. \A i \in 1..Len(commands) : at'[commands[i]] \in {"flush", "read"}
  BY <1>2, Constants DEF QueueInv
<1>4. CASE commands' = commands
  BY <1>1, <1>3, <1>4 DEF QueueInv
<1>5. CASE commands' = Append(commands, t) /\ at'[t] \in {"flush", "read"}
  <2>1. /\ commands' \in Seq(Guests) /\ Len(commands') = Len(commands) + 1
        /\ \A i \in 1..Len(commands) : commands'[i] = commands[i]
        /\ commands'[Len(commands) + 1] = t
    BY <1>1, <1>5, AppendProperties
  <2>2. Len(commands) \in Nat
    BY <1>1, LenProperties
  <2>3. \A i \in 1..Len(commands') : i \in 1..Len(commands) \/ i = Len(commands) + 1
    BY <2>1, <2>2
  <2>4. \A i \in 1..Len(commands') : at'[commands'[i]] \in {"flush", "read"}
    BY <1>3, <1>5, <2>1, <2>3
  <2>5. ASSUME NEW i \in 1..Len(commands'), NEW j \in 1..Len(commands'), commands'[i] = commands'[j]
        PROVE  i = j
    BY <1>2, <2>1, <2>3, <2>5 DEF QueueInv
  <2>6. commands' # <<>>
    BY <2>1, <2>2
  <2> QED
    BY <2>1, <2>4, <2>5, <2>6 DEF QueueInv
<1> QED
  BY <1>4, <1>5

(* The starts, ends and waits of a guest: it moves, may come to the queue, *)
(* and may give up the locks it has.                                       *)
LEMMA GuestGoesOn ==
  ASSUME IInv, NEW t \in Guests, Ready(t), at[t] \notin {"flush", "read"},
         NEW l \in GuestLabels \ {"end region", "end image"}, NEW j \in Jobs,
         at' = [at EXCEPT ![t] = l], job' = [job EXCEPT ![t] = j],
         l \in {"invalidate", "flush"} =>
           j.left # {} /\ ~j.keep /\ j.loop = "invalidate" /\ j.next = "invalidate image",
         l \in {"read", "invalidate", "flush"} => j.pages # {},
         \/ commands' = commands
         \/ commands' = Append(commands, t) /\ l \in {"flush", "read"},
         tracker_lock' \in [Regions -> Threads \cup {None}],
         \A r \in Regions : tracker_lock[r] # t => tracker_lock'[r] = tracker_lock[r],
         m_lock' = m_lock \/ (m_lock = t /\ m_lock' = None),
         UNCHANGED <<cpu_dirty, gpu_dirty, pageManager, calls, bufferCache, bounds, image, tracked,
                     flags, imageStale, edgesChanged, trimmed, failed>>
  PROVE  IInv'
<1>0. /\ TypeInv /\ GuestControl /\ GpuControl /\ QueueInv /\ LockInv /\ MLockInv
      /\ CallInv /\ WatchInv /\ ProtectInv /\ StrictInv
      /\ CopyInv /\ UnreadInv /\ GpuInv /\ ImageInv /\ NoStaleImage
  BY DEF IInv
<1>1. /\ t \in Threads /\ t # Gpu /\ t # None /\ Gpu \in Threads /\ Guests \subseteq Threads
      /\ Gpu # None
  BY Constants
<1>2. /\ at'[t] = l /\ job'[t] = j
      /\ \A u \in Threads \ {t} : at'[u] = at[u] /\ job'[u] = job[u]
      /\ UNCHANGED <<watchers, protection, protects, registered, gpu_ranges, copies, stale, unread>>
      /\ guests' = guests /\ ranges' = ranges
  <2>1. at \in [Threads -> Labels] /\ job \in [Threads -> Jobs]
    BY <1>0 DEF TypeInv
  <2>2. /\ at'[t] = l /\ job'[t] = j
        /\ \A u \in Threads \ {t} : at'[u] = at[u] /\ job'[u] = job[u]
    BY <1>1, <2>1
  <2>3. /\ UNCHANGED <<watchers, protection, protects, registered, gpu_ranges, copies, stale, unread>>
        /\ guests' = guests /\ ranges' = ranges
    BY DEF pageManager, bufferCache, bounds
  <2> QED
    BY <2>2, <2>3
<1>3. /\ at'[Gpu] = at[Gpu] /\ job'[Gpu] = job[Gpu]
      /\ Phase' = Phase /\ ToDo' = ToDo /\ UpCopies' = UpCopies
      /\ (Uploading' <=> Uploading) /\ (Serving' <=> Serving)
      /\ GpuControl' /\ GpuInv'
      /\ \A u \in Threads \ {t} : \A r : Holds(u, r)' <=> Holds(u, r)
  BY <1>0, <1>2, GuestMoves
<1>4. /\ CallInv' /\ WatchInv' /\ ProtectInv' /\ StrictInv'
      /\ PendCpu' = PendCpu /\ PendGpu' = PendGpu /\ PendImg' = PendImg
  <2>1. Keeps({t})
    BY <1>1, <1>2, <1>3 DEF Keeps, TypeInv
  <2> QED
    BY <1>0, <1>1, <2>1, NoCallStarts
<1>5. QueueInv' /\ commands' \in Seq(Guests)
  BY <1>0, <1>2, <1>3, QueueKept
<1>6. TypeInv'
  <2>1. at' \in [Threads -> Labels] /\ job' \in [Threads -> Jobs]
    BY <1>0, <1>1 DEF TypeInv, Labels, GuestLabels
  <2>2. m_lock' \in Threads \cup {None}
    BY <1>0 DEF TypeInv
  <2> QED
    BY <1>0, <1>2, <1>5, <2>1, <2>2 DEF TypeInv
<1>7. GuestControl'
  <2> SUFFICES ASSUME NEW u \in Guests
               PROVE  /\ at'[u] \in GuestLabels
                      /\ at'[u] \in {"invalidate", "flush", "end region"} =>
                           /\ job'[u].left # {} /\ ~job'[u].keep
                           /\ job'[u].loop = "invalidate" /\ job'[u].next = "invalidate image"
                      /\ at'[u] \in {"read", "invalidate", "flush", "end region"}
                           => job'[u].pages # {}
    BY DEF GuestControl
  <2>1. CASE u = t
    BY <1>2, <2>1
  <2>2. CASE u # t
    BY <1>0, <1>1, <1>2, <2>2 DEF GuestControl
  <2> QED
    BY <2>1, <2>2
<1>8. LockInv'
  <2> SUFFICES ASSUME NEW u \in Threads, NEW r \in Regions, Holds(u, r)'
               PROVE  tracker_lock'[r] = u
    BY DEF LockInv
  <2>1. u # t
    BY <1>1, <1>2 DEF Holds
  <2> QED
    BY <1>0, <1>3, <2>1 DEF LockInv
<1>9. MLockInv'
  <2>1. \A u \in Guests : at'[u] = "end image" => m_lock' = u
    BY <1>0, <1>1, <1>2 DEF MLockInv
  <2>2. m_lock' = Gpu <=> m_lock = Gpu
    BY <1>1
  <2>3. UNCHANGED image
    OBVIOUS
  <2> QED
    BY <1>0, <1>3, <2>1, <2>2, <2>3 DEF MLockInv
<1>10. CopyInv'
  BY <1>0, <1>2, <1>3 DEF CopyInv, RegionOf
<1>11. UnreadInv'
  BY <1>0, <1>2, <1>4 DEF UnreadInv
<1>12. ImageInv'
  BY <1>0, <1>1, <1>2, <1>3, <1>4 DEF ImageInv, Firm, RegionOf
<1>13. NoStaleImage'
  BY <1>0 DEF NoStaleImage
<1> QED
  BY <1>3, <1>4, <1>5, <1>6, <1>7, <1>8, <1>9, <1>10, <1>11, <1>12, <1>13 DEF IInv

LEMMA NoJobIsJob == NoJob \in Jobs
BY DEF NoJob, Jobs, Labels

LEMMA GuestWalks ==
  ASSUME IInv, NEW t \in Guests, at[t] = "idle", NEW S \in SUBSET Pages, S # {},
         NEW j \in Jobs, at' = [at EXCEPT ![t] = "invalidate"], job' = [job EXCEPT ![t] = j],
         j.pages = S, j.left = RegionsOf(S), ~j.keep,
         j.loop = "invalidate", j.next = "invalidate image",
         UNCHANGED <<tracker, pageManager, calls, commands, bufferCache, textureCache, failed>>
  PROVE  IInv'
<1>1. TypeInv /\ CallInv /\ ProtectInv
  BY DEF IInv
<1>2. t \in Threads /\ Ready(t)
  BY <1>1, NotWaiting, Constants DEF Waits, TrackerLabels, ImageLabels
<1>3. j.left # {}
  <2>1. PICK p \in S : TRUE
    OBVIOUS
  <2>2. RegionOf(p) \in RegionsOf(S)
    BY <2>1, RegionFacts
  <2> QED
    BY <2>2
<1> DEFINE l == "invalidate"
<1>4. l \in GuestLabels \ {"end region", "end image"} /\ at' = [at EXCEPT ![t] = l]
  BY DEF GuestLabels
<1>5. /\ tracker_lock' \in [Regions -> Threads \cup {None}]
      /\ UNCHANGED <<tracker_lock, m_lock, cpu_dirty, gpu_dirty, pageManager, calls, bufferCache,
                     bounds, image, tracked, flags, imageStale, edgesChanged, trimmed, failed,
                     commands>>
  BY <1>1 DEF TypeInv, tracker, textureCache
<1> HIDE DEF l
<1> QED
  BY <1>2, <1>3, <1>4, <1>5, GuestGoesOn

LEMMA GuestWriteStep ==
  ASSUME IInv, NEW t \in Guests, GuestWrite(t)
  PROVE  IInv'
<1>0. /\ TypeInv /\ GuestControl /\ GpuControl /\ QueueInv /\ LockInv /\ MLockInv
      /\ CallInv /\ WatchInv /\ ProtectInv /\ StrictInv
      /\ CopyInv /\ UnreadInv /\ GpuInv /\ ImageInv /\ NoStaleImage
  BY DEF IInv
<1>1. PICK p \in Pages, own \in BOOLEAN :
        /\ at[t] = "idle"
        /\ own => MayBeOwn(p)
        /\ IF protection[p] = "rw"
             THEN /\ stale' = stale \cup {p}
                  /\ imageStale' = IF own THEN imageStale \cup {p} ELSE imageStale
                  /\ edgesChanged' = (edgesChanged \/ (own /\ flags.maybe))
                  /\ UNCHANGED <<at, job>>
             ELSE /\ Walk(t, {p}, own, "invalidate", "invalidate image")
                  /\ UNCHANGED <<stale, imageStale, edgesChanged>>
        /\ UNCHANGED <<tracker, pageManager, calls, commands, registered, gpu_ranges, copies,
                       unread, bounds, image, tracked, flags, m_lock, trimmed, failed>>
  BY DEF GuestWrite
<1>2. CASE protection[p] # "rw"
  <2>1. /\ {p} \in SUBSET Pages /\ {p} # {}
        /\ Walk(t, {p}, own, "invalidate", "invalidate image")
    BY <1>1, <1>2
  <2>2. UNCHANGED <<tracker, pageManager, calls, commands, bufferCache, textureCache, failed>>
    BY <1>1, <1>2 DEF bufferCache, textureCache
  <2> DEFINE S == {p}
             j == [pages |-> S, left |-> RegionsOf(S), write |-> own, keep |-> FALSE,
                   loop |-> "invalidate", next |-> "invalidate image"]
  <2>3. /\ S \in SUBSET Pages /\ S # {} /\ at[t] = "idle"
        /\ at' = [at EXCEPT ![t] = "invalidate"] /\ job' = [job EXCEPT ![t] = j]
    BY <1>1, <2>1 DEF Walk, Goto
  <2>4. RegionsOf(S) \subseteq Regions /\ own \in BOOLEAN
    BY <1>1 DEF RegionsOf
  <2>5. /\ j \in Jobs /\ j.pages = S /\ j.left = RegionsOf(S) /\ ~j.keep
        /\ j.loop = "invalidate" /\ j.next = "invalidate image"
    BY <2>3, <2>4 DEF Jobs, Labels
  <2> HIDE DEF S, j
  <2> QED
    BY <2>2, <2>3, <2>5, GuestWalks
<1>3. CASE protection[p] = "rw"
  <2>1. /\ stale' = stale \cup {p} /\ (own => p \in image)
        /\ imageStale' = (IF own THEN imageStale \cup {p} ELSE imageStale)
        /\ edgesChanged' = (edgesChanged \/ (own /\ flags.maybe))
        /\ UNCHANGED <<cpu_dirty, gpu_dirty, tracker_lock, watchers, protection, protects, calls, at,
                       job, commands, registered, gpu_ranges, copies, unread, image, tracked, flags,
                       m_lock, trimmed, failed, guests, ranges>>
    BY <1>1, <1>3 DEF tracker, pageManager, bounds, MayBeOwn
  <2>2. t \in Threads /\ Ready(t)
    BY <1>0, <1>1, NotWaiting, Constants DEF Waits, TrackerLabels, ImageLabels
  <2>3. /\ Phase' = Phase /\ ToDo' = ToDo /\ UpCopies' = UpCopies
        /\ (Uploading' <=> Uploading) /\ (Serving' <=> Serving) /\ GpuControl' /\ GpuInv'
        /\ \A u \in Threads \ {t} : \A r : Holds(u, r)' <=> Holds(u, r)
    BY <1>0, <2>1, GuestMoves
  <2>4. /\ CallInv' /\ WatchInv' /\ ProtectInv' /\ StrictInv'
        /\ PendCpu' = PendCpu /\ PendGpu' = PendGpu /\ PendImg' = PendImg
    <3>1. Keeps({t})
      BY <2>1 DEF Keeps, pageManager
    <3> QED
      BY <1>0, <2>1, <2>2, <3>1, NoCallStarts
  <2>5. TypeInv'
    BY <1>0, <2>1 DEF TypeInv
  <2>6. (GuestControl /\ QueueInv /\ MLockInv)'
    BY <1>0, <2>1, <2>3 DEF GuestControl, QueueInv, MLockInv
  <2>7. LockInv'
    <3>1. t # Gpu /\ at'[t] # "end region"
      BY <1>1, <2>1, Constants
    <3>2. ~ \E r : Holds(t, r)'
      BY <3>1 DEF Holds
    <3> QED
      BY <1>0, <2>1, <2>3, <3>2 DEF LockInv
  <2>8. CopyInv'
    BY <1>0, <1>3, <2>1, <2>3 DEF CopyInv, RegionOf
  <2>9. UnreadInv'
    BY <1>0, <2>1, <2>4 DEF UnreadInv
  <2>10. ImageInv'
    <3>1. Firm' <=> Firm
      BY <2>1 DEF Firm
    <3>2. Firm => p \notin image
      BY <1>0, <1>3 DEF ImageInv
    <3>3. /\ m_lock = Gpu /\ Uploading => Firm
          /\ at[Gpu] = "image copy" => Firm
      BY <1>0 DEF Firm, MLockInv, Uploading, Phase
    <3> QED
      BY <1>0, <2>1, <2>3, <2>4, <3>1, <3>2, <3>3 DEF ImageInv, RegionOf
  <2>11. NoStaleImage'
    <3>1. own /\ ~flags.cpu /\ ~flags.maybe => p \in trimmed
      BY <1>0, <1>3, <2>1 DEF ImageInv
    <3>2. CASE flags.maybe /\ own
      BY <2>1, <3>2 DEF NoStaleImage
    <3>3. CASE flags.cpu
      BY <2>1, <3>3 DEF NoStaleImage
    <3>4. CASE imageStale' \ trimmed' \subseteq imageStale \ trimmed
      BY <1>0, <2>1, <3>4 DEF NoStaleImage
    <3> QED
      BY <2>1, <3>1, <3>2, <3>3, <3>4
  <2> QED
    BY <2>3, <2>4, <2>5, <2>6, <2>7, <2>8, <2>9, <2>10, <2>11 DEF IInv
<1> QED
  BY <1>2, <1>3

LEMMA KernelInvalidateStep ==
  ASSUME IInv, NEW t \in Guests, KernelInvalidate(t)
  PROVE  IInv'
<1>1. PICK S \in ranges :
        /\ at[t] = "idle" /\ Walk(t, S, TRUE, "invalidate", "invalidate image")
        /\ UNCHANGED <<tracker, pageManager, calls, commands, bufferCache, textureCache, failed>>
  BY DEF KernelInvalidate
<1>2. ranges \in SUBSET ((SUBSET Pages) \ {{}})
  BY DEF IInv, TypeInv
<1> DEFINE j == [pages |-> S, left |-> RegionsOf(S), write |-> TRUE, keep |-> FALSE,
                 loop |-> "invalidate", next |-> "invalidate image"]
<1>3. /\ S \in SUBSET Pages /\ S # {} /\ at[t] = "idle"
      /\ at' = [at EXCEPT ![t] = "invalidate"] /\ job' = [job EXCEPT ![t] = j]
  BY <1>1, <1>2 DEF Walk, Goto
<1>4. RegionsOf(S) \subseteq Regions
  BY DEF RegionsOf
<1>5. /\ j \in Jobs /\ j.pages = S /\ j.left = RegionsOf(S) /\ ~j.keep
      /\ j.loop = "invalidate" /\ j.next = "invalidate image"
  BY <1>3, <1>4 DEF Jobs, Labels
<1> HIDE DEF j
<1> QED
  BY <1>1, <1>3, <1>5, GuestWalks

LEMMA GuestReadStep ==
  ASSUME IInv, NEW t \in Guests, GuestRead(t)
  PROVE  IInv'
<1>1. PICK p \in Pages :
        /\ at[t] = "idle" /\ Goto(t, "read")
        /\ job' = [job EXCEPT ![t] = [NoJob EXCEPT !.pages = {p}]]
        /\ commands' = Append(commands, t)
        /\ UNCHANGED <<tracker, pageManager, calls, bufferCache, textureCache, failed>>
  BY DEF GuestRead
<1> DEFINE j == [NoJob EXCEPT !.pages = {p}]
           l == "read"
<1>2. TypeInv /\ CallInv /\ ProtectInv
  BY DEF IInv
<1>3. t \in Threads /\ Ready(t)
  BY <1>1, <1>2, NotWaiting, Constants DEF Waits, TrackerLabels, ImageLabels
<1>4. j \in Jobs /\ job' = [job EXCEPT ![t] = j] /\ j.pages # {}
  BY <1>1 DEF NoJob, Jobs, Labels
<1>5. l \in GuestLabels \ {"end region", "end image"} /\ at' = [at EXCEPT ![t] = l]
      /\ l \in {"flush", "read"} /\ l \notin {"invalidate", "flush"}
  BY <1>1 DEF GuestLabels, Goto
<1>6. /\ tracker_lock' \in [Regions -> Threads \cup {None}]
      /\ UNCHANGED <<tracker_lock, m_lock, cpu_dirty, gpu_dirty, pageManager, calls, bufferCache,
                     bounds, image, tracked, flags, imageStale, edgesChanged, trimmed, failed>>
  BY <1>1, <1>2 DEF TypeInv, tracker, textureCache
<1>7. at[t] \notin {"flush", "read"} /\ commands' = Append(commands, t)
  BY <1>1
<1> HIDE DEF j, l
<1> QED
  BY <1>3, <1>4, <1>5, <1>6, <1>7, GuestGoesOn

LEMMA EndImageStep ==
  ASSUME IInv, NEW t \in Guests, EndImage(t)
  PROVE  IInv'
<1> DEFINE l == "idle"
<1>1. /\ at[t] = "end image" /\ Ready(t) /\ m_lock' = None
      /\ at' = [at EXCEPT ![t] = l] /\ job' = [job EXCEPT ![t] = NoJob]
      /\ UNCHANGED <<tracker_lock, cpu_dirty, gpu_dirty, pageManager, calls, bufferCache,
                     bounds, image, tracked, flags, imageStale, edgesChanged, trimmed, failed,
                     commands>>
  BY DEF EndImage, Goto, tracker
<1>2. tracker_lock' \in [Regions -> Threads \cup {None}] /\ m_lock = t
  BY <1>1 DEF IInv, TypeInv, MLockInv
<1>3. l \in GuestLabels \ {"end region", "end image"} /\ l \notin {"read", "invalidate", "flush"}
      /\ at[t] \notin {"flush", "read"}
  BY <1>1 DEF GuestLabels
<1> HIDE DEF l
<1> QED
  BY <1>1, <1>2, <1>3, NoJobIsJob, GuestGoesOn

LEMMA GuestEndRegionStep ==
  ASSUME IInv, NEW t \in Guests, EndRegion(t)
  PROVE  IInv'
<1> DEFINE left == job[t].left \ {Current(t)}
           l == IF left = {} THEN "invalidate image" ELSE "invalidate"
           j == [job[t] EXCEPT !.left = left]
<1>1. TypeInv /\ GuestControl /\ LockInv /\ t \in Threads
  BY Constants DEF IInv
<1>2. /\ at[t] = "end region" /\ Ready(t) /\ Advance(t)
      /\ tracker_lock' = IF job[t].keep THEN tracker_lock
                         ELSE [tracker_lock EXCEPT ![Current(t)] = None]
      /\ UNCHANGED <<cpu_dirty, gpu_dirty, pageManager, calls, commands, bufferCache,
                     textureCache, failed>>
  BY DEF EndRegion
<1>3. /\ job[t].left # {} /\ ~job[t].keep /\ job[t] \in Jobs /\ job[t].pages # {}
      /\ job[t].loop = "invalidate" /\ job[t].next = "invalidate image"
  BY <1>1, <1>2 DEF GuestControl, TypeInv
<1>4. tracker_lock[Current(t)] = t /\ Current(t) \in Regions
  BY <1>1, <1>2, <1>3, CurrentFacts DEF LockInv, Holds
<1>5. /\ tracker_lock' \in [Regions -> Threads \cup {None}]
      /\ \A r \in Regions : tracker_lock[r] # t => tracker_lock'[r] = tracker_lock[r]
  BY <1>1, <1>2, <1>3, <1>4 DEF TypeInv
<1>6. at' = [at EXCEPT ![t] = l] /\ job' = [job EXCEPT ![t] = j]
  BY <1>1, <1>2, <1>3 DEF Advance, Goto, TypeInv
<1>7. /\ j \in Jobs /\ j.left = left /\ ~j.keep /\ j.pages # {}
      /\ j.loop = "invalidate" /\ j.next = "invalidate image"
  BY <1>3 DEF Jobs
<1>8. /\ l \in GuestLabels \ {"end region", "end image"} /\ (l \in {"invalidate", "flush"} => left # {})
      /\ at[t] \notin {"flush", "read"}
  BY <1>2 DEF GuestLabels
<1>9. UNCHANGED <<m_lock, commands, cpu_dirty, gpu_dirty, pageManager, calls, bufferCache, bounds,
                  image, tracked, flags, imageStale, edgesChanged, trimmed, failed>>
  BY <1>2 DEF textureCache
<1> HIDE DEF l, j, left
<1> QED
  BY <1>2, <1>5, <1>6, <1>7, <1>8, <1>9, GuestGoesOn

(* A guest's turn on a region: off to the queue, or the pages become CPU   *)
(* dirty, none of which is GPU dirty or in the hands of an upload.         *)
LEMMA GuestQueues ==
  ASSUME IInv, NEW t \in Guests, InvalidateRegion(t), Here(t) \cap gpu_dirty # {}
  PROVE  IInv'
<1>1. /\ at[t] = "invalidate" /\ at' = [at EXCEPT ![t] = "flush"]
      /\ commands' = Append(commands, t)
      /\ UNCHANGED <<tracker_lock, cpu_dirty, gpu_dirty, pageManager, job, calls, bufferCache,
                     textureCache, failed>>
  BY DEF InvalidateRegion, Goto
<1>2. TypeInv /\ GuestControl /\ CallInv /\ ProtectInv
  BY DEF IInv
<1>3. t \in Threads /\ Ready(t)
  BY <1>1, <1>2, NotWaiting, Constants DEF Waits, TrackerLabels, ImageLabels
<1> DEFINE j == job[t]
           l == "flush"
<1>4. /\ j \in Jobs /\ job' = [job EXCEPT ![t] = j]
      /\ j.left # {} /\ ~j.keep /\ j.loop = "invalidate" /\ j.next = "invalidate image"
      /\ j.pages # {}
  BY <1>1, <1>2, <1>3 DEF TypeInv, GuestControl
<1>5. l \in GuestLabels \ {"end region", "end image"} /\ at' = [at EXCEPT ![t] = l]
      /\ l \in {"flush", "read"} /\ at[t] \notin {"flush", "read"}
      /\ commands' = Append(commands, t)
  BY <1>1 DEF GuestLabels
<1>6. /\ tracker_lock' \in [Regions -> Threads \cup {None}]
      /\ UNCHANGED <<tracker_lock, m_lock, cpu_dirty, gpu_dirty, pageManager, calls, bufferCache,
                     bounds, image, tracked, flags, imageStale, edgesChanged, trimmed, failed>>
  BY <1>1, <1>2 DEF TypeInv, textureCache
<1> HIDE DEF j, l
<1> QED
  BY <1>3, <1>4, <1>5, <1>6, GuestGoesOn

LEMMA GuestDirties ==
  ASSUME IInv, NEW t \in Guests, InvalidateRegion(t), Here(t) \cap gpu_dirty = {}
  PROVE  IInv'
<1>0. /\ TypeInv /\ GuestControl /\ GpuControl /\ QueueInv /\ LockInv /\ MLockInv
      /\ CallInv /\ WatchInv /\ ProtectInv /\ StrictInv
      /\ CopyInv /\ UnreadInv /\ GpuInv /\ ImageInv /\ NoStaleImage
  BY DEF IInv
<1> DEFINE S == Here(t)
           r == Current(t)
           c == CallsFor(S \ cpu_dirty, FALSE, FALSE)
<1>1. /\ at[t] = "invalidate" /\ at' = [at EXCEPT ![t] = "end region"]
      /\ tracker_lock[r] = None /\ tracker_lock' = [tracker_lock EXCEPT ![r] = t]
      /\ cpu_dirty' = cpu_dirty \cup S
      /\ calls' = [calls EXCEPT ![t] = c]
      /\ UNCHANGED <<failed, commands, gpu_dirty, pageManager, job, bufferCache, textureCache>>
  BY DEF InvalidateRegion, Goto, Lock, SetCpuDirty
<1>2. /\ t \in Threads /\ t # Gpu /\ t # None /\ Gpu \in Threads /\ Guests \subseteq Threads
      /\ Gpu # None
  BY Constants
<1>3. /\ job[t].left # {} /\ ~job[t].keep
      /\ job[t].loop = "invalidate" /\ job[t].next = "invalidate image"
      /\ job[t].pages # {}
  BY <1>0, <1>1 DEF GuestControl
<1>4. r \in Regions
  BY <1>0, <1>2, <1>3, CurrentFacts
<1>5. S \subseteq Pages /\ \A p \in S : RegionOf(p) = r
  BY <1>0, <1>2 DEF Here, In
<1>6. /\ c.pages = S \ cpu_dirty /\ ~c.track /\ ~c.read
  BY DEF CallsFor
<1>7. Current(t)' = Current(t)
  BY <1>1 DEF Current
<1> HIDE DEF S, r, c
<1>8. /\ at'[t] = "end region"
      /\ \A u \in Threads \ {t} : at'[u] = at[u]
      /\ UNCHANGED <<watchers, protection, protects, registered, gpu_ranges, copies, stale, unread,
                     guests, ranges, image, tracked, flags, m_lock, imageStale, edgesChanged,
                     trimmed, gpu_dirty, job, commands, failed>>
  <2>1. at \in [Threads -> Labels]
    BY <1>0 DEF TypeInv
  <2>2. at'[t] = "end region" /\ \A u \in Threads \ {t} : at'[u] = at[u]
    BY <1>1, <1>2, <2>1
  <2> QED
    BY <1>1, <2>2 DEF pageManager, bufferCache, textureCache, bounds
<1>9. /\ Phase' = Phase /\ ToDo' = ToDo /\ UpCopies' = UpCopies /\ at'[Gpu] = at[Gpu]
      /\ (Uploading' <=> Uploading) /\ (Serving' <=> Serving)
      /\ GpuControl' /\ GpuInv'
      /\ \A u \in Threads \ {t} : \A x : Holds(u, x)' <=> Holds(u, x)
  BY <1>0, <1>8, GuestMoves
<1>10. tracker_lock'[r] = t /\ \A x \in Regions \ {r} : tracker_lock'[x] = tracker_lock[x]
  BY <1>0, <1>1, <1>4 DEF TypeInv
<1>11. /\ CallInv' /\ WatchInv' /\ ProtectInv' /\ StrictInv'
       /\ PendCpu' = PendCpu \cup (IF at'[t] \in TrackerLabels /\ ~c.read THEN c.pages ELSE {})
       /\ PendGpu' = PendGpu \cup (IF c.read THEN c.pages ELSE {})
       /\ PendImg' = PendImg \cup (IF at'[t] \in ImageLabels THEN c.pages ELSE {})
  <2>1. Keeps({t})
    <3>1. \A u \in Threads \ {t}, x \in Regions : tracker_lock[x] = u => tracker_lock'[x] = u
      BY <1>1, <1>10, Constants
    <3> QED
      BY <1>1, <1>8, <3>1 DEF Keeps
  <2>2. Ready(t)
    BY <1>0, <1>1, <1>2, NotWaiting DEF Waits, TrackerLabels, ImageLabels
  <2>3. at'[t] \in TrackerLabels /\ at'[t] \notin ImageLabels
    BY <1>8 DEF TrackerLabels, ImageLabels
  <2>4. CallRight(t)'
    <3>1. calls'[t] = c
      BY <1>0, <1>1, <1>2 DEF TypeInv
    <3>2. \A p \in c.pages : tracker_lock'[RegionOf(p)] = t /\ p \in cpu_dirty'
      BY <1>1, <1>5, <1>6, <1>10
    <3> QED
      BY <1>6, <2>3, <3>1, <3>2 DEF CallRight, RegionOf
  <2>5. \A p \in c.pages : tracker_lock[RegionOf(p)] \in {None, t}
    BY <1>1, <1>5, <1>6
  <2>6. c.pages \in SUBSET Pages
    BY <1>5, <1>6
  <2>7. Starts(t, c)
    BY <1>1, <1>6, <1>8, <2>3, <2>4, <2>5, <2>6 DEF Starts
  <2> QED
    BY <1>0, <1>2, <2>1, <2>2, <2>7, CallStarts
<1>12. PendGpu' = PendGpu /\ PendImg' = PendImg
  BY <1>6, <1>8, <1>11 DEF ImageLabels
<1>13. TypeInv'
  <2>1. at' \in [Threads -> Labels]
    BY <1>0, <1>1 DEF TypeInv, Labels
  <2>2. tracker_lock' \in [Regions -> Threads \cup {None}]
    BY <1>0, <1>1, <1>2 DEF TypeInv
  <2>3. calls' \in [Threads -> [pages : SUBSET Pages, track : BOOLEAN, read : BOOLEAN]]
    <3>1. c \in [pages : SUBSET Pages, track : BOOLEAN, read : BOOLEAN]
      BY <1>5 DEF c, CallsFor
    <3> QED
      BY <1>0, <1>1, <3>1 DEF TypeInv
  <2>4. cpu_dirty' \in SUBSET Pages
    BY <1>0, <1>1, <1>5 DEF TypeInv
  <2> QED
    BY <1>0, <1>8, <2>1, <2>2, <2>3, <2>4 DEF TypeInv
<1>14. GuestControl'
  BY <1>0, <1>2, <1>3, <1>8 DEF GuestControl, GuestLabels
<1>15. QueueInv'
  BY <1>0, <1>1, <1>8, <1>9, QueueKept
<1>16. ASSUME NEW x \in Regions, Holds(Gpu, x) PROVE x # r
  BY <1>0, <1>1, <1>2, <1>16 DEF LockInv
<1>17. LockInv'
  <2> SUFFICES ASSUME NEW u \in Threads, NEW x \in Regions, Holds(u, x)'
               PROVE  tracker_lock'[x] = u
    BY DEF LockInv
  <2>1. CASE u = t
    <3>1. x = r
      BY <1>2, <1>7, <2>1 DEF Holds, r
    <3> QED
      BY <1>10, <2>1, <3>1
  <2>2. CASE u # t
    <3>1. tracker_lock[x] = u /\ u # None
      BY <1>0, <1>9, <2>2, Constants DEF LockInv
    <3> QED
      BY <1>1, <1>10, <3>1
  <2> QED
    BY <2>1, <2>2
<1>18. MLockInv'
  BY <1>0, <1>2, <1>8, <1>9 DEF MLockInv
<1>19. CopyInv'
  <2>1. cpu_dirty' \cap gpu_dirty' = {}
    BY <1>0, <1>1, <1>8 DEF CopyInv, S
  <2>2. ASSUME NEW p \in job[Gpu].pages \cap cpu_dirty'
        PROVE  /\ Uploading /\ job[Gpu].write => RegionOf(p) \in ToDo
               /\ Phase = "mark gpu" => RegionOf(p) \notin ToDo
    <3>1. CASE p \in cpu_dirty
      BY <1>0, <3>1 DEF CopyInv
    <3>2. CASE p \in S
      <4>1. p \in Pages /\ RegionOf(p) = r /\ r \in RegionsOf(job[Gpu].pages)
        BY <1>5, <2>2, <3>2, RegionFacts
      <4>2. Uploading /\ job[Gpu].write => r \in ToDo
        BY <1>4, <1>16, <4>1 DEF Holds
      <4>3. Phase = "mark gpu" => r \notin job[Gpu].left
        BY <1>4, <1>16 DEF Holds
      <4>4. ToDo \subseteq job[Gpu].left
        BY DEF ToDo
      <4> QED
        BY <4>1, <4>2, <4>3, <4>4
    <3> QED
      BY <1>1, <2>2, <3>1, <3>2
  <2>3. at'[Gpu] = "delete" => cpu_dirty' = Pages
    BY <1>0, <1>1, <1>5, <1>9 DEF CopyInv
  <2>4. /\ stale' \subseteq cpu_dirty' \cup UpCopies'
        /\ \A p \in Pages : protection'[p] = "rw" => p \in cpu_dirty' \cup UpCopies'
        /\ UpCopies' \cap gpu_dirty' = {}
    BY <1>0, <1>1, <1>8, <1>9 DEF CopyInv
  <2> QED
    <3>1. \A p \in job'[Gpu].pages \cap cpu_dirty' :
            /\ Uploading' /\ job'[Gpu].write => RegionOf(p) \in ToDo'
            /\ Phase' = "mark gpu" => RegionOf(p) \notin ToDo'
      BY <1>8, <1>9, <2>2
    <3> QED
      BY <2>1, <2>3, <2>4, <3>1 DEF CopyInv, RegionOf
<1>20. UnreadInv'
  BY <1>0, <1>8, <1>12 DEF UnreadInv
<1>21. ImageInv'
  BY <1>0, <1>8, <1>9, <1>12 DEF ImageInv, Firm, RegionOf
<1>22. NoStaleImage'
  BY <1>0, <1>8 DEF NoStaleImage
<1> QED
  BY <1>9, <1>11, <1>13, <1>14, <1>15, <1>17, <1>18, <1>19, <1>20, <1>21, <1>22 DEF IInv

LEMMA InvalidateRegionStep ==
  ASSUME IInv, NEW t \in Guests, InvalidateRegion(t)
  PROVE  IInv'
BY GuestQueues, GuestDirties


(* What InvalidateMemory of the texture cache can do to the image: nothing, *)
(* give up one edge of several pages, or give up all of it and mark it.    *)
LEMMA ImageInvalidated ==
  ASSUME TypeInv, NEW t \in Threads, Ready(t), InvalidateImage(t)
  PROVE  /\ tracked' \subseteq tracked
         /\ \E c : /\ calls' = [calls EXCEPT ![t] = c]
                   /\ c.pages = tracked \ tracked'
                   /\ c.pages # {} => ~c.track /\ ~c.read
                   /\ c \in [pages : SUBSET Pages, track : BOOLEAN, read : BOOLEAN]
         /\ flags' \in [cpu : BOOLEAN, maybe : BOOLEAN, buffer : BOOLEAN]
         /\ flags'.buffer = flags.buffer /\ edgesChanged' \in BOOLEAN
         /\ \/ UNCHANGED <<flags, tracked, edgesChanged>> /\ trimmed' = trimmed
            \/ UNCHANGED <<flags, edgesChanged>> /\ trimmed' = trimmed \cup (tracked \ tracked')
            \/ flags'.cpu /\ trimmed' = trimmed
            \/ /\ ~flags.cpu /\ flags'.maybe /\ trimmed' = trimmed
               /\ flags.maybe => edgesChanged' = edgesChanged
<1> DEFINE S == job[t].pages
           Outcome == IF S \cap image = {}
                        THEN UNCHANGED <<flags, tracked, calls, edgesChanged>>
                        ELSE InvalidateCpuAliases(t, S, job[t].write)
<1>1. /\ Outcome
      /\ trimmed' = trimmed \cup (IF tracked' = {} THEN {} ELSE tracked \ tracked')
  BY DEF InvalidateImage
<1>2. /\ tracked \in SUBSET Pages /\ edgesChanged \in BOOLEAN
      /\ flags \in [cpu : BOOLEAN, maybe : BOOLEAN, buffer : BOOLEAN]
      /\ calls \in [Threads -> [pages : SUBSET Pages, track : BOOLEAN, read : BOOLEAN]]
      /\ calls[t].pages = {}
  BY DEF TypeInv, Ready
<1>3. CASE UNCHANGED <<flags, tracked, calls, edgesChanged>>
  <2>1. calls' = [calls EXCEPT ![t] = calls[t]] /\ calls[t].pages = tracked \ tracked'
    BY <1>2, <1>3
  <2>2. trimmed' = trimmed
    BY <1>1, <1>3
  <2> QED
    BY <1>2, <1>3, <2>1, <2>2
<1>4. ASSUME NEW X \in SUBSET Pages
      PROVE  /\ CallsFor(X, FALSE, FALSE).pages = X
             /\ ~CallsFor(X, FALSE, FALSE).track /\ ~CallsFor(X, FALSE, FALSE).read
             /\ CallsFor(X, FALSE, FALSE) \in [pages : SUBSET Pages, track : BOOLEAN, read : BOOLEAN]
  BY DEF CallsFor
<1>5. CASE Forget(t, [flags EXCEPT !.cpu = TRUE, !.maybe = FALSE])
  <2>1. /\ flags' = [flags EXCEPT !.cpu = TRUE, !.maybe = FALSE] /\ tracked' = {}
        /\ calls' = [calls EXCEPT ![t] = CallsFor(tracked, FALSE, FALSE)]
        /\ edgesChanged' = FALSE /\ trimmed' = trimmed
    BY <1>1, <1>5 DEF Forget
  <2>2. /\ flags' \in [cpu : BOOLEAN, maybe : BOOLEAN, buffer : BOOLEAN]
        /\ flags'.buffer = flags.buffer /\ flags'.cpu
    BY <1>2, <2>1
  <2>3. tracked \ tracked' = tracked
    BY <2>1
  <2> QED
    BY <1>2, <1>4, <2>1, <2>2, <2>3
<1>6. CASE MaybeDirty(t, tracked)
  <2>1. /\ flags' = [flags EXCEPT !.maybe = flags.maybe \/ ~flags.cpu] /\ tracked' = {}
        /\ calls' = [calls EXCEPT ![t] = CallsFor(tracked, FALSE, FALSE)]
        /\ edgesChanged' = (edgesChanged /\ flags.maybe) /\ trimmed' = trimmed
    BY <1>1, <1>6 DEF MaybeDirty
  <2>2. /\ flags' \in [cpu : BOOLEAN, maybe : BOOLEAN, buffer : BOOLEAN]
        /\ flags'.buffer = flags.buffer /\ flags'.cpu = flags.cpu
        /\ ~flags.cpu => flags'.maybe
    BY <1>2, <2>1
  <2>3. edgesChanged' \in BOOLEAN /\ (flags.maybe => edgesChanged' = edgesChanged)
    BY <1>2, <2>1
  <2>4. tracked \ tracked' = tracked
    BY <2>1
  <2> QED
    BY <1>2, <1>4, <2>1, <2>2, <2>3, <2>4
<1>7. ASSUME NEW p, UntrackEdge(t, p)
      PROVE  \/ UNCHANGED <<flags, tracked, calls, edgesChanged>>
             \/ MaybeDirty(t, tracked)
             \/ /\ p \in tracked /\ tracked # {p} /\ tracked' = tracked \ {p}
                /\ calls' = [calls EXCEPT ![t] = CallsFor({p}, FALSE, FALSE)]
                /\ UNCHANGED <<flags, edgesChanged>>
  <2>1. CASE p \notin tracked
    BY <1>7, <2>1 DEF UntrackEdge
  <2>2. CASE p \in tracked /\ tracked = {p}
    BY <1>7, <2>2 DEF UntrackEdge
  <2>3. CASE p \in tracked /\ tracked # {p}
    BY <1>7, <2>3 DEF UntrackEdge
  <2> QED
    BY <2>1, <2>2, <2>3
<1>8. ASSUME NEW p, p \in tracked, tracked # {p}, tracked' = tracked \ {p},
             calls' = [calls EXCEPT ![t] = CallsFor({p}, FALSE, FALSE)],
             UNCHANGED <<flags, edgesChanged>>
      PROVE  /\ tracked' \subseteq tracked
             /\ \E c : /\ calls' = [calls EXCEPT ![t] = c]
                       /\ c.pages = tracked \ tracked'
                       /\ c.pages # {} => ~c.track /\ ~c.read
                       /\ c \in [pages : SUBSET Pages, track : BOOLEAN, read : BOOLEAN]
             /\ trimmed' = trimmed \cup (tracked \ tracked')
  <2>1. tracked' # {} /\ tracked \ tracked' = {p} /\ {p} \in SUBSET Pages
    BY <1>2, <1>8
  <2> QED
    BY <1>1, <1>4, <1>8, <2>1
<1>9. CASE \E p : UntrackEdge(t, p)
  BY <1>2, <1>3, <1>6, <1>7, <1>8, <1>9
<1> QED
  BY <1>1, <1>3, <1>5, <1>6, <1>9 DEF InvalidateCpuAliases

LEMMA InvalidateImageStep ==
  ASSUME IInv, NEW t \in Guests, InvalidateImage(t)
  PROVE  IInv'
<1>0. /\ TypeInv /\ GuestControl /\ GpuControl /\ QueueInv /\ LockInv /\ MLockInv
      /\ CallInv /\ WatchInv /\ ProtectInv /\ StrictInv
      /\ CopyInv /\ UnreadInv /\ GpuInv /\ ImageInv /\ NoStaleImage
  BY DEF IInv
<1>1. /\ at[t] = "invalidate image" /\ m_lock = None /\ m_lock' = t
      /\ at' = [at EXCEPT ![t] = "end image"]
      /\ UNCHANGED <<tracker, pageManager, job, commands, bufferCache, bounds, image, imageStale,
                     failed>>
  BY DEF InvalidateImage, Goto
<1>2. /\ t \in Threads /\ t # Gpu /\ t # None /\ Gpu \in Threads /\ Guests \subseteq Threads
      /\ Gpu # None
  BY Constants
<1>3. Ready(t)
  BY <1>0, <1>1, <1>2, NotWaiting DEF Waits, TrackerLabels, ImageLabels
<1>4. /\ tracked' \subseteq tracked
      /\ \E c : /\ calls' = [calls EXCEPT ![t] = c]
                /\ c.pages = tracked \ tracked'
                /\ c.pages # {} => ~c.track /\ ~c.read
                /\ c \in [pages : SUBSET Pages, track : BOOLEAN, read : BOOLEAN]
      /\ flags' \in [cpu : BOOLEAN, maybe : BOOLEAN, buffer : BOOLEAN]
      /\ flags'.buffer = flags.buffer /\ edgesChanged' \in BOOLEAN
      /\ \/ UNCHANGED <<flags, tracked, edgesChanged>> /\ trimmed' = trimmed
         \/ UNCHANGED <<flags, edgesChanged>> /\ trimmed' = trimmed \cup (tracked \ tracked')
         \/ flags'.cpu /\ trimmed' = trimmed
         \/ /\ ~flags.cpu /\ flags'.maybe /\ trimmed' = trimmed
            /\ flags.maybe => edgesChanged' = edgesChanged
  BY <1>0, <1>2, <1>3, ImageInvalidated
<1>5. PICK c : /\ calls' = [calls EXCEPT ![t] = c]
               /\ c.pages = tracked \ tracked'
               /\ c.pages # {} => ~c.track /\ ~c.read
               /\ c \in [pages : SUBSET Pages, track : BOOLEAN, read : BOOLEAN]
  BY <1>4
<1>6. /\ at'[t] = "end image"
      /\ \A u \in Threads \ {t} : at'[u] = at[u]
      /\ UNCHANGED <<watchers, protection, protects, registered, gpu_ranges, copies, stale, unread,
                     guests, ranges, image, imageStale, cpu_dirty, gpu_dirty, tracker_lock, job,
                     commands, failed>>
  <2>1. at \in [Threads -> Labels]
    BY <1>0 DEF TypeInv
  <2>2. at'[t] = "end image" /\ \A u \in Threads \ {t} : at'[u] = at[u]
    BY <1>1, <1>2, <2>1
  <2> QED
    BY <1>1, <2>2 DEF tracker, pageManager, bufferCache, bounds
<1>7. /\ Phase' = Phase /\ ToDo' = ToDo /\ UpCopies' = UpCopies /\ at'[Gpu] = at[Gpu]
      /\ (Uploading' <=> Uploading) /\ (Serving' <=> Serving)
      /\ GpuControl' /\ GpuInv'
      /\ \A u \in Threads \ {t} : \A x : Holds(u, x)' <=> Holds(u, x)
  BY <1>0, <1>6, GuestMoves
<1>8. /\ CallInv' /\ WatchInv' /\ ProtectInv' /\ StrictInv'
      /\ PendCpu' = PendCpu \cup (IF at'[t] \in TrackerLabels /\ ~c.read THEN c.pages ELSE {})
      /\ PendGpu' = PendGpu \cup (IF c.read THEN c.pages ELSE {})
      /\ PendImg' = PendImg \cup (IF at'[t] \in ImageLabels THEN c.pages ELSE {})
  <2>1. Keeps({t})
    BY <1>1, <1>6, Constants DEF Keeps
  <2>2. at'[t] \notin TrackerLabels /\ at'[t] \in ImageLabels
    BY <1>6 DEF TrackerLabels, ImageLabels
  <2>3. c.pages \cap tracked' = {} /\ calls'[t] = c /\ c.pages \subseteq tracked
    BY <1>0, <1>2, <1>5 DEF TypeInv
  <2>4. c.pages # {} => CallRight(t)'
    BY <1>1, <1>5, <2>2, <2>3 DEF CallRight
  <2>5. \A p \in Pages : p \in tracked' <=> IF p \in c.pages THEN p \notin tracked ELSE p \in tracked
    BY <1>4, <1>5
  <2>6. Starts(t, c)
    BY <1>1, <1>5, <1>6, <2>2, <2>4, <2>5 DEF Starts
  <2> QED
    BY <1>0, <1>2, <1>3, <2>1, <2>6, CallStarts
<1>9. PendGpu' = PendGpu /\ PendImg' = PendImg \cup (tracked \ tracked')
  BY <1>5, <1>6, <1>8 DEF ImageLabels
<1>10. TypeInv'
  <2>1. at' \in [Threads -> Labels]
    BY <1>0, <1>1 DEF TypeInv, Labels
  <2>2. calls' \in [Threads -> [pages : SUBSET Pages, track : BOOLEAN, read : BOOLEAN]]
    BY <1>0, <1>5 DEF TypeInv
  <2>3. tracked' \in SUBSET image /\ trimmed' \in SUBSET image /\ m_lock' \in Threads \cup {None}
    BY <1>0, <1>1, <1>2, <1>4 DEF TypeInv
  <2> QED
    BY <1>0, <1>4, <1>6, <2>1, <2>2, <2>3 DEF TypeInv
<1>11. GuestControl'
  BY <1>0, <1>2, <1>6 DEF GuestControl, GuestLabels
<1>12. QueueInv'
  BY <1>0, <1>1, <1>6, <1>7, QueueKept
<1>13. LockInv'
  <2>1. ~ \E x : Holds(t, x)'
    BY <1>2, <1>6 DEF Holds
  <2> QED
    BY <1>0, <1>6, <1>7, <2>1 DEF LockInv
<1>14. MLockInv'
  BY <1>0, <1>1, <1>2, <1>6, <1>7 DEF MLockInv
<1>15. CopyInv'
  BY <1>0, <1>6, <1>7 DEF CopyInv, RegionOf
<1>16. UnreadInv'
  BY <1>0, <1>6, <1>9 DEF UnreadInv
<1>17. ImageInv'
  <2>1. m_lock' # Gpu /\ m_lock # Gpu
    BY <1>1, <1>2
  <2>2. ASSUME ~flags'.cpu, ~flags'.maybe, NEW p \in image \ trimmed'
        PROVE  p \in tracked' /\ p \notin PendImg' /\ protection'[p] # "rw"
    <3>1. /\ ~flags.cpu /\ ~flags.maybe /\ p \notin trimmed
          /\ p \notin tracked \ tracked'
      BY <1>4, <2>2
    <3>2. p \in tracked /\ p \notin PendImg /\ protection[p] # "rw"
      BY <1>0, <2>2, <3>1 DEF ImageInv
    <3> QED
      BY <1>6, <1>9, <3>1, <3>2
  <2>3. at'[Gpu] = "image copy" => stale' \cap image' = {}
    BY <1>0, <1>6, <1>7 DEF ImageInv
  <2>4. Phase' \in {"mark gpu", "draw"} \/ (Uploading' /\ job'[Gpu].write) =>
          (job'[Gpu].pages \cap image' # {} => flags'.buffer)
    BY <1>0, <1>4, <1>6, <1>7 DEF ImageInv
  <2>5. UNCHANGED image
    BY <1>6
  <2> QED
    BY <2>1, <2>2, <2>3, <2>4, <2>5 DEF ImageInv, Firm
<1>18. NoStaleImage'
  <2>1. CASE flags'.cpu
    BY <2>1 DEF NoStaleImage
  <2>2. CASE UNCHANGED <<flags, edgesChanged>>
    BY <1>0, <1>4, <1>6, <2>2 DEF NoStaleImage
  <2>3. CASE /\ ~flags.cpu /\ flags'.maybe /\ trimmed' = trimmed
             /\ flags.maybe => edgesChanged' = edgesChanged
    BY <1>0, <1>4, <1>6, <2>3 DEF NoStaleImage
  <2> QED
    BY <1>4, <2>1, <2>2, <2>3
<1> QED
  BY <1>7, <1>8, <1>10, <1>11, <1>12, <1>13, <1>14, <1>15, <1>16, <1>17, <1>18 DEF IInv

LEMMA GuestStep ==
  ASSUME IInv, NEW t \in Guests, Guest(t)
  PROVE  IInv'
BY GuestWriteStep, KernelInvalidateStep, GuestReadStep, InvalidateRegionStep, InvalidateImageStep,
   EndImageStep DEF Guest

------------------------------------------------------------------------------
(* The GPU thread *)

(* What the host lets the guest do, when the GPU thread is not waiting for *)
(* the page manager.                                                       *)
LEMMA GpuReady ==
  ASSUME IInv, Ready(Gpu)
  PROVE  /\ PendGpu = {}
         /\ m_lock = Gpu => PendImg = {}
         /\ \A p \in Pages : /\ protection[p] = "rw" => p \in cpu_dirty
                             /\ p \in gpu_dirty => protection[p] = "none"
                             /\ m_lock = Gpu /\ p \in tracked => protection[p] # "rw"
<1>0. TypeInv /\ CallInv /\ WatchInv /\ StrictInv
  BY DEF IInv
<1>1. /\ calls[Gpu].pages = {} /\ Gpu \in Threads
      /\ \A r \in Regions : protects[r].by # Gpu
  BY Constants DEF Ready, Protecting
<1>2. PendGpu = {}
  BY <1>0, <1>1 DEF PendGpu, CallInv, CallRight, ImageLabels, TrackerLabels
<1>3. m_lock = Gpu => PendImg = {}
  <2> SUFFICES ASSUME m_lock = Gpu, NEW u \in Threads, at[u] \in ImageLabels, NEW p \in calls[u].pages
               PROVE  FALSE
    BY DEF PendImg
  <2>1. CallRight(u)
    BY <1>0 DEF CallInv
  <2> QED
    BY <1>1, <2>1 DEF CallRight
<1>4. PendCpu \subseteq cpu_dirty
  BY <1>0, <1>1 DEF PendCpu, CallInv, CallRight
<1>5. \A p \in Pages : Stricter(protection[p], Perms(watchers[p]))
  BY <1>0, <1>1, RegionNat DEF StrictInv
<1>6. ASSUME NEW p \in Pages, protection[p] = "rw" PROVE p \in cpu_dirty
  <2>1. Perms(watchers[p]) = "rw"
    BY <1>5, <1>6 DEF Stricter
  <2>2. ~CpuWatched(p)
    BY <1>0, <2>1 DEF Perms, WatchInv, One
  <2> QED
    BY <1>4, <2>2 DEF CpuWatched
<1>7. ASSUME NEW p \in Pages, p \in gpu_dirty PROVE protection[p] = "none"
  <2>1. Perms(watchers[p]) = "none"
    BY <1>0, <1>2, <1>7, WatchersSay
  <2> QED
    BY <1>5, <2>1 DEF Stricter
<1>8. ASSUME NEW p \in Pages, m_lock = Gpu, p \in tracked PROVE protection[p] # "rw"
  <2>1. Perms(watchers[p]) # "rw"
    BY <1>0, <1>3, <1>8, WatchersSay
  <2> QED
    BY <1>5, <2>1 DEF Stricter
<1> QED
  BY <1>2, <1>3, <1>6, <1>7, <1>8

(* A step of the GPU thread leaves the guests where they are, with the     *)
(* locks they have.                                                        *)
GpuKeeps ==
  /\ tracker_lock' \in [Regions -> Threads \cup {None}] /\ m_lock' \in Threads \cup {None}
  /\ \A u \in Guests, r \in Regions : tracker_lock[r] = u => tracker_lock'[r] = u
  /\ \A u \in Guests : m_lock = u => m_lock' = u
  /\ UNCHANGED <<pageManager, commands, bounds, image>>

GpuTyped ==
  /\ cpu_dirty' \in SUBSET Pages /\ gpu_dirty' \in SUBSET Pages
  /\ registered' \in BOOLEAN
  /\ gpu_ranges' \in SUBSET Pages /\ copies' \in SUBSET Pages
  /\ stale' \in SUBSET Pages /\ unread' \in SUBSET Pages
  /\ tracked' \in SUBSET image /\ imageStale' \in SUBSET image /\ trimmed' \in SUBSET image
  /\ flags' \in [cpu : BOOLEAN, maybe : BOOLEAN, buffer : BOOLEAN]
  /\ edgesChanged' \in BOOLEAN /\ failed' = FALSE

GpuGoes(l, j) ==
  /\ l \in GpuLabels /\ at' = [at EXCEPT ![Gpu] = l]
  /\ j \in Jobs /\ job' = [job EXCEPT ![Gpu] = j]
  /\ GpuKeeps /\ GpuTyped

LEMMA GpuMoves ==
  ASSUME IInv, NEW l, NEW j, GpuGoes(l, j)
  PROVE  /\ at'[Gpu] = l /\ job'[Gpu] = j
         /\ \A u \in Guests : at'[u] = at[u] /\ job'[u] = job[u]
         /\ l # "end region" => Phase' = l /\ ToDo' = j.left
         /\ calls' \in [Threads -> [pages : SUBSET Pages, track : BOOLEAN, read : BOOLEAN]]
              => TypeInv'
         /\ GuestControl'
         /\ Keeps({Gpu})
         /\ (Serving' => commands # <<>>) => QueueInv'
         /\ (\A r \in Regions : Holds(Gpu, r)' => tracker_lock'[r] = Gpu) => LockInv'
         /\ \A u \in Guests : at'[u] = "end image" => m_lock' = u
<1>0. TypeInv /\ GuestControl /\ QueueInv /\ LockInv /\ MLockInv
  BY DEF IInv
<1>1. Gpu \in Threads /\ Guests \subseteq Threads /\ Gpu \notin Guests /\ Threads = Guests \cup {Gpu}
  BY Constants
<1>2. /\ l \in GpuLabels /\ at' = [at EXCEPT ![Gpu] = l]
      /\ j \in Jobs /\ job' = [job EXCEPT ![Gpu] = j]
      /\ GpuKeeps /\ GpuTyped
  BY DEF GpuGoes
<1>3. /\ at \in [Threads -> Labels] /\ job \in [Threads -> Jobs]
      /\ at' \in [Threads -> Labels] /\ job' \in [Threads -> Jobs]
  BY <1>0, <1>2 DEF TypeInv, GpuLabels, Labels
<1>4. /\ at'[Gpu] = l /\ job'[Gpu] = j
      /\ \A u \in Guests : at'[u] = at[u] /\ job'[u] = job[u]
  BY <1>1, <1>2, <1>3
<1>5. l # "end region" => Phase' = l /\ ToDo' = j.left
  BY <1>4 DEF Phase, ToDo
<1>6. ASSUME calls' \in [Threads -> [pages : SUBSET Pages, track : BOOLEAN, read : BOOLEAN]]
      PROVE  TypeInv'
  <2>1. UNCHANGED <<watchers, protection, protects, commands, guests, ranges, image>>
    BY <1>2 DEF GpuKeeps, pageManager, bounds
  <2> QED
    BY <1>0, <1>2, <1>3, <1>6, <2>1 DEF TypeInv, GpuKeeps, GpuTyped
<1>7. GuestControl'
  BY <1>0, <1>4 DEF GuestControl
<1>8. Keeps({Gpu})
  BY <1>1, <1>2, <1>4 DEF Keeps, GpuKeeps
<1>9. ASSUME Serving' => commands # <<>> PROVE QueueInv'
  <2>1. commands' = commands /\ commands \in Seq(Guests)
    BY <1>0, <1>2 DEF GpuKeeps, TypeInv
  <2>2. \A i \in 1..Len(commands) : commands[i] \in Guests
    BY <2>1, ElementOfSeq
  <2> QED
    BY <1>0, <1>4, <1>9, <2>1, <2>2 DEF QueueInv
<1>10. ASSUME \A r \in Regions : Holds(Gpu, r)' => tracker_lock'[r] = Gpu PROVE LockInv'
  <2> SUFFICES ASSUME NEW u \in Guests, NEW r \in Regions, Holds(u, r)'
               PROVE  tracker_lock'[r] = u
    BY <1>1, <1>10 DEF LockInv
  <2>1. Holds(u, r)
    BY <1>1, <1>4 DEF Holds, Current
  <2> QED
    BY <1>0, <1>1, <1>2, <2>1 DEF LockInv, GpuKeeps
<1>11. \A u \in Guests : at'[u] = "end image" => m_lock' = u
  BY <1>0, <1>2, <1>4 DEF MLockInv, GpuKeeps
<1> QED
  BY <1>4, <1>5, <1>6, <1>7, <1>8, <1>9, <1>10, <1>11

(* ... and none of the bits.                                               *)
LEMMA GpuGoesOn ==
  ASSUME IInv, Ready(Gpu), NEW l, NEW j, GpuGoes(l, j),
         UNCHANGED <<calls, cpu_dirty, gpu_dirty, tracked>>
  PROVE  /\ TypeInv' /\ CallInv' /\ WatchInv' /\ ProtectInv' /\ StrictInv'
         /\ PendGpu' = PendGpu /\ PendImg' = PendImg /\ protection' = protection
         /\ commands' = commands /\ image' = image
<1>0. TypeInv /\ CallInv /\ WatchInv /\ ProtectInv /\ StrictInv
  BY DEF IInv
<1>1. Keeps({Gpu}) /\ TypeInv'
  BY <1>0, GpuMoves DEF TypeInv
<1>2. {Gpu} \in SUBSET Threads /\ {Gpu} # {} /\ \A u \in {Gpu} : Ready(u)
  BY Constants
<1>3. /\ CallInv' /\ WatchInv' /\ ProtectInv' /\ StrictInv'
      /\ PendCpu' = PendCpu /\ PendGpu' = PendGpu /\ PendImg' = PendImg
  BY <1>0, <1>1, <1>2, NoCallStarts
<1>4. protection' = protection /\ commands' = commands /\ image' = image
  BY DEF GpuGoes, GpuKeeps, pageManager
<1> QED
  BY <1>1, <1>3, <1>4

(* Where the GPU thread is not, at a place of its own.                     *)
LEMMA GpuNotWaiting ==
  ASSUME IInv, at[Gpu] \notin Waits
  PROVE  Ready(Gpu)
BY NotWaiting, Constants DEF IInv

(* The GPU thread goes where it has nothing to hold and nothing to copy.   *)
Resting == {"idle", "download", "read done", "collect download", "untrack", "refresh",
            "image copy", "image read", "replace"}

LEMMA GpuRests ==
  ASSUME IInv, NEW l \in Resting, NEW j, GpuGoes(l, j), ~j.keep, l = "refresh" => image # {},
         l \in {"download", "read done"} => j.pages # {} /\ commands # <<>>,
         m_lock' = Gpu <=> l \in {"refresh", "image copy", "image read", "replace"}
  PROVE  /\ at'[Gpu] = l /\ job'[Gpu] = j /\ Phase' = l
         /\ GuestControl' /\ GpuControl' /\ QueueInv' /\ LockInv' /\ MLockInv'
         /\ ~Uploading' /\ UpCopies' = {}
         /\ /\ cpu_dirty' \cap gpu_dirty' = {} /\ stale' \subseteq cpu_dirty'
            /\ \A p \in Pages : protection'[p] = "rw" => p \in cpu_dirty'
            => CopyInv'
<1>1. /\ at'[Gpu] = l /\ job'[Gpu] = j
      /\ l # "end region" => Phase' = l /\ ToDo' = j.left
      /\ GuestControl' /\ ((Serving' => commands # <<>>) => QueueInv')
      /\ (\A r \in Regions : Holds(Gpu, r)' => tracker_lock'[r] = Gpu) => LockInv'
      /\ \A u \in Guests : at'[u] = "end image" => m_lock' = u
  BY GpuMoves
<1>2. Phase' = l /\ l \in GpuLabels /\ l \notin Loops \cup {"end region", "copy", "delete"}
  BY <1>1 DEF Resting, GpuLabels, Loops
<1>3. ~Uploading' /\ UpCopies' = {} /\ (Serving' => l \in {"download", "read done"})
  BY <1>1, <1>2 DEF Uploading, Serving, Resting, UpCopies, Loops
<1>4. GpuControl'
  <2>1. image' = image
    BY DEF GpuGoes, GpuKeeps
  <2> QED
    BY <1>1, <1>2, <1>3, <2>1 DEF GpuControl, Loops
<1>5. LockInv'
  BY <1>1, <1>2, <1>3 DEF Holds, Loops
<1>6. MLockInv'
  BY <1>1, <1>3 DEF MLockInv
<1>7. QueueInv'
  BY <1>1, <1>3
<1>8. ASSUME cpu_dirty' \cap gpu_dirty' = {}, stale' \subseteq cpu_dirty',
             \A p \in Pages : protection'[p] = "rw" => p \in cpu_dirty'
      PROVE  CopyInv'
  <2>1. Phase' # "mark gpu" /\ at'[Gpu] # "delete"
    BY <1>1, <1>2 DEF Loops
  <2> QED
    BY <1>3, <1>8, <2>1 DEF CopyInv
<1> QED
  BY <1>1, <1>2, <1>3, <1>4, <1>5, <1>6, <1>7, <1>8

(* A step of the GPU thread that gives the page manager a call.            *)
LEMMA GpuCalls ==
  ASSUME IInv, Ready(Gpu), NEW l, NEW j, GpuGoes(l, j),
         NEW c \in [pages : SUBSET Pages, track : BOOLEAN, read : BOOLEAN], Starts(Gpu, c)
  PROVE  /\ TypeInv' /\ CallInv' /\ WatchInv' /\ ProtectInv' /\ StrictInv'
         /\ PendGpu' = PendGpu \cup (IF c.read THEN c.pages ELSE {})
         /\ PendImg' = PendImg \cup (IF l \in ImageLabels THEN c.pages ELSE {})
         /\ protection' = protection /\ commands' = commands /\ image' = image
<1>0. TypeInv /\ CallInv /\ WatchInv /\ ProtectInv /\ StrictInv
  BY DEF IInv
<1>1. Keeps({Gpu}) /\ at'[Gpu] = l
  BY GpuMoves
<1>2. calls' \in [Threads -> [pages : SUBSET Pages, track : BOOLEAN, read : BOOLEAN]]
  BY <1>0 DEF Starts, TypeInv
<1>3. TypeInv'
  BY <1>2, GpuMoves
<1>4. {Gpu} \in SUBSET Threads /\ Gpu \in {Gpu} /\ \A u \in {Gpu} : Ready(u)
  BY Constants
<1>5. /\ CallInv' /\ WatchInv' /\ ProtectInv' /\ StrictInv'
      /\ PendGpu' = PendGpu \cup (IF c.read THEN c.pages ELSE {})
      /\ PendImg' = PendImg \cup (IF at'[Gpu] \in ImageLabels THEN c.pages ELSE {})
  BY <1>0, <1>1, <1>4, CallStarts
<1>6. protection' = protection /\ commands' = commands /\ image' = image
  BY DEF GpuGoes, GpuKeeps, pageManager
<1> QED
  BY <1>1, <1>3, <1>5, <1>6

(* A turn of the GPU thread on a region: it has it locked, and the rest of *)
(* its walk is ahead.                                                      *)
HasTurn(j) ==
  /\ j.pages = job[Gpu].pages /\ j.left = job[Gpu].left /\ j.loop = job[Gpu].loop
  /\ j.next = job[Gpu].next /\ (j.write <=> job[Gpu].write)
  /\ j.keep <=> at[Gpu] = "upload" /\ job[Gpu].write
  /\ tracker_lock'[Current(Gpu)] = Gpu
  /\ \A r \in Regions : tracker_lock[r] = Gpu => tracker_lock'[r] = Gpu
  /\ m_lock' = m_lock

LEMMA RegionTurn ==
  ASSUME IInv, at[Gpu] \in Loops, NEW j, GpuGoes("end region", j), HasTurn(j)
  PROVE  /\ at'[Gpu] = "end region" /\ job'[Gpu] = j /\ Current(Gpu)' = Current(Gpu)
         /\ Phase = at[Gpu] /\ Phase' = Phase
         /\ ToDo = job[Gpu].left /\ ToDo' = ToDo \ {Current(Gpu)}
         /\ Current(Gpu) \in ToDo /\ Current(Gpu) \in Regions
         /\ (Uploading' <=> Uploading) /\ (Serving' <=> Serving)
         /\ GuestControl' /\ GpuControl' /\ QueueInv' /\ LockInv' /\ MLockInv'
<1>0. TypeInv /\ GpuControl /\ QueueInv /\ LockInv /\ MLockInv
  BY DEF IInv
<1>1. /\ j.pages = job[Gpu].pages /\ j.left = job[Gpu].left /\ j.loop = job[Gpu].loop
      /\ j.next = job[Gpu].next /\ (j.write <=> job[Gpu].write)
      /\ j.keep <=> at[Gpu] = "upload" /\ job[Gpu].write
      /\ tracker_lock'[Current(Gpu)] = Gpu
      /\ \A r \in Regions : tracker_lock[r] = Gpu => tracker_lock'[r] = Gpu
      /\ m_lock' = m_lock
  BY DEF HasTurn
<1>2. /\ at'[Gpu] = "end region" /\ job'[Gpu] = j
      /\ GuestControl' /\ ((Serving' => commands # <<>>) => QueueInv')
      /\ (\A r \in Regions : Holds(Gpu, r)' => tracker_lock'[r] = Gpu) => LockInv'
      /\ \A u \in Guests : at'[u] = "end image" => m_lock' = u
  BY GpuMoves
<1>3. at[Gpu] # "end region" /\ job[Gpu].loop = at[Gpu] /\ job[Gpu].left # {}
  BY <1>0 DEF GpuControl, Loops
<1>4. Current(Gpu)' = Current(Gpu) /\ Current(Gpu) \in job[Gpu].left /\ Current(Gpu) \in Regions
  <2>1. Current(Gpu)' = Current(Gpu)
    BY <1>1, <1>2 DEF Current
  <2> QED
    BY <1>0, <1>3, <2>1, CurrentFacts, Constants
<1>5. /\ Phase = at[Gpu] /\ Phase' = Phase
      /\ ToDo = job[Gpu].left /\ ToDo' = ToDo \ {Current(Gpu)}
  BY <1>1, <1>2, <1>3, <1>4 DEF Phase, ToDo
<1>6. (Uploading' <=> Uploading) /\ (Serving' <=> Serving)
  BY <1>1, <1>2, <1>5 DEF Uploading, Serving
<1>7. GpuControl'
  <2>1. image' = image
    BY DEF GpuGoes, GpuKeeps
  <2>2. Phase' = "upload" => job'[Gpu].keep = job'[Gpu].write
    <3>1. j.keep \in BOOLEAN /\ j.write \in BOOLEAN
      BY DEF GpuGoes, Jobs
    <3> QED
      BY <1>1, <1>2, <1>5, <3>1
  <2>3. job'[Gpu].keep => Uploading' /\ job'[Gpu].write
    BY <1>1, <1>2, <1>5, <1>6 DEF Uploading
  <2>4. /\ at'[Gpu] \notin Loops /\ at'[Gpu] # "refresh" /\ at'[Gpu] \in GpuLabels
        /\ Phase' \in Loops
    BY <1>2, <1>5 DEF GpuLabels, Loops
  <2>5. /\ job'[Gpu].loop \in Loops /\ job'[Gpu].left # {}
        /\ Phase' = "upload" => job'[Gpu].next = "copy"
        /\ Phase' = "mark gpu" => job'[Gpu].next = "draw"
        /\ Phase' = "unmark" => job'[Gpu].next \in {"read done", "untrack"}
        /\ Phase' = "mark cpu" => job'[Gpu].next = "reply"
    BY <1>0, <1>1, <1>2, <1>3, <1>5 DEF GpuControl
  <2>6. Uploading' \/ Serving' => job'[Gpu].pages # {}
    BY <1>0, <1>1, <1>2, <1>6 DEF GpuControl
  <2>7. Phase' # "copy"
    BY <2>4 DEF Loops
  <2> QED
    BY <2>2, <2>3, <2>4, <2>5, <2>6, <2>7 DEF GpuControl
<1>8. QueueInv'
  BY <1>0, <1>2, <1>6 DEF QueueInv
<1>9. LockInv'
  <2> SUFFICES ASSUME NEW r \in Regions, Holds(Gpu, r)', r # Current(Gpu)
               PROVE  tracker_lock'[r] = Gpu
    BY <1>1, <1>2
  <2>1. RegionsOf(job[Gpu].pages)' = RegionsOf(job[Gpu].pages)
    BY <1>1, <1>2 DEF RegionsOf, Regions, In, RegionOf
  <2>2. Holds(Gpu, r)
    BY <1>1, <1>2, <1>4, <1>5, <1>6, <2>1 DEF Holds
  <2> QED
    BY <1>0, <1>1, <2>2, Constants DEF LockInv
<1>10. MLockInv'
  <2>1. image' = image
    BY DEF GpuGoes, GpuKeeps
  <2> QED
    BY <1>0, <1>1, <1>2, <1>3, <1>6, <2>1 DEF MLockInv, Loops
<1> QED
  BY <1>2, <1>4, <1>5, <1>6, <1>7, <1>8, <1>9, <1>10

LEMMA UploadCopiesStep ==
  ASSUME IInv, UploadCopies
  PROVE  IInv'
<1>0. /\ TypeInv /\ GpuControl /\ QueueInv /\ LockInv /\ MLockInv
      /\ CopyInv /\ UnreadInv /\ GpuInv /\ ImageInv /\ NoStaleImage
  BY DEF IInv
<1> DEFINE m == Min(copies)
<1>1. /\ at[Gpu] = "copy" /\ copies # {}
      /\ copies' = copies \ {m} /\ stale' = stale \ {m}
      /\ UNCHANGED <<cpu_dirty, gpu_dirty, tracker_lock, pageManager, calls, at, job, commands,
                     registered, gpu_ranges, unread, bounds, image, tracked, flags, m_lock,
                     imageStale, edgesChanged, trimmed, failed>>
  BY DEF UploadCopies, tracker, textureCache
<1> HIDE DEF m
<1>2. Ready(Gpu) /\ Phase = "copy" /\ Uploading
  BY <1>1, GpuNotWaiting DEF Waits, TrackerLabels, ImageLabels, Phase, Uploading
<1>3. GpuGoes("copy", job[Gpu])
  <2>1. at' = [at EXCEPT ![Gpu] = "copy"] /\ job' = [job EXCEPT ![Gpu] = job[Gpu]]
        /\ job[Gpu] \in Jobs
    BY <1>0, <1>1, Constants DEF TypeInv
  <2>2. GpuKeeps /\ GpuTyped
    BY <1>0, <1>1 DEF TypeInv, GpuKeeps, GpuTyped
  <2> QED
    BY <2>1, <2>2 DEF GpuGoes, GpuLabels
<1>4. /\ TypeInv' /\ CallInv' /\ WatchInv' /\ ProtectInv' /\ StrictInv'
      /\ PendGpu' = PendGpu /\ PendImg' = PendImg /\ protection' = protection
      /\ commands' = commands /\ image' = image
  BY <1>1, <1>2, <1>3, GpuGoesOn
<1>5. /\ GuestControl' /\ ((Serving' => commands # <<>>) => QueueInv')
      /\ (\A r \in Regions : Holds(Gpu, r)' => tracker_lock'[r] = Gpu) => LockInv'
      /\ \A u \in Guests : at'[u] = "end image" => m_lock' = u
  BY <1>3, GpuMoves
<1>6. /\ Phase' = Phase /\ ToDo' = ToDo /\ (Uploading' <=> Uploading) /\ ~Serving'
      /\ at' = at /\ job' = job
  BY <1>1, <1>2 DEF Phase, ToDo, Current, Uploading, Serving
<1>7. GpuControl'
  BY <1>0, <1>4, <1>6 DEF GpuControl, Serving
<1>8. LockInv'
  <2>1. \A r : Holds(Gpu, r)' <=> Holds(Gpu, r)
    BY <1>1, <1>6 DEF Holds, Current, RegionsOf, Regions, In, RegionOf
  <2> QED
    BY <1>0, <1>1, <1>5, <2>1, Constants DEF LockInv
<1>9. MLockInv'
  BY <1>0, <1>1, <1>5, <1>6 DEF MLockInv
<1>10. CopyInv'
  <2>1. UpCopies = copies /\ UpCopies' = copies'
    BY <1>2, <1>6 DEF UpCopies
  <2>2. \A p \in Pages : protection'[p] = "rw" => p \in cpu_dirty
    BY <1>2, <1>4, GpuReady
  <2>3. stale' \subseteq cpu_dirty \cup copies' /\ copies' \cap gpu_dirty = {}
    BY <1>0, <1>1, <2>1 DEF CopyInv
  <2> QED
    BY <1>0, <1>1, <1>6, <2>1, <2>2, <2>3 DEF CopyInv, RegionOf
<1>11. UnreadInv'
  BY <1>0, <1>1, <1>4 DEF UnreadInv
<1>12. GpuInv'
  BY <1>0, <1>1, <1>2, <1>6 DEF GpuInv, RegionOf, Unmarked
<1>13. ImageInv'
  <2>1. Firm' <=> Firm
    BY <1>1 DEF Firm
  <2>2. m_lock = Gpu => \A p \in stale' \cap image : p \in copies' \/ RegionOf(p) \in ToDo
    BY <1>0, <1>1, <1>2 DEF ImageInv
  <2> QED
    BY <1>0, <1>1, <1>4, <1>6, <2>1, <2>2 DEF ImageInv, RegionOf
<1>14. NoStaleImage'
  BY <1>0, <1>1 DEF NoStaleImage
<1> QED
  BY <1>4, <1>5, <1>6, <1>7, <1>8, <1>9, <1>10, <1>11, <1>12, <1>13, <1>14 DEF IInv


LEMMA DrawStep ==
  ASSUME IInv, Draw
  PROVE  IInv'
<1>0. /\ TypeInv /\ GpuControl /\ QueueInv /\ LockInv /\ MLockInv
      /\ CopyInv /\ UnreadInv /\ GpuInv /\ ImageInv /\ NoStaleImage
  BY DEF IInv
<1> DEFINE S == job[Gpu].pages
<1>1. /\ at[Gpu] = "draw" /\ at' = [at EXCEPT ![Gpu] = "idle"]
      /\ job' = [job EXCEPT ![Gpu] = NoJob]
      /\ gpu_ranges' = gpu_ranges \cup S /\ unread' = unread \cup S
      /\ imageStale' = imageStale \cup (S \cap image)
      /\ UNCHANGED <<cpu_dirty, gpu_dirty, tracker_lock, pageManager, calls, commands, registered,
                     copies, stale, bounds, image, tracked, flags, m_lock, edgesChanged, trimmed,
                     failed>>
  BY DEF Draw, Goto, tracker
<1>2. Ready(Gpu) /\ Phase = "draw" /\ ~Uploading
  BY <1>1, GpuNotWaiting DEF Waits, TrackerLabels, ImageLabels, Phase, Uploading
<1>3. S \in SUBSET Pages /\ S \subseteq gpu_dirty /\ gpu_dirty \subseteq gpu_ranges \cup S
  BY <1>0, <1>2, Constants DEF TypeInv, GpuInv, Jobs
<1>4. S \cap image # {} => flags.buffer
  BY <1>0, <1>2 DEF ImageInv
<1>5. m_lock # Gpu
  BY <1>0, <1>1, <1>2 DEF MLockInv
<1>6. GpuGoes("idle", NoJob)
  <2>1. GpuKeeps /\ GpuTyped
    BY <1>0, <1>1, <1>3 DEF TypeInv, GpuKeeps, GpuTyped
  <2> QED
    BY <1>1, <2>1, NoJobIsJob DEF GpuGoes, GpuLabels
<1> HIDE DEF S
<1>7. /\ TypeInv' /\ CallInv' /\ WatchInv' /\ ProtectInv' /\ StrictInv'
      /\ PendGpu' = PendGpu /\ PendImg' = PendImg /\ protection' = protection
      /\ commands' = commands /\ image' = image
  BY <1>1, <1>2, <1>6, GpuGoesOn
<1>8. /\ at'[Gpu] = "idle" /\ Phase' = "idle" /\ ~Uploading' /\ UpCopies' = {}
      /\ GuestControl' /\ GpuControl' /\ QueueInv' /\ LockInv' /\ MLockInv'
      /\ /\ cpu_dirty' \cap gpu_dirty' = {} /\ stale' \subseteq cpu_dirty'
         /\ \A p \in Pages : protection'[p] = "rw" => p \in cpu_dirty'
         => CopyInv'
  <2>1. ~NoJob.keep
    BY DEF NoJob
  <2> QED
    BY <1>1, <1>5, <1>6, <2>1, GpuRests DEF Resting
<1>13. CopyInv'
  <2>1. UpCopies = {}
    BY <1>2 DEF UpCopies
  <2> QED
    BY <1>0, <1>1, <1>7, <1>8, <2>1 DEF CopyInv
<1>14. UnreadInv'
  <2>1. PendGpu = {} /\ \A p \in S : protection[p] = "none"
    BY <1>2, <1>3, GpuReady
  <2> QED
    BY <1>0, <1>1, <1>3, <1>7, <2>1 DEF UnreadInv
<1>15. GpuInv'
  BY <1>1, <1>3, <1>8 DEF GpuInv, Unmarked
<1>16. ImageInv'
  BY <1>0, <1>1, <1>5, <1>7, <1>8 DEF ImageInv, Firm
<1>17. NoStaleImage'
  BY <1>0, <1>1, <1>4 DEF NoStaleImage
<1> QED
  BY <1>7, <1>8, <1>13, <1>14, <1>15, <1>16, <1>17 DEF IInv

LEMMA EndUploadStep ==
  ASSUME IInv, EndUpload
  PROVE  IInv'
<1>0. /\ TypeInv /\ GpuControl /\ QueueInv /\ LockInv /\ MLockInv
      /\ CopyInv /\ UnreadInv /\ GpuInv /\ ImageInv /\ NoStaleImage
  BY DEF IInv
<1> DEFINE S == job[Gpu].pages
           j == IF job[Gpu].write
                  THEN [pages |-> S, left |-> RegionsOf(S), write |-> FALSE, keep |-> FALSE,
                        loop |-> "mark gpu", next |-> "draw"]
                  ELSE NoJob
           l == IF job[Gpu].write THEN "mark gpu"
                ELSE IF m_lock = Gpu THEN "image copy" ELSE "idle"
<1>1. /\ at[Gpu] = "copy" /\ copies = {}
      /\ at' = [at EXCEPT ![Gpu] = l] /\ job' = [job EXCEPT ![Gpu] = j]
      /\ UNCHANGED <<tracker, pageManager, calls, commands, bufferCache, textureCache, failed>>
  BY DEF EndUpload, Walk, Goto
<1>2. /\ Ready(Gpu) /\ Phase = "copy" /\ Uploading /\ ToDo = {} /\ UpCopies = {}
      /\ job[Gpu] \in Jobs /\ S \in SUBSET Pages /\ S # {}
  <2>1. Phase = "copy" /\ Uploading
    BY <1>1 DEF Phase, Uploading
  <2>2. job[Gpu] \in Jobs /\ job[Gpu].pages \in SUBSET Pages
    BY <1>0, Constants DEF TypeInv, Jobs
  <2>3. Ready(Gpu)
    BY <1>1, GpuNotWaiting DEF Waits, TrackerLabels, ImageLabels
  <2>4. ToDo = {} /\ UpCopies = {} /\ S # {}
    BY <1>0, <1>1, <2>1 DEF GpuControl, ToDo, UpCopies
  <2> QED
    BY <2>1, <2>2, <2>3, <2>4
<1>3. j \in Jobs /\ ~j.keep
  <2>1. RegionsOf(S) \in SUBSET Regions
    BY DEF RegionsOf
  <2> QED
    BY <1>2, <2>1, NoJobIsJob DEF Jobs, Labels, NoJob
<1>4. UNCHANGED <<cpu_dirty, gpu_dirty, tracker_lock, pageManager, calls, commands, registered,
                  gpu_ranges, copies, stale, unread, bounds, image, tracked, flags, m_lock,
                  imageStale, edgesChanged, trimmed, failed>>
  BY <1>1 DEF tracker, bufferCache, textureCache
<1>5. GpuGoes(l, j)
  <2>1. GpuKeeps /\ GpuTyped
    BY <1>0, <1>4 DEF TypeInv, GpuKeeps, GpuTyped
  <2>2. l \in GpuLabels
    BY DEF GpuLabels
  <2> QED
    BY <1>1, <1>3, <2>1, <2>2 DEF GpuGoes
<1>6. /\ job[Gpu].write => l = "mark gpu" /\ m_lock # Gpu
           /\ j.pages = S /\ j.left = RegionsOf(S) /\ ~j.write
           /\ j.loop = "mark gpu" /\ j.next = "draw"
      /\ ~job[Gpu].write => l = IF m_lock = Gpu THEN "image copy" ELSE "idle"
  BY <1>0, <1>1 DEF MLockInv
<1> HIDE DEF S, j, l
<1>7. /\ TypeInv' /\ CallInv' /\ WatchInv' /\ ProtectInv' /\ StrictInv'
      /\ PendGpu' = PendGpu /\ PendImg' = PendImg /\ protection' = protection
      /\ commands' = commands /\ image' = image
  BY <1>2, <1>4, <1>5, GpuGoesOn
<1>8. UnreadInv' /\ NoStaleImage'
  BY <1>0, <1>4, <1>7 DEF UnreadInv, NoStaleImage
<1>9. /\ cpu_dirty \cap gpu_dirty = {} /\ stale \subseteq cpu_dirty
      /\ \A p \in Pages : protection[p] = "rw" => p \in cpu_dirty
      /\ gpu_dirty \subseteq gpu_ranges
  BY <1>0, <1>2 DEF CopyInv, GpuInv, Unmarked
<1>10. CASE ~job[Gpu].write
  <2>1. /\ at'[Gpu] = l /\ Phase' = l /\ ~Uploading'
        /\ GuestControl' /\ GpuControl' /\ QueueInv' /\ LockInv' /\ MLockInv' /\ CopyInv'
    <3>1. /\ l \in Resting /\ l \notin {"refresh", "download", "read done"}
          /\ m_lock' = Gpu <=> l \in {"refresh", "image copy", "image read", "replace"}
      BY <1>4, <1>6, <1>10 DEF Resting
    <3>2. /\ at'[Gpu] = l /\ Phase' = l /\ ~Uploading'
          /\ GuestControl' /\ GpuControl' /\ QueueInv' /\ LockInv' /\ MLockInv'
          /\ /\ cpu_dirty' \cap gpu_dirty' = {} /\ stale' \subseteq cpu_dirty'
             /\ \A p \in Pages : protection'[p] = "rw" => p \in cpu_dirty'
             => CopyInv'
      BY <1>3, <1>5, <3>1, GpuRests
    <3> QED
      BY <1>4, <1>7, <1>9, <3>2
  <2>2. GpuInv'
    BY <1>4, <1>6, <1>9, <1>10, <2>1 DEF GpuInv, Unmarked
  <2>3. m_lock = Gpu => stale \cap image = {}
    BY <1>0, <1>1, <1>2 DEF ImageInv
  <2>4. ImageInv'
    BY <1>0, <1>1, <1>4, <1>6, <1>7, <1>10, <2>1, <2>3 DEF ImageInv, Firm
  <2> QED
    BY <1>7, <1>8, <2>1, <2>2, <2>4 DEF IInv
<1>11. CASE job[Gpu].write
  <2>1. /\ at'[Gpu] = "mark gpu" /\ job'[Gpu] = j /\ Phase' = "mark gpu" /\ ToDo' = RegionsOf(S)
        /\ GuestControl' /\ ((Serving' => commands # <<>>) => QueueInv')
        /\ (\A r \in Regions : Holds(Gpu, r)' => tracker_lock'[r] = Gpu) => LockInv'
        /\ \A u \in Guests : at'[u] = "end image" => m_lock' = u
    BY <1>5, <1>6, <1>11, GpuMoves
  <2>2. ~Uploading' /\ ~Serving' /\ UpCopies' = {}
    BY <2>1 DEF Uploading, Serving, UpCopies
  <2>3. RegionsOf(S) # {}
    <3>1. PICK p \in S : TRUE
      BY <1>2
    <3> QED
      BY <1>2, <3>1, RegionFacts
  <2>4. GpuControl'
    BY <1>3, <1>6, <1>11, <2>1, <2>2, <2>3 DEF GpuControl, GpuLabels, Loops
  <2>5. LockInv'
    <3> SUFFICES ASSUME NEW r \in Regions, Holds(Gpu, r)' PROVE tracker_lock'[r] = Gpu
      BY <2>1
    <3>1. r \in RegionsOf(S)
      BY <1>6, <1>11, <2>1, <2>2 DEF Holds
    <3>2. Holds(Gpu, r)
      BY <1>2, <1>11, <3>1 DEF Holds, S
    <3> QED
      BY <1>0, <1>4, <3>2, Constants DEF LockInv
  <2>6. MLockInv'
    BY <1>4, <1>6, <1>11, <2>1 DEF MLockInv
  <2>7. CopyInv'
    <3>1. \A p \in S \cap cpu_dirty : FALSE
      BY <1>0, <1>2, <1>11 DEF CopyInv, S
    <3> QED
      BY <1>4, <1>6, <1>7, <1>9, <1>11, <2>1, <2>2, <3>1 DEF CopyInv
  <2>8. GpuInv'
    <3>1. \A p \in S : RegionOf(p) \in ToDo'
      BY <1>2, <2>1, RegionFacts
    <3> QED
      BY <1>4, <1>6, <1>9, <1>11, <2>1, <3>1 DEF GpuInv, Unmarked, RegionOf
  <2>9. S \cap image # {} => flags.buffer
    BY <1>0, <1>2, <1>11 DEF ImageInv, S
  <2>10. ImageInv'
    BY <1>0, <1>4, <1>6, <1>7, <1>11, <2>1, <2>2, <2>9 DEF ImageInv, Firm
  <2> QED
    BY <1>7, <1>8, <2>1, <2>2, <2>4, <2>5, <2>6, <2>7, <2>8, <2>10 DEF IInv
<1> QED
  BY <1>10, <1>11

LEMMA ObtainBufferStep ==
  ASSUME IInv, ObtainBuffer
  PROVE  IInv'
<1>0. /\ TypeInv /\ GpuControl /\ QueueInv /\ LockInv /\ MLockInv
      /\ CopyInv /\ UnreadInv /\ GpuInv /\ ImageInv /\ NoStaleImage
  BY DEF IInv
<1>1. PICK S \in ranges, written \in BOOLEAN :
        /\ at[Gpu] = "idle" /\ (written => m_lock = None)
        /\ flags' = [flags EXCEPT !.buffer = flags.buffer \/ (written /\ S \cap image # {})]
        /\ registered' = TRUE /\ copies' = {}
        /\ at' = [at EXCEPT ![Gpu] = "upload"]
        /\ job' = [job EXCEPT ![Gpu] = [pages |-> S, left |-> RegionsOf(S), write |-> written,
                                        keep |-> FALSE, loop |-> "upload", next |-> "copy"]]
        /\ UNCHANGED <<stale, cpu_dirty, gpu_dirty, tracker_lock, pageManager, calls, commands,
                       gpu_ranges, unread, bounds, image, tracked, m_lock, imageStale,
                       edgesChanged, trimmed, failed>>
  BY DEF ObtainBuffer, FindBuffer, Walk, Goto, tracker
<1> DEFINE j == [pages |-> S, left |-> RegionsOf(S), write |-> written, keep |-> FALSE,
                 loop |-> "upload", next |-> "copy"]
<1>2. /\ S \in SUBSET Pages /\ S # {} /\ RegionsOf(S) \in SUBSET Regions /\ RegionsOf(S) # {}
  <2>1. S \in (SUBSET Pages) \ {{}}
    BY <1>0, <1>1 DEF TypeInv
  <2>2. PICK p \in S : TRUE
    BY <2>1
  <2> QED
    BY <2>1, <2>2, RegionFacts DEF RegionsOf
<1>3. /\ j \in Jobs /\ j.pages = S /\ j.left = RegionsOf(S) /\ j.write = written
      /\ ~j.keep /\ j.loop = "upload" /\ j.next = "copy"
  <2>1. "upload" \in Labels /\ "copy" \in Labels
    BY DEF Labels
  <2> QED
    BY <1>1, <1>2, <2>1 DEF Jobs
<1>4. Ready(Gpu) /\ Phase = "idle" /\ ~Uploading /\ m_lock # Gpu
  BY <1>0, <1>1, GpuNotWaiting
     DEF Waits, TrackerLabels, ImageLabels, Phase, Uploading, MLockInv
<1>5. /\ flags' \in [cpu : BOOLEAN, maybe : BOOLEAN, buffer : BOOLEAN]
      /\ flags'.cpu = flags.cpu /\ flags'.maybe = flags.maybe
      /\ flags.buffer => flags'.buffer
      /\ written /\ S \cap image # {} => flags'.buffer
  BY <1>0, <1>1 DEF TypeInv
<1>6. GpuGoes("upload", j)
  <2>1. GpuKeeps /\ GpuTyped
    BY <1>0, <1>1, <1>5 DEF TypeInv, GpuKeeps, GpuTyped
  <2> QED
    BY <1>1, <1>3, <2>1 DEF GpuGoes, GpuLabels
<1> HIDE DEF j
<1>7. /\ TypeInv' /\ CallInv' /\ WatchInv' /\ ProtectInv' /\ StrictInv'
      /\ PendGpu' = PendGpu /\ PendImg' = PendImg /\ protection' = protection
      /\ commands' = commands /\ image' = image
  BY <1>1, <1>4, <1>6, GpuGoesOn
<1>8. /\ at'[Gpu] = "upload" /\ job'[Gpu] = j /\ Phase' = "upload" /\ ToDo' = j.left
      /\ GuestControl' /\ ((Serving' => commands # <<>>) => QueueInv')
      /\ (\A r \in Regions : Holds(Gpu, r)' => tracker_lock'[r] = Gpu) => LockInv'
      /\ \A u \in Guests : at'[u] = "end image" => m_lock' = u
  BY <1>6, GpuMoves
<1>9. Uploading' /\ ~Serving' /\ UpCopies' = {} /\ UpCopies = {}
  BY <1>1, <1>4, <1>8 DEF Uploading, Serving, UpCopies
<1>10. GpuControl'
  BY <1>2, <1>3, <1>8, <1>9 DEF GpuControl, GpuLabels, Loops
<1>11. LockInv'
  <2>1. RegionsOf(job[Gpu].pages)' = RegionsOf(S)
    BY <1>3, <1>8 DEF RegionsOf, Regions, In, RegionOf
  <2>2. ToDo' = RegionsOf(S)
    BY <1>3, <1>8
  <2> QED
    BY <1>8, <2>1, <2>2 DEF Holds
<1>12. MLockInv'
  BY <1>1, <1>4, <1>8 DEF MLockInv
<1>13. CopyInv'
  <2>1. \A p \in S \cap cpu_dirty : RegionOf(p) \in ToDo'
    <3>1. \A p \in S : RegionOf(p) \in RegionsOf(S)
      BY <1>2, RegionFacts
    <3> QED
      BY <1>3, <1>8, <3>1
  <2> QED
    BY <1>0, <1>1, <1>3, <1>7, <1>8, <1>9, <2>1 DEF CopyInv, RegionOf
<1>14. UnreadInv'
  BY <1>0, <1>1, <1>7 DEF UnreadInv
<1>15. GpuInv'
  BY <1>0, <1>1, <1>4, <1>8 DEF GpuInv, Unmarked
<1>16. ImageInv'
  BY <1>0, <1>1, <1>3, <1>4, <1>5, <1>7, <1>8, <1>9 DEF ImageInv, Firm
<1>17. NoStaleImage'
  BY <1>0, <1>1, <1>5 DEF NoStaleImage
<1> QED
  BY <1>7, <1>8, <1>9, <1>10, <1>11, <1>12, <1>13, <1>14, <1>15, <1>16, <1>17 DEF IInv

LEMMA UploadRegionStep ==
  ASSUME IInv, UploadRegion
  PROVE  IInv'
<1>0. /\ TypeInv /\ GpuControl /\ LockInv /\ MLockInv /\ CallInv /\ WatchInv
      /\ CopyInv /\ UnreadInv /\ GpuInv /\ ImageInv /\ NoStaleImage
  BY DEF IInv
<1> DEFINE S == Here(Gpu)
           r == Current(Gpu)
           c == CallsFor(S \cap cpu_dirty, TRUE, FALSE)
           j == [job[Gpu] EXCEPT !.keep = job[Gpu].write]
<1>1. /\ at[Gpu] = "upload" /\ at' = [at EXCEPT ![Gpu] = "end region"]
      /\ job' = [job EXCEPT ![Gpu] = j]
      /\ tracker_lock[r] = None /\ tracker_lock' = [tracker_lock EXCEPT ![r] = Gpu]
      /\ cpu_dirty' = cpu_dirty \ S /\ copies' = copies \cup (S \cap cpu_dirty)
      /\ calls' = [calls EXCEPT ![Gpu] = c]
      /\ UNCHANGED <<gpu_dirty, pageManager, commands, registered, gpu_ranges, stale, unread,
                     bounds, image, tracked, flags, m_lock, imageStale, edgesChanged, trimmed,
                     failed>>
  BY DEF UploadRegion, Goto, Lock, TakeCpuDirty, textureCache
<1>2. /\ job[Gpu] \in Jobs /\ j \in Jobs
      /\ j.pages = job[Gpu].pages /\ j.left = job[Gpu].left /\ j.loop = job[Gpu].loop
      /\ j.next = job[Gpu].next /\ j.write = job[Gpu].write /\ j.keep = job[Gpu].write
  <2>1. job[Gpu] \in Jobs
    BY <1>0, Constants DEF TypeInv
  <2>2. j = [pages |-> job[Gpu].pages, left |-> job[Gpu].left, write |-> job[Gpu].write,
             keep |-> job[Gpu].write, loop |-> job[Gpu].loop, next |-> job[Gpu].next]
    BY <2>1 DEF Jobs
  <2> HIDE DEF j
  <2> QED
    BY <2>1, <2>2 DEF Jobs
<1>3. /\ S \subseteq Pages /\ S \subseteq job[Gpu].pages
      /\ \A p \in Pages : p \in S <=> p \in job[Gpu].pages /\ RegionOf(p) = r
  BY <1>2 DEF Here, In, Jobs
<1>4. c.pages = S \cap cpu_dirty /\ ~c.read /\ (c.pages # {} => c.track)
      /\ c \in [pages : SUBSET Pages, track : BOOLEAN, read : BOOLEAN]
  BY <1>3 DEF CallsFor
<1>5. Ready(Gpu) /\ Phase = "upload" /\ Uploading
  BY <1>1, GpuNotWaiting DEF Waits, TrackerLabels, ImageLabels, Phase, Uploading
<1>6. at[Gpu] \in Loops /\ r \in Regions
  BY <1>0, <1>1, CurrentFacts, Constants DEF GpuControl, Loops
<1> HIDE DEF S, r, c, j
<1>7. tracker_lock'[r] = Gpu /\ \A x \in Regions \ {r} : tracker_lock'[x] = tracker_lock[x]
  BY <1>0, <1>1, <1>6 DEF TypeInv
<1>8. GpuGoes("end region", j)
  <2>1. GpuTyped
    BY <1>0, <1>1, <1>3 DEF TypeInv, GpuTyped
  <2>2. GpuKeeps
    <3>1. tracker_lock' \in [Regions -> Threads \cup {None}]
      BY <1>0, <1>1, Constants DEF TypeInv
    <3>2. \A u \in Guests, x \in Regions : tracker_lock[x] = u => tracker_lock'[x] = u
      BY <1>1, <1>7, Constants
    <3> QED
      BY <1>0, <1>1, <3>1, <3>2 DEF TypeInv, GpuKeeps
  <2> QED
    BY <1>1, <1>2, <2>1, <2>2 DEF GpuGoes, GpuLabels
<1>9. HasTurn(j)
  <2>1. \A x \in Regions : tracker_lock[x] = Gpu => tracker_lock'[x] = Gpu
    BY <1>7
  <2> QED
    BY <1>1, <1>2, <1>7, <2>1 DEF HasTurn, r
<1>10. /\ at'[Gpu] = "end region" /\ job'[Gpu] = j
       /\ Phase' = "upload"
       /\ ToDo = job[Gpu].left /\ ToDo' = ToDo \ {r}
       /\ r \in ToDo /\ Uploading' /\ (Serving' <=> Serving)
       /\ GuestControl' /\ GpuControl' /\ QueueInv' /\ LockInv' /\ MLockInv'
  BY <1>5, <1>6, <1>8, <1>9, RegionTurn DEF r
<1>11. Starts(Gpu, c)
  <2>1. "end region" \in TrackerLabels /\ "end region" \notin ImageLabels
    BY DEF TrackerLabels, ImageLabels
  <2>2. \A p \in c.pages : RegionOf(p) = r
    BY <1>3, <1>4
  <2>3. CallRight(Gpu)' \/ c.pages = {}
    <3>1. calls'[Gpu] = c
      BY <1>0, <1>1, Constants DEF TypeInv
    <3> QED
      BY <1>1, <1>4, <1>7, <1>10, <2>1, <2>2, <3>1 DEF CallRight, RegionOf
  <2> QED
    BY <1>1, <1>3, <1>4, <1>10, <2>1, <2>2, <2>3 DEF Starts
<1>12. /\ TypeInv' /\ CallInv' /\ WatchInv' /\ ProtectInv' /\ StrictInv'
       /\ PendGpu' = PendGpu /\ PendImg' = PendImg
       /\ protection' = protection /\ commands' = commands /\ image' = image
  <2>1. "end region" \notin ImageLabels
    BY DEF ImageLabels
  <2>2. /\ TypeInv' /\ CallInv' /\ WatchInv' /\ ProtectInv' /\ StrictInv'
        /\ PendGpu' = PendGpu \cup (IF c.read THEN c.pages ELSE {})
        /\ PendImg' = PendImg \cup (IF "end region" \in ImageLabels THEN c.pages ELSE {})
        /\ protection' = protection /\ commands' = commands /\ image' = image
    BY <1>4, <1>5, <1>8, <1>11, GpuCalls
  <2> QED
    BY <1>4, <2>1, <2>2
<1>13. CopyInv'
  <2>1. UpCopies = copies /\ UpCopies' = copies'
    BY <1>5, <1>10 DEF UpCopies
  <2>2. /\ cpu_dirty' \cap gpu_dirty' = {} /\ stale' \subseteq cpu_dirty' \cup copies'
        /\ copies' \cap gpu_dirty' = {}
    BY <1>0, <1>1, <2>1 DEF CopyInv
  <2>3. \A p \in Pages : protection[p] = "rw" => p \in cpu_dirty' \cup copies'
    BY <1>0, <1>1, <2>1 DEF CopyInv
  <2>4. \A p \in job[Gpu].pages \cap cpu_dirty' : job[Gpu].write => RegionOf(p) \in ToDo'
    <3> SUFFICES ASSUME NEW p \in job[Gpu].pages \cap cpu_dirty', job[Gpu].write
                 PROVE  RegionOf(p) \in ToDo'
      OBVIOUS
    <3>1. p \in cpu_dirty /\ p \notin S /\ p \in Pages
      BY <1>0, <1>1 DEF TypeInv
    <3>2. RegionOf(p) \in ToDo
      BY <1>0, <1>5, <3>1 DEF CopyInv
    <3> QED
      BY <1>3, <1>10, <3>1, <3>2
  <2>5. \A p \in job'[Gpu].pages \cap cpu_dirty' :
          Uploading' /\ job'[Gpu].write => RegionOf(p) \in ToDo'
    BY <1>2, <1>10, <2>4
  <2> QED
    BY <1>10, <1>12, <2>1, <2>2, <2>3, <2>5 DEF CopyInv, RegionOf
<1>14. UnreadInv'
  BY <1>0, <1>1, <1>12 DEF UnreadInv
<1>15. GpuInv'
  BY <1>0, <1>1, <1>5, <1>10 DEF GpuInv, Unmarked
<1>16. ImageInv'
  <2>1. Firm' <=> Firm
    BY <1>1, <1>10 DEF Firm
  <2>2. m_lock = Gpu => \A p \in stale \cap image : p \in copies' \/ RegionOf(p) \in ToDo'
    <3> SUFFICES ASSUME m_lock = Gpu, NEW p \in stale \cap image, RegionOf(p) = r, p \notin copies
                 PROVE  p \in copies'
      BY <1>0, <1>1, <1>5, <1>10 DEF ImageInv
    <3>1. p \in cpu_dirty /\ p \in Pages
      BY <1>0, <1>5 DEF CopyInv, UpCopies, TypeInv
    <3>2. p \in S
      BY <1>0, <1>1, <1>3, <3>1 DEF MLockInv
    <3> QED
      BY <1>1, <3>1, <3>2
  <2>3. job'[Gpu].pages \cap image # {} /\ job'[Gpu].write => flags'.buffer
    BY <1>0, <1>1, <1>2, <1>5, <1>10 DEF ImageInv
  <2> QED
    BY <1>0, <1>1, <1>10, <1>12, <2>1, <2>2, <2>3 DEF ImageInv, RegionOf
<1>17. NoStaleImage'
  BY <1>0, <1>1 DEF NoStaleImage
<1> QED
  BY <1>10, <1>12, <1>13, <1>14, <1>15, <1>16, <1>17 DEF IInv

(* A turn outside an upload: the bits change, and nothing else.            *)
Marks(c) ==
  /\ at' = [at EXCEPT ![Gpu] = "end region"] /\ calls' = [calls EXCEPT ![Gpu] = c]
  /\ tracker_lock[Current(Gpu)] \in {None, Gpu}
  /\ tracker_lock' = [tracker_lock EXCEPT ![Current(Gpu)] = Gpu]
  /\ UNCHANGED <<pageManager, job, commands, registered, gpu_ranges, copies, stale, unread, bounds,
                 image, tracked, flags, m_lock, imageStale, edgesChanged, trimmed, failed>>

LEMMA MarksTurn ==
  ASSUME IInv, at[Gpu] \in {"mark gpu", "unmark", "mark cpu"}, NEW c, Marks(c),
         cpu_dirty' \in SUBSET Pages, gpu_dirty' \in SUBSET Pages
  PROVE  /\ Ready(Gpu) /\ Phase = at[Gpu] /\ Phase' = Phase
         /\ at'[Gpu] = "end region" /\ calls'[Gpu] = c /\ Current(Gpu) \in Regions
         /\ ToDo' = ToDo \ {Current(Gpu)} /\ Current(Gpu) \in ToDo
         /\ ~Uploading /\ ~Uploading' /\ m_lock # Gpu /\ job' = job
         /\ tracker_lock'[Current(Gpu)] = Gpu /\ job[Gpu] \in Jobs
         /\ GuestControl' /\ GpuControl' /\ QueueInv' /\ LockInv' /\ MLockInv'
         /\ GpuGoes("end region", job[Gpu])
<1>0. TypeInv /\ GpuControl /\ MLockInv
  BY DEF IInv
<1> DEFINE r == Current(Gpu)
<1>1. /\ at' = [at EXCEPT ![Gpu] = "end region"] /\ calls' = [calls EXCEPT ![Gpu] = c]
      /\ tracker_lock[r] \in {None, Gpu}
      /\ tracker_lock' = [tracker_lock EXCEPT ![r] = Gpu]
      /\ UNCHANGED <<pageManager, job, commands, registered, gpu_ranges, copies, stale, unread,
                     bounds, image, tracked, flags, m_lock, imageStale, edgesChanged, trimmed,
                     failed>>
  BY DEF Marks
<1>2. at[Gpu] \in Loops /\ at[Gpu] # "upload" /\ r \in Regions
  BY <1>0, CurrentFacts, Constants DEF GpuControl, Loops
<1>3. /\ Ready(Gpu) /\ Phase = at[Gpu] /\ ~Uploading /\ m_lock # Gpu
  <2>1. Phase = at[Gpu] /\ ~Uploading
    BY DEF Phase, Uploading
  <2> QED
    BY <1>0, <2>1, GpuNotWaiting DEF Waits, TrackerLabels, ImageLabels, MLockInv
<1>4. job[Gpu] \in Jobs /\ ~job[Gpu].keep
  BY <1>0, <1>3, Constants DEF TypeInv, GpuControl
<1> HIDE DEF r
<1>5. tracker_lock'[r] = Gpu /\ \A x \in Regions \ {r} : tracker_lock'[x] = tracker_lock[x]
  BY <1>0, <1>1, <1>2 DEF TypeInv
<1>6. GpuGoes("end region", job[Gpu])
  <2>1. GpuTyped
    BY <1>0, <1>1 DEF TypeInv, GpuTyped
  <2>2. GpuKeeps
    <3>1. tracker_lock' \in [Regions -> Threads \cup {None}]
      BY <1>0, <1>1, Constants DEF TypeInv
    <3>2. \A u \in Guests, x \in Regions : tracker_lock[x] = u => tracker_lock'[x] = u
      BY <1>1, <1>5, Constants
    <3> QED
      BY <1>0, <1>1, <3>1, <3>2 DEF TypeInv, GpuKeeps
  <2>3. job' = [job EXCEPT ![Gpu] = job[Gpu]]
    BY <1>0, <1>1 DEF TypeInv
  <2> QED
    BY <1>1, <1>4, <2>1, <2>2, <2>3 DEF GpuGoes, GpuLabels
<1>7. HasTurn(job[Gpu])
  <2>1. \A x \in Regions : tracker_lock[x] = Gpu => tracker_lock'[x] = Gpu
    BY <1>5
  <2> QED
    BY <1>1, <1>2, <1>4, <1>5, <2>1 DEF HasTurn, r
<1>8. /\ at'[Gpu] = "end region" /\ Phase' = Phase
      /\ ToDo' = ToDo \ {r} /\ r \in ToDo /\ (Uploading' <=> Uploading)
      /\ GuestControl' /\ GpuControl' /\ QueueInv' /\ LockInv' /\ MLockInv'
  BY <1>2, <1>6, <1>7, RegionTurn DEF r
<1>9. calls'[Gpu] = c
  BY <1>0, <1>1, Constants DEF TypeInv
<1> QED
  BY <1>1, <1>2, <1>3, <1>4, <1>5, <1>6, <1>8, <1>9 DEF r

LEMMA MarksDone ==
  ASSUME IInv, at[Gpu] \in {"mark gpu", "unmark", "mark cpu"},
         NEW c \in [pages : SUBSET Pages, track : BOOLEAN, read : BOOLEAN], Marks(c),
         Starts(Gpu, c), cpu_dirty' \in SUBSET Pages, gpu_dirty' \in SUBSET Pages,
         cpu_dirty' \cap gpu_dirty' = {}, cpu_dirty \subseteq cpu_dirty',
         at[Gpu] = "mark gpu" => cpu_dirty' = cpu_dirty,
         c.read => unread \cap c.pages = {}, unread \subseteq gpu_dirty', GpuInv'
  PROVE  IInv'
<1>0. TypeInv /\ CopyInv /\ UnreadInv /\ ImageInv /\ NoStaleImage
  BY DEF IInv
<1>1. UNCHANGED <<job, registered, gpu_ranges, copies, stale, unread,
                  image, tracked, flags, m_lock, imageStale, edgesChanged, trimmed, failed>>
  BY DEF Marks
<1>2. /\ Ready(Gpu) /\ Phase = at[Gpu] /\ Phase' = Phase /\ at'[Gpu] = "end region"
      /\ ToDo' = ToDo \ {Current(Gpu)} /\ ~Uploading /\ ~Uploading' /\ m_lock # Gpu
      /\ GuestControl' /\ GpuControl' /\ QueueInv' /\ LockInv' /\ MLockInv'
      /\ GpuGoes("end region", job[Gpu])
  BY MarksTurn
<1>3. /\ TypeInv' /\ CallInv' /\ WatchInv' /\ ProtectInv' /\ StrictInv'
      /\ PendGpu' = PendGpu \cup (IF c.read THEN c.pages ELSE {})
      /\ PendImg' = PendImg \cup (IF "end region" \in ImageLabels THEN c.pages ELSE {})
      /\ protection' = protection /\ image' = image
  BY <1>2, GpuCalls
<1>4. PendImg' = PendImg
  BY <1>3 DEF ImageLabels
<1>5. CopyInv'
  <2>1. UpCopies = {} /\ UpCopies' = {}
    BY <1>2 DEF UpCopies
  <2>2. Phase' = "mark gpu" =>
          \A p \in job'[Gpu].pages \cap cpu_dirty' : RegionOf(p) \notin ToDo'
    BY <1>0, <1>1, <1>2 DEF CopyInv
  <2> QED
    BY <1>0, <1>1, <1>2, <1>3, <2>1, <2>2 DEF CopyInv, RegionOf
<1>6. UnreadInv'
  BY <1>0, <1>1, <1>3 DEF UnreadInv
<1>7. ImageInv'
  BY <1>0, <1>1, <1>2, <1>3, <1>4 DEF ImageInv, Firm
<1>8. NoStaleImage'
  BY <1>0, <1>1 DEF NoStaleImage
<1> QED
  BY <1>2, <1>3, <1>5, <1>6, <1>7, <1>8 DEF IInv

LEMMA MarkGpuRegionStep ==
  ASSUME IInv, MarkGpuRegion
  PROVE  IInv'
<1>0. TypeInv /\ GpuControl /\ LockInv /\ CopyInv /\ UnreadInv /\ GpuInv
  BY DEF IInv
<1> DEFINE S == Here(Gpu)
           r == Current(Gpu)
           c == CallsFor(S \ gpu_dirty, TRUE, TRUE)
<1>1. at[Gpu] = "mark gpu" /\ Phase = "mark gpu" /\ r \in Regions /\ r \in ToDo
  BY <1>0, CurrentFacts, Constants DEF MarkGpuRegion, Phase, GpuControl, Loops, ToDo
<1>2. /\ S \subseteq Pages /\ S \subseteq job[Gpu].pages
      /\ \A p \in Pages : p \in S <=> p \in job[Gpu].pages /\ RegionOf(p) = r
  BY <1>0, Constants DEF Here, In, TypeInv, Jobs
<1>3. S \cap cpu_dirty = {}
  BY <1>0, <1>1, <1>2 DEF CopyInv
<1>4. /\ gpu_dirty' = gpu_dirty \cup S /\ calls' = [calls EXCEPT ![Gpu] = c]
      /\ at' = [at EXCEPT ![Gpu] = "end region"]
      /\ UNCHANGED <<failed, cpu_dirty, tracker_lock, pageManager, job, commands, registered,
                     gpu_ranges, copies, stale, unread, bounds, image, tracked, flags, m_lock,
                     imageStale, edgesChanged, trimmed>>
  BY <1>3 DEF MarkGpuRegion, SetGpuDirty, Goto, bufferCache, textureCache
<1>5. c.pages = S \ gpu_dirty /\ (c.pages # {} => c.read /\ c.track)
      /\ c \in [pages : SUBSET Pages, track : BOOLEAN, read : BOOLEAN]
  BY <1>2 DEF CallsFor
<1> HIDE DEF S, r, c
<1>6. tracker_lock[r] = Gpu
  <2>1. Holds(Gpu, r)
    BY <1>1 DEF Holds, ToDo
  <2> QED
    BY <1>0, <1>1, <2>1, Constants DEF LockInv
<1>7. Marks(c)
  <2>1. tracker_lock' = [tracker_lock EXCEPT ![r] = Gpu]
    BY <1>0, <1>1, <1>4, <1>6 DEF TypeInv
  <2> QED
    BY <1>4, <1>6, <2>1 DEF Marks, r
<1>8. cpu_dirty' \in SUBSET Pages /\ gpu_dirty' \in SUBSET Pages
  BY <1>0, <1>2, <1>4 DEF TypeInv
<1>9. /\ Phase' = Phase /\ at'[Gpu] = "end region" /\ calls'[Gpu] = c
      /\ ToDo' = ToDo \ {r} /\ tracker_lock'[r] = Gpu /\ job' = job
  BY <1>1, <1>7, <1>8, MarksTurn DEF r
<1>10. Starts(Gpu, c)
  <2>1. "end region" \in TrackerLabels /\ "end region" \notin ImageLabels
    BY DEF TrackerLabels, ImageLabels
  <2>2. \A p \in c.pages : RegionOf(p) = r
    BY <1>2, <1>5
  <2>3. CallRight(Gpu)' \/ c.pages = {}
    BY <1>1, <1>4, <1>5, <1>9, <2>1, <2>2 DEF CallRight, RegionOf
  <2> QED
    BY <1>2, <1>4, <1>5, <1>6, <1>9, <2>1, <2>2, <2>3 DEF Starts
<1>11. GpuInv'
  <2>1. gpu_dirty' \subseteq gpu_ranges' \cup job'[Gpu].pages
    BY <1>0, <1>1, <1>2, <1>4, <1>9 DEF GpuInv
  <2>2. \A p \in job'[Gpu].pages : RegionOf(p) \notin ToDo' => p \in gpu_dirty'
    <3>1. job[Gpu].pages \in SUBSET Pages
      BY <1>0, Constants DEF TypeInv, Jobs
    <3>2. \A p \in job[Gpu].pages : RegionOf(p) \notin ToDo => p \in gpu_dirty
      BY <1>0, <1>1 DEF GpuInv
    <3> QED
      BY <1>2, <1>4, <1>9, <3>1, <3>2
  <2> QED
    BY <1>1, <1>9, <2>1, <2>2 DEF GpuInv, Unmarked, RegionOf
<1>12. /\ cpu_dirty' \cap gpu_dirty' = {} /\ unread \subseteq gpu_dirty'
       /\ unread \cap c.pages = {}
  BY <1>0, <1>3, <1>4, <1>5 DEF CopyInv, UnreadInv
<1> QED
  BY <1>1, <1>4, <1>5, <1>7, <1>8, <1>10, <1>11, <1>12, MarksDone

LEMMA UnmarkGpuRegionStep ==
  ASSUME IInv, UnmarkGpuRegion
  PROVE  IInv'
<1>0. TypeInv /\ GpuControl /\ CopyInv /\ UnreadInv /\ GpuInv
  BY DEF IInv
<1> DEFINE r == Current(Gpu)
           S == In(r)
           c == CallsFor(S \cap gpu_dirty, FALSE, TRUE)
<1>1. at[Gpu] = "unmark" /\ Phase = "unmark"
  BY DEF UnmarkGpuRegion, Phase
<1>2. S \subseteq Pages /\ \A p \in Pages : p \in S <=> RegionOf(p) = r
  BY DEF In
<1>3. /\ gpu_dirty' = gpu_dirty \ S /\ calls' = [calls EXCEPT ![Gpu] = c]
      /\ at' = [at EXCEPT ![Gpu] = "end region"]
      /\ tracker_lock[r] = None /\ tracker_lock' = [tracker_lock EXCEPT ![r] = Gpu]
      /\ UNCHANGED <<failed, cpu_dirty, pageManager, job, commands, registered, gpu_ranges, copies,
                     stale, unread, bounds, image, tracked, flags, m_lock, imageStale,
                     edgesChanged, trimmed>>
  BY DEF UnmarkGpuRegion, Lock, ClearGpuDirty, Goto, bufferCache, textureCache
<1>4. c.pages = S \cap gpu_dirty /\ (c.pages # {} => c.read) /\ ~c.track
      /\ c \in [pages : SUBSET Pages, track : BOOLEAN, read : BOOLEAN]
  BY <1>2 DEF CallsFor
<1> HIDE DEF S, r, c
<1>5. Marks(c)
  BY <1>3 DEF Marks, r
<1>6. cpu_dirty' \in SUBSET Pages /\ gpu_dirty' \in SUBSET Pages
  BY <1>0, <1>3 DEF TypeInv
<1>7. /\ Phase' = Phase /\ at'[Gpu] = "end region" /\ calls'[Gpu] = c
      /\ ToDo' = ToDo \ {r} /\ tracker_lock'[r] = Gpu /\ job' = job
  BY <1>1, <1>5, <1>6, MarksTurn DEF r
<1>8. Starts(Gpu, c)
  <2>1. "end region" \in TrackerLabels /\ "end region" \notin ImageLabels
    BY DEF TrackerLabels, ImageLabels
  <2>2. \A p \in c.pages : RegionOf(p) = r
    BY <1>2, <1>4
  <2>3. CallRight(Gpu)' \/ c.pages = {}
    BY <1>1, <1>3, <1>4, <1>7, <2>1, <2>2 DEF CallRight, RegionOf
  <2> QED
    BY <1>2, <1>3, <1>4, <1>7, <2>1, <2>2, <2>3 DEF Starts
<1>9. unread = {}
  BY <1>0, <1>1 DEF GpuInv
<1>10. GpuInv'
  <2>1. \A p \in gpu_dirty' : RegionOf(p) \in ToDo'
    BY <1>0, <1>1, <1>2, <1>3, <1>7 DEF GpuInv, TypeInv
  <2> QED
    BY <1>1, <1>3, <1>7, <1>9, <2>1 DEF GpuInv, Unmarked, RegionOf
<1>11. cpu_dirty' \cap gpu_dirty' = {}
  BY <1>0, <1>3 DEF CopyInv
<1> QED
  BY <1>1, <1>3, <1>4, <1>5, <1>6, <1>8, <1>9, <1>10, <1>11, MarksDone

LEMMA MarkCpuRegionStep ==
  ASSUME IInv, MarkCpuRegion
  PROVE  IInv'
<1>0. TypeInv /\ GpuControl /\ CopyInv /\ UnreadInv /\ GpuInv
  BY DEF IInv
<1> DEFINE S == Here(Gpu)
           r == Current(Gpu)
           c == CallsFor(S \ cpu_dirty, FALSE, FALSE)
<1>1. at[Gpu] = "mark cpu" /\ Phase = "mark cpu"
  BY DEF MarkCpuRegion, Phase
<1>2. unread = {} /\ gpu_dirty = {}
  BY <1>0, <1>1 DEF GpuInv, Unmarked
<1>3. S \subseteq Pages /\ \A p \in S : RegionOf(p) = r
  BY <1>0, Constants DEF Here, In, TypeInv, Jobs
<1>4. /\ cpu_dirty' = cpu_dirty \cup S /\ calls' = [calls EXCEPT ![Gpu] = c]
      /\ at' = [at EXCEPT ![Gpu] = "end region"]
      /\ tracker_lock[r] = None /\ tracker_lock' = [tracker_lock EXCEPT ![r] = Gpu]
      /\ UNCHANGED <<failed, gpu_dirty, pageManager, job, commands, registered, gpu_ranges, copies,
                     stale, unread, bounds, image, tracked, flags, m_lock, imageStale,
                     edgesChanged, trimmed>>
  BY <1>2 DEF MarkCpuRegion, Lock, SetCpuDirty, Goto, bufferCache, textureCache
<1>5. c.pages = S \ cpu_dirty /\ ~c.read /\ ~c.track
      /\ c \in [pages : SUBSET Pages, track : BOOLEAN, read : BOOLEAN]
  BY <1>3 DEF CallsFor
<1> HIDE DEF S, r, c
<1>6. Marks(c)
  BY <1>4 DEF Marks, r
<1>7. cpu_dirty' \in SUBSET Pages /\ gpu_dirty' \in SUBSET Pages
  BY <1>0, <1>3, <1>4 DEF TypeInv
<1>8. /\ Phase' = Phase /\ at'[Gpu] = "end region" /\ calls'[Gpu] = c
      /\ ToDo' = ToDo \ {r} /\ tracker_lock'[r] = Gpu /\ job' = job
  BY <1>1, <1>6, <1>7, MarksTurn DEF r
<1>9. Starts(Gpu, c)
  <2>1. "end region" \in TrackerLabels /\ "end region" \notin ImageLabels
    BY DEF TrackerLabels, ImageLabels
  <2>2. \A p \in c.pages : RegionOf(p) = r
    BY <1>3, <1>5
  <2>3. CallRight(Gpu)' \/ c.pages = {}
    BY <1>4, <1>5, <1>8, <2>1, <2>2 DEF CallRight, RegionOf
  <2> QED
    BY <1>3, <1>4, <1>5, <1>8, <2>1, <2>2, <2>3 DEF Starts
<1>10. GpuInv'
  BY <1>1, <1>2, <1>4, <1>8 DEF GpuInv, Unmarked
<1> QED
  BY <1>1, <1>2, <1>4, <1>5, <1>6, <1>7, <1>9, <1>10, MarksDone

LEMMA GpuEndRegionStep ==
  ASSUME IInv, EndRegion(Gpu)
  PROVE  IInv'
<1>0. /\ TypeInv /\ GpuControl /\ QueueInv /\ LockInv /\ MLockInv
      /\ CopyInv /\ UnreadInv /\ GpuInv /\ ImageInv /\ NoStaleImage
  BY DEF IInv
<1> DEFINE r == Current(Gpu)
           left == job[Gpu].left \ {r}
           l == IF left = {} THEN job[Gpu].next ELSE job[Gpu].loop
           j == [job[Gpu] EXCEPT !.left = left]
<1>1. /\ at[Gpu] = "end region" /\ Ready(Gpu)
      /\ at' = [at EXCEPT ![Gpu] = l] /\ job' = [job EXCEPT ![Gpu].left = left]
      /\ tracker_lock' = IF job[Gpu].keep THEN tracker_lock
                         ELSE [tracker_lock EXCEPT ![r] = None]
      /\ UNCHANGED <<cpu_dirty, gpu_dirty, pageManager, calls, commands, registered, gpu_ranges,
                     copies, stale, unread, bounds, image, tracked, flags, m_lock, imageStale,
                     edgesChanged, trimmed, failed>>
  BY DEF EndRegion, Advance, Goto, bufferCache, textureCache
<1>2. /\ job[Gpu] \in Jobs /\ j \in Jobs /\ job' = [job EXCEPT ![Gpu] = j]
      /\ j.pages = job[Gpu].pages /\ j.left = left /\ j.loop = job[Gpu].loop
      /\ j.next = job[Gpu].next /\ j.write = job[Gpu].write /\ j.keep = job[Gpu].keep
  <2>1. job[Gpu] \in Jobs
    BY <1>0, Constants DEF TypeInv
  <2>2. job' = [job EXCEPT ![Gpu] = j]
    BY <1>0, <1>1, Constants DEF TypeInv
  <2>3. left \in SUBSET Regions
    BY <2>1 DEF Jobs
  <2> HIDE DEF left
  <2>4. j \in Jobs
    BY <2>1, <2>3 DEF Jobs
  <2>5. /\ j.pages = job[Gpu].pages /\ j.left = left /\ j.loop = job[Gpu].loop
        /\ j.next = job[Gpu].next /\ j.write = job[Gpu].write /\ j.keep = job[Gpu].keep
    BY <2>1 DEF Jobs
  <2> QED
    BY <2>1, <2>2, <2>4, <2>5
<1>3. Phase = job[Gpu].loop /\ Phase \in Loops /\ ToDo = left /\ r \in Regions
  BY <1>0, <1>1, CurrentFacts, Constants DEF Phase, ToDo, GpuControl
<1>4. /\ left # {} => l = Phase
      /\ left = {} => \/ Phase = "upload" /\ l = "copy"
                      \/ Phase = "mark gpu" /\ l = "draw"
                      \/ Phase = "unmark" /\ l = job[Gpu].next /\ l \in {"read done", "untrack"}
                      \/ Phase = "mark cpu" /\ l = "reply"
  BY <1>0, <1>3 DEF GpuControl, Loops
<1>5. tracker_lock[r] = Gpu
  <2>1. Holds(Gpu, r)
    BY <1>1 DEF Holds
  <2> QED
    BY <1>0, <1>3, <2>1, Constants DEF LockInv
<1> HIDE DEF r, left, l, j
<1>6. \A x \in Regions : x # r \/ job[Gpu].keep => tracker_lock'[x] = tracker_lock[x]
  BY <1>0, <1>1, <1>3 DEF TypeInv
<1>7. GpuGoes(l, j)
  <2>1. GpuTyped
    BY <1>0, <1>1 DEF TypeInv, GpuTyped
  <2>2. GpuKeeps
    <3>1. tracker_lock' \in [Regions -> Threads \cup {None}]
      BY <1>0, <1>1 DEF TypeInv
    <3>2. \A u \in Guests, x \in Regions : tracker_lock[x] = u => tracker_lock'[x] = u
      BY <1>5, <1>6, Constants
    <3> QED
      BY <1>0, <1>1, <3>1, <3>2 DEF TypeInv, GpuKeeps
  <2>3. l \in GpuLabels
    BY <1>3, <1>4 DEF GpuLabels, Loops
  <2> QED
    BY <1>1, <1>2, <2>1, <2>2, <2>3 DEF GpuGoes
<1>8. /\ TypeInv' /\ CallInv' /\ WatchInv' /\ ProtectInv' /\ StrictInv'
      /\ PendGpu' = PendGpu /\ PendImg' = PendImg /\ protection' = protection
      /\ commands' = commands /\ image' = image
  BY <1>1, <1>7, GpuGoesOn
<1>9. l \notin {"end region", "delete", "refresh", "image copy", "image read", "replace", "download"}
  BY <1>3, <1>4 DEF Loops
<1>10. /\ at'[Gpu] = l /\ job'[Gpu] = j /\ Phase' = l /\ ToDo' = ToDo
       /\ GuestControl' /\ ((Serving' => commands # <<>>) => QueueInv')
       /\ (\A x \in Regions : Holds(Gpu, x)' => tracker_lock'[x] = Gpu) => LockInv'
       /\ \A u \in Guests : at'[u] = "end image" => m_lock' = u
  BY <1>2, <1>3, <1>7, <1>9, GpuMoves
<1>11. (Uploading' <=> Uploading) /\ (Serving' => Serving) /\ UpCopies' = UpCopies
  <2>1. Uploading' <=> Uploading
    BY <1>3, <1>4, <1>10 DEF Uploading, Loops
  <2>2. Serving' => Serving
    BY <1>2, <1>3, <1>4, <1>10 DEF Serving, Loops
  <2> QED
    BY <1>1, <2>1, <2>2 DEF UpCopies
<1>12. GpuControl'
  <2>1. /\ l \in GpuLabels /\ (l \in Loops => job[Gpu].loop = l /\ left # {})
        /\ (l = "copy" => left = {})
        /\ (l = "upload" => job[Gpu].next = "copy")
        /\ (l = "mark gpu" => job[Gpu].next = "draw")
        /\ (l = "unmark" => job[Gpu].next \in {"read done", "untrack"})
        /\ (l = "mark cpu" => job[Gpu].next = "reply")
    BY <1>0, <1>3, <1>4 DEF GpuControl, GpuLabels, Loops
  <2>2. job[Gpu].keep => Uploading' /\ job[Gpu].write
    BY <1>0, <1>11 DEF GpuControl
  <2>3. Uploading' \/ Serving' => job[Gpu].pages # {}
    BY <1>0, <1>11 DEF GpuControl
  <2> QED
    BY <1>2, <1>9, <1>10, <2>1, <2>2, <2>3 DEF GpuControl
<1>13. QueueInv'
  BY <1>0, <1>10, <1>11 DEF QueueInv
<1>14. LockInv'
  <2> SUFFICES ASSUME NEW x \in Regions, Holds(Gpu, x)' PROVE tracker_lock'[x] = Gpu
    BY <1>10
  <2>1. RegionsOf(job[Gpu].pages)' = RegionsOf(job[Gpu].pages)
    BY <1>2, <1>10 DEF RegionsOf, Regions, In, RegionOf
  <2>2. CASE Uploading' /\ job'[Gpu].write /\ x \in RegionsOf(job[Gpu].pages)' \ ToDo'
    <3>1. Uploading /\ job[Gpu].write /\ x \in RegionsOf(job[Gpu].pages) \ ToDo
      BY <1>2, <1>10, <1>11, <2>1, <2>2
    <3>2. Holds(Gpu, x)
      BY <3>1 DEF Holds
    <3>3. Phase = "upload" /\ job[Gpu].keep
      BY <1>0, <1>1, <1>3, <3>1 DEF Uploading, Loops, GpuControl
    <3> QED
      BY <1>0, <1>6, <3>2, <3>3, Constants DEF LockInv
  <2>3. CASE Phase' = "mark gpu" /\ x \in job'[Gpu].left
    <3>1. Phase = "mark gpu" /\ x \in job[Gpu].left /\ x # r
      BY <1>2, <1>3, <1>4, <1>10, <2>3 DEF left, Loops
    <3>2. Holds(Gpu, x)
      BY <3>1 DEF Holds
    <3> QED
      BY <1>0, <1>6, <3>1, <3>2, Constants DEF LockInv
  <2> QED
    BY <1>9, <1>10, <2>2, <2>3 DEF Holds
<1>15. MLockInv'
  BY <1>0, <1>1, <1>2, <1>9, <1>10, <1>11 DEF MLockInv
<1>16. CopyInv'
  <2>1. \A p \in job'[Gpu].pages \cap cpu_dirty' :
          /\ Uploading' /\ job'[Gpu].write => RegionOf(p) \in ToDo'
          /\ Phase' = "mark gpu" => RegionOf(p) \notin ToDo'
    BY <1>0, <1>1, <1>2, <1>3, <1>4, <1>10, <1>11 DEF CopyInv, Loops
  <2> QED
    BY <1>0, <1>1, <1>8, <1>9, <1>10, <1>11, <2>1 DEF CopyInv, RegionOf
<1>17. UnreadInv'
  BY <1>0, <1>1, <1>8 DEF UnreadInv
<1>18. GpuInv'
  <2>1. CASE Phase = "upload"
    <3>1. gpu_dirty \subseteq gpu_ranges
      BY <1>0, <2>1 DEF GpuInv, Unmarked
    <3> QED
      BY <1>1, <1>4, <1>10, <2>1, <3>1 DEF GpuInv, Unmarked
  <2>2. CASE Phase = "mark gpu"
    <3>1. /\ gpu_dirty \subseteq gpu_ranges \cup job[Gpu].pages
          /\ \A p \in job[Gpu].pages : RegionOf(p) \notin ToDo => p \in gpu_dirty
      BY <1>0, <2>2 DEF GpuInv
    <3>2. l = "draw" => job[Gpu].pages \subseteq gpu_dirty
      BY <1>3, <1>4, <2>2, <3>1
    <3> QED
      BY <1>1, <1>2, <1>4, <1>10, <2>2, <3>1, <3>2 DEF GpuInv, Unmarked, RegionOf
  <2>3. CASE Phase = "unmark"
    <3>1. unread = {} /\ \A p \in gpu_dirty : RegionOf(p) \in ToDo
      BY <1>0, <2>3 DEF GpuInv
    <3>2. left = {} => gpu_dirty = {}
      BY <1>3, <3>1
    <3> QED
      BY <1>1, <1>4, <1>10, <2>3, <3>1, <3>2 DEF GpuInv, Unmarked, RegionOf
  <2>4. CASE Phase = "mark cpu"
    <3>1. unread = {} /\ gpu_dirty = {}
      BY <1>0, <2>4 DEF GpuInv, Unmarked
    <3> QED
      BY <1>1, <1>4, <1>10, <2>4, <3>1 DEF GpuInv, Unmarked
  <2> QED
    BY <1>3, <2>1, <2>2, <2>3, <2>4 DEF Loops
<1>19. ImageInv'
  <2>1. Firm' <=> Firm
    BY <1>1, <1>9, <1>10 DEF Firm
  <2>2. Phase' \in {"mark gpu", "draw"} => Phase = "mark gpu"
    BY <1>3, <1>4, <1>10 DEF Loops
  <2>3. Phase' \in {"mark gpu", "draw"} \/ (Uploading' /\ job'[Gpu].write) =>
          (job[Gpu].pages \cap image # {} => flags.buffer)
    BY <1>0, <1>2, <1>10, <1>11, <2>2 DEF ImageInv
  <2> QED
    BY <1>0, <1>1, <1>2, <1>8, <1>9, <1>10, <1>11, <2>1, <2>3 DEF ImageInv, RegionOf
<1>20. NoStaleImage'
  BY <1>0, <1>1 DEF NoStaleImage
<1> QED
  BY <1>8, <1>10, <1>12, <1>13, <1>14, <1>15, <1>16, <1>17, <1>18, <1>19, <1>20 DEF IInv

(* The first of a queue without repetitions, and the others.               *)
LEMMA QueueTail ==
  ASSUME NEW S, NEW s \in Seq(S), s # <<>>,
         \A i, k \in 1..Len(s) : s[i] = s[k] => i = k
  PROVE  /\ Head(s) \in S /\ \E k \in 1..Len(s) : Head(s) = s[k]
         /\ Tail(s) \in Seq(S)
         /\ \A i \in 1..Len(Tail(s)) : /\ Tail(s)[i] # Head(s)
                                      /\ \E k \in 1..Len(s) : Tail(s)[i] = s[k]
         /\ \A i, k \in 1..Len(Tail(s)) : Tail(s)[i] = Tail(s)[k] => i = k
<1> DEFINE r == Tail(s)
<1>1. /\ r \in Seq(S) /\ Len(r) = Len(s) - 1 /\ Len(s) \in Nat \ {0} /\ Head(s) \in S
      /\ \A i \in 1..Len(r) : r[i] = s[i + 1]
  BY HeadTailProperties, LenProperties, EmptySeq
<1>2. Head(s) = s[1] /\ 1 \in 1..Len(s)
  BY <1>1
<1> HIDE DEF r
<1>3. \A i \in 1..Len(r) :
        i \in Nat /\ i + 1 \in 1..Len(s) /\ i + 1 # 1 /\ r[i] = s[i + 1]
  BY <1>1
<1>4. ASSUME NEW i \in 1..Len(r), NEW k \in 1..Len(r), r[i] = r[k]
      PROVE  i = k
  <2>1. i + 1 = k + 1
    BY <1>3, <1>4
  <2> QED
    BY <1>3, <2>1
<1>5. \A i \in 1..Len(r) : r[i] # Head(s) /\ \E k \in 1..Len(s) : r[i] = s[k]
  BY <1>2, <1>3
<1> QED
  BY <1>1, <1>2, <1>4, <1>5 DEF r

(* The GPU thread lets the first guest of the queue go on, and both go     *)
(* where they have nothing of anyone's.                                    *)
LEMMA Replied ==
  ASSUME IInv, at[Gpu] \in {"idle", "read done", "reply"}, commands # <<>>, Reply(Head(commands))
  PROVE  \E t \in Guests, l \in {"idle", "invalidate", "invalidate image"}, j \in Jobs :
           /\ at' = [at EXCEPT ![t] = l, ![Gpu] = "idle"]
           /\ job' = [job EXCEPT ![t] = j, ![Gpu] = NoJob]
           /\ l = "invalidate" => /\ j.left # {} /\ ~j.keep /\ j.pages # {}
                                  /\ j.loop = "invalidate" /\ j.next = "invalidate image"
           /\ at[t] \in {"flush", "read"}
           /\ commands' \in Seq(Guests)
           /\ \A i \in 1..Len(commands') :
                commands'[i] # t /\ at[commands'[i]] \in {"flush", "read"}
           /\ \A i, k \in 1..Len(commands') : commands'[i] = commands'[k] => i = k
<1>0. TypeInv /\ GuestControl /\ QueueInv
  BY DEF IInv
<1> DEFINE t == Head(commands)
           left == job[t].left \ {Current(t)}
           l == IF at[t] = "flush" THEN IF left = {} THEN job[t].next ELSE job[t].loop ELSE "idle"
           j == IF at[t] = "flush" THEN [job[t] EXCEPT !.left = left] ELSE NoJob
<1>1. /\ t \in Guests /\ at[t] \in {"flush", "read"}
      /\ Tail(commands) \in Seq(Guests)
      /\ \A i \in 1..Len(Tail(commands)) :
           Tail(commands)[i] # t /\ at[Tail(commands)[i]] \in {"flush", "read"}
      /\ \A i, k \in 1..Len(Tail(commands)) : Tail(commands)[i] = Tail(commands)[k] => i = k
  <2>1. commands \in Seq(Guests) /\ \A i, k \in 1..Len(commands) : commands[i] = commands[k] => i = k
    BY <1>0 DEF TypeInv, QueueInv
  <2>2. \A i \in 1..Len(commands) : at[commands[i]] \in {"flush", "read"}
    BY <1>0 DEF QueueInv
  <2> HIDE DEF left, l, j
  <2>3. /\ t \in Guests /\ \E k \in 1..Len(commands) : t = commands[k]
        /\ Tail(commands) \in Seq(Guests)
        /\ \A i \in 1..Len(Tail(commands)) :
             /\ Tail(commands)[i] # t
             /\ \E k \in 1..Len(commands) : Tail(commands)[i] = commands[k]
        /\ \A i, k \in 1..Len(Tail(commands)) : Tail(commands)[i] = Tail(commands)[k] => i = k
    BY <2>1, QueueTail
  <2> QED
    BY <2>2, <2>3
<1>2. t # Gpu /\ t \in Threads /\ job[t] \in Jobs
  BY <1>0, <1>1, Constants DEF TypeInv
<1>3. commands' = Tail(commands)
  BY DEF Reply
<1>5. at' = [at EXCEPT ![t] = l, ![Gpu] = "idle"] /\ job' = [job EXCEPT ![t] = j, ![Gpu] = NoJob]
  <2>1. CASE at[t] = "flush"
    <3>1. /\ job' = [job EXCEPT ![t].left = left, ![Gpu] = NoJob]
          /\ at' = [at EXCEPT ![t] = l, ![Gpu] = "idle"]
      BY <2>1 DEF Reply
    <3>2. job \in [Threads -> Jobs]
      BY <1>0 DEF TypeInv
    <3> HIDE DEF left, l, t
    <3>3. [job EXCEPT ![t].left = left] = [job EXCEPT ![t] = j]
      BY <1>2, <2>1, <3>2
    <3> QED
      BY <1>2, <2>1, <3>1, <3>2, <3>3
  <2>2. CASE at[t] # "flush"
    BY <2>2 DEF Reply
  <2> QED
    BY <2>1, <2>2
<1>6. /\ j \in Jobs /\ l \in {"idle", "invalidate", "invalidate image"}
      /\ l = "invalidate" => /\ j.left # {} /\ ~j.keep /\ j.pages # {}
                             /\ j.loop = "invalidate" /\ j.next = "invalidate image"
  <2>1. CASE at[t] = "flush"
    <3>1. /\ job[t].pages # {} /\ ~job[t].keep
          /\ job[t].loop = "invalidate" /\ job[t].next = "invalidate image"
      BY <1>0, <1>1, <2>1 DEF GuestControl
    <3>2. l = IF left = {} THEN "invalidate image" ELSE "invalidate"
      BY <2>1, <3>1
    <3>3. left \in SUBSET Regions
      BY <1>2 DEF Jobs
    <3>4. j = [job[t] EXCEPT !.left = left]
      BY <2>1
    <3> HIDE DEF left, l, j, t
    <3>5. j \in Jobs
      BY <1>2, <3>3, <3>4 DEF Jobs
    <3>6. /\ j.left = left /\ j.keep = job[t].keep /\ j.pages = job[t].pages
          /\ j.loop = job[t].loop /\ j.next = job[t].next
      BY <1>2, <3>4 DEF Jobs
    <3> QED
      BY <3>1, <3>2, <3>5, <3>6
  <2>2. CASE at[t] # "flush"
    BY <2>2, NoJobIsJob
  <2> QED
    BY <2>1, <2>2
<1> HIDE DEF t, left, l, j
<1> QED
  BY <1>1, <1>2, <1>3, <1>5, <1>6

LEMMA ReplyStep ==
  ASSUME IInv, at[Gpu] \in {"idle", "read done", "reply"}, commands # <<>>, Reply(Head(commands)),
         UNCHANGED <<tracker, pageManager, calls, bufferCache, textureCache, failed>>
  PROVE  IInv'
<1>0. /\ TypeInv /\ GuestControl /\ GpuControl /\ QueueInv /\ LockInv /\ MLockInv
      /\ CallInv /\ WatchInv /\ ProtectInv /\ StrictInv
      /\ CopyInv /\ UnreadInv /\ GpuInv /\ ImageInv /\ NoStaleImage
  BY DEF IInv
<1>1. PICK t \in Guests, l \in {"idle", "invalidate", "invalidate image"}, j \in Jobs :
           /\ at' = [at EXCEPT ![t] = l, ![Gpu] = "idle"]
           /\ job' = [job EXCEPT ![t] = j, ![Gpu] = NoJob]
           /\ l = "invalidate" => /\ j.left # {} /\ ~j.keep /\ j.pages # {}
                                  /\ j.loop = "invalidate" /\ j.next = "invalidate image"
           /\ at[t] \in {"flush", "read"}
           /\ commands' \in Seq(Guests)
           /\ \A i \in 1..Len(commands') :
                commands'[i] # t /\ at[commands'[i]] \in {"flush", "read"}
           /\ \A i, k \in 1..Len(commands') : commands'[i] = commands'[k] => i = k
  BY Replied
<1>2. UNCHANGED <<cpu_dirty, gpu_dirty, tracker_lock, watchers, protection, protects, calls,
                  registered, gpu_ranges, copies, stale, unread, guests, ranges, image, tracked,
                  flags, m_lock, imageStale, edgesChanged, trimmed, failed>>
  BY DEF tracker, pageManager, bufferCache, textureCache, bounds
<1>3. t \in Threads /\ Gpu \in Threads /\ t # Gpu /\ Guests \subseteq Threads /\ Gpu \notin Guests
      /\ Gpu # None
  BY <1>1, Constants
<1>4. /\ at'[t] = l /\ at'[Gpu] = "idle" /\ job'[t] = j /\ job'[Gpu] = NoJob
      /\ \A u \in Threads \ {t, Gpu} : at'[u] = at[u] /\ job'[u] = job[u]
      /\ at' \in [Threads -> Labels] /\ job' \in [Threads -> Jobs]
  <2>1. at \in [Threads -> Labels] /\ job \in [Threads -> Jobs] /\ l \in Labels /\ "idle" \in Labels
    BY <1>0, <1>1 DEF TypeInv, Labels
  <2> QED
    BY <1>1, <1>3, <2>1, NoJobIsJob
<1>5. Ready(t) /\ Ready(Gpu)
  BY <1>0, <1>1, <1>3, NotWaiting DEF Waits, TrackerLabels, ImageLabels
<1>6. ~Uploading /\ m_lock # Gpu /\ gpu_dirty \subseteq gpu_ranges
  BY <1>0 DEF Uploading, Phase, MLockInv, GpuInv, Unmarked
<1>7. /\ CallInv' /\ WatchInv' /\ ProtectInv' /\ StrictInv'
      /\ PendCpu' = PendCpu /\ PendGpu' = PendGpu /\ PendImg' = PendImg
  <2>1. Keeps({t, Gpu})
    BY <1>2, <1>3, <1>4 DEF Keeps, pageManager
  <2>2. {t, Gpu} \in SUBSET Threads /\ {t, Gpu} # {} /\ \A u \in {t, Gpu} : Ready(u)
    BY <1>3, <1>5
  <2> QED
    BY <1>0, <1>2, <2>1, <2>2, NoCallStarts
<1>8. TypeInv'
  BY <1>0, <1>1, <1>2, <1>4 DEF TypeInv
<1>9. Phase' = "idle" /\ ~Uploading' /\ ~Serving' /\ UpCopies' = {} /\ UpCopies = {}
  <2>1. Phase' = "idle"
    BY <1>4 DEF Phase
  <2> QED
    BY <1>6, <2>1 DEF Uploading, Serving, UpCopies
<1>10. GuestControl'
  <2> SUFFICES ASSUME NEW u \in Guests
               PROVE  /\ at'[u] \in GuestLabels
                      /\ at'[u] \in {"invalidate", "flush", "end region"} =>
                           /\ job'[u].left # {} /\ ~job'[u].keep
                           /\ job'[u].loop = "invalidate" /\ job'[u].next = "invalidate image"
                      /\ at'[u] \in {"read", "invalidate", "flush", "end region"}
                           => job'[u].pages # {}
    BY DEF GuestControl
  <2>1. CASE u = t
    BY <1>1, <1>4, <2>1 DEF GuestLabels
  <2>2. CASE u # t
    BY <1>0, <1>3, <1>4, <2>2 DEF GuestControl
  <2> QED
    BY <2>1, <2>2
<1>11. GpuControl'
  <2>1. ~NoJob.keep
    BY DEF NoJob
  <2> QED
    BY <1>4, <1>9, <2>1 DEF GpuControl, GpuLabels, Loops
<1>12. QueueInv'
  <2>1. \A i \in 1..Len(commands') : commands'[i] \in Guests
    BY <1>1, ElementOfSeq
  <2>2. \A i \in 1..Len(commands') : at'[commands'[i]] \in {"flush", "read"}
    BY <1>1, <1>3, <1>4, <2>1
  <2> QED
    BY <1>1, <1>9, <2>2 DEF QueueInv
<1>13. LockInv'
  <2> SUFFICES ASSUME NEW u \in Threads, NEW r \in Regions, Holds(u, r)'
               PROVE  tracker_lock'[r] = u
    BY DEF LockInv
  <2>1. u \notin {t, Gpu}
    BY <1>1, <1>3, <1>4, <1>9 DEF Holds
  <2>2. Holds(u, r)
    BY <1>4, <2>1 DEF Holds, Current
  <2> QED
    BY <1>0, <1>2, <2>2 DEF LockInv
<1>14. MLockInv'
  BY <1>0, <1>1, <1>2, <1>3, <1>4, <1>6 DEF MLockInv
<1>15. CopyInv'
  BY <1>0, <1>2, <1>4, <1>9 DEF CopyInv
<1>16. UnreadInv'
  BY <1>0, <1>2, <1>7 DEF UnreadInv
<1>17. GpuInv'
  BY <1>2, <1>6, <1>9 DEF GpuInv, Unmarked
<1>18. ImageInv'
  BY <1>0, <1>2, <1>4, <1>6, <1>7, <1>9 DEF ImageInv, Firm
<1>19. NoStaleImage'
  BY <1>0, <1>2 DEF NoStaleImage
<1> QED
  BY <1>7, <1>8, <1>10, <1>11, <1>12, <1>13, <1>14, <1>15, <1>16, <1>17, <1>18, <1>19 DEF IInv

LEMMA ReplyToSenderStep ==
  ASSUME IInv, ReplyToSender
  PROVE  IInv'
<1>1. /\ at[Gpu] = "reply" /\ Reply(Head(commands))
      /\ UNCHANGED <<tracker, pageManager, calls, bufferCache, textureCache, failed>>
  BY DEF ReplyToSender
<1>2. commands # <<>>
  BY <1>1 DEF IInv, QueueInv, Serving, Phase
<1> QED
  BY <1>1, <1>2, ReplyStep

LEMMA ReadMemoryOnGpuStep ==
  ASSUME IInv, ReadMemoryOnGpu
  PROVE  IInv'
<1>0. /\ TypeInv /\ GuestControl /\ QueueInv /\ MLockInv
      /\ CopyInv /\ UnreadInv /\ GpuInv /\ ImageInv /\ NoStaleImage
  BY DEF IInv
<1> DEFINE t == Head(commands)
           is_write == at[t] = "flush"
           j == [NoJob EXCEPT !.pages = job[t].pages, !.write = is_write]
           l == IF copies' = {} THEN "read done" ELSE "download"
<1>1. /\ at[Gpu] = "idle" /\ commands # <<>>
      /\ UNCHANGED <<tracker, pageManager, calls, gpu_ranges, unread, textureCache, failed>>
      /\ \/ Reply(t) /\ UNCHANGED <<registered, stale, copies>>
         \/ /\ registered' = TRUE /\ UNCHANGED <<stale, commands>>
            /\ copies' = gpu_dirty \cap gpu_ranges
            /\ job' = [job EXCEPT ![Gpu] = j]
            /\ at' = [at EXCEPT ![Gpu] = l]
  BY DEF ReadMemoryOnGpu, FindBuffer, Goto
<1>2. CASE Reply(t) /\ UNCHANGED <<registered, stale, copies>>
  BY <1>1, <1>2, ReplyStep DEF bufferCache
<1>3. CASE /\ registered' = TRUE /\ UNCHANGED <<stale, commands>>
           /\ copies' = gpu_dirty \cap gpu_ranges
           /\ job' = [job EXCEPT ![Gpu] = j]
           /\ at' = [at EXCEPT ![Gpu] = l]
  <2>1. UNCHANGED <<cpu_dirty, gpu_dirty, tracker_lock, pageManager, calls, commands, gpu_ranges,
                    stale, unread, bounds, image, tracked, flags, m_lock, imageStale, edgesChanged,
                    trimmed, failed>>
    BY <1>1, <1>3 DEF tracker, textureCache
  <2>2. t \in Guests /\ at[t] \in {"flush", "read"}
    <3>1. commands \in Seq(Guests) /\ \A i, k \in 1..Len(commands) : commands[i] = commands[k] => i = k
      BY <1>0 DEF TypeInv, QueueInv
    <3>2. t \in Guests /\ \E k \in 1..Len(commands) : t = commands[k]
      BY <1>1, <3>1, QueueTail
    <3> QED
      BY <1>0, <3>2 DEF QueueInv
  <2>3. job[t].pages # {} /\ job[t].pages \in SUBSET Pages
    BY <1>0, <2>2, Constants DEF GuestControl, TypeInv, Jobs
  <2> HIDE DEF t
  <2>4. j \in Jobs /\ j.pages # {} /\ ~j.keep
    <3>1. is_write \in BOOLEAN
      OBVIOUS
    <3>2. NoJob \in Jobs /\ ~NoJob.keep
      BY NoJobIsJob DEF NoJob
    <3> HIDE DEF is_write
    <3>3. j \in Jobs
      BY <2>3, <3>1, <3>2 DEF Jobs
    <3>4. j.pages = job[t].pages /\ j.keep = NoJob.keep
      BY <3>2 DEF Jobs
    <3> QED
      BY <2>3, <3>2, <3>3, <3>4
  <2>5. l \in Resting \cap GpuLabels \cap {"download", "read done"}
    BY DEF Resting, GpuLabels
  <2> HIDE DEF j
  <2>6. Ready(Gpu) /\ Phase = "idle" /\ ~Uploading /\ m_lock # Gpu
    BY <1>0, <1>1, GpuNotWaiting
       DEF Waits, TrackerLabels, ImageLabels, Phase, Uploading, MLockInv
  <2>7. gpu_dirty \subseteq gpu_ranges /\ (l = "read done" => gpu_dirty = {} /\ unread = {})
    <3>1. gpu_dirty \subseteq gpu_ranges
      BY <1>0, <2>6 DEF GpuInv, Unmarked
    <3> QED
      BY <1>0, <1>3, <3>1 DEF UnreadInv
  <2>8. GpuGoes(l, j)
    <3>1. GpuKeeps /\ GpuTyped
      BY <1>0, <1>3, <2>1 DEF TypeInv, GpuKeeps, GpuTyped
    <3> QED
      BY <1>3, <2>4, <2>5, <3>1 DEF GpuGoes
  <2>9. l = "read done" \/ (l = "download" /\ copies' = gpu_dirty \cap gpu_ranges)
    BY <1>3
  <2> HIDE DEF l
  <2>10. /\ TypeInv' /\ CallInv' /\ WatchInv' /\ ProtectInv' /\ StrictInv'
         /\ PendGpu' = PendGpu /\ PendImg' = PendImg /\ protection' = protection
         /\ commands' = commands /\ image' = image
    BY <2>1, <2>6, <2>8, GpuGoesOn
  <2>11. /\ at'[Gpu] = l /\ Phase' = l /\ ~Uploading'
         /\ GuestControl' /\ GpuControl' /\ QueueInv' /\ LockInv' /\ MLockInv'
         /\ /\ cpu_dirty' \cap gpu_dirty' = {} /\ stale' \subseteq cpu_dirty'
            /\ \A p \in Pages : protection'[p] = "rw" => p \in cpu_dirty'
            => CopyInv'
    BY <1>1, <2>1, <2>4, <2>5, <2>6, <2>8, GpuRests
  <2>12. CopyInv'
    <3>1. UpCopies = {}
      BY <2>6 DEF UpCopies
    <3> QED
      BY <1>0, <2>1, <2>10, <2>11, <3>1 DEF CopyInv
  <2>13. UnreadInv' /\ NoStaleImage'
    BY <1>0, <2>1, <2>10 DEF UnreadInv, NoStaleImage
  <2>14. GpuInv'
    BY <2>1, <2>7, <2>9, <2>11 DEF GpuInv, Unmarked
  <2>15. ImageInv'
    BY <1>0, <2>1, <2>5, <2>6, <2>10, <2>11 DEF ImageInv, Firm
  <2> QED
    BY <2>10, <2>11, <2>12, <2>13, <2>14, <2>15 DEF IInv
<1> QED
  BY <1>1, <1>2, <1>3

LEMMA DownloadBufferMemoryStep ==
  ASSUME IInv, DownloadBufferMemory
  PROVE  IInv'
<1>0. /\ TypeInv /\ GpuControl /\ QueueInv /\ MLockInv
      /\ CopyInv /\ UnreadInv /\ GpuInv /\ ImageInv /\ NoStaleImage
  BY DEF IInv
<1> DEFINE next == IF at[Gpu] = "download" THEN "read done" ELSE "untrack"
           j == [job[Gpu] EXCEPT !.left = Regions, !.loop = "unmark", !.next = next]
<1>1. /\ at[Gpu] \in {"download", "collect download"}
      /\ unread' = unread \ copies /\ gpu_ranges' = gpu_ranges \ copies /\ copies' = {}
      /\ at' = [at EXCEPT ![Gpu] = "unmark"]
      /\ job' = [job EXCEPT ![Gpu].left = Regions, ![Gpu].loop = "unmark", ![Gpu].next = next]
      /\ UNCHANGED <<cpu_dirty, gpu_dirty, tracker_lock, pageManager, calls, commands, registered,
                     stale, bounds, image, tracked, flags, m_lock, imageStale, edgesChanged,
                     trimmed, failed>>
  BY DEF DownloadBufferMemory, tracker, textureCache
<1>2. /\ job[Gpu] \in Jobs /\ j \in Jobs /\ job' = [job EXCEPT ![Gpu] = j]
      /\ j.pages = job[Gpu].pages /\ j.left = Regions /\ j.loop = "unmark"
      /\ j.next = next /\ j.keep = job[Gpu].keep
  <2>1. job[Gpu] \in Jobs
    BY <1>0, Constants DEF TypeInv
  <2>2. job' = [job EXCEPT ![Gpu] = j]
    BY <1>0, <1>1, Constants DEF TypeInv
  <2>3. "unmark" \in Labels /\ next \in Labels
    BY DEF Labels
  <2> HIDE DEF next
  <2>4. j \in Jobs
    BY <2>1, <2>3 DEF Jobs
  <2>5. /\ j.pages = job[Gpu].pages /\ j.left = Regions /\ j.loop = "unmark"
        /\ j.next = next /\ j.keep = job[Gpu].keep
    BY <2>1 DEF Jobs
  <2> QED
    BY <2>1, <2>2, <2>4, <2>5
<1>3. Ready(Gpu) /\ Phase = at[Gpu] /\ ~Uploading /\ m_lock # Gpu
  BY <1>0, <1>1, GpuNotWaiting
     DEF Waits, TrackerLabels, ImageLabels, Phase, Uploading, MLockInv
<1>4. next \in {"read done", "untrack"} /\ (next = "read done" => Serving)
  BY <1>1, <1>3 DEF Serving
<1>5. Regions # {}
  <2>1. 1 \in Pages
    BY DEF Pages
  <2> QED
    BY <2>1, RegionNat
<1> HIDE DEF j, next
<1>6. unread' = {} /\ ~job[Gpu].keep
  BY <1>0, <1>1, <1>3 DEF GpuInv, UnreadInv, GpuControl
<1>7. GpuGoes("unmark", j)
  <2>1. GpuKeeps /\ GpuTyped
    BY <1>0, <1>1 DEF TypeInv, GpuKeeps, GpuTyped
  <2> QED
    BY <1>1, <1>2, <2>1 DEF GpuGoes, GpuLabels
<1>8. /\ TypeInv' /\ CallInv' /\ WatchInv' /\ ProtectInv' /\ StrictInv'
      /\ PendGpu' = PendGpu /\ PendImg' = PendImg /\ protection' = protection
      /\ commands' = commands /\ image' = image
  BY <1>1, <1>3, <1>7, GpuGoesOn
<1>9. /\ at'[Gpu] = "unmark" /\ job'[Gpu] = j /\ Phase' = "unmark" /\ ToDo' = Regions
      /\ GuestControl' /\ ((Serving' => commands # <<>>) => QueueInv')
      /\ (\A r \in Regions : Holds(Gpu, r)' => tracker_lock'[r] = Gpu) => LockInv'
      /\ \A u \in Guests : at'[u] = "end image" => m_lock' = u
  BY <1>2, <1>7, GpuMoves
<1>10. ~Uploading' /\ (Serving' => Serving) /\ UpCopies' = {} /\ UpCopies = {}
  <2>1. ~Uploading'
    BY <1>9 DEF Uploading
  <2>2. Serving' => next = "read done"
    BY <1>2, <1>9 DEF Serving
  <2> QED
    BY <1>3, <1>4, <2>1, <2>2 DEF UpCopies
<1>11. GpuControl'
  <2>1. Serving' => job[Gpu].pages # {}
    BY <1>0, <1>10 DEF GpuControl
  <2> QED
    BY <1>2, <1>4, <1>5, <1>6, <1>9, <1>10, <2>1 DEF GpuControl, GpuLabels, Loops
<1>12. QueueInv'
  BY <1>0, <1>9, <1>10 DEF QueueInv
<1>13. LockInv'
  BY <1>9, <1>10 DEF Holds
<1>14. MLockInv'
  BY <1>1, <1>3, <1>9 DEF MLockInv
<1>15. CopyInv'
  BY <1>0, <1>1, <1>8, <1>9, <1>10 DEF CopyInv
<1>16. UnreadInv'
  BY <1>6 DEF UnreadInv
<1>17. GpuInv'
  <2>1. \A p \in gpu_dirty' : RegionOf(p) \in Regions
    BY <1>0, <1>1, RegionNat DEF TypeInv
  <2> QED
    BY <1>6, <1>9, <2>1 DEF GpuInv, Unmarked, RegionOf
<1>18. ImageInv'
  BY <1>0, <1>1, <1>3, <1>8, <1>9, <1>10 DEF ImageInv, Firm
<1>19. NoStaleImage'
  BY <1>0, <1>1 DEF NoStaleImage
<1> QED
  BY <1>8, <1>9, <1>11, <1>12, <1>13, <1>14, <1>15, <1>16, <1>17, <1>18, <1>19 DEF IInv

LEMMA ReadDoneStep ==
  ASSUME IInv, ReadDone
  PROVE  IInv'
<1>0. /\ TypeInv /\ GpuControl /\ QueueInv /\ MLockInv
      /\ CopyInv /\ UnreadInv /\ GpuInv /\ ImageInv /\ NoStaleImage
  BY DEF IInv
<1> DEFINE S == job[Gpu].pages
           j == [pages |-> S, left |-> RegionsOf(S), write |-> FALSE, keep |-> FALSE,
                 loop |-> "mark cpu", next |-> "reply"]
<1>1. /\ at[Gpu] = "read done"
      /\ UNCHANGED <<tracker, pageManager, calls, bufferCache, textureCache, failed>>
      /\ \/ /\ at' = [at EXCEPT ![Gpu] = "mark cpu"] /\ job' = [job EXCEPT ![Gpu] = j]
            /\ commands' = commands
         \/ Reply(Head(commands))
  BY DEF ReadDone, Walk, Goto
<1>2. Phase = "read done" /\ Serving /\ ~Uploading /\ Ready(Gpu) /\ commands # <<>>
  <2>1. Phase = "read done" /\ Serving /\ ~Uploading
    BY <1>1 DEF Phase, Serving, Uploading
  <2>2. Ready(Gpu)
    BY <1>1, GpuNotWaiting DEF Waits, TrackerLabels, ImageLabels
  <2> QED
    BY <1>0, <2>1, <2>2 DEF QueueInv
<1>3. CASE Reply(Head(commands))
  BY <1>1, <1>2, <1>3, ReplyStep
<1>4. CASE /\ at' = [at EXCEPT ![Gpu] = "mark cpu"] /\ job' = [job EXCEPT ![Gpu] = j]
           /\ commands' = commands
  <2>1. UNCHANGED <<cpu_dirty, gpu_dirty, tracker_lock, pageManager, calls, commands, registered,
                    gpu_ranges, copies, stale, unread, bounds, image, tracked, flags, m_lock,
                    imageStale, edgesChanged, trimmed, failed>>
    BY <1>1, <1>4 DEF tracker, bufferCache, textureCache
  <2>2. S \in SUBSET Pages /\ S # {} /\ RegionsOf(S) \in SUBSET Regions /\ RegionsOf(S) # {}
    <3>1. S \in SUBSET Pages /\ S # {}
      BY <1>0, <1>2, Constants DEF TypeInv, Jobs, GpuControl
    <3>2. PICK p \in S : TRUE
      BY <3>1
    <3> QED
      BY <3>1, <3>2, RegionFacts DEF RegionsOf
  <2>3. /\ j \in Jobs /\ j.pages = S /\ j.left = RegionsOf(S) /\ ~j.keep
        /\ j.loop = "mark cpu" /\ j.next = "reply"
    <3>1. "mark cpu" \in Labels /\ "reply" \in Labels
      BY DEF Labels
    <3> QED
      BY <2>2, <3>1 DEF Jobs
  <2> HIDE DEF j, S
  <2>4. GpuGoes("mark cpu", j)
    <3>1. GpuKeeps /\ GpuTyped
      BY <1>0, <2>1 DEF TypeInv, GpuKeeps, GpuTyped
    <3> QED
      BY <1>4, <2>3, <3>1 DEF GpuGoes, GpuLabels
  <2>5. /\ TypeInv' /\ CallInv' /\ WatchInv' /\ ProtectInv' /\ StrictInv'
        /\ PendGpu' = PendGpu /\ PendImg' = PendImg /\ protection' = protection
        /\ commands' = commands /\ image' = image
    BY <1>2, <2>1, <2>4, GpuGoesOn
  <2>6. /\ at'[Gpu] = "mark cpu" /\ job'[Gpu] = j /\ Phase' = "mark cpu"
        /\ GuestControl' /\ ((Serving' => commands # <<>>) => QueueInv')
        /\ (\A r \in Regions : Holds(Gpu, r)' => tracker_lock'[r] = Gpu) => LockInv'
        /\ \A u \in Guests : at'[u] = "end image" => m_lock' = u
    BY <2>4, GpuMoves
  <2>7. ~Uploading' /\ UpCopies' = {} /\ UpCopies = {} /\ m_lock # Gpu
    BY <1>0, <1>1, <1>2, <2>6 DEF Uploading, UpCopies, MLockInv
  <2>8. GpuControl'
    BY <2>2, <2>3, <2>6, <2>7 DEF GpuControl, GpuLabels, Loops
  <2>9. LockInv'
    BY <2>6, <2>7 DEF Holds
  <2>10. MLockInv'
    BY <2>1, <2>6, <2>7 DEF MLockInv
  <2>11. CopyInv'
    BY <1>0, <2>1, <2>5, <2>6, <2>7 DEF CopyInv
  <2>12. UnreadInv' /\ NoStaleImage'
    BY <1>0, <2>1, <2>5 DEF UnreadInv, NoStaleImage
  <2>13. GpuInv'
    BY <1>0, <1>2, <2>1, <2>6 DEF GpuInv, Unmarked
  <2>14. ImageInv'
    BY <1>0, <2>1, <2>5, <2>6, <2>7 DEF ImageInv, Firm
  <2> QED
    BY <1>2, <2>5, <2>6, <2>8, <2>9, <2>10, <2>11, <2>12, <2>13, <2>14 DEF IInv
<1> QED
  BY <1>1, <1>3, <1>4

LEMMA RunGarbageCollectorStep ==
  ASSUME IInv, RunGarbageCollector
  PROVE  IInv'
<1>0. /\ TypeInv /\ GpuControl /\ MLockInv
      /\ CopyInv /\ UnreadInv /\ GpuInv /\ ImageInv /\ NoStaleImage
  BY DEF IInv
<1> DEFINE l == IF gpu_dirty = {} THEN "untrack" ELSE "collect download"
<1>1. /\ at[Gpu] = "idle" /\ copies' = gpu_dirty \cap gpu_ranges
      /\ failed' = (gpu_dirty # {} /\ copies' = {})
      /\ at' = [at EXCEPT ![Gpu] = l]
      /\ UNCHANGED <<cpu_dirty, gpu_dirty, tracker_lock, pageManager, calls, job, commands,
                     registered, gpu_ranges, stale, unread, bounds, image, tracked, flags, m_lock,
                     imageStale, edgesChanged, trimmed>>
  BY DEF RunGarbageCollector, Goto, tracker, textureCache
<1>2. Ready(Gpu) /\ Phase = "idle" /\ ~Uploading /\ m_lock # Gpu
  BY <1>0, <1>1, GpuNotWaiting
     DEF Waits, TrackerLabels, ImageLabels, Phase, Uploading, MLockInv
<1>3. /\ gpu_dirty \subseteq gpu_ranges /\ job[Gpu] \in Jobs /\ ~job[Gpu].keep
      /\ job' = [job EXCEPT ![Gpu] = job[Gpu]]
  BY <1>0, <1>1, <1>2, Constants DEF GpuInv, Unmarked, TypeInv, GpuControl
<1>4. ~(gpu_dirty # {} /\ copies' = {})
  BY <1>1, <1>3
<1>5. failed' = FALSE
  BY <1>1, <1>4
<1>6. /\ l \in Resting \cap GpuLabels \cap {"untrack", "collect download"}
      /\ l = "untrack" => gpu_dirty = {}
  BY DEF Resting, GpuLabels
<1> HIDE DEF l
<1>7. GpuGoes(l, job[Gpu])
  <2>1. GpuKeeps /\ GpuTyped
    BY <1>0, <1>1, <1>5 DEF TypeInv, GpuKeeps, GpuTyped
  <2> QED
    BY <1>1, <1>3, <1>6, <2>1 DEF GpuGoes
<1>8. /\ TypeInv' /\ CallInv' /\ WatchInv' /\ ProtectInv' /\ StrictInv'
      /\ PendGpu' = PendGpu /\ PendImg' = PendImg /\ protection' = protection
      /\ commands' = commands /\ image' = image
  BY <1>1, <1>2, <1>7, GpuGoesOn
<1>9. /\ at'[Gpu] = l /\ Phase' = l /\ ~Uploading'
      /\ GuestControl' /\ GpuControl' /\ QueueInv' /\ LockInv' /\ MLockInv'
      /\ /\ cpu_dirty' \cap gpu_dirty' = {} /\ stale' \subseteq cpu_dirty'
         /\ \A p \in Pages : protection'[p] = "rw" => p \in cpu_dirty'
         => CopyInv'
  BY <1>1, <1>2, <1>3, <1>6, <1>7, GpuRests
<1>10. CopyInv'
  <2>1. UpCopies = {}
    BY <1>2 DEF UpCopies
  <2> QED
    BY <1>0, <1>1, <1>8, <1>9, <2>1 DEF CopyInv
<1>11. UnreadInv' /\ NoStaleImage'
  BY <1>0, <1>1, <1>8 DEF UnreadInv, NoStaleImage
<1>12. GpuInv'
  <2>1. l = "untrack" => unread = {}
    BY <1>0, <1>6 DEF UnreadInv
  <2> QED
    BY <1>1, <1>3, <1>6, <1>9, <2>1 DEF GpuInv, Unmarked
<1>13. ImageInv'
  BY <1>0, <1>1, <1>2, <1>6, <1>8, <1>9 DEF ImageInv, Firm
<1> QED
  BY <1>8, <1>9, <1>10, <1>11, <1>12, <1>13 DEF IInv

LEMMA UntrackMemoryStep ==
  ASSUME IInv, UntrackMemory
  PROVE  IInv'
<1>0. /\ TypeInv /\ GpuControl /\ MLockInv
      /\ CopyInv /\ UnreadInv /\ GpuInv /\ ImageInv /\ NoStaleImage
  BY DEF IInv
<1> DEFINE c == CallsFor(Pages \ cpu_dirty, FALSE, FALSE)
<1>1. at[Gpu] = "untrack" /\ Phase = "untrack" /\ ~Uploading /\ Ready(Gpu)
  <2>1. at[Gpu] = "untrack"
    BY DEF UntrackMemory
  <2> QED
    BY <2>1, GpuNotWaiting DEF Waits, TrackerLabels, ImageLabels, Phase, Uploading
<1>2. gpu_dirty = {} /\ unread = {} /\ m_lock # Gpu
  BY <1>0, <1>1 DEF GpuInv, Unmarked, MLockInv
<1>3. /\ \A r \in Regions : tracker_lock[r] = None
      /\ tracker_lock' = [r \in Regions |-> Gpu]
      /\ cpu_dirty' = cpu_dirty \cup Pages /\ calls' = [calls EXCEPT ![Gpu] = c]
      /\ at' = [at EXCEPT ![Gpu] = "delete"]
      /\ UNCHANGED <<failed, gpu_dirty, pageManager, job, commands, registered, gpu_ranges, copies,
                     stale, unread, bounds, image, tracked, flags, m_lock, imageStale,
                     edgesChanged, trimmed>>
  <2>1. \A r \in Regions : tracker_lock[r] = None
    BY RegionFacts DEF UntrackMemory, AllFree
  <2> QED
    BY <1>2, <2>1 DEF UntrackMemory, SetCpuDirty, Goto, bufferCache, textureCache
<1>4. cpu_dirty' = Pages
  BY <1>0, <1>3 DEF TypeInv
<1>5. c.pages = Pages \ cpu_dirty /\ ~c.read /\ ~c.track
      /\ c \in [pages : SUBSET Pages, track : BOOLEAN, read : BOOLEAN]
  BY DEF CallsFor
<1>6. /\ job[Gpu] \in Jobs /\ ~job[Gpu].keep /\ job' = [job EXCEPT ![Gpu] = job[Gpu]]
  BY <1>0, <1>1, <1>3, Constants DEF TypeInv, GpuControl
<1> HIDE DEF c
<1>7. GpuGoes("delete", job[Gpu])
  <2>1. GpuTyped
    BY <1>0, <1>3, <1>4 DEF TypeInv, GpuTyped
  <2>2. GpuKeeps
    BY <1>0, <1>3, Constants DEF TypeInv, GpuKeeps
  <2> QED
    BY <1>3, <1>6, <2>1, <2>2 DEF GpuGoes, GpuLabels
<1>8. /\ at'[Gpu] = "delete" /\ job'[Gpu] = job[Gpu] /\ Phase' = "delete"
      /\ GuestControl' /\ ((Serving' => commands # <<>>) => QueueInv')
      /\ (\A r \in Regions : Holds(Gpu, r)' => tracker_lock'[r] = Gpu) => LockInv'
      /\ \A u \in Guests : at'[u] = "end image" => m_lock' = u
  BY <1>7, GpuMoves
<1>9. ~Uploading' /\ ~Serving' /\ UpCopies' = {} /\ UpCopies = {}
  BY <1>1, <1>8 DEF Uploading, Serving, UpCopies
<1>10. Starts(Gpu, c)
  <2>1. "delete" \in TrackerLabels /\ "delete" \notin ImageLabels
    BY DEF TrackerLabels, ImageLabels
  <2>2. \A p \in c.pages : RegionOf(p) \in Regions /\ p \in Pages /\ p \notin cpu_dirty
    BY <1>5, RegionNat
  <2>3. CallRight(Gpu)' \/ c.pages = {}
    <3>1. calls'[Gpu] = c
      BY <1>0, <1>3, Constants DEF TypeInv
    <3>2. \A p \in c.pages : tracker_lock'[RegionOf(p)] = Gpu
      BY <1>3, <2>2
    <3>3. c.pages \subseteq cpu_dirty'
      BY <1>4, <2>2
    <3> QED
      BY <1>5, <1>8, <2>1, <3>1, <3>2, <3>3 DEF CallRight, RegionOf
  <2> QED
    BY <1>3, <1>4, <1>5, <1>8, <2>1, <2>2, <2>3 DEF Starts
<1>11. /\ TypeInv' /\ CallInv' /\ WatchInv' /\ ProtectInv' /\ StrictInv'
       /\ PendGpu' = PendGpu \cup (IF c.read THEN c.pages ELSE {})
       /\ PendImg' = PendImg \cup (IF "delete" \in ImageLabels THEN c.pages ELSE {})
       /\ protection' = protection /\ commands' = commands /\ image' = image
  BY <1>1, <1>5, <1>7, <1>10, GpuCalls
<1>12. PendImg' = PendImg
  BY <1>11 DEF ImageLabels
<1>13. GpuControl'
  BY <1>6, <1>8, <1>9 DEF GpuControl, GpuLabels, Loops
<1>14. QueueInv' /\ MLockInv'
  BY <1>2, <1>3, <1>8, <1>9 DEF MLockInv
<1>15. LockInv'
  BY <1>3, <1>8
<1>16. CopyInv'
  BY <1>0, <1>2, <1>3, <1>4, <1>8, <1>9 DEF CopyInv, TypeInv
<1>17. UnreadInv' /\ NoStaleImage'
  BY <1>0, <1>2, <1>3 DEF UnreadInv, NoStaleImage
<1>18. GpuInv'
  BY <1>2, <1>3, <1>8 DEF GpuInv, Unmarked
<1>19. ImageInv'
  BY <1>0, <1>2, <1>3, <1>8, <1>9, <1>11, <1>12 DEF ImageInv, Firm
<1> QED
  BY <1>8, <1>11, <1>13, <1>14, <1>15, <1>16, <1>17, <1>18, <1>19 DEF IInv

LEMMA DeleteBufferStep ==
  ASSUME IInv, DeleteBuffer
  PROVE  IInv'
<1>0. /\ TypeInv /\ LockInv /\ MLockInv
      /\ CopyInv /\ UnreadInv /\ GpuInv /\ ImageInv /\ NoStaleImage
  BY DEF IInv
<1>1. /\ at[Gpu] = "delete" /\ Ready(Gpu)
      /\ tracker_lock' = [r \in Regions |-> None] /\ registered' = FALSE /\ stale' = Pages
      /\ at' = [at EXCEPT ![Gpu] = "idle"] /\ job' = [job EXCEPT ![Gpu] = NoJob]
      /\ UNCHANGED <<cpu_dirty, gpu_dirty, pageManager, calls, commands, gpu_ranges, copies,
                     unread, bounds, image, tracked, flags, m_lock, imageStale, edgesChanged,
                     trimmed, failed>>
  BY DEF DeleteBuffer, Goto, textureCache
<1>2. /\ Phase = "delete" /\ ~Uploading /\ m_lock # Gpu /\ cpu_dirty = Pages
      /\ gpu_dirty = {} /\ unread = {}
  <2>1. Phase = "delete" /\ ~Uploading
    BY <1>1 DEF Phase, Uploading
  <2> QED
    BY <1>0, <1>1, <2>1 DEF MLockInv, CopyInv, GpuInv, Unmarked
<1>3. \A r \in Regions : tracker_lock[r] = Gpu
  BY <1>0, <1>1, Constants DEF LockInv, Holds
<1>4. GpuGoes("idle", NoJob)
  <2>1. GpuTyped
    BY <1>0, <1>1 DEF TypeInv, GpuTyped
  <2>2. GpuKeeps
    BY <1>0, <1>1, <1>3, Constants DEF TypeInv, GpuKeeps
  <2> QED
    BY <1>1, <2>1, <2>2, NoJobIsJob DEF GpuGoes, GpuLabels
<1>5. /\ TypeInv' /\ CallInv' /\ WatchInv' /\ ProtectInv' /\ StrictInv'
      /\ PendGpu' = PendGpu /\ PendImg' = PendImg /\ protection' = protection
      /\ commands' = commands /\ image' = image
  BY <1>1, <1>4, GpuGoesOn
<1>6. /\ at'[Gpu] = "idle" /\ Phase' = "idle" /\ ~Uploading'
      /\ GuestControl' /\ GpuControl' /\ QueueInv' /\ LockInv' /\ MLockInv'
      /\ /\ cpu_dirty' \cap gpu_dirty' = {} /\ stale' \subseteq cpu_dirty'
         /\ \A p \in Pages : protection'[p] = "rw" => p \in cpu_dirty'
         => CopyInv'
  <2>1. ~NoJob.keep
    BY DEF NoJob
  <2> QED
    BY <1>1, <1>2, <1>4, <2>1, GpuRests DEF Resting
<1>7. CopyInv'
  BY <1>1, <1>2, <1>6
<1>8. UnreadInv' /\ NoStaleImage'
  BY <1>0, <1>1, <1>2 DEF UnreadInv, NoStaleImage
<1>9. GpuInv'
  BY <1>1, <1>2, <1>6 DEF GpuInv, Unmarked
<1>10. ImageInv'
  BY <1>0, <1>1, <1>2, <1>5, <1>6 DEF ImageInv, Firm
<1> QED
  BY <1>5, <1>6, <1>7, <1>8, <1>9, <1>10 DEF IInv

LEMMA RefreshImageStep ==
  ASSUME IInv, RefreshImage
  PROVE  IInv'
<1>0. /\ TypeInv /\ GpuControl /\ MLockInv /\ CallInv /\ WatchInv
      /\ CopyInv /\ UnreadInv /\ GpuInv /\ ImageInv /\ NoStaleImage
  BY DEF IInv
<1> DEFINE c == CallsFor(image \ tracked, TRUE, FALSE)
<1>1. /\ at[Gpu] = "idle" /\ image # {} /\ m_lock = None /\ m_lock' = Gpu /\ tracked' = image
      /\ calls' = [calls EXCEPT ![Gpu] = c]
      /\ at' = [at EXCEPT ![Gpu] = "refresh"]
      /\ UNCHANGED <<cpu_dirty, gpu_dirty, tracker_lock, pageManager, job, commands, registered,
                     gpu_ranges, copies, stale, unread, bounds, image, flags, imageStale,
                     edgesChanged, trimmed, failed>>
  BY DEF RefreshImage, Goto, tracker, bufferCache
<1>2. Ready(Gpu) /\ Phase = "idle" /\ ~Uploading
  BY <1>1, GpuNotWaiting DEF Waits, TrackerLabels, ImageLabels, Phase, Uploading
<1>3. /\ image \in SUBSET Pages /\ tracked \in SUBSET image
      /\ job[Gpu] \in Jobs /\ ~job[Gpu].keep /\ job' = [job EXCEPT ![Gpu] = job[Gpu]]
  BY <1>0, <1>1, <1>2, Constants DEF TypeInv, GpuControl
<1>4. c.pages = image \ tracked /\ ~c.read /\ (c.pages # {} => c.track)
      /\ c \in [pages : SUBSET Pages, track : BOOLEAN, read : BOOLEAN]
  BY <1>3 DEF CallsFor
<1> HIDE DEF c
<1>5. GpuGoes("refresh", job[Gpu])
  <2>1. GpuTyped
    BY <1>0, <1>1 DEF TypeInv, GpuTyped
  <2>2. GpuKeeps
    BY <1>0, <1>1, Constants DEF TypeInv, GpuKeeps
  <2> QED
    BY <1>1, <1>3, <2>1, <2>2 DEF GpuGoes, GpuLabels
<1>6. /\ at'[Gpu] = "refresh" /\ Phase' = "refresh" /\ ~Uploading'
      /\ GuestControl' /\ GpuControl' /\ QueueInv' /\ LockInv' /\ MLockInv'
      /\ /\ cpu_dirty' \cap gpu_dirty' = {} /\ stale' \subseteq cpu_dirty'
         /\ \A p \in Pages : protection'[p] = "rw" => p \in cpu_dirty'
         => CopyInv'
  BY <1>1, <1>3, <1>5, GpuRests DEF Resting
<1>7. "refresh" \in ImageLabels /\ "refresh" \notin TrackerLabels
  BY DEF TrackerLabels, ImageLabels
<1>8. Starts(Gpu, c)
  <2>1. CallRight(Gpu)' \/ c.pages = {}
    <3>1. calls'[Gpu] = c
      BY <1>0, <1>1, Constants DEF TypeInv
    <3> QED
      BY <1>1, <1>4, <1>6, <1>7, <3>1 DEF CallRight
  <2>2. \A p \in Pages : p \in tracked' <=> IF p \in c.pages THEN p \notin tracked ELSE p \in tracked
    BY <1>1, <1>3, <1>4
  <2> QED
    BY <1>1, <1>4, <1>6, <1>7, <2>1, <2>2 DEF Starts
<1>9. /\ TypeInv' /\ CallInv' /\ WatchInv' /\ ProtectInv' /\ StrictInv'
      /\ PendGpu' = PendGpu \cup (IF c.read THEN c.pages ELSE {})
      /\ PendImg' = PendImg \cup (IF "refresh" \in ImageLabels THEN c.pages ELSE {})
      /\ protection' = protection /\ commands' = commands /\ image' = image
  BY <1>2, <1>4, <1>5, <1>8, GpuCalls
<1>10. PendGpu' = PendGpu /\ PendImg' = PendImg \cup (image \ tracked)
  BY <1>4, <1>7, <1>9
<1>11. CopyInv'
  <2>1. UpCopies = {}
    BY <1>2 DEF UpCopies
  <2> QED
    BY <1>0, <1>1, <1>6, <1>9, <2>1 DEF CopyInv
<1>12. UnreadInv' /\ NoStaleImage'
  BY <1>0, <1>1, <1>9, <1>10 DEF UnreadInv, NoStaleImage
<1>13. GpuInv'
  BY <1>0, <1>1, <1>2, <1>6 DEF GpuInv, Unmarked
<1>14. ImageInv'
  <2>1. ~flags.cpu /\ ~flags.maybe =>
          \A p \in image \ trimmed : p \in tracked' /\ p \notin PendImg' /\ protection[p] # "rw"
    BY <1>0, <1>1, <1>10 DEF ImageInv
  <2> QED
    BY <1>1, <1>6, <1>9, <2>1 DEF ImageInv, Firm
<1> QED
  BY <1>6, <1>9, <1>11, <1>12, <1>13, <1>14 DEF IInv

LEMMA ReplaceImageStep ==
  ASSUME IInv, ReplaceImage
  PROVE  IInv'
<1>0. /\ TypeInv /\ GpuControl /\ MLockInv /\ CallInv /\ WatchInv
      /\ CopyInv /\ UnreadInv /\ GpuInv /\ ImageInv /\ NoStaleImage
  BY DEF IInv
<1> DEFINE c == CallsFor(tracked, FALSE, FALSE)
           buffer == image \cap gpu_ranges # {}
<1>1. /\ at[Gpu] = "idle" /\ m_lock = None /\ m_lock' = Gpu /\ tracked' = {}
      /\ calls' = [calls EXCEPT ![Gpu] = c]
      /\ flags' = [cpu |-> TRUE, maybe |-> FALSE, buffer |-> buffer]
      /\ edgesChanged' = FALSE /\ imageStale' = image /\ trimmed' = {}
      /\ at' = [at EXCEPT ![Gpu] = "replace"]
      /\ UNCHANGED <<cpu_dirty, gpu_dirty, tracker_lock, pageManager, job, commands, registered,
                     gpu_ranges, copies, stale, unread, bounds, image, failed>>
  BY DEF ReplaceImage, Forget, Goto, tracker, bufferCache
<1>2. Ready(Gpu) /\ Phase = "idle" /\ ~Uploading
  BY <1>1, GpuNotWaiting DEF Waits, TrackerLabels, ImageLabels, Phase, Uploading
<1>3. /\ image \in SUBSET Pages /\ tracked \in SUBSET Pages
      /\ job[Gpu] \in Jobs /\ ~job[Gpu].keep /\ job' = [job EXCEPT ![Gpu] = job[Gpu]]
  BY <1>0, <1>1, <1>2, Constants DEF TypeInv, GpuControl
<1>4. c.pages = tracked /\ ~c.read /\ ~c.track
      /\ c \in [pages : SUBSET Pages, track : BOOLEAN, read : BOOLEAN]
  BY <1>3 DEF CallsFor
<1>5. buffer \in BOOLEAN
  OBVIOUS
<1> HIDE DEF c, buffer
<1>6. flags' \in [cpu : BOOLEAN, maybe : BOOLEAN, buffer : BOOLEAN] /\ flags'.cpu
  BY <1>1, <1>5
<1>7. GpuGoes("replace", job[Gpu])
  <2>1. GpuTyped
    BY <1>0, <1>1, <1>6 DEF TypeInv, GpuTyped
  <2>2. GpuKeeps
    BY <1>0, <1>1, Constants DEF TypeInv, GpuKeeps
  <2> QED
    BY <1>1, <1>3, <2>1, <2>2 DEF GpuGoes, GpuLabels
<1>8. /\ at'[Gpu] = "replace" /\ Phase' = "replace" /\ ~Uploading'
      /\ GuestControl' /\ GpuControl' /\ QueueInv' /\ LockInv' /\ MLockInv'
      /\ /\ cpu_dirty' \cap gpu_dirty' = {} /\ stale' \subseteq cpu_dirty'
         /\ \A p \in Pages : protection'[p] = "rw" => p \in cpu_dirty'
         => CopyInv'
  BY <1>1, <1>3, <1>7, GpuRests DEF Resting
<1>9. "replace" \in ImageLabels /\ "replace" \notin TrackerLabels
  BY DEF TrackerLabels, ImageLabels
<1>10. Starts(Gpu, c)
  <2>1. CallRight(Gpu)' \/ c.pages = {}
    <3>1. calls'[Gpu] = c
      BY <1>0, <1>1, Constants DEF TypeInv
    <3> QED
      BY <1>1, <1>4, <1>8, <1>9, <3>1 DEF CallRight
  <2>2. \A p \in Pages : p \in tracked' <=> IF p \in c.pages THEN p \notin tracked ELSE p \in tracked
    BY <1>1, <1>4
  <2> QED
    BY <1>1, <1>4, <1>8, <1>9, <2>1, <2>2 DEF Starts
<1>11. /\ TypeInv' /\ CallInv' /\ WatchInv' /\ ProtectInv' /\ StrictInv'
       /\ PendGpu' = PendGpu \cup (IF c.read THEN c.pages ELSE {})
       /\ PendImg' = PendImg \cup (IF "replace" \in ImageLabels THEN c.pages ELSE {})
       /\ protection' = protection /\ commands' = commands /\ image' = image
  BY <1>2, <1>4, <1>7, <1>10, GpuCalls
<1>12. CopyInv'
  <2>1. UpCopies = {}
    BY <1>2 DEF UpCopies
  <2> QED
    BY <1>0, <1>1, <1>8, <1>11, <2>1 DEF CopyInv
<1>13. UnreadInv' /\ NoStaleImage'
  BY <1>0, <1>1, <1>4, <1>6, <1>11 DEF UnreadInv, NoStaleImage
<1>14. GpuInv'
  BY <1>0, <1>1, <1>2, <1>8 DEF GpuInv, Unmarked
<1>15. ImageInv'
  BY <1>6, <1>8 DEF ImageInv, Firm
<1> QED
  BY <1>8, <1>11, <1>12, <1>13, <1>14, <1>15 DEF IInv

LEMMA ReplaceDoneStep ==
  ASSUME IInv, ReplaceDone
  PROVE  IInv'
<1>0. /\ TypeInv /\ GpuControl /\ MLockInv
      /\ CopyInv /\ UnreadInv /\ GpuInv /\ ImageInv /\ NoStaleImage
  BY DEF IInv
<1>1. /\ at[Gpu] = "replace" /\ Ready(Gpu) /\ m_lock' = None
      /\ at' = [at EXCEPT ![Gpu] = "idle"]
      /\ UNCHANGED <<cpu_dirty, gpu_dirty, tracker_lock, pageManager, calls, job, commands,
                     registered, gpu_ranges, copies, stale, unread, bounds, image, tracked, flags,
                     imageStale, edgesChanged, trimmed, failed>>
  BY DEF ReplaceDone, Goto, tracker, bufferCache
<1>2. Phase = "replace" /\ ~Uploading /\ m_lock = Gpu /\ Gpu # None
  BY <1>0, <1>1, Constants DEF Phase, Uploading, MLockInv
<1>3. job[Gpu] \in Jobs /\ ~job[Gpu].keep /\ job' = [job EXCEPT ![Gpu] = job[Gpu]]
  BY <1>0, <1>1, <1>2, Constants DEF TypeInv, GpuControl
<1>4. GpuGoes("idle", job[Gpu])
  <2>1. GpuTyped
    BY <1>0, <1>1 DEF TypeInv, GpuTyped
  <2>2. GpuKeeps
    BY <1>0, <1>1, <1>2, Constants DEF TypeInv, GpuKeeps
  <2> QED
    BY <1>1, <1>3, <2>1, <2>2 DEF GpuGoes, GpuLabels
<1>5. /\ TypeInv' /\ CallInv' /\ WatchInv' /\ ProtectInv' /\ StrictInv'
      /\ PendGpu' = PendGpu /\ PendImg' = PendImg /\ protection' = protection
      /\ commands' = commands /\ image' = image
  BY <1>1, <1>4, GpuGoesOn
<1>6. /\ at'[Gpu] = "idle" /\ Phase' = "idle" /\ ~Uploading'
      /\ GuestControl' /\ GpuControl' /\ QueueInv' /\ LockInv' /\ MLockInv'
      /\ /\ cpu_dirty' \cap gpu_dirty' = {} /\ stale' \subseteq cpu_dirty'
         /\ \A p \in Pages : protection'[p] = "rw" => p \in cpu_dirty'
         => CopyInv'
  BY <1>1, <1>2, <1>3, <1>4, GpuRests DEF Resting
<1>7. CopyInv'
  <2>1. UpCopies = {}
    BY <1>2 DEF UpCopies
  <2> QED
    BY <1>0, <1>1, <1>5, <1>6, <2>1 DEF CopyInv
<1>8. UnreadInv' /\ NoStaleImage'
  BY <1>0, <1>1, <1>5 DEF UnreadInv, NoStaleImage
<1>9. GpuInv'
  BY <1>0, <1>1, <1>2, <1>6 DEF GpuInv, Unmarked
<1>10. ImageInv'
  BY <1>0, <1>1, <1>2, <1>5, <1>6 DEF ImageInv, Firm
<1> QED
  BY <1>5, <1>6, <1>7, <1>8, <1>9, <1>10 DEF IInv

LEMMA UploadImageStep ==
  ASSUME IInv, UploadImage
  PROVE  IInv'
<1>0. /\ TypeInv /\ GpuControl /\ MLockInv
      /\ CopyInv /\ UnreadInv /\ GpuInv /\ ImageInv /\ NoStaleImage
  BY DEF IInv
<1>1. /\ at[Gpu] \in {"image copy", "image read"} /\ m_lock' = None
      /\ imageStale' = IF at[Gpu] = "image copy" THEN imageStale \cap stale ELSE {}
      /\ trimmed' = {} /\ flags' = [cpu |-> FALSE, maybe |-> FALSE, buffer |-> FALSE]
      /\ edgesChanged' = FALSE /\ at' = [at EXCEPT ![Gpu] = "idle"]
      /\ UNCHANGED <<cpu_dirty, gpu_dirty, tracker_lock, pageManager, calls, job, commands,
                     registered, gpu_ranges, copies, stale, unread, bounds, image, tracked, failed>>
  BY DEF UploadImage, Goto, tracker, bufferCache
<1>2. Phase = at[Gpu] /\ ~Uploading /\ m_lock = Gpu /\ Gpu # None /\ Ready(Gpu)
  BY <1>0, <1>1, GpuNotWaiting, Constants
     DEF Waits, TrackerLabels, ImageLabels, Phase, Uploading, MLockInv
<1>3. job[Gpu] \in Jobs /\ ~job[Gpu].keep /\ job' = [job EXCEPT ![Gpu] = job[Gpu]]
  BY <1>0, <1>1, <1>2, Constants DEF TypeInv, GpuControl
<1>4. imageStale' = {}
  BY <1>0, <1>1 DEF TypeInv, ImageInv
<1>5. GpuGoes("idle", job[Gpu])
  <2>1. GpuTyped
    BY <1>0, <1>1, <1>4 DEF TypeInv, GpuTyped
  <2>2. GpuKeeps
    BY <1>0, <1>1, <1>2, Constants DEF TypeInv, GpuKeeps
  <2> QED
    BY <1>1, <1>3, <2>1, <2>2 DEF GpuGoes, GpuLabels
<1>6. /\ TypeInv' /\ CallInv' /\ WatchInv' /\ ProtectInv' /\ StrictInv'
      /\ PendGpu' = PendGpu /\ PendImg' = PendImg /\ protection' = protection
      /\ commands' = commands /\ image' = image
  BY <1>1, <1>2, <1>5, GpuGoesOn
<1>7. /\ at'[Gpu] = "idle" /\ Phase' = "idle" /\ ~Uploading'
      /\ GuestControl' /\ GpuControl' /\ QueueInv' /\ LockInv' /\ MLockInv'
      /\ /\ cpu_dirty' \cap gpu_dirty' = {} /\ stale' \subseteq cpu_dirty'
         /\ \A p \in Pages : protection'[p] = "rw" => p \in cpu_dirty'
         => CopyInv'
  BY <1>1, <1>2, <1>3, <1>5, GpuRests DEF Resting
<1>8. CopyInv'
  <2>1. UpCopies = {}
    BY <1>2 DEF UpCopies
  <2> QED
    BY <1>0, <1>1, <1>6, <1>7, <2>1 DEF CopyInv
<1>9. UnreadInv' /\ NoStaleImage'
  BY <1>0, <1>1, <1>4, <1>6 DEF UnreadInv, NoStaleImage
<1>10. GpuInv'
  BY <1>0, <1>1, <1>2, <1>7 DEF GpuInv, Unmarked
<1>11. ImageInv'
  <2>1. \A p \in image : p \in tracked /\ p \notin PendImg /\ protection[p] # "rw"
    <3>1. tracked = image
      BY <1>0, <1>1, <1>2 DEF ImageInv
    <3>2. PendImg = {} /\ \A p \in Pages : p \in tracked => protection[p] # "rw"
      BY <1>2, GpuReady
    <3> QED
      BY <1>0, <3>1, <3>2 DEF TypeInv
  <2> QED
    BY <1>1, <1>2, <1>6, <1>7, <2>1 DEF ImageInv, Firm
<1> QED
  BY <1>6, <1>7, <1>8, <1>9, <1>10, <1>11 DEF IInv

LEMMA ResolveImageStep ==
  ASSUME IInv, ResolveImage
  PROVE  IInv'
<1>0. /\ TypeInv /\ GpuControl /\ MLockInv
      /\ CopyInv /\ UnreadInv /\ GpuInv /\ ImageInv /\ NoStaleImage
  BY DEF IInv
<1> DEFINE cpu == flags.cpu \/ (flags.maybe /\ edgesChanged)
           upload == cpu \/ flags.buffer
           w == [pages |-> image, left |-> RegionsOf(image), write |-> FALSE, keep |-> FALSE,
                 loop |-> "upload", next |-> "copy"]
<1>1. /\ at[Gpu] = "refresh" /\ Ready(Gpu)
      /\ flags' = [flags EXCEPT !.cpu = cpu, !.maybe = FALSE]
      /\ edgesChanged' = FALSE /\ copies' = {}
      /\ m_lock' = IF upload THEN Gpu ELSE None
      /\ \/ /\ upload /\ registered' = TRUE
            /\ at' = [at EXCEPT ![Gpu] = "upload"] /\ job' = [job EXCEPT ![Gpu] = w]
         \/ /\ upload /\ registered' = registered
            /\ at' = [at EXCEPT ![Gpu] = "image read"] /\ job' = job
         \/ /\ ~upload /\ registered' = registered
            /\ at' = [at EXCEPT ![Gpu] = "idle"] /\ job' = job
      /\ UNCHANGED <<cpu_dirty, gpu_dirty, tracker_lock, pageManager, calls, commands, gpu_ranges,
                     stale, unread, bounds, image, tracked, imageStale, trimmed, failed>>
  BY DEF ResolveImage, Walk, Goto, FindBuffer, tracker
<1>2. Phase = "refresh" /\ ~Uploading /\ m_lock = Gpu /\ Gpu # None /\ image # {}
  BY <1>0, <1>1, Constants DEF Phase, Uploading, MLockInv, GpuControl
<1>3. /\ flags \in [cpu : BOOLEAN, maybe : BOOLEAN, buffer : BOOLEAN]
      /\ cpu \in BOOLEAN /\ (cpu <=> flags.cpu \/ (flags.maybe /\ edgesChanged))
      /\ upload <=> cpu \/ flags.buffer
  BY <1>0 DEF TypeInv
<1>4. /\ image \in SUBSET Pages /\ RegionsOf(image) \in SUBSET Regions /\ RegionsOf(image) # {}
  <2>1. image \in SUBSET Pages
    BY <1>0 DEF TypeInv
  <2>2. PICK p \in image : TRUE
    BY <1>2
  <2> QED
    BY <2>1, <2>2, RegionFacts DEF RegionsOf
<1>5. /\ w \in Jobs /\ w.pages = image /\ w.left = RegionsOf(image) /\ ~w.write /\ ~w.keep
      /\ w.loop = "upload" /\ w.next = "copy"
  <2>1. "upload" \in Labels /\ "copy" \in Labels
    BY DEF Labels
  <2> QED
    BY <1>4, <2>1 DEF Jobs
<1> HIDE DEF w, cpu, upload
<1>6. /\ flags' \in [cpu : BOOLEAN, maybe : BOOLEAN, buffer : BOOLEAN]
      /\ flags'.cpu = cpu /\ ~flags'.maybe /\ flags'.buffer = flags.buffer
  BY <1>1, <1>3
<1>7. GpuTyped /\ GpuKeeps
  <2>1. registered' \in BOOLEAN
    BY <1>0, <1>1 DEF TypeInv
  <2>2. GpuTyped
    BY <1>0, <1>1, <1>6, <2>1 DEF TypeInv, GpuTyped
  <2>3. m_lock' \in Threads \cup {None} /\ \A u \in Guests : m_lock = u => m_lock' = u
    BY <1>1, <1>2, Constants
  <2> QED
    BY <1>0, <1>1, <2>2, <2>3 DEF TypeInv, GpuKeeps
<1>8. NoStaleImage'
  BY <1>0, <1>1, <1>3, <1>6 DEF NoStaleImage
<1>9. /\ tracked = image /\ PendImg = {}
      /\ \A p \in image : p \in tracked /\ p \notin PendImg /\ protection[p] # "rw"
  <2>1. tracked = image
    BY <1>0, <1>1, <1>2 DEF ImageInv
  <2>2. PendImg = {} /\ \A p \in Pages : p \in tracked => protection[p] # "rw"
    BY <1>1, <1>2, GpuReady
  <2> QED
    BY <1>4, <2>1, <2>2
<1>10. /\ cpu_dirty \cap gpu_dirty = {} /\ stale \subseteq cpu_dirty
       /\ \A p \in Pages : protection[p] = "rw" => p \in cpu_dirty
       /\ gpu_dirty \subseteq gpu_ranges
  <2>1. UpCopies = {}
    BY <1>2 DEF UpCopies
  <2> QED
    BY <1>0, <1>2, <2>1 DEF CopyInv, GpuInv, Unmarked
<1>11. CASE /\ upload /\ at' = [at EXCEPT ![Gpu] = "upload"] /\ job' = [job EXCEPT ![Gpu] = w]
  <2>1. GpuGoes("upload", w)
    BY <1>5, <1>7, <1>11 DEF GpuGoes, GpuLabels
  <2>2. /\ TypeInv' /\ CallInv' /\ WatchInv' /\ ProtectInv' /\ StrictInv'
        /\ PendGpu' = PendGpu /\ PendImg' = PendImg /\ protection' = protection
        /\ commands' = commands /\ image' = image
    BY <1>1, <2>1, GpuGoesOn
  <2>3. /\ at'[Gpu] = "upload" /\ job'[Gpu] = w /\ Phase' = "upload" /\ ToDo' = RegionsOf(image)
        /\ GuestControl' /\ ((Serving' => commands # <<>>) => QueueInv')
        /\ (\A r \in Regions : Holds(Gpu, r)' => tracker_lock'[r] = Gpu) => LockInv'
        /\ \A u \in Guests : at'[u] = "end image" => m_lock' = u
    BY <1>5, <2>1, GpuMoves
  <2>4. Uploading' /\ ~Serving' /\ UpCopies' = {}
    BY <1>1, <2>3 DEF Uploading, Serving, UpCopies
  <2>5. GpuControl'
    BY <1>2, <1>4, <1>5, <2>3, <2>4 DEF GpuControl, GpuLabels, Loops
  <2>6. LockInv'
    BY <1>5, <2>3 DEF Holds
  <2>7. MLockInv'
    BY <1>1, <1>5, <1>11, <2>2, <2>3, <2>4 DEF MLockInv
  <2>8. CopyInv'
    BY <1>1, <1>5, <1>10, <2>2, <2>3, <2>4 DEF CopyInv
  <2>9. UnreadInv'
    BY <1>0, <1>1, <2>2 DEF UnreadInv
  <2>10. GpuInv'
    BY <1>1, <1>10, <2>3 DEF GpuInv, Unmarked
  <2>11. ImageInv'
    <3>1. \A p \in image : RegionOf(p) \in ToDo'
      BY <1>4, <2>3, RegionFacts
    <3> QED
      BY <1>1, <1>5, <1>9, <2>2, <2>3, <2>4, <3>1 DEF ImageInv, Firm, RegionOf
  <2> QED
    BY <1>8, <2>2, <2>3, <2>4, <2>5, <2>6, <2>7, <2>8, <2>9, <2>10, <2>11 DEF IInv
<1>12. ASSUME NEW l \in {"image read", "idle"}, at' = [at EXCEPT ![Gpu] = l], job' = job,
              l = "image read" <=> upload
       PROVE  IInv'
  <2>1. job[Gpu] \in Jobs /\ ~job[Gpu].keep /\ job' = [job EXCEPT ![Gpu] = job[Gpu]]
    BY <1>0, <1>2, <1>12, Constants DEF TypeInv, GpuControl
  <2>2. GpuGoes(l, job[Gpu])
    BY <1>7, <1>12, <2>1 DEF GpuGoes, GpuLabels
  <2>3. /\ TypeInv' /\ CallInv' /\ WatchInv' /\ ProtectInv' /\ StrictInv'
        /\ PendGpu' = PendGpu /\ PendImg' = PendImg /\ protection' = protection
        /\ commands' = commands /\ image' = image
    BY <1>1, <2>2, GpuGoesOn
  <2>4. /\ l \in Resting /\ l \notin {"refresh", "download", "read done"}
        /\ m_lock' = Gpu <=> l \in {"refresh", "image copy", "image read", "replace"}
    BY <1>1, <1>2, <1>12 DEF Resting
  <2>5. /\ at'[Gpu] = l /\ Phase' = l /\ ~Uploading'
        /\ GuestControl' /\ GpuControl' /\ QueueInv' /\ LockInv' /\ MLockInv'
        /\ /\ cpu_dirty' \cap gpu_dirty' = {} /\ stale' \subseteq cpu_dirty'
           /\ \A p \in Pages : protection'[p] = "rw" => p \in cpu_dirty'
           => CopyInv'
    BY <2>1, <2>2, <2>4, GpuRests
  <2>6. CopyInv'
    BY <1>1, <1>10, <2>3, <2>5
  <2>7. UnreadInv'
    BY <1>0, <1>1, <2>3 DEF UnreadInv
  <2>8. GpuInv'
    BY <1>1, <1>10, <2>4, <2>5 DEF GpuInv, Unmarked, Resting
  <2>9. ImageInv'
    BY <1>1, <1>9, <1>12, <2>3, <2>5 DEF ImageInv, Firm
  <2> QED
    BY <1>8, <2>3, <2>5, <2>6, <2>7, <2>8, <2>9 DEF IInv
<1> QED
  BY <1>1, <1>11, <1>12

------------------------------------------------------------------------------
(* The theorems *)

(* Every step keeps the invariant.                                         *)
LEMMA NextStep ==
  ASSUME IInv, [Next]_vars
  PROVE  IInv'
<1>1. CASE UNCHANGED vars
  <2>1. UNCHANGED <<cpu_dirty, gpu_dirty, tracker_lock, watchers, protection, protects, calls, at,
                    job, commands, registered, gpu_ranges, copies, stale, unread, guests, ranges,
                    image, tracked, flags, m_lock, imageStale, edgesChanged, trimmed, failed>>
    BY <1>1 DEF vars, tracker, pageManager, bufferCache, textureCache, bounds
  <2>2. TypeInv'
    BY <2>1 DEF IInv, TypeInv
  <2>3. GuestControl' /\ GpuControl' /\ QueueInv'
    <3>1. Phase' = Phase /\ (Uploading' <=> Uploading) /\ (Serving' <=> Serving)
      BY <2>1 DEF Phase, Uploading, Serving
    <3> QED
      BY <2>1, <3>1 DEF IInv, GuestControl, GpuControl, QueueInv
  <2>4. LockInv' /\ MLockInv'
    BY <2>1 DEF IInv, LockInv, MLockInv, Holds, Phase, Uploading, ToDo, Current, RegionsOf, Regions,
               In, RegionOf
  <2>5. CallInv'
    <3>1. \A t \in Threads : CallRight(t)' <=> CallRight(t)
      BY <2>1 DEF CallRight, Phase, RegionOf
    <3> QED
      BY <2>1, <3>1 DEF IInv, CallInv
  <2>6. WatchInv'
    BY <2>1 DEF IInv, WatchInv, CpuWatched, GpuWatched, ImgWatched, PendCpu, PendGpu, PendImg
  <2>7. ProtectInv' /\ StrictInv'
    <3>1. \A p, r : InCalls(p, r)' <=> InCalls(p, r)
      BY <2>1 DEF InCalls
    <3> QED
      BY <2>1, <3>1 DEF IInv, ProtectInv, StrictInv
  <2>8. CopyInv' /\ UnreadInv' /\ GpuInv'
    BY <2>1 DEF IInv, CopyInv, UnreadInv, GpuInv, UpCopies, Uploading, Phase, ToDo, Current, PendGpu,
               RegionOf
  <2>9. ImageInv' /\ NoStaleImage'
    BY <2>1 DEF IInv, ImageInv, NoStaleImage, Firm, Uploading, Phase, ToDo, Current, PendImg, RegionOf
  <2> QED
    BY <2>2, <2>3, <2>4, <2>5, <2>6, <2>7, <2>8, <2>9 DEF IInv
<1>2. ASSUME NEW t \in guests, Guest(t) PROVE IInv'
  <2>1. t \in Guests
    BY DEF IInv, TypeInv
  <2> QED
    BY <1>2, <2>1, GuestStep
<1>3. ASSUME NEW t \in Threads, PageManager(t) PROVE IInv'
  BY <1>3, WatchStep, ProtectStep DEF PageManager
<1>4. ASSUME NEW t \in Threads, EndRegion(t) PROVE IInv'
  <2>1. CASE t = Gpu
    BY <1>4, <2>1, GpuEndRegionStep
  <2>2. CASE t # Gpu
    BY <1>4, <2>2, GuestEndRegionStep, Constants
  <2> QED
    BY <2>1, <2>2
<1>5. CASE ImageWork
  BY <1>5, RefreshImageStep, ResolveImageStep, UploadImageStep, ReplaceImageStep, ReplaceDoneStep
     DEF ImageWork
<1>6. CASE Uploads
  BY <1>6, ObtainBufferStep, UploadRegionStep, UploadCopiesStep, EndUploadStep, MarkGpuRegionStep,
     DrawStep DEF Uploads
<1>7. CASE Downloads
  BY <1>7, ReadMemoryOnGpuStep, DownloadBufferMemoryStep, UnmarkGpuRegionStep, ReadDoneStep,
     MarkCpuRegionStep, ReplyToSenderStep DEF Downloads
<1>8. CASE Collection
  BY <1>8, RunGarbageCollectorStep, UntrackMemoryStep, DeleteBufferStep DEF Collection
<1> QED
  BY <1>1, <1>2, <1>3, <1>4, <1>5, <1>6, <1>7, <1>8 DEF Next

LEMMA Inductive == Spec => []IInv
BY InitIInv, NextStep, PTL DEF Spec

(* What the bits, the watchers and the protection of a page say agrees in a *)
(* region nobody is changing.                                              *)
LEMMA QuietAgrees ==
  ASSUME IInv, NEW r \in Regions, Quiet(r), NEW p \in In(r)
  PROVE  /\ watchers[p].write = One(p \notin cpu_dirty) + One(p \in tracked)
         /\ watchers[p].access = One(p \in gpu_dirty)
         /\ protection[p] = Perms(watchers[p])
<1>0. WatchInv /\ ProtectInv /\ p \in Pages
  BY DEF IInv, In
<1>1. p \notin PendCpu /\ p \notin PendGpu /\ p \notin PendImg
  BY DEF Quiet, PendCpu, PendGpu, PendImg
<1>2. /\ CpuWatched(p) <=> p \notin cpu_dirty
      /\ GpuWatched(p) <=> p \in gpu_dirty
      /\ ImgWatched(p) <=> p \in tracked
  BY <1>1 DEF CpuWatched, GpuWatched, ImgWatched
<1>3. /\ watchers[p].write = One(p \notin cpu_dirty) + One(p \in tracked)
      /\ watchers[p].access = One(p \in gpu_dirty)
  BY <1>0, <1>2 DEF WatchInv, One
<1>4. protection[p] = Perms(watchers[p])
  <2>1. protects[r].list = <<>>
    BY <1>0 DEF Quiet, ProtectInv
  <2>2. ~InCalls(p, r)
    <3>1. Len(<<>>) = 0 /\ 1..0 = {}
      OBVIOUS
    <3> QED
      BY <2>1, <3>1 DEF InCalls
  <2> QED
    BY <1>0, <2>2 DEF ProtectInv
<1> QED
  BY <1>3, <1>4

LEMMA Typed ==
  ASSUME IInv
  PROVE  TypeOK
<1>0. TypeInv /\ WatchInv /\ CopyInv
  BY DEF IInv
<1>1. watchers \in [Pages -> [write : 0..127, access : 0..1]]
  <2>1. \A b : One(b) \in {0, 1}
    BY DEF One
  <2>2. \A p \in Pages : watchers[p].write \in 0..127 /\ watchers[p].access \in 0..1
    BY <1>0, <2>1 DEF WatchInv
  <2>3. watchers \in [Pages -> [write : Nat, access : Nat]]
    BY <1>0 DEF TypeInv
  <2> QED
    BY <2>2, <2>3
<1>2. cpu_dirty \cap gpu_dirty = {}
  BY <1>0 DEF CopyInv
<1>3. protection \in [Pages -> {"rw", "r", "none"}]
  BY <1>0 DEF TypeInv, Protections
<1> QED
  BY <1>0, <1>1, <1>2, <1>3, QuietAgrees DEF TypeOK, TypeInv

(* The bits, the watchers and the host's protection of a page agree where  *)
(* nobody is changing its region, no page is dirty on both sides, and none *)
(* of the EXITs of ChangeState, AddDelta, UntrackMemory and the garbage    *)
(* collector is reached: for any number of guests, of pages and of pages   *)
(* in a region, and for any image.                                         *)
THEOREM TypeCorrect == Spec => []TypeOK
BY Inductive, Typed, PTL

(* No write is lost between memory and the buffer, whichever way it went:  *)
(* uploads and downloads copy every page whose other side has moved on.    *)
THEOREM NoWriteIsLost == Spec => []NoWriteLost
<1>1. IInv => NoWriteLost
  <2> SUFFICES ASSUME IInv PROVE NoWriteLost
    OBVIOUS
  <2>1. CopyInv /\ UnreadInv
    BY DEF IInv
  <2>2. UpCopies \subseteq copies
    BY DEF UpCopies
  <2>3. \A p \in unread : p \notin stale
    BY <2>1 DEF CopyInv, UnreadInv
  <2> QED
    BY <2>1, <2>2, <2>3 DEF NoWriteLost, CopyInv, UnreadInv
<1> QED
  BY <1>1, Inductive, PTL

(* The image never shows old bytes for new without being dirty: its flags, *)
(* or the hash of its edges, say so wherever it still watches.             *)
THEOREM ImagesAreCurrent == Spec => []NoStaleImage
<1>1. IInv => NoStaleImage
  BY DEF IInv
<1> QED
  BY <1>1, Inductive, PTL
==============================================================================
