----------------------------- MODULE RwlockProofs -----------------------------
(***************************************************************************)
(* Proofs about Rwlock, for every finite set of threads, every number of   *)
(* inline slots and of read locks a thread may hold.                       *)
(***************************************************************************)
EXTENDS Rwlock, SequenceTheorems, FiniteSetTheorems, TLAPS

(* The queue without its i-th member. *)
LEMMA RemoveAtElements ==
  ASSUME NEW S, NEW s \in Seq(S), NEW i \in 1..Len(s)
  PROVE  /\ RemoveAt(s, i) \in Seq(S)
         /\ Len(RemoveAt(s, i)) = Len(s) - 1
         /\ \A j \in 1..(Len(s) - 1) :
              RemoveAt(s, i)[j] = IF j < i THEN s[j] ELSE s[j + 1]
<1>1. Len(s) \in Nat /\ \A j \in 1..Len(s) : s[j] \in S
  BY LenProperties, ElementOfSeq
<1> DEFINE front == SubSeq(s, 1, i - 1)
           back == SubSeq(s, i + 1, Len(s))
<1>2. /\ front \in Seq(S) /\ Len(front) = i - 1
      /\ \A j \in 1..(i - 1) : front[j] = s[j]
  <2>1. \A j \in 1..(i - 1) : s[j] \in S
    BY <1>1
  <2> QED
    BY <1>1, <2>1, SubSeqProperties
<1>3. /\ back \in Seq(S) /\ Len(back) = Len(s) - i
      /\ \A j \in 1..(Len(s) - i) : back[j] = s[j + i]
  <2>1. \A j \in (i + 1)..Len(s) : s[j] \in S
    BY <1>1
  <2>2. /\ back \in Seq(S)
        /\ Len(back) = IF i + 1 <= Len(s) THEN Len(s) - (i + 1) + 1 ELSE 0
        /\ \A j \in 1..(Len(s) - (i + 1) + 1) : back[j] = s[(i + 1) + j - 1]
    BY <1>1, <2>1, SubSeqProperties
  <2> HIDE DEF back
  <2> QED
    BY <1>1, <2>2
<1> HIDE DEF front, back
<1> DEFINE both == front \o back
<1>4. /\ both \in Seq(S)
      /\ Len(both) = Len(front) + Len(back)
      /\ \A j \in 1..(Len(front) + Len(back)) :
           both[j] = IF j <= Len(front) THEN front[j] ELSE back[j - Len(front)]
  BY <1>2, <1>3, ConcatProperties
<1> HIDE DEF both
<1>5. Len(both) = Len(s) - 1
  BY <1>1, <1>2, <1>3, <1>4
<1>6. ASSUME NEW j \in 1..(Len(s) - 1)
      PROVE  both[j] = IF j < i THEN s[j] ELSE s[j + 1]
  <2>1. both[j] = IF j <= i - 1 THEN front[j] ELSE back[j - (i - 1)]
    BY <1>1, <1>2, <1>3, <1>4
  <2>2. CASE j < i
    BY <1>1, <1>2, <2>1, <2>2
  <2>3. CASE ~(j < i)
    <3>1. j - (i - 1) \in 1..(Len(s) - i) /\ (j - (i - 1)) + i = j + 1
      BY <1>1, <2>3
    <3> QED
      BY <1>1, <1>3, <2>1, <2>3, <3>1
  <2> QED
    BY <2>2, <2>3
<1> QED
  BY <1>4, <1>5, <1>6 DEF RemoveAt, both, front, back

(* All of a queue but its last member. *)
LEMMA FrontFacts ==
  ASSUME NEW S, NEW s \in Seq(S), s # <<>>
  PROVE  /\ Front(s) \in Seq(S)
         /\ Range(Front(s)) \subseteq Range(s)
         /\ s = Append(Front(s), s[Len(s)])
         /\ IsInjective(s) => s[Len(s)] \notin Range(Front(s))
<1> DEFINE f == Front(s)
           last == s[Len(s)]
<1>1. Len(s) \in Nat \ {0} /\ DOMAIN s = 1..Len(s) /\ \A i \in 1..Len(s) : s[i] \in S
  BY EmptySeq, LenProperties, ElementOfSeq
<1>2. /\ f \in Seq(S) /\ Len(f) = Len(s) - 1
      /\ \A i \in 1..(Len(s) - 1) : f[i] = s[i]
  <2>1. \A i \in 1..(Len(s) - 1) : s[i] \in S
    BY <1>1
  <2>2. /\ SubSeq(s, 1, Len(s) - 1) \in Seq(S)
        /\ Len(SubSeq(s, 1, Len(s) - 1))
             = IF 1 <= Len(s) - 1 THEN (Len(s) - 1) - 1 + 1 ELSE 0
        /\ \A i \in 1..((Len(s) - 1) - 1 + 1) : SubSeq(s, 1, Len(s) - 1)[i] = s[1 + i - 1]
    BY <1>1, <2>1, SubSeqProperties
  <2>3. f = SubSeq(s, 1, Len(s) - 1)
    BY DEF Front
  <2> HIDE DEF f
  <2> QED
    BY <1>1, <2>2, <2>3
<1> HIDE DEF f
<1>3. DOMAIN f = 1..(Len(s) - 1) /\ last \in S
  BY <1>1, <1>2, LenProperties
<1>4. Range(f) \subseteq Range(s)
  BY <1>1, <1>2, <1>3 DEF Range
<1>5. IsInjective(s) => last \notin Range(f)
  BY <1>1, <1>2, <1>3 DEF Range, IsInjective
<1> HIDE DEF last
<1>6. /\ Append(f, last) \in Seq(S) /\ Len(Append(f, last)) = Len(s)
      /\ \A i \in 1..(Len(s) - 1) : Append(f, last)[i] = s[i]
      /\ Append(f, last)[Len(s)] = last
  <2>1. /\ Append(f, last) \in Seq(S) /\ Len(Append(f, last)) = Len(f) + 1
        /\ \A i \in 1..Len(f) : Append(f, last)[i] = f[i]
        /\ Append(f, last)[Len(f) + 1] = last
    BY <1>2, <1>3, AppendProperties
  <2>2. Len(f) + 1 = Len(s)
    BY <1>1, <1>2
  <2> QED
    BY <1>2, <2>1, <2>2
<1>7. \A i \in 1..Len(s) : s[i] = Append(f, last)[i]
  BY <1>1, <1>6 DEF last
<1>8. s = Append(f, last)
  BY <1>6, <1>7, SeqEqual
<1> QED
  BY <1>2, <1>4, <1>5, <1>8 DEF f, last

(* The last member takes the place of the i-th. *)
LEMMA FillWithLast ==
  ASSUME NEW S, NEW s \in Seq(S), NEW i \in 1..Len(s)
  PROVE  LET new == Front([s EXCEPT ![i] = Last(s)])
         IN  /\ new \in Seq(S) /\ Len(new) = Len(s) - 1
             /\ \A j \in 1..(Len(s) - 1) : new[j] = IF j = i THEN s[Len(s)] ELSE s[j]
<1> DEFINE e == [s EXCEPT ![i] = Last(s)]
           f == Front(e)
<1>1. Len(s) \in Nat \ {0} /\ \A j \in 1..Len(s) : s[j] \in S
  BY LenProperties, ElementOfSeq
<1>2. Last(s) = s[Len(s)] /\ s[Len(s)] \in S
  BY <1>1 DEF Last
<1>3. /\ e \in Seq(S) /\ Len(e) = Len(s)
      /\ \A j \in 1..Len(s) : e[j] = IF j = i THEN s[Len(s)] ELSE s[j]
  BY <1>2, ExceptSeq
<1>4. e # <<>>
  BY <1>1, <1>3, EmptySeq
<1> HIDE DEF e
<1>5. /\ f \in Seq(S) /\ e = Append(f, e[Len(e)])
      /\ e[Len(e)] \in S
  BY <1>1, <1>3, <1>4, FrontFacts
<1> HIDE DEF f
<1>6. Len(e) = Len(f) + 1 /\ Len(f) \in Nat /\ \A j \in 1..Len(f) : e[j] = f[j]
  BY <1>5, AppendProperties, LenProperties
<1>7. Len(f) = Len(s) - 1 /\ \A j \in 1..(Len(s) - 1) : f[j] = e[j]
  BY <1>1, <1>3, <1>6
<1>8. /\ f \in Seq(S) /\ Len(f) = Len(s) - 1
      /\ \A j \in 1..(Len(s) - 1) : f[j] = IF j = i THEN s[Len(s)] ELSE s[j]
  BY <1>1, <1>3, <1>5, <1>7
<1> QED
  BY <1>8 DEF e, f


Entry == [thread : Threads, count : 1..MaxReads]
Tally == [Threads -> 0..MaxReads]

(* A part of the table, next to the read locks r that the guest holds. *)
Exact(seq, r) ==
  /\ seq \in Seq(Entry)
  /\ \A i \in 1..Len(seq) :
       /\ seq[i].count = r[seq[i].thread]
       /\ \A j \in 1..Len(seq) : seq[i].thread = seq[j].thread => i = j

(* Both parts together. *)
Table(in, over, r) ==
  /\ r \in Tally
  /\ Exact(in, r) /\ Exact(over, r)
  /\ Len(in) <= InlineSlots
  /\ Listed(in) \cap Listed(over) = {}
  /\ \A t \in Threads : r[t] > 0 => t \in Listed(in) \cup Listed(over)

TableInv == Table(inline, overflow, reads)

CountInv == reader_count = Cardinality(ReadLocks)

WriterInv ==
  /\ writer \in Threads \cup {NoThread}
  /\ writer_count \in 0..1
  /\ writes \in [Threads -> 0..1]
  /\ writer # NoThread <=> writer_count = 1
  /\ \A t \in Threads : writes[t] = IF writer = t THEN 1 ELSE 0
  /\ \A t \in Threads : writer # NoThread /\ reads[t] > 0 => writer = t

WaitInv ==
  /\ pc \in [Threads -> {"idle", "asleep", "awake"}]
  /\ write \in [Threads -> BOOLEAN] /\ registered \in [Threads -> BOOLEAN]
  /\ timed \in [Threads -> BOOLEAN] /\ expired \in [Threads -> BOOLEAN]
  /\ waiting_writers = Cardinality({t \in Threads : registered[t]})
  /\ \A t \in Threads : registered[t] <=> pc[t] # "idle" /\ write[t]

IInv == TableInv /\ CountInv /\ WriterInv /\ WaitInv

USE RwlockAssumption DEF RwlockAssumption

------------------------------------------------------------------------------
(* One part of the table *)

LEMMA ListedFacts ==
  ASSUME NEW seq \in Seq(Entry)
  PROVE  /\ Listed(seq) = {seq[i].thread : i \in 1..Len(seq)}
         /\ Len(seq) \in Nat
         /\ \A i \in 1..Len(seq) :
              seq[i] \in Entry /\ seq[i].thread \in Threads /\ seq[i].count \in 1..MaxReads
         /\ \A t : Slots(seq, t) = {i \in 1..Len(seq) : seq[i].thread = t}
         /\ \A t : Slots(seq, t) # {} <=> t \in Listed(seq)
<1>1. DOMAIN seq = 1..Len(seq) /\ Len(seq) \in Nat /\ \A i \in 1..Len(seq) : seq[i] \in Entry
  BY LenProperties, ElementOfSeq
<1> QED
  BY <1>1 DEF Listed, Slots, Entry

(* The one slot of a reader. *)
LEMMA FirstSlot ==
  ASSUME NEW r \in Tally, NEW seq, Exact(seq, r), NEW t \in Threads, Slots(seq, t) # {}
  PROVE  /\ First(Slots(seq, t)) \in 1..Len(seq)
         /\ seq[First(Slots(seq, t))].thread = t
         /\ seq[First(Slots(seq, t))].count = r[t]
<1>1. PICK i \in 1..Len(seq) : Slots(seq, t) = {i}
  BY ListedFacts DEF Exact
<1>2. First(Slots(seq, t)) = i
  BY <1>1 DEF First
<1>3. i \in Slots(seq, t) /\ seq[i].thread = t
  <2>1. seq \in Seq(Entry) /\ i \in Slots(seq, t)
    BY <1>1 DEF Exact
  <2> QED
    BY <2>1 DEF Slots
<1> QED
  BY <1>2, <1>3 DEF Exact

(* A part without the thread does not mind what the thread does. *)
LEMMA Untouched ==
  ASSUME NEW r \in Tally, NEW seq, Exact(seq, r), NEW t \in Threads, t \notin Listed(seq),
         NEW c \in 0..MaxReads
  PROVE  Exact(seq, [r EXCEPT ![t] = c])
<1>1. seq \in Seq(Entry) /\ \A i \in 1..Len(seq) : seq[i].thread \in Threads \ {t}
  BY ListedFacts DEF Exact
<1>2. \A s \in Threads \ {t} : [r EXCEPT ![t] = c][s] = r[s]
  BY DEF Tally
<1> QED
  BY <1>1, <1>2 DEF Exact

(* Counting on or back in the entry of the thread. *)
LEMMA Recounted ==
  ASSUME NEW r \in Tally, NEW seq, Exact(seq, r), NEW i \in 1..Len(seq),
         NEW c \in 1..MaxReads
  PROVE  LET new == [seq EXCEPT ![i].count = c]
         IN  /\ Exact(new, [r EXCEPT ![seq[i].thread] = c])
             /\ Listed(new) = Listed(seq) /\ Len(new) = Len(seq)
<1> DEFINE new == [seq EXCEPT ![i].count = c]
<1>1. seq \in Seq(Entry) /\ Len(seq) \in Nat /\ \A j \in 1..Len(seq) : seq[j] \in Entry
  BY ListedFacts DEF Exact
<1>2. [seq[i] EXCEPT !.count = c] \in Entry
  BY <1>1 DEF Entry
<1>3. new = [seq EXCEPT ![i] = [seq[i] EXCEPT !.count = c]]
  OBVIOUS
<1>4. /\ new \in Seq(Entry) /\ Len(new) = Len(seq)
      /\ \A j \in 1..Len(seq) : new[j] = IF j = i THEN [seq[i] EXCEPT !.count = c] ELSE seq[j]
  BY <1>1, <1>2, <1>3, ExceptSeq
<1> HIDE DEF new
<1>5. \A j \in 1..Len(seq) : /\ new[j].thread = seq[j].thread
                             /\ new[j].count = IF j = i THEN c ELSE seq[j].count
  BY <1>1, <1>4 DEF Entry
<1>6. Exact(new, [r EXCEPT ![seq[i].thread] = c])
  BY <1>1, <1>4, <1>5 DEF Exact, Entry, Tally
<1>7. Listed(new) = Listed(seq)
  <2>1. /\ Listed(new) = {new[j].thread : j \in 1..Len(seq)}
        /\ Listed(seq) = {seq[j].thread : j \in 1..Len(seq)}
    BY <1>1, <1>4, ListedFacts
  <2> QED
    BY <1>5, <2>1
<1> QED
  BY <1>4, <1>6, <1>7 DEF new

(* A new entry at the end. *)
LEMMA Added ==
  ASSUME NEW r \in Tally, NEW seq, Exact(seq, r), NEW t \in Threads, t \notin Listed(seq)
  PROVE  LET new == Append(seq, [thread |-> t, count |-> 1])
         IN  /\ Exact(new, [r EXCEPT ![t] = 1])
             /\ Listed(new) = Listed(seq) \cup {t} /\ Len(new) = Len(seq) + 1
<1> DEFINE entry == [thread |-> t, count |-> 1]
           new == Append(seq, entry)
<1>1. seq \in Seq(Entry) /\ Len(seq) \in Nat /\ \A j \in 1..Len(seq) : seq[j] \in Entry
  BY ListedFacts DEF Exact
<1>2. entry \in Entry
  BY DEF Entry
<1>3. /\ new \in Seq(Entry) /\ Len(new) = Len(seq) + 1
      /\ \A j \in 1..Len(seq) : new[j] = seq[j]
      /\ new[Len(seq) + 1] = entry
  BY <1>1, <1>2, AppendProperties
<1>4. entry.thread = t /\ entry.count = 1
  OBVIOUS
<1> HIDE DEF new, entry
<1>5. \A j \in 1..Len(seq) : seq[j].thread # t
  BY <1>1, ListedFacts
<1>6. Exact(new, [r EXCEPT ![t] = 1])
  <2>1. Exact(seq, [r EXCEPT ![t] = 1]) /\ [r EXCEPT ![t] = 1][t] = 1
    <3>1. 1 \in 0..MaxReads
      OBVIOUS
    <3> QED
      BY <3>1, Untouched DEF Tally
  <2> QED
    BY <1>1, <1>3, <1>4, <1>5, <2>1 DEF Exact
<1>7. Listed(new) = Listed(seq) \cup {t}
  BY <1>1, <1>3, <1>4, ListedFacts
<1> QED
  BY <1>3, <1>6, <1>7 DEF new, entry

(* new has the entries of seq but the i-th, in some order. *)
AllBut(seq, i, new) ==
  /\ new \in Seq(Entry)
  /\ \A j \in 1..Len(new) : \E k \in (1..Len(seq)) \ {i} : new[j] = seq[k]
  /\ \A k \in (1..Len(seq)) \ {i} : \E j \in 1..Len(new) : new[j] = seq[k]
  /\ \A j, k \in 1..Len(new) : new[j] = new[k] => j = k

(* What is left of a part when the entry at i goes. *)
LEMMA Shrunk ==
  ASSUME NEW r \in Tally, NEW seq, Exact(seq, r), NEW i \in 1..Len(seq),
         NEW new, AllBut(seq, i, new)
  PROVE  /\ Exact(new, [r EXCEPT ![seq[i].thread] = 0])
         /\ Listed(new) = Listed(seq) \ {seq[i].thread}
<1> DEFINE t == seq[i].thread
<1>1. /\ seq \in Seq(Entry) /\ new \in Seq(Entry)
      /\ \A j \in 1..Len(new) : \E k \in (1..Len(seq)) \ {i} : new[j] = seq[k]
      /\ \A k \in (1..Len(seq)) \ {i} : \E j \in 1..Len(new) : new[j] = seq[k]
      /\ \A j, k \in 1..Len(new) : new[j] = new[k] => j = k
  BY DEF Exact, AllBut
<1>2. /\ Listed(seq) = {seq[j].thread : j \in 1..Len(seq)}
      /\ Listed(new) = {new[j].thread : j \in 1..Len(new)}
      /\ \A j \in 1..Len(seq) : seq[j].thread \in Threads
  BY <1>1, ListedFacts
<1>3. \A k \in (1..Len(seq)) \ {i} : seq[k].thread # t /\ seq[k].count = r[seq[k].thread]
  BY DEF Exact
<1>4. \A s \in Threads \ {t} : [r EXCEPT ![t] = 0][s] = r[s]
  BY DEF Tally
<1>5. \A j, k \in 1..Len(seq) : seq[j].thread = seq[k].thread => j = k
  BY DEF Exact
<1> HIDE DEF t
<1>6. Exact(new, [r EXCEPT ![t] = 0])
  <2>1. ASSUME NEW j \in 1..Len(new) PROVE new[j].count = [r EXCEPT ![t] = 0][new[j].thread]
    <3>1. PICK k \in (1..Len(seq)) \ {i} : new[j] = seq[k]
      BY <1>1
    <3> QED
      BY <1>2, <1>3, <1>4, <3>1
  <2>2. ASSUME NEW j \in 1..Len(new), NEW k \in 1..Len(new), new[j].thread = new[k].thread
        PROVE  j = k
    <3>1. PICK a \in (1..Len(seq)) \ {i} : new[j] = seq[a]
      BY <1>1
    <3>2. PICK b \in (1..Len(seq)) \ {i} : new[k] = seq[b]
      BY <1>1
    <3>3. a = b
      BY <1>5, <2>2, <3>1, <3>2
    <3> QED
      BY <1>1, <3>1, <3>2, <3>3
  <2> QED
    BY <1>1, <2>1, <2>2 DEF Exact
<1>7. ASSUME NEW s \in Listed(new) PROVE s \in Listed(seq) \ {t}
  <2>1. PICK j \in 1..Len(new) : s = new[j].thread
    BY <1>2
  <2>2. PICK k \in (1..Len(seq)) \ {i} : new[j] = seq[k]
    BY <1>1
  <2> QED
    BY <1>2, <1>3, <2>1, <2>2
<1>8. ASSUME NEW s \in Listed(seq) \ {t} PROVE s \in Listed(new)
  <2>1. PICK k \in (1..Len(seq)) \ {i} : s = seq[k].thread
    BY <1>2 DEF t
  <2>2. PICK j \in 1..Len(new) : new[j] = seq[k]
    BY <1>1
  <2> QED
    BY <1>2, <2>1, <2>2
<1> QED
  BY <1>6, <1>7, <1>8 DEF t

(* No two entries are equal. *)
LEMMA Distinct ==
  ASSUME NEW r \in Tally, NEW seq, Exact(seq, r)
  PROVE  /\ seq \in Seq(Entry) /\ Len(seq) \in Nat
         /\ \A j, k \in 1..Len(seq) : seq[j] = seq[k] => j = k
BY LenProperties DEF Exact

LEMMA Erased ==
  ASSUME NEW r \in Tally, NEW seq, Exact(seq, r), NEW i \in 1..Len(seq)
  PROVE  /\ Exact(RemoveAt(seq, i), [r EXCEPT ![seq[i].thread] = 0])
         /\ Listed(RemoveAt(seq, i)) = Listed(seq) \ {seq[i].thread}
         /\ Len(RemoveAt(seq, i)) = Len(seq) - 1
<1> DEFINE new == RemoveAt(seq, i)
<1>1. seq \in Seq(Entry) /\ Len(seq) \in Nat /\ \A j, k \in 1..Len(seq) : seq[j] = seq[k] => j = k
  BY Distinct
<1>2. /\ new \in Seq(Entry) /\ Len(new) = Len(seq) - 1
      /\ \A j \in 1..(Len(seq) - 1) : new[j] = IF j < i THEN seq[j] ELSE seq[j + 1]
  BY <1>1, RemoveAtElements
<1> HIDE DEF new
<1>3. ASSUME NEW j \in 1..Len(new) PROVE \E k \in (1..Len(seq)) \ {i} : new[j] = seq[k]
  <2>1. CASE j < i
    BY <1>1, <1>2, <2>1
  <2>2. CASE ~(j < i)
    <3>1. j + 1 \in (1..Len(seq)) \ {i} /\ new[j] = seq[j + 1]
      BY <1>1, <1>2, <2>2
    <3> QED
      BY <3>1
  <2> QED
    BY <2>1, <2>2
<1>4. ASSUME NEW k \in (1..Len(seq)) \ {i} PROVE \E j \in 1..Len(new) : new[j] = seq[k]
  <2>1. CASE k < i
    BY <1>1, <1>2, <2>1
  <2>2. CASE k > i
    <3>1. k - 1 \in 1..Len(new) /\ new[k - 1] = seq[k]
      BY <1>1, <1>2, <2>2
    <3> QED
      BY <3>1
  <2> QED
    BY <1>1, <2>1, <2>2
<1>5. ASSUME NEW j \in 1..Len(new), NEW k \in 1..Len(new), new[j] = new[k] PROVE j = k
  BY <1>1, <1>2, <1>5
<1>6. AllBut(seq, i, new)
  BY <1>2, <1>3, <1>4, <1>5 DEF AllBut
<1>7. /\ Exact(new, [r EXCEPT ![seq[i].thread] = 0])
      /\ Listed(new) = Listed(seq) \ {seq[i].thread}
  BY <1>6, Shrunk
<1> QED
  BY <1>2, <1>7 DEF new

LEMMA Filled ==
  ASSUME NEW r \in Tally, NEW seq, Exact(seq, r), NEW i \in 1..Len(seq)
  PROVE  LET new == Front([seq EXCEPT ![i] = Last(seq)])
         IN  /\ Exact(new, [r EXCEPT ![seq[i].thread] = 0])
             /\ Listed(new) = Listed(seq) \ {seq[i].thread}
             /\ Len(new) = Len(seq) - 1
<1> DEFINE new == Front([seq EXCEPT ![i] = Last(seq)])
<1>1. seq \in Seq(Entry) /\ Len(seq) \in Nat /\ \A j, k \in 1..Len(seq) : seq[j] = seq[k] => j = k
  BY Distinct
<1>2. /\ new \in Seq(Entry) /\ Len(new) = Len(seq) - 1
      /\ \A j \in 1..(Len(seq) - 1) : new[j] = IF j = i THEN seq[Len(seq)] ELSE seq[j]
  BY <1>1, FillWithLast
<1> HIDE DEF new
<1>3. ASSUME NEW j \in 1..Len(new) PROVE \E k \in (1..Len(seq)) \ {i} : new[j] = seq[k]
  BY <1>1, <1>2
<1>4. ASSUME NEW k \in (1..Len(seq)) \ {i} PROVE \E j \in 1..Len(new) : new[j] = seq[k]
  <2>1. CASE k < Len(seq)
    BY <1>1, <1>2, <2>1
  <2>2. CASE k = Len(seq)
    <3>1. i \in 1..Len(new) /\ new[i] = seq[k]
      BY <1>1, <1>2, <2>2
    <3> QED
      BY <3>1
  <2> QED
    BY <1>1, <2>1, <2>2
<1>5. ASSUME NEW j \in 1..Len(new), NEW k \in 1..Len(new), new[j] = new[k] PROVE j = k
  BY <1>1, <1>2, <1>5
<1>6. AllBut(seq, i, new)
  BY <1>2, <1>3, <1>4, <1>5 DEF AllBut
<1>7. /\ Exact(new, [r EXCEPT ![seq[i].thread] = 0])
      /\ Listed(new) = Listed(seq) \ {seq[i].thread}
  BY <1>6, Shrunk
<1> QED
  BY <1>2, <1>7 DEF new

------------------------------------------------------------------------------
(* The table *)

LEMMA ReaderIsListed ==
  ASSUME TableInv, NEW t \in Threads
  PROVE  /\ IsReader(t) <=> t \in Listed(inline) \cup Listed(overflow)
         /\ Slots(inline, t) # {} <=> t \in Listed(inline)
         /\ Slots(overflow, t) # {} <=> t \in Listed(overflow)
         /\ IsReader(t) <=> reads[t] > 0
<1>1. inline \in Seq(Entry) /\ overflow \in Seq(Entry)
  BY DEF TableInv, Table, Exact
<1>2. /\ Slots(inline, t) # {} <=> t \in Listed(inline)
      /\ Slots(overflow, t) # {} <=> t \in Listed(overflow)
  BY <1>1, ListedFacts
<1>3. CASE Slots(inline, t) # {}
  <2>1. /\ First(Slots(inline, t)) \in 1..Len(inline)
        /\ inline[First(Slots(inline, t))].count = reads[t]
    BY <1>3, FirstSlot DEF TableInv, Table
  <2>2. inline[First(Slots(inline, t))].count \in 1..MaxReads
    BY <1>1, <2>1, ListedFacts
  <2> QED
    BY <1>2, <1>3, <2>1, <2>2 DEF IsReader
<1>4. CASE Slots(overflow, t) # {}
  <2>1. /\ First(Slots(overflow, t)) \in 1..Len(overflow)
        /\ overflow[First(Slots(overflow, t))].count = reads[t]
    BY <1>4, FirstSlot DEF TableInv, Table
  <2>2. overflow[First(Slots(overflow, t))].count \in 1..MaxReads
    BY <1>1, <2>1, ListedFacts
  <2> QED
    BY <1>2, <1>4, <2>1, <2>2 DEF IsReader
<1>5. CASE ~IsReader(t)
  BY <1>2, <1>5 DEF IsReader, TableInv, Table, Tally
<1> QED
  BY <1>3, <1>4, <1>5 DEF IsReader

(* The one entry of a reader counts on or back. *)
LEMMA RecountedAt ==
  ASSUME NEW r \in Tally, NEW seq, Exact(seq, r), NEW t \in Threads, Slots(seq, t) # {},
         NEW c \in 1..MaxReads
  PROVE  LET new == [seq EXCEPT ![First(Slots(seq, t))].count = c]
         IN  /\ Exact(new, [r EXCEPT ![t] = c])
             /\ Listed(new) = Listed(seq) /\ Len(new) = Len(seq)
<1> DEFINE i == First(Slots(seq, t))
<1>1. i \in 1..Len(seq) /\ seq[i].thread = t
  BY FirstSlot
<1> HIDE DEF i
<1> DEFINE new == [seq EXCEPT ![i].count = c]
<1>2. /\ Exact(new, [r EXCEPT ![seq[i].thread] = c])
      /\ Listed(new) = Listed(seq) /\ Len(new) = Len(seq)
  BY <1>1, Recounted
<1> HIDE DEF new
<1>3. Exact(new, [r EXCEPT ![t] = c])
  BY <1>1, <1>2
<1> QED
  BY <1>2, <1>3 DEF new, i

LEMMA AddStep ==
  ASSUME TableInv, NEW t \in Threads, reads[t] < MaxReads, AddReader(t)
  PROVE  /\ TableInv'
         /\ reads' = [reads EXCEPT ![t] = reads[t] + 1]
         /\ reader_count' = reader_count + 1
<1> DEFINE c == reads[t] + 1
           r == [reads EXCEPT ![t] = c]
<1>1. /\ reads \in Tally /\ Exact(inline, reads) /\ Exact(overflow, reads)
      /\ Len(inline) <= InlineSlots /\ Len(inline) \in Nat
      /\ Listed(inline) \cap Listed(overflow) = {}
      /\ \A s \in Threads : reads[s] > 0 => s \in Listed(inline) \cup Listed(overflow)
  BY Distinct DEF TableInv, Table
<1>2. c \in 1..MaxReads /\ c \in 0..MaxReads
  BY <1>1 DEF Tally
<1>3. reads' = r /\ reader_count' = reader_count + 1
  BY DEF AddReader
<1> HIDE DEF c
<1>4. r \in Tally /\ r[t] = c /\ \A s \in Threads \ {t} : r[s] = reads[s]
  BY <1>1, <1>2 DEF Tally
<1> SUFFICES Table(inline', overflow', r)
  BY <1>3 DEF c, TableInv
<1>5. CASE Slots(inline, t) # {}
  <2> DEFINE new == [inline EXCEPT ![First(Slots(inline, t))].count = c]
  <2>1. inline[First(Slots(inline, t))].count = reads[t]
        /\ First(Slots(inline, t)) \in 1..Len(inline)
    BY <1>1, <1>5, FirstSlot
  <2>2. inline' = new /\ overflow' = overflow
    BY <1>5, <2>1 DEF AddReader, IsReader, c
  <2>3. Exact(new, r) /\ Listed(new) = Listed(inline) /\ Len(new) = Len(inline)
    BY <1>1, <1>2, <1>5, RecountedAt
  <2>4. t \in Listed(inline) /\ t \notin Listed(overflow)
    BY <1>1, <1>5, ReaderIsListed
  <2>5. Exact(overflow, r)
    BY <1>1, <1>2, <2>4, Untouched
  <2> HIDE DEF new, r
  <2>6. Table(new, overflow, r)
    BY <1>1, <1>4, <2>3, <2>4, <2>5 DEF Table
  <2> QED
    BY <2>2, <2>6
<1>6. CASE Slots(inline, t) = {} /\ Slots(overflow, t) # {}
  <2> DEFINE new == [overflow EXCEPT ![First(Slots(overflow, t))].count = c]
  <2>1. overflow[First(Slots(overflow, t))].count = reads[t]
        /\ First(Slots(overflow, t)) \in 1..Len(overflow)
    BY <1>1, <1>6, FirstSlot
  <2>2. overflow' = new /\ inline' = inline
    BY <1>6, <2>1 DEF AddReader, IsReader, c
  <2>3. Exact(new, r) /\ Listed(new) = Listed(overflow)
    BY <1>1, <1>2, <1>6, RecountedAt
  <2>4. t \in Listed(overflow) /\ t \notin Listed(inline)
    BY <1>1, <1>6, ReaderIsListed
  <2>5. Exact(inline, r)
    BY <1>1, <1>2, <2>4, Untouched
  <2> HIDE DEF new, r
  <2>6. Table(inline, new, r)
    BY <1>1, <1>4, <2>3, <2>4, <2>5 DEF Table
  <2> QED
    BY <2>2, <2>6
<1>7. CASE ~IsReader(t)
  <2>1. t \notin Listed(inline) /\ t \notin Listed(overflow) /\ reads[t] = 0
    BY <1>1, <1>7, ReaderIsListed DEF Tally
  <2>2. r = [reads EXCEPT ![t] = 1]
    BY <2>1 DEF c
  <2>3. Exact(inline, r) /\ Exact(overflow, r)
    BY <1>1, <1>2, <2>1, Untouched
  <2> DEFINE entry == [thread |-> t, count |-> 1]
  <2>4. CASE Room /\ inline' = Append(inline, entry) /\ overflow' = overflow
    <3> DEFINE new == Append(inline, entry)
    <3>1. Exact(new, r) /\ Listed(new) = Listed(inline) \cup {t} /\ Len(new) = Len(inline) + 1
      BY <1>1, <2>1, <2>2, Added
    <3> HIDE DEF new, r
    <3>2. Len(new) <= InlineSlots
      BY <1>1, <2>4, <3>1 DEF Room
    <3>3. Table(new, overflow, r)
      BY <1>1, <1>4, <2>1, <2>3, <3>1, <3>2 DEF Table
    <3> QED
      BY <2>4, <3>3 DEF new
  <2>5. CASE overflow' = Append(overflow, entry) /\ inline' = inline
    <3> DEFINE new == Append(overflow, entry)
    <3>1. Exact(new, r) /\ Listed(new) = Listed(overflow) \cup {t}
      BY <1>1, <2>1, <2>2, Added
    <3> HIDE DEF new, r
    <3>2. Table(inline, new, r)
      BY <1>1, <1>4, <2>1, <2>3, <3>1 DEF Table
    <3> QED
      BY <2>5, <3>2 DEF new
  <2> QED
    BY <1>7, <2>4, <2>5 DEF AddReader, IsReader
<1> QED
  BY <1>5, <1>6, <1>7 DEF IsReader

(* The one entry of a reader goes. *)
LEMMA ErasedAt ==
  ASSUME NEW r \in Tally, NEW seq, Exact(seq, r), NEW t \in Threads, Slots(seq, t) # {}
  PROVE  LET i == First(Slots(seq, t))
         IN  /\ Exact(RemoveAt(seq, i), [r EXCEPT ![t] = 0])
             /\ Listed(RemoveAt(seq, i)) = Listed(seq) \ {t}
             /\ Exact(Front([seq EXCEPT ![i] = Last(seq)]), [r EXCEPT ![t] = 0])
             /\ Listed(Front([seq EXCEPT ![i] = Last(seq)])) = Listed(seq) \ {t}
             /\ Len(Front([seq EXCEPT ![i] = Last(seq)])) = Len(seq) - 1
<1> DEFINE i == First(Slots(seq, t))
           filled == Front([seq EXCEPT ![i] = Last(seq)])
           erased == RemoveAt(seq, i)
<1>1. i \in 1..Len(seq) /\ seq[i].thread = t
  BY FirstSlot
<1> HIDE DEF i
<1>2. /\ Exact(erased, [r EXCEPT ![seq[i].thread] = 0])
      /\ Listed(erased) = Listed(seq) \ {seq[i].thread}
  BY <1>1, Erased
<1>3. /\ Exact(filled, [r EXCEPT ![seq[i].thread] = 0])
      /\ Listed(filled) = Listed(seq) \ {seq[i].thread} /\ Len(filled) = Len(seq) - 1
  BY <1>1, Filled
<1> HIDE DEF filled, erased
<1>4. /\ Exact(erased, [r EXCEPT ![t] = 0]) /\ Exact(filled, [r EXCEPT ![t] = 0])
      /\ Listed(erased) = Listed(seq) \ {t} /\ Listed(filled) = Listed(seq) \ {t}
  BY <1>1, <1>2, <1>3
<1> QED
  BY <1>3, <1>4 DEF filled, erased, i

LEMMA RemoveStep ==
  ASSUME TableInv, NEW t \in Threads, RemoveReader(t)
  PROVE  /\ TableInv'
         /\ reads[t] > 0 /\ reads' = [reads EXCEPT ![t] = reads[t] - 1]
         /\ reader_count' = reader_count - 1
<1> DEFINE c == reads[t] - 1
           r == [reads EXCEPT ![t] = c]
<1>1. /\ reads \in Tally /\ Exact(inline, reads) /\ Exact(overflow, reads)
      /\ Len(inline) <= InlineSlots /\ Len(inline) \in Nat
      /\ Listed(inline) \cap Listed(overflow) = {}
      /\ \A s \in Threads : reads[s] > 0 => s \in Listed(inline) \cup Listed(overflow)
  BY Distinct DEF TableInv, Table
<1>2. IsReader(t) /\ reads[t] \in 1..MaxReads
  BY <1>1, ReaderIsListed DEF RemoveReader, Tally
<1>3. c \in 0..MaxReads /\ (reads[t] # 1 => c \in 1..MaxReads) /\ (reads[t] = 1 => c = 0)
  BY <1>2
<1>4. reads' = r /\ reader_count' = reader_count - 1
  BY DEF RemoveReader
<1> HIDE DEF c
<1>5. r \in Tally /\ r[t] = c /\ \A s \in Threads \ {t} : r[s] = reads[s]
  BY <1>1, <1>3 DEF Tally
<1> SUFFICES Table(inline', overflow', r)
  BY <1>2, <1>4 DEF c, TableInv
<1>6. CASE Slots(inline, t) # {}
  <2> DEFINE i == First(Slots(inline, t))
             kept == [inline EXCEPT ![i].count = c]
             gone == DropInline(i)
  <2>1. inline[i].count = reads[t] /\ i \in 1..Len(inline)
    BY <1>1, <1>6, FirstSlot
  <2>2. overflow' = overflow /\ inline' = IF inline[i].count = 1 THEN gone ELSE kept
    BY <1>6, <2>1 DEF RemoveReader, c
  <2>3. t \in Listed(inline) /\ t \notin Listed(overflow)
    BY <1>1, <1>6, ReaderIsListed
  <2>4. Exact(overflow, r)
    BY <1>1, <1>3, <2>3, Untouched
  <2>5. CASE reads[t] # 1
    <3>1. Exact(kept, r) /\ Listed(kept) = Listed(inline) /\ Len(kept) = Len(inline)
      BY <1>1, <1>3, <1>6, <2>5, RecountedAt
    <3>2. inline' = kept
      BY <2>1, <2>2, <2>5
    <3> HIDE DEF kept, r
    <3>3. Table(kept, overflow, r)
      BY <1>1, <1>5, <2>3, <2>4, <3>1 DEF Table
    <3> QED
      BY <2>2, <3>2, <3>3
  <2>6. CASE reads[t] = 1
    <3>1. /\ Exact(gone, [reads EXCEPT ![t] = 0]) /\ Listed(gone) = Listed(inline) \ {t}
          /\ Len(gone) = Len(inline) - 1
      BY <1>1, <1>6, ErasedAt DEF DropInline
    <3>2. inline' = gone
      BY <2>1, <2>2, <2>6
    <3>3. Exact(gone, r) /\ r[t] = 0
      BY <1>3, <1>5, <2>6, <3>1
    <3> HIDE DEF gone, r
    <3>4. Table(gone, overflow, r)
      BY <1>1, <1>5, <2>3, <2>4, <3>1, <3>3 DEF Table
    <3> QED
      BY <2>2, <3>2, <3>4
  <2> QED
    BY <2>5, <2>6
<1>7. CASE Slots(inline, t) = {}
  <2> DEFINE i == First(Slots(overflow, t))
             kept == [overflow EXCEPT ![i].count = c]
             gone == RemoveAt(overflow, i)
  <2>1. Slots(overflow, t) # {}
    BY <1>2, <1>7 DEF IsReader
  <2>2. overflow[i].count = reads[t] /\ i \in 1..Len(overflow)
    BY <1>1, <2>1, FirstSlot
  <2>3. inline' = inline /\ overflow' = IF overflow[i].count = 1 THEN gone ELSE kept
    BY <1>7, <2>2 DEF RemoveReader, c
  <2>4. t \in Listed(overflow) /\ t \notin Listed(inline)
    BY <1>1, <2>1, ReaderIsListed
  <2>5. Exact(inline, r)
    BY <1>1, <1>3, <2>4, Untouched
  <2>6. CASE reads[t] # 1
    <3>1. Exact(kept, r) /\ Listed(kept) = Listed(overflow)
      BY <1>1, <1>3, <2>1, <2>6, RecountedAt
    <3>2. overflow' = kept
      BY <2>2, <2>3, <2>6
    <3> HIDE DEF kept, r
    <3>3. Table(inline, kept, r)
      BY <1>1, <1>5, <2>4, <2>5, <3>1 DEF Table
    <3> QED
      BY <2>3, <3>2, <3>3
  <2>7. CASE reads[t] = 1
    <3>1. Exact(gone, [reads EXCEPT ![t] = 0]) /\ Listed(gone) = Listed(overflow) \ {t}
      BY <1>1, <2>1, ErasedAt
    <3>2. overflow' = gone
      BY <2>2, <2>3, <2>7
    <3>3. Exact(gone, r) /\ r[t] = 0
      BY <1>3, <1>5, <2>7, <3>1
    <3> HIDE DEF gone, r
    <3>4. Table(inline, gone, r)
      BY <1>1, <1>5, <2>4, <2>5, <3>1, <3>3 DEF Table
    <3> QED
      BY <2>3, <3>2, <3>4
  <2> QED
    BY <2>6, <2>7
<1> QED
  BY <1>6, <1>7

------------------------------------------------------------------------------
(* The counts *)

Locks(r) == {lock \in Threads \X (1..MaxReads) : lock[2] <= r[lock[1]]}

LEMMA LocksAreFinite ==
  ASSUME NEW r \in Tally
  PROVE  IsFiniteSet(Locks(r)) /\ Cardinality(Locks(r)) \in Nat
<1>1. IsFiniteSet(Threads \X (1..MaxReads))
  <2>1. 1 \in Int /\ MaxReads \in Int
    OBVIOUS
  <2>2. IsFiniteSet(1..MaxReads)
    BY <2>1, FS_Interval
  <2> QED
    BY <2>2, FS_Product
<1>2. Locks(r) \subseteq Threads \X (1..MaxReads)
  BY DEF Locks
<1> QED
  BY <1>1, <1>2, FS_Subset, FS_CardinalityType

LEMMA OneLockMore ==
  ASSUME NEW r \in Tally, NEW t \in Threads, r[t] < MaxReads
  PROVE  Cardinality(Locks([r EXCEPT ![t] = r[t] + 1])) = Cardinality(Locks(r)) + 1
<1> DEFINE new == <<t, r[t] + 1>>
<1>1. Locks([r EXCEPT ![t] = r[t] + 1]) = Locks(r) \cup {new} /\ new \notin Locks(r)
  BY DEF Locks, Tally
<1> QED
  BY <1>1, LocksAreFinite, FS_AddElement

LEMMA OneLockLess ==
  ASSUME NEW r \in Tally, NEW t \in Threads, r[t] > 0
  PROVE  Cardinality(Locks([r EXCEPT ![t] = r[t] - 1])) = Cardinality(Locks(r)) - 1
<1> DEFINE old == <<t, r[t]>>
<1>1. Locks([r EXCEPT ![t] = r[t] - 1]) = Locks(r) \ {old} /\ old \in Locks(r)
  BY DEF Locks, Tally
<1> QED
  BY <1>1, LocksAreFinite, FS_RemoveElement

LEMMA NoLocks ==
  ASSUME NEW r \in Tally, Cardinality(Locks(r)) = 0
  PROVE  \A t \in Threads : r[t] = 0
<1>1. Locks(r) = {}
  BY LocksAreFinite, FS_EmptySet
<1>2. ASSUME NEW t \in Threads, r[t] # 0 PROVE <<t, 1>> \in Locks(r)
  BY <1>2 DEF Locks, Tally
<1> QED
  BY <1>1, <1>2

(* The writers waiting. *)
Waiting(f) == {t \in Threads : f[t]}

LEMMA WaitingIsFinite ==
  ASSUME NEW f
  PROVE  IsFiniteSet(Waiting(f)) /\ Cardinality(Waiting(f)) \in Nat
<1>1. Waiting(f) \subseteq Threads
  BY DEF Waiting
<1> QED
  BY <1>1, FS_Subset, FS_CardinalityType

LEMMA OneWaits ==
  ASSUME NEW f \in [Threads -> BOOLEAN], NEW t \in Threads, ~f[t]
  PROVE  Cardinality(Waiting([f EXCEPT ![t] = TRUE])) = Cardinality(Waiting(f)) + 1
<1>1. Waiting([f EXCEPT ![t] = TRUE]) = Waiting(f) \cup {t} /\ t \notin Waiting(f)
  BY DEF Waiting
<1> QED
  BY <1>1, WaitingIsFinite, FS_AddElement

LEMMA OneLeaves ==
  ASSUME NEW f \in [Threads -> BOOLEAN], NEW t \in Threads
  PROVE  Cardinality(Waiting([f EXCEPT ![t] = FALSE]))
           = IF f[t] THEN Cardinality(Waiting(f)) - 1 ELSE Cardinality(Waiting(f))
<1>1. CASE f[t]
  <2>1. Waiting([f EXCEPT ![t] = FALSE]) = Waiting(f) \ {t} /\ t \in Waiting(f)
    BY <1>1 DEF Waiting
  <2> QED
    BY <1>1, <2>1, WaitingIsFinite, FS_RemoveElement
<1>2. CASE ~f[t]
  <2>1. [f EXCEPT ![t] = FALSE] = f
    BY <1>2
  <2> QED
    BY <1>2, <2>1
<1> QED
  BY <1>1, <1>2

(* A call that ends, by whatever exit, takes its own registration along. *)
LEMMA CallEnds ==
  ASSUME WaitInv, NEW t \in Threads, Finished(t), Unregister(t)
  PROVE  WaitInv'
<1>1. /\ registered' = [registered EXCEPT ![t] = FALSE]
      /\ registered \in [Threads -> BOOLEAN]
      /\ waiting_writers = Cardinality(Waiting(registered))
  BY DEF WaitInv, Finished, Waiting
<1>2. Cardinality(Waiting(registered'))
        = IF registered[t] THEN waiting_writers - 1 ELSE waiting_writers
  BY <1>1, OneLeaves
<1>3. waiting_writers' = Cardinality({s \in Threads : registered'[s]})
  BY <1>2 DEF Unregister, Waiting
<1>4. /\ pc' \in [Threads -> {"idle", "asleep", "awake"}]
      /\ write' \in [Threads -> BOOLEAN] /\ registered' \in [Threads -> BOOLEAN]
      /\ timed' \in [Threads -> BOOLEAN] /\ expired' \in [Threads -> BOOLEAN]
  BY DEF WaitInv, Finished
<1>5. \A s \in Threads : registered'[s] <=> pc'[s] # "idle" /\ write'[s]
  BY DEF WaitInv, Finished
<1> QED
  BY <1>3, <1>4, <1>5 DEF WaitInv

(* A reader that is let in has no registration. *)
LEMMA ReaderIsNotRegistered ==
  ASSUME WaitInv, NEW t \in Threads, InCall(t, FALSE)
  PROVE  ~registered[t]
BY DEF WaitInv, InCall

(* Waking sleepers changes nobody's call. *)
LEMMA WakeUps ==
  ASSUME WaitInv, NEW S \in SUBSET Threads, \A s \in S : pc[s] # "idle",
         NEW to \in {"asleep", "awake"},
         pc' = [s \in Threads |-> IF s \in S THEN to ELSE pc[s]],
         UNCHANGED <<write, registered, timed, expired, waiting_writers>>
  PROVE  WaitInv'
<1>1. pc' \in [Threads -> {"idle", "asleep", "awake"}]
  BY DEF WaitInv
<1>2. \A s \in Threads : pc'[s] = "idle" <=> pc[s] = "idle"
  BY DEF WaitInv
<1>3. \A s \in Threads : registered[s] <=> pc'[s] # "idle" /\ write[s]
  BY <1>2 DEF WaitInv
<1> QED
  BY <1>1, <1>3 DEF WaitInv

LEMMA NotifyAllStep ==
  ASSUME WaitInv, NotifyAll, UNCHANGED <<write, registered, timed, expired, waiting_writers>>
  PROVE  WaitInv'
<1>1. pc' = [s \in Threads |-> IF s \in Sleepers THEN "awake" ELSE pc[s]]
  BY DEF NotifyAll, Sleepers
<1> QED
  BY <1>1, WakeUps DEF Sleepers

------------------------------------------------------------------------------
(* The invariant *)

LEMMA NothingChanges ==
  ASSUME UNCHANGED <<table, reads>>
  PROVE  /\ TableInv => TableInv'
         /\ CountInv => CountInv'
         /\ WriterInv /\ UNCHANGED <<writer, writer_count, writes>> => WriterInv'
BY DEF table, TableInv, CountInv, ReadLocks, WriterInv

LEMMA InitIInv ==
  ASSUME Init
  PROVE  IInv
<1>1. TableInv
  <2>1. <<>> \in Seq(Entry) /\ Len(<<>>) = 0 /\ DOMAIN <<>> = {}
    OBVIOUS
  <2>2. Exact(<<>>, reads) /\ Listed(<<>>) = {} /\ reads \in Tally
    BY <2>1 DEF Init, Exact, Listed, Tally
  <2>3. Table(<<>>, <<>>, reads)
    BY <2>1, <2>2 DEF Table, Init
  <2> QED
    BY <2>3 DEF TableInv, Init
<1>2. CountInv
  <2>1. ReadLocks = {}
    BY DEF ReadLocks, Init
  <2> QED
    BY <2>1, FS_EmptySet DEF CountInv, Init
<1>3. WriterInv
  BY DEF WriterInv, Init
<1>4. WaitInv
  <2>1. {t \in Threads : registered[t]} = {}
    BY DEF Init
  <2> QED
    BY <2>1, FS_EmptySet DEF WaitInv, Init
<1> QED
  BY <1>1, <1>2, <1>3, <1>4 DEF IInv

LEMMA LockEnds ==
  ASSUME IInv, NEW t \in Threads, WriteDeadlock(t) \/ LockTimeout(t)
  PROVE  IInv'
<1>1. /\ Unregister(t) /\ Finished(t)
      /\ UNCHANGED <<table, reads>> /\ UNCHANGED <<writer, writer_count, writes>>
  BY DEF WriteDeadlock, LockTimeout, table
<1>2. WaitInv'
  BY <1>1, CallEnds DEF IInv
<1> QED
  BY <1>1, <1>2, NothingChanges DEF IInv

(* A writer is let in when there is neither a writer nor a read lock. *)
LEMMA WriteAcquireStep ==
  ASSUME IInv, NEW t \in Threads, WriteAcquire(t)
  PROVE  IInv'
<1>1. WaitInv'
  BY CallEnds DEF WriteAcquire, IInv
<1>2. TableInv' /\ CountInv'
  BY NothingChanges DEF WriteAcquire, IInv, table
<1>3. \A s \in Threads : reads[s] = 0
  <2>1. reads \in Tally /\ Cardinality(Locks(reads)) = 0
    BY DEF IInv, CountInv, TableInv, Table, ReadLocks, Locks, WriteAcquire, WriteFree
  <2> QED
    BY <2>1, NoLocks
<1>4. \A s \in Threads : writes[s] = 0
  BY DEF IInv, WriterInv, WriteAcquire, WriteFree
<1>5. writer' = t /\ writer_count' = 1 /\ writes' = [writes EXCEPT ![t] = 1] /\ reads' = reads
  <2>1. writes' = [writes EXCEPT ![t] = writes[t] + 1] /\ writes[t] + 1 = 1
    BY <1>4 DEF WriteAcquire
  <2> QED
    BY <2>1 DEF WriteAcquire
<1>6. writes' \in [Threads -> 0..1] /\ \A s \in Threads : writes'[s] = IF t = s THEN 1 ELSE 0
  BY <1>4, <1>5 DEF IInv, WriterInv
<1>7. WriterInv'
  BY <1>3, <1>5, <1>6 DEF WriterInv
<1> QED
  BY <1>1, <1>2, <1>7 DEF IInv

LEMMA ReadAcquireStep ==
  ASSUME IInv, NEW t \in Threads, ReadAcquire(t)
  PROVE  IInv'
<1>1. /\ reads[t] < MaxReads /\ AddReader(t) /\ Finished(t) /\ ReadFree(t)
      /\ UNCHANGED <<writer, writer_count, waiting_writers, writes>>
      /\ TableInv /\ CountInv /\ WriterInv /\ WaitInv /\ reads \in Tally
  BY DEF ReadAcquire, IInv, TableInv, Table
<1>2. /\ TableInv' /\ reads' = [reads EXCEPT ![t] = reads[t] + 1]
      /\ reader_count' = reader_count + 1
  BY <1>1, AddStep
<1>3. CountInv'
  <2>1. Cardinality(Locks(reads')) = Cardinality(Locks(reads)) + 1
    BY <1>1, <1>2, OneLockMore
  <2> QED
    BY <1>1, <1>2, <2>1 DEF CountInv, ReadLocks, Locks
<1>4. WriterInv'
  <2>1. \A s \in Threads : writer # NoThread /\ reads'[s] > 0 => writer = s
    BY <1>1, <1>2 DEF ReadFree, WriterInv, Tally
  <2> QED
    BY <1>1, <2>1 DEF WriterInv
<1>5. WaitInv'
  <2>1. ~registered[t]
    BY <1>1, ReaderIsNotRegistered DEF ReadAcquire
  <2>2. Unregister(t)
    BY <1>1, <2>1 DEF Unregister
  <2> QED
    BY <1>1, <2>2, CallEnds
<1> QED
  BY <1>2, <1>3, <1>4, <1>5 DEF IInv

LEMMA LockBlockStep ==
  ASSUME IInv, NEW t \in Threads, NEW w \in BOOLEAN, NEW tm \in BOOLEAN, LockBlock(t, w, tm)
  PROVE  IInv'
<1>1. TableInv' /\ CountInv' /\ WriterInv'
  BY NothingChanges DEF LockBlock, IInv, table
<1>2. /\ WaitInv /\ pc[t] = "idle" /\ ~registered[t]
      /\ pc' = [pc EXCEPT ![t] = "asleep"] /\ write' = [write EXCEPT ![t] = w]
      /\ registered' = [registered EXCEPT ![t] = w] /\ timed' = [timed EXCEPT ![t] = tm]
      /\ waiting_writers' = (IF w THEN waiting_writers + 1 ELSE waiting_writers)
      /\ expired' = expired
  BY DEF LockBlock, IInv, WaitInv
<1>3. waiting_writers' = Cardinality(Waiting(registered'))
  <2>1. registered \in [Threads -> BOOLEAN] /\ waiting_writers = Cardinality(Waiting(registered))
    BY <1>2 DEF WaitInv, Waiting
  <2>2. CASE w
    <3>1. registered' = [registered EXCEPT ![t] = TRUE]
      BY <1>2, <2>2
    <3> QED
      BY <1>2, <2>1, <2>2, <3>1, OneWaits
  <2>3. CASE ~w
    <3>1. registered' = registered
      BY <1>2, <2>1, <2>3
    <3> QED
      BY <1>2, <2>1, <2>3, <3>1
  <2> QED
    BY <2>2, <2>3
<1>4. \A s \in Threads : registered'[s] <=> pc'[s] # "idle" /\ write'[s]
  BY <1>2 DEF WaitInv
<1>5. WaitInv'
  BY <1>2, <1>3, <1>4 DEF WaitInv, Waiting
<1> QED
  BY <1>1, <1>5 DEF IInv

(* The steps of a sleeper. *)
LEMMA SleeperStep ==
  ASSUME IInv, NEW t \in Threads, LockSleepAgain(t) \/ SleepEnds(t) \/ DeadlinePasses(t)
  PROVE  IInv'
<1>1. TableInv' /\ CountInv' /\ WriterInv'
  BY NothingChanges DEF LockSleepAgain, SleepEnds, DeadlinePasses, IInv, table
<1>2. WaitInv /\ UNCHANGED <<write, registered, timed, waiting_writers>>
  BY DEF LockSleepAgain, SleepEnds, DeadlinePasses, IInv
<1>3. CASE LockSleepAgain(t)
  <2>1. pc' = [s \in Threads |-> IF s \in {t} THEN "asleep" ELSE pc[s]]
    BY <1>2, <1>3 DEF LockSleepAgain, WaitInv
  <2> QED
    BY <1>1, <1>2, <1>3, <2>1, WakeUps DEF LockSleepAgain, IInv
<1>4. CASE SleepEnds(t)
  <2>1. pc' = [s \in Threads |-> IF s \in {t} THEN "awake" ELSE pc[s]]
    BY <1>2, <1>4 DEF SleepEnds, WaitInv
  <2> QED
    BY <1>1, <1>2, <1>4, <2>1, WakeUps DEF SleepEnds, IInv
<1>5. CASE DeadlinePasses(t)
  <2>1. WaitInv'
    BY <1>2, <1>5 DEF DeadlinePasses, WaitInv
  <2> QED
    BY <1>1, <2>1 DEF IInv
<1> QED
  BY <1>3, <1>4, <1>5

LEMMA UnlockReadStep ==
  ASSUME IInv, NEW t \in Threads, UnlockRead(t)
  PROVE  IInv'
<1>1. /\ RemoveReader(t)
      /\ NotifyAll \/ UNCHANGED pc
      /\ UNCHANGED <<writer, writer_count, waiting_writers, write, registered, timed,
                     expired, writes>>
      /\ TableInv /\ CountInv /\ WriterInv /\ WaitInv /\ reads \in Tally
  BY DEF UnlockRead, IInv, TableInv, Table
<1>2. /\ TableInv' /\ reads[t] > 0 /\ reads' = [reads EXCEPT ![t] = reads[t] - 1]
      /\ reader_count' = reader_count - 1
  BY <1>1, RemoveStep
<1>3. CountInv'
  <2>1. Cardinality(Locks(reads')) = Cardinality(Locks(reads)) - 1
    BY <1>1, <1>2, OneLockLess
  <2> QED
    BY <1>1, <1>2, <2>1 DEF CountInv, ReadLocks, Locks
<1>4. WriterInv'
  <2>1. \A s \in Threads : writer # NoThread /\ reads'[s] > 0 => writer = s
    BY <1>1, <1>2 DEF WriterInv, Tally
  <2> QED
    BY <1>1, <2>1 DEF WriterInv
<1>5. WaitInv'
  <2>1. CASE UNCHANGED pc
    BY <1>1, <2>1 DEF WaitInv
  <2> QED
    BY <1>1, <2>1, NotifyAllStep
<1> QED
  BY <1>2, <1>3, <1>4, <1>5 DEF IInv

LEMMA UnlockWriteStep ==
  ASSUME IInv, NEW t \in Threads, UnlockWrite(t)
  PROVE  IInv'
<1>1. TableInv' /\ CountInv'
  BY NothingChanges DEF UnlockWrite, IInv, table
<1>2. /\ writer = t /\ t # NoThread /\ writer_count = 1 /\ writes[t] = 1
      /\ \A s \in Threads \ {t} : writes[s] = 0
  BY DEF UnlockWrite, IInv, WriterInv
<1>3. /\ writer' = NoThread /\ writer_count' = 0 /\ NotifyAll
      /\ writes' = [writes EXCEPT ![t] = 0]
  BY <1>2 DEF UnlockWrite, IInv, WriterInv
<1>4. WriterInv'
  BY <1>2, <1>3 DEF IInv, WriterInv
<1>5. WaitInv'
  BY <1>3, NotifyAllStep DEF UnlockWrite, IInv
<1> QED
  BY <1>1, <1>4, <1>5 DEF IInv

LEMMA NextIInv ==
  ASSUME IInv, [Next]_vars
  PROVE  IInv'
<1>1. CASE UNCHANGED vars
  BY <1>1 DEF vars, call, table, IInv, TableInv, CountInv, ReadLocks, WriterInv, WaitInv
<1>2. ASSUME NEW t \in Threads, Lock(t) PROVE IInv'
  BY <1>2, LockEnds, WriteAcquireStep, ReadAcquireStep, SleeperStep DEF Lock
<1>3. ASSUME NEW t \in Threads, Unlock(t) PROVE IInv'
  BY <1>3, UnlockReadStep, UnlockWriteStep DEF Unlock
<1>4. ASSUME NEW t \in Threads, NEW w \in BOOLEAN, NEW tm \in BOOLEAN, LockBlock(t, w, tm)
      PROVE  IInv'
  BY <1>4, LockBlockStep
<1>5. ASSUME NEW t \in Threads, DeadlinePasses(t) \/ SleepEnds(t) PROVE IInv'
  BY <1>5, SleeperStep
<1> QED
  BY <1>1, <1>2, <1>3, <1>4, <1>5 DEF Next

(* The inductive invariant holds of every reachable state of the lock. *)
THEOREM Inductive == Spec => []IInv
<1>1. Init => IInv
  BY InitIInv
<1>2. IInv /\ [Next]_vars => IInv'
  BY NextIInv
<1> QED
  BY <1>1, <1>2, PTL DEF Spec

(* Every variable of the lock keeps its type; the inline slots are never   *)
(* overrun.                                                                *)
THEOREM TypeCorrect == Spec => []TypeOK
<1>1. ASSUME IInv PROVE TypeOK
  <2>1. /\ reader_count \in Nat
    BY <1>1, LocksAreFinite DEF IInv, CountInv, ReadLocks, Locks, TableInv, Table
  <2>2. waiting_writers \in Nat
    BY <1>1, WaitingIsFinite DEF IInv, WaitInv, Waiting
  <2>3. /\ inline \in Seq(Entry) /\ overflow \in Seq(Entry) /\ Len(inline) <= InlineSlots
        /\ reads \in Tally
    BY <1>1 DEF IInv, TableInv, Table, Exact
  <2> QED
    BY <1>1, <2>1, <2>2, <2>3 DEF TypeOK, IInv, WriterInv, WaitInv, Entry, Tally
<1>2. IInv => TypeOK
  BY <1>1
<1> QED
  BY <1>2, Inductive, PTL

(* PthreadRwlock*lock never lets a writer in beside another holder. *)
THEOREM WritersExclude == Spec => []Exclusive
<1>1. IInv => Exclusive
  BY DEF IInv, WriterInv, Exclusive
<1> QED
  BY <1>1, Inductive, PTL

(* The table of readers, the writer and the count of waiting writers are   *)
(* exactly what the guest threads hold and wait for.                       *)
THEOREM TableIsExact == Spec => []BookkeepingExact
<1>1. ASSUME IInv PROVE BookkeepingExact
  <2>1. ASSUME NEW seq, Exact(seq, reads) PROVE Faithful(seq)
    <3>1. DOMAIN seq = 1..Len(seq)
      BY <2>1, LenProperties DEF Exact
    <3> QED
      BY <2>1, <3>1 DEF Exact, Faithful
  <2>2. /\ Faithful(inline) /\ Faithful(overflow)
        /\ Listed(inline) \cap Listed(overflow) = {}
        /\ \A t \in Threads : reads[t] > 0 => t \in Listed(inline) \cup Listed(overflow)
    BY <1>1, <2>1 DEF IInv, TableInv, Table
  <2>3. /\ writer # NoThread <=> writer_count = 1
        /\ \A t \in Threads : writes[t] = IF writer = t THEN 1 ELSE 0
    BY <1>1 DEF IInv, WriterInv
  <2>4. /\ waiting_writers = Cardinality({t \in Threads : registered[t]})
        /\ \A t \in Threads : registered[t] <=> pc[t] # "idle" /\ write[t]
    BY <1>1 DEF IInv, WaitInv
  <2>5. reader_count = Cardinality(ReadLocks)
    BY <1>1 DEF IInv, CountInv
  <2> QED
    BY <2>2, <2>3, <2>4, <2>5 DEF BookkeepingExact
<1>2. IInv => BookkeepingExact
  BY <1>1
<1> QED
  BY <1>2, Inductive, PTL

------------------------------------------------------------------------------
(* Sleepers *)

(* A writer asleep is kept out by a holder, a reader by a writer that      *)
(* holds the lock or waits for it.                                         *)
WritersKept == \A t \in Sleepers : write[t] => ~WriteFree
ReadersKept == \A t \in Sleepers :
  ~write[t] => /\ writer # t
               /\ writer # NoThread \/ (waiting_writers > 0 /\ reads[t] = 0)

(* A thread that waits to write holds nothing, and only a call with a      *)
(* deadline is late.                                                       *)
CallerInv == \A t \in Threads :
  /\ pc[t] # "idle" /\ write[t] => reads[t] = 0 /\ writer # t
  /\ expired[t] => timed[t]
  /\ timed[t] => pc[t] # "idle" /\ t \in (IF write[t] THEN TimedWriters ELSE TimedReaders)

LEMMA ReadFreeIs ==
  ASSUME IInv, NEW t \in Threads
  PROVE  /\ ReadFree(t) <=> \/ writer = NoThread /\ (waiting_writers = 0 \/ reads[t] > 0)
                            \/ writer = t
         /\ reads[t] \in Nat /\ waiting_writers \in Nat /\ reader_count \in Nat
         /\ IsReader(t) <=> reads[t] > 0
<1>1. IsReader(t) <=> reads[t] > 0
  BY ReaderIsListed DEF IInv
<1>2. reads[t] \in Nat
  BY DEF IInv, TableInv, Table, Tally
<1>3. waiting_writers \in Nat
  BY WaitingIsFinite DEF IInv, WaitInv, Waiting
<1>4. reader_count \in Nat
  <2>1. reads \in Tally
    BY DEF IInv, TableInv, Table
  <2> QED
    BY <2>1, LocksAreFinite DEF IInv, CountInv, ReadLocks, Locks
<1> QED
  BY <1>1, <1>2, <1>3, <1>4 DEF ReadFree

(* Nobody is left asleep by a notification to all. *)
LEMMA NobodySleeps ==
  ASSUME NotifyAll
  PROVE  Sleepers' = {}
BY DEF NotifyAll, Sleepers

(* A registered writer counts. *)
LEMMA WriterCounts ==
  ASSUME IInv, NEW t \in Threads, registered[t]
  PROVE  waiting_writers > 0
<1>1. t \in Waiting(registered)
  BY DEF Waiting
<1>2. Cardinality(Waiting(registered)) # 0 /\ Cardinality(Waiting(registered)) \in Nat
  BY <1>1, WaitingIsFinite, FS_EmptySet
<1> QED
  BY <1>2 DEF IInv, WaitInv, Waiting

(* What each step does to the calls and to the lock, for the threads it    *)
(* leaves where they are.                                                  *)
Bystander(s) == /\ pc'[s] = pc[s] /\ write'[s] = write[s] /\ timed'[s] = timed[s]
                /\ expired'[s] = expired[s] /\ reads'[s] = reads[s]

LEMMA EndsForOthers ==
  ASSUME IInv, NEW t \in Threads, Finished(t)
  PROVE  /\ pc'[t] = "idle" /\ ~write'[t] /\ ~timed'[t] /\ ~expired'[t]
         /\ \A s \in Threads \ {t} : /\ pc'[s] = pc[s] /\ write'[s] = write[s]
                                     /\ timed'[s] = timed[s] /\ expired'[s] = expired[s]
BY DEF Finished, IInv, WaitInv

LEMMA LockSleepers ==
  ASSUME IInv, IInv', CallerInv, NEW t \in Threads,
         WriteDeadlock(t) \/ WriteAcquire(t) \/ ReadAcquire(t) \/ LockTimeout(t)
  PROVE  /\ CallerInv'
         /\ WritersKept => WritersKept'
         /\ TimedWriters = {} /\ ReadersKept => ReadersKept'
<1>1. Finished(t)
  BY DEF WriteDeadlock, WriteAcquire, ReadAcquire, LockTimeout
<1>2. /\ pc'[t] = "idle" /\ ~write'[t] /\ ~timed'[t] /\ ~expired'[t]
      /\ \A s \in Threads \ {t} : /\ pc'[s] = pc[s] /\ write'[s] = write[s]
                                  /\ timed'[s] = timed[s] /\ expired'[s] = expired[s]
  BY <1>1, EndsForOthers
<1>3. \A s \in Threads \ {t} : reads'[s] = reads[s]
  BY DEF WriteDeadlock, WriteAcquire, ReadAcquire, LockTimeout, AddReader, IInv, TableInv, Table,
         Tally
<1>4. /\ reader_count \in Nat
      /\ \/ writer' = t /\ reader_count' = reader_count
         \/ writer' = writer /\ reader_count' = reader_count
         \/ writer' = writer /\ reader_count' = reader_count + 1
  <2>1. reader_count \in Nat
    BY ReadFreeIs
  <2>2. CASE ReadAcquire(t)
    BY <2>1, <2>2 DEF ReadAcquire, AddReader
  <2>3. CASE WriteAcquire(t)
    BY <2>1, <2>3 DEF WriteAcquire, table
  <2>4. CASE WriteDeadlock(t) \/ LockTimeout(t)
    BY <2>1, <2>4 DEF WriteDeadlock, LockTimeout, table
  <2> QED
    BY <2>1, <2>2, <2>3, <2>4
<1>5. CallerInv'
  <2>1. \A s \in Threads \ {t} : pc[s] # "idle" /\ write[s] => writer' # s
    BY <1>4 DEF CallerInv
  <2> QED
    BY <1>2, <1>3, <2>1 DEF CallerInv
<1>6. t # NoThread
  BY RwlockAssumption
<1>7. Sleepers' \subseteq Sleepers \ {t}
  BY <1>2 DEF Sleepers
<1>8. ASSUME WritersKept PROVE WritersKept'
  <2>1. ASSUME NEW s \in Sleepers', write'[s] PROVE ~WriteFree'
    <3>1. s \in Sleepers /\ write[s] /\ ~WriteFree
      BY <1>2, <1>7, <1>8, <2>1 DEF WritersKept, Sleepers
    <3> QED
      BY <1>4, <1>6, <3>1 DEF WriteFree
  <2> QED
    BY <2>1 DEF WritersKept
<1>9. ASSUME TimedWriters = {}, ReadersKept PROVE ReadersKept'
  <2>1. writer' = t \/ waiting_writers' = waiting_writers
    <3>1. CASE WriteDeadlock(t)
      <4>1. ~registered[t]
        BY <3>1, ReadFreeIs DEF WriteDeadlock, InCall, CallerInv, IInv, WaitInv
      <4> QED
        BY <3>1, <4>1 DEF WriteDeadlock, Unregister
    <3>2. CASE LockTimeout(t)
      <4>1. ~registered[t]
        BY <1>9, <3>2 DEF LockTimeout, CallerInv, IInv, WaitInv
      <4> QED
        BY <3>2, <4>1 DEF LockTimeout, Unregister
    <3> QED
      BY <3>1, <3>2 DEF WriteAcquire, ReadAcquire
  <2>2. ASSUME NEW s \in Sleepers', ~write'[s]
        PROVE  /\ writer' # s
               /\ writer' # NoThread \/ (waiting_writers' > 0 /\ reads'[s] = 0)
    <3>1. s \in Sleepers \ {t} /\ s \in Threads /\ ~write[s] /\ reads'[s] = reads[s]
      BY <1>2, <1>3, <1>7, <2>2 DEF Sleepers
    <3> QED
      BY <1>4, <1>6, <1>9, <2>1, <3>1 DEF ReadersKept
  <2> QED
    BY <2>2 DEF ReadersKept
<1> QED
  BY <1>5, <1>8, <1>9

LEMMA SleepSleepers ==
  ASSUME IInv, IInv', CallerInv, NEW t \in Threads,
         \/ LockSleepAgain(t) \/ DeadlinePasses(t) \/ SleepEnds(t)
         \/ \E w, tm \in BOOLEAN : LockBlock(t, w, tm)
  PROVE  /\ CallerInv'
         /\ WritersKept => WritersKept'
         /\ ReadersKept => ReadersKept'
<1>1. CASE \E w, tm \in BOOLEAN : LockBlock(t, w, tm)
  <2>1. PICK w \in BOOLEAN, tm \in BOOLEAN : LockBlock(t, w, tm)
    BY <1>1
  <2>2. /\ pc[t] = "idle" /\ MustWait(t, w) /\ (tm => t \in IF w THEN TimedWriters ELSE TimedReaders)
        /\ pc' = [pc EXCEPT ![t] = "asleep"] /\ write' = [write EXCEPT ![t] = w]
        /\ timed' = [timed EXCEPT ![t] = tm]
        /\ waiting_writers' = (IF w THEN waiting_writers + 1 ELSE waiting_writers)
        /\ UNCHANGED <<writer, reader_count, expired, reads>>
    BY <2>1 DEF LockBlock, table
  <2>3. /\ pc \in [Threads -> {"idle", "asleep", "awake"}] /\ write \in [Threads -> BOOLEAN]
        /\ timed \in [Threads -> BOOLEAN] /\ waiting_writers \in Nat /\ reads[t] \in Nat
    BY ReadFreeIs DEF IInv, WaitInv
  <2>4. /\ w => writer # t /\ reads[t] = 0 /\ ~WriteFree
        /\ ~w => /\ writer # t
                 /\ writer # NoThread \/ (waiting_writers > 0 /\ reads[t] = 0)
    BY <2>2, <2>3, ReadFreeIs DEF MustWait
  <2>5. CallerInv'
    BY <2>2, <2>3, <2>4 DEF CallerInv
  <2>6. Sleepers' = Sleepers \cup {t}
    BY <2>2, <2>3 DEF Sleepers
  <2>7. WritersKept => WritersKept'
    BY <2>2, <2>3, <2>4, <2>6 DEF WritersKept, Sleepers, WriteFree
  <2>8. ReadersKept => ReadersKept'
    BY <2>2, <2>3, <2>4, <2>6 DEF ReadersKept, Sleepers
  <2> QED
    BY <2>5, <2>7, <2>8
<1>2. CASE LockSleepAgain(t) \/ DeadlinePasses(t) \/ SleepEnds(t)
  <2>1. UNCHANGED <<writer, waiting_writers, reader_count, write, timed, reads>>
    BY <1>2 DEF LockSleepAgain, DeadlinePasses, SleepEnds, table
  <2>2. /\ pc \in [Threads -> {"idle", "asleep", "awake"}] /\ write \in [Threads -> BOOLEAN]
        /\ waiting_writers \in Nat /\ reads[t] \in Nat
    BY ReadFreeIs DEF IInv, WaitInv
  <2>3. \A s \in Threads : pc'[s] = "idle" <=> pc[s] = "idle"
    BY <1>2, <2>2 DEF LockSleepAgain, DeadlinePasses, SleepEnds
  <2>4. \A s \in Threads : expired'[s] => timed[s]
    BY <1>2 DEF LockSleepAgain, DeadlinePasses, SleepEnds, CallerInv, IInv, WaitInv
  <2>5. CallerInv'
    BY <2>1, <2>3, <2>4 DEF CallerInv
  <2>6. CASE Sleepers' \subseteq Sleepers
    BY <2>1, <2>5, <2>6 DEF WritersKept, ReadersKept, WriteFree
  <2>7. CASE LockSleepAgain(t)
    <3>1. Sleepers' = Sleepers \cup {t} /\ MustWait(t, write[t])
      BY <2>2, <2>7 DEF LockSleepAgain, Sleepers
    <3>2. /\ write[t] => ~WriteFree
          /\ ~write[t] => /\ writer # t
                          /\ writer # NoThread \/ (waiting_writers > 0 /\ reads[t] = 0)
      BY <2>2, <3>1, ReadFreeIs DEF MustWait
    <3> QED
      BY <2>1, <2>5, <3>1, <3>2 DEF WritersKept, ReadersKept, WriteFree
  <2> QED
    BY <1>2, <2>2, <2>6, <2>7 DEF DeadlinePasses, SleepEnds, Sleepers
<1> QED
  BY <1>1, <1>2

LEMMA UnlockSleepers ==
  ASSUME IInv, IInv', CallerInv, NEW t \in Threads, Unlock(t)
  PROVE  /\ CallerInv'
         /\ WritersKept => WritersKept'
         /\ ReadersKept => ReadersKept'
<1>1. /\ pc[t] = "idle" /\ UNCHANGED <<waiting_writers, write, registered, timed, expired>>
      /\ UNCHANGED pc \/ NotifyAll
  BY DEF Unlock, UnlockRead, UnlockWrite
<1>2. \A s \in Threads : pc'[s] = "idle" <=> pc[s] = "idle"
  BY <1>1 DEF NotifyAll
<1>3. /\ \A s \in Threads \ {t} : reads'[s] = reads[s]
      /\ writer' \in {writer, NoThread}
  <2>1. CASE UnlockRead(t)
    <3>1. reads' = [reads EXCEPT ![t] = reads[t] - 1]
      BY <2>1, RemoveStep DEF UnlockRead, IInv
    <3> QED
      BY <2>1, <3>1 DEF UnlockRead, IInv, TableInv, Table, Tally
  <2> QED
    BY <2>1 DEF Unlock, UnlockWrite
<1>4. CallerInv'
  BY <1>1, <1>2, <1>3, RwlockAssumption DEF CallerInv
<1>5. CASE NotifyAll
  BY <1>4, <1>5, NobodySleeps DEF WritersKept, ReadersKept
<1>6. CASE ~NotifyAll
  <2>1. writer' = writer /\ UNCHANGED pc
    BY <1>1, <1>6 DEF Unlock, UnlockRead, UnlockWrite
  <2>2. Sleepers' = Sleepers /\ t \notin Sleepers
    BY <1>1, <2>1 DEF Sleepers
  <2>3. ReadersKept => ReadersKept'
    BY <1>1, <1>3, <2>1, <2>2 DEF ReadersKept, Sleepers
  <2>4. ASSUME NEW s \in Sleepers, write[s], WriteFree' PROVE FALSE
    <3>1. registered[s] /\ s \in Threads
      BY <2>4 DEF Sleepers, IInv, WaitInv
    <3>2. waiting_writers > 0
      BY <3>1, WriterCounts
    <3>3. reader_count' = 0 /\ writer = NoThread
      BY <2>1, <2>4 DEF WriteFree
    <3>4. UnlockRead(t)
      BY <3>3, RwlockAssumption DEF Unlock, UnlockWrite
    <3> QED
      BY <1>6, <3>2, <3>3, <3>4 DEF UnlockRead
  <2> QED
    BY <1>1, <1>4, <2>2, <2>3, <2>4 DEF WritersKept
<1> QED
  BY <1>5, <1>6

LEMMA NextSleepers ==
  ASSUME IInv, IInv', CallerInv, [Next]_vars
  PROVE  /\ CallerInv'
         /\ WritersKept => WritersKept'
         /\ TimedWriters = {} /\ ReadersKept => ReadersKept'
<1>1. CASE UNCHANGED vars
  BY <1>1 DEF vars, call, table, CallerInv, WritersKept, ReadersKept, Sleepers, WriteFree
<1>2. CASE Next
  BY <1>2, LockSleepers, SleepSleepers, UnlockSleepers DEF Next, Lock
<1> QED
  BY <1>1, <1>2

LEMMA InitSleepers ==
  ASSUME Init
  PROVE  CallerInv /\ WritersKept /\ ReadersKept
BY DEF Init, CallerInv, WritersKept, ReadersKept, Sleepers

(* No writer sleeps on a lock that is free, with or without deadlines: the *)
(* notifications of PthreadRwlockUnlock reach it whenever the last holder  *)
(* goes.                                                                   *)
THEOREM NoWriterForgotten == Spec => []WritersKept
<1>1. Init => CallerInv /\ WritersKept
  BY InitSleepers
<1>2. IInv /\ IInv' /\ (CallerInv /\ WritersKept) /\ [Next]_vars => (CallerInv /\ WritersKept)'
  BY NextSleepers
<1> QED
  BY <1>1, <1>2, Inductive, PTL DEF Spec

(* While no writer uses a deadline nobody sleeps on a lock it could have,  *)
(* and a reader that is kept out of a free lock is kept out by a writer    *)
(* that is awake and about to take it.  (A timed writer that gives up      *)
(* breaks this: it tells nobody.)                                          *)
NoStrandedSleeper == \A t \in Sleepers :
  IF write[t] THEN ~WriteFree
  ELSE /\ ~ReadFree(t)
       /\ WriteFree => \E s \in Threads : pc[s] = "awake" /\ write[s]

THEOREM NobodySleepsInVain == TimedWriters = {} => (Spec => []NoStrandedSleeper)
<1> SUFFICES ASSUME TimedWriters = {} PROVE Spec => []NoStrandedSleeper
  OBVIOUS
<1> DEFINE I == CallerInv /\ WritersKept /\ ReadersKept
<1>1. Init => I
  BY InitSleepers
<1>2. IInv /\ IInv' /\ I /\ [Next]_vars => I'
  BY NextSleepers
<1>3. ASSUME IInv, I PROVE NoStrandedSleeper
  <2> SUFFICES ASSUME NEW t \in Sleepers, ~write[t]
               PROVE  /\ ~ReadFree(t)
                      /\ WriteFree => \E s \in Threads : pc[s] = "awake" /\ write[s]
    BY <1>3 DEF NoStrandedSleeper, WritersKept
  <2>1. /\ writer # t
        /\ writer # NoThread \/ (waiting_writers > 0 /\ reads[t] = 0)
    BY <1>3 DEF ReadersKept
  <2>2. ~ReadFree(t)
    BY <1>3, <2>1, ReadFreeIs DEF Sleepers
  <2>3. ASSUME WriteFree PROVE \E s \in Threads : pc[s] = "awake" /\ write[s]
    <3>1. Cardinality(Waiting(registered)) # 0
      BY <1>3, <2>1, <2>3 DEF WriteFree, IInv, WaitInv, Waiting
    <3>2. PICK s \in Threads : registered[s]
      BY <3>1, FS_EmptySet DEF Waiting
    <3>3. pc[s] \in {"asleep", "awake"} /\ write[s]
      BY <1>3, <3>2 DEF IInv, WaitInv
    <3>4. pc[s] # "asleep"
      BY <1>3, <2>3, <3>3 DEF WritersKept, Sleepers
    <3> QED
      BY <3>3, <3>4
  <2> QED
    BY <2>2, <2>3
<1> HIDE DEF I
<1>4. IInv /\ I => NoStrandedSleeper
  BY <1>3
<1> QED
  BY <1>1, <1>2, <1>4, Inductive, PTL DEF Spec
==============================================================================
