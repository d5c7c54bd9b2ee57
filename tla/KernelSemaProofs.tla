--------------------------- MODULE KernelSemaProofs ---------------------------
(***************************************************************************)
(* Proofs about KernelSema, for every finite set of threads, every         *)
(* assignment of priorities, every width of the ints, every initial and    *)
(* maximal count, and all ints as arguments of Signal and Cancel.          *)
(***************************************************************************)
EXTENDS KernelSema, SequenceTheorems, FiniteSetTheorems, TLAPS

(* A newcomer at the end of the queue. *)
LEMMA AppendFacts ==
  ASSUME NEW S, NEW s \in Seq(S), NEW e \in S
  PROVE  /\ Append(s, e) \in Seq(S)
         /\ Range(Append(s, e)) = Range(s) \cup {e}
         /\ e \notin Range(s) /\ IsInjective(s) => IsInjective(Append(s, e))
<1> DEFINE a == Append(s, e)
<1>1. /\ a \in Seq(S) /\ Len(a) = Len(s) + 1 /\ Len(s) \in Nat
      /\ \A i \in 1..Len(s) : a[i] = s[i]
      /\ a[Len(s) + 1] = e
      /\ DOMAIN a = 1..(Len(s) + 1) /\ DOMAIN s = 1..Len(s)
  BY AppendProperties, LenProperties
<1> HIDE DEF a
<1>2. Range(a) = Range(s) \cup {e}
  BY <1>1 DEF Range
<1>3. e \notin Range(s) /\ IsInjective(s) => IsInjective(a)
  BY <1>1 DEF IsInjective, Range
<1> QED
  BY <1>1, <1>2, <1>3 DEF a

(* A new member somewhere in a sequence. *)
LEMMA InsertAtElements ==
  ASSUME NEW S, NEW s \in Seq(S), NEW e \in S, NEW i \in 1..(Len(s) + 1)
  PROVE  /\ InsertAt(s, i, e) \in Seq(S)
         /\ Len(InsertAt(s, i, e)) = Len(s) + 1
         /\ \A j \in 1..(Len(s) + 1) :
              InsertAt(s, i, e)[j] = IF j < i THEN s[j] ELSE IF j = i THEN e ELSE s[j - 1]
<1> DEFINE front == SubSeq(s, 1, i - 1)
           back == SubSeq(s, i, Len(s))
           new == InsertAt(s, i, e)
<1>1. /\ Len(s) \in Nat /\ DOMAIN s = 1..Len(s)
      /\ \A j \in 1..Len(s) : s[j] \in S
  BY LenProperties, ElementOfSeq
<1>2. /\ front \in Seq(S) /\ Len(front) = i - 1
      /\ \A j \in 1..(i - 1) : front[j] = s[j]
  <2>1. \A j \in 1..(i - 1) : s[j] \in S
    BY <1>1
  <2> QED
    BY <1>1, <2>1, SubSeqProperties
<1>3. /\ back \in Seq(S) /\ Len(back) = Len(s) - i + 1
      /\ \A j \in 1..(Len(s) - i + 1) : back[j] = s[i + j - 1]
  <2>1. \A j \in i..Len(s) : s[j] \in S
    BY <1>1
  <2> QED
    BY <1>1, <2>1, SubSeqProperties
<1>4. <<e>> \in Seq(S) /\ Len(<<e>>) = 1 /\ <<e>>[1] = e
  OBVIOUS
<1> DEFINE first == front \o <<e>>
<1>5. new = first \o back
  BY DEF InsertAt
<1> HIDE DEF front, back, new
<1>6. /\ first \in Seq(S) /\ Len(first) = i
      /\ \A j \in 1..i : first[j] = IF j < i THEN s[j] ELSE e
  BY <1>1, <1>2, <1>4, ConcatProperties
<1> HIDE DEF first
<1>7. /\ new \in Seq(S) /\ Len(new) = Len(s) + 1
      /\ \A j \in 1..(Len(s) + 1) :
           new[j] = IF j < i THEN s[j] ELSE IF j = i THEN e ELSE s[j - 1]
  <2>1. /\ new \in Seq(S) /\ Len(new) = Len(first) + Len(back)
        /\ \A j \in 1..(Len(first) + Len(back)) :
             new[j] = IF j <= Len(first) THEN first[j] ELSE back[j - Len(first)]
    BY <1>3, <1>5, <1>6, ConcatProperties
  <2>2. Len(first) + Len(back) = Len(s) + 1
    BY <1>1, <1>3, <1>6
  <2>3. ASSUME NEW j \in 1..(Len(s) + 1), j > i PROVE new[j] = s[j - 1]
    <3>1. j - i \in 1..(Len(s) - i + 1) /\ i + (j - i) - 1 = j - 1
      BY <1>1, <2>3
    <3>2. new[j] = back[j - i]
      BY <1>1, <1>6, <2>1, <2>2, <2>3
    <3> QED
      BY <1>3, <3>1, <3>2
  <2>4. ASSUME NEW j \in 1..i PROVE new[j] = IF j < i THEN s[j] ELSE e
    BY <1>1, <1>6, <2>1, <2>2
  <2> QED
    BY <1>1, <2>1, <2>2, <2>3, <2>4
<1> QED
  BY <1>7 DEF new

LEMMA InsertAtFacts ==
  ASSUME NEW S, NEW s \in Seq(S), NEW e \in S, NEW i \in 1..(Len(s) + 1)
  PROVE  /\ InsertAt(s, i, e) \in Seq(S)
         /\ Range(InsertAt(s, i, e)) = Range(s) \cup {e}
         /\ e \notin Range(s) /\ IsInjective(s) => IsInjective(InsertAt(s, i, e))
<1> DEFINE new == InsertAt(s, i, e)
<1>1. Len(s) \in Nat /\ DOMAIN s = 1..Len(s)
  BY LenProperties
<1>2. /\ new \in Seq(S) /\ DOMAIN new = 1..(Len(s) + 1)
      /\ \A j \in 1..(Len(s) + 1) :
           new[j] = IF j < i THEN s[j] ELSE IF j = i THEN e ELSE s[j - 1]
  <2>1. /\ new \in Seq(S) /\ Len(new) = Len(s) + 1
        /\ \A j \in 1..(Len(s) + 1) :
             new[j] = IF j < i THEN s[j] ELSE IF j = i THEN e ELSE s[j - 1]
    BY InsertAtElements
  <2> HIDE DEF new
  <2> QED
    BY <2>1, LenProperties
<1> HIDE DEF new
<1>3. ASSUME NEW x \in Range(new) PROVE x \in Range(s) \cup {e}
  <2>1. PICK j \in 1..(Len(s) + 1) : x = new[j]
    BY <1>2 DEF Range
  <2>2. CASE j < i
    BY <1>1, <1>2, <2>1, <2>2 DEF Range
  <2>3. CASE j = i
    BY <1>2, <2>1, <2>3
  <2>4. CASE j > i
    <3>1. j - 1 \in 1..Len(s) /\ x = s[j - 1]
      BY <1>1, <1>2, <2>1, <2>4
    <3> QED
      BY <1>1, <3>1 DEF Range
  <2> QED
    BY <1>1, <2>2, <2>3, <2>4
<1>4. ASSUME NEW x \in Range(s) \cup {e} PROVE x \in Range(new)
  <2>1. CASE x = e
    BY <1>1, <1>2, <2>1 DEF Range
  <2>2. ASSUME NEW j \in 1..Len(s), x = s[j] PROVE x \in Range(new)
    <3>1. CASE j < i
      BY <1>1, <1>2, <2>2, <3>1 DEF Range
    <3>2. CASE ~(j < i)
      <4>1. j + 1 \in 1..(Len(s) + 1) /\ new[j + 1] = s[j]
        BY <1>1, <1>2, <3>2
      <4> QED
        BY <1>2, <2>2, <4>1 DEF Range
    <3> QED
      BY <3>1, <3>2
  <2> QED
    BY <1>1, <2>1, <2>2 DEF Range
<1>5. ASSUME e \notin Range(s), IsInjective(s) PROVE IsInjective(new)
  <2>1. /\ \A j \in 1..Len(s) : s[j] # e
        /\ \A j, k \in 1..Len(s) : s[j] = s[k] => j = k
    BY <1>1, <1>5 DEF Range, IsInjective
  <2>2. \A j, k \in 1..(Len(s) + 1) : new[j] = new[k] => j = k
    BY <1>1, <1>2, <2>1
  <2> QED
    BY <1>2, <2>2 DEF IsInjective
<1> QED
  BY <1>2, <1>3, <1>4, <1>5 DEF new

(* The queue without its i-th member. *)
LEMMA RemoveAtElements ==
  ASSUME NEW S, NEW s \in Seq(S), NEW i \in 1..Len(s)
  PROVE  /\ RemoveAt(s, i) \in Seq(S)
         /\ Len(RemoveAt(s, i)) = Len(s) - 1
         /\ \A j \in 1..(Len(s) - 1) :
              RemoveAt(s, i)[j] = IF j < i THEN s[j] ELSE s[j + 1]
<1>1. Len(s) \in Nat /\ \A j \in 1..Len(s) : s[j] \in S
  BY LenProperties, ElementOfSeq
<1> DEFINE front == SubSeq(s, 1, i - 1)
           back == SubSeq(s, i + 1, Len(s))
<1>2. /\ front \in Seq(S) /\ Len(front) = i - 1
      /\ \A j \in 1..(i - 1) : front[j] = s[j]
  <2>1. \A j \in 1..(i - 1) : s[j] \in S
    BY <1>1
  <2> QED
    BY <1>1, <2>1, SubSeqProperties
<1>3. /\ back \in Seq(S) /\ Len(back) = Len(s) - i
      /\ \A j \in 1..(Len(s) - i) : back[j] = s[j + i]
  <2>1. \A j \in (i + 1)..Len(s) : s[j] \in S
    BY <1>1
  <2>2. /\ back \in Seq(S)
        /\ Len(back) = IF i + 1 <= Len(s) THEN Len(s) - (i + 1) + 1 ELSE 0
        /\ \A j \in 1..(Len(s) - (i + 1) + 1) : back[j] = s[(i + 1) + j - 1]
    BY <1>1, <2>1, SubSeqProperties
  <2> HIDE DEF back
  <2> QED
    BY <1>1, <2>2
<1> HIDE DEF front, back
<1> DEFINE both == front \o back
<1>4. /\ both \in Seq(S)
      /\ Len(both) = Len(front) + Len(back)
      /\ \A j \in 1..(Len(front) + Len(back)) :
           both[j] = IF j <= Len(front) THEN front[j] ELSE back[j - Len(front)]
  BY <1>2, <1>3, ConcatProperties
<1> HIDE DEF both
<1>5. Len(both) = Len(s) - 1
  BY <1>1, <1>2, <1>3, <1>4
<1>6. ASSUME NEW j \in 1..(Len(s) - 1)
      PROVE  both[j] = IF j < i THEN s[j] ELSE s[j + 1]
  <2>1. both[j] = IF j <= i - 1 THEN front[j] ELSE back[j - (i - 1)]
    BY <1>1, <1>2, <1>3, <1>4
  <2>2. CASE j < i
    BY <1>1, <1>2, <2>1, <2>2
  <2>3. CASE ~(j < i)
    <3>1. j - (i - 1) \in 1..(Len(s) - i) /\ (j - (i - 1)) + i = j + 1
      BY <1>1, <2>3
    <3> QED
      BY <1>1, <1>3, <2>1, <2>3, <3>1
  <2> QED
    BY <2>2, <2>3
<1> QED
  BY <1>4, <1>5, <1>6 DEF RemoveAt, both, front, back

LEMMA RemoveAtFacts ==
  ASSUME NEW S, NEW s \in Seq(S), IsInjective(s), NEW i \in 1..Len(s)
  PROVE  /\ RemoveAt(s, i) \in Seq(S)
         /\ Range(RemoveAt(s, i)) = Range(s) \ {s[i]}
         /\ IsInjective(RemoveAt(s, i))
<1> DEFINE r == RemoveAt(s, i)
<1>1. /\ r \in Seq(S) /\ Len(r) = Len(s) - 1 /\ Len(s) \in Nat
      /\ \A j \in 1..(Len(s) - 1) : r[j] = IF j < i THEN s[j] ELSE s[j + 1]
      /\ DOMAIN r = 1..(Len(s) - 1) /\ DOMAIN s = 1..Len(s)
  BY RemoveAtElements, LenProperties
<1> HIDE DEF r
<1> DEFINE at(j) == IF j < i THEN j ELSE j + 1
<1>a. \A j \in 1..(Len(s) - 1) : at(j) \in 1..Len(s) /\ at(j) # i /\ r[j] = s[at(j)]
  BY <1>1
<1>b. \A j, k \in 1..(Len(s) - 1) : at(j) = at(k) => j = k
  BY <1>1
<1> HIDE DEF at
<1>2. IsInjective(r)
  BY <1>1, <1>a, <1>b DEF IsInjective
<1>3. Range(r) \subseteq Range(s) \ {s[i]}
  <2>1. ASSUME NEW j \in 1..(Len(s) - 1) PROVE r[j] \in Range(s) /\ r[j] # s[i]
    <3>1. at(j) \in DOMAIN s /\ i \in DOMAIN s /\ at(j) # i /\ r[j] = s[at(j)]
      BY <1>1, <1>a
    <3> QED
      BY <3>1 DEF IsInjective, Range
  <2> QED
    BY <1>1, <2>1 DEF Range
<1>4. ASSUME NEW x \in Range(s) \ {s[i]} PROVE x \in Range(r)
  <2>1. PICK j \in 1..Len(s) : s[j] = x /\ j # i
    BY <1>1 DEF Range
  <2>2. CASE j < i
    BY <1>1, <2>1, <2>2 DEF Range
  <2>3. CASE j > i
    <3>1. j - 1 \in 1..(Len(s) - 1) /\ r[j - 1] = s[j]
      BY <1>1, <2>1, <2>3
    <3> QED
      BY <1>1, <2>1, <3>1 DEF Range
  <2> QED
    BY <2>1, <2>2, <2>3
<1> QED
  BY <1>1, <1>2, <1>3, <1>4 DEF r


States == {"idle", "asleep", "awake", "deleting"}
Inside == {t \in Threads : pc[t] \in {"asleep", "awake"}}

(* Both views of the queue hold the threads inside a wait, each once. *)
QueueInv ==
  /\ waiters \in Seq(Threads) /\ IsInjective(waiters)
  /\ arrivals \in Seq(Threads) /\ IsInjective(arrivals)
  /\ Range(waiters) = Inside /\ Range(arrivals) = Inside

TypeInv ==
  /\ fifo \in BOOLEAN
  /\ status \in {"Set", "Deleted", "Freed"}
  /\ need \in [Threads -> 0..MaxCount]
  /\ ready \in [Threads -> BOOLEAN]
  /\ result \in [Threads -> Results]
  /\ pc \in [Threads -> States]
  /\ timed \in [Threads -> BOOLEAN]
  /\ expired \in [Threads -> BOOLEAN]

CountInv ==
  /\ count \in Ints /\ count <= MaxCount
  /\ lowered \in BOOLEAN /\ (~lowered => count >= 0)
  /\ ledger \in Int /\ count + Total(Granted) = ledger

(* At most one thread deletes, nobody after the end. *)
DeleteInv ==
  /\ \A s, t \in Threads : pc[s] = "deleting" /\ pc[t] = "deleting" => s = t
  /\ \A t \in Threads : pc[t] = "deleting" => status = "Deleted"
  /\ status = "Freed" => \A t \in Threads : pc[t] = "idle"

IInv == TypeInv /\ QueueInv /\ CountInv /\ DeleteInv /\ NoGrantableWaiter

USE KernelSemaAssumption DEF KernelSemaAssumption

------------------------------------------------------------------------------
(* Tokens *)

TokensOf(f, S) == {token \in Threads \X (1..MaxCount) :
                     token[1] \in S /\ token[2] <= f[token[1]]}
TotalOf(f, S) == Cardinality(TokensOf(f, S))

LEMMA TotalIsTotalOf == \A S : Total(S) = TotalOf(need, S)
BY DEF Total, TotalOf, Tokens, TokensOf

LEMMA TokensAreFinite ==
  ASSUME NEW f, NEW S
  PROVE  IsFiniteSet(TokensOf(f, S)) /\ TotalOf(f, S) \in Nat
<1>1. IsFiniteSet(Threads \X (1..MaxCount))
  <2>1. 1 \in Int /\ MaxCount \in Int
    OBVIOUS
  <2>2. IsFiniteSet(1..MaxCount)
    BY <2>1, FS_Interval
  <2> QED
    BY <2>2, FS_Product
<1>2. TokensOf(f, S) \subseteq Threads \X (1..MaxCount)
  BY DEF TokensOf
<1> QED
  BY <1>1, <1>2, FS_Subset, FS_CardinalityType DEF TotalOf

(* More waiters need no fewer tokens. *)
LEMMA TotalMonotone ==
  ASSUME NEW f, NEW S, NEW T, S \subseteq T
  PROVE  TotalOf(f, S) <= TotalOf(f, T)
<1>1. TokensOf(f, S) \in SUBSET TokensOf(f, T)
  BY DEF TokensOf
<1> QED
  BY <1>1, TokensAreFinite, FS_Subset DEF TotalOf

LEMMA TotalOfUnion ==
  ASSUME NEW f, NEW S, NEW T, S \cap T = {}
  PROVE  TotalOf(f, S \cup T) = TotalOf(f, S) + TotalOf(f, T)
<1> DEFINE A == TokensOf(f, S)
           B == TokensOf(f, T)
<1>1. TokensOf(f, S \cup T) = A \cup B /\ A \cap B = {}
  BY DEF TokensOf
<1>2. Cardinality({}) = 0
  BY FS_EmptySet
<1>3. /\ IsFiniteSet(A) /\ IsFiniteSet(B)
      /\ Cardinality(A) \in Nat /\ Cardinality(B) \in Nat
  BY TokensAreFinite DEF TotalOf
<1> HIDE DEF A, B
<1>4. Cardinality(A \cup B) = Cardinality(A) + Cardinality(B) - Cardinality(A \cap B)
  BY <1>3, FS_Union
<1>5. Cardinality(A \cup B) = Cardinality(A) + Cardinality(B)
  <2>1. Cardinality(A \cap B) = 0
    BY <1>1, <1>2
  <2> HIDE <1>1
  <2> QED
    BY <1>3, <1>4, <2>1
<1> QED
  BY <1>1, <1>5 DEF TotalOf, A, B

LEMMA TotalOfOne ==
  ASSUME NEW f \in [Threads -> 0..MaxCount], NEW t \in Threads
  PROVE  TotalOf(f, {t}) = f[t]
<1>1. TokensOf(f, {t}) = {t} \X (1..f[t])
  BY DEF TokensOf
<1>2. IsFiniteSet(1..f[t]) /\ Cardinality(1..f[t]) = f[t]
  <2>1. 1 \in Int /\ f[t] \in Nat /\ f[t] \in Int
    OBVIOUS
  <2>2. IsFiniteSet(1..f[t]) /\ Cardinality(1..f[t]) = IF 1 > f[t] THEN 0 ELSE f[t] - 1 + 1
    BY <2>1, FS_Interval
  <2> QED
    BY <2>1, <2>2
<1>3. IsFiniteSet({t}) /\ Cardinality({t}) = 1
  BY FS_Singleton
<1> DEFINE one == {t}
           needed == 1..f[t]
<1>4. TokensOf(f, {t}) = one \X needed /\ f[t] \in Nat
  BY <1>1
<1>5. /\ IsFiniteSet(one) /\ Cardinality(one) = 1
      /\ IsFiniteSet(needed) /\ Cardinality(needed) = f[t]
  BY <1>2, <1>3
<1> HIDE DEF one, needed
<1>6. Cardinality(one \X needed) = Cardinality(one) * Cardinality(needed)
  BY <1>5, FS_Product
<1>7. Cardinality(one \X needed) = f[t]
  BY <1>4, <1>5, <1>6
<1> QED
  BY <1>4, <1>7 DEF TotalOf

(* Only the needs of the members matter. *)
LEMMA TotalOfSame ==
  ASSUME NEW f, NEW g, NEW S, \A t \in S \cap Threads : f[t] = g[t]
  PROVE  TotalOf(f, S) = TotalOf(g, S)
<1>1. TokensOf(f, S) = TokensOf(g, S)
  BY DEF TokensOf
<1> QED
  BY <1>1 DEF TotalOf

LEMMA TotalOfNone == \A f : TotalOf(f, {}) = 0
BY FS_EmptySet DEF TotalOf, TokensOf

(* The sum of two ints is an int again, and theirs where it fits.          *)
LEMMA SumFacts ==
  ASSUME count \in Ints, NEW n \in SignalCounts
  PROVE  /\ count \in Int /\ n \in Int /\ Sum(n) \in Ints /\ Sum(n) \in Int
         /\ count + n \in Ints => Sum(n) = count + n
<1>1. /\ count \in Int /\ n \in Int /\ IntMax \in Nat
      /\ -IntMax - 1 <= count /\ count <= IntMax
      /\ -IntMax - 1 <= n /\ n <= IntMax
  BY DEF Ints
<1>2. PICK x \in Int : x = count + n
  BY <1>1
<1>3. -2 * (IntMax + 1) <= x /\ x <= 2 * IntMax
  BY <1>1, <1>2
<1>4. Wrap(x) \in Int /\ -IntMax - 1 <= Wrap(x) /\ Wrap(x) <= IntMax
  BY <1>1, <1>3 DEF Wrap
<1>5. x \in Ints => Wrap(x) = x
  BY <1>1, <1>2 DEF Wrap, Ints
<1> QED
  BY <1>1, <1>2, <1>4, <1>5 DEF Sum, Ints

------------------------------------------------------------------------------
(* The queue *)

LEMMA WithoutFacts ==
  ASSUME NEW queue \in Seq(Threads), IsInjective(queue), NEW t
  PROVE  /\ Without(queue, t) \in Seq(Threads)
         /\ Range(Without(queue, t)) = Range(queue) \ {t}
         /\ IsInjective(Without(queue, t))
<1>1. CASE t \in Range(queue)
  <2> DEFINE i == CHOOSE j \in DOMAIN queue : queue[j] = t
  <2>1. DOMAIN queue = 1..Len(queue)
    BY LenProperties
  <2>2. \E j \in DOMAIN queue : queue[j] = t
    BY <1>1 DEF Range
  <2>3. i \in 1..Len(queue) /\ queue[i] = t
    BY <2>1, <2>2
  <2> HIDE DEF i
  <2>4. Without(queue, t) = RemoveAt(queue, i)
    BY <1>1 DEF Without, i
  <2> QED
    BY <2>3, <2>4, RemoveAtFacts
<1>2. CASE t \notin Range(queue)
  BY <1>2 DEF Without
<1> QED
  BY <1>1, <1>2

LEMMA AddWaiterFacts ==
  ASSUME QueueInv, NEW t \in Threads, t \notin Range(waiters), AddWaiter(t)
  PROVE  /\ waiters' \in Seq(Threads) /\ IsInjective(waiters')
         /\ Range(waiters') = Range(waiters) \cup {t}
<1>1. waiters \in Seq(Threads) /\ DOMAIN waiters = 1..Len(waiters) /\ Len(waiters) \in Nat
  BY LenProperties DEF QueueInv
<1>2. PICK at \in 1..(Len(waiters) + 1) : waiters' = InsertAt(waiters, at, t)
  BY DEF AddWaiter
<1> QED
  BY <1>1, <1>2, InsertAtFacts DEF QueueInv

(* What leaving the queue does to it. *)
LEMMA RemoveStep ==
  ASSUME TypeInv, QueueInv, NEW t \in Threads, RemoveWaiter(t), pc' = [pc EXCEPT ![t] = "idle"]
  PROVE  /\ QueueInv' /\ Range(waiters') = Range(waiters) \ {t}
         /\ need' \in [Threads -> 0..MaxCount] /\ \A s \in Threads \ {t} : need'[s] = need[s]
         /\ ready' \in [Threads -> BOOLEAN] /\ \A s \in Threads \ {t} : ready'[s] = ready[s]
         /\ timed' \in [Threads -> BOOLEAN] /\ expired' \in [Threads -> BOOLEAN]
<1>1. /\ waiters' \in Seq(Threads) /\ IsInjective(waiters')
      /\ Range(waiters') = Range(waiters) \ {t}
      /\ arrivals' \in Seq(Threads) /\ IsInjective(arrivals')
      /\ Range(arrivals') = Range(arrivals) \ {t}
  BY WithoutFacts DEF QueueInv, RemoveWaiter
<1>2. Inside' = Inside \ {t}
  BY DEF Inside, TypeInv
<1>3. QueueInv'
  BY <1>1, <1>2 DEF QueueInv
<1> QED
  BY <1>1, <1>3 DEF RemoveWaiter, TypeInv, NoNeed

(* A step that leaves the queue alone and moves nobody in or out of it. *)
LEMMA QueueKept ==
  ASSUME QueueInv, UNCHANGED <<waiters, arrivals>>, Inside' = Inside
  PROVE  QueueInv'
BY DEF QueueInv

LEMMA WakeUpKeepsInside ==
  ASSUME TypeInv, NEW W \in SUBSET Threads, W \subseteq Asleep
  PROVE  /\ WakeUp(W) \in [Threads -> States]
         /\ \A t \in Threads : /\ WakeUp(W)[t] = "idle" <=> pc[t] = "idle"
                               /\ WakeUp(W)[t] = "deleting" <=> pc[t] = "deleting"
                               /\ WakeUp(W)[t] \in {"asleep", "awake"}
                                    <=> pc[t] \in {"asleep", "awake"}
BY DEF WakeUp, Asleep, TypeInv, States

(* A granted waiter and one that is not are different, and both in queue. *)
LEMMA GrantedFacts ==
  ASSUME TypeInv, QueueInv
  PROVE  /\ Granted \subseteq Threads /\ Unready \subseteq Threads
         /\ Granted \cap Unready = {}
         /\ Granted \subseteq Inside /\ Unready \subseteq Inside
BY DEF Granted, Unready, QueueInv, Inside

LEMMA InitIInv ==
  ASSUME Init
  PROVE  IInv
<1>1. TypeInv
  BY DEF Init, TypeInv, Results, States, NoNeed
<1>2. QueueInv
  <2>1. <<>> \in Seq(Threads) /\ IsInjective(<<>>) /\ Range(<<>>) = {}
    BY DEF IsInjective, Range
  <2>2. Inside = {}
    BY DEF Init, Inside
  <2> QED
    BY <2>1, <2>2 DEF Init, QueueInv
<1>3. Granted = {} /\ Unready = {}
  <2>1. Range(waiters) = {}
    BY DEF Init, Range
  <2> QED
    BY <2>1 DEF Granted, Unready
<1>4. CountInv
  <2>1. /\ count = InitCount /\ ledger = InitCount /\ lowered = FALSE
        /\ Total(Granted) = 0
    BY <1>3, TotalOfNone, TotalIsTotalOf DEF Init
  <2>2. count \in Ints /\ 0 <= count /\ count <= MaxCount /\ ledger \in Int
    BY <2>1 DEF Ints
  <2>3. count >= 0 /\ count + Total(Granted) = ledger
    BY <2>1
  <2>4. lowered \in BOOLEAN
    BY <2>1
  <2> QED
    BY <2>2, <2>3, <2>4 DEF CountInv
<1>5. DeleteInv
  BY DEF Init, DeleteInv
<1>6. NoGrantableWaiter
  BY <1>3 DEF NoGrantableWaiter
<1> QED
  BY <1>1, <1>2, <1>4, <1>5, <1>6 DEF IInv

------------------------------------------------------------------------------
(* Calls that return at once *)

(* The caller is not in the queue, so its result says nothing of a grant. *)
LEMMA ReplyStep ==
  ASSUME IInv, NEW t \in Threads, pc[t] = "idle", NEW r \in Results, Reply(t, r),
         UNCHANGED <<fifo, status, Queue>>
  PROVE  /\ TypeInv' /\ QueueInv' /\ DeleteInv'
         /\ Unready' = Unready /\ Total(Granted)' = Total(Granted)
<1>1. TypeInv /\ QueueInv /\ DeleteInv
  BY DEF IInv
<1>2. TypeInv'
  BY <1>1 DEF TypeInv, Reply, Queue
<1>3. Inside' = Inside /\ QueueInv'
  <2>1. Inside' = Inside
    BY DEF Inside, Queue
  <2> QED
    BY <1>1, <2>1, QueueKept DEF Queue
<1>4. DeleteInv'
  BY <1>1 DEF DeleteInv, Queue
<1>5. Unready' = Unready
  BY DEF Unready, Queue
<1>6. Granted' = Granted
  <2>1. t \notin Range(waiters)
    BY <1>1 DEF QueueInv, Inside
  <2>2. \A s \in Threads \ {t} : result'[s] = result[s]
    BY <1>1 DEF Reply, TypeInv
  <2>3. Range(waiters) \subseteq Threads
    BY <1>1 DEF QueueInv, Inside
  <2> QED
    BY <2>1, <2>2, <2>3 DEF Granted, Queue
<1>7. Total(Granted)' = Total(Granted)
  BY <1>6 DEF Total, Tokens, Queue
<1> QED
  BY <1>2, <1>3, <1>4, <1>5, <1>7

LEMMA TakeNowStep ==
  ASSUME IInv, NEW t \in Threads, NEW n \in Needs, TakeNow(t, n)
  PROVE  IInv'
<1>1. /\ TypeInv' /\ QueueInv' /\ DeleteInv'
      /\ Unready' = Unready /\ Total(Granted)' = Total(Granted)
  BY ReplyStep DEF TakeNow, Results
<1>2. /\ count' = count - n /\ ledger' = ledger - n /\ need' = need /\ status' = status
      /\ count >= n /\ count \in 0..MaxCount /\ ledger \in Int /\ n \in 1..MaxCount
      /\ count + Total(Granted) = ledger /\ lowered' = lowered /\ lowered \in BOOLEAN
  BY DEF TakeNow, Queue, IInv, CountInv, Needs, Ints
<1>3. Total(Granted) \in Nat
  BY TotalIsTotalOf, TokensAreFinite
<1>4. CountInv'
  <2>1. count - n \in 0..MaxCount /\ count - n \in Ints
    BY <1>2 DEF Ints
  <2> QED
    BY <1>1, <1>2, <1>3, <2>1 DEF CountInv
<1>5. NoGrantableWaiter'
  <2>1. ASSUME status = "Set", NEW s \in Unready PROVE need[s] > count - n
    <3>1. need[s] > count /\ need[s] \in Nat
      BY <2>1, GrantedFacts DEF IInv, NoGrantableWaiter, TypeInv
    <3> QED
      BY <1>2, <3>1
  <2> QED
    BY <1>1, <1>2, <2>1 DEF NoGrantableWaiter
<1> QED
  BY <1>1, <1>4, <1>5 DEF IInv

(* Refusals change nothing. *)
LEMMA RefusalStep ==
  ASSUME IInv, NEW t \in Threads,
         \/ \E n \in Needs : PollFail(t, n)
         \/ \E n \in SignalCounts : SignalRefused(t, n)
         \/ CallOnDeleted(t)
         \/ RefuseCount(t)
  PROVE  IInv'
<1>1. /\ pc[t] = "idle" /\ UNCHANGED <<fifo, status, Queue>> /\ UNCHANGED <<count, ledger, lowered>>
      /\ \E r \in Results : Reply(t, r)
  BY DEF PollFail, SignalRefused, CallOnDeleted, RefuseCount, Results
<1>2. /\ TypeInv' /\ QueueInv' /\ DeleteInv'
      /\ Unready' = Unready /\ Total(Granted)' = Total(Granted)
  BY <1>1, ReplyStep
<1>3. CountInv'
  BY <1>1, <1>2 DEF IInv, CountInv
<1>4. NoGrantableWaiter'
  BY <1>1, <1>2 DEF IInv, NoGrantableWaiter, Queue
<1> QED
  BY <1>2, <1>3, <1>4 DEF IInv

------------------------------------------------------------------------------
(* Waiting *)

LEMMA WaitBlockStep ==
  ASSUME IInv, NEW t \in Threads, NEW n \in Needs, NEW tm \in BOOLEAN, WaitBlock(t, n, tm)
  PROVE  IInv'
<1>1. /\ TypeInv /\ QueueInv /\ CountInv /\ DeleteInv /\ NoGrantableWaiter
      /\ pc[t] = "idle" /\ status = "Set" /\ count < n /\ n \in 1..MaxCount
      /\ UNCHANGED <<fifo, count, status, expired, ledger, lowered>>
      /\ need' = [need EXCEPT ![t] = n] /\ ready' = [ready EXCEPT ![t] = FALSE]
      /\ result' = [result EXCEPT ![t] = "TimedOut"]
      /\ timed' = [timed EXCEPT ![t] = tm] /\ pc' = [pc EXCEPT ![t] = "asleep"]
  BY DEF WaitBlock, IInv, Needs, Reply
<1>2. t \notin Inside /\ t \notin Range(waiters) /\ t \notin Range(arrivals)
  BY <1>1 DEF Inside, QueueInv
<1>3. TypeInv'
  BY <1>1 DEF TypeInv, Results, States
<1>4. /\ waiters' \in Seq(Threads) /\ IsInjective(waiters')
      /\ Range(waiters') = Range(waiters) \cup {t}
  BY <1>1, <1>2, AddWaiterFacts DEF WaitBlock
<1>5. QueueInv'
  <2>1. /\ arrivals' \in Seq(Threads) /\ IsInjective(arrivals')
        /\ Range(arrivals') = Range(arrivals) \cup {t}
    BY <1>1, <1>2, AppendFacts DEF WaitBlock, QueueInv
  <2>2. Inside' = Inside \cup {t}
    BY <1>1 DEF Inside, TypeInv
  <2> QED
    BY <1>1, <1>4, <2>1, <2>2 DEF QueueInv
<1>6. DeleteInv'
  BY <1>1 DEF DeleteInv, TypeInv
<1>7. /\ \A s \in Threads \ {t} : need'[s] = need[s] /\ ready'[s] = ready[s] /\ result'[s] = result[s]
      /\ ~ready'[t] /\ need'[t] = n /\ Range(waiters) \subseteq Threads
  BY <1>1 DEF TypeInv, QueueInv, Inside
<1>8. Unready' = Unready \cup {t} /\ Granted' = Granted /\ t \notin Granted /\ t \notin Unready
  BY <1>2, <1>4, <1>7 DEF Unready, Granted
<1>9. CountInv'
  <2>1. Total(Granted)' = TotalOf(need', Granted)
    BY <1>8 DEF Total, TotalOf, Tokens, TokensOf
  <2>2. Total(Granted) = TotalOf(need, Granted)
    BY TotalIsTotalOf
  <2>3. TotalOf(need', Granted) = TotalOf(need, Granted)
    BY <1>7, <1>8, TotalOfSame
  <2> QED
    BY <1>1, <2>1, <2>2, <2>3 DEF CountInv
<1>10. NoGrantableWaiter'
  BY <1>1, <1>2, <1>7, <1>8, GrantedFacts DEF NoGrantableWaiter, CountInv, Ints
<1> QED
  BY <1>3, <1>5, <1>6, <1>9, <1>10 DEF IInv

LEMMA SleeperStep ==
  ASSUME IInv, NEW t \in Threads, DeadlinePasses(t) \/ SleepEnds(t) \/ WaitAgain(t)
  PROVE  IInv'
<1>1. /\ TypeInv /\ QueueInv /\ CountInv /\ DeleteInv /\ NoGrantableWaiter
      /\ UNCHANGED <<fifo, count, status, waiters, need, ready, result, arrivals, ledger,
                     lowered>>
  BY DEF DeadlinePasses, SleepEnds, WaitAgain, IInv
<1>2. TypeInv'
  BY <1>1 DEF DeadlinePasses, SleepEnds, WaitAgain, TypeInv, States
<1>3. \A s \in Threads : /\ pc'[s] = "idle" <=> pc[s] = "idle"
                         /\ pc'[s] = "deleting" <=> pc[s] = "deleting"
                         /\ pc'[s] \in {"asleep", "awake"} <=> pc[s] \in {"asleep", "awake"}
  BY <1>1 DEF DeadlinePasses, SleepEnds, WaitAgain, TypeInv
<1>4. QueueInv'
  <2>1. Inside' = Inside
    BY <1>3 DEF Inside
  <2> QED
    BY <1>1, <2>1, QueueKept
<1>5. DeleteInv'
  BY <1>1, <1>3 DEF DeleteInv
<1>6. CountInv'
  BY <1>1 DEF CountInv, Total, Tokens, Granted
<1>7. NoGrantableWaiter'
  BY <1>1 DEF NoGrantableWaiter, Unready
<1> QED
  BY <1>2, <1>4, <1>5, <1>6, <1>7 DEF IInv

(* A waiter that was released goes, with its tokens if it was granted. *)
LEMMA WaitReturnStep ==
  ASSUME IInv, NEW t \in Threads, WaitReturn(t)
  PROVE  IInv'
<1>1. /\ TypeInv /\ QueueInv /\ CountInv /\ DeleteInv /\ NoGrantableWaiter
      /\ pc[t] = "awake" /\ ready[t] /\ RemoveWaiter(t) /\ pc' = [pc EXCEPT ![t] = "idle"]
      /\ ledger' = (IF result[t] = "Ok" THEN ledger - need[t] ELSE ledger)
      /\ UNCHANGED <<fifo, count, status, result, lowered>>
  BY DEF WaitReturn, IInv
<1>2. /\ QueueInv' /\ Range(waiters') = Range(waiters) \ {t}
      /\ need' \in [Threads -> 0..MaxCount] /\ \A s \in Threads \ {t} : need'[s] = need[s]
      /\ ready' \in [Threads -> BOOLEAN] /\ \A s \in Threads \ {t} : ready'[s] = ready[s]
      /\ timed' \in [Threads -> BOOLEAN] /\ expired' \in [Threads -> BOOLEAN]
  BY <1>1, RemoveStep
<1>3. TypeInv'
  BY <1>1, <1>2 DEF TypeInv, States
<1>4. DeleteInv'
  BY <1>1 DEF DeleteInv, TypeInv
<1>5. Range(waiters) \subseteq Threads /\ t \in Range(waiters)
  BY <1>1 DEF QueueInv, Inside
<1>6. Granted' = Granted \ {t} /\ Unready' = Unready
  BY <1>1, <1>2, <1>5 DEF Granted, Unready
<1>7. CountInv'
  <2>1. Total(Granted)' = TotalOf(need', Granted \ {t}) /\ Total(Granted) = TotalOf(need, Granted)
    BY <1>6 DEF Total, TotalOf, Tokens, TokensOf
  <2>2. TotalOf(need', Granted \ {t}) = TotalOf(need, Granted \ {t})
    BY <1>2, TotalOfSame
  <2>3. CASE result[t] = "Ok"
    <3>1. Granted = (Granted \ {t}) \cup {t}
      BY <1>1, <1>5, <2>3 DEF Granted
    <3>2. TotalOf(need, (Granted \ {t}) \cup {t})
            = TotalOf(need, Granted \ {t}) + TotalOf(need, {t})
      BY TotalOfUnion
    <3>3. TotalOf(need, {t}) = need[t] /\ need[t] \in Nat
      BY <1>1, TotalOfOne DEF TypeInv
    <3>4. Total(Granted) \in Nat /\ Total(Granted)' \in Nat
      BY <2>1, TokensAreFinite
    <3>5. Total(Granted) = Total(Granted)' + need[t]
      BY <2>1, <2>2, <3>1, <3>2, <3>3
    <3>6. count \in Int /\ ledger \in Int /\ count + Total(Granted) = ledger
      BY <1>1 DEF CountInv, Ints
    <3>7. ledger' = ledger - need[t]
      BY <1>1, <2>3
    <3>8. ledger' \in Int /\ count + Total(Granted)' = ledger'
      BY <3>3, <3>4, <3>5, <3>6, <3>7
    <3> QED
      BY <1>1, <3>8 DEF CountInv
  <2>4. CASE result[t] # "Ok"
    <3>1. Granted \ {t} = Granted
      BY <2>4 DEF Granted
    <3> QED
      BY <1>1, <2>1, <2>2, <2>4, <3>1 DEF CountInv
  <2> QED
    BY <2>3, <2>4
<1>8. NoGrantableWaiter'
  <2>1. t \notin Unready /\ Unready \subseteq Threads
    BY <1>1, <1>5 DEF Unready
  <2> QED
    BY <1>1, <1>2, <1>6, <2>1 DEF NoGrantableWaiter
<1> QED
  BY <1>2, <1>3, <1>4, <1>7, <1>8 DEF IInv

(* A waiter that gives up had no tokens. *)
LEMMA WaitTimeoutStep ==
  ASSUME IInv, NEW t \in Threads, WaitTimeout(t)
  PROVE  IInv'
<1>1. /\ TypeInv /\ QueueInv /\ CountInv /\ DeleteInv /\ NoGrantableWaiter
      /\ pc[t] = "awake" /\ ~ready[t] /\ RemoveWaiter(t) /\ pc' = [pc EXCEPT ![t] = "idle"]
      /\ result' = [result EXCEPT ![t] = "TimedOut"]
      /\ UNCHANGED <<fifo, count, status, ledger, lowered>>
  BY DEF WaitTimeout, IInv, Reply
<1>2. /\ QueueInv' /\ Range(waiters') = Range(waiters) \ {t}
      /\ need' \in [Threads -> 0..MaxCount] /\ \A s \in Threads \ {t} : need'[s] = need[s]
      /\ ready' \in [Threads -> BOOLEAN] /\ \A s \in Threads \ {t} : ready'[s] = ready[s]
      /\ timed' \in [Threads -> BOOLEAN] /\ expired' \in [Threads -> BOOLEAN]
  BY <1>1, RemoveStep
<1>3. TypeInv'
  BY <1>1, <1>2 DEF TypeInv, States, Results
<1>4. DeleteInv'
  BY <1>1 DEF DeleteInv, TypeInv
<1>5. Range(waiters) \subseteq Threads
  BY <1>1 DEF QueueInv, Inside
<1>6. \A s \in Threads \ {t} : result'[s] = result[s]
  BY <1>1 DEF TypeInv
<1>7. Granted' = Granted /\ t \notin Granted /\ Unready' = Unready \ {t}
  BY <1>1, <1>2, <1>5, <1>6 DEF Granted, Unready
<1>8. CountInv'
  <2>1. Total(Granted)' = TotalOf(need', Granted) /\ Total(Granted) = TotalOf(need, Granted)
    BY <1>7 DEF Total, TotalOf, Tokens, TokensOf
  <2>2. TotalOf(need', Granted) = TotalOf(need, Granted)
    BY <1>2, <1>7, TotalOfSame
  <2> QED
    BY <1>1, <2>1, <2>2 DEF CountInv
<1>9. NoGrantableWaiter'
  BY <1>1, <1>2, <1>7, GrantedFacts DEF NoGrantableWaiter
<1> QED
  BY <1>2, <1>3, <1>4, <1>8, <1>9 DEF IInv

------------------------------------------------------------------------------
(* Signal, Cancel and the destructor *)

(* The waiters of the queue that S leaves out need more than S leaves. *)
LEMMA WakeWaitersFacts ==
  ASSUME TypeInv, QueueInv, NEW S, NEW c \in Int, WakeWaiters(S, c)
  PROVE  \A t \in Unready \ S : need[t] > c - Total(S)
<1> SUFFICES ASSUME NEW t \in Unready \ S PROVE need[t] > c - Total(S)
  OBVIOUS
<1>1. PICK i \in DOMAIN waiters : t = waiters[i]
  BY DEF Unready, Range
<1> DEFINE before == {waiters[j] : j \in 1..(i - 1)} \cap S
<1>2. ~(Total(before) + need[t] <= c)
  BY <1>1 DEF WakeWaiters
<1>3. before \subseteq S
  OBVIOUS
<1> HIDE DEF before
<1>4. /\ Total(before) = TotalOf(need, before) /\ Total(S) = TotalOf(need, S)
      /\ TotalOf(need, before) \in Nat /\ TotalOf(need, S) \in Nat
      /\ TotalOf(need, before) <= TotalOf(need, S)
  BY <1>3, TotalIsTotalOf, TokensAreFinite, TotalMonotone
<1>5. need[t] \in Nat
  BY GrantedFacts DEF TypeInv
<1> QED
  BY <1>2, <1>4, <1>5

LEMMA SignalStep ==
  ASSUME IInv, NEW t \in Threads, NEW n \in SignalCounts, Signal(t, n)
  PROVE  IInv'
<1>1. PICK S \in SUBSET Unready :
        /\ pc[t] = "idle" /\ status = "Set" /\ Fits(n)
        /\ WakeWaiters(S, Sum(n))
        /\ count' = Sum(n) - Total(S) /\ ledger' = ledger - count + Sum(n)
        /\ lowered' = (lowered \/ n < 0 \/ Sum(n) # count + n)
        /\ ready' = [s \in Threads |-> ready[s] \/ s \in S]
        /\ result' = [s \in Threads |-> IF s \in S \cup {t} THEN "Ok" ELSE result[s]]
        /\ \E W \in (IF S = {} THEN {{}}
                     ELSE IF Cardinality(S) = 1 THEN SignalOne ELSE SignalAll) :
             pc' = WakeUp(W)
        /\ UNCHANGED <<fifo, status, waiters, need, timed, expired, arrivals>>
  BY DEF Signal
<1>2. /\ TypeInv /\ QueueInv /\ CountInv /\ DeleteInv /\ NoGrantableWaiter
      /\ n \in Int /\ count \in Int /\ ledger \in Int /\ lowered \in BOOLEAN
      /\ count + Total(Granted) = ledger /\ (~lowered => count >= 0)
      /\ Sum(n) \in Int /\ Sum(n) \in Ints /\ Sum(n) <= MaxCount
  BY <1>1, SumFacts DEF IInv, CountInv, Fits
<1>3. PICK W \in SUBSET Threads : W \subseteq Asleep /\ pc' = WakeUp(W)
  BY <1>1 DEF SignalOne, SignalAll, Asleep
<1>4. /\ pc' \in [Threads -> States]
      /\ \A s \in Threads : /\ pc'[s] = "idle" <=> pc[s] = "idle"
                            /\ pc'[s] = "deleting" <=> pc[s] = "deleting"
                            /\ pc'[s] \in {"asleep", "awake"} <=> pc[s] \in {"asleep", "awake"}
  BY <1>2, <1>3, WakeUpKeepsInside
<1>5. TypeInv'
  BY <1>1, <1>2, <1>4 DEF TypeInv, Results
<1>6. QueueInv'
  <2>1. Inside' = Inside
    BY <1>4 DEF Inside
  <2> QED
    BY <1>1, <1>2, <2>1, QueueKept
<1>7. DeleteInv'
  BY <1>1, <1>2, <1>4 DEF DeleteInv
<1>8. /\ Granted \subseteq Threads /\ Unready \subseteq Threads /\ Granted \cap S = {}
      /\ t \notin Range(waiters) /\ Range(waiters) \subseteq Threads
  BY <1>1, <1>2, GrantedFacts DEF QueueInv, Inside
<1>9. Granted' = Granted \cup S /\ Unready' = Unready \ S
  BY <1>1, <1>2, <1>8 DEF Granted, Unready, TypeInv
<1>10. CountInv'
  <2>1. /\ Total(Granted)' = TotalOf(need, Granted \cup S)
        /\ Total(Granted) = TotalOf(need, Granted) /\ Total(S) = TotalOf(need, S)
    BY <1>1, <1>9 DEF Total, TotalOf, Tokens, TokensOf
  <2>2. TotalOf(need, Granted \cup S) = TotalOf(need, Granted) + TotalOf(need, S)
    BY <1>8, TotalOfUnion
  <2>3. Total(Granted) \in Nat /\ Total(S) \in Nat
    BY <2>1, TokensAreFinite
  <2>4. PICK c \in Int : c = Sum(n)
    BY <1>2
  <2>5. S = {} \/ Total(S) <= c
    BY <1>1, <2>4 DEF WakeWaiters
  <2>6. S = {} => Total(S) = 0
    BY <2>1, TotalOfNone
  <2>7. /\ count' = c - Total(S) /\ ledger' = ledger - count + c
        /\ ~lowered' => ~lowered /\ ~(n < 0) /\ c = count + n
    BY <1>1, <2>4
  <2>8. c \in Ints /\ c <= MaxCount /\ IntMax \in Nat /\ -IntMax - 1 <= c /\ c <= IntMax
    BY <1>2, <2>4 DEF Ints
  <2>9. /\ count' \in Int /\ count' <= MaxCount
        /\ -IntMax - 1 <= count' /\ count' <= IntMax
        /\ c >= 0 => count' >= 0
    BY <2>3, <2>5, <2>6, <2>7, <2>8
  <2>10. ~lowered' => c >= 0
    BY <1>2, <2>4, <2>7
  <2>11. ledger' \in Int /\ count' + Total(Granted)' = ledger'
    BY <1>2, <2>1, <2>2, <2>3, <2>4, <2>7
  <2>12. lowered' \in BOOLEAN
    BY <1>1
  <2> QED
    BY <2>9, <2>10, <2>11, <2>12 DEF CountInv, Ints
<1>11. NoGrantableWaiter'
  <2>1. PICK c \in Int : c = Sum(n)
    BY <1>2
  <2>2. WakeWaiters(S, c) /\ count' = c - Total(S)
    BY <1>1, <2>1
  <2>3. \A s \in Unready \ S : need[s] > c - Total(S)
    BY <1>2, <2>2, WakeWaitersFacts
  <2> QED
    BY <1>1, <1>9, <2>2, <2>3 DEF NoGrantableWaiter
<1> QED
  BY <1>5, <1>6, <1>7, <1>10, <1>11 DEF IInv

(* Nobody ungranted is left after a cancellation or the deletion. *)
LEMMA EverybodyReleased ==
  ASSUME TypeInv, QueueInv, NEW t \in Threads, pc[t] = "idle",
         ready' = [s \in Threads |-> ready[s] \/ s \in Unready],
         NEW r \in Results \ {"Ok"},
         \A s \in Threads \ {t} : result'[s] = IF s \in Unready THEN r ELSE result[s],
         UNCHANGED <<waiters, need>>
  PROVE  Unready' = {} /\ Granted' = Granted /\ Total(Granted)' = Total(Granted)
<1>1. t \notin Range(waiters) /\ Range(waiters) \subseteq Threads
  BY DEF QueueInv, Inside
<1>2. Unready' = {}
  BY <1>1 DEF Unready
<1>3. Granted' = Granted
  BY <1>1 DEF Granted, Unready
<1> QED
  BY <1>2, <1>3 DEF Total, Tokens

LEMMA CancelStep ==
  ASSUME IInv, NEW t \in Threads, NEW n \in CancelCounts, Cancel(t, n)
  PROVE  IInv'
<1>1. /\ TypeInv /\ QueueInv /\ CountInv /\ DeleteInv /\ pc[t] = "idle"
      /\ UNCHANGED <<fifo, status, waiters, need, timed, expired, arrivals>>
      /\ n \in Int /\ n <= MaxCount /\ count' = (IF n < 0 THEN InitCount ELSE n)
      /\ ledger' = ledger - count + count' /\ lowered' = FALSE
      /\ ready' = [s \in Threads |-> ready[s] \/ s \in Unready]
      /\ result' = [s \in Threads |-> CASE s \in Unready -> "Canceled"
                                        [] s = t -> "Ok"
                                        [] OTHER -> result[s]]
      /\ pc' = WakeUp(Asleep)
  BY DEF Cancel, IInv, SignalAll
<1>2. /\ pc' \in [Threads -> States]
      /\ \A s \in Threads : /\ pc'[s] = "idle" <=> pc[s] = "idle"
                            /\ pc'[s] = "deleting" <=> pc[s] = "deleting"
                            /\ pc'[s] \in {"asleep", "awake"} <=> pc[s] \in {"asleep", "awake"}
  <2>1. Asleep \in SUBSET Threads
    BY DEF Asleep
  <2> QED
    BY <1>1, <2>1, WakeUpKeepsInside
<1>3. t \notin Unready
  BY <1>1, GrantedFacts DEF Inside
<1>4. TypeInv'
  <2>1. result' \in [Threads -> Results]
    BY <1>1, <1>3 DEF TypeInv, Results
  <2> QED
    BY <1>1, <1>2, <2>1 DEF TypeInv
<1>5. QueueInv'
  <2>1. Inside' = Inside
    BY <1>2 DEF Inside
  <2> QED
    BY <1>1, <2>1, QueueKept
<1>6. DeleteInv'
  BY <1>1, <1>2 DEF DeleteInv
<1>7. Unready' = {} /\ Total(Granted)' = Total(Granted)
  <2>1. \A s \in Threads \ {t} : result'[s] = IF s \in Unready THEN "Canceled" ELSE result[s]
    BY <1>1
  <2>2. "Canceled" \in Results \ {"Ok"}
    BY DEF Results
  <2> QED
    BY <1>1, <2>1, <2>2, EverybodyReleased
<1>8. CountInv'
  <2>1. Total(Granted) \in Nat
    BY TotalIsTotalOf, TokensAreFinite
  <2>2. count' \in Ints /\ count' >= 0 /\ count' <= MaxCount
    BY <1>1 DEF Ints
  <2>3. count \in Int /\ ledger \in Int /\ count + Total(Granted) = ledger
    BY <1>1 DEF CountInv, Ints
  <2>4. ledger' \in Int /\ count' + Total(Granted)' = ledger'
    BY <1>1, <1>7, <2>1, <2>2, <2>3
  <2>5. lowered' \in BOOLEAN
    BY <1>1
  <2> QED
    BY <2>2, <2>4, <2>5 DEF CountInv
<1>9. NoGrantableWaiter'
  BY <1>7 DEF NoGrantableWaiter
<1> QED
  BY <1>4, <1>5, <1>6, <1>8, <1>9 DEF IInv

LEMMA DeleteStartStep ==
  ASSUME IInv, NEW t \in Threads, DeleteStart(t)
  PROVE  IInv'
<1>1. /\ TypeInv /\ QueueInv /\ CountInv /\ DeleteInv /\ pc[t] = "idle" /\ status = "Set"
      /\ status' = "Deleted"
      /\ UNCHANGED <<fifo, count, waiters, need, timed, expired, arrivals, ledger,
                     lowered>>
      /\ ready' = [s \in Threads |-> ready[s] \/ s \in Unready]
      /\ result' = [s \in Threads |-> IF s \in Unready THEN "Deleted" ELSE result[s]]
      /\ pc' = [WakeUp(Asleep) EXCEPT ![t] = "deleting"]
  BY DEF DeleteStart, IInv, SignalAll, ReleaseUnready
<1>2. /\ WakeUp(Asleep) \in [Threads -> States]
      /\ \A s \in Threads :
           /\ WakeUp(Asleep)[s] = "idle" <=> pc[s] = "idle"
           /\ WakeUp(Asleep)[s] = "deleting" <=> pc[s] = "deleting"
           /\ WakeUp(Asleep)[s] \in {"asleep", "awake"} <=> pc[s] \in {"asleep", "awake"}
  <2>1. Asleep \in SUBSET Threads
    BY DEF Asleep
  <2> QED
    BY <1>1, <2>1, WakeUpKeepsInside
<1>3. TypeInv'
  BY <1>1, <1>2 DEF TypeInv, Results, States
<1>4. QueueInv'
  <2>1. Inside' = Inside
    BY <1>1, <1>2 DEF Inside
  <2> QED
    BY <1>1, <2>1, QueueKept
<1>5. DeleteInv'
  <2>1. \A s \in Threads : pc'[s] = "deleting" => s = t
    BY <1>1, <1>2 DEF DeleteInv
  <2> QED
    BY <1>1, <2>1 DEF DeleteInv
<1>6. Unready' = {} /\ Total(Granted)' = Total(Granted)
  <2>1. "Deleted" \in Results \ {"Ok"}
    BY DEF Results
  <2> QED
    BY <1>1, <2>1, EverybodyReleased
<1>7. CountInv'
  BY <1>1, <1>6 DEF CountInv
<1>8. NoGrantableWaiter'
  BY <1>1 DEF NoGrantableWaiter
<1> QED
  BY <1>3, <1>4, <1>5, <1>7, <1>8 DEF IInv

(* The queue is empty: there is nobody inside and nobody else deletes. *)
LEMMA DeleteFinishStep ==
  ASSUME IInv, NEW t \in Threads, DeleteFinish(t)
  PROVE  IInv'
<1>1. /\ TypeInv /\ QueueInv /\ CountInv /\ DeleteInv
      /\ pc[t] = "deleting" /\ waiters = <<>> /\ status' = "Freed"
      /\ pc' = [pc EXCEPT ![t] = "idle"]
      /\ UNCHANGED <<fifo, count, waiters, need, ready, result, timed, expired, arrivals, ledger,
                     lowered>>
  BY DEF DeleteFinish, IInv
<1>2. Inside = {}
  <2>1. Range(waiters) = {}
    BY <1>1 DEF Range
  <2> QED
    BY <1>1, <2>1 DEF QueueInv
<1>3. \A s \in Threads : pc'[s] = "idle"
  <2>1. ASSUME NEW s \in Threads \ {t} PROVE pc[s] = "idle"
    <3>1. pc[s] \in States /\ pc[s] \notin {"asleep", "awake"} /\ pc[s] # "deleting"
      BY <1>1, <1>2 DEF TypeInv, Inside, DeleteInv
    <3> QED
      BY <3>1 DEF States
  <2> QED
    BY <1>1, <2>1 DEF TypeInv
<1>4. TypeInv'
  BY <1>1 DEF TypeInv, States
<1>5. QueueInv'
  <2>1. Inside' = Inside
    BY <1>2, <1>3 DEF Inside
  <2> QED
    BY <1>1, <2>1, QueueKept
<1>6. DeleteInv'
  BY <1>3 DEF DeleteInv
<1>7. CountInv'
  BY <1>1 DEF CountInv, Total, Tokens, Granted
<1>8. NoGrantableWaiter'
  BY <1>1 DEF NoGrantableWaiter
<1> QED
  BY <1>4, <1>5, <1>6, <1>7, <1>8 DEF IInv

------------------------------------------------------------------------------
LEMMA NextIInv ==
  ASSUME IInv, [Next]_vars
  PROVE  IInv'
<1>1. CASE UNCHANGED vars
  BY <1>1 DEF vars, IInv, TypeInv, QueueInv, Inside, CountInv, Total, Tokens, Granted,
              DeleteInv, NoGrantableWaiter, Unready
<1>2. CASE \E t \in Threads : \E n \in Needs : TakeNow(t, n) \/ PollFail(t, n)
  BY <1>2, TakeNowStep, RefusalStep
<1>3. CASE \E t \in Threads : CallOnDeleted(t) \/ RefuseCount(t)
  BY <1>3, RefusalStep
<1>4. CASE \E t \in Threads : Wait(t)
  BY <1>4, WaitBlockStep, WaitReturnStep, WaitTimeoutStep, SleeperStep DEF Wait
<1>5. CASE \E t \in Threads : DeadlinePasses(t) \/ SleepEnds(t)
  BY <1>5, SleeperStep
<1>6. CASE \E t \in Threads : \E n \in SignalCounts : Signal(t, n) \/ SignalRefused(t, n)
  BY <1>6, SignalStep, RefusalStep
<1>7. CASE \E t \in Threads : \E n \in CancelCounts : Cancel(t, n)
  BY <1>7, CancelStep
<1>8. CASE \E t \in Threads : DeleteStart(t) \/ DeleteFinish(t)
  BY <1>8, DeleteStartStep, DeleteFinishStep
<1> QED
  BY <1>1, <1>2, <1>3, <1>4, <1>5, <1>6, <1>7, <1>8 DEF Next

(* The inductive invariant holds of every reachable state. *)
THEOREM Inductive == Spec => []IInv
<1>1. Init => IInv
  BY InitIInv
<1>2. IInv /\ [Next]_vars => IInv'
  BY NextIInv
<1> QED
  BY <1>1, <1>2, PTL DEF Spec

(* Every field keeps its type, nobody is queued twice, and for any ints as *)
(* arguments of Signal m_count never exceeds its maximum; it is below 0    *)
(* only when a Signal since the last Cancel had a negative argument or a   *)
(* sum that wrapped around.                                                *)
THEOREM TypeCorrect == Spec => []TypeOK
<1>1. IInv => TypeOK
  BY DEF IInv, TypeInv, QueueInv, CountInv, TypeOK, States
<1> QED
  BY <1>1, Inductive, PTL

(* No waiter of KernelWaitSema waits for a count that is there. *)
THEOREM NobodyWaitsInVain == Spec => []NoGrantableWaiter
<1>1. IInv => NoGrantableWaiter
  BY DEF IInv
<1> QED
  BY <1>1, Inductive, PTL

(* m_count and the grants on their way are what the guest can reckon from  *)
(* its calls.                                                              *)
THEOREM TokensAreConserved == Spec => []TokensConserved
<1>1. IInv => TokensConserved
  BY DEF IInv, CountInv, TokensConserved
<1> QED
  BY <1>1, Inductive, PTL

(* Once the destructor has freed the semaphore no thread is inside it. *)
FreedUnused ==
  status = "Freed" => waiters = <<>> /\ \A t \in Threads : pc[t] = "idle"

(* The destructor returns only when no thread is inside the semaphore. *)
THEOREM FreedIsUnused == Spec => []FreedUnused
<1>1. ASSUME IInv, status = "Freed" PROVE waiters = <<>> /\ \A t \in Threads : pc[t] = "idle"
  <2>1. \A t \in Threads : pc[t] = "idle"
    BY <1>1 DEF IInv, DeleteInv
  <2>2. Range(waiters) = {} /\ waiters \in Seq(Threads)
    BY <1>1, <2>1 DEF IInv, QueueInv, Inside
  <2>3. DOMAIN waiters = 1..Len(waiters) /\ Len(waiters) \in Nat
    BY <2>2, LenProperties
  <2>4. Len(waiters) = 0
    <3>1. SUFFICES ASSUME Len(waiters) # 0 PROVE FALSE
      OBVIOUS
    <3>2. 1 \in DOMAIN waiters
      BY <2>3, <3>1
    <3>3. waiters[1] \in Range(waiters)
      BY <3>2 DEF Range
    <3> QED
      BY <2>2, <3>3
  <2> QED
    BY <2>1, <2>2, <2>4, EmptySeq
<1>2. IInv => FreedUnused
  BY <1>1 DEF FreedUnused
<1> QED
  BY <1>2, Inductive, PTL

------------------------------------------------------------------------------
(* Order of service *)

(* x stands before y in q. *)
Precedes(q, x, y) == \E i, j \in DOMAIN q : i < j /\ q[i] = x /\ q[j] = y

(* Who stands before another in the queue came earlier, in a FIFO          *)
(* semaphore; else it has the smaller priority number, or the same and     *)
(* came earlier.                                                           *)
Entitled(x, y) ==
  IF fifo THEN Precedes(arrivals, x, y)
  ELSE \/ Priority[x] < Priority[y]
       \/ Priority[x] = Priority[y] /\ Precedes(arrivals, x, y)

OrderInv == \A x, y \in Threads : Precedes(waiters, x, y) => Entitled(x, y)

LEMMA PrecedesAppend ==
  ASSUME NEW q \in Seq(Threads), NEW e \in Threads
  PROVE  /\ \A x, y : Precedes(q, x, y) => Precedes(Append(q, e), x, y)
         /\ \A x \in Range(q) : Precedes(Append(q, e), x, e)
<1>1. /\ Len(q) \in Nat /\ DOMAIN q = 1..Len(q)
      /\ DOMAIN Append(q, e) = 1..(Len(q) + 1)
      /\ \A i \in 1..Len(q) : Append(q, e)[i] = q[i]
      /\ Append(q, e)[Len(q) + 1] = e
  BY AppendProperties, LenProperties
<1>2. ASSUME NEW x, NEW y, Precedes(q, x, y) PROVE Precedes(Append(q, e), x, y)
  BY <1>1, <1>2 DEF Precedes
<1>3. ASSUME NEW x \in Range(q) PROVE Precedes(Append(q, e), x, e)
  <2>1. PICK i \in 1..Len(q) : q[i] = x
    BY <1>1 DEF Range
  <2>2. i \in DOMAIN Append(q, e) /\ Len(q) + 1 \in DOMAIN Append(q, e) /\ i < Len(q) + 1
    BY <1>1, <2>1
  <2> QED
    BY <1>1, <2>1, <2>2 DEF Precedes
<1> QED
  BY <1>2, <1>3

LEMMA PrecedesInsert ==
  ASSUME NEW q \in Seq(Threads), NEW e \in Threads, NEW at \in 1..(Len(q) + 1),
         NEW x, NEW y, Precedes(InsertAt(q, at, e), x, y)
  PROVE  \/ Precedes(q, x, y)
         \/ y = e /\ \E k \in 1..(at - 1) : x = q[k]
         \/ x = e /\ \E k \in at..Len(q) : y = q[k]
<1> DEFINE new == InsertAt(q, at, e)
<1>1. /\ Len(q) \in Nat /\ DOMAIN q = 1..Len(q) /\ DOMAIN new = 1..(Len(q) + 1)
      /\ \A j \in 1..(Len(q) + 1) :
           new[j] = IF j < at THEN q[j] ELSE IF j = at THEN e ELSE q[j - 1]
  <2>1. /\ new \in Seq(Threads) /\ Len(new) = Len(q) + 1
        /\ \A j \in 1..(Len(q) + 1) :
             new[j] = IF j < at THEN q[j] ELSE IF j = at THEN e ELSE q[j - 1]
    BY InsertAtElements
  <2> HIDE DEF new
  <2> QED
    BY <2>1, LenProperties
<1> HIDE DEF new
<1>2. PICK i, j \in 1..(Len(q) + 1) : i < j /\ new[i] = x /\ new[j] = y
  BY <1>1 DEF Precedes, new
<1>3. CASE j < at
  <2>1. i \in 1..Len(q) /\ j \in 1..Len(q) /\ q[i] = x /\ q[j] = y
    BY <1>1, <1>2, <1>3
  <2> QED
    BY <1>1, <1>2, <2>1 DEF Precedes
<1>4. CASE j = at
  <2>1. i \in 1..(at - 1) /\ x = q[i] /\ y = e
    BY <1>1, <1>2, <1>4
  <2> QED
    BY <2>1
<1>5. CASE j > at
  <2>1. j - 1 \in 1..Len(q) /\ j - 1 \in at..Len(q) /\ y = q[j - 1]
    BY <1>1, <1>2, <1>5
  <2>2. CASE i < at
    <3>1. i \in 1..Len(q) /\ x = q[i] /\ i < j - 1
      BY <1>1, <1>2, <1>5, <2>2
    <3> QED
      BY <1>1, <2>1, <3>1 DEF Precedes
  <2>3. CASE i = at
    BY <1>1, <1>2, <2>1, <2>3
  <2>4. CASE i > at
    <3>1. i - 1 \in 1..Len(q) /\ x = q[i - 1] /\ i - 1 < j - 1
      BY <1>1, <1>2, <2>4
    <3> QED
      BY <1>1, <2>1, <3>1 DEF Precedes
  <2> QED
    BY <2>2, <2>3, <2>4
<1> QED
  BY <1>3, <1>4, <1>5

LEMMA PrecedesWithout ==
  ASSUME NEW q \in Seq(Threads), IsInjective(q), NEW t, NEW x, NEW y
  PROVE  Precedes(Without(q, t), x, y) <=> Precedes(q, x, y) /\ x # t /\ y # t
<1>0. DOMAIN q = 1..Len(q) /\ Len(q) \in Nat
  BY LenProperties
<1>1. CASE t \in Range(q)
  <2> DEFINE k == CHOOSE j \in DOMAIN q : q[j] = t
             r == RemoveAt(q, k)
  <2>1. \E j \in DOMAIN q : q[j] = t
    BY <1>1 DEF Range
  <2>2. k \in 1..Len(q) /\ q[k] = t
    BY <1>0, <2>1
  <2>3. Without(q, t) = r
    BY <1>1 DEF Without
  <2> HIDE DEF k
  <2>4. /\ DOMAIN r = 1..(Len(q) - 1)
        /\ \A j \in 1..(Len(q) - 1) : r[j] = IF j < k THEN q[j] ELSE q[j + 1]
    <3>1. /\ r \in Seq(Threads) /\ Len(r) = Len(q) - 1
          /\ \A j \in 1..(Len(q) - 1) : r[j] = IF j < k THEN q[j] ELSE q[j + 1]
      BY <2>2, RemoveAtElements
    <3> HIDE DEF r
    <3> QED
      BY <3>1, LenProperties
  <2> HIDE DEF r
  <2>5. \A j \in 1..Len(q) : q[j] = t => j = k
    BY <1>0, <2>2 DEF IsInjective
  <2>6. ASSUME Precedes(r, x, y) PROVE Precedes(q, x, y) /\ x # t /\ y # t
    <3>1. PICK i, j \in 1..(Len(q) - 1) : i < j /\ r[i] = x /\ r[j] = y
      BY <2>4, <2>6 DEF Precedes
    <3>2. PICK a, b \in 1..Len(q) : a < b /\ q[a] = x /\ q[b] = y /\ a # k /\ b # k
      <4>1. CASE j < k
        <5>1. r[i] = q[i] /\ r[j] = q[j] /\ i \in 1..Len(q) /\ j \in 1..Len(q) /\ i # k
          BY <1>0, <2>2, <2>4, <3>1, <4>1
        <5> QED
          BY <2>2, <3>1, <4>1, <5>1
      <4>2. CASE i < k /\ ~(j < k)
        <5>1. r[i] = q[i] /\ r[j] = q[j + 1] /\ i \in 1..Len(q) /\ j + 1 \in 1..Len(q)
          BY <1>0, <2>4, <3>1, <4>2
        <5>2. i < j + 1 /\ i # k /\ j + 1 # k
          BY <1>0, <2>2, <3>1, <4>2
        <5> QED
          BY <3>1, <5>1, <5>2
      <4>3. CASE ~(i < k)
        <5>1. /\ r[i] = q[i + 1] /\ r[j] = q[j + 1]
              /\ i + 1 \in 1..Len(q) /\ j + 1 \in 1..Len(q) /\ i + 1 < j + 1
              /\ i + 1 # k /\ j + 1 # k
          BY <1>0, <2>2, <2>4, <3>1, <4>3
        <5> QED
          BY <3>1, <5>1
      <4> QED
        BY <2>2, <3>1, <4>1, <4>2, <4>3
    <3> QED
      BY <1>0, <2>5, <3>2 DEF Precedes
  <2>7. ASSUME Precedes(q, x, y), x # t, y # t PROVE Precedes(r, x, y)
    <3>1. PICK a, b \in 1..Len(q) : a < b /\ q[a] = x /\ q[b] = y
      BY <1>0, <2>7 DEF Precedes
    <3>2. a # k /\ b # k
      BY <2>2, <2>7, <3>1
    <3>3. CASE b < k
      <4>1. a \in 1..(Len(q) - 1) /\ b \in 1..(Len(q) - 1) /\ r[a] = q[a] /\ r[b] = q[b]
        BY <1>0, <2>2, <2>4, <3>1, <3>3
      <4> QED
        BY <2>4, <3>1, <4>1 DEF Precedes
    <3>4. CASE a < k /\ k < b
      <4>1. /\ a \in 1..(Len(q) - 1) /\ b - 1 \in 1..(Len(q) - 1) /\ a < b - 1
            /\ r[a] = q[a] /\ r[b - 1] = q[b]
        BY <1>0, <2>2, <2>4, <3>1, <3>4
      <4> QED
        BY <2>4, <3>1, <4>1 DEF Precedes
    <3>5. CASE k < a
      <4>1. /\ a - 1 \in 1..(Len(q) - 1) /\ b - 1 \in 1..(Len(q) - 1) /\ a - 1 < b - 1
            /\ r[a - 1] = q[a] /\ r[b - 1] = q[b]
        BY <1>0, <2>2, <2>4, <3>1, <3>5
      <4> QED
        BY <2>4, <3>1, <4>1 DEF Precedes
    <3> QED
      BY <2>2, <3>1, <3>2, <3>3, <3>4, <3>5
  <2> QED
    BY <2>3, <2>6, <2>7
<1>2. CASE t \notin Range(q)
  BY <1>0, <1>2 DEF Without, Precedes, Range
<1> QED
  BY <1>1, <1>2

(* Of two in a queue one stands before the other. *)
LEMMA PrecedesTotal ==
  ASSUME NEW q \in Seq(Threads), NEW x \in Range(q), NEW y \in Range(q), x # y
  PROVE  Precedes(q, x, y) \/ Precedes(q, y, x)
<1>1. DOMAIN q = 1..Len(q) /\ Len(q) \in Nat
  BY LenProperties
<1>2. PICK i \in 1..Len(q), j \in 1..Len(q) : q[i] = x /\ q[j] = y
  BY <1>1 DEF Range
<1>3. i < j \/ j < i
  BY <1>2
<1> QED
  BY <1>1, <1>2, <1>3 DEF Precedes

LEMMA PrecedesOnce ==
  ASSUME NEW q \in Seq(Threads), IsInjective(q), NEW x, NEW y, Precedes(q, x, y)
  PROVE  ~Precedes(q, y, x)
<1>1. DOMAIN q = 1..Len(q) /\ Len(q) \in Nat
  BY LenProperties
<1> QED
  BY <1>1 DEF Precedes, IsInjective

(* A newcomer takes its place. *)
LEMMA OrderWaitBlock ==
  ASSUME IInv, OrderInv, NEW t \in Threads, pc[t] = "idle", AddWaiter(t),
         arrivals' = Append(arrivals, t), fifo' = fifo
  PROVE  OrderInv'
<1>1. /\ waiters \in Seq(Threads) /\ DOMAIN waiters = 1..Len(waiters) /\ Len(waiters) \in Nat
      /\ \A k \in 1..Len(waiters) : waiters[k] \in Threads
      /\ arrivals \in Seq(Threads) /\ Range(arrivals) = Range(waiters)
      /\ Priority \in [Threads -> Int]
  BY LenProperties, ElementOfSeq DEF IInv, QueueInv
<1>2. PICK at \in 1..(Len(waiters) + 1) :
        /\ IF fifo THEN at = Len(waiters) + 1
           ELSE /\ \A i \in 1..(at - 1) : Priority[waiters[i]] <= Priority[t]
                /\ at <= Len(waiters) => Priority[waiters[at]] > Priority[t]
        /\ waiters' = InsertAt(waiters, at, t)
  BY DEF AddWaiter
<1>3. /\ \A x, y : Precedes(arrivals, x, y) => Precedes(arrivals', x, y)
      /\ \A k \in 1..Len(waiters) : Precedes(arrivals', waiters[k], t)
  <2>1. \A k \in 1..Len(waiters) : waiters[k] \in Range(arrivals)
    BY <1>1 DEF Range
  <2> QED
    BY <1>1, <2>1, PrecedesAppend
<1> SUFFICES ASSUME NEW x \in Threads, NEW y \in Threads, Precedes(waiters', x, y)
             PROVE  Entitled(x, y)'
  BY DEF OrderInv
<1>4. \/ Precedes(waiters, x, y)
      \/ y = t /\ \E k \in 1..(at - 1) : x = waiters[k]
      \/ x = t /\ \E k \in at..Len(waiters) : y = waiters[k]
  <2>1. Precedes(InsertAt(waiters, at, t), x, y)
    BY <1>2
  <2>2. waiters \in Seq(Threads)
    BY <1>1
  <2> QED
    BY ONLY <2>1, <2>2, t \in Threads, at \in 1..(Len(waiters) + 1), PrecedesInsert
<1>5. CASE Precedes(waiters, x, y)
  BY <1>3, <1>5 DEF OrderInv, Entitled
<1>6. ASSUME y = t, NEW k \in 1..(at - 1), x = waiters[k] PROVE Entitled(x, y)'
  <2>1. k \in 1..Len(waiters) /\ Precedes(arrivals', x, y)
    BY <1>1, <1>3, <1>6
  <2>2. CASE fifo
    BY <2>1, <2>2 DEF Entitled
  <2>3. CASE ~fifo
    <3>1. Priority[x] <= Priority[y] /\ Priority[x] \in Int /\ Priority[y] \in Int
      BY <1>1, <1>2, <1>6, <2>3
    <3>2. Priority[x] < Priority[y] \/ Priority[x] = Priority[y]
      BY <3>1
    <3> QED
      BY <2>1, <2>3, <3>2 DEF Entitled
  <2> QED
    BY <2>2, <2>3
<1>7. ASSUME x = t, NEW k \in at..Len(waiters), y = waiters[k] PROVE Entitled(x, y)'
  <2>1. ~fifo /\ at \in 1..Len(waiters) /\ k \in 1..Len(waiters) /\ waiters[at] \in Threads
    BY <1>1, <1>2, <1>7
  <2>2. Priority[waiters[at]] > Priority[t]
    BY <1>1, <1>2, <2>1
  <2>3. Priority[waiters[at]] <= Priority[y]
    <3>1. CASE k = at
      BY <1>1, <1>7, <2>1, <3>1
    <3>2. CASE k # at
      <4>1. at < k
        BY <1>1, <1>7, <2>1, <3>2
      <4>2. Precedes(waiters, waiters[at], y)
        BY <1>1, <1>7, <2>1, <4>1 DEF Precedes
      <4>3. Entitled(waiters[at], y)
        BY <2>1, <4>2 DEF OrderInv
      <4> QED
        BY <1>1, <2>1, <4>3 DEF Entitled
    <3> QED
      BY <3>1, <3>2
  <2>4. Priority[x] < Priority[y]
    BY <1>1, <1>7, <2>1, <2>2, <2>3
  <2> QED
    BY <2>1, <2>4 DEF Entitled
<1> QED
  BY <1>4, <1>5, <1>6, <1>7

(* Who leaves disturbs nobody else's place. *)
LEMMA OrderRemove ==
  ASSUME IInv, OrderInv, NEW t \in Threads, RemoveWaiter(t), fifo' = fifo
  PROVE  OrderInv'
<1>1. /\ waiters \in Seq(Threads) /\ IsInjective(waiters)
      /\ arrivals \in Seq(Threads) /\ IsInjective(arrivals)
      /\ waiters' = Without(waiters, t) /\ arrivals' = Without(arrivals, t)
  BY DEF IInv, QueueInv, RemoveWaiter
<1>2. \A x, y : Precedes(waiters', x, y) <=> Precedes(waiters, x, y) /\ x # t /\ y # t
  BY <1>1, PrecedesWithout
<1>3. \A x, y : Precedes(arrivals', x, y) <=> Precedes(arrivals, x, y) /\ x # t /\ y # t
  BY <1>1, PrecedesWithout
<1> QED
  BY <1>2, <1>3 DEF OrderInv, Entitled

LEMMA InitOrder ==
  ASSUME Init
  PROVE  OrderInv
<1>1. DOMAIN waiters = {}
  BY DEF Init
<1> QED
  BY <1>1 DEF OrderInv, Precedes

LEMMA NextOrder ==
  ASSUME IInv, OrderInv, [Next]_vars
  PROVE  OrderInv'
<1>1. CASE UNCHANGED <<fifo, waiters, arrivals>>
  BY <1>1 DEF OrderInv, Entitled, Precedes
<1>2. ASSUME NEW t \in Threads, NEW n \in Needs, NEW tm \in BOOLEAN, WaitBlock(t, n, tm)
      PROVE  OrderInv'
  <2>1. pc[t] = "idle" /\ AddWaiter(t) /\ arrivals' = Append(arrivals, t) /\ fifo' = fifo
    BY <1>2 DEF WaitBlock
  <2> QED
    BY <2>1, OrderWaitBlock
<1>3. ASSUME NEW t \in Threads, WaitReturn(t) \/ WaitTimeout(t) PROVE OrderInv'
  <2>1. RemoveWaiter(t) /\ fifo' = fifo
    BY <1>3 DEF WaitReturn, WaitTimeout
  <2> QED
    BY <2>1, OrderRemove
<1>4. CASE UNCHANGED vars
  BY <1>1, <1>4 DEF vars
<1>5. ASSUME NEW t \in Threads,
             \/ \E n \in Needs : TakeNow(t, n) \/ PollFail(t, n)
             \/ CallOnDeleted(t) \/ WaitAgain(t) \/ DeadlinePasses(t) \/ SleepEnds(t)
             \/ \E n \in SignalCounts : Signal(t, n) \/ SignalRefused(t, n)
             \/ \E n \in CancelCounts : Cancel(t, n)
             \/ RefuseCount(t) \/ DeleteStart(t) \/ DeleteFinish(t)
      PROVE  UNCHANGED <<fifo, waiters, arrivals>>
  BY <1>5 DEF TakeNow, PollFail, CallOnDeleted, WaitAgain, DeadlinePasses, SleepEnds, Signal,
              SignalRefused, Cancel, RefuseCount, DeleteStart, DeleteFinish, Queue
<1> QED
  BY <1>1, <1>2, <1>3, <1>4, <1>5 DEF Next, Wait

(* The place of a thread in the order of arrival. *)
LEMMA PositionFacts ==
  ASSUME IInv, NEW s \in Range(waiters), NEW t \in Range(waiters)
  PROVE  /\ Position(s) < Position(t) <=> Precedes(arrivals, s, t)
         /\ Position(s) \in Nat /\ Position(t) \in Nat
<1>1. /\ DOMAIN arrivals = 1..Len(arrivals) /\ Len(arrivals) \in Nat
      /\ IsInjective(arrivals) /\ Range(arrivals) = Range(waiters)
  BY LenProperties DEF IInv, QueueInv
<1>2. \A u \in Range(waiters) : Position(u) \in DOMAIN arrivals /\ arrivals[Position(u)] = u
  <2> TAKE u \in Range(waiters)
  <2>1. \E i \in DOMAIN arrivals : arrivals[i] = u
    BY <1>1 DEF Range
  <2> QED
    BY <2>1 DEF Position
<1>3. \A i \in DOMAIN arrivals : /\ arrivals[i] = s => i = Position(s)
                                 /\ arrivals[i] = t => i = Position(t)
  BY <1>2, <1>1 DEF IsInjective
<1> QED
  BY <1>1, <1>2, <1>3 DEF Precedes

(* What Signal grants it grants in order, but for needs that do not fit.   *)
LEMMA SignalKeepsOrder ==
  ASSUME IInv, OrderInv, NEW S \in SUBSET Unready, NEW c \in Int, WakeWaiters(S, c),
         NEW s \in Unready \ S, NEW t \in S, Before(s, t)
  PROVE  need[s] > need[t]
<1>1. /\ waiters \in Seq(Threads) /\ IsInjective(waiters) /\ arrivals \in Seq(Threads)
      /\ IsInjective(arrivals) /\ Priority \in [Threads -> Int]
      /\ DOMAIN waiters = 1..Len(waiters) /\ Len(waiters) \in Nat
      /\ need \in [Threads -> 0..MaxCount] /\ Range(waiters) \subseteq Threads
  BY LenProperties DEF IInv, QueueInv, TypeInv, Inside
<1>2. /\ s \in Range(waiters) /\ t \in Range(waiters) /\ s # t /\ t \in Unready
      /\ s \in Threads /\ t \in Threads /\ Priority[s] \in Int /\ Priority[t] \in Int
  BY <1>1 DEF Unready
<1>3. Precedes(waiters, s, t)
  <2>1. SUFFICES ASSUME Precedes(waiters, t, s) PROVE FALSE
    BY <1>1, <1>2, PrecedesTotal
  <2>2. Entitled(t, s)
    BY <1>2, <2>1 DEF OrderInv
  <2>3. Position(s) < Position(t) <=> Precedes(arrivals, s, t)
    BY <1>2, PositionFacts
  <2>4. ~(Precedes(arrivals, s, t) /\ Precedes(arrivals, t, s))
    BY <1>1, PrecedesOnce
  <2> QED
    BY <1>2, <2>2, <2>3, <2>4 DEF Entitled, Before
<1>4. PICK i, k \in 1..Len(waiters) : i < k /\ waiters[i] = s /\ waiters[k] = t
  BY <1>1, <1>3 DEF Precedes
<1> DEFINE first == {waiters[j] : j \in 1..(i - 1)} \cap S
           second == {waiters[j] : j \in 1..(k - 1)} \cap S
<1>5. ~(Total(first) + need[s] <= c) /\ Total(second) + need[t] <= c
  BY <1>1, <1>2, <1>4 DEF WakeWaiters
<1>6. first \subseteq second
  <2>1. 1..(i - 1) \subseteq 1..(k - 1)
    BY <1>4
  <2> QED
    BY <2>1
<1> HIDE DEF first, second
<1>7. /\ Total(first) \in Nat /\ Total(second) \in Nat
      /\ Total(first) <= Total(second)
  BY <1>6, TotalIsTotalOf, TokensAreFinite, TotalMonotone
<1>8. need[s] \in Nat /\ need[t] \in Nat
  BY <1>1, <1>2
<1> QED
  BY <1>5, <1>7, <1>8

LEMMA NextOvertakes ==
  ASSUME IInv, OrderInv, [Next]_vars, NEW s \in Unready, NEW t \in Unready, s # t,
         Before(s, t), t \in Granted', s \in Unready'
  PROVE  need[s] > need[t]
<1>1. /\ TypeInv /\ QueueInv /\ ~ready[t] /\ ready'[t] /\ result'[t] = "Ok" /\ ~ready'[s]
      /\ s \in Inside /\ t \in Inside /\ s \in Threads /\ t \in Threads
  BY DEF IInv, QueueInv, Inside, Unready, Granted
<1>2. PICK u \in Threads, n \in SignalCounts : Signal(u, n)
  <2>1. \A v \in Threads : WaitReturn(v) \/ WaitTimeout(v) => ready' = [ready EXCEPT ![v] = FALSE]
    BY DEF WaitReturn, WaitTimeout, RemoveWaiter
  <2>2. \A v \in Threads, n \in Needs, tm \in BOOLEAN :
          WaitBlock(v, n, tm) => ready' = [ready EXCEPT ![v] = FALSE]
    BY DEF WaitBlock
  <2>3. \A v \in Threads : \A n \in CancelCounts : Cancel(v, n) => ready'[s]
    BY <1>1 DEF Cancel
  <2>4. \A v \in Threads : DeleteStart(v) => ready'[s]
    BY <1>1 DEF DeleteStart, ReleaseUnready
  <2>5. ASSUME NEW v \in Threads,
               \/ \E n \in Needs : TakeNow(v, n) \/ PollFail(v, n)
               \/ CallOnDeleted(v) \/ WaitAgain(v) \/ DeadlinePasses(v) \/ SleepEnds(v)
               \/ \E n \in SignalCounts : SignalRefused(v, n)
               \/ RefuseCount(v) \/ DeleteFinish(v)
        PROVE  ready' = ready
    BY <2>5 DEF TakeNow, PollFail, CallOnDeleted, WaitAgain, DeadlinePasses, SleepEnds,
                SignalRefused, RefuseCount, DeleteFinish, Queue
  <2>6. \A v \in Threads : ready' # [ready EXCEPT ![v] = FALSE]
    BY <1>1 DEF TypeInv
  <2>7. ready' # ready /\ ~UNCHANGED vars
    BY <1>1 DEF vars
  <2> QED
    BY <1>1, <2>1, <2>2, <2>3, <2>4, <2>5, <2>6, <2>7 DEF Next, Wait
<1>3. PICK S \in SUBSET Unready :
        /\ WakeWaiters(S, Sum(n))
        /\ ready' = [v \in Threads |-> ready[v] \/ v \in S]
  BY <1>2 DEF Signal
<1>4. t \in S /\ s \in Unready \ S
  BY <1>1, <1>3
<1>5. Sum(n) \in Int
  BY SumFacts DEF IInv, CountInv
<1> QED
  BY <1>3, <1>4, <1>5, SignalKeepsOrder

(* A waiter of the semaphore is overtaken only by one that asked for less. *)
THEOREM NobodyIsOvertaken == Spec => NoOvertaking
<1> DEFINE I == IInv /\ OrderInv
<1>1. Init => I
  BY InitIInv, InitOrder
<1>2. I /\ [Next]_vars => I'
  BY NextIInv, NextOrder
<1>3. I /\ [Next]_vars =>
        [\A s, t \in Unready :
           s # t /\ Before(s, t) /\ t \in Granted' /\ s \in Unready'
             => need[s] > need[t]]_vars
  BY NextOvertakes
<1> QED
  BY <1>1, <1>2, <1>3, PTL DEF Spec, NoOvertaking
------------------------------------------------------------------------------
(* KernelSema implements AbstractSema *)

(* Only waiters ask for tokens, and only they have deadlines. *)
WaitInv == \A t \in Threads :
  /\ need[t] > 0 <=> t \in Inside
  /\ timed[t] => t \in Inside
  /\ expired[t] => timed[t]

RInv == IInv /\ WaitInv

(* What the abstract semaphore sees of the state. *)
LEMMA WaitersSeen ==
  ASSUME RInv
  PROVE  /\ TypeInv /\ QueueInv /\ WaitInv
         /\ Abstract!Waiting = Unready /\ Abstract!Inside = Inside
         /\ Unready \subseteq Inside /\ Inside \subseteq Threads /\ Range(waiters) = Inside
         /\ \A t \in Threads : pc[t] \in {"idle", "deleting"} => t \notin Inside
<1>1. TypeInv /\ QueueInv /\ WaitInv
  BY DEF RInv, IInv
<1>2. /\ Unready \subseteq Inside /\ Inside \subseteq Threads /\ Range(waiters) = Inside
      /\ \A t \in Threads : pc[t] \in {"idle", "deleting"} => t \notin Inside
  BY <1>1, GrantedFacts DEF QueueInv, Inside
<1>3. Abstract!Inside = Inside
  BY <1>1, <1>2 DEF Abstract!Inside, WaitInv
<1>4. Abstract!Waiting = Unready
  <2>1. \A t \in Threads : result[t] # "Pending"
    BY <1>1 DEF TypeInv, Results
  <2> QED
    BY <1>2, <2>1 DEF Abstract!Waiting, Answered
<1> QED
  BY <1>1, <1>2, <1>3, <1>4

(* The threads S, and no others, learn that their calls end with r. *)
LEMMA AnswerGiven ==
  ASSUME NEW S, NEW r,
         \A t \in Threads : IF t \in S THEN t \notin Unready' /\ result'[t] = r
                            ELSE /\ t \in Unready' <=> t \in Unready
                                 /\ t \notin Unready => result'[t] = result[t]
  PROVE  Abstract!Answer(S, r)
<1>1. \A t \in Threads : Answered'[t] = IF t \in S THEN r ELSE Answered[t]
  BY DEF Answered
<1>2. Answered' = [t \in Threads |-> Answered'[t]]
  BY DEF Answered
<1> QED
  BY <1>1, <1>2 DEF Abstract!Answer

LEMMA AnswersKept ==
  ASSUME Unready' = Unready,
         \A t \in Threads : t \notin Unready => result'[t] = result[t]
  PROVE  Answered' = Answered
BY DEF Answered

LEMMA InitSeen ==
  ASSUME Init
  PROVE  WaitInv /\ Abstract!Init
<1>1. Inside = {} /\ Range(waiters) = {}
  BY DEF Init, Inside, Range
<1>2. Unready = {}
  BY <1>1 DEF Unready
<1>3. WaitInv
  BY <1>1 DEF Init, WaitInv, NoNeed
<1>4. Answered = [t \in Threads |-> "Ok"]
  BY <1>2 DEF Init, Answered
<1> QED
  BY <1>3, <1>4 DEF Init, Abstract!Init, NoNeed

(* A call that returns at once. *)
LEMMA ReplySeen ==
  ASSUME RInv, NEW t \in Threads, pc[t] = "idle", NEW r \in Results, Reply(t, r),
         UNCHANGED <<Queue>>
  PROVE  /\ t \notin Abstract!Inside /\ Abstract!Answer({t}, r) /\ WaitInv'
         /\ UNCHANGED <<need, timed>>
<1>1. t \notin Inside /\ Abstract!Inside = Inside /\ Unready \subseteq Inside /\ TypeInv /\ WaitInv
  BY WaitersSeen
<1>2. Unready' = Unready /\ Inside' = Inside
  BY DEF Queue, Unready, Inside
<1>3. result'[t] = r /\ \A s \in Threads \ {t} : result'[s] = result[s]
  BY <1>1 DEF Reply, TypeInv
<1>4. Abstract!Answer({t}, r)
  BY <1>1, <1>2, <1>3, AnswerGiven
<1>5. WaitInv'
  BY <1>1, <1>2 DEF WaitInv, Queue
<1> QED
  BY <1>1, <1>4, <1>5 DEF Queue

LEMMA RefusalSeen ==
  ASSUME RInv, NEW t \in Threads,
         \/ \E n \in Needs : PollFail(t, n)
         \/ \E n \in SignalCounts : SignalRefused(t, n)
         \/ CallOnDeleted(t)
         \/ RefuseCount(t)
  PROVE  WaitInv' /\ \E r \in Abstract!Replies : Abstract!Refuse(t, r)
<1>1. /\ pc[t] = "idle" /\ UNCHANGED <<Queue, count, status>>
      /\ \E r \in Results :
           /\ Reply(t, r)
           /\ \/ r = "TimedOut" /\ status = "Set" /\ count < MaxCount
              \/ r = "InvalCount" /\ status # "Freed"
              \/ r = "Deleted" /\ status = "Deleted"
  <2>1. count \in Int /\ \A n \in Needs : n \in Nat /\ n <= MaxCount
    BY DEF RInv, IInv, CountInv, Needs, Ints
  <2>2. \A n \in Needs : count < n => count < MaxCount
    BY <2>1
  <2> QED
    BY <2>2 DEF PollFail, SignalRefused, CallOnDeleted, RefuseCount, Results
<1>2. PICK r \in Results :
        /\ Reply(t, r)
        /\ \/ r = "TimedOut" /\ status = "Set" /\ count < MaxCount
           \/ r = "InvalCount" /\ status # "Freed"
           \/ r = "Deleted" /\ status = "Deleted"
  BY <1>1
<1>3. /\ t \notin Abstract!Inside /\ Abstract!Answer({t}, r) /\ WaitInv'
      /\ UNCHANGED <<need, timed>>
  BY <1>1, <1>2, ReplySeen
<1>4. Abstract!Refuse(t, r)
  BY <1>1, <1>2, <1>3 DEF Abstract!Refuse
<1>5. r \in Abstract!Replies
  BY DEF Results, Abstract!Replies
<1> QED
  BY <1>3, <1>4, <1>5

LEMMA TakeNowSeen ==
  ASSUME RInv, NEW t \in Threads, NEW n \in Needs, TakeNow(t, n)
  PROVE  WaitInv' /\ Abstract!Take(t, n)
<1>1. /\ t \notin Abstract!Inside /\ Abstract!Answer({t}, "Ok") /\ WaitInv'
      /\ UNCHANGED <<need, timed>>
  BY ReplySeen DEF TakeNow, Results
<1>2. n <= count
  BY DEF TakeNow, RInv, IInv, CountInv, Needs, Ints
<1> QED
  BY <1>1, <1>2 DEF TakeNow, Abstract!Take

LEMMA WaitBlockSeen ==
  ASSUME RInv, NEW t \in Threads, NEW n \in Needs, NEW tm \in BOOLEAN, WaitBlock(t, n, tm)
  PROVE  WaitInv' /\ Abstract!Ask(t, n, tm)
<1>1. /\ TypeInv /\ QueueInv /\ WaitInv /\ t \notin Inside /\ Abstract!Inside = Inside
      /\ Unready \subseteq Inside /\ Inside \subseteq Threads /\ Range(waiters) = Inside
  BY WaitersSeen DEF WaitBlock
<1>2. /\ pc' = [pc EXCEPT ![t] = "asleep"] /\ need' = [need EXCEPT ![t] = n]
      /\ timed' = [timed EXCEPT ![t] = tm] /\ ready' = [ready EXCEPT ![t] = FALSE]
      /\ result' = [result EXCEPT ![t] = "TimedOut"]
      /\ UNCHANGED <<expired, count, status>> /\ status = "Set" /\ count < n
  BY DEF WaitBlock, Reply
<1>3. Range(waiters') = Range(waiters) \cup {t}
  BY <1>1, AddWaiterFacts DEF WaitBlock
<1>4. Inside' = Inside \cup {t}
  BY <1>1, <1>2 DEF Inside, TypeInv
<1>5. n \in Nat /\ n > 0 /\ n > count
  BY <1>2 DEF Needs, RInv, IInv, CountInv, Ints
<1>6. WaitInv'
  <2>1. ASSUME NEW s \in Threads
        PROVE  /\ need'[s] > 0 <=> s \in Inside'
               /\ timed'[s] => s \in Inside'
               /\ expired'[s] => timed'[s]
    <3>1. CASE s = t
      BY <1>1, <1>2, <1>4, <1>5, <3>1 DEF WaitInv, TypeInv
    <3>2. CASE s # t
      BY <1>1, <1>2, <1>4, <3>2 DEF WaitInv, TypeInv
    <3> QED
      BY <3>1, <3>2
  <2> QED
    BY <2>1 DEF WaitInv
<1>7. Unready' = Unready \cup {t}
  BY <1>1, <1>2, <1>3 DEF Unready, TypeInv
<1>8. Abstract!Answer({t}, "Pending")
  <2>1. \A s \in Threads \ {t} : result'[s] = result[s]
    BY <1>1, <1>2 DEF TypeInv
  <2>2. \A s \in Threads : Answered'[s] = IF s \in {t} THEN "Pending" ELSE Answered[s]
    BY <1>7, <2>1 DEF Answered
  <2>3. Answered' = [s \in Threads |-> Answered'[s]]
    BY DEF Answered
  <2> QED
    BY <2>2, <2>3 DEF Abstract!Answer
<1> QED
  BY <1>1, <1>2, <1>5, <1>6, <1>8 DEF Abstract!Ask

(* Queue, poll and notification are invisible. *)
LEMMA SleeperUnseen ==
  ASSUME RInv, NEW t \in Threads, DeadlinePasses(t) \/ SleepEnds(t) \/ WaitAgain(t)
  PROVE  WaitInv' /\ UNCHANGED Abstract!vars
<1>1. TypeInv /\ WaitInv
  BY WaitersSeen
<1>2. UNCHANGED <<count, status, need, timed, waiters, ready, result>>
  BY DEF DeadlinePasses, SleepEnds, WaitAgain
<1>3. Unready' = Unready /\ Answered' = Answered
  BY <1>2 DEF Unready, Answered
<1>4. Inside' = Inside /\ \A s \in Threads : expired'[s] => timed[s]
  BY <1>1 DEF DeadlinePasses, SleepEnds, WaitAgain, Inside, TypeInv, WaitInv
<1>5. WaitInv'
  BY <1>1, <1>2, <1>4 DEF WaitInv
<1> QED
  BY <1>2, <1>3, <1>5 DEF Abstract!vars

(* A waiter leaves the queue. *)
LEMMA RemovalSeen ==
  ASSUME RInv, NEW t \in Threads, pc[t] = "awake", RemoveWaiter(t),
         pc' = [pc EXCEPT ![t] = "idle"]
  PROVE  /\ t \in Abstract!Inside /\ WaitInv' /\ Abstract!Depart(t)
         /\ Unready' = Unready \ {t}
<1>1. /\ TypeInv /\ QueueInv /\ WaitInv /\ Abstract!Inside = Inside
      /\ Inside \subseteq Threads /\ Range(waiters) = Inside
  BY WaitersSeen
<1>2. t \in Inside /\ Inside' = Inside \ {t}
  BY <1>1 DEF Inside, TypeInv
<1>3. /\ Range(waiters') = Range(waiters) \ {t}
      /\ \A s \in Threads \ {t} : ready'[s] = ready[s]
  BY <1>1, RemoveStep
<1>4. Unready' = Unready \ {t}
  BY <1>1, <1>3 DEF Unready
<1>5. /\ need' = [need EXCEPT ![t] = 0] /\ timed' = [timed EXCEPT ![t] = FALSE]
      /\ expired' = [expired EXCEPT ![t] = FALSE]
  BY DEF RemoveWaiter, NoNeed
<1>6. WaitInv'
  <2>1. ASSUME NEW s \in Threads
        PROVE  /\ need'[s] > 0 <=> s \in Inside'
               /\ timed'[s] => s \in Inside'
               /\ expired'[s] => timed'[s]
    <3>1. CASE s = t
      BY <1>1, <1>2, <1>5, <3>1 DEF TypeInv
    <3>2. CASE s # t
      BY <1>1, <1>2, <1>5, <3>2 DEF WaitInv, TypeInv
    <3> QED
      BY <3>1, <3>2
  <2> QED
    BY <2>1 DEF WaitInv
<1>7. Abstract!Depart(t)
  BY <1>5 DEF Abstract!Depart
<1> QED
  BY <1>1, <1>2, <1>4, <1>6, <1>7

(* The answer that the waiter returns with is the one it was given. *)
LEMMA WaitReturnSeen ==
  ASSUME RInv, NEW t \in Threads, WaitReturn(t)
  PROVE  WaitInv' /\ Abstract!Leave(t)
<1>1. /\ t \in Abstract!Inside /\ WaitInv' /\ Abstract!Depart(t)
      /\ Unready' = Unready \ {t}
  BY RemovalSeen DEF WaitReturn
<1>2. ready[t] /\ UNCHANGED <<count, status, result>>
  BY DEF WaitReturn
<1>3. t \notin Unready /\ Abstract!Waiting = Unready
  BY <1>2, WaitersSeen DEF Unready
<1>4. Answered' = Answered
  BY <1>1, <1>2, <1>3, AnswersKept
<1> QED
  BY <1>1, <1>2, <1>3, <1>4 DEF Abstract!Leave

LEMMA WaitTimeoutSeen ==
  ASSUME RInv, NEW t \in Threads, WaitTimeout(t)
  PROVE  WaitInv' /\ Abstract!GiveUp(t)
<1>1. /\ t \in Abstract!Inside /\ WaitInv' /\ Abstract!Depart(t)
      /\ Unready' = Unready \ {t}
  BY RemovalSeen DEF WaitTimeout
<1>2. /\ ~ready[t] /\ expired[t] /\ UNCHANGED <<count, status>>
      /\ result' = [result EXCEPT ![t] = "TimedOut"]
  BY DEF WaitTimeout, Reply
<1>3. /\ TypeInv /\ WaitInv /\ Abstract!Waiting = Unready /\ Abstract!Inside = Inside
      /\ Range(waiters) = Inside
  BY WaitersSeen
<1>4. t \in Abstract!Waiting /\ timed[t]
  BY <1>1, <1>2, <1>3 DEF Unready, WaitInv
<1>5. result'[t] = "TimedOut" /\ \A s \in Threads \ {t} : result'[s] = result[s]
  BY <1>2, <1>3 DEF TypeInv
<1>6. Abstract!Answer({t}, "TimedOut")
  BY <1>1, <1>5, AnswerGiven
<1> QED
  BY <1>1, <1>2, <1>4, <1>6 DEF Abstract!GiveUp

(* Being woken is invisible. *)
LEMMA WaitInvKept ==
  ASSUME WaitInv, UNCHANGED <<need, timed, expired>>, Inside' = Inside
  PROVE  WaitInv'
BY DEF WaitInv

LEMMA SignalSeen ==
  ASSUME RInv, NEW t \in Threads, NEW n \in SignalCounts, Signal(t, n)
  PROVE  /\ WaitInv'
         /\ n \in Abstract!Ints /\ \E S \in SUBSET Abstract!Waiting : Abstract!Give(t, n, S)
<1>1. PICK S \in SUBSET Unready :
        /\ pc[t] = "idle" /\ status = "Set" /\ Fits(n)
        /\ WakeWaiters(S, Sum(n))
        /\ count' = Sum(n) - Total(S)
        /\ ready' = [s \in Threads |-> ready[s] \/ s \in S]
        /\ result' = [s \in Threads |-> IF s \in S \cup {t} THEN "Ok" ELSE result[s]]
        /\ \E W \in (IF S = {} THEN {{}}
                     ELSE IF Cardinality(S) = 1 THEN SignalOne ELSE SignalAll) :
             pc' = WakeUp(W)
        /\ UNCHANGED <<status, waiters, need, timed, expired>>
  BY DEF Signal
<1>2. /\ TypeInv /\ QueueInv /\ WaitInv /\ Abstract!Waiting = Unready /\ Abstract!Inside = Inside
      /\ Unready \subseteq Inside /\ Inside \subseteq Threads /\ t \notin Inside
      /\ Range(waiters) = Inside
  BY <1>1, WaitersSeen
<1>3. /\ n \in Abstract!Ints /\ Sum(n) \in Int /\ Sum(n) <= MaxCount
      /\ Abstract!Sum(n) = Sum(n)
  BY <1>1, SumFacts
     DEF RInv, IInv, CountInv, Fits, Sum, Wrap, Abstract!Sum, Abstract!Wrap, Abstract!Ints
<1>4. Inside' = Inside
  <2>1. PICK W \in SUBSET Threads : W \subseteq Asleep /\ pc' = WakeUp(W)
    BY <1>1 DEF SignalOne, SignalAll, Asleep
  <2> QED
    BY <1>2, <2>1, WakeUpKeepsInside DEF Inside
<1>5. WaitInv'
  BY <1>1, <1>2, <1>4, WaitInvKept
<1>6. Unready' = Unready \ S
  BY <1>1, <1>2 DEF Unready, TypeInv
<1>7. Abstract!Answer(S \cup {t}, "Ok")
  <2>1. ASSUME NEW s \in Threads
        PROVE  IF s \in S \cup {t} THEN s \notin Unready' /\ result'[s] = "Ok"
               ELSE /\ s \in Unready' <=> s \in Unready
                    /\ s \notin Unready => result'[s] = result[s]
    BY <1>1, <1>2, <1>6
  <2> QED
    BY <2>1, AnswerGiven
<1>8. Abstract!Wanted(S) = Total(S)
  BY DEF Abstract!Wanted, Total, Tokens, Abstract!Cardinality, Cardinality
<1>9. S # {} => Total(S) <= Sum(n)
  BY <1>1 DEF WakeWaiters
<1>10. \A s \in Unready \ S : need[s] > count'
  BY <1>1, <1>2, <1>3, WakeWaitersFacts
<1>11. Abstract!Give(t, n, S)
  BY <1>1, <1>2, <1>3, <1>7, <1>8, <1>9, <1>10 DEF Abstract!Give
<1> QED
  BY <1>2, <1>3, <1>5, <1>11

LEMMA CancelSeen ==
  ASSUME RInv, NEW t \in Threads, NEW n \in CancelCounts, Cancel(t, n)
  PROVE  WaitInv' /\ \E k \in 0..MaxCount : Abstract!Cancel(t, k)
<1>1. /\ pc[t] = "idle" /\ status = "Set" /\ n \in Int /\ n <= MaxCount
      /\ count' = (IF n < 0 THEN InitCount ELSE n)
      /\ ready' = [s \in Threads |-> ready[s] \/ s \in Unready]
      /\ result' = [s \in Threads |-> CASE s \in Unready -> "Canceled"
                                        [] s = t -> "Ok"
                                        [] OTHER -> result[s]]
      /\ pc' = WakeUp(Asleep)
      /\ UNCHANGED <<status, waiters, need, timed, expired>>
  BY DEF Cancel, SignalAll
<1>2. /\ TypeInv /\ QueueInv /\ WaitInv /\ Abstract!Waiting = Unready /\ Abstract!Inside = Inside
      /\ Unready \subseteq Inside /\ Inside \subseteq Threads /\ t \notin Inside
      /\ Range(waiters) = Inside
  BY <1>1, WaitersSeen
<1>3. Inside' = Inside
  <2>1. Asleep \in SUBSET Threads
    BY DEF Asleep
  <2> QED
    BY <1>1, <1>2, <2>1, WakeUpKeepsInside DEF Inside
<1>4. WaitInv'
  BY <1>1, <1>2, <1>3, WaitInvKept
<1>5. Unready' = {}
  BY <1>1, <1>2 DEF Unready
<1>6. count' \in 0..MaxCount
  BY <1>1
<1>7. Answered' = [s \in Threads |-> IF s \in Unready THEN "Canceled"
                                     ELSE IF s = t THEN "Ok" ELSE Answered[s]]
  <2>1. ASSUME NEW s \in Threads
        PROVE  result'[s] = IF s \in Unready THEN "Canceled"
                            ELSE IF s = t THEN "Ok" ELSE result[s]
    BY <1>1, <1>2
  <2> QED
    BY <1>5, <2>1 DEF Answered
<1>8. Abstract!Cancel(t, count')
  BY <1>1, <1>2, <1>7 DEF Abstract!Cancel
<1> QED
  BY <1>4, <1>6, <1>8

LEMMA DeleteSeen ==
  ASSUME RInv, NEW t \in Threads, DeleteStart(t)
  PROVE  WaitInv' /\ Abstract!Delete
<1>1. /\ pc[t] = "idle" /\ status = "Set" /\ status' = "Deleted"
      /\ ready' = [s \in Threads |-> ready[s] \/ s \in Unready]
      /\ result' = [s \in Threads |-> IF s \in Unready THEN "Deleted" ELSE result[s]]
      /\ pc' = [WakeUp(Asleep) EXCEPT ![t] = "deleting"]
      /\ UNCHANGED <<count, waiters, need, timed, expired>>
  BY DEF DeleteStart, SignalAll, ReleaseUnready
<1>2. /\ TypeInv /\ QueueInv /\ WaitInv /\ Abstract!Waiting = Unready
      /\ Unready \subseteq Inside /\ Inside \subseteq Threads /\ t \notin Inside
      /\ Range(waiters) = Inside
  BY <1>1, WaitersSeen
<1>3. Inside' = Inside
  <2>1. Asleep \in SUBSET Threads
    BY DEF Asleep
  <2> QED
    BY <1>1, <1>2, <2>1, WakeUpKeepsInside DEF Inside
<1>4. WaitInv'
  BY <1>1, <1>2, <1>3, WaitInvKept
<1>5. Unready' = {}
  BY <1>1, <1>2 DEF Unready
<1>6. Abstract!Answer(Unready, "Deleted")
  <2>1. ASSUME NEW s \in Threads
        PROVE  IF s \in Unready THEN s \notin Unready' /\ result'[s] = "Deleted"
               ELSE /\ s \in Unready' <=> s \in Unready
                    /\ s \notin Unready => result'[s] = result[s]
    BY <1>1, <1>5
  <2> QED
    BY <2>1, AnswerGiven
<1> QED
  BY <1>1, <1>2, <1>4, <1>6 DEF Abstract!Delete

LEMMA FreeSeen ==
  ASSUME RInv, NEW t \in Threads, DeleteFinish(t)
  PROVE  WaitInv' /\ Abstract!Free
<1>1. /\ pc[t] = "deleting" /\ waiters = <<>> /\ status' = "Freed"
      /\ pc' = [pc EXCEPT ![t] = "idle"]
      /\ UNCHANGED <<count, waiters, need, ready, result, timed, expired>>
  BY DEF DeleteFinish
<1>2. TypeInv /\ WaitInv /\ Abstract!Inside = Inside /\ Range(waiters) = Inside
  BY WaitersSeen
<1>3. Inside = {}
  BY <1>1, <1>2 DEF Range
<1>4. status = "Deleted"
  BY <1>1 DEF RInv, IInv, DeleteInv
<1>5. Inside' = Inside
  BY <1>1, <1>2 DEF Inside, TypeInv
<1>6. WaitInv'
  BY <1>1, <1>2, <1>5, WaitInvKept
<1>7. Answered' = Answered
  BY <1>1 DEF Answered, Unready
<1> QED
  BY <1>1, <1>2, <1>3, <1>4, <1>6, <1>7 DEF Abstract!Free

LEMMA StepSeen ==
  ASSUME RInv, [Next]_vars
  PROVE  WaitInv' /\ [Abstract!Next]_(Abstract!vars)
<1>1. CASE UNCHANGED vars
  <2>1. WaitInv'
    BY <1>1 DEF vars, RInv, WaitInv, Inside
  <2>2. UNCHANGED Abstract!vars
    BY <1>1 DEF vars, Abstract!vars, Answered, Unready
  <2> QED
    BY <2>1, <2>2
<1>2. ASSUME NEW t \in Threads, NEW n \in Needs, TakeNow(t, n)
      PROVE  WaitInv' /\ Abstract!Next
  BY <1>2, TakeNowSeen DEF Abstract!Next, Needs
<1>3. ASSUME NEW t \in Threads,
             \/ \E n \in Needs : PollFail(t, n)
             \/ \E n \in SignalCounts : SignalRefused(t, n)
             \/ CallOnDeleted(t)
             \/ RefuseCount(t)
      PROVE  WaitInv' /\ Abstract!Next
  BY <1>3, RefusalSeen DEF Abstract!Next
<1>4. ASSUME NEW t \in Threads, NEW n \in Needs, NEW tm \in BOOLEAN, WaitBlock(t, n, tm)
      PROVE  WaitInv' /\ Abstract!Next
  BY <1>4, WaitBlockSeen DEF Abstract!Next, Needs
<1>5. ASSUME NEW t \in Threads, WaitReturn(t) \/ WaitTimeout(t)
      PROVE  WaitInv' /\ Abstract!Next
  BY <1>5, WaitReturnSeen, WaitTimeoutSeen DEF Abstract!Next
<1>6. ASSUME NEW t \in Threads, DeadlinePasses(t) \/ SleepEnds(t) \/ WaitAgain(t)
      PROVE  WaitInv' /\ UNCHANGED Abstract!vars
  BY <1>6, SleeperUnseen
<1>7. ASSUME NEW t \in Threads, NEW n \in SignalCounts, Signal(t, n)
      PROVE  WaitInv' /\ Abstract!Next
  BY <1>7, SignalSeen DEF Abstract!Next
<1>8. ASSUME NEW t \in Threads, NEW n \in CancelCounts, Cancel(t, n)
      PROVE  WaitInv' /\ Abstract!Next
  BY <1>8, CancelSeen DEF Abstract!Next
<1>9. ASSUME NEW t \in Threads, DeleteStart(t) \/ DeleteFinish(t)
      PROVE  WaitInv' /\ Abstract!Next
  BY <1>9, DeleteSeen, FreeSeen DEF Abstract!Next
<1> QED
  BY <1>1, <1>2, <1>3, <1>4, <1>5, <1>6, <1>7, <1>8, <1>9 DEF Next, Wait

(* The semaphore implements the abstract one: tokens change hands in the   *)
(* step of the Signal that brings them, and an answer is given once.       *)
THEOREM SemaRefines == Spec => ImplementsAbstractSema
<1>1. Init => RInv /\ Abstract!Init
  BY InitIInv, InitSeen DEF RInv
<1>2. RInv /\ [Next]_vars => RInv' /\ [Abstract!Next]_(Abstract!vars)
  BY NextIInv, StepSeen DEF RInv
<1> QED
  BY <1>1, <1>2, PTL DEF Spec, ImplementsAbstractSema, Abstract!Spec
==============================================================================
