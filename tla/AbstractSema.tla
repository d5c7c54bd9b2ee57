----------------------------- MODULE AbstractSema -----------------------------
(***************************************************************************)
(* What a guest counting semaphore promises: a bag of tokens, calls that   *)
(* take effect at once, and an answer that is given once.  A call for more *)
(* tokens than there are waits; whoever brings tokens hands them over in   *)
(* the same step, to waiters of its choice, until no waiter's request fits *)
(* what is left; cancelling and deleting answer everyone who waits.  An    *)
(* answered call returns that answer, whatever else happens, and only one  *)
(* that has a deadline and no answer may give up.  KernelSema is shown to  *)
(* implement this specification.                                           *)
(***************************************************************************)
EXTENDS Integers, FiniteSets

CONSTANTS Threads, InitCount, MaxCount,
          IntMax     \* the largest number of the width that counts are kept in

VARIABLES
  tokens,    \* the tokens to be had
  status,    \* "Set", "Deleted" or "Freed"
  asked,     \* the tokens a thread inside a wait asks for, else 0
  timed,     \* has the wait a deadline
  answer     \* the answer to each thread's last call, or "Pending"

vars == <<tokens, status, asked, timed, answer>>

Replies == {"Ok", "TimedOut", "Canceled", "Deleted", "InvalCount"}

Inside == {t \in Threads : asked[t] > 0}
Waiting == {t \in Threads : answer[t] = "Pending"}

(* The tokens a set of threads asks for. *)
Wanted(S) ==
  Cardinality({token \in Threads \X (1..MaxCount) :
                 token[1] \in S /\ token[2] <= asked[token[1]]})

Init ==
  /\ tokens = InitCount
  /\ status = "Set"
  /\ asked = [t \in Threads |-> 0]
  /\ timed = [t \in Threads |-> FALSE]
  /\ answer = [t \in Threads |-> "Ok"]

Answer(S, r) == answer' = [t \in Threads |-> IF t \in S THEN r ELSE answer[t]]

(* A call is answered at once and changes nothing. *)
Refuse(t, r) ==
  /\ t \notin Inside
  /\ \/ r = "TimedOut" /\ status = "Set" /\ tokens < MaxCount
     \/ r = "InvalCount" /\ status # "Freed"
     \/ r = "Deleted" /\ status = "Deleted"
  /\ Answer({t}, r)
  /\ UNCHANGED <<tokens, status, asked, timed>>

Take(t, n) ==
  /\ t \notin Inside
  /\ status = "Set" /\ n <= tokens
  /\ tokens' = tokens - n
  /\ Answer({t}, "Ok")
  /\ UNCHANGED <<status, asked, timed>>

Ask(t, n, tm) ==
  /\ t \notin Inside
  /\ status = "Set" /\ n > tokens
  /\ asked' = [asked EXCEPT ![t] = n]
  /\ timed' = [timed EXCEPT ![t] = tm]
  /\ Answer({t}, "Pending")
  /\ UNCHANGED <<tokens, status>>

(* n more tokens, fewer if n is negative, in the arithmetic of the width.  *)
Ints == (-IntMax - 1)..IntMax
Wrap(x) == IF x > IntMax THEN x - 2 * (IntMax + 1)
           ELSE IF x < -IntMax - 1 THEN x + 2 * (IntMax + 1) ELSE x
Sum(n) == Wrap(tokens + n)

(* n tokens come, and the waiters S get what they asked for. *)
Give(t, n, S) ==
  /\ t \notin Inside
  /\ status = "Set" /\ Sum(n) <= MaxCount
  /\ S \subseteq Waiting /\ (S # {} => Wanted(S) <= Sum(n))
  /\ tokens' = Sum(n) - Wanted(S)
  /\ \A s \in Waiting \ S : asked[s] > tokens'
  /\ Answer(S \cup {t}, "Ok")
  /\ UNCHANGED <<status, asked, timed>>

Cancel(t, n) ==
  /\ t \notin Inside
  /\ status = "Set"
  /\ tokens' = n
  /\ answer' = [s \in Threads |-> IF s \in Waiting THEN "Canceled"
                                  ELSE IF s = t THEN "Ok" ELSE answer[s]]
  /\ UNCHANGED <<status, asked, timed>>

Delete ==
  /\ status = "Set"
  /\ status' = "Deleted"
  /\ Answer(Waiting, "Deleted")
  /\ UNCHANGED <<tokens, asked, timed>>

(* The semaphore goes when nobody is inside it any more. *)
Free ==
  /\ status = "Deleted" /\ Inside = {}
  /\ status' = "Freed"
  /\ UNCHANGED <<tokens, asked, timed, answer>>

Depart(t) ==
  /\ asked' = [asked EXCEPT ![t] = 0]
  /\ timed' = [timed EXCEPT ![t] = FALSE]

(* A wait returns the answer it has been given ... *)
Leave(t) ==
  /\ t \in Inside \ Waiting
  /\ Depart(t)
  /\ UNCHANGED <<tokens, status, answer>>

(* ... and without one only if it has a deadline. *)
GiveUp(t) ==
  /\ t \in Waiting /\ timed[t]
  /\ Depart(t)
  /\ Answer({t}, "TimedOut")
  /\ UNCHANGED <<tokens, status>>

Next ==
  \/ \E t \in Threads :
       \/ \E r \in Replies : Refuse(t, r)
       \/ \E n \in 1..MaxCount : Take(t, n) \/ \E tm \in BOOLEAN : Ask(t, n, tm)
       \/ \E n \in Ints, S \in SUBSET Waiting : Give(t, n, S)
       \/ \E n \in 0..MaxCount : Cancel(t, n)
       \/ Leave(t) \/ GiveUp(t)
  \/ Delete \/ Free

Spec == Init /\ [][Next]_vars
===============================================================================
