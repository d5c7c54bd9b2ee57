----------------------------- MODULE MCFlipQueue -----------------------------
(* FlipQueue on small instances. *)
EXTENDS FlipQueue
CONSTANTS g1, g2, p1, p2, p3

\* p2 shows a flip at every second vertical blank only.
MCRate == [p \in Ports |-> IF p = p2 THEN 1 ELSE 0]

\* Two threads submit to, close and open again one port; a third flip finds
\* the queue full; one thread uses two ports.
MCInstances ==
  {[guests |-> {g1, g2}, ports |-> {p2}, requests |-> 2, generations |-> 3],
   [guests |-> {g1}, ports |-> {p2}, requests |-> 3, generations |-> 1],
   [guests |-> {g1}, ports |-> {p1, p3}, requests |-> 2, generations |-> 1]}
==============================================================================
