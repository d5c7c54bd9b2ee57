---------------------------- MODULE MCMemoryTracker ----------------------------
(* MemoryTracker on small instances: three pages in two tracking regions. *)
EXTENDS MemoryTracker
CONSTANTS g1, g2

\* Two guests and the buffer alone; one guest with an image of two shared
\* edges and a page of its own between them, of two edges, and inside a page.
MCInstances ==
  {[image |-> {}, guests |-> {g1, g2}, ranges |-> {1..3, {2}}]}
    \cup [image : {1..3, 2..3, {2}}, guests : {{g1}}, ranges : {{2..3}}]
==============================================================================
