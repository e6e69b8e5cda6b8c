----------------------------- MODULE LeafVector -----------------------------
(***************************************************************************)
(* What a user of the commitment tree relies on, without any tree: a       *)
(* vector of leaves of fixed capacity, filled from the left by whole       *)
(* groups, never changed where it is filled, and cut back at a group       *)
(* boundary.                                                               *)
(***************************************************************************)
EXTENDS Integers

CONSTANTS
  Size,     \* the number of leaves
  Group,    \* the number of leaves of a group
  Default   \* what an unfilled position holds

VARIABLES
  vector,   \* the leaves, a function on 0..(Size - 1)
  next      \* the end of the filled part

vars == <<vector, next>>

Position == 0..(Size - 1)

Init == vector = [i \in Position |-> Default] /\ next = 0

\* The filled part grows by whole groups; what was filled stays.
Grow ==
  /\ next' \in (next + 1)..Size
  /\ next' % Group = 0
  /\ DOMAIN vector' = Position
  /\ \A i \in Position :
       /\ i < next => vector'[i] = vector[i]
       /\ i \in next..(next' - 1) => vector'[i] # Default
       /\ i >= next' => vector'[i] = Default

\* The vector is cut back to a group boundary.
Cut ==
  /\ next' \in 0..(next - 1)
  /\ next' % Group = 0
  /\ vector' = [i \in Position |-> IF i < next' THEN vector[i] ELSE Default]

Next == Grow \/ Cut

Spec == Init /\ [][Next]_vars

=============================================================================
