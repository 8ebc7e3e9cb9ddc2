------------------------------ MODULE Selection ------------------------------
(***************************************************************************)
(* Picking an element of a list by its cost, as every loop of the code     *)
(* that looks for a minimum with a strict comparison does: the first one   *)
(* among the cheapest.                                                     *)
(***************************************************************************)
EXTENDS Integers, Sequences, SequencesExt

\* i is the first index of a node among those in S with the least cost.
IsFirstLeast(i, S, Cost(_)) ==
  /\ i \in S
  /\ \A j \in S : Cost(i) <= Cost(j) /\ (j < i => Cost(i) < Cost(j))

=============================================================================
