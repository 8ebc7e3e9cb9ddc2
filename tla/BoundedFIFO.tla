----------------------------- MODULE BoundedFIFO -----------------------------
(***************************************************************************)
(* What the buffer of src/pingpong-prodcons.c and its three semaphores are *)
(* for: a queue of at most Capacity items.  A producer picks an item and   *)
(* appends it as one step, a consumer takes the oldest as one step.        *)
(***************************************************************************)
EXTENDS Integers, Sequences

CONSTANTS Producers, Consumers, Items, Capacity

VARIABLES queue,  \* the items placed and not retrieved, oldest first
          item    \* item[t]: the item a producer is about to place, the last one a consumer got

vars == <<queue, item>>

Init ==
  /\ queue = <<>>
  /\ item = [t \in Producers \cup Consumers |-> 0]

Choose(p) ==
  /\ \E v \in Items : item' = [item EXCEPT ![p] = v]
  /\ UNCHANGED queue

Place(p) ==
  /\ Len(queue) < Capacity
  /\ queue' = Append(queue, item[p])
  /\ UNCHANGED item

Retrieve(c) ==
  /\ queue # <<>>
  /\ item' = [item EXCEPT ![c] = Head(queue)]
  /\ queue' = Tail(queue)

Next ==
  \/ \E p \in Producers : Choose(p) \/ Place(p)
  \/ \E c \in Consumers : Retrieve(c)

Spec == Init /\ [][Next]_vars

=============================================================================
