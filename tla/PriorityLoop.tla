---------------------------- MODULE PriorityLoop ----------------------------
(***************************************************************************)
(* The loop of ItemUpdater::freePriority turn by turn, as the code has it: *)
(* ItemUpdater states in closed form which images it moves.                *)
(***************************************************************************)
EXTENDS ItemUpdater

\* The other images in the order of prioritySet: ascending, ties in any order
Sorted(i) ==
  {order \in [1 .. Cardinality(Others(i)) -> Others(i)] :
     \A m, n \in DOMAIN order :
       /\ m < n => prio[order[m]] <= prio[order[n]]
       /\ order[m] = order[n] => m = n}

\* One turn of the loop: free is freePriorityValue, a uint8_t
ComparesRequested(value, loop, j) ==     \* freePriorityValue never advances
  IF prio[j] = value THEN [free |-> loop.free, bumped |-> loop.bumped \cup {j}]
  ELSE loop
Turn(value, loop, j) ==
  IF prio[j] = loop.free
  THEN [free |-> (loop.free + 1) % PrioLimit, bumped |-> loop.bumped \cup {j}]
  ELSE loop

\* freePriorityValue and the images moved after each number of turns
Turns(value, order) ==
  LET turn[n \in 0 .. Len(order)] ==
        IF n = 0 THEN [free |-> value, bumped |-> {}]
        ELSE Turn(value, turn[n - 1], order[n])
  IN  turn

\* The images whose priority the loop over order has changed when it is done
Looped(value, order) == Turns(value, order)[Len(order)].bumped

\* The sorted loop of freePriority, with the order of ties left open, moves
\* exactly the runs of priorities that ItemUpdater says it moves, whichever
\* image claims whichever value.
BumpsAreTheLoops ==
  \A i \in {j \in Ids : path[j] # "none"}, value \in Priorities :
    {Looped(value, order) : order \in Sorted(i)} = Bumps(i, value)
=============================================================================
