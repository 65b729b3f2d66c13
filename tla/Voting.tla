-------------------------------- MODULE Voting --------------------------------
(***************************************************************************)
(* The decisions of SimpleConsensus as functions of its inputs: when the   *)
(* votes on a block settle it, and whose turn it is.                       *)
(*                                                                         *)
(* The code compares floating-point percentages with the threshold;        *)
(* cross-multiplied integers decide the same for every cluster of up to 30 *)
(* nodes and every whole threshold.                                        *)
(***************************************************************************)
EXTENDS Integers, FiniteSets

CONSTANTS
  Nodes,     \* the whitelisted nodes; their ids sort like numbers
  Threshold  \* consensus_threshold, in per cent

ASSUME NodesAssumption == Nodes \subseteq Nat /\ IsFiniteSet(Nodes)
ASSUME ThresholdAssumption == Threshold \in 1..100

Confirms(approve, total) == approve * 100 >= Threshold * total

\* Mutant of Rejects: a block is rejected while approvals are short.
RejectsWhenShort(approve, total) == (total - approve) * 100 > (100 - Threshold) * total

\* Everyone who has not approved counts as opposed, also those yet to vote.
Rejects(approve, total) == (total - approve) * 100 >= Threshold * total

\* _check_consensus on a block that is still pending.
Verdict(approve, total) ==
  IF Confirms(approve, total) THEN "confirmed"
  ELSE IF Rejects(approve, total) THEN "rejected"
  ELSE "pending"

\* The position of node n in the sorted list of the nodes of view.
Index(n, view) == Cardinality({m \in view : m < n})

\* Mutant of IsMyTurn: everybody after the leader is leader too.
IsMyTurnOrLater(n, view, length) ==
  Cardinality(view) = 1 \/ Index(n, view) >= length % Cardinality(view)

\* is_my_turn for node n, which counts the nodes of view and a chain of the
\* given length (its argument chain_height is a length).
IsMyTurn(n, view, length) ==
  Cardinality(view) = 1 \/ Index(n, view) = length % Cardinality(view)

\* A view of total nodes in which one approval rejects nothing: up to four nodes
\* with the default threshold of 80 per cent.
SmallView(total) == (100 - Threshold) * total < 100

\* The clusters all of whose views are small.
SmallCluster == SmallView(Cardinality(Nodes))

=============================================================================
