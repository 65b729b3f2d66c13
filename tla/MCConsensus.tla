------------------------------ MODULE MCConsensus ------------------------------
(***************************************************************************)
(* Instances of Consensus for TLC.                                         *)
(***************************************************************************)
EXTENDS Consensus

\* A set of peers of every size may be online.  Only the number of active nodes
\* enters a verdict, so one set of each size stands for all of them.
ViewOfEachSize == {{m \in Nodes \ {Self} : m <= n} : n \in Nodes}

\* All nodes are online all the time.
FullView == {Nodes}

=============================================================================
