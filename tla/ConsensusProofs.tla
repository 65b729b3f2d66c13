---------------------------- MODULE ConsensusProofs ----------------------------
(***************************************************************************)
(* Proofs about Voting and Consensus, for every set of nodes, threads and  *)
(* proposals.                                                              *)
(***************************************************************************)
EXTENDS Consensus, FiniteSetTheorems, TLAPS

-----------------------------------------------------------------------------
(* The arithmetic of _check_consensus.                                     *)

\* A block that the first approval does not get rejected needs the approval of
\* every node that counts: no threshold lets a mere majority confirm a block
\* that was open after one vote.
THEOREM OpenBlocksNeedUnanimity ==
  ASSUME NEW total \in Nat, NEW approve \in 0..total,
         ~Rejects(1, total), Confirms(approve, total)
  PROVE  approve = total
<1> DEFINE bar == Threshold * total
<1>1. bar \in Int
  BY ThresholdAssumption
<1>2. (total - 1) * 100 < bar /\ approve * 100 >= bar
  BY <1>1 DEF Rejects, Confirms
<1> HIDE DEF bar
<1> QED
  BY <1>1, <1>2

\* In a small view approvals never reject.
LEMMA ApprovalsDoNotReject ==
  ASSUME NEW total \in Nat, SmallView(total), NEW approve \in Nat \ {0}
  PROVE  ~Rejects(approve, total)
<1>1. PICK k \in Nat : k = 100 - Threshold
  BY ThresholdAssumption
<1>2. k * total < 100
  BY <1>1 DEF SmallView
<1>3. Threshold * total = 100 * total - k * total
  BY <1>1, ThresholdAssumption
<1>4. Threshold * total > 100 * total - 100
  BY <1>1, <1>2, <1>3, ThresholdAssumption
<1>5. (total - approve) * 100 <= 100 * total - 100
  OBVIOUS
<1> QED
  BY <1>4, <1>5, ThresholdAssumption DEF Rejects

-----------------------------------------------------------------------------
(* Types.                                                                  *)

\* What the steps need to know of sets of nodes.
LEMMA NodeSets ==
  ASSUME NEW S \in SUBSET Nodes
  PROVE  /\ IsFiniteSet(S) /\ Cardinality(S) \in 0..Cardinality(Nodes)
         /\ S # {} => Cardinality(S) \in 1..Cardinality(Nodes)
         /\ Cardinality(Nodes) \in Nat
<1>1. IsFiniteSet(S) /\ Cardinality(S) <= Cardinality(Nodes)
  BY NodesAssumption, FS_Subset
<1>2. Cardinality(S) \in Nat /\ Cardinality(Nodes) \in Nat
  BY <1>1, NodesAssumption, FS_CardinalityType
<1>3. S # {} => Cardinality(S) # 0
  BY <1>1, FS_EmptySet
<1> QED
  BY <1>1, <1>2, <1>3

LEMMA InitType == Init => TypeOK
BY SelfAssumption DEF Init, TypeOK, Entries, NoEntry, ThreadStates, Idle

\* What a thread may be at.
LEMMA ThreadType ==
  ASSUME TypeOK, NEW t \in Threads
  PROVE  /\ thread[t] \in ThreadStates
         /\ thread[t].at \in {"idle", "check", "write", "add"}
         /\ thread[t].at = "idle" => thread[t] = Idle
         /\ thread[t].at # "idle" => thread[t].hash \in Proposals
         /\ thread[t].at = "write" => thread[t].verdict \in {"confirmed", "rejected"}
BY DEF TypeOK, ThreadStates, Idle

LEMMA StepType == TypeOK /\ [Next]_vars => TypeOK'
<1> SUFFICES ASSUME TypeOK, [Next]_vars
             PROVE  TypeOK'
  OBVIOUS
<1>1. CASE SetActiveNodes
  BY <1>1, ViewsAssumption, SelfAssumption DEF SetActiveNodes, TypeOK
<1>2. ASSUME NEW h \in Proposals, Propose(h)
      PROVE  TypeOK'
  <2>1. NewEntry \in Entries
    BY DEF NewEntry, NoEntry, Entries, Statuses
  <2> QED
    BY <1>2, <2>1 DEF Propose, ReceiveProposal, TypeOK
<1>3. ASSUME NEW h \in Proposals, CollectOldPending(h) \/ RemoveOldPending(h)
      PROVE  TypeOK'
  <2>1. NoEntry \in Entries
    BY DEF NoEntry, Entries, Statuses
  <2> QED
    BY <1>3, <2>1 DEF CollectOldPending, RemoveOldPending, TypeOK
<1>4. ASSUME NEW h \in Proposals, NEW voter \in Nodes, DropVote(h, voter)
      PROVE  TypeOK'
  BY <1>4 DEF DropVote, TypeOK
<1>5. ASSUME NEW t \in Threads, NEW h \in Proposals, NEW voter \in Nodes,
             NEW approved \in Answers, CastVote(t, h, voter, approved)
      PROVE  TypeOK'
  <2>1. pending_blocks' \in [Proposals -> Entries]
    BY <1>5 DEF CastVote, TypeOK, Entries
  <2>2. thread' \in [Threads -> ThreadStates]
    BY <1>5 DEF CastVote, TypeOK, ThreadStates
  <2> QED
    BY <1>5, <2>1, <2>2 DEF CastVote, TypeOK
<1>6. ASSUME NEW t \in Threads, CheckConsensus(t)
      PROVE  TypeOK'
  <2>1. thread[t].hash \in Proposals
    BY <1>6, ThreadType DEF CheckConsensus
  <2> DEFINE h == thread[t].hash
             verdict == Verdict(Cardinality(pending_blocks[h].approvals),
                                Cardinality(active_node_ids))
  <2>2. verdict # "pending" => verdict \in {"confirmed", "rejected"}
    BY DEF Verdict
  <2>3. thread' \in [Threads -> ThreadStates]
    <3> HIDE DEF verdict
    <3>1. verdict # "pending" =>
            [at |-> "write", hash |-> h, verdict |-> verdict] \in ThreadStates
      BY <2>1, <2>2 DEF TypeOK, ThreadStates
    <3>2. Idle \in ThreadStates
      BY DEF ThreadStates
    <3>3. \/ thread' = [thread EXCEPT ![t] = Idle]
          \/ /\ verdict # "pending"
             /\ thread' = [thread EXCEPT ![t] =
                  [at |-> "write", hash |-> h, verdict |-> verdict]]
      BY <1>6 DEF CheckConsensus, verdict
    <3> QED
      BY <3>1, <3>2, <3>3 DEF TypeOK
  <2>4. counted' \in [Proposals -> {view \in SUBSET Nodes : Self \in view}]
        /\ strained' \subseteq Proposals
    BY <1>6, <2>1 DEF CheckConsensus, Count, TypeOK
  <2> QED
    BY <1>6, <2>3, <2>4 DEF CheckConsensus, TypeOK
<1>7. ASSUME NEW t \in Threads, WriteVerdict(t)
      PROVE  TypeOK'
  <2>1. thread[t].hash \in Proposals /\ thread[t].verdict \in {"confirmed", "rejected"}
    BY <1>7, ThreadType DEF WriteVerdict
  <2>2. pending_blocks' \in [Proposals -> Entries]
    BY <1>7, <2>1 DEF WriteVerdict, TypeOK, Entries, Statuses
  <2>3. thread' \in [Threads -> ThreadStates]
    BY <1>7, <2>1 DEF WriteVerdict, TypeOK, ThreadStates
  <2> QED
    BY <1>7, <2>2, <2>3 DEF WriteVerdict, TypeOK
<1>8. ASSUME NEW t \in Threads, AddConfirmedHash(t)
      PROVE  TypeOK'
  <2>1. thread[t].hash \in Proposals
    BY <1>8, ThreadType DEF AddConfirmedHash
  <2>2. thread' \in [Threads -> ThreadStates]
    BY <1>8 DEF AddConfirmedHash, TypeOK, ThreadStates
  <2> QED
    BY <1>8, <2>1, <2>2 DEF AddConfirmedHash, TypeOK
<1>9. CASE UNCHANGED vars
  BY <1>9 DEF vars, TypeOK
<1> QED
  BY <1>1, <1>2, <1>3, <1>4, <1>5, <1>6, <1>7, <1>8, <1>9 DEF Next, ThreadStep

\* Type correctness of SimpleConsensus, whatever its callers do.
THEOREM TypeCorrect == Spec => []TypeOK
BY InitType, StepType, PTL DEF Spec

-----------------------------------------------------------------------------
(* What holds in any cluster, whatever its nodes answer.                   *)

Known(h) ==
  /\ pending_blocks[h] # NoEntry => h \in proposed
  /\ pending_blocks[h].status = "none" => pending_blocks[h] = NoEntry
  /\ h \in confirmed_block_hashes => h \in proposed

Busy(t) == thread[t].at # "idle" => thread[t].hash \in proposed

\* A confirmed entry has its hash in the set, or a thread about to add it.
Followed(h) ==
  pending_blocks[h].status = "confirmed" => h \in confirmed_block_hashes \/ Adding(h)

GInv ==
  /\ TypeOK
  /\ \A h \in Proposals : Known(h) /\ Followed(h)
  /\ \A t \in Threads : Busy(t)

LEMMA InitGInv == Init => GInv
<1> SUFFICES ASSUME Init
             PROVE  GInv
  OBVIOUS
<1>1. \A h \in Proposals : Known(h) /\ Followed(h)
  BY DEF Init, NoEntry, Known, Followed
<1>2. \A t \in Threads : Busy(t)
  BY DEF Init, Idle, Busy
<1> QED
  BY <1>1, <1>2, InitType DEF GInv

\* What the steps do to the entries and the threads, apart from the types.
\* Proposing and cleaning up touch one entry, ...
LEMMA EntrySteps ==
  ASSUME TypeOK, NEW h \in Proposals
  PROVE  /\ Propose(h) =>
              /\ h \notin proposed /\ h \notin confirmed_block_hashes
              /\ pending_blocks'[h] = NewEntry
              /\ \A g \in Proposals \ {h} : pending_blocks'[g] = pending_blocks[g]
              /\ proposed' = proposed \union {h}
              /\ UNCHANGED <<confirmed_block_hashes, thread, counted, strained>>
         /\ CollectOldPending(h) =>
              UNCHANGED <<pending_blocks, confirmed_block_hashes, thread, counted,
                          strained, proposed>>
         /\ RemoveOldPending(h) =>
              /\ pending_blocks'[h] = NoEntry
              /\ \A g \in Proposals \ {h} : pending_blocks'[g] = pending_blocks[g]
              /\ UNCHANGED <<confirmed_block_hashes, thread, counted, strained, proposed>>
         /\ NewEntry.status = "pending" /\ NewEntry.voters = {} /\ NewEntry.approvals = {}
         /\ NoEntry.status = "none" /\ NoEntry.voters = {} /\ NoEntry.approvals = {}
BY DEF Propose, ReceiveProposal, CollectOldPending, RemoveOldPending, TypeOK, NewEntry, NoEntry

\* ... a vote its entry and its thread, ...
Cast(t, h, voter) ==
  /\ pending_blocks[h] # NoEntry
  /\ pending_blocks'[h].status = pending_blocks[h].status
  /\ pending_blocks'[h].voters = pending_blocks[h].voters \union {voter}
  /\ \A g \in Proposals \ {h} : pending_blocks'[g] = pending_blocks[g]
  /\ thread[t] = Idle /\ thread'[t] = [at |-> "check", hash |-> h]
  /\ \A u \in Threads \ {t} : thread'[u] = thread[u]
  /\ UNCHANGED <<confirmed_block_hashes, counted, strained, proposed>>

LEMMA CastSteps ==
  ASSUME TypeOK, NEW t \in Threads, NEW h \in Proposals, NEW voter \in Nodes,
         NEW approved \in Answers, CastVote(t, h, voter, approved)
  PROVE  Cast(t, h, voter)
<1>1. pending_blocks'[h] = [pending_blocks[h] EXCEPT
        !.voters = @ \union {voter},
        !.approvals = IF approved THEN @ \union {voter} ELSE @]
  BY DEF CastVote, TypeOK
<1>2. pending_blocks[h] \in Entries
  BY DEF TypeOK
<1>3. /\ pending_blocks'[h].status = pending_blocks[h].status
      /\ pending_blocks'[h].voters = pending_blocks[h].voters \union {voter}
  BY <1>1, <1>2 DEF Entries
<1> QED
  BY <1>3 DEF Cast, CastVote, TypeOK

\* ... and so does the write of a verdict.
Written(t, h, verdict) ==
  /\ thread[t].at = "write" /\ thread[t].hash = h /\ thread[t].verdict = verdict
  /\ \/ pending_blocks[h] = NoEntry /\ pending_blocks'[h] = NoEntry
     \/ /\ pending_blocks[h] # NoEntry
        /\ pending_blocks'[h].status = verdict
        /\ pending_blocks'[h].voters = pending_blocks[h].voters
        /\ pending_blocks'[h].approvals = pending_blocks[h].approvals
  /\ \A g \in Proposals \ {h} : pending_blocks'[g] = pending_blocks[g]
  /\ thread'[t] = IF verdict = "confirmed" THEN [at |-> "add", hash |-> h] ELSE Idle
  /\ \A u \in Threads \ {t} : thread'[u] = thread[u]
  /\ UNCHANGED <<confirmed_block_hashes, counted, strained, proposed>>

LEMMA WriteSteps ==
  ASSUME TypeOK, NEW t \in Threads, WriteVerdict(t)
  PROVE  \E h \in Proposals, verdict \in {"confirmed", "rejected"} : Written(t, h, verdict)
<1> DEFINE h == thread[t].hash
           verdict == thread[t].verdict
<1>1. /\ thread[t].at = "write" /\ h \in Proposals /\ verdict \in {"confirmed", "rejected"}
  BY ThreadType DEF WriteVerdict
<1>2. pending_blocks'[h] = [pending_blocks[h] EXCEPT !.status =
        IF pending_blocks[h] = NoEntry THEN pending_blocks[h].status ELSE verdict]
  BY <1>1 DEF WriteVerdict, TypeOK
<1>3. pending_blocks[h] \in Entries
  BY <1>1 DEF TypeOK
<1>4. \/ pending_blocks[h] = NoEntry /\ pending_blocks'[h] = NoEntry
      \/ /\ pending_blocks[h] # NoEntry
         /\ pending_blocks'[h].status = verdict
         /\ pending_blocks'[h].voters = pending_blocks[h].voters
         /\ pending_blocks'[h].approvals = pending_blocks[h].approvals
  BY <1>1, <1>2, <1>3 DEF NoEntry, Entries
<1>5. /\ \A g \in Proposals \ {h} : pending_blocks'[g] = pending_blocks[g]
      /\ thread'[t] = IF verdict = "confirmed" THEN [at |-> "add", hash |-> h] ELSE Idle
      /\ \A u \in Threads \ {t} : thread'[u] = thread[u]
      /\ UNCHANGED <<confirmed_block_hashes, counted, strained, proposed>>
  BY DEF WriteVerdict, TypeOK
<1>6. Written(t, h, verdict)
  BY <1>1, <1>4, <1>5 DEF Written
<1> QED
  BY <1>1, <1>6

\* The count of the votes leaves all entries alone, and only goes on to a verdict
\* on one that is pending.
VerdictOn(h) ==
  Verdict(Cardinality(pending_blocks[h].approvals), Cardinality(active_node_ids))

Checked(t, h) ==
  /\ thread[t].at = "check" /\ thread[t].hash = h
  /\ \/ /\ pending_blocks[h].status # "pending" \/ VerdictOn(h) = "pending"
        /\ thread'[t] = Idle
     \/ /\ pending_blocks[h].status = "pending"
        /\ VerdictOn(h) \in {"confirmed", "rejected"}
        /\ thread'[t] = [at |-> "write", hash |-> h, verdict |-> VerdictOn(h)]
  /\ \A u \in Threads \ {t} : thread'[u] = thread[u]
  /\ counted'[h] = active_node_ids
  /\ \A g \in Proposals \ {h} : counted'[g] = counted[g]
  /\ strained' = strained \union
       (IF SmallView(Cardinality(active_node_ids)) THEN {} ELSE {h})
  /\ UNCHANGED <<pending_blocks, confirmed_block_hashes, active_node_ids, proposed>>

LEMMA CheckSteps ==
  ASSUME TypeOK, NEW t \in Threads, CheckConsensus(t)
  PROVE  \E h \in Proposals : Checked(t, h)
<1> DEFINE h == thread[t].hash
           verdict == VerdictOn(h)
<1>1. thread[t].at = "check" /\ h \in Proposals
  BY ThreadType DEF CheckConsensus
<1>2. verdict \in {"pending", "confirmed", "rejected"}
  BY DEF VerdictOn, Verdict
<1>3. \/ /\ pending_blocks[h].status # "pending" \/ verdict = "pending"
         /\ thread'[t] = Idle
      \/ /\ pending_blocks[h].status = "pending"
         /\ verdict \in {"confirmed", "rejected"}
         /\ thread'[t] = [at |-> "write", hash |-> h, verdict |-> verdict]
  <2>1. thread'[t] = IF pending_blocks[h].status = "pending" /\ verdict # "pending"
                     THEN [at |-> "write", hash |-> h, verdict |-> verdict] ELSE Idle
    BY DEF CheckConsensus, VerdictOn, TypeOK
  <2> HIDE DEF verdict
  <2> QED
    BY <1>2, <2>1
<1>4. /\ \A u \in Threads \ {t} : thread'[u] = thread[u]
      /\ UNCHANGED <<pending_blocks, confirmed_block_hashes, active_node_ids, proposed>>
  BY DEF CheckConsensus, TypeOK
<1>5. /\ counted'[h] = active_node_ids
      /\ \A g \in Proposals \ {h} : counted'[g] = counted[g]
      /\ strained' = strained \union
           (IF SmallView(Cardinality(active_node_ids)) THEN {} ELSE {h})
  BY <1>1 DEF CheckConsensus, Count, TypeOK
<1>6. Checked(t, h)
  BY <1>1, <1>3, <1>4, <1>5 DEF Checked
<1> QED
  BY <1>1, <1>6

\* The last step of a confirmation touches the set and its thread.
LEMMA AddSteps ==
  ASSUME TypeOK, NEW t \in Threads, AddConfirmedHash(t)
  PROVE  \E h \in Proposals :
           /\ thread[t].at = "add" /\ thread[t].hash = h
           /\ confirmed_block_hashes' = confirmed_block_hashes \union {h}
           /\ thread'[t] = Idle
           /\ \A u \in Threads \ {t} : thread'[u] = thread[u]
           /\ UNCHANGED <<pending_blocks, counted, strained, proposed>>
<1>1. thread[t] \in ThreadStates /\ thread[t].at = "add"
  BY DEF AddConfirmedHash, TypeOK
<1>2. thread[t].hash \in Proposals
  BY <1>1 DEF ThreadStates, Idle
<1> QED
  BY <1>1, <1>2 DEF AddConfirmedHash, TypeOK

LEMMA StepGInv == GInv /\ [Next]_vars => GInv'
<1> SUFFICES ASSUME GInv, [Next]_vars
             PROVE  GInv'
  OBVIOUS
<1> USE DEF GInv
<1>0. TypeOK'
  BY StepType
<1>a. /\ \A t \in Threads : Busy(t) /\ (thread[t].at # "idle" => thread[t].hash \in Proposals)
      /\ NewEntry # NoEntry /\ Idle.at = "idle"
  BY ThreadType DEF NewEntry, NoEntry, Idle
<1>1. CASE SetActiveNodes \/ UNCHANGED vars
  BY <1>0, <1>1 DEF SetActiveNodes, vars, Known, Busy, Followed, Adding
<1>2. ASSUME NEW h \in Proposals, Propose(h) \/ CollectOldPending(h) \/ RemoveOldPending(h)
      PROVE  GInv'
  <2>1. /\ \A g \in Proposals \ {h} : pending_blocks'[g] = pending_blocks[g]
        /\ proposed \subseteq proposed'
        /\ UNCHANGED <<confirmed_block_hashes, thread>>
    BY <1>2, EntrySteps
  <2>2. \A g \in Proposals \ {h} : Known(g)' /\ Followed(g)'
    BY <2>1 DEF Known, Followed, Adding
  <2>3. \A t \in Threads : Busy(t)'
    BY <2>1 DEF Busy
  <2>4. Known(h)' /\ Followed(h)'
    BY <1>2, <2>1, EntrySteps DEF Known, Followed, Adding
  <2> QED
    BY <1>0, <2>2, <2>3, <2>4
<1>3. ASSUME NEW h \in Proposals, NEW voter \in Nodes, DropVote(h, voter)
      PROVE  GInv'
  BY <1>0, <1>3 DEF DropVote, Known, Busy, Followed, Adding
<1>4. ASSUME NEW t \in Threads, NEW h \in Proposals, NEW voter \in Nodes,
             NEW approved \in Answers, CastVote(t, h, voter, approved)
      PROVE  GInv'
  <2>1. /\ pending_blocks[h] # NoEntry /\ pending_blocks'[h].status = pending_blocks[h].status
        /\ \A g \in Proposals \ {h} : pending_blocks'[g] = pending_blocks[g]
        /\ thread[t] = Idle /\ thread'[t] = [at |-> "check", hash |-> h]
        /\ \A u \in Threads \ {t} : thread'[u] = thread[u]
        /\ UNCHANGED <<confirmed_block_hashes, proposed>>
    BY <1>4, CastSteps DEF Cast
  <2>2. \A g \in Proposals : Adding(g) => Adding(g)'
    BY <1>a, <2>1 DEF Adding
  <2>3. \A g \in Proposals : Known(g)'
    BY <2>1 DEF Known
  <2>4. \A g \in Proposals : Followed(g)'
    BY <2>1, <2>2 DEF Followed
  <2>5. \A u \in Threads : Busy(u)'
    BY <2>1 DEF Busy, Known
  <2> QED
    BY <1>0, <2>3, <2>4, <2>5
<1>5. ASSUME NEW t \in Threads, CheckConsensus(t)
      PROVE  GInv'
  <2>0. PICK h \in Proposals : Checked(t, h)
    BY <1>5, CheckSteps
  <2>1. /\ thread[t].at = "check" /\ thread[t].hash = h
        /\ thread'[t] = Idle \/ (thread'[t].at = "write" /\ thread'[t].hash = h)
        /\ \A u \in Threads \ {t} : thread'[u] = thread[u]
        /\ UNCHANGED <<pending_blocks, confirmed_block_hashes, proposed>>
    BY <2>0 DEF Checked
  <2>2. \A g \in Proposals : Adding(g) => Adding(g)'
    BY <2>1 DEF Adding
  <2>3. \A g \in Proposals : Known(g)'
    BY <2>1 DEF Known
  <2>4. \A g \in Proposals : Followed(g)'
    BY <2>1, <2>2 DEF Followed
  <2>5. \A u \in Threads : Busy(u)'
    BY <1>a, <2>1 DEF Busy
  <2> QED
    BY <1>0, <2>3, <2>4, <2>5
<1>6. ASSUME NEW t \in Threads, WriteVerdict(t)
      PROVE  GInv'
  <2>0. PICK h \in Proposals, verdict \in {"confirmed", "rejected"} : Written(t, h, verdict)
    BY <1>6, WriteSteps
  <2>1. /\ thread[t].at = "write" /\ thread[t].hash = h /\ thread[t].verdict = verdict
        /\ \/ pending_blocks[h] = NoEntry /\ pending_blocks'[h] = NoEntry
           \/ /\ pending_blocks[h] # NoEntry
              /\ pending_blocks'[h].status = verdict
        /\ \A g \in Proposals \ {h} : pending_blocks'[g] = pending_blocks[g]
        /\ thread'[t] = IF verdict = "confirmed" THEN [at |-> "add", hash |-> h] ELSE Idle
        /\ \A u \in Threads \ {t} : thread'[u] = thread[u]
        /\ UNCHANGED <<confirmed_block_hashes, proposed>>
    BY <2>0 DEF Written
  <2>2. \A g \in Proposals : Adding(g) => Adding(g)'
    BY <2>1 DEF Adding
  <2>3. \A g \in Proposals : Known(g)'
    BY <2>1 DEF Known, NoEntry
  <2>4. \A g \in Proposals \ {h} : Followed(g)'
    BY <2>1, <2>2 DEF Followed
  <2>5. Followed(h)'
    <3>1. CASE pending_blocks[h] = NoEntry /\ pending_blocks'[h] = NoEntry
      BY <3>1 DEF Followed, NoEntry
    <3>2. CASE pending_blocks'[h].status = verdict
      BY <2>1, <3>2 DEF Followed, Adding
    <3> QED
      BY <2>1, <3>1, <3>2
  <2>6. \A u \in Threads : Busy(u)'
    BY <1>a, <2>1 DEF Busy
  <2> QED
    BY <1>0, <2>3, <2>4, <2>5, <2>6
<1>7. ASSUME NEW t \in Threads, AddConfirmedHash(t)
      PROVE  GInv'
  <2>1. PICK h \in Proposals :
           /\ thread[t].at = "add" /\ thread[t].hash = h
           /\ confirmed_block_hashes' = confirmed_block_hashes \union {h}
           /\ thread'[t] = Idle
           /\ \A u \in Threads \ {t} : thread'[u] = thread[u]
           /\ UNCHANGED <<pending_blocks, proposed>>
    BY <1>7, AddSteps
  <2>2. \A g \in Proposals : Adding(g) => Adding(g)' \/ g \in confirmed_block_hashes'
    BY <2>1 DEF Adding
  <2>3. \A g \in Proposals : Known(g)'
    BY <1>a, <2>1 DEF Known, Busy
  <2>4. \A g \in Proposals : Followed(g)'
    BY <2>1, <2>2 DEF Followed
  <2>5. \A u \in Threads : Busy(u)'
    BY <1>a, <2>1 DEF Busy
  <2> QED
    BY <1>0, <2>3, <2>4, <2>5
<1> QED
  BY <1>1, <1>2, <1>3, <1>4, <1>5, <1>6, <1>7 DEF Next, ThreadStep

-----------------------------------------------------------------------------
(* A settled block stays settled.                                          *)

\* The block has its verdict, and nobody is about to write another one.
Settled(h, verdict) ==
  /\ pending_blocks[h].status = verdict
  /\ ~Writing(h)

Rests(h, verdict) ==
  /\ pending_blocks[h].status = verdict \/ pending_blocks[h] = NoEntry
  /\ h \in proposed
  /\ ~Writing(h)

LEMMA StepRests ==
  ASSUME NEW h \in Proposals, NEW verdict \in {"confirmed", "rejected"},
         GInv, Rests(h, verdict), [Next]_vars
  PROVE  Rests(h, verdict)'
<1> USE DEF GInv
<1>a. Idle.at = "idle" /\ NoEntry.status = "none"
  BY DEF Idle, NoEntry
<1>1. CASE SetActiveNodes \/ UNCHANGED vars
  BY <1>1 DEF SetActiveNodes, vars, Rests, Writing
<1>2. ASSUME NEW g \in Proposals, Propose(g) \/ CollectOldPending(g) \/ RemoveOldPending(g)
      PROVE  Rests(h, verdict)'
  BY <1>2, EntrySteps DEF Rests, Writing
<1>3. ASSUME NEW g \in Proposals, NEW voter \in Nodes, DropVote(g, voter)
      PROVE  Rests(h, verdict)'
  BY <1>3 DEF DropVote, Rests, Writing
<1>4. ASSUME NEW t \in Threads, NEW g \in Proposals, NEW voter \in Nodes,
             NEW approved \in Answers, CastVote(t, g, voter, approved)
      PROVE  Rests(h, verdict)'
  <2>1. /\ pending_blocks[g] # NoEntry /\ pending_blocks'[g].status = pending_blocks[g].status
        /\ \A i \in Proposals \ {g} : pending_blocks'[i] = pending_blocks[i]
        /\ thread'[t] = [at |-> "check", hash |-> g]
        /\ \A u \in Threads \ {t} : thread'[u] = thread[u]
        /\ UNCHANGED proposed
    BY <1>4, CastSteps DEF Cast
  <2>2. ~Writing(h)'
    BY <2>1 DEF Writing, Rests
  <2> QED
    BY <2>1, <2>2 DEF Rests
<1>5. ASSUME NEW t \in Threads, CheckConsensus(t)
      PROVE  Rests(h, verdict)'
  <2>0. PICK g \in Proposals : Checked(t, g)
    BY <1>5, CheckSteps
  <2>1. /\ \/ thread'[t] = Idle
           \/ pending_blocks[g].status = "pending" /\ thread'[t].hash = g
        /\ \A u \in Threads \ {t} : thread'[u] = thread[u]
        /\ UNCHANGED <<pending_blocks, proposed>>
    BY <2>0 DEF Checked
  <2>2. ~Writing(h)'
    BY <1>a, <2>1 DEF Writing, Rests
  <2> QED
    BY <2>1, <2>2 DEF Rests
<1>6. ASSUME NEW t \in Threads, WriteVerdict(t)
      PROVE  Rests(h, verdict)'
  <2>0. PICK g \in Proposals, v \in {"confirmed", "rejected"} : Written(t, g, v)
    BY <1>6, WriteSteps
  <2>1. /\ thread[t].at = "write" /\ thread[t].hash = g
        /\ \A i \in Proposals \ {g} : pending_blocks'[i] = pending_blocks[i]
        /\ thread'[t].at \in {"add", "idle"}
        /\ \A u \in Threads \ {t} : thread'[u] = thread[u]
        /\ UNCHANGED proposed
    BY <2>0, <1>a DEF Written
  <2>2. g # h
    BY <2>1 DEF Rests, Writing
  <2>3. ~Writing(h)'
    BY <2>1 DEF Writing, Rests
  <2> QED
    BY <2>1, <2>2, <2>3 DEF Rests
<1>7. ASSUME NEW t \in Threads, AddConfirmedHash(t)
      PROVE  Rests(h, verdict)'
  <2>1. /\ thread'[t] = Idle
        /\ \A u \in Threads \ {t} : thread'[u] = thread[u]
        /\ UNCHANGED <<pending_blocks, proposed>>
    BY <1>7 DEF AddConfirmedHash, TypeOK
  <2> QED
    BY <1>a, <2>1 DEF Rests, Writing
<1> QED
  BY <1>1, <1>2, <1>3, <1>4, <1>5, <1>6, <1>7 DEF Next, ThreadStep

LEMMA GInvHolds == Spec => []GInv
BY InitGInv, StepGInv, PTL DEF Spec

\* In every cluster, with any threads, answers and views: once the threads that
\* counted at the same time have all written, the verdict of the last one stands.
THEOREM SettledVerdictsStand == Spec => SettledForGood
<1>1. ASSUME NEW h \in Proposals, NEW verdict \in {"confirmed", "rejected"}
      PROVE  Spec => [](pending_blocks[h].status = verdict /\ ~Writing(h)
                 => [](pending_blocks[h].status = verdict \/ pending_blocks[h] = NoEntry))
  <2>1. GInv /\ Settled(h, verdict) => Rests(h, verdict)
    BY DEF GInv, Settled, Rests, Known, NoEntry
  <2>2. GInv /\ Rests(h, verdict) /\ [Next]_vars => Rests(h, verdict)'
    BY StepRests
  <2>3. Rests(h, verdict) => pending_blocks[h].status = verdict \/ pending_blocks[h] = NoEntry
    BY DEF Rests
  <2>4. pending_blocks[h].status = verdict /\ ~Writing(h) => Settled(h, verdict)
    BY DEF Settled
  <2> QED
    BY <2>1, <2>2, <2>3, <2>4, GInvHolds, PTL DEF Spec
<1> QED
  BY <1>1 DEF SettledForGood

-----------------------------------------------------------------------------
(* Blocks counted in small views only, in a cluster whose nodes approve    *)
(* everything, as they do.                                                 *)

\* Nothing was rejected, and what is in the set is confirmed or gone.
Sound(h) ==
  h \notin strained =>
    /\ pending_blocks[h].status # "rejected"
    /\ pending_blocks[h].approvals = pending_blocks[h].voters
    /\ h \in confirmed_block_hashes =>
         pending_blocks[h] = NoEntry \/ pending_blocks[h].status = "confirmed"

\* A thread that is to count finds a vote, one that writes writes a confirmation,
\* and one that adds to the set has an entry that is confirmed or gone.
SoundStep(t) ==
  thread[t].at # "idle" /\ thread[t].hash \notin strained =>
    /\ thread[t].at = "check" =>
         pending_blocks[thread[t].hash] = NoEntry \/ pending_blocks[thread[t].hash].voters # {}
    /\ thread[t].at = "write" => thread[t].verdict = "confirmed"
    /\ thread[t].at = "add" =>
         \/ pending_blocks[thread[t].hash] = NoEntry
         \/ pending_blocks[thread[t].hash].status = "confirmed"

\* The approvals are enough for the view they were last counted in.
Enough(h) == Confirms(Cardinality(pending_blocks[h].approvals), Cardinality(counted[h]))

At(t, h) == thread[t].at \in {"check", "write"} /\ thread[t].hash = h

\* A pending block with enough approvals has a thread that will settle it: the
\* one that cast the last vote, or one that found enough.
Attended(h) ==
  pending_blocks[h].status = "pending" /\ Enough(h) => \E t \in Threads : At(t, h)

SInv ==
  /\ GInv
  /\ \A h \in Proposals : Sound(h) /\ Attended(h)
  /\ \A t \in Threads : SoundStep(t)

LEMMA InitSInv == Init => SInv
<1> SUFFICES ASSUME Init
             PROVE  SInv
  OBVIOUS
<1>1. \A h \in Proposals : Sound(h) /\ Attended(h)
  BY DEF Init, NoEntry, Sound, Attended
<1>2. \A t \in Threads : SoundStep(t)
  BY DEF Init, Idle, SoundStep
<1> QED
  BY <1>1, <1>2, InitGInv DEF SInv

\* No view confirms a block without approvals.
LEMMA NothingIsNotEnough ==
  ASSUME TypeOK, NEW h \in Proposals
  PROVE  ~Confirms(0, Cardinality(counted[h])) /\ Cardinality({}) = 0
<1>1. Cardinality({}) = 0 /\ Cardinality(counted[h]) \in Nat \ {0}
  <2>1. counted[h] \in SUBSET Nodes /\ counted[h] # {}
    BY DEF TypeOK
  <2> QED
    BY <2>1, NodeSets, FS_EmptySet
<1>2. PICK n \in Nat \ {0} : n = Cardinality(counted[h])
  BY <1>1
<1>3. Threshold * n > 0
  BY ThresholdAssumption
<1> QED
  BY <1>1, <1>2, <1>3, ThresholdAssumption DEF Confirms

LEMMA StepSInv ==
  ASSUME Answers = {TRUE}, SInv, [Next]_vars
  PROVE  SInv'
<1> USE DEF SInv, GInv
<1>0. GInv'
  BY StepGInv
<1>a. /\ NoEntry.status = "none" /\ NoEntry.voters = {} /\ NoEntry.approvals = {}
      /\ NewEntry.status = "pending" /\ NewEntry.voters = {} /\ NewEntry.approvals = {}
      /\ NewEntry # NoEntry /\ Idle.at = "idle"
  BY DEF NewEntry, NoEntry, Idle
<1>b. \A t \in Threads : thread[t].at # "idle" =>
        thread[t].hash \in Proposals /\ thread[t].hash \in proposed
  BY ThreadType DEF Busy
<1>1. CASE SetActiveNodes \/ UNCHANGED vars
  BY <1>0, <1>1 DEF SetActiveNodes, vars, Sound, SoundStep, Attended, Enough, At
<1>2. ASSUME NEW h \in Proposals, Propose(h)
      PROVE  SInv'
  <2>1. /\ h \notin proposed /\ h \notin confirmed_block_hashes
        /\ pending_blocks'[h] = NewEntry
        /\ \A g \in Proposals \ {h} : pending_blocks'[g] = pending_blocks[g]
        /\ UNCHANGED <<confirmed_block_hashes, thread, counted, strained>>
    BY <1>2, EntrySteps
  <2>2. \A g \in Proposals : Sound(g)'
    BY <1>a, <2>1 DEF Sound
  <2>3. \A g \in Proposals \ {h} : Attended(g)'
    BY <2>1 DEF Attended, Enough, At
  <2>4. Attended(h)'
    <3>1. ~Enough(h)'
      BY <1>a, <2>1, NothingIsNotEnough DEF Enough
    <3> QED
      BY <3>1 DEF Attended
  <2>5. ASSUME NEW t \in Threads
        PROVE  SoundStep(t)'
    <3>1. thread[t].at # "idle" => thread[t].hash \in Proposals \ {h}
      BY <1>b, <2>1
    <3> QED
      BY <2>1, <3>1 DEF SoundStep
  <2> QED
    BY <1>0, <2>2, <2>3, <2>4, <2>5
<1>3. ASSUME NEW h \in Proposals, CollectOldPending(h)
      PROVE  SInv'
  BY <1>0, <1>3, EntrySteps DEF Sound, SoundStep, Attended, Enough, At
<1>4. ASSUME NEW h \in Proposals, RemoveOldPending(h)
      PROVE  SInv'
  <2>1. /\ pending_blocks'[h] = NoEntry
        /\ \A g \in Proposals \ {h} : pending_blocks'[g] = pending_blocks[g]
        /\ UNCHANGED <<confirmed_block_hashes, thread, counted, strained>>
    BY <1>4, EntrySteps
  <2>2. \A g \in Proposals : Sound(g)'
    BY <1>a, <2>1 DEF Sound
  <2>3. \A g \in Proposals : Attended(g)'
    BY <1>a, <2>1 DEF Attended, Enough, At
  <2>4. ASSUME NEW t \in Threads
        PROVE  SoundStep(t)'
    <3>1. CASE thread[t].hash = h
      BY <2>1, <3>1 DEF SoundStep
    <3>2. CASE thread[t].hash # h
      BY <1>b, <2>1, <3>2 DEF SoundStep
    <3> QED
      BY <3>1, <3>2
  <2> QED
    BY <1>0, <2>2, <2>3, <2>4
<1>5. ASSUME NEW h \in Proposals, NEW voter \in Nodes, DropVote(h, voter)
      PROVE  SInv'
  BY <1>0, <1>5 DEF DropVote, Sound, SoundStep, Attended, Enough, At
<1>6. ASSUME NEW t \in Threads, NEW h \in Proposals, NEW voter \in Nodes,
             NEW approved \in Answers, CastVote(t, h, voter, approved)
      PROVE  SInv'
  <2>0. Cast(t, h, voter)
    BY <1>6, CastSteps, Zenon
  <2>1. /\ pending_blocks[h] # NoEntry
        /\ pending_blocks'[h].status = pending_blocks[h].status
        /\ pending_blocks'[h].voters = pending_blocks[h].voters \union {voter}
        /\ \A g \in Proposals \ {h} : pending_blocks'[g] = pending_blocks[g]
        /\ thread[t] = Idle /\ thread'[t] = [at |-> "check", hash |-> h]
        /\ \A u \in Threads \ {t} : thread'[u] = thread[u]
        /\ UNCHANGED <<confirmed_block_hashes, counted, strained>>
    BY <2>0 DEF Cast
  <2>a. pending_blocks'[h].approvals = pending_blocks[h].approvals \union {voter}
    <3>0. approved = TRUE
      OBVIOUS
    <3>1. pending_blocks'[h] = [pending_blocks[h] EXCEPT
            !.voters = @ \union {voter}, !.approvals = @ \union {voter}]
      BY <1>6, <3>0 DEF CastVote, TypeOK
    <3>2. pending_blocks[h] \in Entries
      BY DEF TypeOK
    <3> QED
      BY <3>1, <3>2 DEF Entries
  <2>2. \A g \in Proposals : Sound(g)'
    BY <2>1, <2>a DEF Sound
  <2>3. At(t, h)'
    BY <2>1 DEF At
  <2>4. ASSUME NEW g \in Proposals \ {h}
        PROVE  Attended(g)'
    <3>1. ~At(t, g)
      BY <1>a, <2>1 DEF At
    <3>2. \A u \in Threads \ {t} : At(u, g) => At(u, g)'
      BY <2>1 DEF At
    <3> QED
      BY <2>1, <3>1, <3>2 DEF Attended, Enough
  <2>5. SoundStep(t)'
    <3>1. voter \in pending_blocks'[h].voters
      BY <2>1
    <3> QED
      BY <2>1, <3>1 DEF SoundStep
  <2>6. ASSUME NEW u \in Threads \ {t}
        PROVE  SoundStep(u)'
    <3>1. CASE thread[u].hash = h
      BY <2>1, <3>1 DEF SoundStep
    <3>2. CASE thread[u].hash # h
      BY <1>b, <2>1, <3>2 DEF SoundStep
    <3> QED
      BY <3>1, <3>2
  <2> QED
    BY <1>0, <2>2, <2>3, <2>4, <2>5, <2>6 DEF Attended
<1>7. ASSUME NEW t \in Threads, CheckConsensus(t)
      PROVE  SInv'
  <2>0. PICK h \in Proposals : Checked(t, h)
    BY <1>7, CheckSteps
  <2>1. /\ thread[t].at = "check" /\ thread[t].hash = h
        /\ \A u \in Threads \ {t} : thread'[u] = thread[u]
        /\ counted'[h] = active_node_ids
        /\ \A g \in Proposals \ {h} : counted'[g] = counted[g]
        /\ strained' = strained \union
             (IF SmallView(Cardinality(active_node_ids)) THEN {} ELSE {h})
        /\ UNCHANGED <<pending_blocks, confirmed_block_hashes>>
    BY <2>0 DEF Checked
  <2>2. \/ /\ pending_blocks[h].status # "pending" \/ VerdictOn(h) = "pending"
           /\ thread'[t] = Idle
        \/ /\ pending_blocks[h].status = "pending"
           /\ VerdictOn(h) \in {"confirmed", "rejected"}
           /\ thread'[t] = [at |-> "write", hash |-> h, verdict |-> VerdictOn(h)]
    BY <2>0 DEF Checked
  <2>3. strained \subseteq strained' /\ (h \notin strained' => SmallView(Cardinality(active_node_ids)))
    BY <2>1
  <2>4. \A g \in Proposals : Sound(g)'
    BY <2>1, <2>3 DEF Sound
  <2>5. ASSUME h \notin strained', pending_blocks[h].status = "pending"
        PROVE  VerdictOn(h) # "rejected"
    <3>1. pending_blocks[h].approvals # {} /\ pending_blocks[h].approvals \in SUBSET Nodes
      BY <1>a, <2>1, <2>3, <2>5 DEF SoundStep, Sound, TypeOK, Entries
    <3>2. Cardinality(pending_blocks[h].approvals) \in Nat \ {0}
      BY <3>1, NodeSets
    <3>3. Cardinality(active_node_ids) \in Nat
      BY NodeSets DEF TypeOK
    <3>4. ~Rejects(Cardinality(pending_blocks[h].approvals), Cardinality(active_node_ids))
      BY <2>3, <2>5, <3>2, <3>3, ApprovalsDoNotReject
    <3> QED
      BY <3>4 DEF VerdictOn, Verdict
  <2>6. SoundStep(t)'
    BY <1>a, <2>2, <2>5 DEF SoundStep
  <2>7. ASSUME NEW u \in Threads \ {t}
        PROVE  SoundStep(u)'
    BY <2>1, <2>3 DEF SoundStep
  <2>8. pending_blocks[h].status = "pending" /\ Enough(h)' => At(t, h)'
    <3>1. Enough(h)' => VerdictOn(h) = "confirmed"
      BY <2>1 DEF Enough, VerdictOn, Verdict
    <3> QED
      BY <2>2, <3>1 DEF At
  <2>9. ASSUME NEW g \in Proposals
        PROVE  Attended(g)'
    <3>1. CASE g = h
      BY <2>1, <2>8, <3>1 DEF Attended
    <3>2. CASE g # h
      <4>1. ~At(t, g)
        BY <2>1, <3>2 DEF At
      <4>2. \A u \in Threads \ {t} : At(u, g) => At(u, g)'
        BY <2>1 DEF At
      <4> QED
        BY <2>1, <3>2, <4>1, <4>2 DEF Attended, Enough
    <3> QED
      BY <3>1, <3>2
  <2> QED
    BY <1>0, <2>4, <2>6, <2>7, <2>9
<1>8. ASSUME NEW t \in Threads, WriteVerdict(t)
      PROVE  SInv'
  <2>0. PICK h \in Proposals, verdict \in {"confirmed", "rejected"} : Written(t, h, verdict)
    BY <1>8, WriteSteps
  <2>1. /\ thread[t].at = "write" /\ thread[t].hash = h /\ thread[t].verdict = verdict
        /\ \/ pending_blocks[h] = NoEntry /\ pending_blocks'[h] = NoEntry
           \/ /\ pending_blocks[h] # NoEntry
              /\ pending_blocks'[h].status = verdict
              /\ pending_blocks'[h].voters = pending_blocks[h].voters
              /\ pending_blocks'[h].approvals = pending_blocks[h].approvals
        /\ \A g \in Proposals \ {h} : pending_blocks'[g] = pending_blocks[g]
        /\ thread'[t] = IF verdict = "confirmed" THEN [at |-> "add", hash |-> h] ELSE Idle
        /\ \A u \in Threads \ {t} : thread'[u] = thread[u]
        /\ UNCHANGED <<confirmed_block_hashes, counted, strained>>
    BY <2>0 DEF Written
  <2>2. h \notin strained => verdict = "confirmed"
    BY <2>1 DEF SoundStep
  <2>3. \A g \in Proposals \ {h} : Sound(g)'
    BY <2>1 DEF Sound
  <2>4. Sound(h)'
    BY <1>a, <2>1, <2>2 DEF Sound
  <2>5. SoundStep(t)'
    BY <1>a, <2>1, <2>2 DEF SoundStep
  <2>6. ASSUME NEW u \in Threads \ {t}
        PROVE  SoundStep(u)'
    <3>1. CASE thread[u].hash = h
      BY <2>1, <2>2, <3>1 DEF SoundStep
    <3>2. CASE thread[u].hash # h
      BY <1>b, <2>1, <3>2 DEF SoundStep
    <3> QED
      BY <3>1, <3>2
  <2>7. Attended(h)'
    BY <1>a, <2>1 DEF Attended
  <2>8. ASSUME NEW g \in Proposals \ {h}
        PROVE  Attended(g)'
    <3>1. ~At(t, g)
      BY <2>1 DEF At
    <3>2. \A u \in Threads \ {t} : At(u, g) => At(u, g)'
      BY <2>1 DEF At
    <3> QED
      BY <2>1, <3>1, <3>2 DEF Attended, Enough
  <2> QED
    BY <1>0, <2>3, <2>4, <2>5, <2>6, <2>7, <2>8
<1>9. ASSUME NEW t \in Threads, AddConfirmedHash(t)
      PROVE  SInv'
  <2>1. PICK h \in Proposals :
          /\ thread[t].at = "add" /\ thread[t].hash = h
          /\ confirmed_block_hashes' = confirmed_block_hashes \union {h}
          /\ thread'[t] = Idle
          /\ \A u \in Threads \ {t} : thread'[u] = thread[u]
          /\ UNCHANGED <<pending_blocks, counted, strained, proposed>>
    BY <1>9, AddSteps
  <2>2. \A g \in Proposals : Sound(g)'
    BY <2>1 DEF Sound, SoundStep
  <2>3. \A u \in Threads : SoundStep(u)'
    BY <1>a, <2>1 DEF SoundStep
  <2>4. \A g \in Proposals, u \in Threads : At(u, g) => At(u, g)'
    BY <2>1 DEF At
  <2>5. \A g \in Proposals : Attended(g)'
    BY <2>1, <2>4 DEF Attended, Enough
  <2> QED
    BY <1>0, <2>2, <2>3, <2>5
<1> QED
  BY <1>1, <1>2, <1>3, <1>4, <1>5, <1>6, <1>7, <1>8, <1>9 DEF Next, ThreadStep

\* As long as the nodes approve everything, no block whose votes were counted in
\* small views only is rejected for votes that are still on their way: whatever
\* the threads, the views and the cleanup do in between.
THEOREM NoFalseRejection ==
  ASSUME Answers = {TRUE}
  PROVE  Spec => []RejectedInSmallViewsMeansOpposed
<1>1. Init => SInv
  BY InitSInv
<1>2. SInv /\ [Next]_vars => SInv'
  BY StepSInv
<1>3. SInv => RejectedInSmallViewsMeansOpposed
  BY DEF SInv, Sound, RejectedInSmallViewsMeansOpposed
<1> QED
  BY <1>1, <1>2, <1>3, PTL DEF Spec

\* The set of confirmed hashes follows the entries, with other threads and the
\* cleanup at work between the two writes of a confirmation.
THEOREM ConfirmedHashesAgree ==
  ASSUME Answers = {TRUE}
  PROVE  Spec => []ConfirmedHashesMatch
<1>1. Init => SInv
  BY InitSInv
<1>2. SInv /\ [Next]_vars => SInv'
  BY StepSInv
<1>3. SInv => ConfirmedHashesMatch
  BY DEF SInv, GInv, Followed, Sound, ConfirmedHashesMatch
<1> QED
  BY <1>1, <1>2, <1>3, PTL DEF Spec

\* A block with enough approvals for the view they were last counted in is
\* confirmed as soon as the threads that voted on it are through: appending the
\* vote before counting is enough, even without a lock and while the view changes.
THEOREM ConfirmationsAreNotLost ==
  ASSUME Answers = {TRUE}
  PROVE  Spec => []NoLostConfirmation
<1>1. Init => SInv
  BY InitSInv
<1>2. SInv /\ [Next]_vars => SInv'
  BY StepSInv
<1>3. SInv => NoLostConfirmation
  <2> SUFFICES ASSUME SInv, NEW h \in Proposals \ strained,
                      Quiet(h), pending_blocks[h] # NoEntry, Enough(h)
               PROVE  pending_blocks[h].status = "confirmed"
    BY DEF SInv, NoLostConfirmation, Enough
  <2>1. \A t \in Threads : ~At(t, h)
    BY DEF Quiet, At, Idle
  <2>2. pending_blocks[h].status \in {"pending", "confirmed", "rejected", "none"}
    BY DEF SInv, GInv, TypeOK, Entries, Statuses
  <2> QED
    BY <2>1, <2>2 DEF SInv, GInv, Known, Sound, Attended
<1> QED
  BY <1>1, <1>2, <1>3, PTL DEF Spec

=============================================================================
