------------------------------ MODULE Consensus ------------------------------
(***************************************************************************)
(* SimpleConsensus on one node, called by several threads at once: the     *)
(* main loop proposes, votes, refreshes the view of the active nodes and   *)
(* cleans up, every request of a peer is handled on a thread of its own,   *)
(* and nothing is locked.                                                  *)
(*                                                                         *)
(* A vote is up to four steps of its thread: append the vote; read view,   *)
(* votes and status in _check_consensus; write the status; and, for a      *)
(* confirmation, add the hash to confirmed_block_hashes.  The cleanup is   *)
(* two steps of the main thread: collect what is old, remove it.           *)
(***************************************************************************)
EXTENDS Voting

CONSTANTS
  Self,       \* node_id
  Proposals,  \* the hashes of the blocks that get proposed
  Threads,    \* the threads that may be inside vote_block at the same time
  Answers,    \* the is_approved that nodes send: {TRUE} as the handlers do
  Views       \* the sets of online peers the network layer may report

ASSUME SelfAssumption == Self \in Nodes
ASSUME AnswersAssumption == Answers \subseteq BOOLEAN
ASSUME ViewsAssumption == Views \subseteq SUBSET Nodes

VARIABLES
  pending_blocks,          \* per proposal: its entry, or NoEntry
  confirmed_block_hashes,
  active_node_ids,
  thread,                  \* per thread: where it is, and with what
  to_remove,               \* the hashes the cleanup has collected
  counted,                 \* history: per proposal, the view its votes were last counted in
  strained,                \* history: the proposals counted in a view one approval rejects in
  proposed,                \* history: the proposals that came in
  arrived                  \* history: the votes <<hash, voter>> that came in

vars == <<pending_blocks, confirmed_block_hashes, active_node_ids, thread,
          to_remove, counted, strained, proposed, arrived>>

Statuses == {"pending", "confirmed", "rejected"}

\* voters and approvals stand for the list of BlockVotes.
NoEntry == [status |-> "none", voters |-> {}, approvals |-> {}]
NewEntry == [NoEntry EXCEPT !.status = "pending"]

Idle == [at |-> "idle"]

Init ==
  /\ pending_blocks = [h \in Proposals |-> NoEntry]
  /\ confirmed_block_hashes = {}
  /\ active_node_ids = Nodes
  /\ thread = [t \in Threads |-> Idle]
  /\ to_remove = {}
  /\ counted = [h \in Proposals |-> Nodes]
  /\ strained = {}
  /\ proposed = {}
  /\ arrived = {}

\* Mutant of SetActiveNodes: the node itself is left out.
SetOnlineNodes ==
  /\ \E view \in Views : active_node_ids' = view
  /\ UNCHANGED <<pending_blocks, confirmed_block_hashes, thread, to_remove, counted,
                 strained, proposed, arrived>>

\* set_active_nodes: the node itself always belongs to its view.
SetActiveNodes ==
  /\ \E view \in Views : active_node_ids' = view \union {Self}
  /\ UNCHANGED <<pending_blocks, confirmed_block_hashes, thread, to_remove, counted,
                 strained, proposed, arrived>>

\* propose_block on the node that made the block, receive_block_proposal on
\* the others, which ignore what is confirmed already: a new entry, in the place
\* of the old one if there is one.
ReceiveProposal(h) ==
  /\ h \notin confirmed_block_hashes
  /\ pending_blocks' = [pending_blocks EXCEPT ![h] = NewEntry]

\* The calls of ReceiveProposal: the leader proposes each block it makes once
\* and posts it once to every peer; nothing posts it again.
Propose(h) ==
  /\ h \notin proposed
  /\ proposed' = proposed \union {h}
  /\ ReceiveProposal(h)
  /\ UNCHANGED <<confirmed_block_hashes, active_node_ids, thread, to_remove, counted,
                 strained, arrived>>

\* vote_block for a hash that is not in pending_blocks: the vote is dropped.
DropVote(h, voter) ==
  /\ <<h, voter>> \notin arrived
  /\ arrived' = arrived \union {<<h, voter>>}
  /\ pending_blocks[h] = NoEntry
  /\ UNCHANGED <<pending_blocks, confirmed_block_hashes, active_node_ids, thread,
                 to_remove, counted, strained, proposed>>

\* The votes on h are counted against the view there is now.
Count(h) ==
  /\ counted' = [counted EXCEPT ![h] = active_node_ids]
  /\ strained' = strained \union
       (IF SmallView(Cardinality(active_node_ids)) THEN {} ELSE {h})

\* Mutant of CastVote: the consensus is checked before the vote is appended.
CheckThenCastVote(t, h, voter, approved) ==
  /\ thread[t] = Idle
  /\ <<h, voter>> \notin arrived
  /\ arrived' = arrived \union {<<h, voter>>}
  /\ pending_blocks[h] # NoEntry /\ voter \notin pending_blocks[h].voters
  /\ pending_blocks' = [pending_blocks EXCEPT
       ![h].voters = @ \union {voter},
       ![h].approvals = IF approved THEN @ \union {voter} ELSE @,
       ![h].status = IF @ = "pending"
                     THEN Verdict(Cardinality(pending_blocks[h].approvals),
                                  Cardinality(active_node_ids))
                     ELSE @]
  /\ Count(h)
  /\ UNCHANGED <<thread, confirmed_block_hashes, active_node_ids, to_remove, proposed>>

\* vote_block up to the append.
CastVote(t, h, voter, approved) ==
  /\ thread[t] = Idle
  /\ <<h, voter>> \notin arrived
  /\ arrived' = arrived \union {<<h, voter>>}
  /\ pending_blocks[h] # NoEntry /\ voter \notin pending_blocks[h].voters
  /\ pending_blocks' = [pending_blocks EXCEPT
       ![h].voters = @ \union {voter},
       ![h].approvals = IF approved THEN @ \union {voter} ELSE @]
  /\ thread' = [thread EXCEPT ![t] = [at |-> "check", hash |-> h]]
  /\ UNCHANGED <<confirmed_block_hashes, active_node_ids, to_remove, counted, strained,
                 proposed>>

\* Mutant of CheckConsensus: the status is not looked at.
CheckAnyStatus(t) ==
  /\ thread[t].at = "check"
  /\ LET h == thread[t].hash
         verdict == Verdict(Cardinality(pending_blocks[h].approvals),
                            Cardinality(active_node_ids))
     IN  thread' = [thread EXCEPT ![t] =
           [at |-> "write", hash |-> h, verdict |-> verdict]]
  /\ Count(thread[t].hash)
  /\ UNCHANGED <<pending_blocks, confirmed_block_hashes, active_node_ids, to_remove,
                 proposed, arrived>>

\* _check_consensus up to the comparison with the threshold.
CheckConsensus(t) ==
  /\ thread[t].at = "check"
  /\ LET h == thread[t].hash
         verdict == Verdict(Cardinality(pending_blocks[h].approvals),
                            Cardinality(active_node_ids))
     IN  thread' = [thread EXCEPT ![t] =
           IF pending_blocks[h].status = "pending" /\ verdict # "pending"
           THEN [at |-> "write", hash |-> h, verdict |-> verdict]
           ELSE Idle]
  /\ Count(thread[t].hash)
  /\ UNCHANGED <<pending_blocks, confirmed_block_hashes, active_node_ids, to_remove,
                 proposed, arrived>>

\* Mutant of WriteVerdict: the set of confirmed hashes is forgotten.
WriteStatusOnly(t) ==
  /\ thread[t].at = "write"
  /\ LET h == thread[t].hash
     IN  pending_blocks' = [pending_blocks EXCEPT ![h].status =
           IF pending_blocks[h] = NoEntry THEN @ ELSE thread[t].verdict]
  /\ thread' = [thread EXCEPT ![t] = Idle]
  /\ UNCHANGED <<confirmed_block_hashes, active_node_ids, to_remove, counted, strained,
                 proposed, arrived>>

\* The status is written.  An entry that was cleaned up in between takes its
\* new status with it.
WriteVerdict(t) ==
  /\ thread[t].at = "write"
  /\ LET h == thread[t].hash
         verdict == thread[t].verdict
     IN  /\ pending_blocks' = [pending_blocks EXCEPT ![h].status =
              IF pending_blocks[h] = NoEntry THEN @ ELSE verdict]
         /\ thread' = [thread EXCEPT ![t] =
              IF verdict = "confirmed" THEN [at |-> "add", hash |-> h] ELSE Idle]
  /\ UNCHANGED <<confirmed_block_hashes, active_node_ids, to_remove, counted, strained,
                 proposed, arrived>>

\* The hash of the block joins confirmed_block_hashes.
AddConfirmedHash(t) ==
  /\ thread[t].at = "add"
  /\ confirmed_block_hashes' = confirmed_block_hashes \union {thread[t].hash}
  /\ thread' = [thread EXCEPT ![t] = Idle]
  /\ UNCHANGED <<pending_blocks, active_node_ids, to_remove, counted, strained,
                 proposed, arrived>>

\* cleanup_old_pending finds an entry that has been pending for an hour, ...
CollectOldPending(h) ==
  /\ pending_blocks[h].status = "pending"
  /\ to_remove' = to_remove \union {h}
  /\ UNCHANGED <<pending_blocks, confirmed_block_hashes, active_node_ids, thread,
                 counted, strained, proposed, arrived>>

\* ... and removes it, whatever its status is by now.
RemoveOldPending(h) ==
  /\ h \in to_remove
  /\ to_remove' = to_remove \ {h}
  /\ pending_blocks' = [pending_blocks EXCEPT ![h] = NoEntry]
  /\ UNCHANGED <<confirmed_block_hashes, active_node_ids, thread, counted, strained,
                 proposed, arrived>>

ThreadStep(t) ==
  \/ \E h \in Proposals, voter \in Nodes, approved \in Answers :
       CastVote(t, h, voter, approved)
  \/ CheckConsensus(t)
  \/ WriteVerdict(t)
  \/ AddConfirmedHash(t)

Next ==
  \/ SetActiveNodes
  \/ \E h \in Proposals : Propose(h) \/ CollectOldPending(h) \/ RemoveOldPending(h)
  \/ \E h \in Proposals, voter \in Nodes : DropVote(h, voter)
  \/ \E t \in Threads : ThreadStep(t)

Spec == Init /\ [][Next]_vars

-----------------------------------------------------------------------------
(* Properties.                                                             *)

Entries == [status : Statuses \union {"none"}, voters : SUBSET Nodes,
            approvals : SUBSET Nodes]

ThreadStates ==
  {Idle} \union [at : {"check"}, hash : Proposals]
         \union [at : {"write"}, hash : Proposals, verdict : {"confirmed", "rejected"}]
         \union [at : {"add"}, hash : Proposals]

TypeOK ==
  /\ pending_blocks \in [Proposals -> Entries]
  /\ confirmed_block_hashes \subseteq Proposals
  /\ active_node_ids \subseteq Nodes /\ Self \in active_node_ids
  /\ thread \in [Threads -> ThreadStates]
  /\ counted \in [Proposals -> {view \in SUBSET Nodes : Self \in view}]
  /\ to_remove \subseteq Proposals
  /\ strained \subseteq Proposals /\ proposed \subseteq Proposals
  /\ arrived \subseteq Proposals \X Nodes

\* A block is only rejected if somebody voted against it: votes that are still
\* on their way do not count as opposed.
RejectedMeansOpposed ==
  \A h \in Proposals :
    pending_blocks[h].status = "rejected"
      => pending_blocks[h].voters # pending_blocks[h].approvals

\* That much is true of a block whose votes were never counted in a view in which
\* one approval rejects, whatever threads, views and cleanup do in the meantime.
RejectedInSmallViewsMeansOpposed ==
  \A h \in Proposals \ strained :
    pending_blocks[h].status = "rejected"
      => pending_blocks[h].voters # pending_blocks[h].approvals

\* A thread has read the entry of h as pending and is about to settle it.
Writing(h) == \E t \in Threads : thread[t].at = "write" /\ thread[t].hash = h

\* Threads that counted at the same time may overwrite each other's verdict, in
\* either direction.  Once the last of them has written, the verdict stands: no
\* later vote, count or change of the view settles the block anew.
SettledForGood ==
  \A h \in Proposals, verdict \in {"confirmed", "rejected"} :
    [](pending_blocks[h].status = verdict /\ ~Writing(h)
         => [](pending_blocks[h].status = verdict \/ pending_blocks[h] = NoEntry))

Adding(h) == \E t \in Threads : thread[t].at = "add" /\ thread[t].hash = h

\* The set for quick de-duplication follows the entries: it lags behind only
\* while the thread that confirmed is between its two writes, and a hash in it
\* is of a block that can be fetched as confirmed, or is gone; unless votes were
\* counted in a view in which one approval rejects, which lets another thread
\* overwrite the verdict.
ConfirmedHashesMatch ==
  \A h \in Proposals :
    /\ pending_blocks[h].status = "confirmed" => h \in confirmed_block_hashes \/ Adding(h)
    /\ h \in confirmed_block_hashes /\ h \notin strained =>
         pending_blocks[h] = NoEntry \/ pending_blocks[h].status = "confirmed"

Quiet(h) == \A t \in Threads : thread[t] = Idle \/ thread[t].hash # h

\* Once every thread that voted on a block is through, a block with enough
\* approvals for the view they were last counted in is confirmed, whatever the
\* view was before: because every vote is appended before its thread counts, the
\* last one to count sees them all.  (Only a count in a view in which one
\* approval rejects can spoil it.)
NoLostConfirmation ==
  \A h \in Proposals \ strained :
    /\ Quiet(h) /\ pending_blocks[h] # NoEntry
    /\ Confirms(Cardinality(pending_blocks[h].approvals), Cardinality(counted[h]))
    => pending_blocks[h].status = "confirmed"

=============================================================================
