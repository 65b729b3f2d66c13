-------------------------------- MODULE Cluster --------------------------------
(***************************************************************************)
(* Several servers that share one chain.  On every node three kinds of     *)
(* threads touch the same objects: the main loop of MonitorClient, which   *)
(* proposes blocks and fetches longer chains; one thread per request that  *)
(* the P2P server handles; and the web threads that fill pending_data.     *)
(*                                                                         *)
(* Every call over the network is synchronous: a leader posts its proposal *)
(* to one peer after the other, and a peer answers only after it has in    *)
(* turn posted its vote to everybody it believes online.  A call is the    *)
(* unit that interleaves here, with three exceptions inside a node: after  *)
(* the turn check; between the copy of the pool into a block and the       *)
(* clearing of the pool; and between the validation of a block (or of a    *)
(* fetched chain) and the assignment that follows it.  The finer races of  *)
(* _save_chain and vote_block are in Ledger and Consensus; entries here    *)
(* are younger than the hour after which cleanup_old_pending removes them. *)
(***************************************************************************)
EXTENDS Block, Voting

CONSTANT Faults   \* some of "lost" (calls fail), "timeout" (a caller gives up)

ASSUME FaultsAssumption == Faults \subseteq {"lost", "timeout"}

VARIABLES
  chain,           \* per node: Blockchain.chain
  pending_data,    \* per node: Blockchain.pending_data
  pending_blocks,  \* per node: block -> its votes and status in SimpleConsensus
  active,          \* per node: SimpleConsensus.active_node_ids
  online,          \* per node: the peers P2PNetwork believes online
  main,            \* per node: where the main loop is
  calls,           \* the handle_block_propose requests being handled
  accepted,        \* history: how many records were accepted in all
  late             \* history: the records that came between copy and clearing of a pool

vars == <<chain, pending_data, pending_blocks, active, online, main, calls, accepted, late>>

Peers(n) == Nodes \ {n}

Loop == [at |-> "loop"]

Init ==
  /\ chain = [n \in Nodes |-> <<Genesis>>]
  /\ pending_data = [n \in Nodes |-> << >>]
  /\ pending_blocks = [n \in Nodes |-> << >>]
  /\ active = [n \in Nodes |-> Nodes]
  /\ online = [n \in Nodes |-> Peers(n)]
  /\ main = [n \in Nodes |-> Loop]
  /\ calls = {}
  /\ accepted = 0
  /\ late = {}

-----------------------------------------------------------------------------
(* SimpleConsensus: the entry of a block on one node.                      *)

NewEntry == [voters |-> {}, status |-> "pending"]

\* The entries of a node after the entry of b became e.
WithEntry(entries, b, e) ==
  [x \in DOMAIN entries \union {b} |-> IF x = b THEN e ELSE entries[x]]

\* Mutant of IsConfirmed: whatever is not rejected.
NotRejected(entries, b) == b \in DOMAIN entries /\ entries[b].status # "rejected"

IsConfirmed(entries, b) == b \in DOMAIN entries /\ entries[b].status = "confirmed"

\* vote_block accepts the vote: the block is known and the voter is new to it.
CanVote(entries, b, voter) == b \in DOMAIN entries /\ voter \notin entries[b].voters

\* vote_block and _check_consensus: everybody approves everything.
Voted(entries, b, voter, view) ==
  LET voters == entries[b].voters \union {voter}
  IN  WithEntry(entries, b,
        [voters |-> voters,
         status |-> IF entries[b].status = "pending"
                    THEN Verdict(Cardinality(voters), Cardinality(view))
                    ELSE entries[b].status])

\* Mutant of MayAppend: _validate_block is not asked.
MayAppendUnchecked(n, entries, b) == IsConfirmed(entries, b) /\ n \in Nodes

\* get_confirmed_block followed by a successful _validate_block.
MayAppend(n, entries, b) == IsConfirmed(entries, b) /\ ValidateBlock(chain[n], b)

\* handle_block_vote on node p, which takes no locks and is quick: vote_block
\* and, if it counted, add_block of a block that is confirmed by now.
TakeVote(p, b, voter) ==
  IF CanVote(pending_blocks[p], b, voter)
  THEN LET entries == Voted(pending_blocks[p], b, voter, active[p])
       IN  /\ pending_blocks' = [pending_blocks EXCEPT ![p] = entries]
           /\ chain' = [chain EXCEPT ![p] =
                IF MayAppend(p, entries, b) THEN Append(@, b) ELSE @]
  ELSE UNCHANGED <<pending_blocks, chain>>

-----------------------------------------------------------------------------
(* The web threads of node n.                                              *)

AddData(n) ==
  /\ accepted + 1 \in Records
  /\ accepted' = accepted + 1
  /\ pending_data' = [pending_data EXCEPT ![n] = Append(@, accepted + 1)]
  /\ late' = IF main[n].at = "clear" THEN late \union {accepted + 1} ELSE late
  /\ UNCHANGED <<chain, pending_blocks, active, online, main, calls>>

-----------------------------------------------------------------------------
(* The main loop of node n: creating and proposing a block.                *)

\* _update_active_consensus_nodes, is_my_turn and the test for an empty pool.
BeginRound(n) ==
  /\ main[n] = Loop
  /\ active' = [active EXCEPT ![n] = online[n] \union {n}]
  /\ main' = [main EXCEPT ![n] =
       IF IsMyTurn(n, active'[n], Len(chain[n])) /\ pending_data[n] # << >>
       THEN [at |-> "create"] ELSE Loop]
  /\ UNCHANGED <<chain, pending_data, pending_blocks, online, calls, accepted, late>>

\* create_block copies the pool into a new block, ...
CreateBlock(n) ==
  /\ main[n].at = "create"
  /\ main' = [main EXCEPT ![n] =
       [at |-> "clear", block |-> NextBlock(chain[n], pending_data[n])]]
  /\ UNCHANGED <<chain, pending_data, pending_blocks, active, online, calls, accepted, late>>

\* propose_block: the block gets its entry on node n, and the peers are next.
ProposeBlock(n) ==
  /\ pending_blocks' = [pending_blocks EXCEPT ![n] = WithEntry(@, main[n].block, NewEntry)]
  /\ main' = [main EXCEPT ![n] = [at |-> "propose", block |-> @.block, todo |-> online[n]]]

\* Mutant of ClearPool: the pool is not emptied.
KeepPool(n) ==
  /\ main[n].at = "clear"
  /\ ProposeBlock(n)
  /\ UNCHANGED <<chain, pending_data, active, online, calls, accepted, late>>

\* ... clears the pool, whatever that holds by now, and the block is proposed.
ClearPool(n) ==
  /\ main[n].at = "clear"
  /\ pending_data' = [pending_data EXCEPT ![n] = << >>]
  /\ ProposeBlock(n)
  /\ UNCHANGED <<chain, active, online, calls, accepted, late>>

\* broadcast_block_proposal posts to peer m, and m begins to handle it:
\* receive_block_proposal and m's own vote, unless m has confirmed the block
\* already and refuses.
PostProposal(n, m) ==
  /\ main[n].at = "propose" /\ m \in main[n].todo
  /\ LET b == main[n].block
         accepts == ~IsConfirmed(pending_blocks[m], b)
         entries == Voted(WithEntry(pending_blocks[m], b, NewEntry), b, m, active[m])
     IN  /\ pending_blocks' = [pending_blocks EXCEPT ![m] = IF accepts THEN entries ELSE @]
         /\ calls' = calls \union
              {c \in {[from |-> n, to |-> m, block |-> b, at |-> "votes", todo |-> online[m]]} : accepts}
         /\ main' = [main EXCEPT ![n] =
              [at |-> "await", block |-> b, peer |-> m, todo |-> @.todo \ {m}]]
  /\ UNCHANGED <<chain, pending_data, active, online, accepted, late>>

\* Is the request that the main loop of n waits for still being handled?
Waiting(n) ==
  \E c \in calls : c.from = n /\ c.to = main[n].peer /\ c.block = main[n].block

Proposing(n) == [at |-> "propose", block |-> main[n].block, todo |-> main[n].todo]

\* The answer of the peer is there.
ProposalAnswered(n) ==
  /\ main[n].at = "await" /\ ~Waiting(n)
  /\ main' = [main EXCEPT ![n] = Proposing(n)]
  /\ UNCHANGED <<chain, pending_data, pending_blocks, active, online, calls, accepted, late>>

\* Mutant of VoteForOwnBlock: the vote is broadcast but not cast.
OnlyBroadcastOwnVote(n) ==
  /\ main[n].at = "propose" /\ main[n].todo = {}
  /\ main' = [main EXCEPT ![n] = [at |-> "votes", block |-> @.block, todo |-> online[n]]]
  /\ UNCHANGED <<chain, pending_data, pending_blocks, active, online, calls, accepted, late>>

\* Every peer was asked: the leader votes itself and starts broadcast_vote.
VoteForOwnBlock(n) ==
  /\ main[n].at = "propose" /\ main[n].todo = {}
  /\ LET b == main[n].block
     IN  /\ pending_blocks' = [pending_blocks EXCEPT ![n] =
              IF CanVote(@, b, n) THEN Voted(@, b, n, active[n]) ELSE @]
         /\ main' = [main EXCEPT ![n] = [at |-> "votes", block |-> b, todo |-> online[n]]]
  /\ UNCHANGED <<chain, pending_data, active, online, calls, accepted, late>>

\* broadcast_vote posts the leader's vote to peer p.
PostOwnVote(n, p) ==
  /\ main[n].at = "votes" /\ p \in main[n].todo
  /\ TakeVote(p, main[n].block, n)
  /\ main' = [main EXCEPT ![n].todo = @ \ {p}]
  /\ UNCHANGED <<pending_data, active, online, calls, accepted, late>>

\* get_confirmed_block and the validation in add_block; a block that is not
\* confirmed, or not valid any more, is left alone.
FinishRound(n) ==
  /\ main[n].at = "votes" /\ main[n].todo = {}
  /\ main' = [main EXCEPT ![n] =
       IF MayAppend(n, pending_blocks[n], main[n].block)
       THEN [at |-> "append", block |-> main[n].block] ELSE Loop]
  /\ UNCHANGED <<chain, pending_data, pending_blocks, active, online, calls, accepted, late>>

\* The append in add_block.
AppendOwnBlock(n) ==
  /\ main[n].at = "append"
  /\ chain' = [chain EXCEPT ![n] = Append(@, main[n].block)]
  /\ main' = [main EXCEPT ![n] = Loop]
  /\ UNCHANGED <<pending_data, pending_blocks, active, online, calls, accepted, late>>

-----------------------------------------------------------------------------
(* The main loop of node n: _sync_chain_from_peers.                        *)

\* What node p answers to /p2p/chain/info.
ChainHeight(p) == Len(chain[p]) - 1

\* Mutant of FindBestPeer: one block is not worth the trouble.
FindMuchBetterPeer(n) ==
  /\ main[n] = Loop
  /\ \E m \in online[n] :
       /\ ChainHeight(m) > ChainHeight(n) + 1
       /\ main' = [main EXCEPT ![n] = [at |-> "fetch", peer |-> m]]
  /\ UNCHANGED <<chain, pending_data, pending_blocks, active, online, calls, accepted, late>>

\* The online peers are asked for their heights, one after the other and while
\* the chains go on growing, and any of them may not answer: the one that comes
\* out as the best has a longer chain than ours, but by now maybe not the longest.
FindBestPeer(n) ==
  /\ main[n] = Loop
  /\ \E m \in online[n] :
       /\ ChainHeight(m) > ChainHeight(n)
       /\ main' = [main EXCEPT ![n] = [at |-> "fetch", peer |-> m]]
  /\ UNCHANGED <<chain, pending_data, pending_blocks, active, online, calls, accepted, late>>

\* /p2p/chain/sync, and sync_chain up to its decision.
FetchChain(n) ==
  /\ main[n].at = "fetch"
  /\ LET remote == chain[main[n].peer]
     IN  main' = [main EXCEPT ![n] =
           IF Outweighs(remote, chain[n])
           THEN [at |-> "replace", remote |-> remote] ELSE Loop]
  /\ UNCHANGED <<chain, pending_data, pending_blocks, active, online, calls, accepted, late>>

\* Mutant of ReplaceChain: the new blocks replace the chain, not its end.
ReplaceWithMissingBlocks(n) ==
  /\ main[n].at = "replace"
  /\ chain' = [chain EXCEPT ![n] =
       SubSeq(main[n].remote, Len(@) + 1, Len(main[n].remote))]
  /\ main' = [main EXCEPT ![n] = Loop]
  /\ UNCHANGED <<pending_data, pending_blocks, active, online, calls, accepted, late>>

\* The assignment in sync_chain.
ReplaceChain(n) ==
  /\ main[n].at = "replace"
  /\ chain' = [chain EXCEPT ![n] = main[n].remote]
  /\ main' = [main EXCEPT ![n] = Loop]
  /\ UNCHANGED <<pending_data, pending_blocks, active, online, calls, accepted, late>>

-----------------------------------------------------------------------------
(* handle_block_propose, on the node c.to, after its own vote.             *)

\* broadcast_vote posts the handler's vote to peer p.
PostVote(c, p) ==
  /\ c.at = "votes" /\ p \in c.todo
  /\ TakeVote(p, c.block, c.to)
  /\ calls' = (calls \ {c}) \union {[c EXCEPT !.todo = @ \ {p}]}
  /\ UNCHANGED <<pending_data, active, online, main, accepted, late>>

\* get_confirmed_block and the validation in add_block; the request is
\* answered if there is nothing to append.
FinishCall(c) ==
  /\ c.at = "votes" /\ c.todo = {}
  /\ calls' = (calls \ {c}) \union
       (IF MayAppend(c.to, pending_blocks[c.to], c.block)
        THEN {[c EXCEPT !.at = "append"]} ELSE {})
  /\ UNCHANGED <<chain, pending_data, pending_blocks, active, online, main, accepted, late>>

\* The append in add_block, and the answer.
AppendBlock(c) ==
  /\ c.at = "append"
  /\ chain' = [chain EXCEPT ![c.to] = Append(@, c.block)]
  /\ calls' = calls \ {c}
  /\ UNCHANGED <<pending_data, pending_blocks, active, online, main, accepted, late>>

-----------------------------------------------------------------------------
(* The network.                                                            *)

\* A proposal cannot be delivered: the peer is taken for offline.
LoseProposal(n, m) ==
  /\ "lost" \in Faults
  /\ main[n].at = "propose" /\ m \in main[n].todo
  /\ online' = [online EXCEPT ![n] = @ \ {m}]
  /\ main' = [main EXCEPT ![n].todo = @ \ {m}]
  /\ UNCHANGED <<chain, pending_data, pending_blocks, active, calls, accepted, late>>

\* The leader does not wait longer than ten seconds; the peer goes on.
TimeOutProposal(n) ==
  /\ "timeout" \in Faults
  /\ main[n].at = "await" /\ Waiting(n)
  /\ online' = [online EXCEPT ![n] = @ \ {main[n].peer}]
  /\ main' = [main EXCEPT ![n] = Proposing(n)]
  /\ UNCHANGED <<chain, pending_data, pending_blocks, active, calls, accepted, late>>

\* A vote cannot be delivered: nobody is told.
LoseOwnVote(n, p) ==
  /\ "lost" \in Faults
  /\ main[n].at = "votes" /\ p \in main[n].todo
  /\ main' = [main EXCEPT ![n].todo = @ \ {p}]
  /\ UNCHANGED <<chain, pending_data, pending_blocks, active, online, calls, accepted, late>>

LoseVote(c, p) ==
  /\ "lost" \in Faults
  /\ c.at = "votes" /\ p \in c.todo
  /\ calls' = (calls \ {c}) \union {[c EXCEPT !.todo = @ \ {p}]}
  /\ UNCHANGED <<chain, pending_data, pending_blocks, active, online, main, accepted, late>>

\* The chain cannot be fetched; the next sync tries again.
LoseFetch(n) ==
  /\ "lost" \in Faults
  /\ main[n].at = "fetch"
  /\ main' = [main EXCEPT ![n] = Loop]
  /\ UNCHANGED <<chain, pending_data, pending_blocks, active, online, calls, accepted, late>>

\* Heartbeats, sent or received, change what n thinks of its peers.
HeartbeatFails(n, m) ==
  /\ "lost" \in Faults /\ m \in online[n]
  /\ online' = [online EXCEPT ![n] = @ \ {m}]
  /\ UNCHANGED <<chain, pending_data, pending_blocks, active, main, calls, accepted, late>>

HeartbeatSucceeds(n, m) ==
  /\ m \in Peers(n) \ online[n]
  /\ online' = [online EXCEPT ![n] = @ \union {m}]
  /\ UNCHANGED <<chain, pending_data, pending_blocks, active, main, calls, accepted, late>>

-----------------------------------------------------------------------------

ProposeStep(n) ==
  \/ BeginRound(n) \/ CreateBlock(n) \/ ClearPool(n) \/ ProposalAnswered(n)
  \/ VoteForOwnBlock(n) \/ FinishRound(n) \/ AppendOwnBlock(n)
  \/ \E p \in Peers(n) : PostProposal(n, p) \/ PostOwnVote(n, p)

SyncStep(n) == FindBestPeer(n) \/ FetchChain(n) \/ ReplaceChain(n)

CallStep(c) ==
  FinishCall(c) \/ AppendBlock(c) \/ \E p \in Peers(c.to) : PostVote(c, p)

NetworkFault ==
  \/ \E n \in Nodes : TimeOutProposal(n) \/ LoseFetch(n)
  \/ \E n \in Nodes, m \in Nodes :
       LoseProposal(n, m) \/ LoseOwnVote(n, m) \/ HeartbeatFails(n, m)
  \/ \E c \in calls, p \in Nodes : LoseVote(c, p)

Next ==
  \/ \E n \in Nodes : AddData(n) \/ ProposeStep(n) \/ SyncStep(n)
  \/ \E n \in Nodes, m \in Nodes : HeartbeatSucceeds(n, m)
  \/ \E c \in calls : CallStep(c)
  \/ NetworkFault

Spec == Init /\ [][Next]_vars

\* The main loop and the request threads of every server keep running, and the
\* loop comes round to _sync_chain_from_peers once a minute.
FairSpec ==
  /\ Spec
  /\ \A n \in Nodes : WF_vars(ProposeStep(n)) /\ WF_vars(SyncStep(n))
  /\ WF_vars(\E c \in calls : CallStep(c))

-----------------------------------------------------------------------------
(* Properties.                                                             *)

Chains == Seq(Blocks)

Rounds ==
  {Loop} \union [at : {"create"}]
         \union [at : {"propose", "votes"}, block : Blocks, todo : SUBSET Nodes]
         \union [at : {"await"}, block : Blocks, todo : SUBSET Nodes, peer : Nodes]
         \union [at : {"clear", "append"}, block : Blocks]
         \union [at : {"fetch"}, peer : Nodes]
         \union [at : {"replace"}, remote : Chains]

TypeOK ==
  /\ chain \in [Nodes -> Chains \ {<< >>}]
  /\ pending_data \in [Nodes -> Seq(Records)]
  /\ DOMAIN pending_blocks = Nodes
  /\ \A n \in Nodes : \A b \in DOMAIN pending_blocks[n] :
       /\ b \in Blocks
       /\ pending_blocks[n][b].voters \subseteq Nodes
       /\ pending_blocks[n][b].status \in {"pending", "confirmed", "rejected"}
  /\ \A n \in Nodes : n \in active[n] /\ active[n] \subseteq Nodes /\ online[n] \subseteq Peers(n)
  /\ main \in [Nodes -> Rounds]
  /\ calls \subseteq [from : Nodes, to : Nodes, block : Blocks,
                      at : {"votes", "append"}, todo : SUBSET Nodes]
  /\ accepted \in Nat /\ late \subseteq Records

\* No two servers ever disagree about a block: of any two chains one is a
\* prefix of the other, whatever each of them is doing.
Agreement ==
  \A n, m \in Nodes : IsPrefix(chain[n], chain[m]) \/ IsPrefix(chain[m], chain[n])

\* Every chain, and every chain about to replace one, is what sync_chain and
\* _validate_block are there to guarantee.
ChainsWellFormed ==
  \A n \in Nodes : /\ WellFormed(chain[n])
                   /\ main[n].at = "replace" => WellFormed(main[n].remote)

Shared == INSTANCE SharedLog
          WITH Servers <- Nodes, received <- accepted,
               known <- [n \in Nodes |-> TrailOf(chain[n])]

\* Leaders that take turns, votes that overtake proposals and chains fetched from
\* one another implement one log that every server only moves forward along:
\* none takes a block back, not even to adopt a longer chain.
ImplementsSharedLog == Shared!Spec

BeingProposed(n) ==
  IF main[n].at \in {"propose", "await", "votes", "append"}
  THEN ToSet(main[n].block.data_list) ELSE {}

\* Every record that a server accepted is in its pool, in a block whose leader
\* is still at it, or on a chain; except those that joined a pool after its copy
\* went into a block, which the clearing of the pool drops.
NothingLost ==
  (1..accepted) \ late \subseteq
    UNION {ToSet(pending_data[n]) \union BeingProposed(n) \union RecordsOn(chain[n]) : n \in Nodes}

BlocksOn(n) == ToSet(chain[n]) \ {Genesis}

\* No block gets on a chain, be it appended or fetched, unless the votes that
\* some server counted confirmed it.
OnlyConfirmedBlocks ==
  \A n \in Nodes : \A b \in BlocksOn(n) : \E m \in Nodes :
    b \in DOMAIN pending_blocks[m] /\ pending_blocks[m][b].status = "confirmed"

\* A vote that anybody counts was cast: its voter counted it first.
VotesAreCast ==
  \A n \in Nodes : \A b \in DOMAIN pending_blocks[n] :
    \A voter \in pending_blocks[n][b].voters :
      b \in DOMAIN pending_blocks[voter] /\ voter \in pending_blocks[voter][b].voters

\* A record is sealed into one block only, and not while it is in a pool: a
\* leader whose block came to nothing, or was timed out, does not seal its
\* records again.
SealedOnce ==
  /\ \A n, m \in Nodes : \A b \in DOMAIN pending_blocks[n], d \in DOMAIN pending_blocks[m] :
       b # d => ToSet(b.data_list) \intersect ToSet(d.data_list) = {}
  /\ \A n, m \in Nodes : \A b \in DOMAIN pending_blocks[n] :
       ToSet(b.data_list) \intersect ToSet(pending_data[m]) = {}

\* A record on one chain reaches all of them, also where the votes for its
\* block came before the proposal and were dropped.
EventuallyEverywhere ==
  \A r \in Records :
    (\E n \in Nodes : r \in RecordsOn(chain[n])) ~> (\A n \in Nodes : r \in RecordsOn(chain[n]))

=============================================================================
