---------------------------- MODULE ClusterProofs ----------------------------
(***************************************************************************)
(* Proofs about Cluster, for every set of nodes and records.  The first    *)
(* part holds whatever the network does.  The second is about a network    *)
(* that loses nothing, in the small clusters in which an open block needs  *)
(* every vote; the runs and findings show what becomes of its theorems     *)
(* when calls get lost.                                                    *)
(***************************************************************************)
EXTENDS Cluster, BlockProofs, FiniteSetTheorems, TLAPS

-----------------------------------------------------------------------------
(* What the proofs talk about: the entries of a node, the records of a     *)
(* block and of a pool, and the leaders that have a block out.             *)

Known(n) == DOMAIN pending_blocks[n]
Votes(n, b) == IF b \in Known(n) THEN pending_blocks[n][b].voters ELSE {}
Status(n, b) == IF b \in Known(n) THEN pending_blocks[n][b].status ELSE "none"

Data(b) == ToSet(b.data_list)
Pool(n) == ToSet(pending_data[n])

HasBlock(n) == main[n].at \in {"propose", "await", "votes", "append"}

\* Some server has counted enough votes for b.
Vouched(b) == b = Genesis \/ \E m \in Nodes : Status(m, b) = "confirmed"

AllVouched(c) == \A i \in DOMAIN c : Vouched(c[i])

-----------------------------------------------------------------------------
(* The invariant that holds whatever the network does.                     *)

Entries ==
  /\ pending_blocks = [n \in Nodes |-> pending_blocks[n]]
  /\ \A n \in Nodes : Known(n) \subseteq Blocks
  /\ \A n \in Nodes : \A b \in Known(n) :
       /\ Votes(n, b) \subseteq Nodes
       /\ Status(n, b) \in {"pending", "confirmed", "rejected"}

Types ==
  /\ chain \in [Nodes -> Chains \ {<< >>}]
  /\ pending_data \in [Nodes -> Seq(Records)]
  /\ active \in [Nodes -> SUBSET Nodes] /\ online \in [Nodes -> SUBSET Nodes]
  /\ \A n \in Nodes : n \in active[n] /\ online[n] \subseteq Peers(n)
  /\ main \in [Nodes -> Rounds]
  /\ calls \subseteq [from : Nodes, to : Nodes, block : Blocks,
                      at : {"votes", "append"}, todo : SUBSET Nodes]
  /\ accepted \in Nat /\ late \subseteq Records

\* A leader seals a filled pool, whose records stay there until it is cleared;
\* it knows the block it sealed and shares it with no other leader; a chain that
\* was fetched has a block.
Leading(n) ==
  /\ main[n].at = "create" => pending_data[n] # << >>
  /\ main[n].at = "clear" => Data(main[n].block) # {} /\ Data(main[n].block) \subseteq Pool(n)
  /\ HasBlock(n) => main[n].block \in Known(n)
  /\ HasBlock(n) => \A m \in Nodes : HasBlock(m) /\ main[n].block = main[m].block => n = m
  /\ main[n].at = "replace" => main[n].remote # << >>

\* Every record is in one place, a pool or a sealed block, and was accepted.
Sealing ==
  /\ \A n, m \in Nodes : \A b \in Known(n), d \in Known(m) :
       b # d => Data(b) \intersect Data(d) = {}
  /\ \A n, m \in Nodes : \A b \in Known(n) : Data(b) \intersect Pool(m) = {}
  /\ \A n, m \in Nodes : n # m => Pool(n) \intersect Pool(m) = {}
  /\ \A n \in Nodes : \A r \in Pool(n) : r <= accepted
  /\ \A n \in Nodes : \A b \in Known(n) : \A r \in Data(b) : r <= accepted

\* Whoever broadcasts a vote has cast it.
Casting ==
  /\ \A n \in Nodes : \A b \in Known(n) : \A voter \in Votes(n, b) : voter \in Votes(voter, b)
  /\ \A n \in Nodes : main[n].at \in {"votes", "append"} => n \in Votes(n, main[n].block)
  /\ \A c \in calls : c.block \in Known(c.to) /\ c.to \in Votes(c.to, c.block)

\* What is on a chain, or about to get there, was confirmed.
Vouching ==
  /\ \A n \in Nodes : AllVouched(chain[n])
  /\ \A n \in Nodes : main[n].at = "replace" => AllVouched(main[n].remote)
  /\ \A n \in Nodes : main[n].at = "append" => Status(n, main[n].block) = "confirmed"
  /\ \A c \in calls : c.at = "append" => Status(c.to, c.block) = "confirmed"

Inv == Entries /\ Types /\ (\A n \in Nodes : Leading(n)) /\ Sealing /\ Casting /\ Vouching

-----------------------------------------------------------------------------
(* Rounds and entries.                                                     *)

\* What a round holds.
LEMMA RoundFields ==
  ASSUME NEW r \in Rounds
  PROVE  /\ r.at \in {"loop", "create", "clear", "propose", "votes", "await", "append",
                     "fetch", "replace"}
         /\ r.at \in {"clear", "propose", "votes", "await", "append"} => r.block \in Blocks
         /\ r.at \in {"propose", "votes", "await"} => r.todo \subseteq Nodes
         /\ r.at \in {"await", "fetch"} => r.peer \in Nodes
         /\ r.at = "replace" => r.remote \in Chains
BY DEF Rounds, Loop

\* How a round is made.
LEMMA RoundMade ==
  ASSUME NEW b \in Blocks, NEW t \in SUBSET Nodes, NEW p \in Nodes, NEW c \in Chains
  PROVE  /\ Loop \in Rounds /\ [at |-> "create"] \in Rounds
         /\ [at |-> "propose", block |-> b, todo |-> t] \in Rounds
         /\ [at |-> "votes", block |-> b, todo |-> t] \in Rounds
         /\ [at |-> "await", block |-> b, peer |-> p, todo |-> t] \in Rounds
         /\ [at |-> "clear", block |-> b] \in Rounds
         /\ [at |-> "append", block |-> b] \in Rounds
         /\ [at |-> "fetch", peer |-> p] \in Rounds
         /\ [at |-> "replace", remote |-> c] \in Rounds
BY DEF Rounds

\* A peer less to ask or to tell leaves a round a round.
LEMMA RoundShorter ==
  ASSUME NEW r \in Rounds, r.at \in {"propose", "votes"}, NEW p
  PROVE  /\ [r EXCEPT !.todo = @ \ {p}] \in Rounds
         /\ [r EXCEPT !.todo = @ \ {p}].at = r.at
         /\ [r EXCEPT !.todo = @ \ {p}].block = r.block
         /\ [r EXCEPT !.todo = @ \ {p}].todo = r.todo \ {p}
BY DEF Rounds, Loop

\* The entry of b on p, and no other, changes to the voters v and the status s.
EntrySet(p, b, v, s) ==
  /\ pending_blocks' = [n \in Nodes |-> pending_blocks'[n]]
  /\ \A n \in Nodes : Known(n)' = IF n = p THEN Known(n) \union {b} ELSE Known(n)
  /\ \A n \in Nodes : \A x : n # p \/ x # b =>
       Votes(n, x)' = Votes(n, x) /\ Status(n, x)' = Status(n, x)
  /\ Votes(p, b)' = v /\ Status(p, b)' = s

LEMMA SetEntry ==
  ASSUME pending_blocks = [n \in Nodes |-> pending_blocks[n]], NEW p \in Nodes, NEW b, NEW e,
         pending_blocks' = [pending_blocks EXCEPT ![p] = WithEntry(@, b, e)]
  PROVE  EntrySet(p, b, e.voters, e.status)
<1>1. /\ pending_blocks' = [n \in Nodes |-> pending_blocks'[n]]
      /\ pending_blocks'[p] = WithEntry(pending_blocks[p], b, e)
      /\ \A n \in Nodes : n # p => pending_blocks'[n] = pending_blocks[n]
  OBVIOUS
<1>2. \A n \in Nodes : Known(n)' = IF n = p THEN Known(n) \union {b} ELSE Known(n)
  BY <1>1 DEF Known, WithEntry
<1>3. \A x \in Known(p) \union {b} :
        pending_blocks'[p][x] = IF x = b THEN e ELSE pending_blocks[p][x]
  BY <1>1 DEF Known, WithEntry
<1> QED
  BY <1>1, <1>2, <1>3 DEF EntrySet, Votes, Status

\* Entries that nobody touches stay as they are.
LEMMA SameEntries ==
  ASSUME UNCHANGED pending_blocks
  PROVE  /\ Entries => Entries'
         /\ \A n : Known(n)' = Known(n)
         /\ \A n, x : Votes(n, x)' = Votes(n, x) /\ Status(n, x)' = Status(n, x)
         /\ \A x : Vouched(x)' = Vouched(x)
BY DEF Entries, Known, Votes, Status, Vouched

-----------------------------------------------------------------------------
(* What the handlers do to the entries and the chains.                     *)

\* The status of the entry of b on p once the vote is counted.
StatusAfter(p, b, voter) ==
  IF Status(p, b) = "pending"
  THEN Verdict(Cardinality(Votes(p, b) \union {voter}), Cardinality(active[p]))
  ELSE Status(p, b)

LEMMA VerdictType ==
  ASSUME NEW approve, NEW total
  PROVE  Verdict(approve, total) \in {"pending", "confirmed", "rejected"}
BY DEF Verdict

LEMMA VotedEffect ==
  ASSUME Entries, NEW p \in Nodes, NEW b, NEW voter,
         CanVote(pending_blocks[p], b, voter)
  PROVE  /\ b \in Known(p) /\ voter \notin Votes(p, b)
         /\ pending_blocks' = [pending_blocks EXCEPT
              ![p] = Voted(pending_blocks[p], b, voter, active[p])]
              => EntrySet(p, b, Votes(p, b) \union {voter}, StatusAfter(p, b, voter))
         /\ IsConfirmed(Voted(pending_blocks[p], b, voter, active[p]), b)
              <=> StatusAfter(p, b, voter) = "confirmed"
<1> DEFINE e == [voters |-> Votes(p, b) \union {voter}, status |-> StatusAfter(p, b, voter)]
<1>1. b \in Known(p) /\ voter \notin Votes(p, b)
  BY DEF CanVote, Known, Votes
<1>2. Voted(pending_blocks[p], b, voter, active[p]) = WithEntry(pending_blocks[p], b, e)
  BY <1>1 DEF Voted, Votes, Status, StatusAfter
<1>3. b \in DOMAIN WithEntry(pending_blocks[p], b, e)
      /\ WithEntry(pending_blocks[p], b, e)[b] = e
  BY DEF WithEntry
<1>4. e.voters = Votes(p, b) \union {voter} /\ e.status = StatusAfter(p, b, voter)
  OBVIOUS
<1> HIDE DEF e
<1>5. IsConfirmed(Voted(pending_blocks[p], b, voter, active[p]), b)
        <=> StatusAfter(p, b, voter) = "confirmed"
  BY <1>2, <1>3, <1>4 DEF IsConfirmed
<1>6. pending_blocks' = [pending_blocks EXCEPT
        ![p] = Voted(pending_blocks[p], b, voter, active[p])]
        => EntrySet(p, b, e.voters, e.status)
  BY <1>2, SetEntry DEF Entries
<1> QED
  BY <1>1, <1>4, <1>5, <1>6

\* A vote that counts may put its block on the chain; another changes nothing.
LEMMA TakeVoteEffect ==
  ASSUME Entries, NEW p \in Nodes, NEW b, NEW voter, TakeVote(p, b, voter)
  PROVE  \/ /\ b \notin Known(p) \/ voter \in Votes(p, b)
            /\ UNCHANGED <<pending_blocks, chain>>
         \/ /\ b \in Known(p) /\ voter \notin Votes(p, b)
            /\ EntrySet(p, b, Votes(p, b) \union {voter}, StatusAfter(p, b, voter))
            /\ chain' = [chain EXCEPT ![p] =
                 IF StatusAfter(p, b, voter) = "confirmed" /\ ValidateBlock(chain[p], b)
                 THEN Append(chain[p], b) ELSE chain[p]]
<1>1. CASE ~CanVote(pending_blocks[p], b, voter)
  BY <1>1 DEF TakeVote, CanVote, Known, Votes
<1>2. CASE CanVote(pending_blocks[p], b, voter)
  <2> DEFINE entries == Voted(pending_blocks[p], b, voter, active[p])
  <2>1. /\ pending_blocks' = [pending_blocks EXCEPT ![p] = entries]
        /\ chain' = [chain EXCEPT ![p] =
             IF MayAppend(p, entries, b) THEN Append(@, b) ELSE @]
    BY <1>2 DEF TakeVote
  <2>2. MayAppend(p, entries, b)
          <=> StatusAfter(p, b, voter) = "confirmed" /\ ValidateBlock(chain[p], b)
    BY <1>2, VotedEffect DEF MayAppend
  <2> HIDE DEF entries
  <2>3. chain' = [chain EXCEPT ![p] =
          IF StatusAfter(p, b, voter) = "confirmed" /\ ValidateBlock(chain[p], b)
          THEN Append(chain[p], b) ELSE chain[p]]
    BY <2>1, <2>2
  <2>4. /\ b \in Known(p) /\ voter \notin Votes(p, b)
        /\ EntrySet(p, b, Votes(p, b) \union {voter}, StatusAfter(p, b, voter))
    BY <1>2, <2>1, VotedEffect DEF entries
  <2> QED
    BY <2>3, <2>4
<1> QED
  BY <1>1, <1>2

Request(n, m, b) == [from |-> n, to |-> m, block |-> b, at |-> "votes", todo |-> online[m]]

\* A proposal resets the entry on the peer, unless the peer has confirmed the
\* block already.
LEMMA ProposalEffect ==
  ASSUME Entries, NEW n \in Nodes, NEW m \in Nodes, PostProposal(n, m),
         NEW b, b = main[n].block
  PROVE  \/ /\ Status(m, b) = "confirmed" /\ b \in Known(m)
            /\ UNCHANGED <<pending_blocks, calls>>
         \/ /\ Status(m, b) # "confirmed"
            /\ EntrySet(m, b, {m}, Verdict(Cardinality({m}), Cardinality(active[m])))
            /\ calls' = calls \union {Request(n, m, b)}
<1> DEFINE fresh == WithEntry(pending_blocks[m], b, NewEntry)
           e == [voters |-> {m}, status |-> Verdict(Cardinality({m}), Cardinality(active[m]))]
<1>1. IsConfirmed(pending_blocks[m], b) <=> Status(m, b) = "confirmed"
  BY DEF IsConfirmed, Status, Known
<1>2. CASE IsConfirmed(pending_blocks[m], b)
  <2>1. b \in Known(m)
    BY <1>2 DEF IsConfirmed, Known
  <2>2. pending_blocks' = [pending_blocks EXCEPT ![m] = pending_blocks[m]] /\ calls' = calls
    BY <1>2 DEF PostProposal
  <2>3. UNCHANGED pending_blocks
    BY <2>2 DEF Entries
  <2> QED
    BY <1>1, <1>2, <2>1, <2>2, <2>3
<1>3. CASE ~IsConfirmed(pending_blocks[m], b)
  <2>1. /\ pending_blocks' = [pending_blocks EXCEPT ![m] = Voted(fresh, b, m, active[m])]
        /\ calls' = calls \union {Request(n, m, b)}
    BY <1>3 DEF PostProposal, Request
  <2>2. DOMAIN fresh = Known(m) \union {b} /\ fresh[b] = NewEntry
        /\ \A x \in Known(m) : x # b => fresh[x] = pending_blocks[m][x]
    BY DEF WithEntry, Known
  <2>3. fresh[b].voters \union {m} = {m} /\ fresh[b].status = "pending"
    BY <2>2 DEF NewEntry
  <2> HIDE DEF fresh
  <2>4. Voted(fresh, b, m, active[m]) = WithEntry(fresh, b, e)
    BY <2>3 DEF Voted
  <2>5. WithEntry(fresh, b, e) = WithEntry(pending_blocks[m], b, e)
    BY <2>2 DEF WithEntry, Known
  <2>6. EntrySet(m, b, e.voters, e.status)
    BY <2>1, <2>4, <2>5, SetEntry DEF Entries
  <2> QED
    BY <1>1, <1>3, <2>1, <2>6
<1> QED
  BY <1>2, <1>3

-----------------------------------------------------------------------------
(* The steps that touch no entry, no pool and no chain.                    *)

LEMMA InitInv == Init => Inv
<1> SUFFICES ASSUME Init
             PROVE  Inv
  OBVIOUS
<1>1. /\ \A n \in Nodes : Known(n) = {} /\ pending_data[n] = << >> /\ main[n] = Loop
      /\ \A n \in Nodes : Pool(n) = {} /\ chain[n] = <<Genesis>>
      /\ Entries
  BY DEF Init, Known, Pool, Entries, ToSet
<1>2. Types
  <2>1. <<Genesis>> \in Chains \ {<< >>} /\ << >> \in Seq(Records)
    BY GenesisType, EmptySeq DEF Chains
  <2>2. Loop \in Rounds
    BY DEF Rounds
  <2> QED
    BY <2>1, <2>2 DEF Init, Types, Peers
<1>3. \A n \in Nodes : AllVouched(chain[n])
  BY <1>1 DEF AllVouched, Vouched
<1> QED
  BY <1>1, <1>2, <1>3 DEF Init, Inv, Leading, Sealing, Casting, Vouching, HasBlock, Loop

\* The main loop of a server goes on to r.
LEMMA MainMoves ==
  ASSUME Inv, NEW n \in Nodes, NEW r \in Rounds,
         main' = [main EXCEPT ![n] = r],
         UNCHANGED <<chain, pending_data, pending_blocks, calls, accepted, late>>,
         active' \in [Nodes -> SUBSET Nodes], online' \in [Nodes -> SUBSET Nodes],
         \A k \in Nodes : k \in active'[k] /\ online'[k] \subseteq Peers(k),
         r.at = "create" => pending_data[n] # << >>,
         r.at = "clear" => Data(r.block) # {} /\ Data(r.block) \subseteq Pool(n),
         r.at \in {"propose", "await", "votes", "append"} =>
           HasBlock(n) /\ r.block = main[n].block,
         r.at \in {"votes", "append"} => n \in Votes(n, r.block),
         r.at = "append" => Status(n, r.block) = "confirmed",
         r.at = "replace" => r.remote # << >> /\ AllVouched(r.remote)
  PROVE  Inv'
<1>1. /\ main'[n] = r /\ main' \in [Nodes -> Rounds]
      /\ \A k \in Nodes : k # n => main'[k] = main[k]
  BY DEF Inv, Types
<1>2. /\ \A k : Known(k)' = Known(k) /\ Pool(k)' = Pool(k)
      /\ \A k, x : Votes(k, x)' = Votes(k, x) /\ Status(k, x)' = Status(k, x)
      /\ Entries'
  BY SameEntries DEF Inv, Pool
<1>3. \A c : AllVouched(c)' = AllVouched(c)
  BY <1>2 DEF AllVouched, Vouched
<1>4. \A k \in Nodes : Leading(k)'
  <2>1. \A k \in Nodes : HasBlock(k)' => HasBlock(k) /\ main'[k].block = main[k].block
    BY <1>1 DEF HasBlock
  <2> QED
    BY <1>1, <1>2, <2>1 DEF Inv, Leading
<1>5. Types'
  BY <1>1 DEF Inv, Types
<1>6. Sealing'
  BY <1>2 DEF Inv, Sealing
<1>7. Casting'
  BY <1>1, <1>2 DEF Inv, Casting
<1>8. Vouching'
  BY <1>1, <1>2, <1>3 DEF Inv, Vouching
<1> QED
  BY <1>2, <1>4, <1>5, <1>6, <1>7, <1>8 DEF Inv

\* The block that a leader makes has the records of its pool.
LEMMA SealedPool ==
  ASSUME Inv, NEW n \in Nodes, main[n].at = "create"
  PROVE  LET b == NextBlock(chain[n], pending_data[n])
         IN  /\ b \in Blocks /\ Data(b) = Pool(n) /\ Data(b) # {}
             /\ ValidateBlock(chain[n], b) /\ b.data_list # << >>
<1> PICK b : b = NextBlock(chain[n], pending_data[n])
  OBVIOUS
<1>1. /\ pending_data[n] # << >>
      /\ chain[n] \in Seq(Blocks) /\ chain[n] # << >> /\ pending_data[n] \in Seq(Records)
  BY DEF Inv, Leading, Types, Chains
<1>2. /\ b \in Blocks /\ b.data_list = pending_data[n]
      /\ ValidateBlock(chain[n], b) /\ b.data_list # << >>
  BY <1>1, NextBlockValid
<1>3. 1 \in DOMAIN pending_data[n]
  BY <1>1, RecordElements, EmptySeq
<1> QED
  BY <1>2, <1>3 DEF Data, Pool, ToSet

\* Nothing but the main loop of one server moves in most of its steps.
LEMMA MainStepsInv ==
  ASSUME Inv, NEW n \in Nodes,
         \/ BeginRound(n) \/ CreateBlock(n) \/ ProposalAnswered(n) \/ FinishRound(n)
         \/ FindBestPeer(n) \/ FetchChain(n)
         \/ TimeOutProposal(n) \/ LoseFetch(n)
         \/ \E m \in Nodes : LoseProposal(n, m) \/ LoseOwnVote(n, m)
  PROVE  Inv'
<1>1. /\ main[n] \in Rounds /\ n \in active[n] /\ active[n] \subseteq Nodes
      /\ online[n] \subseteq Peers(n)
      /\ \A k \in Nodes : k \in active[k] /\ active[k] \subseteq Nodes /\ online[k] \subseteq Peers(k)
      /\ active \in [Nodes -> SUBSET Nodes] /\ online \in [Nodes -> SUBSET Nodes]
  BY DEF Inv, Types
<1>2. CASE BeginRound(n)
  <2> DEFINE r == IF IsMyTurn(n, active'[n], Len(chain[n])) /\ pending_data[n] # << >>
                  THEN [at |-> "create"] ELSE Loop
  <2>1. r \in Rounds /\ r.at \in {"create", "loop"} /\ (r.at = "create" => pending_data[n] # << >>)
    BY RoundMade DEF Loop, Rounds
  <2>2. main' = [main EXCEPT ![n] = r]
    BY <1>2 DEF BeginRound
  <2> HIDE DEF r
  <2>3. /\ active' \in [Nodes -> SUBSET Nodes] /\ online' \in [Nodes -> SUBSET Nodes]
        /\ \A k \in Nodes : k \in active'[k] /\ online'[k] \subseteq Peers(k)
    BY <1>1, <1>2 DEF BeginRound, Peers
  <2> QED
    BY <1>2, <2>1, <2>2, <2>3, MainMoves DEF BeginRound
<1>3. CASE ProposalAnswered(n)
  <2>1. /\ Proposing(n) \in Rounds /\ Proposing(n).at = "propose"
        /\ Proposing(n).block = main[n].block /\ main[n].at = "await"
    BY <1>1, <1>3, RoundFields DEF ProposalAnswered, Proposing, Rounds
  <2> QED
    BY <1>1, <1>3, <2>1, MainMoves DEF ProposalAnswered, HasBlock
<1>4. CASE FinishRound(n)
  <2> DEFINE r == IF MayAppend(n, pending_blocks[n], main[n].block)
                  THEN [at |-> "append", block |-> main[n].block] ELSE Loop
  <2>1. main[n].at = "votes" /\ main[n].block \in Blocks
    BY <1>1, <1>4, RoundFields DEF FinishRound
  <2>2. r \in Rounds /\ r.at \in {"append", "loop"}
        /\ (r.at = "append" => r.block = main[n].block /\ Status(n, main[n].block) = "confirmed")
    BY <2>1 DEF Loop, Rounds, MayAppend, IsConfirmed, Status, Known
  <2>3. n \in Votes(n, main[n].block)
    BY <2>1 DEF Inv, Casting
  <2>4. main' = [main EXCEPT ![n] = r]
    BY <1>4 DEF FinishRound
  <2> HIDE DEF r
  <2> QED
    BY <1>1, <1>4, <2>1, <2>2, <2>3, <2>4, MainMoves DEF FinishRound, HasBlock
<1>5. CASE FindBestPeer(n)
  <2>1. PICK m \in online[n] : main' = [main EXCEPT ![n] = [at |-> "fetch", peer |-> m]]
    BY <1>5 DEF FindBestPeer
  <2>2. [at |-> "fetch", peer |-> m] \in Rounds
    BY <1>1 DEF Rounds, Peers
  <2> QED
    BY <1>1, <1>5, <2>1, <2>2, MainMoves DEF FindBestPeer
<1>6. CASE FetchChain(n)
  <2> DEFINE remote == chain[main[n].peer]
             r == IF Outweighs(remote, chain[n])
                  THEN [at |-> "replace", remote |-> remote] ELSE Loop
  <2>1. main[n].peer \in Nodes
    BY <1>1, <1>6, RoundFields DEF FetchChain
  <2>2. remote \in Chains /\ remote # << >> /\ AllVouched(remote)
    BY <2>1 DEF Inv, Types, Vouching
  <2>3. main' = [main EXCEPT ![n] = r]
    BY <1>6 DEF FetchChain
  <2> HIDE DEF remote
  <2>4. r \in Rounds /\ r.at \in {"replace", "loop"} /\ (r.at = "replace" => r.remote # << >> /\ AllVouched(r.remote))
    BY <2>2 DEF Loop, Rounds
  <2> HIDE DEF r
  <2> QED
    BY <1>1, <1>6, <2>3, <2>4, MainMoves DEF FetchChain
<1>7. CASE TimeOutProposal(n)
  <2>1. /\ Proposing(n) \in Rounds /\ Proposing(n).at = "propose"
        /\ Proposing(n).block = main[n].block /\ main[n].at = "await"
    BY <1>1, <1>7, RoundFields DEF TimeOutProposal, Proposing, Rounds
  <2>2. online' \in [Nodes -> SUBSET Nodes] /\ \A k \in Nodes : online'[k] \subseteq Peers(k)
    BY <1>1, <1>7 DEF TimeOutProposal
  <2> QED
    BY <1>1, <1>7, <2>1, <2>2, MainMoves DEF TimeOutProposal, HasBlock
<1>8. CASE LoseFetch(n)
  <2>1. Loop \in Rounds /\ Loop.at = "loop"
    BY DEF Rounds, Loop
  <2> QED
    BY <1>1, <1>8, <2>1, MainMoves DEF LoseFetch
<1>9. ASSUME NEW m \in Nodes, LoseProposal(n, m) \/ LoseOwnVote(n, m)
      PROVE  Inv'
  <2> DEFINE r == [main[n] EXCEPT !.todo = @ \ {m}]
  <2>1. main[n].at \in {"propose", "votes"}
    BY <1>9 DEF LoseProposal, LoseOwnVote
  <2>2. r \in Rounds /\ r.at = main[n].at /\ r.block = main[n].block
    BY <1>1, <2>1, RoundShorter
  <2>3. main' = [main EXCEPT ![n] = r]
    BY <1>9 DEF LoseProposal, LoseOwnVote
  <2> HIDE DEF r
  <2>4. online' \in [Nodes -> SUBSET Nodes] /\ \A k \in Nodes : online'[k] \subseteq Peers(k)
    <3>1. CASE LoseProposal(n, m)
      BY <1>1, <3>1 DEF LoseProposal
    <3>2. CASE LoseOwnVote(n, m)
      BY <1>1, <3>2 DEF LoseOwnVote
    <3> QED
      BY <1>9, <3>1, <3>2
  <2>5. main[n].at = "votes" => n \in Votes(n, main[n].block)
    BY DEF Inv, Casting
  <2> QED
    BY <1>1, <1>9, <2>1, <2>2, <2>3, <2>4, <2>5, MainMoves DEF LoseProposal, LoseOwnVote, HasBlock
<1>10. CASE CreateBlock(n)
  <2> PICK b : b = NextBlock(chain[n], pending_data[n])
    OBVIOUS
  <2> DEFINE r == [at |-> "clear", block |-> b]
  <2>1. b \in Blocks /\ Data(b) = Pool(n) /\ Data(b) # {}
    BY <1>10, SealedPool DEF CreateBlock
  <2>2. r \in Rounds /\ r.at = "clear" /\ r.block = b
    BY <2>1 DEF Rounds
  <2>3. main' = [main EXCEPT ![n] = r]
    BY <1>10 DEF CreateBlock
  <2> HIDE DEF r
  <2>4. /\ r.at = "clear" => Data(r.block) # {} /\ Data(r.block) \subseteq Pool(n)
        /\ UNCHANGED <<chain, pending_data, pending_blocks, calls, accepted, late>>
        /\ active' \in [Nodes -> SUBSET Nodes] /\ online' \in [Nodes -> SUBSET Nodes]
        /\ \A k \in Nodes : k \in active'[k] /\ online'[k] \subseteq Peers(k)
    BY <1>1, <1>10, <2>1, <2>2 DEF CreateBlock
  <2> QED
    BY <2>2, <2>3, <2>4, MainMoves
<1> QED
  BY <1>2, <1>3, <1>4, <1>5, <1>6, <1>7, <1>8, <1>9, <1>10

-----------------------------------------------------------------------------
(* The steps of the pools, the network and the requests.                   *)

\* A new record is in no pool and in no block.
LEMMA AddDataInv ==
  ASSUME Inv, NEW n \in Nodes, AddData(n)
  PROVE  Inv'
<1>1. /\ accepted + 1 \in Records /\ accepted' = accepted + 1 /\ accepted \in Nat
      /\ pending_data' = [pending_data EXCEPT ![n] = Append(@, accepted + 1)]
      /\ UNCHANGED <<chain, pending_blocks, active, online, main, calls>>
      /\ pending_data \in [Nodes -> Seq(Records)] /\ late' \subseteq Records
  BY DEF AddData, Inv, Types
<1>2. /\ \A k : Known(k)' = Known(k)
      /\ \A k, x : Votes(k, x)' = Votes(k, x) /\ Status(k, x)' = Status(k, x)
      /\ \A x : Vouched(x)' = Vouched(x)
      /\ Entries'
  BY <1>1, SameEntries DEF Inv
<1>3. /\ Append(pending_data[n], accepted + 1) \in Seq(Records)
      /\ Append(pending_data[n], accepted + 1) # << >>
      /\ ToSet(Append(pending_data[n], accepted + 1)) = Pool(n) \union {accepted + 1}
  BY <1>1, AppendElements DEF Pool
<1>4. \A k \in Nodes : Pool(k)' = IF k = n THEN Pool(k) \union {accepted + 1} ELSE Pool(k)
  BY <1>1, <1>3 DEF Pool
<1>5. Types'
  BY <1>1, <1>3 DEF Inv, Types
<1>6. \A k \in Nodes : Leading(k)'
  BY <1>1, <1>2, <1>3, <1>4 DEF Inv, Leading, HasBlock
<1>7. /\ \A k \in Nodes : accepted + 1 \notin Pool(k)
      /\ \A k \in Nodes : \A b \in Known(k) : accepted + 1 \notin Data(b)
  BY <1>1 DEF Inv, Sealing
<1>8. Sealing'
  <2>1. \A k, m \in Nodes : \A b \in Known(k), d \in Known(m) :
          b # d => Data(b) \intersect Data(d) = {}
    BY DEF Inv, Sealing
  <2>2. \A k, m \in Nodes : \A b \in Known(k) : Data(b) \intersect Pool(m)' = {}
    BY <1>4, <1>7 DEF Inv, Sealing
  <2>3. \A k, m \in Nodes : k # m => Pool(k)' \intersect Pool(m)' = {}
    BY <1>4, <1>7 DEF Inv, Sealing
  <2>4. \A k \in Nodes : \A r \in Pool(k)' : r <= accepted'
    <3> SUFFICES ASSUME NEW k \in Nodes, NEW r \in Pool(k)' PROVE r <= accepted'
      OBVIOUS
    <3>1. CASE r = accepted + 1
      BY <1>1, <3>1
    <3>2. CASE r \in Pool(k)
      <4>1. r \in Nat
        BY <1>1, <3>2, RecordElements DEF Pool, ToSet
      <4> QED
        BY <1>1, <3>2, <4>1 DEF Inv, Sealing
    <3> QED
      BY <1>4, <3>1, <3>2
  <2>5. \A k \in Nodes : \A b \in Known(k) : \A r \in Data(b) : r <= accepted'
    <3> SUFFICES ASSUME NEW k \in Nodes, NEW b \in Known(k), NEW r \in Data(b)
                 PROVE  r <= accepted'
      OBVIOUS
    <3>1. b.data_list \in Seq(Records)
      BY DEF Inv, Entries, Blocks
    <3>2. r \in Nat /\ r <= accepted
      BY <3>1, RecordElements DEF Data, ToSet, Inv, Sealing
    <3> QED
      BY <1>1, <3>2
  <2> QED
    BY <1>2, <2>1, <2>2, <2>3, <2>4, <2>5 DEF Sealing
<1>9. Casting' /\ Vouching'
  BY <1>1, <1>2 DEF Inv, Casting, Vouching, AllVouched
<1> QED
  BY <1>2, <1>5, <1>6, <1>8, <1>9 DEF Inv

\* What servers think of each other touches nothing else.
LEMMA HeartbeatInv ==
  ASSUME Inv, NEW n \in Nodes, NEW m \in Nodes, HeartbeatFails(n, m) \/ HeartbeatSucceeds(n, m)
  PROVE  Inv'
<1>1. UNCHANGED <<chain, pending_data, pending_blocks, active, main, calls, accepted, late>>
  BY DEF HeartbeatFails, HeartbeatSucceeds
<1>2. /\ \A k : Known(k)' = Known(k) /\ Pool(k)' = Pool(k)
      /\ \A k, x : Votes(k, x)' = Votes(k, x) /\ Status(k, x)' = Status(k, x)
      /\ \A x : Vouched(x)' = Vouched(x)
      /\ Entries'
  BY <1>1, SameEntries DEF Inv, Pool
<1>3. Types'
  <2>1. online' \in [Nodes -> SUBSET Nodes] /\ \A k \in Nodes : online'[k] \subseteq Peers(k)
    <3>1. CASE HeartbeatFails(n, m)
      BY <3>1 DEF HeartbeatFails, Inv, Types
    <3>2. CASE HeartbeatSucceeds(n, m)
      BY <3>2 DEF HeartbeatSucceeds, Inv, Types, Peers
    <3> QED
      BY <3>1, <3>2
  <2> QED
    BY <1>1, <2>1 DEF Inv, Types
<1>4. (\A k \in Nodes : Leading(k)') /\ Sealing' /\ Casting' /\ Vouching'
  BY <1>1, <1>2 DEF Inv, Leading, HasBlock, Sealing, Casting, Vouching, AllVouched
<1> QED
  BY <1>2, <1>3, <1>4 DEF Inv

\* A request is answered, goes on to append its block, or loses a vote.
LEMMA RequestInv ==
  ASSUME Inv, NEW c \in calls, FinishCall(c) \/ \E p \in Nodes : LoseVote(c, p)
  PROVE  Inv'
<1>1. UNCHANGED <<chain, pending_data, pending_blocks, active, online, main, accepted, late>>
  BY DEF FinishCall, LoseVote
<1>2. /\ \A k : Known(k)' = Known(k) /\ Pool(k)' = Pool(k)
      /\ \A k, x : Votes(k, x)' = Votes(k, x) /\ Status(k, x)' = Status(k, x)
      /\ \A x : Vouched(x)' = Vouched(x)
      /\ Entries'
  BY <1>1, SameEntries DEF Inv, Pool
<1>3. c \in [from : Nodes, to : Nodes, block : Blocks, at : {"votes", "append"}, todo : SUBSET Nodes]
  BY DEF Inv, Types
<1>4. \A d \in calls' : d \in calls \/
        /\ d \in [from : Nodes, to : Nodes, block : Blocks, at : {"votes", "append"}, todo : SUBSET Nodes]
        /\ d.to = c.to /\ d.block = c.block
        /\ d.at = "append" => c.at = "append" \/ Status(c.to, c.block) = "confirmed"
  <2>1. CASE FinishCall(c)
    <3>1. CASE MayAppend(c.to, pending_blocks[c.to], c.block)
      <4>1. Status(c.to, c.block) = "confirmed"
        BY <3>1 DEF MayAppend, IsConfirmed, Status, Known
      <4>2. calls' = (calls \ {c}) \union {[c EXCEPT !.at = "append"]}
        BY <2>1, <3>1 DEF FinishCall
      <4> QED
        BY <1>3, <4>1, <4>2
    <3>2. CASE ~MayAppend(c.to, pending_blocks[c.to], c.block)
      BY <2>1, <3>2 DEF FinishCall
    <3> QED
      BY <3>1, <3>2
  <2>2. ASSUME NEW p \in Nodes, LoseVote(c, p)
        PROVE  calls' = (calls \ {c}) \union {[c EXCEPT !.todo = @ \ {p}]}
    BY <2>2 DEF LoseVote
  <2> QED
    BY <1>3, <2>1, <2>2
<1>5. Types'
  BY <1>1, <1>4 DEF Inv, Types
<1>6. (\A k \in Nodes : Leading(k)') /\ Sealing'
  BY <1>1, <1>2 DEF Inv, Leading, HasBlock, Sealing
<1>7. Casting'
  BY <1>1, <1>2, <1>4 DEF Inv, Casting
<1>8. Vouching'
  BY <1>1, <1>2, <1>4 DEF Inv, Vouching, AllVouched
<1> QED
  BY <1>2, <1>5, <1>6, <1>7, <1>8 DEF Inv

-----------------------------------------------------------------------------
(* The steps that change entries and chains.                               *)

\* A vote that its voter has cast, or casts by this, keeps the entries in order.
LEMMA VoteCounts ==
  ASSUME Inv, NEW p \in Nodes, NEW b \in Known(p), NEW voter \in Nodes,
         voter = p \/ voter \in Votes(voter, b),
         EntrySet(p, b, Votes(p, b) \union {voter}, StatusAfter(p, b, voter))
  PROVE  /\ Entries'
         /\ \A n \in Nodes : Known(n)' = Known(n)
         /\ \A n \in Nodes : \A x : /\ Votes(n, x) \subseteq Votes(n, x)'
                                    /\ Status(n, x) = "confirmed" => Status(n, x)' = "confirmed"
         /\ voter \in Votes(p, b)'
         /\ StatusAfter(p, b, voter) = Status(p, b)'
         /\ \A x : Vouched(x) => Vouched(x)'
         /\ \A n \in Nodes : \A x \in Known(n) : \A v \in Votes(n, x)' : v \in Votes(v, x)'
<1>1. \A n \in Nodes : Known(n)' = Known(n)
  BY DEF EntrySet
<1>2. \A n \in Nodes : \A x : n # p \/ x # b =>
        Votes(n, x)' = Votes(n, x) /\ Status(n, x)' = Status(n, x)
  BY DEF EntrySet
<1>3. Votes(p, b)' = Votes(p, b) \union {voter} /\ Status(p, b)' = StatusAfter(p, b, voter)
  BY DEF EntrySet
<1>4. Status(p, b)' \in {"pending", "confirmed", "rejected"}
  BY <1>3, VerdictType DEF StatusAfter, Inv, Entries
<1>5. Status(p, b) = "confirmed" => Status(p, b)' = "confirmed"
  BY <1>3 DEF StatusAfter
<1>6. Entries'
  BY <1>1, <1>2, <1>3, <1>4 DEF Inv, Entries, EntrySet
<1>7. \A n \in Nodes : \A x : /\ Votes(n, x) \subseteq Votes(n, x)'
                              /\ Status(n, x) = "confirmed" => Status(n, x)' = "confirmed"
  BY <1>2, <1>3, <1>5
<1>8. \A x : Vouched(x) => Vouched(x)'
  BY <1>7 DEF Vouched
<1>9. ASSUME NEW n \in Nodes, NEW x \in Known(n), NEW v \in Votes(n, x)'
      PROVE  v \in Votes(v, x)'
  <2>1. CASE v \in Votes(n, x)
    <3>1. v \in Nodes /\ v \in Votes(v, x)
      BY <2>1 DEF Inv, Entries, Casting
    <3> QED
      BY <3>1, <1>7
  <2>2. CASE v \notin Votes(n, x)
    <3>1. n = p /\ x = b /\ v = voter
      BY <1>2, <1>3, <1>9, <2>2
    <3> QED
      BY <3>1, <1>3, <1>7
  <2> QED
    BY <2>1, <2>2
<1> QED
  BY <1>1, <1>3, <1>6, <1>7, <1>8, <1>9

\* The block that a leader proposes is new, and its records leave the pool.
LEMMA ClearPoolInv ==
  ASSUME Inv, NEW n \in Nodes, ClearPool(n)
  PROVE  Inv'
<1> PICK b : b = main[n].block
  OBVIOUS
<1> DEFINE r == [at |-> "propose", block |-> b, todo |-> online[n]]
<1>1. main[n].at = "clear" /\ online[n] \in SUBSET Nodes
  BY DEF ClearPool, Inv, Types
<1>2. b \in Blocks /\ Data(b) # {} /\ Data(b) \subseteq Pool(n)
  BY <1>1, RoundFields DEF Inv, Types, Leading
<1>3. /\ pending_blocks' = [pending_blocks EXCEPT ![n] = WithEntry(@, b, NewEntry)]
      /\ main' = [main EXCEPT ![n] = r]
      /\ pending_data' = [pending_data EXCEPT ![n] = << >>]
      /\ UNCHANGED <<chain, active, online, calls, accepted, late>>
  BY DEF ClearPool, ProposeBlock, Inv, Types
<1>4. r \in Rounds /\ r.at = "propose" /\ r.block = b
  BY <1>1, <1>2 DEF Rounds
<1> HIDE DEF r
<1>5. EntrySet(n, b, {}, "pending")
  <2>1. EntrySet(n, b, NewEntry.voters, NewEntry.status)
    BY <1>3, SetEntry DEF Inv, Entries
  <2> QED
    BY <2>1 DEF NewEntry
<1>6. \A k \in Nodes : b \notin Known(k)
  BY <1>2 DEF Inv, Sealing
<1>7. /\ \A k \in Nodes : Known(k)' = IF k = n THEN Known(k) \union {b} ELSE Known(k)
      /\ \A k \in Nodes : \A x : k # n \/ x # b =>
           Votes(k, x)' = Votes(k, x) /\ Status(k, x)' = Status(k, x)
      /\ Votes(n, b)' = {} /\ Status(n, b)' = "pending"
  BY <1>5 DEF EntrySet
<1>8. \A k \in Nodes : \A x : x \in Known(k) => x # b
  BY <1>6
<1>9. \A k \in Nodes : Status(k, b) # "confirmed" /\ Votes(k, b) = {}
  BY <1>6 DEF Votes, Status
<1>10. \A k \in Nodes : Votes(k, b)' = {} /\ Status(k, b)' # "confirmed"
  BY <1>7, <1>9
<1>11. \A x : Vouched(x) => Vouched(x)'
  BY <1>7, <1>9 DEF Vouched
<1>12. \A k \in Nodes : Pool(k)' = IF k = n THEN {} ELSE Pool(k)
  BY <1>1, <1>3 DEF Pool, ToSet, Inv, Types
<1>13. /\ main'[n] = r /\ \A k \in Nodes : k # n => main'[k] = main[k]
       /\ pending_data'[n] = << >> /\ \A k \in Nodes : k # n => pending_data'[k] = pending_data[k]
  BY <1>3 DEF Inv, Types
<1>14. Entries'
  <2>1. \A k \in Nodes : Known(k) \subseteq Blocks
    BY DEF Inv, Entries
  <2>2. \A k \in Nodes : \A x \in Known(k)' :
          Votes(k, x)' \subseteq Nodes /\ Status(k, x)' \in {"pending", "confirmed", "rejected"}
    <3> SUFFICES ASSUME NEW k \in Nodes, NEW x \in Known(k)'
                 PROVE  /\ Votes(k, x)' \subseteq Nodes
                        /\ Status(k, x)' \in {"pending", "confirmed", "rejected"}
      OBVIOUS
    <3>1. CASE k = n /\ x = b
      BY <1>7, <3>1
    <3>2. CASE k # n \/ x # b
      BY <1>7, <3>2 DEF Inv, Entries
    <3> QED
      BY <3>1, <3>2
  <2> QED
    BY <1>2, <1>5, <1>7, <2>1, <2>2 DEF Entries, EntrySet
<1>15. Types'
  BY <1>3, <1>4, EmptySeq DEF Inv, Types
<1>16. \A k \in Nodes : Leading(k)'
  <2>1. \A k \in Nodes : k # n /\ HasBlock(k)' =>
          HasBlock(k) /\ main'[k].block = main[k].block /\ main[k].block \in Known(k)
    BY <1>13 DEF HasBlock, Inv, Leading
  <2>2. \A k \in Nodes : k # n /\ HasBlock(k)' => main'[k].block # b
    BY <2>1, <1>8
  <2>3. main'[n].at = "propose" /\ main'[n].block = b
    BY <1>4, <1>13
  <2>4. \A k \in Nodes : k # n =>
          /\ main'[k].at = "create" => pending_data'[k] # << >>
          /\ main'[k].at = "clear" =>
               Data(main'[k].block) # {} /\ Data(main'[k].block) \subseteq Pool(k)'
    BY <1>12, <1>13 DEF Inv, Leading
  <2>5. \A k, m \in Nodes : HasBlock(k)' /\ HasBlock(m)' /\ main'[k].block = main'[m].block => k = m
    BY <2>1, <2>2, <2>3 DEF Inv, Leading
  <2>6. \A k \in Nodes : HasBlock(k)' => main'[k].block \in Known(k)'
    BY <1>7, <2>1, <2>3
  <2>7. \A k \in Nodes : main'[k].at = "replace" => main'[k].remote # << >>
    BY <1>13, <2>3 DEF Inv, Leading
  <2> QED
    BY <2>3, <2>4, <2>5, <2>6, <2>7 DEF Leading
<1>17. Sealing'
  <2>1. \A k, m \in Nodes : \A x \in Known(k)', d \in Known(m)' :
          x # d => Data(x) \intersect Data(d) = {}
    BY <1>2, <1>7 DEF Inv, Sealing
  <2>2. \A k, m \in Nodes : \A x \in Known(k)' : Data(x) \intersect Pool(m)' = {}
    BY <1>2, <1>7, <1>12 DEF Inv, Sealing
  <2>3. \A k, m \in Nodes : k # m => Pool(k)' \intersect Pool(m)' = {}
    BY <1>12 DEF Inv, Sealing
  <2>4. \A k \in Nodes : \A q \in Pool(k)' : q <= accepted
    BY <1>12 DEF Inv, Sealing
  <2>5. \A k \in Nodes : \A x \in Known(k)' : \A q \in Data(x) : q <= accepted
    BY <1>2, <1>7 DEF Inv, Sealing
  <2> QED
    BY <1>3, <2>1, <2>2, <2>3, <2>4, <2>5 DEF Sealing
<1>18. Casting'
  <2>1. \A k \in Nodes : \A x \in Known(k)' : \A v \in Votes(k, x)' : v \in Votes(v, x)'
    <3> SUFFICES ASSUME NEW k \in Nodes, NEW x \in Known(k)', NEW v \in Votes(k, x)'
                 PROVE  v \in Votes(v, x)'
      OBVIOUS
    <3>1. x # b /\ x \in Known(k) /\ v \in Votes(k, x)
      BY <1>7, <1>10
    <3>2. v \in Nodes /\ v \in Votes(v, x)
      BY <3>1 DEF Inv, Entries, Casting
    <3> QED
      BY <1>7, <3>1, <3>2
  <2>2. \A k \in Nodes : main'[k].at \in {"votes", "append"} => k \in Votes(k, main[k].block)'
    <3> SUFFICES ASSUME NEW k \in Nodes, main'[k].at \in {"votes", "append"}
                 PROVE  k \in Votes(k, main[k].block)'
      OBVIOUS
    <3>1. k # n /\ main'[k] = main[k]
      BY <1>4, <1>13
    <3>2. main[k].block \in Known(k) /\ k \in Votes(k, main[k].block)
      BY <3>1 DEF Inv, Leading, HasBlock, Casting
    <3> QED
      BY <1>7, <1>8, <3>1, <3>2
  <2>3. \A c \in calls : c.block \in Known(c.to)' /\ c.to \in Votes(c.to, c.block)'
    <3> SUFFICES ASSUME NEW c \in calls
                 PROVE  c.block \in Known(c.to)' /\ c.to \in Votes(c.to, c.block)'
      OBVIOUS
    <3>1. c.to \in Nodes /\ c.block \in Known(c.to) /\ c.to \in Votes(c.to, c.block)
      BY DEF Inv, Types, Casting
    <3> QED
      BY <1>7, <1>8, <3>1
  <2> QED
    BY <1>3, <2>1, <2>2, <2>3 DEF Casting
<1>19. Vouching'
  <2>1. \A k \in Nodes : AllVouched(chain[k])'
    BY <1>3, <1>11 DEF Inv, Vouching, AllVouched
  <2>2. \A k \in Nodes : main'[k].at = "replace" => AllVouched(main[k].remote)'
    BY <1>4, <1>11, <1>13 DEF Inv, Vouching, AllVouched
  <2>3. \A k \in Nodes : main'[k].at = "append" => Status(k, main[k].block)' = "confirmed"
    BY <1>4, <1>7, <1>9, <1>13 DEF Inv, Vouching
  <2>4. \A c \in calls : c.at = "append" => Status(c.to, c.block)' = "confirmed"
    <3> SUFFICES ASSUME NEW c \in calls, c.at = "append"
                 PROVE  Status(c.to, c.block)' = "confirmed"
      OBVIOUS
    <3>1. c.to \in Nodes /\ Status(c.to, c.block) = "confirmed"
      BY DEF Inv, Types, Vouching
    <3> QED
      BY <1>7, <1>9, <3>1
  <2> QED
    BY <1>3, <2>1, <2>2, <2>3, <2>4 DEF Vouching
<1> QED
  BY <1>14, <1>15, <1>16, <1>17, <1>18, <1>19 DEF Inv

\* A proposal makes its block known to one more server, whose vote is counted
\* there; an entry that confirmed the block is left alone.
LEMMA PostProposalInv ==
  ASSUME Inv, NEW n \in Nodes, NEW m \in Peers(n), PostProposal(n, m)
  PROVE  Inv'
<1> PICK b : b = main[n].block
  OBVIOUS
<1> DEFINE r == [at |-> "await", block |-> b, peer |-> m, todo |-> main[n].todo \ {m}]
<1>1. /\ main[n].at = "propose" /\ m \in Nodes /\ b \in Known(n) /\ b \in Blocks
      /\ main[n].todo \subseteq Nodes
      /\ main' = [main EXCEPT ![n] = r]
      /\ UNCHANGED <<chain, pending_data, active, online, accepted, late>>
  BY RoundFields DEF PostProposal, Peers, Inv, Types, Leading, HasBlock
<1>2. r \in Rounds /\ r.at = "await" /\ r.block = b
  BY <1>1 DEF Rounds
<1> HIDE DEF r
<1>3. CASE UNCHANGED <<pending_blocks, calls>>
  <2>1. HasBlock(n) /\ active' \in [Nodes -> SUBSET Nodes] /\ online' \in [Nodes -> SUBSET Nodes]
        /\ \A k \in Nodes : k \in active'[k] /\ online'[k] \subseteq Peers(k)
    BY <1>1 DEF HasBlock, Inv, Types
  <2> QED
    BY <1>1, <1>2, <1>3, <2>1, MainMoves
<1>4. ASSUME Status(m, b) # "confirmed",
             EntrySet(m, b, {m}, Verdict(Cardinality({m}), Cardinality(active[m]))),
             calls' = calls \union {Request(n, m, b)}
      PROVE  Inv'
  <2>1. /\ \A k \in Nodes : Known(k)' = IF k = m THEN Known(k) \union {b} ELSE Known(k)
        /\ \A k \in Nodes : \A x : k # m \/ x # b =>
             Votes(k, x)' = Votes(k, x) /\ Status(k, x)' = Status(k, x)
        /\ Votes(m, b)' = {m}
        /\ Status(m, b)' \in {"pending", "confirmed", "rejected"}
    BY <1>4, VerdictType DEF EntrySet
  <2>2. \A x : Vouched(x) => Vouched(x)'
    BY <1>4, <2>1 DEF Vouched
  <2>3. \A k \in Nodes : Pool(k)' = Pool(k)
    BY <1>1 DEF Pool
  <2>4. /\ main'[n] = r /\ \A k \in Nodes : k # n => main'[k] = main[k]
    BY <1>1 DEF Inv, Types
  <2>5. Entries'
    <3>1. \A k \in Nodes : Known(k) \subseteq Blocks
      BY DEF Inv, Entries
    <3>2. ASSUME NEW k \in Nodes, NEW x \in Known(k)'
          PROVE  Votes(k, x)' \subseteq Nodes /\ Status(k, x)' \in {"pending", "confirmed", "rejected"}
      <4>1. CASE k = m /\ x = b
        BY <1>1, <2>1, <4>1
      <4>2. CASE k # m \/ x # b
        BY <2>1, <4>2 DEF Inv, Entries
      <4> QED
        BY <4>1, <4>2
    <3> QED
      BY <1>1, <1>4, <2>1, <3>1, <3>2 DEF Entries, EntrySet
  <2>6. Types'
    <3>1. Request(n, m, b) \in [from : Nodes, to : Nodes, block : Blocks,
                                at : {"votes", "append"}, todo : SUBSET Nodes]
      BY <1>1 DEF Request, Inv, Types
    <3> QED
      BY <1>1, <1>2, <1>4, <3>1 DEF Inv, Types
  <2>7. \A k \in Nodes : Leading(k)'
    <3>1. \A k \in Nodes : HasBlock(k)' => HasBlock(k) /\ main'[k].block = main[k].block
      BY <1>1, <1>2, <2>4 DEF HasBlock
    <3>2. \A k \in Nodes : Known(k) \subseteq Known(k)'
      BY <2>1
    <3> QED
      BY <1>1, <1>2, <2>3, <2>4, <3>1, <3>2 DEF Inv, Leading
  <2>8. Sealing'
    <3>1. \A k \in Nodes : \A x \in Known(k)' : \E j \in Nodes : x \in Known(j)
      BY <1>1, <2>1
    <3> QED
      BY <1>1, <2>3, <3>1 DEF Inv, Sealing
  <2>9. Casting'
    <3>1. ASSUME NEW k \in Nodes, NEW x \in Known(k)', NEW v \in Votes(k, x)'
          PROVE  v \in Votes(v, x)'
      <4>1. CASE v = m /\ x = b
        BY <2>1, <4>1
      <4>2. CASE v # m \/ x # b
        <5>1. x \in Known(k) /\ v \in Votes(k, x)
          BY <2>1, <3>1, <4>2
        <5>2. v \in Nodes /\ v \in Votes(v, x)
          BY <5>1 DEF Inv, Entries, Casting
        <5> QED
          BY <2>1, <4>2, <5>2
      <4> QED
        BY <4>1, <4>2
    <3>2. ASSUME NEW k \in Nodes, NEW x, k \in Votes(k, x)
          PROVE  k \in Votes(k, x)'
      BY <2>1, <3>2
    <3>3. \A k \in Nodes : main'[k].at \in {"votes", "append"} => k \in Votes(k, main[k].block)'
      <4>1. ASSUME NEW k \in Nodes, main'[k].at \in {"votes", "append"}
            PROVE  main'[k] = main[k] /\ k \in Votes(k, main[k].block)
        BY <1>2, <2>4, <4>1 DEF Inv, Casting
      <4> QED
        BY <3>2, <4>1
    <3>4. ASSUME NEW c \in calls'
          PROVE  c.block \in Known(c.to)' /\ c.to \in Votes(c.to, c.block)'
      <4>1. CASE c \in calls
        <5>1. c.to \in Nodes /\ c.block \in Known(c.to) /\ c.to \in Votes(c.to, c.block)
          BY <4>1 DEF Inv, Types, Casting
        <5> QED
          BY <2>1, <3>2, <5>1
      <4>2. CASE c = Request(n, m, b)
        <5>1. c.to = m /\ c.block = b
          BY <4>2 DEF Request
        <5> QED
          BY <1>1, <2>1, <5>1
      <4> QED
        BY <1>4, <4>1, <4>2
    <3> QED
      BY <3>1, <3>3, <3>4 DEF Casting
  <2>10. Vouching'
    <3>1. \A k \in Nodes : AllVouched(chain[k])'
      BY <1>1, <2>2 DEF Inv, Vouching, AllVouched
    <3>2. \A k \in Nodes : main'[k].at = "replace" => AllVouched(main[k].remote)'
      BY <1>2, <2>2, <2>4 DEF Inv, Vouching, AllVouched
    <3>3. \A k \in Nodes : main'[k].at = "append" => Status(k, main[k].block)' = "confirmed"
      <4>1. ASSUME NEW k \in Nodes, main'[k].at = "append"
            PROVE  main'[k] = main[k] /\ Status(k, main[k].block) = "confirmed"
        BY <1>2, <2>4, <4>1 DEF Inv, Vouching
      <4>2. ASSUME NEW k \in Nodes, NEW x, Status(k, x) = "confirmed"
            PROVE  Status(k, x)' = "confirmed"
        BY <1>4, <2>1, <4>2
      <4> QED
        BY <4>1, <4>2
    <3>4. ASSUME NEW c \in calls', c.at = "append"
          PROVE  Status(c.to, c.block)' = "confirmed"
      <4>1. c \in calls
        BY <1>4, <3>4 DEF Request
      <4>2. c.to \in Nodes /\ Status(c.to, c.block) = "confirmed"
        BY <3>4, <4>1 DEF Inv, Types, Vouching
      <4> QED
        BY <1>4, <2>1, <4>2
    <3> QED
      BY <3>1, <3>2, <3>3, <3>4 DEF Vouching
  <2> QED
    BY <2>5, <2>6, <2>7, <2>8, <2>9, <2>10 DEF Inv
<1> QED
  BY <1>1, <1>3, <1>4, ProposalEffect DEF Inv

\* The leader's own vote is the first that it counts as cast.
LEMMA VoteForOwnBlockInv ==
  ASSUME Inv, NEW n \in Nodes, VoteForOwnBlock(n)
  PROVE  Inv'
<1> PICK b : b = main[n].block
  OBVIOUS
<1> DEFINE r == [at |-> "votes", block |-> b, todo |-> online[n]]
<1>1. /\ main[n].at = "propose" /\ b \in Known(n) /\ b \in Blocks
      /\ main' = [main EXCEPT ![n] = r]
      /\ UNCHANGED <<chain, pending_data, active, online, calls, accepted, late>>
      /\ pending_blocks' = [pending_blocks EXCEPT ![n] =
           IF CanVote(@, b, n) THEN Voted(@, b, n, active[n]) ELSE @]
  BY DEF VoteForOwnBlock, Inv, Leading, HasBlock, Entries
<1>2. r \in Rounds /\ r.at = "votes" /\ r.block = b
  BY <1>1 DEF Rounds, Inv, Types
<1> HIDE DEF r
<1>3. CASE ~CanVote(pending_blocks[n], b, n)
  <2>1. UNCHANGED pending_blocks
    BY <1>1, <1>3 DEF Inv, Entries
  <2>2. n \in Votes(n, b) /\ HasBlock(n)
    BY <1>1, <1>3 DEF CanVote, Votes, Known, HasBlock
  <2>3. /\ active' \in [Nodes -> SUBSET Nodes] /\ online' \in [Nodes -> SUBSET Nodes]
        /\ \A k \in Nodes : k \in active'[k] /\ online'[k] \subseteq Peers(k)
    BY <1>1 DEF Inv, Types
  <2> QED
    BY <1>1, <1>2, <2>1, <2>2, <2>3, MainMoves
<1>4. CASE CanVote(pending_blocks[n], b, n)
  <2>1. EntrySet(n, b, Votes(n, b) \union {n}, StatusAfter(n, b, n))
    <3>1. pending_blocks' = [pending_blocks EXCEPT ![n] =
            Voted(pending_blocks[n], b, n, active[n])]
      BY <1>1, <1>4
    <3> QED
      BY <1>4, <3>1, VotedEffect DEF Inv
  <2>2. /\ Entries'
        /\ \A k \in Nodes : Known(k)' = Known(k)
        /\ \A k \in Nodes : \A x : /\ Votes(k, x) \subseteq Votes(k, x)'
                                   /\ Status(k, x) = "confirmed" => Status(k, x)' = "confirmed"
        /\ n \in Votes(n, b)'
        /\ \A x : Vouched(x) => Vouched(x)'
        /\ \A k \in Nodes : \A x \in Known(k) : \A v \in Votes(k, x)' : v \in Votes(v, x)'
    BY <1>1, <2>1, VoteCounts
  <2>3. /\ main'[n] = r /\ \A k \in Nodes : k # n => main'[k] = main[k]
        /\ \A k : Pool(k)' = Pool(k)
    BY <1>1 DEF Inv, Types, Pool
  <2>4. Types'
    BY <1>1, <1>2 DEF Inv, Types
  <2>5. \A k \in Nodes : Leading(k)'
    <3>1. \A k \in Nodes : HasBlock(k)' => HasBlock(k) /\ main'[k].block = main[k].block
      BY <1>1, <1>2, <2>3 DEF HasBlock
    <3> QED
      BY <1>1, <1>2, <2>2, <2>3, <3>1 DEF Inv, Leading
  <2>6. Sealing'
    BY <1>1, <2>2, <2>3 DEF Inv, Sealing
  <2>7. Casting'
    <3>1. \A k \in Nodes : main'[k].at \in {"votes", "append"} => k \in Votes(k, main[k].block)'
      BY <1>2, <2>2, <2>3 DEF Inv, Casting
    <3>2. \A c \in calls : c.block \in Known(c.to)' /\ c.to \in Votes(c.to, c.block)'
      BY <2>2 DEF Inv, Types, Casting
    <3> QED
      BY <1>1, <2>2, <3>1, <3>2 DEF Casting
  <2>8. Vouching'
    <3>1. \A k \in Nodes : AllVouched(chain[k])'
      BY <1>1, <2>2 DEF Inv, Vouching, AllVouched
    <3>2. \A k \in Nodes : main'[k].at = "replace" => AllVouched(main[k].remote)'
      BY <1>2, <2>2, <2>3 DEF Inv, Vouching, AllVouched
    <3>3. \A k \in Nodes : main'[k].at = "append" => Status(k, main[k].block)' = "confirmed"
      BY <1>2, <2>2, <2>3 DEF Inv, Vouching
    <3>4. \A c \in calls : c.at = "append" => Status(c.to, c.block)' = "confirmed"
      BY <2>2 DEF Inv, Types, Vouching
    <3> QED
      BY <1>1, <3>1, <3>2, <3>3, <3>4 DEF Vouching
  <2> QED
    BY <2>2, <2>4, <2>5, <2>6, <2>7, <2>8 DEF Inv
<1> QED
  BY <1>3, <1>4

\* A chain of confirmed blocks stays one when a confirmed block is appended.
LEMMA AppendVouched ==
  ASSUME NEW c \in Chains, c # << >>, NEW b \in Blocks
  PROVE  /\ Append(c, b) \in Chains \ {<< >>}
         /\ \A i \in DOMAIN Append(c, b) :
              Append(c, b)[i] = b \/ \E j \in DOMAIN c : Append(c, b)[i] = c[j]
<1>1. /\ Append(c, b) \in Seq(Blocks) /\ Append(c, b) # << >> /\ Len(c) \in Nat
      /\ DOMAIN c = 1..Len(c) /\ DOMAIN Append(c, b) = 1..Len(c) + 1
      /\ \A i \in 1..Len(c) : Append(c, b)[i] = c[i]
      /\ Append(c, b)[Len(c) + 1] = b
  BY AppendElements DEF Chains
<1> QED
  BY <1>1 DEF Chains

\* A vote that arrives changes an entry of its receiver, and perhaps its chain.
LEMMA TakeVoteInv ==
  ASSUME Inv, NEW p \in Nodes, NEW b \in Blocks, NEW voter \in Nodes,
         voter \in Votes(voter, b), TakeVote(p, b, voter),
         UNCHANGED <<pending_data, active, online, accepted, late>>,
         main' \in [Nodes -> Rounds],
         \A k \in Nodes : /\ main'[k].at = main[k].at
                          /\ HasBlock(k) \/ main[k].at = "clear" => main'[k].block = main[k].block
                          /\ main[k].at = "replace" => main'[k].remote = main[k].remote,
         calls' \subseteq [from : Nodes, to : Nodes, block : Blocks,
                           at : {"votes", "append"}, todo : SUBSET Nodes],
         \A d \in calls' : \E c \in calls : d.to = c.to /\ d.block = c.block /\ d.at = c.at
  PROVE  Inv'
<1>1. /\ Entries'
      /\ \A k \in Nodes : Known(k)' = Known(k)
      /\ \A k \in Nodes : \A x : /\ Votes(k, x) \subseteq Votes(k, x)'
                                 /\ Status(k, x) = "confirmed" => Status(k, x)' = "confirmed"
      /\ \A x : Vouched(x) => Vouched(x)'
      /\ \A k \in Nodes : \A x \in Known(k) : \A v \in Votes(k, x)' : v \in Votes(v, x)'
      /\ \E c \in Chains \ {<< >>} :
           /\ chain' = [chain EXCEPT ![p] = c]
           /\ c = chain[p] \/ (c = Append(chain[p], b) /\ Vouched(b)')
  <2>0. chain \in [Nodes -> Chains \ {<< >>}] /\ chain = [chain EXCEPT ![p] = chain[p]]
    BY DEF Inv, Types
  <2>1. CASE UNCHANGED <<pending_blocks, chain>>
    <3>1. /\ Entries'
          /\ \A k : Known(k)' = Known(k)
          /\ \A k, x : Votes(k, x)' = Votes(k, x) /\ Status(k, x)' = Status(k, x)
          /\ \A x : Vouched(x)' = Vouched(x)
      BY <2>1, SameEntries DEF Inv
    <3>2. \A k \in Nodes : \A x \in Known(k) : \A v \in Votes(k, x) : v \in Votes(v, x)
      BY DEF Inv, Casting
    <3> QED
      BY <2>0, <2>1, <3>1, <3>2
  <2>2. ASSUME b \in Known(p), voter \notin Votes(p, b),
               EntrySet(p, b, Votes(p, b) \union {voter}, StatusAfter(p, b, voter)),
               chain' = [chain EXCEPT ![p] =
                 IF StatusAfter(p, b, voter) = "confirmed" /\ ValidateBlock(chain[p], b)
                 THEN Append(chain[p], b) ELSE chain[p]]
        PROVE  /\ Entries'
               /\ \A k \in Nodes : Known(k)' = Known(k)
               /\ \A k \in Nodes : \A x :
                    /\ Votes(k, x) \subseteq Votes(k, x)'
                    /\ Status(k, x) = "confirmed" => Status(k, x)' = "confirmed"
               /\ \A x : Vouched(x) => Vouched(x)'
               /\ \A k \in Nodes : \A x \in Known(k) : \A v \in Votes(k, x)' : v \in Votes(v, x)'
               /\ \E c \in Chains \ {<< >>} :
                    /\ chain' = [chain EXCEPT ![p] = c]
                    /\ c = chain[p] \/ (c = Append(chain[p], b) /\ Vouched(b)')
    <3>1. /\ Entries'
          /\ \A k \in Nodes : Known(k)' = Known(k)
          /\ \A k \in Nodes : \A x : /\ Votes(k, x) \subseteq Votes(k, x)'
                                     /\ Status(k, x) = "confirmed" => Status(k, x)' = "confirmed"
          /\ StatusAfter(p, b, voter) = Status(p, b)'
          /\ \A x : Vouched(x) => Vouched(x)'
          /\ \A k \in Nodes : \A x \in Known(k) : \A v \in Votes(k, x)' : v \in Votes(v, x)'
      BY <2>2, VoteCounts
    <3>2. chain[p] \in Chains \ {<< >>} /\ Append(chain[p], b) \in Chains \ {<< >>}
      BY <2>0, AppendVouched
    <3>3. StatusAfter(p, b, voter) = "confirmed" => Vouched(b)'
      BY <3>1 DEF Vouched
    <3> QED
      BY <2>2, <3>1, <3>2, <3>3
  <2> QED
    BY <2>1, <2>2, TakeVoteEffect DEF Inv
<1>2. \A k \in Nodes : Pool(k)' = Pool(k)
  BY DEF Pool
<1>3. Types'
  BY <1>1 DEF Inv, Types
<1>4. \A k \in Nodes : HasBlock(k)' <=> HasBlock(k)
  BY DEF HasBlock
<1>5. \A k \in Nodes : Leading(k)'
  BY <1>1, <1>2, <1>4 DEF Inv, Leading
<1>6. Sealing'
  BY <1>1, <1>2 DEF Inv, Sealing
<1>7. Casting'
  <2>1. \A k \in Nodes : main'[k].at \in {"votes", "append"} => k \in Votes(k, main[k].block)'
    BY <1>1 DEF Inv, Casting, HasBlock
  <2>2. \A c \in calls' : c.block \in Known(c.to)' /\ c.to \in Votes(c.to, c.block)'
    BY <1>1 DEF Inv, Types, Casting
  <2> QED
    BY <1>1, <2>1, <2>2 DEF Casting
<1>8. Vouching'
  <2>1. \A k \in Nodes : AllVouched(chain[k])'
    <3>1. PICK c \in Chains \ {<< >>} :
            /\ chain' = [chain EXCEPT ![p] = c]
            /\ c = chain[p] \/ (c = Append(chain[p], b) /\ Vouched(b)')
      BY <1>1
    <3>2. chain[p] \in Chains /\ chain[p] # << >>
      BY DEF Inv, Types
    <3>3. \A i \in DOMAIN c : Vouched(c[i])'
      <4>1. (\A x : Vouched(x) => Vouched(x)') /\ \A i \in DOMAIN chain[p] : Vouched(chain[p][i])
        BY <1>1 DEF Inv, Vouching, AllVouched
      <4>2. CASE c = chain[p]
        BY <4>1, <4>2
      <4>3. CASE c = Append(chain[p], b) /\ Vouched(b)'
        BY <3>2, <4>1, <4>3, AppendVouched
      <4> QED
        BY <3>1, <4>2, <4>3
    <3>4. \A k \in Nodes : chain'[k] = IF k = p THEN c ELSE chain[k]
      BY <3>1 DEF Inv, Types
    <3> QED
      BY <1>1, <3>3, <3>4 DEF Inv, Vouching, AllVouched
  <2>2. \A k \in Nodes : main'[k].at = "replace" => AllVouched(main[k].remote)'
    BY <1>1 DEF Inv, Vouching, AllVouched
  <2>3. \A k \in Nodes : main'[k].at = "append" => Status(k, main[k].block)' = "confirmed"
    BY <1>1 DEF Inv, Vouching, HasBlock
  <2>4. \A c \in calls' : c.at = "append" => Status(c.to, c.block)' = "confirmed"
    BY <1>1 DEF Inv, Types, Vouching
  <2> QED
    BY <2>1, <2>2, <2>3, <2>4 DEF Vouching
<1> QED
  BY <1>1, <1>3, <1>5, <1>6, <1>7, <1>8 DEF Inv

\* Votes that are posted: the leader's, and those of the peers.
LEMMA PostOwnVoteInv ==
  ASSUME Inv, NEW n \in Nodes, NEW p \in Nodes, PostOwnVote(n, p)
  PROVE  Inv'
<1> PICK b : b = main[n].block
  OBVIOUS
<1> DEFINE r == [main[n] EXCEPT !.todo = @ \ {p}]
<1>1. /\ main[n] \in Rounds /\ main[n].at = "votes" /\ b \in Blocks /\ n \in Votes(n, b)
      /\ UNCHANGED <<pending_data, active, online, calls, accepted, late>>
      /\ TakeVote(p, b, n)
  BY RoundFields DEF PostOwnVote, Inv, Types, Casting
<1>2. r \in Rounds /\ r.at = main[n].at /\ r.block = main[n].block
  BY <1>1, RoundShorter
<1>3. main' = [main EXCEPT ![n] = r]
  BY DEF PostOwnVote
<1> HIDE DEF r
<1>4. /\ main' \in [Nodes -> Rounds]
      /\ main'[n] = r /\ \A k \in Nodes : k # n => main'[k] = main[k]
  BY <1>2, <1>3 DEF Inv, Types
<1>5. \A k \in Nodes : /\ main'[k].at = main[k].at
                       /\ HasBlock(k) \/ main[k].at = "clear" => main'[k].block = main[k].block
                       /\ main[k].at = "replace" => main'[k].remote = main[k].remote
  BY <1>1, <1>2, <1>4
<1>6. calls' = calls
      /\ calls \subseteq [from : Nodes, to : Nodes, block : Blocks,
                          at : {"votes", "append"}, todo : SUBSET Nodes]
  BY <1>1 DEF Inv, Types
<1> QED
  BY <1>1, <1>4, <1>5, <1>6, TakeVoteInv

LEMMA PostVoteInv ==
  ASSUME Inv, NEW c \in calls, NEW p \in Nodes, PostVote(c, p)
  PROVE  Inv'
<1>1. /\ c \in [from : Nodes, to : Nodes, block : Blocks,
                at : {"votes", "append"}, todo : SUBSET Nodes]
      /\ calls \subseteq [from : Nodes, to : Nodes, block : Blocks,
                          at : {"votes", "append"}, todo : SUBSET Nodes]
      /\ main \in [Nodes -> Rounds] /\ main' = main
      /\ c.to \in Votes(c.to, c.block) /\ TakeVote(p, c.block, c.to)
      /\ UNCHANGED <<pending_data, active, online, accepted, late>>
      /\ calls' = (calls \ {c}) \union {[c EXCEPT !.todo = @ \ {p}]}
  BY DEF PostVote, Inv, Types, Casting
<1>2. /\ [c EXCEPT !.todo = @ \ {p}] \in [from : Nodes, to : Nodes, block : Blocks,
                                          at : {"votes", "append"}, todo : SUBSET Nodes]
      /\ [c EXCEPT !.todo = @ \ {p}].to = c.to
      /\ [c EXCEPT !.todo = @ \ {p}].block = c.block
      /\ [c EXCEPT !.todo = @ \ {p}].at = c.at
  BY <1>1
<1>3. /\ calls' \subseteq [from : Nodes, to : Nodes, block : Blocks,
                           at : {"votes", "append"}, todo : SUBSET Nodes]
      /\ \A d \in calls' : \E e \in calls : d.to = e.to /\ d.block = e.block /\ d.at = e.at
  BY <1>1, <1>2
<1> QED
  BY <1>1, <1>3, TakeVoteInv

\* The end of a round, of a request and of a synchronisation: a chain that all
\* of its blocks vouch for takes the place of the old one.
LEMMA ChainMoves ==
  ASSUME Inv, NEW p \in Nodes, NEW c \in Chains \ {<< >>}, AllVouched(c),
         chain' = [chain EXCEPT ![p] = c],
         UNCHANGED <<pending_data, pending_blocks, active, online, accepted, late>>,
         main' = main \/ main' = [main EXCEPT ![p] = Loop], calls' \subseteq calls
  PROVE  Inv'
<1>1. /\ \A k : Known(k)' = Known(k) /\ Pool(k)' = Pool(k)
      /\ \A k, x : Votes(k, x)' = Votes(k, x) /\ Status(k, x)' = Status(k, x)
      /\ \A x : Vouched(x)' = Vouched(x)
      /\ Entries'
  BY SameEntries DEF Inv, Pool
<1>2. /\ main' \in [Nodes -> Rounds]
      /\ \A k \in Nodes : main'[k] = main[k] \/ main'[k].at = "loop"
  <2>1. main \in [Nodes -> Rounds] /\ Loop \in Rounds /\ Loop.at = "loop"
    BY DEF Inv, Types, Rounds, Loop
  <2> QED
    BY <2>1
<1>3. \A k \in Nodes : chain'[k] = IF k = p THEN c ELSE chain[k]
  BY DEF Inv, Types
<1>4. Types'
  BY <1>2 DEF Inv, Types
<1>5. \A k \in Nodes : Leading(k)'
  BY <1>1, <1>2 DEF Inv, Leading, HasBlock
<1>6. Sealing'
  BY <1>1 DEF Inv, Sealing
<1>7. Casting'
  BY <1>1, <1>2 DEF Inv, Casting
<1>8. Vouching'
  <2>1. \A k \in Nodes : AllVouched(chain[k])'
    BY <1>1, <1>3 DEF Inv, Vouching, AllVouched
  <2>2. \A k \in Nodes : main'[k].at = "replace" => AllVouched(main[k].remote)'
    BY <1>1, <1>2 DEF Inv, Vouching, AllVouched
  <2> QED
    BY <1>1, <1>2, <2>1, <2>2 DEF Inv, Vouching
<1> QED
  BY <1>1, <1>4, <1>5, <1>6, <1>7, <1>8 DEF Inv

LEMMA ConfirmedAppends ==
  ASSUME Inv, NEW p \in Nodes, NEW b \in Blocks, Vouched(b)
  PROVE  Append(chain[p], b) \in Chains \ {<< >>} /\ AllVouched(Append(chain[p], b))
<1>1. chain[p] \in Chains /\ chain[p] # << >> /\ AllVouched(chain[p])
  BY DEF Inv, Types, Vouching
<1> QED
  BY <1>1, AppendVouched DEF AllVouched

LEMMA MainChainInv ==
  ASSUME Inv, NEW n \in Nodes, AppendOwnBlock(n) \/ ReplaceChain(n)
  PROVE  Inv'
<1>1. CASE AppendOwnBlock(n)
  <2>1. main[n].block \in Blocks /\ Vouched(main[n].block)
    BY <1>1, RoundFields DEF AppendOwnBlock, Inv, Types, Vouching, Vouched
  <2> QED
    BY <1>1, <2>1, ConfirmedAppends, ChainMoves DEF AppendOwnBlock
<1>2. CASE ReplaceChain(n)
  <2>1. main[n].remote \in Chains \ {<< >>} /\ AllVouched(main[n].remote)
    BY <1>2, RoundFields DEF ReplaceChain, Inv, Types, Vouching, Leading
  <2> QED
    BY <1>2, <2>1, ChainMoves DEF ReplaceChain
<1> QED
  BY <1>1, <1>2

LEMMA AppendBlockInv ==
  ASSUME Inv, NEW c \in calls, AppendBlock(c)
  PROVE  Inv'
<1>1. c.to \in Nodes /\ c.block \in Blocks /\ Vouched(c.block)
  BY DEF AppendBlock, Inv, Types, Vouching, Vouched
<1> QED
  BY <1>1, ConfirmedAppends, ChainMoves DEF AppendBlock

\* Every step keeps the invariant.
LEMMA StepInv == Inv /\ [Next]_vars => Inv'
<1> SUFFICES ASSUME Inv, [Next]_vars
             PROVE  Inv'
  OBVIOUS
<1>1. ASSUME NEW n \in Nodes, AddData(n)
      PROVE  Inv'
  BY <1>1, AddDataInv
<1>2. ASSUME NEW n \in Nodes, ProposeStep(n)
      PROVE  Inv'
  <2>1. CASE BeginRound(n) \/ CreateBlock(n) \/ ProposalAnswered(n) \/ FinishRound(n)
    BY <2>1, MainStepsInv
  <2>2. CASE ClearPool(n)
    BY <2>2, ClearPoolInv
  <2>3. CASE VoteForOwnBlock(n)
    BY <2>3, VoteForOwnBlockInv
  <2>4. CASE AppendOwnBlock(n)
    BY <2>4, MainChainInv
  <2>5. ASSUME NEW p \in Peers(n), PostProposal(n, p)
        PROVE  Inv'
    BY <2>5, PostProposalInv
  <2>6. ASSUME NEW p \in Peers(n), PostOwnVote(n, p)
        PROVE  Inv'
    BY <2>6, PostOwnVoteInv DEF Peers
  <2> QED
    BY <1>2, <2>1, <2>2, <2>3, <2>4, <2>5, <2>6 DEF ProposeStep
<1>3. ASSUME NEW n \in Nodes, SyncStep(n)
      PROVE  Inv'
  BY <1>3, MainStepsInv, MainChainInv DEF SyncStep
<1>4. ASSUME NEW c \in calls, CallStep(c)
      PROVE  Inv'
  <2>1. CASE FinishCall(c)
    BY <2>1, RequestInv
  <2>2. CASE AppendBlock(c)
    BY <2>2, AppendBlockInv
  <2>3. ASSUME NEW p \in Peers(c.to), PostVote(c, p)
        PROVE  Inv'
    BY <2>3, PostVoteInv DEF Peers
  <2> QED
    BY <1>4, <2>1, <2>2, <2>3 DEF CallStep
<1>5. ASSUME NEW n \in Nodes, NEW m \in Nodes, HeartbeatSucceeds(n, m)
      PROVE  Inv'
  BY <1>5, HeartbeatInv
<1>6. CASE NetworkFault
  <2>1. ASSUME NEW n \in Nodes, TimeOutProposal(n) \/ LoseFetch(n)
        PROVE  Inv'
    BY <2>1, MainStepsInv
  <2>2. ASSUME NEW n \in Nodes, NEW m \in Nodes, LoseProposal(n, m) \/ LoseOwnVote(n, m)
        PROVE  Inv'
    BY <2>2, MainStepsInv
  <2>3. ASSUME NEW n \in Nodes, NEW m \in Nodes, HeartbeatFails(n, m)
        PROVE  Inv'
    BY <2>3, HeartbeatInv
  <2>4. ASSUME NEW c \in calls, NEW p \in Nodes, LoseVote(c, p)
        PROVE  Inv'
    BY <2>4, RequestInv
  <2> QED
    BY <1>6, <2>1, <2>2, <2>3, <2>4 DEF NetworkFault
<1>7. CASE UNCHANGED vars
  <2>1. /\ \A k : Known(k)' = Known(k) /\ Pool(k)' = Pool(k)
        /\ \A k, x : Votes(k, x)' = Votes(k, x) /\ Status(k, x)' = Status(k, x)
        /\ \A x : Vouched(x)' = Vouched(x)
        /\ Entries'
    BY <1>7, SameEntries DEF vars, Inv, Pool
  <2>2. Types' /\ (\A k \in Nodes : Leading(k)') /\ Sealing' /\ Casting' /\ Vouching'
    BY <1>7, <2>1 DEF vars, Inv, Types, Leading, HasBlock, Sealing, Casting, Vouching, AllVouched
  <2> QED
    BY <2>1, <2>2 DEF Inv
<1> QED
  BY <1>1, <1>2, <1>3, <1>4, <1>5, <1>6, <1>7 DEF Next

-----------------------------------------------------------------------------
(* What holds whatever the network does.                                   *)

\* Type correctness of the cluster.
THEOREM TypeCorrect == Spec => []TypeOK
<1>1. Inv => TypeOK
  <2> SUFFICES ASSUME Inv
               PROVE  TypeOK
    OBVIOUS
  <2>1. DOMAIN pending_blocks = Nodes
    BY DEF Inv, Entries
  <2>2. \A n \in Nodes : \A b \in DOMAIN pending_blocks[n] :
          /\ b \in Blocks
          /\ pending_blocks[n][b].voters \subseteq Nodes
          /\ pending_blocks[n][b].status \in {"pending", "confirmed", "rejected"}
    BY DEF Inv, Entries, Known, Votes, Status
  <2> QED
    BY <2>1, <2>2 DEF Inv, Types, TypeOK
<1> QED
  BY <1>1, InitInv, StepInv, PTL DEF Spec

\* Whatever calls are lost, late or answered after the caller gave up: no record
\* is sealed into a second block, and none that is sealed is in a pool.
THEOREM RecordsSealedOnce == Spec => []SealedOnce
<1>1. Inv => SealedOnce
  BY DEF Inv, Sealing, SealedOnce, Known, Data, Pool
<1> QED
  BY <1>1, InitInv, StepInv, PTL DEF Spec

\* No vote is made up on its way: who is counted anywhere has counted itself.
THEOREM CountedVotesAreCast == Spec => []VotesAreCast
<1>1. Inv => VotesAreCast
  <2> SUFFICES ASSUME Inv, NEW n \in Nodes, NEW b \in DOMAIN pending_blocks[n],
                      NEW voter \in pending_blocks[n][b].voters
               PROVE  b \in DOMAIN pending_blocks[voter] /\ voter \in pending_blocks[voter][b].voters
    BY DEF VotesAreCast
  <2>1. voter \in Votes(voter, b)
    BY DEF Inv, Casting, Known, Votes
  <2> QED
    BY <2>1 DEF Votes, Known
<1> QED
  BY <1>1, InitInv, StepInv, PTL DEF Spec

\* Every block on every chain, appended by a leader or a peer or copied from one,
\* was confirmed by the votes that some server counted.
THEOREM ChainsHoldConfirmedBlocks == Spec => []OnlyConfirmedBlocks
<1>1. Inv => OnlyConfirmedBlocks
  <2> SUFFICES ASSUME Inv, NEW n \in Nodes, NEW b \in BlocksOn(n)
               PROVE  \E m \in Nodes : /\ b \in DOMAIN pending_blocks[m]
                                       /\ pending_blocks[m][b].status = "confirmed"
    BY DEF OnlyConfirmedBlocks
  <2>1. b # Genesis /\ \E i \in DOMAIN chain[n] : b = chain[n][i]
    BY DEF BlocksOn, ToSet
  <2>2. \E m \in Nodes : Status(m, b) = "confirmed"
    BY <2>1 DEF Inv, Vouching, AllVouched, Vouched
  <2> QED
    BY <2>2 DEF Status, Known
<1> QED
  BY <1>1, InitInv, StepInv, PTL DEF Spec

-----------------------------------------------------------------------------
(* Votes and turns in a small cluster.                                     *)

\* In a small cluster the votes of everybody confirm, those of fewer leave open.
LEMMA UnanimousVerdict ==
  ASSUME SmallCluster, NEW V \in SUBSET Nodes, V # {}
  PROVE  Verdict(Cardinality(V), Cardinality(Nodes))
           = IF V = Nodes THEN "confirmed" ELSE "pending"
<1> DEFINE N == Cardinality(Nodes)
           a == Cardinality(V)
<1>1. /\ N \in Nat /\ a \in Nat /\ 1 <= a /\ a <= N
      /\ a = N => V = Nodes
  <2>1. IsFiniteSet(V) /\ a <= N /\ (N = a => Nodes = V)
    BY NodesAssumption, FS_Subset
  <2>2. N \in Nat /\ a \in Nat /\ a # 0
    BY <2>1, NodesAssumption, FS_CardinalityType, FS_EmptySet
  <2> QED
    BY <2>1, <2>2
<1>2. PICK k \in Nat : k = 100 - Threshold
  BY ThresholdAssumption
<1>3. k * N < 100
  BY <1>2 DEF SmallCluster, SmallView
<1>4. Threshold * N = 100 * N - k * N /\ k * N \in Nat
  BY <1>1, <1>2, ThresholdAssumption
<1>5. V = Nodes => a = N
  OBVIOUS
<1> HIDE DEF N, a
<1> DEFINE bar == Threshold * N
<1>6. bar \in Int /\ bar > 100 * N - 100 /\ bar <= 100 * N
  BY <1>1, <1>3, <1>4
<1> HIDE DEF bar
<1>7. CASE a = N
  <2>1. a * 100 >= bar
    BY <1>1, <1>6, <1>7
  <2> QED
    BY <1>1, <1>7, <2>1 DEF Verdict, Confirms, bar, N, a
<1>8. CASE a < N
  <2>1. ~(a * 100 >= bar) /\ ~((N - a) * 100 >= bar)
    BY <1>1, <1>6, <1>8
  <2> QED
    BY <1>1, <1>5, <1>8, <2>1 DEF Verdict, Confirms, Rejects, bar, N, a
<1> QED
  BY <1>1, <1>7, <1>8

\* Whose turn it is on a chain of the given length, when everybody is online.
Leads(n, length) == IsMyTurn(n, Nodes, length)

\* No two servers have the same turn.
LEMMA OneLeader ==
  ASSUME NEW n \in Nodes, NEW m \in Nodes, NEW length, Leads(n, length), Leads(m, length)
  PROVE  n = m
<1>1. CASE Cardinality(Nodes) = 1
  BY <1>1, NodesAssumption, FS_Singleton
<1>2. CASE Cardinality(Nodes) # 1
  <2>1. Index(n, Nodes) = Index(m, Nodes)
    BY <1>2 DEF Leads, IsMyTurn
  <2>2. ASSUME NEW x \in Nodes, NEW y \in Nodes, x < y
        PROVE  Index(x, Nodes) # Index(y, Nodes)
    <3> DEFINE below(z) == {k \in Nodes : k < z}
    <3>1. x \in Nat /\ y \in Nat /\ Nodes \subseteq Nat
      BY NodesAssumption
    <3>2. below(x) \subseteq below(y) /\ x \in below(y) /\ x \notin below(x)
      <4>1. \A k \in Nodes : k < x => k < y
        BY <2>2, <3>1
      <4>2. ~(x < x)
        BY <3>1
      <4> QED
        BY <2>2, <4>1, <4>2
    <3>3. IsFiniteSet(below(y))
      BY NodesAssumption, FS_Subset
    <3>4. Cardinality(below(y)) # Cardinality(below(x))
      BY <3>2, <3>3, FS_Subset
    <3> QED
      BY <3>4 DEF Index
  <2>3. n \in Nat /\ m \in Nat
    BY NodesAssumption
  <2> QED
    BY <2>1, <2>2, <2>3
<1> QED
  BY <1>1, <1>2

-----------------------------------------------------------------------------
(* The votes while no call fails.                                          *)

\* Everybody is online for everybody.
FullViews == \A n \in Nodes : online[n] = Peers(n) /\ active[n] = Nodes

\* A block is confirmed by the votes of all and open before.
Unanimous ==
  \A n \in Nodes : \A b \in Known(n) :
    Status(n, b) = IF Votes(n, b) = Nodes THEN "confirmed" ELSE "pending"

\* The leader waits for every request of its own, and the vote that the request
\* hands out is the only one its server has counted.
Awaited(c) ==
  /\ c.at = "votes" /\ c.from # c.to /\ c.todo \subseteq Peers(c.to)
  /\ main[c.from].at = "await" /\ main[c.from].peer = c.to /\ main[c.from].block = c.block
  /\ Votes(c.to, c.block) \subseteq {c.to}

OneCall == \A c, d \in calls : c.from = d.from => c = d

\* A leader votes last: those it has still to ask do not know the block, and the
\* vote of everybody it has asked reached it, or is still in a request.
Asking(n) ==
  /\ main[n].at \in {"propose", "await"} =>
       /\ main[n].todo \subseteq Peers(n)
       /\ \A m \in main[n].todo : main[n].block \notin Known(m)
       /\ \A m \in Nodes : n \notin Votes(m, main[n].block)
  /\ main[n].at = "propose" => Peers(n) \ main[n].todo \subseteq Votes(n, main[n].block)
  /\ main[n].at = "await" =>
       /\ main[n].peer \in Peers(n) \ main[n].todo
       /\ Peers(n) \ (main[n].todo \union {main[n].peer}) \subseteq Votes(n, main[n].block)
       /\ \/ main[n].peer \in Votes(n, main[n].block)
          \/ \E c \in calls : c.from = n /\ n \in c.todo
  /\ main[n].at \in {"votes", "append"} => Votes(n, main[n].block) = Nodes
  /\ main[n].at = "votes" => main[n].todo \subseteq Peers(n)

\* Of two peers at most one has counted the other's vote: the vote of the peer
\* that was asked first overtakes the proposal to the second.
OneWay(n) ==
  HasBlock(n) =>
    \A p, q \in Peers(n) :
      p # q => ~(q \in Votes(p, main[n].block) /\ p \in Votes(q, main[n].block))

VotesInv ==
  /\ FullViews /\ Unanimous /\ OneCall
  /\ \A c \in calls : Awaited(c)
  /\ \A n \in Nodes : Asking(n) /\ OneWay(n)

LEMMA InitVotes == Init => VotesInv
BY DEF Init, VotesInv, FullViews, Unanimous, OneCall, Asking, OneWay, HasBlock, Loop, Known

\* Steps outside the rounds leave the votes alone.
LEMMA VotesStay ==
  ASSUME VotesInv, calls \subseteq [from : Nodes, to : Nodes, block : Blocks,
                                    at : {"votes", "append"}, todo : SUBSET Nodes],
         UNCHANGED <<pending_blocks, online, calls>>,
         \A k \in Nodes : active'[k] = active[k],
         \A k \in Nodes : main'[k] = main[k] \/ (~HasBlock(k)' /\ main[k].at # "await")
  PROVE  VotesInv'
<1>1. /\ \A k : Known(k)' = Known(k)
      /\ \A k, x : Votes(k, x)' = Votes(k, x) /\ Status(k, x)' = Status(k, x)
  BY SameEntries
<1>2. FullViews' /\ Unanimous' /\ OneCall'
  BY <1>1 DEF VotesInv, FullViews, Unanimous, OneCall
<1>3. \A c \in calls' : Awaited(c)'
  BY <1>1 DEF VotesInv, Awaited
<1>4. ASSUME NEW k \in Nodes
      PROVE  Asking(k)' /\ OneWay(k)'
  <2>1. CASE main'[k] = main[k]
    BY <1>1, <2>1 DEF VotesInv, Asking, OneWay, HasBlock
  <2>2. CASE ~HasBlock(k)'
    BY <2>2 DEF Asking, OneWay, HasBlock
  <2> QED
    BY <2>1, <2>2
<1> QED
  BY <1>2, <1>3, <1>4 DEF VotesInv

\* Two leaders never have the same block out, and the requests of one leader
\* are about its block.
LEMMA OwnBlocks ==
  ASSUME Inv, VotesInv, NEW n \in Nodes, HasBlock(n), NEW b, b = main[n].block
  PROVE  /\ b \in Known(n) /\ b \in Blocks
         /\ \A k \in Nodes : HasBlock(k) /\ k # n => main[k].block # b
         /\ \A c \in calls : /\ c.from \in Nodes /\ c.to \in Nodes /\ c.todo \subseteq Nodes
                             /\ c.from # n => c.block # b
                             /\ c.from = n => c.block = b
<1>1. /\ b \in Known(n) /\ b \in Blocks
      /\ \A k \in Nodes : HasBlock(k) /\ k # n => main[k].block # b
  BY DEF Inv, Entries, Leading
<1>2. ASSUME NEW c \in calls
      PROVE  /\ c.from \in Nodes /\ c.to \in Nodes /\ c.todo \subseteq Nodes
             /\ HasBlock(c.from) /\ main[c.from].block = c.block
  BY DEF Inv, Types, VotesInv, Awaited, HasBlock
<1> QED
  BY <1>1, <1>2

\* A block that is not yet proposed is known to nobody: its records are in a pool.
LEMMA ClearPoolFresh ==
  ASSUME Inv, NEW n \in Nodes, ClearPool(n)
  PROVE  \A k \in Nodes : main[n].block \notin Known(k)
<1>1. Data(main[n].block) # {} /\ Data(main[n].block) \subseteq Pool(n)
  BY DEF ClearPool, Inv, Leading
<1> QED
  BY <1>1 DEF Inv, Sealing

\* A new block has no votes.
LEMMA ClearPoolVotes ==
  ASSUME Inv, VotesInv, NEW n \in Nodes, ClearPool(n)
  PROVE  VotesInv'
<1> PICK b : b = main[n].block
  OBVIOUS
<1> DEFINE r == [at |-> "propose", block |-> b, todo |-> online[n]]
<1>1. /\ main[n].at = "clear"
      /\ main' = [main EXCEPT ![n] = r]
      /\ pending_blocks' = [pending_blocks EXCEPT ![n] = WithEntry(@, b, NewEntry)]
      /\ UNCHANGED <<active, online, calls>>
      /\ online[n] = Peers(n)
  BY DEF ClearPool, ProposeBlock, VotesInv, FullViews, Inv, Types
<1>2. /\ main'[n] = r /\ \A k \in Nodes : k # n => main'[k] = main[k]
      /\ r.at = "propose" /\ r.block = b /\ r.todo = Peers(n)
  BY <1>1 DEF Inv, Types
<1> HIDE DEF r
<1>3. \A k \in Nodes : b \notin Known(k)
  BY ClearPoolFresh
<1>4. EntrySet(n, b, {}, "pending")
  <2>1. EntrySet(n, b, NewEntry.voters, NewEntry.status)
    BY <1>1, SetEntry DEF Inv, Entries
  <2> QED
    BY <2>1 DEF NewEntry
<1>5. /\ \A k \in Nodes : Known(k)' = IF k = n THEN Known(k) \union {b} ELSE Known(k)
      /\ \A k \in Nodes : \A x : k # n \/ x # b =>
           Votes(k, x)' = Votes(k, x) /\ Status(k, x)' = Status(k, x)
      /\ Votes(n, b)' = {} /\ Status(n, b)' = "pending"
  BY <1>4 DEF EntrySet
<1>6. \A k \in Nodes : Votes(k, b)' = {}
  <2>1. \A k \in Nodes : Votes(k, b) = {}
    BY <1>3 DEF Votes
  <2> QED
    BY <1>5, <2>1
<1>7. \A k \in Nodes : k # n /\ HasBlock(k) => main[k].block # b
  BY <1>3 DEF Inv, Leading
<1>8. FullViews' /\ Unanimous' /\ OneCall'
  BY <1>1, <1>5 DEF VotesInv, FullViews, Unanimous, OneCall
<1>9. ASSUME NEW c \in calls'
      PROVE  Awaited(c)'
  <2>1. Awaited(c) /\ c.to \in Nodes /\ c.from \in Nodes /\ c.block \in Known(c.to)
    BY <1>1 DEF VotesInv, Inv, Types, Casting
  <2>2. c.from # n /\ c.block # b
    BY <1>1, <1>3, <2>1 DEF Awaited
  <2> QED
    BY <1>2, <1>5, <2>1, <2>2 DEF Awaited
<1>10. ASSUME NEW k \in Nodes
       PROVE  Asking(k)' /\ OneWay(k)'
  <2>1. CASE k = n
    <3>1. Asking(n)'
      BY <1>2, <1>3, <1>5, <1>6 DEF Asking, Peers
    <3>2. OneWay(n)'
      BY <1>2, <1>6 DEF OneWay, Peers
    <3> QED
      BY <2>1, <3>1, <3>2
  <2>2. CASE k # n
    <3>1. main'[k] = main[k] /\ Asking(k) /\ OneWay(k) /\ (HasBlock(k) => main[k].block # b)
      BY <1>2, <1>7, <2>2 DEF VotesInv
    <3>2. Asking(k)'
      BY <1>1, <1>5, <3>1 DEF Asking, HasBlock, Peers
    <3>3. OneWay(k)'
      BY <1>5, <3>1 DEF OneWay, HasBlock, Peers
    <3> QED
      BY <3>2, <3>3
  <2> QED
    BY <2>1, <2>2
<1> QED
  BY <1>8, <1>9, <1>10 DEF VotesInv

\* A proposal gives its peer the block and a first vote, that of the peer.
LEMMA PostProposalVotes ==
  ASSUME SmallCluster, Inv, VotesInv, NEW n \in Nodes, NEW m \in Peers(n), PostProposal(n, m)
  PROVE  VotesInv'
<1> PICK b : b = main[n].block
  OBVIOUS
<1> DEFINE r == [at |-> "await", block |-> b, peer |-> m, todo |-> main[n].todo \ {m}]
<1>1. /\ main[n].at = "propose" /\ m \in main[n].todo /\ HasBlock(n)
      /\ m \in Nodes /\ m # n
      /\ main' = [main EXCEPT ![n] = r]
      /\ UNCHANGED <<active, online>>
      /\ online[m] = Peers(m) /\ active[m] = Nodes
  BY DEF PostProposal, Peers, HasBlock, VotesInv, FullViews
<1>2. /\ main'[n] = r /\ \A k \in Nodes : k # n => main'[k] = main[k]
      /\ r.at = "await" /\ r.block = b /\ r.peer = m /\ r.todo = main[n].todo \ {m}
  BY <1>1 DEF Inv, Types
<1> HIDE DEF r
<1>3. /\ main[n].todo \subseteq Peers(n)
      /\ \A k \in main[n].todo : b \notin Known(k)
      /\ \A k \in Nodes : n \notin Votes(k, b)
      /\ Peers(n) \ main[n].todo \subseteq Votes(n, b)
  BY <1>1 DEF VotesInv, Asking
<1>4. /\ \A k \in Nodes : HasBlock(k) /\ k # n => main[k].block # b
      /\ \A c \in calls : /\ c.from \in Nodes /\ c.to \in Nodes /\ c.from # n
                          /\ c.block # b
  BY <1>1, OwnBlocks DEF VotesInv, Awaited
<1>5. Status(m, b) # "confirmed" /\ b \notin Known(m) /\ Votes(m, b) = {}
  BY <1>1, <1>3 DEF Status, Votes
<1>6. /\ EntrySet(m, b, {m}, "pending")
      /\ calls' = calls \union {Request(n, m, b)}
  <2>1. /\ EntrySet(m, b, {m}, Verdict(Cardinality({m}), Cardinality(active[m])))
        /\ calls' = calls \union {Request(n, m, b)}
    BY <1>1, <1>5, ProposalEffect DEF Inv
  <2>2. Verdict(Cardinality({m}), Cardinality(Nodes)) = "pending"
    BY <1>1, UnanimousVerdict
  <2> QED
    BY <1>1, <2>1, <2>2
<1>7. /\ \A k \in Nodes : Known(k)' = IF k = m THEN Known(k) \union {b} ELSE Known(k)
      /\ \A k \in Nodes : \A x : k # m \/ x # b =>
           Votes(k, x)' = Votes(k, x) /\ Status(k, x)' = Status(k, x)
      /\ Votes(m, b)' = {m} /\ Status(m, b)' = "pending"
  BY <1>6 DEF EntrySet
<1>8. /\ Request(n, m, b).from = n /\ Request(n, m, b).to = m /\ Request(n, m, b).block = b
      /\ Request(n, m, b).at = "votes" /\ Request(n, m, b).todo = Peers(m)
  BY <1>1 DEF Request
<1>9. FullViews' /\ OneCall'
  BY <1>1, <1>4, <1>6, <1>8 DEF VotesInv, FullViews, OneCall
<1>10. Unanimous'
  BY <1>1, <1>7 DEF VotesInv, Unanimous
<1>11. ASSUME NEW c \in calls'
       PROVE  Awaited(c)'
  <2>1. CASE c \in calls
    <3>1. Awaited(c) /\ c.to \in Nodes /\ c.from \in Nodes /\ c.from # n /\ c.block # b
      BY <1>4, <2>1 DEF VotesInv
    <3> QED
      BY <1>2, <1>7, <3>1 DEF Awaited
  <2>2. CASE c = Request(n, m, b)
    BY <1>1, <1>2, <1>7, <1>8, <2>2 DEF Awaited
  <2> QED
    BY <1>6, <2>1, <2>2
<1>12. ASSUME NEW k \in Nodes
       PROVE  Asking(k)' /\ OneWay(k)'
  <2>1. CASE k = n
    <3>1. Asking(n)'
      <4>1. \A j \in r.todo : b \notin Known(j)'
        BY <1>2, <1>3, <1>7 DEF Peers
      <4>2. \A j \in Nodes : n \notin Votes(j, b)'
        BY <1>1, <1>3, <1>7
      <4>3. Peers(n) \ (r.todo \union {m}) \subseteq Votes(n, b)'
        BY <1>1, <1>2, <1>3, <1>7
      <4>4. \E c \in calls' : c.from = n /\ n \in c.todo
        BY <1>1, <1>6, <1>8 DEF Peers
      <4>5. r.todo \subseteq Peers(n) /\ m \in Peers(n) \ r.todo
        BY <1>2, <1>3
      <4> QED
        BY <1>2, <4>1, <4>2, <4>3, <4>4, <4>5 DEF Asking
    <3>2. OneWay(n)'
      <4> SUFFICES ASSUME NEW p \in Peers(n), NEW q \in Peers(n), p # q,
                          q \in Votes(p, b)', p \in Votes(q, b)'
                   PROVE  FALSE
        BY <1>2 DEF OneWay
      <4>1. p # m /\ q # m
        <5>1. \A j \in Nodes : m \notin Votes(j, b)
          BY <1>5 DEF Inv, Casting, Votes
        <5> QED
          BY <1>7, <5>1 DEF Peers
      <4>2. q \in Votes(p, b) /\ p \in Votes(q, b)
        BY <1>7, <4>1 DEF Peers
      <4> QED
        BY <1>1, <4>2 DEF VotesInv, OneWay
    <3> QED
      BY <2>1, <3>1, <3>2
  <2>2. CASE k # n
    <3>1. main'[k] = main[k] /\ Asking(k) /\ OneWay(k) /\ (HasBlock(k) => main[k].block # b)
      BY <1>2, <1>4, <2>2 DEF VotesInv
    <3>2. Asking(k)'
      BY <1>6, <1>7, <3>1 DEF Asking, HasBlock, Peers
    <3>3. OneWay(k)'
      BY <1>7, <3>1 DEF OneWay, HasBlock, Peers
    <3> QED
      BY <3>2, <3>3
  <2> QED
    BY <2>1, <2>2
<1> QED
  BY <1>9, <1>10, <1>11, <1>12 DEF VotesInv

\* Status after a vote: confirmed if it was the last one missing.
LEMMA LastVoteConfirms ==
  ASSUME SmallCluster, Inv, VotesInv, NEW p \in Nodes, NEW b \in Known(p),
         NEW voter \in Nodes, voter \notin Votes(p, b)
  PROVE  StatusAfter(p, b, voter)
           = IF Votes(p, b) \union {voter} = Nodes THEN "confirmed" ELSE "pending"
<1>1. Votes(p, b) \subseteq Nodes /\ active[p] = Nodes
  BY DEF Inv, Entries, VotesInv, FullViews
<1>2. Status(p, b) = "pending"
  BY DEF VotesInv, Unanimous
<1> QED
  BY <1>1, <1>2, UnanimousVerdict DEF StatusAfter

\* The answer of a peer is there once its vote has reached the leader.
LEMMA ProposalAnsweredVotes ==
  ASSUME Inv, VotesInv, NEW n \in Nodes, ProposalAnswered(n)
  PROVE  VotesInv'
<1> PICK b : b = main[n].block
  OBVIOUS
<1>1. /\ main[n].at = "await" /\ ~Waiting(n) /\ HasBlock(n)
      /\ main' = [main EXCEPT ![n] = Proposing(n)]
      /\ UNCHANGED <<pending_blocks, active, online, calls>>
  BY DEF ProposalAnswered, HasBlock
<1>2. /\ main'[n].at = "propose" /\ main'[n].block = b /\ main'[n].todo = main[n].todo
      /\ \A k \in Nodes : k # n => main'[k] = main[k]
  BY <1>1 DEF Inv, Types, Proposing
<1>3. /\ \A k : Known(k)' = Known(k)
      /\ \A k, x : Votes(k, x)' = Votes(k, x) /\ Status(k, x)' = Status(k, x)
  BY <1>1, SameEntries
<1>4. \A c \in calls : c.from # n
  BY <1>1 DEF VotesInv, Awaited, Waiting
<1>5. FullViews' /\ Unanimous' /\ OneCall'
  BY <1>1, <1>3 DEF VotesInv, FullViews, Unanimous, OneCall
<1>6. ASSUME NEW c \in calls'
      PROVE  Awaited(c)'
  <2>1. Awaited(c) /\ c.from \in Nodes /\ c.from # n
    BY <1>1, <1>4 DEF VotesInv, Inv, Types
  <2> QED
    BY <1>2, <1>3, <2>1 DEF Awaited
<1>7. ASSUME NEW k \in Nodes
      PROVE  Asking(k)' /\ OneWay(k)'
  <2>1. Asking(k) /\ OneWay(k) /\ (HasBlock(k)' => HasBlock(k) /\ main'[k].block = main[k].block)
    BY <1>1, <1>2 DEF VotesInv, HasBlock
  <2>2. OneWay(k)'
    BY <1>3, <2>1 DEF OneWay
  <2>3. Asking(k)'
    <3>1. CASE k = n
      BY <1>1, <1>2, <1>3, <1>4, <2>1, <3>1 DEF Asking
    <3>2. CASE k # n
      BY <1>1, <1>2, <1>3, <2>1, <3>2 DEF Asking
    <3> QED
      BY <3>1, <3>2
  <2> QED
    BY <2>2, <2>3
<1> QED
  BY <1>5, <1>6, <1>7 DEF VotesInv

\* The leader's own vote is the last one that its entry misses.
LEMMA VoteForOwnBlockVotes ==
  ASSUME SmallCluster, Inv, VotesInv, NEW n \in Nodes, VoteForOwnBlock(n)
  PROVE  VotesInv'
<1> PICK b : b = main[n].block
  OBVIOUS
<1> DEFINE r == [at |-> "votes", block |-> b, todo |-> online[n]]
<1>1. /\ main[n].at = "propose" /\ main[n].todo = {} /\ HasBlock(n)
      /\ main' = [main EXCEPT ![n] = r]
      /\ pending_blocks' = [pending_blocks EXCEPT ![n] =
           IF CanVote(@, b, n) THEN Voted(@, b, n, active[n]) ELSE @]
      /\ UNCHANGED <<active, online, calls>>
      /\ online[n] = Peers(n)
  BY DEF VoteForOwnBlock, HasBlock, VotesInv, FullViews, Inv, Entries
<1>2. /\ main'[n] = r /\ \A k \in Nodes : k # n => main'[k] = main[k]
      /\ r.at = "votes" /\ r.block = b /\ r.todo = Peers(n)
  BY <1>1 DEF Inv, Types
<1> HIDE DEF r
<1>3. /\ \A k \in Nodes : n \notin Votes(k, b)
      /\ Peers(n) \subseteq Votes(n, b) /\ Votes(n, b) \subseteq Nodes
      /\ b \in Known(n)
  BY <1>1, OwnBlocks DEF VotesInv, Asking, Inv, Entries
<1>4. /\ \A k \in Nodes : HasBlock(k) /\ k # n => main[k].block # b
      /\ \A c \in calls : /\ c.from \in Nodes /\ c.to \in Nodes /\ c.from # n
                          /\ c.block # b
  BY <1>1, OwnBlocks DEF VotesInv, Awaited
<1>5. EntrySet(n, b, Nodes, "confirmed")
  <2>1. CanVote(pending_blocks[n], b, n)
    BY <1>3 DEF CanVote, Votes, Known
  <2>2. EntrySet(n, b, Votes(n, b) \union {n}, StatusAfter(n, b, n))
    <3>1. pending_blocks' = [pending_blocks EXCEPT ![n] =
            Voted(pending_blocks[n], b, n, active[n])]
      BY <1>1, <2>1
    <3> QED
      BY <2>1, <3>1, VotedEffect DEF Inv
  <2>3. Votes(n, b) \union {n} = Nodes
    BY <1>3 DEF Peers
  <2>4. StatusAfter(n, b, n) = "confirmed"
    BY <1>3, <2>3, LastVoteConfirms
  <2> QED
    BY <2>2, <2>3, <2>4
<1>6. /\ \A k \in Nodes : Known(k)' = Known(k)
      /\ \A k \in Nodes : \A x : k # n \/ x # b =>
           Votes(k, x)' = Votes(k, x) /\ Status(k, x)' = Status(k, x)
      /\ Votes(n, b)' = Nodes /\ Status(n, b)' = "confirmed"
  BY <1>3, <1>5 DEF EntrySet
<1>7. FullViews' /\ Unanimous' /\ OneCall'
  BY <1>1, <1>6 DEF VotesInv, FullViews, Unanimous, OneCall
<1>8. ASSUME NEW c \in calls'
      PROVE  Awaited(c)'
  <2>1. Awaited(c) /\ c.from \in Nodes /\ c.to \in Nodes /\ c.from # n /\ c.block # b
    BY <1>1, <1>4 DEF VotesInv
  <2> QED
    BY <1>2, <1>6, <2>1 DEF Awaited
<1>9. ASSUME NEW k \in Nodes
      PROVE  Asking(k)' /\ OneWay(k)'
  <2>1. CASE k = n
    <3>1. Asking(n)'
      BY <1>2, <1>6 DEF Asking
    <3>2. OneWay(n)'
      BY <1>1, <1>2, <1>6 DEF VotesInv, OneWay, Peers
    <3> QED
      BY <2>1, <3>1, <3>2
  <2>2. CASE k # n
    <3>1. main'[k] = main[k] /\ Asking(k) /\ OneWay(k) /\ (HasBlock(k) => main[k].block # b)
      BY <1>2, <1>4, <2>2 DEF VotesInv
    <3>2. Asking(k)'
      BY <1>1, <1>6, <3>1 DEF Asking, HasBlock, Peers
    <3>3. OneWay(k)'
      BY <1>6, <3>1 DEF OneWay, HasBlock, Peers
    <3> QED
      BY <3>2, <3>3
  <2> QED
    BY <2>1, <2>2
<1> QED
  BY <1>7, <1>8, <1>9 DEF VotesInv

\* The leader's vote reaches a peer.
LEMMA PostOwnVoteVotes ==
  ASSUME SmallCluster, Inv, VotesInv, NEW n \in Nodes, NEW p \in Nodes, PostOwnVote(n, p)
  PROVE  VotesInv'
<1> PICK b : b = main[n].block
  OBVIOUS
<1> DEFINE r == [main[n] EXCEPT !.todo = @ \ {p}]
<1>1. /\ main[n].at = "votes" /\ p \in main[n].todo /\ HasBlock(n)
      /\ TakeVote(p, b, n) /\ main[n] \in Rounds
      /\ UNCHANGED <<active, online, calls>>
  BY DEF PostOwnVote, HasBlock, Inv, Types
<1>2. /\ r.at = "votes" /\ r.block = b /\ r.todo = main[n].todo \ {p}
      /\ main' = [main EXCEPT ![n] = r]
  BY <1>1, RoundShorter DEF PostOwnVote
<1>3. main'[n] = r /\ \A k \in Nodes : k # n => main'[k] = main[k]
  BY <1>2 DEF Inv, Types
<1> HIDE DEF r
<1>4. /\ Votes(n, b) = Nodes /\ main[n].todo \subseteq Peers(n) /\ p # n
  BY <1>1 DEF VotesInv, Asking, Peers
<1>5. /\ \A k \in Nodes : HasBlock(k) /\ k # n => main[k].block # b
      /\ \A c \in calls : /\ c.from \in Nodes /\ c.to \in Nodes /\ c.from # n
                          /\ c.block # b
  BY <1>1, OwnBlocks DEF VotesInv, Awaited
<1>6. /\ \A k \in Nodes : Known(k)' = Known(k)
      /\ \A k \in Nodes : \A x : k # p \/ x # b =>
           Votes(k, x)' = Votes(k, x) /\ Status(k, x)' = Status(k, x)
      /\ \A v \in Peers(n) : v \in Votes(p, b)' => v \in Votes(p, b)
      /\ b \in Known(p) => Status(p, b)' = IF Votes(p, b)' = Nodes THEN "confirmed" ELSE "pending"
  <2>1. CASE UNCHANGED <<pending_blocks, chain>>
    BY <2>1, SameEntries DEF VotesInv, Unanimous
  <2>2. ASSUME b \in Known(p), n \notin Votes(p, b),
               EntrySet(p, b, Votes(p, b) \union {n}, StatusAfter(p, b, n))
        PROVE  <1>6
    BY <2>2, LastVoteConfirms DEF EntrySet, Peers
  <2> QED
    BY <1>1, <2>1, <2>2, TakeVoteEffect DEF Inv
<1>7. FullViews' /\ Unanimous' /\ OneCall'
  BY <1>1, <1>6 DEF VotesInv, FullViews, Unanimous, OneCall
<1>8. ASSUME NEW c \in calls'
      PROVE  Awaited(c)'
  <2>1. Awaited(c) /\ c.from \in Nodes /\ c.to \in Nodes /\ c.from # n /\ c.block # b
    BY <1>1, <1>5 DEF VotesInv
  <2> QED
    BY <1>3, <1>6, <2>1 DEF Awaited
<1>9. ASSUME NEW k \in Nodes
      PROVE  Asking(k)' /\ OneWay(k)'
  <2>1. CASE k = n
    <3>1. Asking(n)'
      BY <1>2, <1>3, <1>4, <1>6 DEF Asking
    <3>2. OneWay(n)'
      <4>1. \A x \in Peers(n) : \A v \in Peers(n) : v \in Votes(x, b)' => v \in Votes(x, b)
        BY <1>6 DEF Peers
      <4> QED
        BY <1>1, <1>2, <1>3, <4>1 DEF VotesInv, OneWay
    <3> QED
      BY <2>1, <3>1, <3>2
  <2>2. CASE k # n
    <3>1. main'[k] = main[k] /\ Asking(k) /\ OneWay(k) /\ (HasBlock(k) => main[k].block # b)
      BY <1>3, <1>5, <2>2 DEF VotesInv
    <3>2. Asking(k)'
      BY <1>1, <1>6, <3>1 DEF Asking, HasBlock, Peers
    <3>3. OneWay(k)'
      BY <1>6, <3>1 DEF OneWay, HasBlock, Peers
    <3> QED
      BY <3>2, <3>3
  <2> QED
    BY <2>1, <2>2
<1> QED
  BY <1>7, <1>8, <1>9 DEF VotesInv

\* A peer's vote reaches another server, the leader perhaps.
LEMMA PostVoteVotes ==
  ASSUME SmallCluster, Inv, VotesInv, NEW c \in calls, NEW p \in Peers(c.to), PostVote(c, p)
  PROVE  VotesInv'
<1> PICK b, m, n : b = c.block /\ m = c.to /\ n = c.from
  OBVIOUS
<1> DEFINE d == [c EXCEPT !.todo = @ \ {p}]
<1>1. /\ n \in Nodes /\ m \in Nodes /\ n # m /\ p \in Nodes /\ p # m /\ p \in c.todo
      /\ main[n].at = "await" /\ main[n].peer = m /\ main[n].block = b /\ HasBlock(n)
      /\ Votes(m, b) \subseteq {m}
      /\ c \in [from : Nodes, to : Nodes, block : Blocks, at : {"votes", "append"}, todo : SUBSET Nodes]
  BY DEF Inv, Types, VotesInv, Awaited, HasBlock, PostVote, Peers
<1>2. /\ TakeVote(p, b, m) /\ calls' = (calls \ {c}) \union {d}
      /\ UNCHANGED <<active, online, main>>
  BY DEF PostVote
<1>3. /\ d.from = n /\ d.to = m /\ d.block = b /\ d.at = c.at
      /\ d.todo = c.todo \ {p}
  BY <1>1
<1> HIDE DEF d
<1>4. /\ \A k \in Nodes : HasBlock(k) /\ k # n => main[k].block # b
      /\ \A e \in calls : /\ e.from \in Nodes /\ e.to \in Nodes
                          /\ e # c => e.from # n /\ e.block # b
      /\ b \in Known(n)
  <2>1. \A e \in calls : e.from = n => e = c
    BY DEF VotesInv, OneCall
  <2> QED
    BY <1>1, <2>1, OwnBlocks
<1>5. /\ \A k \in Nodes : Known(k)' = Known(k)
      /\ \A k \in Nodes : \A x : k # p \/ x # b =>
           Votes(k, x)' = Votes(k, x) /\ Status(k, x)' = Status(k, x)
      /\ Votes(p, b) \subseteq Votes(p, b)'
      /\ \A v : v \in Votes(p, b)' => v = m \/ v \in Votes(p, b)
      /\ b \in Known(p) =>
           /\ Status(p, b)' = IF Votes(p, b)' = Nodes THEN "confirmed" ELSE "pending"
           /\ m \in Votes(p, b)'
  <2>1. ASSUME b \notin Known(p) \/ m \in Votes(p, b), UNCHANGED <<pending_blocks, chain>>
        PROVE  <1>5
    BY <1>1, <2>1, SameEntries DEF VotesInv, Unanimous
  <2>2. ASSUME b \in Known(p), m \notin Votes(p, b),
               EntrySet(p, b, Votes(p, b) \union {m}, StatusAfter(p, b, m))
        PROVE  <1>5
    BY <1>1, <2>2, LastVoteConfirms DEF EntrySet
  <2> QED
    BY <1>1, <1>2, <2>1, <2>2, TakeVoteEffect DEF Inv
<1>6. FullViews' /\ OneCall'
  BY <1>2, <1>3, <1>4 DEF VotesInv, FullViews, OneCall
<1>7. Unanimous'
  BY <1>5 DEF VotesInv, Unanimous
<1>8. ASSUME NEW e \in calls'
      PROVE  Awaited(e)'
  <2>1. CASE e = d
    <3>1. Awaited(c)
      BY DEF VotesInv
    <3> QED
      BY <1>1, <1>2, <1>3, <1>5, <2>1, <3>1 DEF Awaited
  <2>2. CASE e \in calls /\ e # c
    <3>1. Awaited(e) /\ e.to \in Nodes /\ e.block # b
      BY <1>4, <2>2 DEF VotesInv
    <3> QED
      BY <1>2, <1>5, <3>1 DEF Awaited
  <2> QED
    BY <1>2, <2>1, <2>2
<1>9. ASSUME NEW k \in Nodes
      PROVE  Asking(k)' /\ OneWay(k)'
  <2>1. CASE k = n
    <3>1. Asking(n) /\ OneWay(n)
      BY <1>1 DEF VotesInv
    <3>2. \A j \in Nodes : n \notin Votes(j, b)'
      BY <1>1, <1>5, <3>1 DEF Asking
    <3>3. \/ m \in Votes(n, b)'
          \/ \E e \in calls' : e.from = n /\ n \in e.todo
      <4>1. CASE p = n
        BY <1>4, <1>5, <4>1
      <4>2. CASE p # n
        <5>1. CASE m \in Votes(n, b)
          BY <1>1, <1>5, <4>2, <5>1
        <5>2. CASE \E e \in calls : e.from = n /\ n \in e.todo
          <6>1. n \in c.todo
            BY <1>4, <5>2
          <6> QED
            BY <1>2, <1>3, <4>2, <6>1
        <5> QED
          BY <1>1, <3>1, <5>1, <5>2 DEF Asking
      <4> QED
        BY <4>1, <4>2
    <3>4. Asking(n)'
      BY <1>1, <1>2, <1>5, <3>1, <3>2, <3>3 DEF Asking, Peers
    <3>5. OneWay(n)'
      <4> SUFFICES ASSUME NEW x \in Peers(n), NEW y \in Peers(n), x # y,
                          y \in Votes(x, b)', x \in Votes(y, b)'
                   PROVE  FALSE
        BY <1>1, <1>2 DEF OneWay
      <4>1. ~(y \in Votes(x, b) /\ x \in Votes(y, b))
        BY <1>1, <3>1 DEF OneWay
      <4> QED
        BY <1>1, <1>5, <4>1 DEF Peers
    <3> QED
      BY <2>1, <3>4, <3>5
  <2>2. CASE k # n
    <3>1. main'[k] = main[k] /\ Asking(k) /\ OneWay(k) /\ (HasBlock(k) => main[k].block # b)
      BY <1>2, <1>4, <2>2 DEF VotesInv
    <3>2. \A e \in calls : e.from = k => e \in calls'
      BY <1>2, <2>2
    <3>3. Asking(k)'
      BY <1>5, <3>1, <3>2 DEF Asking, HasBlock, Peers
    <3>4. OneWay(k)'
      BY <1>5, <3>1 DEF OneWay, HasBlock, Peers
    <3> QED
      BY <3>3, <3>4
  <2> QED
    BY <2>1, <2>2
<1> QED
  BY <1>6, <1>7, <1>8, <1>9 DEF VotesInv

\* A request ends when its vote has reached everybody, the leader too, and never
\* appends its block: the leader has not voted.
LEMMA FinishCallVotes ==
  ASSUME Inv, VotesInv, NEW c \in calls, FinishCall(c)
  PROVE  VotesInv' /\ UNCHANGED chain /\ calls' = calls \ {c}
<1> PICK b, m, n : b = c.block /\ m = c.to /\ n = c.from
  OBVIOUS
<1>1. /\ n \in Nodes /\ m \in Nodes /\ n # m
      /\ main[n].at = "await" /\ main[n].peer = m /\ main[n].block = b
      /\ c.todo = {}
      /\ UNCHANGED <<chain, pending_blocks, active, online, main>>
  BY DEF Inv, Types, VotesInv, Awaited, FinishCall
<1>2. /\ \A k : Known(k)' = Known(k)
      /\ \A k, x : Votes(k, x)' = Votes(k, x) /\ Status(k, x)' = Status(k, x)
  BY <1>1, SameEntries
<1>3. ~MayAppend(m, pending_blocks[m], b)
  <2>1. n \notin Votes(m, b)
    BY <1>1 DEF VotesInv, Asking
  <2>2. Status(m, b) # "confirmed"
    <3>1. CASE b \in Known(m)
      BY <1>1, <2>1, <3>1 DEF VotesInv, Unanimous
    <3>2. CASE b \notin Known(m)
      BY <3>2 DEF Status
    <3> QED
      BY <3>1, <3>2
  <2> QED
    BY <2>2 DEF MayAppend, IsConfirmed, Status, Known
<1>4. calls' = calls \ {c}
  BY <1>3 DEF FinishCall
<1>5. \A e \in calls : e.from = n => e = c
  BY DEF VotesInv, OneCall
<1>6. FullViews' /\ Unanimous' /\ OneCall'
  BY <1>1, <1>2, <1>4 DEF VotesInv, FullViews, Unanimous, OneCall
<1>7. \A e \in calls' : Awaited(e)'
  BY <1>1, <1>2, <1>4 DEF VotesInv, Awaited
<1>8. ASSUME NEW k \in Nodes
      PROVE  Asking(k)' /\ OneWay(k)'
  <2>1. Asking(k) /\ OneWay(k)
    BY DEF VotesInv
  <2>2. main[k].at = "await" =>
          \/ main[k].peer \in Votes(k, main[k].block)
          \/ \E e \in calls' : e.from = k /\ k \in e.todo
    BY <1>1, <1>4, <1>5, <2>1 DEF Asking
  <2> QED
    BY <1>1, <1>2, <2>1, <2>2 DEF Asking, OneWay, HasBlock
<1> QED
  BY <1>1, <1>4, <1>6, <1>7, <1>8 DEF VotesInv

\* Every other step of a main loop.
LEMMA MainStepsVotes ==
  ASSUME Inv, VotesInv, NEW n \in Nodes,
         \/ AddData(n) \/ BeginRound(n) \/ CreateBlock(n) \/ FinishRound(n)
         \/ AppendOwnBlock(n) \/ SyncStep(n)
  PROVE  VotesInv'
<1>1. calls \subseteq [from : Nodes, to : Nodes, block : Blocks,
                       at : {"votes", "append"}, todo : SUBSET Nodes]
      /\ main \in [Nodes -> Rounds] /\ active \in [Nodes -> SUBSET Nodes]
  BY DEF Inv, Types
<1>2. CASE AddData(n)
  BY <1>1, <1>2, VotesStay DEF AddData
<1>3. CASE BeginRound(n)
  <2>1. \A k \in Nodes : active'[k] = active[k]
    BY <1>1, <1>3 DEF BeginRound, VotesInv, FullViews, Peers
  <2>2. \A k \in Nodes : main'[k] = main[k] \/ (~HasBlock(k)' /\ main[k].at # "await")
    <3>1. main[n].at # "await" /\ main'[n].at \in {"create", "loop"}
      BY <1>1, <1>3 DEF BeginRound, Loop
    <3>2. \A k \in Nodes : k # n => main'[k] = main[k]
      BY <1>1, <1>3 DEF BeginRound
    <3> QED
      BY <3>1, <3>2 DEF HasBlock
  <2> QED
    BY <1>1, <1>3, <2>1, <2>2, VotesStay DEF BeginRound
<1>4. CASE AppendOwnBlock(n) \/ SyncStep(n)
  <2>1. \A k \in Nodes : main'[k] = main[k] \/ (~HasBlock(k)' /\ main[k].at # "await")
    BY <1>1, <1>4 DEF AppendOwnBlock, SyncStep, FindBestPeer, FetchChain, ReplaceChain, Loop, HasBlock
  <2> QED
    BY <1>1, <1>4, <2>1, VotesStay
    DEF AppendOwnBlock, SyncStep, FindBestPeer, FetchChain, ReplaceChain
<1>5. CASE FinishRound(n)
  <2>1. /\ main[n].at = "votes"
        /\ \/ main'[n] = [at |-> "append", block |-> main[n].block]
           \/ main'[n] = Loop
        /\ \A k \in Nodes : k # n => main'[k] = main[k]
        /\ UNCHANGED <<pending_blocks, active, online, calls>>
    BY <1>1, <1>5 DEF FinishRound
  <2>2. CASE main'[n] = Loop
    BY <1>1, <2>1, <2>2, VotesStay DEF Loop, HasBlock
  <2>3. CASE main'[n] = [at |-> "append", block |-> main[n].block]
    <3>1. /\ \A k : Known(k)' = Known(k)
          /\ \A k, x : Votes(k, x)' = Votes(k, x) /\ Status(k, x)' = Status(k, x)
      BY <2>1, SameEntries
    <3>2. FullViews' /\ Unanimous' /\ OneCall'
      BY <2>1, <3>1 DEF VotesInv, FullViews, Unanimous, OneCall
    <3>3. ASSUME NEW c \in calls'
          PROVE  Awaited(c)'
      <4>1. Awaited(c) /\ c.from \in Nodes /\ c.from # n
        BY <1>1, <2>1 DEF VotesInv, Awaited
      <4> QED
        BY <2>1, <3>1, <4>1 DEF Awaited
    <3>4. ASSUME NEW k \in Nodes
          PROVE  Asking(k)' /\ OneWay(k)'
      <4>1. CASE k = n
        BY <2>1, <2>3, <3>1, <4>1 DEF VotesInv, Asking, OneWay, HasBlock
      <4>2. CASE k # n
        BY <2>1, <3>1, <4>2 DEF VotesInv, Asking, OneWay, HasBlock
      <4> QED
        BY <4>1, <4>2
    <3> QED
      BY <3>2, <3>3, <3>4 DEF VotesInv
  <2> QED
    BY <2>1, <2>2, <2>3
<1>6. CASE CreateBlock(n)
  <2>1. \A k \in Nodes : main'[k] = main[k] \/ (~HasBlock(k)' /\ main[k].at # "await")
    BY <1>1, <1>6 DEF CreateBlock, HasBlock
  <2> QED
    BY <1>1, <1>6, <2>1, VotesStay DEF CreateBlock
<1> QED
  BY <1>2, <1>3, <1>4, <1>5, <1>6

\* What is left of the next-state relation when no call fails.  A request has
\* nothing to append, and nobody has to come back online.
Steps ==
  \/ UNCHANGED vars
  \/ \E n \in Nodes :
       \/ AddData(n) \/ BeginRound(n) \/ CreateBlock(n) \/ ClearPool(n) \/ ProposalAnswered(n)
       \/ VoteForOwnBlock(n) \/ FinishRound(n) \/ AppendOwnBlock(n)
       \/ FindBestPeer(n) \/ FetchChain(n) \/ ReplaceChain(n)
  \/ \E n \in Nodes : \E p \in Peers(n) : PostProposal(n, p) \/ PostOwnVote(n, p)
  \/ \E c \in calls : FinishCall(c) \/ \E p \in Peers(c.to) : PostVote(c, p)

LEMMA FaultlessSteps ==
  ASSUME Faults = {}, VotesInv, [Next]_vars
  PROVE  Steps
<1>1. ~NetworkFault
  BY DEF NetworkFault, TimeOutProposal, LoseFetch, LoseProposal, LoseOwnVote, HeartbeatFails, LoseVote
<1>2. \A n, m \in Nodes : ~HeartbeatSucceeds(n, m)
  BY DEF VotesInv, FullViews, HeartbeatSucceeds
<1>3. \A c \in calls : ~AppendBlock(c)
  BY DEF VotesInv, Awaited, AppendBlock
<1> QED
  BY <1>1, <1>2, <1>3 DEF Next, Steps, ProposeStep, SyncStep, CallStep

\* Every step keeps what is known of the votes.
LEMMA StepVotes ==
  ASSUME Faults = {}, SmallCluster, Inv, VotesInv, [Next]_vars
  PROVE  VotesInv'
<1>1. CASE UNCHANGED vars
  <2>1. calls \subseteq [from : Nodes, to : Nodes, block : Blocks,
                         at : {"votes", "append"}, todo : SUBSET Nodes]
    BY DEF Inv, Types
  <2> QED
    BY <1>1, <2>1, VotesStay DEF vars
<1>2. ASSUME NEW n \in Nodes,
             \/ AddData(n) \/ BeginRound(n) \/ CreateBlock(n) \/ FinishRound(n)
             \/ AppendOwnBlock(n) \/ FindBestPeer(n) \/ FetchChain(n) \/ ReplaceChain(n)
      PROVE  VotesInv'
  BY <1>2, MainStepsVotes DEF SyncStep
<1>3. ASSUME NEW n \in Nodes, ClearPool(n) \/ ProposalAnswered(n) \/ VoteForOwnBlock(n)
      PROVE  VotesInv'
  BY <1>3, ClearPoolVotes, ProposalAnsweredVotes, VoteForOwnBlockVotes
<1>4. ASSUME NEW n \in Nodes, NEW p \in Peers(n), PostProposal(n, p) \/ PostOwnVote(n, p)
      PROVE  VotesInv'
  BY <1>4, PostProposalVotes, PostOwnVoteVotes DEF Peers
<1>5. ASSUME NEW c \in calls, FinishCall(c) \/ \E p \in Peers(c.to) : PostVote(c, p)
      PROVE  VotesInv'
  BY <1>5, FinishCallVotes, PostVoteVotes
<1> QED
  BY <1>1, <1>2, <1>3, <1>4, <1>5, FaultlessSteps DEF Steps

-----------------------------------------------------------------------------
(* The chains while no call fails.                                         *)

\* The chain that a server has, or will have at the end of its round.
Tip(n) == IF HasBlock(n) THEN Append(chain[n], main[n].block) ELSE chain[n]

\* A server makes a block when it is its turn, and what it makes fits its chain.
InTurn(n) ==
  /\ main[n].at \in {"create", "clear"} \/ HasBlock(n) => Leads(n, Len(chain[n]))
  /\ main[n].at = "clear" \/ HasBlock(n) =>
       ValidateBlock(chain[n], main[n].block) /\ main[n].block.data_list # << >>

\* A position that somebody has filled was filled by its leader, who is at or
\* past it.
InOrder(n, m) ==
  \A i \in 2..Len(Tip(m)) : Leads(n, i - 1) =>
    Len(chain[n]) >= i \/ (HasBlock(n) /\ Len(chain[n]) = i - 1)

\* A chain that was fetched is a part of a chain that somebody has, and longer
\* than ours still.
Catching(n) ==
  main[n].at = "replace" =>
    /\ Len(main[n].remote) > Len(chain[n])
    /\ \E k \in Nodes : IsPrefix(main[n].remote, chain[k])

\* While a leader is at its block, others get past it by that block alone, and
\* the first of them had confirmed it.
Spread(n, m) ==
  HasBlock(n) /\ Len(chain[m]) > Len(chain[n]) =>
    \E k \in Peers(n) : Status(k, main[n].block) = "confirmed" /\ Len(chain[k]) > Len(chain[n])

ChainsInv ==
  /\ \A n \in Nodes : WellFormed(chain[n]) /\ InTurn(n) /\ Catching(n)
  /\ \A n, m \in Nodes : Comparable(Tip(n), Tip(m)) /\ InOrder(n, m) /\ Spread(n, m)

LEMMA InitChains == Init => ChainsInv
<1> SUFFICES ASSUME Init
             PROVE  ChainsInv
  OBVIOUS
<1> DEFINE g == <<Genesis>>
<1>1. g \in Seq(Blocks) /\ WellFormed(g) /\ Len(g) = 1 /\ IsPrefix(g, g)
  BY GenesisWellFormed, PrefixSelf
<1> HIDE DEF g
<1>2. \A n \in Nodes : main[n].at = "loop" /\ chain[n] = g
  BY DEF Init, Loop, g
<1>3. \A n \in Nodes : ~HasBlock(n) /\ Tip(n) = g
  BY <1>2 DEF HasBlock, Tip
<1> QED
  BY <1>1, <1>2, <1>3 DEF ChainsInv, InTurn, Catching, Comparable, InOrder, Spread

\* What a tip is.
LEMMA TipType ==
  ASSUME Inv, NEW n \in Nodes
  PROVE  /\ chain[n] \in Seq(Blocks) /\ chain[n] # << >>
         /\ Len(chain[n]) \in Nat /\ Len(chain[n]) >= 1
         /\ Tip(n) \in Seq(Blocks) /\ IsPrefix(chain[n], Tip(n))
         /\ Len(Tip(n)) = IF HasBlock(n) THEN Len(chain[n]) + 1 ELSE Len(chain[n])
<1>1. /\ chain[n] \in Seq(Blocks) /\ chain[n] # << >>
      /\ Len(chain[n]) \in Nat /\ Len(chain[n]) >= 1 /\ IsPrefix(chain[n], chain[n])
  <2>1. chain[n] \in Seq(Blocks) /\ chain[n] # << >>
    BY DEF Inv, Types, Chains
  <2> QED
    BY <2>1, LenProperties, EmptySeq, PrefixSelf
<1>2. CASE HasBlock(n)
  <2> PICK b : b = main[n].block
    OBVIOUS
  <2>1. b \in Blocks
    BY <1>2 DEF Inv, Entries, Leading
  <2>2. /\ Append(chain[n], b) \in Seq(Blocks) /\ Len(Append(chain[n], b)) = Len(chain[n]) + 1
        /\ IsPrefix(chain[n], Append(chain[n], b))
    BY <1>1, <2>1, AppendElements, PrefixAppend
  <2> QED
    BY <1>1, <1>2, <2>2 DEF Tip
<1>3. CASE ~HasBlock(n)
  BY <1>1, <1>3 DEF Tip
<1> QED
  BY <1>2, <1>3

\* A server stays at the block it is at, and at the chain it has fetched.
SameRound(n) ==
  /\ HasBlock(n)' <=> HasBlock(n)
  /\ HasBlock(n) => main'[n].block = main[n].block
  /\ main'[n].at = "create" => main[n].at = "create"
  /\ main'[n].at = "clear" => main[n].at = "clear" /\ main'[n].block = main[n].block
  /\ main'[n].at = "replace" => main[n].at = "replace" /\ main'[n].remote = main[n].remote

\* What is confirmed stays confirmed.
Confirming ==
  \A n \in Nodes : \A b : Status(n, b) = "confirmed" => Status(n, b)' = "confirmed"

\* Steps that leave the chains alone, and with them whose turn it is.
LEMMA ChainsStay ==
  ASSUME ChainsInv, Confirming, UNCHANGED chain,
         \A n \in Nodes :
           \/ SameRound(n)
           \/ ~HasBlock(n) /\ ~HasBlock(n)' /\ InTurn(n)' /\ Catching(n)'
  PROVE  ChainsInv'
<1>1. \A n \in Nodes : HasBlock(n)' <=> HasBlock(n)
  BY DEF SameRound
<1>2. \A n \in Nodes : HasBlock(n) => main'[n].block = main[n].block
  BY DEF SameRound
<1>3. \A n \in Nodes : Tip(n)' = Tip(n)
  BY <1>1, <1>2 DEF Tip
<1>4. ASSUME NEW n \in Nodes
      PROVE  WellFormed(chain'[n]) /\ InTurn(n)' /\ Catching(n)'
  <2>1. WellFormed(chain[n]) /\ InTurn(n) /\ Catching(n)
    BY DEF ChainsInv
  <2>2. CASE SameRound(n)
    BY <2>1, <2>2 DEF SameRound, InTurn, Catching
  <2> QED
    BY <2>1, <2>2
<1>5. ASSUME NEW n \in Nodes, NEW m \in Nodes
      PROVE  Comparable(Tip(n)', Tip(m)') /\ InOrder(n, m)' /\ Spread(n, m)'
  <2>1. Comparable(Tip(n), Tip(m)) /\ InOrder(n, m) /\ Spread(n, m)
    BY DEF ChainsInv
  <2>2. InOrder(n, m)'
    BY <1>1, <1>3, <2>1 DEF InOrder
  <2>3. Spread(n, m)'
    BY <1>1, <1>2, <2>1 DEF Spread, Confirming, Peers
  <2> QED
    BY <1>3, <2>1, <2>2, <2>3
<1> QED
  BY <1>4, <1>5 DEF ChainsInv, Comparable

\* A leader proposes its block when nobody is further than it is.
LEMMA ClearPoolChains ==
  ASSUME Inv, VotesInv, ChainsInv, NEW n \in Nodes, ClearPool(n)
  PROVE  ChainsInv'
<1> PICK b : b = main[n].block
  OBVIOUS
<1> DEFINE r == [at |-> "propose", block |-> b, todo |-> online[n]]
<1>1. /\ main[n].at = "clear"
      /\ main' = [main EXCEPT ![n] = r] /\ main \in [Nodes -> Rounds]
      /\ pending_blocks' = [pending_blocks EXCEPT ![n] = WithEntry(@, b, NewEntry)]
      /\ UNCHANGED chain
  BY DEF ClearPool, ProposeBlock, Inv, Types
<1>2. /\ main'[n].at = "propose" /\ main'[n].block = b
      /\ \A k \in Nodes : k # n => main'[k] = main[k]
      /\ ~HasBlock(n) /\ HasBlock(n)'
      /\ \A k \in Nodes : k # n => (HasBlock(k)' <=> HasBlock(k))
  BY <1>1 DEF HasBlock
<1> HIDE DEF r
<1>3. /\ b \in Blocks /\ ValidateBlock(chain[n], b) /\ b.data_list # << >>
  BY <1>1, RoundFields DEF Inv, Types, ChainsInv, InTurn
<1>4. Confirming
  <2>1. EntrySet(n, b, NewEntry.voters, NewEntry.status)
    BY <1>1, SetEntry DEF Inv, Entries
  <2>2. Status(n, b) # "confirmed"
    <3>1. b \notin Known(n)
      BY ClearPoolFresh
    <3> QED
      BY <3>1 DEF Status
  <2> QED
    BY <2>1, <2>2 DEF EntrySet, Confirming
<1>5. ASSUME NEW m \in Nodes
      PROVE  Len(Tip(m)) <= Len(chain[n]) /\ Len(chain[m]) <= Len(chain[n])
  <2>1. ASSUME Len(Tip(m)) > Len(chain[n])
        PROVE  FALSE
    <3>1. Len(chain[n]) + 1 \in 2..Len(Tip(m)) /\ Len(chain[n]) + 1 - 1 = Len(chain[n])
      BY <2>1, TipType
    <3>2. Leads(n, Len(chain[n]))
      BY <1>1 DEF ChainsInv, InTurn
    <3>3. InOrder(n, m) /\ Len(chain[n]) \in Nat
      BY TipType DEF ChainsInv
    <3> QED
      BY <1>2, <3>1, <3>2, <3>3 DEF InOrder
  <2> QED
    BY <2>1, TipType
<1>6. Tip(n)' = Append(chain[n], b) /\ \A m \in Nodes : m # n => Tip(m)' = Tip(m)
  BY <1>1, <1>2 DEF Tip
<1>7. /\ Append(chain[n], b) \in Seq(Blocks) /\ Len(Append(chain[n], b)) = Len(chain[n]) + 1
      /\ IsPrefix(Append(chain[n], b), Append(chain[n], b))
  <2>1. chain[n] \in Seq(Blocks)
    BY TipType
  <2>2. /\ Append(chain[n], b) \in Seq(Blocks)
        /\ Len(Append(chain[n], b)) = Len(chain[n]) + 1
    BY <1>3, <2>1, AppendElements
  <2> QED
    BY <2>2, PrefixSelf
<1>8. ASSUME NEW m \in Nodes
      PROVE  WellFormed(chain'[m]) /\ InTurn(m)' /\ Catching(m)'
  <2>1. WellFormed(chain[m]) /\ InTurn(m) /\ Catching(m)
    BY DEF ChainsInv
  <2> QED
    BY <1>1, <1>2, <1>3, <2>1 DEF InTurn, Catching, HasBlock
<1>9. ASSUME NEW m \in Nodes
      PROVE  Comparable(Tip(m), Append(chain[n], b)) /\ Comparable(Append(chain[n], b), Tip(m))
  <2>1. IsPrefix(Tip(m), chain[n])
    <3>1. Comparable(Tip(m), Tip(n)) /\ Tip(n) = chain[n]
      BY <1>2 DEF ChainsInv, Tip
    <3> QED
      BY <1>5, <3>1, TipType, ComparableLengths
  <2>2. IsPrefix(Tip(m), Append(chain[n], b))
    BY <1>3, <2>1, TipType, PrefixAppend
  <2> QED
    BY <2>2 DEF Comparable
<1>10. ASSUME NEW k \in Nodes, NEW m \in Nodes
       PROVE  InOrder(k, m)'
  <2> SUFFICES ASSUME NEW i \in 2..Len(Tip(m)'), Leads(k, i - 1)
               PROVE  Len(chain[k]) >= i \/ (HasBlock(k)' /\ Len(chain[k]) = i - 1)
    BY <1>1 DEF InOrder
  <2>1. CASE i <= Len(Tip(m))
    <3>1. InOrder(k, m) /\ i \in 2..Len(Tip(m))
      BY <2>1, TipType DEF ChainsInv
    <3> QED
      BY <1>2, <3>1 DEF InOrder
  <2>2. CASE i > Len(Tip(m))
    <3>1. m = n /\ i = Len(chain[n]) + 1
      <4>1. m = n
        BY <1>6, <2>2, TipType
      <4>2. Tip(n) = chain[n] /\ Len(chain[n]) \in Nat
        BY <1>2, TipType DEF Tip
      <4> QED
        BY <1>6, <1>7, <2>2, <4>1, <4>2
    <3>2. Leads(n, Len(chain[n])) /\ Leads(k, Len(chain[n]))
      BY <1>1, <3>1, TipType DEF ChainsInv, InTurn
    <3>3. k = n
      BY <3>2, OneLeader
    <3> QED
      BY <1>2, <3>1, <3>3, TipType
  <2> QED
    BY <2>1, <2>2, TipType
<1>11. ASSUME NEW k \in Nodes, NEW m \in Nodes
       PROVE  Spread(k, m)'
  <2>1. CASE k = n
    BY <1>1, <1>5, <2>1, TipType DEF Spread
  <2>2. CASE k # n
    BY <1>1, <1>2, <1>4, <2>2 DEF ChainsInv, Spread, Confirming, Peers
  <2> QED
    BY <2>1, <2>2
<1>12. ASSUME NEW k \in Nodes, NEW m \in Nodes
       PROVE  Comparable(Tip(k)', Tip(m)')
  BY <1>6, <1>7, <1>9 DEF ChainsInv, Comparable
<1> QED
  BY <1>8, <1>10, <1>11, <1>12 DEF ChainsInv, Comparable

\* A server moves on along a tip, be it to its own block, to one that is
\* confirmed by votes or to a chain that it fetched.
LEMMA ChainGrows ==
  ASSUME Inv, ChainsInv, Confirming,
         NEW p \in Nodes, NEW c \in Seq(Blocks), NEW t \in Nodes,
         chain' = [chain EXCEPT ![p] = c],
         WellFormed(c), IsPrefix(chain[p], c), IsPrefix(c, Tip(t)), Len(c) > Len(chain[p]),
         ~HasBlock(p)', main'[p].at \notin {"create", "clear", "replace"},
         \A k \in Nodes : k # p => SameRound(k),
         \A k \in Nodes : \A b :
           k # p /\ HasBlock(k) /\ b = main[k].block /\ Len(c) > Len(chain[k]) =>
             Status(p, b)' = "confirmed" \/ \E m \in Nodes : Len(chain[m]) > Len(chain[k])
  PROVE  ChainsInv' /\ \A k \in Nodes : IsPrefix(chain[k], chain'[k])
<1>1. /\ chain'[p] = c /\ \A k \in Nodes : k # p => chain'[k] = chain[k]
      /\ Len(c) \in Nat /\ Len(c) <= Len(Tip(t))
  <2>1. Len(c) \in Nat /\ Len(c) <= Len(Tip(t))
    BY TipType, LenProperties, PrefixElements
  <2> QED
    BY <2>1 DEF Inv, Types
<1>2. \A k \in Nodes : /\ chain'[k] \in Seq(Blocks) /\ Len(chain'[k]) \in Nat
                       /\ IsPrefix(chain[k], chain'[k]) /\ Len(chain[k]) <= Len(chain'[k])
  BY <1>1, TipType, PrefixSelf
<1>3. \A k \in Nodes : k # p => Tip(k)' = Tip(k)
  BY <1>1 DEF SameRound, Tip
<1>4. Tip(p)' = c
  BY <1>1 DEF Tip
<1>5. \A k \in Nodes : \E j \in Nodes :
        Tip(k)' \in Seq(Blocks) /\ IsPrefix(Tip(k)', Tip(j)) /\ Len(Tip(k)') <= Len(Tip(j))
  <2> SUFFICES ASSUME NEW k \in Nodes
               PROVE  \E j \in Nodes : /\ Tip(k)' \in Seq(Blocks) /\ IsPrefix(Tip(k)', Tip(j))
                                      /\ Len(Tip(k)') <= Len(Tip(j))
    OBVIOUS
  <2>1. CASE k = p
    BY <1>1, <1>4, <2>1
  <2>2. CASE k # p
    <3>1. Tip(k)' = Tip(k) /\ Tip(k) \in Seq(Blocks)
      BY <1>3, <2>2, TipType
    <3>2. IsPrefix(Tip(k), Tip(k)) /\ Len(Tip(k)) <= Len(Tip(k))
      BY <3>1, PrefixSelf, PrefixElements
    <3> QED
      BY <3>1, <3>2
  <2> QED
    BY <2>1, <2>2
<1>6. ASSUME NEW k \in Nodes
      PROVE  WellFormed(chain'[k]) /\ InTurn(k)' /\ Catching(k)'
  <2>1. WellFormed(chain[k]) /\ InTurn(k) /\ Catching(k)
    BY DEF ChainsInv
  <2>2. CASE k = p
    BY <1>1, <2>2 DEF InTurn, Catching
  <2>3. CASE k # p
    <3>1. chain'[k] = chain[k] /\ SameRound(k)
      BY <1>1, <2>3
    <3>2. InTurn(k)'
      BY <2>1, <3>1 DEF InTurn, SameRound
    <3>3. ASSUME main'[k].at = "replace"
          PROVE  \E j \in Nodes : IsPrefix(main'[k].remote, chain'[j])
      <4>1. main[k].at = "replace" /\ main'[k].remote = main[k].remote
        BY <3>1, <3>3 DEF SameRound
      <4>2. main[k].remote \in Seq(Blocks)
        BY <4>1, RoundFields DEF Inv, Types, Chains
      <4>3. PICK j \in Nodes : IsPrefix(main[k].remote, chain[j])
        BY <2>1, <4>1 DEF Catching
      <4>4. IsPrefix(main[k].remote, chain'[j])
        BY <1>2, <4>2, <4>3, TipType, PrefixTransitive
      <4> QED
        BY <4>1, <4>4
    <3>4. Catching(k)'
      BY <2>1, <3>1, <3>3 DEF Catching, SameRound
    <3> QED
      BY <2>1, <3>1, <3>2, <3>4
  <2> QED
    BY <2>2, <2>3
<1>7. ASSUME NEW k \in Nodes, NEW m \in Nodes
      PROVE  Comparable(Tip(k)', Tip(m)')
  <2>1. PICK i \in Nodes : Tip(k)' \in Seq(Blocks) /\ IsPrefix(Tip(k)', Tip(i))
    BY <1>5
  <2>2. PICK j \in Nodes : Tip(m)' \in Seq(Blocks) /\ IsPrefix(Tip(m)', Tip(j))
    BY <1>5
  <2>3. PICK x, y : x = Tip(k)' /\ y = Tip(m)'
    OBVIOUS
  <2>4. Comparable(Tip(i), Tip(j)) /\ Tip(i) \in Seq(Blocks) /\ Tip(j) \in Seq(Blocks)
    BY TipType DEF ChainsInv
  <2>5. Comparable(x, Tip(j))
    BY <2>1, <2>3, <2>4, PrefixTransitive
  <2>6. Comparable(Tip(j), x)
    BY <2>5 DEF Comparable
  <2>7. Comparable(x, y)
    BY <2>1, <2>2, <2>3, <2>4, <2>6, PrefixTransitive
  <2> QED
    BY <2>3, <2>7
<1>8. ASSUME NEW k \in Nodes, NEW m \in Nodes
      PROVE  InOrder(k, m)'
  <2> SUFFICES ASSUME NEW i \in 2..Len(Tip(m)'), Leads(k, i - 1)
               PROVE  Len(chain'[k]) >= i \/ (HasBlock(k)' /\ Len(chain'[k]) = i - 1)
    BY DEF InOrder
  <2>1. PICK j \in Nodes : Tip(m)' \in Seq(Blocks) /\ Len(Tip(m)') <= Len(Tip(j))
    BY <1>5
  <2>2. i \in 2..Len(Tip(j)) /\ i \in Nat
    BY <2>1, TipType, LenProperties
  <2>3. Len(chain[k]) >= i \/ (HasBlock(k) /\ Len(chain[k]) = i - 1)
    BY <2>2 DEF ChainsInv, InOrder
  <2>4. CASE k = p
    BY <1>1, <2>2, <2>3, <2>4, TipType
  <2>5. CASE k # p
    BY <1>1, <2>3, <2>5 DEF SameRound
  <2> QED
    BY <2>4, <2>5
<1>9. ASSUME NEW k \in Nodes, NEW m \in Nodes
      PROVE  Spread(k, m)'
  <2> SUFFICES ASSUME HasBlock(k)', Len(chain'[m]) > Len(chain'[k]),
                      NEW b, b = main[k].block
               PROVE  \E j \in Peers(k) :
                        Status(j, b)' = "confirmed" /\ Len(chain'[j]) > Len(chain'[k])
    BY DEF Spread, SameRound, Peers
  <2>1. k # p /\ HasBlock(k) /\ main'[k].block = b /\ chain'[k] = chain[k]
    BY <1>1 DEF SameRound
  <2>2. CASE \E i \in Nodes : Len(chain[i]) > Len(chain[k])
    <3>1. PICK j \in Peers(k) : Status(j, b) = "confirmed" /\ Len(chain[j]) > Len(chain[k])
      BY <2>1, <2>2 DEF ChainsInv, Spread
    <3>2. j \in Nodes /\ Status(j, b)' = "confirmed"
      BY <3>1 DEF Confirming, Peers
    <3>3. Len(chain'[j]) > Len(chain'[k])
      BY <1>2, <2>1, <3>1, <3>2, TipType
    <3> QED
      BY <3>1, <3>2, <3>3
  <2>3. CASE ~\E i \in Nodes : Len(chain[i]) > Len(chain[k])
    <3>1. m = p /\ Status(p, b)' = "confirmed"
      BY <1>1, <2>1, <2>3
    <3> QED
      BY <2>1, <3>1 DEF Peers
  <2> QED
    BY <2>2, <2>3
<1> QED
  BY <1>2, <1>6, <1>7, <1>8, <1>9 DEF ChainsInv, Comparable

\* Of two chains one is a prefix of the other.
LEMMA ChainsComparable ==
  ASSUME Inv, ChainsInv, NEW n \in Nodes, NEW m \in Nodes
  PROVE  Comparable(chain[n], chain[m])
<1>1. /\ chain[n] \in Seq(Blocks) /\ Tip(n) \in Seq(Blocks) /\ IsPrefix(chain[n], Tip(n))
      /\ chain[m] \in Seq(Blocks) /\ Tip(m) \in Seq(Blocks) /\ IsPrefix(chain[m], Tip(m))
  BY TipType
<1>2. Comparable(Tip(n), Tip(m))
  BY DEF ChainsInv
<1>3. Comparable(Tip(m), chain[n])
  BY <1>1, <1>2, PrefixTransitive
<1> QED
  BY <1>1, <1>3, PrefixTransitive

\* A block fits no other chain than the one its leader made it for.
LEMMA BlockFits ==
  ASSUME Inv, ChainsInv, NEW n \in Nodes, HasBlock(n), NEW p \in Nodes,
         NEW b, b = main[n].block, ValidateBlock(chain[p], b)
  PROVE  /\ chain[p] = chain[n] /\ Append(chain[p], b) = Tip(n)
         /\ b.block_height = Len(chain[n]) /\ b \in Blocks /\ b.data_list # << >>
<1>1. \A k \in Nodes : LatestBlock(chain[k]).block_height = Len(chain[k]) - 1
  <2> SUFFICES ASSUME NEW k \in Nodes
               PROVE  LatestBlock(chain[k]).block_height = Len(chain[k]) - 1
    OBVIOUS
  <2>1. Len(chain[k]) \in DOMAIN chain[k]
    BY TipType, LenProperties
  <2> QED
    BY <2>1 DEF ChainsInv, WellFormed, LatestBlock
<1>2. ValidateBlock(chain[n], b) /\ b.data_list # << >> /\ b \in Blocks
  BY DEF ChainsInv, InTurn, Inv, Entries, Leading
<1>3. b.block_height = Len(chain[n]) /\ b.block_height = Len(chain[p])
  BY <1>1, <1>2, TipType DEF ValidateBlock
<1>4. Comparable(chain[p], chain[n]) /\ chain[p] \in Seq(Blocks) /\ chain[n] \in Seq(Blocks)
  BY ChainsComparable, TipType
<1>5. chain[p] = chain[n]
  BY <1>3, <1>4, ComparableLengths
<1> QED
  BY <1>2, <1>3, <1>5 DEF Tip

\* A part of a well-formed chain is well formed.
LEMMA PrefixWellFormed ==
  ASSUME NEW c \in Seq(Blocks), NEW d \in Seq(Blocks), c # << >>, IsPrefix(c, d), WellFormed(d)
  PROVE  WellFormed(c)
<1>1. /\ Len(c) <= Len(d) /\ \A i \in 1..Len(c) : c[i] = d[i]
      /\ Len(c) \in Nat /\ Len(d) \in Nat /\ Len(c) >= 1
      /\ DOMAIN c = 1..Len(c) /\ DOMAIN d = 1..Len(d)
  <2>1. Len(c) <= Len(d) /\ \A i \in 1..Len(c) : c[i] = d[i]
    BY PrefixElements
  <2> QED
    BY <2>1, LenProperties, EmptySeq
<1>2. /\ d[1] = Genesis /\ \A i \in 1..Len(d) : d[i].block_height = i - 1
      /\ \A i \in 2..Len(d) : d[i].data_list # << >>
      /\ \A i \in 2..Len(d) : d[i].prev_block_hash = d[i-1].current_hash /\ ValidateHash(d[i])
  BY <1>1 DEF WellFormed, IsChainValid
<1>3. \A i \in 2..Len(c) : i \in 2..Len(d) /\ c[i] = d[i] /\ c[i-1] = d[i-1]
  BY <1>1
<1>4. c[1] = Genesis /\ \A i \in 1..Len(c) : c[i].block_height = i - 1
  BY <1>1, <1>2
<1>5. IsChainValid(c) /\ \A i \in 2..Len(c) : c[i].data_list # << >>
  BY <1>2, <1>3 DEF IsChainValid
<1> QED
  BY <1>1, <1>4, <1>5 DEF WellFormed

\* The chain that p moves on to with the help of t: a longer part of the chain
\* of t, or its own chain with the block that t is at.
Ahead(p, t, c) ==
  \/ IsPrefix(c, chain[t]) /\ Len(c) > Len(chain[p])
  \/ HasBlock(t) /\ chain[p] = chain[t] /\ c = Tip(t)

Advance(p, t) == \E c \in Seq(Blocks) : Ahead(p, t, c) /\ chain' = [chain EXCEPT ![p] = c]

LEMMA AheadTip ==
  ASSUME Inv, ChainsInv, NEW p \in Nodes, NEW t \in Nodes, NEW c \in Seq(Blocks), Ahead(p, t, c)
  PROVE  WellFormed(c) /\ IsPrefix(chain[p], c) /\ IsPrefix(c, Tip(t)) /\ Len(c) > Len(chain[p])
<1>1. CASE IsPrefix(c, chain[t]) /\ Len(c) > Len(chain[p])
  <2>1. /\ chain[t] \in Seq(Blocks) /\ WellFormed(chain[t]) /\ chain[p] \in Seq(Blocks)
        /\ Len(chain[p]) \in Nat /\ Len(chain[p]) >= 1 /\ Len(c) \in Nat
        /\ Tip(t) \in Seq(Blocks) /\ IsPrefix(chain[t], Tip(t))
        /\ Comparable(chain[t], chain[p])
    BY TipType, ChainsComparable, LenProperties DEF ChainsInv
  <2>2. c # << >>
    BY <1>1, <2>1, EmptySeq
  <2>3. WellFormed(c)
    BY <1>1, <2>1, <2>2, PrefixWellFormed
  <2>4. IsPrefix(c, Tip(t)) /\ Comparable(chain[p], c)
    BY <1>1, <2>1, PrefixTransitive
  <2>5. IsPrefix(chain[p], c)
    BY <1>1, <2>1, <2>4, ComparableLengths
  <2> QED
    BY <1>1, <2>3, <2>4, <2>5
<1>2. CASE HasBlock(t) /\ chain[p] = chain[t] /\ c = Tip(t)
  <2> PICK b : b = main[t].block
    OBVIOUS
  <2>1. /\ chain[t] \in Seq(Blocks) /\ IsPrefix(chain[t], Tip(t))
        /\ Len(Tip(t)) = Len(chain[t]) + 1 /\ Len(chain[t]) \in Nat
        /\ Tip(t) = Append(chain[t], b)
    BY <1>2, TipType DEF Tip
  <2>2. /\ WellFormed(chain[t]) /\ b \in Blocks
        /\ ValidateBlock(chain[t], b) /\ b.data_list # << >>
    BY <1>2 DEF ChainsInv, InTurn, Inv, Entries, Leading
  <2>3. WellFormed(Tip(t))
    BY <2>1, <2>2, AppendWellFormed
  <2>4. IsPrefix(Tip(t), Tip(t))
    BY <1>2, PrefixSelf
  <2> QED
    BY <1>2, <2>1, <2>3, <2>4
<1> QED
  BY <1>1, <1>2 DEF Ahead

\* A vote that a peer posts confirms no block, for the leader has not voted.
LEMMA PostVoteChains ==
  ASSUME SmallCluster, Inv, VotesInv, ChainsInv, NEW c \in calls, NEW p \in Peers(c.to),
         PostVote(c, p)
  PROVE  ChainsInv' /\ UNCHANGED chain
<1> PICK b, m, n : b = c.block /\ m = c.to /\ n = c.from
  OBVIOUS
<1>1. /\ n \in Nodes /\ m \in Nodes /\ n # m /\ p \in Nodes
      /\ \A k \in Nodes : n \notin Votes(k, b)
      /\ TakeVote(p, b, m) /\ UNCHANGED main
  BY DEF Inv, Types, VotesInv, Awaited, Asking, PostVote, Peers
<1>2. UNCHANGED chain /\ Confirming
  <2>1. CASE UNCHANGED <<pending_blocks, chain>>
    BY <2>1, SameEntries DEF Confirming
  <2>2. ASSUME b \in Known(p), m \notin Votes(p, b),
               EntrySet(p, b, Votes(p, b) \union {m}, StatusAfter(p, b, m)),
               chain' = [chain EXCEPT ![p] =
                 IF StatusAfter(p, b, m) = "confirmed" /\ ValidateBlock(chain[p], b)
                 THEN Append(chain[p], b) ELSE chain[p]]
        PROVE  UNCHANGED chain /\ Confirming
    <3>1. StatusAfter(p, b, m) = "pending"
      BY <1>1, <2>2, LastVoteConfirms
    <3>2. UNCHANGED chain
      BY <2>2, <3>1 DEF Inv, Types
    <3>3. Confirming
      BY <2>2 DEF EntrySet, Confirming, StatusAfter
    <3> QED
      BY <3>2, <3>3
  <2> QED
    BY <1>1, <2>1, <2>2, TakeVoteEffect DEF Inv
<1>3. \A k \in Nodes : SameRound(k)
  BY <1>1 DEF SameRound, HasBlock
<1> QED
  BY <1>2, <1>3, ChainsStay

\* The leader's vote confirms its block on a peer, which may append it at once.
LEMMA PostOwnVoteChains ==
  ASSUME SmallCluster, Inv, VotesInv, VotesInv', ChainsInv,
         NEW n \in Nodes, NEW p \in Nodes, PostOwnVote(n, p)
  PROVE  ChainsInv' /\ (UNCHANGED chain \/ Advance(p, n))
<1> PICK b : b = main[n].block
  OBVIOUS
<1> DEFINE r == [main[n] EXCEPT !.todo = @ \ {p}]
<1>1. /\ main[n].at = "votes" /\ p \in main[n].todo /\ HasBlock(n)
      /\ TakeVote(p, b, n) /\ main[n] \in Rounds
  BY DEF PostOwnVote, HasBlock, Inv, Types
<1>2. /\ r.at = "votes" /\ r.block = b /\ main' = [main EXCEPT ![n] = r]
  BY <1>1, RoundShorter DEF PostOwnVote
<1>3. main'[n] = r /\ \A k \in Nodes : k # n => main'[k] = main[k]
  BY <1>2 DEF Inv, Types
<1> HIDE DEF r
<1>4. \A k \in Nodes : SameRound(k)
  BY <1>1, <1>2, <1>3 DEF SameRound, HasBlock
<1>5. p # n
  BY <1>1 DEF VotesInv, Asking, Peers
<1>6. CASE UNCHANGED <<pending_blocks, chain>>
  <2>1. Confirming
    BY <1>6, SameEntries DEF Confirming
  <2> QED
    BY <1>4, <1>6, <2>1, ChainsStay
<1>7. ASSUME b \in Known(p), n \notin Votes(p, b),
             EntrySet(p, b, Votes(p, b) \union {n}, StatusAfter(p, b, n)),
             chain' = [chain EXCEPT ![p] =
               IF StatusAfter(p, b, n) = "confirmed" /\ ValidateBlock(chain[p], b)
               THEN Append(chain[p], b) ELSE chain[p]]
      PROVE  ChainsInv' /\ (UNCHANGED chain \/ Advance(p, n))
  <2>1. Confirming /\ Status(p, b)' = StatusAfter(p, b, n)
    BY <1>7 DEF EntrySet, Confirming, StatusAfter
  <2>2. CASE ~(StatusAfter(p, b, n) = "confirmed" /\ ValidateBlock(chain[p], b))
    <3>1. UNCHANGED chain
      BY <1>7, <2>2 DEF Inv, Types
    <3> QED
      BY <1>4, <2>1, <3>1, ChainsStay
  <2>3. CASE StatusAfter(p, b, n) = "confirmed" /\ ValidateBlock(chain[p], b)
    <3>1. /\ chain[p] = chain[n] /\ Append(chain[p], b) = Tip(n)
          /\ Tip(n) \in Seq(Blocks) /\ Len(Tip(n)) = Len(chain[n]) + 1
          /\ Len(chain[n]) \in Nat
      BY <1>1, <2>3, BlockFits, TipType
    <3>2. Ahead(p, n, Tip(n)) /\ chain' = [chain EXCEPT ![p] = Tip(n)]
      BY <1>1, <1>7, <2>3, <3>1 DEF Ahead
    <3>3. Status(p, b)' = "confirmed" /\ Status(p, b) # "confirmed"
      <4>1. Status(p, b) = IF Votes(p, b) = Nodes THEN "confirmed" ELSE "pending"
        BY <1>7 DEF VotesInv, Unanimous
      <4> QED
        BY <1>7, <2>1, <2>3, <4>1
    <3>4. ~HasBlock(p) /\ main[p].at \notin {"create", "clear"}
      <4>1. Leads(n, Len(chain[n]))
        BY <1>1 DEF ChainsInv, InTurn
      <4>2. ~Leads(p, Len(chain[p]))
        BY <1>5, <3>1, <4>1, OneLeader
      <4> QED
        BY <4>2 DEF ChainsInv, InTurn
    <3>5. main[p].at # "replace"
      <4> SUFFICES ASSUME main[p].at = "replace"
                   PROVE  FALSE
        OBVIOUS
      <4>1. PICK k \in Nodes : IsPrefix(main[p].remote, chain[k])
        BY DEF ChainsInv, Catching
      <4>2. Len(chain[k]) > Len(chain[n])
        <5>1. main[p].remote \in Seq(Blocks)
          BY RoundFields DEF Inv, Types, Chains
        <5>2. Len(main[p].remote) <= Len(chain[k])
          BY <4>1, <5>1, TipType, PrefixElements
        <5>3. Len(main[p].remote) > Len(chain[p])
          BY DEF ChainsInv, Catching
        <5> QED
          BY <3>1, <5>1, <5>2, <5>3, TipType, LenProperties
      <4>3. PICK j \in Peers(n) : Status(j, b) = "confirmed" /\ Len(chain[j]) > Len(chain[n])
        BY <1>1, <4>2 DEF ChainsInv, Spread
      <4>4. j \in Nodes /\ j # p /\ j # n
        BY <3>1, <4>3, TipType DEF Peers
      <4>5. Status(j, b)' = "confirmed"
        BY <2>1, <4>3, <4>4 DEF Confirming
      <4>6. Votes(j, b)' = Nodes /\ Votes(p, b)' = Nodes
        BY <3>3, <4>4, <4>5 DEF VotesInv, Unanimous, Status
      <4>7. HasBlock(n)' /\ main'[n].block = b
        BY <1>2, <1>3 DEF HasBlock
      <4>8. \A x, y \in Peers(n) : x # y => ~(y \in Votes(x, b)' /\ x \in Votes(y, b)')
        BY <4>7 DEF VotesInv, OneWay, Peers
      <4> QED
        BY <1>5, <4>4, <4>6, <4>8 DEF Peers
    <3>6. ~HasBlock(p)' /\ main'[p].at \notin {"create", "clear", "replace"}
      BY <1>4, <3>4, <3>5 DEF SameRound
    <3>7. ASSUME NEW k \in Nodes, NEW x, HasBlock(k), x = main[k].block,
                 Len(Tip(n)) > Len(chain[k])
          PROVE  Status(p, x)' = "confirmed" \/ \E m \in Nodes : Len(chain[m]) > Len(chain[k])
      <4>1. CASE Len(chain[k]) = Len(chain[n])
        <5>1. Leads(n, Len(chain[n])) /\ Leads(k, Len(chain[n]))
          BY <1>1, <3>7, <4>1 DEF ChainsInv, InTurn
        <5>2. k = n
          BY <5>1, OneLeader
        <5> QED
          BY <3>3, <3>7, <5>2
      <4>2. CASE Len(chain[k]) # Len(chain[n])
        BY <3>1, <3>7, <4>2, TipType
      <4> QED
        BY <4>1, <4>2
    <3>8. /\ WellFormed(Tip(n)) /\ IsPrefix(chain[p], Tip(n)) /\ IsPrefix(Tip(n), Tip(n))
          /\ Len(Tip(n)) > Len(chain[p])
      BY <3>1, <3>2, AheadTip
    <3>9. ChainsInv'
      BY <1>4, <2>1, <3>1, <3>2, <3>6, <3>7, <3>8, ChainGrows
    <3> QED
      BY <3>1, <3>2, <3>9 DEF Advance
  <2> QED
    BY <2>2, <2>3
<1> QED
  BY <1>1, <1>6, <1>7, TakeVoteEffect DEF Inv

\* The leader appends its own block.
LEMMA AppendOwnBlockChains ==
  ASSUME Inv, ChainsInv, NEW n \in Nodes, AppendOwnBlock(n)
  PROVE  ChainsInv' /\ Advance(n, n)
<1> PICK b : b = main[n].block
  OBVIOUS
<1>1. /\ main[n].at = "append" /\ HasBlock(n) /\ main'[n] = Loop
      /\ \A k \in Nodes : k # n => main'[k] = main[k]
      /\ chain' = [chain EXCEPT ![n] = Append(chain[n], b)]
      /\ UNCHANGED pending_blocks
  BY DEF AppendOwnBlock, HasBlock, Inv, Types
<1>2. ~HasBlock(n)' /\ main'[n].at \notin {"create", "clear", "replace"}
  BY <1>1 DEF HasBlock, Loop
<1>3. Confirming /\ \A k \in Nodes : k # n => SameRound(k)
  BY <1>1, SameEntries DEF Confirming, SameRound, HasBlock
<1>4. Append(chain[n], b) = Tip(n)
  BY <1>1 DEF Tip
<1>5. Ahead(n, n, Tip(n)) /\ chain' = [chain EXCEPT ![n] = Tip(n)]
  BY <1>1, <1>4 DEF Ahead
<1>6. /\ Tip(n) \in Seq(Blocks) /\ Len(Tip(n)) = Len(chain[n]) + 1 /\ Len(chain[n]) \in Nat
  BY <1>1, TipType
<1>7. /\ WellFormed(Tip(n)) /\ IsPrefix(chain[n], Tip(n)) /\ IsPrefix(Tip(n), Tip(n))
      /\ Len(Tip(n)) > Len(chain[n])
  BY <1>5, <1>6, AheadTip
<1>8. ASSUME NEW k \in Nodes, k # n, HasBlock(k), Len(Tip(n)) > Len(chain[k])
      PROVE  \E m \in Nodes : Len(chain[m]) > Len(chain[k])
  <2>1. Len(chain[k]) # Len(chain[n])
    BY <1>1, <1>8, OneLeader DEF ChainsInv, InTurn
  <2> QED
    BY <1>6, <1>8, <2>1, TipType
<1>9. ChainsInv'
  BY <1>2, <1>3, <1>5, <1>6, <1>7, <1>8, ChainGrows
<1> QED
  BY <1>5, <1>6, <1>9 DEF Advance

\* A server takes over the longer chain that it fetched.
LEMMA ReplaceChainChains ==
  ASSUME Inv, ChainsInv, NEW n \in Nodes, ReplaceChain(n)
  PROVE  ChainsInv' /\ \E t \in Nodes : Advance(n, t)
<1> PICK c : c = main[n].remote
  OBVIOUS
<1>1. /\ main[n].at = "replace" /\ ~HasBlock(n) /\ main'[n] = Loop
      /\ \A k \in Nodes : k # n => main'[k] = main[k]
      /\ chain' = [chain EXCEPT ![n] = c]
      /\ UNCHANGED pending_blocks
  BY DEF ReplaceChain, HasBlock, Inv, Types
<1>2. ~HasBlock(n)' /\ main'[n].at \notin {"create", "clear", "replace"}
  BY <1>1 DEF HasBlock, Loop
<1>3. Confirming /\ \A k \in Nodes : k # n => SameRound(k)
  BY <1>1, SameEntries DEF Confirming, SameRound, HasBlock
<1>4. c \in Seq(Blocks) /\ Len(c) \in Nat
  BY <1>1, RoundFields, LenProperties DEF Inv, Types, Chains
<1>5. PICK t \in Nodes : IsPrefix(c, chain[t]) /\ Len(c) > Len(chain[n])
  BY <1>1 DEF ChainsInv, Catching
<1>6. Ahead(n, t, c)
  BY <1>5 DEF Ahead
<1>7. WellFormed(c) /\ IsPrefix(chain[n], c) /\ IsPrefix(c, Tip(t)) /\ Len(c) > Len(chain[n])
  BY <1>4, <1>6, AheadTip
<1>8. ASSUME NEW k \in Nodes, Len(c) > Len(chain[k])
      PROVE  \E m \in Nodes : Len(chain[m]) > Len(chain[k])
  <2>1. Len(c) <= Len(chain[t])
    BY <1>4, <1>5, TipType, PrefixElements
  <2> QED
    BY <1>4, <1>8, <2>1, TipType
<1>9. ChainsInv'
  BY <1>1, <1>2, <1>3, <1>4, <1>7, <1>8, ChainGrows
<1> QED
  BY <1>1, <1>4, <1>6, <1>9 DEF Advance

\* Whoever has told everybody finds its block confirmed, and valid still.
LEMMA FinishRoundAppends ==
  ASSUME Inv, VotesInv, ChainsInv, NEW n \in Nodes, FinishRound(n)
  PROVE  main[n].at = "votes" /\ main'[n].at = "append" /\ main'[n].block = main[n].block
<1> PICK b : b = main[n].block
  OBVIOUS
<1>1. main[n].at = "votes" /\ HasBlock(n)
  BY DEF FinishRound, HasBlock
<1>2. Votes(n, b) = Nodes /\ b \in Known(n)
  BY <1>1, OwnBlocks DEF VotesInv, Asking
<1>3. Status(n, b) = "confirmed" /\ ValidateBlock(chain[n], b)
  BY <1>1, <1>2 DEF VotesInv, Unanimous, ChainsInv, InTurn
<1>4. MayAppend(n, pending_blocks[n], b)
  BY <1>2, <1>3 DEF MayAppend, IsConfirmed, Status, Known
<1>5. main'[n] = [at |-> "append", block |-> b]
  BY <1>4 DEF FinishRound, Inv, Types
<1> QED
  BY <1>1, <1>5

\* The other steps of the main loops and the pools leave the chains alone.
LEMMA QuietSteps ==
  ASSUME SmallCluster, Inv, VotesInv, ChainsInv, NEW n \in Nodes,
         \/ AddData(n) \/ BeginRound(n) \/ CreateBlock(n) \/ ProposalAnswered(n)
         \/ VoteForOwnBlock(n) \/ FinishRound(n) \/ FindBestPeer(n) \/ FetchChain(n)
         \/ \E p \in Peers(n) : PostProposal(n, p)
  PROVE  ChainsInv' /\ UNCHANGED chain
<1>1. /\ UNCHANGED chain /\ main \in [Nodes -> Rounds]
      /\ \A k \in Nodes : k # n => main'[k] = main[k]
  BY DEF AddData, BeginRound, CreateBlock, ProposalAnswered, VoteForOwnBlock, FinishRound,
         FindBestPeer, FetchChain, PostProposal, Inv, Types
<1>2. \A k \in Nodes : k # n => SameRound(k)
  BY <1>1 DEF SameRound, HasBlock
<1>3. Confirming
  <2>1. CASE UNCHANGED pending_blocks
    BY <2>1, SameEntries DEF Confirming
  <2>2. CASE VoteForOwnBlock(n)
    <3> PICK b : b = main[n].block
      OBVIOUS
    <3>1. CASE CanVote(pending_blocks[n], b, n)
      <4>1. pending_blocks' = [pending_blocks EXCEPT ![n] =
              Voted(pending_blocks[n], b, n, active[n])]
        BY <2>2, <3>1 DEF VoteForOwnBlock
      <4>2. EntrySet(n, b, Votes(n, b) \union {n}, StatusAfter(n, b, n))
        BY <3>1, <4>1, VotedEffect DEF Inv
      <4> QED
        BY <4>2 DEF EntrySet, Confirming, StatusAfter
    <3>2. CASE ~CanVote(pending_blocks[n], b, n)
      <4>1. UNCHANGED pending_blocks
        BY <2>2, <3>2 DEF VoteForOwnBlock, Inv, Entries
      <4> QED
        BY <2>1, <4>1
    <3> QED
      BY <3>1, <3>2
  <2>3. ASSUME NEW p \in Peers(n), PostProposal(n, p)
        PROVE  Confirming
    <3> PICK b : b = main[n].block
      OBVIOUS
    <3>1. \/ UNCHANGED pending_blocks
          \/ /\ Status(p, b) # "confirmed"
             /\ EntrySet(p, b, {p}, Verdict(Cardinality({p}), Cardinality(active[p])))
      BY <2>3, ProposalEffect DEF Inv, Peers
    <3> QED
      BY <2>1, <3>1 DEF EntrySet, Confirming
  <2> QED
    BY <2>1, <2>2, <2>3 DEF AddData, BeginRound, CreateBlock, ProposalAnswered, FinishRound,
                            FindBestPeer, FetchChain
<1>4. SameRound(n) \/ (~HasBlock(n) /\ ~HasBlock(n)' /\ InTurn(n)' /\ Catching(n)')
  <2>1. CASE AddData(n)
    BY <2>1 DEF AddData, SameRound, HasBlock
  <2>2. CASE BeginRound(n)
    <3>1. active'[n] = Nodes /\ main[n].at = "loop"
      BY <2>2 DEF BeginRound, VotesInv, FullViews, Peers, Inv, Types, Loop
    <3>2. \/ main'[n].at = "loop"
          \/ main'[n].at = "create" /\ Leads(n, Len(chain[n]))
      BY <1>1, <2>2, <3>1 DEF BeginRound, Leads, Loop
    <3> QED
      BY <1>1, <3>1, <3>2 DEF HasBlock, InTurn, Catching
  <2>3. CASE FindBestPeer(n)
    <3>1. main[n].at = "loop" /\ main'[n].at = "fetch"
      BY <1>1, <2>3 DEF FindBestPeer, Loop
    <3> QED
      BY <3>1 DEF HasBlock, InTurn, Catching
  <2>4. CASE FetchChain(n)
    <3> PICK m, remote : m = main[n].peer /\ remote = chain[m]
      OBVIOUS
    <3>1. m \in Nodes /\ main[n].at = "fetch"
      BY <2>4, RoundFields DEF FetchChain, Inv, Types
    <3>2. \/ main'[n].at = "loop"
          \/ /\ main'[n].at = "replace" /\ main'[n].remote = remote
             /\ Len(remote) > Len(chain[n])
      BY <1>1, <2>4 DEF FetchChain, Outweighs, Loop
    <3>3. IsPrefix(remote, chain[m])
      BY <3>1, TipType, PrefixSelf
    <3> QED
      BY <1>1, <3>1, <3>2, <3>3 DEF HasBlock, InTurn, Catching
  <2>5. CASE FinishRound(n)
    BY <2>5, FinishRoundAppends DEF SameRound, HasBlock
  <2>6. CASE ProposalAnswered(n) \/ VoteForOwnBlock(n) \/ \E p \in Peers(n) : PostProposal(n, p)
    <3>1. /\ HasBlock(n) /\ main'[n].at \in {"propose", "votes", "await"}
          /\ main'[n].block = main[n].block
      BY <1>1, <2>6 DEF ProposalAnswered, Proposing, VoteForOwnBlock, PostProposal, HasBlock
    <3> QED
      BY <3>1 DEF SameRound, HasBlock
  <2>7. CASE CreateBlock(n)
    <3> PICK b : b = NextBlock(chain[n], pending_data[n])
      OBVIOUS
    <3>1. main[n].at = "create" /\ main'[n].at = "clear" /\ main'[n].block = b
      BY <1>1, <2>7 DEF CreateBlock
    <3>2. ValidateBlock(chain[n], b) /\ b.data_list # << >>
      BY <3>1, SealedPool
    <3>3. Leads(n, Len(chain[n]))
      BY <3>1 DEF ChainsInv, InTurn
    <3> QED
      BY <1>1, <3>1, <3>2, <3>3 DEF HasBlock, InTurn, Catching
  <2> QED
    BY <2>1, <2>2, <2>3, <2>4, <2>5, <2>6, <2>7
<1> QED
  BY <1>1, <1>2, <1>3, <1>4, ChainsStay

\* Every step keeps the chains on one log, and moves at most one server along it.
LEMMA StepChains ==
  ASSUME Faults = {}, SmallCluster, Inv, VotesInv, ChainsInv, [Next]_vars
  PROVE  ChainsInv' /\ (UNCHANGED chain \/ \E p, t \in Nodes : Advance(p, t))
<1>1. CASE UNCHANGED vars
  <2>1. Confirming /\ \A k \in Nodes : SameRound(k)
    BY <1>1, SameEntries DEF vars, Confirming, SameRound, HasBlock
  <2> QED
    BY <1>1, <2>1, ChainsStay DEF vars
<1>2. ASSUME NEW n \in Nodes,
             \/ AddData(n) \/ BeginRound(n) \/ CreateBlock(n) \/ ProposalAnswered(n)
             \/ VoteForOwnBlock(n) \/ FinishRound(n) \/ FindBestPeer(n) \/ FetchChain(n)
             \/ \E p \in Peers(n) : PostProposal(n, p)
      PROVE  ChainsInv' /\ UNCHANGED chain
  BY <1>2, QuietSteps
<1>3. ASSUME NEW n \in Nodes, ClearPool(n)
      PROVE  ChainsInv' /\ UNCHANGED chain
  BY <1>3, ClearPoolChains DEF ClearPool
<1>4. ASSUME NEW n \in Nodes, AppendOwnBlock(n) \/ ReplaceChain(n)
      PROVE  ChainsInv' /\ \E t \in Nodes : Advance(n, t)
  BY <1>4, AppendOwnBlockChains, ReplaceChainChains
<1>5. ASSUME NEW n \in Nodes, NEW p \in Peers(n), PostOwnVote(n, p)
      PROVE  ChainsInv' /\ (UNCHANGED chain \/ Advance(p, n))
  BY <1>5, StepVotes, PostOwnVoteChains DEF Peers
<1>6. ASSUME NEW c \in calls, FinishCall(c)
      PROVE  ChainsInv' /\ UNCHANGED chain
  <2>1. UNCHANGED <<chain, main, pending_blocks>>
    BY <1>6, FinishCallVotes DEF FinishCall
  <2>2. Confirming /\ \A k \in Nodes : SameRound(k)
    BY <2>1, SameEntries DEF Confirming, SameRound, HasBlock
  <2> QED
    BY <2>1, <2>2, ChainsStay
<1>7. ASSUME NEW c \in calls, NEW p \in Peers(c.to), PostVote(c, p)
      PROVE  ChainsInv' /\ UNCHANGED chain
  BY <1>7, PostVoteChains
<1> QED
  BY <1>1, <1>2, <1>3, <1>4, <1>5, <1>6, <1>7, FaultlessSteps DEF Steps, Peers

\* Nobody turns back.
LEMMA AdvancesKeep ==
  ASSUME Inv, ChainsInv, UNCHANGED chain \/ \E p, t \in Nodes : Advance(p, t)
  PROVE  \A k \in Nodes : chain'[k] \in Seq(Blocks) /\ IsPrefix(chain[k], chain'[k])
<1>1. CASE UNCHANGED chain
  BY <1>1, TipType, PrefixSelf
<1>2. ASSUME NEW p \in Nodes, NEW t \in Nodes, NEW c \in Seq(Blocks), Ahead(p, t, c),
             chain' = [chain EXCEPT ![p] = c]
      PROVE  \A k \in Nodes : chain'[k] \in Seq(Blocks) /\ IsPrefix(chain[k], chain'[k])
  <2>1. IsPrefix(chain[p], c)
    BY <1>2, AheadTip
  <2>2. \A k \in Nodes : chain'[k] = IF k = p THEN c ELSE chain[k]
    BY <1>2 DEF Inv, Types
  <2>3. \A k \in Nodes : chain[k] \in Seq(Blocks) /\ IsPrefix(chain[k], chain[k])
    BY TipType, PrefixSelf
  <2> QED
    BY <2>1, <2>2, <2>3
<1> QED
  BY <1>1, <1>2 DEF Advance

\* Where the records are that a server holds.
Holds(n) == Pool(n) \union BeingProposed(n) \union RecordsOn(chain[n])

\* What is in a pool that is about to be cleared is in the block, or came late.
Window(n) ==
  main[n].at = "clear" => Pool(n) \ Data(main[n].block) \subseteq late

RecordsInv == NothingLost /\ \A n \in Nodes : Window(n)

LEMMA InitRecords == Init => RecordsInv
BY DEF Init, NothingLost, RecordsInv, Window, Loop

\* Only a pool that is filled or cleared, or about to be, changes what is in it
\* besides the block.
LEMMA StepWindow ==
  ASSUME Inv, VotesInv, RecordsInv, Steps, NEW k \in Nodes
  PROVE  Window(k)'
<1>1. main \in [Nodes -> Rounds] /\ pending_data \in [Nodes -> Seq(Records)] /\ Window(k)
  BY DEF Inv, Types, RecordsInv
<1>2. ASSUME UNCHANGED <<pending_data, late>>, main'[k] = main[k] \/ main'[k].at # "clear"
      PROVE  Window(k)'
  BY <1>1, <1>2 DEF Window, Pool
<1>3. ASSUME NEW n \in Nodes, AddData(n)
      PROVE  Window(k)'
  <2>1. /\ pending_data' = [pending_data EXCEPT ![n] = Append(@, accepted + 1)]
        /\ accepted + 1 \in Records
        /\ late' = IF main[n].at = "clear" THEN late \union {accepted + 1} ELSE late
        /\ UNCHANGED main
    BY <1>3 DEF AddData
  <2>2. ToSet(Append(pending_data[n], accepted + 1)) = Pool(n) \union {accepted + 1}
    BY <1>1, <2>1, AppendElements DEF Pool
  <2>3. Pool(k)' = IF k = n THEN Pool(k) \union {accepted + 1} ELSE Pool(k)
    BY <1>1, <2>1, <2>2 DEF Pool
  <2> QED
    BY <1>1, <2>1, <2>3 DEF Window
<1>4. ASSUME NEW n \in Nodes, CreateBlock(n)
      PROVE  Window(k)'
  <2> PICK b : b = NextBlock(chain[n], pending_data[n])
    OBVIOUS
  <2>1. /\ main[n].at = "create" /\ main' = [main EXCEPT ![n] = [at |-> "clear", block |-> b]]
        /\ UNCHANGED <<pending_data, late>>
    BY <1>4 DEF CreateBlock
  <2>2. Data(b) = Pool(n)
    BY <2>1, SealedPool
  <2>3. \A m \in Nodes : Pool(m)' = Pool(m)
    BY <2>1 DEF Pool
  <2> QED
    BY <1>1, <2>1, <2>2, <2>3 DEF Window
<1>5. ASSUME NEW n \in Nodes, ClearPool(n)
      PROVE  Window(k)'
  BY <1>1, <1>5 DEF ClearPool, ProposeBlock, Window, Pool
<1>6. ASSUME NEW n \in Nodes,
             \/ BeginRound(n) \/ ProposalAnswered(n) \/ VoteForOwnBlock(n) \/ FinishRound(n)
             \/ AppendOwnBlock(n) \/ FindBestPeer(n) \/ FetchChain(n) \/ ReplaceChain(n)
             \/ \E p \in Peers(n) : PostProposal(n, p)
      PROVE  Window(k)'
  BY <1>1, <1>2, <1>6
  DEF BeginRound, ProposalAnswered, Proposing, VoteForOwnBlock, FinishRound, AppendOwnBlock,
      FindBestPeer, FetchChain, ReplaceChain, PostProposal, Loop
<1>7. ASSUME NEW n \in Nodes, NEW p \in Peers(n), PostOwnVote(n, p)
      PROVE  Window(k)'
  <2>1. /\ main[n] \in Rounds /\ main[n].at = "votes" /\ UNCHANGED <<pending_data, late>>
        /\ main' = [main EXCEPT ![n] = [main[n] EXCEPT !.todo = @ \ {p}]]
    BY <1>1, <1>7 DEF PostOwnVote
  <2>2. [main[n] EXCEPT !.todo = @ \ {p}].at = "votes"
    BY <2>1, RoundShorter
  <2> QED
    BY <1>1, <1>2, <2>1, <2>2
<1>8. ASSUME NEW c \in calls, FinishCall(c) \/ \E p \in Peers(c.to) : PostVote(c, p)
      PROVE  Window(k)'
  BY <1>2, <1>8 DEF FinishCall, PostVote
<1>9. CASE UNCHANGED vars
  BY <1>2, <1>9 DEF vars
<1> QED
  BY <1>3, <1>4, <1>5, <1>6, <1>7, <1>8, <1>9 DEF Steps

\* No step loses a record that is not late: it goes from a pool into a block and
\* from there on the chain of the leader.
LEMMA StepRecords ==
  ASSUME Faults = {}, SmallCluster, Inv, VotesInv, ChainsInv, RecordsInv, [Next]_vars
  PROVE  RecordsInv'
<1>0. NothingLost /\ (NothingLost' => RecordsInv') /\ late \subseteq late'
  <2>1. Steps
    BY FaultlessSteps
  <2>2. \A k \in Nodes : Window(k)'
    BY <2>1, StepWindow
  <2>3. late \subseteq late'
    BY <2>1 DEF Steps, vars, AddData, BeginRound, CreateBlock, ClearPool, ProposalAnswered,
       VoteForOwnBlock, FinishRound, AppendOwnBlock, FindBestPeer, FetchChain, ReplaceChain,
       PostProposal, PostOwnVote, FinishCall, PostVote
  <2> QED
    BY <2>2, <2>3 DEF RecordsInv
<1>1. \A k \in Nodes : RecordsOn(chain[k]) \subseteq RecordsOn(chain'[k])
  <2>1. \A k \in Nodes : chain[k] \in Seq(Blocks) /\ chain'[k] \in Seq(Blocks)
                         /\ IsPrefix(chain[k], chain'[k])
    BY StepChains, AdvancesKeep, TipType
  <2> QED
    BY <2>1, PrefixRecords
<1>2. ASSUME \A k \in Nodes : Holds(k) \subseteq Holds(k)', UNCHANGED accepted
      PROVE  NothingLost'
  BY <1>0, <1>2 DEF NothingLost, Holds, Pool
<1>3. ASSUME NEW n \in Nodes, AddData(n)
      PROVE  NothingLost'
  <2>1. /\ accepted' = accepted + 1 /\ accepted \in Nat
        /\ pending_data' = [pending_data EXCEPT ![n] = Append(@, accepted + 1)]
        /\ pending_data \in [Nodes -> Seq(Records)] /\ accepted + 1 \in Records
        /\ UNCHANGED main
    BY <1>3 DEF AddData, Inv, Types
  <2>2. ToSet(Append(pending_data[n], accepted + 1)) = Pool(n) \union {accepted + 1}
    BY <2>1, AppendElements DEF Pool
  <2>3. \A k \in Nodes : Pool(k)' = IF k = n THEN Pool(k) \union {accepted + 1} ELSE Pool(k)
    BY <2>1, <2>2 DEF Pool
  <2>4. \A k \in Nodes : BeingProposed(k)' = BeingProposed(k)
    BY <2>1 DEF BeingProposed
  <2>5. \A k \in Nodes : Holds(k) \subseteq Holds(k)'
    BY <1>1, <2>3, <2>4 DEF Holds
  <2>6. accepted + 1 \in Holds(n)'
    BY <2>3 DEF Holds
  <2>7. \A r \in 1..accepted' : r \in 1..accepted \/ r = accepted + 1
    BY <2>1
  <2> QED
    BY <1>0, <2>5, <2>6, <2>7 DEF NothingLost, Holds, Pool
<1>4. ASSUME NEW n \in Nodes, ClearPool(n)
      PROVE  NothingLost'
  <2> PICK b : b = main[n].block
    OBVIOUS
  <2>1. /\ main[n].at = "clear" /\ main \in [Nodes -> Rounds]
        /\ main' = [main EXCEPT ![n] = [at |-> "propose", block |-> b, todo |-> online[n]]]
        /\ pending_data' = [pending_data EXCEPT ![n] = << >>]
        /\ pending_data \in [Nodes -> Seq(Records)]
        /\ UNCHANGED <<chain, accepted, late>>
    BY <1>4 DEF ClearPool, ProposeBlock, Inv, Types
  <2>2. Pool(n) \ Data(b) \subseteq late
    BY <2>1 DEF RecordsInv, Window
  <2>3. BeingProposed(n) = {} /\ BeingProposed(n)' = Data(b)
    BY <2>1 DEF BeingProposed, Data
  <2>4. \A k \in Nodes : k # n => BeingProposed(k)' = BeingProposed(k) /\ Pool(k)' = Pool(k)
    BY <2>1 DEF BeingProposed, Pool
  <2>5. \A k \in Nodes : Holds(k) \ late \subseteq Holds(k)'
    BY <1>1, <2>2, <2>3, <2>4 DEF Holds
  <2> QED
    BY <1>0, <2>1, <2>5 DEF NothingLost, Holds, Pool
<1>5. ASSUME NEW n \in Nodes, AppendOwnBlock(n)
      PROVE  NothingLost'
  <2> PICK b : b = main[n].block
    OBVIOUS
  <2>1. /\ main[n].at = "append" /\ b \in Blocks
        /\ chain' = [chain EXCEPT ![n] = Append(chain[n], b)]
        /\ \A k \in Nodes : k # n => main'[k] = main[k]
        /\ UNCHANGED <<pending_data, accepted, late>>
    BY <1>5, RoundFields DEF AppendOwnBlock, Inv, Types
  <2>2. BeingProposed(n) \subseteq RecordsOn(chain'[n])
    <3>1. BeingProposed(n) = ToSet(b.data_list)
      BY <2>1 DEF BeingProposed
    <3>2. chain'[n] = Append(chain[n], b)
      BY <2>1 DEF Inv, Types
    <3>3. \E i \in DOMAIN Append(chain[n], b) : Append(chain[n], b)[i] = b
      <4>1. chain[n] \in Seq(Blocks)
        BY TipType
      <4>2. /\ Append(chain[n], b)[Len(chain[n]) + 1] = b
            /\ DOMAIN Append(chain[n], b) = 1..Len(chain[n]) + 1 /\ Len(chain[n]) \in Nat
        BY <2>1, <4>1, AppendElements
      <4> QED
        BY <4>2
    <3> QED
      BY <3>1, <3>2, <3>3 DEF RecordsOn
  <2>3. \A k \in Nodes : Pool(k)' = Pool(k)
    BY <2>1 DEF Pool
  <2>4. \A k \in Nodes : k # n => BeingProposed(k)' = BeingProposed(k)
    BY <2>1 DEF BeingProposed
  <2>5. \A k \in Nodes : Holds(k) \subseteq Holds(k)'
    BY <1>1, <2>2, <2>3, <2>4 DEF Holds
  <2> QED
    BY <1>2, <2>1, <2>5
<1>6. ASSUME UNCHANGED <<pending_data, accepted, late>>,
             \A k \in Nodes : HasBlock(k) => HasBlock(k)' /\ main'[k].block = main[k].block
      PROVE  NothingLost'
  <2>1. \A k \in Nodes : Pool(k)' = Pool(k)
    BY <1>6 DEF Pool
  <2>2. \A k \in Nodes : BeingProposed(k) \subseteq BeingProposed(k)'
    BY <1>6 DEF BeingProposed, HasBlock
  <2>3. \A k \in Nodes : Holds(k) \subseteq Holds(k)'
    BY <1>1, <2>1, <2>2 DEF Holds
  <2> QED
    BY <1>2, <1>6, <2>3
<1>7. ASSUME NEW n \in Nodes,
             \/ BeginRound(n) \/ CreateBlock(n) \/ ProposalAnswered(n) \/ VoteForOwnBlock(n)
             \/ FinishRound(n) \/ FindBestPeer(n) \/ FetchChain(n) \/ ReplaceChain(n)
             \/ \E p \in Peers(n) : PostProposal(n, p) \/ PostOwnVote(n, p)
      PROVE  NothingLost'
  <2>1. UNCHANGED <<pending_data, accepted, late>> /\ \A k \in Nodes : k # n => main'[k] = main[k]
    BY <1>7 DEF BeginRound, CreateBlock, ProposalAnswered, VoteForOwnBlock, FinishRound,
                FindBestPeer, FetchChain, ReplaceChain, PostProposal, PostOwnVote, Inv, Types
  <2>2. HasBlock(n) => HasBlock(n)' /\ main'[n].block = main[n].block
    <3>1. CASE FinishRound(n)
      BY <3>1, FinishRoundAppends DEF HasBlock
    <3>2. CASE BeginRound(n) \/ CreateBlock(n) \/ FindBestPeer(n) \/ FetchChain(n) \/ ReplaceChain(n)
      BY <3>2 DEF BeginRound, CreateBlock, FindBestPeer, FetchChain, ReplaceChain, HasBlock, Loop
    <3>3. CASE ProposalAnswered(n) \/ VoteForOwnBlock(n) \/ \E p \in Peers(n) : PostProposal(n, p)
      BY <3>3 DEF ProposalAnswered, Proposing, VoteForOwnBlock, PostProposal, HasBlock, Inv, Types
    <3>4. ASSUME NEW p \in Peers(n), PostOwnVote(n, p)
          PROVE  HasBlock(n)' /\ main'[n].block = main[n].block
      <4>1. main[n] \in Rounds /\ main[n].at = "votes"
        BY <3>4 DEF PostOwnVote, Inv, Types
      <4>2. /\ [main[n] EXCEPT !.todo = @ \ {p}].at = "votes"
            /\ [main[n] EXCEPT !.todo = @ \ {p}].block = main[n].block
        BY <4>1, RoundShorter
      <4>3. main'[n] = [main[n] EXCEPT !.todo = @ \ {p}]
        BY <3>4 DEF PostOwnVote, Inv, Types
      <4> QED
        BY <4>2, <4>3 DEF HasBlock
    <3> QED
      BY <1>7, <3>1, <3>2, <3>3, <3>4
  <2> QED
    BY <1>6, <2>1, <2>2 DEF HasBlock
<1>8. CASE UNCHANGED vars
  BY <1>0, <1>6, <1>8 DEF vars, HasBlock
<1>9. ASSUME NEW c \in calls, FinishCall(c) \/ \E p \in Peers(c.to) : PostVote(c, p)
      PROVE  NothingLost'
  BY <1>6, <1>9 DEF FinishCall, PostVote, HasBlock
<1> QED
  BY <1>0, <1>3, <1>4, <1>5, <1>7, <1>8, <1>9, FaultlessSteps DEF Steps

-----------------------------------------------------------------------------
(* The cluster implements the shared log.                                  *)

\* The records of a block that is out were accepted, and are on no chain that
\* its leader knows: whatever is there was confirmed in a block of its own.
LEMMA BatchIsOpen ==
  ASSUME Inv, ChainsInv, NEW t \in Nodes, HasBlock(t), NEW b, b = main[t].block
  PROVE  /\ Data(b) \subseteq (1..accepted) \ UNION ToSet(TrailOf(chain[t]))
         /\ Data(b) # {}
<1>1. /\ b \in Known(t) /\ b \in Blocks /\ ValidateBlock(chain[t], b) /\ b.data_list # << >>
      /\ b.data_list \in Seq(Records)
  BY DEF Inv, Entries, Leading, ChainsInv, InTurn, Blocks
<1>2. /\ b.block_height = Len(chain[t]) /\ chain[t] \in Seq(Blocks) /\ chain[t] # << >>
      /\ DOMAIN chain[t] = 1..Len(chain[t]) /\ Len(chain[t]) \in Nat
  BY <1>1, BlockFits, TipType, LenProperties
<1>3. Data(b) # {}
  <2>1. 1 \in DOMAIN b.data_list
    BY <1>1, RecordElements, EmptySeq
  <2> QED
    BY <2>1 DEF Data, ToSet
<1>4. \A r \in Data(b) : r \in 1..accepted
  <2> SUFFICES ASSUME NEW r \in Data(b)
               PROVE  r \in 1..accepted
    OBVIOUS
  <2>1. r \in Records
    BY <1>1, RecordElements DEF Data, ToSet
  <2>2. r \in Nat /\ r # 0 /\ r <= accepted /\ accepted \in Nat
    BY <1>1, <2>1, RecordsAssumption DEF Inv, Types, Sealing
  <2> QED
    BY <2>2
<1>5. \A s \in ToSet(TrailOf(chain[t])) : Data(b) \intersect s = {}
  <2> SUFFICES ASSUME NEW i \in DOMAIN TrailOf(chain[t])
               PROVE  Data(b) \intersect TrailOf(chain[t])[i] = {}
    BY DEF ToSet
  <2>1. i \in 1 .. Len(chain[t]) - 1
    BY DEF TrailOf
  <2> PICK x : x = chain[t][i+1]
    OBVIOUS
  <2>2. /\ i + 1 \in DOMAIN chain[t] /\ i + 1 - 1 = i
        /\ TrailOf(chain[t])[i] = Data(x)
    BY <1>2, <2>1 DEF TrailOf, Data
  <2>3. x.block_height = i
    <3>1. \A j \in DOMAIN chain[t] : chain[t][j].block_height = j - 1
      BY DEF ChainsInv, WellFormed
    <3> QED
      BY <1>2, <2>1, <2>2, <3>1
  <2>4. x # b /\ x # Genesis
    BY <1>2, <2>1, <2>3, GenesisType
  <2>5. \E m \in Nodes : x \in Known(m)
    BY <2>2, <2>4 DEF Inv, Vouching, AllVouched, Vouched, Status
  <2> QED
    BY <1>1, <2>2, <2>4, <2>5 DEF Inv, Sealing
<1> QED
  BY <1>3, <1>4, <1>5

\* A server that gets ahead follows another one or, if nobody is further,
\* extends the log by the batch of a leader.
LEMMA AdvanceImplements ==
  ASSUME Inv, ChainsInv, NEW p \in Nodes, NEW t \in Nodes, Advance(p, t), UNCHANGED accepted
  PROVE  Shared!Next
<1> DEFINE known == [n \in Nodes |-> TrailOf(chain[n])]
<1>1. PICK c \in Seq(Blocks) : Ahead(p, t, c) /\ chain' = [chain EXCEPT ![p] = c]
  BY DEF Advance
<1>2. /\ IsPrefix(chain[p], c) /\ IsPrefix(c, Tip(t)) /\ Len(c) > Len(chain[p])
      /\ \A k \in Nodes : chain'[k] = IF k = p THEN c ELSE chain[k]
  BY <1>1, AheadTip DEF Inv, Types
<1>3. /\ Len(c) \in Nat /\ c # << >> /\ Tip(t) \in Seq(Blocks)
      /\ \A k \in Nodes : /\ chain[k] \in Seq(Blocks) /\ chain[k] # << >>
                          /\ Len(chain[k]) \in Nat /\ Len(chain[k]) >= 1
  BY <1>2, TipType, LenProperties, EmptySeq
<1>4. [n \in Nodes |-> TrailOf(chain'[n])] = [known EXCEPT ![p] = TrailOf(c)]
  BY <1>2
<1>5. \A k \in Nodes : Len(known[k]) = Len(chain[k]) - 1
  BY <1>3, TrailType
<1>6. ASSUME NEW k \in Nodes, Len(c) <= Len(chain[k])
      PROVE  Shared!Follow(p, k)
  <2>1. IsPrefix(c, chain[k])
    <3>1. IsPrefix(chain[k], Tip(k)) /\ Tip(k) \in Seq(Blocks) /\ Comparable(Tip(t), Tip(k))
      BY TipType DEF ChainsInv
    <3>2. Comparable(Tip(k), c)
      BY <1>2, <1>3, <3>1, PrefixTransitive
    <3>3. Comparable(c, chain[k])
      BY <1>3, <3>1, <3>2, PrefixTransitive DEF Comparable
    <3> QED
      BY <1>3, <1>6, <3>3, ComparableLengths
  <2>2. /\ Len(c) - 1 \in 0..Len(known[k])
        /\ TrailOf(c) = SubSeq(known[k], 1, Len(c) - 1)
    BY <1>3, <2>1, PrefixTrail
  <2>3. Len(c) - 1 \in Len(known[p]) + 1 .. Len(known[k])
    BY <1>2, <1>3, <1>5, <2>2
  <2> QED
    BY <1>4, <2>2, <2>3 DEF Shared!Follow
<1>7. ASSUME \A k \in Nodes : ~(Len(c) <= Len(chain[k]))
      PROVE  Shared!Extend(p)
  <2> PICK b : b = main[t].block
    OBVIOUS
  <2>1. HasBlock(t) /\ chain[p] = chain[t] /\ c = Append(chain[p], b)
    <3>1. ~IsPrefix(c, chain[t])
      BY <1>3, <1>7, PrefixElements
    <3> QED
      BY <1>1, <3>1 DEF Ahead, Tip
  <2>2. b \in Blocks
    BY <2>1 DEF Inv, Entries, Leading
  <2>3. TrailOf(c) = Append(known[p], Data(b))
    BY <1>3, <2>1, <2>2, AppendTrail DEF Data
  <2>4. \A k \in Nodes : Len(known[k]) <= Len(known[p])
    <3>1. Len(c) = Len(chain[p]) + 1
      BY <1>3, <2>1, <2>2, AppendElements
    <3> QED
      BY <1>3, <1>5, <1>7, <3>1
  <2>5. Data(b) \in (SUBSET ((1..accepted) \ UNION ToSet(known[p]))) \ {{}}
    BY <2>1, BatchIsOpen
  <2>6. Shared!KnowsAll(p) /\ Data(b) \in (SUBSET Shared!Open(p)) \ {{}}
    <3>1. Shared!ToSet(known[p]) = ToSet(known[p])
      BY DEF Shared!ToSet, ToSet
    <3> QED
      BY <2>4, <2>5, <3>1 DEF Shared!KnowsAll, Shared!Open
  <2>7. [n \in Nodes |-> TrailOf(chain'[n])]
          = [[n \in Nodes |-> TrailOf(chain[n])] EXCEPT ![p] = Append(@, Data(b))]
    BY <1>4, <2>3
  <2> QED
    BY <2>6, <2>7 DEF Shared!Extend
<1> QED
  BY <1>6, <1>7 DEF Shared!Next

-----------------------------------------------------------------------------
(* What holds while no call fails.                                         *)

LogInv == Inv /\ VotesInv /\ ChainsInv /\ RecordsInv

LEMMA LogInvariant ==
  ASSUME Faults = {}, SmallCluster
  PROVE  Spec => []LogInv
<1>1. Init => LogInv
  BY InitInv, InitVotes, InitChains, InitRecords DEF LogInv
<1>2. LogInv /\ [Next]_vars => LogInv'
  BY StepInv, StepVotes, StepChains, StepRecords DEF LogInv
<1> QED
  BY <1>1, <1>2, PTL DEF Spec

\* Servers that propose in turn, vote in any order and fetch chains from one
\* another never have two chains that part.
THEOREM ServersAgree ==
  ASSUME Faults = {}, SmallCluster
  PROVE  Spec => []Agreement
<1>1. LogInv => Agreement
  BY ChainsComparable DEF LogInv, Agreement, Comparable
<1> QED
  BY <1>1, LogInvariant, PTL

\* Every chain is well formed, and so is every fetched chain that waits to
\* replace one.
THEOREM ChainsAreWellFormed ==
  ASSUME Faults = {}, SmallCluster
  PROVE  Spec => []ChainsWellFormed
<1>1. LogInv => ChainsWellFormed
  <2> SUFFICES ASSUME LogInv, NEW n \in Nodes
               PROVE  /\ WellFormed(chain[n])
                      /\ main[n].at = "replace" => WellFormed(main[n].remote)
    BY DEF ChainsWellFormed
  <2>1. ASSUME main[n].at = "replace"
        PROVE  WellFormed(main[n].remote)
    <3>1. PICK k \in Nodes : IsPrefix(main[n].remote, chain[k])
      BY <2>1 DEF LogInv, ChainsInv, Catching
    <3>2. main[n].remote \in Seq(Blocks) /\ main[n].remote # << >>
      BY <2>1, RoundFields DEF LogInv, Inv, Types, Leading, Chains
    <3>3. chain[k] \in Seq(Blocks) /\ WellFormed(chain[k])
      BY TipType DEF LogInv, ChainsInv
    <3> QED
      BY <3>1, <3>2, <3>3, PrefixWellFormed
  <2> QED
    BY <2>1 DEF LogInv, ChainsInv
<1> QED
  BY <1>1, LogInvariant, PTL

\* Every record that a server accepted stays in its pool, in the block that its
\* leader is at, or on a chain, unless it joined a pool between the copy and the
\* clearing of create_block.
THEOREM RecordsAreKept ==
  ASSUME Faults = {}, SmallCluster
  PROVE  Spec => []NothingLost
<1>1. LogInv => NothingLost
  BY DEF LogInv, RecordsInv
<1> QED
  BY <1>1, LogInvariant, PTL

\* Every step of a server is a step of the shared log or leaves it alone.
LEMMA StepImplements ==
  ASSUME Faults = {}, SmallCluster, LogInv, [Next]_vars
  PROVE  [Shared!Next]_(Shared!vars)
<1>1. UNCHANGED chain \/ \E p, t \in Nodes : Advance(p, t)
  BY StepChains DEF LogInv
<1>2. UNCHANGED accepted \/ \E n \in Nodes : AddData(n)
  BY FaultlessSteps
  DEF LogInv, Steps, vars, BeginRound, CreateBlock, ClearPool, ProposalAnswered, VoteForOwnBlock,
      FinishRound, AppendOwnBlock, FindBestPeer, FetchChain, ReplaceChain, PostProposal, PostOwnVote,
      FinishCall, PostVote
<1>3. ASSUME NEW n \in Nodes, AddData(n)
      PROVE  Shared!Receive
  BY <1>3 DEF AddData, Shared!Receive
<1>4. ASSUME UNCHANGED chain, UNCHANGED accepted
      PROVE  UNCHANGED Shared!vars
  BY <1>4 DEF Shared!vars
<1>5. ASSUME NEW p \in Nodes, NEW t \in Nodes, Advance(p, t), UNCHANGED accepted
      PROVE  Shared!Next
  BY <1>5, AdvanceImplements DEF LogInv
<1> QED
  BY <1>1, <1>2, <1>3, <1>4, <1>5 DEF Shared!Next

\* Leaders that take turns, votes that overtake proposals and chains fetched from
\* one another implement one log that every server only moves forward along.
THEOREM ClusterImplementsSharedLog ==
  ASSUME Faults = {}, SmallCluster
  PROVE  Spec => ImplementsSharedLog
<1>1. Init => Shared!Init
  <2> SUFFICES ASSUME Init
               PROVE  Shared!Init
    OBVIOUS
  <2>1. \A n \in Nodes : TrailOf(chain[n]) = << >>
    BY GenesisTrail DEF Init
  <2> QED
    BY <2>1 DEF Init, Shared!Init
<1>2. LogInv /\ [Next]_vars => [Shared!Next]_(Shared!vars)
  BY StepImplements
<1> QED
  BY <1>1, <1>2, LogInvariant, PTL DEF Spec, ImplementsSharedLog, Shared!Spec

=============================================================================
