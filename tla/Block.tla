-------------------------------- MODULE Block --------------------------------
(***************************************************************************)
(* Blocks and chains as values: blockchain/block.py, and the checks and    *)
(* selections of blockchain/chain.py that only read a chain.               *)
(*                                                                         *)
(* A hash stands for everything SHA-256 is fed: the hash of a block is its *)
(* predecessor's hash extended with the block's own height and data, so    *)
(* two different contents never share a hash.  The zero hash that precedes *)
(* the genesis block is the empty sequence.  Timestamp, signature and      *)
(* nonce are left out, as is client_node_id, which calculate_hash ignores. *)
(***************************************************************************)
EXTENDS Naturals, Sequences, SequencesExt

CONSTANT Records    \* the ChainData records, numbered in the order they arrive

ASSUME RecordsAssumption == Records \subseteq Nat \ {0}

Hashes == Seq(Nat \X Seq(Records))

ZeroHash == << >>

Blocks == [block_height    : Nat,
           prev_block_hash : Hashes,
           data_list       : Seq(Records),
           current_hash    : Hashes]

CalculateHash(height, prev, data) == Append(prev, <<height, data>>)

MakeBlock(height, prev, data) ==
  [block_height    |-> height,
   prev_block_hash |-> prev,
   data_list       |-> data,
   current_hash    |-> CalculateHash(height, prev, data)]

Genesis == MakeBlock(0, ZeroHash, << >>)

ValidateHash(b) ==
  b.current_hash = CalculateHash(b.block_height, b.prev_block_hash, b.data_list)

-----------------------------------------------------------------------------

LatestBlock(c) == c[Len(c)]

\* Mutant of NextBlock: the height is not counted up.
NextBlockSameHeight(c, s) ==
  MakeBlock(LatestBlock(c).block_height, LatestBlock(c).current_hash, s)

\* The block create_block would seal from the records s on top of chain c.
NextBlock(c, s) ==
  MakeBlock(LatestBlock(c).block_height + 1, LatestBlock(c).current_hash, s)

\* Mutant of ValidateBlock: off by one in the height.
ValidateBlockSameHeight(c, b) ==
  /\ b.block_height = LatestBlock(c).block_height
  /\ b.prev_block_hash = LatestBlock(c).current_hash
  /\ ValidateHash(b)

\* _validate_block: may b be appended to c?
ValidateBlock(c, b) ==
  /\ b.block_height = LatestBlock(c).block_height + 1
  /\ b.prev_block_hash = LatestBlock(c).current_hash
  /\ ValidateHash(b)
  /\ b.current_hash # ZeroHash

\* is_chain_valid: links and hashes from the second block on.  The genesis
\* block and the heights are not looked at.
IsChainValid(c) ==
  \A i \in 2..Len(c) : /\ c[i].prev_block_hash = c[i-1].current_hash
                       /\ ValidateHash(c[i])

\* sync_chain's decision: a strictly longer chain that is valid replaces ours.
Outweighs(remote, local) == Len(remote) > Len(local) /\ IsChainValid(remote)

\* A chain as the code means it: it starts with the genesis block, heights
\* count up by one, every block links to its predecessor by hash, and all but
\* the genesis block carry data.
WellFormed(c) ==
  /\ c # << >> /\ c[1] = Genesis
  /\ \A i \in DOMAIN c : c[i].block_height = i - 1
  /\ IsChainValid(c)
  /\ \A i \in 2..Len(c) : c[i].data_list # << >>

\* The records that the blocks of c carry.
RecordsOn(c) == UNION {ToSet(c[i].data_list) : i \in DOMAIN c}

\* The batches on chain c, without the genesis block.
TrailOf(c) == [i \in 1 .. Len(c) - 1 |-> ToSet(c[i+1].data_list)]

=============================================================================
