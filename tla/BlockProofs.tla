----------------------------- MODULE BlockProofs -----------------------------
(***************************************************************************)
(* Lemmas about the operators of Block: blocks, chains, prefixes of chains *)
(* and their trails.  The proofs about Ledger and Cluster rest on them.    *)
(***************************************************************************)
EXTENDS Block, SequenceTheorems, TLAPS

-----------------------------------------------------------------------------
(* Blocks and chains.                                                      *)

\* A block made from well-typed parts is a block, and its hash checks out.
LEMMA MakeBlockType ==
  ASSUME NEW h \in Nat, NEW prev \in Hashes, NEW data \in Seq(Records)
  PROVE  /\ MakeBlock(h, prev, data) \in Blocks
         /\ ValidateHash(MakeBlock(h, prev, data))
         /\ MakeBlock(h, prev, data).current_hash # ZeroHash
<1>1. <<h, data>> \in Nat \X Seq(Records)
  OBVIOUS
<1>2. prev \in Seq(Nat \X Seq(Records))
  BY DEF Hashes
<1>3. /\ Append(prev, <<h, data>>) \in Hashes
      /\ Append(prev, <<h, data>>) # << >>
  BY <1>1, <1>2, AppendProperties DEF Hashes
<1> QED
  BY <1>3 DEF MakeBlock, Blocks, CalculateHash, ValidateHash, ZeroHash

\* The genesis block is a block.
LEMMA GenesisType == Genesis \in Blocks /\ Genesis.block_height = 0
<1>1. << >> \in Hashes /\ << >> \in Seq(Records)
  BY EmptySeq DEF Hashes
<1> QED
  BY <1>1, MakeBlockType DEF Genesis, MakeBlock, ZeroHash

\* A chain of the genesis block alone is a well-formed chain.
LEMMA GenesisWellFormed == <<Genesis>> \in Seq(Blocks) /\ WellFormed(<<Genesis>>)
BY GenesisType DEF WellFormed, IsChainValid

\* What _validate_block accepts keeps a chain well formed when it is appended.
LEMMA AppendWellFormed ==
  ASSUME NEW c \in Seq(Blocks), WellFormed(c),
         NEW b \in Blocks, ValidateBlock(c, b), b.data_list # << >>
  PROVE  Append(c, b) \in Seq(Blocks) /\ WellFormed(Append(c, b))
<1> DEFINE d == Append(c, b)
<1>1. /\ d \in Seq(Blocks) /\ Len(d) = Len(c) + 1 /\ d # << >>
      /\ \A i \in 1..Len(c) : d[i] = c[i]
      /\ d[Len(c) + 1] = b
  BY AppendProperties
<1>2. Len(c) \in Nat /\ Len(c) >= 1 /\ DOMAIN c = 1..Len(c)
      /\ DOMAIN d = 1..Len(c) + 1
  BY <1>1, LenProperties, EmptySeq DEF WellFormed
<1>3. d[1] = Genesis
  BY <1>1, <1>2 DEF WellFormed
<1>4. \A i \in DOMAIN d : d[i].block_height = i - 1
  <2>1. b.block_height = Len(c)
    BY <1>2 DEF WellFormed, ValidateBlock, LatestBlock
  <2> QED
    BY <1>1, <1>2, <2>1 DEF WellFormed
<1>5. IsChainValid(d)
  <2> SUFFICES ASSUME NEW i \in 2..Len(d)
               PROVE  d[i].prev_block_hash = d[i-1].current_hash /\ ValidateHash(d[i])
    BY DEF IsChainValid
  <2>1. CASE i = Len(c) + 1
    <3>1. d[i] = b /\ d[i-1] = c[Len(c)]
      BY <1>1, <1>2, <2>1
    <3> QED
      BY <3>1 DEF ValidateBlock, LatestBlock
  <2>2. CASE i \in 2..Len(c)
    <3>1. d[i] = c[i] /\ d[i-1] = c[i-1]
      BY <1>1, <1>2, <2>2
    <3> QED
      BY <3>1, <2>2 DEF WellFormed, IsChainValid
  <2> QED
    BY <1>1, <1>2, <2>1, <2>2
<1>6. \A i \in 2..Len(d) : d[i].data_list # << >>
  BY <1>1, <1>2 DEF WellFormed
<1> QED
  BY <1>1, <1>3, <1>4, <1>5, <1>6 DEF WellFormed

\* The last block of a non-empty chain is one of its blocks.
LEMMA LatestBlockType ==
  ASSUME NEW c \in Seq(Blocks), c # << >>
  PROVE  LatestBlock(c) \in Blocks
BY LenProperties, EmptySeq, ElementOfSeq DEF LatestBlock

\* What create_block makes on top of a chain is what _validate_block accepts.
LEMMA NextBlockValid ==
  ASSUME NEW c \in Seq(Blocks), c # << >>, NEW s \in Seq(Records)
  PROVE  /\ NextBlock(c, s) \in Blocks
         /\ ValidateBlock(c, NextBlock(c, s))
         /\ NextBlock(c, s).data_list = s
<1>1. /\ LatestBlock(c).block_height + 1 \in Nat
      /\ LatestBlock(c).current_hash \in Hashes
  <2>1. LatestBlock(c) \in Blocks
    BY LatestBlockType
  <2> QED
    BY <2>1 DEF Blocks
<1>2. /\ NextBlock(c, s) \in Blocks
      /\ ValidateHash(NextBlock(c, s))
      /\ NextBlock(c, s).current_hash # ZeroHash
  BY <1>1, MakeBlockType DEF NextBlock
<1> QED
  BY <1>2 DEF NextBlock, ValidateBlock, MakeBlock

\* The records of the blocks of a chain are sequences of numbers.
LEMMA DataListType ==
  ASSUME NEW c \in Seq(Blocks)
  PROVE  \A i \in DOMAIN c : c[i].data_list \in Seq(Records)
<1>1. \A i \in DOMAIN c : c[i] \in Blocks
  BY LenProperties, ElementOfSeq
<1> QED
  BY <1>1 DEF Blocks

\* The elements of a sequence of records are positive numbers.
LEMMA RecordElements ==
  ASSUME NEW s \in Seq(Records)
  PROVE  /\ DOMAIN s = 1..Len(s) /\ Len(s) \in Nat
         /\ \A i \in DOMAIN s : s[i] \in Nat /\ s[i] \in Records
BY LenProperties, ElementOfSeq, RecordsAssumption

\* The records on a chain of blocks are records.
LEMMA RecordsOnType ==
  ASSUME NEW c \in Seq(Blocks)
  PROVE  RecordsOn(c) \subseteq Records
<1> SUFFICES ASSUME NEW i \in DOMAIN c
             PROVE  ToSet(c[i].data_list) \subseteq Records
  BY DEF RecordsOn
<1>1. c[i] \in Blocks
  BY LenProperties, ElementOfSeq
<1>2. c[i].data_list \in Seq(Records)
  BY <1>1 DEF Blocks
<1> QED
  BY <1>2, LenProperties, ElementOfSeq DEF ToSet

-----------------------------------------------------------------------------
(* Prefixes.                                                               *)

\* Appending adds one element and keeps the others in place.
LEMMA AppendElements ==
  ASSUME NEW S, NEW s \in Seq(S), NEW e \in S
  PROVE  /\ Append(s, e) \in Seq(S) /\ Append(s, e) # << >>
         /\ Len(Append(s, e)) = Len(s) + 1 /\ Len(s) \in Nat
         /\ DOMAIN s = 1..Len(s) /\ DOMAIN Append(s, e) = 1..Len(s) + 1
         /\ \A i \in 1..Len(s) : Append(s, e)[i] = s[i]
         /\ Append(s, e)[Len(s) + 1] = e
         /\ ToSet(Append(s, e)) = ToSet(s) \union {e}
<1> DEFINE t == Append(s, e)
<1>1. /\ t \in Seq(S) /\ t # << >> /\ Len(t) = Len(s) + 1
      /\ \A i \in 1..Len(s) : t[i] = s[i]
      /\ t[Len(s) + 1] = e
  BY AppendProperties
<1>2. Len(s) \in Nat /\ DOMAIN s = 1..Len(s) /\ DOMAIN t = 1..Len(s) + 1
  BY <1>1, LenProperties
<1> HIDE DEF t
<1>3. 1..Len(s) + 1 = 1..Len(s) \union {Len(s) + 1}
  BY <1>2
<1>4. ToSet(t) = ToSet(s) \union {e}
  BY <1>1, <1>2, <1>3 DEF ToSet
<1> QED
  BY <1>1, <1>2, <1>4 DEF t

\* A prefix, read element by element.
LEMMA PrefixElements ==
  ASSUME NEW S, NEW s \in Seq(S), NEW t \in Seq(S)
  PROVE  IsPrefix(s, t) <=> Len(s) <= Len(t) /\ \A i \in 1..Len(s) : s[i] = t[i]
<1>1. Len(s) \in Nat /\ Len(t) \in Nat
  BY LenProperties
<1>2. SubSeq(s, 1, Len(s)) = s
  BY SubSeqFull
<1>3. ASSUME Len(s) <= Len(t)
      PROVE  /\ SubSeq(t, 1, Len(s)) \in Seq(S)
             /\ Len(SubSeq(t, 1, Len(s))) = Len(s)
             /\ \A i \in 1..Len(s) : SubSeq(t, 1, Len(s))[i] = t[i]
  <2>1. \A i \in 1..Len(s) : t[i] \in S
    BY <1>1, <1>3, ElementOfSeq
  <2>2. /\ SubSeq(t, 1, Len(s)) \in Seq(S)
        /\ Len(SubSeq(t, 1, Len(s))) = IF 1 <= Len(s) THEN Len(s) - 1 + 1 ELSE 0
        /\ \A i \in 1 .. Len(s) - 1 + 1 : SubSeq(t, 1, Len(s))[i] = t[1 + i - 1]
    BY <1>1, <2>1, SubSeqProperties
  <2> QED
    BY <1>1, <2>2
<1>4. ASSUME Len(s) <= Len(t), \A i \in 1..Len(s) : s[i] = t[i]
      PROVE  s = SubSeq(t, 1, Len(s))
  <2>1. \A i \in 1..Len(s) : s[i] = SubSeq(t, 1, Len(s))[i]
    BY <1>3, <1>4
  <2> QED
    BY <1>3, <1>4, <2>1, SeqEqual
<1> QED
  BY <1>1, <1>2, <1>3, <1>4 DEF IsPrefix

\* A chain is a prefix of itself and of itself with one more block.
LEMMA PrefixAppend ==
  ASSUME NEW S, NEW s \in Seq(S), NEW t \in Seq(S), NEW e \in S, IsPrefix(s, t)
  PROVE  IsPrefix(t, t) /\ IsPrefix(s, Append(t, e)) /\ IsPrefix(t, Append(t, e))
<1> DEFINE u == Append(t, e)
<1>1. /\ u \in Seq(S) /\ Len(u) = Len(t) + 1
      /\ \A i \in 1..Len(t) : u[i] = t[i]
  BY AppendProperties
<1> HIDE DEF u
<1>2. Len(s) \in Nat /\ Len(t) \in Nat
  BY LenProperties
<1>3. Len(s) <= Len(t) /\ \A i \in 1..Len(s) : s[i] = t[i]
  BY PrefixElements
<1>4. \A i \in 1..Len(s) : s[i] = u[i]
  BY <1>1, <1>2, <1>3
<1>5. IsPrefix(t, t)
  BY <1>2, PrefixElements
<1>6. IsPrefix(s, u)
  BY <1>1, <1>2, <1>3, <1>4, PrefixElements
<1>7. IsPrefix(t, u)
  BY <1>1, <1>2, PrefixElements
<1> QED
  BY <1>5, <1>6, <1>7 DEF u

\* A chain is a prefix of itself.
LEMMA PrefixSelf ==
  ASSUME NEW S, NEW s \in Seq(S)
  PROVE  IsPrefix(s, s)
BY PrefixElements, LenProperties

\* A longer chain carries the records of its prefixes.
LEMMA PrefixRecords ==
  ASSUME NEW c \in Seq(Blocks), NEW d \in Seq(Blocks), IsPrefix(c, d)
  PROVE  RecordsOn(c) \subseteq RecordsOn(d)
<1>1. \A i \in DOMAIN c : i \in DOMAIN d /\ c[i] = d[i]
  BY PrefixElements, LenProperties
<1> QED
  BY <1>1 DEF RecordsOn

\* Of two comparable sequences one is a prefix of the other.
Comparable(s, t) == IsPrefix(s, t) \/ IsPrefix(t, s)

\* Prefixes of prefixes, and prefixes of one of two comparable sequences.
LEMMA PrefixTransitive ==
  ASSUME NEW S, NEW s \in Seq(S), NEW t \in Seq(S), NEW u \in Seq(S), IsPrefix(s, t)
  PROVE  /\ IsPrefix(t, u) => IsPrefix(s, u)
         /\ Comparable(t, u) => Comparable(s, u) /\ Comparable(u, s)
<1>1. Len(s) \in Nat /\ Len(t) \in Nat /\ Len(u) \in Nat
  BY LenProperties
<1>2. Len(s) <= Len(t) /\ \A i \in 1..Len(s) : s[i] = t[i]
  BY PrefixElements
<1>3. ASSUME IsPrefix(t, u)
      PROVE  IsPrefix(s, u)
  <2>1. Len(t) <= Len(u) /\ \A i \in 1..Len(t) : t[i] = u[i]
    BY <1>3, PrefixElements
  <2>2. Len(s) <= Len(u) /\ \A i \in 1..Len(s) : s[i] = u[i]
    BY <1>1, <1>2, <2>1
  <2> QED
    BY <2>2, PrefixElements
<1>4. ASSUME IsPrefix(u, t)
      PROVE  Comparable(s, u)
  <2>1. Len(u) <= Len(t) /\ \A i \in 1..Len(u) : u[i] = t[i]
    BY <1>4, PrefixElements
  <2>2. CASE Len(s) <= Len(u)
    <3>1. \A i \in 1..Len(s) : s[i] = u[i]
      BY <1>1, <1>2, <2>1, <2>2
    <3> QED
      BY <2>2, <3>1, PrefixElements DEF Comparable
  <2>3. CASE Len(u) <= Len(s)
    <3>1. \A i \in 1..Len(u) : u[i] = s[i]
      BY <1>1, <1>2, <2>1, <2>3
    <3> QED
      BY <2>3, <3>1, PrefixElements DEF Comparable
  <2> QED
    BY <1>1, <2>2, <2>3
<1> QED
  BY <1>3, <1>4 DEF Comparable

\* Comparable sequences are ordered by their lengths.
LEMMA ComparableLengths ==
  ASSUME NEW S, NEW s \in Seq(S), NEW t \in Seq(S), Comparable(s, t)
  PROVE  /\ Len(s) <= Len(t) => IsPrefix(s, t)
         /\ Len(s) = Len(t) => s = t
<1>1. Len(s) \in Nat /\ Len(t) \in Nat
  BY LenProperties
<1>2. ASSUME Len(s) <= Len(t)
      PROVE  IsPrefix(s, t)
  <2>1. CASE IsPrefix(t, s)
    <3>1. Len(t) <= Len(s) /\ \A i \in 1..Len(t) : t[i] = s[i]
      BY <2>1, PrefixElements
    <3>2. \A i \in 1..Len(s) : s[i] = t[i]
      BY <1>1, <1>2, <3>1
    <3> QED
      BY <1>2, <3>2, PrefixElements
  <2> QED
    BY <2>1 DEF Comparable
<1>3. ASSUME Len(s) = Len(t)
      PROVE  s = t
  <2>1. \A i \in 1..Len(s) : s[i] = t[i]
    BY <1>1, <1>2, <1>3, PrefixElements
  <2> QED
    BY <1>3, <2>1, SeqEqual
<1> QED
  BY <1>2, <1>3

-----------------------------------------------------------------------------
(* Trails.                                                                 *)

\* The trail of a chain has one batch for every block but the first.
LEMMA TrailType ==
  ASSUME NEW c \in Seq(Blocks), c # << >>
  PROVE  /\ TrailOf(c) \in Seq(SUBSET Records)
         /\ Len(TrailOf(c)) = Len(c) - 1 /\ Len(c) - 1 \in Nat
         /\ \A i \in 1 .. Len(c) - 1 : TrailOf(c)[i] = ToSet(c[i+1].data_list)
<1> DEFINE n == Len(c) - 1
<1>1. n \in Nat /\ Len(c) \in Nat
  BY LenProperties, EmptySeq
<1>2. \A i \in 1..n : ToSet(c[i+1].data_list) \in SUBSET Records
  <2> SUFFICES ASSUME NEW i \in 1..n
               PROVE  ToSet(c[i+1].data_list) \in SUBSET Records
    OBVIOUS
  <2>1. i + 1 \in DOMAIN c
    BY <1>1, LenProperties
  <2>2. c[i+1].data_list \in Seq(Records)
    BY <2>1, DataListType
  <2> QED
    BY <2>2, RecordElements DEF ToSet
<1>3. TrailOf(c) \in [1..n -> SUBSET Records]
  BY <1>2 DEF TrailOf
<1>4. TrailOf(c) \in Seq(SUBSET Records)
  BY <1>1, <1>3, SeqDef
<1>5. DOMAIN TrailOf(c) = 1..n
  BY <1>3
<1>6. DOMAIN TrailOf(c) = 1..Len(TrailOf(c)) /\ Len(TrailOf(c)) \in Nat
  BY <1>4, LenProperties
<1>7. Len(TrailOf(c)) = n
  BY <1>1, <1>5, <1>6
<1> QED
  BY <1>1, <1>4, <1>7 DEF TrailOf

\* A chain of the genesis block alone has no trail.
LEMMA GenesisTrail == TrailOf(<<Genesis>>) = << >>
<1> DEFINE g == <<Genesis>>
<1>1. g \in Seq(Blocks) /\ g # << >> /\ Len(g) = 1
  BY GenesisWellFormed
<1> HIDE DEF g
<1>2. TrailOf(g) \in Seq(SUBSET Records) /\ Len(TrailOf(g)) = 0
  BY <1>1, TrailType
<1>3. TrailOf(g) = << >>
  BY <1>2, EmptySeq
<1> QED
  BY <1>3 DEF g

\* Appending a block appends its batch.
LEMMA AppendTrail ==
  ASSUME NEW c \in Seq(Blocks), c # << >>, NEW b \in Blocks
  PROVE  TrailOf(Append(c, b)) = Append(TrailOf(c), ToSet(b.data_list))
<1> DEFINE d == Append(c, b)
           t == Append(TrailOf(c), ToSet(b.data_list))
<1>1. /\ d \in Seq(Blocks) /\ d # << >> /\ Len(d) = Len(c) + 1
      /\ \A i \in 1..Len(c) : d[i] = c[i]
      /\ d[Len(c) + 1] = b
  BY AppendProperties
<1> HIDE DEF d
<1>2. ToSet(b.data_list) \in SUBSET Records
  <2>1. b.data_list \in Seq(Records)
    BY DEF Blocks
  <2> QED
    BY <2>1, RecordElements DEF ToSet
<1>3. /\ TrailOf(c) \in Seq(SUBSET Records)
      /\ Len(TrailOf(c)) = Len(c) - 1 /\ Len(c) - 1 \in Nat /\ Len(c) \in Nat
      /\ \A i \in 1 .. Len(c) - 1 : TrailOf(c)[i] = ToSet(c[i+1].data_list)
  BY TrailType, LenProperties
<1>4. /\ t \in Seq(SUBSET Records) /\ Len(t) = Len(c)
      /\ \A i \in 1 .. Len(c) - 1 : t[i] = ToSet(c[i+1].data_list)
      /\ t[Len(c)] = ToSet(b.data_list)
  BY <1>2, <1>3, AppendProperties
<1>5. /\ TrailOf(d) \in Seq(SUBSET Records)
      /\ Len(TrailOf(d)) = Len(d) - 1
      /\ \A i \in 1 .. Len(d) - 1 : TrailOf(d)[i] = ToSet(d[i+1].data_list)
  BY <1>1, TrailType
<1> HIDE DEF t
<1>6. Len(TrailOf(d)) = Len(t)
  BY <1>1, <1>3, <1>4, <1>5
<1>7. \A i \in 1 .. Len(t) : TrailOf(d)[i] = t[i]
  <2> SUFFICES ASSUME NEW i \in 1 .. Len(c)
               PROVE  TrailOf(d)[i] = t[i]
    BY <1>4
  <2>1. TrailOf(d)[i] = ToSet(d[i+1].data_list)
    BY <1>1, <1>3, <1>5
  <2>2. CASE i = Len(c)
    BY <1>1, <1>4, <2>1, <2>2
  <2>3. CASE i \in 1 .. Len(c) - 1
    BY <1>1, <1>3, <1>4, <2>1, <2>3
  <2> QED
    BY <1>3, <2>2, <2>3
<1>8. TrailOf(d) = t
  BY <1>4, <1>5, <1>6, <1>7, SeqEqual
<1> QED
  BY <1>8 DEF d, t

\* The trail of a prefix of a chain is a prefix of its trail.
LEMMA PrefixTrail ==
  ASSUME NEW c \in Seq(Blocks), NEW d \in Seq(Blocks), c # << >>, IsPrefix(c, d)
  PROVE  /\ Len(c) - 1 \in 0..Len(TrailOf(d))
         /\ TrailOf(c) = SubSeq(TrailOf(d), 1, Len(c) - 1)
<1>1. /\ Len(c) <= Len(d) /\ \A i \in 1..Len(c) : c[i] = d[i]
      /\ Len(c) \in Nat /\ Len(d) \in Nat /\ Len(c) >= 1 /\ d # << >>
  <2>1. Len(c) <= Len(d) /\ \A i \in 1..Len(c) : c[i] = d[i]
    BY PrefixElements
  <2>2. Len(c) \in Nat /\ Len(d) \in Nat /\ Len(c) >= 1
    BY LenProperties, EmptySeq
  <2> QED
    BY <2>1, <2>2, EmptySeq
<1> DEFINE n == Len(c) - 1
<1>2. /\ TrailOf(c) \in Seq(SUBSET Records) /\ Len(TrailOf(c)) = n
      /\ \A i \in 1..n : TrailOf(c)[i] = ToSet(c[i+1].data_list)
  BY TrailType
<1>3. /\ TrailOf(d) \in Seq(SUBSET Records) /\ Len(TrailOf(d)) = Len(d) - 1
      /\ \A i \in 1 .. Len(d) - 1 : TrailOf(d)[i] = ToSet(d[i+1].data_list)
  BY <1>1, TrailType
<1>4. n \in 0..Len(TrailOf(d))
  BY <1>1, <1>3
<1>5. \A i \in 1..n : TrailOf(c)[i] = TrailOf(d)[i]
  BY <1>1, <1>2, <1>3
<1>6. IsPrefix(TrailOf(c), TrailOf(d))
  BY <1>1, <1>2, <1>3, <1>5, PrefixElements
<1>7. TrailOf(c) = SubSeq(TrailOf(d), 1, n)
  BY <1>2, <1>6, SubSeqFull DEF IsPrefix
<1> QED
  BY <1>4, <1>7

=============================================================================
