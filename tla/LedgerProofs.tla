----------------------------- MODULE LedgerProofs -----------------------------
(***************************************************************************)
(* Proofs about Ledger, for every set of records and every set of faults.  *)
(***************************************************************************)
EXTENDS Ledger, BlockProofs, TLAPS

-----------------------------------------------------------------------------
(* Types and the form of the chain.                                        *)

\* The handler is only installed once the process has been started,
\* and a process that is down has no chain in memory.
HandlerScope ==
  /\ handler # "none" => pc \in Running
  /\ pc = "down" => chain = << >>

Inv == TypeOK /\ ChainWellFormed /\ HandlerScope

\* The empty chain and the empty pool have their types.
LEMMA EmptyType == /\ << >> \in Seq(Blocks) /\ << >> \in Seq(Records)
                   /\ Absent \in Files /\ Absent.state = "absent"
                   /\ Torn \in Files /\ Torn.state = "torn"
<1>1. << >> \in Seq(Blocks) /\ << >> \in Seq(Records)
  BY EmptySeq
<1> QED
  BY <1>1 DEF Absent, Torn, Files

\* Nothing is loaded and no block is in the making before the process starts.
LEMMA InitInv == Init => Inv
<1> SUFFICES ASSUME Init PROVE Inv
  OBVIOUS
<1>1. TypeOK
  BY EmptyType DEF Init, TypeOK
<1>2. ChainWellFormed /\ HandlerScope
  BY EmptyType DEF Init, ChainWellFormed, HandlerScope
<1> QED
  BY <1>1, <1>2 DEF Inv

\* A mishap is noted as a truth value.
LEMMA MishapType == TypeOK /\ [Next]_vars => mishap' \in BOOLEAN
<1> SUFFICES ASSUME TypeOK, [Next]_vars
             PROVE  mishap' \in BOOLEAN
  OBVIOUS
<1>1. CASE CreateNewChain
  BY <1>1 DEF CreateNewChain, TypeOK
<1>2. CASE mishap' = mishap \/ mishap' = TRUE
  BY <1>2, Zenon DEF TypeOK
<1> QED
  BY <1>1, <1>2
  DEF Next, MainStep, vars, LoadChain, AddData, Signal, Crash, SaveNewChain,
      SaveAfterAppend, SaveAtExit, OpenChainFile, DumpChainFile, EnterLoop,
      LoopRaises, SkipRound, CopyPendingData, ClearPendingData, AddBlock, Exit,
      HandlerOpen, HandlerDump

\* Every step of every strand keeps the chain, the file and the block in the
\* making well formed.
LEMMA NextInv == Inv /\ [Next]_vars => Inv'
<1> SUFFICES ASSUME Inv, [Next]_vars
             PROVE  Inv'
  OBVIOUS
<1> USE DEF Inv, HandlerScope
<1>0. mishap' \in BOOLEAN
  BY MishapType
<1>1. CASE LoadChain
  BY <1>1 DEF LoadChain, TypeOK, ChainWellFormed, Files, Running
<1>2. CASE CreateNewChain
  BY <1>0, <1>2, GenesisWellFormed DEF CreateNewChain, TypeOK, ChainWellFormed, Starting, Running
<1>3. CASE AddData
  <2>1. pending_data' \in Seq(Records)
    BY <1>3, AppendProperties DEF AddData, TypeOK
  <2> QED
    BY <1>3, <2>1 DEF AddData, TypeOK, ChainWellFormed
<1>4. CASE Signal
  BY <1>4 DEF Signal, TypeOK, ChainWellFormed, Running
<1>5. ASSUME ProcessEnds
      PROVE  Inv'
  BY <1>0, <1>5, EmptyType DEF ProcessEnds, TypeOK, ChainWellFormed
<1>6. ASSUME NEW here, NEW dump, NEW done, OpenChainFile(here, dump, done),
             pc = here, here \in (Starting \union Running) \ {"clear", "add"},
             {dump, done} \subseteq (Starting \union Running) \ {"clear", "add"},
             here \in Starting \/ {dump, done} \subseteq Running
      PROVE  Inv'
  <2>1. pc # "down" /\ pc' \in {dump, done} /\ pc' \notin {"clear", "add", "down"}
    BY <1>6 DEF OpenChainFile, Starting, Running
  <2> QED
    BY <1>0, <1>6, <2>1, EmptyType DEF OpenChainFile, TypeOK, ChainWellFormed, Starting, Running
<1>7. ASSUME NEW here, NEW done, DumpChainFile(here, done),
             pc = here, here \in (Starting \union Running) \ {"clear", "add"},
             done \in (Starting \union Running) \ {"clear", "add"},
             here \in Starting \/ done \in Running
      PROVE  Inv'
  <2>1. pc # "down" /\ pc' = done /\ done \notin {"clear", "add", "down"}
    BY <1>7 DEF DumpChainFile, Starting, Running
  <2>2. RecordsOn(chain) \subseteq Records
    BY RecordsOnType DEF TypeOK
  <2> QED
    BY <1>0, <1>7, <2>1, <2>2 DEF DumpChainFile, TypeOK, ChainWellFormed, Saved, Files,
       Starting, Running
<1>8. CASE SaveNewChain
  BY <1>6, <1>7, <1>8 DEF SaveNewChain, OpenChainFile, DumpChainFile, Starting, Running
<1>9. CASE EnterLoop
  BY <1>9 DEF EnterLoop, TypeOK, ChainWellFormed, Running
<1>10. CASE SkipRound \/ LoopRaises
  BY <1>10 DEF SkipRound, LoopRaises, TypeOK, ChainWellFormed, Running
<1>11. CASE CopyPendingData
  <2>1. chain # << >> /\ chain \in Seq(Blocks) /\ pending_data \in Seq(Records)
    BY <1>11 DEF CopyPendingData, TypeOK, ChainWellFormed, WellFormed
  <2>2. /\ block' \in Blocks
        /\ ValidateBlock(chain, block')
        /\ block'.data_list = pending_data
    BY <1>11, <2>1, NextBlockValid DEF CopyPendingData
  <2> QED
    BY <1>11, <2>2 DEF CopyPendingData, TypeOK, ChainWellFormed, Running
<1>12. CASE ClearPendingData
  BY <1>12, EmptyType DEF ClearPendingData, TypeOK, ChainWellFormed, Running
<1>13. CASE AddBlock
  <2>1. /\ block \in Blocks /\ ValidateBlock(chain, block)
        /\ block.data_list # << >> /\ chain \in Seq(Blocks) /\ WellFormed(chain)
    BY <1>13 DEF AddBlock, TypeOK, ChainWellFormed
  <2>2. Append(chain, block) \in Seq(Blocks) /\ WellFormed(Append(chain, block))
    BY <2>1, AppendWellFormed
  <2> QED
    BY <1>13, <2>1, <2>2 DEF AddBlock, TypeOK, ChainWellFormed, Running
<1>14. CASE SaveAfterAppend
  <2>1. CASE OpenChainFile("open", "dump", "loop")
    <3>1. pc = "open"
      BY <2>1 DEF OpenChainFile
    <3> QED
      BY <1>6, <2>1, <3>1 DEF Starting, Running
  <2>2. CASE DumpChainFile("dump", "loop")
    <3>1. pc = "dump"
      BY <2>2 DEF DumpChainFile
    <3> QED
      BY <1>7, <2>2, <3>1 DEF Starting, Running
  <2> QED
    BY <1>14, <2>1, <2>2 DEF SaveAfterAppend
<1>15. CASE SaveAtExit
  <2>1. CASE OpenChainFile("exit_open", "exit_dump", "exit")
    <3>1. pc = "exit_open"
      BY <2>1 DEF OpenChainFile
    <3> QED
      BY <1>6, <2>1, <3>1 DEF Starting, Running
  <2>2. CASE DumpChainFile("exit_dump", "exit")
    <3>1. pc = "exit_dump"
      BY <2>2 DEF DumpChainFile
    <3> QED
      BY <1>7, <2>2, <3>1 DEF Starting, Running
  <2> QED
    BY <1>15, <2>1, <2>2 DEF SaveAtExit
<1>16. CASE HandlerOpen
  BY <1>0, <1>16, EmptyType DEF HandlerOpen, TypeOK, ChainWellFormed
<1>17. CASE HandlerDump
  <2>1. RecordsOn(chain) \subseteq Records
    BY RecordsOnType DEF TypeOK
  <2>2. pc # "down"
    BY <1>17 DEF HandlerDump, TypeOK, Running
  <2> QED
    BY <1>0, <1>17, <2>1, <2>2 DEF HandlerDump, TypeOK, ChainWellFormed, Saved, Files
<1>18. CASE UNCHANGED vars
  BY <1>18 DEF vars, TypeOK, ChainWellFormed
<1> QED
  BY <1>1, <1>2, <1>3, <1>4, <1>5, <1>8, <1>9, <1>10, <1>11, <1>12, <1>13,
     <1>14, <1>15, <1>16, <1>17, <1>18
  DEF Next, MainStep, Exit, Crash

\* The state of the ledger always has its type.
THEOREM TypeCorrect == Spec => []TypeOK
BY InitInv, NextInv, PTL DEF Spec, Inv

\* The chain in memory and the chain in the file are well formed at all times,
\* and no interleaving makes _validate_block reject the server's own block.
THEOREM ChainAlwaysWellFormed == Spec => []ChainWellFormed
BY InitInv, NextInv, PTL DEF Spec, Inv

-----------------------------------------------------------------------------
(* The order of the records.                                               *)

\* A chain that is in order is in order before an empty pool.
LEMMA OrderedUpToEmpty ==
  ASSUME NEW c, NEW s, OrderedUpTo(c, s)
  PROVE  OrderedUpTo(c, << >>)
BY DEF OrderedUpTo, Below

\* What comes before a sequence comes before its prefixes, which are as ordered.
LEMMA OrderedUpToPrefix ==
  ASSUME NEW c, NEW s \in Seq(Records), NEW t \in Seq(Records),
         IsPrefix(t, s), OrderedUpTo(c, s), Increasing(s)
  PROVE  OrderedUpTo(c, t) /\ Increasing(t)
<1>1. Len(t) <= Len(s) /\ \A i \in 1..Len(t) : t[i] = s[i]
  BY PrefixElements
<1>2. DOMAIN t \subseteq DOMAIN s /\ \A i \in DOMAIN t : t[i] = s[i]
  BY <1>1, RecordElements
<1>3. \A i \in DOMAIN c : Below(c[i].data_list, t)
  BY <1>2 DEF OrderedUpTo, Below
<1>4. Increasing(t)
  BY <1>2, RecordElements DEF Increasing
<1> QED
  BY <1>3, <1>4 DEF OrderedUpTo

\* A later record may join the pool.
LEMMA OrderedUpToAppend ==
  ASSUME NEW c, NEW s \in Seq(Records), NEW r \in Records,
         OrderedUpTo(c, s), Increasing(s),
         \A i \in DOMAIN c : Below(c[i].data_list, <<r>>), Below(s, <<r>>)
  PROVE  OrderedUpTo(c, Append(s, r)) /\ Increasing(Append(s, r))
<1>1. /\ Append(s, r) \in Seq(Records) /\ Len(Append(s, r)) = Len(s) + 1
      /\ \A i \in 1..Len(s) : Append(s, r)[i] = s[i]
      /\ Append(s, r)[Len(s) + 1] = r
  BY AppendProperties
<1>2. /\ DOMAIN s = 1..Len(s) /\ DOMAIN Append(s, r) = 1..Len(s) + 1
      /\ Len(s) \in Nat
  BY <1>1, RecordElements
<1>3. \A i \in DOMAIN s : s[i] < r
  BY DEF Below
<1>4. \A i \in DOMAIN c : Below(c[i].data_list, Append(s, r))
  <2> SUFFICES ASSUME NEW i \in DOMAIN c, NEW k \in DOMAIN c[i].data_list,
                      NEW j \in DOMAIN Append(s, r)
               PROVE  c[i].data_list[k] < Append(s, r)[j]
    BY DEF Below
  <2>1. c[i].data_list[k] < r
    BY DEF Below
  <2>2. j \in DOMAIN s => c[i].data_list[k] < s[j]
    BY DEF OrderedUpTo, Below
  <2> QED
    BY <1>1, <1>2, <2>1, <2>2
<1>5. Increasing(Append(s, r))
  BY <1>1, <1>2, <1>3 DEF Increasing
<1> QED
  BY <1>4, <1>5 DEF OrderedUpTo

\* A block whose records lie between those of the chain and those of the pool
\* may join the chain.
LEMMA OrderedUpToBlock ==
  ASSUME NEW c \in Seq(Blocks), NEW b \in Blocks, NEW s \in Seq(Records),
         OrderedUpTo(c, b.data_list), OrderedUpTo(c, s),
         Increasing(b.data_list), Below(b.data_list, s)
  PROVE  OrderedUpTo(Append(c, b), s)
<1> DEFINE d == Append(c, b)
<1>1. /\ d \in Seq(Blocks) /\ Len(d) = Len(c) + 1
      /\ \A i \in 1..Len(c) : d[i] = c[i]
      /\ d[Len(c) + 1] = b
  BY AppendProperties
<1>2. /\ DOMAIN c = 1..Len(c) /\ DOMAIN d = 1..Len(c) + 1 /\ Len(c) \in Nat
  BY <1>1, LenProperties
<1>3. \A i \in DOMAIN d : (i \in DOMAIN c /\ d[i] = c[i]) \/ (i = Len(c) + 1 /\ d[i] = b)
  BY <1>1, <1>2
<1>4. \A i \in DOMAIN d : Increasing(d[i].data_list) /\ Below(d[i].data_list, s)
  BY <1>3 DEF OrderedUpTo
<1>5. \A i, j \in DOMAIN d : i < j => Below(d[i].data_list, d[j].data_list)
  BY <1>2, <1>3 DEF OrderedUpTo
<1> HIDE DEF d
<1>6. OrderedUpTo(d, s)
  BY <1>4, <1>5 DEF OrderedUpTo
<1> QED
  BY <1>6 DEF d

\* Every record that is stored anywhere was accepted before.
Accepted(data) == \A k \in DOMAIN data : data[k] <= accepted

AllAccepted ==
  /\ Accepted(pending_data)
  /\ \A i \in DOMAIN chain : Accepted(chain[i].data_list)
  /\ \A i \in DOMAIN disk.blocks : Accepted(disk.blocks[i].data_list)
  /\ pc \in {"clear", "add"} => Accepted(block.data_list)

OrderInv == SealedInOrder /\ AllAccepted

\* At first there is no record anywhere.
LEMMA InitOrder == Init => OrderInv
<1> SUFFICES ASSUME Init PROVE OrderInv
  OBVIOUS
<1>1. pending_data = << >> /\ chain = << >> /\ disk.blocks = << >> /\ pc = "down"
  BY DEF Init, Absent
<1>2. OrderedUpTo(<< >>, << >>) /\ Increasing(<< >>)
  BY DEF OrderedUpTo, Increasing
<1> QED
  BY <1>1, <1>2 DEF OrderInv, SealedInOrder, AllAccepted, Accepted

\* Steps that leave the records where they are, or drop what is in memory.
LEMMA SameRecords ==
  ASSUME OrderInv, UNCHANGED <<chain, pending_data, disk, block, accepted>>,
         pc' \in {"clear", "add"} => pc' = pc
  PROVE  OrderInv'
BY DEF OrderInv, SealedInOrder, AllAccepted, Accepted

\* Every write of the file stores nothing or the chain.
LEMMA FileOrder ==
  ASSUME OrderInv, UNCHANGED <<chain, pending_data, block, accepted>>,
         disk' \in {disk, Torn, Saved(chain)},
         pc' \in {"clear", "add"} => pc' = pc
  PROVE  OrderInv'
<1>1. OrderedUpTo(<< >>, pending_data)
  BY DEF OrderedUpTo
<1>2. disk'.blocks \in {disk.blocks, << >>, chain}
  BY DEF Torn, Saved
<1>3. \A i \in DOMAIN disk'.blocks : Accepted(disk'.blocks[i].data_list)
  BY <1>2 DEF OrderInv, AllAccepted
<1>4. OrderedUpTo(disk'.blocks, pending_data)
  BY <1>1, <1>2 DEF OrderInv, SealedInOrder
<1> QED
  BY <1>3, <1>4 DEF OrderInv, SealedInOrder, AllAccepted, Accepted

\* Every step of every strand keeps the records in order.
LEMMA NextOrder == Inv /\ OrderInv /\ [Next]_vars => OrderInv'
<1> SUFFICES ASSUME Inv, OrderInv, [Next]_vars
             PROVE  OrderInv'
  OBVIOUS
<1>0. /\ chain \in Seq(Blocks) /\ pending_data \in Seq(Records)
      /\ disk.blocks \in Seq(Blocks) /\ accepted \in Nat
  BY DEF Inv, TypeOK, Files
<1>1. CASE LoadChain
  <2>1. UNCHANGED <<pending_data, disk, block, accepted>> /\ chain' = disk.blocks /\ pc' = "loop"
    BY <1>1 DEF LoadChain
  <2> QED
    BY <2>1 DEF OrderInv, SealedInOrder, AllAccepted, Accepted
<1>2. CASE CreateNewChain
  <2>1. /\ UNCHANGED <<pending_data, disk, block, accepted>>
        /\ chain' = <<Genesis>> /\ pc' = "create_open"
    BY <1>2 DEF CreateNewChain
  <2>2. OrderedUpTo(<<Genesis>>, pending_data) /\ Accepted(Genesis.data_list)
    BY DEF OrderedUpTo, Genesis, MakeBlock, Increasing, Below, Accepted
  <2> QED
    BY <2>1, <2>2 DEF OrderInv, SealedInOrder, AllAccepted, Accepted
<1>3. CASE AddData
  <2> DEFINE r == accepted + 1
  <2>1. /\ UNCHANGED <<chain, disk, block, pc>> /\ accepted' = r /\ r \in Records
        /\ pending_data' = Append(pending_data, r)
    BY <1>3 DEF AddData
  <2>2. \A s \in Seq(Records) : Accepted(s) => Below(s, <<r>>) /\ (Accepted(s))'
    BY <1>0, <2>1, RecordElements DEF Accepted, Below
  <2>3. /\ \A i \in DOMAIN chain : Below(chain[i].data_list, <<r>>) /\ Accepted(chain[i].data_list)'
        /\ \A i \in DOMAIN disk.blocks : /\ Below(disk.blocks[i].data_list, <<r>>)
                                         /\ Accepted(disk.blocks[i].data_list)'
        /\ Below(pending_data, <<r>>)
    BY <1>0, <2>1, <2>2, DataListType DEF OrderInv, AllAccepted
  <2>4. pc \in {"clear", "add"} =>
          /\ block \in Blocks /\ block.data_list \in Seq(Records)
          /\ Below(block.data_list, <<r>>) /\ Accepted(block.data_list)'
    BY <2>1, <2>2 DEF Inv, ChainWellFormed, Blocks, OrderInv, AllAccepted
  <2>5. /\ OrderedUpTo(chain, pending_data)' /\ Increasing(pending_data)'
        /\ OrderedUpTo(disk.blocks, pending_data)'
    BY <1>0, <2>1, <2>3, OrderedUpToAppend DEF OrderInv, SealedInOrder
  <2>6. /\ Len(pending_data') = Len(pending_data) + 1
        /\ \A i \in 1..Len(pending_data) : pending_data'[i] = pending_data[i]
        /\ pending_data'[Len(pending_data) + 1] = r
        /\ pending_data' \in Seq(Records) /\ Len(pending_data) \in Nat
        /\ DOMAIN pending_data' = 1..Len(pending_data) + 1
        /\ DOMAIN pending_data = 1..Len(pending_data)
    BY <1>0, <2>1, AppendProperties, LenProperties
  <2>7. Accepted(pending_data)'
    <3>1. \A k \in 1..Len(pending_data) : pending_data[k] \in Nat /\ pending_data[k] <= accepted
      BY <1>0, <2>6, RecordElements DEF OrderInv, AllAccepted, Accepted
    <3>2. \A k \in 1..Len(pending_data) + 1 : pending_data'[k] <= r
      BY <1>0, <2>6, <3>1
    <3> QED
      BY <2>1, <2>6, <3>2 DEF Accepted
  <2>8. ASSUME pc = "clear"
        PROVE  IsPrefix(block.data_list, pending_data')
    <3>1. /\ Len(block.data_list) <= Len(pending_data)
          /\ \A i \in 1..Len(block.data_list) : block.data_list[i] = pending_data[i]
          /\ Len(block.data_list) \in Nat
      BY <1>0, <2>4, <2>8, PrefixElements, LenProperties DEF OrderInv, SealedInOrder
    <3>2. /\ Len(block.data_list) <= Len(pending_data')
          /\ \A i \in 1..Len(block.data_list) : block.data_list[i] = pending_data'[i]
      BY <2>6, <3>1
    <3> QED
      BY <2>4, <2>6, <2>8, <3>2, PrefixElements
  <2>9. ASSUME pc = "add"
        PROVE  Below(block.data_list, pending_data')
    <3>1. Below(block.data_list, pending_data) /\ Below(block.data_list, <<r>>)
      BY <2>4, <2>9 DEF OrderInv, SealedInOrder
    <3>2. \A k \in DOMAIN block.data_list : block.data_list[k] < r
      BY <3>1 DEF Below
    <3> QED
      BY <2>6, <3>1, <3>2 DEF Below
  <2>10. SealedInOrder'
    BY <2>1, <2>5, <2>8, <2>9 DEF OrderInv, SealedInOrder
  <2>11. AllAccepted'
    BY <2>1, <2>3, <2>4, <2>7 DEF AllAccepted
  <2> QED
    BY <2>10, <2>11 DEF OrderInv
<1>4. CASE Signal
  BY <1>4, SameRecords DEF Signal
<1>5. ASSUME ProcessEnds
      PROVE  OrderInv'
  <2>1. OrderedUpTo(disk.blocks, << >>)
    BY OrderedUpToEmpty DEF OrderInv, SealedInOrder
  <2>3. OrderedUpTo(<< >>, << >>) /\ Increasing(<< >>)
    BY DEF OrderedUpTo, Increasing
  <2>2. /\ UNCHANGED <<disk, accepted>> /\ chain' = << >>
        /\ pending_data' = << >> /\ pc' = "down"
    BY <1>5 DEF ProcessEnds
  <2> QED
    BY <2>1, <2>2, <2>3 DEF OrderInv, SealedInOrder, AllAccepted, Accepted
<1>6. CASE SaveNewChain \/ SaveAfterAppend \/ SaveAtExit
  <2>1. /\ UNCHANGED <<chain, pending_data, block, accepted>>
        /\ disk' \in {disk, Torn, Saved(chain)}
        /\ pc' \notin {"clear", "add"}
    BY <1>6 DEF SaveNewChain, SaveAfterAppend, SaveAtExit, OpenChainFile, DumpChainFile
  <2> QED
    BY <2>1, FileOrder
<1>7. CASE HandlerOpen \/ HandlerDump
  BY <1>7, FileOrder DEF HandlerOpen, HandlerDump
<1>8. CASE EnterLoop \/ SkipRound \/ LoopRaises
  BY <1>8, SameRecords DEF EnterLoop, SkipRound, LoopRaises
<1>9. CASE CopyPendingData
  <2>1. /\ UNCHANGED <<chain, pending_data, disk, accepted>>
        /\ block' = NextBlock(chain, pending_data) /\ pc' = "clear"
    BY <1>9 DEF CopyPendingData
  <2>2. block'.data_list = pending_data
    BY <2>1 DEF NextBlock, MakeBlock
  <2>3. IsPrefix(pending_data, pending_data)
    BY <1>0, PrefixElements, LenProperties
  <2> QED
    BY <2>1, <2>2, <2>3 DEF OrderInv, SealedInOrder, AllAccepted, Accepted
<1>10. CASE ClearPendingData
  <2>1. /\ UNCHANGED <<chain, disk, block, accepted>>
        /\ pending_data' = << >> /\ pc = "clear" /\ pc' = "add"
    BY <1>10 DEF ClearPendingData
  <2>2. block.data_list \in Seq(Records)
    BY <2>1 DEF Inv, ChainWellFormed, Blocks
  <2>3. OrderedUpTo(chain, block.data_list) /\ Increasing(block.data_list)
    BY <1>0, <2>1, <2>2, OrderedUpToPrefix DEF OrderInv, SealedInOrder
  <2>4. /\ OrderedUpTo(chain, << >>) /\ OrderedUpTo(disk.blocks, << >>)
        /\ Increasing(<< >>) /\ Below(block.data_list, << >>)
    BY OrderedUpToEmpty DEF OrderInv, SealedInOrder, Increasing, Below
  <2> QED
    BY <2>1, <2>3, <2>4 DEF OrderInv, SealedInOrder, AllAccepted, Accepted
<1>11. CASE AddBlock
  <2>1. /\ UNCHANGED <<pending_data, disk, accepted>> /\ pc = "add"
        /\ chain' \in {chain, Append(chain, block)}
        /\ pc' \notin {"clear", "add"}
    BY <1>11 DEF AddBlock
  <2>2. block \in Blocks /\ Accepted(block.data_list)
    BY <2>1 DEF Inv, ChainWellFormed, OrderInv, AllAccepted
  <2>3. OrderedUpTo(Append(chain, block), pending_data)
    BY <1>0, <2>1, <2>2, OrderedUpToBlock DEF OrderInv, SealedInOrder
  <2>4. \A i \in DOMAIN Append(chain, block) : Accepted(Append(chain, block)[i].data_list)
    <3>1. \A i \in DOMAIN Append(chain, block) :
            \/ i \in DOMAIN chain /\ Append(chain, block)[i] = chain[i]
            \/ Append(chain, block)[i] = block
      BY <1>0, <2>2, AppendProperties, LenProperties
    <3> QED
      BY <2>2, <3>1 DEF OrderInv, AllAccepted
  <2>5. OrderedUpTo(chain', pending_data')
    BY <2>1, <2>3 DEF OrderInv, SealedInOrder
  <2>6. \A i \in DOMAIN chain' : Accepted(chain'[i].data_list)
    BY <2>1, <2>4 DEF OrderInv, AllAccepted
  <2> QED
    BY <2>1, <2>5, <2>6 DEF OrderInv, SealedInOrder, AllAccepted, Accepted
<1>12. CASE UNCHANGED vars
  BY <1>12, SameRecords DEF vars
<1> QED
  BY <1>1, <1>2, <1>3, <1>4, <1>5, <1>6, <1>7, <1>8, <1>9, <1>10, <1>11, <1>12
  DEF Next, MainStep, Exit, Crash

\* Whatever the threads, the handler, crashes, failing files and restarts do,
\* records are sealed in the order of their arrival and none of them twice.
THEOREM RecordsSealedInOrder == Spec => []SealedInOrder
<1>1. Spec => []Inv
  BY InitInv, NextInv, PTL DEF Spec
<1>2. Inv /\ OrderInv /\ [Next]_vars => OrderInv'
  BY NextOrder
<1> QED
  BY <1>1, <1>2, InitOrder, PTL DEF Spec, OrderInv

-----------------------------------------------------------------------------
(* The file and the chain.                                                 *)

\* Nothing takes a mishap back.
LEMMA MishapStays == [Next]_vars => (mishap => mishap')
BY DEF Next, MainStep, vars, LoadChain, CreateNewChain, AddData, Signal, Crash,
   ProcessEnds, SaveNewChain, SaveAfterAppend, SaveAtExit, OpenChainFile,
   DumpChainFile, EnterLoop, LoopRaises, SkipRound, CopyPendingData,
   ClearPendingData, AddBlock, Exit, HandlerOpen, HandlerDump

\* A block about to be appended is newer than all the file holds, which may be
\* an older chain.
FileBehindBlock == pc = "add" => OrderedUpTo(disk.blocks, block.data_list)

FileInv == DiskBehindChain /\ FileBehindBlock

\* A chain is as much behind a chain one block longer whose block is newer.
LEMMA OldBehindAppend ==
  ASSUME NEW c \in Seq(Blocks), NEW d \in Seq(Blocks), NEW b \in Blocks,
         OldBehindNew(c, d), \A i \in DOMAIN c : Below(c[i].data_list, b.data_list)
  PROVE  OldBehindNew(c, Append(d, b))
<1> DEFINE e == Append(d, b)
<1>1. /\ DOMAIN d = 1..Len(d) /\ DOMAIN e = 1..Len(d) + 1 /\ Len(d) \in Nat
      /\ \A i \in 1..Len(d) : e[i] = d[i]
      /\ e[Len(d) + 1] = b
  BY AppendElements
<1>2. \A j \in DOMAIN e : (j \in DOMAIN d /\ e[j] = d[j]) \/ e[j] = b
  BY <1>1
<1> HIDE DEF e
<1>3. OldBehindNew(c, e)
  BY <1>2 DEF OldBehindNew
<1> QED
  BY <1>3 DEF e

\* The file is behind the chain: each step.
LEMMA NextFile == Inv /\ OrderInv /\ FileInv /\ [Next]_vars => FileInv'
<1> SUFFICES ASSUME Inv, OrderInv, FileInv, [Next]_vars
             PROVE  FileInv'
  OBVIOUS
<1>0. /\ chain \in Seq(Blocks) /\ disk.blocks \in Seq(Blocks)
      /\ IsPrefix(chain, chain) /\ IsPrefix(disk.blocks, disk.blocks)
      /\ mishap => mishap'
  BY PrefixSelf, MishapStays DEF Inv, TypeOK, Files
<1>1. CASE LoadChain
  BY <1>0, <1>1 DEF LoadChain, FileInv, DiskBehindChain, FileBehindBlock
<1>2. CASE CreateNewChain
  <2>1. /\ chain' = <<Genesis>> /\ pc' = "create_open" /\ UNCHANGED disk
        /\ disk.state = "saved" => mishap'
    BY <1>2 DEF CreateNewChain
  <2>2. OldBehindNew(disk.blocks, <<Genesis>>)
    BY DEF OldBehindNew, Below, Genesis, MakeBlock
  <2> QED
    BY <2>1, <2>2 DEF FileInv, DiskBehindChain, FileBehindBlock
<1>3. CASE ClearPendingData
  <2>1. /\ pc = "clear" /\ pc' = "add" /\ UNCHANGED <<chain, disk, block, mishap>>
    BY <1>3 DEF ClearPendingData
  <2>2. /\ pending_data \in Seq(Records) /\ block.data_list \in Seq(Records)
        /\ IsPrefix(block.data_list, pending_data)
        /\ OrderedUpTo(disk.blocks, pending_data) /\ Increasing(pending_data)
    BY <2>1 DEF Inv, TypeOK, ChainWellFormed, Blocks, OrderInv, SealedInOrder
  <2>3. OrderedUpTo(disk.blocks, block.data_list)
    BY <2>2, OrderedUpToPrefix
  <2> QED
    BY <2>1, <2>3 DEF FileInv, DiskBehindChain, FileBehindBlock
<1>4. CASE AddBlock
  <2>1. /\ block \in Blocks /\ chain' \in {chain, Append(chain, block)}
        /\ UNCHANGED <<disk, mishap>> /\ pc = "add" /\ pc' \in {"open", "loop"}
    BY <1>4 DEF AddBlock, Inv, ChainWellFormed
  <2>2. \A i \in DOMAIN disk.blocks : Below(disk.blocks[i].data_list, block.data_list)
    BY <2>1 DEF FileInv, FileBehindBlock, OrderedUpTo
  <2>3. IsPrefix(disk.blocks, chain) => IsPrefix(disk.blocks, Append(chain, block))
    BY <1>0, <2>1, PrefixAppend
  <2>4. OldBehindNew(disk.blocks, chain) => OldBehindNew(disk.blocks, Append(chain, block))
    BY <1>0, <2>1, <2>2, OldBehindAppend
  <2> QED
    BY <2>1, <2>3, <2>4 DEF FileInv, DiskBehindChain, FileBehindBlock
<1>5. ASSUME UNCHANGED <<chain, block>>, pc # "down", pc' = "add" => pc = "add",
             disk' \in {disk, Torn, Saved(chain)}
      PROVE  FileInv'
  <2>1. DiskBehindChain'
    BY <1>0, <1>5 DEF FileInv, DiskBehindChain, Torn, Saved
  <2>2. pc = "add" => /\ OrderedUpTo(chain, block.data_list)
                      /\ OrderedUpTo(<< >>, block.data_list)
    BY DEF OrderInv, SealedInOrder, OrderedUpTo
  <2> QED
    BY <1>5, <2>1, <2>2 DEF FileInv, FileBehindBlock, Torn, Saved
<1>6. CASE SaveNewChain \/ SaveAfterAppend \/ SaveAtExit
  BY <1>5, <1>6
  DEF SaveNewChain, SaveAfterAppend, SaveAtExit, OpenChainFile, DumpChainFile
<1>7. CASE HandlerOpen \/ HandlerDump
  BY <1>5, <1>7 DEF HandlerOpen, HandlerDump, Inv, HandlerScope, Running
<1>8. CASE AddData \/ Signal \/ EnterLoop \/ LoopRaises \/ SkipRound
  BY <1>5, <1>8 DEF AddData, Signal, EnterLoop, LoopRaises, SkipRound, Running
<1>9. CASE CopyPendingData
  BY <1>0, <1>9 DEF CopyPendingData, FileInv, DiskBehindChain, FileBehindBlock
<1>10. CASE UNCHANGED vars
  BY <1>10 DEF vars, FileInv, DiskBehindChain, FileBehindBlock
<1>11. CASE ProcessEnds
  BY <1>11 DEF ProcessEnds, FileInv, DiskBehindChain, FileBehindBlock
<1> QED
  BY <1>1, <1>2, <1>3, <1>4, <1>6, <1>7, <1>8, <1>9, <1>10, <1>11
  DEF Next, MainStep, Exit, Crash

\* At first there is no file.
LEMMA InitFile == Init => FileInv
BY DEF Init, FileInv, DiskBehindChain, FileBehindBlock

\* What the file holds is never ahead of the chain in memory; where it holds
\* another chain, one that could not be read, that one is older as a whole.
THEOREM FileBehindChain == Spec => []DiskBehindChain
<1>1. Inv /\ OrderInv /\ FileInv /\ [Next]_vars => FileInv'
  BY NextFile
<1>2. Inv /\ OrderInv /\ [Next]_vars => OrderInv'
  BY NextOrder
<1> QED
  BY <1>1, <1>2, InitInv, NextInv, InitOrder, InitFile, PTL DEF Spec, FileInv

-----------------------------------------------------------------------------
(* The ledger implements the audit trail.                                  *)

\* Without a mishap, a process that is about to exit has its chain in the file,
\* unless the handler is just writing it.
ExitSaved == ~mishap /\ pc = "exit" /\ MainThread => disk = Saved(chain)

\* The file is complete at the exit: each step.
LEMMA NextExit == Inv /\ ExitSaved /\ [Next]_vars => ExitSaved'
<1> SUFFICES ASSUME Inv, ExitSaved, [Next]_vars,
                    ~mishap', pc' = "exit", MainThread'
             PROVE  disk' = Saved(chain')
  BY DEF ExitSaved
<1>1. ~mishap
  BY MishapStays
<1>2. CASE SaveAtExit
  BY <1>2 DEF SaveAtExit, OpenChainFile, DumpChainFile, Saved
<1>3. CASE HandlerDump
  BY <1>3 DEF HandlerDump, Saved
<1>4. ASSUME UNCHANGED <<chain, disk, pc>>, MainThread
      PROVE  disk' = Saved(chain')
  BY <1>1, <1>4 DEF ExitSaved, Saved
<1>5. CASE AddData
  BY <1>4, <1>5 DEF AddData, MainThread
<1>6. CASE UNCHANGED vars
  BY <1>4, <1>6 DEF vars, MainThread
<1> QED
  BY <1>2, <1>3, <1>5, <1>6
  DEF Next, MainStep, LoadChain, CreateNewChain, Signal, Crash, ProcessEnds,
      SaveNewChain, SaveAfterAppend, OpenChainFile, DumpChainFile, EnterLoop,
      LoopRaises, SkipRound, CopyPendingData, ClearPendingData, AddBlock, Exit, HandlerOpen,
      MainThread

\* What the restart would parse is a chain.
LEMMA RecoverableType ==
  ASSUME Inv
  PROVE  /\ Recoverable \in Seq(Blocks) /\ Recoverable # << >>
         /\ Ledger \in Seq(Blocks) /\ Ledger # << >>
         /\ Unread \in Seq(Blocks) /\ Unread # << >>
BY GenesisWellFormed
DEF Inv, TypeOK, Files, ChainWellFormed, WellFormed, Recoverable, Ledger, Unread

RInv == Inv /\ OrderInv /\ FileInv /\ ExitSaved

\* The records of a trail are those of the blocks after the genesis block.
LEMMA TrailRecord ==
  ASSUME NEW c \in Seq(Blocks), c # << >>, NEW q \in UNION ToSet(TrailOf(c))
  PROVE  \E i \in DOMAIN c : \E m \in DOMAIN c[i].data_list : q = c[i].data_list[m]
<1>1. PICK k \in DOMAIN TrailOf(c) : q \in TrailOf(c)[k]
  BY DEF ToSet
<1>2. /\ TrailOf(c) \in Seq(SUBSET Records) /\ Len(TrailOf(c)) = Len(c) - 1
      /\ \A j \in 1 .. Len(c) - 1 : TrailOf(c)[j] = ToSet(c[j+1].data_list)
  BY TrailType
<1>3. DOMAIN TrailOf(c) = 1 .. Len(c) - 1 /\ DOMAIN c = 1..Len(c) /\ Len(c) \in Nat
  BY <1>2, LenProperties
<1>4. k + 1 \in DOMAIN c /\ q \in ToSet(c[k+1].data_list)
  BY <1>1, <1>2, <1>3
<1> QED
  BY <1>4 DEF ToSet

\* There is no number between n and n + 1.
LEMMA NextNumber ==
  ASSUME NEW m \in Nat, NEW n \in Nat
  PROVE  /\ m <= n + 1 => m <= n \/ m = n + 1
         /\ m <= 1 /\ m # 0 => m = 1
OBVIOUS

\* A chain that is not the start of another one is not the start of that one
\* with a newer block on it either.
LEMMA StillApart ==
  ASSUME NEW c \in Seq(Blocks), NEW d \in Seq(Blocks), NEW b \in Blocks,
         WellFormed(c), WellFormed(d), b.data_list # << >>,
         \A i \in DOMAIN c : Below(c[i].data_list, b.data_list),
         IsPrefix(c, Append(d, b))
  PROVE  IsPrefix(c, d)
<1> DEFINE e == Append(d, b)
<1>1. /\ e \in Seq(Blocks) /\ Len(e) = Len(d) + 1 /\ Len(d) \in Nat
      /\ \A i \in 1..Len(d) : e[i] = d[i]
      /\ e[Len(d) + 1] = b
  BY AppendElements
<1>0. Len(c) \in Nat /\ DOMAIN c = 1..Len(c) /\ IsPrefix(c, e)
  BY LenProperties
<1> HIDE DEF e
<1>2. Len(c) <= Len(e) /\ \A i \in 1..Len(c) : c[i] = e[i]
  BY <1>0, <1>1, PrefixElements
<1>3. CASE Len(c) <= Len(d)
  <2>1. \A i \in 1..Len(c) : c[i] = d[i]
    BY <1>0, <1>1, <1>2, <1>3
  <2> QED
    BY <1>3, <2>1, PrefixElements
<1>4. CASE Len(c) = Len(d) + 1
  <2>1. Len(c) \in DOMAIN c /\ c[Len(c)] = b
    BY <1>0, <1>1, <1>2, <1>4
  <2>2. Below(b.data_list, b.data_list)
    BY <2>1
  <2>3. b.data_list \in Seq(Records)
    BY DEF Blocks
  <2>4. 1 \in DOMAIN b.data_list /\ b.data_list[1] \in Nat
    BY <2>3, RecordElements, EmptySeq
  <2>5. b.data_list[1] < b.data_list[1]
    BY <2>2, <2>4 DEF Below
  <2> QED
    BY <2>4, <2>5
<1>5. Len(c) <= Len(d) + 1
  BY <1>1, <1>2
<1>6. Len(c) <= Len(d) \/ Len(c) = Len(d) + 1
  BY <1>0, <1>1, <1>5, NextNumber
<1> QED
  BY <1>3, <1>4, <1>6

\* Appending the block commits its batch.
LEMMA AddBlockCommits ==
  ASSUME RInv, AddBlock, chain' = Append(chain, block)
  PROVE  Audit!Commit
<1>1. /\ pc = "add" /\ pc' \in {"open", "loop"}
      /\ UNCHANGED <<accepted, disk>>
  BY DEF AddBlock
<1>2. /\ chain \in Seq(Blocks) /\ chain # << >> /\ WellFormed(chain)
      /\ block \in Blocks /\ block.data_list \in Seq(Records)
      /\ block.data_list # << >>
      /\ OrderedUpTo(chain, block.data_list) /\ Accepted(block.data_list)
      /\ OrderedUpTo(disk.blocks, block.data_list)
      /\ pc = "add"
  BY DEF AddBlock, RInv, Inv, TypeOK, ChainWellFormed, WellFormed, Blocks, OrderInv,
     SealedInOrder, AllAccepted, FileInv, FileBehindBlock
<1>3. Ledger = chain /\ Ledger' = Append(chain, block)
  BY <1>2 DEF Ledger, AddBlock
<1>4. Trail' = Append(Trail, ToSet(block.data_list))
  BY <1>2, <1>3, AppendTrail DEF Trail
<1>5. ToSet(block.data_list) # {} /\ ToSet(block.data_list) \subseteq Records
  <2>1. 1 \in DOMAIN block.data_list
    BY <1>2, RecordElements, EmptySeq
  <2> QED
    BY <1>2, <2>1, RecordElements DEF ToSet
<1>6. \A r \in ToSet(block.data_list) : r <= accepted
  BY <1>2 DEF ToSet, Accepted
<1>7. UNCHANGED Unread
  <2>1. IsPrefix(disk.blocks, chain) => IsPrefix(disk.blocks, Append(chain, block))
    <3>1. disk.blocks \in Seq(Blocks)
      BY DEF RInv, Inv, TypeOK, Files
    <3> QED
      BY <1>2, <3>1, PrefixAppend
  <2>2. disk.state = "saved" /\ IsPrefix(disk.blocks, Append(chain, block))
          => IsPrefix(disk.blocks, chain)
    <3> SUFFICES ASSUME disk.state = "saved", IsPrefix(disk.blocks, Append(chain, block))
                 PROVE  IsPrefix(disk.blocks, chain)
      OBVIOUS
    <3>1. disk.blocks \in Seq(Blocks) /\ WellFormed(disk.blocks)
      BY DEF RInv, Inv, TypeOK, Files, ChainWellFormed
    <3>2. \A i \in DOMAIN disk.blocks : Below(disk.blocks[i].data_list, block.data_list)
      BY <1>2 DEF OrderedUpTo
    <3> QED
      BY <1>2, <3>1, <3>2, StillApart
  <2> QED
    BY <1>1, <2>1, <2>2 DEF Unread
<1>8. ASSUME NEW r \in ToSet(block.data_list), NEW q \in Audit!Committed \union Audit!SetAside
      PROVE  q < r
  <2>1. PICK k \in DOMAIN block.data_list : r = block.data_list[k]
    BY <1>8 DEF ToSet
  <2>2. CASE q \in Audit!Committed
    <3>1. PICK i \in DOMAIN chain : \E m \in DOMAIN chain[i].data_list : q = chain[i].data_list[m]
      BY <1>2, <1>3, <2>2, TrailRecord DEF Audit!Committed, Audit!ToSet, ToSet, Trail
    <3>2. Below(chain[i].data_list, block.data_list)
      BY <1>2 DEF OrderedUpTo
    <3> QED
      BY <2>1, <3>1, <3>2 DEF Below
  <2>3. CASE q \in Audit!SetAside
    <3>1. Unread \in Seq(Blocks) /\ Unread # << >>
      BY RecoverableType DEF RInv
    <3>2. PICK i \in DOMAIN Unread : \E m \in DOMAIN Unread[i].data_list : q = Unread[i].data_list[m]
      BY <2>3, <3>1, TrailRecord DEF Audit!SetAside, Audit!ToSet, ToSet
    <3>3. CASE Unread = disk.blocks
      <4>1. Below(disk.blocks[i].data_list, block.data_list)
        BY <1>2, <3>2, <3>3 DEF OrderedUpTo
      <4> QED
        BY <2>1, <3>2, <3>3, <4>1 DEF Below
    <3>4. CASE Unread = <<Genesis>>
      <4>1. i = 1 /\ Unread[i].data_list = << >>
        BY <3>2, <3>4 DEF Genesis, MakeBlock
      <4> QED
        BY <3>2, <4>1
    <3> QED
      BY <3>3, <3>4 DEF Unread
  <2> QED
    BY <1>8, <2>2, <2>3
<1>9. ToSet(block.data_list) \in (SUBSET Audit!Open) \ {{}}
  <2>1. \A r \in ToSet(block.data_list) :
          \A q \in Audit!Committed \union Audit!SetAside : q < r
    BY <1>8
  <2> QED
    BY <1>5, <1>6, <2>1 DEF Audit!Open
<1> QED
  BY <1>1, <1>4, <1>7, <1>9 DEF Audit!Commit

\* The end of the process takes the trail back to what the file holds, and only
\* after a mishap can that be less than all of it, or an older trail.
LEMMA EndRollsBack ==
  ASSUME RInv, ProcessEnds, Crash \/ Exit
  PROVE  [Audit!Next]_(Audit!vars)
<1>1. /\ pc # "down" /\ UNCHANGED <<accepted, disk>> /\ pc' = "down"
      /\ mishap => mishap'
  BY DEF Crash, Exit, ProcessEnds
<1>2. /\ Ledger = chain /\ Ledger' = Recoverable /\ Unread' = <<Genesis>>
      /\ TrailOf(Unread') = << >>
  BY <1>1, GenesisTrail DEF Ledger, Recoverable, Unread
<1>3. /\ chain \in Seq(Blocks) /\ Recoverable \in Seq(Blocks) /\ Recoverable # << >>
      /\ chain # << >> /\ chain[1] = Genesis
  BY <1>1, RecoverableType DEF RInv, Inv, TypeOK, ChainWellFormed, WellFormed
<1>4. CASE ~mishap'
  <2>1. ~mishap /\ pc = "exit" /\ MainThread
    BY <1>1, <1>4 DEF Crash, Exit
  <2>2. disk = Saved(chain)
    BY <2>1 DEF RInv, ExitSaved
  <2>3. Recoverable = chain /\ Unread = <<Genesis>>
    BY <1>3, <2>2, PrefixSelf DEF Recoverable, Unread, Saved
  <2>4. UNCHANGED mishap
    BY <1>4, <2>1 DEF Inv, RInv, TypeOK, Crash, Exit
  <2> QED
    BY <1>1, <1>2, <2>3, <2>4 DEF Audit!vars, Trail
<1>5. CASE mishap' /\ IsPrefix(Recoverable, chain)
  <2>1. \E n \in 0..Len(Trail) : Trail' = SubSeq(Trail, 1, n)
    BY <1>2, <1>3, <1>5, PrefixTrail DEF Trail
  <2> QED
    BY <1>1, <1>2, <1>5, <2>1 DEF Audit!Next, Audit!Rollback
<1>6. CASE mishap' /\ ~IsPrefix(Recoverable, chain)
  <2>1. IsPrefix(<<Genesis>>, chain)
    <3>1. Len(<<Genesis>>) = 1 /\ <<Genesis>>[1] = Genesis /\ <<Genesis>> \in Seq(Blocks)
      BY GenesisWellFormed
    <3>2. Len(chain) \in Nat /\ Len(chain) >= 1
      BY <1>3, LenProperties, EmptySeq
    <3>3. Len(<<Genesis>>) <= Len(chain) /\ \A i \in 1..Len(<<Genesis>>) : <<Genesis>>[i] = chain[i]
      BY <1>3, <3>1, <3>2
    <3> QED
      BY <1>3, <3>1, <3>3, PrefixElements
  <2>2. disk.state = "saved" /\ Recoverable = disk.blocks
    BY <1>6, <2>1 DEF Recoverable
  <2>3. Unread = disk.blocks
    BY <1>1, <1>6, <2>2 DEF Unread
  <2> QED
    BY <1>1, <1>2, <1>6, <2>2, <2>3 DEF Audit!Next, Audit!Relapse, Trail
<1> QED
  BY <1>4, <1>5, <1>6

\* A file that is opened or written no longer holds an older trail.
LEMMA SaveDiscards ==
  ASSUME RInv, UNCHANGED <<chain, accepted>>, pc # "down", pc' # "down",
         mishap => mishap', disk' \in {disk, Torn, Saved(chain)}
  PROVE  [Audit!Next]_(Audit!vars)
<1>1. UNCHANGED <<Trail, accepted>>
  BY DEF Trail, Ledger
<1>2. CASE UNCHANGED disk
  <2>1. UNCHANGED Unread
    BY <1>2 DEF Unread
  <2> QED
    BY <1>1, <2>1 DEF Audit!Next, Audit!Mishap
<1>3. CASE disk' \in {Torn, Saved(chain)}
  <2>1. IsPrefix(chain, chain)
    BY PrefixSelf DEF RInv, Inv, TypeOK
  <2>2. TrailOf(Unread') = << >>
    BY <1>3, <2>1, GenesisTrail DEF Unread, Torn, Saved
  <2> QED
    BY <1>1, <2>2 DEF Audit!Next, Audit!Discard
<1> QED
  BY <1>2, <1>3

\* Every step of the ledger is a step of the audit trail or leaves it alone.
LEMMA StepImplements == RInv /\ [Next]_vars => [Audit!Next]_(Audit!vars)
<1> SUFFICES ASSUME RInv, [Next]_vars
             PROVE  [Audit!Next]_(Audit!vars)
  OBVIOUS
<1>0. mishap => mishap'
  BY MishapStays
<1>1. ASSUME UNCHANGED <<chain, disk, accepted>>, pc # "down", pc' # "down"
      PROVE  [Audit!Next]_(Audit!vars)
  BY <1>0, <1>1, SaveDiscards
<1>2. CASE LoadChain
  <2>1. /\ Ledger = disk.blocks /\ Ledger' = disk.blocks
        /\ UNCHANGED <<accepted, disk, mishap>>
        /\ pc = "down" /\ chain' = disk.blocks
    BY <1>2 DEF LoadChain, Ledger, Recoverable
  <2>2. IsPrefix(disk.blocks, disk.blocks)
    BY PrefixSelf DEF RInv, Inv, TypeOK, Files
  <2>3. Unread = <<Genesis>> /\ Unread' = <<Genesis>>
    BY <2>1, <2>2 DEF Unread
  <2> QED
    BY <2>1, <2>3 DEF Audit!vars, Trail
<1>3. CASE CreateNewChain
  <2>1. /\ pc = "down" /\ pc' = "create_open" /\ chain' = <<Genesis>>
        /\ UNCHANGED <<accepted, disk>>
        /\ disk.state = "saved" => mishap'
    BY <1>3 DEF CreateNewChain
  <2>2. Ledger = Recoverable /\ Ledger' = <<Genesis>> /\ Unread = <<Genesis>>
    BY <2>1 DEF Ledger, Unread
  <2>3. Trail' = << >> /\ TrailOf(Unread) = << >>
    BY <2>2, GenesisTrail DEF Trail
  <2>4. CASE disk.state # "saved"
    <3>1. Recoverable = <<Genesis>> /\ Unread' = <<Genesis>>
      BY <2>1, <2>4 DEF Recoverable, Unread
    <3> QED
      BY <1>0, <2>1, <2>2, <3>1 DEF Audit!Next, Audit!Mishap, Trail
  <2>5. CASE disk.state = "saved" /\ ~IsPrefix(disk.blocks, <<Genesis>>)
    <3>1. Unread' = disk.blocks /\ Ledger = disk.blocks
      BY <2>1, <2>2, <2>5 DEF Unread, Recoverable
    <3> QED
      BY <2>1, <2>3, <2>5, <3>1 DEF Audit!Next, Audit!StartOver, Trail
  <2>6. CASE disk.state = "saved" /\ IsPrefix(disk.blocks, <<Genesis>>)
    <3>1. Unread' = <<Genesis>> /\ Ledger = disk.blocks
      BY <2>1, <2>2, <2>6 DEF Unread, Recoverable
    <3>2. disk.blocks = <<Genesis>>
      <4>1. disk.blocks \in Seq(Blocks) /\ disk.blocks # << >> /\ disk.blocks[1] = Genesis
        BY <2>6 DEF RInv, Inv, TypeOK, Files, ChainWellFormed, WellFormed
      <4>2. <<Genesis>> \in Seq(Blocks) /\ Len(<<Genesis>>) = 1
        BY GenesisWellFormed
      <4>3. Len(disk.blocks) <= Len(<<Genesis>>)
        BY <2>6, <4>1, <4>2, PrefixElements
      <4>4. Len(disk.blocks) \in Nat /\ (Len(disk.blocks) = 0 => disk.blocks = << >>)
        BY <4>1, LenProperties, EmptySeq
      <4>5. Len(disk.blocks) <= 1 /\ Len(disk.blocks) # 0
        BY <4>1, <4>2, <4>3, <4>4
      <4>6. Len(disk.blocks) = 1
        BY <4>4, <4>5, NextNumber
      <4> QED
        BY <4>1, <4>6
    <3> QED
      BY <1>0, <2>1, <2>2, <3>1, <3>2 DEF Audit!Next, Audit!Mishap, Trail
  <2> QED
    BY <2>4, <2>5, <2>6
<1>4. CASE AddData
  <2>1. /\ UNCHANGED <<chain, pc, disk, mishap>> /\ pc # "down"
        /\ accepted + 1 \in Records /\ accepted' = accepted + 1
    BY <1>4 DEF AddData, Running
  <2>2. UNCHANGED <<Trail, Unread>>
    BY <2>1 DEF Trail, Ledger, Unread
  <2> QED
    BY <2>1, <2>2 DEF Audit!Next, Audit!Receive
<1>5. CASE AddBlock
  <2>1. CASE chain' = Append(chain, block)
    BY <1>0, <1>5, <2>1, AddBlockCommits DEF Audit!Next
  <2>2. CASE chain' # Append(chain, block)
    BY <1>1, <1>5, <2>2 DEF AddBlock
  <2> QED
    BY <2>1, <2>2
<1>6. CASE Exit \/ Crash
  BY <1>6, EndRollsBack DEF Exit, Crash
<1>7. CASE SaveNewChain \/ SaveAfterAppend \/ SaveAtExit
  BY <1>0, <1>7, SaveDiscards
  DEF SaveNewChain, SaveAfterAppend, SaveAtExit, OpenChainFile, DumpChainFile
<1>8. CASE HandlerOpen \/ HandlerDump
  BY <1>0, <1>8, SaveDiscards DEF HandlerOpen, HandlerDump, RInv, Inv, HandlerScope, Running
<1>9. CASE Signal \/ EnterLoop \/ LoopRaises \/ SkipRound \/ CopyPendingData \/ ClearPendingData
  BY <1>1, <1>9
  DEF Signal, EnterLoop, LoopRaises, SkipRound, CopyPendingData, ClearPendingData, Running
<1>10. CASE UNCHANGED vars
  BY <1>10 DEF vars, Audit!vars, Trail, Ledger, Recoverable, Unread
<1> QED
  BY <1>2, <1>3, <1>4, <1>5, <1>6, <1>7, <1>8, <1>9, <1>10 DEF Next, MainStep

\* The threads, the file and the signal handler implement the audit trail, for
\* every set of records and of faults.
THEOREM LedgerImplementsAuditTrail == Spec => ImplementsAuditTrail
<1>1. Init => Audit!Init
  <2> SUFFICES ASSUME Init PROVE Audit!Init
    OBVIOUS
  <2>1. Ledger = <<Genesis>> /\ Unread = <<Genesis>> /\ accepted = 0 /\ mishap = FALSE
    BY DEF Init, Ledger, Recoverable, Unread, Absent
  <2> QED
    BY <2>1, GenesisTrail DEF Audit!Init, Trail
<1>2. Init => RInv
  BY InitInv, InitOrder, InitFile DEF Init, RInv, ExitSaved
<1>3. RInv /\ [Next]_vars => RInv'
  BY NextInv, NextOrder, NextFile, NextExit DEF RInv
<1>4. RInv /\ [Next]_vars => [Audit!Next]_(Audit!vars)
  BY StepImplements
<1> QED
  BY <1>1, <1>2, <1>3, <1>4, PTL DEF Spec, ImplementsAuditTrail, Audit!Spec

=============================================================================
