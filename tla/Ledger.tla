-------------------------------- MODULE Ledger --------------------------------
(***************************************************************************)
(* The ledger of one server without peers, from the moment its process     *)
(* starts until it ends and is started again.  Three strands interleave:   *)
(*                                                                         *)
(*   - the threads of the web server, each of which adds a record to       *)
(*     pending_data (agent payloads, IPMI audit records);                  *)
(*   - the main loop of MonitorClient.start, which packages pending_data   *)
(*     into a block, confirms it by its own vote, appends it to the chain  *)
(*     and rewrites chain.json;                                            *)
(*   - the SIGINT/SIGTERM handler, which runs on the main thread between   *)
(*     two of its steps and saves the chain too.                           *)
(*                                                                         *)
(* No lock guards any of it, so the steps are the points where another     *)
(* strand or a crash can get in between: after the copy of pending_data,   *)
(* after clear(), after the append, after open() has truncated the file.   *)
(***************************************************************************)
EXTENDS Block, FiniteSets

CONSTANTS
  Faults,    \* what the environment does: some of "crash", "signal", and
             \* "read", "write" or "raise" (reading chain.json, writing it or
             \* the upkeep between two rounds raises)
  NoBlock    \* no block is being made

ASSUME FaultsAssumption == Faults \subseteq {"crash", "signal", "read", "write", "raise"}
ASSUME NoBlockAssumption == NoBlock \notin Blocks

VARIABLES
  chain,         \* Blockchain.chain; << >> while the process is down
  pending_data,  \* Blockchain.pending_data
  disk,          \* chain.json: absent, torn (not parseable) or saved blocks
  pc,            \* where the main thread is
  block,         \* the block of the current create-and-propose round
  stop_event,    \* MonitorClient.stop_event
  handler,       \* where the signal handler is
  accepted,      \* history: the number of the last record accepted
  persisted,     \* history: the records of every completed save
  mishap         \* history: there has been a crash, or a file was not read or written

vars == <<chain, pending_data, disk, pc, block, stop_event, handler,
          accepted, persisted, mishap>>

Files == [state : {"absent", "torn", "saved"}, blocks : Seq(Blocks)]

Absent  == [state |-> "absent", blocks |-> << >>]
Torn    == [state |-> "torn",   blocks |-> << >>]
Saved(c) == [state |-> "saved", blocks |-> c]

Starting == {"create_open", "create_dump"}
Running  == {"loop", "turn", "clear", "add", "open", "dump",
             "exit_open", "exit_dump", "exit"}

\* Mutant of MainThread: the handler has a thread of its own.
HandlerOnOwnThread == TRUE

\* What mutants lose: the last block of a chain longer than the genesis block.
ButLast(c) == SubSeq(c, 1, IF Len(c) > 1 THEN Len(c) - 1 ELSE 1)

\* The main thread does not move while the handler runs on top of it.
MainThread == handler \notin {"open", "dump"}

Init ==
  /\ chain = << >>
  /\ pending_data = << >>
  /\ disk = Absent
  /\ pc = "down"
  /\ block = NoBlock
  /\ stop_event = FALSE
  /\ handler = "none"
  /\ accepted = 0
  /\ persisted = {}
  /\ mishap = FALSE

-----------------------------------------------------------------------------
(* Start of the process: Blockchain.__init__ and _load_chain.              *)

\* Mutant of LoadChain: the last block is dropped.
LoadChainButLast ==
  /\ pc = "down" /\ disk.state = "saved"
  /\ chain' = ButLast(disk.blocks)
  /\ pc' = "loop"
  /\ UNCHANGED <<pending_data, disk, block, stop_event, handler, accepted, persisted, mishap>>

\* chain.json is there and parses: it becomes the chain.
LoadChain ==
  /\ pc = "down" /\ disk.state = "saved"
  /\ chain' = disk.blocks
  /\ pc' = "loop"
  /\ UNCHANGED <<pending_data, disk, block, stop_event, handler, accepted, persisted, mishap>>

\* chain.json is missing, or reading or parsing it raises and the exception is
\* answered with a new chain, to be saved over whatever was there.
CreateNewChain ==
  /\ pc = "down"
  /\ disk.state \in {"absent", "torn"} \/ "read" \in Faults
  /\ chain' = <<Genesis>>
  /\ pc' = "create_open"
  /\ mishap' = (mishap \/ disk.state # "absent")
  /\ UNCHANGED <<pending_data, disk, block, stop_event, handler, accepted, persisted>>

-----------------------------------------------------------------------------
(* _save_chain: open() truncates, json.dump fills; a failure of either is  *)
(* logged and the caller goes on.                                          *)

\* The main thread opens the file at here and goes to dump, or to done if
\* open() raises.
OpenChainFile(here, dump, done) ==
  /\ MainThread /\ pc = here
  /\ \/ disk' = Torn /\ pc' = dump /\ UNCHANGED mishap
     \/ "write" \in Faults /\ pc' = done /\ mishap' = TRUE /\ UNCHANGED disk
  /\ UNCHANGED <<chain, pending_data, block, stop_event, handler, accepted, persisted>>

\* It writes the blocks out; if that raises, the file keeps what it had.
DumpChainFile(here, done) ==
  /\ MainThread /\ pc = here
  /\ pc' = done
  /\ \/ /\ disk' = Saved(chain) /\ persisted' = persisted \union RecordsOn(chain)
        /\ UNCHANGED mishap
     \/ "write" \in Faults /\ mishap' = TRUE /\ UNCHANGED <<disk, persisted>>
  /\ UNCHANGED <<chain, pending_data, block, stop_event, handler, accepted>>

SaveNewChain ==
  \/ OpenChainFile("create_open", "create_dump", "loop")
  \/ DumpChainFile("create_dump", "loop")

SaveAfterAppend ==
  \/ OpenChainFile("open", "dump", "loop")
  \/ DumpChainFile("dump", "loop")

SaveAtExit ==
  \/ OpenChainFile("exit_open", "exit_dump", "exit")
  \/ DumpChainFile("exit_dump", "exit")

-----------------------------------------------------------------------------
(* Web threads.                                                            *)

\* add_data: every record a handler of the web server turns into ChainData.
AddData ==
  /\ pc \in Running
  /\ accepted + 1 \in Records
  /\ accepted' = accepted + 1
  /\ pending_data' = Append(pending_data, accepted + 1)
  /\ UNCHANGED <<chain, disk, pc, block, stop_event, handler, persisted, mishap>>

-----------------------------------------------------------------------------
(* The main loop.  A server without peers is always its own leader.        *)

\* The loop condition: a round begins, or finally, stop() saves once more.
EnterLoop ==
  /\ MainThread /\ pc = "loop"
  /\ pc' = IF stop_event THEN "exit_open" ELSE "turn"
  /\ UNCHANGED <<chain, pending_data, disk, block, stop_event, handler, accepted, persisted, mishap>>

\* An exception leaves the body of the loop, as when cleanup_old_pending iterates
\* over a dict into which a request thread has just put a proposal: finally,
\* stop() ends the process in the orderly way.
LoopRaises ==
  /\ "raise" \in Faults
  /\ MainThread /\ pc = "loop"
  /\ pc' = "exit_open" /\ stop_event' = TRUE
  /\ UNCHANGED <<chain, pending_data, disk, block, handler, accepted, persisted, mishap>>

\* _create_and_propose_block finds the pool empty and returns None.
SkipRound ==
  /\ MainThread /\ pc = "turn"
  /\ pending_data = << >>
  /\ pc' = "loop"
  /\ UNCHANGED <<chain, pending_data, disk, block, stop_event, handler, accepted, persisted, mishap>>

\* create_block, first half: the block takes a copy of the pool.
CopyPendingData ==
  /\ MainThread /\ pc = "turn"
  /\ pending_data # << >>
  /\ block' = NextBlock(chain, pending_data)
  /\ pc' = "clear"
  /\ UNCHANGED <<chain, pending_data, disk, stop_event, handler, accepted, persisted, mishap>>

\* Mutant of ClearPendingData: the pool is not emptied.
ClearNothing ==
  /\ MainThread /\ pc = "clear"
  /\ pc' = "add"
  /\ UNCHANGED <<chain, pending_data, disk, block, stop_event, handler, accepted, persisted, mishap>>

\* create_block, second half: the pool is emptied, whatever it holds by now.
ClearPendingData ==
  /\ MainThread /\ pc = "clear"
  /\ pending_data' = << >>
  /\ pc' = "add"
  /\ UNCHANGED <<chain, disk, block, stop_event, handler, accepted, persisted, mishap>>

\* Mutant of AddBlock: the block is forgotten before it is appended.
AddForgottenBlock ==
  /\ MainThread /\ pc = "add"
  /\ block' = NoBlock
  /\ chain' = Append(chain, block')
  /\ pc' = "open"
  /\ UNCHANGED <<pending_data, disk, stop_event, handler, accepted, persisted, mishap>>

\* Mutant of AddBlock: the chain is not saved after the append.
AddBlockUnsaved ==
  /\ MainThread /\ pc = "add"
  /\ ValidateBlock(chain, block)
  /\ chain' = Append(chain, block)
  /\ pc' = "loop" /\ block' = NoBlock
  /\ UNCHANGED <<pending_data, disk, stop_event, handler, accepted, persisted, mishap>>

\* propose_block, vote_block and get_confirmed_block: the only voter approves,
\* so the block is confirmed; add_block appends it if it validates, and its
\* answer is ignored.
AddBlock ==
  /\ MainThread /\ pc = "add"
  /\ \/ /\ ValidateBlock(chain, block)
        /\ chain' = Append(chain, block)
        /\ pc' = "open"
     \/ /\ ~ValidateBlock(chain, block)
        /\ pc' = "loop"
        /\ UNCHANGED chain
  /\ block' = NoBlock
  /\ UNCHANGED <<pending_data, disk, stop_event, handler, accepted, persisted, mishap>>

-----------------------------------------------------------------------------
(* The signal handler: stop() on top of whatever the main thread is doing. *)

Signal ==
  /\ "signal" \in Faults
  /\ pc \in Running /\ handler = "none"
  /\ handler' = "open"
  /\ stop_event' = TRUE
  /\ UNCHANGED <<chain, pending_data, disk, pc, block, accepted, persisted, mishap>>

HandlerOpen ==
  /\ handler = "open"
  /\ \/ disk' = Torn /\ handler' = "dump" /\ UNCHANGED mishap
     \/ "write" \in Faults /\ handler' = "done" /\ mishap' = TRUE /\ UNCHANGED disk
  /\ UNCHANGED <<chain, pending_data, pc, block, stop_event, accepted, persisted>>

HandlerDump ==
  /\ handler = "dump"
  /\ handler' = "done"
  /\ \/ /\ disk' = Saved(chain) /\ persisted' = persisted \union RecordsOn(chain)
        /\ UNCHANGED mishap
     \/ "write" \in Faults /\ mishap' = TRUE /\ UNCHANGED <<disk, persisted>>
  /\ UNCHANGED <<chain, pending_data, pc, block, stop_event, accepted>>

-----------------------------------------------------------------------------
(* The end of the process: memory is gone, the file stays.                 *)

ProcessEnds ==
  /\ chain' = << >> /\ pending_data' = << >> /\ block' = NoBlock
  /\ pc' = "down" /\ stop_event' = FALSE /\ handler' = "none"
  /\ UNCHANGED <<disk, accepted, persisted>>

\* The main thread returns; the daemon threads of the web server end with it.
Exit == MainThread /\ pc = "exit" /\ ProcessEnds /\ UNCHANGED mishap

\* Kill -9, power loss, out of memory.
Crash == "crash" \in Faults /\ pc # "down" /\ ProcessEnds /\ mishap' = TRUE

-----------------------------------------------------------------------------

MainStep ==
  \/ SaveNewChain \/ EnterLoop \/ SkipRound
  \/ CopyPendingData \/ ClearPendingData \/ AddBlock \/ SaveAfterAppend
  \/ SaveAtExit \/ Exit
  \/ HandlerOpen \/ HandlerDump

Next ==
  \/ LoadChain \/ CreateNewChain
  \/ AddData \/ Signal \/ LoopRaises \/ Crash
  \/ MainStep

Spec == Init /\ [][Next]_vars

\* The main thread keeps running while the process does.  Nothing makes agents
\* send, signals arrive or a server that is down be started again.
FairSpec == Spec /\ WF_vars(MainStep)

-----------------------------------------------------------------------------
(* Properties.                                                             *)

TypeOK ==
  /\ chain \in Seq(Blocks)
  /\ pending_data \in Seq(Records)
  /\ disk \in Files
  /\ pc \in {"down"} \union Starting \union Running
  /\ block \in Blocks \union {NoBlock}
  /\ stop_event \in BOOLEAN
  /\ handler \in {"none", "open", "dump", "done"}
  /\ accepted \in Nat
  /\ persisted \subseteq Records
  /\ mishap \in BOOLEAN

\* Both the chain in memory and whatever a restart would parse are well formed,
\* and a block that is waiting for add_block will pass _validate_block: no
\* interleaving with the handler or a crash leaves the single writer with a
\* stale tip.
ChainWellFormed ==
  /\ pc # "down" => WellFormed(chain)
  /\ disk.state = "saved" => WellFormed(disk.blocks)
  /\ pc \in {"clear", "add"} =>
       block \in Blocks /\ ValidateBlock(chain, block) /\ block.data_list # << >>

Increasing(s) == \A i, j \in DOMAIN s : i < j => s[i] < s[j]
Below(s, t) == \A i \in DOMAIN s, j \in DOMAIN t : s[i] < t[j]

\* Every record on chain c is older than every record on chain d.
OldBehindNew(c, d) ==
  \A i \in DOMAIN c, j \in DOMAIN d : Below(c[i].data_list, d[j].data_list)

\* The records of chain c come in order of arrival, and before those of s.
OrderedUpTo(c, s) ==
  /\ \A i \in DOMAIN c : Increasing(c[i].data_list) /\ Below(c[i].data_list, s)
  /\ \A i, j \in DOMAIN c : i < j => Below(c[i].data_list, c[j].data_list)

\* Records are sealed in the order in which they were accepted and none is
\* sealed twice, in memory and on disk, across the copy, the clear and every
\* restart: chain, block in the making and pool, read one after the other, are
\* strictly increasing.
SealedInOrder ==
  /\ OrderedUpTo(chain, pending_data) /\ Increasing(pending_data)
  /\ pc = "clear" => IsPrefix(block.data_list, pending_data)
  /\ pc = "add" => /\ OrderedUpTo(chain, block.data_list)
                   /\ Increasing(block.data_list)
                   /\ Below(block.data_list, pending_data)
  /\ OrderedUpTo(disk.blocks, pending_data)

\* While the process is up, chain.json holds a prefix of the chain in memory, or
\* does not parse, or holds another, older chain: one that could not be read when
\* the process was started.  Then every record it holds is older than every
\* record on the chain, so that no interleaving of saves, failed saves and
\* restarts leaves two histories that overlap or are spliced together.
DiskBehindChain ==
  pc # "down" /\ disk.state = "saved" =>
    \/ IsPrefix(disk.blocks, chain)
    \/ mishap /\ OldBehindNew(disk.blocks, chain)

\* What a restart would come up with, and what the server would show if asked.
Recoverable == IF disk.state = "saved" THEN disk.blocks ELSE <<Genesis>>
Ledger == IF pc = "down" THEN Recoverable ELSE chain

\* An older chain that the file still holds beside the one in memory.
Unread ==
  IF pc # "down" /\ disk.state = "saved" /\ ~IsPrefix(disk.blocks, chain)
  THEN disk.blocks ELSE <<Genesis>>

Trail == TrailOf(Ledger)

Audit == INSTANCE AuditTrail
         WITH trail <- Trail, shelved <- TrailOf(Unread), received <- accepted

\* The threads, the file and the handler together implement the audit trail:
\* committed batches are never rewritten, and only after a crash or a file that
\* was not read or written can a restart take batches back or start over.  A
\* planned stop, a signal inside a save and an exception in the loop cannot.
ImplementsAuditTrail == Audit!Spec

InFlight == IF block = NoBlock THEN {} ELSE ToSet(block.data_list)

\* Every record the server accepted since it was started, and before, is on
\* the chain, in the block being made or in the pool.
NothingDropped ==
  pc \in Running =>
    1..accepted \subseteq RecordsOn(chain) \union InFlight \union ToSet(pending_data)

\* A record that is in the pool, and not in the window between copy() and
\* clear(), reaches the chain, unless the process ends or is told to stop.
EventuallySealed ==
  \A r \in Records :
    r \in ToSet(pending_data) /\ pc # "clear"
      ~> r \in RecordsOn(chain) \/ stop_event \/ pc = "down"

\* A record on the chain reaches the file, even when the process is told to stop,
\* or leaves its loop by an exception, between the append and the save; only a
\* crash or a file that was not read or written can prevent it.
EventuallyPersisted ==
  \A r \in Records : r \in RecordsOn(chain) ~> r \in persisted \/ mishap

=============================================================================
