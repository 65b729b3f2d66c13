------------------------------- MODULE Commands -------------------------------
(***************************************************************************)
(* IPMI commands from the dashboard.  Every POST to /api/ipmi/execute has  *)
(* a thread of its own, which checks the command against the whitelist,    *)
(* runs ipmitool for at most ten seconds, appends the command to           *)
(* command_history, adds an audit record to pending_data and answers.      *)
(* No lock orders these threads.  History and pool are in memory, so that  *)
(* they are gone when the process ends; ipmitool and the BMC of the device *)
(* are not, and may still act on what they were told.                      *)
(*                                                                         *)
(* A command is the number of its request.  Collection puts these threads  *)
(* beside the main loop of their server.                                   *)
(***************************************************************************)
EXTENDS Integers, Sequences, SequencesExt, FiniteSets

CONSTANTS
  Threads,      \* request threads of the web server
  MaxCommands,  \* bound: how many commands are submitted
  Faults        \* some of "device" (it fails or is silent), "end" (of the process)

ASSUME MaxCommandsAssumption == MaxCommands \in Nat
ASSUME FaultsAssumption == Faults \subseteq {"device", "end"}

VARIABLES
  submitted,        \* history: how many commands were submitted
  thread,           \* per thread: the command it handles and how far it is
  sent,             \* commands sent to the device that it has not seen yet
  performed,        \* history: commands the device has carried out
  command_history,  \* IPMIExecutor.command_history
  pending_data,     \* Blockchain.pending_data, audit records only
  sealing,          \* how far the main thread is with a block
  block,            \* the audit records of that block
  chain,            \* the audit records on the chain
  ended_with,       \* history: commands that were not on the chain at an end
  overrun           \* history: audited between the copy and the clearing of the pool

ledgerVars == <<pending_data, sealing, block, chain>>
historyVars == <<ended_with, overrun>>
vars == <<submitted, thread, sent, performed, command_history, ledgerVars, historyVars>>

Commands == 1..MaxCommands

Idle == [at |-> "idle"]

Init ==
  /\ submitted = 0
  /\ thread = [t \in Threads |-> Idle]
  /\ sent = {} /\ performed = {}
  /\ command_history = << >>
  /\ pending_data = << >> /\ chain = << >>
  /\ sealing = "no" /\ block = << >>
  /\ ended_with = {} /\ overrun = {}

-----------------------------------------------------------------------------
(* A request.                                                              *)

\* A command with the status that its record has by now.
Record(c, status) == [command |-> c, status |-> status]

\* The executor returns record r of thread t.
Return(t, r) ==
  /\ command_history' = Append(command_history, r)
  /\ thread' = [thread EXCEPT ![t] = [at |-> "audit", record |-> r]]

\* Mutant of Refuse: a refused command is answered at once, without an audit.
RefuseUnaudited(t) ==
  /\ thread[t] = Idle /\ submitted < MaxCommands
  /\ submitted' = submitted + 1
  /\ command_history' = Append(command_history, Record(submitted', "rejected"))
  /\ UNCHANGED <<thread, sent, performed, ledgerVars, historyVars>>

\* is_command_allowed refuses: the command is recorded, but not run.
Refuse(t) ==
  /\ thread[t] = Idle /\ submitted < MaxCommands
  /\ submitted' = submitted + 1
  /\ Return(t, Record(submitted', "rejected"))
  /\ UNCHANGED <<sent, performed, ledgerVars, historyVars>>

\* The command is allowed, and ipmitool sends it.
Run(t) ==
  /\ thread[t] = Idle /\ submitted < MaxCommands
  /\ submitted' = submitted + 1
  /\ thread' = [thread EXCEPT ![t] = [at |-> "running", record |-> Record(submitted', "running")]]
  /\ sent' = sent \union {submitted'}
  /\ UNCHANGED <<performed, command_history, ledgerVars, historyVars>>

Running(t) == thread[t].at = "running"

\* The device carries out a command it was sent, whoever still waits for it.
Perform(c) ==
  /\ c \in sent
  /\ sent' = sent \ {c}
  /\ performed' = performed \union {c}
  /\ UNCHANGED <<submitted, thread, command_history, ledgerVars, historyVars>>

\* The command does not reach the device, or the device does not do it.
Drop(c) ==
  /\ "device" \in Faults /\ c \in sent
  /\ sent' = sent \ {c}
  /\ UNCHANGED <<submitted, thread, performed, command_history, ledgerVars, historyVars>>

\* ipmitool reports success: the device has done it.
Succeed(t) ==
  /\ Running(t)
  /\ thread[t].record.command \in performed
  /\ Return(t, [thread[t].record EXCEPT !.status = "success"])
  /\ UNCHANGED <<submitted, sent, performed, ledgerVars, historyVars>>

\* Mutant of Fail: what ran into the timeout counts as done.
FailSilently(t) ==
  /\ "device" \in Faults /\ Running(t)
  /\ Return(t, [thread[t].record EXCEPT !.status = "success"])
  /\ UNCHANGED <<submitted, sent, performed, ledgerVars, historyVars>>

\* Mutant of Fail: the handler of the timeout leaves the status as it is.
FailRunning(t) ==
  /\ "device" \in Faults /\ Running(t)
  /\ Return(t, thread[t].record)
  /\ UNCHANGED <<submitted, sent, performed, ledgerVars, historyVars>>

\* ipmitool exits with an error, does not exit within ten seconds or cannot be
\* started; what the device does is another matter.
Fail(t) ==
  /\ "device" \in Faults /\ Running(t)
  /\ Return(t, [thread[t].record EXCEPT !.status = "failed"])
  /\ UNCHANGED <<submitted, sent, performed, ledgerVars, historyVars>>

\* Mutant of Audit: the whole history is audited.
AuditHistory(t) ==
  /\ thread[t].at = "audit"
  /\ pending_data' = pending_data \o command_history
  /\ thread' = [thread EXCEPT ![t] = Idle]
  /\ UNCHANGED <<submitted, sent, performed, command_history, sealing, block, chain, historyVars>>

\* execute_ipmi_command adds the audit record, and answers.
Audit(t) ==
  /\ thread[t].at = "audit"
  /\ pending_data' = Append(pending_data, thread[t].record)
  /\ overrun' = IF sealing = "clear" THEN overrun \union {thread[t].record.command} ELSE overrun
  /\ thread' = [thread EXCEPT ![t] = Idle]
  /\ UNCHANGED <<submitted, sent, performed, command_history, sealing, block, chain, ended_with>>

-----------------------------------------------------------------------------
(* What the rest of the server does to the commands.                       *)

threadVars == <<submitted, thread, sent, performed, command_history>>

\* create_block copies the pool ...
CopyAudits ==
  /\ sealing = "no" /\ sealing' = "clear"
  /\ block' = pending_data
  /\ UNCHANGED <<threadVars, pending_data, chain, historyVars>>

\* ... and clears it, with whatever came in between.
ClearAudits ==
  /\ sealing = "clear" /\ sealing' = "append"
  /\ pending_data' = << >>
  /\ UNCHANGED <<threadVars, block, chain, historyVars>>

\* Mutant of AppendAudits: the block is not confirmed, and that is that.
DiscardAudits ==
  /\ sealing = "append" /\ sealing' = "no"
  /\ block' = << >>
  /\ UNCHANGED <<threadVars, pending_data, chain, historyVars>>

\* The block is confirmed by the server's own vote and appended.
AppendAudits ==
  /\ sealing = "append" /\ sealing' = "no"
  /\ chain' = chain \o block /\ block' = << >>
  /\ UNCHANGED <<threadVars, pending_data, historyVars>>

CommandsOf(records) == {r.command : r \in ToSet(records)}

UnderWay == {thread[t].record.command : t \in {u \in Threads : thread[u] # Idle}}

\* The process is stopped or crashes and is started again: only the chain is on
\* disk, and the threads of the web server are daemons that nobody waits for.
EndCommands ==
  /\ "end" \in Faults
  /\ thread' = [t \in Threads |-> Idle]
  /\ command_history' = << >>
  /\ pending_data' = << >> /\ sealing' = "no" /\ block' = << >>
  /\ ended_with' = ended_with \union UnderWay \union CommandsOf(pending_data \o block)
  /\ UNCHANGED <<submitted, sent, performed, chain, overrun>>

ThreadStep(t) == Succeed(t) \/ Fail(t) \/ Audit(t)

CommandStep ==
  \/ \E t \in Threads : Refuse(t) \/ Run(t) \/ ThreadStep(t)
  \/ \E c \in Commands : Perform(c) \/ Drop(c)

-----------------------------------------------------------------------------
(* Properties.                                                             *)

Records == [command : Commands, status : {"success", "failed", "rejected"}]

TypeOK ==
  /\ submitted \in 0..MaxCommands
  /\ \A t \in Threads :
       \/ thread[t] = Idle
       \/ thread[t].at = "running" /\ thread[t].record \in [command : Commands, status : {"running"}]
       \/ thread[t].at = "audit" /\ thread[t].record \in Records
  /\ sent \subseteq Commands /\ performed \subseteq Commands
  /\ ended_with \subseteq Commands /\ overrun \subseteq Commands
  /\ command_history \in Seq(Records)
  /\ pending_data \in Seq(Records) /\ chain \in Seq(Records)
  /\ sealing \in {"no", "clear", "append"} /\ block \in Seq(Records)

\* The audit trail: the chain, the block that has left the pool, and the pool.
Sealed == chain \o (IF sealing = "append" THEN block ELSE << >>)
Trail == Sealed \o pending_data

\* No command has two audit records, whoever ran at the same time, however far a
\* block is and however often the server was restarted.
AuditedOnce ==
  \A i, j \in DOMAIN Trail : Trail[i].command = Trail[j].command => i = j

\* What the audit trail calls a success, the device has carried out.
SuccessIsTrue ==
  \A r \in ToSet(Trail) : r.status = "success" => r.command \in performed

\* The history of the executor and the audit trail tell the same: each entry of
\* the history is on the trail with the same status, or its thread is about to put
\* it there, or it was put into the pool between the copy and the clearing. There
\* is no other way to lose an audit while the server runs.
HistoryIsAudited ==
  \A r \in ToSet(command_history) :
    \/ r \in ToSet(Trail)
    \/ \E t \in Threads : thread[t].at = "audit" /\ thread[t].record = r
    \/ r.command \in overrun

=============================================================================
