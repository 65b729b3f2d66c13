--------------------------- MODULE CollectionProofs ---------------------------
(***************************************************************************)
(* Proofs about Collection and the request threads of Commands that run    *)
(* beside it: for any number of threads, commands and devices, and any     *)
(* faults.                                                                 *)
(***************************************************************************)
EXTENDS Collection, SequenceTheorems, WellFoundedInduction, TLAPS

-----------------------------------------------------------------------------
(* Sequences and maxima.                                                   *)

\* What appending e makes of a sequence.
LEMMA AppendElements ==
  ASSUME NEW S, NEW s \in Seq(S), NEW e \in S
  PROVE  /\ Append(s, e) \in Seq(S)
         /\ Len(Append(s, e)) = Len(s) + 1 /\ Len(s) \in Nat
         /\ DOMAIN s = 1..Len(s) /\ DOMAIN Append(s, e) = 1..Len(s) + 1
         /\ \A i \in 1..Len(s) : Append(s, e)[i] = s[i]
         /\ Append(s, e)[Len(s) + 1] = e
         /\ ToSet(Append(s, e)) = ToSet(s) \union {e}
<1> DEFINE t == Append(s, e)
<1>1. /\ t \in Seq(S) /\ Len(t) = Len(s) + 1
      /\ \A i \in 1..Len(s) : t[i] = s[i]
      /\ t[Len(s) + 1] = e
  BY AppendProperties
<1>2. Len(s) \in Nat /\ DOMAIN s = 1..Len(s) /\ DOMAIN t = 1..Len(s) + 1
  BY <1>1, LenProperties
<1> HIDE DEF t
<1>3. 1..Len(s) + 1 = 1..Len(s) \union {Len(s) + 1}
  BY <1>2
<1>4. ToSet(t) = ToSet(s) \union {e}
  BY <1>1, <1>2, <1>3 DEF ToSet
<1> QED
  BY <1>1, <1>2, <1>4 DEF t

\* A set of positions of a sequence has a greatest one.
LEMMA MaxOfPositions ==
  ASSUME NEW n \in Nat, NEW S, S \subseteq 1..n, S # {}
  PROVE  Max(S) \in S /\ \A i \in S : Max(S) >= i
<1> DEFINE T == {n - i : i \in S}
<1>1. T \subseteq Nat /\ T # {}
  <2>1. \A i \in S : i \in Nat /\ n - i \in Nat
    OBVIOUS
  <2> QED
    BY <2>1
<1>2. PICK x \in T : \A y \in T : <<y, x>> \notin OpToRel(<, Nat)
  BY <1>1, NatLessThanWellFounded, WFMin
<1>3. \A y \in T : ~(y < x)
  BY <1>1, <1>2 DEF OpToRel
<1>4. PICK i \in S : x = n - i
  OBVIOUS
<1>5. \A j \in S : ~(n - j < n - i)
  BY <1>3, <1>4
<1>6. \A j \in S : i >= j
  <2>1. \A j \in S : j \in 1..n
    OBVIOUS
  <2> QED
    BY <1>5, <2>1
<1> QED
  BY <1>6 DEF Max

-----------------------------------------------------------------------------
(* The invariant.                                                          *)

ThreadStates ==
  {Idle} \union [at : {"running"}, record : [command : Commands, status : {"running"}]]
         \union [at : {"audit"}, record : Records]

\* TypeOK, with the threads as a function.
CommandTypes == thread \in [Threads -> ThreadStates] /\ TypeOK

\* Nobody handles, and nothing on the trail is about, a command still to come.
NoneToCome ==
  /\ \A t \in Threads : thread[t] # Idle => thread[t].record.command <= submitted
  /\ \A i \in DOMAIN Trail : Trail[i].command <= submitted

\* The thread has yet to put its command on the trail.
Unaudited(t) == thread[t].at \in {"running", "audit"}

\* A command that is to be put on the trail is not there already, and no other
\* thread is about to put it there as well.
ToBeAuditedOnce ==
  \A t \in Threads : Unaudited(t) =>
    /\ \A i \in DOMAIN Trail : Trail[i].command # thread[t].record.command
    /\ \A u \in Threads :
         Unaudited(u) /\ thread[u].record.command = thread[t].record.command => u = t

\* What a thread takes for a success, the device has carried out.
ThreadsAreTruthful ==
  \A t \in Threads :
    thread[t] # Idle /\ thread[t].record.status = "success" =>
      thread[t].record.command \in performed

\* Between the copy and the clearing the pool starts with the records of the block,
\* and what follows them came in between.
Copied ==
  sealing = "clear" =>
    /\ Len(block) <= Len(pending_data)
    /\ \A i \in 1..Len(block) : pending_data[i] = block[i]
    /\ \A i \in 1..Len(pending_data) :
         i \in 1..Len(block) \/ pending_data[i].command \in overrun

CommandsInv ==
  /\ CommandTypes /\ NoneToCome /\ ToBeAuditedOnce /\ AuditedOnce
  /\ ThreadsAreTruthful /\ SuccessIsTrue /\ HistoryIsAudited /\ Copied

PoolRecords == [type : {"FRU_HARDWARE"}, device : Devices, fru : Frus] \union {LocalRecord}

CollectionTypes ==
  /\ fru \in [Devices -> Frus]
  /\ last_fru_data \in [Devices -> Frus \union {NoFru}]
  /\ newest \in [Devices -> Frus \union {NoFru}]
  /\ collected \in Seq(PoolRecords)
  /\ cycle \in [at : {"devices", "seal"}, todo : SUBSET Devices]

\* A FRU that would be suppressed, because it was the one collected last, is the
\* newest one on record for its device: it is in the pool, in a block or on the chain, and
\* nothing newer is.
SuppressedIsOnRecord ==
  \A d \in Devices : last_fru_data[d] # NoFru => Latest(d) = last_fru_data[d]

CollectionInv == CollectionTypes /\ SuppressedIsOnRecord

IInv == CommandsInv /\ CollectionInv

-----------------------------------------------------------------------------
(* The request threads.                                                    *)

\* What a thread state may be.
LEMMA StateOf ==
  ASSUME NEW s \in ThreadStates
  PROVE  \/ s = Idle /\ s.at = "idle"
         \/ s # Idle /\ s.at = "running" /\ s.record \in [command : Commands, status : {"running"}]
         \/ s # Idle /\ s.at = "audit" /\ s.record \in Records
BY DEF ThreadStates, Idle

\* The types of a thread, as the steps below use them.
LEMMA ThreadTypes ==
  ASSUME CommandTypes, NEW t \in Threads
  PROVE  /\ thread[t] \in ThreadStates
         /\ thread[t] # Idle => thread[t].record.command \in Commands
         /\ Unaudited(t) => thread[t] # Idle
<1>1. thread[t] \in ThreadStates
  BY DEF CommandTypes
<1> QED
  BY <1>1, StateOf DEF Unaudited, Records

\* Setting the state of one thread.
LEMMA SetThread ==
  ASSUME CommandTypes, NEW t \in Threads, NEW s \in ThreadStates,
         thread' = [thread EXCEPT ![t] = s]
  PROVE  /\ thread' \in [Threads -> ThreadStates]
         /\ thread'[t] = s
         /\ \A u \in Threads : u # t => thread'[u] = thread[u]
BY DEF CommandTypes

\* TypeOK says no less of the threads than CommandTypes.
LEMMA TypesSuffice ==
  ASSUME thread' \in [Threads -> ThreadStates],
         submitted' \in 0..MaxCommands,
         sent' \subseteq Commands, performed' \subseteq Commands,
         ended_with' \subseteq Commands, overrun' \subseteq Commands,
         sealing' \in {"no", "clear", "append"}, block' \in Seq(Records),
         command_history' \in Seq(Records),
         pending_data' \in Seq(Records), chain' \in Seq(Records)
  PROVE  CommandTypes'
<1>1. ASSUME NEW t \in Threads
      PROVE  \/ thread'[t] = Idle
             \/ thread'[t].at = "running"
                /\ thread'[t].record \in [command : Commands, status : {"running"}]
             \/ thread'[t].at = "audit" /\ thread'[t].record \in Records
  <2>1. thread'[t] \in ThreadStates
    OBVIOUS
  <2> QED
    BY <2>1, StateOf
<1> QED
  BY <1>1 DEF CommandTypes, TypeOK

\* The trail as a sequence.
LEMMA TrailType ==
  ASSUME CommandTypes
  PROVE  /\ chain \in Seq(Records) /\ block \in Seq(Records) /\ pending_data \in Seq(Records)
         /\ Sealed \in Seq(Records)
         /\ Trail \in Seq(Records) /\ Len(Trail) \in Nat /\ DOMAIN Trail = 1..Len(Trail)
         /\ \A i \in DOMAIN Trail : Trail[i] \in Records
         /\ ToSet(Trail) = {Trail[i] : i \in DOMAIN Trail}
<1>1. chain \in Seq(Records) /\ block \in Seq(Records) /\ pending_data \in Seq(Records)
  BY DEF CommandTypes, TypeOK
<1>2. << >> \in Seq(Records)
  BY EmptySeq
<1>3. Sealed \in Seq(Records)
  BY <1>1, <1>2, ConcatProperties DEF Sealed
<1>4. Trail \in Seq(Records)
  BY <1>1, <1>3, ConcatProperties DEF Trail
<1> QED
  BY <1>1, <1>3, <1>4, LenProperties, ElementOfSeq DEF ToSet

\* A record that is added to the pool comes last on the trail.
LEMMA TrailAppend ==
  ASSUME CommandTypes, NEW r \in Records, UNCHANGED <<chain, sealing, block>>,
         pending_data' = Append(pending_data, r)
  PROVE  pending_data' \in Seq(Records) /\ Trail' = Append(Trail, r)
<1>1. Sealed \in Seq(Records) /\ pending_data \in Seq(Records) /\ <<r>> \in Seq(Records)
  BY TrailType
<1>2. Append(pending_data, r) = pending_data \o <<r>>
  BY <1>1, AppendIsConcat
<1>3. Sealed \o (pending_data \o <<r>>) = (Sealed \o pending_data) \o <<r>>
  BY <1>1, ConcatAssociative
<1>4. Append(Trail, r) = Trail \o <<r>>
  BY TrailType, AppendIsConcat
<1>5. Trail' = Sealed \o pending_data'
  BY DEF Trail, Sealed
<1> QED
  BY <1>1, <1>2, <1>3, <1>4, <1>5, AppendProperties DEF Trail

\* A step of a thread or the device that does not touch the pool.
LEMMA KeepLedger ==
  ASSUME CommandsInv, UNCHANGED <<ledgerVars, historyVars>>
  PROVE  /\ UNCHANGED <<pending_data, sealing, block, chain, ended_with, overrun>>
         /\ Trail' = Trail /\ Copied'
<1>1. UNCHANGED <<pending_data, sealing, block, chain, ended_with, overrun>>
  BY DEF ledgerVars, historyVars
<1>2. Trail' = Trail
  BY <1>1 DEF Trail, Sealed
<1>3. Copied'
  BY <1>1 DEF CommandsInv, Copied
<1> QED
  BY <1>1, <1>2, <1>3

\* The executor has returned: the entry of the history is about to be audited.
LEMMA ReturnHistory ==
  ASSUME CommandTypes, HistoryIsAudited, NEW t \in Threads, NEW r \in Records,
         thread[t].at # "audit", Return(t, r), Trail' = Trail, overrun' = overrun
  PROVE  command_history' \in Seq(Records) /\ HistoryIsAudited'
<1> DEFINE s == [at |-> "audit", record |-> r]
<1>1. s \in ThreadStates
  BY DEF ThreadStates
<1>2. command_history' = Append(command_history, r) /\ thread' = [thread EXCEPT ![t] = s]
  BY DEF Return
<1>3. thread'[t] = s /\ \A u \in Threads : u # t => thread'[u] = thread[u]
  BY <1>1, <1>2, SetThread
<1>4. command_history' \in Seq(Records) /\ ToSet(command_history') = ToSet(command_history) \union {r}
  BY <1>2, AppendElements DEF CommandTypes, TypeOK
<1>5. ASSUME NEW h \in ToSet(command_history')
      PROVE  \/ h \in ToSet(Trail')
             \/ \E u \in Threads : thread'[u].at = "audit" /\ thread'[u].record = h
             \/ h.command \in overrun
  <2>1. CASE h = r
    BY <1>3, <2>1
  <2>2. CASE h # r
    <3>1. \/ h \in ToSet(Trail)
          \/ \E u \in Threads : thread[u].at = "audit" /\ thread[u].record = h
          \/ h.command \in overrun
      BY <1>4, <2>2 DEF HistoryIsAudited
    <3> QED
      BY <1>3, <3>1
  <2> QED
    BY <2>1, <2>2
<1> QED
  BY <1>4, <1>5 DEF HistoryIsAudited

\* A thread takes up a command that is new to everyone.
LEMMA BeginCommand ==
  ASSUME CommandsInv, NEW t \in Threads, NEW s \in ThreadStates,
         thread[t] = Idle, submitted < MaxCommands, submitted' = submitted + 1,
         thread' = [thread EXCEPT ![t] = s], s # Idle,
         s.record.command = submitted + 1, s.record.status # "success",
         UNCHANGED <<pending_data, chain, sealing, block, performed>>
  PROVE  /\ submitted' \in 0..MaxCommands /\ Trail' = Trail
         /\ NoneToCome' /\ ToBeAuditedOnce' /\ AuditedOnce'
         /\ ThreadsAreTruthful' /\ SuccessIsTrue'
<1>1. CommandTypes /\ NoneToCome /\ ToBeAuditedOnce /\ AuditedOnce
      /\ ThreadsAreTruthful /\ SuccessIsTrue
  BY DEF CommandsInv
<1>2. thread'[t] = s /\ \A u \in Threads : u # t => thread'[u] = thread[u]
  BY <1>1, SetThread
<1>3. Trail' = Trail
  BY DEF Trail, Sealed
<1>4. submitted \in Nat /\ submitted' \in 0..MaxCommands
  BY <1>1, MaxCommandsAssumption DEF CommandTypes, TypeOK
<1>5. \A i \in DOMAIN Trail : Trail[i].command \in Int /\ Trail[i].command <= submitted
  BY <1>1, TrailType DEF NoneToCome, Records, Commands
<1>6. ASSUME NEW u \in Threads, u # t, thread[u] # Idle
      PROVE  thread[u].record.command \in Int /\ thread[u].record.command <= submitted
  BY <1>1, <1>6, ThreadTypes DEF NoneToCome, Commands
<1>7. NoneToCome'
  <2>1. ASSUME NEW u \in Threads, thread'[u] # Idle
        PROVE  thread'[u].record.command <= submitted'
    BY <1>2, <1>4, <1>6, <2>1
  <2>2. \A i \in DOMAIN Trail' : Trail'[i].command <= submitted'
    BY <1>3, <1>4, <1>5
  <2> QED
    BY <2>1, <2>2 DEF NoneToCome
<1>8. ToBeAuditedOnce'
  <2>1. ASSUME NEW u \in Threads, Unaudited(u)', NEW i \in DOMAIN Trail'
        PROVE  Trail'[i].command # thread'[u].record.command
    <3>1. CASE u = t
      BY <1>2, <1>3, <1>4, <1>5, <2>1, <3>1
    <3>2. CASE u # t
      BY <1>1, <1>2, <1>3, <2>1, <3>2 DEF ToBeAuditedOnce, Unaudited
    <3> QED
      BY <3>1, <3>2
  <2>2. ASSUME NEW u \in Threads, NEW v \in Threads, Unaudited(u)', Unaudited(v)',
               thread'[v].record.command = thread'[u].record.command
        PROVE  v = u
    <3>1. CASE u # t /\ v # t
      BY <1>1, <1>2, <2>2, <3>1 DEF ToBeAuditedOnce, Unaudited
    <3>2. ASSUME NEW w \in Threads, w # t, Unaudited(w)'
          PROVE  thread'[w].record.command # s.record.command
      <4>1. Unaudited(w) /\ thread'[w] = thread[w]
        BY <1>2, <3>2 DEF Unaudited
      <4> QED
        BY <1>1, <1>4, <1>6, <3>2, <4>1, ThreadTypes
    <3> QED
      BY <1>2, <2>2, <3>1, <3>2
  <2> QED
    BY <2>1, <2>2 DEF ToBeAuditedOnce
<1>9. ThreadsAreTruthful' /\ SuccessIsTrue' /\ AuditedOnce'
  BY <1>1, <1>2, <1>3 DEF ThreadsAreTruthful, SuccessIsTrue, AuditedOnce
<1> QED
  BY <1>3, <1>4, <1>7, <1>8, <1>9

LEMMA RefuseInv ==
  ASSUME CommandsInv, NEW t \in Threads, Refuse(t)
  PROVE  CommandsInv'
<1>1. CommandTypes /\ HistoryIsAudited
  BY DEF CommandsInv
<1> DEFINE r == Record(submitted + 1, "rejected")
           s == [at |-> "audit", record |-> r]
<1>2. /\ thread[t] = Idle /\ submitted < MaxCommands /\ submitted' = submitted + 1
      /\ Return(t, r) /\ thread' = [thread EXCEPT ![t] = s]
      /\ UNCHANGED <<sent, performed>> /\ UNCHANGED <<ledgerVars, historyVars>>
  BY DEF Refuse, Return
<1>11. /\ UNCHANGED <<pending_data, sealing, block, chain, ended_with, overrun>>
       /\ Trail' = Trail /\ Copied'
  BY <1>2, KeepLedger
<1>3. submitted + 1 \in Commands
  BY <1>1, <1>2, MaxCommandsAssumption DEF CommandTypes, TypeOK, Commands
<1>4. r \in Records
  BY <1>3 DEF Records, Record
<1>5. s \in ThreadStates
  BY <1>4 DEF ThreadStates
<1>6. s # Idle /\ s.record.command = submitted + 1 /\ s.record.status # "success"
  BY DEF Idle, Record
<1>7. /\ submitted' \in 0..MaxCommands /\ Trail' = Trail
      /\ NoneToCome' /\ ToBeAuditedOnce' /\ AuditedOnce'
      /\ ThreadsAreTruthful' /\ SuccessIsTrue'
  <2> HIDE DEF s
  <2> QED
    BY <1>2, <1>5, <1>6, <1>11, BeginCommand
<1>8. command_history' \in Seq(Records) /\ HistoryIsAudited'
  <2>1. thread[t].at # "audit"
    BY <1>2 DEF Idle
  <2> HIDE DEF r
  <2> QED
    BY <1>1, <1>2, <1>4, <1>7, <1>11, <2>1, ReturnHistory
<1>9. thread' \in [Threads -> ThreadStates]
  <2> HIDE DEF s
  <2> QED
    BY <1>1, <1>2, <1>5, SetThread
<1>10. CommandTypes'
  BY <1>1, <1>2, <1>7, <1>8, <1>9, <1>11, TypesSuffice DEF CommandTypes, TypeOK
<1> QED
  BY <1>7, <1>8, <1>10, <1>11 DEF CommandsInv

LEMMA RunInv ==
  ASSUME CommandsInv, NEW t \in Threads, Run(t)
  PROVE  CommandsInv'
<1>1. CommandTypes /\ HistoryIsAudited
  BY DEF CommandsInv
<1> DEFINE s == [at |-> "running", record |-> Record(submitted + 1, "running")]
<1>2. /\ thread[t] = Idle /\ submitted < MaxCommands /\ submitted' = submitted + 1
      /\ thread' = [thread EXCEPT ![t] = s] /\ sent' = sent \union {submitted + 1}
      /\ UNCHANGED <<performed, command_history>> /\ UNCHANGED <<ledgerVars, historyVars>>
  BY DEF Run
<1>10. /\ UNCHANGED <<pending_data, sealing, block, chain, ended_with, overrun>>
       /\ Trail' = Trail /\ Copied'
  BY <1>2, KeepLedger
<1>3. submitted + 1 \in Commands
  BY <1>1, <1>2, MaxCommandsAssumption DEF CommandTypes, TypeOK, Commands
<1>4. s \in ThreadStates
  BY <1>3 DEF ThreadStates, Record
<1>5. s # Idle /\ s.record.command = submitted + 1 /\ s.record.status # "success"
  BY DEF Idle, Record
<1> HIDE DEF s
<1>6. /\ submitted' \in 0..MaxCommands /\ Trail' = Trail
      /\ NoneToCome' /\ ToBeAuditedOnce' /\ AuditedOnce'
      /\ ThreadsAreTruthful' /\ SuccessIsTrue'
  BY <1>2, <1>4, <1>5, <1>10, BeginCommand
<1>7. thread' \in [Threads -> ThreadStates] /\ \A u \in Threads : u # t => thread'[u] = thread[u]
  BY <1>1, <1>2, <1>4, SetThread
<1>8. CommandTypes'
  BY <1>1, <1>2, <1>3, <1>6, <1>7, <1>10, TypesSuffice DEF CommandTypes, TypeOK
<1>9. HistoryIsAudited'
  BY <1>1, <1>2, <1>7, <1>10 DEF HistoryIsAudited, Idle
<1> QED
  BY <1>6, <1>8, <1>9, <1>10 DEF CommandsInv

\* What has been performed stays performed.
LEMMA DeviceInv ==
  ASSUME CommandsInv, NEW c \in Commands, Perform(c) \/ Drop(c)
  PROVE  CommandsInv'
<1>1. /\ UNCHANGED <<submitted, thread, command_history>>
      /\ UNCHANGED <<ledgerVars, historyVars>>
      /\ sent' \subseteq sent /\ performed \subseteq performed'
      /\ performed' \subseteq performed \union {c}
  BY DEF Perform, Drop
<1>2. /\ UNCHANGED <<pending_data, sealing, block, chain, ended_with, overrun>>
      /\ Trail' = Trail /\ Copied'
  BY <1>1, KeepLedger
<1>3. CommandTypes'
  BY <1>1, <1>2, TypesSuffice DEF CommandsInv, CommandTypes, TypeOK
<1>4. NoneToCome' /\ ToBeAuditedOnce' /\ AuditedOnce' /\ HistoryIsAudited'
  BY <1>1, <1>2 DEF CommandsInv, NoneToCome, ToBeAuditedOnce, Unaudited, AuditedOnce, HistoryIsAudited
<1>5. ThreadsAreTruthful' /\ SuccessIsTrue'
  BY <1>1, <1>2 DEF CommandsInv, ThreadsAreTruthful, SuccessIsTrue
<1> QED
  BY <1>2, <1>3, <1>4, <1>5 DEF CommandsInv

\* A thread that goes on with its command, without touching the trail, is as much
\* in need of an audit as before, or less.
LEMMA KeepCommand ==
  ASSUME CommandsInv, NEW t \in Threads, NEW s \in ThreadStates, thread[t] # Idle,
         thread' = [thread EXCEPT ![t] = s], s # Idle,
         s.record.command = thread[t].record.command,
         s.at \in {"running", "audit"} => Unaudited(t),
         s.record.status = "success" => s.record.command \in performed,
         Trail' = Trail, UNCHANGED <<submitted, performed>>
  PROVE  NoneToCome' /\ ToBeAuditedOnce' /\ AuditedOnce' /\ ThreadsAreTruthful' /\ SuccessIsTrue'
<1>1. CommandTypes /\ NoneToCome /\ ToBeAuditedOnce /\ AuditedOnce
      /\ ThreadsAreTruthful /\ SuccessIsTrue
  BY DEF CommandsInv
<1>2. thread'[t] = s /\ \A u \in Threads : u # t => thread'[u] = thread[u]
  BY <1>1, SetThread
<1>3. ASSUME NEW u \in Threads
      PROVE  /\ thread'[u] # Idle => /\ thread[u] # Idle
                                     /\ thread'[u].record.command = thread[u].record.command
             /\ Unaudited(u)' => Unaudited(u)
  BY <1>2 DEF Unaudited
<1>4. NoneToCome'
  BY <1>1, <1>3 DEF NoneToCome
<1>5. ASSUME NEW u \in Threads, Unaudited(u)' PROVE thread'[u] # Idle
  BY <1>5 DEF Unaudited, Idle
<1>6. ToBeAuditedOnce'
  BY <1>1, <1>3, <1>5 DEF ToBeAuditedOnce
<1>7. ThreadsAreTruthful' /\ AuditedOnce' /\ SuccessIsTrue'
  BY <1>1, <1>2 DEF ThreadsAreTruthful, AuditedOnce, SuccessIsTrue
<1> QED
  BY <1>4, <1>6, <1>7

\* The executor returns what it made of a command that was allowed.
LEMMA ReturnInv ==
  ASSUME CommandsInv, NEW t \in Threads, Succeed(t) \/ Fail(t)
  PROVE  CommandsInv'
<1>1. CommandTypes /\ HistoryIsAudited
  BY DEF CommandsInv
<1>2. PICK status \in {"success", "failed"} :
        /\ Return(t, [thread[t].record EXCEPT !.status = status])
        /\ status = "success" => thread[t].record.command \in performed
  BY DEF Succeed, Fail
<1>3. /\ thread[t].at = "running"
      /\ UNCHANGED <<submitted, sent, performed>> /\ UNCHANGED <<ledgerVars, historyVars>>
  BY DEF Succeed, Fail, Running
<1> DEFINE r == [thread[t].record EXCEPT !.status = status]
           s == [at |-> "audit", record |-> r]
<1>4. thread[t] # Idle /\ thread[t].record \in [command : Commands, status : {"running"}]
  BY <1>1, <1>3, ThreadTypes, StateOf
<1>5. r \in Records /\ r.command = thread[t].record.command /\ r.status = status
  BY <1>4 DEF Records
<1>6. Return(t, r)
  BY <1>2
<1> HIDE DEF r
<1>7. s \in ThreadStates /\ s # Idle /\ thread' = [thread EXCEPT ![t] = s]
  BY <1>5, <1>6 DEF ThreadStates, Return, Idle
<1>8. /\ UNCHANGED <<pending_data, sealing, block, chain, ended_with, overrun>>
      /\ Trail' = Trail /\ Copied'
  BY <1>3, KeepLedger
<1>9. s.record = r /\ Unaudited(t)
  BY <1>3 DEF Unaudited
<1> HIDE DEF s
<1>10. NoneToCome' /\ ToBeAuditedOnce' /\ AuditedOnce' /\ ThreadsAreTruthful' /\ SuccessIsTrue'
  BY <1>2, <1>3, <1>4, <1>5, <1>7, <1>8, <1>9, KeepCommand
<1>11. command_history' \in Seq(Records) /\ HistoryIsAudited'
  BY <1>1, <1>3, <1>5, <1>6, <1>8, ReturnHistory
<1>12. thread' \in [Threads -> ThreadStates]
  BY <1>1, <1>7, SetThread
<1>13. CommandTypes'
  BY <1>1, <1>3, <1>8, <1>11, <1>12, TypesSuffice DEF CommandTypes, TypeOK
<1> QED
  BY <1>8, <1>10, <1>11, <1>13 DEF CommandsInv

\* The record that gets on the trail is the only one about its command, and no
\* thread is left that would add another.
LEMMA AuditInv ==
  ASSUME CommandsInv, NEW t \in Threads, Audit(t)
  PROVE  CommandsInv'
<1>1. CommandTypes /\ NoneToCome /\ ToBeAuditedOnce /\ AuditedOnce
      /\ ThreadsAreTruthful /\ SuccessIsTrue /\ HistoryIsAudited /\ Copied
  BY DEF CommandsInv
<1>2. /\ thread[t].at = "audit" /\ thread' = [thread EXCEPT ![t] = Idle]
      /\ pending_data' = Append(pending_data, thread[t].record)
      /\ UNCHANGED <<submitted, sent, performed, command_history, sealing, block, chain, ended_with>>
  BY DEF Audit
<1> DEFINE r == thread[t].record
<1>3. thread[t] \in ThreadStates /\ thread[t] # Idle /\ r \in Records
  BY <1>1, <1>2, ThreadTypes, StateOf
<1>4. /\ overrun \subseteq overrun' /\ overrun' \subseteq overrun \union {r.command}
      /\ sealing = "clear" => r.command \in overrun'
  BY DEF Audit
<1>5. r.command \in Commands
  BY <1>3 DEF Records
<1>6. Idle \in ThreadStates
  BY DEF ThreadStates
<1> HIDE DEF r
<1>7. /\ thread' \in [Threads -> ThreadStates] /\ thread'[t] = Idle
      /\ \A u \in Threads : u # t => thread'[u] = thread[u]
  BY <1>1, <1>2, <1>6, SetThread
<1>8. pending_data' \in Seq(Records) /\ Trail' = Append(Trail, r)
  BY <1>1, <1>2, <1>3, TrailAppend DEF r
<1>9. /\ Len(Trail) \in Nat /\ DOMAIN Trail = 1..Len(Trail)
      /\ DOMAIN Trail' = 1..Len(Trail) + 1
      /\ \A i \in 1..Len(Trail) : Trail'[i] = Trail[i]
      /\ Trail'[Len(Trail) + 1] = r
      /\ ToSet(Trail') = ToSet(Trail) \union {r}
  BY <1>1, <1>3, <1>8, TrailType, AppendElements
<1>10. CommandTypes'
  BY <1>1, <1>2, <1>4, <1>5, <1>7, <1>8, TypesSuffice DEF CommandTypes, TypeOK
<1>11. Unaudited(t)
  BY <1>2 DEF Unaudited
<1>12. NoneToCome'
  <2>1. \A i \in DOMAIN Trail' : Trail'[i] = r \/ (i \in DOMAIN Trail /\ Trail'[i] = Trail[i])
    BY <1>9
  <2>2. r.command <= submitted
    BY <1>1, <1>3 DEF NoneToCome, r
  <2>3. \A u \in Threads : thread'[u] # Idle => thread'[u].record.command <= submitted
    BY <1>1, <1>7 DEF NoneToCome
  <2> QED
    BY <1>1, <1>2, <2>1, <2>2, <2>3 DEF NoneToCome
<1>13. ToBeAuditedOnce'
  <2> SUFFICES ASSUME NEW u \in Threads, Unaudited(u)'
               PROVE  /\ \A i \in DOMAIN Trail' : Trail'[i].command # thread'[u].record.command
                      /\ \A v \in Threads :
                           Unaudited(v)' /\ thread'[v].record.command = thread'[u].record.command
                             => v = u
    BY DEF ToBeAuditedOnce
  <2>1. \A v \in Threads : Unaudited(v)' => v # t /\ thread'[v] = thread[v] /\ Unaudited(v)
    BY <1>7 DEF Unaudited, Idle
  <2>2. r.command # thread[u].record.command
    BY <1>1, <1>11, <2>1 DEF ToBeAuditedOnce, r
  <2>3. \A i \in 1..Len(Trail) : Trail[i].command # thread[u].record.command
    BY <1>1, <1>9, <2>1 DEF ToBeAuditedOnce
  <2>4. \A i \in 1..Len(Trail) + 1 : i \in 1..Len(Trail) \/ i = Len(Trail) + 1
    BY <1>9
  <2> QED
    BY <1>1, <1>9, <2>1, <2>2, <2>3, <2>4 DEF ToBeAuditedOnce
<1>14. AuditedOnce'
  <2>1. \A i \in 1..Len(Trail) : Trail[i].command # r.command
    BY <1>1, <1>9, <1>11 DEF ToBeAuditedOnce, r
  <2>2. \A i \in 1..Len(Trail) + 1 : i \in 1..Len(Trail) \/ i = Len(Trail) + 1
    BY <1>9
  <2> QED
    BY <1>1, <1>9, <2>1, <2>2 DEF AuditedOnce
<1>15. ThreadsAreTruthful'
  BY <1>1, <1>2, <1>7 DEF ThreadsAreTruthful
<1>16. SuccessIsTrue'
  <2>1. r.status = "success" => r.command \in performed
    BY <1>1, <1>3 DEF ThreadsAreTruthful, r
  <2> QED
    BY <1>1, <1>2, <1>9, <2>1 DEF SuccessIsTrue
<1>17. HistoryIsAudited'
  <2>1. ASSUME NEW u \in Threads, thread[u].at = "audit"
        PROVE  thread[u].record \in ToSet(Trail') \/ (u # t /\ thread'[u] = thread[u])
    BY <1>7, <1>9 DEF r
  <2> QED
    BY <1>1, <1>2, <1>4, <1>9, <2>1 DEF HistoryIsAudited
<1>18. Copied'
  <2> SUFFICES ASSUME sealing = "clear" PROVE Copied'
    BY <1>2 DEF Copied
  <2> DEFINE n == Len(pending_data)
  <2>1. pending_data \in Seq(Records) /\ block \in Seq(Records)
    BY <1>1 DEF CommandTypes, TypeOK
  <2>2. /\ Len(block) <= n
        /\ \A i \in 1..Len(block) : pending_data[i] = block[i]
        /\ \A i \in 1..n : i \in 1..Len(block) \/ pending_data[i].command \in overrun
    BY <1>1 DEF Copied
  <2>3. /\ n \in Nat /\ Len(block) \in Nat /\ Len(pending_data') = n + 1
        /\ \A i \in 1..n : pending_data'[i] = pending_data[i]
        /\ pending_data'[n + 1] = r
    BY <1>2, <1>3, <2>1, AppendElements, LenProperties DEF r
  <2>4. block' = block /\ r.command \in overrun' /\ overrun \subseteq overrun'
    BY <1>2, <1>4
  <2> HIDE DEF n
  <2>5. Len(block) <= n + 1 /\ \A i \in 1..Len(block) : i \in 1..n
    BY <2>2, <2>3
  <2>6. \A i \in 1..n + 1 : i \in 1..n \/ i = n + 1
    BY <2>3
  <2> QED
    BY <2>2, <2>3, <2>4, <2>5, <2>6 DEF Copied
<1> QED
  BY <1>10, <1>12, <1>13, <1>14, <1>15, <1>16, <1>17, <1>18 DEF CommandsInv

\* The main thread leaves the threads alone: as long as the trail does not grow, the
\* invariant holds of what is left of it.
LEMMA Shorten ==
  ASSUME CommandsInv, NEW n \in Nat, n <= Len(Trail), DOMAIN Trail' = 1..n,
         \A i \in 1..n : Trail'[i] = Trail[i],
         UNCHANGED <<submitted, thread, performed>>
  PROVE  /\ NoneToCome' /\ ToBeAuditedOnce' /\ AuditedOnce'
         /\ ThreadsAreTruthful' /\ SuccessIsTrue'
<1>1. CommandTypes /\ NoneToCome /\ ToBeAuditedOnce /\ AuditedOnce
      /\ ThreadsAreTruthful /\ SuccessIsTrue
  BY DEF CommandsInv
<1>2. \A i \in DOMAIN Trail' : i \in DOMAIN Trail /\ Trail'[i] = Trail[i]
  BY <1>1, TrailType
<1>3. NoneToCome' /\ AuditedOnce'
  BY <1>1, <1>2 DEF NoneToCome, AuditedOnce
<1>4. ToBeAuditedOnce'
  BY <1>1, <1>2 DEF ToBeAuditedOnce, Unaudited
<1>5. ThreadsAreTruthful'
  BY <1>1 DEF ThreadsAreTruthful
<1>6. SuccessIsTrue'
  BY <1>1, <1>2 DEF SuccessIsTrue, ToSet
<1> QED
  BY <1>3, <1>4, <1>5, <1>6

\* The same trail serves as well.
LEMMA SameTrail ==
  ASSUME CommandsInv, Trail' = Trail,
         UNCHANGED <<submitted, thread, performed, command_history, overrun>>
  PROVE  /\ NoneToCome' /\ ToBeAuditedOnce' /\ AuditedOnce'
         /\ ThreadsAreTruthful' /\ SuccessIsTrue' /\ HistoryIsAudited'
BY DEF CommandsInv, NoneToCome, ToBeAuditedOnce, Unaudited, AuditedOnce,
       ThreadsAreTruthful, SuccessIsTrue, HistoryIsAudited

\* A block copies the pool: the trail stays what it was.
LEMMA CopyAuditsInv ==
  ASSUME CommandsInv, CopyAudits
  PROVE  CommandsInv'
<1>1. CommandTypes
  BY DEF CommandsInv
<1>2. /\ sealing = "no" /\ sealing' = "clear" /\ block' = pending_data
      /\ UNCHANGED <<submitted, thread, sent, performed, command_history, pending_data, chain,
                     ended_with, overrun>>
  BY DEF CopyAudits, threadVars, historyVars
<1>3. Trail' = Trail
  BY <1>2 DEF Trail, Sealed
<1>4. CommandTypes'
  BY <1>1, <1>2, TypesSuffice DEF CommandTypes, TypeOK
<1>5. Copied'
  <2>1. Len(pending_data) \in Nat
    BY <1>1, LenProperties DEF CommandTypes, TypeOK
  <2> QED
    BY <1>2, <2>1 DEF Copied
<1> QED
  BY <1>2, <1>3, <1>4, <1>5, SameTrail DEF CommandsInv

\* The pool is cleared: the trail keeps what is in the block, and what it loses is
\* known to have come too late.
LEMMA ClearAuditsInv ==
  ASSUME CommandsInv, ClearAudits
  PROVE  CommandsInv'
<1>1. CommandTypes /\ HistoryIsAudited /\ Copied
  BY DEF CommandsInv
<1>2. /\ sealing = "clear" /\ sealing' = "append" /\ pending_data' = << >>
      /\ UNCHANGED <<submitted, thread, sent, performed, command_history, block, chain,
                     ended_with, overrun>>
  BY DEF ClearAudits, threadVars, historyVars
<1>3. /\ chain \in Seq(Records) /\ block \in Seq(Records) /\ pending_data \in Seq(Records)
      /\ << >> \in Seq(Records) /\ chain \o block \in Seq(Records)
  BY <1>1, TrailType, EmptySeq, ConcatProperties
<1>4. Trail = chain \o pending_data /\ Trail' = chain \o block
  <2>1. Sealed = chain \o << >> /\ Sealed' = chain \o block
    BY <1>2 DEF Sealed
  <2>2. Trail = Sealed \o pending_data /\ Trail' = Sealed' \o << >>
    BY <1>2 DEF Trail
  <2> QED
    BY <1>3, <2>1, <2>2, ConcatEmptySeq
<1> DEFINE n == Len(chain)
           m == Len(block)
<1>5. /\ n \in Nat /\ m \in Nat /\ Len(pending_data) \in Nat
      /\ Len(Trail) = n + Len(pending_data) /\ DOMAIN Trail = 1..Len(Trail)
      /\ \A i \in 1..n + Len(pending_data) :
           Trail[i] = IF i <= n THEN chain[i] ELSE pending_data[i - n]
      /\ DOMAIN Trail' = 1..n + m
      /\ \A i \in 1..n + m : Trail'[i] = IF i <= n THEN chain[i] ELSE block[i - n]
  <2>1. n \in Nat /\ m \in Nat /\ Len(pending_data) \in Nat
    BY <1>3, LenProperties
  <2>2. /\ Len(Trail) = n + Len(pending_data)
        /\ \A i \in 1..n + Len(pending_data) :
             Trail[i] = IF i <= n THEN chain[i] ELSE pending_data[i - n]
    BY <1>3, <1>4, ConcatProperties
  <2>3. /\ Len(chain \o block) = n + m
        /\ \A i \in 1..n + m : Trail'[i] = IF i <= n THEN chain[i] ELSE block[i - n]
    BY <1>3, <1>4, ConcatProperties
  <2>4. DOMAIN Trail' = 1..Len(chain \o block) /\ DOMAIN Trail = 1..Len(Trail)
    BY <1>1, <1>3, <1>4, LenProperties, TrailType
  <2> QED
    BY <2>1, <2>2, <2>3, <2>4
<1>6. /\ m <= Len(pending_data) /\ \A i \in 1..m : pending_data[i] = block[i]
      /\ \A i \in 1..Len(pending_data) : i \in 1..m \/ pending_data[i].command \in overrun
  BY <1>1, <1>2 DEF Copied
<1> HIDE DEF n, m
<1>7. n + m \in Nat /\ n + m <= Len(Trail)
  BY <1>5, <1>6
<1>8. ASSUME NEW i \in 1..n + m PROVE Trail'[i] = Trail[i]
  <2>1. i \in 1..n + Len(pending_data) /\ (~(i <= n) => i - n \in 1..m)
    BY <1>5, <1>6
  <2> QED
    BY <1>5, <1>6, <2>1
<1>9. /\ NoneToCome' /\ ToBeAuditedOnce' /\ AuditedOnce'
      /\ ThreadsAreTruthful' /\ SuccessIsTrue'
  BY <1>2, <1>5, <1>7, <1>8, Shorten
<1>10. ASSUME NEW i \in DOMAIN Trail
       PROVE  Trail[i] \in ToSet(Trail') \/ Trail[i].command \in overrun
  <2>1. CASE i \in 1..n + m
    BY <1>5, <1>8, <2>1 DEF ToSet
  <2>2. CASE i \notin 1..n + m
    <3>1. ~(i <= n) /\ i - n \in 1..Len(pending_data) /\ i - n \notin 1..m
      BY <1>5, <2>2
    <3> QED
      BY <1>5, <1>6, <3>1
  <2> QED
    BY <2>1, <2>2
<1>11. HistoryIsAudited'
  <2>1. ToSet(Trail) = {Trail[i] : i \in DOMAIN Trail}
    BY <1>1, TrailType
  <2> QED
    BY <1>1, <1>2, <1>10, <2>1 DEF HistoryIsAudited
<1>12. CommandTypes' /\ Copied'
  BY <1>1, <1>2, <1>3, TypesSuffice DEF CommandTypes, TypeOK, Copied
<1> QED
  BY <1>9, <1>11, <1>12 DEF CommandsInv

\* The block gets onto the chain: the trail stays what it was.
LEMMA AppendAuditsInv ==
  ASSUME CommandsInv, AppendAudits
  PROVE  CommandsInv'
<1>1. CommandTypes
  BY DEF CommandsInv
<1>2. /\ sealing = "append" /\ sealing' = "no" /\ chain' = chain \o block /\ block' = << >>
      /\ UNCHANGED <<submitted, thread, sent, performed, command_history, pending_data,
                     ended_with, overrun>>
  BY DEF AppendAudits, threadVars, historyVars
<1>3. chain' \in Seq(Records) /\ block' \in Seq(Records)
  BY <1>1, <1>2, TrailType, EmptySeq, ConcatProperties
<1>4. Trail' = Trail
  <2>1. Sealed = chain' /\ Sealed' = chain' \o << >>
    BY <1>2 DEF Sealed
  <2>2. Sealed' = Sealed
    BY <1>3, <2>1, ConcatEmptySeq
  <2> QED
    BY <1>2, <2>2 DEF Trail
<1>5. CommandTypes' /\ Copied'
  BY <1>1, <1>2, <1>3, TypesSuffice DEF CommandTypes, TypeOK, Copied
<1> QED
  BY <1>2, <1>4, <1>5, SameTrail DEF CommandsInv

\* At an end the trail shrinks to what is on the chain, which is the beginning of
\* it; no thread is left, and the history is empty.
LEMMA EndCommandsInv ==
  ASSUME CommandsInv, EndCommands
  PROVE  CommandsInv'
<1>1. CommandTypes /\ NoneToCome /\ AuditedOnce /\ SuccessIsTrue
  BY DEF CommandsInv
<1>2. /\ thread' = [t \in Threads |-> Idle] /\ command_history' = << >> /\ pending_data' = << >>
      /\ sealing' = "no" /\ block' = << >>
      /\ ended_with' = ended_with \union UnderWay \union CommandsOf(pending_data \o block)
      /\ UNCHANGED <<submitted, sent, performed, chain, overrun>>
  BY DEF EndCommands
<1> DEFINE lost == IF sealing = "append" THEN block ELSE << >>
<1>3. /\ chain \in Seq(Records) /\ pending_data \in Seq(Records) /\ block \in Seq(Records)
      /\ << >> \in Seq(Records) /\ lost \in Seq(Records)
  BY <1>1, EmptySeq DEF CommandTypes, TypeOK
<1>4. Trail' = chain
  <2>1. Trail' = (chain \o << >>) \o << >>
    BY <1>2 DEF Trail, Sealed
  <2> QED
    BY <1>3, <2>1, ConcatEmptySeq
<1>5. Trail = chain \o (lost \o pending_data) /\ lost \o pending_data \in Seq(Records)
  <2>1. Trail = (chain \o lost) \o pending_data
    BY DEF Trail, Sealed
  <2>2. chain \in Seq(Records) /\ lost \in Seq(Records) /\ pending_data \in Seq(Records)
    BY <1>3
  <2> HIDE DEF lost
  <2>3. (chain \o lost) \o pending_data = chain \o (lost \o pending_data)
    BY <2>2, ConcatAssociative
  <2>4. lost \o pending_data \in Seq(Records)
    BY <2>2, ConcatProperties
  <2> QED
    BY <2>1, <2>3, <2>4
<1> DEFINE rest == lost \o pending_data
<1>6. /\ Len(chain) \in Nat /\ Len(chain) <= Len(Trail)
      /\ DOMAIN chain = 1..Len(chain) /\ DOMAIN Trail = 1..Len(Trail)
      /\ \A i \in 1..Len(chain) : i \in 1..Len(Trail) /\ Trail[i] = chain[i]
  <2>1. rest \in Seq(Records) /\ Trail = chain \o rest
    BY <1>5
  <2> HIDE DEF rest
  <2>2. /\ Len(Trail) = Len(chain) + Len(rest)
        /\ \A i \in 1..Len(chain) + Len(rest) :
             Trail[i] = IF i <= Len(chain) THEN chain[i] ELSE rest[i - Len(chain)]
    BY <1>3, <2>1, ConcatProperties
  <2>3. Len(chain) \in Nat /\ Len(rest) \in Nat /\ DOMAIN chain = 1..Len(chain)
    BY <1>3, <2>1, LenProperties
  <2>4. DOMAIN Trail = 1..Len(Trail)
    BY <1>1, TrailType
  <2>5. \A i \in 1..Len(chain) : i \in 1..Len(chain) + Len(rest) /\ i <= Len(chain)
    BY <2>3
  <2> QED
    BY <2>2, <2>3, <2>4, <2>5
<1>7. UnderWay \subseteq Commands
  BY <1>1, ThreadTypes DEF UnderWay
<1>8. CommandsOf(pending_data \o block) \subseteq Commands
  <2> DEFINE records == pending_data \o block
  <2>1. records \in Seq(Records)
    BY <1>3, ConcatProperties
  <2> HIDE DEF records
  <2>2. \A i \in DOMAIN records : records[i] \in Records
    BY <2>1, LenProperties, ElementOfSeq
  <2>3. CommandsOf(records) \subseteq Commands
    BY <2>2 DEF CommandsOf, ToSet, Records
  <2> QED
    BY <2>3 DEF records
<1>9. thread' \in [Threads -> ThreadStates] /\ \A u \in Threads : thread'[u] = Idle
  BY <1>2 DEF ThreadStates
<1>10. CommandTypes' /\ Copied'
  <2>1. ended_with' \subseteq Commands
    BY <1>1, <1>2, <1>7, <1>8 DEF CommandTypes, TypeOK
  <2> QED
    BY <1>1, <1>2, <1>3, <1>9, <2>1, TypesSuffice DEF CommandTypes, TypeOK, Copied
<1>11. NoneToCome' /\ AuditedOnce'
  BY <1>1, <1>2, <1>4, <1>6, <1>9 DEF NoneToCome, AuditedOnce
<1>12. ToBeAuditedOnce' /\ ThreadsAreTruthful'
  BY <1>9 DEF ToBeAuditedOnce, ThreadsAreTruthful, Unaudited, Idle
<1>13. SuccessIsTrue'
  BY <1>1, <1>2, <1>4, <1>6 DEF SuccessIsTrue, ToSet
<1>14. HistoryIsAudited'
  BY <1>2 DEF HistoryIsAudited, ToSet
<1> QED
  BY <1>10, <1>11, <1>12, <1>13, <1>14 DEF CommandsInv

LEMMA CommandsStutter ==
  ASSUME CommandsInv, UNCHANGED vars
  PROVE  CommandsInv'
<1>1. /\ UNCHANGED <<submitted, thread, sent, performed, command_history>>
      /\ UNCHANGED <<ledgerVars, historyVars>>
  BY DEF vars
<1>2. /\ UNCHANGED <<pending_data, sealing, block, chain, ended_with, overrun>>
      /\ Trail' = Trail /\ Copied'
  BY <1>1, KeepLedger
<1>3. CommandTypes'
  BY <1>1, <1>2 DEF CommandsInv, CommandTypes, TypeOK
<1> QED
  BY <1>1, <1>2, <1>3, SameTrail DEF CommandsInv

-----------------------------------------------------------------------------
(* The main thread.                                                        *)

\* An empty pool holds no FRU.
LEMMA LatestOfEmpty ==
  ASSUME NEW d \in Devices, collected' = << >>
  PROVE  Latest(d)' = newest'[d]
<1>1. FrusOf(d, collected') = {}
  BY DEF FrusOf
<1> QED
  BY <1>1 DEF Latest

\* The newest FRU of a device is one of it, or there is none.
LEMMA LatestType ==
  ASSUME CollectionTypes, NEW d \in Devices
  PROVE  Latest(d) \in Frus \union {NoFru}
<1> DEFINE F == FrusOf(d, collected)
<1>1. newest[d] \in Frus \union {NoFru} /\ collected \in Seq(PoolRecords)
  BY DEF CollectionTypes
<1>2. CASE F = {}
  BY <1>1, <1>2 DEF Latest
<1>3. CASE F # {}
  <2>1. Len(collected) \in Nat /\ DOMAIN collected = 1..Len(collected)
    BY <1>1, LenProperties
  <2>2. Max(F) \in F
    BY <1>3, <2>1, MaxOfPositions DEF FrusOf
  <2>3. Max(F) \in 1..Len(collected) /\ collected[Max(F)].type = "FRU_HARDWARE"
    BY <2>1, <2>2 DEF FrusOf
  <2>4. collected[Max(F)] \in PoolRecords
    BY <1>1, <2>3, ElementOfSeq
  <2>5. collected[Max(F)].fru \in Frus
    BY <2>3, <2>4 DEF PoolRecords, LocalRecord
  <2> QED
    BY <1>3, <2>5 DEF Latest
<1> QED
  BY <1>2, <1>3

\* A record at the end of the pool is the newest of its device, and leaves the
\* others as they are.
LEMMA LatestAppend ==
  ASSUME CollectionTypes, NEW d \in Devices, NEW r \in PoolRecords,
         collected' = Append(collected, r), newest' = newest
  PROVE  Latest(d)' = IF r.type = "FRU_HARDWARE" /\ r.device = d THEN r.fru ELSE Latest(d)
<1> DEFINE F == FrusOf(d, collected)
           G == FrusOf(d, collected')
           n == Len(collected)
<1>1. collected \in Seq(PoolRecords)
  BY DEF CollectionTypes
<1>2. /\ n \in Nat /\ DOMAIN collected = 1..n /\ DOMAIN collected' = 1..n + 1
      /\ \A i \in 1..n : collected'[i] = collected[i]
      /\ collected'[n + 1] = r
  BY <1>1, AppendElements
<1>3. F \subseteq 1..n
  BY <1>2 DEF FrusOf
<1>4. \A i \in 1..n + 1 : i \in 1..n \/ i = n + 1
  BY <1>2
<1>5. n + 1 \in 1..n + 1 /\ \A i \in 1..n : i \in 1..n + 1
  BY <1>2
<1>6. CASE r.type = "FRU_HARDWARE" /\ r.device = d
  <2>1. G \subseteq 1..n + 1 /\ n + 1 \in G
    BY <1>2, <1>5, <1>6 DEF FrusOf
  <2>2. Max(G) \in 1..n + 1 /\ Max(G) >= n + 1
    BY <1>2, <2>1, MaxOfPositions
  <2>3. Max(G) = n + 1
    BY <1>2, <2>2
  <2> HIDE DEF n
  <2>4. Latest(d)' = collected'[Max(G)].fru
    BY <2>1 DEF Latest
  <2> QED
    BY <1>2, <1>6, <2>3, <2>4
<1>7. CASE ~(r.type = "FRU_HARDWARE" /\ r.device = d)
  <2>1. G = F
    BY <1>2, <1>4, <1>5, <1>7 DEF FrusOf
  <2>2. CASE F = {}
    BY <1>7, <2>1, <2>2 DEF Latest
  <2>3. CASE F # {}
    <3>1. Max(F) \in 1..n
      BY <1>2, <1>3, <2>3, MaxOfPositions
    <3>2. Latest(d)' = collected'[Max(F)].fru /\ Latest(d) = collected[Max(F)].fru
      BY <2>1, <2>3 DEF Latest
    <3> QED
      BY <1>2, <1>7, <3>1, <3>2
  <2> QED
    BY <2>2, <2>3
<1> QED
  BY <1>6, <1>7

\* Recording a FRU that is new, or nothing, keeps record and table in step.
LEMMA CollectInv ==
  ASSUME CollectionInv, NEW d \in Devices, CollectDevice(d)
  PROVE  CollectionInv' /\ UNCHANGED vars
<1>1. CollectionTypes /\ SuppressedIsOnRecord
  BY DEF CollectionInv
<1>2. PICK f \in CollectFruInfo(d) : Collect(d, f)
  BY DEF CollectDevice
<1>3. f \in Frus \union {NoFru}
  BY <1>1 DEF CollectFruInfo, CollectionTypes
<1>4. /\ cycle' = [cycle EXCEPT !.todo = @ \ {d}] /\ UNCHANGED <<vars, fru, newest>>
      /\ UNCHANGED vars
  BY <1>2 DEF Collect
<1>5. cycle' \in [at : {"devices", "seal"}, todo : SUBSET Devices]
  <2>1. cycle.todo \ {d} \in SUBSET Devices
    BY <1>1 DEF CollectionTypes
  <2> QED
    BY <1>1, <1>4, <2>1 DEF CollectionTypes
<1>6. CASE f # NoFru /\ IsFruChanged(d, f)
  <2> DEFINE r == FruRecord(d, f)
  <2>1. /\ last_fru_data' = [last_fru_data EXCEPT ![d] = f]
        /\ collected' = Append(collected, r)
    BY <1>2, <1>6 DEF Collect
  <2>2. f \in Frus
    BY <1>3, <1>6
  <2>3. r \in PoolRecords /\ r.type = "FRU_HARDWARE" /\ r.device = d /\ r.fru = f
    BY <2>2 DEF PoolRecords, FruRecord
  <2> HIDE DEF r
  <2>4. collected' \in Seq(PoolRecords)
    BY <1>1, <2>1, <2>3, AppendElements DEF CollectionTypes
  <2>5. last_fru_data' \in [Devices -> Frus \union {NoFru}]
    BY <1>1, <2>1, <2>2 DEF CollectionTypes
  <2>6. ASSUME NEW e \in Devices, last_fru_data'[e] # NoFru
        PROVE  Latest(e)' = last_fru_data'[e]
    <3>1. Latest(e)' = IF d = e THEN f ELSE Latest(e)
      BY <1>1, <1>4, <2>1, <2>3, LatestAppend
    <3> QED
      BY <1>1, <2>1, <2>6, <3>1 DEF SuppressedIsOnRecord, CollectionTypes
  <2> QED
    BY <1>1, <1>4, <1>5, <2>4, <2>5, <2>6 DEF CollectionInv, CollectionTypes, SuppressedIsOnRecord
<1>7. CASE ~(f # NoFru /\ IsFruChanged(d, f))
  <2>1. UNCHANGED <<last_fru_data, collected>>
    BY <1>2, <1>7 DEF Collect
  <2> QED
    BY <1>1, <1>4, <1>5, <2>1 DEF CollectionInv, CollectionTypes, SuppressedIsOnRecord, Latest
<1> QED
  BY <1>4, <1>6, <1>7

LEMMA CollectLocalInv ==
  ASSUME CollectionInv, CollectLocal
  PROVE  CollectionInv' /\ UNCHANGED vars
<1>1. CollectionTypes /\ SuppressedIsOnRecord
  BY DEF CollectionInv
<1>2. /\ collected' = Append(collected, LocalRecord)
      /\ cycle' = [cycle EXCEPT !.at = "seal"]
      /\ UNCHANGED <<vars, fru, last_fru_data, newest>> /\ UNCHANGED vars
  BY DEF CollectLocal
<1>3. LocalRecord \in PoolRecords /\ LocalRecord.type # "FRU_HARDWARE"
  BY DEF PoolRecords, LocalRecord
<1>4. collected' \in Seq(PoolRecords)
  BY <1>1, <1>2, <1>3, AppendElements DEF CollectionTypes
<1>5. \A e \in Devices : Latest(e)' = Latest(e)
  BY <1>1, <1>2, <1>3, LatestAppend
<1>6. cycle' \in [at : {"devices", "seal"}, todo : SUBSET Devices]
  BY <1>1, <1>2 DEF CollectionTypes
<1> QED
  BY <1>1, <1>2, <1>4, <1>5, <1>6 DEF CollectionInv, CollectionTypes, SuppressedIsOnRecord

\* What was newest in the pool is newest on the chain.
LEMMA AddBlockInv ==
  ASSUME CollectionInv, AddBlock
  PROVE  CollectionInv' /\ AppendAudits
<1>1. CollectionTypes /\ SuppressedIsOnRecord
  BY DEF CollectionInv
<1>2. /\ newest' = [d \in Devices |-> Latest(d)]
      /\ collected' = << >> /\ cycle' = NewRound /\ AppendAudits
      /\ UNCHANGED <<fru, last_fru_data>>
  BY DEF AddBlock
<1>3. newest' \in [Devices -> Frus \union {NoFru}]
  BY <1>1, <1>2, LatestType
<1>4. \A d \in Devices : Latest(d)' = Latest(d)
  BY <1>2, LatestOfEmpty
<1>5. collected' \in Seq(PoolRecords)
  BY <1>2, EmptySeq
<1> QED
  BY <1>1, <1>2, <1>3, <1>4, <1>5
  DEF CollectionInv, CollectionTypes, SuppressedIsOnRecord, NewRound

\* The table is gone together with the pool.
LEMMA EndInv ==
  ASSUME CollectionInv, End
  PROVE  CollectionInv' /\ EndCommands
<1>1. /\ EndCommands /\ last_fru_data' = [d \in Devices |-> NoFru]
      /\ cycle' = NewRound /\ collected' = << >> /\ UNCHANGED <<fru, newest>>
  BY DEF End
<1>2. collected' \in Seq(PoolRecords)
  BY <1>1, EmptySeq
<1> QED
  BY <1>1, <1>2 DEF CollectionInv, CollectionTypes, SuppressedIsOnRecord, NewRound

LEMMA ReplaceFruInv ==
  ASSUME CollectionInv, NEW d \in Devices, ReplaceFru(d)
  PROVE  CollectionInv' /\ UNCHANGED vars
<1>1. PICK f \in Frus : fru' = [fru EXCEPT ![d] = f]
  BY DEF ReplaceFru
<1>2. UNCHANGED <<vars, last_fru_data, cycle, collected, newest>> /\ UNCHANGED vars
  BY DEF ReplaceFru
<1>3. fru' \in [Devices -> Frus]
  BY <1>1 DEF CollectionInv, CollectionTypes
<1> QED
  BY <1>2, <1>3 DEF CollectionInv, CollectionTypes, SuppressedIsOnRecord, Latest

LEMMA CollectionStutter ==
  ASSUME CollectionInv, UNCHANGED collectionVars
  PROVE  CollectionInv'
BY DEF collectionVars, CollectionInv, CollectionTypes, SuppressedIsOnRecord, Latest

-----------------------------------------------------------------------------
(* The server.                                                             *)

LEMMA InitIInv == ServerInit => IInv
<1> SUFFICES ASSUME ServerInit PROVE IInv
  OBVIOUS
<1>1. /\ submitted = 0 /\ thread = [t \in Threads |-> Idle]
      /\ sent = {} /\ performed = {} /\ ended_with = {} /\ overrun = {}
      /\ command_history = << >> /\ pending_data = << >> /\ chain = << >>
      /\ sealing = "no" /\ block = << >>
  BY DEF ServerInit, Init
<1>2. << >> \in Seq(Records)
  BY EmptySeq
<1>3. Trail = << >> /\ Copied
  BY <1>1, <1>2, ConcatEmptySeq DEF Trail, Sealed, Copied
<1>4. thread \in [Threads -> ThreadStates]
  BY <1>1 DEF ThreadStates
<1>5. CommandTypes
  BY <1>1, <1>2, <1>4, MaxCommandsAssumption DEF CommandTypes, TypeOK
<1>6. NoneToCome /\ ToBeAuditedOnce /\ AuditedOnce /\ ThreadsAreTruthful
  BY <1>1, <1>3 DEF NoneToCome, ToBeAuditedOnce, Unaudited, AuditedOnce, ThreadsAreTruthful, Idle
<1>7. SuccessIsTrue /\ HistoryIsAudited
  BY <1>1, <1>3 DEF SuccessIsTrue, HistoryIsAudited, ToSet
<1>8. CollectionTypes
  <2>1. collected \in Seq(PoolRecords)
    BY EmptySeq DEF ServerInit
  <2> QED
    BY <2>1 DEF ServerInit, CollectionTypes, NewRound
<1>9. SuppressedIsOnRecord
  BY DEF ServerInit, SuppressedIsOnRecord
<1> QED
  BY <1>3, <1>5, <1>6, <1>7, <1>8, <1>9 DEF IInv, CommandsInv, CollectionInv

LEMMA StepIInv == IInv /\ [Next]_serverVars => IInv'
<1> SUFFICES ASSUME IInv, [Next]_serverVars PROVE IInv'
  OBVIOUS
<1>1. CommandsInv /\ CollectionInv
  BY DEF IInv
<1>2. CASE CommandStep /\ UNCHANGED collectionVars
  <2>1. CollectionInv'
    BY <1>1, <1>2, CollectionStutter
  <2>2. ASSUME NEW t \in Threads, Refuse(t) \/ Run(t) \/ ThreadStep(t)
        PROVE  CommandsInv'
    BY <1>1, <2>2, RefuseInv, RunInv, ReturnInv, AuditInv DEF ThreadStep
  <2>3. ASSUME NEW c \in Commands, Perform(c) \/ Drop(c)
        PROVE  CommandsInv'
    BY <1>1, <2>3, DeviceInv
  <2> QED
    BY <1>2, <2>1, <2>2, <2>3 DEF CommandStep, IInv
<1>3. ASSUME NEW d \in Devices, CollectDevice(d) \/ ReplaceFru(d)
      PROVE  IInv'
  BY <1>1, <1>3, CollectInv, ReplaceFruInv, CommandsStutter DEF IInv
<1>4. CASE CollectLocal
  BY <1>1, <1>4, CollectLocalInv, CommandsStutter DEF IInv
<1>5. CASE CreateBlock
  <2>1. (CopyAudits \/ ClearAudits) /\ UNCHANGED collectionVars
    BY <1>5 DEF CreateBlock
  <2> QED
    BY <1>1, <2>1, CollectionStutter, CopyAuditsInv, ClearAuditsInv DEF IInv
<1>8. CASE AddBlock
  BY <1>1, <1>8, AddBlockInv, AppendAuditsInv DEF IInv
<1>6. CASE End
  BY <1>1, <1>6, EndInv, EndCommandsInv DEF IInv
<1>7. CASE UNCHANGED serverVars
  BY <1>1, <1>7, CollectionStutter, CommandsStutter DEF IInv, serverVars
<1> QED
  BY <1>2, <1>3, <1>4, <1>5, <1>6, <1>7, <1>8 DEF Next, MainStep

LEMMA Invariance == Spec => []IInv
BY InitIInv, StepIInv, PTL DEF Spec

\* Every reachable state of the server is well typed: in particular what the
\* executor returned has never the status of a command that still runs.
THEOREM TypeCorrect == Spec => []CollectionTypeOK
<1>1. IInv => CollectionTypeOK
  <2> SUFFICES ASSUME IInv PROVE CollectionTypeOK
    OBVIOUS
  <2>1. CollectionTypes /\ TypeOK
    BY DEF IInv, CommandsInv, CommandTypes, CollectionInv
  <2>2. \A i \in DOMAIN collected : collected[i] \in PoolRecords
    BY <2>1, LenProperties, ElementOfSeq DEF CollectionTypes
  <2>3. \A r \in ToSet(collected) : r.device \in Devices \union {Local}
    BY <2>2 DEF ToSet, PoolRecords, LocalRecord
  <2> QED
    BY <2>1, <2>3 DEF CollectionTypeOK, CollectionTypes
<1> QED
  BY <1>1, Invariance, PTL

\* For any number of request threads: however their executions, their audits, the
\* main thread's blocks and the ends of the process interleave, no command is
\* audited twice.
THEOREM CommandsAuditedOnce == Spec => []AuditedOnce
<1>1. IInv => AuditedOnce
  BY DEF IInv, CommandsInv
<1> QED
  BY <1>1, Invariance, PTL

\* The audit trail calls nothing a success that the device has not done, whatever
\* the device does with commands that ran into the timeout.
THEOREM AuditedSuccessIsTrue == Spec => []SuccessIsTrue
<1>1. IInv => SuccessIsTrue
  BY DEF IInv, CommandsInv
<1> QED
  BY <1>1, Invariance, PTL

\* For any number of threads, with the copy of the pool, its clearing and the
\* appending of the block as separate steps between theirs: each entry of the
\* history is on the trail, or its thread is about to put it there, or it was put
\* into the pool between the copy and the clearing.
THEOREM HistoryReachesTrail == Spec => []HistoryIsAudited
<1>1. IInv => HistoryIsAudited
  BY DEF IInv, CommandsInv
<1> QED
  BY <1>1, Invariance, PTL

\* Whatever a device answers and wherever the process ends: a FRU that the server
\* would not record again is the newest one it has on record for the device.
THEOREM SuppressedFruIsOnRecord == Spec => []SuppressedIsOnRecord
<1>1. IInv => SuppressedIsOnRecord
  BY DEF IInv, CollectionInv
<1> QED
  BY <1>1, Invariance, PTL

=============================================================================
