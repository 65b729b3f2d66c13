------------------------------ MODULE Collection -------------------------------
(***************************************************************************)
(* A server of the legacy and all-in-one modes.  Its main thread asks the  *)
(* BMC of every managed device for its hardware (FRU) and its sensors,     *)
(* which both take up to 30 seconds and may fail, then measures itself and *)
(* seals a block.  A FRU is recorded only when it differs from the one     *)
(* that was collected last, which is kept in memory; what the chain holds  *)
(* is not looked at.  The request threads of Commands run beside it and    *)
(* share the pool, the block and the end of the process.                   *)
(*                                                                         *)
(* There are no peers, so that it is always this server's turn.  A FRU is  *)
(* its three key fields.  The sensor readings of devices are left out, and *)
(* of what the main thread puts on the chain only the newest FRU of each   *)
(* device is kept, in newest.  How the chain gets onto the disk is in      *)
(* Ledger.                                                                 *)
(***************************************************************************)
EXTENDS Commands

CONSTANTS
  Configured,  \* the devices of the configuration
  Local,       \* the name of the server itself
  Frus         \* what the key fields of a FRU may be

NoFru == "none"
ASSUME FrusAssumption == NoFru \notin Frus

VARIABLES
  fru,            \* per device: the FRU it has
  last_fru_data,  \* HardwareCollector.last_fru_data
  cycle,          \* how far the main thread is in its round
  collected,      \* what the main thread put into the pool for the next block
  newest          \* per device: the newest FRU record on the chain

collectionVars == <<fru, last_fru_data, cycle, collected, newest>>
serverVars == <<vars, collectionVars>>

\* _load_managed_devices; _scan_devices only ever finds the server itself.
Managed == IF Configured = {} THEN {Local} ELSE Configured

\* The server is not asked by ipmitool.
Devices == Managed \ {Local}

NewRound == [at |-> "devices", todo |-> Devices]

ServerInit ==
  /\ Init
  /\ fru \in [Devices -> Frus]
  /\ last_fru_data = [d \in Devices |-> NoFru]
  /\ cycle = NewRound
  /\ collected = << >>
  /\ newest = [d \in Devices |-> NoFru]

-----------------------------------------------------------------------------
(* A round of the main loop.                                               *)

FruRecord(d, new_fru) == [type |-> "FRU_HARDWARE", device |-> d, fru |-> new_fru]
LocalRecord == [type |-> "PERFORMANCE", device |-> Local]

\* What it may return: the FRU if ipmitool gets it, NoFru if that fails or runs
\* into its timeout.
CollectFruInfo(d) == {fru[d]} \union (IF "device" \in Faults THEN {NoFru} ELSE {})

IsFruChanged(d, new_fru) == last_fru_data[d] # new_fru

\* Mutant of CollectDevice: what was asked for counts as collected.
CollectUnanswered(d) ==
  /\ cycle.at = "devices" /\ d \in cycle.todo
  /\ last_fru_data' = [last_fru_data EXCEPT ![d] = fru[d]]
  /\ \E new_fru \in CollectFruInfo(d) :
       collected' = IF new_fru # NoFru /\ IsFruChanged(d, new_fru)
                    THEN Append(collected, FruRecord(d, new_fru)) ELSE collected
  /\ cycle' = [cycle EXCEPT !.todo = @ \ {d}]
  /\ UNCHANGED <<vars, fru, newest>>

\* What the loop does with the answer of device d.
Collect(d, new_fru) ==
  /\ cycle.at = "devices" /\ d \in cycle.todo
  /\ IF new_fru # NoFru /\ IsFruChanged(d, new_fru)
       THEN /\ last_fru_data' = [last_fru_data EXCEPT ![d] = new_fru]
            /\ collected' = Append(collected, FruRecord(d, new_fru))
       ELSE UNCHANGED <<last_fru_data, collected>>
  /\ cycle' = [cycle EXCEPT !.todo = @ \ {d}]
  /\ UNCHANGED <<vars, fru, newest>>

\* collect_fru_info, is_fru_changed and add_data, then the sensors.  One step: only
\* the main thread uses the table, and if the process ends in between, the table
\* is gone together with the pool.
CollectDevice(d) == \E new_fru \in CollectFruInfo(d) : Collect(d, new_fru)

\* collect_local_metrics: every round has a record at least.
CollectLocal ==
  /\ cycle.at = "devices" /\ cycle.todo = {}
  /\ collected' = Append(collected, LocalRecord)
  /\ cycle' = [cycle EXCEPT !.at = "seal"]
  /\ UNCHANGED <<vars, fru, last_fru_data, newest>>

\* Where the FRU records of device d are among the records.
FrusOf(d, records) ==
  {i \in DOMAIN records : records[i].type = "FRU_HARDWARE" /\ records[i].device = d}

\* The newest FRU record of device d, on the chain or in the pool.
Latest(d) ==
  LET frus == FrusOf(d, collected)
  IN  IF frus = {} THEN newest[d] ELSE collected[Max(frus)].fru

\* The pool gets into a block: of what is in it, only the main thread's own
\* records are sure to be in the block.
CreateBlock ==
  /\ cycle.at = "seal"
  /\ CopyAudits \/ ClearAudits
  /\ UNCHANGED collectionVars

\* The block is appended; then the loop waits for the next round.
AddBlock ==
  /\ AppendAudits
  /\ newest' = [d \in Devices |-> Latest(d)]
  /\ collected' = << >>
  /\ cycle' = NewRound
  /\ UNCHANGED <<fru, last_fru_data>>

MainStep ==
  (\E d \in Devices : CollectDevice(d)) \/ CollectLocal \/ CreateBlock \/ AddBlock

-----------------------------------------------------------------------------

\* Hardware is exchanged.
ReplaceFru(d) ==
  /\ fru' \in {[fru EXCEPT ![d] = f] : f \in Frus}
  /\ UNCHANGED <<vars, last_fru_data, cycle, collected, newest>>

\* The process is stopped or crashes and is started again.
End ==
  /\ EndCommands
  /\ last_fru_data' = [d \in Devices |-> NoFru]
  /\ cycle' = NewRound /\ collected' = << >>
  /\ UNCHANGED <<fru, newest>>

Next ==
  \/ CommandStep /\ UNCHANGED collectionVars
  \/ MainStep \/ End
  \/ \E d \in Devices : ReplaceFru(d)

Spec == ServerInit /\ [][Next]_serverVars

\* A thread that can go on does, ipmitool ends by its timeout at the latest, and
\* the main loop comes round every collect_interval.
FairSpec ==
  /\ Spec
  /\ \A t \in Threads : WF_serverVars(ThreadStep(t) /\ UNCHANGED collectionVars)
  /\ WF_serverVars(MainStep)

-----------------------------------------------------------------------------
(* Properties.                                                             *)

CollectionTypeOK ==
  /\ TypeOK
  /\ fru \in [Devices -> Frus]
  /\ last_fru_data \in [Devices -> Frus \union {NoFru}]
  /\ newest \in [Devices -> Frus \union {NoFru}]
  /\ \A r \in ToSet(collected) : r.device \in Devices \union {Local}
  /\ cycle.at \in {"devices", "seal"}

\* Each command is on the chain in the end, also what was refused or failed: it
\* leaves no trace only if the process ended before its record was on the chain,
\* or if its record came between the copy and the clearing of the pool.
EventuallyAudited ==
  \A c \in Commands :
    c \in UnderWay ~> c \in CommandsOf(chain) \union ended_with \union overrun

\* The hardware that a device keeps is what the chain says of it in the end, if it
\* answers every now and then: whatever it had before, however often it was silent
\* and wherever the process ended, suppressing what was collected last never
\* hides what is not recorded.
FruRecorded ==
  \A d \in Devices, f \in Frus :
    /\ <>[][~End]_serverVars
    /\ <>[](fru[d] = f) /\ []<><<Collect(d, fru[d])>>_serverVars
    => <>[](newest[d] = f)

=============================================================================
