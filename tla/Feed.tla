---------------------------------- MODULE Feed ----------------------------------
(***************************************************************************)
(* From the agents to what the dashboard shows.  An agent registers, then  *)
(* in every cycle sends a heartbeat, its metrics and, when they are due,   *)
(* its hardware assets; it never looks at the outcome of a post.  The      *)
(* server keeps a registry of agents and a table of the last asset of each *)
(* device in memory, puts records into pending_data, and its main loop     *)
(* copies the pool into a block, clears the pool and appends the block,    *)
(* while the web threads go on filling the pool.                           *)
(*                                                                         *)
(* Time is counted in collect intervals (of at least 30 seconds, so that a *)
(* heartbeat is due in every cycle).  Each agent reports one device,       *)
(* itself, to one server, which has no peers to ask for their votes; how   *)
(* the chain gets onto the disk is in Ledger.                              *)
(***************************************************************************)
EXTENDS Integers, Sequences, SequencesExt, FiniteSets

CONSTANTS
  Agents,            \* the node_ids of the agents
  HardwareInterval,  \* hardware_push_interval, in collect intervals
  MaxTime,           \* bound: the model's clock stops here
  MaxHardware,       \* bound: how often the hardware of an agent changes
  MaxLate,           \* bound: how many posts run late at a time
  Faults             \* some of "lost", "late" (posts), "restart" (of the server)

ASSUME HardwareIntervalAssumption == HardwareInterval \in Nat \ {0}
ASSUME BoundsAssumption == MaxTime \in Nat \ {0} /\ {MaxHardware, MaxLate} \subseteq Nat
ASSUME FaultsAssumption == Faults \subseteq {"lost", "late", "restart"}

VARIABLES
  now,                   \* the clock
  at,                    \* per agent: where AgentClient.run is
  hardware,              \* per agent: the state of its hardware, as a number
  disturbed,             \* history: when it last changed, or something failed
  last_hardware_push,    \* per agent: as in AgentClient, 0 for never
  late,                  \* posts that the agent gave up on and that still run
  agent_registry,        \* server, per agent: last_seen, 0 if not registered
  last_hardware_assets,  \* server, per agent: digest of the last asset
  pending_data,          \* server: records waiting for a block
  main,                  \* server: where the main loop is
  block,                 \* server: the records of the block under way
  chain,                 \* server: the records on the blocks, oldest first
  dropped                \* history: assets that were cleared away with the pool

agentVars  == <<at, hardware, last_hardware_push>>
blockVars  == <<main, block, chain, dropped>>
serverVars == <<agent_registry, last_hardware_assets, pending_data, blockVars>>
vars == <<now, agentVars, disturbed, late, serverVars>>

NoDigest == << >>

\* Everything that tells one asset from another goes into the digest; since
\* agents stamp their assets, that includes collect_time.
Digest(asset) == <<asset.hardware, asset.time>>

\* What a restart of the server leaves of the pool and the block under way.
FreshBlocks == pending_data' = << >> /\ main' = "loop" /\ block' = << >>

\* ... and of the rest of the memory.
FreshMemory ==
  /\ agent_registry' = [a \in Agents |-> 0]
  /\ last_hardware_assets' = [a \in Agents |-> NoDigest]
  /\ FreshBlocks

Init ==
  /\ now = 1
  /\ at = [a \in Agents |-> "register"]
  /\ hardware = [a \in Agents |-> 0]
  /\ disturbed = [a \in Agents |-> 1]
  /\ last_hardware_push = [a \in Agents |-> 0]
  /\ late = {}
  /\ agent_registry = [a \in Agents |-> 0]
  /\ last_hardware_assets = [a \in Agents |-> NoDigest]
  /\ pending_data = << >> /\ chain = << >>
  /\ main = "loop" /\ block = << >> /\ dropped = {}

-----------------------------------------------------------------------------
(* The server's handlers.  A request carries its kind, the agent, the time  *)
(* of its metrics and the assets it brings, at most one.                    *)

\* register_agent: every request of an agent refreshes its entry.
RegisterAgent(a) == agent_registry' = [agent_registry EXCEPT ![a] = now]

Heartbeat(a, time) == [kind |-> "heartbeat", agent |-> a, time |-> time, hardware |-> 0]
Metric(a, time) == [kind |-> "metric", agent |-> a, time |-> time, hardware |-> 0]

\* is_hardware_asset_changed.
IsHardwareAssetChanged(asset) == last_hardware_assets[asset.agent] # Digest(asset)

\* The assets of a request, one at most, that receive_agent_hardware_assets records.
Fresh(request) ==
  IF request.assets # << >> /\ IsHardwareAssetChanged(Head(request.assets))
    THEN request.assets ELSE << >>

\* What gets into the pool.
RecordsOf(request) ==
  CASE request.kind = "register"  -> << >>
    [] request.kind = "heartbeat" -> <<Heartbeat(request.agent, request.time)>>
    [] request.kind = "metrics"   -> <<Metric(request.agent, request.time)>> \o Fresh(request)

\* /api/agent/register, /api/agent/heartbeat and /api/agent/metrics.
Handle(request) ==
  /\ RegisterAgent(request.agent)
  /\ pending_data' = pending_data \o RecordsOf(request)
  /\ last_hardware_assets' = [last_hardware_assets EXCEPT ![request.agent] =
       IF Fresh(request) = << >> THEN @ ELSE Digest(Head(Fresh(request)))]
  /\ UNCHANGED blockVars

-----------------------------------------------------------------------------
(* The agent.                                                              *)

\* History: something happened now that the dashboard may not show.
Disturb(agents) ==
  disturbed' = [a \in Agents |-> IF a \in agents THEN now ELSE disturbed[a]]

\* The agent gives up on a request that the server has yet to handle.
Delay(request) ==
  /\ Cardinality(late) < MaxLate
  /\ late' = late \union {request}
  /\ Disturb({request.agent})

\* Mutant of Post: a post that ran into its timeout is posted again.
PostTwice(request) ==
  \/ Handle(request) /\ UNCHANGED <<disturbed, late>>
  \/ "late" \in Faults /\ Delay(request) /\ Handle(request)

\* _post: the server handles the request at once, or never, or after the agent
\* ran into its timeout.  The agent only logs the difference.
Post(request) ==
  \/ Handle(request) /\ UNCHANGED <<disturbed, late>>
  \/ "lost" \in Faults /\ Disturb({request.agent}) /\ UNCHANGED <<late, serverVars>>
  \/ "late" \in Faults /\ Delay(request) /\ UNCHANGED serverVars

Request(kind, a, assets) == [kind |-> kind, agent |-> a, time |-> now, assets |-> assets]

Goto(a, here, there) == at[a] = here /\ at' = [at EXCEPT ![a] = there]

Register(a) ==
  /\ Goto(a, "register", "heartbeat")
  /\ Post(Request("register", a, << >>))
  /\ UNCHANGED <<now, hardware, last_hardware_push>>

SendHeartbeat(a) ==
  /\ Goto(a, "heartbeat", "push")
  /\ Post(Request("heartbeat", a, << >>))
  /\ UNCHANGED <<now, hardware, last_hardware_push>>

\* Mutant of HardwareDue: due only after the interval.
HardwareOverdue(a) ==
  last_hardware_push[a] = 0 \/ now - last_hardware_push[a] > HardwareInterval

\* collect_hardware_assets, forced the first time.
HardwareDue(a) ==
  last_hardware_push[a] = 0 \/ now - last_hardware_push[a] >= HardwareInterval

\* Mutant of PushMetrics: the time of the next push is noted.
PushMetricsNotingNext(a) ==
  /\ Goto(a, "push", "sleep")
  /\ LET asset == [kind |-> "asset", agent |-> a, time |-> now, hardware |-> hardware[a]]
     IN  Post(Request("metrics", a, IF HardwareDue(a) THEN <<asset>> ELSE << >>))
  /\ last_hardware_push' = [last_hardware_push EXCEPT ![a] =
       IF HardwareDue(a) THEN now + HardwareInterval ELSE @]
  /\ UNCHANGED <<now, hardware>>

\* push_metrics; the time of the push is noted before the post.
PushMetrics(a) ==
  /\ Goto(a, "push", "sleep")
  /\ LET asset == [kind |-> "asset", agent |-> a, time |-> now, hardware |-> hardware[a]]
     IN  Post(Request("metrics", a, IF HardwareDue(a) THEN <<asset>> ELSE << >>))
  /\ last_hardware_push' = [last_hardware_push EXCEPT ![a] = IF HardwareDue(a) THEN now ELSE @]
  /\ UNCHANGED <<now, hardware>>

\* SIGTERM ends the loop before the next cycle.
Stop(a) ==
  /\ Goto(a, "sleep", "stopped")
  /\ UNCHANGED <<now, hardware, last_hardware_push, disturbed, late, serverVars>>

\* The machine of agent a gets a new disk.
ChangeHardware(a) ==
  /\ hardware[a] < MaxHardware /\ at[a] # "push"
  /\ hardware' = [hardware EXCEPT ![a] = @ + 1]
  /\ Disturb({a})
  /\ UNCHANGED <<now, at, last_hardware_push, late, serverVars>>

\* The next interval begins: a cycle is shorter than the interval, so that the
\* agents that are up have gone to sleep.  Stopped agents may be started again.
Tick ==
  /\ now < MaxTime /\ \A a \in Agents : at[a] \in {"sleep", "stopped"}
  /\ now' = now + 1
  /\ \E started \in SUBSET {a \in Agents : at[a] = "stopped"} :
       /\ at' = [a \in Agents |-> IF a \in started THEN "register"
                                  ELSE IF at[a] = "sleep" THEN "heartbeat" ELSE at[a]]
       /\ last_hardware_push' =
            [a \in Agents |-> IF a \in started THEN 0 ELSE last_hardware_push[a]]
  /\ UNCHANGED <<hardware, disturbed, late, serverVars>>

-----------------------------------------------------------------------------
(* The rest of the server.                                                 *)

HandleLate(request) ==
  /\ request \in late
  /\ late' = late \ {request}
  /\ Handle(request)
  /\ Disturb({request.agent})
  /\ UNCHANGED <<now, agentVars>>

Elsewhere == <<now, agentVars, late, agent_registry, last_hardware_assets>>

\* create_block copies the pool, ...
CreateBlock ==
  /\ main = "loop" /\ pending_data # << >>
  /\ main' = "clear" /\ block' = pending_data
  /\ UNCHANGED <<Elsewhere, disturbed, pending_data, chain, dropped>>

\* The assets that came since: the clearing takes them for part of the block.
Overrun == {r \in ToSet(pending_data) \ ToSet(block) : r.kind = "asset"}

\* ... clears the pool, ...
ClearPool ==
  /\ main = "clear"
  /\ main' = "append" /\ pending_data' = << >>
  /\ dropped' = dropped \union Overrun
  /\ Disturb({r.agent : r \in Overrun})
  /\ UNCHANGED <<Elsewhere, block, chain>>

\* ... and the block, which is confirmed by the server's own vote, is appended.
AddBlock ==
  /\ main = "append"
  /\ main' = "loop" /\ block' = << >>
  /\ chain' = chain \o block
  /\ UNCHANGED <<Elsewhere, disturbed, pending_data, dropped>>

\* Mutant of Restart: the table of assets is kept, the pool is not.
RestartKeepingTable ==
  /\ "restart" \in Faults
  /\ agent_registry' = [a \in Agents |-> 0] /\ FreshBlocks
  /\ Disturb(Agents)
  /\ UNCHANGED <<now, agentVars, late, last_hardware_assets, chain, dropped>>

\* The server's process ends and starts again; only the chain is on disk.
Restart ==
  /\ "restart" \in Faults
  /\ FreshMemory
  /\ Disturb(Agents)
  /\ UNCHANGED <<now, agentVars, late, chain, dropped>>

Next ==
  \/ \E a \in Agents :
       Register(a) \/ SendHeartbeat(a) \/ PushMetrics(a) \/ Stop(a) \/ ChangeHardware(a)
  \/ \E request \in late : HandleLate(request)
  \/ Tick \/ CreateBlock \/ ClearPool \/ AddBlock \/ Restart

Spec == Init /\ [][Next]_vars

-----------------------------------------------------------------------------
(* What the dashboard shows.                                               *)

\* Where the assets of agent a are in s, and the newest of them.
AssetsOf(a, s) == {i \in DOMAIN s : s[i].kind = "asset" /\ s[i].agent = a}
Newest(a, s) ==
  LET assets == AssetsOf(a, s)
  IN  IF assets = {} THEN << >> ELSE <<s[Max(assets)]>>

\* api_device_fru, which is read step by step in Views: the newest asset in the
\* pool, or else on the chain.
ShownAsset(a) ==
  LET pooled == Newest(a, pending_data)
  IN  IF pooled # << >> THEN pooled ELSE Newest(a, chain)

-----------------------------------------------------------------------------
(* Properties.                                                             *)

Kinds == {"heartbeat", "metric", "asset"}
FeedRecords == [kind : Kinds, agent : Agents, time : 1..MaxTime, hardware : 0..MaxHardware]
Requests == [kind : {"register", "heartbeat", "metrics"}, agent : Agents,
             time : 1..MaxTime, assets : Seq(FeedRecords)]

TypeOK ==
  /\ now \in 1..MaxTime
  /\ at \in [Agents -> {"register", "heartbeat", "push", "sleep", "stopped"}]
  /\ hardware \in [Agents -> 0..MaxHardware] /\ disturbed \in [Agents -> 1..MaxTime]
  /\ last_hardware_push \in [Agents -> 0..MaxTime]
  /\ late \subseteq Requests
  /\ agent_registry \in [Agents -> 0..MaxTime]
  /\ \A a \in Agents : last_hardware_assets[a] = NoDigest
                       \/ last_hardware_assets[a] \in (0..MaxHardware) \X (1..MaxTime)
  /\ pending_data \in Seq(FeedRecords) /\ chain \in Seq(FeedRecords)
  /\ main \in {"loop", "clear", "append"} /\ block \in Seq(FeedRecords)
  /\ dropped \subseteq FeedRecords

\* Between the clearing of the pool and the append, records are in the block only.
UnderWay == IF main = "append" THEN block ELSE << >>
Sealed == chain \o UnderWay
Held == Sealed \o pending_data

\* What the server would not record again is in the pool, in the block under way
\* or on the chain, or else it came between the copy and the clearing of the pool:
\* no restart, no late post and no step of a block lets the table of the last
\* assets get ahead of the records in any other way.
SuppressedIsRecorded ==
  \A a \in Agents :
    last_hardware_assets[a] # NoDigest =>
      \E r \in ToSet(Held) \union dropped :
        r.kind = "asset" /\ r.agent = a /\ Digest(r) = last_hardware_assets[a]

\* Nothing an agent measured gets on record twice, however late a post is and
\* whatever the main loop is doing with the pool.
NothingTwice == \A i, j \in DOMAIN Held : Held[i] = Held[j] => i = j

\* So many cycles have passed since the hardware of the agent changed, a post of
\* its was lost or late, an asset of its was cleared away with the pool, or the
\* server was started again.
Settled(a, cycles) == at[a] = "sleep" /\ now - disturbed[a] >= cycles

IsCurrent(newest, a) == newest # << >> /\ newest[1].hardware = hardware[a]

\* However many posts were lost or came late, whatever was cleared away and
\* however often the server lost its memory: one cycle later it lists every
\* running agent again, although agents do not register again, and one push
\* interval later the dashboard shows the hardware that the device has, although
\* nobody retries a post and the table of assets still holds what was cleared
\* away; only while a block is under way, the asset may be in that block instead.
Recovers ==
  \A a \in Agents :
    /\ Settled(a, 1) => agent_registry[a] = now
    /\ Settled(a, HardwareInterval) =>
         IsCurrent(ShownAsset(a), a) \/ IsCurrent(Newest(a, UnderWay), a)

=============================================================================
