--------------------------------- MODULE Views ---------------------------------
(***************************************************************************)
(* Reading the ledger while it grows.  The handlers of web_server.py read  *)
(* the chain and then pending_data without a lock, record by record; an    *)
(* iteration over a list that another thread clears, fills or extends      *)
(* under it simply continues at its position.  When the main loop creates  *)
(* a block it copies the pool and then clears it, with whatever was added  *)
(* in between; the copy gets onto the chain when the block is confirmed,   *)
(* and until then those records are in neither.                            *)
(*                                                                         *)
(* There is one device, its records arrive in the order of their           *)
(* timestamps, and one request is under way at a time: requests read only, *)
(* so they do not disturb each other.                                      *)
(***************************************************************************)
EXTENDS Integers, Sequences, SequencesExt, FiniteSetsExt, Functions

CONSTANTS
  HistoryLimit,  \* limit_per_server of the metric history
  MaxRecords     \* bound: how many records are reported

ASSUME HistoryLimitAssumption == HistoryLimit \in Nat \ {0}
ASSUME MaxRecordsAssumption == MaxRecords \in Nat

VARIABLES
  reported,      \* history: how many records were reported
  pending_data,  \* Blockchain.pending_data
  main,          \* what the main loop is about to do with a block
  block,         \* the records of a block that is not yet on the chain
  chain,         \* the records of Blockchain.chain, block after block
  request,       \* the request under way
  answer         \* the last answer of each view; none or one record but for history

ledgerVars == <<reported, pending_data, main, block, chain>>
vars == <<ledgerVars, request, answer>>

Kinds == {"metric", "asset"}

\* /api/server/metrics/history, /api/server/metrics and /api/device/<ip>/fru.
Views == {"history", "latest", "asset"}
KindOf(view) == IF view = "asset" THEN "asset" ELSE "metric"

Idle == [view |-> "none"]

Init ==
  /\ reported = 0
  /\ pending_data = << >> /\ block = << >> /\ chain = << >>
  /\ main = "loop"
  /\ request = Idle
  /\ answer = [view \in Views |-> << >>]

-----------------------------------------------------------------------------
(* The ledger.                                                             *)

Report(kind) ==
  /\ reported < MaxRecords
  /\ reported' = reported + 1
  /\ pending_data' = Append(pending_data, [kind |-> kind, time |-> reported'])
  /\ UNCHANGED <<main, block, chain, request, answer>>

\* create_block copies the pool ...
CreateBlock ==
  /\ main = "loop" /\ pending_data # << >>
  /\ main' = "clear"
  /\ block' = pending_data
  /\ UNCHANGED <<reported, pending_data, chain, request, answer>>

\* ... and clears it.
ClearPool ==
  /\ main = "clear" /\ main' = "append"
  /\ pending_data' = << >>
  /\ UNCHANGED <<reported, block, chain, request, answer>>

AddBlock ==
  /\ main = "append" /\ main' = "loop"
  /\ chain' = chain \o block
  /\ block' = << >>
  /\ UNCHANGED <<reported, pending_data, request, answer>>

-----------------------------------------------------------------------------
(* The handlers.                                                           *)

\* Mutant of Lists: the chain is read after the pool.
PoolFirst == <<"pending_data", "chain">>

\* What a handler reads, in this order.
Lists == <<"chain", "pending_data">>

List(n) == IF Lists[n] = "chain" THEN chain ELSE pending_data

\* The history is read forward, the other two read reversed(...).
Start(view, n) == IF view = "history" THEN 1 ELSE Len(List(n))

Begin(view) ==
  /\ request = Idle
  /\ request' = [view |-> view, list |-> 1, position |-> Start(view, 1), found |-> << >>,
                 since |-> reported, chained |-> chain]
  /\ UNCHANGED <<ledgerVars, answer>>

More == request.position \in DOMAIN List(request.list)

\* The iteration over the pool begins when the one over the chain is over.
ReadPool ==
  /\ request # Idle /\ request.list = 1 /\ ~More
  /\ request' = [request EXCEPT !.list = 2, !.position = Start(request.view, 2)]
  /\ UNCHANGED <<ledgerVars, answer>>

Reading(view) == request # Idle /\ request.view = view /\ More
Record == List(request.list)[request.position]
Wanted == Record.kind = KindOf(request.view)

\* Every metric is another point of the history.
ReadPoint ==
  /\ Reading("history")
  /\ request' = [request EXCEPT
       !.found = IF Wanted THEN Append(@, Record) ELSE @, !.position = @ + 1]
  /\ UNCHANGED <<ledgerVars, answer>>

\* The first metric met on the chain stays; a metric of the pool takes the
\* place of whatever was found before.
TakesPlace == Wanted /\ (request.found = << >> \/ Lists[request.list] = "pending_data")

ReadMetric ==
  /\ Reading("latest")
  /\ request' = [request EXCEPT
       !.found = IF TakesPlace THEN <<Record>> ELSE @, !.position = @ - 1]
  /\ UNCHANGED <<ledgerVars, answer>>

\* Mutant of ReadAsset: the iteration goes on, as it does for metrics.
ReadAssetOn ==
  /\ Reading("asset")
  /\ request' = [request EXCEPT
       !.found = IF Wanted THEN <<Record>> ELSE @, !.position = @ - 1]
  /\ UNCHANGED <<ledgerVars, answer>>

\* The first asset met in a list ends the iteration over it.
ReadAsset ==
  /\ Reading("asset")
  /\ request' = IF Wanted THEN [request EXCEPT !.found = <<Record>>, !.position = 0]
                ELSE [request EXCEPT !.position = @ - 1]
  /\ UNCHANGED <<ledgerVars, answer>>

\* How sorted() arranges s: by time, and as they were where times are equal.
Sorts(p, s) ==
  \A i, j \in DOMAIN s : i < j =>
    \/ s[p[i]].time < s[p[j]].time
    \/ s[p[i]].time = s[p[j]].time /\ p[i] < p[j]

ByTime(s) ==
  LET p == CHOOSE p \in Bijection(DOMAIN s, DOMAIN s) : Sorts(p, s)
  IN  [i \in DOMAIN s |-> s[p[i]]]

\* Mutant of LastPoints: one too many.
LastPointsAndOne(s) == SubSeq(ByTime(s), Max({1, Len(s) - HistoryLimit}), Len(s))

\* points[-limit_per_server:]
LastPoints(s) == SubSeq(ByTime(s), Max({1, Len(s) - HistoryLimit + 1}), Len(s))

Answer ==
  /\ request # Idle /\ request.list = 2 /\ ~More
  /\ answer' = [answer EXCEPT ![request.view] =
       IF request.view = "history" THEN LastPoints(request.found) ELSE request.found]
  /\ request' = Idle
  /\ UNCHANGED ledgerVars

-----------------------------------------------------------------------------
(* The specification.                                                      *)

Next ==
  \/ \E kind \in Kinds : Report(kind)
  \/ CreateBlock \/ ClearPool \/ AddBlock
  \/ \E view \in Views : Begin(view)
  \/ ReadPool \/ ReadPoint \/ ReadMetric \/ ReadAsset \/ Answer

Spec == Init /\ [][Next]_vars

-----------------------------------------------------------------------------
(* Properties.                                                             *)

Records == [kind : Kinds, time : 1..MaxRecords]

TypeOK ==
  /\ reported \in 0..MaxRecords
  /\ pending_data \in Seq(Records) /\ block \in Seq(Records) /\ chain \in Seq(Records)
  /\ main \in {"loop", "clear", "append"}
  /\ request = Idle \/ /\ request.view \in Views
                       /\ request.list \in 1..2
                       /\ request.found \in Seq(Records)
                       /\ request.position \in 0 .. MaxRecords + 1
                       /\ request.since \in 0..MaxRecords
                       /\ request.chained \in Seq(Records)
  /\ answer \in [Views -> Seq(Records)]
  /\ Len(answer["history"]) <= HistoryLimit
  /\ \A view \in Views \ {"history"} : Len(answer[view]) <= 1

\* No point is twice in an answered history, although records move from the pool
\* to the chain under the request: it reads the chain first.
NoPointTwice ==
  \A i, j \in DOMAIN answer["history"] :
    i < j => answer["history"][i].time < answer["history"][j].time

Answered(view) == request # Idle /\ request.view = view /\ request' = Idle

\* Records the server has that are newer than what it answers although they were
\* reported before the request came.
Overlooked(view) ==
  {r \in ToSet(chain) \union ToSet(block) \union ToSet(pending_data) :
     /\ r.kind = KindOf(view) /\ r.time <= request.since
     /\ answer'[view] = << >> \/ r.time > answer'[view][1].time}

\* Those of them that have been on the chain since before the request, or are in
\* the pool: none of them moved under the request.
Passed(view) ==
  {r \in Overlooked(view) : Contains(request.chained, r) \/ Contains(pending_data, r)}

\* The asset that is answered for a device is only out of date by records that moved
\* under the request: nothing newer was on the chain when the request came, and
\* nothing newer is waiting in the pool.
OnlyMovingOverlooked == [][Answered("asset") => Passed("asset") = {}]_vars

\* "Return latest server metrics by device" (web_server.py:65) asks the same of the
\* latest metric. It does not hold: of several metrics in the pool the oldest one
\* is answered.
LatestIsLatest == [][Answered("latest") => Passed("latest") = {}]_vars

=============================================================================
