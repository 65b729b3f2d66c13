------------------------------ MODULE FeedProofs ------------------------------
(***************************************************************************)
(* Proofs about Feed: for any number of agents and late posts, any push    *)
(* interval and any faults.                                                *)
(***************************************************************************)
EXTENDS Feed, SequenceTheorems, WellFoundedInduction, TLAPS

-----------------------------------------------------------------------------
(* Sequences and maxima.                                                   *)

\* Concatenation is associative.
LEMMA Association ==
  ASSUME NEW S, NEW s \in Seq(S), NEW t \in Seq(S), NEW u \in Seq(S)
  PROVE  s \o (t \o u) = (s \o t) \o u /\ s \o t \in Seq(S)
BY ConcatAssociative, ConcatProperties

\* What a concatenation holds.
LEMMA ConcatElements ==
  ASSUME NEW S, NEW s \in Seq(S), NEW t \in Seq(S)
  PROVE  /\ s \o t \in Seq(S)
         /\ Len(s) \in Nat /\ Len(t) \in Nat
         /\ DOMAIN s = 1..Len(s) /\ DOMAIN t = 1..Len(t)
         /\ DOMAIN (s \o t) = 1..Len(s) + Len(t)
         /\ \A i \in 1..Len(s) : (s \o t)[i] = s[i]
         /\ \A j \in 1..Len(t) : (s \o t)[Len(s) + j] = t[j]
         /\ \A i \in 1..Len(s) + Len(t) : i \in 1..Len(s) \/ i - Len(s) \in 1..Len(t)
         /\ ToSet(s \o t) = ToSet(s) \union ToSet(t)
<1> DEFINE u == s \o t
<1>1. /\ u \in Seq(S) /\ Len(u) = Len(s) + Len(t)
      /\ \A i \in 1 .. Len(s) + Len(t) : u[i] = IF i <= Len(s) THEN s[i] ELSE t[i - Len(s)]
  BY ConcatProperties
<1>2. /\ Len(s) \in Nat /\ Len(t) \in Nat /\ DOMAIN s = 1..Len(s) /\ DOMAIN t = 1..Len(t)
      /\ DOMAIN u = 1..Len(u)
  BY <1>1, LenProperties
<1> HIDE DEF u
<1>3. \A i \in 1..Len(s) : i \in 1..Len(s) + Len(t) /\ i <= Len(s) /\ u[i] = s[i]
  BY <1>1, <1>2
<1>4. ASSUME NEW j \in 1..Len(t)
      PROVE  Len(s) + j \in 1..Len(s) + Len(t) /\ u[Len(s) + j] = t[j]
  <2>1. Len(s) + j \in 1..Len(s) + Len(t) /\ ~(Len(s) + j <= Len(s)) /\ (Len(s) + j) - Len(s) = j
    BY <1>2
  <2> QED
    BY <1>1, <2>1
<1>5. \A i \in 1..Len(s) + Len(t) :
        i \in 1..Len(s) \/ (i - Len(s) \in 1..Len(t) /\ Len(s) + (i - Len(s)) = i)
  BY <1>2
<1>6. ToSet(u) = ToSet(s) \union ToSet(t)
  <2>1. Range(u) = Range(s) \union Range(t)
    BY RangeConcatenation DEF u
  <2> QED
    BY <2>1 DEF Range, ToSet
<1> QED
  BY <1>1, <1>2, <1>3, <1>4, <1>5, <1>6 DEF u

\* A set of positions of a sequence has a greatest one.
LEMMA MaxOfPositions ==
  ASSUME NEW n \in Nat, NEW S, S \subseteq 1..n, S # {}
  PROVE  Max(S) \in S /\ \A i \in S : Max(S) >= i
<1> DEFINE T == {n - i : i \in S}
<1>1. T \subseteq Nat /\ T # {}
  <2>1. \A i \in S : i \in Nat /\ n - i \in Nat
    OBVIOUS
  <2> QED
    BY <2>1
<1>2. PICK x \in T : \A y \in T : <<y, x>> \notin OpToRel(<, Nat)
  BY <1>1, NatLessThanWellFounded, WFMin
<1>3. \A y \in T : ~(y < x)
  BY <1>1, <1>2 DEF OpToRel
<1>4. PICK i \in S : x = n - i
  OBVIOUS
<1>5. \A j \in S : ~(n - j < n - i)
  BY <1>3, <1>4
<1>6. \A j \in S : i >= j
  <2>1. \A j \in S : j \in 1..n
    OBVIOUS
  <2> QED
    BY <1>5, <2>1
<1> QED
  BY <1>6 DEF Max

\* The newest asset of a concatenation is that of its end, if there is one.
LEMMA NewestConcat ==
  ASSUME NEW s \in Seq(FeedRecords), NEW t \in Seq(FeedRecords), NEW a \in Agents
  PROVE  Newest(a, s \o t) = IF Newest(a, t) # << >> THEN Newest(a, t) ELSE Newest(a, s)
<1> DEFINE u == s \o t
           n == Len(s)
           F == AssetsOf(a, s)
           G == AssetsOf(a, t)
           H == AssetsOf(a, u)
<1>1. /\ n \in Nat /\ Len(t) \in Nat /\ DOMAIN s = 1..n /\ DOMAIN t = 1..Len(t)
      /\ DOMAIN u = 1..n + Len(t)
      /\ \A i \in 1..n : u[i] = s[i]
      /\ \A j \in 1..Len(t) : u[n + j] = t[j]
      /\ \A i \in 1..n + Len(t) : i \in 1..n \/ i - n \in 1..Len(t)
  BY ConcatElements
<1> HIDE DEF u, n
<1>2. F \subseteq 1..n /\ G \subseteq 1..Len(t) /\ H \subseteq 1..n + Len(t)
  BY <1>1 DEF AssetsOf
<1>3. (G # {}) = (Newest(a, t) # << >>)
  BY DEF Newest
<1>4. \A j \in G : n + j \in H
  <2>1. \A j \in 1..Len(t) : n + j \in 1..n + Len(t)
    BY <1>1
  <2> QED
    BY <1>1, <2>1 DEF AssetsOf
<1>5. \A i \in H : i \in F \/ i - n \in G
  <2>1. \A i \in 1..n + Len(t) : n + (i - n) = i
    BY <1>1
  <2> QED
    BY <1>1, <2>1 DEF AssetsOf
<1>6. F \subseteq H
  <2>1. \A i \in 1..n : i \in 1..n + Len(t)
    BY <1>1
  <2> QED
    BY <1>1, <2>1 DEF AssetsOf
<1>7. CASE G # {}
  <2>1. Max(G) \in G /\ \A j \in G : Max(G) >= j
    BY <1>1, <1>2, <1>7, MaxOfPositions
  <2>2. Max(H) \in H /\ \A j \in H : Max(H) >= j
    BY <1>1, <1>2, <1>4, <1>7, MaxOfPositions
  <2>3. n + Max(G) \in H /\ Max(G) \in 1..Len(t)
    BY <1>2, <1>4, <2>1
  <2>4. Max(H) \in 1..n + Len(t) /\ Max(H) >= n + Max(G)
    BY <1>2, <2>2, <2>3
  <2>5. Max(H) \notin 1..n
    BY <1>1, <2>3, <2>4
  <2>6. Max(H) - n \in G
    BY <1>2, <1>5, <2>2, <2>5
  <2>7. Max(G) >= Max(H) - n
    BY <2>1, <2>6
  <2>8. Max(H) = n + Max(G)
    <3>1. Max(H) \in Int /\ Max(G) \in Int /\ n \in Int
      BY <1>1, <2>3, <2>4
    <3> HIDE DEF G, H
    <3> QED
      BY <2>4, <2>7, <3>1
  <2>9. Newest(a, u) = <<u[Max(H)]>> /\ Newest(a, t) = <<t[Max(G)]>>
    BY <1>7, <2>2 DEF Newest
  <2>10. u[n + Max(G)] = t[Max(G)]
    BY <1>1, <2>3
  <2> QED
    BY <1>3, <1>7, <2>8, <2>9, <2>10 DEF u
<1>8. CASE G = {}
  <2>1. H = F
    BY <1>5, <1>6, <1>8
  <2>2. CASE F = {}
    <3>1. Newest(a, u) = << >> /\ Newest(a, s) = << >>
      BY <2>1, <2>2 DEF Newest
    <3> QED
      BY <1>3, <1>8, <3>1 DEF u
  <2>3. CASE F # {}
    <3>1. Max(F) \in 1..n
      BY <1>1, <1>2, <2>3, MaxOfPositions
    <3>2. Newest(a, u) = <<u[Max(F)]>> /\ Newest(a, s) = <<s[Max(F)]>>
      BY <2>1, <2>3 DEF Newest
    <3> QED
      BY <1>1, <1>3, <1>8, <3>1, <3>2 DEF u
  <2> QED
    BY <2>2, <2>3
<1> QED
  BY <1>7, <1>8

\* In a sequence whose records all differ, and differ from those of another such
\* sequence.
LEMMA ConcatDistinct ==
  ASSUME NEW S, NEW s \in Seq(S), NEW t \in Seq(S),
         \A i, j \in DOMAIN s : s[i] = s[j] => i = j,
         \A i, j \in DOMAIN t : t[i] = t[j] => i = j,
         \A r \in ToSet(t) : r \notin ToSet(s)
  PROVE  \A i, j \in DOMAIN (s \o t) : (s \o t)[i] = (s \o t)[j] => i = j
<1> DEFINE u == s \o t
           n == Len(s)
<1>1. /\ n \in Nat /\ Len(t) \in Nat /\ DOMAIN s = 1..n /\ DOMAIN t = 1..Len(t)
      /\ DOMAIN u = 1..n + Len(t)
      /\ \A i \in 1..n : u[i] = s[i]
      /\ \A j \in 1..Len(t) : u[n + j] = t[j]
      /\ \A i \in 1..n + Len(t) : i \in 1..n \/ i - n \in 1..Len(t)
  BY ConcatElements
<1> HIDE DEF u, n
<1>2. \A i \in 1..n, j \in 1..Len(t) : s[i] # t[j]
  <2>1. \A i \in 1..n : s[i] \in ToSet(s)
    BY <1>1 DEF ToSet
  <2>2. \A j \in 1..Len(t) : t[j] \in ToSet(t)
    BY <1>1 DEF ToSet
  <2> QED
    BY <2>1, <2>2
<1>3. ASSUME NEW i \in 1..n + Len(t)
      PROVE  \/ i \in 1..n /\ u[i] = s[i]
             \/ i - n \in 1..Len(t) /\ u[i] = t[i - n]
  <2>1. n + (i - n) = i
    BY <1>1
  <2> QED
    BY <1>1, <2>1
<1>4. ASSUME NEW i \in 1..n + Len(t), NEW j \in 1..n + Len(t), u[i] = u[j]
      PROVE  i = j
  <2>1. i - n = j - n => i = j
    BY <1>1
  <2>2. CASE i \in 1..n /\ j \in 1..n
    <3>1. s[i] = s[j]
      BY <1>1, <1>4, <2>2
    <3> QED
      BY <1>1, <2>2, <3>1
  <2>3. CASE ~(i \in 1..n) /\ ~(j \in 1..n)
    <3>1. i - n \in 1..Len(t) /\ j - n \in 1..Len(t) /\ t[i - n] = t[j - n]
      BY <1>3, <1>4, <2>3
    <3> QED
      BY <1>1, <2>1, <3>1
  <2>4. CASE i \in 1..n /\ ~(j \in 1..n)
    BY <1>1, <1>2, <1>3, <1>4, <2>4
  <2>5. CASE ~(i \in 1..n) /\ j \in 1..n
    BY <1>1, <1>2, <1>3, <1>4, <2>5
  <2> QED
    BY <2>2, <2>3, <2>4, <2>5
<1> QED
  BY <1>1, <1>4 DEF u

-----------------------------------------------------------------------------
(* The invariant.                                                          *)

Asset(a, time, h) == [kind |-> "asset", agent |-> a, time |-> time, hardware |-> h]

\* What an agent posts: only metrics bring an asset, of the agent and of that time.
WellFormedRequests ==
  {q \in Requests :
     \/ q.assets = << >>
     \/ q.kind = "metrics" /\ \E h \in 0..MaxHardware : q.assets = <<Asset(q.agent, q.time, h)>>}

Digests == (0..MaxHardware) \X (1..MaxTime)

Types ==
  /\ TypeOK
  /\ late \subseteq WellFormedRequests
  /\ last_hardware_assets \in [Agents -> {NoDigest} \union Digests]
  /\ \A a \in Agents : last_hardware_push[a] <= now /\ disturbed[a] <= now

\* Agent a has posted its request of this kind at that time: before, or already in
\* this interval.
Posted(kind, a, time) ==
  \/ time < now
  \/ /\ time = now
     /\ at[a] \in IF kind = "heartbeat" THEN {"push", "sleep", "stopped"} ELSE {"sleep", "stopped"}

\* The kind of request that brings record r.
KindOf(r) == IF r.kind = "heartbeat" THEN "heartbeat" ELSE "metrics"

\* Record r may have come with request q.
CameWith(r, q) == KindOf(r) = q.kind /\ r.agent = q.agent /\ r.time = q.time

\* What got on record, and what of it was cleared away again.
Recorded == ToSet(Held) \union dropped

\* Nothing is on record or late before it was posted.
NothingEarly ==
  /\ \A r \in Recorded : Posted(KindOf(r), r.agent, r.time)
  /\ \A q \in late : q.kind # "register" => Posted(q.kind, q.agent, q.time)

\* Nothing of a late post is on record yet, and no other late post brings it.
LateOnce ==
  \A q \in late : q.kind # "register" =>
    /\ \A r \in Recorded : ~CameWith(r, q)
    /\ \A p \in late : p.kind = q.kind /\ p.agent = q.agent /\ p.time = q.time => p = q

\* Undisturbed in this interval, the server has heard from the agent in it.
Heard ==
  \A a \in Agents :
    at[a] \in {"push", "sleep"} /\ disturbed[a] < now => agent_registry[a] = now

\* The agent has pushed its hardware lately.
PushedLately ==
  \A a \in Agents :
    at[a] = "sleep" => last_hardware_push[a] > 0 /\ now - last_hardware_push[a] < HardwareInterval

\* Undisturbed since its last push, the newest asset on record is that of now.
PushIsNewest ==
  \A a \in Agents :
    last_hardware_push[a] > disturbed[a] =>
      Newest(a, Held) # << >> /\ Newest(a, Held)[1].hardware = hardware[a]

\* A pool about to be cleared begins with what was copied into the block.
Copied == main = "clear" => \E rest \in Seq(FeedRecords) : pending_data = block \o rest

RecordInv == SuppressedIsRecorded /\ NothingTwice /\ NothingEarly /\ LateOnce /\ Copied

IInv == Types /\ RecordInv /\ Heard /\ PushedLately /\ PushIsNewest

-----------------------------------------------------------------------------
(* What a request brings.                                                  *)

\* The types as the steps below use them.
LEMMA TypeFacts ==
  ASSUME Types
  PROVE  /\ now \in 1..MaxTime /\ now \in Nat /\ MaxTime \in Nat /\ MaxHardware \in Nat
         /\ Sealed \in Seq(FeedRecords) /\ UnderWay \in Seq(FeedRecords)
         /\ Held \in Seq(FeedRecords) /\ DOMAIN Held = 1..Len(Held)
         /\ \A r \in Recorded : r \in FeedRecords
         /\ \A a \in Agents : /\ last_hardware_push[a] \in Nat /\ last_hardware_push[a] <= now
                              /\ disturbed[a] \in Nat /\ disturbed[a] <= now
                              /\ hardware[a] \in 0..MaxHardware
<1>1. MaxTime \in Nat /\ MaxHardware \in Nat
  BY BoundsAssumption
<1>2. /\ chain \in Seq(FeedRecords) /\ pending_data \in Seq(FeedRecords)
      /\ UnderWay \in Seq(FeedRecords)
  BY EmptySeq DEF Types, TypeOK, UnderWay
<1>3. Sealed \in Seq(FeedRecords) /\ Held \in Seq(FeedRecords)
  BY <1>2, ConcatProperties DEF Sealed, Held
<1>4. DOMAIN Held = 1..Len(Held) /\ \A i \in DOMAIN Held : Held[i] \in FeedRecords
  BY <1>3, LenProperties, ElementOfSeq
<1> QED
  BY <1>1, <1>2, <1>3, <1>4 DEF Types, TypeOK, ToSet, Recorded

LEMMA RequestFacts ==
  ASSUME NEW q \in WellFormedRequests
  PROVE  /\ q \in Requests /\ q.agent \in Agents /\ q.time \in 1..MaxTime
         /\ q.kind \in {"register", "heartbeat", "metrics"}
         /\ q.assets # << >> =>
              /\ q.kind = "metrics"
              /\ \E h \in 0..MaxHardware : q.assets = <<Asset(q.agent, q.time, h)>>
BY DEF WellFormedRequests, Requests

LEMMA RecordsOfRequest ==
  ASSUME NEW q \in WellFormedRequests
  PROVE  /\ RecordsOf(q) \in Seq(FeedRecords)
         /\ \A r \in ToSet(RecordsOf(q)) : CameWith(r, q) /\ q.kind # "register"
         /\ \A i, j \in DOMAIN RecordsOf(q) : RecordsOf(q)[i] = RecordsOf(q)[j] => i = j
         /\ Fresh(q) = << >> => \A a \in Agents : Newest(a, RecordsOf(q)) = << >>
         /\ Fresh(q) # << >> =>
              /\ Fresh(q) = q.assets /\ Head(q.assets) \in ToSet(RecordsOf(q))
              /\ \A a \in Agents :
                   Newest(a, RecordsOf(q)) = IF a = q.agent THEN q.assets ELSE << >>
<1>1. /\ q.agent \in Agents /\ q.time \in 1..MaxTime
      /\ q.kind \in {"register", "heartbeat", "metrics"}
      /\ q.assets # << >> =>
           /\ q.kind = "metrics"
           /\ \E h \in 0..MaxHardware : q.assets = <<Asset(q.agent, q.time, h)>>
  BY RequestFacts
<1>2. 0 \in 0..MaxHardware
  BY BoundsAssumption
<1> DEFINE beat == Heartbeat(q.agent, q.time)
           metric == Metric(q.agent, q.time)
<1>3. /\ beat \in FeedRecords /\ beat.kind = "heartbeat"
      /\ beat.agent = q.agent /\ beat.time = q.time
  BY <1>1, <1>2 DEF Heartbeat, FeedRecords, Kinds
<1>4. /\ metric \in FeedRecords /\ metric.kind = "metric"
      /\ metric.agent = q.agent /\ metric.time = q.time
  BY <1>1, <1>2 DEF Metric, FeedRecords, Kinds
<1>5. Fresh(q) = << >> \/ (Fresh(q) = q.assets /\ q.assets # << >>)
  BY DEF Fresh
<1> HIDE DEF beat, metric
<1>6. CASE q.kind = "register"
  <2>1. RecordsOf(q) = << >> /\ Fresh(q) = << >>
    BY <1>1, <1>5, <1>6 DEF RecordsOf
  <2>2. \A a \in Agents : Newest(a, << >>) = << >>
    BY DEF Newest, AssetsOf
  <2>3. ToSet(<< >>) = {} /\ DOMAIN << >> = {}
    BY DEF ToSet
  <2> QED
    BY <2>1, <2>2, <2>3, EmptySeq
<1>7. CASE q.kind = "heartbeat"
  <2>1. RecordsOf(q) = <<beat>> /\ Fresh(q) = << >>
    BY <1>1, <1>5, <1>7 DEF RecordsOf, beat
  <2>2. <<beat>> \in Seq(FeedRecords) /\ DOMAIN <<beat>> = {1} /\ <<beat>>[1] = beat
    BY <1>3
  <2>3. \A a \in Agents : Newest(a, <<beat>>) = << >>
    BY <1>3, <2>2 DEF Newest, AssetsOf
  <2>4. ToSet(<<beat>>) = {beat}
    BY <2>2 DEF ToSet
  <2>5. CameWith(beat, q)
    BY <1>3, <1>7 DEF CameWith, KindOf
  <2> QED
    BY <1>7, <2>1, <2>2, <2>3, <2>4, <2>5
<1>8. CASE q.kind = "metrics" /\ Fresh(q) = << >>
  <2>1. RecordsOf(q) = <<metric>> \o << >>
    BY <1>8 DEF RecordsOf, metric
  <2>2. <<metric>> \in Seq(FeedRecords) /\ DOMAIN <<metric>> = {1} /\ <<metric>>[1] = metric
    BY <1>4
  <2>3. RecordsOf(q) = <<metric>>
    BY <2>1, <2>2, ConcatEmptySeq
  <2>4. \A a \in Agents : Newest(a, <<metric>>) = << >>
    BY <1>4, <2>2 DEF Newest, AssetsOf
  <2>5. ToSet(<<metric>>) = {metric}
    BY <2>2 DEF ToSet
  <2>6. CameWith(metric, q)
    BY <1>4, <1>8 DEF CameWith, KindOf
  <2> QED
    BY <1>8, <2>2, <2>3, <2>4, <2>5, <2>6
<1>9. CASE q.kind = "metrics" /\ Fresh(q) # << >>
  <2>1. Fresh(q) = q.assets /\ q.assets # << >>
    BY <1>5, <1>9
  <2>2. PICK h \in 0..MaxHardware : q.assets = <<Asset(q.agent, q.time, h)>>
    BY <1>1, <2>1
  <2> DEFINE asset == Asset(q.agent, q.time, h)
  <2>3. /\ asset \in FeedRecords /\ asset.kind = "asset"
        /\ asset.agent = q.agent /\ asset.time = q.time
    BY <1>1 DEF Asset, FeedRecords, Kinds
  <2>4. q.assets = <<asset>>
    BY <2>2
  <2> HIDE DEF asset
  <2>5. RecordsOf(q) = <<metric>> \o <<asset>>
    BY <1>9, <2>1, <2>4 DEF RecordsOf, metric
  <2> DEFINE R == <<metric>> \o <<asset>>
  <2>6. /\ <<metric>> \in Seq(FeedRecords) /\ Len(<<metric>>) = 1 /\ <<metric>>[1] = metric
        /\ <<asset>> \in Seq(FeedRecords) /\ Len(<<asset>>) = 1 /\ <<asset>>[1] = asset
    BY <1>4, <2>3
  <2>7. R \in Seq(FeedRecords) /\ DOMAIN R = 1..2 /\ R[1] = metric /\ R[2] = asset
    <3>1. /\ R \in Seq(FeedRecords) /\ DOMAIN R = 1..1 + 1
          /\ \A k \in 1..1 : R[k] = <<metric>>[k]
          /\ \A k \in 1..1 : R[1 + k] = <<asset>>[k]
      BY <2>6, ConcatElements
    <3> HIDE DEF R
    <3>2. R[1] = <<metric>>[1] /\ R[1 + 1] = <<asset>>[1]
      BY <3>1
    <3> QED
      BY <2>6, <3>1, <3>2
  <2>8. RecordsOf(q) = R
    BY <2>5
  <2> HIDE DEF R
  <2>9. ToSet(R) = {metric, asset} /\ metric # asset
    BY <1>4, <2>3, <2>7 DEF ToSet
  <2>10. CameWith(metric, q) /\ CameWith(asset, q)
    BY <1>4, <1>9, <2>3 DEF CameWith, KindOf
  <2>11. AssetsOf(q.agent, R) = {2}
    BY <1>4, <2>3, <2>7 DEF AssetsOf
  <2>12. Max({2}) = 2
    <3>1. \E x \in {2} : \A y \in {2} : x >= y
      OBVIOUS
    <3> QED
      BY <3>1 DEF Max
  <2>13. Newest(q.agent, R) = <<asset>>
    BY <2>7, <2>11, <2>12 DEF Newest
  <2>14. \A a \in Agents : a # q.agent => Newest(a, R) = << >>
    BY <1>4, <2>3, <2>7 DEF Newest, AssetsOf
  <2>15. Head(q.assets) = asset
    BY <2>4
  <2> QED
    BY <1>9, <2>1, <2>4, <2>7, <2>8, <2>9, <2>10, <2>13, <2>14, <2>15
<1> QED
  BY <1>1, <1>6, <1>7, <1>8, <1>9

-----------------------------------------------------------------------------
(* The handlers of the server.                                             *)

\* What handling a request does, if nothing of it is on record yet.
LEMMA HandleEffect ==
  ASSUME Types, SuppressedIsRecorded, NothingTwice, Copied,
         NEW q \in WellFormedRequests, Handle(q),
         q.kind # "register" => \A r \in Recorded : ~CameWith(r, q)
  PROVE  /\ Recorded' = Recorded \union ToSet(RecordsOf(q))
         /\ pending_data' \in Seq(FeedRecords) /\ chain' \in Seq(FeedRecords)
         /\ last_hardware_assets' \in [Agents -> {NoDigest} \union Digests]
         /\ agent_registry' = [agent_registry EXCEPT ![q.agent] = now]
         /\ SuppressedIsRecorded' /\ NothingTwice' /\ Copied'
         /\ UNCHANGED blockVars
         /\ \A a \in Agents :
              Newest(a, Held') = IF a = q.agent /\ q.assets # << >> THEN q.assets
                                 ELSE Newest(a, Held)
<1> DEFINE R == RecordsOf(q)
<1>1. /\ pending_data' = pending_data \o R /\ UNCHANGED <<main, block, chain, dropped>>
      /\ agent_registry' = [agent_registry EXCEPT ![q.agent] = now]
      /\ last_hardware_assets' = [last_hardware_assets EXCEPT ![q.agent] =
           IF Fresh(q) = << >> THEN @ ELSE Digest(Head(Fresh(q)))]
  BY DEF Handle, RegisterAgent, blockVars
<1>2. /\ chain \in Seq(FeedRecords) /\ pending_data \in Seq(FeedRecords)
      /\ Sealed \in Seq(FeedRecords) /\ block \in Seq(FeedRecords)
      /\ Held \in Seq(FeedRecords) /\ R \in Seq(FeedRecords)
  BY TypeFacts, RecordsOfRequest DEF Types, TypeOK
<1>3. Held' = Held \o R
  <2>1. Sealed \o (pending_data \o R) = (Sealed \o pending_data) \o R
    <3>1. Sealed \in Seq(FeedRecords) /\ pending_data \in Seq(FeedRecords) /\ R \in Seq(FeedRecords)
      BY <1>2
    <3> HIDE DEF R
    <3> QED
      BY <3>1, Association
  <2>2. Sealed' = Sealed
    BY <1>1 DEF Sealed, UnderWay
  <2> QED
    BY <1>1, <2>1, <2>2 DEF Held
<1>4. /\ \A r \in ToSet(R) : CameWith(r, q) /\ q.kind # "register"
      /\ \A i, j \in DOMAIN R : R[i] = R[j] => i = j
      /\ Fresh(q) = << >> => \A a \in Agents : Newest(a, R) = << >>
      /\ Fresh(q) # << >> =>
           /\ Fresh(q) = q.assets /\ Head(q.assets) \in ToSet(R)
           /\ \A a \in Agents : Newest(a, R) = IF a = q.agent THEN q.assets ELSE << >>
  BY RecordsOfRequest
<1>5. pending_data' \in Seq(FeedRecords) /\ chain' \in Seq(FeedRecords)
  BY <1>1, <1>2, ConcatProperties
<1> HIDE DEF R
<1>6. Recorded' = Recorded \union ToSet(R)
  <2>1. ToSet(Held') = ToSet(Held) \union ToSet(R)
    BY <1>2, <1>3, ConcatElements
  <2> QED
    BY <1>1, <2>1 DEF Recorded
<1>7. NothingTwice'
  <2>1. \A r \in ToSet(R) : r \notin ToSet(Held)
    BY <1>4 DEF Recorded
  <2>2. \A i, j \in DOMAIN Held : Held[i] = Held[j] => i = j
    BY DEF NothingTwice
  <2>3. \A i, j \in DOMAIN (Held \o R) : (Held \o R)[i] = (Held \o R)[j] => i = j
    BY <1>2, <1>4, <2>1, <2>2, ConcatDistinct
  <2> QED
    BY <1>3, <2>3 DEF NothingTwice
<1>8. q.agent \in Agents /\ q.time \in 1..MaxTime
  BY RequestFacts
<1>9. ASSUME q.assets # << >>
      PROVE  /\ Fresh(q) = q.assets
             /\ Head(q.assets).kind = "asset" /\ Head(q.assets).agent = q.agent
             /\ Digest(Head(q.assets)) \in Digests
  <2>1. PICK h \in 0..MaxHardware : q.assets = <<Asset(q.agent, q.time, h)>>
    BY <1>9, RequestFacts
  <2>2. Head(q.assets) = Asset(q.agent, q.time, h) /\ q.kind = "metrics"
    <3>1. q.kind = "metrics"
      BY <1>9, RequestFacts
    <3> QED
      BY <2>1, <3>1
  <2>3. Digest(Head(q.assets)) = <<h, q.time>> /\ <<h, q.time>> \in Digests
    BY <1>8, <2>2 DEF Digest, Asset, Digests
  <2>4. last_hardware_assets[q.agent] # <<h, q.time>>
    <3> SUFFICES ASSUME last_hardware_assets[q.agent] = <<h, q.time>>
                 PROVE  FALSE
      OBVIOUS
    <3>1. last_hardware_assets[q.agent] # NoDigest
      BY DEF NoDigest
    <3>2. PICK r \in Recorded :
            /\ r.kind = "asset" /\ r.agent = q.agent
            /\ Digest(r) = last_hardware_assets[q.agent]
      BY <1>8, <3>1, Zenon DEF SuppressedIsRecorded, Recorded
    <3>3. r.time = q.time
      BY <3>2 DEF Digest
    <3> QED
      BY <2>2, <3>2, <3>3 DEF CameWith, KindOf
  <2>5. Head(q.assets).agent = q.agent /\ Head(q.assets).kind = "asset"
    BY <2>2 DEF Asset
  <2> QED
    BY <1>9, <2>3, <2>4, <2>5 DEF Fresh, IsHardwareAssetChanged
<1>10. Fresh(q) = q.assets
  BY <1>9 DEF Fresh
<1>11. last_hardware_assets' \in [Agents -> {NoDigest} \union Digests]
  BY <1>1, <1>8, <1>9, <1>10 DEF Types
<1>12. SuppressedIsRecorded'
  <2> SUFFICES ASSUME NEW a \in Agents, last_hardware_assets'[a] # NoDigest
               PROVE  \E r \in Recorded' :
                        r.kind = "asset" /\ r.agent = a /\ Digest(r) = last_hardware_assets'[a]
    BY DEF SuppressedIsRecorded, Digest, Recorded
  <2>1. CASE a = q.agent /\ q.assets # << >>
    <3>1. last_hardware_assets'[a] = Digest(Head(q.assets))
      BY <1>1, <1>10, <2>1 DEF Types
    <3> QED
      BY <1>4, <1>6, <1>9, <1>10, <2>1, <3>1
  <2>2. CASE ~(a = q.agent /\ q.assets # << >>)
    <3>1. last_hardware_assets'[a] = last_hardware_assets[a]
      BY <1>1, <1>10, <2>2 DEF Types
    <3> QED
      BY <1>6, <3>1 DEF SuppressedIsRecorded, Recorded
  <2> QED
    BY <2>1, <2>2
<1>13. ASSUME NEW a \in Agents
       PROVE  Newest(a, Held') = IF a = q.agent /\ q.assets # << >> THEN q.assets
                                 ELSE Newest(a, Held)
  <2>1. Newest(a, Held \o R) = IF Newest(a, R) # << >> THEN Newest(a, R) ELSE Newest(a, Held)
    BY <1>2, NewestConcat
  <2> QED
    BY <1>3, <1>4, <1>10, <2>1
<1>14. Copied'
  <2>1. ASSUME NEW rest \in Seq(FeedRecords), pending_data = block \o rest
        PROVE  \E more \in Seq(FeedRecords) : pending_data \o R = block \o more
    <3>1. block \in Seq(FeedRecords) /\ R \in Seq(FeedRecords)
      BY <1>2
    <3>2. (block \o rest) \o R = block \o (rest \o R)
      BY <3>1, Association
    <3>3. rest \o R \in Seq(FeedRecords)
      BY <3>1, ConcatProperties
    <3> QED
      BY <2>1, <3>2, <3>3
  <2> QED
    BY <1>1, <2>1 DEF Copied
<1> QED
  BY <1>1, <1>5, <1>6, <1>7, <1>11, <1>12, <1>13, <1>14 DEF R, blockVars

\* Handling a request of now keeps the records in order.
LEMMA HandleRecords ==
  ASSUME Types, RecordInv, NEW q \in WellFormedRequests, Handle(q),
         q.kind # "register" => /\ Posted(q.kind, q.agent, q.time)'
                                /\ \A r \in Recorded : ~CameWith(r, q)
                                /\ \A p \in late' : p.kind = q.kind => ~(p.agent = q.agent /\ p.time = q.time),
         \A kind, time : \A a \in Agents : Posted(kind, a, time) => Posted(kind, a, time)',
         late' \subseteq late
  PROVE  RecordInv'
<1>1. /\ Recorded' = Recorded \union ToSet(RecordsOf(q))
      /\ SuppressedIsRecorded' /\ NothingTwice' /\ Copied'
  BY HandleEffect DEF RecordInv
<1>2. \A r \in ToSet(RecordsOf(q)) : CameWith(r, q) /\ q.kind # "register"
  BY RecordsOfRequest
<1>3. NothingEarly'
  <2>1. ASSUME NEW r \in Recorded'
        PROVE  Posted(KindOf(r), r.agent, r.time)'
    <3>1. CASE r \in Recorded
      <4>1. Posted(KindOf(r), r.agent, r.time) /\ r.agent \in Agents
        BY <3>1, TypeFacts DEF RecordInv, NothingEarly, FeedRecords
      <4> QED
        BY <4>1
    <3>2. CASE r \in ToSet(RecordsOf(q))
      BY <1>2, <3>2 DEF CameWith
    <3> QED
      BY <1>1, <3>1, <3>2
  <2>2. ASSUME NEW p \in late', p.kind # "register"
        PROVE  Posted(p.kind, p.agent, p.time)'
    <3>1. p \in late /\ p.agent \in Agents
      BY RequestFacts DEF Types
    <3>2. Posted(p.kind, p.agent, p.time)
      BY <2>2, <3>1 DEF RecordInv, NothingEarly
    <3> QED
      BY <3>1, <3>2
  <2> QED
    BY <2>1, <2>2 DEF NothingEarly
<1>4. LateOnce'
  <2> SUFFICES ASSUME NEW p \in late', p.kind # "register"
               PROVE  /\ \A r \in Recorded' : ~CameWith(r, p)
                      /\ \A o \in late' : o.kind = p.kind /\ o.agent = p.agent /\ o.time = p.time => o = p
    BY DEF LateOnce, CameWith, KindOf
  <2>1. ASSUME NEW r \in ToSet(RecordsOf(q)), CameWith(r, p)
        PROVE  FALSE
    BY <1>2, <2>1 DEF CameWith
  <2> QED
    BY <1>1, <2>1 DEF RecordInv, LateOnce
<1> QED
  BY <1>1, <1>3, <1>4 DEF RecordInv

\* Disturbing some agents.
LEMMA DisturbEffect ==
  ASSUME Types, NEW agents \in SUBSET Agents, Disturb(agents)
  PROVE  /\ disturbed' \in [Agents -> 1..MaxTime]
         /\ \A a \in Agents : disturbed'[a] = IF a \in agents THEN now ELSE disturbed[a]
BY DEF Types, TypeOK, Disturb

\* An agent posts what it has not posted before: the server handles it, or the
\* agent counts as disturbed.
LEMMA PostEffect ==
  ASSUME Types, RecordInv, NEW q \in WellFormedRequests, Post(q), q.time = now, now' = now,
         q.kind # "register" =>
           ~Posted(q.kind, q.agent, q.time) /\ Posted(q.kind, q.agent, q.time)',
         \A kind, time : \A a \in Agents : Posted(kind, a, time) => Posted(kind, a, time)'
  PROVE  /\ RecordInv'
         /\ late' \subseteq WellFormedRequests /\ UNCHANGED blockVars
         /\ pending_data' \in Seq(FeedRecords) /\ chain' \in Seq(FeedRecords)
         /\ last_hardware_assets' \in [Agents -> {NoDigest} \union Digests]
         /\ disturbed' \in [Agents -> 1..MaxTime]
         /\ \A a \in Agents : disturbed'[a] = disturbed[a] \/ (a = q.agent /\ disturbed'[a] = now)
         /\ \/ agent_registry' = [agent_registry EXCEPT ![q.agent] = now]
            \/ agent_registry' = agent_registry /\ disturbed'[q.agent] = now
         /\ \A a \in Agents :
              \/ a = q.agent /\ disturbed'[a] = now
              \/ Newest(a, Held') = IF a = q.agent /\ q.assets # << >> THEN q.assets
                                    ELSE Newest(a, Held)
<1>1. /\ q.agent \in Agents /\ late \subseteq WellFormedRequests
      /\ pending_data \in Seq(FeedRecords) /\ chain \in Seq(FeedRecords)
      /\ last_hardware_assets \in [Agents -> {NoDigest} \union Digests]
      /\ disturbed \in [Agents -> 1..MaxTime]
  BY RequestFacts DEF Types, TypeOK
<1>2. ASSUME q.kind # "register"
      PROVE  /\ \A r \in Recorded : ~CameWith(r, q)
             /\ \A p \in late : p.kind = q.kind => ~(p.agent = q.agent /\ p.time = q.time)
  <2>1. ASSUME NEW r \in Recorded, CameWith(r, q)
        PROVE  FALSE
    <3>1. Posted(KindOf(r), r.agent, r.time)
      BY DEF RecordInv, NothingEarly
    <3>2. Posted(q.kind, q.agent, q.time)
      BY <2>1, <3>1 DEF CameWith
    <3> QED
      BY <1>2, <3>2
  <2>2. ASSUME NEW p \in late, p.kind = q.kind, p.agent = q.agent, p.time = q.time
        PROVE  FALSE
    <3>1. Posted(p.kind, p.agent, p.time)
      BY <1>2, <2>2 DEF RecordInv, NothingEarly
    <3>2. Posted(q.kind, q.agent, q.time)
      BY <2>2, <3>1
    <3> QED
      BY <1>2, <3>2
  <2> QED
    BY <2>1, <2>2
<1>3. CASE Handle(q) /\ UNCHANGED <<disturbed, late>>
  <2>1. RecordInv'
    BY <1>2, <1>3, HandleRecords
  <2>2. /\ pending_data' \in Seq(FeedRecords) /\ chain' \in Seq(FeedRecords)
        /\ UNCHANGED blockVars
        /\ last_hardware_assets' \in [Agents -> {NoDigest} \union Digests]
        /\ agent_registry' = [agent_registry EXCEPT ![q.agent] = now]
        /\ \A a \in Agents :
             Newest(a, Held') = IF a = q.agent /\ q.assets # << >> THEN q.assets
                                ELSE Newest(a, Held)
    BY <1>2, <1>3, HandleEffect DEF RecordInv
  <2> QED
    BY <1>1, <1>3, <2>1, <2>2
<1>4. CASE Disturb({q.agent}) /\ UNCHANGED serverVars /\ late' \subseteq late \union {q}
  <2>1. /\ disturbed' \in [Agents -> 1..MaxTime]
        /\ \A a \in Agents : disturbed'[a] = IF a = q.agent THEN now ELSE disturbed[a]
    BY <1>1, <1>4, DisturbEffect
  <2>2. /\ UNCHANGED <<agent_registry, last_hardware_assets, pending_data, chain>>
        /\ UNCHANGED blockVars /\ Held' = Held /\ Recorded' = Recorded
    BY <1>4 DEF serverVars, blockVars, Held, Sealed, UnderWay, Recorded
  <2>3. SuppressedIsRecorded' /\ NothingTwice' /\ Copied'
    BY <2>2 DEF RecordInv, SuppressedIsRecorded, NothingTwice, Copied, Digest, blockVars
  <2>4. NothingEarly'
    <3>1. ASSUME NEW r \in Recorded'
          PROVE  Posted(KindOf(r), r.agent, r.time)'
      <4>1. Posted(KindOf(r), r.agent, r.time) /\ r.agent \in Agents
        BY <2>2, <3>1, TypeFacts DEF RecordInv, NothingEarly, FeedRecords
      <4> QED
        BY <4>1
    <3>2. ASSUME NEW p \in late', p.kind # "register"
          PROVE  Posted(p.kind, p.agent, p.time)'
      <4>1. CASE p = q
        BY <3>2, <4>1
      <4>2. CASE p # q
        <5>1. p \in late /\ p.agent \in Agents
          BY <1>1, <1>4, <3>2, <4>2, RequestFacts
        <5>2. Posted(p.kind, p.agent, p.time)
          BY <3>2, <5>1 DEF RecordInv, NothingEarly
        <5> QED
          BY <5>1, <5>2
      <4> QED
        BY <4>1, <4>2
    <3> QED
      BY <3>1, <3>2 DEF NothingEarly
  <2>5. LateOnce'
    <3> SUFFICES ASSUME NEW p \in late', p.kind # "register"
                 PROVE  /\ \A r \in Recorded' : ~CameWith(r, p)
                        /\ \A o \in late' : o.kind = p.kind /\ o.agent = p.agent /\ o.time = p.time => o = p
      BY DEF LateOnce, CameWith, KindOf
    <3>1. p \in late \union {q}
      BY <1>4
    <3>2. \A o \in late' : o \in late \union {q}
      BY <1>4
    <3>3. \A o \in late : o.kind # "register" =>
            /\ \A r \in Recorded : ~CameWith(r, o)
            /\ \A u \in late : u.kind = o.kind /\ u.agent = o.agent /\ u.time = o.time => u = o
      BY DEF RecordInv, LateOnce
    <3>4. CASE p = q
      BY <1>2, <2>2, <3>2, <3>4
    <3>5. CASE p # q
      BY <1>2, <2>2, <3>1, <3>2, <3>3, <3>5
    <3> QED
      BY <3>4, <3>5
  <2>6. RecordInv'
    BY <2>3, <2>4, <2>5 DEF RecordInv
  <2> QED
    BY <1>1, <1>4, <2>1, <2>2, <2>6
<1> QED
  BY <1>3, <1>4 DEF Post, Delay

-----------------------------------------------------------------------------
(* The agents.                                                             *)

\* The moves of an agent in an interval.
Moves == {<<"register", "heartbeat">>, <<"heartbeat", "push">>, <<"push", "sleep">>,
          <<"sleep", "stopped">>}

\* What has been posted stays so.
LEMMA MoveEffect ==
  ASSUME Types, NEW a \in Agents, NEW here, NEW there, <<here, there>> \in Moves,
         Goto(a, here, there), now' = now
  PROVE  /\ at' \in [Agents -> {"register", "heartbeat", "push", "sleep", "stopped"}]
         /\ at[a] = here /\ at'[a] = there /\ \A b \in Agents : b # a => at'[b] = at[b]
         /\ \A kind, time : \A b \in Agents : Posted(kind, b, time) => Posted(kind, b, time)'
<1>1. /\ at \in [Agents -> {"register", "heartbeat", "push", "sleep", "stopped"}]
      /\ at[a] = here /\ at' = [at EXCEPT ![a] = there]
      /\ there \in {"heartbeat", "push", "sleep", "stopped"}
  BY DEF Types, TypeOK, Goto, Moves
<1>2. /\ at' \in [Agents -> {"register", "heartbeat", "push", "sleep", "stopped"}]
      /\ at'[a] = there /\ \A b \in Agents : b # a => at'[b] = at[b]
  BY <1>1
<1>3. ASSUME NEW kind, NEW time, NEW b \in Agents, Posted(kind, b, time)
      PROVE  Posted(kind, b, time)'
  BY <1>1, <1>2, <1>3 DEF Posted, Moves
<1> QED
  BY <1>1, <1>2, <1>3

\* An agent posts its next request, with its hardware if that was due.
LEMMA PostStep ==
  ASSUME IInv, NEW a \in Agents, NEW q \in WellFormedRequests,
         q.agent = a, q.time = now, Post(q),
         NEW here, NEW there, Goto(a, here, there),
         \/ here = "register"  /\ there = "heartbeat" /\ q.kind = "register"
         \/ here = "heartbeat" /\ there = "push"      /\ q.kind = "heartbeat"
         \/ here = "push"      /\ there = "sleep"     /\ q.kind = "metrics",
         now' = now, hardware' = hardware,
         last_hardware_push' \in [Agents -> 0..MaxTime],
         \A b \in Agents : b # a => last_hardware_push'[b] = last_hardware_push[b],
         last_hardware_push'[a] = IF q.assets # << >> THEN now ELSE last_hardware_push[a],
         q.assets # << >> => q.assets[1].hardware = hardware[a],
         there = "sleep" =>
           last_hardware_push'[a] > 0 /\ now - last_hardware_push'[a] < HardwareInterval
  PROVE  IInv'
<1>1. Types /\ RecordInv /\ Heard /\ PushedLately /\ PushIsNewest
  BY DEF IInv
<1>2. <<here, there>> \in Moves
  BY DEF Moves
<1>3. /\ at' \in [Agents -> {"register", "heartbeat", "push", "sleep", "stopped"}]
      /\ at[a] = here /\ at'[a] = there /\ \A b \in Agents : b # a => at'[b] = at[b]
      /\ \A kind, time : \A b \in Agents : Posted(kind, b, time) => Posted(kind, b, time)'
  BY <1>1, <1>2, MoveEffect
<1>4. /\ now \in 1..MaxTime /\ now \in Nat
      /\ \A b \in Agents : /\ last_hardware_push[b] \in Nat /\ last_hardware_push[b] <= now
                           /\ disturbed[b] \in Nat /\ disturbed[b] <= now
  BY <1>1, TypeFacts
<1>5. ASSUME q.kind # "register"
      PROVE  ~Posted(q.kind, q.agent, q.time) /\ Posted(q.kind, q.agent, q.time)'
  BY <1>3, <1>4, <1>5 DEF Posted
<1>6. /\ RecordInv' /\ UNCHANGED <<main, block, dropped>>
      /\ late' \subseteq WellFormedRequests
      /\ pending_data' \in Seq(FeedRecords) /\ chain' \in Seq(FeedRecords)
      /\ last_hardware_assets' \in [Agents -> {NoDigest} \union Digests]
      /\ disturbed' \in [Agents -> 1..MaxTime]
      /\ \A b \in Agents : disturbed'[b] = disturbed[b] \/ (b = a /\ disturbed'[b] = now)
      /\ \/ agent_registry' = [agent_registry EXCEPT ![a] = now]
         \/ agent_registry' = agent_registry /\ disturbed'[a] = now
      /\ \A b \in Agents :
           \/ b = a /\ disturbed'[b] = now
           \/ Newest(b, Held') = IF b = a /\ q.assets # << >> THEN q.assets ELSE Newest(b, Held)
  BY <1>1, <1>3, <1>5, PostEffect DEF blockVars
<1>7. /\ agent_registry' \in [Agents -> 0..MaxTime]
      /\ \A b \in Agents : b # a => agent_registry'[b] = agent_registry[b]
      /\ disturbed'[a] # now => agent_registry'[a] = now
  <2>1. agent_registry \in [Agents -> 0..MaxTime] /\ now \in 0..MaxTime
    BY <1>1, <1>4 DEF Types, TypeOK
  <2> QED
    BY <1>6, <2>1
<1>8. Types'
  <2>1. TypeOK'
    <3>1. late' \subseteq Requests
      BY <1>6 DEF WellFormedRequests
    <3>2. \A b \in Agents : last_hardware_assets'[b] = NoDigest
                            \/ last_hardware_assets'[b] \in (0..MaxHardware) \X (1..MaxTime)
      BY <1>6 DEF Digests
    <3>3. /\ hardware \in [Agents -> 0..MaxHardware]
          /\ main \in {"loop", "clear", "append"} /\ block \in Seq(FeedRecords)
          /\ dropped \subseteq FeedRecords
      BY <1>1 DEF Types, TypeOK
    <3> QED
      BY <1>3, <1>4, <1>6, <1>7, <3>1, <3>2, <3>3 DEF TypeOK
  <2>2. ASSUME NEW b \in Agents
        PROVE  last_hardware_push'[b] <= now' /\ disturbed'[b] <= now'
    <3>1. disturbed'[b] = disturbed[b] \/ disturbed'[b] = now
      BY <1>6
    <3>2. last_hardware_push'[b] = last_hardware_push[b] \/ last_hardware_push'[b] = now
      OBVIOUS
    <3> QED
      BY <1>4, <3>1, <3>2
  <2> QED
    BY <1>6, <2>1, <2>2 DEF Types
<1>9. Heard'
  <2> SUFFICES ASSUME NEW b \in Agents, at'[b] \in {"push", "sleep"}, disturbed'[b] < now
               PROVE  agent_registry'[b] = now
    BY DEF Heard
  <2>1. CASE b = a
    BY <1>4, <1>7, <2>1
  <2>2. CASE b # a
    <3>1. disturbed'[b] = disturbed[b]
      BY <1>6, <2>2
    <3> QED
      BY <1>1, <1>3, <1>7, <2>2, <3>1 DEF Heard
  <2> QED
    BY <2>1, <2>2
<1>10. PushedLately'
  BY <1>1, <1>3 DEF PushedLately
<1>11. ASSUME NEW b \in Agents, last_hardware_push'[b] > disturbed'[b]
       PROVE  Newest(b, Held') # << >> /\ Newest(b, Held')[1].hardware = hardware'[b]
  <2>1. last_hardware_push'[b] <= now /\ last_hardware_push'[b] \in Nat
    BY <1>4
  <2>2. disturbed'[b] # now /\ disturbed'[b] = disturbed[b]
    BY <1>4, <1>6, <1>11, <2>1
  <2>3. Newest(b, Held') = IF b = a /\ q.assets # << >> THEN q.assets ELSE Newest(b, Held)
    BY <1>6, <2>2
  <2>4. CASE b = a /\ q.assets # << >>
    BY <2>3, <2>4
  <2>5. CASE ~(b = a /\ q.assets # << >>)
    <3>1. last_hardware_push'[b] = last_hardware_push[b]
      BY <2>5
    <3> QED
      BY <1>1, <1>11, <2>2, <2>3, <2>5, <3>1 DEF PushIsNewest
  <2> QED
    BY <2>4, <2>5
<1>12. PushIsNewest'
  BY <1>11 DEF PushIsNewest
<1> QED
  BY <1>6, <1>8, <1>9, <1>10, <1>12 DEF IInv

\* The request of an agent is well formed.
LEMMA RequestType ==
  ASSUME Types, NEW a \in Agents, NEW kind \in {"register", "heartbeat", "metrics"}, NEW assets,
         \/ assets = << >>
         \/ kind = "metrics" /\ \E h \in 0..MaxHardware : assets = <<Asset(a, now, h)>>
  PROVE  /\ Request(kind, a, assets) \in WellFormedRequests
         /\ Request(kind, a, assets).agent = a /\ Request(kind, a, assets).time = now
         /\ Request(kind, a, assets).kind = kind /\ Request(kind, a, assets).assets = assets
<1>1. now \in 1..MaxTime
  BY TypeFacts
<1>2. assets \in Seq(FeedRecords)
  <2>1. << >> \in Seq(FeedRecords)
    BY EmptySeq
  <2>2. \A h \in 0..MaxHardware : Asset(a, now, h) \in FeedRecords
    BY <1>1 DEF Asset, FeedRecords, Kinds
  <2>3. \A r \in FeedRecords : <<r>> \in Seq(FeedRecords)
    OBVIOUS
  <2> QED
    BY <2>1, <2>2, <2>3
<1> QED
  BY <1>1, <1>2 DEF Request, WellFormedRequests, Requests

LEMMA RegisterIInv ==
  ASSUME IInv, NEW a \in Agents, Register(a) \/ SendHeartbeat(a)
  PROVE  IInv'
<1>1. Types
  BY DEF IInv
<1>2. PICK kind \in {"register", "heartbeat"} :
        /\ Post(Request(kind, a, << >>))
        /\ \/ kind = "register" /\ Goto(a, "register", "heartbeat")
           \/ kind = "heartbeat" /\ Goto(a, "heartbeat", "push")
  BY DEF Register, SendHeartbeat
<1>3. PICK q \in WellFormedRequests :
        q = Request(kind, a, << >>) /\ q.agent = a /\ q.time = now /\ q.kind = kind /\ q.assets = << >>
  BY <1>1, RequestType
<1>4. now' = now /\ hardware' = hardware /\ last_hardware_push' = last_hardware_push
  BY DEF Register, SendHeartbeat
<1>5. Post(q)
  BY <1>2, <1>3
<1>6. last_hardware_push \in [Agents -> 0..MaxTime]
  BY <1>1 DEF Types, TypeOK
<1>7. CASE kind = "register" /\ Goto(a, "register", "heartbeat")
  BY <1>3, <1>4, <1>5, <1>6, <1>7, PostStep
<1>8. CASE kind = "heartbeat" /\ Goto(a, "heartbeat", "push")
  BY <1>3, <1>4, <1>5, <1>6, <1>8, PostStep
<1> QED
  BY <1>2, <1>7, <1>8

LEMMA PushMetricsIInv ==
  ASSUME IInv, NEW a \in Agents, PushMetrics(a)
  PROVE  IInv'
<1>1. Types
  BY DEF IInv
<1> DEFINE asset == Asset(a, now, hardware[a])
           assets == IF HardwareDue(a) THEN <<asset>> ELSE << >>
<1>2. /\ Goto(a, "push", "sleep") /\ Post(Request("metrics", a, assets))
      /\ last_hardware_push' =
           [last_hardware_push EXCEPT ![a] = IF HardwareDue(a) THEN now ELSE @]
      /\ now' = now /\ hardware' = hardware
  BY DEF PushMetrics, Asset
<1>3. hardware[a] \in 0..MaxHardware /\ asset.hardware = hardware[a]
  BY <1>1, TypeFacts DEF Asset
<1>4. assets = << >> \/ \E h \in 0..MaxHardware : assets = <<Asset(a, now, h)>>
  BY <1>3
<1>5. PICK q \in WellFormedRequests :
        /\ q = Request("metrics", a, assets)
        /\ q.agent = a /\ q.time = now /\ q.kind = "metrics" /\ q.assets = assets
  <2> HIDE DEF assets
  <2> QED
    BY <1>1, <1>4, RequestType
<1>6. Post(q)
  BY <1>2, <1>5
<1>7. /\ q.assets # << >> <=> HardwareDue(a)
      /\ q.assets # << >> => q.assets[1].hardware = hardware[a]
  BY <1>3, <1>5
<1>8. /\ now \in 1..MaxTime /\ now \in Nat /\ last_hardware_push[a] \in Nat
      /\ last_hardware_push \in [Agents -> 0..MaxTime]
  BY <1>1, TypeFacts DEF Types, TypeOK
<1>9. /\ last_hardware_push' \in [Agents -> 0..MaxTime]
      /\ \A b \in Agents : b # a => last_hardware_push'[b] = last_hardware_push[b]
      /\ last_hardware_push'[a] = IF q.assets # << >> THEN now ELSE last_hardware_push[a]
  BY <1>2, <1>7, <1>8
<1>10. last_hardware_push'[a] > 0 /\ now - last_hardware_push'[a] < HardwareInterval
  <2>1. HardwareInterval \in Nat \ {0}
    BY HardwareIntervalAssumption
  <2>2. CASE HardwareDue(a)
    BY <1>7, <1>8, <1>9, <2>1, <2>2
  <2>3. CASE ~HardwareDue(a)
    BY <1>7, <1>8, <1>9, <2>1, <2>3 DEF HardwareDue
  <2> QED
    BY <2>2, <2>3
<1> QED
  BY <1>2, <1>5, <1>6, <1>7, <1>9, <1>10, PostStep

\* A step that is none of the server's: records, table and late posts stay.
LEMMA ServerUnchanged ==
  ASSUME Types, RecordInv, UNCHANGED <<late, serverVars>>,
         \A kind : \A time \in 1..MaxTime, a \in Agents :
           Posted(kind, a, time) => Posted(kind, a, time)'
  PROVE  /\ RecordInv' /\ Held' = Held /\ late' \subseteq WellFormedRequests
         /\ \A a \in Agents : Newest(a, Held') = Newest(a, Held)
<1>1. /\ UNCHANGED <<late, agent_registry, last_hardware_assets, pending_data, chain>>
      /\ UNCHANGED <<main, block, dropped>> /\ Held' = Held /\ Recorded' = Recorded
  BY DEF serverVars, blockVars, Held, Sealed, UnderWay, Recorded
<1>2. ASSUME NEW r \in Recorded
      PROVE  Posted(KindOf(r), r.agent, r.time)'
  <2>1. Posted(KindOf(r), r.agent, r.time) /\ r.agent \in Agents /\ r.time \in 1..MaxTime
    BY TypeFacts DEF RecordInv, NothingEarly, FeedRecords
  <2> QED
    BY <2>1
<1>3. ASSUME NEW q \in late, q.kind # "register"
      PROVE  Posted(q.kind, q.agent, q.time)'
  <2>1. q.agent \in Agents /\ q.time \in 1..MaxTime
    BY RequestFacts DEF Types
  <2>2. Posted(q.kind, q.agent, q.time)
    BY <1>3 DEF RecordInv, NothingEarly
  <2> QED
    BY <2>1, <2>2
<1>4. NothingEarly'
  BY <1>1, <1>2, <1>3 DEF NothingEarly
<1>5. LateOnce' /\ SuppressedIsRecorded' /\ NothingTwice' /\ Copied'
  BY <1>1 DEF RecordInv, LateOnce, SuppressedIsRecorded, NothingTwice, Copied, Digest
<1> QED
  BY <1>1, <1>4, <1>5 DEF RecordInv, Types

LEMMA StopIInv ==
  ASSUME IInv, NEW a \in Agents, Stop(a)
  PROVE  IInv'
<1>1. Types /\ RecordInv /\ Heard /\ PushedLately /\ PushIsNewest
  BY DEF IInv
<1>2. /\ Goto(a, "sleep", "stopped")
      /\ UNCHANGED <<now, hardware, last_hardware_push, disturbed>>
      /\ UNCHANGED <<late, serverVars>>
  BY DEF Stop
<1>3. <<"sleep", "stopped">> \in Moves
  BY DEF Moves
<1>4. /\ at' \in [Agents -> {"register", "heartbeat", "push", "sleep", "stopped"}]
      /\ at'[a] = "stopped" /\ \A b \in Agents : b # a => at'[b] = at[b]
      /\ \A kind, time : \A b \in Agents : Posted(kind, b, time) => Posted(kind, b, time)'
  BY <1>1, <1>2, <1>3, MoveEffect
<1>5. /\ RecordInv' /\ late' \subseteq WellFormedRequests
      /\ \A b \in Agents : Newest(b, Held') = Newest(b, Held)
  BY <1>1, <1>2, <1>4, ServerUnchanged
<1>6. Types'
  BY <1>1, <1>2, <1>4 DEF Types, TypeOK, serverVars, blockVars
<1>7. Heard' /\ PushedLately'
  BY <1>1, <1>2, <1>4 DEF Heard, PushedLately, serverVars
<1>8. PushIsNewest'
  BY <1>1, <1>2, <1>5 DEF PushIsNewest
<1> QED
  BY <1>5, <1>6, <1>7, <1>8 DEF IInv

LEMMA ChangeHardwareIInv ==
  ASSUME IInv, NEW a \in Agents, ChangeHardware(a)
  PROVE  IInv'
<1>1. Types /\ RecordInv /\ Heard /\ PushedLately /\ PushIsNewest
  BY DEF IInv
<1>2. /\ hardware[a] < MaxHardware /\ hardware' = [hardware EXCEPT ![a] = @ + 1]
      /\ Disturb({a})
      /\ UNCHANGED <<now, at, last_hardware_push>> /\ UNCHANGED <<late, serverVars>>
  BY DEF ChangeHardware
<1>3. /\ now \in 1..MaxTime /\ now \in Nat /\ MaxHardware \in Nat
      /\ \A b \in Agents : /\ last_hardware_push[b] \in Nat /\ last_hardware_push[b] <= now
                           /\ disturbed[b] \in Nat /\ disturbed[b] <= now
                           /\ hardware[b] \in 0..MaxHardware
  BY <1>1, TypeFacts
<1>4. /\ disturbed' \in [Agents -> 1..MaxTime]
      /\ disturbed'[a] = now /\ \A b \in Agents : b # a => disturbed'[b] = disturbed[b]
  BY <1>1, <1>2, DisturbEffect
<1>5. /\ RecordInv' /\ late' \subseteq WellFormedRequests
      /\ \A b \in Agents : Newest(b, Held') = Newest(b, Held)
  BY <1>1, <1>2, ServerUnchanged DEF Posted
<1>6. /\ hardware' \in [Agents -> 0..MaxHardware]
      /\ \A b \in Agents : b # a => hardware'[b] = hardware[b]
  <2>1. hardware \in [Agents -> 0..MaxHardware] /\ hardware[a] + 1 \in 0..MaxHardware
    BY <1>1, <1>2, <1>3 DEF Types, TypeOK
  <2> QED
    BY <1>2, <2>1
<1>7. Types'
  <2>1. TypeOK'
    BY <1>1, <1>2, <1>4, <1>6 DEF Types, TypeOK, serverVars, blockVars
  <2>2. \A b \in Agents : disturbed'[b] <= now
    BY <1>3, <1>4
  <2> QED
    BY <1>1, <1>2, <2>1, <2>2 DEF Types, serverVars
<1>8. Heard' /\ PushedLately'
  BY <1>1, <1>2, <1>3, <1>4 DEF Heard, PushedLately, serverVars
<1>9. ASSUME NEW b \in Agents, last_hardware_push'[b] > disturbed'[b]
      PROVE  Newest(b, Held') # << >> /\ Newest(b, Held')[1].hardware = hardware'[b]
  <2>1. b # a
    BY <1>2, <1>3, <1>4, <1>9
  <2> QED
    BY <1>1, <1>2, <1>4, <1>5, <1>6, <1>9, <2>1 DEF PushIsNewest
<1>10. PushIsNewest'
  BY <1>9 DEF PushIsNewest
<1> QED
  BY <1>5, <1>7, <1>8, <1>10 DEF IInv

\* In a new interval nothing has been posted yet, and what was posted is past.
LEMMA TickIInv ==
  ASSUME IInv, Tick
  PROVE  IInv'
<1>1. Types /\ RecordInv /\ Heard /\ PushedLately /\ PushIsNewest
  BY DEF IInv
<1>2. PICK started \in SUBSET {a \in Agents : at[a] = "stopped"} :
        /\ at' = [a \in Agents |-> IF a \in started THEN "register"
                                   ELSE IF at[a] = "sleep" THEN "heartbeat" ELSE at[a]]
        /\ last_hardware_push' =
             [a \in Agents |-> IF a \in started THEN 0 ELSE last_hardware_push[a]]
  BY DEF Tick
<1>3. /\ now < MaxTime /\ now' = now + 1 /\ \A a \in Agents : at[a] \in {"sleep", "stopped"}
      /\ UNCHANGED <<hardware, disturbed>> /\ UNCHANGED <<late, serverVars>>
  BY DEF Tick
<1>4. /\ now \in Nat /\ MaxTime \in Nat
      /\ \A b \in Agents : /\ last_hardware_push[b] \in Nat /\ last_hardware_push[b] <= now
                           /\ disturbed[b] \in Nat /\ disturbed[b] <= now
  BY <1>1, TypeFacts
<1>5. now' \in 1..MaxTime
  BY <1>3, <1>4
<1>6. /\ at' \in [Agents -> {"register", "heartbeat", "push", "sleep", "stopped"}]
      /\ \A a \in Agents : at'[a] \in {"register", "heartbeat", "stopped"}
  BY <1>2, <1>3
<1>7. /\ last_hardware_push' \in [Agents -> 0..MaxTime]
      /\ \A a \in Agents : last_hardware_push'[a] = last_hardware_push[a] \/ last_hardware_push'[a] = 0
  <2>1. last_hardware_push \in [Agents -> 0..MaxTime] /\ 0 \in 0..MaxTime
    BY <1>1, <1>4 DEF Types, TypeOK
  <2> QED
    BY <1>2, <2>1
<1>8. /\ RecordInv' /\ late' \subseteq WellFormedRequests
      /\ \A b \in Agents : Newest(b, Held') = Newest(b, Held)
  <2>1. ASSUME NEW kind, NEW time \in 1..MaxTime, NEW a \in Agents, Posted(kind, a, time)
        PROVE  Posted(kind, a, time)'
    BY <1>3, <1>4, <2>1 DEF Posted
  <2> QED
    BY <1>1, <1>3, <2>1, ServerUnchanged
<1>9. Types'
  <2>1. TypeOK'
    BY <1>1, <1>3, <1>5, <1>6, <1>7 DEF Types, TypeOK, serverVars, blockVars
  <2>2. \A a \in Agents : last_hardware_push'[a] <= now' /\ disturbed'[a] <= now'
    BY <1>3, <1>4, <1>7
  <2> QED
    BY <1>1, <1>3, <1>8, <2>1, <2>2 DEF Types, serverVars
<1>10. Heard' /\ PushedLately'
  BY <1>6 DEF Heard, PushedLately
<1>11. PushIsNewest'
  BY <1>1, <1>3, <1>4, <1>7, <1>8 DEF PushIsNewest
<1> QED
  BY <1>8, <1>9, <1>10, <1>11 DEF IInv

-----------------------------------------------------------------------------
(* The rest of the server.                                                 *)

\* A late post brings what is not on record yet; its agent counts as disturbed.
LEMMA HandleLateIInv ==
  ASSUME IInv, NEW q \in late, HandleLate(q)
  PROVE  IInv'
<1>1. Types /\ RecordInv /\ Heard /\ PushedLately /\ PushIsNewest
  BY DEF IInv
<1>2. /\ late' = late \ {q} /\ Handle(q) /\ Disturb({q.agent})
      /\ UNCHANGED <<now, at, hardware, last_hardware_push>>
  BY DEF HandleLate, agentVars
<1>3. q \in WellFormedRequests /\ q.agent \in Agents
  BY <1>1, RequestFacts DEF Types
<1>4. ASSUME q.kind # "register"
      PROVE  /\ Posted(q.kind, q.agent, q.time)'
             /\ \A r \in Recorded : ~CameWith(r, q)
             /\ \A p \in late' : p.kind = q.kind => ~(p.agent = q.agent /\ p.time = q.time)
  <2>1. Posted(q.kind, q.agent, q.time)'
    BY <1>1, <1>2, <1>4 DEF RecordInv, NothingEarly, Posted
  <2> QED
    BY <1>1, <1>2, <1>4, <2>1 DEF RecordInv, LateOnce
<1>5. RecordInv'
  <2>1. \A kind, time : \A a \in Agents : Posted(kind, a, time) => Posted(kind, a, time)'
    BY <1>2 DEF Posted
  <2> QED
    BY <1>1, <1>2, <1>3, <1>4, <2>1, HandleRecords
<1>6. /\ pending_data' \in Seq(FeedRecords) /\ chain' \in Seq(FeedRecords)
      /\ UNCHANGED <<main, block, dropped>>
      /\ last_hardware_assets' \in [Agents -> {NoDigest} \union Digests]
      /\ agent_registry' = [agent_registry EXCEPT ![q.agent] = now]
      /\ \A a \in Agents : a # q.agent => Newest(a, Held') = Newest(a, Held)
  BY <1>1, <1>2, <1>3, <1>4, HandleEffect DEF RecordInv, blockVars
<1>7. /\ now \in 1..MaxTime /\ now \in Nat
      /\ \A b \in Agents : /\ last_hardware_push[b] \in Nat /\ last_hardware_push[b] <= now
                           /\ disturbed[b] \in Nat /\ disturbed[b] <= now
  BY <1>1, TypeFacts
<1>8. /\ disturbed' \in [Agents -> 1..MaxTime]
      /\ disturbed'[q.agent] = now
      /\ \A b \in Agents : b # q.agent => disturbed'[b] = disturbed[b]
  BY <1>1, <1>2, <1>3, DisturbEffect
<1>9. /\ agent_registry' \in [Agents -> 0..MaxTime]
      /\ \A b \in Agents : b # q.agent => agent_registry'[b] = agent_registry[b]
  <2>1. agent_registry \in [Agents -> 0..MaxTime] /\ now \in 0..MaxTime
    BY <1>1, <1>7 DEF Types, TypeOK
  <2> QED
    BY <1>6, <2>1
<1>10. Types'
  <2>1. late' \subseteq WellFormedRequests /\ late' \subseteq Requests
    BY <1>1, <1>2 DEF Types, WellFormedRequests
  <2>2. \A b \in Agents : last_hardware_assets'[b] = NoDigest
                          \/ last_hardware_assets'[b] \in (0..MaxHardware) \X (1..MaxTime)
    BY <1>6 DEF Digests
  <2>3. TypeOK'
    BY <1>1, <1>2, <1>6, <1>8, <1>9, <2>1, <2>2 DEF Types, TypeOK
  <2>4. \A b \in Agents : disturbed'[b] <= now
    BY <1>3, <1>7, <1>8
  <2> QED
    BY <1>1, <1>2, <1>6, <2>1, <2>3, <2>4 DEF Types
<1>11. Heard'
  <2> SUFFICES ASSUME NEW b \in Agents, at[b] \in {"push", "sleep"}, disturbed'[b] < now
               PROVE  agent_registry'[b] = now
    BY <1>2 DEF Heard
  <2>1. b # q.agent
    BY <1>7, <1>8
  <2>2. disturbed'[b] = disturbed[b] /\ agent_registry'[b] = agent_registry[b]
    BY <1>8, <1>9, <2>1
  <2> QED
    BY <1>1, <2>2 DEF Heard
<1>12. PushedLately'
  BY <1>1, <1>2 DEF PushedLately
<1>13. ASSUME NEW b \in Agents, last_hardware_push'[b] > disturbed'[b]
       PROVE  Newest(b, Held') # << >> /\ Newest(b, Held')[1].hardware = hardware'[b]
  <2>1. b # q.agent
    BY <1>2, <1>7, <1>8, <1>13
  <2> QED
    BY <1>1, <1>2, <1>6, <1>8, <1>13, <2>1 DEF PushIsNewest
<1>14. PushIsNewest'
  BY <1>13 DEF PushIsNewest
<1> QED
  BY <1>5, <1>10, <1>11, <1>12, <1>14 DEF IInv

\* A step of the main loop that moves, and may drop, what is held.
LEMMA SealingStep ==
  ASSUME IInv, UNCHANGED Elsewhere,
         main' \in {"loop", "clear", "append"},
         {pending_data', block', chain'} \subseteq Seq(FeedRecords),
         dropped' \subseteq FeedRecords, Recorded' \subseteq Recorded,
         SuppressedIsRecorded', NothingTwice', Copied',
         disturbed' \in [Agents -> 1..MaxTime],
         \A a \in Agents : /\ disturbed'[a] \in {disturbed[a], now}
                           /\ disturbed'[a] # now => Newest(a, Held') = Newest(a, Held)
  PROVE  IInv'
<1>1. Types /\ RecordInv /\ Heard /\ PushedLately /\ PushIsNewest
  BY DEF IInv
<1>2. UNCHANGED <<now, at, hardware, last_hardware_push, late, agent_registry,
                  last_hardware_assets>>
  BY DEF Elsewhere, agentVars
<1>3. /\ now \in Nat
      /\ \A a \in Agents : /\ last_hardware_push[a] \in Nat /\ last_hardware_push[a] <= now
                           /\ disturbed[a] \in Nat /\ disturbed[a] <= now
  BY <1>1, TypeFacts
<1>4. \A a \in Agents : disturbed'[a] <= now /\ disturbed'[a] >= disturbed[a]
  BY <1>3
<1>5. Types'
  <2>1. TypeOK'
    BY <1>1, <1>2 DEF Types, TypeOK
  <2> QED
    BY <1>1, <1>2, <1>4, <2>1 DEF Types
<1>7. NothingEarly' /\ LateOnce'
  BY <1>1, <1>2 DEF RecordInv, NothingEarly, LateOnce, Posted
<1>8. Heard' /\ PushedLately'
  BY <1>1, <1>2, <1>3, <1>4 DEF Heard, PushedLately
<1>9. ASSUME NEW a \in Agents, last_hardware_push'[a] > disturbed'[a]
      PROVE  Newest(a, Held') # << >> /\ Newest(a, Held')[1].hardware = hardware'[a]
  <2>1. disturbed'[a] # now /\ last_hardware_push[a] > disturbed[a]
    BY <1>2, <1>3, <1>4, <1>9
  <2> QED
    BY <1>1, <1>2, <2>1 DEF PushIsNewest
<1>10. PushIsNewest'
  BY <1>9 DEF PushIsNewest
<1> QED
  BY <1>5, <1>7, <1>8, <1>10 DEF IInv, RecordInv

\* The copy of the pool changes nothing of what is held.
LEMMA CreateBlockIInv ==
  ASSUME IInv, CreateBlock
  PROVE  IInv'
<1>1. Types /\ RecordInv
  BY DEF IInv
<1>2. /\ main = "loop" /\ main' = "clear" /\ block' = pending_data
      /\ UNCHANGED Elsewhere /\ UNCHANGED <<disturbed, pending_data, chain, dropped>>
  BY DEF CreateBlock
<1>3. Held' = Held /\ Recorded' = Recorded
  BY <1>2 DEF Held, Sealed, UnderWay, Recorded
<1>4. /\ pending_data \in Seq(FeedRecords) /\ chain \in Seq(FeedRecords)
      /\ dropped \subseteq FeedRecords /\ disturbed \in [Agents -> 1..MaxTime]
  BY <1>1 DEF Types, TypeOK
<1>5. Copied'
  <2>1. pending_data \o << >> = pending_data /\ << >> \in Seq(FeedRecords)
    BY <1>4, ConcatEmptySeq, EmptySeq
  <2> QED
    BY <1>2, <2>1 DEF Copied
<1>6. NothingTwice' /\ SuppressedIsRecorded'
  BY <1>1, <1>2, <1>3 DEF RecordInv, NothingTwice, Elsewhere, SuppressedIsRecorded, Recorded, Digest
<1> QED
  BY <1>2, <1>3, <1>4, <1>5, <1>6, SealingStep

\* What came to the pool since the copy is dropped; an agent whose asset is
\* dropped counts as disturbed.
LEMMA ClearPoolIInv ==
  ASSUME IInv, ClearPool
  PROVE  IInv'
<1>1. Types /\ RecordInv
  BY DEF IInv
<1>2. /\ main = "clear" /\ main' = "append" /\ pending_data' = << >>
      /\ dropped' = dropped \union Overrun /\ Disturb({r.agent : r \in Overrun})
      /\ UNCHANGED Elsewhere /\ UNCHANGED <<block, chain>>
  BY DEF ClearPool
<1>3. PICK rest \in Seq(FeedRecords) : pending_data = block \o rest
  BY <1>1, <1>2 DEF RecordInv, Copied
<1>4. /\ chain \in Seq(FeedRecords) /\ block \in Seq(FeedRecords)
      /\ chain \o block \in Seq(FeedRecords) /\ << >> \in Seq(FeedRecords)
      /\ dropped \subseteq FeedRecords
  BY <1>1, ConcatProperties, EmptySeq DEF Types, TypeOK
<1> DEFINE sealed == chain \o block
<1>5. Held = sealed \o rest /\ Held' = sealed
  <2>1. Held = (chain \o << >>) \o (block \o rest) /\ Held' = (chain \o block) \o << >>
    BY <1>2, <1>3 DEF Held, Sealed, UnderWay
  <2>2. /\ chain \o << >> = chain /\ chain \o (block \o rest) = (chain \o block) \o rest
        /\ (chain \o block) \o << >> = chain \o block
    BY <1>4, ConcatEmptySeq, Association
  <2> QED
    BY <2>1, <2>2
<1>6. /\ ToSet(sealed) = ToSet(chain) \union ToSet(block)
      /\ ToSet(pending_data) = ToSet(block) \union ToSet(rest)
  BY <1>3, <1>4, ConcatElements
<1> HIDE DEF sealed
<1>7. /\ sealed \in Seq(FeedRecords) /\ Len(sealed) \in Nat /\ Len(rest) \in Nat
      /\ DOMAIN sealed = 1..Len(sealed) /\ DOMAIN rest = 1..Len(rest)
      /\ DOMAIN Held = 1..Len(sealed) + Len(rest)
      /\ \A i \in 1..Len(sealed) : Held[i] = sealed[i]
      /\ \A j \in 1..Len(rest) : Held[Len(sealed) + j] = rest[j]
      /\ ToSet(Held) = ToSet(sealed) \union ToSet(rest)
  <2>1. sealed \in Seq(FeedRecords)
    BY <1>4 DEF sealed
  <2> QED
    BY <1>5, <2>1, ConcatElements
<1>8. NothingTwice'
  <2>1. \A i \in DOMAIN sealed : i \in DOMAIN Held /\ Held[i] = sealed[i]
    BY <1>7
  <2> QED
    BY <1>1, <1>5, <2>1 DEF RecordInv, NothingTwice
<1>9. \A r \in ToSet(rest) : r \notin ToSet(block)
  <2> SUFFICES ASSUME NEW j \in 1..Len(rest), rest[j] \in ToSet(sealed)
               PROVE  FALSE
    BY <1>6, <1>7 DEF ToSet
  <2>1. PICK i \in 1..Len(sealed) : sealed[i] = rest[j]
    BY <1>7 DEF ToSet
  <2>2. Len(sealed) + j \in 1..Len(sealed) + Len(rest) /\ i \in 1..Len(sealed) + Len(rest)
        /\ i # Len(sealed) + j
    BY <1>7
  <2>3. Held[i] = Held[Len(sealed) + j]
    BY <1>7, <2>1
  <2> QED
    BY <1>1, <1>7, <2>2, <2>3 DEF RecordInv, NothingTwice
<1>10. /\ \A r \in ToSet(rest) : r \in FeedRecords
       /\ Overrun = {r \in ToSet(rest) : r.kind = "asset"}
  <2>1. \A r \in ToSet(rest) : r \in FeedRecords
    BY <1>7, ElementOfSeq DEF ToSet
  <2> QED
    BY <1>6, <1>9, <2>1 DEF Overrun
<1>11. /\ {r.agent : r \in Overrun} \in SUBSET Agents
       /\ dropped' \subseteq FeedRecords
  BY <1>2, <1>4, <1>10 DEF FeedRecords
<1>12. /\ disturbed' \in [Agents -> 1..MaxTime]
       /\ \A a \in Agents : disturbed'[a] =
            IF a \in {r.agent : r \in Overrun} THEN now ELSE disturbed[a]
  BY <1>1, <1>2, <1>11, DisturbEffect
<1>13. ASSUME NEW a \in Agents, disturbed'[a] # now
       PROVE  Newest(a, Held') = Newest(a, Held)
  <2>1. a \notin {r.agent : r \in Overrun}
    BY <1>12, <1>13
  <2>2. AssetsOf(a, rest) = {}
    BY <1>7, <1>10, <2>1 DEF AssetsOf, ToSet
  <2>3. Newest(a, rest) = << >>
    BY <2>2 DEF Newest
  <2> QED
    BY <1>5, <1>7, <2>3, NewestConcat
<1>14. Recorded' \subseteq Recorded
  BY <1>2, <1>5, <1>7, <1>10 DEF Recorded
<1>15. Copied'
  BY <1>2 DEF Copied
<1>16. SuppressedIsRecorded'
  <2> SUFFICES ASSUME NEW a \in Agents, last_hardware_assets[a] # NoDigest
               PROVE  \E r \in Recorded' :
                        r.kind = "asset" /\ r.agent = a /\ Digest(r) = last_hardware_assets[a]
    BY <1>2 DEF Elsewhere, SuppressedIsRecorded, Recorded, Digest
  <2>1. PICK r \in Recorded :
          r.kind = "asset" /\ r.agent = a /\ Digest(r) = last_hardware_assets[a]
    BY <1>1 DEF RecordInv, SuppressedIsRecorded, Recorded
  <2>2. r \in Recorded'
    BY <1>2, <1>5, <1>7, <1>10, <2>1 DEF Recorded
  <2> QED
    BY <2>1, <2>2
<1> QED
  BY <1>2, <1>4, <1>8, <1>11, <1>12, <1>13, <1>14, <1>15, <1>16, SealingStep

\* What the block holds goes on the chain: what is held stays the same.
LEMMA AddBlockIInv ==
  ASSUME IInv, AddBlock
  PROVE  IInv'
<1>1. Types /\ RecordInv
  BY DEF IInv
<1>2. /\ main = "append" /\ main' = "loop" /\ block' = << >> /\ chain' = chain \o block
      /\ UNCHANGED Elsewhere /\ UNCHANGED <<disturbed, pending_data, dropped>>
  BY DEF AddBlock
<1>3. /\ pending_data \in Seq(FeedRecords) /\ << >> \in Seq(FeedRecords)
      /\ chain \o block \in Seq(FeedRecords)
      /\ dropped \subseteq FeedRecords /\ disturbed \in [Agents -> 1..MaxTime]
  BY <1>1, ConcatProperties, EmptySeq DEF Types, TypeOK
<1>4. Held' = Held /\ Recorded' = Recorded
  <2>1. Sealed' = (chain \o block) \o << >> /\ Sealed = chain \o block
    BY <1>2 DEF Sealed, UnderWay
  <2>2. Sealed' = Sealed
    BY <1>3, <2>1, ConcatEmptySeq
  <2> QED
    BY <1>2, <2>2 DEF Held, Recorded
<1>5. Copied' /\ NothingTwice'
  BY <1>1, <1>2, <1>4 DEF RecordInv, Copied, NothingTwice
<1>6. SuppressedIsRecorded'
  BY <1>1, <1>2, <1>4 DEF RecordInv, Elsewhere, SuppressedIsRecorded, Recorded, Digest
<1> QED
  BY <1>2, <1>3, <1>4, <1>5, <1>6, SealingStep

\* After a restart only the chain is on record; every agent counts as disturbed.
LEMMA RestartIInv ==
  ASSUME IInv, Restart
  PROVE  IInv'
<1>1. Types /\ RecordInv /\ PushedLately
  BY DEF IInv
<1>2. /\ agent_registry' = [a \in Agents |-> 0]
      /\ last_hardware_assets' = [a \in Agents |-> NoDigest]
      /\ pending_data' = << >> /\ main' = "loop" /\ block' = << >> /\ Disturb(Agents)
      /\ UNCHANGED <<now, at, hardware, last_hardware_push, late, chain, dropped>>
  BY DEF Restart, FreshMemory, FreshBlocks, agentVars
<1>3. /\ now \in 1..MaxTime /\ now \in Nat
      /\ \A b \in Agents : last_hardware_push[b] \in Nat /\ last_hardware_push[b] <= now
  BY <1>1, TypeFacts
<1>4. disturbed' \in [Agents -> 1..MaxTime] /\ \A b \in Agents : disturbed'[b] = now
  BY <1>1, <1>2, DisturbEffect
<1>5. chain \in Seq(FeedRecords) /\ pending_data \in Seq(FeedRecords)
      /\ pending_data' \in Seq(FeedRecords) /\ block' \in Seq(FeedRecords)
      /\ UnderWay \in Seq(FeedRecords) /\ UnderWay \o pending_data \in Seq(FeedRecords)
  BY <1>1, <1>2, TypeFacts, EmptySeq, ConcatProperties DEF Types, TypeOK
<1>6. Held' = chain
  <2>1. Held' = (chain \o << >>) \o << >>
    BY <1>2 DEF Held, Sealed, UnderWay
  <2> QED
    BY <1>5, <2>1, ConcatEmptySeq
<1>7. /\ ToSet(chain) \subseteq ToSet(Held) /\ Recorded' \subseteq Recorded
      /\ \A i \in DOMAIN chain : i \in DOMAIN Held /\ Held[i] = chain[i]
  <2> DEFINE rest == UnderWay \o pending_data
  <2>1. Held = chain \o rest
    <3>1. /\ chain \in Seq(FeedRecords) /\ UnderWay \in Seq(FeedRecords)
          /\ pending_data \in Seq(FeedRecords)
      BY <1>5
    <3>2. chain \o (UnderWay \o pending_data) = (chain \o UnderWay) \o pending_data
      BY <3>1, Association
    <3> QED
      BY <3>2 DEF Held, Sealed
  <2> HIDE DEF rest
  <2>2. /\ Len(chain) \in Nat /\ Len(rest) \in Nat /\ DOMAIN chain = 1..Len(chain)
        /\ DOMAIN Held = 1..Len(chain) + Len(rest)
        /\ \A i \in 1..Len(chain) : Held[i] = chain[i]
        /\ ToSet(Held) = ToSet(chain) \union ToSet(rest)
    <3>1. rest \in Seq(FeedRecords)
      BY <1>5 DEF rest
    <3>2. /\ Len(chain) \in Nat /\ Len(rest) \in Nat /\ DOMAIN chain = 1..Len(chain)
          /\ DOMAIN (chain \o rest) = 1..Len(chain) + Len(rest)
          /\ \A i \in 1..Len(chain) : (chain \o rest)[i] = chain[i]
          /\ ToSet(chain \o rest) = ToSet(chain) \union ToSet(rest)
      BY <1>5, <3>1, ConcatElements
    <3> QED
      BY <2>1, <3>2
  <2>3. ToSet(chain) \subseteq ToSet(Held)
    BY <2>2
  <2>4. \A i \in DOMAIN chain : i \in DOMAIN Held /\ Held[i] = chain[i]
    BY <2>2
  <2> QED
    BY <1>2, <1>6, <2>3, <2>4 DEF Recorded
<1>8. Types'
  <2>1. agent_registry' \in [Agents -> 0..MaxTime]
    <3>1. 0 \in 0..MaxTime
      BY BoundsAssumption
    <3> QED
      BY <1>2, <3>1
  <2>2. /\ last_hardware_assets' \in [Agents -> {NoDigest} \union Digests]
        /\ \A b \in Agents : last_hardware_assets'[b] = NoDigest
    BY <1>2
  <2>3. TypeOK'
    BY <1>1, <1>2, <1>4, <1>5, <2>1, <2>2 DEF Types, TypeOK
  <2>4. \A b \in Agents : disturbed'[b] <= now
    BY <1>3, <1>4
  <2> QED
    BY <1>1, <1>2, <2>2, <2>3, <2>4 DEF Types
<1>9. SuppressedIsRecorded' /\ NothingTwice'
  BY <1>1, <1>2, <1>6, <1>7 DEF RecordInv, SuppressedIsRecorded, NothingTwice
<1>10. NothingEarly' /\ LateOnce' /\ Copied'
  BY <1>1, <1>2, <1>6, <1>7 DEF RecordInv, NothingEarly, LateOnce, Copied, Posted
<1>11. Heard'
  BY <1>2, <1>3, <1>4 DEF Heard
<1>12. PushedLately' /\ PushIsNewest'
  BY <1>1, <1>2, <1>3, <1>4 DEF PushedLately, PushIsNewest
<1> QED
  BY <1>8, <1>9, <1>10, <1>11, <1>12 DEF IInv, RecordInv

-----------------------------------------------------------------------------

LEMMA InitIInv == Init => IInv
<1> SUFFICES ASSUME Init PROVE IInv
  OBVIOUS
<1>1. MaxTime \in Nat \ {0} /\ MaxHardware \in Nat
  BY BoundsAssumption
<1>2. 1 \in 1..MaxTime /\ 0 \in 0..MaxTime /\ 0 \in 0..MaxHardware
  BY <1>1
<1>3. << >> \in Seq(FeedRecords) /\ pending_data = << >> /\ chain = << >>
  BY EmptySeq DEF Init
<1>4. Held = << >> /\ Recorded = {} /\ DOMAIN Held = {}
  <2>1. Held = (<< >> \o << >>) \o << >>
    BY <1>3 DEF Init, Held, Sealed, UnderWay
  <2>2. Held = << >>
    BY <2>1, <1>3, ConcatEmptySeq
  <2> QED
    BY <2>2 DEF Init, ToSet, Recorded
<1>5. Types
  <2>1. TypeOK
    BY <1>2, <1>3 DEF Init, TypeOK
  <2> QED
    BY <2>1 DEF Init, Types
<1>6. RecordInv
  BY <1>4 DEF Init, RecordInv, SuppressedIsRecorded, NothingTwice, NothingEarly, LateOnce, Copied
<1>7. Heard /\ PushedLately /\ PushIsNewest
  BY DEF Init, Heard, PushedLately, PushIsNewest
<1> QED
  BY <1>5, <1>6, <1>7 DEF IInv

LEMMA StutterIInv ==
  ASSUME IInv, UNCHANGED vars
  PROVE  IInv'
<1>1. UNCHANGED <<now, at, hardware, last_hardware_push, disturbed, late, agent_registry,
                  last_hardware_assets, pending_data, main, block, chain, dropped>>
  BY DEF vars, agentVars, serverVars, blockVars
<1>2. Held' = Held /\ Recorded' = Recorded
  BY <1>1 DEF Held, Sealed, UnderWay, Recorded
<1>3. Types'
  BY <1>1 DEF IInv, Types, TypeOK
<1>4. RecordInv'
  BY <1>1, <1>2 DEF IInv, RecordInv, SuppressedIsRecorded, NothingTwice, NothingEarly, LateOnce,
                    Copied, Posted, Digest
<1>5. Heard' /\ PushedLately' /\ PushIsNewest'
  BY <1>1, <1>2 DEF IInv, Heard, PushedLately, PushIsNewest
<1> QED
  BY <1>3, <1>4, <1>5 DEF IInv

LEMMA StepIInv == IInv /\ [Next]_vars => IInv'
<1> SUFFICES ASSUME IInv, [Next]_vars PROVE IInv'
  OBVIOUS
<1>1. ASSUME NEW a \in Agents,
             Register(a) \/ SendHeartbeat(a) \/ PushMetrics(a) \/ Stop(a) \/ ChangeHardware(a)
      PROVE  IInv'
  BY <1>1, RegisterIInv, PushMetricsIInv, StopIInv, ChangeHardwareIInv
<1>2. ASSUME NEW q \in late, HandleLate(q)
      PROVE  IInv'
  BY <1>2, HandleLateIInv
<1> QED
  BY <1>1, <1>2, TickIInv, CreateBlockIInv, ClearPoolIInv, AddBlockIInv, RestartIInv, StutterIInv DEF Next

LEMMA Invariance == Spec => []IInv
BY InitIInv, StepIInv, PTL DEF Spec

\* The newest asset held is what the dashboard shows, or is in the block under way.
LEMMA NewestIsShown ==
  ASSUME Types, NEW a \in Agents
  PROVE  Newest(a, Held) \in {ShownAsset(a), Newest(a, UnderWay)}
<1>1. /\ chain \in Seq(FeedRecords) /\ pending_data \in Seq(FeedRecords)
      /\ UnderWay \in Seq(FeedRecords) /\ Sealed \in Seq(FeedRecords)
  BY TypeFacts DEF Types, TypeOK
<1>2. /\ Newest(a, Held) = IF Newest(a, pending_data) # << >> THEN Newest(a, pending_data)
                           ELSE Newest(a, Sealed)
      /\ Newest(a, Sealed) = IF Newest(a, UnderWay) # << >> THEN Newest(a, UnderWay)
                             ELSE Newest(a, chain)
  BY <1>1, NewestConcat DEF Held, Sealed
<1> QED
  BY <1>2 DEF ShownAsset

-----------------------------------------------------------------------------

\* Every reachable state of agents and server is well typed; what is late or on
\* record is of an agent and of a time that was.
THEOREM TypeCorrect == Spec => []TypeOK
<1>1. IInv => TypeOK
  BY DEF IInv, Types
<1> QED
  BY <1>1, Invariance, PTL

\* Whatever is lost or late, whatever the main loop is doing with the pool and
\* however often the server is started again: an asset that it would not record
\* again is in the pool, in the block under way or on the chain, or came between
\* the copy and the clearing of the pool.
THEOREM SuppressedAssetsAreRecorded == Spec => []SuppressedIsRecorded
<1>1. IInv => SuppressedIsRecorded
  BY DEF IInv, RecordInv
<1> QED
  BY <1>1, Invariance, PTL

\* For any number of posts that the agents gave up on and that run late, in any
\* order: nothing an agent measured gets on record twice.
THEOREM NothingRecordedTwice == Spec => []NothingTwice
<1>1. IInv => NothingTwice
  BY DEF IInv, RecordInv
<1> QED
  BY <1>1, Invariance, PTL

\* For any push interval: one cycle after the last disturbance the server lists
\* every running agent, and one push interval after it the dashboard shows the
\* hardware the device has, unless the asset is in the block under way.
THEOREM FeedRecovers == Spec => []Recovers
<1>1. IInv => Recovers
  <2> SUFFICES ASSUME IInv, NEW a \in Agents
               PROVE  /\ Settled(a, 1) => agent_registry[a] = now
                      /\ Settled(a, HardwareInterval) =>
                           IsCurrent(ShownAsset(a), a) \/ IsCurrent(Newest(a, UnderWay), a)
    BY DEF Recovers
  <2>1. Types /\ Heard /\ PushedLately /\ PushIsNewest
    BY DEF IInv
  <2>2. now \in Nat /\ disturbed[a] \in Nat /\ last_hardware_push[a] \in Nat
    BY <2>1, TypeFacts
  <2>3. Settled(a, 1) => agent_registry[a] = now
    BY <2>1, <2>2 DEF Settled, Heard
  <2>4. ASSUME Settled(a, HardwareInterval)
        PROVE  IsCurrent(ShownAsset(a), a) \/ IsCurrent(Newest(a, UnderWay), a)
    <3>1. now - last_hardware_push[a] < HardwareInterval /\ now - disturbed[a] >= HardwareInterval
      BY <2>1, <2>4 DEF Settled, PushedLately
    <3>2. last_hardware_push[a] > disturbed[a]
      BY <2>2, <3>1, HardwareIntervalAssumption
    <3>3. Newest(a, Held) # << >> /\ Newest(a, Held)[1].hardware = hardware[a]
      BY <2>1, <3>2 DEF PushIsNewest
    <3> QED
      BY <2>1, <3>3, NewestIsShown DEF IsCurrent
  <2> QED
    BY <2>3, <2>4
<1> QED
  BY <1>1, Invariance, PTL

=============================================================================
