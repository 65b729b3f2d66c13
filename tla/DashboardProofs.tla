---------------------------- MODULE DashboardProofs ----------------------------
(***************************************************************************)
(* Proofs about the two modules in which the dashboard reads a chain that  *)
(* grows: Views, record by record beside the threads that fill and empty   *)
(* the pool, and Pages, page by page with answers in any order.            *)
(***************************************************************************)
EXTENDS Views, Pages, SequenceTheorems, WellFoundedInduction, TLAPS

-----------------------------------------------------------------------------
(* The arithmetic of api_blocks.                                           *)

\* As many pages as the answer says hold the whole chain.
LEMMA PagesHoldAll ==
  ASSUME NEW n \in Nat
  PROVE  TotalPages(n) \in Nat /\ n <= TotalPages(n) * PageSize
<1>1. \A s \in Nat \ {0}, m \in Nat : m \div s \in Nat /\ m < (m \div s) * s + s
  OBVIOUS
<1>2. n + PageSize - 1 \in Nat /\ PageSize \in Nat \ {0}
  BY PageSizeAssumption
<1> DEFINE q == (n + PageSize - 1) \div PageSize
<1>3. q \in Nat /\ n + PageSize - 1 < q * PageSize + PageSize
  BY <1>1, <1>2
<1>4. q * PageSize \in Nat
  BY <1>2, <1>3
<1>5. n <= q * PageSize
  <2> HIDE DEF q
  <2> QED
    BY <1>2, <1>3, <1>4
<1> QED
  BY <1>3, <1>5 DEF TotalPages

\* The bounds of a page, without the clamping: page p ends where page p - 1
\* starts, and starts PageSize blocks earlier.
LEMMA PageBounds ==
  ASSUME NEW n \in Nat, NEW p \in Nat \ {0}
  PROVE  /\ PageEnd(n, p) = AtLeastZero(n - (p - 1) * PageSize)
         /\ PageStart(n, p) = AtLeastZero(n - p * PageSize)
         /\ PageStart(n, p) \in Nat /\ PageEnd(n, p) \in 0..n
         /\ PageStart(n, p) <= PageEnd(n, p)
<1> DEFINE before == (p - 1) * PageSize
<1>1. before \in Nat /\ PageSize \in Nat \ {0} /\ p * PageSize = before + PageSize
  BY PageSizeAssumption
<1> HIDE DEF before
<1>2. PageEnd(n, p) = AtLeastZero(n - before)
  BY DEF PageEnd, before
<1>3. PageStart(n, p) = AtLeastZero(n - (before + PageSize))
  BY <1>1, <1>2 DEF PageStart, AtLeastZero
<1> QED
  BY <1>1, <1>2, <1>3 DEF AtLeastZero, before

\* The last page starts at the genesis block.
LEMMA LastPageStart ==
  ASSUME NEW n \in Nat, NEW p \in Nat \ {0}, p >= TotalPages(n)
  PROVE  PageStart(n, p) = 0
<1>1. TotalPages(n) \in Nat /\ n <= TotalPages(n) * PageSize
  BY PagesHoldAll
<1>2. TotalPages(n) * PageSize <= p * PageSize
  <2> DEFINE d == p - TotalPages(n)
  <2>1. d \in Nat /\ p = TotalPages(n) + d
    BY <1>1
  <2> HIDE DEF d
  <2>2. p * PageSize = TotalPages(n) * PageSize + d * PageSize /\ d * PageSize >= 0
    BY <1>1, <2>1, PageSizeAssumption
  <2> QED
    BY <1>1, <2>2, PageSizeAssumption
<1>3. PageStart(n, p) = AtLeastZero(n - p * PageSize)
  BY PageBounds
<1> QED
  BY <1>1, <1>2, <1>3, PageSizeAssumption DEF AtLeastZero

-----------------------------------------------------------------------------
(* The invariant.                                                          *)

\* What has been seen reaches without a gap from the start of the page on
\* display to the newest block of the beginning.  That a page was counted from
\* an older length does not matter: the start of the next can only be later.
SeenFromStart ==
  first > 0 => total > 0 /\ PageStart(total, page) .. first - 1 \subseteq seen

\* Whatever answer is displayed next, nothing is missing above its page.
RequestsReach ==
  first > 0 => \A q \in requests : PageEnd(q.length, q.page) .. first - 1 \subseteq seen

PagesInv == PagesTypeOK /\ SeenFromStart /\ RequestsReach

LEMMA InitPages == PagesInit => PagesInv
BY MaxBlocksAssumption DEF PagesInit, PagesInv, PagesTypeOK, SeenFromStart, RequestsReach

\* The types as the steps below use them.
LEMMA PagesTypes ==
  ASSUME PagesTypeOK
  PROVE  /\ length \in Nat \ {0} /\ length <= MaxBlocks
         /\ total \in Nat /\ total <= length
         /\ first \in Nat /\ first <= length
         /\ page \in Nat \ {0}
         /\ \A q \in requests :
              /\ q.page \in Nat \ {0} /\ q.length \in Nat \ {0} /\ q.length <= length
              /\ q.at \in {"sent", "answered"}
              /\ q = [page |-> q.page, at |-> q.at, length |-> q.length]
         /\ \A h \in seen : h \in Nat /\ h < length
<1>1. MaxBlocks \in Nat
  BY MaxBlocksAssumption
<1>2. length \in 1..MaxBlocks /\ total \in 0..length /\ first \in 0..length
      /\ page \in Nat \ {0} /\ seen \subseteq 0 .. length - 1
  BY DEF PagesTypeOK
<1>3. length \in Nat \ {0} /\ length <= MaxBlocks
  BY <1>1, <1>2
<1>4. ASSUME NEW q \in requests
      PROVE  /\ q.page \in Nat \ {0} /\ q.length \in 1..length /\ q.at \in {"sent", "answered"}
             /\ q = [page |-> q.page, at |-> q.at, length |-> q.length]
  <2>1. q \in [page : Nat \ {0}, at : {"sent", "answered"}, length : 1..length]
    BY <1>4 DEF PagesTypeOK
  <2> QED
    BY <2>1
<1> QED
  BY <1>2, <1>3, <1>4

\* A page that is at most the next one to that on display ends, counted from the
\* present length, no earlier than where that on display starts.
LEMMA EndsAboveStart ==
  ASSUME PagesTypeOK, NEW p \in Nat \ {0}, p <= page + 1
  PROVE  PageEnd(length, p) >= PageStart(total, page)
<1> DEFINE above == (p - 1) * PageSize
           upTo == page * PageSize
<1>1. above \in Nat /\ upTo \in Nat /\ above <= upTo
  <2>1. PICK d \in Nat : page = (p - 1) + d
    <3>1. page - (p - 1) \in Nat /\ page = (p - 1) + (page - (p - 1))
      BY PagesTypes
    <3> QED
      BY <3>1
  <2>2. upTo = above + d * PageSize /\ d * PageSize \in Nat /\ above \in Nat
    BY PagesTypes, <2>1, PageSizeAssumption
  <2> HIDE DEF above, upTo
  <2> QED
    BY <2>2
<1>2. PageEnd(length, p) = AtLeastZero(length - above)
  BY DEF PageEnd
<1>3. PageStart(total, page) = AtLeastZero(total - upTo)
  BY PagesTypes, PageBounds
<1> HIDE DEF above, upTo
<1> QED
  BY PagesTypes, <1>1, <1>2, <1>3 DEF AtLeastZero

\* Asking for such a page keeps the invariant.
LEMMA LoadPageKeeps ==
  ASSUME PagesInv, NEW p \in Nat, p <= page + 1, LoadPage(p)
  PROVE  PagesInv'
<1>1. PagesTypeOK /\ SeenFromStart /\ RequestsReach
  BY DEF PagesInv
<1> DEFINE r == [page |-> AtLeastOne(p), at |-> "sent", length |-> length]
<1>2. requests' = requests \union {r} /\ UNCHANGED <<length, page, total, first, seen>>
  BY DEF LoadPage, readerVars
<1>3. r.page \in Nat \ {0} /\ r.page <= page + 1 /\ r.length = length
  BY <1>1, PagesTypes DEF AtLeastOne
<1>4. r \in [page : Nat \ {0}, at : {"sent", "answered"}, length : 1..length]
  BY <1>1, <1>3, PagesTypes
<1>5. PagesTypeOK'
  <2> HIDE DEF r
  <2> QED
    BY <1>1, <1>2, <1>4 DEF PagesTypeOK
<1>6. first > 0 => PageEnd(r.length, r.page) .. first - 1 \subseteq seen
  <2>1. PageEnd(length, r.page) >= PageStart(total, page)
    BY <1>1, <1>3, EndsAboveStart
  <2>2. PageStart(total, page) \in Nat /\ PageEnd(length, r.page) \in Nat
    BY <1>1, <1>3, PagesTypes, PageBounds
  <2> HIDE DEF r
  <2> QED
    BY <1>1, <1>3, <2>1, <2>2, PagesTypes DEF SeenFromStart
<1>7. SeenFromStart' /\ RequestsReach'
  <2> HIDE DEF r
  <2> QED
    BY <1>1, <1>2, <1>6 DEF SeenFromStart, RequestsReach
<1> QED
  BY <1>5, <1>7 DEF PagesInv

\* Counting from a greater length moves the end of a page up.
LEMMA ServeKeeps ==
  ASSUME PagesInv, NEW q \in requests, Serve(q)
  PROVE  PagesInv'
<1>1. PagesTypeOK /\ SeenFromStart /\ RequestsReach
  BY DEF PagesInv
<1> DEFINE a == [q EXCEPT !.at = "answered", !.length = length]
<1>2. requests' = (requests \ {q}) \union {a} /\ UNCHANGED <<length, page, total, first, seen>>
  BY DEF Serve, readerVars
<1>3. /\ q \in [page : Nat \ {0}, at : {"sent", "answered"}, length : 1..length]
      /\ length \in 1..length
  BY <1>1, PagesTypes DEF PagesTypeOK
<1>4. a.page = q.page /\ a.length = length
  BY <1>3
<1>5. a \in [page : Nat \ {0}, at : {"sent", "answered"}, length : 1..length]
  BY <1>3
<1> HIDE DEF a
<1>6. PagesTypeOK'
  BY <1>1, <1>2, <1>5 DEF PagesTypeOK
<1>7. first > 0 => PageEnd(a.length, a.page) .. first - 1 \subseteq seen
  <2>1. PageEnd(length, q.page) >= PageEnd(q.length, q.page)
    <3> DEFINE above == (q.page - 1) * PageSize
    <3>1. above \in Int
      BY <1>1, PagesTypes, PageSizeAssumption
    <3>2. PageEnd(length, q.page) = AtLeastZero(length - above)
          /\ PageEnd(q.length, q.page) = AtLeastZero(q.length - above)
      BY DEF PageEnd
    <3> HIDE DEF above
    <3> QED
      BY <1>1, PagesTypes, <3>1, <3>2 DEF AtLeastZero
  <2>2. PageEnd(length, q.page) \in Nat /\ PageEnd(q.length, q.page) \in Nat
    BY <1>1, PagesTypes, PageBounds
  <2>3. first > 0 => PageEnd(q.length, q.page) .. first - 1 \subseteq seen
    BY <1>1 DEF RequestsReach
  <2> QED
    BY <1>1, <1>4, <2>1, <2>2, <2>3, PagesTypes
<1>8. SeenFromStart' /\ RequestsReach'
  BY <1>1, <1>2, <1>7 DEF SeenFromStart, RequestsReach
<1> QED
  BY <1>6, <1>8 DEF PagesInv

\* An answer joins what was seen above its page.
LEMMA DisplayKeeps ==
  ASSUME PagesInv, NEW q \in requests, Display(q)
  PROVE  PagesInv'
<1>1. PagesTypeOK /\ SeenFromStart /\ RequestsReach
  BY DEF PagesInv
<1>2. /\ requests' = requests \ {q} /\ page' = q.page /\ total' = q.length
      /\ UNCHANGED <<length, first>>
      /\ seen' = IF first > 0 THEN seen \union Blocks(q.length, q.page) ELSE {}
  BY DEF Display
<1>3. PageStart(q.length, q.page) \in Nat /\ PageEnd(q.length, q.page) \in 0..q.length
  BY <1>1, PagesTypes, PageBounds
<1>4. \A h \in Blocks(q.length, q.page) : h \in 0 .. length - 1
  BY <1>1, <1>3, PagesTypes DEF Blocks
<1>5. PagesTypeOK'
  <2>1. requests' \subseteq [page : Nat \ {0}, at : {"sent", "answered"}, length : 1..length]
    BY <1>1, <1>2 DEF PagesTypeOK
  <2>2. page' \in Nat \ {0} /\ total' \in 0..length
    BY <1>1, <1>2, PagesTypes
  <2>3. seen' \subseteq 0 .. length - 1
    BY <1>1, <1>2, <1>4 DEF PagesTypeOK
  <2> QED
    BY <1>1, <1>2, <2>1, <2>2, <2>3 DEF PagesTypeOK
<1>6. SeenFromStart'
  <2>1. CASE first > 0
    <3>1. \A h \in PageStart(q.length, q.page) .. first - 1 : h \in seen'
      <4>1. PageEnd(q.length, q.page) .. first - 1 \subseteq seen
        BY <1>1, <2>1 DEF RequestsReach
      <4> QED
        BY <1>1, <1>2, <1>3, <2>1, <4>1, PagesTypes DEF Blocks
    <3> QED
      BY <1>1, <1>2, <3>1, PagesTypes DEF SeenFromStart
  <2>2. CASE ~(first > 0)
    BY <1>2, <2>2 DEF SeenFromStart
  <2> QED
    BY <2>1, <2>2
<1>7. RequestsReach'
  BY <1>1, <1>2 DEF RequestsReach
<1> QED
  BY <1>5, <1>6, <1>7 DEF PagesInv

LEMMA StepPages == PagesInv /\ [PagesNext]_pagesVars => PagesInv'
<1> SUFFICES ASSUME PagesInv, [PagesNext]_pagesVars PROVE PagesInv'
  OBVIOUS
<1>1. PagesTypeOK /\ SeenFromStart /\ RequestsReach
  BY DEF PagesInv
<1>2. CASE NextPage
  BY <1>1, <1>2, PagesTypes, LoadPageKeeps DEF NextPage
<1>3. CASE PrevPage
  BY <1>1, <1>3, PagesTypes, LoadPageKeeps DEF PrevPage
<1>4. CASE RefreshPage
  BY <1>1, <1>4, PagesTypes, LoadPageKeeps DEF RefreshPage
<1>5. CASE Reload
  BY <1>1, <1>5, PagesTypes DEF Reload, PagesInv, PagesTypeOK, SeenFromStart, RequestsReach
<1>6. CASE BeginReading
  <2>1. PageEnd(total, 1) = total /\ PageStart(total, 1) \in Nat
    BY <1>1, PagesTypes, PageBounds, PageSizeAssumption DEF PageEnd, AtLeastZero
  <2>2. seen' = PageStart(total, 1) .. total - 1 /\ first' = total
        /\ UNCHANGED <<length, page, total, requests>> /\ page = 1 /\ total > 0 /\ requests = {}
    BY <1>6, <2>1 DEF BeginReading, Blocks
  <2>3. seen' \subseteq 0 .. length - 1 /\ first' \in 0..length
    BY <1>1, <2>1, <2>2, PagesTypes
  <2> QED
    BY <1>1, <2>2, <2>3 DEF PagesInv, PagesTypeOK, SeenFromStart, RequestsReach
<1>7. ASSUME NEW q \in requests, Serve(q) \/ Display(q) \/ Lose(q)
      PROVE  PagesInv'
  <2>1. CASE Lose(q)
    BY <1>1, <2>1 DEF Lose, readerVars, PagesInv, PagesTypeOK, SeenFromStart, RequestsReach
  <2> QED
    BY <1>7, <2>1, ServeKeeps, DisplayKeeps
<1>8. CASE Grow
  <2>1. /\ length' \in Nat /\ length' \in 1..MaxBlocks /\ length < length'
        /\ UNCHANGED <<page, total, requests, first, seen>>
    BY <1>1, <1>8, PagesTypes, MaxBlocksAssumption DEF Grow, readerVars
  <2>2. total \in 0..length' /\ first \in 0..length'
    BY <1>1, <2>1, PagesTypes
  <2>3. seen \subseteq 0 .. length' - 1
    BY <1>1, <2>1, PagesTypes
  <2>4. ASSUME NEW q \in requests
        PROVE  q \in [page : Nat \ {0}, at : {"sent", "answered"}, length : 1..length']
    BY <1>1, <2>1, <2>4, PagesTypes
  <2>5. SeenFromStart' /\ RequestsReach'
    BY <1>1, <2>1 DEF SeenFromStart, RequestsReach
  <2>6. PagesTypeOK'
    BY <1>1, <2>1, <2>2, <2>3, <2>4 DEF PagesTypeOK
  <2> QED
    BY <2>5, <2>6 DEF PagesInv
<1>9. CASE UNCHANGED pagesVars
  BY <1>1, <1>9 DEF pagesVars, readerVars, PagesInv, PagesTypeOK, SeenFromStart, RequestsReach
<1> QED
  BY <1>2, <1>3, <1>4, <1>5, <1>6, <1>7, <1>8, <1>9 DEF PagesNext

\* What the block list keeps is well typed, for any page size.
THEOREM PagesTypeCorrect == PagesSpec => []PagesTypeOK
<1>1. PagesInv => PagesTypeOK
  BY DEF PagesInv
<1> QED
  BY <1>1, InitPages, StepPages, PTL DEF PagesSpec

\* Whatever the page size, however the chain grows while the pages are turned
\* forth and back, and in whatever order answers are displayed: on the last page
\* every block of the beginning has been displayed.
THEOREM PagesCoverTheChain == PagesSpec => []PagesCover
<1>1. PagesInv => PagesCover
  <2> SUFFICES ASSUME PagesInv, first > 0, page >= TotalPages(total)
               PROVE  0 .. first - 1 \subseteq seen
    BY DEF PagesCover
  <2>1. PageStart(total, page) = 0
    BY PagesTypes, LastPageStart DEF PagesInv
  <2> QED
    BY <2>1 DEF PagesInv, SeenFromStart
<1> QED
  BY <1>1, InitPages, StepPages, PTL DEF PagesSpec

-----------------------------------------------------------------------------
(* Reading records: the invariant.                                         *)

Ascending(s) == \A i, j \in DOMAIN s : i < j => s[i].time < s[j].time

Older(s, t) == \A i \in DOMAIN s, j \in DOMAIN t : s[i].time < t[j].time

Arrived(s) == \A i \in DOMAIN s : s[i].time <= reported

\* Records are in the order of their timestamps on the chain, then in the block
\* that is under way, then in the pool once it has been cleared. There are no more
\* than were reported.
LedgerInOrder ==
  /\ Ascending(chain) /\ Ascending(block) /\ Ascending(pending_data)
  /\ Older(chain, block) /\ Older(chain, pending_data)
  /\ Arrived(chain) /\ Arrived(block) /\ Arrived(pending_data)
  /\ Len(chain) + Len(block) <= reported /\ Len(chain) + Len(pending_data) <= reported
  /\ main = "append" => /\ Older(block, pending_data)
                        /\ Len(chain) + Len(block) + Len(pending_data) <= reported

Requests == [view : Views, list : 1..2, position : 0 .. MaxRecords + 1, found : Seq(Records),
             since : 0..MaxRecords, chained : Seq(Records)]

\* Whatever the chain had when the request came, it still has.
WellFormedRequest ==
  /\ request \in Requests
  /\ request.since <= reported
  /\ DOMAIN request.chained \subseteq DOMAIN chain
  /\ \A i \in DOMAIN request.chained : request.chained[i] = chain[i]
  /\ Arrived(request.found)

\* What was found on the chain is older than what will be read from the pool.
ChainFirst ==
  request.list = 1 => Older(request.found, block) /\ Older(request.found, pending_data)

\* A history is found in order, and what is still to be read is newer.
FoundInOrder ==
  request.view = "history" =>
    /\ Ascending(request.found)
    /\ request.position > 0
    /\ \A i \in DOMAIN request.found, k \in DOMAIN List(request.list) :
         k >= request.position => request.found[i].time < List(request.list)[k].time

\* Nothing that is newer than r, or r, was found.
Missed(r) ==
  r.kind = KindOf(request.view) /\ ~(request.found # << >> /\ r.time <= request.found[1].time)

\* An asset or a latest metric is one record. Read from its end, the chain keeps no
\* asset newer than what was found behind the position, and what was found is newer
\* than all before it.
ChainCovered ==
  /\ request.view # "history" => Len(request.found) <= 1
  /\ request.view = "asset" =>
    /\ \A k \in DOMAIN request.chained :
         request.list = 2 \/ k > request.position => ~Missed(request.chained[k])
    /\ request.list = 1 =>
         /\ request.position <= Len(request.chained)
         /\ request.found # << >> => request.position = 0
         /\ \A i \in DOMAIN request.found, k \in DOMAIN request.chained :
              k <= request.position => request.chained[k].time < request.found[i].time

\* The same of an asset and the pool, whose end is only beyond its reach when the
\* pool was emptied, and has nothing left from before the request.
PoolCovered ==
  request.view = "asset" /\ request.list = 2 =>
    /\ \A k \in DOMAIN pending_data :
         k > request.position /\ pending_data[k].time <= request.since => ~Missed(pending_data[k])
    /\ \A i \in DOMAIN request.found, k \in DOMAIN pending_data :
         k <= request.position => request.found[i].time < pending_data[k].time
    /\ request.position > Len(pending_data) =>
         \A k \in DOMAIN pending_data : pending_data[k].time > request.since

RequestInv ==
  request # Idle => /\ WellFormedRequest /\ ChainFirst
                    /\ FoundInOrder /\ ChainCovered /\ PoolCovered

ViewsInv == TypeOK /\ LedgerInOrder /\ RequestInv /\ NoPointTwice

-----------------------------------------------------------------------------
(* Sequences of records.                                                   *)

LEMMA RecordAt ==
  ASSUME NEW s \in Seq(Records), NEW i \in DOMAIN s
  PROVE  /\ i \in 1..Len(s) /\ s[i] \in Records
         /\ s[i].time \in Nat /\ s[i].time <= MaxRecords /\ s[i].kind \in Kinds
<1>1. i \in 1..Len(s) /\ s[i] \in Records
  BY LenProperties, ElementOfSeq
<1>2. \A n \in 1..MaxRecords : n \in Nat /\ n <= MaxRecords
  BY MaxRecordsAssumption
<1> QED
  BY <1>1, <1>2 DEF Records

LEMMA DomainOf ==
  ASSUME NEW s \in Seq(Records)
  PROVE  Len(s) \in Nat /\ DOMAIN s = 1..Len(s)
BY LenProperties

LEMMA AppendRecord ==
  ASSUME NEW s \in Seq(Records), NEW r \in Records
  PROVE  /\ Append(s, r) \in Seq(Records) /\ Len(Append(s, r)) = Len(s) + 1
         /\ DOMAIN Append(s, r) = 1 .. Len(s) + 1
         /\ \A i \in DOMAIN s : Append(s, r)[i] = s[i]
         /\ Append(s, r)[Len(s) + 1] = r
         /\ \A i \in DOMAIN Append(s, r) : i \in DOMAIN s \/ i = Len(s) + 1
<1>1. Len(s) \in Nat /\ DOMAIN s = 1..Len(s)
  BY DomainOf
<1> QED
  BY <1>1, AppendProperties

LEMMA ConcatRecords ==
  ASSUME NEW s \in Seq(Records), NEW t \in Seq(Records)
  PROVE  /\ s \o t \in Seq(Records) /\ Len(s \o t) = Len(s) + Len(t)
         /\ \A i \in DOMAIN s : i \in DOMAIN (s \o t) /\ (s \o t)[i] = s[i]
         /\ \A i \in DOMAIN (s \o t) :
              \/ i \in DOMAIN s
              \/ i > Len(s) /\ i - Len(s) \in DOMAIN t /\ (s \o t)[i] = t[i - Len(s)]
<1>1. Len(s) \in Nat /\ DOMAIN s = 1..Len(s) /\ Len(t) \in Nat /\ DOMAIN t = 1..Len(t)
  BY DomainOf
<1>2. /\ s \o t \in Seq(Records) /\ Len(s \o t) = Len(s) + Len(t)
      /\ \A i \in 1 .. Len(s) + Len(t) :
           (s \o t)[i] = IF i <= Len(s) THEN s[i] ELSE t[i - Len(s)]
  BY ConcatProperties
<1>3. DOMAIN (s \o t) = 1 .. Len(s) + Len(t)
  BY <1>2, DomainOf
<1> DEFINE u == s \o t
<1> HIDE DEF u
<1>4. \A i \in 1..Len(s) : i \in 1 .. Len(s) + Len(t) /\ i <= Len(s)
  BY <1>1
<1>5. \A i \in 1 .. Len(s) + Len(t) :
        i \in 1..Len(s) \/ (i > Len(s) /\ ~(i <= Len(s)) /\ i - Len(s) \in 1..Len(t))
  BY <1>1
<1> QED
  BY <1>1, <1>2, <1>3, <1>4, <1>5

LEMMA NoRecord ==
  /\ << >> \in Seq(Records) /\ Len(<< >>) = 0 /\ \A i \in DOMAIN << >> : FALSE
BY EmptySeq

LEMMA OneRecord ==
  ASSUME NEW r \in Records
  PROVE  /\ <<r>> \in Seq(Records) /\ <<r>> # << >> /\ Len(<<r>>) = 1 /\ <<r>>[1] = r
         /\ DOMAIN <<r>> = {1}
OBVIOUS

-----------------------------------------------------------------------------
(* The ledger stays in order.                                              *)

\* The types as the steps below use them.
LEMMA LedgerTypes ==
  ASSUME TypeOK
  PROVE  /\ reported \in Nat /\ reported <= MaxRecords
         /\ chain \in Seq(Records) /\ block \in Seq(Records) /\ pending_data \in Seq(Records)
         /\ Len(chain) \in Nat /\ Len(block) \in Nat /\ Len(pending_data) \in Nat
         /\ DOMAIN chain = 1..Len(chain) /\ DOMAIN block = 1..Len(block)
         /\ DOMAIN pending_data = 1..Len(pending_data)
<1>1. reported \in 0..MaxRecords /\ MaxRecords \in Nat
      /\ chain \in Seq(Records) /\ block \in Seq(Records) /\ pending_data \in Seq(Records)
  BY MaxRecordsAssumption DEF TypeOK
<1> QED
  BY <1>1, DomainOf

\* What a report adds.
LEMMA ReportedRecord ==
  ASSUME TypeOK, NEW kind \in Kinds, Report(kind)
  PROVE  \E r \in Records :
           /\ r.time = reported + 1 /\ reported' = reported + 1 /\ reported' \in 0..MaxRecords
           /\ pending_data' = Append(pending_data, r)
           /\ UNCHANGED <<main, block, chain, request, answer>>
<1> DEFINE r == [kind |-> kind, time |-> reported + 1]
<1>1. reported + 1 \in 1..MaxRecords /\ reported + 1 \in 0..MaxRecords
  BY LedgerTypes, MaxRecordsAssumption DEF Report
<1>2. r \in Records /\ r.time = reported + 1
  BY <1>1 DEF Records
<1>3. pending_data' = Append(pending_data, r) /\ reported' = reported + 1
      /\ UNCHANGED <<main, block, chain, request, answer>>
  BY DEF Report
<1> QED
  BY <1>1, <1>2, <1>3

LEMMA ReportInOrder ==
  ASSUME TypeOK, LedgerInOrder, NEW kind \in Kinds, Report(kind)
  PROVE  LedgerInOrder'
<1>1. PICK r \in Records :
        /\ r.time = reported + 1 /\ reported' = reported + 1
        /\ pending_data' = Append(pending_data, r)
        /\ UNCHANGED <<main, block, chain, request, answer>>
  BY ReportedRecord
<1>2. /\ pending_data' \in Seq(Records) /\ Len(pending_data') = Len(pending_data) + 1
      /\ DOMAIN pending_data' = 1 .. Len(pending_data) + 1
      /\ \A i \in DOMAIN pending_data : pending_data'[i] = pending_data[i]
      /\ pending_data'[Len(pending_data) + 1] = r
      /\ \A i \in DOMAIN pending_data' : i \in DOMAIN pending_data \/ i = Len(pending_data) + 1
  BY <1>1, LedgerTypes, AppendRecord
<1>3. \A s \in {chain, block, pending_data} : \A i \in DOMAIN s :
        s[i].time \in Nat /\ s[i].time <= reported
  BY LedgerTypes, RecordAt DEF LedgerInOrder, Arrived
<1>4. \A i \in DOMAIN pending_data : i \in Nat /\ i < Len(pending_data) + 1
  BY LedgerTypes
<1>5. Ascending(pending_data')
  <2> SUFFICES ASSUME NEW i \in DOMAIN pending_data', NEW j \in DOMAIN pending_data', i < j
               PROVE  pending_data'[i].time < pending_data'[j].time
    BY DEF Ascending
  <2>1. i \in DOMAIN pending_data
    BY <1>2, <1>4, LedgerTypes
  <2>2. CASE j \in DOMAIN pending_data
    BY <2>1, <2>2, <1>2 DEF LedgerInOrder, Ascending
  <2>3. CASE j = Len(pending_data) + 1
    <3>1. pending_data'[i].time \in Nat /\ pending_data'[i].time <= reported
      BY <2>1, <1>2, <1>3
    <3>2. pending_data'[j].time = reported + 1
      BY <2>3, <1>1, <1>2
    <3> QED
      BY <3>1, <3>2, LedgerTypes
  <2> QED
    BY <1>2, <2>2, <2>3
<1>6. ASSUME NEW s \in {chain, block}, Older(s, pending_data)
      PROVE  Older(s, pending_data')
  <2> SUFFICES ASSUME NEW i \in DOMAIN s, NEW j \in DOMAIN pending_data'
               PROVE  s[i].time < pending_data'[j].time
    BY DEF Older
  <2>1. CASE j \in DOMAIN pending_data
    BY <2>1, <1>2, <1>6 DEF Older
  <2>2. CASE j = Len(pending_data) + 1
    <3>1. pending_data'[j].time = reported + 1
      BY <2>2, <1>1, <1>2
    <3>2. s[i].time \in Nat /\ s[i].time <= reported
      BY <1>3
    <3> QED
      BY <3>1, <3>2, LedgerTypes
  <2> QED
    BY <1>2, <2>1, <2>2
<1>7. Arrived(chain)' /\ Arrived(block)' /\ Arrived(pending_data)'
  <2>1. \A i \in DOMAIN pending_data' : pending_data'[i].time <= reported + 1
    BY <1>1, <1>2, <1>3, LedgerTypes
  <2>2. ASSUME NEW s \in {chain, block}, NEW i \in DOMAIN s
        PROVE  s[i].time <= reported + 1
    <3>1. s[i].time \in Nat /\ s[i].time <= reported
      BY <1>3
    <3> QED
      BY <3>1, LedgerTypes
  <2> QED
    BY <1>1, <2>1, <2>2 DEF Arrived
<1>8. /\ Len(chain) + Len(block) <= reported + 1
      /\ Len(chain) + Len(pending_data') <= reported + 1
      /\ main = "append" => Len(chain) + Len(block) + Len(pending_data') <= reported + 1
  BY <1>2, LedgerTypes DEF LedgerInOrder
<1>9. /\ Ascending(chain) /\ Ascending(block) /\ Older(chain, block) /\ Older(chain, pending_data')
      /\ main = "append" => Older(block, pending_data')
  BY <1>6 DEF LedgerInOrder
<1>10. /\ (Ascending(chain) /\ Ascending(block) /\ Ascending(pending_data))'
       /\ (Older(chain, block) /\ Older(chain, pending_data))'
       /\ main = "append" => Older(block, pending_data)'
  BY <1>1, <1>5, <1>9 DEF Ascending, Older
<1> QED
  BY <1>1, <1>7, <1>8, <1>10 DEF LedgerInOrder

LEMMA CreateBlockInOrder ==
  ASSUME TypeOK, LedgerInOrder, CreateBlock
  PROVE  LedgerInOrder'
<1>1. /\ main' = "clear" /\ block' = pending_data /\ UNCHANGED <<reported, pending_data, chain>>
  BY DEF CreateBlock
<1> QED
  BY <1>1 DEF LedgerInOrder, Ascending, Older, Arrived

LEMMA ClearPoolInOrder ==
  ASSUME TypeOK, LedgerInOrder, ClearPool
  PROVE  LedgerInOrder'
<1>1. /\ main' = "append" /\ pending_data' = << >> /\ UNCHANGED <<reported, block, chain>>
  BY DEF ClearPool
<1>2. /\ Len(chain) + Len(pending_data') <= reported
      /\ Len(chain) + Len(block) + Len(pending_data') <= reported
  BY <1>1, NoRecord, LedgerTypes DEF LedgerInOrder
<1> QED
  BY <1>1, <1>2, NoRecord DEF LedgerInOrder, Ascending, Older, Arrived

LEMMA AddBlockInOrder ==
  ASSUME TypeOK, LedgerInOrder, AddBlock
  PROVE  LedgerInOrder'
<1>1. /\ main = "append" /\ main' = "loop"
      /\ chain' = chain \o block /\ block' = << >> /\ UNCHANGED <<reported, pending_data>>
  BY DEF AddBlock
<1>2. /\ chain' \in Seq(Records) /\ Len(chain') = Len(chain) + Len(block)
      /\ \A i \in DOMAIN chain : i \in DOMAIN chain' /\ chain'[i] = chain[i]
      /\ \A i \in DOMAIN chain' :
           \/ i \in DOMAIN chain
           \/ i > Len(chain) /\ i - Len(chain) \in DOMAIN block
              /\ chain'[i] = block[i - Len(chain)]
  BY <1>1, LedgerTypes, ConcatRecords
<1>3. DOMAIN chain' = 1..Len(chain')
  BY <1>2, DomainOf
<1>4. Ascending(chain')
  <2> SUFFICES ASSUME NEW i \in DOMAIN chain', NEW j \in DOMAIN chain', i < j
               PROVE  chain'[i].time < chain'[j].time
    BY DEF Ascending
  <2>1. CASE j \in DOMAIN chain
    <3>1. i \in DOMAIN chain
      BY <2>1, <1>2, <1>3, LedgerTypes
    <3> QED
      BY <2>1, <3>1, <1>2 DEF LedgerInOrder, Ascending
  <2>2. CASE i \in DOMAIN chain /\ j \notin DOMAIN chain
    BY <2>2, <1>2 DEF LedgerInOrder, Older
  <2>3. CASE i \notin DOMAIN chain /\ j \notin DOMAIN chain
    <3>1. i - Len(chain) < j - Len(chain)
      BY <1>2, <1>3, LedgerTypes
    <3> QED
      BY <2>3, <3>1, <1>2 DEF LedgerInOrder, Ascending
  <2> QED
    BY <2>1, <2>2, <2>3
<1>5. Older(chain', pending_data)
  BY <1>1, <1>2 DEF LedgerInOrder, Older
<1>6. \A i \in DOMAIN chain' : chain'[i].time <= reported
  BY <1>2 DEF LedgerInOrder, Arrived
<1>7. Len(chain') + Len(block') <= reported /\ Len(chain') + Len(pending_data) <= reported
  BY <1>1, <1>2, NoRecord, LedgerTypes DEF LedgerInOrder
<1> QED
  BY <1>1, <1>4, <1>5, <1>6, <1>7, NoRecord DEF LedgerInOrder, Ascending, Older, Arrived

-----------------------------------------------------------------------------
(* A request while the ledger moves.                                       *)

LEMMA RequestFields ==
  ASSUME NEW q \in Requests
  PROVE  /\ q # Idle /\ q.view \in Views /\ q.list \in {1, 2}
         /\ q.position \in Nat /\ q.position <= MaxRecords + 1
         /\ q.found \in Seq(Records) /\ q.chained \in Seq(Records)
         /\ q.since \in Nat /\ q.since <= MaxRecords
<1>1. \A n \in 0 .. MaxRecords + 1 : n \in Nat /\ n <= MaxRecords + 1
  BY MaxRecordsAssumption
<1>2. \A n \in 0..MaxRecords : n \in Nat /\ n <= MaxRecords
  BY MaxRecordsAssumption
<1>3. q.view \in Views /\ q.list \in 1..2
      /\ q.position \in 0 .. MaxRecords + 1 /\ q.found \in Seq(Records)
      /\ q.since \in 0..MaxRecords /\ q.chained \in Seq(Records)
  BY DEF Requests
<1>4. q # Idle
  BY <1>3 DEF Idle, Views
<1> QED
  BY <1>1, <1>2, <1>3, <1>4

LEMMA TheLists == List(1) = chain /\ List(2) = pending_data
BY DEF List, Lists

\* Times of what was found, and of what there is to be found.
LEMMA Times ==
  ASSUME TypeOK, LedgerInOrder, request # Idle, WellFormedRequest
  PROVE  /\ \A i \in DOMAIN request.found :
              request.found[i].time \in Nat /\ request.found[i].time <= reported
         /\ \A k \in DOMAIN chain : chain[k].time \in Nat /\ chain[k].time <= reported
         /\ \A k \in DOMAIN block : block[k].time \in Nat /\ block[k].time <= reported
         /\ \A k \in DOMAIN pending_data :
              pending_data[k].time \in Nat /\ pending_data[k].time <= reported
         /\ \A k \in DOMAIN request.chained :
              request.chained[k].time \in Nat /\ request.chained[k].time <= reported
<1>1. request.found \in Seq(Records) /\ request.chained \in Seq(Records)
  BY RequestFields DEF WellFormedRequest
<1> QED
  BY <1>1, RecordAt, LedgerTypes DEF LedgerInOrder, Arrived, WellFormedRequest

LEMMA ReportRequest ==
  ASSUME TypeOK, LedgerInOrder, RequestInv, NEW kind \in Kinds, Report(kind)
  PROVE  RequestInv'
<1> SUFFICES ASSUME request # Idle
             PROVE  (/\ WellFormedRequest /\ ChainFirst
                     /\ FoundInOrder /\ ChainCovered /\ PoolCovered)'
  BY ReportedRecord DEF RequestInv
<1>1. PICK r \in Records :
        /\ r.time = reported + 1 /\ reported' = reported + 1
        /\ pending_data' = Append(pending_data, r)
        /\ UNCHANGED <<main, block, chain, request, answer>>
  BY ReportedRecord
<1>2. /\ pending_data' \in Seq(Records) /\ Len(pending_data') = Len(pending_data) + 1
      /\ DOMAIN pending_data' = 1 .. Len(pending_data) + 1
      /\ \A i \in DOMAIN pending_data : pending_data'[i] = pending_data[i]
      /\ pending_data'[Len(pending_data) + 1] = r
      /\ \A i \in DOMAIN pending_data' : i \in DOMAIN pending_data \/ i = Len(pending_data) + 1
  BY <1>1, LedgerTypes, AppendRecord
<1>3. WellFormedRequest /\ ChainFirst /\ FoundInOrder /\ ChainCovered /\ PoolCovered
  BY DEF RequestInv
<1>4. /\ request.list \in {1, 2} /\ request.position \in Nat
      /\ request.since \in Nat /\ request.since <= reported
  BY <1>3, RequestFields DEF WellFormedRequest
<1>5. \A i \in DOMAIN request.found :
        request.found[i].time \in Nat /\ request.found[i].time <= reported
  BY <1>3, Times
<1>6. Older(request.found, pending_data) => Older(request.found, pending_data')
  <2> SUFFICES ASSUME Older(request.found, pending_data),
                      NEW i \in DOMAIN request.found, NEW j \in DOMAIN pending_data'
               PROVE  request.found[i].time < pending_data'[j].time
    BY DEF Older
  <2>1. CASE j \in DOMAIN pending_data
    BY <2>1, <1>2 DEF Older
  <2>2. CASE j = Len(pending_data) + 1
    BY <2>2, <1>1, <1>2, <1>5, LedgerTypes
  <2> QED
    BY <1>2, <2>1, <2>2
<1>7. WellFormedRequest'
  <2>1. request.since <= reported + 1
    BY <1>4, LedgerTypes
  <2>2. \A i \in DOMAIN request.found : request.found[i].time <= reported + 1
    BY <1>5, LedgerTypes
  <2> QED
    BY <1>1, <1>3, <2>1, <2>2 DEF WellFormedRequest, Arrived
<1>8. ChainFirst'
  BY <1>1, <1>3, <1>6 DEF ChainFirst, Older
<1>9. FoundInOrder'
  <2>1. CASE request.list = 1
    BY <1>1, <1>3, <2>1 DEF FoundInOrder, Ascending, List, Lists
  <2>2. CASE request.list = 2
    <3>1. ASSUME request.view = "history",
                 NEW i \in DOMAIN request.found, NEW k \in DOMAIN pending_data',
                 k >= request.position
          PROVE  request.found[i].time < pending_data'[k].time
      <4>1. CASE k \in DOMAIN pending_data
        BY <2>2, <3>1, <4>1, <1>2, <1>3, TheLists DEF FoundInOrder
      <4>2. CASE k = Len(pending_data) + 1
        BY <4>2, <1>1, <1>2, <1>5, LedgerTypes
      <4> QED
        BY <1>2, <4>1, <4>2
    <3> QED
      BY <1>1, <1>3, <2>2, <3>1 DEF FoundInOrder, Ascending, List, Lists
  <2> QED
    BY <1>4, <2>1, <2>2
<1>10. ChainCovered'
  BY <1>1, <1>3 DEF ChainCovered, Missed
<1>11. PoolCovered'
  <2> SUFFICES ASSUME request.view = "asset", request.list = 2
               PROVE  /\ \A k \in DOMAIN pending_data' :
                           k > request.position /\ pending_data'[k].time <= request.since =>
                             ~Missed(pending_data'[k])
                      /\ \A i \in DOMAIN request.found, k \in DOMAIN pending_data' :
                           k <= request.position =>
                             request.found[i].time < pending_data'[k].time
                      /\ request.position > Len(pending_data') =>
                           \A k \in DOMAIN pending_data' : pending_data'[k].time > request.since
    BY <1>1 DEF PoolCovered, Missed
  <2>1. pending_data'[Len(pending_data) + 1].time = reported + 1 /\ reported \in Nat
    BY <1>1, <1>2, LedgerTypes
  <2>2. ASSUME NEW k \in DOMAIN pending_data',
               k > request.position, pending_data'[k].time <= request.since
        PROVE  ~Missed(pending_data'[k])
    BY <1>2, <1>3, <1>4, <2>1, <2>2 DEF PoolCovered
  <2>3. ASSUME NEW i \in DOMAIN request.found, NEW k \in DOMAIN pending_data',
               k <= request.position
        PROVE  request.found[i].time < pending_data'[k].time
    BY <1>2, <1>3, <1>5, <2>1, <2>3 DEF PoolCovered
  <2>4. ASSUME request.position > Len(pending_data'), NEW k \in DOMAIN pending_data'
        PROVE  pending_data'[k].time > request.since
    <3>1. request.position > Len(pending_data)
      BY <1>2, <1>4, <2>4, LedgerTypes
    <3> QED
      BY <1>2, <1>3, <1>4, <2>1, <3>1 DEF PoolCovered
  <2> QED
    BY <2>2, <2>3, <2>4
<1> QED
  BY <1>7, <1>8, <1>9, <1>10, <1>11

\* A copy of the pool concerns no request.
LEMMA CreateBlockRequest ==
  ASSUME TypeOK, LedgerInOrder, RequestInv, CreateBlock
  PROVE  RequestInv'
<1>1. block' = pending_data /\ UNCHANGED <<reported, pending_data, chain, request>>
  BY DEF CreateBlock
<1> QED
  BY <1>1 DEF RequestInv, WellFormedRequest, Arrived, ChainFirst, Older, FoundInOrder, Ascending,
              ChainCovered, PoolCovered, Missed, List, Lists

LEMMA ClearPoolRequest ==
  ASSUME TypeOK, LedgerInOrder, RequestInv, ClearPool
  PROVE  RequestInv'
<1>1. pending_data' = << >> /\ UNCHANGED <<reported, block, chain, request>>
  BY DEF ClearPool
<1>2. ASSUME request # Idle
      PROVE  WellFormedRequest /\ ChainFirst /\ FoundInOrder /\ ChainCovered /\ PoolCovered
  BY <1>2 DEF RequestInv
<1>3. ASSUME request # Idle
      PROVE  (WellFormedRequest /\ ChainFirst /\ ChainCovered /\ PoolCovered)'
  BY <1>1, <1>2, <1>3, NoRecord
     DEF WellFormedRequest, Arrived, ChainFirst, Older, ChainCovered, PoolCovered, Missed
<1>4. ASSUME request # Idle
      PROVE  FoundInOrder'
  <2>1. request.list \in {1, 2}
    BY <1>2, <1>4, RequestFields DEF WellFormedRequest
  <2> QED
    BY <1>1, <1>2, <1>4, <2>1, NoRecord DEF FoundInOrder, Ascending, List, Lists
<1> QED
  BY <1>1, <1>3, <1>4 DEF RequestInv

LEMMA AddBlockRequest ==
  ASSUME TypeOK, LedgerInOrder, RequestInv, AddBlock
  PROVE  RequestInv'
<1>1. chain' = chain \o block /\ block' = << >> /\ UNCHANGED <<reported, pending_data, request>>
  BY DEF AddBlock
<1>2. /\ chain' \in Seq(Records) /\ Len(chain') = Len(chain) + Len(block)
      /\ \A i \in DOMAIN chain : i \in DOMAIN chain' /\ chain'[i] = chain[i]
      /\ \A i \in DOMAIN chain' :
           \/ i \in DOMAIN chain
           \/ i > Len(chain) /\ i - Len(chain) \in DOMAIN block
              /\ chain'[i] = block[i - Len(chain)]
  BY <1>1, LedgerTypes, ConcatRecords
<1> SUFFICES ASSUME request # Idle
             PROVE  (/\ WellFormedRequest /\ ChainFirst
                     /\ FoundInOrder /\ ChainCovered /\ PoolCovered)'
  BY <1>1 DEF RequestInv
<1>3. WellFormedRequest /\ ChainFirst /\ FoundInOrder /\ ChainCovered /\ PoolCovered
  BY DEF RequestInv
<1>4. WellFormedRequest'
  BY <1>1, <1>2, <1>3 DEF WellFormedRequest, Arrived
<1>5. (ChainFirst /\ ChainCovered /\ PoolCovered)'
  BY <1>1, <1>3, NoRecord DEF ChainFirst, Older, ChainCovered, PoolCovered, Missed
<1>6. FoundInOrder'
  <2>1. CASE request.list = 1
    <3>1. ASSUME request.view = "history",
                 NEW i \in DOMAIN request.found, NEW k \in DOMAIN chain',
                 k >= request.position
          PROVE  request.found[i].time < chain'[k].time
      <4>1. CASE k \in DOMAIN chain
        BY <2>1, <3>1, <4>1, <1>2, <1>3, TheLists DEF FoundInOrder
      <4>2. CASE k - Len(chain) \in DOMAIN block /\ chain'[k] = block[k - Len(chain)]
        BY <2>1, <4>2, <1>3 DEF ChainFirst, Older
      <4> QED
        BY <1>2, <4>1, <4>2
    <3> QED
      BY <1>1, <1>3, <2>1, <3>1 DEF FoundInOrder, Ascending, List, Lists
  <2>2. CASE request.list = 2
    BY <1>1, <1>3, <2>2 DEF FoundInOrder, Ascending, List, Lists
  <2> QED
    BY <1>3, <2>1, <2>2, RequestFields DEF WellFormedRequest
<1> QED
  BY <1>4, <1>5, <1>6

-----------------------------------------------------------------------------
(* The steps of a request.                                                 *)

\* A request keeps its conjuncts together.
RequestOK == WellFormedRequest /\ ChainFirst /\ FoundInOrder /\ ChainCovered /\ PoolCovered

LEMMA BeginRequest ==
  ASSUME TypeOK, LedgerInOrder, NEW view \in Views, Begin(view)
  PROVE  RequestOK' /\ request' \in Requests
<1> DEFINE q == [view |-> view, list |-> 1, position |-> Start(view, 1), found |-> << >>,
                 since |-> reported, chained |-> chain]
<1>1. request' = q /\ UNCHANGED <<ledgerVars, answer>>
  BY DEF Begin
<1>2. UNCHANGED <<reported, pending_data, main, block, chain>>
  BY <1>1 DEF ledgerVars
<1>3. /\ Start(view, 1) = IF view = "history" THEN 1 ELSE Len(chain)
      /\ Start(view, 1) \in 0 .. MaxRecords + 1 /\ reported \in 0..MaxRecords
  BY TheLists, LedgerTypes, MaxRecordsAssumption DEF Start, LedgerInOrder
<1>4. q \in Requests
  BY <1>3, NoRecord, LedgerTypes DEF Requests
<1>5. /\ q.view = view /\ q.list = 1 /\ q.found = << >> /\ q.since = reported
      /\ q.chained = chain /\ q.position = Start(view, 1)
  OBVIOUS
<1> HIDE DEF q
<1>6. WellFormedRequest'
  BY <1>1, <1>2, <1>4, <1>5, NoRecord, LedgerTypes DEF WellFormedRequest, Arrived
<1>7. ChainFirst' /\ PoolCovered'
  BY <1>1, <1>5, NoRecord DEF ChainFirst, Older, PoolCovered
<1>8. FoundInOrder'
  BY <1>1, <1>3, <1>5, NoRecord DEF FoundInOrder, Ascending
<1>9. ChainCovered'
  <2>1. view = "asset" => \A k \in DOMAIN chain : ~(k > q.position)
    BY <1>3, <1>5, LedgerTypes
  <2>2. view = "asset" => q.position <= Len(q.chained)
    BY <1>3, <1>5, LedgerTypes
  <2> QED
    BY <1>1, <1>2, <1>5, <2>1, <2>2, NoRecord DEF ChainCovered
<1> QED
  BY <1>1, <1>4, <1>6, <1>7, <1>8, <1>9 DEF RequestOK

LEMMA ReadPoolRequest ==
  ASSUME TypeOK, LedgerInOrder, RequestInv, ReadPool
  PROVE  RequestOK' /\ request' \in Requests
<1>1. /\ request # Idle /\ request.list = 1 /\ ~More
      /\ request' = [request EXCEPT !.list = 2, !.position = Start(request.view, 2)]
      /\ UNCHANGED <<reported, pending_data, main, block, chain, answer>>
  BY DEF ReadPool, ledgerVars
<1>2. WellFormedRequest /\ ChainFirst /\ FoundInOrder /\ ChainCovered
  BY <1>1 DEF RequestInv
<1>3. /\ Start(request.view, 2) = IF request.view = "history" THEN 1 ELSE Len(pending_data)
      /\ Start(request.view, 2) \in 0 .. MaxRecords + 1
  BY TheLists, LedgerTypes, MaxRecordsAssumption DEF Start, LedgerInOrder
<1>4. /\ request \in Requests /\ request'.list = 2 /\ request'.view = request.view
      /\ request'.position = Start(request.view, 2) /\ request'.found = request.found
      /\ request'.since = request.since /\ request'.chained = request.chained
      /\ request' \in Requests
  <2> DEFINE p == Start(request.view, 2)
  <2>1. request \in Requests /\ p \in 0 .. MaxRecords + 1 /\ 2 \in 1..2
    BY <1>2, <1>3 DEF WellFormedRequest
  <2>2. request' = [request EXCEPT !.list = 2, !.position = p]
    BY <1>1
  <2> HIDE DEF p
  <2>3. request' \in Requests /\ request'.list = 2 /\ request'.position = p
    BY <2>1, <2>2 DEF Requests
  <2>4. /\ request'.view = request.view /\ request'.found = request.found
        /\ request'.since = request.since /\ request'.chained = request.chained
    BY <2>1, <2>2 DEF Requests
  <2> QED
    BY <2>1, <2>3, <2>4 DEF p
<1>5. WellFormedRequest'
  BY <1>1, <1>2, <1>4 DEF WellFormedRequest, Arrived
<1>6. ChainFirst'
  BY <1>4 DEF ChainFirst
<1>7. FoundInOrder'
  <2>1. List(request.list)' = pending_data
    BY <1>1, <1>4 DEF List, Lists
  <2>2. \A i \in DOMAIN request.found, k \in DOMAIN pending_data :
          request.found[i].time < pending_data[k].time
    BY <1>1, <1>2 DEF ChainFirst, Older
  <2>3. request.view = "history" => Ascending(request.found) /\ request'.position > 0
    BY <1>2, <1>3, <1>4 DEF FoundInOrder
  <2> QED
    BY <1>4, <2>1, <2>2, <2>3 DEF FoundInOrder, Ascending
<1>8. ChainCovered'
  <2>1. request.view = "asset" => \A k \in DOMAIN request.chained : k > request.position
    <3>1. request.position \notin DOMAIN chain
      BY <1>1, TheLists DEF More
    <3>2. request.view = "asset" => request.position <= Len(request.chained)
      BY <1>1, <1>2 DEF ChainCovered
    <3>3. request.chained \in Seq(Records) /\ request.position \in Nat
          /\ DOMAIN request.chained \subseteq DOMAIN chain
      BY <1>2, RequestFields DEF WellFormedRequest
    <3>4. DOMAIN request.chained = 1..Len(request.chained) /\ Len(request.chained) \in Nat
      BY <3>3, DomainOf
    <3> QED
      BY <3>1, <3>2, <3>3, <3>4
  <2> QED
    BY <1>1, <1>2, <1>4, <2>1 DEF ChainCovered, Missed
<1>9. PoolCovered'
  <2> SUFFICES ASSUME request.view = "asset"
               PROVE  /\ \A k \in DOMAIN pending_data : ~(k > request'.position)
                      /\ \A i \in DOMAIN request.found, k \in DOMAIN pending_data :
                           request.found[i].time < pending_data[k].time
                      /\ ~(request'.position > Len(pending_data))
    BY <1>1, <1>4 DEF PoolCovered
  <2>1. request'.position = Len(pending_data)
    BY <1>3, <1>4
  <2> QED
    BY <1>1, <1>2, <2>1, LedgerTypes DEF ChainFirst, Older
<1> QED
  BY <1>4, <1>5, <1>6, <1>7, <1>8, <1>9 DEF RequestOK

\* The record that is read, of the chain or of the pool, and what is newer.
LEMMA RecordRead ==
  ASSUME TypeOK, LedgerInOrder, RequestInv, NEW view, Reading(view)
  PROVE  /\ request \in Requests /\ request.view = view
         /\ request.position \in DOMAIN List(request.list)
         /\ request.position \in Nat /\ request.position > 0 /\ request.position <= reported
         /\ Record \in Records /\ Record.time \in Nat /\ Record.time <= reported
         /\ request.list = 1 => request.position \in DOMAIN chain
                                /\ Record = chain[request.position]
         /\ request.list = 2 => request.position \in DOMAIN pending_data
                                /\ Record = pending_data[request.position]
<1>1. request # Idle /\ request.view = view /\ request.position \in DOMAIN List(request.list)
  BY DEF Reading, More
<1>2. request \in Requests
  BY <1>1 DEF RequestInv, WellFormedRequest
<1>3. request.list \in {1, 2} /\ request.position \in Nat
  BY <1>2, RequestFields
<1>4. CASE request.list = 1
  <2>1. request.position \in DOMAIN chain /\ Record = chain[request.position]
    BY <1>1, <1>4, TheLists DEF Record
  <2> QED
    BY <1>1, <1>2, <1>3, <1>4, <2>1, LedgerTypes, RecordAt DEF LedgerInOrder, Arrived
<1>5. CASE request.list = 2
  <2>1. request.position \in DOMAIN pending_data /\ Record = pending_data[request.position]
    BY <1>1, <1>5, TheLists DEF Record
  <2> QED
    BY <1>1, <1>2, <1>3, <1>5, <2>1, LedgerTypes, RecordAt DEF LedgerInOrder, Arrived
<1> QED
  BY <1>3, <1>4, <1>5

LEMMA ReadPointRequest ==
  ASSUME TypeOK, LedgerInOrder, RequestInv, ReadPoint
  PROVE  RequestOK' /\ request' \in Requests
<1> DEFINE f == IF Wanted THEN Append(request.found, Record) ELSE request.found
<1>1. /\ Reading("history") /\ request # Idle
      /\ request' = [request EXCEPT !.found = f, !.position = request.position + 1]
      /\ UNCHANGED <<reported, pending_data, main, block, chain, answer>>
  BY DEF ReadPoint, Reading, ledgerVars
<1>2. WellFormedRequest /\ ChainFirst /\ FoundInOrder /\ ChainCovered /\ PoolCovered
  BY <1>1 DEF RequestInv
<1>3. /\ request \in Requests /\ request.view = "history" /\ request.list \in {1, 2}
      /\ request.position \in DOMAIN List(request.list)
      /\ request.position \in Nat /\ request.position > 0 /\ request.position <= reported
      /\ Record \in Records /\ Record.time \in Nat /\ Record.time <= reported
  BY <1>1, RecordRead, RequestFields
<1>4. request.found \in Seq(Records) /\ f \in Seq(Records)
      /\ \A i \in DOMAIN f :
           \/ i \in DOMAIN request.found /\ f[i] = request.found[i]
           \/ i = Len(request.found) + 1 /\ f[i] = Record
      /\ DOMAIN request.found = 1..Len(request.found) /\ Len(request.found) \in Nat
  BY <1>3, RequestFields, AppendRecord, DomainOf
<1> HIDE DEF f
<1>5. request.position + 1 \in 0 .. MaxRecords + 1
  BY <1>3, LedgerTypes, MaxRecordsAssumption
<1>6. /\ request'.list = request.list /\ request'.view = "history"
      /\ request'.position = request.position + 1 /\ request'.found = f
      /\ request'.since = request.since /\ request'.chained = request.chained
      /\ request' \in Requests
  BY <1>1, <1>3, <1>4, <1>5 DEF Requests
<1>7. \A i \in DOMAIN request.found :
        /\ request.found[i].time \in Nat /\ request.found[i].time <= reported
        /\ request.found[i].time < Record.time
  BY <1>1, <1>2, <1>3, Times DEF FoundInOrder, Record
<1>8. WellFormedRequest'
  <2>1. \A i \in DOMAIN f : f[i].time <= reported
    BY <1>3, <1>4, <1>7
  <2> QED
    BY <1>1, <1>2, <1>6, <2>1 DEF WellFormedRequest, Arrived
<1>9. ChainFirst'
  <2>1. ASSUME request.list = 1
        PROVE  \A k \in DOMAIN block : Record.time < block[k].time
    BY <1>1, <2>1, RecordRead DEF LedgerInOrder, Older
  <2>2. ASSUME request.list = 1
        PROVE  \A k \in DOMAIN pending_data : Record.time < pending_data[k].time
    BY <1>1, <2>2, RecordRead DEF LedgerInOrder, Older
  <2> QED
    BY <1>1, <1>2, <1>4, <1>6, <2>1, <2>2 DEF ChainFirst, Older
<1>10. FoundInOrder'
  <2>1. Ascending(f)
    <3> SUFFICES ASSUME NEW i \in DOMAIN f, NEW j \in DOMAIN f, i < j
                 PROVE  f[i].time < f[j].time
      BY DEF Ascending
    <3>1. i \in DOMAIN request.found /\ f[i] = request.found[i]
      BY <1>4
    <3>2. CASE j \in DOMAIN request.found /\ f[j] = request.found[j]
      BY <1>2, <1>3, <3>1, <3>2 DEF FoundInOrder, Ascending
    <3>3. CASE f[j] = Record
      BY <1>7, <3>1, <3>3
    <3> QED
      BY <1>4, <3>2, <3>3
  <2>2. ASSUME NEW i \in DOMAIN f, NEW k \in DOMAIN List(request.list),
               k >= request.position + 1
        PROVE  f[i].time < List(request.list)[k].time
    <3>0. k \in Nat /\ k >= request.position /\ request.position < k
      <4>1. k \in Nat
        BY <1>3, TheLists, LedgerTypes
      <4> QED
        BY <4>1, <1>3, <2>2
    <3>1. CASE i \in DOMAIN request.found /\ f[i] = request.found[i]
      BY <1>2, <1>3, <3>0, <3>1 DEF FoundInOrder
    <3>2. CASE f[i] = Record
      <4>1. Ascending(List(request.list))
        BY <1>3, TheLists DEF LedgerInOrder
      <4> QED
        BY <1>3, <3>0, <3>2, <4>1 DEF Ascending, Record
    <3> QED
      BY <1>4, <3>1, <3>2
  <2>3. List(request.list)' = List(request.list)
    BY <1>1, <1>6 DEF List, Lists
  <2> QED
    BY <1>3, <1>6, <2>1, <2>2, <2>3 DEF FoundInOrder, Ascending
<1>11. ChainCovered' /\ PoolCovered'
  BY <1>6 DEF ChainCovered, PoolCovered
<1> QED
  BY <1>6, <1>8, <1>9, <1>10, <1>11 DEF RequestOK

\* Read from its end, the chain of the beginning is still there under the position.
LEMMA ChainRead ==
  ASSUME TypeOK, LedgerInOrder, RequestInv, Reading("asset"),
         request.list = 1
  PROVE  /\ request.position \in DOMAIN request.chained
         /\ Record = request.chained[request.position]
<1>1. /\ request.view = "asset" /\ request.position \in DOMAIN chain
      /\ Record = chain[request.position] /\ request.position \in Nat /\ request.position > 0
      /\ request \in Requests /\ request # Idle
  BY RecordRead, RequestFields
<1>2. WellFormedRequest /\ ChainCovered
  BY <1>1 DEF RequestInv
<1>3. DOMAIN request.chained = 1..Len(request.chained) /\ Len(request.chained) \in Nat
  BY <1>1, RequestFields, DomainOf
<1>4. request.position <= Len(request.chained)
  BY <1>1, <1>2 DEF ChainCovered
<1> QED
  BY <1>1, <1>2, <1>3, <1>4 DEF WellFormedRequest

\* How what is read compares with what the chain had.
LEMMA ReadAndChained ==
  ASSUME TypeOK, LedgerInOrder, RequestInv, Reading("asset")
  PROVE  \A k \in DOMAIN request.chained :
           /\ k \in Nat /\ k > 0 /\ request.chained[k].time \in Nat
           /\ request.list = 2 => request.chained[k].time < Record.time
           /\ request.list = 1 /\ k < request.position =>
                request.chained[k].time < Record.time
<1>1. request \in Requests /\ request # Idle /\ request.position \in Nat
  BY RecordRead, RequestFields
<1>2. WellFormedRequest
  BY <1>1 DEF RequestInv
<1> SUFFICES ASSUME NEW k \in DOMAIN request.chained
             PROVE  /\ k \in Nat /\ k > 0 /\ request.chained[k].time \in Nat
                    /\ request.list = 2 => request.chained[k].time < Record.time
                    /\ request.list = 1 /\ k < request.position =>
                         request.chained[k].time < Record.time
  OBVIOUS
<1>3. k \in DOMAIN chain /\ request.chained[k] = chain[k] /\ k \in Nat /\ k > 0
      /\ chain[k].time \in Nat
  BY <1>1, <1>2, LedgerTypes, Times DEF WellFormedRequest
<1>4. request.list = 2 => chain[k].time < Record.time
  BY <1>3, RecordRead DEF LedgerInOrder, Older
<1>5. request.list = 1 /\ k < request.position => chain[k].time < Record.time
  BY <1>1, <1>3, RecordRead DEF LedgerInOrder, Ascending
<1> QED
  BY <1>3, <1>4, <1>5

\* A step that takes the record, or leaves what was found, and moves to position p.
LEMMA OneFound ==
  ASSUME TypeOK, LedgerInOrder, RequestInv, NEW view \in Views, Reading(view),
         view # "history",
         NEW f, f = <<Record>> \/ f = request.found, NEW p \in Nat, p < request.position,
         request' = [request EXCEPT !.found = f, !.position = p],
         UNCHANGED <<reported, pending_data, main, block, chain>>
  PROVE  /\ request' \in Requests /\ request'.list = request.list /\ request'.view = view
         /\ request'.position = p /\ request'.found = f
         /\ request'.since = request.since /\ request'.chained = request.chained
         /\ WellFormedRequest' /\ ChainFirst' /\ FoundInOrder' /\ Len(f) <= 1
<1>1. /\ request \in Requests /\ request.view = view
      /\ request.position \in Nat /\ request.position <= reported
      /\ Record \in Records /\ Record.time \in Nat /\ Record.time <= reported
      /\ request # Idle
  BY RecordRead, RequestFields
<1>2. WellFormedRequest /\ ChainFirst /\ ChainCovered
  BY <1>1 DEF RequestInv
<1>3. /\ f \in Seq(Records) /\ Len(f) <= 1
      /\ \A i \in DOMAIN f : f[i] = Record \/ (i \in DOMAIN request.found /\ f[i] = request.found[i])
  <2>1. request.found \in Seq(Records) /\ Len(request.found) <= 1
    BY <1>1, <1>2, RequestFields DEF ChainCovered
  <2>2. CASE f = <<Record>>
    BY <1>1, <2>2, OneRecord
  <2>3. CASE f = request.found
    BY <2>1, <2>3
  <2> QED
    BY <2>2, <2>3
<1>4. p \in 0 .. MaxRecords + 1
  BY <1>1, LedgerTypes, MaxRecordsAssumption
<1>5. /\ request' \in Requests /\ request'.list = request.list /\ request'.view = view
      /\ request'.position = p /\ request'.found = f
      /\ request'.since = request.since /\ request'.chained = request.chained
  BY <1>1, <1>3, <1>4 DEF Requests
<1>6. WellFormedRequest'
  <2>1. \A i \in DOMAIN f : f[i].time <= reported
    BY <1>1, <1>2, <1>3 DEF WellFormedRequest, Arrived
  <2> QED
    BY <1>2, <1>5, <2>1 DEF WellFormedRequest, Arrived
<1>7. ChainFirst'
  <2> SUFFICES ASSUME request.list = 1
               PROVE  Older(f, block) /\ Older(f, pending_data)
    BY <1>5 DEF ChainFirst, Older
  <2>1. \A k \in DOMAIN block : Record.time < block[k].time
    BY RecordRead DEF LedgerInOrder, Older
  <2>2. \A k \in DOMAIN pending_data : Record.time < pending_data[k].time
    BY RecordRead DEF LedgerInOrder, Older
  <2> QED
    BY <1>2, <1>3, <2>1, <2>2 DEF ChainFirst, Older
<1>8. FoundInOrder'
  BY <1>5 DEF FoundInOrder
<1> QED
  BY <1>3, <1>5, <1>6, <1>7, <1>8

LEMMA ReadMetricRequest ==
  ASSUME TypeOK, LedgerInOrder, RequestInv, ReadMetric
  PROVE  RequestOK' /\ request' \in Requests
<1> DEFINE f == IF TakesPlace THEN <<Record>> ELSE request.found
<1>1. /\ Reading("latest") /\ request # Idle
      /\ request' = [request EXCEPT !.found = f, !.position = request.position - 1]
      /\ UNCHANGED <<reported, pending_data, main, block, chain>>
  BY DEF ReadMetric, Reading, ledgerVars
<1>2. request.position \in Nat /\ request.position > 0
  BY <1>1, RecordRead
<1>3. request.position - 1 \in Nat /\ request.position - 1 < request.position
  BY <1>2
<1>4. f = <<Record>> \/ f = request.found
  OBVIOUS
<1> HIDE DEF f
<1>5. /\ request' \in Requests /\ request'.list = request.list /\ request'.view = "latest"
      /\ request'.position = request.position - 1 /\ request'.found = f
      /\ request'.since = request.since /\ request'.chained = request.chained
      /\ WellFormedRequest' /\ ChainFirst' /\ FoundInOrder' /\ Len(f) <= 1
  BY <1>1, <1>3, <1>4, OneFound DEF Views
<1>6. ChainCovered' /\ PoolCovered'
  BY <1>5 DEF ChainCovered, PoolCovered
<1> QED
  BY <1>5, <1>6 DEF RequestOK

LEMMA ReadAssetRequest ==
  ASSUME TypeOK, LedgerInOrder, RequestInv, ReadAsset
  PROVE  RequestOK' /\ request' \in Requests
<1> DEFINE f == IF Wanted THEN <<Record>> ELSE request.found
           p == IF Wanted THEN 0 ELSE request.position - 1
<1>1. /\ Reading("asset") /\ request # Idle /\ request.view = "asset"
      /\ UNCHANGED <<reported, pending_data, main, block, chain>>
  BY DEF ReadAsset, Reading, ledgerVars
<1>2. WellFormedRequest /\ ChainCovered /\ PoolCovered
  BY <1>1 DEF RequestInv
<1>3. /\ request.list \in {1, 2} /\ request \in Requests
      /\ request.position \in Nat /\ request.position > 0
      /\ Record \in Records /\ Record.time \in Nat /\ request.found \in Seq(Records)
  BY <1>1, RecordRead, RequestFields
<1>4. request' = [request EXCEPT !.found = f, !.position = p]
  BY <1>1, <1>3 DEF ReadAsset, Requests
<1>5. p \in Nat /\ p < request.position
  BY <1>3
<1>6. \/ Wanted /\ f = <<Record>> /\ p = 0
      \/ ~Wanted /\ f = request.found /\ p = request.position - 1
  OBVIOUS
<1> HIDE DEF f, p
<1>7. /\ request' \in Requests /\ request'.list = request.list /\ request'.view = "asset"
      /\ request'.position = p /\ request'.found = f
      /\ request'.since = request.since /\ request'.chained = request.chained
      /\ WellFormedRequest' /\ ChainFirst' /\ FoundInOrder' /\ Len(f) <= 1
  BY <1>1, <1>4, <1>5, <1>6, OneFound DEF Views
<1>8. Wanted => f # << >> /\ f[1] = Record
  BY <1>3, <1>6, OneRecord
<1>9. request.list = 1 => request.found = << >>
  BY <1>1, <1>2, <1>3 DEF ChainCovered
<1>10. \A k \in DOMAIN request.chained :
         request.list = 2 \/ k > p => ~Missed(request.chained[k])'
  <2> SUFFICES ASSUME NEW k \in DOMAIN request.chained, request.list = 2 \/ k > p,
                      request.chained[k].kind = "asset"
               PROVE  f # << >> /\ request.chained[k].time <= f[1].time
    BY <1>7 DEF Missed, KindOf
  <2>1. /\ k \in Nat /\ k > 0 /\ request.chained[k].time \in Nat
        /\ request.list = 2 => request.chained[k].time < Record.time
        /\ request.list = 1 /\ k < request.position => request.chained[k].time < Record.time
    BY <1>1, ReadAndChained
  <2>2. CASE request.list = 2
    <3>1. CASE Wanted
      BY <1>3, <1>8, <2>1, <2>2, <3>1
    <3>2. CASE ~Wanted
      BY <1>1, <1>2, <1>6, <2>2, <3>2 DEF ChainCovered, Missed, KindOf
    <3> QED
      BY <3>1, <3>2
  <2>3. CASE request.list = 1
    <3>1. ~(k > request.position)
      BY <1>1, <1>2, <1>9, <2>3 DEF ChainCovered, Missed, KindOf
    <3>2. CASE k = request.position
      <4>1. request.chained[k] = Record
        BY <1>1, <2>3, <3>2, ChainRead
      <4>2. Wanted
        BY <1>1, <4>1 DEF Wanted, KindOf
      <4> QED
        BY <1>3, <1>8, <4>1, <4>2
    <3>3. CASE k < request.position
      <4>1. Wanted
        BY <1>3, <1>6, <2>1, <2>3, <3>3
      <4> QED
        BY <1>3, <1>8, <2>1, <2>3, <3>3, <4>1
    <3> QED
      BY <1>3, <2>1, <3>1, <3>2, <3>3
  <2> QED
    BY <1>3, <2>2, <2>3
<1>11. ChainCovered'
  <2>1. ASSUME request.list = 1
        PROVE  /\ p <= Len(request.chained)
               /\ f # << >> => p = 0
               /\ \A i \in DOMAIN f, k \in DOMAIN request.chained :
                    k <= p => request.chained[k].time < f[i].time
    <3>1. request.position <= Len(request.chained) /\ Len(request.chained) \in Nat
      BY <1>1, <1>2, <1>3, <2>1, RequestFields, DomainOf DEF ChainCovered
    <3>2. \A k \in DOMAIN request.chained : k \in Nat /\ k > 0
      BY <1>1, ReadAndChained
    <3>3. f # << >> => p = 0
      BY <1>6, <1>9, <2>1
    <3>4. f = << >> => \A i \in DOMAIN f : FALSE
      BY NoRecord
    <3> QED
      BY <1>3, <1>5, <3>1, <3>2, <3>3, <3>4
  <2> QED
    BY <1>7, <1>10, <2>1 DEF ChainCovered
<1>12. PoolCovered'
  <2> SUFFICES ASSUME request.list = 2
               PROVE  /\ \A k \in DOMAIN pending_data :
                           k > p /\ pending_data[k].time <= request.since =>
                             ~Missed(pending_data[k])'
                      /\ \A i \in DOMAIN f, k \in DOMAIN pending_data :
                           k <= p => f[i].time < pending_data[k].time
                      /\ ~(p > Len(pending_data))
    BY <1>1, <1>7 DEF PoolCovered, Missed
  <2>1. request.position \in DOMAIN pending_data /\ Record = pending_data[request.position]
    BY <1>1, RecordRead
  <2>2. \A k \in DOMAIN pending_data :
          /\ k \in Nat /\ k > 0 /\ pending_data[k].time \in Nat
          /\ k < request.position => pending_data[k].time < Record.time
    BY <1>1, <2>1, LedgerTypes, Times, <1>2 DEF LedgerInOrder, Ascending
  <2>3. ASSUME NEW k \in DOMAIN pending_data, k > p, pending_data[k].time <= request.since,
               pending_data[k].kind = "asset"
        PROVE  f # << >> /\ pending_data[k].time <= f[1].time
    <3>1. CASE k > request.position
      <4>1. request.found # << >> /\ pending_data[k].time <= request.found[1].time
        BY <1>1, <1>2, <2>3, <3>1 DEF PoolCovered, Missed, KindOf
      <4>2. CASE Wanted
        <5>1. 1 \in DOMAIN request.found
          BY <1>3, <4>1, EmptySeq, DomainOf
        <5>2. request.found[1].time \in Nat
          BY <1>3, <5>1, RecordAt
        <5>3. request.found[1].time < Record.time
          BY <1>1, <1>2, <1>3, <2>1, <5>1 DEF PoolCovered
        <5> QED
          BY <1>3, <1>8, <2>2, <4>1, <4>2, <5>2, <5>3
      <4>3. CASE ~Wanted
        BY <1>6, <4>1, <4>3
      <4> QED
        BY <4>2, <4>3
    <3>2. CASE k = request.position
      <4>1. Wanted
        BY <1>1, <2>1, <2>3, <3>2 DEF Wanted, KindOf
      <4> QED
        BY <1>3, <1>8, <2>1, <3>2, <4>1
    <3>3. CASE k < request.position
      <4>1. Wanted
        BY <1>3, <1>6, <2>2, <2>3, <3>3
      <4> QED
        BY <1>3, <1>8, <2>2, <3>3, <4>1
    <3> QED
      BY <1>3, <2>2, <3>1, <3>2, <3>3
  <2>4. ASSUME NEW i \in DOMAIN f, NEW k \in DOMAIN pending_data, k <= p
        PROVE  f[i].time < pending_data[k].time
    <3>1. ~Wanted /\ f = request.found /\ k <= request.position
      BY <1>3, <1>6, <2>2, <2>4
    <3> QED
      BY <1>1, <1>2, <2>4, <3>1 DEF PoolCovered
  <2>5. ~(p > Len(pending_data))
    BY <1>3, <1>5, <2>1, LedgerTypes
  <2>6. ASSUME NEW k \in DOMAIN pending_data, k > p /\ pending_data[k].time <= request.since
        PROVE  ~Missed(pending_data[k])'
    BY <1>1, <1>7, <2>3, <2>6 DEF Missed, KindOf
  <2> QED
    BY <2>4, <2>5, <2>6
<1> QED
  BY <1>7, <1>11, <1>12 DEF RequestOK

-----------------------------------------------------------------------------
(* The answer.                                                             *)

\* sorted() leaves what is in order in order.
LEMMA ByTimeInOrder ==
  ASSUME NEW s \in Seq(Records), Ascending(s)
  PROVE  ByTime(s) \in Seq(Records) /\ Len(ByTime(s)) = Len(s) /\ Ascending(ByTime(s))
<1> DEFINE D == DOMAIN s
           id == [i \in D |-> i]
           p == CHOOSE q \in Bijection(D, D) : Sorts(q, s)
           t == [i \in D |-> s[p[i]]]
<1>1. D = 1..Len(s) /\ Len(s) \in Nat /\ \A i \in D : s[i] \in Records /\ s[i].time \in Nat
  BY DomainOf, RecordAt
<1>2. id \in Bijection(D, D)
  BY DEF Bijection, Injection, Surjection, IsInjective
<1>3. Sorts(id, s)
  BY DEF Sorts, Ascending
<1>4. p \in Bijection(D, D) /\ Sorts(p, s)
  <2> HIDE DEF id
  <2> QED
    BY <1>2, <1>3
<1> HIDE DEF p
<1>5. p \in [D -> D] /\ \A i, j \in D : p[i] = p[j] => i = j
  BY <1>4 DEF Bijection, Injection, IsInjective
<1>6. ByTime(s) = t
  BY DEF ByTime, p
<1>7. t \in Seq(Records) /\ Len(t) = Len(s)
  <2>1. \A i \in D : s[p[i]] \in Records
    BY <1>1, <1>5
  <2>2. t \in [1..Len(s) -> Records]
    BY <1>1, <2>1
  <2> HIDE DEF t
  <2> QED
    BY <1>1, <2>2, IsASeq, LenProperties
<1>8. ASSUME NEW i \in D, NEW j \in D, i < j
      PROVE  s[p[i]].time < s[p[j]].time
  <2>1. p[i] \in D /\ p[j] \in D /\ p[i] # p[j]
    BY <1>1, <1>5, <1>8
  <2>2. s[p[i]].time # s[p[j]].time
    BY <1>1, <2>1 DEF Ascending
  <2> QED
    BY <1>4, <1>8, <2>2 DEF Sorts
<1>9. Ascending(t)
  BY <1>8 DEF Ascending
<1> QED
  BY <1>6, <1>7, <1>9

LEMMA MaxOfTwo ==
  ASSUME NEW a \in Int, NEW b \in Int
  PROVE  Max({a, b}) \in {a, b} /\ Max({a, b}) >= a /\ Max({a, b}) >= b
<1>1. \E x \in {a, b} : \A y \in {a, b} : x >= y
  <2>1. CASE a >= b
    BY <2>1
  <2>2. CASE b >= a
    BY <2>2
  <2> QED
    BY <2>1, <2>2
<1> QED
  BY <1>1 DEF Max

\* What is answered of a history in order is in order, and not too much.
LEMMA LastPointsInOrder ==
  ASSUME NEW s \in Seq(Records), Ascending(s)
  PROVE  /\ LastPoints(s) \in Seq(Records) /\ Len(LastPoints(s)) <= HistoryLimit
         /\ Ascending(LastPoints(s))
<1> DEFINE t == ByTime(s)
           n == Len(s)
           b == n - HistoryLimit + 1
           m == Max({1, b})
           u == SubSeq(t, m, n)
<1>1. t \in Seq(Records) /\ Len(t) = n /\ Ascending(t) /\ n \in Nat
  BY ByTimeInOrder, DomainOf
<1>2. m \in Int /\ m >= 1 /\ m >= n - HistoryLimit + 1 /\ m <= n + 1
  <2>1. b \in Int /\ 1 \in Int /\ b <= n + 1 /\ 1 <= n + 1
    BY <1>1, HistoryLimitAssumption
  <2> HIDE DEF b
  <2>2. m \in {1, b} /\ m >= 1 /\ m >= b
    BY <2>1, MaxOfTwo, Zenon
  <2> HIDE DEF m
  <2>3. m \in Int /\ m >= 1 /\ m >= b /\ m <= n + 1
    BY <2>1, <2>2
  <2> QED
    BY <2>3 DEF b
<1> HIDE DEF t, n, m
<1>3. \A i \in m..n : i \in 1..Len(t)
  BY <1>1, <1>2
<1>4. /\ u \in Seq(Records)
      /\ Len(u) = IF m <= n THEN n - m + 1 ELSE 0
      /\ \A i \in 1 .. n - m + 1 : u[i] = t[m + i - 1]
  <2>1. m \in 1..Len(t) + 1 /\ n \in m - 1 .. Len(t)
    BY <1>1, <1>2
  <2> QED
    BY <1>1, <1>2, <2>1, SubSeqProperties
<1>5. Len(u) = n - m + 1 /\ Len(u) <= HistoryLimit
  BY <1>1, <1>2, <1>4, HistoryLimitAssumption
<1>6. DOMAIN u = 1 .. n - m + 1
  BY <1>4, <1>5, DomainOf
<1>7. Ascending(u)
  <2> SUFFICES ASSUME NEW i \in DOMAIN u, NEW j \in DOMAIN u, i < j
               PROVE  u[i].time < u[j].time
    BY DEF Ascending
  <2>1. m + i - 1 \in 1..Len(t) /\ m + j - 1 \in 1..Len(t) /\ m + i - 1 < m + j - 1
    BY <1>1, <1>2, <1>6
  <2>2. DOMAIN t = 1..Len(t) /\ u[i] = t[m + i - 1] /\ u[j] = t[m + j - 1]
    BY <1>1, <1>4, <1>6, DomainOf
  <2> HIDE DEF u
  <2> QED
    BY <1>1, <2>1, <2>2 DEF Ascending
<1>8. LastPoints(s) = u
  BY DEF LastPoints, t, n, m, b
<1> QED
  BY <1>4, <1>5, <1>7, <1>8

-----------------------------------------------------------------------------
(* Every step keeps the invariant.                                         *)

LEMMA InitViews == Init => ViewsInv
<1> SUFFICES ASSUME Init PROVE ViewsInv
  OBVIOUS
<1>1. /\ reported = 0 /\ pending_data = << >> /\ block = << >> /\ chain = << >>
      /\ main = "loop" /\ request = Idle
      /\ answer \in [Views -> {<< >>}]
  BY DEF Init
<1>2. /\ \A view \in Views : answer[view] = << >>
      /\ "history" \in Views /\ 0 \in 0..MaxRecords /\ 0 <= HistoryLimit /\ 0 <= 1
  BY <1>1, MaxRecordsAssumption, HistoryLimitAssumption DEF Views
<1>3. answer \in [Views -> Seq(Records)]
  BY <1>1, NoRecord
<1>4. TypeOK
  BY <1>1, <1>2, <1>3, NoRecord DEF TypeOK
<1>5. LedgerInOrder
  BY <1>1, NoRecord DEF LedgerInOrder, Ascending, Older, Arrived
<1>6. NoPointTwice
  BY <1>2, NoRecord DEF NoPointTwice
<1> QED
  BY <1>1, <1>4, <1>5, <1>6 DEF ViewsInv, RequestInv

\* The threads that move the records leave the request and the answers alone.
LEMMA LedgerKeeps ==
  ASSUME ViewsInv, CreateBlock \/ ClearPool \/ AddBlock \/ \E kind \in Kinds : Report(kind)
  PROVE  ViewsInv'
<1>1. TypeOK /\ LedgerInOrder /\ RequestInv /\ NoPointTwice
  BY DEF ViewsInv
<1>2. LedgerInOrder' /\ RequestInv'
  BY <1>1, ReportInOrder, CreateBlockInOrder, ClearPoolInOrder, AddBlockInOrder,
     ReportRequest, CreateBlockRequest, ClearPoolRequest, AddBlockRequest
<1>3. UNCHANGED <<request, answer>>
  BY DEF CreateBlock, ClearPool, AddBlock, Report
<1>4. /\ reported' \in 0..MaxRecords /\ main' \in {"loop", "clear", "append"}
      /\ pending_data' \in Seq(Records) /\ block' \in Seq(Records) /\ chain' \in Seq(Records)
  <2>1. CASE CreateBlock \/ ClearPool
    BY <1>1, <2>1, NoRecord DEF CreateBlock, ClearPool, TypeOK
  <2>2. CASE AddBlock
    BY <1>1, <2>2, NoRecord, ConcatRecords DEF AddBlock, TypeOK
  <2>3. CASE \E kind \in Kinds : Report(kind)
    <3>1. PICK r \in Records :
            /\ reported' \in 0..MaxRecords /\ pending_data' = Append(pending_data, r)
            /\ UNCHANGED <<main, block, chain>>
      BY <1>1, <2>3, ReportedRecord
    <3> QED
      BY <1>1, <3>1, AppendRecord DEF TypeOK
  <2> QED
    BY <2>1, <2>2, <2>3
<1>5. TypeOK'
  BY <1>1, <1>3, <1>4 DEF TypeOK
<1> QED
  BY <1>1, <1>2, <1>3, <1>5 DEF ViewsInv, NoPointTwice

\* A step of a request leaves the ledger and the answers alone, and answers nothing.
LEMMA RequestKeeps ==
  ASSUME ViewsInv,
         \/ ReadPool \/ ReadPoint \/ ReadMetric \/ ReadAsset
         \/ \E view \in Views : Begin(view)
  PROVE  ViewsInv' /\ request' # Idle
<1>1. TypeOK /\ LedgerInOrder /\ RequestInv /\ NoPointTwice
  BY DEF ViewsInv
<1>2. RequestOK' /\ request' \in Requests
  BY <1>1, BeginRequest, ReadPoolRequest, ReadPointRequest, ReadMetricRequest, ReadAssetRequest
<1>3. UNCHANGED <<reported, pending_data, main, block, chain, answer>>
  BY DEF Begin, ReadPool, ReadPoint, ReadMetric, ReadAsset, ledgerVars
<1>4. TypeOK'
  BY <1>1, <1>2, <1>3 DEF TypeOK, Requests
<1>5. LedgerInOrder' /\ NoPointTwice'
  BY <1>1, <1>3 DEF LedgerInOrder, Ascending, Older, Arrived, NoPointTwice
<1>6. RequestInv'
  BY <1>2 DEF RequestInv, RequestOK
<1> QED
  BY <1>2, <1>4, <1>5, <1>6, RequestFields DEF ViewsInv

\* What is answered: the last points of a history, at most one record otherwise.
LEMMA Answers ==
  ASSUME ViewsInv, Answer
  PROVE  /\ request # Idle /\ request \in Requests /\ request.list = 2 /\ RequestOK
         /\ request.position \notin DOMAIN pending_data
         /\ request' = Idle /\ UNCHANGED <<reported, pending_data, main, block, chain>>
         /\ answer' \in [Views -> Seq(Records)]
         /\ answer'[request.view] = IF request.view = "history"
                                    THEN LastPoints(request.found) ELSE request.found
         /\ \A view \in Views \ {request.view} : answer'[view] = answer[view]
<1> DEFINE a == IF request.view = "history" THEN LastPoints(request.found) ELSE request.found
<1>1. /\ request # Idle /\ request.list = 2 /\ ~More /\ request' = Idle
      /\ answer' = [answer EXCEPT ![request.view] = a]
      /\ UNCHANGED <<reported, pending_data, main, block, chain>>
  BY DEF Answer, ledgerVars
<1>2. RequestOK /\ request \in Requests
  BY <1>1 DEF ViewsInv, RequestInv, RequestOK, WellFormedRequest
<1>3. request.view \in Views /\ request.found \in Seq(Records)
  BY <1>2, RequestFields
<1>4. a \in Seq(Records)
  <2>1. request.view = "history" => Ascending(request.found)
    BY <1>2 DEF RequestOK, FoundInOrder
  <2> QED
    BY <1>3, <2>1, LastPointsInOrder
<1> HIDE DEF a
<1>5. answer \in [Views -> Seq(Records)]
  BY DEF ViewsInv, TypeOK
<1>6. /\ answer' \in [Views -> Seq(Records)] /\ answer'[request.view] = a
      /\ \A view \in Views \ {request.view} : answer'[view] = answer[view]
  BY <1>1, <1>3, <1>4, <1>5
<1>7. request.position \notin DOMAIN pending_data
  BY <1>1, TheLists DEF More
<1> QED
  BY <1>1, <1>2, <1>6, <1>7 DEF a

LEMMA AnswerKeeps ==
  ASSUME ViewsInv, Answer
  PROVE  ViewsInv'
<1>1. TypeOK /\ LedgerInOrder /\ NoPointTwice
  BY DEF ViewsInv
<1>2. request.view \in Views /\ request.found \in Seq(Records)
  BY Answers, RequestFields
<1>3. /\ request' = Idle /\ UNCHANGED <<reported, pending_data, main, block, chain>>
      /\ answer' \in [Views -> Seq(Records)]
      /\ \A view \in Views \ {request.view} : answer'[view] = answer[view]
  BY Answers
<1>4. ASSUME request.view = "history"
      PROVE  Len(answer'["history"]) <= HistoryLimit /\ Ascending(answer'["history"])
  <2>1. answer'["history"] = LastPoints(request.found) /\ Ascending(request.found)
    BY <1>4, Answers DEF RequestOK, FoundInOrder
  <2> QED
    BY <1>2, <2>1, LastPointsInOrder
<1>5. ASSUME request.view # "history"
      PROVE  Len(answer'[request.view]) <= 1
  BY <1>5, Answers DEF RequestOK, ChainCovered
<1>6. Len(answer'["history"]) <= HistoryLimit /\ Ascending(answer'["history"])
  <2>1. CASE request.view = "history"
    BY <1>4, <2>1
  <2>2. CASE request.view # "history"
    BY <1>1, <1>3, <2>2 DEF Views, TypeOK, NoPointTwice, Ascending
  <2> QED
    BY <2>1, <2>2
<1>7. \A view \in Views \ {"history"} : Len(answer'[view]) <= 1
  BY <1>1, <1>3, <1>5 DEF TypeOK
<1>8. TypeOK'
  BY <1>1, <1>3, <1>6, <1>7 DEF TypeOK
<1>9. LedgerInOrder'
  BY <1>1, <1>3 DEF LedgerInOrder, Ascending, Older, Arrived
<1>10. NoPointTwice'
  BY <1>6 DEF NoPointTwice, Ascending
<1> QED
  BY <1>3, <1>8, <1>9, <1>10 DEF ViewsInv, RequestInv

LEMMA StepViews == ViewsInv /\ [Next]_vars => ViewsInv'
<1> SUFFICES ASSUME ViewsInv, [Next]_vars PROVE ViewsInv'
  OBVIOUS
<1>1. CASE Answer
  BY <1>1, AnswerKeeps
<1>2. CASE CreateBlock \/ ClearPool \/ AddBlock \/ \E kind \in Kinds : Report(kind)
  BY <1>2, LedgerKeeps
<1>3. CASE \/ ReadPool \/ ReadPoint \/ ReadMetric \/ ReadAsset
           \/ \E view \in Views : Begin(view)
  BY <1>3, RequestKeeps
<1>4. CASE UNCHANGED vars
  <2>1. UNCHANGED <<reported, pending_data, main, block, chain, request, answer>>
    BY <1>4 DEF vars, ledgerVars
  <2>2. (TypeOK /\ LedgerInOrder /\ NoPointTwice)'
    BY <2>1 DEF ViewsInv, TypeOK, LedgerInOrder, Ascending, Older, Arrived, NoPointTwice
  <2>3. RequestInv'
    BY <2>1 DEF ViewsInv, RequestInv, WellFormedRequest, Arrived, ChainFirst, Older,
                FoundInOrder, Ascending, ChainCovered, PoolCovered, Missed, List, Lists
  <2> QED
    BY <2>2, <2>3 DEF ViewsInv
<1> QED
  BY <1>1, <1>2, <1>3, <1>4 DEF Next

-----------------------------------------------------------------------------
(* The theorems.                                                           *)

\* Whatever limit and however many records: what the handlers keep and answer is
\* well typed, no history is longer than its limit and the other two answer one
\* record at most.
THEOREM ViewsTypeCorrect == Spec => []TypeOK
<1>1. ViewsInv => TypeOK
  BY DEF ViewsInv
<1> QED
  BY <1>1, InitViews, StepViews, PTL DEF Spec

\* However records move from the pool to the chain under the request, the metric
\* history answers each of its points once, in the order of time.
THEOREM HistoryHasNoPointTwice == Spec => []NoPointTwice
<1>1. ViewsInv => NoPointTwice
  BY DEF ViewsInv
<1> QED
  BY <1>1, InitViews, StepViews, PTL DEF Spec

\* However records move from the pool to the chain under the request: the asset that
\* is answered for a device is only older than records that moved under it, and
\* never than one that the chain had when the request came or that is in the pool.
THEOREM AnswersOverlookOnlyMoving == Spec => OnlyMovingOverlooked
<1>1. ASSUME ViewsInv, [Next]_vars, Answered("asset")
      PROVE  Passed("asset") = {}
  <2>1. request # Idle /\ request.view = "asset" /\ request' = Idle
    BY <1>1 DEF Answered
  <2>2. Answer
    <3>1. ~(CreateBlock \/ ClearPool \/ AddBlock \/ \E kind \in Kinds : Report(kind))
      BY <2>1 DEF CreateBlock, ClearPool, AddBlock, Report
    <3>2. ~(UNCHANGED vars)
      BY <2>1 DEF vars
    <3> QED
      BY <1>1, <2>1, <3>1, <3>2, RequestKeeps DEF Next
  <2>3. /\ request \in Requests /\ request.list = 2 /\ ChainCovered /\ PoolCovered
        /\ request.position \notin DOMAIN pending_data
        /\ answer'["asset"] = request.found
    BY <1>1, <2>1, <2>2, Answers DEF RequestOK
  <2> SUFFICES ASSUME NEW r \in Overlooked("asset")
               PROVE  ~Contains(request.chained, r) /\ ~Contains(pending_data, r)
    BY DEF Passed
  <2>4. /\ r.kind = KindOf("asset") /\ r.time <= request.since
        /\ request.found = << >> \/ r.time > request.found[1].time
    BY <2>3 DEF Overlooked
  <2>5. ASSUME NEW s \in Seq(Records), NEW k \in DOMAIN s, s[k] = r
        PROVE  Missed(r)
    <3>1. r.time \in Nat
      BY <2>5, RecordAt
    <3>2. ASSUME request.found # << >>
          PROVE  request.found[1].time \in Nat
      <4>1. 1 \in DOMAIN request.found
        BY <2>3, <3>2, RequestFields, EmptySeq, DomainOf
      <4> QED
        BY <2>3, <4>1, RequestFields, RecordAt
    <3> QED
      BY <2>1, <2>4, <3>1, <3>2 DEF Missed
  <2>6. ~Contains(request.chained, r)
    <3> SUFFICES ASSUME NEW k \in 1..Len(request.chained), request.chained[k] = r
                 PROVE  FALSE
      BY DEF Contains
    <3>1. request.chained \in Seq(Records) /\ k \in DOMAIN request.chained
      BY <2>3, RequestFields, DomainOf
    <3> QED
      BY <2>1, <2>3, <2>5, <3>1 DEF ChainCovered
  <2>7. ~Contains(pending_data, r)
    <3> SUFFICES ASSUME NEW k \in 1..Len(pending_data), pending_data[k] = r
                 PROVE  FALSE
      BY DEF Contains
    <3>1. /\ pending_data \in Seq(Records) /\ k \in DOMAIN pending_data
          /\ k \in Nat /\ k > 0 /\ DOMAIN pending_data = 1..Len(pending_data)
          /\ Len(pending_data) \in Nat /\ r.time \in Nat
          /\ request.position \in Nat /\ request.since \in Nat
      BY <1>1, <2>3, LedgerTypes, RecordAt, RequestFields DEF ViewsInv
    <3>2. CASE request.position > Len(pending_data)
      BY <2>1, <2>3, <2>4, <3>1, <3>2 DEF PoolCovered
    <3>3. CASE request.position = 0
      BY <2>1, <2>3, <2>4, <2>5, <3>1, <3>3 DEF PoolCovered
    <3> QED
      BY <2>3, <3>1, <3>2, <3>3
  <2> QED
    BY <2>6, <2>7
<1>2. ViewsInv /\ [Next]_vars => [Answered("asset") => Passed("asset") = {}]_vars
  BY <1>1
<1> QED
  BY <1>2, InitViews, StepViews, PTL DEF Spec, OnlyMovingOverlooked

=============================================================================
