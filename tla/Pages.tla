--------------------------------- MODULE Pages ---------------------------------
(***************************************************************************)
(* The block list of the dashboard, which shows the newest blocks on page  *)
(* 1 and counts its pages from the newest block backwards.  Somebody turns *)
(* its pages while the chain grows, so that what a page holds moves on     *)
(* under the reader.  The page is asked for again every 30 seconds, and    *)
(* answers are shown in whatever order they arrive: several requests may   *)
(* be under way, and the one that is shown last need not be the newest.    *)
(*                                                                         *)
(* A block is its height here; api_blocks reads the chain once, and the    *)
(* chain of a server that is up only grows.                                *)
(***************************************************************************)
EXTENDS Integers, FiniteSets

CONSTANTS
  PageSize,    \* the limit of /api/blockchain/blocks, 50 in the dashboard
  MaxBlocks,   \* bound: how long the chain gets
  MaxRequests  \* bound: how many requests are under way at a time

ASSUME PageSizeAssumption == PageSize \in Nat \ {0}
ASSUME MaxBlocksAssumption == MaxBlocks \in Nat \ {0}
ASSUME MaxRequestsAssumption == MaxRequests \in Nat

VARIABLES
  length,    \* the number of blocks on the chain
  page,      \* blockchainPage
  total,     \* the length that the answer on display was counted from, 0 for none
  requests,  \* the requests for a page that are under way
  first,     \* history: how many blocks there were when somebody began to read
  seen       \* history: the heights of the blocks displayed since

readerVars == <<first, seen>>
pagesVars == <<length, page, total, requests, readerVars>>

PagesInit ==
  /\ length = 1
  /\ page = 1 /\ total = 0
  /\ requests = {}
  /\ first = 0 /\ seen = {}

-----------------------------------------------------------------------------
(* The server: api_blocks.                                                 *)

\* Mutant of AtLeastZero: indices below zero count from the end, in Python.
Unclamped(n) == n

AtLeastZero(n) == IF n < 0 THEN 0 ELSE n

\* The blocks of a page are those of heights PageStart to PageEnd - 1.
PageEnd(n, p) == AtLeastZero(n - (p - 1) * PageSize)
PageStart(n, p) == AtLeastZero(PageEnd(n, p) - PageSize)

Blocks(n, p) == PageStart(n, p) .. PageEnd(n, p) - 1

\* Mutant of TotalPages: the last page counts only when it is full.
FullPages(n) == n \div PageSize

TotalPages(n) == (n + PageSize - 1) \div PageSize

\* The page is counted from the length that the chain has now.
Serve(q) ==
  /\ q.at = "sent"
  /\ requests' = (requests \ {q}) \union {[q EXCEPT !.at = "answered", !.length = length]}
  /\ UNCHANGED <<length, page, total, readerVars>>

\* add_block and sync_chain.
Grow ==
  /\ length < MaxBlocks
  /\ length' \in length + 1 .. MaxBlocks
  /\ UNCHANGED <<page, total, requests, readerVars>>

-----------------------------------------------------------------------------
(* The browser: loadBlockchainPage.                                        *)

AtLeastOne(p) == IF p < 1 THEN 1 ELSE p

LoadPage(p) ==
  /\ Cardinality(requests) < MaxRequests
  /\ requests' = requests \union {[page |-> AtLeastOne(p), at |-> "sent", length |-> length]}
  /\ UNCHANGED <<length, page, total, readerVars>>

\* The buttons are disabled on the last and on the first page, but not yet when
\* no answer has been displayed.
NextPage == (total = 0 \/ page < TotalPages(total)) /\ LoadPage(page + 1)
PrevPage == (total = 0 \/ page > 1) /\ LoadPage(page - 1)

\* The Refresh button, opening the tab, and loadData every 30 seconds.
RefreshPage == LoadPage(page)

\* The answer is displayed, whatever was asked for meanwhile.
Display(q) ==
  /\ q.at = "answered"
  /\ requests' = requests \ {q}
  /\ page' = q.page
  /\ total' = q.length
  /\ seen' = IF first > 0 THEN seen \union Blocks(q.length, q.page) ELSE {}
  /\ UNCHANGED <<length, first>>

\* The fetch fails, or what comes is not JSON, like the page that an exception in the
\* handler is answered with; that is logged. The one error with a JSON body is for
\* a web server without a client, which set_client precludes before the server starts.
Lose(q) ==
  /\ requests' = requests \ {q}
  /\ UNCHANGED <<length, page, total, readerVars>>

\* The dashboard is loaded anew.
Reload ==
  /\ page' = 1 /\ total' = 0 /\ requests' = {}
  /\ first' = 0 /\ seen' = {}
  /\ UNCHANGED length

\* Somebody begins to read page 1, when nothing is under way.
BeginReading ==
  /\ page = 1 /\ total > 0 /\ requests = {}
  /\ first' = total
  /\ seen' = Blocks(total, 1)
  /\ UNCHANGED <<length, page, total, requests>>

-----------------------------------------------------------------------------

PagesNext ==
  \/ NextPage \/ PrevPage \/ RefreshPage \/ Reload \/ BeginReading
  \/ \E q \in requests : Serve(q) \/ Display(q) \/ Lose(q)
  \/ Grow

PagesSpec == PagesInit /\ [][PagesNext]_pagesVars

-----------------------------------------------------------------------------
(* Properties.                                                             *)

PagesTypeOK ==
  /\ length \in 1..MaxBlocks /\ total \in 0..length /\ first \in 0..length
  /\ page \in Nat \ {0}
  /\ requests \subseteq [page : Nat \ {0}, at : {"sent", "answered"}, length : 1..length]
  /\ seen \subseteq 0 .. length - 1

\* Who began to read on page 1 and is on the last page by now has seen every block
\* that was there at the beginning, however the chain grew in between and in
\* whatever order the answers came.
PagesCover ==
  first > 0 /\ page >= TotalPages(total) => 0 .. first - 1 \subseteq seen

=============================================================================
