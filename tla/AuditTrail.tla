------------------------------ MODULE AuditTrail ------------------------------
(***************************************************************************)
(* What the ledger of one server promises, with no threads, files, blocks  *)
(* or hashes: records arrive one after the other, batches of records that  *)
(* arrived are committed to a trail in order of arrival, each record at    *)
(* most once, and nothing that was committed is ever rewritten.            *)
(*                                                                         *)
(* Once there has been a mishap, a crash or a file that could not be read  *)
(* or written, a restart may come back with a prefix of the trail, or with *)
(* a new one; in that case the old trail is shelved, and another restart   *)
(* may bring it back until it is overwritten.  Without a mishap none of    *)
(* this may happen.                                                        *)
(***************************************************************************)
EXTENDS Naturals, Sequences, SequencesExt

CONSTANT Records

VARIABLES trail,    \* the committed batches, each a set of records
          shelved,  \* the batches of a trail that a restart could not read
          received, \* the number of the last record that arrived
          mishap    \* has there been a mishap?

vars == <<trail, shelved, received, mishap>>

Committed == UNION ToSet(trail)
SetAside  == UNION ToSet(shelved)

Init ==
  /\ trail = << >> /\ shelved = << >>
  /\ received = 0
  /\ mishap = FALSE

Receive ==
  /\ received + 1 \in Records
  /\ received' = received + 1
  /\ UNCHANGED <<trail, shelved>>

\* The records that may still be committed: they arrived, after every
\* committed one and after all that was set aside.
Open == {r \in Records : r <= received /\ \A q \in Committed \union SetAside : q < r}

Commit ==
  /\ \E batch \in (SUBSET Open) \ {{}} : trail' = Append(trail, batch)
  /\ UNCHANGED <<shelved, received>>

\* A restart loses the end of the trail.
Rollback ==
  /\ mishap'
  /\ \E n \in 0..Len(trail) : trail' = SubSeq(trail, 1, n)
  /\ shelved' = << >>
  /\ UNCHANGED received

\* A restart cannot read the trail and begins another one.
StartOver ==
  /\ mishap'
  /\ trail' = << >> /\ shelved' = trail
  /\ UNCHANGED received

\* A restart comes back to the trail that had been set aside.
Relapse ==
  /\ mishap'
  /\ trail' = shelved /\ shelved' = << >>
  /\ UNCHANGED received

\* What was set aside is overwritten.
Discard ==
  /\ shelved' = << >>
  /\ UNCHANGED <<trail, received>>

\* Something goes wrong that does not show yet.
Mishap == UNCHANGED <<trail, shelved, received>>

Next ==
  /\ mishap => mishap'
  /\ Receive \/ Commit \/ Rollback \/ StartOver \/ Relapse \/ Discard \/ Mishap

Spec == Init /\ [][Next]_vars

=============================================================================
