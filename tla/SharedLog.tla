------------------------------- MODULE SharedLog -------------------------------
(***************************************************************************)
(* What a cluster of servers promises while its calls arrive: all of them  *)
(* follow one log.  A server that knows all of the log may add a batch of  *)
(* records that arrived anywhere and are not in the log yet; every other   *)
(* server moves forward along it, by one batch or by many.  Nobody ever    *)
(* turns back, and there is no second log to move to.                      *)
(***************************************************************************)
EXTENDS Naturals, Sequences, SequencesExt

CONSTANTS Servers, Records

VARIABLES received,  \* the number of the last record that arrived
          known      \* per server: the part of the log it knows

vars == <<received, known>>

Init ==
  /\ received = 0
  /\ known = [s \in Servers |-> << >>]

Receive ==
  /\ received + 1 \in Records
  /\ received' = received + 1
  /\ UNCHANGED known

KnowsAll(s) == \A t \in Servers : Len(known[t]) <= Len(known[s])

Open(s) == (1..received) \ UNION ToSet(known[s])

Extend(s) ==
  /\ KnowsAll(s)
  /\ \E batch \in (SUBSET Open(s)) \ {{}} :
       known' = [known EXCEPT ![s] = Append(@, batch)]
  /\ UNCHANGED received

Follow(s, t) ==
  /\ \E n \in Len(known[s]) + 1 .. Len(known[t]) :
       known' = [known EXCEPT ![s] = SubSeq(known[t], 1, n)]
  /\ UNCHANGED received

Next ==
  \/ Receive
  \/ \E s \in Servers : Extend(s) \/ \E t \in Servers : Follow(s, t)

Spec == Init /\ [][Next]_vars

=============================================================================
