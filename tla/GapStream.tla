------------------------------ MODULE GapStream ------------------------------
(***************************************************************************)
(* What the output buffer promises each of its consumers, and the history  *)
(* delta queue its store: a numbered stream of which every element is      *)
(* either ingested or announced as lost, in order, without skipping one    *)
(* and without going back.  A stream may break; nothing is delivered then. *)
(***************************************************************************)
EXTENDS Integers

VARIABLES
  produced,   \* number of elements written so far
  ingested,   \* the elements the receiver has accepted
  lost,       \* the elements announced to the receiver as a gap
  broken      \* the receiver has failed

vars == <<produced, ingested, lost, broken>>

Init == produced = 0 /\ ingested = {} /\ lost = {} /\ broken = FALSE

\* n elements have been settled: ingested or announced as lost.
Settled(n) == ingested \cup lost = 1..n

Produce == produced' = produced + 1 /\ UNCHANGED <<ingested, lost, broken>>

\* The next elements after the settled ones, up to k, are ingested or lost.
Ingest ==
  /\ ~broken
  /\ \E n, k \in 0..produced : /\ Settled(n) /\ n < k
                               /\ ingested' = ingested \cup (n + 1)..k
  /\ UNCHANGED <<produced, lost, broken>>

Lose ==
  /\ ~broken
  /\ \E n, k \in 0..produced : /\ Settled(n) /\ n < k
                               /\ lost' = lost \cup (n + 1)..k
  /\ UNCHANGED <<produced, ingested, broken>>

Break == ~broken /\ broken' = TRUE /\ UNCHANGED <<produced, ingested, lost>>

Next == Produce \/ Ingest \/ Lose \/ Break

Spec == Init /\ [][Next]_vars
=============================================================================
