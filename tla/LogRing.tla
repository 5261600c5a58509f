------------------------------- MODULE LogRing -------------------------------
(***************************************************************************)
(* What the measurement log promises, without files, indices or counters:  *)
(* a bounded set of records, identified by the order they were taken in.   *)
(* A record that enters is newer than all that are kept, and only the      *)
(* oldest leaves, and only when the log is full.  Restarts, and power      *)
(* failures at any moment, change nothing.  The promise ends when the card *)
(* is disturbed.                                                           *)
(***************************************************************************)
EXTENDS Naturals, FiniteSets

CONSTANTS Capacity,        \* records that are kept
          Stamps           \* the stamps of records, in the order of time

VARIABLES kept, disturbed

ringVars == <<kept, disturbed>>

RingInit == kept = {} /\ disturbed = FALSE

Oldest(s) == CHOOSE x \in s : \A y \in s : x <= y

Commit(n) ==
  /\ ~disturbed /\ UNCHANGED disturbed
  /\ \A m \in kept : m < n
  /\ kept' = IF Cardinality(kept) < Capacity
               THEN kept \cup {n} ELSE (kept \cup {n}) \ {Oldest(kept)}

Disturb == disturbed' = TRUE

RingNext == (\E n \in Stamps : Commit(n)) \/ Disturb

RingSpec == RingInit /\ [][RingNext]_ringVars
=============================================================================
