------------------------------- MODULE EventInbox -------------------------------
(***************************************************************************)
(* What an idempotent webhook endpoint promises, without its handlers: an  *)
(* event is accepted once, then decided once, and the business tables      *)
(* change only in the step that decides an event as processed.  A refused  *)
(* event leaves no trace; an applied one adds at most one ledger entry, of *)
(* its own, and takes none away.                                           *)
(***************************************************************************)
CONSTANT Events

VARIABLES
    verdict,  \* what is known of each event
    book,     \* ledger entries, each with the event it stems from
    rows      \* the other business tables

Init == verdict = [e \in Events |-> "none"] /\ book = {}

Accept(e) ==
    /\ verdict[e] = "none"
    /\ verdict' = [verdict EXCEPT ![e] = "received"]
    /\ UNCHANGED <<book, rows>>

Apply(e) ==
    /\ verdict[e] = "received"
    /\ verdict' = [verdict EXCEPT ![e] = "processed"]
    /\ book \subseteq book'
    /\ \A c, d \in book' \ book : c = d /\ d.event = e

Refuse(e) ==
    /\ verdict[e] = "received"
    /\ verdict' = [verdict EXCEPT ![e] = "failed"]
    /\ UNCHANGED <<book, rows>>

Next == \E e \in Events : Accept(e) \/ Apply(e) \/ Refuse(e)

Spec == Init /\ [][Next]_<<verdict, book, rows>>
===============================================================================
