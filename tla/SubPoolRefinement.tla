-------------------------- MODULE SubPoolRefinement --------------------------
(***************************************************************************)
(* The pool of SubPool implements LeaseService: a lease belongs to a caller *)
(* from the moment the pool puts it in the caller's channel.                *)
(***************************************************************************)
EXTENDS SubPool

ownersOf == [s \in Slot |-> Owners(s)]

LS == INSTANCE LeaseService WITH owners <- ownersOf, queue <- waiters

(* Every step of the pool is a grant, a queueing, a hand-over to the first   *)
(* waiter, a return, an abandonment, or none of the caller's business.       *)
ImplementsLeaseService == LS!LSSpec
=============================================================================
