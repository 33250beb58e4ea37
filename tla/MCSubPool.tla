------------------------------ MODULE MCSubPool ------------------------------
(* Small instances of SubPool for TLC. *)
EXTENDS SubPoolRefinement

CONSTANTS a1, a2, s1, s2, s3, c1, c2, c3, t1, t2

(* Slots s1 and s3 are allocated for the same account ID, so an account can *)
(* be removed while it is leased and added again.                           *)
MCIdOf == [s \in Slot |-> IF s = s2 THEN a2 ELSE a1]

MCSymmetry == Permutations(Caller) \cup Permutations(Timer)

-----------------------------------------------------------------------------
(* Timers, marks, removals, additions and loads of one account, whose caller  *)
(* leases and releases it but never queues: queueing is PoolQueue's subject.  *)
ReAddNext ==
  \/ \E c \in Caller : LeaseAccount(c) \/ LeaseFails(c) \/ Release(c)
  \/ CooldownNext
  \/ LoadNext
  \/ AdminNext

ReAddSpec == Init /\ [][ReAddNext]_vars /\ TimerFairness

(* The same for a pool that is never loaded: every timer is a mark's. *)
MarkSpec == Init /\ [][LeaseNext \/ CooldownNext \/ AdminNext]_vars

-----------------------------------------------------------------------------
(* Waiters.  As main() does, accounts are loaded and added only while nobody  *)
(* is in a call; leases, cooldowns, sign-outs and removals come in any order. *)
(* The pool is not closed.                                                   *)
NobodyCalls == \A c \in Caller : pc[c] = "idle"

ServingNext ==
  \/ NobodyCalls /\ (LoadNext \/ \E id \in AccountID, st \in AddStatuses :
                                   AddAccount(id, st, NoTime))
  \/ loading = {} /\ LeaseNext
  \/ CooldownNext
  \/ \E id \in AccountID : RemoveAccount(id) \/ MarkSignedOut(id)

(* No scan comes between the end of a cooldown and the callback of its timer, *)
(* for it would make the account ready and wake nobody.  For that reason the  *)
(* statistics are left out too: see WaitsOnlyWhileBusy.                       *)
TimersComeFirst ==
  (\E s \in Slot : Elapsed(s) /\ status'[s] = "ready")
    => \E t \in Timer : RecoverAccount(t)

ServiceSpec == Init /\ [][ServingNext /\ TimersComeFirst]_vars /\ Fairness

(* Leases, cooldowns and statistics, in any order. *)
StatsNext ==
  \/ NobodyCalls /\ \E id \in AccountID : AddAccount(id, "ready", NoTime)
  \/ LeaseNext
  \/ CooldownNext
  \/ GetPoolStats

StatsSpec == Init /\ [][StatsNext]_vars /\ Fairness
=============================================================================
