---------------------------- MODULE PoolRotation ----------------------------
(***************************************************************************)
(* The fairness of the circular scan of scheduler.go: SubPool with a        *)
(* history variable that counts, for every account, the leases the scan has *)
(* granted past it.                                                        *)
(***************************************************************************)
EXTENDS SubPool

VARIABLE bypass

(* The step is a lease granted by the scan, not a hand-over to a waiter. *)
ScanGrants(c) == CanCall(c) /\ pc'[c] = "leased"

(* An account that stays available while the list of accounts does not shrink *)
(* is passed over by a grant to another account; otherwise it starts anew.    *)
CountBypass ==
  bypass' = [s \in Slot |->
    IF \/ \E c \in Caller : ScanGrants(c) /\ held'[c] = s
       \/ ~(s \in Pooled /\ Available(s))
       \/ ~(s \in Pooled /\ Available(s))'
       \/ Len(accounts') < Len(accounts)
    THEN 0
    ELSE IF \E c \in Caller : ScanGrants(c) THEN bypass[s] + 1 ELSE bypass[s]]

RotationInit == Init /\ bypass = [s \in Slot |-> 0]

RotationNext == Next /\ CountBypass

RotationSpec == RotationInit /\ [][RotationNext]_<<vars, bypass>>

(* Round robin: while an account can be leased, each of the others is leased *)
(* before it at most once, whatever comes and goes between the scans         *)
(* (cooldowns, returns, hand-overs past the cursor, accounts added), unless   *)
(* an account is removed (scheduler.go:69-91, subpool.go:82-86).             *)
NoAccountStarved == \A s \in Slot : bypass[s] > 0 => bypass[s] < Len(accounts)
=============================================================================
