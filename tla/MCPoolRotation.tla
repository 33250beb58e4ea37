--------------------------- MODULE MCPoolRotation ---------------------------
(* Small instances of PoolRotation for TLC. *)
EXTENDS PoolRotation

CONSTANTS a1, a2, a3, s1, s2, s3, c1, c2, t1

MCIdOf == [s \in Slot |-> CASE s = s1 -> a1 [] s = s2 -> a2 [] OTHER -> a3]

MCSymmetry == Permutations(Caller)

(* Accounts come, go, are leased and pause; the steps left out (sign-outs,   *)
(* loading, Close, the statistics) neither scan nor change the list.         *)
MembershipNext ==
  \/ LeaseNext
  \/ CooldownNext
  \/ \E id \in AccountID : AddAccount(id, "ready", NoTime) \/ RemoveAccount(id)

MembershipSpec == RotationInit /\ [][MembershipNext /\ CountBypass]_<<vars, bypass>>
=============================================================================
