---------------------------- MODULE MCKeyResolver ----------------------------
(* Small instances of KeyResolver for TLC. *)
EXTENDS KeyResolver

CONSTANTS p1, p2, c1, c2, c3, k1, k2, k3

(* Two goroutines in one process, one in the other. *)
MCProcessOf == [c \in Caller |-> IF c = c3 THEN p2 ELSE p1]
=============================================================================
