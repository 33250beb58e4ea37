----------------------------- MODULE LeaseService -----------------------------
(***************************************************************************)
(* What a provider's pool promises its callers, whatever the health of the *)
(* accounts: an account struct is leased to at most MaxInFlight callers, a *)
(* caller has one lease per call, and the callers that wait are served in  *)
(* the order they came.  It does not promise that a caller who arrives     *)
(* later is not served before them: an account that has recovered may go to *)
(* the newcomer.                                                           *)
(***************************************************************************)
EXTENDS Integers, Sequences, FiniteSets, SequencesExt

CONSTANTS Caller, Slot, MaxInFlight

VARIABLES owners,   \* owners[s] is the set of callers that lease slot s
          queue     \* the callers that wait

lsVars == <<owners, queue>>

LSInit == /\ owners = [s \in Slot |-> {}]
          /\ queue = <<>>

Idle(c) == c \notin Range(queue) /\ \A s \in Slot : c \notin owners[s]

HasRoom(s) == Cardinality(owners[s]) < MaxInFlight

(* A caller is granted a lease at once. *)
Grant(c, s) == /\ Idle(c)
               /\ HasRoom(s)
               /\ owners' = [owners EXCEPT ![s] = @ \cup {c}]
               /\ UNCHANGED queue

Enqueue(c) == /\ Idle(c)
              /\ queue' = Append(queue, c)
              /\ UNCHANGED owners

Abandon(c) == /\ c \in Range(queue)
              /\ queue' = RemoveFirst(queue, c)
              /\ UNCHANGED owners

(* An account becomes available and the first waiter gets it. *)
Serve(s) == /\ queue # <<>>
            /\ HasRoom(s)
            /\ owners' = [owners EXCEPT ![s] = @ \cup {Head(queue)}]
            /\ queue' = Tail(queue)

Return(c, s) == /\ c \in owners[s]
                /\ owners' = [owners EXCEPT ![s] = @ \ {c}]
                /\ UNCHANGED queue

(* A lease that is returned goes to the first waiter. *)
Transfer(c, s) == /\ c \in owners[s]
                  /\ queue # <<>>
                  /\ owners' = [owners EXCEPT ![s] = (@ \ {c}) \cup {Head(queue)}]
                  /\ queue' = Tail(queue)

LSNext == \/ \E c \in Caller : Enqueue(c) \/ Abandon(c)
          \/ \E c \in Caller, s \in Slot : Grant(c, s) \/ Return(c, s) \/ Transfer(c, s)
          \/ \E s \in Slot : Serve(s)

LSSpec == LSInit /\ [][LSNext]_lsVars
=============================================================================
