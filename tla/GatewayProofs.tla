---------------------------- MODULE GatewayProofs ----------------------------
(***************************************************************************)
(* Proofs about Gateway, for every set of accounts, requests and timers,    *)
(* every MaxRetries, every content of the rows and any number of crashes.    *)
(* A step of the gateway is a step of the pool, or the crash that empties    *)
(* it, so that what SubPoolProofs and SubPoolIndexProofs have proved of the  *)
(* pool's steps is used here as it stands.                                  *)
(***************************************************************************)
EXTENDS Gateway, PoolTimerProofs

(***************************************************************************)
(* The inductive invariant: the pool's, and that no request waits in the     *)
(* pool, that a request holds a lease exactly while it works with an account *)
(* of the pool, that it has an account then, and that it has not used up its  *)
(* attempts.                                                               *)
(***************************************************************************)
Holding == {"dispatching", "rejected", "persisting", "releasing", "finishing"}

NobodyWaits ==
  /\ waiters = <<>>
  /\ \A c \in Caller : chan[c] = NoSlot /\ pc[c] \in {"idle", "leased", "returned"}

RequestInv(c) ==
  /\ pc[c] = "leased" <=> step[c] \in Holding /\ ~direct[c]
  /\ step[c] \in Holding \cup {"saving"} => copy[c] # NoCopy
  /\ step[c] \in Holding \cup {"querying"} => attempt[c] < MaxRetries

GInv == /\ LeaseInv /\ IndexInv /\ GTypeOK /\ NobodyWaits
        /\ \A c \in Caller : RequestInv(c)

LEMMA GInvInit == GInit => GInv
<1> SUFFICES ASSUME GInit PROVE GInv
  OBVIOUS
<1>1. LeaseInv /\ IndexInv
  BY LeaseInvInit, IndexInit DEF GInit
<1>2. 0 \in 0 .. MaxRetries /\ 0 \in 0 .. MaxCrashes
  BY GatewayAssumption
<1>3. GTypeOK
  BY <1>2, GatewayAssumption DEF GInit, GTypeOK, Ended, Active, Outcome
<1>4. NobodyWaits /\ \A c \in Caller : RequestInv(c)
  BY DEF GInit, Init, NobodyWaits, RequestInv, Holding
<1> QED
  BY <1>1, <1>3, <1>4 DEF GInv

-----------------------------------------------------------------------------
(* The gateway's steps and the pool's. *)

LEMMA GivingBackIsPoolStep ==
  ASSUME NEW c \in Caller, GiveBack(c)
  PROVE  [TimedNext]_vars
BY DEF GiveBack, TimedNext, NextButAdd, LeaseNext

LEMMA RequestStepIsPoolStep ==
  ASSUME GInv, NEW c \in Caller, StartRequest(c) \/ RequestStep(c)
  PROVE  [TimedNext]_vars
<1>1. CASE LeaseFromPool(c) \/ PoolRefuses(c)
  BY <1>1 DEF LeaseFromPool, PoolRefuses, TimedNext, NextButAdd, LeaseNext
<1>2. CASE MarkRejected(c)
  <2>1. copy[c].id \in AccountID
    BY <1>2 DEF MarkRejected, GInv, RequestInv, Holding, GTypeOK, Account
  <2>2. CASE MarkRateLimited(copy[c].id, Cooldown)
    BY <2>1, <2>2, GatewayAssumption DEF TimedNext, NextButAdd, CooldownNext
  <2>3. CASE MarkSignedOut(copy[c].id)
    BY <2>1, <2>3 DEF TimedNext, NextButAdd
  <2> QED
    BY <1>2, <2>2, <2>3 DEF MarkRejected, Mark
<1>3. CASE Retry(c) \/ Finish(c)
  BY <1>3, GivingBackIsPoolStep DEF Retry, Finish
<1> QED
  BY <1>1, <1>2, <1>3
  DEF RequestStep, StartRequest, LeaseFromRepository, NoAccount, AttemptsUsedUp, ClientGone,
      Dispatch, LeaveUnmarked, PersistMark, SaveCopy, Fallback

LEMMA BootStepIsPoolStep ==
  ASSUME GTypeOK, BootStep
  PROVE  [TimedNext]_vars
<1>1. ASSUME NEW id \in AccountID, LoadHealed(id) PROVE TimedNext
  BY <1>1 DEF LoadHealed, TimedNext, AddInHealth, Status
<1>2. ASSUME NEW id \in AccountID, LoadCooling(id) PROVE TimedNext
  <2>1. row[id].until \in Time
    BY <1>2 DEF LoadCooling, LoadRateLimited, GTypeOK, NoTime, Time
  <2> QED
    BY <1>2, <2>1 DEF LoadCooling, TimedNext, NextButAdd, LoadNext
<1>3. ASSUME NEW id \in AccountID, LoadAsIs(id) PROVE TimedNext
  <2>1. row[id].status \in Status /\ row[id].until \in Time \cup {NoTime}
    BY DEF GTypeOK
  <2> QED
    BY <1>3, <2>1 DEF LoadAsIs, TimedNext, AddInHealth
<1>4. ASSUME NEW l \in loading, GSchedule(l) PROVE TimedNext
  BY <1>4 DEF GSchedule, TimedNext, NextButAdd, LoadNext
<1>5. CASE LoadFails
  BY <1>5 DEF LoadFails
<1> QED
  BY <1>1, <1>2, <1>3, <1>4, <1>5 DEF BootStep

LEMMA GStepIsPoolStep == GInv /\ [GNext]_gvars => [TimedNext]_vars \/ Crash
<1> SUFFICES ASSUME GInv, [GNext]_gvars PROVE [TimedNext]_vars \/ Crash
  OBVIOUS
<1>1. ASSUME NEW t \in Timer, GTimerFires(t) \/ GRecoverAccount(t) \/ GRecoverySkipped(t)
      PROVE  TimedNext
  BY <1>1 DEF GTimerFires, GRecoverAccount, GRecoverySkipped, TimedNext, NextButAdd, CooldownNext
<1>2. CASE GTick
  BY <1>2 DEF GTick, TimedNext, NextButAdd, CooldownNext
<1>3. ASSUME NEW id \in AccountID, WriteReady(id) PROVE UNCHANGED vars
  BY <1>3 DEF WriteReady
<1>4. CASE UNCHANGED gvars
  BY <1>4 DEF gvars
<1> QED
  BY <1>1, <1>2, <1>3, <1>4, RequestStepIsPoolStep, BootStepIsPoolStep DEF GNext, GInv

(* A crash leaves an empty pool nobody has a lease of. *)
LEMMA CrashKeepsPool ==
  ASSUME GInv, Crash
  PROVE  LeaseInv' /\ IndexInv' /\ NobodyWaits'
<1>1. /\ accounts' = <<>> /\ Len(accounts') = 0
      /\ \A c \in Caller : pc'[c] = "idle" /\ chan'[c] = NoSlot
      /\ \A s \in Slot : inFlight'[s] = 0
      /\ waiters' = <<>> /\ Len(waiters') = 0
  BY DEF Crash, waitVars, GInv, NobodyWaits
<1>2. TypeOK'
  <2>1. accounts' \in Seq(Slot) /\ waiters' \in Seq(Caller)
    BY <1>1
  <2> QED
    BY <2>1 DEF Crash, GInv, LeaseInv, TypeOK, waitVars, Status
<1>3. Range(waiters') = {}
  BY <1>1 DEF Range
<1>4. ProtocolInv'
  BY <1>1, <1>3
  DEF ProtocolInv, QueuedOnce, IsInjective, HoldersHold, SendNeverBlocks, NoWaiterDropped,
      WaiterProtocol
<1>5. \A s \in Slot : Owners(s)' = {}
  BY <1>1, ConstantsAssumption DEF Owners, Owns
<1>6. LeaseConservation' /\ InFlightBounded'
  <2>1. \A s \in Slot : Cardinality(Owners(s)') = 0
    BY <1>5, FS_EmptySet
  <2>2. LeaseConservation'
    BY <1>1, <2>1 DEF LeaseConservation
  <2>3. InFlightBounded'
    BY <1>1, ConstantsAssumption DEF InFlightBounded
  <2> QED
    BY <2>2, <2>3
<1>7. \A id \in AccountID : byID'[id] = NoSlot
  BY DEF Crash
<1>8. IndexInv'
  BY <1>1, <1>7 DEF IndexInv, ListIndexed, ListedOnce, IndexKeyed
<1>9. NobodyWaits'
  BY <1>1 DEF NobodyWaits
<1> QED
  BY <1>2, <1>4, <1>6, <1>8, <1>9 DEF LeaseInv

LEMMA PoolInvStep == GInv /\ [GNext]_gvars => LeaseInv' /\ IndexInv'
<1> SUFFICES ASSUME GInv, [GNext]_gvars PROVE LeaseInv' /\ IndexInv'
  OBVIOUS
<1>1. CASE [TimedNext]_vars
  BY <1>1, TimedNextIsNext, LeaseInvStep, IndexStep DEF GInv, LeaseInv
<1> QED
  BY <1>1, CrashKeepsPool, GStepIsPoolStep

-----------------------------------------------------------------------------
(* Nobody waits. *)

LEMMA NothingToHandOver ==
  ASSUME waiters = <<>>, NEW s, NEW dn, NEW ch,
         ReleaseLocked(s, waiters, dn, ch)
  PROVE  waiters' = <<>> /\ chan' = ch
<1>1. Len(waiters) = 0
  OBVIOUS
<1>2. ~HandOver(s, waiters, dn, ch)
  BY <1>1 DEF HandOver
<1> QED
  BY <1>2 DEF ReleaseLocked

(* The pool as the requests see it: a call of a caller leaves its answer. *)
LEMMA LeaseLeavesNobodyWaiting ==
  ASSUME TypeOK, NobodyWaits, NEW c \in Caller, LeaseAccount(c) \/ LeaseFails(c)
  PROVE  /\ NobodyWaits'
         /\ pc' = [pc EXCEPT ![c] = IF LeaseAccount(c) THEN "leased" ELSE "idle"]
<1>1. CASE LeaseAccount(c)
  BY <1>1 DEF LeaseAccount, NobodyWaits, waitVars, TypeOK
<1>2. CASE LeaseFails(c) /\ ~LeaseAccount(c)
  BY <1>2 DEF LeaseFails, NobodyWaits, waitVars, TypeOK
<1> QED
  BY <1>1, <1>2

LEMMA GiveBackLeavesNobodyWaiting ==
  ASSUME TypeOK, NobodyWaits, NEW c \in Caller, RequestInv(c), GiveBack(c),
         step[c] \in Holding
  PROVE  /\ NobodyWaits'
         /\ pc'[c] # "leased"
         /\ \A d \in Caller \ {c} : pc'[d] = pc[d]
<1>1. CASE direct[c]
  BY <1>1 DEF GiveBack, RequestInv, NobodyWaits, vars, waitVars, callerVars
<1>2. CASE ~direct[c]
  <2>1. /\ ReleaseLocked(held[c], waiters, done, chan)
        /\ pc' = [pc EXCEPT ![c] = "returned"]
    BY <1>2 DEF GiveBack, Release
  <2>2. waiters' = <<>> /\ chan' = chan
    BY <2>1, NothingToHandOver DEF NobodyWaits
  <2> QED
    BY <2>1, <2>2 DEF NobodyWaits, TypeOK
<1> QED
  BY <1>1, <1>2

LEMMA RecoveryLeavesNobodyWaiting ==
  ASSUME NobodyWaits, NEW t \in Timer, RecoverAccount(t)
  PROVE  NobodyWaits' /\ pc' = pc
<1>1. Len(waiters) = 0
  BY DEF NobodyWaits
<1>2. ~HandOver(byID[timer[t].id], waiters, done, chan)
  BY <1>1 DEF HandOver
<1>3. waiters' = <<>> /\ chan' = chan /\ pc' = pc
  BY <1>2 DEF RecoverAccount, waitVars, callerVars, NobodyWaits
<1> QED
  BY <1>3 DEF NobodyWaits

-----------------------------------------------------------------------------
(* The steps of the requests. *)

(* A step of one request leaves the others where they are. *)
LEMMA OthersStay ==
  ASSUME \A d \in Caller : RequestInv(d), NEW c \in Caller, RequestInv(c)',
         \A d \in Caller \ {c} :
           /\ pc'[d] = pc[d] /\ step'[d] = step[d] /\ attempt'[d] = attempt[d]
           /\ copy'[d] = copy[d] /\ direct'[d] = direct[d]
  PROVE  \A d \in Caller : RequestInv(d)'
<1> SUFFICES ASSUME NEW d \in Caller \ {c} PROVE RequestInv(d)'
  OBVIOUS
<1> QED
  BY DEF RequestInv

RequestEffect(c) ==
  GTypeOK' /\ NobodyWaits' /\ \A d \in Caller : RequestInv(d)'

LEMMA LeaseEffect ==
  ASSUME GInv, HoldersHold', TypeOK', NEW c \in Caller, LeaseFromPool(c)
  PROVE  RequestEffect(c)
<1>1. LeaseAccount(c) /\ step[c] = "leasing" /\ attempt[c] < MaxRetries
  BY DEF LeaseFromPool
<1>2. NobodyWaits' /\ pc' = [pc EXCEPT ![c] = "leased"]
  BY <1>1, LeaseLeavesNobodyWaiting DEF GInv, LeaseInv
<1>3. pc'[c] = "leased" /\ \A d \in Caller \ {c} : pc'[d] = pc[d]
  BY <1>2 DEF GInv, LeaseInv, TypeOK
<1>4. IdOf[held'[c]] \in AccountID
  BY <1>3, ConstantsAssumption DEF HoldersHold
<1> DEFINE granted == [id |-> IdOf[held'[c]], status |-> "ready", until |-> NoTime]
<1>5. granted \in Account
  BY <1>4 DEF Account, Status
<1>6. copy' = [copy EXCEPT ![c] = granted]
  BY DEF LeaseFromPool
<1> HIDE DEF granted
<1>7. readyWrites' \in [AccountID -> Nat]
  BY DEF LeaseFromPool, SpawnLazyWrites, GInv, GTypeOK
<1>8. GTypeOK'
  BY <1>5, <1>6, <1>7 DEF GInv, GTypeOK, LeaseFromPool, Goto, Active, bootVars
<1>9. RequestInv(c)'
  BY <1>1, <1>3, <1>5, <1>6, GatewayAssumption
  DEF GInv, GTypeOK, LeaseFromPool, Goto, RequestInv, Holding
<1>10. \A d \in Caller \ {c} :
           /\ pc'[d] = pc[d] /\ step'[d] = step[d] /\ attempt'[d] = attempt[d]
           /\ copy'[d] = copy[d] /\ direct'[d] = direct[d]
  BY <1>3, <1>6 DEF GInv, GTypeOK, LeaseFromPool, Goto
<1> QED
  BY <1>2, <1>8, <1>9, <1>10, OthersStay DEF RequestEffect, GInv

LEMMA RefusalEffect ==
  ASSUME GInv, NEW c \in Caller, PoolRefuses(c)
  PROVE  RequestEffect(c)
<1>1. LeaseFails(c) /\ step[c] = "leasing" /\ attempt[c] < MaxRetries
  BY DEF PoolRefuses
<1>2. NobodyWaits' /\ pc'[c] = "idle" /\ \A d \in Caller \ {c} : pc'[d] = pc[d]
  BY <1>1 DEF LeaseFails, NobodyWaits, waitVars, GInv, LeaseInv, TypeOK
<1>3. readyWrites' \in [AccountID -> Nat]
  BY DEF PoolRefuses, SpawnLazyWrites, GInv, GTypeOK
<1>4. GTypeOK'
  BY <1>3 DEF GInv, GTypeOK, PoolRefuses, Goto, Active, bootVars
<1>5. RequestInv(c)'
  BY <1>1, <1>2 DEF GInv, GTypeOK, PoolRefuses, Goto, RequestInv, Holding
<1>6. \A d \in Caller \ {c} :
           /\ pc'[d] = pc[d] /\ step'[d] = step[d] /\ attempt'[d] = attempt[d]
           /\ copy'[d] = copy[d] /\ direct'[d] = direct[d]
  BY <1>2 DEF GInv, GTypeOK, PoolRefuses, Goto
<1> QED
  BY <1>2, <1>4, <1>5, <1>6, OthersStay DEF RequestEffect, GInv

LEMMA RowWritten ==
  ASSUME GTypeOK, NEW c \in Caller, copy[c] # NoCopy, WriteCopy(c)
  PROVE  row' \in [AccountID -> [status : Status, until : Time \cup {NoTime}]]
<1>1. copy[c] \in Account
  BY DEF GTypeOK
<1>2. [status |-> copy[c].status, until |-> copy[c].until]
        \in [status : Status, until : Time \cup {NoTime}]
  BY <1>1 DEF Account
<1> QED
  BY <1>2 DEF WriteCopy, GTypeOK

(* Where the pool is left alone only the request's own variables change. *)
LEMMA LocalEffect ==
  ASSUME GInv, NEW c \in Caller, UNCHANGED vars,
         \/ StartRequest(c) \/ LeaseFromRepository(c) \/ NoAccount(c)
         \/ AttemptsUsedUp(c) \/ ClientGone(c)
         \/ \E outcome \in Outcome : Dispatch(c, outcome)
         \/ LeaveUnmarked(c) \/ PersistMark(c) \/ SaveCopy(c) \/ Fallback(c)
  PROVE  RequestEffect(c)
<1> USE DEF GInv
<1>1. pc' = pc /\ NobodyWaits'
  BY DEF NobodyWaits, vars, waitVars, callerVars
<1>2. CASE StartRequest(c)
  <2>1. GTypeOK'
    BY <1>2 DEF GTypeOK, StartRequest, Goto, Active, storeVars, bootVars
  <2>2. RequestInv(c)'
    BY <1>1, <1>2 DEF GTypeOK, StartRequest, Goto, RequestInv, Holding, Ended
  <2> QED
    BY <1>1, <1>2, <2>1, <2>2, OthersStay DEF RequestEffect, GTypeOK, StartRequest, Goto
<1>3. CASE LeaseFromRepository(c)
  <2>1. PICK id \in AccountID :
          copy' = [copy EXCEPT ![c] =
                     [id |-> id, status |-> row[id].status, until |-> row[id].until]]
    BY <1>3 DEF LeaseFromRepository
  <2> DEFINE found == [id |-> id, status |-> row[id].status, until |-> row[id].until]
  <2>2. found \in Account
    <3>1. row[id] \in [status : Status, until : Time \cup {NoTime}]
      BY DEF GTypeOK
    <3> QED
      BY <3>1 DEF Account
  <2>3. copy' = [copy EXCEPT ![c] = found]
    BY <2>1
  <2> HIDE DEF found
  <2>4. GTypeOK'
    BY <1>3, <2>2, <2>3 DEF GTypeOK, LeaseFromRepository, Goto, Active, storeVars, bootVars
  <2>5. RequestInv(c)'
    BY <1>1, <1>3, <2>2, <2>3, GatewayAssumption
    DEF GTypeOK, LeaseFromRepository, Goto, RequestInv, Holding
  <2> QED
    BY <1>1, <1>3, <2>3, <2>4, <2>5, OthersStay
    DEF RequestEffect, GTypeOK, LeaseFromRepository, Goto
<1>4. CASE NoAccount(c) \/ AttemptsUsedUp(c) \/ ClientGone(c)
  <2>1. GTypeOK'
    BY <1>4
    DEF GTypeOK, NoAccount, AttemptsUsedUp, ClientGone, Goto, Active, storeVars, bootVars
  <2>2. RequestInv(c)'
    BY <1>1, <1>4
    DEF GTypeOK, NoAccount, AttemptsUsedUp, ClientGone, Goto, RequestInv, Holding
  <2> QED
    BY <1>1, <1>4, <2>1, <2>2, OthersStay
    DEF RequestEffect, GTypeOK, NoAccount, AttemptsUsedUp, ClientGone, Goto
<1>5. ASSUME NEW outcome \in Outcome, Dispatch(c, outcome) PROVE RequestEffect(c)
  <2>1. GTypeOK'
    BY <1>5 DEF GTypeOK, Dispatch, Outcome, Goto, Active, storeVars, bootVars
  <2>2. RequestInv(c)'
    BY <1>1, <1>5 DEF GTypeOK, Dispatch, Goto, RequestInv, Holding
  <2> QED
    BY <1>1, <1>5, <2>1, <2>2, OthersStay DEF RequestEffect, GTypeOK, Dispatch, Goto
<1>6. CASE LeaveUnmarked(c)
  <2>1. GTypeOK'
    BY <1>6 DEF GTypeOK, LeaveUnmarked, Goto, Active, storeVars, bootVars
  <2>2. RequestInv(c)'
    BY <1>1, <1>6 DEF GTypeOK, LeaveUnmarked, Goto, RequestInv, Holding
  <2> QED
    BY <1>1, <1>6, <2>1, <2>2, OthersStay DEF RequestEffect, GTypeOK, LeaveUnmarked, Goto
<1>7. CASE PersistMark(c)
  <2>1. copy[c] # NoCopy
    BY <1>7 DEF PersistMark, RequestInv, Holding
  <2>2. GTypeOK'
    BY <1>7, <2>1, RowWritten DEF GTypeOK, PersistMark, Goto, Active, bootVars
  <2>3. RequestInv(c)'
    BY <1>1, <1>7 DEF GTypeOK, PersistMark, Goto, RequestInv, Holding
  <2> QED
    BY <1>1, <1>7, <2>2, <2>3, OthersStay DEF RequestEffect, GTypeOK, PersistMark, Goto
<1>8. CASE SaveCopy(c)
  <2>1. copy[c] # NoCopy
    BY <1>8 DEF SaveCopy, RequestInv, Holding
  <2>2. GTypeOK'
    BY <1>8, <2>1, RowWritten, GatewayAssumption
    DEF GTypeOK, SaveCopy, End, Goto, Ended, Outcome, bootVars
  <2>3. RequestInv(c)'
    BY <1>1, <1>8 DEF GTypeOK, SaveCopy, End, Goto, RequestInv, Holding
  <2> QED
    BY <1>1, <1>8, <2>2, <2>3, OthersStay DEF RequestEffect, GTypeOK, SaveCopy, End, Goto
<1>9. CASE Fallback(c)
  <2>1. GTypeOK'
    BY <1>9, GatewayAssumption
    DEF GTypeOK, Fallback, End, Goto, Ended, Outcome, storeVars, bootVars
  <2>2. RequestInv(c)'
    BY <1>1, <1>9 DEF GTypeOK, Fallback, End, Goto, RequestInv, Holding
  <2> QED
    BY <1>1, <1>9, <2>1, <2>2, OthersStay DEF RequestEffect, GTypeOK, Fallback, End, Goto
<1> QED
  BY <1>2, <1>3, <1>4, <1>5, <1>6, <1>7, <1>8, <1>9

LEMMA MarkEffect ==
  ASSUME GInv, NEW c \in Caller, MarkRejected(c)
  PROVE  RequestEffect(c)
<1> USE DEF GInv
<1>1. UNCHANGED <<callerVars, waitVars>>
  BY DEF MarkRejected, Mark, MarkRateLimited, MarkSignedOut
<1>2. pc' = pc /\ NobodyWaits'
  BY <1>1 DEF NobodyWaits, waitVars, callerVars
<1>3. step[c] = "rejected" /\ copy[c] \in Account
  BY DEF MarkRejected, RequestInv, Holding, GTypeOK
<1>4. PICK verdict \in Account : copy' = [copy EXCEPT ![c] = verdict]
  <2>1. CASE MarkRateLimited(copy[c].id, Cooldown)
             /\ copy' = [copy EXCEPT ![c].status = "rate_limited",
                                     ![c].until = now + Cooldown]
    <3> DEFINE v == [copy[c] EXCEPT !.status = "rate_limited", !.until = now + Cooldown]
    <3>1. now + Cooldown \in Time
      BY <2>1 DEF MarkRateLimited
    <3>2. v \in Account
      BY <1>3, <3>1 DEF Account, Status
    <3>3. copy' = [copy EXCEPT ![c] = v]
      BY <2>1 DEF GTypeOK
    <3> QED
      BY <3>2, <3>3
  <2>2. CASE copy' = [copy EXCEPT ![c].status = "signed_out", ![c].until = NoTime]
    <3> DEFINE v == [copy[c] EXCEPT !.status = "signed_out", !.until = NoTime]
    <3>1. v \in Account
      BY <1>3 DEF Account, Status
    <3>2. copy' = [copy EXCEPT ![c] = v]
      BY <2>2 DEF GTypeOK
    <3> QED
      BY <3>1, <3>2
  <2> QED
    BY <2>1, <2>2 DEF MarkRejected, Mark
<1>5. GTypeOK'
  BY <1>4 DEF GTypeOK, MarkRejected, Goto, Active, storeVars, bootVars
<1>6. RequestInv(c)'
  BY <1>2, <1>3, <1>4, GatewayAssumption DEF GTypeOK, MarkRejected, Goto, RequestInv, Holding
<1>7. \A d \in Caller \ {c} :
           /\ pc'[d] = pc[d] /\ step'[d] = step[d] /\ attempt'[d] = attempt[d]
           /\ copy'[d] = copy[d] /\ direct'[d] = direct[d]
  BY <1>2, <1>4 DEF GTypeOK, MarkRejected, Goto
<1> QED
  BY <1>2, <1>5, <1>6, <1>7, OthersStay DEF RequestEffect

LEMMA ReleaseEffect ==
  ASSUME GInv, NEW c \in Caller, Retry(c) \/ Finish(c)
  PROVE  RequestEffect(c)
<1> USE DEF GInv
<1>1. GiveBack(c) /\ step[c] \in {"releasing", "finishing"}
  BY DEF Retry, Finish
<1>2. NobodyWaits' /\ pc'[c] # "leased" /\ \A d \in Caller \ {c} : pc'[d] = pc[d]
  BY <1>1, GiveBackLeavesNobodyWaiting DEF LeaseInv, Holding
<1>3. attempt[c] \in 0 .. MaxRetries /\ attempt[c] < MaxRetries
  BY <1>1 DEF GTypeOK, RequestInv, Holding
<1>4. attempt[c] + 1 \in 0 .. MaxRetries
  BY <1>3, GatewayAssumption
<1>5. GTypeOK'
  <2>1. CASE Retry(c)
    <3>1. attempt' \in [Caller -> 0 .. MaxRetries]
      BY <1>4, <2>1 DEF GTypeOK, Retry
    <3> QED
      BY <2>1, <3>1 DEF GTypeOK, Retry, Goto, Active, storeVars, bootVars
  <2>2. CASE Finish(c)
    BY <2>2 DEF GTypeOK, Finish, Goto, Active, storeVars, bootVars
  <2> QED
    BY <2>1, <2>2
<1>6. RequestInv(c)'
  BY <1>1, <1>2 DEF GTypeOK, Retry, Finish, Goto, RequestInv, Holding
<1>7. \A d \in Caller \ {c} :
           /\ pc'[d] = pc[d] /\ step'[d] = step[d] /\ attempt'[d] = attempt[d]
           /\ copy'[d] = copy[d] /\ direct'[d] = direct[d]
  BY <1>2 DEF GTypeOK, Retry, Finish, Goto
<1> QED
  BY <1>2, <1>5, <1>6, <1>7, OthersStay DEF RequestEffect

LEMMA RequestStepEffect ==
  ASSUME GInv, LeaseInv', NEW c \in Caller, StartRequest(c) \/ RequestStep(c)
  PROVE  RequestEffect(c)
<1>1. CASE LeaseFromPool(c)
  BY <1>1, LeaseEffect DEF LeaseInv, ProtocolInv
<1>2. CASE PoolRefuses(c) \/ MarkRejected(c) \/ Retry(c) \/ Finish(c)
  BY <1>2, RefusalEffect, MarkEffect, ReleaseEffect
<1>3. CASE \/ StartRequest(c) \/ LeaseFromRepository(c) \/ NoAccount(c)
           \/ AttemptsUsedUp(c) \/ ClientGone(c)
           \/ \E outcome \in Outcome : Dispatch(c, outcome)
           \/ LeaveUnmarked(c) \/ PersistMark(c) \/ SaveCopy(c) \/ Fallback(c)
  <2>1. UNCHANGED vars
    BY <1>3
    DEF StartRequest, LeaseFromRepository, NoAccount, AttemptsUsedUp, ClientGone, Dispatch,
        LeaveUnmarked, PersistMark, SaveCopy, Fallback
  <2> QED
    BY <1>3, <2>1, LocalEffect
<1> QED
  BY <1>1, <1>2, <1>3 DEF RequestStep

-----------------------------------------------------------------------------
(* The other steps. *)

(* Timers, writes and the boot do not touch the requests. *)
LEMMA RequestsStay ==
  ASSUME \A c \in Caller : RequestInv(c), pc' = pc, UNCHANGED requestVars
  PROVE  \A c \in Caller : RequestInv(c)'
<1> SUFFICES ASSUME NEW c \in Caller PROVE RequestInv(c)'
  OBVIOUS
<1> QED
  BY DEF RequestInv, requestVars

LEMMA BackgroundEffect ==
  ASSUME GInv,
         \/ \E t \in Timer : GTimerFires(t) \/ GRecoverAccount(t) \/ GRecoverySkipped(t)
         \/ \E id \in AccountID : WriteReady(id)
         \/ GTick \/ BootStep
  PROVE  GTypeOK' /\ NobodyWaits' /\ \A c \in Caller : RequestInv(c)'
<1> USE DEF GInv
<1>1. UNCHANGED requestVars
  BY DEF GTimerFires, GRecoverAccount, GRecoverySkipped, WriteReady, GTick, BootStep,
         LoadHealed, LoadCooling, LoadAsIs, LoadFails, GSchedule
<1>2. NobodyWaits' /\ pc' = pc
  <2>1. ASSUME NEW t \in Timer, GRecoverAccount(t) PROVE NobodyWaits' /\ pc' = pc
    BY <2>1, RecoveryLeavesNobodyWaiting DEF GRecoverAccount
  <2>2. CASE UNCHANGED <<callerVars, waitVars>>
    BY <2>2 DEF NobodyWaits, callerVars, waitVars
  <2>3. CASE \E t \in Timer : GTimerFires(t) \/ GRecoverySkipped(t)
    BY <2>2, <2>3 DEF GTimerFires, GRecoverySkipped, TimerFires, RecoverySkipped
  <2>4. CASE (\E id \in AccountID : WriteReady(id)) \/ GTick
    BY <2>2, <2>4 DEF WriteReady, GTick, Tick, vars
  <2>5. CASE BootStep
    BY <2>2, <2>5
    DEF BootStep, LoadHealed, LoadCooling, LoadAsIs, LoadFails, GSchedule, AddAccount,
        LoadRateLimited, ReadLoaded, ScheduleFutureRateLimit, vars
  <2> QED
    BY <2>1, <2>3, <2>4, <2>5
<1>3. ReadyRow \in [status : Status, until : Time \cup {NoTime}]
  BY DEF ReadyRow, Status
<1>4. row' \in [AccountID -> [status : Status, until : Time \cup {NoTime}]]
  <2>1. CASE UNCHANGED row
    BY <2>1 DEF GTypeOK
  <2>2. CASE \E id \in AccountID : WriteReady(id) \/ LoadHealed(id)
    BY <1>3, <2>2 DEF WriteReady, LoadHealed, GTypeOK
  <2> QED
    BY <2>1, <2>2
    DEF GTimerFires, GRecoverAccount, GRecoverySkipped, GTick, BootStep, LoadCooling,
        LoadAsIs, LoadFails, GSchedule, storeVars
<1>5. readyWrites' \in [AccountID -> Nat]
  <2>1. CASE UNCHANGED readyWrites
    BY <2>1 DEF GTypeOK
  <2>2. ASSUME NEW t \in Timer, GRecoverAccount(t) PROVE readyWrites' \in [AccountID -> Nat]
    <3> DEFINE id == timer[t].id
    <3>1. readyWrites' = [readyWrites EXCEPT ![id] = @ + 1]
      BY <2>2 DEF GRecoverAccount
    <3>2. id \in AccountID
      <4>1. timer[t] \in PendingTimer \cup {IdleTimer} /\ timer[t].state = "fired"
        BY <2>2 DEF GRecoverAccount, RecoverAccount, LeaseInv, TypeOK
      <4> QED
        BY <4>1 DEF PendingTimer, IdleTimer
    <3>3. readyWrites \in [AccountID -> Nat]
      BY DEF GTypeOK
    <3>4. readyWrites[id] + 1 \in Nat
      BY <3>2, <3>3
    <3> HIDE DEF id
    <3> QED
      BY <3>1, <3>3, <3>4
  <2>3. ASSUME NEW id \in AccountID, WriteReady(id)
        PROVE  readyWrites' \in [AccountID -> Nat]
    <3>1. readyWrites[id] - 1 \in Nat
      BY <2>3 DEF WriteReady, GTypeOK
    <3> QED
      BY <2>3, <3>1 DEF WriteReady, GTypeOK
  <2> QED
    BY <2>1, <2>2, <2>3
    DEF GTimerFires, GRecoverySkipped, GTick, BootStep, LoadHealed, LoadCooling, LoadAsIs,
        LoadFails, GSchedule, storeVars
<1>6. toLoad' \subseteq AccountID /\ crashes' \in 0 .. MaxCrashes
  BY DEF GTypeOK, GTimerFires, GRecoverAccount, GRecoverySkipped, WriteReady, GTick, BootStep,
         LoadHealed, LoadCooling, LoadAsIs, LoadFails, GSchedule, bootVars
<1>7. GTypeOK'
  BY <1>1, <1>4, <1>5, <1>6 DEF GTypeOK, requestVars
<1> QED
  BY <1>1, <1>2, <1>7, RequestsStay

LEMMA CrashEffect ==
  ASSUME GInv, Crash
  PROVE  GTypeOK' /\ \A c \in Caller : RequestInv(c)'
<1>1. crashes' \in 0 .. MaxCrashes
  BY GatewayAssumption DEF GInv, GTypeOK, Crash
<1>2. 0 \in 0 .. MaxRetries
  BY GatewayAssumption
<1>3. GTypeOK'
  BY <1>1, <1>2 DEF GInv, GTypeOK, Crash, Ended, Outcome
<1>4. ASSUME NEW c \in Caller PROVE RequestInv(c)'
  BY DEF Crash, RequestInv, Holding
<1> QED
  BY <1>3, <1>4

LEMMA GInvStep == GInv /\ [GNext]_gvars => GInv'
<1> SUFFICES ASSUME GInv, [GNext]_gvars PROVE GInv'
  OBVIOUS
<1>1. LeaseInv' /\ IndexInv'
  BY PoolInvStep
<1>2. GTypeOK' /\ NobodyWaits' /\ \A c \in Caller : RequestInv(c)'
  <2>1. CASE \E c \in Caller : StartRequest(c) \/ RequestStep(c)
    BY <1>1, <2>1, RequestStepEffect DEF RequestEffect
  <2>2. CASE Crash
    BY <2>2, CrashEffect, CrashKeepsPool
  <2>3. CASE UNCHANGED gvars
    <3>1. GTypeOK' /\ NobodyWaits'
      BY <2>3
      DEF GInv, GTypeOK, NobodyWaits, gvars, vars, requestVars, storeVars, bootVars, waitVars,
          callerVars
    <3>2. pc' = pc /\ UNCHANGED requestVars
      BY <2>3 DEF gvars, vars, callerVars
    <3> QED
      BY <3>1, <3>2, RequestsStay DEF GInv
  <2> QED
    BY <2>1, <2>2, <2>3, BackgroundEffect DEF GNext
<1> QED
  BY <1>1, <1>2 DEF GInv

(* The inductive invariant of the gateway. *)
THEOREM GInvCorrect == GSpec => []GInv
  BY GInvInit, GInvStep, PTL DEF GSpec

(* No request makes more attempts than the loop allows, and the rows never    *)
(* hold anything but a status and a time, whichever clone is written last     *)
(* (engine.go:106-156).                                                     *)
THEOREM GatewayTypes == GSpec => []GTypeOK
  BY GInvCorrect, PTL DEF GInv

(* Behind the gateway too, crashes included, a slot's counter is the number of *)
(* its leases and never above the limit (subpool.go:155-160, 207-214).        *)
THEOREM GatewayLeases == GSpec => [](LeaseConservation /\ InFlightBounded)
  BY GInvCorrect, PTL DEF GInv, LeaseInv

(* Whatever is in the rows, no cooldown is left without a timer: accounts enter *)
(* the pool by LoadFromRepository alone, which heals them or arms one, and a    *)
(* crash empties the pool (manager.go:154-197).                              *)
THEOREM GatewayCooldownsHaveTimers == GSpec => []CooldownHasTimer
<1>1. GInit => TimerInv
  BY TimerInvInit DEF GInit
<1>2. GInv /\ TimerInv /\ [GNext]_gvars => TimerInv'
  <2> SUFFICES ASSUME GInv, TimerInv, [GNext]_gvars PROVE TimerInv'
    OBVIOUS
  <2>1. CASE [TimedNext]_vars
    BY <2>1, TimerStep
  <2>2. CASE Crash
    <3>1. TypeOK' /\ IndexInv'
      BY <2>2, CrashKeepsPool DEF LeaseInv
    <3>2. Pooled' = {}
      BY <2>2 DEF Crash, Pooled, Range
    <3>3. TimerKeyed' /\ FiredIsDue' /\ OneLoad' /\ CoolingCovered'
      BY <2>2, <3>2 DEF Crash, TimerKeyed, FiredIsDue, OneLoad, CoolingCovered, IdleTimer
    <3> QED
      BY <3>1, <3>3 DEF TimerInv
  <2> QED
    BY <2>1, <2>2, GStepIsPoolStep
<1>3. TimerInv => CooldownHasTimer
  BY TimerInvSuffices
<1> QED
  BY <1>1, <1>2, <1>3, GInvCorrect, PTL DEF GSpec

(* A request that has ended, that asks for another account or that works with *)
(* one of the table holds no lease of the pool (engine.go:132-141).           *)
THEOREM NoLeaseOutlivesItsRequest == GSpec => []EndedRequestsHoldNothing
<1>1. GInv => EndedRequestsHoldNothing
  BY DEF GInv, RequestInv, Holding, EndedRequestsHoldNothing
<1> QED
  BY <1>1, GInvCorrect, PTL

-----------------------------------------------------------------------------
(* A verdict comes before the next grant. *)

(* What the scan grants is in the list, ready and not leased to the limit. *)
LEMMA ScanPicks ==
  ASSUME TypeOK, NEW c \in Caller, LeaseAccount(c)
  PROVE  /\ held'[c] \in Slot
         /\ held'[c] \in Pooled
         /\ Available(held'[c])
<1>1. PICK i \in 0 .. Len(accounts) - 1 :
         /\ ScanStopsAt(i)
         /\ held' = [held EXCEPT ![c] = accounts[ScanIndex(i) + 1]]
  BY DEF LeaseAccount
<1> DEFINE k == ScanIndex(i) + 1
<1>2. Len(accounts) \in Nat /\ ScanIndex(i) \in 0 .. Len(accounts) - 1
  BY ScanInRange, ListOfSlots
<1>3. k \in 1 .. Len(accounts)
  BY <1>2
<1>4. Available(accounts[k]) /\ held' = [held EXCEPT ![c] = accounts[k]]
  BY <1>1 DEF ScanStopsAt
<1> HIDE DEF k
<1>5. held'[c] = accounts[k]
  BY <1>4 DEF TypeOK
<1>6. accounts[k] \in Slot /\ accounts[k] \in Pooled
  BY <1>3, ListOfSlots, LenProperties DEF Pooled, Range, TypeOK
<1> QED
  BY <1>4, <1>5, <1>6

LEMMA OnlyTheScanGrants ==
  ASSUME GTypeOK, [GNext]_gvars, NEW c \in Caller,
         step[c] = "leasing", step'[c] = "dispatching"
  PROVE  LeaseAccount(c)
<1>1. ASSUME NEW d \in Caller, StartRequest(d) \/ RequestStep(d) PROVE LeaseAccount(c)
  <2>1. CASE d = c
    BY <1>1, <2>1
    DEF RequestStep, StartRequest, LeaseFromPool, PoolRefuses, LeaseFromRepository, NoAccount,
        AttemptsUsedUp, ClientGone, Dispatch, MarkRejected, LeaveUnmarked, PersistMark, Retry,
        Finish, SaveCopy, Fallback, End, Goto, GTypeOK
  <2>2. CASE d # c
    BY <1>1, <2>2
    DEF RequestStep, StartRequest, LeaseFromPool, PoolRefuses, LeaseFromRepository, NoAccount,
        AttemptsUsedUp, ClientGone, Dispatch, MarkRejected, LeaveUnmarked, PersistMark, Retry,
        Finish, SaveCopy, Fallback, End, Goto, GTypeOK
  <2> QED
    BY <2>1, <2>2
<1>2. step' # step
  OBVIOUS
<1>3. ASSUME NEW t \in Timer, GTimerFires(t) \/ GRecoverAccount(t) \/ GRecoverySkipped(t)
      PROVE  FALSE
  BY <1>2, <1>3 DEF GTimerFires, GRecoverAccount, GRecoverySkipped, requestVars
<1>4. ASSUME (\E id \in AccountID : WriteReady(id)) \/ GTick \/ BootStep PROVE FALSE
  BY <1>2, <1>4
  DEF WriteReady, GTick, BootStep, LoadHealed, LoadCooling, LoadAsIs, LoadFails, GSchedule,
      requestVars
<1>5. ASSUME Crash PROVE FALSE
  BY <1>5 DEF Crash
<1>6. ASSUME UNCHANGED gvars PROVE FALSE
  BY <1>2, <1>6 DEF gvars, requestVars
<1> QED
  BY <1>1, <1>3, <1>4, <1>5, <1>6 DEF GNext

LEMMA GrantedIsNotHeld ==
  ASSUME MaxInFlight = 1, GInv, NEW c \in Caller, NEW d \in Caller,
         LeaseAccount(c), pc[d] = "leased"
  PROVE  held'[c] # held[d]
<1>1. held'[c] \in Slot /\ inFlight[held'[c]] < 1
  BY ScanPicks DEF Available, GInv, LeaseInv
<1>2. inFlight[held'[c]] \in Nat
  BY <1>1 DEF GInv, LeaseInv, TypeOK
<1>3. Cardinality(Owners(held'[c])) = 0
  BY <1>1, <1>2 DEF GInv, LeaseInv, LeaseConservation
<1>4. Owners(held'[c]) = {}
  BY <1>3, FS_EmptySet, OwnersFinite
<1> QED
  BY <1>4 DEF Owners, Owns

(* With one lease per account nobody is granted an account its holder is about *)
(* to mark rate-limited or signed out (engine.go:123-134, manager.go:30).     *)
THEOREM VerdictBeforeNextGrant == MaxInFlight = 1 => (GSpec => NoGrantBeforeVerdict)
<1> SUFFICES ASSUME MaxInFlight = 1 PROVE GSpec => NoGrantBeforeVerdict
  OBVIOUS
<1> DEFINE Verdict ==
      \A c, d \in Caller :
        (/\ c # d /\ step[d] = "rejected" /\ ~direct[d]
         /\ lastErr[d] \in {"rate_limited", "unauthorized"}
         /\ step[c] = "leasing" /\ step'[c] = "dispatching")
          => held'[c] # held[d]
<1>1. GInv /\ [GNext]_gvars => Verdict
  <2> SUFFICES ASSUME GInv, [GNext]_gvars, NEW c \in Caller, NEW d \in Caller,
                      step[d] = "rejected", ~direct[d],
                      step[c] = "leasing", step'[c] = "dispatching"
               PROVE  held'[c] # held[d]
    OBVIOUS
  <2>1. pc[d] = "leased"
    BY DEF GInv, RequestInv, Holding
  <2> QED
    BY <2>1, OnlyTheScanGrants, GrantedIsNotHeld DEF GInv
<1>2. GInv /\ [GNext]_gvars => [Verdict]_gvars
  BY <1>1
<1> QED
  BY <1>2, GInvCorrect, PTL DEF GSpec, NoGrantBeforeVerdict

-----------------------------------------------------------------------------
(* A settled sign-out. *)

(* The slots of two IDs are two. *)
LEMMA SlotsApart ==
  ASSUME IndexInv, NEW id \in AccountID, NEW other \in AccountID, other # id,
         byID[id] # NoSlot, byID[other] # NoSlot
  PROVE  byID[other] # byID[id]
BY DEF IndexInv, IndexKeyed

(* The pool's part of a settled sign-out. *)
OutInPool(id) == byID[id] = NoSlot \/ status[byID[id]] = "signed_out"

(* The scan neither revives nor grants an account that is signed out. *)
LEMMA LazyRecoveryKeepsOut ==
  ASSUME TypeOK, NEW id \in AccountID, OutInPool(id), LazyRecover, UNCHANGED byID
  PROVE  OutInPool(id)'
<1>1. CASE byID[id] = NoSlot
  BY <1>1 DEF OutInPool
<1>2. CASE byID[id] # NoSlot
  <2>1. byID[id] \in Slot /\ ~Elapsed(byID[id])
    BY <1>2 DEF TypeOK, OutInPool, Elapsed
  <2> QED
    BY <1>2, <2>1 DEF LazyRecover, OutInPool
<1> QED
  BY <1>1, <1>2

LEMMA ScanSkipsOut ==
  ASSUME TypeOK, IndexInv, NEW id \in AccountID, OutInPool(id), NEW s \in Pooled,
         IdOf[s] = id
  PROVE  ~Elapsed(s) /\ ~Available(s)
<1>1. PICK i \in 1 .. Len(accounts) : accounts[i] = s
  BY LenProperties DEF Pooled, Range, TypeOK
<1>2. byID[id] = s /\ s \in Slot
  BY <1>1, ListOfSlots DEF IndexInv, ListIndexed
<1>3. status[s] = "signed_out"
  BY <1>2, ConstantsAssumption DEF OutInPool
<1> QED
  BY <1>3 DEF Elapsed, Available, StatusAfterRecovery

LEMMA NoLazyWrite ==
  ASSUME GInv, NEW id \in AccountID, OutInPool(id), readyWrites[id] = 0, SpawnLazyWrites
  PROVE  readyWrites'[id] = 0
<1>1. ~\E s \in Pooled : IdOf[s] = id /\ Elapsed(s)
  BY ScanSkipsOut DEF GInv, LeaseInv
<1> QED
  BY <1>1 DEF SpawnLazyWrites

LEMMA RequestKeepsOut ==
  ASSUME GInv, NEW id \in AccountID, Settled(id),
         NEW c \in Caller, StartRequest(c) \/ RequestStep(c)
  PROVE  Settled(id)'
<1>1. /\ row[id].status = "signed_out" /\ OutInPool(id) /\ readyWrites[id] = 0
      /\ \A d \in Caller : copy[d] # NoCopy => copy[d].id # id
  BY DEF Settled, OutInPool
<1>2. /\ copy \in [Caller -> Account \cup {NoCopy}]
      /\ row \in [AccountID -> [status : Status, until : Time \cup {NoTime}]]
  BY DEF GInv, GTypeOK
<1>3. CASE LeaseFromPool(c)
  <2>1. LeaseAccount(c)
    BY <1>3 DEF LeaseFromPool
  <2>2. held'[c] \in Pooled /\ Available(held'[c])
    BY <2>1, ScanPicks DEF GInv, LeaseInv
  <2>3. IdOf[held'[c]] # id
    BY <1>1, <2>2, ScanSkipsOut DEF GInv, LeaseInv
  <2>4. OutInPool(id)'
    BY <1>1, <2>1, LazyRecoveryKeepsOut DEF LeaseAccount, GInv, LeaseInv
  <2>5. readyWrites'[id] = 0
    BY <1>1, <1>3, NoLazyWrite DEF LeaseFromPool
  <2>6. \A d \in Caller : copy'[d] # NoCopy => copy'[d].id # id
    BY <1>1, <1>2, <1>3, <2>3 DEF LeaseFromPool
  <2>7. row' = row
    BY <1>3 DEF LeaseFromPool
  <2> QED
    BY <1>1, <2>4, <2>5, <2>6, <2>7 DEF Settled, OutInPool
<1>4. CASE PoolRefuses(c)
  <2>1. OutInPool(id)'
    BY <1>1, <1>4, LazyRecoveryKeepsOut DEF PoolRefuses, LeaseFails, poolVars, GInv, LeaseInv
  <2>2. readyWrites'[id] = 0
    BY <1>1, <1>4, NoLazyWrite DEF PoolRefuses
  <2> QED
    BY <1>1, <1>4, <2>1, <2>2 DEF PoolRefuses, Settled, OutInPool
<1>5. CASE MarkRejected(c)
  <2> DEFINE other == copy[c].id
  <2>1. other \in AccountID /\ other # id
    BY <1>1, <1>2, <1>5 DEF MarkRejected, GInv, RequestInv, Holding, Account
  <2>2. /\ byID[other] # NoSlot /\ byID' = byID
        /\ \E st \in Status : status' = [status EXCEPT ![byID[other]] = st]
    BY <1>5 DEF MarkRejected, Mark, MarkRateLimited, MarkSignedOut, poolVars, Status
  <2>3. \A d \in Caller : copy'[d] # NoCopy => copy'[d].id # id
    BY <1>1, <1>2, <1>5, <2>1
    DEF MarkRejected, Mark, GInv, RequestInv, Holding, Account
  <2> HIDE DEF other
  <2>4. OutInPool(id)'
    BY <1>1, <2>1, <2>2, SlotsApart DEF OutInPool, GInv, LeaseInv, TypeOK
  <2> QED
    BY <1>1, <1>5, <2>3, <2>4 DEF MarkRejected, Settled, OutInPool, storeVars
<1>6. CASE PersistMark(c) \/ SaveCopy(c)
  <2>1. copy[c] \in Account /\ copy[c].id # id
    BY <1>1, <1>2, <1>6 DEF PersistMark, SaveCopy, GInv, RequestInv, Holding
  <2>2. row'[id].status = "signed_out"
    BY <1>1, <1>2, <1>6, <2>1 DEF PersistMark, SaveCopy, WriteCopy, Account
  <2>3. UNCHANGED <<byID, status, readyWrites>>
    BY <1>6 DEF PersistMark, SaveCopy, vars, poolVars, healthVars
  <2>4. \A d \in Caller : copy'[d] \in {copy[d], NoCopy}
    BY <1>2, <1>6 DEF PersistMark, SaveCopy, End
  <2> QED
    BY <1>1, <2>2, <2>3, <2>4 DEF Settled, OutInPool
<1>7. CASE LeaseFromRepository(c)
  <2>1. \A d \in Caller : copy'[d] # NoCopy => copy'[d].id # id
    BY <1>1, <1>2, <1>7 DEF LeaseFromRepository, RowReady
  <2> QED
    BY <1>1, <1>7, <2>1 DEF LeaseFromRepository, Settled, OutInPool, vars, poolVars, healthVars,
                            storeVars
<1>8. CASE Retry(c) \/ Finish(c)
  <2>1. UNCHANGED <<byID, status>>
    BY <1>8 DEF Retry, Finish, GiveBack, Release, vars, poolVars, healthVars
  <2>2. \A d \in Caller : copy'[d] \in {copy[d], NoCopy}
    BY <1>2, <1>8 DEF Retry, Finish
  <2> QED
    BY <1>1, <1>8, <2>1, <2>2 DEF Retry, Finish, Settled, storeVars
<1>9. CASE \/ StartRequest(c) \/ NoAccount(c) \/ AttemptsUsedUp(c) \/ ClientGone(c)
           \/ \E outcome \in Outcome : Dispatch(c, outcome)
           \/ LeaveUnmarked(c) \/ Fallback(c)
  <2>1. UNCHANGED <<byID, status, row, readyWrites>>
    BY <1>9
    DEF StartRequest, NoAccount, AttemptsUsedUp, ClientGone, Dispatch, LeaveUnmarked, Fallback,
        vars, poolVars, healthVars, storeVars
  <2>2. \A d \in Caller : copy'[d] \in {copy[d], NoCopy}
    BY <1>2, <1>9
    DEF StartRequest, NoAccount, AttemptsUsedUp, ClientGone, Dispatch, LeaveUnmarked, Fallback,
        End
  <2> QED
    BY <1>1, <2>1, <2>2 DEF Settled
<1> QED
  BY <1>3, <1>4, <1>5, <1>6, <1>7, <1>8, <1>9 DEF RequestStep

(* A start loads what the row says, and a signed-out row is loaded as such. *)
LEMMA LoadKeepsOut ==
  ASSUME GInv, NEW id \in AccountID, OutInPool(id),
         NEW other \in AccountID, NEW st, NEW until, AddAccountLocked(other, st, until),
         other = id => st = "signed_out"
  PROVE  OutInPool(id)'
<1> USE DEF GInv, LeaseInv
<1>1. CASE byID[other] # NoSlot
  <2>1. byID' = byID /\ status' = [status EXCEPT ![byID[other]] = st]
    BY <1>1 DEF AddAccountLocked
  <2>2. CASE other = id
    BY <1>1, <2>1, <2>2 DEF OutInPool, TypeOK
  <2>3. CASE other # id
    BY <1>1, <2>1, <2>3, SlotsApart DEF OutInPool, TypeOK
  <2> QED
    BY <2>2, <2>3
<1>2. CASE byID[other] = NoSlot
  <2>1. PICK s \in Slot : /\ IdOf[s] = other
                          /\ byID' = [byID EXCEPT ![other] = s]
                          /\ status' = [status EXCEPT ![s] = st]
    BY <1>2 DEF AddAccountLocked
  <2>2. CASE other = id
    BY <2>1, <2>2 DEF OutInPool, TypeOK
  <2>3. CASE other # id
    BY <2>1, <2>3 DEF OutInPool, TypeOK, IndexInv, IndexKeyed
  <2> QED
    BY <2>2, <2>3
<1> QED
  BY <1>1, <1>2

LEMMA BootKeepsOut ==
  ASSUME GInv, NEW id \in AccountID, Settled(id), BootStep
  PROVE  Settled(id)'
<1>1. /\ row[id].status = "signed_out" /\ OutInPool(id) /\ readyWrites[id] = 0
      /\ \A d \in Caller : copy[d] # NoCopy => copy[d].id # id
  BY DEF Settled, OutInPool
<1>2. copy' = copy /\ readyWrites' = readyWrites
  BY DEF BootStep, LoadHealed, LoadCooling, LoadAsIs, LoadFails, GSchedule, requestVars,
         storeVars
<1>3. row'[id].status = "signed_out"
  BY <1>1 DEF BootStep, LoadHealed, LoadCooling, LoadAsIs, LoadFails, GSchedule, storeVars,
              GInv, GTypeOK
<1>4. OutInPool(id)'
  <2>1. ASSUME NEW other \in AccountID, LoadHealed(other) PROVE OutInPool(id)'
    BY <1>1, <2>1, LoadKeepsOut DEF LoadHealed, AddAccount
  <2>2. ASSUME NEW other \in AccountID, LoadCooling(other) PROVE OutInPool(id)'
    BY <1>1, <2>2, LoadKeepsOut DEF LoadCooling, LoadRateLimited
  <2>3. ASSUME NEW other \in AccountID, LoadAsIs(other) PROVE OutInPool(id)'
    BY <1>1, <2>3, LoadKeepsOut DEF LoadAsIs, AddAccount
  <2>4. CASE LoadFails \/ \E l \in loading : GSchedule(l)
    BY <1>1, <2>4
    DEF LoadFails, GSchedule, ReadLoaded, ScheduleFutureRateLimit, OutInPool, vars, poolVars,
        healthVars
  <2> QED
    BY <2>1, <2>2, <2>3, <2>4 DEF BootStep
<1> QED
  BY <1>1, <1>2, <1>3, <1>4 DEF Settled, OutInPool

(* A timer only recovers an account that is rate-limited. *)
LEMMA TimerKeepsOut ==
  ASSUME GInv, NEW id \in AccountID, Settled(id), NEW t \in Timer, GRecoverAccount(t)
  PROVE  Settled(id)'
<1> DEFINE other == timer[t].id
<1>1. /\ row[id].status = "signed_out" /\ OutInPool(id) /\ readyWrites[id] = 0
      /\ \A d \in Caller : copy[d] # NoCopy => copy[d].id # id
  BY DEF Settled, OutInPool
<1>2. other \in AccountID
  BY DEF GRecoverAccount, RecoverAccount, GInv, LeaseInv, TypeOK, PendingTimer, IdleTimer
<1>3. /\ byID[other] # NoSlot /\ status[byID[other]] = "rate_limited"
      /\ byID' = byID /\ status' = [status EXCEPT ![byID[other]] = "ready"]
      /\ readyWrites' = [readyWrites EXCEPT ![other] = @ + 1]
      /\ copy' = copy /\ row' = row
  BY DEF GRecoverAccount, RecoverAccount, RecoveryDue, poolVars, requestVars
<1> HIDE DEF other
<1>4. other # id
  BY <1>1, <1>3 DEF OutInPool
<1>5. OutInPool(id)'
  BY <1>1, <1>2, <1>3, <1>4, SlotsApart DEF OutInPool, GInv, LeaseInv, TypeOK
<1>6. readyWrites'[id] = 0
  BY <1>1, <1>3, <1>4 DEF GInv, GTypeOK
<1> QED
  BY <1>1, <1>3, <1>5, <1>6 DEF Settled, OutInPool

LEMMA SettledStep ==
  ASSUME GInv, [GNext]_gvars, NEW id \in AccountID, Settled(id)
  PROVE  Settled(id)'
<1>1. CASE UNCHANGED <<byID, status, row, readyWrites, copy>>
  BY <1>1 DEF Settled
<1>2. CASE (\E t \in Timer : GTimerFires(t) \/ GRecoverySkipped(t)) \/ GTick \/ UNCHANGED gvars
  BY <1>1, <1>2
  DEF GTimerFires, GRecoverySkipped, GTick, TimerFires, RecoverySkipped, Tick, gvars, vars,
      poolVars, healthVars, requestVars, storeVars
<1>3. ASSUME NEW other \in AccountID, WriteReady(other) PROVE Settled(id)'
  BY <1>3 DEF WriteReady, Settled, vars, poolVars, healthVars, requestVars, GInv, GTypeOK
<1>4. CASE Crash
  BY <1>4 DEF Crash, Settled
<1> QED
  BY <1>2, <1>3, <1>4, RequestKeepsOut, TimerKeepsOut, BootKeepsOut DEF GNext

(* A sign-out that is settled stays so: no timer, no lazy recovery, no lease    *)
(* from the table, no start after a crash and no write under way uses or       *)
(* revives the account (subpool.go:245, 284-297, manager.go:154-168).          *)
THEOREM SignOutLasts == GSpec => SettledSignOutLasts
<1>1. GInv /\ [GNext]_gvars => [\A id \in AccountID : Settled(id) => Settled(id)']_gvars
  BY SettledStep
<1> QED
  BY <1>1, GInvCorrect, PTL DEF GSpec, SettledSignOutLasts
=============================================================================
