------------------------------- MODULE Gateway -------------------------------
(***************************************************************************)
(* The gateway around one provider's pool: requests that run               *)
(* reverseProxyEngine.GenerateImage (internal/proxy/engine.go) against the  *)
(* pool of SubPool, the rows of the accounts table, the goroutines that     *)
(* write to them behind the pool's back, and the process that crashes and   *)
(* loads the pool from the rows again (cmd/server/main.go).                 *)
(*                                                                         *)
(* The server creates its pool without a wait timeout, so no request waits. *)
(* A row is written outside sp.mu, after the memory: by the request that    *)
(* marked the account, by a timer's callback, by the goroutine of a lazy    *)
(* recovery, and by a request that succeeded.  Every write may fail (the    *)
(* context of the client, the database), and every error is ignored.        *)
(***************************************************************************)
EXTENDS SubPool

CONSTANTS
  MaxRetries,   \* Options.MaxRetries, at least 1
  Cooldown,     \* Options.DefaultCooldown
  InitialRows,  \* what may be in a row when the gateway first starts
  MaxCrashes,   \* bound on the crashes
  NoCopy

Account == [id : AccountID, status : Status, until : Time \cup {NoTime}]

ASSUME GatewayAssumption ==
  /\ MaxRetries \in Nat \ {0}
  /\ Cooldown \in Durations
  /\ InitialRows \subseteq [status : Status, until : Time \cup {NoTime}]
  /\ \A r \in InitialRows : r.status # "rate_limited" => r.until = NoTime
  /\ MaxCrashes \in Nat
  /\ NoCopy \notin Account

VARIABLES
  step,         \* where each request is in GenerateImage, or how it ended
  attempt,      \* the retry loop's counter
  lastErr,      \* the retry loop's last error
  copy,         \* the request's account: the clone, or what it is to write
  direct,       \* the account is from ListReadyAccounts, not from the pool
  row,          \* row[id]: status and paused_until in the accounts table
  readyWrites,  \* readyWrites[id]: writes of ready under way for id
  toLoad,       \* the accounts LoadFromRepository has not reached
  crashes

requestVars == <<step, attempt, lastErr, copy, direct>>
storeVars   == <<row, readyWrites>>
bootVars    == <<toLoad, crashes>>
gvars == <<vars, requestVars, storeVars, bootVars>>

Ended  == {"idle", "image", "synthetic", "error"}
Active == {"leasing", "querying", "dispatching", "rejected", "persisting",
           "releasing", "finishing", "saving", "fallback"}

Outcome == {"none", "ok", "rate_limited", "unauthorized", "transient", "other"}

(* The types of the requests' state and of the rows; in particular no request *)
(* makes more attempts than the loop allows (engine.go:106-156).             *)
GTypeOK ==
  /\ step \in [Caller -> Ended \cup Active]
  /\ attempt \in [Caller -> 0 .. MaxRetries]
  /\ lastErr \in [Caller -> Outcome \ {"ok"}]
  /\ copy \in [Caller -> Account \cup {NoCopy}]
  /\ direct \in [Caller -> BOOLEAN]
  /\ row \in [AccountID -> [status : Status, until : Time \cup {NoTime}]]
  /\ readyWrites \in [AccountID -> Nat]
  /\ toLoad \subseteq AccountID
  /\ crashes \in 0 .. MaxCrashes

GInit ==
  /\ Init
  /\ step = [c \in Caller |-> "idle"]
  /\ attempt = [c \in Caller |-> 0]
  /\ lastErr = [c \in Caller |-> "none"]
  /\ copy = [c \in Caller |-> NoCopy]
  /\ direct = [c \in Caller |-> FALSE]
  /\ row \in [AccountID -> InitialRows]
  /\ readyWrites = [i \in AccountID |-> 0]
  /\ toLoad = AccountID
  /\ crashes = 0

(* Requests are served once main has loaded the pool. *)
Serving == toLoad = {} /\ loading = {}

ReadyRow == [status |-> "ready", until |-> NoTime]

-----------------------------------------------------------------------------
(* A request. *)

Goto(c, next) == step' = [step EXCEPT ![c] = next]

(* GenerateImage returns, and its local variables are gone. *)
End(c, answer) ==
  /\ Goto(c, answer)
  /\ attempt' = [attempt EXCEPT ![c] = 0]
  /\ lastErr' = [lastErr EXCEPT ![c] = "none"]
  /\ copy' = [copy EXCEPT ![c] = NoCopy]
  /\ direct' = [direct EXCEPT ![c] = FALSE]

StartRequest(c) ==
  /\ step[c] \in Ended
  /\ Serving
  /\ Goto(c, "leasing")
  /\ UNCHANGED <<vars, attempt, lastErr, copy, direct, storeVars, bootVars>>

(* onLazyRecover: one goroutine per account the scan has found due. *)
SpawnLazyWrites ==
  readyWrites' = [id \in AccountID |->
    readyWrites[id] + IF \E s \in Pooled : IdOf[s] = id /\ Elapsed(s) THEN 1 ELSE 0]

(* Fault: the loop's bound is forgotten. *)
LeaseWithoutBound(c) ==
  /\ step[c] = "leasing"
  /\ LeaseAccount(c)
  /\ SpawnLazyWrites
  /\ copy' = [copy EXCEPT ![c] =
                [id |-> IdOf[held'[c]], status |-> "ready", until |-> NoTime]]
  /\ direct' = [direct EXCEPT ![c] = FALSE]
  /\ Goto(c, "dispatching")
  /\ UNCHANGED <<attempt, lastErr, row, bootVars>>

LeaseFromPool(c) ==
  /\ step[c] = "leasing"
  /\ attempt[c] < MaxRetries
  /\ LeaseAccount(c)
  /\ SpawnLazyWrites
  /\ copy' = [copy EXCEPT ![c] =
                [id |-> IdOf[held'[c]], status |-> "ready", until |-> NoTime]]
  /\ direct' = [direct EXCEPT ![c] = FALSE]
  /\ Goto(c, "dispatching")
  /\ UNCHANGED <<attempt, lastErr, row, bootVars>>

PoolRefuses(c) ==
  /\ step[c] = "leasing"
  /\ attempt[c] < MaxRetries
  /\ LeaseFails(c)
  /\ SpawnLazyWrites
  /\ Goto(c, "querying")
  /\ UNCHANGED <<attempt, lastErr, copy, direct, row, bootVars>>

RowReady(id) == /\ row[id].status = "ready"
                /\ row[id].until = NoTime \/ row[id].until <= now

(* leaseAccount falls back to the first row of ListReadyAccounts, in an order *)
(* (last_checked_at) that is left open here; its release func does nothing.  *)
LeaseFromRepository(c) ==
  /\ step[c] = "querying"
  /\ \E id \in AccountID :
       /\ RowReady(id)
       /\ copy' = [copy EXCEPT ![c] =
                     [id |-> id, status |-> row[id].status, until |-> row[id].until]]
  /\ direct' = [direct EXCEPT ![c] = TRUE]
  /\ Goto(c, "dispatching")
  /\ UNCHANGED <<vars, attempt, lastErr, storeVars, bootVars>>

(* The query finds no row, or fails: the loop is left. *)
NoAccount(c) ==
  /\ step[c] = "querying"
  /\ Goto(c, "fallback")
  /\ UNCHANGED <<vars, attempt, lastErr, copy, direct, storeVars, bootVars>>

(* The loop is over: its attempts are used up. *)
AttemptsUsedUp(c) ==
  /\ step[c] = "leasing"
  /\ attempt[c] = MaxRetries
  /\ Goto(c, "fallback")
  /\ UNCHANGED <<vars, attempt, lastErr, copy, direct, storeVars, bootVars>>

(* The context of the client is done: the pool refuses without a scan, the   *)
(* query fails.                                                              *)
ClientGone(c) ==
  /\ step[c] = "leasing"
  /\ attempt[c] < MaxRetries
  /\ Goto(c, "fallback")
  /\ UNCHANGED <<vars, attempt, lastErr, copy, direct, storeVars, bootVars>>

(* The upstream answers; a network failure, a missing base URL and an odd    *)
(* status all end as a dynamic image, which is a success.                    *)
Dispatch(c, outcome) ==
  /\ step[c] = "dispatching"
  /\ outcome # "none"
  /\ outcome = "rate_limited" => now + Cooldown \in Time
  /\ IF outcome = "ok"
     THEN Goto(c, "finishing") /\ UNCHANGED lastErr
     ELSE Goto(c, "rejected") /\ lastErr' = [lastErr EXCEPT ![c] = outcome]
  /\ UNCHANGED <<vars, attempt, copy, direct, storeVars, bootVars>>

(* The upstream's verdict on the account, in the pool and in the clone. *)
Mark(c) ==
  LET id == copy[c].id IN
    /\ byID[id] # NoSlot
    /\ \/ /\ lastErr[c] = "rate_limited"
          /\ MarkRateLimited(id, Cooldown)
          /\ copy' = [copy EXCEPT ![c].status = "rate_limited",
                                  ![c].until = now + Cooldown]
       \/ /\ lastErr[c] = "unauthorized"
          /\ MarkSignedOut(id)
          /\ copy' = [copy EXCEPT ![c].status = "signed_out", ![c].until = NoTime]

(* Fault: the account is given back first and marked after that. *)
MarkAfterRelease(c) ==
  /\ step[c] = "rejected"
  /\ \/ /\ pc[c] = "leased"
        /\ Release(c)
        /\ UNCHANGED <<step, copy>>
     \/ /\ pc[c] # "leased"
        /\ Mark(c)
        /\ Goto(c, "persisting")
  /\ UNCHANGED <<attempt, lastErr, direct, storeVars, bootVars>>

(* The account is marked in memory, before it is released. *)
MarkRejected(c) ==
  /\ step[c] = "rejected"
  /\ Mark(c)
  /\ Goto(c, "persisting")
  /\ UNCHANGED <<attempt, lastErr, direct, storeVars, bootVars>>

(* Another error, or an account the pool does not know: nothing to mark. *)
LeaveUnmarked(c) ==
  /\ step[c] = "rejected"
  /\ \/ lastErr[c] \in {"transient", "other"}
     \/ byID[copy[c].id] = NoSlot
  /\ Goto(c, "releasing")
  /\ UNCHANGED <<vars, attempt, lastErr, copy, direct, storeVars, bootVars>>

(* A write of the request's account to its row; it may fail. *)
WriteCopy(c) ==
  row' \in {row, [row EXCEPT ![copy[c].id] =
                    [status |-> copy[c].status, until |-> copy[c].until]]}

PersistMark(c) ==
  /\ step[c] = "persisting"
  /\ WriteCopy(c)
  /\ Goto(c, "releasing")
  /\ UNCHANGED <<vars, attempt, lastErr, copy, direct, readyWrites, bootVars>>

(* release(): the pool's, or the func() {} of a lease from the repository. *)
GiveBack(c) == IF direct[c] THEN UNCHANGED vars ELSE pc[c] = "leased" /\ Release(c)

(* Fault: the loop goes on without giving the account back. *)
RetryKeepsLease(c) ==
  /\ step[c] = "releasing"
  /\ attempt' = [attempt EXCEPT ![c] = @ + 1]
  /\ Goto(c, "leasing")
  /\ copy' = [copy EXCEPT ![c] = NoCopy]
  /\ direct' = [direct EXCEPT ![c] = FALSE]
  /\ UNCHANGED <<vars, lastErr, storeVars, bootVars>>

(* Fault: only an attempt that used an account of the pool counts. *)
RetryDirectForFree(c) ==
  /\ step[c] = "releasing"
  /\ GiveBack(c)
  /\ attempt' = [attempt EXCEPT ![c] = IF direct[c] THEN @ ELSE @ + 1]
  /\ Goto(c, "leasing")
  /\ copy' = [copy EXCEPT ![c] = NoCopy]
  /\ direct' = [direct EXCEPT ![c] = FALSE]
  /\ UNCHANGED <<lastErr, storeVars, bootVars>>

(* release(), and the next attempt of the loop with variables of its own. *)
Retry(c) ==
  /\ step[c] = "releasing"
  /\ GiveBack(c)
  /\ attempt' = [attempt EXCEPT ![c] = @ + 1]
  /\ Goto(c, "leasing")
  /\ copy' = [copy EXCEPT ![c] = NoCopy]
  /\ direct' = [direct EXCEPT ![c] = FALSE]
  /\ UNCHANGED <<lastErr, storeVars, bootVars>>

Finish(c) ==
  /\ step[c] = "finishing"
  /\ GiveBack(c)
  /\ Goto(c, "saving")
  /\ UNCHANGED <<attempt, lastErr, copy, direct, storeVars, bootVars>>

(* SaveAccount writes the clone the lease began with, its status included. *)
SaveCopy(c) ==
  /\ step[c] = "saving"
  /\ WriteCopy(c)
  /\ End(c, "image")
  /\ UNCHANGED <<vars, readyWrites, bootVars>>

Fallback(c) ==
  /\ step[c] = "fallback"
  /\ End(c, IF lastErr[c] = "other" THEN "error" ELSE "synthetic")
  /\ UNCHANGED <<vars, storeVars, bootVars>>

RequestStep(c) ==
  \/ LeaseFromPool(c) \/ PoolRefuses(c) \/ LeaseFromRepository(c) \/ NoAccount(c)
  \/ AttemptsUsedUp(c) \/ ClientGone(c) \/ \E outcome \in Outcome : Dispatch(c, outcome)
  \/ MarkRejected(c) \/ LeaveUnmarked(c) \/ PersistMark(c)
  \/ Retry(c) \/ Finish(c) \/ SaveCopy(c) \/ Fallback(c)

-----------------------------------------------------------------------------
(* Timers and the writes that follow them. *)

GTimerFires(t) == TimerFires(t) /\ UNCHANGED <<requestVars, storeVars, bootVars>>

(* onAccountRecovered runs after the unlock. *)
GRecoverAccount(t) ==
  /\ RecoverAccount(t)
  /\ readyWrites' = [readyWrites EXCEPT ![timer[t].id] = @ + 1]
  /\ UNCHANGED <<requestVars, row, bootVars>>

GRecoverySkipped(t) ==
  RecoverySkipped(t) /\ UNCHANGED <<requestVars, storeVars, bootVars>>

WriteReady(id) ==
  /\ readyWrites[id] > 0
  /\ readyWrites' = [readyWrites EXCEPT ![id] = @ - 1]
  /\ row' \in {row, [row EXCEPT ![id] = ReadyRow]}
  /\ UNCHANGED <<vars, requestVars, bootVars>>

(* The bound on the clock must not catch a request about to mark. *)
GTick ==
  /\ Tick
  /\ \A c \in Caller : step[c] = "rejected" /\ lastErr[c] = "rate_limited"
                         => now' + Cooldown \in Time
  /\ UNCHANGED <<requestVars, storeVars, bootVars>>

-----------------------------------------------------------------------------
(* Start and crash. *)

(* Fault: an account whose cooldown is over is loaded as it is. *)
LoadUnhealed(id) ==
  /\ id \in toLoad
  /\ loading = {}
  /\ row[id].status = "rate_limited"
  /\ row[id].until <= now
  /\ AddAccount(id, "rate_limited", row[id].until)
  /\ toLoad' = toLoad \ {id}
  /\ UNCHANGED <<requestVars, storeVars, crashes>>

(* LoadFromRepository for a row whose cooldown is over: healed to ready. *)
LoadHealed(id) ==
  /\ id \in toLoad
  /\ loading = {}
  /\ row[id].status = "rate_limited"
  /\ row[id].until <= now
  /\ AddAccount(id, "ready", NoTime)
  /\ row' \in {row, [row EXCEPT ![id] = ReadyRow]}
  /\ toLoad' = toLoad \ {id}
  /\ UNCHANGED <<requestVars, readyWrites, crashes>>

LoadCooling(id) ==
  /\ id \in toLoad
  /\ row[id].status = "rate_limited"
  /\ LoadRateLimited(id, row[id].until)
  /\ toLoad' = toLoad \ {id}
  /\ UNCHANGED <<requestVars, storeVars, crashes>>

LoadAsIs(id) ==
  /\ id \in toLoad
  /\ loading = {}
  /\ row[id].status # "rate_limited"
  /\ AddAccount(id, row[id].status, row[id].until)
  /\ toLoad' = toLoad \ {id}
  /\ UNCHANGED <<requestVars, storeVars, crashes>>

(* The query for the accounts fails: main logs it and serves an empty pool. *)
LoadFails ==
  /\ toLoad = AccountID
  /\ toLoad' = {}
  /\ UNCHANGED <<vars, requestVars, storeVars, crashes>>

GSchedule(l) ==
  /\ ReadLoaded(l) \/ ScheduleFutureRateLimit(l)
  /\ UNCHANGED <<requestVars, storeVars, bootVars>>

(* The process dies and starts again: the rows and the clock remain. *)
Crash ==
  /\ crashes < MaxCrashes
  /\ crashes' = crashes + 1
  /\ toLoad' = AccountID
  /\ accounts' = <<>>
  /\ byID' = [i \in AccountID |-> NoSlot]
  /\ rrCursor' = 0
  /\ status' = [s \in Slot |-> "error"]
  /\ pausedUntil' = [s \in Slot |-> NoTime]
  /\ inFlight' = [s \in Slot |-> 0]
  /\ cooldownTimer' = [s \in Slot |-> NoTimer]
  /\ timer' = [t \in Timer |-> IdleTimer]
  /\ loading' = {}
  /\ pc' = [c \in Caller |-> "idle"]
  /\ held' = [c \in Caller |-> NoSlot]
  /\ step' = [c \in Caller |-> "idle"]
  /\ attempt' = [c \in Caller |-> 0]
  /\ lastErr' = [c \in Caller |-> "none"]
  /\ copy' = [c \in Caller |-> NoCopy]
  /\ direct' = [c \in Caller |-> FALSE]
  /\ readyWrites' = [i \in AccountID |-> 0]
  /\ UNCHANGED <<waitVars, closed, now, row>>

BootStep == \/ \E id \in AccountID : LoadHealed(id) \/ LoadCooling(id) \/ LoadAsIs(id)
            \/ LoadFails
            \/ \E l \in loading : GSchedule(l)

GNext ==
  \/ \E c \in Caller : StartRequest(c) \/ RequestStep(c)
  \/ \E t \in Timer : GTimerFires(t) \/ GRecoverAccount(t) \/ GRecoverySkipped(t)
  \/ \E id \in AccountID : WriteReady(id)
  \/ GTick
  \/ BootStep
  \/ Crash

GSpec == GInit /\ [][GNext]_gvars

(* Requests run (the HTTP client gives up after 30 s), goroutines run, timers *)
(* that are due fire, time passes and the boot completes.                    *)
GFairness ==
  /\ \A c \in Caller : WF_gvars(RequestStep(c))
  /\ \A t \in Timer : /\ WF_gvars(GTimerFires(t))
                      /\ WF_gvars(GRecoverAccount(t) \/ GRecoverySkipped(t))
  /\ WF_gvars(GTick)
  /\ WF_gvars(BootStep)

GFairSpec == GSpec /\ GFairness

-----------------------------------------------------------------------------
(* Properties. *)

(* However a request ends, and on every way round the loop, the lease it took *)
(* from the pool has been given back, once (engine.go:132-141).              *)
EndedRequestsHoldNothing ==
  \A c \in Caller : pc[c] = "leased" =>
    /\ step[c] \in {"dispatching", "rejected", "persisting", "releasing", "finishing"}
    /\ ~direct[c]

(* Nobody is granted an account whose upstream has just turned a request away *)
(* with 429 or 401 and which is not marked yet: the holder marks it before it *)
(* releases it (engine.go:123-134, MaxInFlight being 1).  Leases from the     *)
(* repository are no part of this: see ExclusiveAccount.                     *)
NoGrantBeforeVerdict ==
  [][\A c, d \in Caller :
       (/\ c # d /\ step[d] = "rejected" /\ ~direct[d]
        /\ lastErr[d] \in {"rate_limited", "unauthorized"}
        /\ step[c] = "leasing" /\ step'[c] = "dispatching")
         => held'[c] # held[d]]_gvars

(* A sign-out is settled: it is in the row and, if the pool has the account,   *)
(* in memory, and nobody has work under way with the account.                 *)
Settled(id) ==
  /\ row[id].status = "signed_out"
  /\ byID[id] = NoSlot \/ status[byID[id]] = "signed_out"
  /\ readyWrites[id] = 0
  /\ \A c \in Caller : copy[c] # NoCopy => copy[c].id # id

(* Once a sign-out is settled nothing uses or revives the account: no timer of  *)
(* an earlier cooldown that has fired already, no lazy recovery, no fallback to *)
(* the table, no restart (subpool.go:245, 284-297, accounts_repo.go:188-230,   *)
(* manager.go:154-168).  Only what was under way when it signed out can: a      *)
(* success that is saved late (engine.go:147) or a late 429 (subpool.go:230).   *)
SettledSignOutLasts ==
  [][\A id \in AccountID : Settled(id) => Settled(id)']_gvars

(* Every request is answered: the loop is bounded, whichever accounts fail    *)
(* and wherever they come from, and a crash ends it too (engine.go:106-156).  *)
RequestAnswered ==
  \A c \in Caller : (step[c] \in Active) ~> (step[c] \in Ended)

(* A cooldown that is in a row ends although the process may crash: the       *)
(* account is in the pool in another status, by its timer or healed by the    *)
(* next start, unless that start could not load the pool, and provided 429s   *)
(* do not come for ever: every one of them starts the cooldown again          *)
(* (manager.go:157-174, subpool.go:218-239, cmd/server/main.go:130-131).      *)
NoMoreRejections ==
  <>[](\A c \in Caller : step[c] = "rejected" => lastErr[c] # "rate_limited")

StoredCooldownEnds ==
  NoMoreRejections =>
    \A id \in AccountID :
      (row[id].status = "rate_limited")
        ~> (Serving /\ (byID[id] = NoSlot \/ status[byID[id]] # "rate_limited"))

(* "default 1 for exclusive lease" (manager.go:30); the repository is asked   *)
(* only "if pool manager is not provided or empty" (engine.go:182): no two    *)
(* requests use one account at a time.                                       *)
ExclusiveAccount ==
  \A c, d \in Caller :
    c # d /\ step[c] = "dispatching" /\ step[d] = "dispatching" => copy[c].id # copy[d].id
=============================================================================
