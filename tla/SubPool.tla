------------------------------- MODULE SubPool -------------------------------
(***************************************************************************)
(* One provider's account pool: internal/pool/subpool.go, scheduler.go and *)
(* the PoolManager methods of manager.go that call into it.                *)
(*                                                                         *)
(* Every action is one critical section of sp.mu, one select arm of a      *)
(* waiting caller, one runtime event (a timer fires, time passes) or one   *)
(* return from a call.  A lease is handed from the pool to a caller in two *)
(* steps (w.ch <- acc under the lock, <-w.ch outside it), a waiter gives   *)
(* up in two steps (the select arm, then cancel() under the lock) and a    *)
(* timer recovers an account in two steps (it fires, then its callback     *)
(* gets the lock): the hazards of the pool live between those steps.       *)
(*                                                                         *)
(* Left out: names and payloads, leasedAt, releasedAt, leaseCount and      *)
(* LastCheckedAt (written, never read by the pool), cooldownExpiry (written *)
(* and never read at all), errCh (nothing ever sends on it) and the SQLite *)
(* writes that follow some of the critical sections.                       *)
(***************************************************************************)
EXTENDS Integers, Sequences, FiniteSets, SequencesExt

CONSTANTS
  AccountID,    \* the account IDs of the provider
  Slot,         \* the poolAccount structs the program can allocate
  IdOf,         \* IdOf[s] is the ID of the account slot s is allocated for
  Caller,       \* the goroutines that lease accounts
  Timer,        \* the runtime timers AfterFunc can allocate
  MaxInFlight,  \* Options.MaxInFlight
  Durations,    \* the cooldowns callers of MarkAccountRateLimited pass
  AddStatuses,  \* the statuses of the accounts passed to AddAccount
  MaxTime,      \* bound on the clock
  NoSlot, NoTimer

NoTime == -1    \* a nil *time.Time

Time == 0 .. MaxTime

(* An unverified account is treated as one in error everywhere. *)
Status == {"ready", "rate_limited", "signed_out", "error"}

ASSUME ConstantsAssumption ==
  /\ IdOf \in [Slot -> AccountID]
  /\ IsFiniteSet(Caller)
  /\ MaxInFlight \in Nat \ {0}
  /\ Durations \subseteq Nat
  /\ AddStatuses \subseteq Status
  /\ MaxTime \in Nat
  /\ NoSlot \notin Slot
  /\ NoTimer \notin Timer

VARIABLES
  accounts,       \* sp.accounts
  byID,           \* sp.byID; NoSlot for an absent key
  rrCursor,       \* sp.rrCursor
  waiters,        \* sp.waiters, each waiter named by its caller
  status,         \* status[s] is s.account.Status
  pausedUntil,    \* pausedUntil[s] is s.account.PausedUntil
  inFlight,       \* inFlight[s] is s.inFlight
  cooldownTimer,  \* cooldownTimer[s] is s.cooldownTimer
  timer,          \* the runtime timers: idle, armed, or fired and not yet run
  loading,        \* the account LoadFromRepository has added and is to schedule
  closed,         \* PoolManager.Close has run
  pc,             \* where each caller is in its LeaseAccount call
  held,           \* the account of a caller's lease (of its release func)
  done,           \* w.done of the caller's waiter
  chan,           \* the content of w.ch
  now             \* clock.Now()

poolVars   == <<accounts, byID, rrCursor>>
healthVars == <<status, pausedUntil, cooldownTimer>>
callerVars == <<pc, held>>
waitVars   == <<waiters, done, chan>>
vars == <<poolVars, healthVars, callerVars, waitVars, inFlight, timer, loading,
          closed, now>>

IdleTimer == [state |-> "idle"]
PendingTimer == [state : {"armed", "fired"}, id : AccountID, expiry : Time]

(* The struct LoadFromRepository has added, and its paused_until once read. *)
LoadEntry == [slot : Slot, expiry : Time \cup {NoTime}]

Pooled == Range(accounts)

(* The caller (or the channel of its waiter) holds a lease on slot s. *)
Owns(c, s) == \/ pc[c] \in {"leased", "aborting"} /\ held[c] = s
              \/ chan[c] = s

Owners(s) == {c \in Caller : Owns(c, s)}

(* The types of the pool's state; in particular the cursor stays inside the  *)
(* list when accounts are removed (subpool.go:64-88).                       *)
TypeOK ==
  /\ accounts \in Seq(Slot)
  /\ byID \in [AccountID -> Slot \cup {NoSlot}]
  /\ rrCursor \in Nat
  /\ rrCursor = 0 \/ rrCursor < Len(accounts)
  /\ waiters \in Seq(Caller)
  /\ status \in [Slot -> Status]
  /\ pausedUntil \in [Slot -> Time \cup {NoTime}]
  /\ inFlight \in [Slot -> Nat]
  /\ cooldownTimer \in [Slot -> Timer \cup {NoTimer}]
  /\ timer \in [Timer -> PendingTimer \cup {IdleTimer}]
  /\ loading \subseteq LoadEntry
  /\ closed \in BOOLEAN
  /\ pc \in [Caller -> {"idle", "waiting", "cancelling", "aborting", "leased",
                        "returned"}]
  /\ held \in [Caller -> Slot \cup {NoSlot}]
  /\ done \in [Caller -> BOOLEAN]
  /\ chan \in [Caller -> Slot \cup {NoSlot}]
  /\ now \in Time

Init ==
  /\ accounts = <<>>
  /\ byID = [i \in AccountID |-> NoSlot]
  /\ rrCursor = 0
  /\ waiters = <<>>
  /\ status = [s \in Slot |-> "error"]
  /\ pausedUntil = [s \in Slot |-> NoTime]
  /\ inFlight = [s \in Slot |-> 0]
  /\ cooldownTimer = [s \in Slot |-> NoTimer]
  /\ timer = [t \in Timer |-> IdleTimer]
  /\ loading = {}
  /\ closed = FALSE
  /\ pc = [c \in Caller |-> "idle"]
  /\ held = [c \in Caller |-> NoSlot]
  /\ done = [c \in Caller |-> FALSE]
  /\ chan = [c \in Caller |-> NoSlot]
  /\ now = 0

-----------------------------------------------------------------------------
(* Timers.  Stop has no effect on a timer that has fired: its callback is  *)
(* already a goroutine on its way to sp.mu.                                *)

StopTimers(S) ==
  [t \in Timer |-> IF timer[t].state = "armed" /\ \E s \in S : cooldownTimer[s] = t
                   THEN IdleTimer ELSE timer[t]]

(* AfterFunc on behalf of slot s: a timer nobody refers to is armed. *)
ArmTimer(s, stopped, expiry) ==
  \E t \in Timer :
    /\ stopped[t] = IdleTimer
    /\ \A p \in Slot \ {s} : cooldownTimer[p] # t
    /\ timer' = [stopped EXCEPT
                   ![t] = [state |-> "armed", id |-> IdOf[s], expiry |-> expiry]]
    /\ cooldownTimer' = [cooldownTimer EXCEPT ![s] = t]

-----------------------------------------------------------------------------
(* The scheduler: lazy recovery of elapsed cooldowns, then a circular scan. *)

Elapsed(s) == /\ status[s] = "rate_limited"
              /\ pausedUntil[s] # NoTime
              /\ pausedUntil[s] <= now

LazyRecover ==
  LET due == {s \in Pooled : Elapsed(s)} IN
    /\ status' = [s \in Slot |-> IF s \in due THEN "ready" ELSE status[s]]
    /\ pausedUntil' = [s \in Slot |-> IF s \in due THEN NoTime ELSE pausedUntil[s]]
    /\ timer' = StopTimers(due)
    /\ cooldownTimer' = [s \in Slot |-> IF s \in due THEN NoTimer
                                        ELSE cooldownTimer[s]]

StatusAfterRecovery(s) == IF Elapsed(s) THEN "ready" ELSE status[s]

Available(s) == StatusAfterRecovery(s) = "ready" /\ inFlight[s] < MaxInFlight

(* The index the scan visits at its i-th iteration, from 0. *)
ScanIndex(i) == (rrCursor + i) % Len(accounts)

(* The scan stops at iteration i: earlier candidates are not available. *)
ScanStopsAt(i) ==
  /\ Available(accounts[ScanIndex(i) + 1])
  /\ \A j \in 0 .. i - 1 : ~Available(accounts[ScanIndex(j) + 1])

NoneAvailable == \A s \in Pooled : ~Available(s)

(* The error is a PoolExhaustedError rather than ErrNoAccountsAvailable. *)
PoolExhausted ==
  /\ NoneAvailable
  /\ \E s \in Pooled : StatusAfterRecovery(s) \in {"ready", "rate_limited"}

-----------------------------------------------------------------------------
(* Handing a lease over.  q, dn and ch are the waiter queue, the done flags *)
(* and the channels as the critical section has left them so far.           *)

(* Popping the queue skips cancelled waiters; k is the first live one. *)
FirstLive(q, dn, k) == /\ k \in 1 .. Len(q)
                       /\ ~dn[q[k]]
                       /\ \A j \in 1 .. k - 1 : dn[q[j]]

(* Fault: the served waiter stays in the queue. *)
HandOverWithoutPop(s, q, dn, ch) ==
  \E k \in 1 .. Len(q) :
    /\ FirstLive(q, dn, k)
    /\ waiters' = SubSeq(q, k, Len(q))
    /\ done' = [dn EXCEPT ![q[k]] = TRUE]
    /\ chan' = [ch EXCEPT ![q[k]] = s]

(* Fault: the whole queue is dropped once one waiter is served. *)
HandOverDropsQueue(s, q, dn, ch) ==
  \E k \in 1 .. Len(q) :
    /\ FirstLive(q, dn, k)
    /\ waiters' = <<>>
    /\ done' = [dn EXCEPT ![q[k]] = TRUE]
    /\ chan' = [ch EXCEPT ![q[k]] = s]

HandOver(s, q, dn, ch) ==
  \E k \in 1 .. Len(q) :
    /\ FirstLive(q, dn, k)
    /\ waiters' = SubSeq(q, k + 1, Len(q))
    /\ done' = [dn EXCEPT ![q[k]] = TRUE]
    /\ chan' = [ch EXCEPT ![q[k]] = s]

(* Fault: nobody looks whether the account is still in the pool. *)
MayHandOverRemoved(s) == status[s] = "ready"

(* releaseLocked goes through the queue only for a pooled, ready account. *)
MayHandOver(s) == byID[IdOf[s]] = s /\ status[s] = "ready"

ReleaseLocked(s, q, dn, ch) ==
  \/ /\ MayHandOver(s)
     /\ HandOver(s, q, dn, ch)
     /\ UNCHANGED inFlight
  \/ /\ MayHandOver(s) => \A k \in 1 .. Len(q) : dn[q[k]]
     /\ waiters' = IF MayHandOver(s) THEN <<>> ELSE q
     /\ done' = dn
     /\ chan' = ch
     /\ inFlight' = [inFlight EXCEPT ![s] = IF @ > 0 THEN @ - 1 ELSE @]

-----------------------------------------------------------------------------
(* LeaseAccount and LeaseAccountWait. *)

(* A caller starts a call; a returned lease's release func may be lost. *)
CanCall(c) == pc[c] \in {"idle", "returned"}

(* Fault: the cursor stays on the account that was leased. *)
LeaseAccountSticky(c) ==
  /\ CanCall(c)
  /\ \E i \in 0 .. Len(accounts) - 1 :
       LET s == accounts[ScanIndex(i) + 1] IN
         /\ ScanStopsAt(i)
         /\ inFlight' = [inFlight EXCEPT ![s] = @ + 1]
         /\ rrCursor' = ScanIndex(i)
         /\ held' = [held EXCEPT ![c] = s]
  /\ pc' = [pc EXCEPT ![c] = "leased"]
  /\ LazyRecover
  /\ UNCHANGED <<accounts, byID, waitVars, loading, closed, now>>

LeaseAccount(c) ==
  /\ CanCall(c)
  /\ \E i \in 0 .. Len(accounts) - 1 :
       LET s == accounts[ScanIndex(i) + 1] IN
         /\ ScanStopsAt(i)
         /\ inFlight' = [inFlight EXCEPT ![s] = @ + 1]
         /\ rrCursor' = (ScanIndex(i) + 1) % Len(accounts)
         /\ held' = [held EXCEPT ![c] = s]
  /\ pc' = [pc EXCEPT ![c] = "leased"]
  /\ LazyRecover
  /\ UNCHANGED <<accounts, byID, waitVars, loading, closed, now>>

(* Fault: the newest waiter goes to the front of the queue. *)
EnqueueWaiterFront(c) ==
  /\ CanCall(c)
  /\ PoolExhausted
  /\ waiters' = <<c>> \o waiters
  /\ done' = [done EXCEPT ![c] = FALSE]
  /\ pc' = [pc EXCEPT ![c] = "waiting"]
  /\ held' = [held EXCEPT ![c] = NoSlot]
  /\ LazyRecover
  /\ UNCHANGED <<poolVars, chan, inFlight, loading, closed, now>>

(* The wait timeout is positive and the pool exhausted: queue as a waiter. *)
EnqueueWaiter(c) ==
  /\ CanCall(c)
  /\ PoolExhausted
  /\ waiters' = Append(waiters, c)
  /\ done' = [done EXCEPT ![c] = FALSE]
  /\ pc' = [pc EXCEPT ![c] = "waiting"]
  /\ held' = [held EXCEPT ![c] = NoSlot]
  /\ LazyRecover
  /\ UNCHANGED <<poolVars, chan, inFlight, loading, closed, now>>

(* No account, or an exhausted pool and no wait timeout: an error. *)
LeaseFails(c) ==
  /\ CanCall(c)
  /\ NoneAvailable
  /\ pc' = [pc EXCEPT ![c] = "idle"]
  /\ held' = [held EXCEPT ![c] = NoSlot]
  /\ LazyRecover
  /\ UNCHANGED <<poolVars, waitVars, inFlight, loading, closed, now>>

(* The select takes w.ch.  With a live context the call returns the lease,  *)
(* with a cancelled one it goes on to give the account back.  The deferred  *)
(* cancel() finds nothing to do after a receipt (WaiterProtocol).           *)
Receive(c) ==
  /\ pc[c] = "waiting"
  /\ chan[c] # NoSlot
  /\ held' = [held EXCEPT ![c] = chan[c]]
  /\ chan' = [chan EXCEPT ![c] = NoSlot]
  /\ \E next \in {"leased", "aborting"} : pc' = [pc EXCEPT ![c] = next]
  /\ UNCHANGED <<poolVars, healthVars, waiters, done, inFlight, timer, loading,
                 closed, now>>

(* ctx.Err() was set after the receipt: sp.release(leased). *)
AbortLease(c) ==
  /\ pc[c] = "aborting"
  /\ ReleaseLocked(held[c], waiters, done, chan)
  /\ pc' = [pc EXCEPT ![c] = "idle"]
  /\ held' = [held EXCEPT ![c] = NoSlot]
  /\ UNCHANGED <<poolVars, healthVars, timer, loading, closed, now>>

(* The select takes ctx.Done() or the timeout. *)
GiveUp(c) ==
  /\ pc[c] = "waiting"
  /\ pc' = [pc EXCEPT ![c] = "cancelling"]
  /\ UNCHANGED <<poolVars, healthVars, waitVars, held, inFlight, timer, loading,
                 closed, now>>

(* Fault: the lease drained from the channel is not released. *)
CancelLosesLease(c) ==
  /\ pc[c] = "cancelling"
  /\ waiters' = RemoveFirst(waiters, c)
  /\ done' = [done EXCEPT ![c] = TRUE]
  /\ chan' = [chan EXCEPT ![c] = NoSlot]
  /\ pc' = [pc EXCEPT ![c] = "idle"]
  /\ UNCHANGED <<poolVars, healthVars, held, inFlight, timer, loading, closed, now>>

(* Fault: a waiter that gives up stays in the queue. *)
CancelKeepsQueue(c) ==
  /\ pc[c] = "cancelling"
  /\ LET dn == [done EXCEPT ![c] = TRUE] IN
       IF chan[c] # NoSlot
       THEN ReleaseLocked(chan[c], waiters, dn, [chan EXCEPT ![c] = NoSlot])
       ELSE done' = dn /\ UNCHANGED <<waiters, chan, inFlight>>
  /\ pc' = [pc EXCEPT ![c] = "idle"]
  /\ UNCHANGED <<poolVars, healthVars, held, timer, loading, closed, now>>

(* cancel(): leave the queue, and drain a lease handed over meanwhile. *)
Cancel(c) ==
  /\ pc[c] = "cancelling"
  /\ LET q  == RemoveFirst(waiters, c)
         dn == [done EXCEPT ![c] = TRUE]
     IN IF chan[c] # NoSlot
        THEN ReleaseLocked(chan[c], q, dn, [chan EXCEPT ![c] = NoSlot])
        ELSE waiters' = q /\ done' = dn /\ UNCHANGED <<chan, inFlight>>
  /\ pc' = [pc EXCEPT ![c] = "idle"]
  /\ UNCHANGED <<poolVars, healthVars, held, timer, loading, closed, now>>

(* The release func: its sync.Once lets only the first call through. *)
Release(c) ==
  \/ /\ pc[c] = "leased"
     /\ ReleaseLocked(held[c], waiters, done, chan)
     /\ pc' = [pc EXCEPT ![c] = "returned"]
     /\ UNCHANGED <<poolVars, healthVars, held, timer, loading, closed, now>>
  \/ /\ pc[c] = "returned"
     /\ UNCHANGED vars

-----------------------------------------------------------------------------
(* Cooldowns. *)

(* Fault: the old timer is stopped, the new one armed only if there was none. *)
MarkRateLimitedOnce(id, d) ==
  LET s == byID[id] IN
    /\ s # NoSlot
    /\ now + d \in Time
    /\ status' = [status EXCEPT ![s] = "rate_limited"]
    /\ pausedUntil' = [pausedUntil EXCEPT ![s] = now + d]
    /\ IF cooldownTimer[s] = NoTimer
       THEN ArmTimer(s, timer, now + d)
       ELSE timer' = StopTimers({s}) /\ UNCHANGED cooldownTimer
    /\ UNCHANGED <<poolVars, callerVars, waitVars, inFlight, loading, closed, now>>

MarkRateLimited(id, d) ==
  LET s == byID[id] IN
    /\ s # NoSlot
    /\ now + d \in Time
    /\ status' = [status EXCEPT ![s] = "rate_limited"]
    /\ pausedUntil' = [pausedUntil EXCEPT ![s] = now + d]
    /\ ArmTimer(s, StopTimers({s}), now + d)
    /\ UNCHANGED <<poolVars, callerVars, waitVars, inFlight, loading, closed, now>>

(* The runtime starts the callback; it still has to get sp.mu. *)
TimerFires(t) ==
  /\ timer[t].state = "armed"
  /\ now >= timer[t].expiry
  /\ timer' = [timer EXCEPT ![t].state = "fired"]
  /\ UNCHANGED <<poolVars, healthVars, callerVars, waitVars, inFlight, loading,
                 closed, now>>

(* Fault: the status is not checked again under the lock. *)
RecoveryDueAnyStatus(t) ==
  byID[timer[t].id] # NoSlot /\ now >= timer[t].expiry

(* Fault: the timer has to be strictly past its time. *)
RecoveryDueLate(t) ==
  LET s == byID[timer[t].id] IN
    /\ s # NoSlot
    /\ status[s] = "rate_limited"
    /\ now > timer[t].expiry

(* The timer's account, as recoverAccount looks it up, is still due. *)
RecoveryDue(t) ==
  LET s == byID[timer[t].id] IN
    /\ s # NoSlot
    /\ status[s] = "rate_limited"
    /\ now >= timer[t].expiry

(* Fault: the account is handed over although its leases are still out. *)
RecoverAccountBusy(t) ==
  LET s == byID[timer[t].id] IN
    /\ timer[t].state = "fired"
    /\ RecoveryDue(t)
    /\ timer' = [timer EXCEPT ![t] = IdleTimer]
    /\ status' = [status EXCEPT ![s] = "ready"]
    /\ pausedUntil' = [pausedUntil EXCEPT ![s] = NoTime]
    /\ cooldownTimer' = [cooldownTimer EXCEPT ![s] = NoTimer]
    /\ \/ /\ HandOver(s, waiters, done, chan)
          /\ inFlight' = [inFlight EXCEPT ![s] = @ + 1]
       \/ /\ \A k \in 1 .. Len(waiters) : done[waiters[k]]
          /\ waiters' = <<>>
          /\ UNCHANGED <<done, chan, inFlight>>
    /\ UNCHANGED <<poolVars, callerVars, loading, closed, now>>

(* Fault: nobody is told that the account is ready again. *)
RecoverAccountSilently(t) ==
  LET s == byID[timer[t].id] IN
    /\ timer[t].state = "fired"
    /\ RecoveryDue(t)
    /\ timer' = [timer EXCEPT ![t] = IdleTimer]
    /\ status' = [status EXCEPT ![s] = "ready"]
    /\ pausedUntil' = [pausedUntil EXCEPT ![s] = NoTime]
    /\ cooldownTimer' = [cooldownTimer EXCEPT ![s] = NoTimer]
    /\ UNCHANGED <<poolVars, callerVars, waitVars, inFlight, loading, closed, now>>

(* recoverAccount: ready again, and one waiter is served if there is room. *)
RecoverAccount(t) ==
  LET s == byID[timer[t].id] IN
    /\ timer[t].state = "fired"
    /\ RecoveryDue(t)
    /\ timer' = [timer EXCEPT ![t] = IdleTimer]
    /\ status' = [status EXCEPT ![s] = "ready"]
    /\ pausedUntil' = [pausedUntil EXCEPT ![s] = NoTime]
    /\ cooldownTimer' = [cooldownTimer EXCEPT ![s] = NoTimer]
    /\ \/ /\ inFlight[s] < MaxInFlight
          /\ HandOver(s, waiters, done, chan)
          /\ inFlight' = [inFlight EXCEPT ![s] = @ + 1]
       \/ /\ inFlight[s] < MaxInFlight
          /\ \A k \in 1 .. Len(waiters) : done[waiters[k]]
          /\ waiters' = <<>>
          /\ UNCHANGED <<done, chan, inFlight>>
       \/ /\ inFlight[s] >= MaxInFlight
          /\ UNCHANGED <<waitVars, inFlight>>
    /\ UNCHANGED <<poolVars, callerVars, loading, closed, now>>

(* recoverAccount returns early; a reference the slot keeps is harmless. *)
RecoverySkipped(t) ==
  /\ timer[t].state = "fired"
  /\ ~RecoveryDue(t)
  /\ timer' = [timer EXCEPT ![t] = IdleTimer]
  /\ UNCHANGED <<poolVars, healthVars, callerVars, waitVars, inFlight, loading,
                 closed, now>>

Tick ==
  /\ now < MaxTime
  /\ now' = now + 1
  /\ UNCHANGED <<poolVars, healthVars, callerVars, waitVars, inFlight, timer,
                 loading, closed>>

-----------------------------------------------------------------------------
(* Administration. *)

(* A slot the allocator may use: no list, lease or load refers to it. *)
FreshSlot(s) == /\ s \notin Pooled
                /\ Owners(s) = {}
                /\ \A l \in loading : l.slot # s

AddAccountLocked(id, st, until) ==
  IF byID[id] # NoSlot
  THEN /\ status' = [status EXCEPT ![byID[id]] = st]
       /\ pausedUntil' = [pausedUntil EXCEPT ![byID[id]] = until]
       /\ UNCHANGED <<accounts, byID, inFlight, cooldownTimer>>
  ELSE \E s \in Slot :
         /\ IdOf[s] = id
         /\ FreshSlot(s)
         /\ accounts' = Append(accounts, s)
         /\ byID' = [byID EXCEPT ![id] = s]
         /\ status' = [status EXCEPT ![s] = st]
         /\ pausedUntil' = [pausedUntil EXCEPT ![s] = until]
         /\ inFlight' = [inFlight EXCEPT ![s] = 0]
         /\ cooldownTimer' = [cooldownTimer EXCEPT ![s] = NoTimer]

(* AddAccount; also LoadFromRepository for an account that needs no timer,  *)
(* an expired cooldown being healed to ready before the account is added.   *)
AddAccount(id, st, until) ==
  /\ st \in AddStatuses
  /\ st # "rate_limited" => until = NoTime
  /\ AddAccountLocked(id, st, until)
  /\ UNCHANGED <<rrCursor, callerVars, waitVars, timer, loading, closed, now>>

(* LoadFromRepository, one goroutine, for an account whose cooldown was still *)
(* running when the load began (at 0 at the earliest): the account is added,  *)
(* and shared with the pool from then on.                                    *)
LoadRateLimited(id, until) ==
  /\ loading = {}
  /\ until > 0
  /\ AddAccountLocked(id, "rate_limited", until)
  /\ loading' = {[slot |-> byID'[id], expiry |-> NoTime]}
  /\ UNCHANGED <<rrCursor, callerVars, waitVars, timer, closed, now>>

(* The cooldown is read again from the shared struct, without sp.mu: a mark    *)
(* or a sign-out may have changed it.  The reads are one step; a sign-out      *)
(* between two of them would dereference a nil pointer.                       *)
ReadLoaded(l) ==
  /\ l \in loading
  /\ l.expiry = NoTime
  /\ loading' = IF status[l.slot] = "rate_limited" /\ pausedUntil[l.slot] > 0
                THEN {[slot |-> l.slot, expiry |-> pausedUntil[l.slot]]}
                ELSE {}
  /\ UNCHANGED <<poolVars, healthVars, callerVars, waitVars, inFlight, timer,
                 closed, now>>

(* The timer is armed in another critical section, for whoever has the ID. *)
ScheduleFutureRateLimit(l) ==
  LET s == byID[IdOf[l.slot]] IN
    /\ l \in loading
    /\ l.expiry # NoTime
    /\ loading' = {}
    /\ IF s # NoSlot /\ status[s] = "rate_limited"
       THEN ArmTimer(s, timer, l.expiry)
       ELSE UNCHANGED <<timer, cooldownTimer>>
    /\ UNCHANGED <<poolVars, status, pausedUntil, callerVars, waitVars, inFlight,
                   closed, now>>

WithoutID(q, id) == RemoveFirstMatch(q, LAMBDA s : IdOf[s] = id)

(* Fault: the cursor may be left behind the end of the list. *)
RemoveAccountKeepsCursor(id) ==
  LET s == byID[id] IN
    /\ s # NoSlot
    /\ timer' = StopTimers({s})
    /\ cooldownTimer' = [cooldownTimer EXCEPT ![s] = NoTimer]
    /\ byID' = [byID EXCEPT ![id] = NoSlot]
    /\ accounts' = WithoutID(accounts, id)
    /\ UNCHANGED <<rrCursor, status, pausedUntil, callerVars, waitVars, inFlight,
                   loading, closed, now>>

RemoveAccount(id) ==
  LET s == byID[id]
      rest == WithoutID(accounts, id)
  IN
    /\ s # NoSlot
    /\ timer' = StopTimers({s})
    /\ cooldownTimer' = [cooldownTimer EXCEPT ![s] = NoTimer]
    /\ byID' = [byID EXCEPT ![id] = NoSlot]
    /\ accounts' = rest
    /\ rrCursor' = IF rrCursor >= Len(rest) THEN 0 ELSE rrCursor
    /\ UNCHANGED <<status, pausedUntil, callerVars, waitVars, inFlight, loading,
                   closed, now>>

MarkSignedOut(id) ==
  LET s == byID[id] IN
    /\ s # NoSlot
    /\ timer' = StopTimers({s})
    /\ cooldownTimer' = [cooldownTimer EXCEPT ![s] = NoTimer]
    /\ status' = [status EXCEPT ![s] = "signed_out"]
    /\ pausedUntil' = [pausedUntil EXCEPT ![s] = NoTime]
    /\ UNCHANGED <<poolVars, callerVars, waitVars, inFlight, loading, closed, now>>

(* The statistics are read off the state; the lazy recovery changes it. *)
GetPoolStats ==
  /\ LazyRecover
  /\ UNCHANGED <<poolVars, callerVars, waitVars, inFlight, loading, closed, now>>

Close ==
  /\ closed' = TRUE
  /\ timer' = StopTimers(Pooled)
  /\ cooldownTimer' = [s \in Slot |-> IF s \in Pooled THEN NoTimer
                                      ELSE cooldownTimer[s]]
  /\ UNCHANGED <<poolVars, status, pausedUntil, callerVars, waitVars, inFlight,
                 loading, now>>

-----------------------------------------------------------------------------
LeaseNext ==
  \E c \in Caller :
    \/ LeaseAccount(c) \/ EnqueueWaiter(c) \/ LeaseFails(c)
    \/ Receive(c) \/ AbortLease(c) \/ GiveUp(c) \/ Cancel(c) \/ Release(c)

CooldownNext ==
  \/ \E id \in AccountID, d \in Durations : MarkRateLimited(id, d)
  \/ \E t \in Timer : TimerFires(t) \/ RecoverAccount(t) \/ RecoverySkipped(t)
  \/ Tick

LoadNext ==
  \/ \E id \in AccountID, until \in Time : LoadRateLimited(id, until)
  \/ \E l \in loading : ReadLoaded(l) \/ ScheduleFutureRateLimit(l)

AdminNext ==
  \/ \E id \in AccountID, st \in Status, until \in Time \cup {NoTime} :
       AddAccount(id, st, until)
  \/ \E id \in AccountID : RemoveAccount(id) \/ MarkSignedOut(id)
  \/ GetPoolStats
  \/ Close

Next == LeaseNext \/ CooldownNext \/ LoadNext \/ AdminNext

Spec == Init /\ [][Next]_vars

(* Goroutines that can run do run, timers that are due fire, time passes and *)
(* a caller that got a lease returns it (the engine releases on every path). *)
(* Nothing makes a waiter give up: its timeout may be arbitrarily long.      *)
CallerFairness ==
  \A c \in Caller :
    WF_vars(Receive(c) \/ AbortLease(c) \/ Cancel(c) \/ Release(c))

TimerFairness ==
  /\ \A t \in Timer :
       WF_vars(TimerFires(t) \/ RecoverAccount(t) \/ RecoverySkipped(t))
  /\ WF_vars(\E l \in loading : ReadLoaded(l) \/ ScheduleFutureRateLimit(l))
  /\ WF_vars(Tick)

Fairness == CallerFairness /\ TimerFairness

-----------------------------------------------------------------------------
(* Properties. *)

(* inFlight is exactly the number of leases out: what callers hold plus what *)
(* lies in the channels of waiters.  No interleaving of a hand-over with a   *)
(* timeout, a cancelled context, a repeated release or a removal leaks a     *)
(* lease or counts one twice (subpool.go:155-160, 193-196, 207-214).         *)
LeaseConservation == \A s \in Slot : inFlight[s] = Cardinality(Owners(s))

(* No account struct is leased to more than MaxInFlight callers, however it  *)
(* came to them: scan, hand-over by a release, or hand-over by a timer while *)
(* the previous lease is still out (manager.go:30, subpool.go:260-261).      *)
ExclusiveLease == \A s \in Slot : Cardinality(Owners(s)) <= MaxInFlight

(* The channel of a queued waiter is empty, so w.ch <- acc, executed with    *)
(* sp.mu held, never blocks the whole pool (subpool.go:187, 272).            *)
SendNeverBlocks == \A i \in 1 .. Len(waiters) : chan[waiters[i]] = NoSlot

(* A caller that waits and is no longer queued has a lease in its channel:   *)
(* popping the queue never drops a waiter empty-handed, and nothing else     *)
(* removes one that has not given up (subpool.go:178-190, 262-275).          *)
NoWaiterDropped ==
  \A c \in Caller : pc[c] = "waiting" /\ c \notin Range(waiters)
                      => chan[c] # NoSlot

(* After the receipt of a lease the deferred cancel() finds a done waiter    *)
(* that is out of the queue and an empty channel (manager.go:228, 237-243).  *)
(* Every queued waiter, in turn, is live.                                    *)
WaiterProtocol ==
  /\ \A i \in 1 .. Len(waiters) :
       pc[waiters[i]] \in {"waiting", "cancelling"} /\ ~done[waiters[i]]
  /\ \A c \in Caller : pc[c] \notin {"waiting", "cancelling"} =>
                         c \notin Range(waiters) /\ chan[c] = NoSlot

(* The invariant that is inductive: what the properties above need of the    *)
(* state between two steps.  A caller queues once, leases a real slot, and   *)
(* the counter of a slot respects the limit the scan and the timer test.     *)
QueuedOnce == IsInjective(waiters)

HoldersHold == \A c \in Caller : pc[c] \in {"leased", "aborting"} => held[c] \in Slot

InFlightBounded == \A s \in Slot : inFlight[s] <= MaxInFlight

ProtocolInv == /\ QueuedOnce
               /\ HoldersHold
               /\ SendNeverBlocks
               /\ NoWaiterDropped
               /\ WaiterProtocol

LeaseInv == TypeOK /\ ProtocolInv /\ InFlightBounded /\ LeaseConservation

(* A rate-limited account that is still in the pool has a timer on its way   *)
(* (or is about to get it from LoadFromRepository), until Close: stopping    *)
(* and replacing timers never leaves a cooldown nobody ends (subpool.go:224- *)
(* 236, 258; manager.go:170-197).                                            *)
CooldownHasTimer ==
  ~closed => \A s \in Pooled : status[s] = "rate_limited" =>
               \/ \E t \in Timer : timer[t] # IdleTimer /\ timer[t].id = IdOf[s]
               \/ \E l \in loading : IdOf[l.slot] = IdOf[s]

(* A caller only ever comes to own an account that is ready and in the pool  *)
(* at that moment: never one that was removed, signed out or rate-limited    *)
(* while it was leased (subpool.go:177, scheduler.go:74).                    *)
OnlyReadyGranted ==
  [][\A c \in Caller, s \in Slot :
       (~Owns(c, s) /\ Owns(c, s)') => status'[s] = "ready" /\ byID'[IdOf[s]] = s]_vars

(* A signed-out account never becomes ready again by a timer that was in     *)
(* flight or by a lazy recovery, only by an administrator adding it anew     *)
(* (subpool.go:245, 284-297).                                                *)
SignedOutIsSticky ==
  [][\A s \in Slot : status[s] = "signed_out" /\ status'[s] = "ready" =>
       \E id \in AccountID : AddAccount(id, "ready", NoTime)]_vars

(* The claim of TestChallenge_RateLimitOverwrite_StaleTimerDoesNotRecover-   *)
(* Prematurely (adversarial_challenge2_test.go:146-149): overwriting a       *)
(* cooldown, the earlier timer does not end it before its time.              *)
NoPrematureRecovery ==
  [][\A s \in Slot :
       status[s] = "rate_limited" /\ status'[s] = "ready" =>
          \/ pausedUntil[s] <= now
          \/ \E id \in AccountID : AddAccount(id, "ready", NoTime)]_vars

(* Every cooldown ends: an account does not stay rate-limited in the pool    *)
(* forever, whatever marks, removals, reloads and recoveries its timers are  *)
(* stopped, replaced or overtaken by (subpool.go:218-282).                   *)
CooldownEnds ==
  \A s \in Slot : (s \in Pooled /\ status[s] = "rate_limited" /\ ~closed)
                    ~> ~(s \in Pooled /\ status[s] = "rate_limited" /\ ~closed)

NothingToWaitFor == \A s \in Pooled : status[s] \notin {"ready", "rate_limited"}

(* A waiter that never gives up gets a lease, or all accounts are signed out, *)
(* in error or gone: no order of returns, marks, sign-outs, removals and      *)
(* timers, stale ones included, leaves it beside an account it could have     *)
(* (subpool.go:10, 178-190, 262-275).  Leases have to be returned, and         *)
(* cooldowns to be ended by their timers, not by a scan, a statistics call or *)
(* an account added anew: those wake nobody.                                 *)
WaiterServed ==
  \A c \in Caller : (pc[c] = "waiting") ~> (pc[c] # "waiting" \/ NothingToWaitFor)

(* "LeaseAccountWait acquires an available account, waiting up to waitTimeout *)
(* if currently busy" (manager.go:254): a call that waits is not left beside   *)
(* an account that is ready and has room for another lease.                   *)
Idle(s) == s \in Pooled /\ status[s] = "ready" /\ inFlight[s] < MaxInFlight

WaitsOnlyWhileBusy ==
  \A c \in Caller, s \in Slot :
    (pc[c] = "waiting" /\ Idle(s)) ~> ~(pc[c] = "waiting" /\ Idle(s))
=============================================================================
