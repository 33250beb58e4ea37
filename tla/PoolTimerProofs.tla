--------------------------- MODULE PoolTimerProofs ---------------------------
(***************************************************************************)
(* Proofs about the cooldowns of SubPool and their timers, for every value  *)
(* of the constants.                                                       *)
(***************************************************************************)
EXTENDS SubPoolIndexProofs

-----------------------------------------------------------------------------
(* Signed out. *)

LEMMA SignedOutStaysOut ==
  ASSUME TypeOK, [Next]_vars, NEW s \in Slot,
         status[s] = "signed_out", status'[s] = "ready"
  PROVE  \E id \in AccountID : AddAccount(id, "ready", NoTime)
<1>1. ASSUME LazyRecover PROVE FALSE
  BY <1>1 DEF LazyRecover, Elapsed
<1>2. ASSUME UNCHANGED status PROVE FALSE
  BY <1>2
<1>3. ASSUME LeaseNext PROVE FALSE
  BY <1>1, <1>2, <1>3
  DEF LeaseNext, LeaseAccount, EnqueueWaiter, LeaseFails, Receive, AbortLease, GiveUp, Cancel,
      Release, healthVars, vars
<1>4. ASSUME CooldownNext PROVE FALSE
  BY <1>2, <1>4
  DEF CooldownNext, MarkRateLimited, TimerFires, RecoverAccount, RecoveryDue, RecoverySkipped,
      Tick, healthVars, TypeOK
<1>5. ASSUME LoadNext PROVE FALSE
  BY <1>2, <1>5
  DEF LoadNext, LoadRateLimited, AddAccountLocked, ReadLoaded, ScheduleFutureRateLimit,
      healthVars, TypeOK
<1>6. CASE AdminNext
  <2>1. ASSUME NEW id \in AccountID, NEW st \in Status, NEW until \in Time \cup {NoTime},
               AddAccount(id, st, until)
        PROVE  \E x \in AccountID : AddAccount(x, "ready", NoTime)
    <3>1. st = "ready"
      BY <2>1 DEF AddAccount, AddAccountLocked, TypeOK
    <3>2. until = NoTime
      BY <2>1, <3>1 DEF AddAccount
    <3> QED
      BY <2>1, <3>1, <3>2
  <2>2. ASSUME NEW id \in AccountID, RemoveAccount(id) \/ MarkSignedOut(id) PROVE FALSE
    BY <1>2, <2>2 DEF RemoveAccount, MarkSignedOut, TypeOK
  <2>3. ASSUME GetPoolStats \/ Close PROVE FALSE
    BY <1>1, <1>2, <2>3 DEF GetPoolStats, Close
  <2> QED
    BY <1>6, <2>1, <2>2, <2>3 DEF AdminNext
<1>7. ASSUME UNCHANGED vars PROVE FALSE
  BY <1>2, <1>7 DEF vars, healthVars
<1> QED
  BY <1>3, <1>4, <1>5, <1>6, <1>7 DEF Next

(* A signed-out account becomes ready by being added anew and in no other way: *)
(* neither a timer that is on its way nor a lazy recovery revives it           *)
(* (subpool.go:245, 284-297).                                               *)
THEOREM SignOutSticks == Spec => SignedOutIsSticky
<1> DEFINE Sticky ==
      \A s \in Slot : status[s] = "signed_out" /\ status'[s] = "ready" =>
        \E id \in AccountID : AddAccount(id, "ready", NoTime)
<1>1. TypeOK /\ [Next]_vars => [Sticky]_vars
  BY SignedOutStaysOut
<1> QED
  BY <1>1, TypeCorrect, PTL DEF Spec, SignedOutIsSticky

-----------------------------------------------------------------------------
(* Timers. *)

(* A slot's timer that is still to run is for the slot's account, and a timer  *)
(* that has fired is due.                                                   *)
TimerKeyed ==
  \A s \in Slot, t \in Timer :
    cooldownTimer[s] = t /\ timer[t] # IdleTimer => timer[t].id = IdOf[s]

FiredIsDue == \A t \in Timer : timer[t].state = "fired" => now >= timer[t].expiry

(* LoadFromRepository is busy with one account at a time.                    *)
OneLoad == \A k, l \in loading : k = l

(* A timer for the account of slot s is on its way, or the loader will arm one: *)
(* it has read the cooldown, or it is going to read the one s has.             *)
Covered(s) ==
  \/ \E t \in Timer : timer[t] # IdleTimer /\ timer[t].id = IdOf[s]
  \/ \E l \in loading : /\ IdOf[l.slot] = IdOf[s]
                        /\ \/ l.expiry # NoTime
                           \/ l.slot = s /\ pausedUntil[s] > 0

Cooling(s) == s \in Pooled /\ status[s] = "rate_limited"

(* CooldownHasTimer, strengthened: a load that is still to read the cooldown of *)
(* an account only counts if that read will not turn the account down.         *)
CoolingCovered == ~closed => \A s \in Pooled : Cooling(s) => Covered(s)

(* The inductive invariant behind CooldownHasTimer. *)
TimerInv == /\ TypeOK
            /\ IndexInv
            /\ TimerKeyed
            /\ FiredIsDue
            /\ OneLoad
            /\ CoolingCovered

(* A step leaves the cooldown of slot s as it is. *)
StaysCooling(s) == Cooling(s) /\ pausedUntil'[s] = pausedUntil[s]

LEMMA PooledIndexed ==
  ASSUME TypeOK, IndexInv, NEW s \in Pooled
  PROVE  s \in Slot /\ IdOf[s] \in AccountID /\ byID[IdOf[s]] = s
<1>1. PICK i \in 1 .. Len(accounts) : accounts[i] = s
  BY LenProperties DEF Pooled, Range, TypeOK
<1> QED
  BY <1>1, ListOfSlots DEF IndexInv, ListIndexed

LEMMA CoolingIsCovered ==
  ASSUME TimerInv, ~closed, NEW s, Cooling(s)
  PROVE  Covered(s)
BY DEF TimerInv, CoolingCovered, Cooling

LEMMA CoveredSuffices ==
  ASSUME ~closed' => \A s : Cooling(s)' => Covered(s)'
  PROVE  CoolingCovered'
BY DEF CoolingCovered

(* Stopping the timers of other accounts leaves the account's timer alone. *)
LEMMA StopKeepsOthers ==
  ASSUME TimerKeyed, NEW S \in SUBSET Slot, NEW t \in Timer,
         timer[t] # IdleTimer, \A s \in S : IdOf[s] # timer[t].id
  PROVE  StopTimers(S)[t] = timer[t]
BY DEF StopTimers, TimerKeyed

LEMMA StopGives ==
  ASSUME NEW S, NEW t \in Timer
  PROVE  StopTimers(S)[t] \in {timer[t], IdleTimer}
BY DEF StopTimers

LEMMA ArmKeepsOthers ==
  ASSUME NEW s \in Slot, NEW expiry,
         NEW stopped \in [Timer -> PendingTimer \cup {IdleTimer}],
         ArmTimer(s, stopped, expiry)
  PROVE  /\ \A t \in Timer : stopped[t] # IdleTimer => timer'[t] = stopped[t]
         /\ \E t \in Timer : timer'[t] # IdleTimer /\ timer'[t].id = IdOf[s]
<1>1. PICK t \in Timer :
        /\ stopped[t] = IdleTimer
        /\ timer' = [stopped EXCEPT
                       ![t] = [state |-> "armed", id |-> IdOf[s], expiry |-> expiry]]
  BY DEF ArmTimer
<1>2. timer'[t] = [state |-> "armed", id |-> IdOf[s], expiry |-> expiry]
  BY <1>1
<1>3. timer'[t].state = "armed" /\ timer'[t].id = IdOf[s]
  BY <1>2
<1>4. timer'[t] # IdleTimer
  BY <1>3 DEF IdleTimer
<1> QED
  BY <1>1, <1>3, <1>4

(* Arming a timer keeps the timers keyed: nobody else refers to the new one. *)
LEMMA ArmKeepsKeyed ==
  ASSUME TypeOK, TimerKeyed, NEW s \in Slot, NEW expiry, NEW S,
         ArmTimer(s, StopTimers(S), expiry) \/ ArmTimer(s, timer, expiry)
  PROVE  TimerKeyed'
<1>1. PICK t \in Timer, stopped \in [Timer -> PendingTimer \cup {IdleTimer}] :
        /\ \A u \in Timer : stopped[u] \in {timer[u], IdleTimer}
        /\ \A p \in Slot \ {s} : cooldownTimer[p] # t
        /\ timer' = [stopped EXCEPT
                       ![t] = [state |-> "armed", id |-> IdOf[s], expiry |-> expiry]]
        /\ cooldownTimer' = [cooldownTimer EXCEPT ![s] = t]
  <2>1. CASE ArmTimer(s, StopTimers(S), expiry)
    BY <2>1, StopTimersType, StopGives DEF ArmTimer
  <2>2. CASE ArmTimer(s, timer, expiry)
    BY <2>2 DEF ArmTimer, TypeOK
  <2> QED
    BY <2>1, <2>2
<1>2. timer'[t].id = IdOf[s] /\ \A u \in Timer \ {t} : timer'[u] \in {timer[u], IdleTimer}
  <2>1. timer'[t] = [state |-> "armed", id |-> IdOf[s], expiry |-> expiry]
    BY <1>1
  <2> QED
    BY <1>1, <2>1
<1>3. cooldownTimer'[s] = t /\ \A p \in Slot \ {s} : cooldownTimer'[p] = cooldownTimer[p]
  BY <1>1 DEF TypeOK
<1> SUFFICES ASSUME NEW p \in Slot, NEW u \in Timer,
                    cooldownTimer'[p] = u, timer'[u] # IdleTimer
             PROVE  timer'[u].id = IdOf[p]
  BY DEF TimerKeyed
<1>4. CASE p = s
  BY <1>2, <1>3, <1>4
<1>5. CASE p # s
  <2>1. u # t /\ cooldownTimer[p] = u
    BY <1>1, <1>3, <1>5
  <2>2. timer'[u] = timer[u]
    BY <1>2, <2>1
  <2> QED
    BY <2>1, <2>2 DEF TimerKeyed
<1> QED
  BY <1>4, <1>5

(* Timers that are only stopped, and slots that only forget theirs. *)
LEMMA StoppingKeepsKeyed ==
  ASSUME TimerKeyed,
         \A t \in Timer : timer'[t] \in {timer[t], IdleTimer},
         \A s \in Slot : cooldownTimer'[s] \in {cooldownTimer[s], NoTimer}
  PROVE  TimerKeyed'
BY ConstantsAssumption DEF TimerKeyed

(* A timer that fires is due, and what has been due stays so. *)
LEMMA DueStays ==
  ASSUME TypeOK, FiredIsDue, now' \in Time, now' >= now,
         \A t \in Timer : timer'[t].state = "fired" => timer'[t] = timer[t]
  PROVE  FiredIsDue'
<1> SUFFICES ASSUME NEW t \in Timer, timer'[t].state = "fired"
             PROVE  now' >= timer'[t].expiry
  BY DEF FiredIsDue
<1>1. timer[t].state = "fired" /\ timer'[t] = timer[t] /\ now >= timer[t].expiry
  BY DEF FiredIsDue
<1>2. timer[t] \in PendingTimer
  BY <1>1 DEF TypeOK, IdleTimer
<1>3. timer[t].expiry \in Time
  BY <1>2 DEF PendingTimer
<1> QED
  BY <1>1, <1>3 DEF TypeOK, Time

-----------------------------------------------------------------------------
(* The steps. *)

LEMMA PooledIndexedNext ==
  ASSUME TypeOK', IndexInv', NEW s, s \in Pooled'
  PROVE  s \in Slot /\ IdOf[s] \in AccountID /\ byID'[IdOf[s]] = s
<1>1. PICK i \in 1 .. Len(accounts') : accounts'[i] = s
  BY LenProperties DEF Pooled, Range, TypeOK
<1>2. s \in Slot
  BY <1>1, LenProperties DEF TypeOK
<1> QED
  BY <1>1, <1>2, ConstantsAssumption DEF IndexInv, ListIndexed

(* What the steps that stop timers have in common: S are the slots that are    *)
(* not cooling afterwards.                                                  *)
LEMMA StoppingStep ==
  ASSUME TimerInv, NEW S \in SUBSET Slot, timer' = StopTimers(S),
         \A s \in Slot : cooldownTimer'[s] \in {cooldownTimer[s], NoTimer},
         closed' = closed, loading' = loading, now' = now,
         \A s : Cooling(s)' => StaysCooling(s) /\ \A p \in S : IdOf[p] # IdOf[s]
  PROVE  TimerKeyed' /\ FiredIsDue' /\ CoolingCovered'
<1>1. \A t \in Timer : timer'[t] \in {timer[t], IdleTimer}
  BY StopGives
<1>2. TimerKeyed'
  BY <1>1, StoppingKeepsKeyed DEF TimerInv
<1>3. FiredIsDue'
  <2>1. now' \in Time /\ now' >= now
    BY DEF TimerInv, TypeOK, Time
  <2>2. \A t \in Timer : timer'[t].state = "fired" => timer'[t] = timer[t]
    BY <1>1 DEF IdleTimer
  <2> QED
    BY <2>1, <2>2, DueStays DEF TimerInv
<1>4. ASSUME ~closed', NEW s, Cooling(s)' PROVE Covered(s)'
  <2>1. /\ Covered(s) /\ \A p \in S : IdOf[p] # IdOf[s]
        /\ pausedUntil'[s] = pausedUntil[s]
    BY <1>4, CoolingIsCovered DEF StaysCooling
  <2>2. ASSUME NEW t \in Timer, timer[t] # IdleTimer, timer[t].id = IdOf[s]
        PROVE  timer'[t] = timer[t]
    BY <2>1, <2>2, StopKeepsOthers DEF TimerInv
  <2> QED
    BY <2>1, <2>2 DEF Covered
<1> QED
  BY <1>2, <1>3, <1>4, CoveredSuffices

(* The lazy recovery stops the timers of the accounts it makes ready. *)
LEMMA LazyRecoverStep ==
  ASSUME TimerInv, LazyRecover, UNCHANGED <<accounts, loading, closed, now>>
  PROVE  TimerKeyed' /\ FiredIsDue' /\ CoolingCovered'
<1> DEFINE due == {s \in Pooled : Elapsed(s)}
<1>1. \A s \in Pooled : s \in Slot /\ IdOf[s] \in AccountID /\ byID[IdOf[s]] = s
  BY PooledIndexed DEF TimerInv
<1>2. /\ timer' = StopTimers(due)
      /\ \A s \in Slot : cooldownTimer'[s] \in {cooldownTimer[s], NoTimer}
      /\ \A s \in Slot : status'[s] = IF s \in due THEN "ready" ELSE status[s]
      /\ \A s \in Slot : pausedUntil'[s] = IF s \in due THEN NoTime ELSE pausedUntil[s]
  BY DEF LazyRecover
<1>3. due \in SUBSET Slot
  BY <1>1
<1>4. \A p \in due : p \in Pooled
  OBVIOUS
<1> HIDE DEF due
<1>5. Pooled' = Pooled
  BY DEF Pooled
<1>6. ASSUME NEW s, Cooling(s)' PROVE StaysCooling(s) /\ \A p \in due : IdOf[p] # IdOf[s]
  <2>1. /\ s \in Pooled /\ s \notin due /\ status[s] = "rate_limited"
        /\ pausedUntil'[s] = pausedUntil[s]
    BY <1>1, <1>2, <1>5, <1>6 DEF Cooling
  <2>2. ASSUME NEW p \in due, IdOf[p] = IdOf[s] PROVE FALSE
    BY <1>1, <1>4, <2>1, <2>2
  <2> QED
    BY <2>1, <2>2 DEF StaysCooling, Cooling
<1> QED
  BY <1>2, <1>3, <1>6, StoppingStep

(* Adding or loading an account touches no timer but that of a new slot. *)
LEMMA AddStep ==
  ASSUME TimerInv, TypeOK', IndexInv',
         NEW id \in AccountID, NEW st, NEW until, AddAccountLocked(id, st, until),
         UNCHANGED <<timer, closed, now>>, \A l \in loading : l \in loading',
         st = "rate_limited" => until > 0 /\ \E l \in loading' : l.slot = byID'[id]
  PROVE  TimerKeyed' /\ FiredIsDue' /\ CoolingCovered'
<1>1. \A s \in Slot : cooldownTimer'[s] \in {cooldownTimer[s], NoTimer}
  BY DEF AddAccountLocked, TimerInv, TypeOK
<1>2. TimerKeyed' /\ FiredIsDue'
  BY <1>1, StoppingKeepsKeyed DEF TimerInv, FiredIsDue
<1>3. ASSUME NEW s, Cooling(s)' PROVE StaysCooling(s) \/ Covered(s)'
  <2>1. s \in Slot /\ IdOf[s] \in AccountID /\ byID'[IdOf[s]] = s
    BY <1>3, PooledIndexedNext DEF Cooling
  <2>2. CASE IdOf[s] = id
    <3>1. status'[s] = st /\ pausedUntil'[s] = until
      BY <2>1, <2>2 DEF AddAccountLocked, TimerInv, TypeOK
    <3>2. until > 0 /\ \E l \in loading' : l.slot = s
      BY <1>3, <2>1, <2>2, <3>1 DEF Cooling
    <3> QED
      BY <3>1, <3>2 DEF Covered
  <2>3. CASE IdOf[s] # id
    <3>1. CASE byID[id] # NoSlot
      <4>1. IdOf[byID[id]] = id
        BY <3>1 DEF TimerInv, IndexInv, IndexKeyed
      <4>2. /\ status'[s] = status[s] /\ pausedUntil'[s] = pausedUntil[s]
            /\ accounts' = accounts
        BY <2>1, <2>3, <3>1, <4>1 DEF AddAccountLocked, TimerInv, TypeOK
      <4> QED
        BY <1>3, <4>2 DEF StaysCooling, Cooling, Pooled
    <3>2. CASE byID[id] = NoSlot
      <4>1. PICK p \in Slot : /\ IdOf[p] = id
                              /\ accounts' = Append(accounts, p)
                              /\ status' = [status EXCEPT ![p] = st]
                              /\ pausedUntil' = [pausedUntil EXCEPT ![p] = until]
        BY <3>2 DEF AddAccountLocked
      <4>2. status'[s] = status[s] /\ pausedUntil'[s] = pausedUntil[s]
        BY <2>1, <2>3, <4>1 DEF TimerInv, TypeOK
      <4>3. Len(accounts) \in Nat /\ Len(accounts') = Len(accounts) + 1
            /\ \A i \in 1 .. Len(accounts) : accounts'[i] = accounts[i]
            /\ accounts'[Len(accounts) + 1] = p
        BY <4>1, AppendProperties, LenProperties DEF TimerInv, TypeOK
      <4>4. PICK i \in 1 .. Len(accounts') : accounts'[i] = s
        BY <1>3, LenProperties DEF Cooling, Pooled, Range, TypeOK
      <4>5. i \in 1 .. Len(accounts)
        BY <2>3, <4>1, <4>3, <4>4
      <4>6. s \in Pooled
        BY <4>3, <4>4, <4>5, LenProperties DEF Pooled, Range, TimerInv, TypeOK
      <4> QED
        BY <1>3, <4>2, <4>6 DEF StaysCooling, Cooling
    <3> QED
      BY <3>1, <3>2
  <2> QED
    BY <2>2, <2>3
<1>4. ASSUME ~closed', NEW s, Cooling(s)' PROVE Covered(s)'
  <2>1. CASE StaysCooling(s)
    <3>1. Covered(s) /\ pausedUntil'[s] = pausedUntil[s]
      BY <1>4, <2>1, CoolingIsCovered DEF StaysCooling
    <3> QED
      BY <3>1 DEF Covered
  <2> QED
    BY <1>3, <1>4, <2>1
<1> QED
  BY <1>2, <1>4, CoveredSuffices

(* Arming a timer for a slot's account guards it, and takes nothing from the   *)
(* others.                                                                 *)
LEMMA ArmingStep ==
  ASSUME TimerInv, NEW s \in Slot, NEW expiry \in Time, NEW S \in SUBSET {s},
         ArmTimer(s, StopTimers(S), expiry) \/ (S = {} /\ ArmTimer(s, timer, expiry)),
         closed' = closed, now' = now,
         \A p : Cooling(p)' /\ IdOf[p] # IdOf[s] => StaysCooling(p),
         \A l \in loading : l \notin loading' => IdOf[l.slot] = IdOf[s]
  PROVE  TimerKeyed' /\ FiredIsDue' /\ CoolingCovered'
<1>1. TimerKeyed'
  BY ArmKeepsKeyed DEF TimerInv
<1>2. PICK stopped \in [Timer -> PendingTimer \cup {IdleTimer}] :
        /\ ArmTimer(s, stopped, expiry)
        /\ \A t \in Timer : stopped[t] \in {timer[t], IdleTimer}
        /\ \A t \in Timer : timer[t] # IdleTimer /\ timer[t].id # IdOf[s]
                            => stopped[t] = timer[t]
  <2>1. CASE ArmTimer(s, StopTimers(S), expiry)
    <3>1. \A t \in Timer : timer[t] # IdleTimer /\ timer[t].id # IdOf[s]
                           => StopTimers(S)[t] = timer[t]
      BY StopKeepsOthers DEF TimerInv
    <3> QED
      BY <2>1, <3>1, StopTimersType, StopGives DEF TimerInv
  <2>2. CASE ArmTimer(s, timer, expiry)
    BY <2>2 DEF TimerInv, TypeOK
  <2> QED
    BY <2>1, <2>2
<1>3. /\ \A t \in Timer : stopped[t] # IdleTimer => timer'[t] = stopped[t]
      /\ \E t \in Timer : timer'[t] # IdleTimer /\ timer'[t].id = IdOf[s]
  BY <1>2, ArmKeepsOthers
<1>4. FiredIsDue'
  <2>1. now' \in Time /\ now' >= now
    BY DEF TimerInv, TypeOK, Time
  <2>2. ASSUME NEW t \in Timer, timer'[t].state = "fired" PROVE timer'[t] = timer[t]
    <3>1. CASE stopped[t] # IdleTimer
      BY <1>2, <1>3, <3>1
    <3>2. CASE stopped[t] = IdleTimer
      BY <1>2, <2>2, <3>2 DEF ArmTimer, IdleTimer
    <3> QED
      BY <3>1, <3>2
  <2> QED
    BY <2>1, <2>2, DueStays DEF TimerInv
<1>5. ASSUME ~closed', NEW p, Cooling(p)' PROVE Covered(p)'
  <2>1. CASE IdOf[p] = IdOf[s]
    BY <1>3, <2>1 DEF Covered
  <2>2. CASE IdOf[p] # IdOf[s]
    <3>1. Covered(p) /\ pausedUntil'[p] = pausedUntil[p]
      BY <1>5, <2>2, CoolingIsCovered DEF StaysCooling
    <3>2. ASSUME NEW t \in Timer, timer[t] # IdleTimer, timer[t].id = IdOf[p]
          PROVE  timer'[t] = timer[t]
      BY <1>2, <1>3, <2>2, <3>2
    <3> QED
      BY <2>2, <3>1, <3>2 DEF Covered
  <2> QED
    BY <2>1, <2>2
<1> QED
  BY <1>1, <1>4, <1>5, CoveredSuffices

LEMMA MarkStep ==
  ASSUME TimerInv, NEW id \in AccountID, NEW d \in Durations, MarkRateLimited(id, d)
  PROVE  TimerKeyed' /\ FiredIsDue' /\ CoolingCovered'
<1> DEFINE s == byID[id]
<1>1. s \in Slot /\ IdOf[s] = id
  BY DEF MarkRateLimited, TimerInv, TypeOK, IndexInv, IndexKeyed
<1>2. /\ now + d \in Time
      /\ status' = [status EXCEPT ![s] = "rate_limited"]
      /\ pausedUntil' = [pausedUntil EXCEPT ![s] = now + d]
      /\ ArmTimer(s, StopTimers({s}), now + d)
      /\ UNCHANGED <<accounts, loading, closed, now>>
  BY DEF MarkRateLimited, poolVars
<1>3. \A p \in Pooled : p \in Slot
  BY PooledIndexed DEF TimerInv
<1> HIDE DEF s
<1>4. ASSUME NEW p, Cooling(p)', IdOf[p] # IdOf[s] PROVE StaysCooling(p)
  <2>1. p \in Pooled /\ p \in Slot /\ p # s
    BY <1>2, <1>3, <1>4 DEF Cooling, Pooled
  <2> QED
    BY <1>2, <1>4, <2>1 DEF StaysCooling, Cooling, TimerInv, TypeOK
<1> QED
  BY <1>1, <1>2, <1>4, ArmingStep

(* The loader reads the cooldown of the account it has added.  It turns the    *)
(* account down only if that is not cooling, or was not to be waited for.      *)
LEMMA ReadStep ==
  ASSUME TimerInv, NEW l \in loading, ReadLoaded(l)
  PROVE  TimerKeyed' /\ FiredIsDue' /\ CoolingCovered'
<1>1. UNCHANGED <<accounts, status, pausedUntil, timer, cooldownTimer, closed, now>>
  BY DEF ReadLoaded, poolVars, healthVars
<1>2. l.slot \in Slot /\ l.expiry = NoTime /\ \A k \in loading : k = l
  BY DEF TimerInv, TypeOK, LoadEntry, OneLoad, ReadLoaded
<1>3. TimerKeyed' /\ FiredIsDue'
  BY <1>1 DEF TimerInv, TimerKeyed, FiredIsDue
<1>4. ASSUME ~closed', NEW s, Cooling(s)' PROVE Covered(s)'
  <2>1. Cooling(s) /\ Covered(s)
    BY <1>1, <1>4, CoolingIsCovered DEF Cooling, Pooled
  <2>2. CASE \E t \in Timer : timer[t] # IdleTimer /\ timer[t].id = IdOf[s]
    BY <1>1, <2>2 DEF Covered
  <2>3. CASE l.slot = s /\ pausedUntil[s] > 0
    <3>1. loading' = {[slot |-> l.slot, expiry |-> pausedUntil[l.slot]]}
      BY <2>1, <2>3 DEF ReadLoaded, Cooling
    <3>2. pausedUntil[s] # NoTime
      BY <2>3 DEF NoTime
    <3> QED
      BY <2>3, <3>1, <3>2 DEF Covered
  <2> QED
    BY <1>2, <2>1, <2>2, <2>3 DEF Covered
<1> QED
  BY <1>3, <1>4, CoveredSuffices

LEMMA ScheduleStep ==
  ASSUME TimerInv, NEW l \in loading, ScheduleFutureRateLimit(l)
  PROVE  TimerKeyed' /\ FiredIsDue' /\ CoolingCovered'
<1> DEFINE s == byID[IdOf[l.slot]]
<1>1. IdOf[l.slot] \in AccountID /\ l.expiry \in Time /\ \A k \in loading : k = l
  BY ConstantsAssumption
  DEF TimerInv, TypeOK, LoadEntry, OneLoad, ScheduleFutureRateLimit
<1>2. \A p : Cooling(p)' => StaysCooling(p)
  BY DEF ScheduleFutureRateLimit, StaysCooling, Cooling, Pooled, poolVars
<1>3. closed' = closed /\ now' = now
  BY DEF ScheduleFutureRateLimit
<1>4. CASE s # NoSlot /\ status[s] = "rate_limited"
  <2>1. s \in Slot /\ IdOf[s] = IdOf[l.slot]
    BY <1>1, <1>4 DEF TimerInv, TypeOK, IndexInv, IndexKeyed
  <2>2. ArmTimer(s, timer, l.expiry)
    BY <1>4 DEF ScheduleFutureRateLimit
  <2>3. \A k \in loading : IdOf[k.slot] = IdOf[s]
    BY <1>1, <2>1
  <2> HIDE DEF s
  <2>4. {} \in SUBSET {s}
    OBVIOUS
  <2> QED
    BY <1>1, <1>2, <1>3, <2>1, <2>2, <2>3, <2>4, ArmingStep
<1>5. CASE ~(s # NoSlot /\ status[s] = "rate_limited")
  <2>1. UNCHANGED <<timer, cooldownTimer>>
    BY <1>5 DEF ScheduleFutureRateLimit
  <2>2. TimerKeyed' /\ FiredIsDue'
    BY <1>3, <2>1 DEF TimerInv, TimerKeyed, FiredIsDue
  <2>3. ASSUME ~closed', NEW p, Cooling(p)' PROVE Covered(p)'
    <3>1. Cooling(p) /\ Covered(p)
      BY <1>2, <1>3, <2>3, CoolingIsCovered DEF StaysCooling
    <3>2. byID[IdOf[p]] = p /\ p # NoSlot /\ status[p] = "rate_limited"
      BY <3>1, PooledIndexed, ConstantsAssumption DEF Cooling, TimerInv
    <3>3. IdOf[p] # IdOf[l.slot]
      BY <1>5, <3>2
    <3> QED
      BY <1>1, <2>1, <3>1, <3>3 DEF Covered
  <2> QED
    BY <2>2, <2>3, CoveredSuffices
<1> QED
  BY <1>4, <1>5

LEMMA FireStep ==
  ASSUME TimerInv, NEW t \in Timer, TimerFires(t)
  PROVE  TimerKeyed' /\ FiredIsDue' /\ CoolingCovered'
<1>1. timer[t] \in PendingTimer /\ timer[t].state = "armed"
  BY DEF TimerFires, TimerInv, TypeOK, IdleTimer
<1>2. /\ timer'[t] = [timer[t] EXCEPT !.state = "fired"]
      /\ \A u \in Timer \ {t} : timer'[u] = timer[u]
      /\ UNCHANGED <<accounts, status, pausedUntil, cooldownTimer, loading, closed, now>>
  BY DEF TimerFires, TimerInv, TypeOK, poolVars, healthVars
<1>3. /\ timer'[t].id = timer[t].id /\ timer'[t].expiry = timer[t].expiry
      /\ timer'[t].state = "fired"
  BY <1>1, <1>2 DEF PendingTimer
<1>4. timer[t] # IdleTimer /\ timer'[t] # IdleTimer
  BY <1>1, <1>3 DEF IdleTimer
<1>5. TimerKeyed'
  <2> SUFFICES ASSUME NEW s \in Slot, NEW u \in Timer,
                      cooldownTimer'[s] = u, timer'[u] # IdleTimer
               PROVE  timer'[u].id = IdOf[s]
    BY DEF TimerKeyed
  <2>1. timer[u] # IdleTimer /\ timer'[u].id = timer[u].id
    BY <1>2, <1>3, <1>4
  <2> QED
    BY <1>2, <2>1 DEF TimerInv, TimerKeyed
<1>6. FiredIsDue'
  BY <1>2, <1>3 DEF TimerInv, FiredIsDue, TimerFires
<1>7. ASSUME ~closed', NEW p, Cooling(p)' PROVE Covered(p)'
  <2>1. Covered(p)
    BY <1>2, <1>7, CoolingIsCovered DEF Cooling, Pooled
  <2> QED
    BY <1>2, <1>3, <1>4, <2>1 DEF Covered
<1> QED
  BY <1>5, <1>6, <1>7, CoveredSuffices

(* A timer runs: it is gone, and its account is not cooling any more.        *)
LEMMA RunStep ==
  ASSUME TimerInv, NEW t \in Timer, timer' = [timer EXCEPT ![t] = IdleTimer],
         \A s \in Slot : cooldownTimer'[s] \in {cooldownTimer[s], NoTimer},
         closed' = closed, loading' = loading, now' = now,
         \A s : Cooling(s)' => StaysCooling(s) /\ IdOf[s] # timer[t].id
  PROVE  TimerKeyed' /\ FiredIsDue' /\ CoolingCovered'
<1>1. timer'[t] = IdleTimer /\ \A u \in Timer \ {t} : timer'[u] = timer[u]
  BY DEF TimerInv, TypeOK
<1>2. \A u \in Timer : timer'[u] \in {timer[u], IdleTimer}
  BY <1>1
<1>3. TimerKeyed'
  BY <1>2, StoppingKeepsKeyed DEF TimerInv
<1>4. FiredIsDue'
  <2>1. now' \in Time /\ now' >= now
    BY DEF TimerInv, TypeOK, Time
  <2>2. \A u \in Timer : timer'[u].state = "fired" => timer'[u] = timer[u]
    BY <1>2 DEF IdleTimer
  <2> QED
    BY <2>1, <2>2, DueStays DEF TimerInv
<1>5. ASSUME ~closed', NEW s, Cooling(s)' PROVE Covered(s)'
  <2>1. /\ Covered(s) /\ IdOf[s] # timer[t].id
        /\ pausedUntil'[s] = pausedUntil[s]
    BY <1>5, CoolingIsCovered DEF StaysCooling
  <2> QED
    BY <1>1, <2>1 DEF Covered
<1> QED
  BY <1>3, <1>4, <1>5, CoveredSuffices

LEMMA RecoverStep ==
  ASSUME TimerInv, NEW t \in Timer, RecoverAccount(t) \/ RecoverySkipped(t)
  PROVE  TimerKeyed' /\ FiredIsDue' /\ CoolingCovered'
<1> DEFINE id == timer[t].id
           s  == byID[id]
<1>1. timer[t] \in PendingTimer /\ timer[t].state = "fired"
  BY DEF RecoverAccount, RecoverySkipped, TimerInv, TypeOK, IdleTimer
<1>2. id \in AccountID
  BY <1>1 DEF PendingTimer
<1>3. \A p \in Pooled : p \in Slot /\ byID[IdOf[p]] = p
  BY PooledIndexed DEF TimerInv
<1>4. /\ timer' = [timer EXCEPT ![t] = IdleTimer]
      /\ UNCHANGED <<accounts, loading, closed, now>>
  BY DEF RecoverAccount, RecoverySkipped, poolVars
<1>5. CASE RecoverAccount(t)
  <2>1. /\ status' = [status EXCEPT ![s] = "ready"]
        /\ pausedUntil' = [pausedUntil EXCEPT ![s] = NoTime]
        /\ cooldownTimer' = [cooldownTimer EXCEPT ![s] = NoTimer]
    BY <1>5 DEF RecoverAccount
  <2> HIDE DEF s
  <2>2. \A p \in Slot : cooldownTimer'[p] \in {cooldownTimer[p], NoTimer}
    BY <2>1 DEF TimerInv, TypeOK
  <2>3. ASSUME NEW p, Cooling(p)' PROVE StaysCooling(p) /\ IdOf[p] # id
    <3>1. p \in Pooled /\ p \in Slot /\ byID[IdOf[p]] = p
      BY <1>3, <1>4, <2>3 DEF Cooling, Pooled
    <3>2. p # s
      BY <2>1, <2>3, <3>1 DEF Cooling, TimerInv, TypeOK
    <3>3. status'[p] = status[p] /\ pausedUntil'[p] = pausedUntil[p]
      BY <2>1, <3>1, <3>2 DEF TimerInv, TypeOK
    <3> QED
      BY <2>3, <3>1, <3>2, <3>3 DEF StaysCooling, Cooling, s
  <2> HIDE DEF id
  <2> QED
    BY <1>4, <2>2, <2>3, RunStep DEF id
<1>6. CASE RecoverySkipped(t)
  <2>1. UNCHANGED <<status, pausedUntil, cooldownTimer>> /\ ~RecoveryDue(t)
    BY <1>6 DEF RecoverySkipped, healthVars
  <2>2. now >= timer[t].expiry
    BY <1>1 DEF TimerInv, FiredIsDue
  <2>3. s = NoSlot \/ status[s] # "rate_limited"
    BY <2>1, <2>2 DEF RecoveryDue
  <2>4. ASSUME NEW p, Cooling(p)' PROVE StaysCooling(p) /\ IdOf[p] # id
    <3>1. StaysCooling(p) /\ Cooling(p) /\ p \in Slot /\ byID[IdOf[p]] = p
      BY <1>3, <1>4, <2>1, <2>4 DEF StaysCooling, Cooling, Pooled
    <3> QED
      BY <2>3, <3>1, ConstantsAssumption DEF Cooling
  <2> QED
    BY <1>4, <2>1, <2>4, RunStep
<1> QED
  BY <1>5, <1>6

LEMMA TickStep ==
  ASSUME TimerInv, TypeOK', Tick
  PROVE  TimerKeyed' /\ FiredIsDue' /\ CoolingCovered'
<1>1. UNCHANGED <<accounts, status, pausedUntil, timer, cooldownTimer, closed, loading>>
  BY DEF Tick, poolVars, healthVars
<1>2. now' \in Time /\ now' >= now
  BY DEF Tick, TimerInv, TypeOK, Time
<1>3. FiredIsDue'
  BY <1>1, <1>2, DueStays DEF TimerInv
<1> QED
  BY <1>1, <1>3 DEF TimerInv, TimerKeyed, CoolingCovered, Cooling, Covered, Pooled

LEMMA SignOutStep ==
  ASSUME TimerInv, NEW id \in AccountID, MarkSignedOut(id)
  PROVE  TimerKeyed' /\ FiredIsDue' /\ CoolingCovered'
<1> DEFINE s == byID[id]
<1>1. s \in Slot /\ IdOf[s] = id
  BY DEF MarkSignedOut, TimerInv, TypeOK, IndexInv, IndexKeyed
<1>2. /\ timer' = StopTimers({s})
      /\ cooldownTimer' = [cooldownTimer EXCEPT ![s] = NoTimer]
      /\ status' = [status EXCEPT ![s] = "signed_out"]
      /\ pausedUntil' = [pausedUntil EXCEPT ![s] = NoTime]
      /\ UNCHANGED <<accounts, loading, closed, now>>
  BY DEF MarkSignedOut, poolVars
<1>3. \A p \in Pooled : p \in Slot /\ byID[IdOf[p]] = p
  BY PooledIndexed DEF TimerInv
<1>4. ASSUME NEW p, Cooling(p)' PROVE StaysCooling(p) /\ IdOf[p] # id
  <2>1. p \in Pooled /\ p \in Slot /\ byID[IdOf[p]] = p
    BY <1>2, <1>3, <1>4 DEF Cooling, Pooled
  <2>2. p # s
    BY <1>1, <1>2, <1>4 DEF Cooling, TimerInv, TypeOK
  <2>3. status'[p] = status[p] /\ pausedUntil'[p] = pausedUntil[p]
    BY <1>2, <2>1, <2>2 DEF TimerInv, TypeOK
  <2> QED
    BY <1>4, <2>1, <2>2, <2>3 DEF StaysCooling, Cooling
<1> HIDE DEF s
<1>5. {s} \in SUBSET Slot /\ \A p \in {s} : IdOf[p] = id
  BY <1>1
<1>6. \A p \in Slot : cooldownTimer'[p] \in {cooldownTimer[p], NoTimer}
  BY <1>2 DEF TimerInv, TypeOK
<1> QED
  BY <1>2, <1>4, <1>5, <1>6, StoppingStep

(* A removed account has left the index, so that none of its ID is pooled.    *)
LEMMA RemoveStep ==
  ASSUME TimerInv, TypeOK', IndexInv', NEW id \in AccountID, RemoveAccount(id)
  PROVE  TimerKeyed' /\ FiredIsDue' /\ CoolingCovered'
<1> DEFINE s == byID[id]
<1>1. s \in Slot /\ IdOf[s] = id
  BY DEF RemoveAccount, TimerInv, TypeOK, IndexInv, IndexKeyed
<1>2. /\ timer' = StopTimers({s})
      /\ cooldownTimer' = [cooldownTimer EXCEPT ![s] = NoTimer]
      /\ byID' = [byID EXCEPT ![id] = NoSlot]
      /\ accounts' = WithoutID(accounts, id)
      /\ UNCHANGED <<status, pausedUntil, loading, closed, now>>
  BY DEF RemoveAccount
<1>3. byID'[id] = NoSlot
  BY <1>2 DEF TimerInv, TypeOK
<1>4. Pooled' \subseteq Pooled
  <2>1. CASE accounts' = accounts
    BY <2>1 DEF Pooled
  <2>2. ASSUME NEW i \in 1 .. Len(accounts), accounts' = RemoveAt(accounts, i)
        PROVE  Pooled' \subseteq Pooled
    <3>1. /\ Len(accounts) \in Nat /\ DOMAIN accounts = 1 .. Len(accounts)
          /\ DOMAIN accounts' = 1 .. Len(accounts')
      BY LenProperties DEF TimerInv, TypeOK
    <3>2. /\ Len(accounts') = Len(accounts) - 1
          /\ \A j \in 1 .. Len(accounts) - 1 :
               accounts'[j] = IF j < i THEN accounts[j] ELSE accounts[j + 1]
      <4>1. accounts \in Seq(Slot)
        BY DEF TimerInv, TypeOK
      <4> QED
        BY <2>2, <4>1, RemoveAtType
    <3> SUFFICES ASSUME NEW j \in 1 .. Len(accounts') PROVE accounts'[j] \in Pooled
      BY <3>1 DEF Pooled, Range
    <3>3. accounts'[j] = accounts[j] \/ accounts'[j] = accounts[j + 1]
      BY <3>1, <3>2
    <3>4. j \in DOMAIN accounts /\ j + 1 \in DOMAIN accounts
      BY <3>1, <3>2
    <3> QED
      BY <3>3, <3>4 DEF Pooled, Range
  <2> QED
    BY <1>2, <2>1, <2>2, WithoutIDCases DEF TimerInv, TypeOK
<1>5. ASSUME NEW p, Cooling(p)' PROVE StaysCooling(p) /\ IdOf[p] # id
  <2>1. p \in Slot /\ byID'[IdOf[p]] = p
    BY <1>5, PooledIndexedNext DEF Cooling
  <2>2. IdOf[p] # id
    BY <1>3, <2>1, ConstantsAssumption
  <2> QED
    BY <1>2, <1>4, <1>5, <2>2 DEF StaysCooling, Cooling
<1> HIDE DEF s
<1>6. {s} \in SUBSET Slot /\ \A p \in {s} : IdOf[p] = id
  BY <1>1
<1>7. \A p \in Slot : cooldownTimer'[p] \in {cooldownTimer[p], NoTimer}
  BY <1>2 DEF TimerInv, TypeOK
<1> QED
  BY <1>2, <1>5, <1>6, <1>7, StoppingStep

(* Close leaves no cooldown to end. *)
LEMMA CloseStep ==
  ASSUME TimerInv, Close
  PROVE  TimerKeyed' /\ FiredIsDue' /\ CoolingCovered'
<1>1. /\ \A t \in Timer : timer'[t] \in {timer[t], IdleTimer}
      /\ \A s \in Slot : cooldownTimer'[s] \in {cooldownTimer[s], NoTimer}
  BY StopGives DEF Close
<1>2. now' \in Time /\ now' >= now
  BY DEF Close, TimerInv, TypeOK, Time
<1>3. \A t \in Timer : timer'[t].state = "fired" => timer'[t] = timer[t]
  BY <1>1 DEF IdleTimer
<1> QED
  BY <1>1, <1>2, <1>3, StoppingKeepsKeyed, DueStays DEF TimerInv, Close, CoolingCovered

(* The steps of the pool but an AddAccount that puts an account into it in the *)
(* middle of its cooldown, which arms no timer.                              *)
AddInHealth == \E id \in AccountID, st \in Status \ {"rate_limited"},
                  until \in Time \cup {NoTime} : AddAccount(id, st, until)

NextButAdd == \/ LeaseNext \/ CooldownNext \/ LoadNext
              \/ \E id \in AccountID : RemoveAccount(id) \/ MarkSignedOut(id)
              \/ GetPoolStats
              \/ Close

TimedNext == NextButAdd \/ AddInHealth

LEMMA TimedNextIsNext == TimedNext => Next
BY DEF TimedNext, NextButAdd, AddInHealth, Next, AdminNext

LEMMA OneLoadStep ==
  ASSUME OneLoad, [Next]_vars
  PROVE  OneLoad'
<1>1. CASE UNCHANGED loading
  BY <1>1 DEF OneLoad
<1>2. CASE LeaseNext
  BY <1>1, <1>2
  DEF LeaseNext, LeaseAccount, EnqueueWaiter, LeaseFails, Receive, AbortLease, GiveUp, Cancel,
      Release, vars
<1>3. CASE CooldownNext \/ AdminNext
  BY <1>1, <1>3
  DEF CooldownNext, MarkRateLimited, TimerFires, RecoverAccount, RecoverySkipped, Tick,
      AdminNext, AddAccount, RemoveAccount, MarkSignedOut, GetPoolStats, Close
<1>4. CASE LoadNext
  BY <1>4 DEF LoadNext, LoadRateLimited, ReadLoaded, ScheduleFutureRateLimit, OneLoad
<1>5. CASE UNCHANGED vars
  BY <1>1, <1>5 DEF vars
<1> QED
  BY <1>2, <1>3, <1>4, <1>5 DEF Next

LEMMA TimerStep ==
  ASSUME TimerInv, [TimedNext]_vars
  PROVE  TimerInv'
<1>1. TypeOK' /\ IndexInv' /\ OneLoad'
  BY TimedNextIsNext, TypeStep, IndexStep, OneLoadStep DEF TimerInv
<1>2. CASE UNCHANGED <<accounts, status, pausedUntil, timer, cooldownTimer, closed, loading,
                       now>>
  BY <1>1, <1>2
  DEF TimerInv, TimerKeyed, FiredIsDue, CoolingCovered, Cooling, Covered, Pooled
<1>3. CASE LeaseNext
  <2>1. CASE \E c \in Caller : LeaseAccount(c) \/ EnqueueWaiter(c) \/ LeaseFails(c)
    <3>1. LazyRecover /\ UNCHANGED <<accounts, loading, closed, now>>
      BY <2>1 DEF LeaseAccount, EnqueueWaiter, LeaseFails, poolVars
    <3> QED
      BY <1>1, <3>1, LazyRecoverStep DEF TimerInv
  <2>2. CASE \E c \in Caller :
               Receive(c) \/ AbortLease(c) \/ GiveUp(c) \/ Cancel(c) \/ Release(c)
    BY <1>2, <2>2
    DEF Receive, AbortLease, GiveUp, Cancel, Release, poolVars, healthVars, vars
  <2> QED
    BY <1>3, <2>1, <2>2 DEF LeaseNext
<1>4. CASE CooldownNext
  BY <1>1, <1>4, MarkStep, FireStep, RecoverStep, TickStep DEF CooldownNext, TimerInv
<1>5. CASE LoadNext
  <2>1. ASSUME NEW id \in AccountID, NEW until \in Time, LoadRateLimited(id, until)
        PROVE  TimerInv'
    <3>1. /\ AddAccountLocked(id, "rate_limited", until)
          /\ UNCHANGED <<timer, closed, now>>
          /\ loading = {} /\ until > 0
          /\ loading' = {[slot |-> byID'[id], expiry |-> NoTime]}
      BY <2>1 DEF LoadRateLimited
    <3>2. \E l \in loading' : l.slot = byID'[id]
      BY <3>1
    <3> QED
      BY <1>1, <3>1, <3>2, AddStep DEF TimerInv
  <2>2. ASSUME NEW l \in loading, ReadLoaded(l) PROVE TimerInv'
    BY <1>1, <2>2, ReadStep DEF TimerInv
  <2>3. ASSUME NEW l \in loading, ScheduleFutureRateLimit(l) PROVE TimerInv'
    BY <1>1, <2>3, ScheduleStep DEF TimerInv
  <2> QED
    BY <1>5, <2>1, <2>2, <2>3 DEF LoadNext
<1>6. CASE AddInHealth
  <2>1. PICK id \in AccountID, st \in Status \ {"rate_limited"},
             until \in Time \cup {NoTime} : AddAccount(id, st, until)
    BY <1>6 DEF AddInHealth
  <2>2. AddAccountLocked(id, st, until) /\ UNCHANGED <<timer, closed, now, loading>>
    BY <2>1 DEF AddAccount
  <2> QED
    BY <1>1, <2>2, AddStep DEF TimerInv
<1>7. CASE \E id \in AccountID : RemoveAccount(id) \/ MarkSignedOut(id)
  BY <1>1, <1>7, RemoveStep, SignOutStep DEF TimerInv
<1>8. CASE GetPoolStats
  <2>1. LazyRecover /\ UNCHANGED <<accounts, loading, closed, now>>
    BY <1>8 DEF GetPoolStats, poolVars
  <2> QED
    BY <1>1, <2>1, LazyRecoverStep DEF TimerInv
<1>9. CASE Close
  BY <1>1, <1>9, CloseStep DEF TimerInv
<1>10. CASE UNCHANGED vars
  BY <1>2, <1>10 DEF vars, poolVars, healthVars
<1> QED
  BY <1>3, <1>4, <1>5, <1>6, <1>7, <1>8, <1>9, <1>10 DEF TimedNext, NextButAdd

LEMMA TimerInvInit == Init => TimerInv
<1> SUFFICES ASSUME Init PROVE TimerInv
  OBVIOUS
<1>1. TypeOK /\ IndexInv
  BY TypeInit, IndexInit
<1>2. Pooled = {}
  BY DEF Init, Pooled, Range
<1>3. TimerKeyed /\ FiredIsDue /\ OneLoad /\ CoolingCovered
  BY <1>2 DEF Init, TimerKeyed, FiredIsDue, OneLoad, CoolingCovered, IdleTimer
<1> QED
  BY <1>1, <1>3 DEF TimerInv

LEMMA TimerInvSuffices == TimerInv => CooldownHasTimer
BY DEF TimerInv, CoolingCovered, Covered, Cooling, CooldownHasTimer

(* As long as only LoadFromRepository puts cooling accounts into the pool, each *)
(* of them has a timer on its way until Close: however often timers are        *)
(* stopped, replaced, overtaken or fire in vain, no cooldown is left behind     *)
(* (subpool.go:224-236, 250-258, manager.go:170-197).                         *)
THEOREM CooldownsHaveTimers ==
  "rate_limited" \notin AddStatuses => (Spec => []CooldownHasTimer)
<1> SUFFICES ASSUME "rate_limited" \notin AddStatuses PROVE Spec => []CooldownHasTimer
  OBVIOUS
<1>1. [Next]_vars => [TimedNext]_vars
  BY DEF Next, TimedNext, NextButAdd, AdminNext, AddInHealth, AddAccount
<1>2. TimerInv /\ [Next]_vars => TimerInv'
  BY <1>1, TimerStep
<1>3. TimerInv => CooldownHasTimer
  BY TimerInvSuffices
<1> QED
  BY <1>2, <1>3, TimerInvInit, PTL DEF Spec
=============================================================================
