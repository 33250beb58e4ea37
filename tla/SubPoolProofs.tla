---------------------------- MODULE SubPoolProofs ----------------------------
(***************************************************************************)
(* Proofs about SubPool, for every set of accounts, slots, callers and     *)
(* timers, every MaxInFlight, and every bound on the clock.                *)
(***************************************************************************)
EXTENDS SubPoolRefinement, FiniteSetTheorems, SequenceTheorems,
        WellFoundedInduction, TLAPS

-----------------------------------------------------------------------------
(* Sequences. *)

(* Removing a position of a sequence gives a sequence over the same set. *)
LEMMA RemoveAtType ==
  ASSUME NEW S, NEW q \in Seq(S), NEW i \in 1 .. Len(q)
  PROVE  /\ RemoveAt(q, i) \in Seq(S)
         /\ Len(RemoveAt(q, i)) = Len(q) - 1
         /\ \A j \in 1 .. Len(q) - 1 :
              RemoveAt(q, i)[j] = IF j < i THEN q[j] ELSE q[j + 1]
<1> DEFINE a == SubSeq(q, 1, i - 1)
           b == SubSeq(q, i + 1, Len(q))
<1>0. Len(q) \in Nat /\ \A j \in 1 .. Len(q) : q[j] \in S
  BY LenProperties
<1>1. a \in Seq(S) /\ Len(a) = i - 1 /\ \A j \in 1 .. i - 1 : a[j] = q[j]
  BY <1>0, SubSeqProperties
<1>2. /\ b \in Seq(S)
      /\ Len(b) = Len(q) - i
      /\ \A j \in 1 .. Len(q) - i : b[j] = q[i + j]
  <2>1. \A j \in i + 1 .. Len(q) : q[j] \in S
    BY <1>0
  <2>2. /\ b \in Seq(S)
        /\ Len(b) = IF i + 1 <= Len(q) THEN Len(q) - (i + 1) + 1 ELSE 0
        /\ \A j \in 1 .. Len(q) - (i + 1) + 1 : b[j] = q[(i + 1) + j - 1]
    BY <1>0, <2>1, SubSeqProperties
  <2> QED
    BY <1>0, <2>2
<1>3. RemoveAt(q, i) = a \o b
  BY DEF RemoveAt
<1> HIDE DEF a, b
<1>4. /\ a \o b \in Seq(S)
      /\ Len(a \o b) = Len(a) + Len(b)
      /\ \A j \in 1 .. Len(a) + Len(b) :
           (a \o b)[j] = IF j <= Len(a) THEN a[j] ELSE b[j - Len(a)]
  BY <1>1, <1>2, ConcatProperties
<1> QED
  BY <1>0, <1>1, <1>2, <1>3, <1>4

(* Min is an element of every set of naturals that is not empty. *)
LEMMA MinIsElement ==
  ASSUME NEW I \in SUBSET Nat, I # {}
  PROVE  Min(I) \in I
<1> DEFINE R == OpToRel(<, Nat)
<1>1. \A x, y \in Nat : <<y, x>> \in R <=> y < x
  BY DEF OpToRel
<1>2. IsWellFoundedOn(R, Nat)
  BY NatLessThanWellFounded
<1> HIDE DEF R
<1>3. PICK x \in I : \A y \in I : ~(<<y, x>> \in R)
  BY <1>2, WFMin
<1>4. ASSUME NEW y \in I PROVE x =< y
  <2>1. x \in Nat /\ y \in Nat
    OBVIOUS
  <2>2. ~(<<y, x>> \in R)
    BY <1>3
  <2>3. ~(y < x)
    BY <1>1, <2>1, <2>2
  <2> QED
    BY <2>1, <2>3
<1> QED
  BY <1>4 DEF Min

(* Leaving a queue removes one position that holds the caller, if any. *)
LEMMA RemoveFirstCases ==
  ASSUME NEW S, NEW q \in Seq(S), NEW c
  PROVE  \/ RemoveFirst(q, c) = q /\ c \notin Range(q)
         \/ \E i \in 1 .. Len(q) : q[i] = c /\ RemoveFirst(q, c) = RemoveAt(q, i)
<1> DEFINE I == {i \in 1 .. Len(q) : q[i] = c}
<1>1. Len(q) \in Nat /\ DOMAIN q = 1 .. Len(q)
  BY LenProperties
<1>2. CASE I = {}
  BY <1>1, <1>2 DEF RemoveFirst, Range
<1>3. CASE I # {}
  <2>1. Min(I) \in I
    <3>1. I \in SUBSET Nat
      OBVIOUS
    <3> HIDE DEF I
    <3> QED
      BY <3>1, <1>3, MinIsElement
  <2>2. RemoveFirst(q, c) = RemoveAt(q, Min(I))
    BY <1>3 DEF RemoveFirst, SelectInSeq
  <2> QED
    BY <2>1, <2>2
<1> QED
  BY <1>2, <1>3

LEMMA RemoveFirstType ==
  ASSUME NEW S, NEW q \in Seq(S), NEW c
  PROVE  RemoveFirst(q, c) \in Seq(S)
BY RemoveFirstCases, RemoveAtType

(* Removing an account removes one position of the slice, if it is there. *)
LEMMA WithoutIDCases ==
  ASSUME NEW q \in Seq(Slot), NEW id
  PROVE  \/ WithoutID(q, id) = q /\ \A i \in 1 .. Len(q) : IdOf[q[i]] # id
         \/ \E i \in 1 .. Len(q) : IdOf[q[i]] = id /\ WithoutID(q, id) = RemoveAt(q, i)
<1> DEFINE I == {i \in 1 .. Len(q) : IdOf[q[i]] = id}
<1>1. Len(q) \in Nat /\ DOMAIN q = 1 .. Len(q)
  BY LenProperties
<1>2. CASE I = {}
  BY <1>1, <1>2 DEF WithoutID, RemoveFirstMatch
<1>3. CASE I # {}
  <2>1. Min(I) \in I
    <3>1. I \in SUBSET Nat
      OBVIOUS
    <3> HIDE DEF I
    <3> QED
      BY <3>1, <1>3, MinIsElement
  <2>2. WithoutID(q, id) = RemoveAt(q, Min(I))
    BY <1>3 DEF WithoutID, RemoveFirstMatch, SelectInSeq
  <2> QED
    BY <2>1, <2>2
<1> QED
  BY <1>2, <1>3

LEMMA WithoutIDType ==
  ASSUME NEW q \in Seq(Slot), NEW id
  PROVE  WithoutID(q, id) \in Seq(Slot)
BY WithoutIDCases, RemoveAtType

(* What is left of a queue after the first k entries have been popped. *)
LEMMA SuffixType ==
  ASSUME NEW S, NEW q \in Seq(S), NEW k \in 1 .. Len(q)
  PROVE  /\ SubSeq(q, k + 1, Len(q)) \in Seq(S)
         /\ Len(SubSeq(q, k + 1, Len(q))) = Len(q) - k
         /\ \A j \in 1 .. Len(q) - k : SubSeq(q, k + 1, Len(q))[j] = q[k + j]
<1> DEFINE b == SubSeq(q, k + 1, Len(q))
<1>1. Len(q) \in Nat /\ \A j \in k + 1 .. Len(q) : q[j] \in S
  BY LenProperties
<1>2. /\ b \in Seq(S)
      /\ Len(b) = IF k + 1 <= Len(q) THEN Len(q) - (k + 1) + 1 ELSE 0
      /\ \A j \in 1 .. Len(q) - (k + 1) + 1 : b[j] = q[(k + 1) + j - 1]
  BY <1>1, SubSeqProperties
<1> QED
  BY <1>1, <1>2

-----------------------------------------------------------------------------
(* Type correctness. *)

LEMMA ReleaseLockedType ==
  ASSUME TypeOK, NEW s, NEW q \in Seq(Caller), NEW dn \in [Caller -> BOOLEAN],
         s \in Slot \cup {NoSlot}, NEW ch \in [Caller -> Slot \cup {NoSlot}],
         ReleaseLocked(s, q, dn, ch)
  PROVE  /\ waiters' \in Seq(Caller)
         /\ done' \in [Caller -> BOOLEAN]
         /\ chan' \in [Caller -> Slot \cup {NoSlot}]
         /\ inFlight' \in [Slot -> Nat]
<1>1. CASE HandOver(s, q, dn, ch) /\ UNCHANGED inFlight
  BY <1>1, SuffixType DEF HandOver, TypeOK
<1>2. CASE /\ waiters' = IF MayHandOver(s) THEN <<>> ELSE q
           /\ done' = dn
           /\ chan' = ch
           /\ inFlight' = [inFlight EXCEPT ![s] = IF @ > 0 THEN @ - 1 ELSE @]
  <2>1. \A p \in Slot : (IF inFlight[p] > 0 THEN inFlight[p] - 1 ELSE inFlight[p]) \in Nat
    BY DEF TypeOK
  <2>2. inFlight' \in [Slot -> Nat]
    BY <1>2, <2>1 DEF TypeOK
  <2> QED
    BY <1>2, <2>2
<1> QED
  BY <1>1, <1>2 DEF ReleaseLocked

LEMMA StopTimersType ==
  ASSUME TypeOK, NEW S
  PROVE  StopTimers(S) \in [Timer -> PendingTimer \cup {IdleTimer}]
BY DEF TypeOK, StopTimers

LEMMA ArmTimerType ==
  ASSUME TypeOK, NEW s \in Slot, NEW expiry \in Time,
         NEW stopped \in [Timer -> PendingTimer \cup {IdleTimer}],
         ArmTimer(s, stopped, expiry)
  PROVE  /\ timer' \in [Timer -> PendingTimer \cup {IdleTimer}]
         /\ cooldownTimer' \in [Slot -> Timer \cup {NoTimer}]
<1>1. IdOf[s] \in AccountID
  BY ConstantsAssumption
<1>2. [state |-> "armed", id |-> IdOf[s], expiry |-> expiry] \in PendingTimer
  BY <1>1 DEF PendingTimer
<1> QED
  BY <1>2 DEF ArmTimer, TypeOK

LEMMA LazyRecoverType ==
  ASSUME TypeOK, LazyRecover
  PROVE  /\ status' \in [Slot -> Status]
         /\ pausedUntil' \in [Slot -> Time \cup {NoTime}]
         /\ timer' \in [Timer -> PendingTimer \cup {IdleTimer}]
         /\ cooldownTimer' \in [Slot -> Timer \cup {NoTimer}]
BY StopTimersType DEF LazyRecover, TypeOK, Status

(* The index of a scan is an index of the slice, and the slot there a slot. *)
LEMMA ScanInRange ==
  ASSUME TypeOK, NEW i \in 0 .. Len(accounts) - 1
  PROVE  /\ ScanIndex(i) \in 0 .. Len(accounts) - 1
         /\ accounts[ScanIndex(i) + 1] \in Slot
         /\ (ScanIndex(i) + 1) % Len(accounts) \in Nat
         /\ (ScanIndex(i) + 1) % Len(accounts) < Len(accounts)
<1>1. Len(accounts) \in Nat \ {0} /\ \A j \in 1 .. Len(accounts) : accounts[j] \in Slot
  BY LenProperties DEF TypeOK
<1>2. ScanIndex(i) \in 0 .. Len(accounts) - 1
  BY <1>1 DEF ScanIndex, TypeOK
<1> QED
  BY <1>1, <1>2

LEMMA AddAccountLockedType ==
  ASSUME TypeOK, NEW id \in AccountID, NEW st \in Status,
         NEW until \in Time \cup {NoTime}, AddAccountLocked(id, st, until)
  PROVE  /\ accounts' \in Seq(Slot)
         /\ Len(accounts) \in Nat /\ Len(accounts') \in Nat
         /\ Len(accounts) <= Len(accounts')
         /\ byID' \in [AccountID -> Slot \cup {NoSlot}]
         /\ status' \in [Slot -> Status]
         /\ pausedUntil' \in [Slot -> Time \cup {NoTime}]
         /\ inFlight' \in [Slot -> Nat]
         /\ cooldownTimer' \in [Slot -> Timer \cup {NoTimer}]
<1>1. CASE byID[id] # NoSlot
  <2>1. accounts \in Seq(Slot) /\ accounts' = accounts
    BY <1>1 DEF AddAccountLocked, TypeOK
  <2>2. Len(accounts) \in Nat
    BY <2>1, LenProperties
  <2>3. /\ byID' = byID /\ inFlight' = inFlight /\ cooldownTimer' = cooldownTimer
        /\ status' = [status EXCEPT ![byID[id]] = st]
        /\ pausedUntil' = [pausedUntil EXCEPT ![byID[id]] = until]
    BY <1>1 DEF AddAccountLocked
  <2>4. /\ status' \in [Slot -> Status]
        /\ pausedUntil' \in [Slot -> Time \cup {NoTime}]
    BY <1>1, <2>3 DEF TypeOK
  <2> QED
    BY <2>1, <2>2, <2>3, <2>4 DEF TypeOK
<1>2. CASE byID[id] = NoSlot
  <2>1. PICK s \in Slot :
             /\ accounts' = Append(accounts, s)
             /\ byID' = [byID EXCEPT ![id] = s]
             /\ status' = [status EXCEPT ![s] = st]
             /\ pausedUntil' = [pausedUntil EXCEPT ![s] = until]
             /\ inFlight' = [inFlight EXCEPT ![s] = 0]
             /\ cooldownTimer' = [cooldownTimer EXCEPT ![s] = NoTimer]
    BY <1>2 DEF AddAccountLocked
  <2> QED
    BY <2>1, AppendProperties, LenProperties DEF TypeOK
<1> QED
  BY <1>1, <1>2

LEMMA LeaseActionsType ==
  ASSUME TypeOK, NEW c \in Caller
  PROVE  /\ LeaseAccount(c) => TypeOK'
         /\ EnqueueWaiter(c) => TypeOK'
         /\ LeaseFails(c) => TypeOK'
         /\ Receive(c) => TypeOK'
         /\ AbortLease(c) => TypeOK'
         /\ GiveUp(c) => TypeOK'
         /\ Cancel(c) => TypeOK'
         /\ Release(c) => TypeOK'
<1>1. ASSUME LeaseAccount(c) PROVE TypeOK'
  <2>1. PICK i \in 0 .. Len(accounts) - 1 :
             LET s == accounts[ScanIndex(i) + 1] IN
               /\ inFlight' = [inFlight EXCEPT ![s] = @ + 1]
               /\ rrCursor' = (ScanIndex(i) + 1) % Len(accounts)
               /\ held' = [held EXCEPT ![c] = s]
    BY <1>1 DEF LeaseAccount
  <2>2. /\ rrCursor' \in Nat /\ rrCursor' < Len(accounts)
        /\ inFlight' \in [Slot -> Nat]
        /\ held' \in [Caller -> Slot \cup {NoSlot}]
    <3> DEFINE s == accounts[ScanIndex(i) + 1]
    <3>1. /\ s \in Slot
          /\ (ScanIndex(i) + 1) % Len(accounts) \in Nat
          /\ (ScanIndex(i) + 1) % Len(accounts) < Len(accounts)
      BY ScanInRange
    <3>2. /\ inFlight' = [inFlight EXCEPT ![s] = @ + 1]
          /\ rrCursor' = (ScanIndex(i) + 1) % Len(accounts)
          /\ held' = [held EXCEPT ![c] = s]
      BY <2>1
    <3> HIDE DEF s
    <3> QED
      BY <3>1, <3>2 DEF TypeOK
  <2> QED
    BY <1>1, <2>2, LazyRecoverType DEF LeaseAccount, TypeOK, waitVars
<1>2. ASSUME EnqueueWaiter(c) PROVE TypeOK'
  <2>1. waiters' \in Seq(Caller)
    BY <1>2, AppendProperties DEF EnqueueWaiter, TypeOK
  <2> QED
    BY <1>2, <2>1, LazyRecoverType DEF EnqueueWaiter, TypeOK, poolVars
<1>3. ASSUME LeaseFails(c) PROVE TypeOK'
  BY <1>3, LazyRecoverType DEF LeaseFails, TypeOK, poolVars, waitVars
<1>4. ASSUME Receive(c) PROVE TypeOK'
  BY <1>4 DEF Receive, TypeOK, poolVars, healthVars
<1>5. ASSUME AbortLease(c) PROVE TypeOK'
  <2>1. ReleaseLocked(held[c], waiters, done, chan)
    BY <1>5 DEF AbortLease
  <2>2. /\ waiters' \in Seq(Caller)
        /\ done' \in [Caller -> BOOLEAN]
        /\ chan' \in [Caller -> Slot \cup {NoSlot}]
        /\ inFlight' \in [Slot -> Nat]
    BY <2>1, ReleaseLockedType DEF TypeOK
  <2> QED
    BY <1>5, <2>2 DEF AbortLease, TypeOK, poolVars, healthVars
<1>6. ASSUME GiveUp(c) PROVE TypeOK'
  BY <1>6 DEF GiveUp, TypeOK, poolVars, healthVars, waitVars
<1>7. ASSUME Cancel(c) PROVE TypeOK'
  <2> DEFINE q  == RemoveFirst(waiters, c)
             dn == [done EXCEPT ![c] = TRUE]
             ch == [chan EXCEPT ![c] = NoSlot]
  <2>1. q \in Seq(Caller)
    BY RemoveFirstType DEF TypeOK
  <2>2. dn \in [Caller -> BOOLEAN] /\ ch \in [Caller -> Slot \cup {NoSlot}]
    BY DEF TypeOK
  <2>3. \/ ReleaseLocked(chan[c], q, dn, ch)
        \/ waiters' = q /\ done' = dn /\ UNCHANGED <<chan, inFlight>>
    BY <1>7 DEF Cancel
  <2> HIDE DEF q, dn, ch
  <2>4. /\ waiters' \in Seq(Caller)
        /\ done' \in [Caller -> BOOLEAN]
        /\ chan' \in [Caller -> Slot \cup {NoSlot}]
        /\ inFlight' \in [Slot -> Nat]
    <3>1. CASE ReleaseLocked(chan[c], q, dn, ch)
      BY <2>1, <2>2, <3>1, ReleaseLockedType DEF TypeOK
    <3>2. CASE waiters' = q /\ done' = dn /\ UNCHANGED <<chan, inFlight>>
      BY <2>1, <2>2, <3>2 DEF TypeOK
    <3> QED
      BY <2>3, <3>1, <3>2
  <2> QED
    BY <1>7, <2>4 DEF Cancel, TypeOK, poolVars, healthVars
<1>8. ASSUME Release(c) PROVE TypeOK'
  <2>1. CASE /\ ReleaseLocked(held[c], waiters, done, chan)
             /\ pc' = [pc EXCEPT ![c] = "returned"]
             /\ UNCHANGED <<poolVars, healthVars, held, timer, loading, closed, now>>
    <3>1. /\ waiters' \in Seq(Caller)
          /\ done' \in [Caller -> BOOLEAN]
          /\ chan' \in [Caller -> Slot \cup {NoSlot}]
          /\ inFlight' \in [Slot -> Nat]
      BY <2>1, ReleaseLockedType DEF TypeOK
    <3> QED
      BY <2>1, <3>1 DEF TypeOK, poolVars, healthVars
  <2>2. CASE UNCHANGED vars
    BY <2>2 DEF TypeOK, vars, poolVars, healthVars, callerVars, waitVars
  <2> QED
    BY <1>8, <2>1, <2>2 DEF Release
<1> QED
  BY <1>1, <1>2, <1>3, <1>4, <1>5, <1>6, <1>7, <1>8

LEMMA CooldownActionsType ==
  ASSUME TypeOK, CooldownNext
  PROVE  TypeOK'
<1>1. ASSUME NEW id \in AccountID, NEW d \in Durations, MarkRateLimited(id, d)
      PROVE  TypeOK'
  <2>1. byID[id] \in Slot /\ now + d \in Time
    BY <1>1 DEF MarkRateLimited, TypeOK
  <2>2. StopTimers({byID[id]}) \in [Timer -> PendingTimer \cup {IdleTimer}]
    BY StopTimersType
  <2>3. ArmTimer(byID[id], StopTimers({byID[id]}), now + d)
    BY <1>1 DEF MarkRateLimited
  <2>4. /\ timer' \in [Timer -> PendingTimer \cup {IdleTimer}]
        /\ cooldownTimer' \in [Slot -> Timer \cup {NoTimer}]
    BY <2>1, <2>2, <2>3, ArmTimerType
  <2> QED
    BY <1>1, <2>1, <2>4
    DEF MarkRateLimited, TypeOK, poolVars, callerVars, waitVars, Status
<1>2. ASSUME NEW t \in Timer, TimerFires(t) PROVE TypeOK'
  <2>1. timer[t] \in PendingTimer
    BY <1>2 DEF TimerFires, TypeOK, IdleTimer
  <2>2. [timer[t] EXCEPT !.state = "fired"] \in PendingTimer
    BY <2>1 DEF PendingTimer
  <2>3. timer' \in [Timer -> PendingTimer \cup {IdleTimer}]
    BY <1>2, <2>2 DEF TimerFires, TypeOK
  <2> QED
    BY <1>2, <2>3 DEF TimerFires, TypeOK, poolVars, healthVars, callerVars, waitVars
<1>3. ASSUME NEW t \in Timer, RecoverAccount(t) PROVE TypeOK'
  <2> DEFINE s == byID[timer[t].id]
  <2>1. /\ waiters' \in Seq(Caller)
        /\ done' \in [Caller -> BOOLEAN]
        /\ chan' \in [Caller -> Slot \cup {NoSlot}]
        /\ inFlight' \in [Slot -> Nat]
    <3>0. timer[t] \in PendingTimer /\ s \in Slot
      BY <1>3 DEF RecoverAccount, RecoveryDue, TypeOK, IdleTimer, PendingTimer
    <3>1. CASE HandOver(s, waiters, done, chan)
               /\ inFlight' = [inFlight EXCEPT ![s] = @ + 1]
      BY <3>0, <3>1, SuffixType DEF HandOver, TypeOK
    <3>2. CASE waiters' = <<>> /\ UNCHANGED <<done, chan, inFlight>>
      BY <3>2 DEF TypeOK
    <3>3. CASE UNCHANGED <<waitVars, inFlight>>
      BY <3>3 DEF TypeOK, waitVars
    <3> QED
      BY <1>3, <3>1, <3>2, <3>3 DEF RecoverAccount
  <2> QED
    BY <1>3, <2>1 DEF RecoverAccount, TypeOK, poolVars, callerVars, Status
<1>4. ASSUME NEW t \in Timer, RecoverySkipped(t) PROVE TypeOK'
  BY <1>4 DEF RecoverySkipped, TypeOK, poolVars, healthVars, callerVars, waitVars
<1>5. ASSUME Tick PROVE TypeOK'
  <2>1. now' \in Time
    BY <1>5, ConstantsAssumption DEF Tick, TypeOK, Time
  <2> QED
    BY <1>5, <2>1 DEF Tick, TypeOK, poolVars, healthVars, callerVars, waitVars
<1> QED
  BY <1>1, <1>2, <1>3, <1>4, <1>5 DEF CooldownNext

LEMMA LoadActionsType ==
  ASSUME TypeOK, LoadNext
  PROVE  TypeOK'
<1>1. ASSUME NEW id \in AccountID, NEW until \in Time, LoadRateLimited(id, until)
      PROVE  TypeOK'
  <2>1. AddAccountLocked(id, "rate_limited", until) /\ "rate_limited" \in Status
    BY <1>1 DEF LoadRateLimited, Status
  <2>2. /\ accounts' \in Seq(Slot)
        /\ Len(accounts) \in Nat /\ Len(accounts') \in Nat
        /\ Len(accounts) <= Len(accounts')
        /\ byID' \in [AccountID -> Slot \cup {NoSlot}]
        /\ status' \in [Slot -> Status]
        /\ pausedUntil' \in [Slot -> Time \cup {NoTime}]
        /\ inFlight' \in [Slot -> Nat]
        /\ cooldownTimer' \in [Slot -> Timer \cup {NoTimer}]
    BY <2>1, AddAccountLockedType
  <2>3. byID'[id] \in Slot
    BY <2>1, ConstantsAssumption DEF AddAccountLocked, TypeOK
  <2>4. loading' \subseteq LoadEntry
    BY <1>1, <2>3 DEF LoadRateLimited, LoadEntry
  <2> QED
    BY <1>1, <2>2, <2>4 DEF LoadRateLimited, TypeOK, callerVars, waitVars
<1>2. ASSUME NEW l \in loading, ReadLoaded(l) PROVE TypeOK'
  <2>1. l \in LoadEntry /\ l.slot \in Slot
    BY DEF TypeOK, LoadEntry
  <2>2. ASSUME pausedUntil[l.slot] > 0 PROVE pausedUntil[l.slot] \in Time \cup {NoTime}
    BY <2>1 DEF TypeOK
  <2>3. loading' \subseteq LoadEntry
    BY <1>2, <2>1, <2>2 DEF ReadLoaded, LoadEntry
  <2> QED
    BY <1>2, <2>3
    DEF ReadLoaded, TypeOK, poolVars, healthVars, callerVars, waitVars
<1>3. ASSUME NEW l \in loading, ScheduleFutureRateLimit(l) PROVE TypeOK'
  <2> DEFINE s == byID[IdOf[l.slot]]
  <2>1. l.slot \in Slot /\ IdOf[l.slot] \in AccountID /\ l.expiry \in Time
    BY <1>3, ConstantsAssumption DEF TypeOK, LoadEntry, ScheduleFutureRateLimit
  <2>2. /\ timer' \in [Timer -> PendingTimer \cup {IdleTimer}]
        /\ cooldownTimer' \in [Slot -> Timer \cup {NoTimer}]
    <3>1. CASE s # NoSlot /\ status[s] = "rate_limited"
      <4>1. s \in Slot
        BY <2>1, <3>1 DEF TypeOK
      <4>2. ArmTimer(s, timer, l.expiry)
        BY <1>3, <3>1 DEF ScheduleFutureRateLimit
      <4> QED
        BY <2>1, <4>1, <4>2, ArmTimerType DEF TypeOK
    <3>2. CASE ~(s # NoSlot /\ status[s] = "rate_limited")
      BY <1>3, <3>2 DEF ScheduleFutureRateLimit, TypeOK
    <3> QED
      BY <3>1, <3>2
  <2> QED
    BY <1>3, <2>2
    DEF ScheduleFutureRateLimit, TypeOK, poolVars, callerVars, waitVars
<1> QED
  BY <1>1, <1>2, <1>3 DEF LoadNext

LEMMA AdminActionsType ==
  ASSUME TypeOK, AdminNext
  PROVE  TypeOK'
<1>1. ASSUME NEW id \in AccountID, NEW st \in Status, NEW until \in Time \cup {NoTime},
             AddAccount(id, st, until)
      PROVE  TypeOK'
  <2>1. AddAccountLocked(id, st, until)
    BY <1>1 DEF AddAccount
  <2>2. /\ accounts' \in Seq(Slot)
        /\ Len(accounts) \in Nat /\ Len(accounts') \in Nat
        /\ Len(accounts) <= Len(accounts')
        /\ byID' \in [AccountID -> Slot \cup {NoSlot}]
        /\ status' \in [Slot -> Status]
        /\ pausedUntil' \in [Slot -> Time \cup {NoTime}]
        /\ inFlight' \in [Slot -> Nat]
        /\ cooldownTimer' \in [Slot -> Timer \cup {NoTimer}]
    BY <2>1, AddAccountLockedType
  <2> QED
    BY <1>1, <2>2 DEF AddAccount, TypeOK, callerVars, waitVars
<1>2. ASSUME NEW id \in AccountID, RemoveAccount(id) PROVE TypeOK'
  <2>1. accounts' \in Seq(Slot)
    BY <1>2, WithoutIDType DEF RemoveAccount, TypeOK
  <2>2. timer' \in [Timer -> PendingTimer \cup {IdleTimer}]
    BY <1>2, StopTimersType DEF RemoveAccount
  <2>3. rrCursor' \in Nat /\ (rrCursor' = 0 \/ rrCursor' < Len(accounts'))
    BY <1>2, <2>1, LenProperties DEF RemoveAccount, TypeOK
  <2> QED
    BY <1>2, <2>1, <2>2, <2>3 DEF RemoveAccount, TypeOK, callerVars, waitVars
<1>3. ASSUME NEW id \in AccountID, MarkSignedOut(id) PROVE TypeOK'
  <2>1. timer' \in [Timer -> PendingTimer \cup {IdleTimer}]
    BY <1>3, StopTimersType DEF MarkSignedOut
  <2> QED
    BY <1>3, <2>1 DEF MarkSignedOut, TypeOK, poolVars, callerVars, waitVars, Status
<1>4. ASSUME GetPoolStats PROVE TypeOK'
  BY <1>4, LazyRecoverType DEF GetPoolStats, TypeOK, poolVars, callerVars, waitVars
<1>5. ASSUME Close PROVE TypeOK'
  BY <1>5, StopTimersType DEF Close, TypeOK, poolVars, callerVars, waitVars
<1> QED
  BY <1>1, <1>2, <1>3, <1>4, <1>5 DEF AdminNext

LEMMA TypeStep == TypeOK /\ [Next]_vars => TypeOK'
<1> SUFFICES ASSUME TypeOK, [Next]_vars PROVE TypeOK'
  OBVIOUS
<1>1. CASE LeaseNext
  BY <1>1, LeaseActionsType DEF LeaseNext
<1>2. CASE CooldownNext \/ LoadNext \/ AdminNext
  BY <1>2, CooldownActionsType, LoadActionsType, AdminActionsType
<1>3. CASE UNCHANGED vars
  BY <1>3 DEF TypeOK, vars, poolVars, healthVars, callerVars, waitVars
<1> QED
  BY <1>1, <1>2, <1>3 DEF Next

LEMMA TypeInit == Init => TypeOK
<1> SUFFICES ASSUME Init PROVE TypeOK
  OBVIOUS
<1>1. now \in Time /\ pausedUntil \in [Slot -> Time \cup {NoTime}]
  BY ConstantsAssumption DEF Init, Time
<1>2. accounts \in Seq(Slot) /\ waiters \in Seq(Caller)
  BY EmptySeq DEF Init
<1>3. loading \subseteq LoadEntry
  BY DEF Init
<1>4. /\ byID \in [AccountID -> Slot \cup {NoSlot}]
      /\ cooldownTimer \in [Slot -> Timer \cup {NoTimer}]
      /\ timer \in [Timer -> PendingTimer \cup {IdleTimer}]
      /\ held \in [Caller -> Slot \cup {NoSlot}]
      /\ chan \in [Caller -> Slot \cup {NoSlot}]
      /\ status \in [Slot -> Status]
      /\ inFlight \in [Slot -> Nat]
  BY DEF Init, Status
<1>5. /\ done \in [Caller -> BOOLEAN]
      /\ closed \in BOOLEAN
      /\ rrCursor \in Nat /\ rrCursor = 0
      /\ pc \in [Caller -> {"idle", "waiting", "cancelling", "aborting", "leased",
                            "returned"}]
  BY DEF Init
<1> QED
  BY <1>1, <1>2, <1>3, <1>4, <1>5 DEF TypeOK

(* The state of the pool has its types in every reachable state. *)
THEOREM TypeCorrect == Spec => []TypeOK
<1> QED
  BY TypeInit, TypeStep, PTL DEF Spec

-----------------------------------------------------------------------------
(* What a step does to the leases.  Every step has one of four effects; the *)
(* counters follow the leases through each of them.                         *)

GrantEffect(c, s) ==
  /\ c \notin Owners(s)
  /\ inFlight[s] < MaxInFlight
  /\ inFlight' = [inFlight EXCEPT ![s] = @ + 1]
  /\ \A p \in Slot : Owners(p)' = IF p = s THEN Owners(s) \cup {c} ELSE Owners(p)

ReturnEffect(c, s) ==
  /\ c \in Owners(s)
  /\ inFlight' = [inFlight EXCEPT ![s] = IF @ > 0 THEN @ - 1 ELSE @]
  /\ \A p \in Slot : Owners(p)' = IF p = s THEN Owners(s) \ {c} ELSE Owners(p)

TransferEffect(c, w, s) ==
  /\ c \in Owners(s)
  /\ w \notin Owners(s)
  /\ inFlight' = inFlight
  /\ \A p \in Slot :
       Owners(p)' = IF p = s THEN (Owners(s) \ {c}) \cup {w} ELSE Owners(p)

NoEffect ==
  /\ \A p \in Slot : Owners(p)' = Owners(p)
  /\ \A p \in Slot : inFlight'[p] = inFlight[p] \/ (Owners(p) = {} /\ inFlight'[p] = 0)

LEMMA OwnersFinite ==
  ASSUME NEW s
  PROVE  IsFiniteSet(Owners(s)) /\ Cardinality(Owners(s)) \in Nat
<1>1. Owners(s) \in SUBSET Caller
  BY DEF Owners
<1>2. IsFiniteSet(Owners(s))
  BY <1>1, FS_Subset, ConstantsAssumption
<1> QED
  BY <1>2, FS_CardinalityType

(* The counters stay equal to the number of leases, and within the limit. *)
LEMMA EffectsKeepCount ==
  ASSUME TypeOK, InFlightBounded, LeaseConservation,
         \/ \E c \in Caller, s \in Slot : GrantEffect(c, s)
         \/ \E c \in Caller, s \in Slot : ReturnEffect(c, s)
         \/ \E c, w \in Caller, s \in Slot : TransferEffect(c, w, s)
         \/ NoEffect
  PROVE  InFlightBounded' /\ LeaseConservation'
<1>0. /\ MaxInFlight \in Nat \ {0}
      /\ \A p \in Slot : inFlight[p] \in Nat /\ inFlight[p] <= MaxInFlight
      /\ \A p \in Slot : inFlight[p] = Cardinality(Owners(p))
  BY ConstantsAssumption DEF TypeOK, InFlightBounded, LeaseConservation
<1>1. ASSUME NEW c \in Caller, NEW s \in Slot, GrantEffect(c, s)
      PROVE  InFlightBounded' /\ LeaseConservation'
  <2>1. Cardinality(Owners(s) \cup {c}) = Cardinality(Owners(s)) + 1
    BY <1>1, OwnersFinite, FS_AddElement DEF GrantEffect
  <2>2. \A p \in Slot : /\ inFlight'[p] = IF p = s THEN inFlight[p] + 1 ELSE inFlight[p]
                        /\ inFlight'[p] = Cardinality(Owners(p)')
    BY <1>0, <1>1, <2>1 DEF GrantEffect, TypeOK
  <2>3. inFlight[s] < MaxInFlight
    BY <1>1 DEF GrantEffect
  <2> QED
    BY <1>0, <2>2, <2>3 DEF InFlightBounded, LeaseConservation
<1>2. ASSUME NEW c \in Caller, NEW s \in Slot, ReturnEffect(c, s)
      PROVE  InFlightBounded' /\ LeaseConservation'
  <2>1. Cardinality(Owners(s) \ {c}) = Cardinality(Owners(s)) - 1
    BY <1>2, OwnersFinite, FS_RemoveElement DEF ReturnEffect
  <2>2. Cardinality(Owners(s) \ {c}) \in Nat
    BY OwnersFinite, FS_RemoveElement, FS_CardinalityType
  <2>3. inFlight[s] > 0
    BY <1>0, <2>1, <2>2
  <2>4. \A p \in Slot : /\ inFlight'[p] = IF p = s THEN inFlight[p] - 1 ELSE inFlight[p]
                        /\ inFlight'[p] = Cardinality(Owners(p)')
    BY <1>0, <1>2, <2>1, <2>3 DEF ReturnEffect, TypeOK
  <2> QED
    BY <1>0, <2>4 DEF InFlightBounded, LeaseConservation
<1>3. ASSUME NEW c \in Caller, NEW w \in Caller, NEW s \in Slot, TransferEffect(c, w, s)
      PROVE  InFlightBounded' /\ LeaseConservation'
  <2>1. /\ IsFiniteSet(Owners(s) \ {c})
        /\ Cardinality(Owners(s) \ {c}) = Cardinality(Owners(s)) - 1
    BY <1>3, OwnersFinite, FS_RemoveElement DEF TransferEffect
  <2>2. Cardinality((Owners(s) \ {c}) \cup {w}) = Cardinality(Owners(s) \ {c}) + 1
    BY <1>3, <2>1, FS_AddElement DEF TransferEffect
  <2>3. Cardinality((Owners(s) \ {c}) \cup {w}) = Cardinality(Owners(s))
    BY <2>1, <2>2, OwnersFinite
  <2>4. \A p \in Slot : inFlight'[p] = Cardinality(Owners(p)')
    BY <1>0, <1>3, <2>3 DEF TransferEffect
  <2> QED
    BY <1>0, <1>3, <2>4 DEF InFlightBounded, LeaseConservation, TransferEffect
<1>4. ASSUME NoEffect PROVE InFlightBounded' /\ LeaseConservation'
  <2>1. Cardinality({}) = 0
    BY FS_EmptySet
  <2>2. \A p \in Slot : inFlight'[p] = Cardinality(Owners(p)') /\ inFlight'[p] <= MaxInFlight
    BY <1>0, <1>4, <2>1 DEF NoEffect
  <2> QED
    BY <2>2 DEF InFlightBounded, LeaseConservation
<1> QED
  BY <1>1, <1>2, <1>3, <1>4

-----------------------------------------------------------------------------
(* The protocol of callers and waiters. *)

LEMMA QueueRange ==
  ASSUME NEW S, NEW q \in Seq(S)
  PROVE  Range(q) = {q[i] : i \in 1 .. Len(q)} /\ Len(q) \in Nat
BY LenProperties DEF Range

(* A caller that is neither waiting nor cancelling is not in the queue and *)
(* has an empty channel; if it also leases nothing it owns nothing.        *)
LEMMA NotWaiting ==
  ASSUME TypeOK, ProtocolInv, NEW c \in Caller, pc[c] \notin {"waiting", "cancelling"}
  PROVE  /\ c \notin Range(waiters)
         /\ chan[c] = NoSlot
         /\ \A i \in 1 .. Len(waiters) : waiters[i] # c
         /\ \A s \in Slot : Owns(c, s) => pc[c] \in {"leased", "aborting"} /\ held[c] = s
BY QueueRange, ConstantsAssumption DEF TypeOK, ProtocolInv, WaiterProtocol, Owns

LEMMA QueueOfCallers ==
  ASSUME TypeOK
  PROVE  /\ Len(waiters) \in Nat
         /\ \A i \in 1 .. Len(waiters) : waiters[i] \in Caller
         /\ Range(waiters) = {waiters[i] : i \in 1 .. Len(waiters)}
<1>1. waiters \in Seq(Caller)
  BY DEF TypeOK
<1> QED
  BY <1>1, QueueRange, LenProperties

(* A caller that has been served is out of the queue. *)
LEMMA ServedNotQueued ==
  ASSUME TypeOK, ProtocolInv, NEW c \in Caller, chan[c] # NoSlot
  PROVE  c \notin Range(waiters)
BY QueueOfCallers DEF ProtocolInv, SendNeverBlocks

(* Steps that touch neither callers nor channels keep the protocol. *)
LEMMA ProtocolFrame ==
  ASSUME ProtocolInv, UNCHANGED <<callerVars, waitVars>>
  PROVE  ProtocolInv' /\ \A s \in Slot : Owners(s)' = Owners(s)
BY DEF ProtocolInv, QueuedOnce, HoldersHold, SendNeverBlocks, NoWaiterDropped,
       WaiterProtocol, Owners, Owns, callerVars, waitVars

(* Every waiter in the queue is live, so a hand-over serves the first. *)
LEMMA HandOverToHead ==
  ASSUME TypeOK, NEW s, NEW dn, NEW ch, HandOver(s, waiters, dn, ch),
         \A i \in 1 .. Len(waiters) : ~dn[waiters[i]]
  PROVE  /\ waiters # <<>>
         /\ 1 \in 1 .. Len(waiters)
         /\ waiters[1] \in Caller
         /\ Head(waiters) = waiters[1]
         /\ waiters' = Tail(waiters)
         /\ Len(waiters') = Len(waiters) - 1
         /\ \A i \in 1 .. Len(waiters) - 1 : waiters'[i] = waiters[i + 1]
         /\ done' = [dn EXCEPT ![waiters[1]] = TRUE]
         /\ chan' = [ch EXCEPT ![waiters[1]] = s]
<1>1. waiters \in Seq(Caller) /\ Len(waiters) \in Nat
  BY LenProperties DEF TypeOK
<1>2. PICK k \in 1 .. Len(waiters) :
         /\ FirstLive(waiters, dn, k)
         /\ waiters' = SubSeq(waiters, k + 1, Len(waiters))
         /\ done' = [dn EXCEPT ![waiters[k]] = TRUE]
         /\ chan' = [ch EXCEPT ![waiters[k]] = s]
  BY DEF HandOver
<1>3. k = 1
  <2>1. \A j \in 1 .. k - 1 : dn[waiters[j]]
    BY <1>2 DEF FirstLive
  <2>2. k > 1 => 1 \in 1 .. k - 1 /\ 1 \in 1 .. Len(waiters)
    BY <1>1
  <2> QED
    BY <1>1, <2>1, <2>2
<1>4. waiters # <<>> /\ 1 \in 1 .. Len(waiters) /\ waiters[1] \in Caller
  BY <1>1, <1>3, LenProperties
<1>5. Tail(waiters) = SubSeq(waiters, 2, Len(waiters))
  BY <1>1, <1>4, TailIsSubSeq
<1>6. /\ Len(Tail(waiters)) = Len(waiters) - 1
      /\ \A i \in 1 .. Len(Tail(waiters)) : Tail(waiters)[i] = waiters[i + 1]
  BY <1>1, <1>4, HeadTailProperties
<1> QED
  BY <1>1, <1>2, <1>3, <1>4, <1>5, <1>6

(* Handing slot s to the first waiter keeps the protocol and adds that      *)
(* waiter to the owners of s; c is the caller that acts, if one does.       *)
LEMMA HandOverStep ==
  ASSUME TypeOK, TypeOK', ProtocolInv, NEW s \in Slot, NEW c,
         c \notin Range(waiters),
         NEW dn \in [Caller -> BOOLEAN], NEW ch \in [Caller -> Slot \cup {NoSlot}],
         \A d \in Caller \ {c} : dn[d] = done[d] /\ ch[d] = chan[d],
         c \in Caller => ch[c] = NoSlot /\ pc'[c] \in {"idle", "returned"},
         \A d \in Caller \ {c} : pc'[d] = pc[d] /\ held'[d] = held[d],
         HandOver(s, waiters, dn, ch)
  PROVE  /\ ProtocolInv'
         /\ waiters # <<>>
         /\ waiters' = Tail(waiters)
         /\ Head(waiters) \in Caller \ {c}
         /\ \A p \in Slot : Head(waiters) \notin Owners(p)
         /\ \A p \in Slot : Owners(p)' = IF p = s
                                         THEN (Owners(s) \ {c}) \cup {Head(waiters)}
                                         ELSE Owners(p) \ {c}
<1> DEFINE w == waiters[1]
<1>0. /\ Len(waiters) \in Nat
      /\ \A i \in 1 .. Len(waiters) : waiters[i] \in Caller
      /\ \A i \in 1 .. Len(waiters) : waiters[i] # c
      /\ Range(waiters) = {waiters[i] : i \in 1 .. Len(waiters)}
      /\ Range(waiters') = {waiters'[i] : i \in 1 .. Len(waiters')}
  BY QueueRange, LenProperties DEF TypeOK
<1>1. /\ \A i \in 1 .. Len(waiters) : ~done[waiters[i]] /\ chan[waiters[i]] = NoSlot
      /\ \A i \in 1 .. Len(waiters) : pc[waiters[i]] \in {"waiting", "cancelling"}
      /\ \A i, j \in 1 .. Len(waiters) : waiters[i] = waiters[j] => i = j
  BY LenProperties
  DEF TypeOK, ProtocolInv, SendNeverBlocks, WaiterProtocol, QueuedOnce, IsInjective
<1>2. \A i \in 1 .. Len(waiters) : ~dn[waiters[i]]
  BY <1>0, <1>1
<1>3. /\ waiters # <<>>
      /\ 1 \in 1 .. Len(waiters)
      /\ w \in Caller
      /\ Head(waiters) = w
      /\ waiters' = Tail(waiters)
      /\ Len(waiters') = Len(waiters) - 1
      /\ \A i \in 1 .. Len(waiters) - 1 : waiters'[i] = waiters[i + 1]
      /\ done' = [dn EXCEPT ![w] = TRUE]
      /\ chan' = [ch EXCEPT ![w] = s]
  BY <1>2, HandOverToHead
<1>4. w # c /\ pc[w] \in {"waiting", "cancelling"} /\ chan[w] = NoSlot
  BY <1>0, <1>1, <1>3
<1>5. \A i \in 1 .. Len(waiters') :
         /\ i + 1 \in 1 .. Len(waiters)
         /\ waiters'[i] = waiters[i + 1]
         /\ waiters'[i] # w
         /\ waiters'[i] # c
         /\ waiters'[i] \in Caller
  BY <1>0, <1>1, <1>3
<1> HIDE DEF w
<1>6. /\ chan'[w] = s
      /\ done'[w] = TRUE
      /\ c \in Caller => chan'[c] = NoSlot
      /\ \A d \in Caller \ {c, w} : chan'[d] = chan[d] /\ done'[d] = done[d]
      /\ pc'[w] = pc[w]
  BY <1>3, <1>4
<1>7. s # NoSlot
  BY ConstantsAssumption
<1>8. QueuedOnce'
  <2>1. DOMAIN (waiters') = 1 .. Len(waiters')
    BY LenProperties DEF TypeOK
  <2> SUFFICES ASSUME NEW i \in 1 .. Len(waiters'), NEW j \in 1 .. Len(waiters'),
                      waiters'[i] = waiters'[j]
               PROVE  i = j
    BY <2>1 DEF QueuedOnce, IsInjective
  <2>2. i + 1 = j + 1
    BY <1>1, <1>5
  <2> QED
    BY <1>0, <1>3, <2>2
<1>9. HoldersHold'
  BY <1>4 DEF ProtocolInv, HoldersHold
<1>10. SendNeverBlocks'
  <2> SUFFICES ASSUME NEW i \in 1 .. Len(waiters') PROVE chan'[waiters'[i]] = NoSlot
    BY DEF SendNeverBlocks
  <2> QED
    BY <1>1, <1>5, <1>6
<1>11. \A d \in Caller \ {w} : d \in Range(waiters) => d \in Range(waiters')
  <2> SUFFICES ASSUME NEW i \in 1 .. Len(waiters), waiters[i] # w
               PROVE  waiters[i] \in Range(waiters')
    BY <1>0
  <2>1. i # 1
    BY DEF w
  <2>2. i - 1 \in 1 .. Len(waiters') /\ waiters'[i - 1] = waiters[i]
    BY <1>0, <1>3, <2>1
  <2> QED
    BY <1>0, <2>2
<1>12. NoWaiterDropped'
  <2> SUFFICES ASSUME NEW d \in Caller, pc'[d] = "waiting", d \notin Range(waiters')
               PROVE  chan'[d] # NoSlot
    BY DEF NoWaiterDropped
  <2>1. CASE d = w
    BY <2>1, <1>6, <1>7
  <2>2. CASE d # w
    <3>1. d # c
      OBVIOUS
    <3>2. pc[d] = "waiting" /\ d \notin Range(waiters)
      BY <2>2, <3>1, <1>11
    <3> QED
      BY <2>2, <3>1, <3>2, <1>6 DEF ProtocolInv, NoWaiterDropped
  <2> QED
    BY <2>1, <2>2
<1>13. WaiterProtocol'
  <2>1. ASSUME NEW i \in 1 .. Len(waiters')
        PROVE  pc'[waiters'[i]] \in {"waiting", "cancelling"} /\ ~done'[waiters'[i]]
    BY <1>1, <1>5, <1>6
  <2>2. ASSUME NEW d \in Caller, pc'[d] \notin {"waiting", "cancelling"}
        PROVE  d \notin Range(waiters') /\ chan'[d] = NoSlot
    <3>1. d # w
      BY <2>2, <1>4, <1>6
    <3>2. d \notin Range(waiters')
      BY <1>0, <2>1, <2>2
    <3>3. d # c => chan[d] = NoSlot
      BY <2>2 DEF ProtocolInv, WaiterProtocol
    <3> QED
      BY <3>1, <3>2, <3>3, <1>6
  <2> QED
    BY <2>1, <2>2 DEF WaiterProtocol
<1>14. \A p \in Slot : w \notin Owners(p)
  BY <1>4, ConstantsAssumption DEF Owners, Owns
<1>15. \A p \in Slot, d \in Caller :
         Owns(d, p)' <=> (d = w /\ p = s) \/ (d # c /\ d # w /\ Owns(d, p))
  <2> SUFFICES ASSUME NEW p \in Slot, NEW d \in Caller
               PROVE  Owns(d, p)' <=> (d = w /\ p = s) \/ (d # c /\ d # w /\ Owns(d, p))
    OBVIOUS
  <2>1. CASE d = w
    BY <2>1, <1>4, <1>6 DEF Owns
  <2>2. CASE d = c
    BY <2>2, <1>4, <1>6, ConstantsAssumption DEF Owns
  <2>3. CASE d # w /\ d # c
    BY <2>3, <1>6 DEF Owns
  <2> QED
    BY <2>1, <2>2, <2>3
<1>16. \A p \in Slot : Owners(p)' = IF p = s THEN (Owners(s) \ {c}) \cup {w}
                                    ELSE Owners(p) \ {c}
  BY <1>3, <1>14, <1>15 DEF Owners
<1> QED
  BY <1>3, <1>4, <1>8, <1>9, <1>10, <1>12, <1>13, <1>14, <1>16 DEF ProtocolInv

(* Caller c, which leases s and is in no queue, gives s back. *)
LEMMA ReleaseStep ==
  ASSUME TypeOK, TypeOK', ProtocolInv, NEW s \in Slot, NEW c \in Caller,
         Owns(c, s), c \notin Range(waiters), pc[c] # "waiting",
         \A p \in Slot : Owns(c, p) => p = s,
         NEW dn \in [Caller -> BOOLEAN], NEW ch \in [Caller -> Slot \cup {NoSlot}],
         \A d \in Caller \ {c} : dn[d] = done[d] /\ ch[d] = chan[d],
         ch[c] = NoSlot, pc'[c] \in {"idle", "returned"},
         \A d \in Caller \ {c} : pc'[d] = pc[d] /\ held'[d] = held[d],
         ReleaseLocked(s, waiters, dn, ch)
  PROVE  /\ ProtocolInv'
         /\ \/ ReturnEffect(c, s) /\ waiters' = waiters
            \/ /\ waiters # <<>> /\ waiters' = Tail(waiters)
               /\ Head(waiters) \in Caller
               /\ TransferEffect(c, Head(waiters), s)
<1>0. c \in Owners(s) /\ \A p \in Slot : p # s => c \notin Owners(p)
  BY DEF Owners
<1>1. CASE HandOver(s, waiters, dn, ch) /\ UNCHANGED inFlight
  <2>1. /\ ProtocolInv'
        /\ waiters # <<>>
        /\ waiters' = Tail(waiters)
        /\ Head(waiters) \in Caller \ {c}
        /\ \A p \in Slot : Head(waiters) \notin Owners(p)
        /\ \A p \in Slot : Owners(p)' = IF p = s
                                        THEN (Owners(s) \ {c}) \cup {Head(waiters)}
                                        ELSE Owners(p) \ {c}
    BY <1>1, HandOverStep
  <2>2. \A p \in Slot : p # s => Owners(p) \ {c} = Owners(p)
    BY <1>0
  <2>3. \A p \in Slot : Owners(p)' = IF p = s
                                      THEN (Owners(s) \ {c}) \cup {Head(waiters)}
                                      ELSE Owners(p)
    BY <2>1, <2>2
  <2>4. TransferEffect(c, Head(waiters), s)
    BY <1>0, <1>1, <2>1, <2>3 DEF TransferEffect
  <2> QED
    BY <2>1, <2>4
<1>2. CASE /\ MayHandOver(s) => \A k \in 1 .. Len(waiters) : dn[waiters[k]]
           /\ waiters' = IF MayHandOver(s) THEN <<>> ELSE waiters
           /\ done' = dn
           /\ chan' = ch
           /\ inFlight' = [inFlight EXCEPT ![s] = IF @ > 0 THEN @ - 1 ELSE @]
  <2>0. /\ Len(waiters) \in Nat
        /\ \A i \in 1 .. Len(waiters) : waiters[i] \in Caller /\ waiters[i] # c
        /\ Range(waiters) = {waiters[i] : i \in 1 .. Len(waiters)}
        /\ \A i \in 1 .. Len(waiters) : ~done[waiters[i]]
    BY QueueRange, LenProperties DEF TypeOK, ProtocolInv, WaiterProtocol
  <2>1. waiters' = waiters
    <3>1. CASE MayHandOver(s)
      <4>1. Len(waiters) = 0
        BY <1>2, <2>0, <3>1
      <4>2. waiters = <<>>
        BY <4>1, EmptySeq DEF TypeOK
      <4> QED
        BY <1>2, <3>1, <4>2
    <3>2. CASE ~MayHandOver(s)
      BY <1>2, <3>2
    <3> QED
      BY <3>1, <3>2
  <2>2. ProtocolInv'
    <3>1. QueuedOnce' /\ HoldersHold'
      BY <2>1 DEF ProtocolInv, QueuedOnce, HoldersHold
    <3>2. SendNeverBlocks'
      BY <1>2, <2>0, <2>1 DEF ProtocolInv, SendNeverBlocks
    <3>3. NoWaiterDropped'
      BY <1>2, <2>1 DEF ProtocolInv, NoWaiterDropped
    <3>4. WaiterProtocol'
      BY <1>2, <2>0, <2>1 DEF ProtocolInv, WaiterProtocol
    <3> QED
      BY <3>1, <3>2, <3>3, <3>4 DEF ProtocolInv
  <2>3. \A p \in Slot, d \in Caller : Owns(d, p)' <=> d # c /\ Owns(d, p)
    <3> SUFFICES ASSUME NEW p \in Slot, NEW d \in Caller
                 PROVE  Owns(d, p)' <=> d # c /\ Owns(d, p)
      OBVIOUS
    <3>1. CASE d = c
      BY <1>2, <3>1, ConstantsAssumption DEF Owns
    <3>2. CASE d # c
      BY <1>2, <3>2 DEF Owns
    <3> QED
      BY <3>1, <3>2
  <2>4. \A p \in Slot : Owners(p)' = Owners(p) \ {c}
    BY <2>3 DEF Owners
  <2>5. ReturnEffect(c, s)
    <3>1. \A p \in Slot : p # s => Owners(p) \ {c} = Owners(p)
      BY <1>0
    <3>2. \A p \in Slot : Owners(p)' = IF p = s THEN Owners(s) \ {c} ELSE Owners(p)
      BY <2>4, <3>1
    <3> QED
      BY <1>0, <1>2, <3>2 DEF ReturnEffect
  <2> QED
    BY <2>1, <2>2, <2>5
<1> QED
  BY <1>1, <1>2 DEF ReleaseLocked

(* What a step of the pool means to its callers: what LeaseService calls it. *)
QueueStep(c) == /\ NoEffect
                /\ \/ /\ c \notin Range(waiters)
                      /\ \A s \in Slot : c \notin Owners(s)
                      /\ waiters' = Append(waiters, c)
                   \/ c \in Range(waiters) /\ waiters' = RemoveFirst(waiters, c)

ServiceStep ==
  \/ NoEffect /\ waiters' = waiters
  \/ \E c \in Caller : QueueStep(c)
  \/ \E c \in Caller, s \in Slot :
       \/ /\ GrantEffect(c, s) /\ waiters' = waiters
          /\ c \notin Range(waiters) /\ \A p \in Slot : c \notin Owners(p)
       \/ ReturnEffect(c, s) /\ waiters' = waiters
       \/ /\ waiters # <<>> /\ waiters' = Tail(waiters) /\ Head(waiters) \in Caller
          /\ TransferEffect(c, Head(waiters), s)
  \/ \E s \in Slot : /\ waiters # <<>> /\ waiters' = Tail(waiters)
                     /\ Head(waiters) \in Caller
                     /\ GrantEffect(Head(waiters), s)

LEMMA LeaseAccountStep ==
  ASSUME TypeOK, TypeOK', ProtocolInv, NEW c \in Caller, LeaseAccount(c)
  PROVE  ProtocolInv' /\ ServiceStep
<1>1. PICK i \in 0 .. Len(accounts) - 1 :
         /\ ScanStopsAt(i)
         /\ inFlight' = [inFlight EXCEPT ![accounts[ScanIndex(i) + 1]] = @ + 1]
         /\ held' = [held EXCEPT ![c] = accounts[ScanIndex(i) + 1]]
  BY DEF LeaseAccount
<1> DEFINE s == accounts[ScanIndex(i) + 1]
<1>2. s \in Slot
  BY ScanInRange
<1>3. inFlight[s] < MaxInFlight
  BY <1>1 DEF ScanStopsAt, Available
<1>4. /\ inFlight' = [inFlight EXCEPT ![s] = @ + 1]
      /\ held' = [held EXCEPT ![c] = s]
      /\ pc' = [pc EXCEPT ![c] = "leased"]
      /\ pc[c] \in {"idle", "returned"}
      /\ waiters' = waiters /\ done' = done /\ chan' = chan
  BY <1>1 DEF LeaseAccount, CanCall, waitVars
<1> HIDE DEF s
<1>5. /\ c \notin Range(waiters)
      /\ chan[c] = NoSlot
      /\ \A j \in 1 .. Len(waiters) : waiters[j] # c
      /\ \A p \in Slot : ~Owns(c, p)
  BY <1>4, NotWaiting
<1>6. \A p \in Slot, d \in Caller : Owns(d, p)' <=> Owns(d, p) \/ (d = c /\ p = s)
  BY <1>2, <1>4, <1>5, ConstantsAssumption DEF Owns, TypeOK
<1>7. \A p \in Slot : Owners(p)' = IF p = s THEN Owners(s) \cup {c} ELSE Owners(p)
  BY <1>6 DEF Owners
<1>8. \A p \in Slot : c \notin Owners(p)
  BY <1>5 DEF Owners
<1>9. GrantEffect(c, s)
  BY <1>2, <1>3, <1>4, <1>7, <1>8 DEF GrantEffect
<1>10. ProtocolInv'
  <2>1. QueuedOnce' /\ SendNeverBlocks'
    BY <1>4 DEF ProtocolInv, QueuedOnce, SendNeverBlocks
  <2>2. HoldersHold'
    BY <1>2, <1>4 DEF ProtocolInv, HoldersHold, TypeOK
  <2>3. NoWaiterDropped'
    BY <1>4 DEF ProtocolInv, NoWaiterDropped, TypeOK
  <2>4. WaiterProtocol'
    <3>1. \A j \in 1 .. Len(waiters) : pc'[waiters[j]] = pc[waiters[j]]
      BY <1>4, <1>5 DEF TypeOK
    <3>2. \A d \in Caller \ {c} : pc'[d] = pc[d]
      BY <1>4 DEF TypeOK
    <3> QED
      BY <1>4, <1>5, <3>1, <3>2 DEF ProtocolInv, WaiterProtocol
  <2> QED
    BY <2>1, <2>2, <2>3, <2>4 DEF ProtocolInv
<1> QED
  BY <1>2, <1>4, <1>5, <1>8, <1>9, <1>10 DEF ServiceStep

LEMMA EnqueueWaiterStep ==
  ASSUME TypeOK, TypeOK', ProtocolInv, NEW c \in Caller, EnqueueWaiter(c)
  PROVE  ProtocolInv' /\ ServiceStep
<1>1. /\ waiters' = Append(waiters, c)
      /\ done' = [done EXCEPT ![c] = FALSE]
      /\ pc' = [pc EXCEPT ![c] = "waiting"]
      /\ held' = [held EXCEPT ![c] = NoSlot]
      /\ chan' = chan /\ inFlight' = inFlight
      /\ pc[c] \in {"idle", "returned"}
  BY DEF EnqueueWaiter, CanCall
<1>2. /\ c \notin Range(waiters)
      /\ chan[c] = NoSlot
      /\ \A j \in 1 .. Len(waiters) : waiters[j] # c
      /\ \A p \in Slot : ~Owns(c, p)
  BY <1>1, NotWaiting
<1>3. /\ Len(waiters) \in Nat
      /\ \A j \in 1 .. Len(waiters) : waiters[j] \in Caller
      /\ Len(waiters') = Len(waiters) + 1
      /\ \A j \in 1 .. Len(waiters) : waiters'[j] = waiters[j]
      /\ waiters'[Len(waiters) + 1] = c
  BY <1>1, AppendProperties, LenProperties DEF TypeOK
<1>4. /\ Range(waiters) = {waiters[j] : j \in 1 .. Len(waiters)}
      /\ Range(waiters') = {waiters'[j] : j \in 1 .. Len(waiters')}
  BY QueueRange DEF TypeOK
<1>5. Range(waiters') = Range(waiters) \cup {c}
  BY <1>3, <1>4
<1>6. \A d \in Caller \ {c} : pc'[d] = pc[d] /\ done'[d] = done[d] /\ held'[d] = held[d]
  BY <1>1 DEF TypeOK
<1>7. pc'[c] = "waiting" /\ done'[c] = FALSE
  BY <1>1 DEF TypeOK
<1>8. \A p \in Slot, d \in Caller : Owns(d, p)' <=> Owns(d, p)
  BY <1>1, <1>2, <1>6, <1>7, ConstantsAssumption DEF Owns
<1>9. NoEffect
  BY <1>1, <1>8 DEF NoEffect, Owners
<1>10. ProtocolInv'
  <2>1. QueuedOnce'
    <3>1. DOMAIN waiters = 1 .. Len(waiters) /\ DOMAIN (waiters') = 1 .. Len(waiters')
      BY LenProperties DEF TypeOK
    <3>2. \A i, j \in 1 .. Len(waiters) : waiters[i] = waiters[j] => i = j
      BY <3>1 DEF ProtocolInv, QueuedOnce, IsInjective
    <3>3. \A i, j \in 1 .. Len(waiters') : waiters'[i] = waiters'[j] => i = j
      BY <1>2, <1>3, <3>2
    <3> QED
      BY <3>1, <3>3 DEF QueuedOnce, IsInjective
  <2>2. HoldersHold'
    BY <1>6, <1>7 DEF ProtocolInv, HoldersHold
  <2>3. SendNeverBlocks'
    <3> SUFFICES ASSUME NEW j \in 1 .. Len(waiters') PROVE chan'[waiters'[j]] = NoSlot
      BY DEF SendNeverBlocks
    <3>1. CASE j \in 1 .. Len(waiters)
      BY <1>1, <1>3, <3>1 DEF ProtocolInv, SendNeverBlocks
    <3>2. CASE j = Len(waiters) + 1
      BY <1>1, <1>2, <1>3, <3>2
    <3> QED
      BY <1>3, <3>1, <3>2
  <2>4. NoWaiterDropped'
    BY <1>1, <1>5, <1>6 DEF ProtocolInv, NoWaiterDropped
  <2>5. WaiterProtocol'
    <3>1. ASSUME NEW j \in 1 .. Len(waiters')
          PROVE  pc'[waiters'[j]] \in {"waiting", "cancelling"} /\ ~done'[waiters'[j]]
      <4>1. CASE j \in 1 .. Len(waiters)
        BY <1>2, <1>3, <1>6, <4>1 DEF ProtocolInv, WaiterProtocol
      <4>2. CASE j = Len(waiters) + 1
        BY <1>3, <1>7, <4>2
      <4> QED
        BY <1>3, <4>1, <4>2
    <3>2. ASSUME NEW d \in Caller, pc'[d] \notin {"waiting", "cancelling"}
          PROVE  d \notin Range(waiters') /\ chan'[d] = NoSlot
      BY <1>1, <1>5, <1>6, <1>7, <3>2 DEF ProtocolInv, WaiterProtocol
    <3> QED
      BY <3>1, <3>2 DEF WaiterProtocol
  <2> QED
    BY <2>1, <2>2, <2>3, <2>4, <2>5 DEF ProtocolInv
<1>11. QueueStep(c)
  BY <1>1, <1>2, <1>9 DEF QueueStep, Owners
<1> QED
  BY <1>10, <1>11 DEF ServiceStep

(* A caller outside the queue that owns nothing moves on, or takes the lease *)
(* out of its channel: queue and flags stay, nobody's ownership changes.     *)
LEMMA CallerMovesStep ==
  ASSUME TypeOK, TypeOK', ProtocolInv, NEW c \in Caller,
         waiters' = waiters, done' = done, inFlight' = inFlight,
         \A d \in Caller \ {c} : pc'[d] = pc[d] /\ held'[d] = held[d] /\ chan'[d] = chan[d],
         \A p \in Slot : Owns(c, p)' <=> Owns(c, p),
         \/ c \notin Range(waiters)
         \/ pc'[c] \in {"waiting", "cancelling"} /\ chan'[c] = NoSlot,
         pc'[c] \in {"leased", "aborting"} => held'[c] \in Slot,
         pc'[c] # "waiting",
         pc'[c] \notin {"waiting", "cancelling"} => chan'[c] = NoSlot
  PROVE  ProtocolInv' /\ ServiceStep
<1>0. /\ Len(waiters) \in Nat
      /\ \A i \in 1 .. Len(waiters) : waiters[i] \in Caller
      /\ Range(waiters) = {waiters[i] : i \in 1 .. Len(waiters)}
  BY QueueOfCallers
<1>1. QueuedOnce' /\ HoldersHold'
  BY DEF ProtocolInv, QueuedOnce, HoldersHold
<1>2. SendNeverBlocks'
  <2> SUFFICES ASSUME NEW i \in 1 .. Len(waiters) PROVE chan'[waiters[i]] = NoSlot
    BY DEF SendNeverBlocks
  <2>1. CASE waiters[i] = c
    BY <1>0, <2>1
  <2>2. CASE waiters[i] # c
    BY <1>0, <2>2 DEF ProtocolInv, SendNeverBlocks
  <2> QED
    BY <2>1, <2>2
<1>3. NoWaiterDropped'
  BY DEF ProtocolInv, NoWaiterDropped
<1>4. WaiterProtocol'
  <2>1. ASSUME NEW i \in 1 .. Len(waiters)
        PROVE  pc'[waiters[i]] \in {"waiting", "cancelling"} /\ ~done[waiters[i]]
    <3>1. CASE waiters[i] = c
      BY <1>0, <3>1 DEF ProtocolInv, WaiterProtocol
    <3>2. CASE waiters[i] # c
      BY <1>0, <3>2 DEF ProtocolInv, WaiterProtocol
    <3> QED
      BY <3>1, <3>2
  <2>2. ASSUME NEW d \in Caller, pc'[d] \notin {"waiting", "cancelling"}
        PROVE  d \notin Range(waiters) /\ chan'[d] = NoSlot
    <3>1. CASE d = c
      BY <2>2, <3>1
    <3>2. CASE d # c
      BY <2>2, <3>2 DEF ProtocolInv, WaiterProtocol
    <3> QED
      BY <3>1, <3>2
  <2> QED
    BY <2>1, <2>2 DEF WaiterProtocol
<1>5. \A p \in Slot, d \in Caller : Owns(d, p)' <=> Owns(d, p)
  <2> SUFFICES ASSUME NEW p \in Slot, NEW d \in Caller PROVE Owns(d, p)' <=> Owns(d, p)
    OBVIOUS
  <2>1. CASE d = c
    BY <2>1
  <2>2. CASE d # c
    BY <2>2 DEF Owns
  <2> QED
    BY <2>1, <2>2
<1>6. NoEffect
  BY <1>5 DEF NoEffect, Owners
<1> QED
  BY <1>1, <1>2, <1>3, <1>4, <1>6 DEF ProtocolInv, ServiceStep

LEMMA LeaseFailsStep ==
  ASSUME TypeOK, TypeOK', ProtocolInv, NEW c \in Caller, LeaseFails(c)
  PROVE  ProtocolInv' /\ ServiceStep
<1>1. /\ pc' = [pc EXCEPT ![c] = "idle"]
      /\ held' = [held EXCEPT ![c] = NoSlot]
      /\ waiters' = waiters /\ done' = done /\ chan' = chan /\ inFlight' = inFlight
      /\ pc[c] \in {"idle", "returned"}
  BY DEF LeaseFails, CanCall, waitVars
<1>2. /\ c \notin Range(waiters)
      /\ chan[c] = NoSlot
      /\ \A p \in Slot : ~Owns(c, p)
  BY <1>1, NotWaiting
<1>3. \A d \in Caller \ {c} : pc'[d] = pc[d] /\ held'[d] = held[d]
  BY <1>1 DEF TypeOK
<1>4. pc'[c] = "idle"
  BY <1>1 DEF TypeOK
<1>5. \A p \in Slot : ~(Owns(c, p)')
  BY <1>1, <1>2, <1>4, ConstantsAssumption DEF Owns
<1> QED
  BY <1>1, <1>2, <1>3, <1>4, <1>5, CallerMovesStep

LEMMA ReceiveStep ==
  ASSUME TypeOK, TypeOK', ProtocolInv, NEW c \in Caller, Receive(c)
  PROVE  ProtocolInv' /\ ServiceStep
<1>1. /\ pc[c] = "waiting"
      /\ chan[c] # NoSlot
      /\ held' = [held EXCEPT ![c] = chan[c]]
      /\ chan' = [chan EXCEPT ![c] = NoSlot]
      /\ \E next \in {"leased", "aborting"} : pc' = [pc EXCEPT ![c] = next]
      /\ waiters' = waiters /\ done' = done /\ inFlight' = inFlight
  BY DEF Receive
<1>2. c \notin Range(waiters)
  BY <1>1, ServedNotQueued
<1>3. \A d \in Caller \ {c} : pc'[d] = pc[d] /\ held'[d] = held[d] /\ chan'[d] = chan[d]
  BY <1>1 DEF TypeOK
<1>4. pc'[c] \in {"leased", "aborting"} /\ held'[c] = chan[c] /\ chan'[c] = NoSlot
  BY <1>1 DEF TypeOK
<1>5. chan[c] \in Slot
  BY <1>1 DEF TypeOK
<1>6. \A p \in Slot : Owns(c, p)' <=> Owns(c, p)
  BY <1>1, <1>4, ConstantsAssumption DEF Owns
<1> QED
  BY <1>1, <1>2, <1>3, <1>4, <1>5, <1>6, CallerMovesStep

LEMMA GiveUpStep ==
  ASSUME TypeOK, TypeOK', ProtocolInv, NEW c \in Caller, GiveUp(c)
  PROVE  ProtocolInv' /\ ServiceStep
<1>1. /\ pc[c] = "waiting"
      /\ pc' = [pc EXCEPT ![c] = "cancelling"]
      /\ waiters' = waiters /\ done' = done /\ chan' = chan
      /\ inFlight' = inFlight /\ held' = held
  BY DEF GiveUp, waitVars
<1>2. c \in Range(waiters) => chan[c] = NoSlot
  BY ServedNotQueued
<1>3. \A d \in Caller \ {c} : pc'[d] = pc[d] /\ held'[d] = held[d]
  BY <1>1 DEF TypeOK
<1>4. pc'[c] = "cancelling"
  BY <1>1 DEF TypeOK
<1>5. \A p \in Slot : Owns(c, p)' <=> Owns(c, p)
  BY <1>1, <1>4 DEF Owns
<1> QED
  BY <1>1, <1>2, <1>3, <1>4, <1>5, CallerMovesStep

LEMMA GiveBackStep ==
  ASSUME TypeOK, TypeOK', ProtocolInv, NEW c \in Caller,
         pc[c] \in {"leased", "aborting"},
         ReleaseLocked(held[c], waiters, done, chan),
         \E next \in {"idle", "returned"} : pc' = [pc EXCEPT ![c] = next],
         \A d \in Caller \ {c} : held'[d] = held[d]
  PROVE  ProtocolInv' /\ ServiceStep
<1>1. held[c] \in Slot
  BY DEF ProtocolInv, HoldersHold
<1>2. /\ c \notin Range(waiters)
      /\ chan[c] = NoSlot
      /\ \A p \in Slot : Owns(c, p) => p = held[c]
  BY NotWaiting
<1>3. Owns(c, held[c])
  BY DEF Owns
<1>4. pc'[c] \in {"idle", "returned"} /\ \A d \in Caller \ {c} : pc'[d] = pc[d]
  BY DEF TypeOK
<1>5. done \in [Caller -> BOOLEAN] /\ chan \in [Caller -> Slot \cup {NoSlot}]
  BY DEF TypeOK
<1> QED
  BY <1>1, <1>2, <1>3, <1>4, <1>5, ReleaseStep DEF ServiceStep

LEMMA CancelStep ==
  ASSUME TypeOK, TypeOK', ProtocolInv, NEW c \in Caller, Cancel(c)
  PROVE  ProtocolInv' /\ ServiceStep
<1> DEFINE q  == RemoveFirst(waiters, c)
           dn == [done EXCEPT ![c] = TRUE]
           ch == [chan EXCEPT ![c] = NoSlot]
<1>0. pc[c] = "cancelling" /\ pc' = [pc EXCEPT ![c] = "idle"] /\ held' = held
  BY DEF Cancel
<1>1. pc'[c] = "idle" /\ \A d \in Caller \ {c} : pc'[d] = pc[d]
  BY <1>0 DEF TypeOK
<1>2. \A p \in Slot : Owns(c, p) <=> chan[c] = p
  BY <1>0 DEF Owns
<1>3. \A p \in Slot : Owns(c, p)' <=> chan'[c] = p
  BY <1>1 DEF Owns
<1>4. CASE chan[c] # NoSlot
  <2>1. c \notin Range(waiters)
    BY <1>4, ServedNotQueued
  <2>2. q = waiters
    <3>1. waiters \in Seq(Caller)
      BY DEF TypeOK
    <3>2. \A i \in 1 .. Len(waiters) : waiters[i] # c
      BY <2>1, <3>1, QueueRange
    <3> QED
      BY <3>1, <3>2, RemoveFirstCases
  <2>3. ReleaseLocked(chan[c], q, dn, ch)
    BY <1>4 DEF Cancel
  <2>4. /\ dn \in [Caller -> BOOLEAN]
        /\ ch \in [Caller -> Slot \cup {NoSlot}]
        /\ \A d \in Caller \ {c} : dn[d] = done[d] /\ ch[d] = chan[d]
        /\ ch[c] = NoSlot
    BY DEF TypeOK
  <2>5. chan[c] \in Slot
    BY <1>4 DEF TypeOK
  <2> HIDE DEF q, dn, ch
  <2> QED
    BY <1>0, <1>1, <1>2, <2>1, <2>2, <2>3, <2>4, <2>5, ReleaseStep DEF ServiceStep
<1>5. CASE chan[c] = NoSlot
  <2>1. waiters' = q /\ done' = dn /\ chan' = chan /\ inFlight' = inFlight
    BY <1>5 DEF Cancel
  <2>2. done'[c] = TRUE /\ \A d \in Caller \ {c} : done'[d] = done[d]
    BY <2>1 DEF TypeOK
  <2>3. \A p \in Slot, d \in Caller : Owns(d, p)' <=> Owns(d, p)
    <3> SUFFICES ASSUME NEW p \in Slot, NEW d \in Caller PROVE Owns(d, p)' <=> Owns(d, p)
      OBVIOUS
    <3>1. CASE d = c
      BY <1>2, <1>3, <2>1, <3>1
    <3>2. CASE d # c
      BY <1>0, <1>1, <2>1, <3>2 DEF Owns
    <3> QED
      BY <3>1, <3>2
  <2>4. NoEffect
    BY <2>1, <2>3 DEF NoEffect, Owners
  <2>5. (c \in Range(waiters) /\ q = RemoveFirst(waiters, c)) \/ q = waiters
    <3>1. waiters \in Seq(Caller)
      BY DEF TypeOK
    <3> QED
      BY <3>1, RemoveFirstCases, QueueRange
  <2>6. ServiceStep
    BY <2>1, <2>4, <2>5 DEF ServiceStep, QueueStep
  <2> HIDE DEF q, dn, ch
  <2>7. /\ Len(waiters) \in Nat
        /\ \A i \in 1 .. Len(waiters) : waiters[i] \in Caller
        /\ Range(waiters) = {waiters[i] : i \in 1 .. Len(waiters)}
        /\ Len(waiters') \in Nat
        /\ \A i \in 1 .. Len(waiters') : waiters'[i] \in Caller
        /\ Range(waiters') = {waiters'[i] : i \in 1 .. Len(waiters')}
        /\ DOMAIN waiters = 1 .. Len(waiters) /\ DOMAIN (waiters') = 1 .. Len(waiters')
    <3>1. waiters \in Seq(Caller) /\ waiters' \in Seq(Caller)
      BY DEF TypeOK
    <3> QED
      BY <3>1, QueueRange, LenProperties
  <2>8. \A i, j \in 1 .. Len(waiters) : waiters[i] = waiters[j] => i = j
    BY <2>7 DEF ProtocolInv, QueuedOnce, IsInjective
  <2>9. /\ Range(waiters') = Range(waiters) \ {c}
        /\ \A i, j \in 1 .. Len(waiters') : waiters'[i] = waiters'[j] => i = j
    <3>1. CASE q = waiters /\ c \notin Range(waiters)
      BY <2>1, <2>7, <2>8, <3>1
    <3>2. ASSUME NEW i \in 1 .. Len(waiters), waiters[i] = c, q = RemoveAt(waiters, i)
          PROVE  /\ Range(waiters') = Range(waiters) \ {c}
                 /\ \A k, l \in 1 .. Len(waiters') : waiters'[k] = waiters'[l] => k = l
      <4>1. /\ Len(waiters') = Len(waiters) - 1
            /\ \A j \in 1 .. Len(waiters) - 1 :
                 waiters'[j] = IF j < i THEN waiters[j] ELSE waiters[j + 1]
        <5>1. waiters \in Seq(Caller)
          BY DEF TypeOK
        <5> QED
          BY <2>1, <3>2, <5>1, RemoveAtType
      <4>2. \A k, l \in 1 .. Len(waiters') : waiters'[k] = waiters'[l] => k = l
        <5> SUFFICES ASSUME NEW k \in 1 .. Len(waiters'), NEW l \in 1 .. Len(waiters'),
                            waiters'[k] = waiters'[l]
                     PROVE  k = l
          OBVIOUS
        <5>1. /\ k \in 1 .. Len(waiters) - 1 /\ k + 1 \in 1 .. Len(waiters)
              /\ l \in 1 .. Len(waiters) - 1 /\ l + 1 \in 1 .. Len(waiters)
          BY <2>7, <4>1
        <5> QED
          BY <2>7, <2>8, <4>1, <5>1
      <4>3. \A k \in 1 .. Len(waiters') : waiters'[k] \in Range(waiters) \ {c}
        BY <2>7, <2>8, <3>2, <4>1
      <4>4. ASSUME NEW k \in 1 .. Len(waiters), waiters[k] # c
            PROVE  waiters[k] \in Range(waiters')
        <5>1. CASE k < i
          <6>1. k \in 1 .. Len(waiters') /\ waiters'[k] = waiters[k]
            BY <2>7, <4>1, <5>1
          <6> QED
            BY <2>7, <6>1
        <5>2. CASE k > i
          <6>1. k - 1 \in 1 .. Len(waiters') /\ waiters'[k - 1] = waiters[k]
            BY <2>7, <4>1, <5>2
          <6> QED
            BY <2>7, <6>1
        <5>3. k # i
          BY <3>2, <4>4
        <5> QED
          BY <2>7, <5>1, <5>2, <5>3
      <4> QED
        BY <2>7, <4>2, <4>3, <4>4
    <3>3. \/ q = waiters /\ c \notin Range(waiters)
          \/ \E i \in 1 .. Len(waiters) : waiters[i] = c /\ q = RemoveAt(waiters, i)
      BY RemoveFirstCases DEF TypeOK, q
    <3> QED
      BY <3>1, <3>2, <3>3
  <2>10. ProtocolInv'
    <3>1. QueuedOnce'
      BY <2>7, <2>9 DEF QueuedOnce, IsInjective
    <3>2. HoldersHold'
      BY <1>0, <1>1 DEF ProtocolInv, HoldersHold
    <3>3. \A i \in 1 .. Len(waiters') : waiters'[i] \in Range(waiters) \ {c}
      BY <2>7, <2>9
    <3>4. SendNeverBlocks'
      BY <2>1, <2>7, <3>3 DEF ProtocolInv, SendNeverBlocks
    <3>5. NoWaiterDropped'
      BY <1>1, <2>1, <2>9 DEF ProtocolInv, NoWaiterDropped
    <3>6. WaiterProtocol'
      <4>1. ASSUME NEW i \in 1 .. Len(waiters')
            PROVE  pc'[waiters'[i]] \in {"waiting", "cancelling"} /\ ~done'[waiters'[i]]
        BY <1>1, <2>2, <2>7, <3>3 DEF ProtocolInv, WaiterProtocol
      <4>2. ASSUME NEW d \in Caller, pc'[d] \notin {"waiting", "cancelling"}
            PROVE  d \notin Range(waiters') /\ chan'[d] = NoSlot
        BY <1>1, <1>5, <2>1, <2>9, <4>2 DEF ProtocolInv, WaiterProtocol
      <4> QED
        BY <4>1, <4>2 DEF WaiterProtocol
    <3> QED
      BY <3>1, <3>2, <3>4, <3>5, <3>6 DEF ProtocolInv
  <2> QED
    BY <2>6, <2>10
<1> QED
  BY <1>4, <1>5

(* A recovered account goes to the first waiter, if there is one and room.  *)
LEMMA RecoverAccountStep ==
  ASSUME TypeOK, TypeOK', ProtocolInv, NEW t \in Timer, RecoverAccount(t)
  PROVE  ProtocolInv' /\ ServiceStep
<1> DEFINE s == byID[timer[t].id]
<1>1. s \in Slot
  BY DEF RecoverAccount, RecoveryDue, TypeOK, PendingTimer, IdleTimer
<1>2. pc' = pc /\ held' = held
  BY DEF RecoverAccount, callerVars
<1>3. \/ inFlight[s] < MaxInFlight /\ HandOver(s, waiters, done, chan)
         /\ inFlight' = [inFlight EXCEPT ![s] = @ + 1]
      \/ /\ \A k \in 1 .. Len(waiters) : done[waiters[k]]
         /\ waiters' = <<>>
         /\ UNCHANGED <<done, chan, inFlight>>
      \/ UNCHANGED <<waitVars, inFlight>>
  BY DEF RecoverAccount
<1> HIDE DEF s
<1>4. CASE /\ inFlight[s] < MaxInFlight /\ HandOver(s, waiters, done, chan)
           /\ inFlight' = [inFlight EXCEPT ![s] = @ + 1]
  <2>1. PICK c : c \notin Caller
    BY NoSetContainsEverything
  <2>2. c \notin Range(waiters)
    BY <2>1, QueueOfCallers
  <2>3. done \in [Caller -> BOOLEAN] /\ chan \in [Caller -> Slot \cup {NoSlot}]
    BY DEF TypeOK
  <2>4. /\ ProtocolInv'
        /\ waiters # <<>>
        /\ waiters' = Tail(waiters)
        /\ Head(waiters) \in Caller \ {c}
        /\ \A p \in Slot : Head(waiters) \notin Owners(p)
        /\ \A p \in Slot : Owners(p)' = IF p = s
                                        THEN (Owners(s) \ {c}) \cup {Head(waiters)}
                                        ELSE Owners(p) \ {c}
    BY <1>1, <1>2, <1>4, <2>1, <2>2, <2>3, HandOverStep
  <2>5. \A p \in Slot : Owners(p) \ {c} = Owners(p)
    BY <2>1 DEF Owners
  <2>6. \A p \in Slot : Owners(p)' = IF p = s THEN Owners(s) \cup {Head(waiters)}
                                      ELSE Owners(p)
    BY <1>1, <2>4, <2>5
  <2>7. GrantEffect(Head(waiters), s)
    BY <1>1, <1>4, <2>4, <2>6 DEF GrantEffect
  <2> QED
    BY <1>1, <2>4, <2>7 DEF ServiceStep
<1>5. CASE UNCHANGED <<waitVars, inFlight>>
  BY <1>2, <1>5, ProtocolFrame DEF callerVars, waitVars, ServiceStep, NoEffect
<1>6. CASE /\ \A k \in 1 .. Len(waiters) : done[waiters[k]]
           /\ waiters' = <<>>
           /\ UNCHANGED <<done, chan, inFlight>>
  <2>1. \A k \in 1 .. Len(waiters) : ~done[waiters[k]]
    BY DEF ProtocolInv, WaiterProtocol
  <2>2. Len(waiters) = 0
    BY <1>6, <2>1, QueueOfCallers
  <2>3. waiters = <<>>
    BY <2>2, EmptySeq DEF TypeOK
  <2> QED
    BY <1>5, <1>6, <2>3 DEF waitVars
<1> QED
  BY <1>3, <1>4, <1>5, <1>6

(* A step of somebody who holds no lease and is in no queue: health, time,   *)
(* timers and the membership of the pool.                                    *)
LEMMA BystanderStep ==
  ASSUME ProtocolInv, UNCHANGED <<callerVars, waitVars>>,
         \A p \in Slot : \/ inFlight'[p] = inFlight[p]
                         \/ Owners(p) = {} /\ inFlight'[p] = 0
  PROVE  ProtocolInv' /\ ServiceStep
<1>1. ProtocolInv' /\ \A p \in Slot : Owners(p)' = Owners(p)
  BY ProtocolFrame
<1>2. NoEffect
  BY <1>1 DEF NoEffect
<1> QED
  BY <1>1, <1>2 DEF ServiceStep, waitVars

(* The counter of a slot that is added again starts at 0, and so it may: no  *)
(* lease refers to the slot.                                                 *)
LEMMA AddAccountLockedCount ==
  ASSUME TypeOK, NEW id, NEW st, NEW until, AddAccountLocked(id, st, until)
  PROVE  \A p \in Slot : \/ inFlight'[p] = inFlight[p]
                         \/ Owners(p) = {} /\ inFlight'[p] = 0
<1>1. CASE byID[id] # NoSlot
  BY <1>1 DEF AddAccountLocked
<1>2. CASE byID[id] = NoSlot
  <2>1. PICK s \in Slot : FreshSlot(s) /\ inFlight' = [inFlight EXCEPT ![s] = 0]
    BY <1>2 DEF AddAccountLocked
  <2> QED
    BY <2>1 DEF FreshSlot, TypeOK
<1> QED
  BY <1>1, <1>2

(* Every step keeps the protocol and is a step of the lease service.         *)
LEMMA NextIsServiceStep ==
  ASSUME TypeOK, TypeOK', ProtocolInv, [Next]_vars
  PROVE  ProtocolInv' /\ ServiceStep
<1> USE DEF poolVars, healthVars
<1>1. CASE LeaseNext
  <2>1. ASSUME NEW c \in Caller, Release(c) PROVE ProtocolInv' /\ ServiceStep
    <3>1. CASE /\ pc[c] = "leased"
               /\ ReleaseLocked(held[c], waiters, done, chan)
               /\ pc' = [pc EXCEPT ![c] = "returned"]
               /\ held' = held
      BY <3>1, GiveBackStep
    <3>2. CASE UNCHANGED vars
      BY <3>2, BystanderStep DEF vars
    <3> QED
      BY <2>1, <3>1, <3>2 DEF Release
  <2>2. ASSUME NEW c \in Caller, AbortLease(c) PROVE ProtocolInv' /\ ServiceStep
    <3>1. /\ pc[c] = "aborting"
          /\ ReleaseLocked(held[c], waiters, done, chan)
          /\ pc' = [pc EXCEPT ![c] = "idle"]
          /\ \A d \in Caller \ {c} : held'[d] = held[d]
      BY <2>2 DEF AbortLease, TypeOK
    <3> QED
      BY <3>1, GiveBackStep
  <2> QED
    BY <1>1, <2>1, <2>2, LeaseAccountStep, EnqueueWaiterStep, LeaseFailsStep,
       ReceiveStep, GiveUpStep, CancelStep DEF LeaseNext
<1>2. CASE CooldownNext
  <2>1. ASSUME NEW id \in AccountID, NEW d \in Durations, MarkRateLimited(id, d)
        PROVE  ProtocolInv' /\ ServiceStep
    BY <2>1, BystanderStep DEF MarkRateLimited
  <2>2. ASSUME NEW t \in Timer, TimerFires(t) \/ RecoverySkipped(t)
        PROVE  ProtocolInv' /\ ServiceStep
    BY <2>2, BystanderStep DEF TimerFires, RecoverySkipped
  <2>3. ASSUME Tick PROVE ProtocolInv' /\ ServiceStep
    BY <2>3, BystanderStep DEF Tick
  <2> QED
    BY <1>2, <2>1, <2>2, <2>3, RecoverAccountStep DEF CooldownNext
<1>3. CASE LoadNext
  <2>1. ASSUME NEW id \in AccountID, NEW until \in Time, LoadRateLimited(id, until)
        PROVE  ProtocolInv' /\ ServiceStep
    BY <2>1, AddAccountLockedCount, BystanderStep DEF LoadRateLimited
  <2>2. ASSUME NEW l \in loading, ReadLoaded(l) \/ ScheduleFutureRateLimit(l)
        PROVE  ProtocolInv' /\ ServiceStep
    BY <2>2, BystanderStep DEF ReadLoaded, ScheduleFutureRateLimit
  <2> QED
    BY <1>3, <2>1, <2>2 DEF LoadNext
<1>4. CASE AdminNext
  <2>1. ASSUME NEW id \in AccountID, NEW st \in Status, NEW until \in Time \cup {NoTime},
               AddAccount(id, st, until)
        PROVE  ProtocolInv' /\ ServiceStep
    BY <2>1, AddAccountLockedCount, BystanderStep DEF AddAccount
  <2>2. ASSUME NEW id \in AccountID, RemoveAccount(id) PROVE ProtocolInv' /\ ServiceStep
    BY <2>2, BystanderStep DEF RemoveAccount
  <2>3. ASSUME NEW id \in AccountID, MarkSignedOut(id) PROVE ProtocolInv' /\ ServiceStep
    BY <2>3, BystanderStep DEF MarkSignedOut
  <2>4. ASSUME GetPoolStats \/ Close PROVE ProtocolInv' /\ ServiceStep
    BY <2>4, BystanderStep DEF GetPoolStats, Close
  <2> QED
    BY <1>4, <2>1, <2>2, <2>3, <2>4 DEF AdminNext
<1>5. CASE UNCHANGED vars
  BY <1>5, BystanderStep DEF vars
<1> QED
  BY <1>1, <1>2, <1>3, <1>4, <1>5 DEF Next

-----------------------------------------------------------------------------
(* The inductive invariant and what follows from it. *)

LEMMA ServiceStepKeepsCount ==
  ASSUME TypeOK, InFlightBounded, LeaseConservation, ServiceStep
  PROVE  InFlightBounded' /\ LeaseConservation'
<1>1. CASE NoEffect
  BY <1>1, EffectsKeepCount
<1>2. CASE \E c \in Caller, s \in Slot : GrantEffect(c, s)
  BY <1>2, EffectsKeepCount
<1>3. CASE \E c \in Caller, s \in Slot : ReturnEffect(c, s)
  BY <1>3, EffectsKeepCount
<1>4. CASE \E c, w \in Caller, s \in Slot : TransferEffect(c, w, s)
  BY <1>4, EffectsKeepCount
<1> QED
  BY <1>1, <1>2, <1>3, <1>4 DEF ServiceStep, QueueStep

LEMMA LeaseInvInit == Init => LeaseInv
<1> SUFFICES ASSUME Init PROVE LeaseInv
  OBVIOUS
<1>1. TypeOK
  BY TypeInit
<1>2. /\ waiters = <<>> /\ Len(waiters) = 0
      /\ \A c \in Caller : pc[c] = "idle" /\ chan[c] = NoSlot
      /\ \A s \in Slot : inFlight[s] = 0
  BY DEF Init
<1>3. Range(waiters) = {}
  BY <1>1, <1>2, QueueOfCallers
<1>4. QueuedOnce
  BY <1>2 DEF QueuedOnce, IsInjective
<1>5. ProtocolInv
  BY <1>2, <1>3, <1>4
  DEF ProtocolInv, HoldersHold, SendNeverBlocks, NoWaiterDropped, WaiterProtocol
<1>6. \A s \in Slot : Owners(s) = {}
  BY <1>2, ConstantsAssumption DEF Owners, Owns
<1>7. Cardinality({}) = 0
  BY FS_EmptySet
<1>8. LeaseConservation
  BY <1>2, <1>6, <1>7 DEF LeaseConservation
<1>9. InFlightBounded
  BY <1>2, ConstantsAssumption DEF InFlightBounded
<1> QED
  BY <1>1, <1>5, <1>8, <1>9 DEF LeaseInv

LEMMA LeaseInvStep == LeaseInv /\ [Next]_vars => LeaseInv' /\ ServiceStep
<1> SUFFICES ASSUME LeaseInv, [Next]_vars PROVE LeaseInv' /\ ServiceStep
  OBVIOUS
<1>1. TypeOK'
  BY TypeStep DEF LeaseInv
<1>2. ProtocolInv' /\ ServiceStep
  BY <1>1, NextIsServiceStep DEF LeaseInv
<1>3. InFlightBounded' /\ LeaseConservation'
  BY <1>2, ServiceStepKeepsCount DEF LeaseInv
<1> QED
  BY <1>1, <1>2, <1>3 DEF LeaseInv

(* The inductive invariant holds in every reachable state. *)
THEOREM LeaseInvCorrect == Spec => []LeaseInv
<1>1. LeaseInv /\ [Next]_vars => LeaseInv'
  BY LeaseInvStep
<1> QED
  BY LeaseInvInit, <1>1, PTL DEF Spec

(* The counter of an account equals the number of its leases, for any number *)
(* of accounts, callers and timers (subpool.go:155-160, 193-196, 207-214).   *)
THEOREM LeasesConserved == Spec => []LeaseConservation
<1>1. LeaseInv => LeaseConservation
  BY DEF LeaseInv
<1> QED
  BY LeaseInvCorrect, <1>1, PTL

(* No account struct is ever leased to more than MaxInFlight callers         *)
(* (manager.go:30).                                                          *)
THEOREM LeasesExclusive == Spec => []ExclusiveLease
<1>1. LeaseInv => ExclusiveLease
  BY DEF LeaseInv, LeaseConservation, InFlightBounded, ExclusiveLease
<1> QED
  BY LeaseInvCorrect, <1>1, PTL

(* A send into w.ch under sp.mu never blocks (subpool.go:187, 272).          *)
THEOREM SendsNeverBlock == Spec => []SendNeverBlocks
<1>1. LeaseInv => SendNeverBlocks
  BY DEF LeaseInv, ProtocolInv
<1> QED
  BY LeaseInvCorrect, <1>1, PTL

(* A waiter that left the queue without giving up has been served            *)
(* (subpool.go:178-190, 262-275).                                            *)
THEOREM WaitersNeverDropped == Spec => []NoWaiterDropped
<1>1. LeaseInv => NoWaiterDropped
  BY DEF LeaseInv, ProtocolInv
<1> QED
  BY LeaseInvCorrect, <1>1, PTL

(* The deferred cancel() of a served waiter changes nothing (manager.go:228). *)
THEOREM WaitersFollowProtocol == Spec => []WaiterProtocol
<1>1. LeaseInv => WaiterProtocol
  BY DEF LeaseInv, ProtocolInv
<1> QED
  BY LeaseInvCorrect, <1>1, PTL

-----------------------------------------------------------------------------
(* The refinement. *)

(* The library operators LeaseService uses are those SubPool uses. *)
LEMMA SameOperators ==
  /\ \A S : LS!Cardinality(S) = Cardinality(S)
  /\ \A f : LS!Range(f) = Range(f)
  /\ \A q, e : LS!RemoveFirst(q, e) = RemoveFirst(q, e)
<1>1. \A S : LS!Cardinality(S) = Cardinality(S)
  BY DEF LS!Cardinality, Cardinality
<1>2. \A f : LS!Range(f) = Range(f)
  BY DEF LS!Range, Range
<1>3. \A q, e : LS!RemoveFirst(q, e) = RemoveFirst(q, e)
  BY DEF LS!RemoveFirst, RemoveFirst, LS!RemoveAt, RemoveAt, LS!SelectInSeq, SelectInSeq,
         LS!Min, Min
<1> QED
  BY <1>1, <1>2, <1>3

LEMMA IdleForService ==
  ASSUME NEW c \in Caller, c \notin Range(waiters), \A p \in Slot : c \notin Owners(p)
  PROVE  LS!Idle(c)
BY SameOperators DEF LS!Idle, ownersOf

LEMMA ServiceStepRefines == LeaseInv /\ ServiceStep => [LS!LSNext]_(LS!lsVars)
<1> SUFFICES ASSUME LeaseInv, ServiceStep PROVE [LS!LSNext]_(LS!lsVars)
  OBVIOUS
<1> USE DEF ownersOf
<1>0. \A p \in Slot : inFlight[p] = Cardinality(Owners(p))
  BY DEF LeaseInv, LeaseConservation
<1>1. NoEffect => ownersOf' = ownersOf
  BY DEF NoEffect
<1>2. CASE NoEffect /\ waiters' = waiters
  BY <1>1, <1>2 DEF LS!lsVars
<1>3. ASSUME NEW c \in Caller, QueueStep(c) PROVE LS!LSNext
  <2>1. CASE c \notin Range(waiters) /\ (\A s \in Slot : c \notin Owners(s))
             /\ waiters' = Append(waiters, c)
    BY <1>1, <1>3, <2>1, IdleForService DEF QueueStep, LS!LSNext, LS!Enqueue
  <2>2. CASE c \in Range(waiters) /\ waiters' = RemoveFirst(waiters, c)
    BY <1>1, <1>3, <2>2, SameOperators DEF QueueStep, LS!LSNext, LS!Abandon
  <2> QED
    BY <1>3, <2>1, <2>2 DEF QueueStep
<1>4. ASSUME NEW c \in Caller, NEW s \in Slot, GrantEffect(c, s), waiters' = waiters,
             c \notin Range(waiters), \A p \in Slot : c \notin Owners(p)
      PROVE  LS!LSNext
  <2>1. ownersOf' = [ownersOf EXCEPT ![s] = @ \cup {c}]
    BY <1>4 DEF GrantEffect
  <2>2. LS!HasRoom(s)
    BY <1>0, <1>4, SameOperators DEF GrantEffect, LS!HasRoom
  <2>3. LS!Grant(c, s)
    BY <1>4, <2>1, <2>2, IdleForService DEF LS!Grant
  <2> QED
    BY <2>3 DEF LS!LSNext
<1>5. ASSUME NEW c \in Caller, NEW s \in Slot, ReturnEffect(c, s), waiters' = waiters
      PROVE  LS!LSNext
  <2>1. ownersOf' = [ownersOf EXCEPT ![s] = @ \ {c}]
    BY <1>5 DEF ReturnEffect
  <2>2. LS!Return(c, s)
    BY <1>5, <2>1 DEF LS!Return, ReturnEffect
  <2> QED
    BY <2>2 DEF LS!LSNext
<1>6. ASSUME NEW c \in Caller, NEW s \in Slot, waiters # <<>>, waiters' = Tail(waiters),
             TransferEffect(c, Head(waiters), s)
      PROVE  LS!LSNext
  <2>1. ownersOf' = [ownersOf EXCEPT ![s] = (@ \ {c}) \cup {Head(waiters)}]
    BY <1>6 DEF TransferEffect
  <2>2. LS!Transfer(c, s)
    BY <1>6, <2>1 DEF LS!Transfer, TransferEffect
  <2> QED
    BY <2>2 DEF LS!LSNext
<1>7. ASSUME NEW s \in Slot, waiters # <<>>, waiters' = Tail(waiters),
             GrantEffect(Head(waiters), s)
      PROVE  LS!LSNext
  <2>1. ownersOf' = [ownersOf EXCEPT ![s] = @ \cup {Head(waiters)}]
    BY <1>7 DEF GrantEffect
  <2>2. LS!HasRoom(s)
    BY <1>0, <1>7, SameOperators DEF GrantEffect, LS!HasRoom
  <2>3. LS!Serve(s)
    BY <1>7, <2>1, <2>2 DEF LS!Serve
  <2> QED
    BY <2>3 DEF LS!LSNext
<1> QED
  BY <1>2, <1>3, <1>4, <1>5, <1>6, <1>7 DEF ServiceStep

(* The pool implements the lease service, for every value of the constants.  *)
THEOREM PoolImplementsLeaseService == Spec => ImplementsLeaseService
<1>1. Init => LS!LSInit
  <2> SUFFICES ASSUME Init PROVE LS!LSInit
    OBVIOUS
  <2>1. \A s \in Slot : Owners(s) = {}
    BY ConstantsAssumption DEF Init, Owners, Owns
  <2> QED
    BY <2>1 DEF LS!LSInit, ownersOf, Init
<1>2. LeaseInv /\ [Next]_vars => [LS!LSNext]_(LS!lsVars)
  BY LeaseInvStep, ServiceStepRefines
<1> QED
  BY <1>1, <1>2, LeaseInvCorrect, PTL DEF Spec, ImplementsLeaseService, LS!LSSpec
=============================================================================
