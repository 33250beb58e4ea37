------------------------- MODULE PoolRotationProofs -------------------------
(***************************************************************************)
(* Proof that the circular scan starves no account, for every value of the  *)
(* constants of SubPool.  The argument is a measure: what the scan has       *)
(* granted past an account and the way it still has to go to reach it add up *)
(* to less than the length of the list.                                    *)
(***************************************************************************)
EXTENDS PoolRotation, SubPoolProofs

(* How far the scan, with its cursor there, is from position p of n. *)
Away(p, cursor, n) ==
  IF p - 1 >= cursor THEN p - 1 - cursor ELSE p - 1 - cursor + n

Distance(p) == Away(p, rrCursor, Len(accounts))

(* The inductive invariant. *)
Measured(s) ==
  /\ bypass[s] \in Nat
  /\ bypass[s] > 0 => s \in Pooled
  /\ \A p \in 1 .. Len(accounts) :
       accounts[p] = s => bypass[s] + Distance(p) < Len(accounts)

RotationInv == TypeOK /\ \A s \in Slot : Measured(s)

(* Round a circle of n places, less than one round further. *)
LEMMA AroundTheCircle ==
  ASSUME NEW n \in Nat, NEW a \in Nat, a < n + n
  PROVE  n > 0 => a % n = IF a < n THEN a ELSE a - n
OBVIOUS

LEMMA AwayInRange ==
  ASSUME NEW n \in Nat, NEW cursor \in Nat, cursor < n, NEW p \in 1 .. n
  PROVE  Away(p, cursor, n) \in 0 .. n - 1
BY DEF Away

(* The scan finds position p after as many iterations as it is away.        *)
LEMMA ScanReaches ==
  ASSUME NEW n \in Nat, NEW cursor \in Nat, cursor < n, NEW p \in 1 .. n
  PROVE  (cursor + Away(p, cursor, n)) % n = p - 1
<1>1. cursor + Away(p, cursor, n) = IF p - 1 >= cursor THEN p - 1 ELSE p - 1 + n
  BY DEF Away
<1> QED
  BY <1>1, AroundTheCircle

(* Granting an account that comes before p, it leaves the cursor nearer to p. *)
LEMMA ScanAdvances ==
  ASSUME NEW n \in Nat, NEW cursor \in Nat, cursor < n, NEW p \in 1 .. n,
         NEW i \in Nat, i < Away(p, cursor, n)
  PROVE  Away(p, (((cursor + i) % n) + 1) % n, n) < Away(p, cursor, n)
<1>1. Away(p, cursor, n) = IF p - 1 >= cursor THEN p - 1 - cursor ELSE p - 1 - cursor + n
  BY DEF Away
<1>2. CASE p - 1 >= cursor
  <2>1. i < p - 1 - cursor
    BY <1>1, <1>2
  <2>2. (cursor + i) % n = cursor + i /\ cursor + i + 1 < n
    BY <2>1, AroundTheCircle
  <2>3. (cursor + i + 1) % n = cursor + i + 1
    BY <2>2, AroundTheCircle
  <2>4. Away(p, cursor + i + 1, n) = p - 1 - (cursor + i + 1)
    BY <2>1 DEF Away
  <2> QED
    BY <1>1, <1>2, <2>2, <2>3, <2>4
<1>3. CASE p - 1 < cursor /\ cursor + i + 1 < n
  <2>1. (cursor + i) % n = cursor + i /\ (cursor + i + 1) % n = cursor + i + 1
    BY <1>3, AroundTheCircle
  <2>2. Away(p, cursor + i + 1, n) = p - 1 - (cursor + i + 1) + n
    BY <1>3 DEF Away
  <2> QED
    BY <1>1, <1>3, <2>1, <2>2
<1>4. CASE p - 1 < cursor /\ cursor + i + 1 = n
  <2>1. (cursor + i) % n = cursor + i /\ (cursor + i + 1) % n = 0
    BY <1>4, AroundTheCircle
  <2>2. Away(p, 0, n) = p - 1
    BY DEF Away
  <2> QED
    BY <1>1, <1>4, <2>1, <2>2
<1>5. CASE p - 1 < cursor /\ cursor + i >= n
  <2>1. i < p - 1 - cursor + n
    BY <1>1, <1>5
  <2>2. (cursor + i) % n = cursor + i - n
    BY <1>5, <2>1, AroundTheCircle
  <2>3. (cursor + i - n + 1) % n = cursor + i - n + 1
    BY <1>5, <2>1, AroundTheCircle
  <2>4. Away(p, cursor + i - n + 1, n) = p - 1 - (cursor + i - n + 1)
    BY <1>5, <2>1 DEF Away
  <2> QED
    BY <1>1, <1>5, <2>1, <2>2, <2>3, <2>4
<1> QED
  BY <1>2, <1>3, <1>4, <1>5

LEMMA CursorInList ==
  ASSUME TypeOK, NEW p \in 1 .. Len(accounts)
  PROVE  Len(accounts) \in Nat /\ rrCursor \in Nat /\ rrCursor < Len(accounts)
BY LenProperties DEF TypeOK

(* A lease brings the scan nearer to an available account it has not granted. *)
LEMMA GrantComesNearer ==
  ASSUME TypeOK, NEW c \in Caller, LeaseAccount(c),
         NEW p \in 1 .. Len(accounts), Available(accounts[p]), held'[c] # accounts[p]
  PROVE  Away(p, rrCursor', Len(accounts')) < Distance(p)
<1> DEFINE n == Len(accounts)
           d == Distance(p)
<1>1. n \in Nat /\ rrCursor \in Nat /\ rrCursor < n
  BY CursorInList
<1>2. d \in 0 .. n - 1 /\ ScanIndex(d) + 1 = p
  BY <1>1, AwayInRange, ScanReaches DEF Distance, ScanIndex
<1>3. PICK i \in 0 .. n - 1 :
         /\ ScanStopsAt(i)
         /\ held' = [held EXCEPT ![c] = accounts[ScanIndex(i) + 1]]
         /\ rrCursor' = (ScanIndex(i) + 1) % n
         /\ accounts' = accounts
  BY DEF LeaseAccount
<1>4. held'[c] = accounts[ScanIndex(i) + 1]
  BY <1>3 DEF TypeOK
<1> HIDE DEF d
<1>5. i # d
  BY <1>2, <1>4
<1>6. \A j \in 0 .. i - 1 : j # d
  BY <1>2, <1>3 DEF ScanStopsAt
<1>7. i \in Nat /\ i < d
  BY <1>1, <1>2, <1>5, <1>6
<1>8. rrCursor' = (((rrCursor + i) % n) + 1) % n
  BY <1>3 DEF ScanIndex
<1>9. Away(p, (((rrCursor + i) % n) + 1) % n, n) < Away(p, rrCursor, n)
  BY <1>1, <1>7, ScanAdvances DEF d, Distance
<1> QED
  BY <1>3, <1>8, <1>9 DEF d, Distance

LEMMA ScanGrantIsLease ==
  ASSUME TypeOK, [Next]_vars, NEW c \in Caller, ScanGrants(c)
  PROVE  LeaseAccount(c)
<1>1. pc[c] # "leased" /\ pc'[c] = "leased" /\ pc[c] # "waiting"
  BY DEF ScanGrants, CanCall
<1>2. ASSUME pc' = pc PROVE FALSE
  BY <1>1, <1>2
<1>3. ASSUME NEW d \in Caller, LeaseAccount(d) \/ EnqueueWaiter(d) \/ LeaseFails(d) \/ Receive(d)
      PROVE  LeaseAccount(c)
  BY <1>1, <1>3 DEF LeaseAccount, EnqueueWaiter, LeaseFails, Receive, TypeOK
<1>4. ASSUME NEW d \in Caller, AbortLease(d) \/ GiveUp(d) \/ Cancel(d) \/ Release(d)
      PROVE  FALSE
  BY <1>1, <1>4 DEF AbortLease, GiveUp, Cancel, Release, TypeOK, vars, callerVars
<1>5. ASSUME CooldownNext \/ LoadNext \/ AdminNext PROVE FALSE
  BY <1>2, <1>5
  DEF CooldownNext, LoadNext, AdminNext, MarkRateLimited, TimerFires, RecoverAccount,
      RecoverySkipped, Tick, LoadRateLimited, ReadLoaded, ScheduleFutureRateLimit, AddAccount,
      RemoveAccount, MarkSignedOut, GetPoolStats, Close, callerVars
<1>6. ASSUME UNCHANGED vars PROVE FALSE
  BY <1>2, <1>6 DEF vars, callerVars
<1> QED
  BY <1>3, <1>4, <1>5, <1>6 DEF Next, LeaseNext

LEMMA LeaseIsScanGrant ==
  ASSUME TypeOK, NEW c \in Caller, LeaseAccount(c)
  PROVE  ScanGrants(c)
BY DEF LeaseAccount, ScanGrants, TypeOK

(* What may happen to the list and the cursor but for a lease.               *)
LEMMA ListMoves ==
  ASSUME TypeOK, [Next]_vars, \A c \in Caller : ~LeaseAccount(c)
  PROVE  \/ UNCHANGED <<accounts, rrCursor>>
         \/ rrCursor' = rrCursor /\ \E s \in Slot \ Pooled : accounts' = Append(accounts, s)
         \/ Len(accounts') < Len(accounts)
<1>1. CASE LeaseNext \/ CooldownNext
  BY <1>1
  DEF LeaseNext, CooldownNext, EnqueueWaiter, LeaseFails, Receive, AbortLease, GiveUp, Cancel,
      Release, MarkRateLimited, TimerFires, RecoverAccount, RecoverySkipped, Tick, vars, poolVars
<1>2. CASE LoadNext
  BY <1>2
  DEF LoadNext, LoadRateLimited, ReadLoaded, ScheduleFutureRateLimit, AddAccountLocked,
      FreshSlot, poolVars
<1>3. ASSUME NEW id \in AccountID, RemoveAccount(id)
      PROVE  UNCHANGED <<accounts, rrCursor>> \/ Len(accounts') < Len(accounts)
  <2>1. /\ accounts' = WithoutID(accounts, id)
        /\ rrCursor' = IF rrCursor >= Len(accounts') THEN 0 ELSE rrCursor
    BY <1>3 DEF RemoveAccount
  <2>2. accounts \in Seq(Slot) /\ Len(accounts) \in Nat
    BY LenProperties DEF TypeOK
  <2>3. CASE accounts' = accounts
    BY <2>1, <2>2, <2>3 DEF TypeOK
  <2>4. CASE \E i \in 1 .. Len(accounts) : accounts' = RemoveAt(accounts, i)
    BY <2>2, <2>4, RemoveAtType
  <2> QED
    BY <2>1, <2>2, <2>3, <2>4, WithoutIDCases
<1>4. CASE AdminNext
  BY <1>3, <1>4
  DEF AdminNext, AddAccount, AddAccountLocked, FreshSlot, MarkSignedOut, GetPoolStats, Close, poolVars
<1>5. CASE UNCHANGED vars
  BY <1>5 DEF vars, poolVars
<1> QED
  BY <1>1, <1>2, <1>4, <1>5 DEF Next

LEMMA RotationStep ==
  ASSUME RotationInv, RotationNext, NEW s \in Slot
  PROVE  Measured(s)'
<1> USE DEF RotationInv
<1>1. TypeOK' /\ [Next]_vars
  BY TypeStep DEF RotationNext
<1>2. bypass'[s] =
        IF \/ \E c \in Caller : ScanGrants(c) /\ held'[c] = s
           \/ ~(s \in Pooled /\ Available(s))
           \/ ~(s \in Pooled /\ Available(s))'
           \/ Len(accounts') < Len(accounts)
        THEN 0
        ELSE IF \E c \in Caller : ScanGrants(c) THEN bypass[s] + 1 ELSE bypass[s]
  BY DEF RotationNext, CountBypass
<1>3. \A p \in 1 .. Len(accounts') : Away(p, rrCursor', Len(accounts')) \in 0 .. Len(accounts') - 1
  <2> SUFFICES ASSUME NEW p \in 1 .. Len(accounts')
               PROVE  Away(p, rrCursor', Len(accounts')) \in 0 .. Len(accounts') - 1
    OBVIOUS
  <2>1. Len(accounts') \in Nat /\ rrCursor' \in Nat /\ rrCursor' < Len(accounts')
    BY <1>1, LenProperties DEF TypeOK
  <2> QED
    BY <2>1, AwayInRange
<1>4. CASE bypass'[s] = 0
  <2>1. Len(accounts') \in Nat
    BY <1>1, LenProperties DEF TypeOK
  <2>2. \A p \in 1 .. Len(accounts') : bypass'[s] + Away(p, rrCursor', Len(accounts')) < Len(accounts')
    BY <1>3, <1>4, <2>1
  <2> QED
    BY <1>4, <2>2 DEF Measured, Distance
<1>5. CASE bypass'[s] # 0
  <2>1. /\ \A c \in Caller : ScanGrants(c) => held'[c] # s
        /\ s \in Pooled /\ Available(s)
        /\ s \in Pooled'
        /\ ~(Len(accounts') < Len(accounts))
    BY <1>2, <1>5
  <2>2. bypass[s] \in Nat /\ Len(accounts) \in Nat /\ Len(accounts') \in Nat
    BY <1>1, LenProperties DEF Measured, Distance, TypeOK
  <2>3. CASE \E c \in Caller : LeaseAccount(c)
    <3>1. PICK c \in Caller : LeaseAccount(c)
      BY <2>3
    <3>2. bypass'[s] = bypass[s] + 1 /\ held'[c] # s /\ accounts' = accounts
      BY <1>2, <1>5, <2>1, <3>1, LeaseIsScanGrant DEF LeaseAccount
    <3>3. ASSUME NEW p \in 1 .. Len(accounts'), accounts'[p] = s
          PROVE  bypass'[s] + Away(p, rrCursor', Len(accounts')) < Len(accounts')
      <4>1. p \in 1 .. Len(accounts) /\ accounts[p] = s
        BY <3>2, <3>3
      <4>2. Away(p, rrCursor', Len(accounts')) < Distance(p)
        BY <2>1, <3>1, <3>2, <4>1, GrantComesNearer
      <4>3. bypass[s] + Distance(p) < Len(accounts)
        BY <4>1 DEF Measured, Distance
      <4>4. Distance(p) \in Int /\ Away(p, rrCursor', Len(accounts')) \in Int
        BY <1>3, <3>3, <4>1, CursorInList, AwayInRange DEF Distance
      <4> QED
        BY <2>2, <3>2, <4>2, <4>3, <4>4
    <3> QED
      BY <2>1, <2>2, <3>2, <3>3 DEF Measured, Distance
  <2>4. CASE \A c \in Caller : ~LeaseAccount(c)
    <3>1. bypass'[s] = bypass[s]
      BY <1>1, <1>2, <1>5, <2>4, ScanGrantIsLease
    <3>2. CASE UNCHANGED <<accounts, rrCursor>>
      <4>1. \A p : Away(p, rrCursor', Len(accounts')) = Distance(p)
        BY <3>2 DEF Distance, Away
      <4> QED
        BY <2>1, <2>2, <3>1, <3>2, <4>1 DEF Measured, Distance
    <3>3. ASSUME rrCursor' = rrCursor, NEW x \in Slot \ Pooled, accounts' = Append(accounts, x)
          PROVE  Measured(s)'
      <4>1. /\ Len(accounts') = Len(accounts) + 1
            /\ \A p \in 1 .. Len(accounts) : accounts'[p] = accounts[p]
            /\ accounts'[Len(accounts) + 1] = x
        BY <3>3, AppendProperties DEF TypeOK
      <4>2. x # s
        BY <2>1, <3>3
      <4>3. ASSUME NEW p \in 1 .. Len(accounts'), accounts'[p] = s
            PROVE  bypass'[s] + Away(p, rrCursor', Len(accounts')) < Len(accounts')
        <5>1. p \in 1 .. Len(accounts) /\ accounts[p] = s
          BY <2>2, <4>1, <4>2, <4>3
        <5>2. bypass[s] + Distance(p) < Len(accounts)
          BY <5>1 DEF Measured, Distance
        <5>3. Distance(p) = IF p - 1 >= rrCursor THEN p - 1 - rrCursor
                            ELSE p - 1 - rrCursor + Len(accounts)
          BY DEF Distance, Away
        <5>4. Away(p, rrCursor', Len(accounts')) = IF p - 1 >= rrCursor THEN p - 1 - rrCursor
                             ELSE p - 1 - rrCursor + Len(accounts')
          BY <3>3 DEF Distance, Away
        <5>5. rrCursor \in Nat /\ p \in Nat
          BY <2>2, <5>1 DEF TypeOK
        <5> QED
          BY <2>2, <3>1, <4>1, <5>2, <5>3, <5>4, <5>5
      <4> QED
        BY <2>1, <2>2, <3>1, <4>3 DEF Measured, Distance
    <3> QED
      BY <1>1, <2>1, <2>4, <3>2, <3>3, ListMoves
  <2> QED
    BY <2>3, <2>4
<1> QED
  BY <1>4, <1>5

LEMMA RotationInvInit == RotationInit => RotationInv
<1> SUFFICES ASSUME RotationInit PROVE RotationInv
  OBVIOUS
<1>1. TypeOK
  BY TypeInit DEF RotationInit
<1>2. Len(accounts) = 0
  BY DEF RotationInit, Init
<1>3. \A s \in Slot : Measured(s)
  BY <1>2 DEF RotationInit, Measured
<1> QED
  BY <1>1, <1>3 DEF RotationInv

LEMMA RotationInvStep == RotationInv /\ [RotationNext]_<<vars, bypass>> => RotationInv'
<1> SUFFICES ASSUME RotationInv, [RotationNext]_<<vars, bypass>> PROVE RotationInv'
  OBVIOUS
<1>1. CASE RotationNext
  <2>1. TypeOK'
    BY <1>1, TypeStep DEF RotationInv, RotationNext
  <2>2. \A s \in Slot : Measured(s)'
    BY <1>1, RotationStep
  <2> QED
    BY <2>1, <2>2 DEF RotationInv
<1>2. CASE UNCHANGED <<vars, bypass>>
  <2>1. TypeOK'
    BY <1>2, TypeStep DEF RotationInv
  <2>2. \A s \in Slot : Measured(s)'
    BY <1>2 DEF RotationInv, Measured, Distance, Away, Pooled, vars, poolVars
  <2> QED
    BY <2>1, <2>2 DEF RotationInv
<1> QED
  BY <1>1, <1>2

(* Round robin, for any number of accounts: while an account can be leased,    *)
(* the scan grants fewer leases past it than there are accounts, whatever is    *)
(* added, leased, returned or paused meanwhile (scheduler.go:69-91).            *)
THEOREM ScanStarvesNobody == RotationSpec => []NoAccountStarved
<1>1. RotationInv => NoAccountStarved
  <2> SUFFICES ASSUME RotationInv, NEW s \in Slot, bypass[s] > 0
               PROVE  bypass[s] < Len(accounts)
    BY DEF NoAccountStarved
  <2>1. bypass[s] \in Nat /\ s \in Pooled /\ TypeOK
    BY DEF RotationInv, Measured
  <2>2. PICK p \in 1 .. Len(accounts) : accounts[p] = s
    BY <2>1, LenProperties DEF Pooled, Range, TypeOK
  <2>3. bypass[s] + Distance(p) < Len(accounts) /\ Distance(p) \in 0 .. Len(accounts) - 1
    BY <2>1, <2>2, CursorInList, AwayInRange DEF RotationInv, Measured, Distance
  <2>4. Len(accounts) \in Nat
    BY <2>1, LenProperties DEF TypeOK
  <2> QED
    BY <2>1, <2>3, <2>4
<1> QED
  BY <1>1, RotationInvInit, RotationInvStep, PTL DEF RotationSpec
=============================================================================
