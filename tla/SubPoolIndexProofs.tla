------------------------- MODULE SubPoolIndexProofs -------------------------
(***************************************************************************)
(* Proofs about the list and the index of SubPool, and about which accounts *)
(* are granted, for every value of the constants.                          *)
(***************************************************************************)
EXTENDS SubPoolProofs

-----------------------------------------------------------------------------
(* The list and the index agree. *)

(* Every listed account is the one its ID leads to. *)
ListIndexed == \A i \in 1 .. Len(accounts) : byID[IdOf[accounts[i]]] = accounts[i]

ListedOnce ==
  \A i, j \in 1 .. Len(accounts) : accounts[i] = accounts[j] => i = j

IndexKeyed == \A id \in AccountID : byID[id] # NoSlot => IdOf[byID[id]] = id

IndexInv == ListIndexed /\ ListedOnce /\ IndexKeyed

LEMMA ListOfSlots ==
  ASSUME TypeOK
  PROVE  /\ Len(accounts) \in Nat
         /\ \A i \in 1 .. Len(accounts) :
              accounts[i] \in Slot /\ IdOf[accounts[i]] \in AccountID
BY LenProperties, ConstantsAssumption DEF TypeOK

LEMMA IndexInit == Init => IndexInv
<1> SUFFICES ASSUME Init PROVE IndexInv
  OBVIOUS
<1>1. Len(accounts) = 0 /\ \A id \in AccountID : byID[id] = NoSlot
  BY DEF Init
<1> QED
  BY <1>1 DEF IndexInv, ListIndexed, ListedOnce, IndexKeyed

(* An account is only appended while no account is indexed under its ID, so   *)
(* that it is not in the list yet.                                          *)
LEMMA AddKeepsIndex ==
  ASSUME TypeOK, IndexInv, NEW id \in AccountID, NEW st, NEW until,
         AddAccountLocked(id, st, until)
  PROVE  IndexInv'
<1>1. CASE byID[id] # NoSlot
  <2>1. accounts' = accounts /\ byID' = byID
    BY <1>1 DEF AddAccountLocked
  <2> QED
    BY <2>1 DEF IndexInv, ListIndexed, ListedOnce, IndexKeyed
<1>2. CASE byID[id] = NoSlot
  <2>1. PICK s \in Slot : /\ IdOf[s] = id
                          /\ accounts' = Append(accounts, s)
                          /\ byID' = [byID EXCEPT ![id] = s]
    BY <1>2 DEF AddAccountLocked
  <2>2. /\ Len(accounts) \in Nat
        /\ \A i \in 1 .. Len(accounts) :
             accounts[i] \in Slot /\ IdOf[accounts[i]] \in AccountID
    BY ListOfSlots
  <2>3. /\ Len(accounts') = Len(accounts) + 1
        /\ \A i \in 1 .. Len(accounts) : accounts'[i] = accounts[i]
        /\ accounts'[Len(accounts) + 1] = s
    BY <2>1, AppendProperties DEF TypeOK
  <2>4. \A i \in 1 .. Len(accounts) : IdOf[accounts[i]] # id
    BY <1>2, <2>2, ConstantsAssumption DEF IndexInv, ListIndexed
  <2>5. byID'[id] = s /\ \A x \in AccountID \ {id} : byID'[x] = byID[x]
    BY <2>1 DEF TypeOK
  <2>6. \A i \in 1 .. Len(accounts') : i \in 1 .. Len(accounts) \/ i = Len(accounts) + 1
    BY <2>2, <2>3
  <2>7. ListIndexed'
    BY <2>1, <2>2, <2>3, <2>4, <2>5, <2>6 DEF IndexInv, ListIndexed
  <2>8. ListedOnce'
    BY <2>1, <2>3, <2>4, <2>6 DEF IndexInv, ListedOnce
  <2>9. IndexKeyed'
    BY <2>1, <2>5 DEF IndexInv, IndexKeyed
  <2> QED
    BY <2>7, <2>8, <2>9 DEF IndexInv
<1> QED
  BY <1>1, <1>2

(* The one account of an ID leaves the list together with its entry. *)
LEMMA RemoveKeepsIndex ==
  ASSUME TypeOK, IndexInv, NEW id \in AccountID, RemoveAccount(id)
  PROVE  IndexInv'
<1>1. /\ accounts' = WithoutID(accounts, id)
      /\ byID' = [byID EXCEPT ![id] = NoSlot]
  BY DEF RemoveAccount
<1>2. byID'[id] = NoSlot /\ \A x \in AccountID \ {id} : byID'[x] = byID[x]
  BY <1>1 DEF TypeOK
<1>3. /\ Len(accounts) \in Nat
      /\ \A i \in 1 .. Len(accounts) :
           accounts[i] \in Slot /\ IdOf[accounts[i]] \in AccountID
  BY ListOfSlots
<1>4. IndexKeyed'
  BY <1>2 DEF IndexInv, IndexKeyed
<1>5. CASE /\ accounts' = accounts
           /\ \A i \in 1 .. Len(accounts) : IdOf[accounts[i]] # id
  BY <1>2, <1>3, <1>4, <1>5 DEF IndexInv, ListIndexed, ListedOnce
<1>6. ASSUME NEW i \in 1 .. Len(accounts), IdOf[accounts[i]] = id,
             accounts' = RemoveAt(accounts, i)
      PROVE  IndexInv'
  <2> DEFINE old(j) == IF j < i THEN j ELSE j + 1
  <2>1. /\ Len(accounts') = Len(accounts) - 1
        /\ \A j \in 1 .. Len(accounts) - 1 :
             accounts'[j] = IF j < i THEN accounts[j] ELSE accounts[j + 1]
    BY <1>6, RemoveAtType DEF TypeOK
  <2>2. \A j \in 1 .. Len(accounts') : /\ old(j) \in 1 .. Len(accounts)
                                       /\ old(j) # i
                                       /\ accounts'[j] = accounts[old(j)]
    BY <1>3, <2>1
  <2>3. \A j, k \in 1 .. Len(accounts') : old(j) = old(k) => j = k
    BY <1>3, <2>1
  <2> HIDE DEF old
  <2>4. \A k \in 1 .. Len(accounts) : k # i => IdOf[accounts[k]] # id
    BY <1>6 DEF IndexInv, ListIndexed, ListedOnce
  <2>5. ListIndexed'
    <3> SUFFICES ASSUME NEW j \in 1 .. Len(accounts')
                 PROVE  byID'[IdOf[accounts'[j]]] = accounts'[j]
      BY DEF ListIndexed
    <3>1. /\ accounts'[j] = accounts[old(j)] /\ old(j) \in 1 .. Len(accounts)
          /\ IdOf[accounts[old(j)]] # id /\ IdOf[accounts[old(j)]] \in AccountID
      BY <1>3, <2>2, <2>4
    <3>2. byID[IdOf[accounts[old(j)]]] = accounts[old(j)]
      BY <3>1 DEF IndexInv, ListIndexed
    <3> QED
      BY <1>2, <3>1, <3>2
  <2>6. ListedOnce'
    BY <2>2, <2>3 DEF IndexInv, ListedOnce
  <2> QED
    BY <1>4, <2>5, <2>6 DEF IndexInv
<1> QED
  BY <1>1, <1>5, <1>6, WithoutIDCases DEF TypeOK

LEMMA IndexStep == TypeOK /\ IndexInv /\ [Next]_vars => IndexInv'
<1> SUFFICES ASSUME TypeOK, IndexInv, [Next]_vars PROVE IndexInv'
  OBVIOUS
<1>1. CASE UNCHANGED <<accounts, byID>>
  BY <1>1 DEF IndexInv, ListIndexed, ListedOnce, IndexKeyed
<1>2. CASE LeaseNext
  BY <1>1, <1>2
  DEF LeaseNext, LeaseAccount, EnqueueWaiter, LeaseFails, Receive, AbortLease, GiveUp,
      Cancel, Release, poolVars, vars
<1>3. CASE CooldownNext
  BY <1>1, <1>3
  DEF CooldownNext, MarkRateLimited, TimerFires, RecoverAccount, RecoverySkipped, Tick,
      poolVars
<1>4. CASE LoadNext
  BY <1>1, <1>4, AddKeepsIndex
  DEF LoadNext, LoadRateLimited, ReadLoaded, ScheduleFutureRateLimit, poolVars
<1>5. CASE AdminNext
  BY <1>1, <1>5, AddKeepsIndex, RemoveKeepsIndex
  DEF AdminNext, AddAccount, MarkSignedOut, GetPoolStats, Close, poolVars
<1>6. CASE UNCHANGED vars
  BY <1>1, <1>6 DEF vars, poolVars
<1> QED
  BY <1>2, <1>3, <1>4, <1>5, <1>6 DEF Next

(* The list never holds an ID twice, nor an account its index does not lead   *)
(* to, however often accounts are added, loaded and removed (subpool.go:48-   *)
(* 61, 64-87).                                                              *)
THEOREM IndexCorrect == Spec => []IndexInv
<1>1. TypeOK /\ TypeOK' /\ IndexInv /\ [Next]_vars => IndexInv'
  BY IndexStep
<1> QED
  BY IndexInit, TypeCorrect, <1>1, PTL DEF Spec

-----------------------------------------------------------------------------
(* Which accounts are granted. *)

ReadyGrant ==
  \A c \in Caller, s \in Slot :
    (~Owns(c, s) /\ Owns(c, s)') => status'[s] = "ready" /\ byID'[IdOf[s]] = s

(* A hand-over gives one caller one slot, which is ready and in the pool. *)
LEMMA HandOverGrants ==
  ASSUME TypeOK, NEW s, NEW q \in Seq(Caller), NEW dn,
         NEW ch \in [Caller -> Slot \cup {NoSlot}], HandOver(s, q, dn, ch),
         \A d \in Caller : ch[d] \in {chan[d], NoSlot},
         \A d \in Caller, p \in Slot :
           (pc'[d] \in {"leased", "aborting"} /\ held'[d] = p) => Owns(d, p),
         s \in Slot => status'[s] = "ready" /\ byID'[IdOf[s]] = s
  PROVE  ReadyGrant
<1>1. PICK k \in 1 .. Len(q) : chan' = [ch EXCEPT ![q[k]] = s]
  BY DEF HandOver
<1>2. \A d \in Caller : chan'[d] \in {chan[d], NoSlot, s}
  BY <1>1
<1> QED
  BY <1>2, ConstantsAssumption DEF ReadyGrant, Owns

LEMMA NoHandOverGrants ==
  ASSUME \A d \in Caller : chan'[d] \in {chan[d], NoSlot},
         \A d \in Caller, p \in Slot :
           (pc'[d] \in {"leased", "aborting"} /\ held'[d] = p) => Owns(d, p)
  PROVE  ReadyGrant
BY ConstantsAssumption DEF ReadyGrant, Owns

LEMMA ReleaseGrants ==
  ASSUME TypeOK, NEW s, NEW q \in Seq(Caller), NEW dn,
         NEW ch \in [Caller -> Slot \cup {NoSlot}], ReleaseLocked(s, q, dn, ch),
         \A d \in Caller : ch[d] \in {chan[d], NoSlot},
         \A d \in Caller, p \in Slot :
           (pc'[d] \in {"leased", "aborting"} /\ held'[d] = p) => Owns(d, p),
         UNCHANGED <<byID, status>>
  PROVE  ReadyGrant
<1>1. CASE MayHandOver(s) /\ HandOver(s, q, dn, ch)
  <2>1. status'[s] = "ready" /\ byID'[IdOf[s]] = s
    BY <1>1 DEF MayHandOver
  <2> QED
    BY <1>1, <2>1, HandOverGrants
<1>2. CASE chan' = ch
  BY <1>2, NoHandOverGrants
<1> QED
  BY <1>1, <1>2 DEF ReleaseLocked

(* The scan grants what is ready after the lazy recovery. *)
LEMMA ScanGrants ==
  ASSUME TypeOK, IndexInv, NEW c \in Caller, LeaseAccount(c)
  PROVE  ReadyGrant
<1>1. PICK i \in 0 .. Len(accounts) - 1 :
         /\ ScanStopsAt(i)
         /\ held' = [held EXCEPT ![c] = accounts[ScanIndex(i) + 1]]
  BY DEF LeaseAccount
<1> DEFINE k == ScanIndex(i) + 1
           s == accounts[k]
<1>2. k \in 1 .. Len(accounts) /\ s \in Slot
  <2>1. Len(accounts) \in Nat /\ ScanIndex(i) \in 0 .. Len(accounts) - 1 /\ s \in Slot
    BY ScanInRange, ListOfSlots
  <2> HIDE DEF s
  <2> QED
    BY <2>1
<1>3. s \in Pooled
  <2>1. DOMAIN accounts = 1 .. Len(accounts)
    BY LenProperties DEF TypeOK
  <2> HIDE DEF k
  <2> QED
    BY <1>2, <2>1 DEF Pooled, Range
<1>4. byID[IdOf[s]] = s
  <2> HIDE DEF k
  <2> QED
    BY <1>2 DEF IndexInv, ListIndexed
<1>5. StatusAfterRecovery(s) = "ready"
  BY <1>1 DEF ScanStopsAt, Available
<1>6. /\ held' = [held EXCEPT ![c] = s]
      /\ pc' = [pc EXCEPT ![c] = "leased"]
      /\ chan' = chan /\ byID' = byID
      /\ LazyRecover
  BY <1>1 DEF LeaseAccount, waitVars
<1> HIDE DEF s, k
<1>7. status'[s] = "ready"
  BY <1>2, <1>3, <1>5, <1>6 DEF LazyRecover, StatusAfterRecovery
<1>8. \A d \in Caller, p \in Slot : Owns(d, p)' => Owns(d, p) \/ p = s
  BY <1>6 DEF Owns, TypeOK
<1> QED
  BY <1>4, <1>6, <1>7, <1>8 DEF ReadyGrant

(* A timer grants the account its ID leads to, which it has just made ready. *)
LEMMA RecoveryGrants ==
  ASSUME TypeOK, IndexInv, NEW t \in Timer, RecoverAccount(t)
  PROVE  ReadyGrant
<1> DEFINE s == byID[timer[t].id]
<1>1. timer[t].id \in AccountID
  BY DEF RecoverAccount, TypeOK, PendingTimer, IdleTimer
<1>2. s \in Slot /\ IdOf[s] = timer[t].id
  BY <1>1 DEF RecoverAccount, RecoveryDue, IndexInv, IndexKeyed, TypeOK
<1>3. /\ status' = [status EXCEPT ![s] = "ready"]
      /\ byID' = byID /\ pc' = pc /\ held' = held
  BY DEF RecoverAccount, poolVars, callerVars
<1>4. status'[s] = "ready" /\ byID'[IdOf[s]] = s
  BY <1>2, <1>3 DEF TypeOK
<1>5. HandOver(s, waiters, done, chan) \/ chan' = chan
  BY DEF RecoverAccount, waitVars
<1>6. waiters \in Seq(Caller) /\ chan \in [Caller -> Slot \cup {NoSlot}]
  BY DEF TypeOK
<1>7. \A d \in Caller, p \in Slot :
        (pc'[d] \in {"leased", "aborting"} /\ held'[d] = p) => Owns(d, p)
  BY <1>3 DEF Owns
<1> HIDE DEF s
<1>8. CASE HandOver(s, waiters, done, chan)
  BY <1>4, <1>6, <1>7, <1>8, HandOverGrants
<1>9. CASE chan' = chan
  BY <1>7, <1>9, NoHandOverGrants
<1> QED
  BY <1>5, <1>8, <1>9

LEMMA CancelGrants ==
  ASSUME TypeOK, NEW c \in Caller, Cancel(c)
  PROVE  ReadyGrant
<1> DEFINE q  == RemoveFirst(waiters, c)
           dn == [done EXCEPT ![c] = TRUE]
           ch == [chan EXCEPT ![c] = NoSlot]
<1>1. q \in Seq(Caller)
  BY RemoveFirstType DEF TypeOK
<1>2. /\ ch \in [Caller -> Slot \cup {NoSlot}]
      /\ \A d \in Caller : ch[d] \in {chan[d], NoSlot}
  BY DEF TypeOK
<1>3. \A d \in Caller, p \in Slot :
        (pc'[d] \in {"leased", "aborting"} /\ held'[d] = p) => Owns(d, p)
  BY DEF Cancel, Owns, TypeOK
<1>4. UNCHANGED <<byID, status>>
  BY DEF Cancel, poolVars, healthVars
<1>5. ReleaseLocked(chan[c], q, dn, ch) \/ chan' = chan
  BY DEF Cancel
<1> HIDE DEF q, dn, ch
<1>6. CASE ReleaseLocked(chan[c], q, dn, ch)
  BY <1>1, <1>2, <1>3, <1>4, <1>6, ReleaseGrants
<1>7. CASE chan' = chan
  BY <1>3, <1>7, NoHandOverGrants
<1> QED
  BY <1>5, <1>6, <1>7

LEMMA LeaseNextGrants ==
  ASSUME TypeOK, IndexInv, LeaseNext
  PROVE  ReadyGrant
<1>1. waiters \in Seq(Caller) /\ chan \in [Caller -> Slot \cup {NoSlot}]
  BY DEF TypeOK
<1>2. ASSUME NEW c \in Caller, EnqueueWaiter(c) \/ LeaseFails(c) \/ GiveUp(c)
      PROVE  ReadyGrant
  <2>1. chan' = chan
    BY <1>2 DEF EnqueueWaiter, LeaseFails, GiveUp, waitVars
  <2>2. \A d \in Caller, p \in Slot :
          (pc'[d] \in {"leased", "aborting"} /\ held'[d] = p) => Owns(d, p)
    BY <1>2 DEF EnqueueWaiter, LeaseFails, GiveUp, Owns, TypeOK
  <2> QED
    BY <2>1, <2>2, NoHandOverGrants
<1>3. ASSUME NEW c \in Caller, Receive(c) PROVE ReadyGrant
  <2>1. \A d \in Caller : chan'[d] \in {chan[d], NoSlot}
    BY <1>3 DEF Receive, TypeOK
  <2>2. \A d \in Caller, p \in Slot :
          (pc'[d] \in {"leased", "aborting"} /\ held'[d] = p) => Owns(d, p)
    BY <1>3 DEF Receive, Owns, TypeOK
  <2> QED
    BY <2>1, <2>2, NoHandOverGrants
<1>4. ASSUME NEW c \in Caller, AbortLease(c) \/ Release(c) PROVE ReadyGrant
  <2>1. \A d \in Caller, p \in Slot :
          (pc'[d] \in {"leased", "aborting"} /\ held'[d] = p) => Owns(d, p)
    BY <1>4 DEF AbortLease, Release, Owns, TypeOK, vars, callerVars
  <2>2. CASE ReleaseLocked(held[c], waiters, done, chan) /\ UNCHANGED <<byID, status>>
    BY <1>1, <2>1, <2>2, ReleaseGrants
  <2>3. CASE chan' = chan
    BY <2>1, <2>3, NoHandOverGrants
  <2> QED
    BY <1>4, <2>2, <2>3 DEF AbortLease, Release, poolVars, healthVars, vars, waitVars
<1> QED
  BY <1>2, <1>3, <1>4, ScanGrants, CancelGrants DEF LeaseNext

LEMMA OthersGrantNothing ==
  ASSUME UNCHANGED <<callerVars, waitVars>>
  PROVE  ReadyGrant
BY DEF ReadyGrant, Owns, callerVars, waitVars

LEMMA NextGrants == TypeOK /\ IndexInv /\ [Next]_vars => ReadyGrant
<1> SUFFICES ASSUME TypeOK, IndexInv, [Next]_vars PROVE ReadyGrant
  OBVIOUS
<1>1. CASE LeaseNext
  BY <1>1, LeaseNextGrants
<1>2. CASE CooldownNext
  BY <1>2, RecoveryGrants, OthersGrantNothing
  DEF CooldownNext, MarkRateLimited, TimerFires, RecoverySkipped, Tick
<1>3. CASE LoadNext
  BY <1>3, OthersGrantNothing
  DEF LoadNext, LoadRateLimited, ReadLoaded, ScheduleFutureRateLimit
<1>4. CASE AdminNext
  BY <1>4, OthersGrantNothing
  DEF AdminNext, AddAccount, RemoveAccount, MarkSignedOut, GetPoolStats, Close
<1>5. CASE UNCHANGED vars
  BY <1>5, OthersGrantNothing DEF vars
<1> QED
  BY <1>1, <1>2, <1>3, <1>4, <1>5 DEF Next

(* Whoever comes to own an account gets one that is ready and in the pool at   *)
(* that moment, whatever happened to it while others leased it (subpool.go:   *)
(* 177, 256-275, scheduler.go:74).                                           *)
THEOREM GrantsAreReady == Spec => OnlyReadyGranted
<1>1. TypeOK /\ IndexInv /\ [Next]_vars => [ReadyGrant]_vars
  BY NextGrants
<1> QED
  BY TypeCorrect, IndexCorrect, <1>1, PTL DEF Spec, OnlyReadyGranted, ReadyGrant
=============================================================================
