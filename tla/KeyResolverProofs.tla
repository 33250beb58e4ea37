-------------------------- MODULE KeyResolverProofs --------------------------
(***************************************************************************)
(* Proofs about KeyResolver, for every set of processes, callers and keys   *)
(* and any number of crashes.                                               *)
(***************************************************************************)
EXTENDS KeyResolver, FiniteSetTheorems, TLAPS

(***************************************************************************)
(* The inductive invariant.  A call that is about to write, to cache or to   *)
(* return a key has one; the file a call has created is there, as that call  *)
(* has left it; and until a write fails every key in a cache, in a call or in  *)
(* the hands of a former caller is the key in the file.                      *)
(***************************************************************************)
Creators == {c \in Caller : pc[c] \in {"created", "written", "removing"}}

CallsHaveKeys ==
  \A c \in Caller : pc[c] \in {"created", "written", "caching"} => key[c] \in Key

CreatorIsAlone == \A c, d \in Creators : c = d

CreatorsFile ==
  \A c \in Caller :
    /\ pc[c] = "created" => file = Empty
    /\ pc[c] = "written" => file = key[c]
    /\ pc[c] = "removing" => file # Absent /\ (writeFailed \/ file = Empty)

KeysAgree ==
  \/ writeFailed
  \/ /\ \A p \in Process : cachedKey[p] \in {NoKey, file}
     /\ \A c \in Caller : pc[c] = "caching" => key[c] = file
     /\ \A k \in used : file = k

KeyInv == KTypeOK /\ CallsHaveKeys /\ CreatorIsAlone /\ CreatorsFile /\ KeysAgree

-----------------------------------------------------------------------------
LEMMA KeyInvInit == KInit => KeyInv
<1> SUFFICES ASSUME KInit PROVE KeyInv
  OBVIOUS
<1>1. 0 \in 0 .. MaxCrashes
  BY KeyResolverAssumption
<1>2. KTypeOK
  BY <1>1 DEF KInit, KTypeOK, Steps
<1>3. CallsHaveKeys /\ CreatorIsAlone /\ CreatorsFile /\ KeysAgree
  BY DEF KInit, CallsHaveKeys, CreatorIsAlone, CreatorsFile, KeysAgree, Creators
<1> QED
  BY <1>2, <1>3 DEF KeyInv

LEMMA KeyInvStep == KeyInv /\ [KNext]_kvars => KeyInv'
<1> SUFFICES ASSUME KeyInv, [KNext]_kvars PROVE KeyInv'
  OBVIOUS
<1> USE KeyResolverAssumption
    DEF Goto, Unlock, ReturnKey, Fail, HasKey, Cached, Steps,
        KeyInv, KTypeOK, CallsHaveKeys, CreatorIsAlone, CreatorsFile, KeysAgree, Creators
<1>1. ASSUME NEW c \in Caller, HitCache(c) PROVE KeyInv'
  BY <1>1 DEF HitCache
<1>2. ASSUME NEW c \in Caller, MissCache(c) PROVE KeyInv'
  BY <1>2 DEF MissCache
<1>3. ASSUME NEW c \in Caller, Lock(c) PROVE KeyInv'
  BY <1>3 DEF Lock
<1>4. ASSUME NEW c \in Caller, HitCacheLocked(c) PROVE KeyInv'
  BY <1>4 DEF HitCacheLocked
<1>5. ASSUME NEW c \in Caller, Stat(c) PROVE KeyInv'
  BY <1>5 DEF Stat
<1>6. ASSUME NEW c \in Caller, ReadFile(c) PROVE KeyInv'
  BY <1>6 DEF ReadFile
<1>7. ASSUME NEW c \in Caller, Poll(c) PROVE KeyInv'
  BY <1>7 DEF Poll
<1>8. ASSUME NEW c \in Caller, CacheKey(c) PROVE KeyInv'
  BY <1>8 DEF CacheKey
<1>9. ASSUME NEW c \in Caller, Create(c) PROVE KeyInv'
  <2>1. CASE /\ file = Absent
             /\ \E k \in Key : Fresh(k) /\ key' = [key EXCEPT ![c] = k]
             /\ file' = Empty
             /\ Goto(c, "created")
             /\ UNCHANGED <<cachedKey, lock, used, writeFailed, crashes>>
    <3>1. PICK k \in Key : key' = [key EXCEPT ![c] = k]
      BY <2>1
    <3>2. Creators = {}
      BY <2>1 DEF Absent, Empty
    <3>3. Creators' = {c}
      BY <2>1, <3>2
    <3>4. KTypeOK' /\ CallsHaveKeys'
      BY <2>1, <3>1
    <3>5. CreatorIsAlone' /\ CreatorsFile'
      BY <2>1, <3>1, <3>3
    <3>6. KeysAgree'
      BY <2>1, <3>1
    <3> QED
      BY <3>4, <3>5, <3>6
  <2>2. CASE ~(file = Absent /\ file' = Empty)
    BY <1>9, <2>2 DEF Create
  <2> QED
    BY <1>9, <2>1, <2>2 DEF Create
<1>10. ASSUME NEW c \in Caller, Write(c) PROVE KeyInv'
  <2>1. CASE file' = key[c] /\ Goto(c, "written")
    <3>1. file = Empty /\ key[c] \in Key /\ file' \in Key
      BY <1>10, <2>1 DEF Write
    <3>2. CreatorIsAlone' /\ CreatorsFile'
      BY <1>10, <2>1 DEF Write
    <3>3. KeysAgree'
      BY <1>10, <2>1, <3>1 DEF Write
    <3>4. KTypeOK' /\ CallsHaveKeys'
      BY <1>10, <2>1, <3>1 DEF Write
    <3> QED
      BY <3>2, <3>3, <3>4
  <2>2. CASE Goto(c, "removing") /\ UNCHANGED <<file, writeFailed>>
    <3>1. file = Empty /\ Creators' = Creators
      BY <1>10, <2>2 DEF Write
    <3>2. CreatorIsAlone' /\ CreatorsFile'
      BY <1>10, <2>2, <3>1 DEF Write, Absent, Empty
    <3>3. KTypeOK' /\ CallsHaveKeys' /\ KeysAgree'
      BY <1>10, <2>2 DEF Write
    <3> QED
      BY <3>2, <3>3
  <2>3. ASSUME NEW part \in Key, file' = part, Goto(c, "removing"), writeFailed'
        PROVE  KeyInv'
    <3>1. Creators' = Creators
      BY <1>10, <2>3 DEF Write
    <3>2. CreatorIsAlone' /\ CreatorsFile'
      BY <1>10, <2>3, <3>1 DEF Write, Absent, Empty
    <3>3. KTypeOK' /\ CallsHaveKeys' /\ KeysAgree'
      BY <1>10, <2>3 DEF Write
    <3> QED
      BY <3>2, <3>3
  <2> QED
    BY <1>10, <2>1, <2>2, <2>3 DEF Write
<1>11. ASSUME NEW c \in Caller, Sync(c) PROVE KeyInv'
  BY <1>11 DEF Sync
<1>12. ASSUME NEW c \in Caller, RemoveFile(c) PROVE KeyInv'
  BY <1>12 DEF RemoveFile
<1>13. ASSUME NEW c \in Caller, TryAgain(c) PROVE KeyInv'
  BY <1>13 DEF TryAgain
<1>14. ASSUME NEW p \in Process, Crash(p) PROVE KeyInv'
  BY <1>14 DEF Crash
<1>15. CASE UNCHANGED kvars
  BY <1>15 DEF kvars
<1> QED
  BY <1>1, <1>2, <1>3, <1>4, <1>5, <1>6, <1>7, <1>8, <1>9, <1>10, <1>11, <1>12,
     <1>13, <1>14, <1>15 DEF KNext, CallStep

(* The invariant holds at every moment of every run (key_resolver.go:186-352). *)
THEOREM KeyInvCorrect == KSpec => []KeyInv
BY KeyInvInit, KeyInvStep, PTL DEF KSpec

LEMMA KeyInvGivesPersisted == KeyInv => KeyIsPersisted
BY DEF KeyInv, KeysAgree, KeyIsPersisted

LEMMA KeyInvGivesOneCreator == KeyInv => OneCreator
<1> SUFFICES ASSUME KeyInv PROVE Cardinality(Creators) <= 1
  BY DEF OneCreator, Creators
<1>1. CASE Creators = {}
  BY <1>1, FS_EmptySet
<1>2. ASSUME NEW c \in Creators PROVE Cardinality(Creators) <= 1
  <2>1. Creators = {c}
    BY DEF KeyInv, CreatorIsAlone
  <2>2. Cardinality({c}) = 1
    BY FS_Singleton
  <2> QED
    BY <2>1, <2>2
<1> QED
  BY <1>1, <1>2

(* Every key anybody was ever given is the key in the file, unless a write has *)
(* failed: in whatever process, before or after a crash, and whoever created  *)
(* the file (key_resolver.go:186-352).                                       *)
THEOREM KeysPersisted == KSpec => []KeyIsPersisted
BY KeyInvCorrect, KeyInvGivesPersisted, PTL

(* At most one call in all processes is between the creation of the file and  *)
(* its own end, so the deferred Remove takes away no file but the remover's   *)
(* (key_resolver.go:296-325).                                                *)
THEOREM CreatorIsUnique == KSpec => []OneCreator
BY KeyInvCorrect, KeyInvGivesOneCreator, PTL
=============================================================================
