----------------------------- MODULE KeyResolver -----------------------------
(***************************************************************************)
(* The persistent master key (tier 5 of ResolveWithOptions in               *)
(* internal/config/key_resolver.go): processes that share a data directory  *)
(* create or read <DataDir>/.master.key, each with a cache, a lock per path  *)
(* and any number of goroutines.  One action is one file operation, or one  *)
(* critical section of the cache.  A process may crash between any two of   *)
(* them; the file remains.                                                  *)
(*                                                                         *)
(* Left out: tiers 1 to 4, which return before the first of these steps     *)
(* (KeySources has them), the directory that is created on the way, the      *)
(* clock (a reader that polls may give up at any time after 2 s) and the     *)
(* key's bytes: a key is a model value, different each time it is generated. *)
(***************************************************************************)
EXTENDS Integers, FiniteSets

CONSTANTS
  Process,
  Caller,       \* the goroutines that resolve the key
  ProcessOf,    \* ProcessOf[c] is the process of caller c
  Key,          \* the keys crypto/rand may generate
  MaxCrashes,   \* bound on the crashes
  NoKey, NoCaller

Absent == "absent"  \* no file
Empty  == "empty"   \* a file of 0 bytes

ASSUME KeyResolverAssumption ==
  /\ ProcessOf \in [Caller -> Process]
  /\ MaxCrashes \in Nat
  /\ Key \cap {NoKey, Absent, Empty} = {}
  /\ NoCaller \notin Caller

VARIABLES
  file,       \* the key file
  cachedKey,  \* r.cachedKeys of each process, for this path
  lock,       \* getKeyLock(canonicalPath) of each process
  pc,         \* where each caller is
  key,        \* the key a caller generated, read or returned
  used,       \* history: every key that was ever returned
  writeFailed, \* history: a write that left something in the file has failed,
               \* or the Sync or Close after a write
  crashes

kvars == <<file, cachedKey, lock, pc, key, used, writeFailed, crashes>>

Steps == {"idle", "waiting", "locked", "reading", "generating", "polling",
          "created", "written", "removing", "caching", "failed"}

(* The types of the file, the caches, the locks and the calls under way       *)
(* (key_resolver.go:64-89, 186-352).                                         *)
KTypeOK ==
  /\ file \in {Absent, Empty} \cup Key
  /\ cachedKey \in [Process -> Key \cup {NoKey}]
  /\ lock \in [Process -> Caller \cup {NoCaller}]
  /\ pc \in [Caller -> Steps]
  /\ key \in [Caller -> Key \cup {NoKey}]
  /\ used \subseteq Key
  /\ writeFailed \in BOOLEAN
  /\ crashes \in 0 .. MaxCrashes

KInit ==
  /\ file = Absent
  /\ cachedKey = [p \in Process |-> NoKey]
  /\ lock = [p \in Process |-> NoCaller]
  /\ pc = [c \in Caller |-> "idle"]
  /\ key = [c \in Caller |-> NoKey]
  /\ used = {}
  /\ writeFailed = FALSE
  /\ crashes = 0

Cached(c) == cachedKey[ProcessOf[c]]

Goto(c, next) == pc' = [pc EXCEPT ![c] = next]

Unlock(c) == lock' = [lock EXCEPT ![ProcessOf[c]] = NoCaller]

(* The call is over. *)
ReturnKey(c, k) == Goto(c, "idle") /\ key' = [key EXCEPT ![c] = NoKey]
                   /\ used' = used \cup {k}

-----------------------------------------------------------------------------
(* The fast path, and the lock. *)

HitCache(c) ==
  /\ pc[c] = "idle"
  /\ Cached(c) # NoKey
  /\ ReturnKey(c, Cached(c))
  /\ UNCHANGED <<file, cachedKey, lock, writeFailed, crashes>>

MissCache(c) ==
  /\ pc[c] = "idle"
  /\ Cached(c) = NoKey
  /\ Goto(c, "waiting")
  /\ UNCHANGED <<file, cachedKey, lock, key, used, writeFailed, crashes>>

Lock(c) ==
  /\ pc[c] = "waiting"
  /\ lock[ProcessOf[c]] = NoCaller
  /\ lock' = [lock EXCEPT ![ProcessOf[c]] = c]
  /\ Goto(c, "locked")
  /\ UNCHANGED <<file, cachedKey, key, used, writeFailed, crashes>>

(* The cache is looked at again under the lock. *)
HitCacheLocked(c) ==
  /\ pc[c] = "locked"
  /\ Cached(c) # NoKey
  /\ ReturnKey(c, Cached(c))
  /\ Unlock(c)
  /\ UNCHANGED <<file, cachedKey, writeFailed, crashes>>

(* Fault: the lock is not released on the way out with an error. *)
FailKeepsLock(c) ==
  /\ Goto(c, "failed")
  /\ key' = [key EXCEPT ![c] = NoKey]
  /\ UNCHANGED <<file, cachedKey, lock, used, writeFailed, crashes>>

Fail(c) ==
  /\ Goto(c, "failed")
  /\ key' = [key EXCEPT ![c] = NoKey]
  /\ Unlock(c)
  /\ UNCHANGED <<file, cachedKey, used, writeFailed, crashes>>

(* Stat decides between reading and generating, or fails. *)
Stat(c) ==
  /\ pc[c] = "locked"
  /\ Cached(c) = NoKey
  /\ \/ /\ Goto(c, IF file = Absent THEN "generating" ELSE "reading")
        /\ UNCHANGED <<file, cachedKey, lock, key, used, writeFailed, crashes>>
     \/ Fail(c)

-----------------------------------------------------------------------------
(* The file exists. *)

HasKey(c) == /\ file \in Key
             /\ key' = [key EXCEPT ![c] = file]
             /\ Goto(c, "caching")
             /\ UNCHANGED <<file, cachedKey, lock, used, writeFailed, crashes>>

(* One read; an empty file is read again later. *)
ReadFile(c) ==
  /\ pc[c] = "reading"
  /\ \/ HasKey(c)
     \/ /\ file = Empty
        /\ Goto(c, "polling")
        /\ UNCHANGED <<file, cachedKey, lock, key, used, writeFailed, crashes>>
     \/ Fail(c)

(* Fault: a reader that gives up removes the file it has found empty. *)
PollRemoves(c) ==
  /\ pc[c] = "polling"
  /\ \/ HasKey(c)
     \/ /\ Goto(c, "removing")
        /\ UNCHANGED <<file, cachedKey, lock, key, used, writeFailed, crashes>>

(* readExistingKeyWithRetry: read until there is a key, 2 s have passed or    *)
(* the context is done.                                                      *)
Poll(c) ==
  /\ pc[c] = "polling"
  /\ HasKey(c) \/ Fail(c)

CacheKey(c) ==
  /\ pc[c] = "caching"
  /\ cachedKey' = [cachedKey EXCEPT ![ProcessOf[c]] = key[c]]
  /\ ReturnKey(c, key[c])
  /\ Unlock(c)
  /\ UNCHANGED <<file, writeFailed, crashes>>

-----------------------------------------------------------------------------
(* The file does not exist. *)

(* A key nobody has seen. *)
Fresh(k) == /\ k \notin used
            /\ file # k
            /\ \A c \in Caller : key[c] # k

(* Fault: the file is opened without O_EXCL, an existing one truncated. *)
CreateOver(c) ==
  /\ pc[c] = "generating"
  /\ \E k \in Key : Fresh(k) /\ key' = [key EXCEPT ![c] = k]
  /\ file' = Empty
  /\ Goto(c, "created")
  /\ UNCHANGED <<cachedKey, lock, used, writeFailed, crashes>>

(* Fault: no key is generated, the write is of an empty variable. *)
CreateKeyless(c) ==
  /\ pc[c] = "generating"
  /\ file = Absent
  /\ file' = Empty
  /\ Goto(c, "created")
  /\ UNCHANGED <<cachedKey, lock, key, used, writeFailed, crashes>>

(* OpenFile with O_CREATE and O_EXCL, for a key generated before. *)
Create(c) ==
  /\ pc[c] = "generating"
  /\ \/ /\ file = Absent
        /\ \E k \in Key : Fresh(k) /\ key' = [key EXCEPT ![c] = k]
        /\ file' = Empty
        /\ Goto(c, "created")
        /\ UNCHANGED <<cachedKey, lock, used, writeFailed, crashes>>
     \/ /\ file # Absent
        /\ Goto(c, "polling")
        /\ UNCHANGED <<file, cachedKey, lock, key, used, writeFailed, crashes>>
     \/ Fail(c)

(* The key is in the file at once, and for every process to read.  A write     *)
(* that fails may leave a part of it, which a reader takes for a key.         *)
Write(c) ==
  /\ pc[c] = "created"
  /\ \/ file' = key[c] /\ Goto(c, "written") /\ UNCHANGED writeFailed
     \/ Goto(c, "removing") /\ UNCHANGED <<file, writeFailed>>
     \/ /\ \E part \in Key : Fresh(part) /\ file' = part
        /\ Goto(c, "removing")
        /\ writeFailed' = TRUE
  /\ UNCHANGED <<cachedKey, lock, key, used, crashes>>

(* Sync and Close. *)
Sync(c) ==
  /\ pc[c] = "written"
  /\ \/ Goto(c, "caching")
     \/ Goto(c, "removing")
  /\ writeFailed' = (writeFailed \/ pc'[c] = "removing")
  /\ UNCHANGED <<file, cachedKey, lock, key, used, crashes>>

(* The deferred Remove after a failure. *)
RemoveFile(c) ==
  /\ pc[c] = "removing"
  /\ file' = Absent
  /\ Goto(c, "failed")
  /\ key' = [key EXCEPT ![c] = NoKey]
  /\ Unlock(c)
  /\ UNCHANGED <<cachedKey, used, writeFailed, crashes>>

(* An error was returned: main exits; other callers may try again. *)
TryAgain(c) ==
  /\ pc[c] = "failed"
  /\ Goto(c, "idle")
  /\ UNCHANGED <<file, cachedKey, lock, key, used, writeFailed, crashes>>

Crash(p) ==
  LET Mine == {c \in Caller : ProcessOf[c] = p} IN
    /\ crashes < MaxCrashes
    /\ crashes' = crashes + 1
    /\ cachedKey' = [cachedKey EXCEPT ![p] = NoKey]
    /\ lock' = [lock EXCEPT ![p] = NoCaller]
    /\ pc' = [c \in Caller |-> IF c \in Mine THEN "idle" ELSE pc[c]]
    /\ key' = [c \in Caller |-> IF c \in Mine THEN NoKey ELSE key[c]]
    /\ UNCHANGED <<file, used, writeFailed>>

-----------------------------------------------------------------------------
CallStep(c) ==
  \/ HitCacheLocked(c) \/ Stat(c) \/ ReadFile(c) \/ Poll(c) \/ CacheKey(c)
  \/ Create(c) \/ Write(c) \/ Sync(c) \/ RemoveFile(c)

KNext == \/ \E c \in Caller : HitCache(c) \/ MissCache(c) \/ Lock(c)
                              \/ CallStep(c) \/ TryAgain(c)
         \/ \E p \in Process : Crash(p)

KSpec == KInit /\ [][KNext]_kvars

(* Goroutines run, and sync.Mutex starves nobody. *)
KFairSpec ==
  /\ KSpec
  /\ \A c \in Caller : WF_kvars(CallStep(c)) /\ SF_kvars(Lock(c))

-----------------------------------------------------------------------------
(* Properties. *)

(* "Verify every successful caller received the exact same key as persisted   *)
(* on disk" (key_resolver_adversarial_test.go:414): every key anyone was ever  *)
(* given, in whatever process and before or after a crash, is the key in the   *)
(* file, or it could not decrypt the secrets another has stored.  This is so   *)
(* unless a write, a Sync or a Close fails with something in the file: the     *)
(* Remove that follows takes away a key, or a part of one, that others may     *)
(* have read (key_resolver.go:320-334).                                      *)
KeyIsPersisted == writeFailed \/ \A k \in used : file = k

(* Of all callers in all processes at most one is between creating the file   *)
(* and the end of its call, so the Remove after a failed write deletes the    *)
(* remover's file and no other (key_resolver.go:296, 320-325).                *)
OneCreator ==
  Cardinality({c \in Caller : pc[c] \in {"created", "written", "removing"}}) <= 1

(* Every call returns, with a key or an error, however many callers queue at  *)
(* the lock and although the file may stay empty (key_resolver.go:213, 366).  *)
CallReturns == \A c \in Caller : (pc[c] = "waiting") ~> (pc[c] \in {"idle", "failed"})

(* "File is 0 bytes (transiently created by a racing process)" (key_resolver. *)
(* go:264): an empty file does not stay empty.                                *)
EmptyIsTransient == (file = Empty) ~> (file # Empty)
=============================================================================
