----------------------------- MODULE KeySources ------------------------------
(***************************************************************************)
(* Where a process gets its master key (ResolveWithOptions with all five        *)
(* tiers, internal/config/key_resolver.go, after Load), and what becomes of     *)
(* the secrets it encrypts with it (internal/security/crypto.go,                *)
(* internal/storage/sqlite/secrets_repo.go).  Processes with one data           *)
(* directory and one database start, crash and start again, each from the       *)
(* sources it was installed with.  Tier 5 is KeyResolver.                       *)
(*                                                                           *)
(* A secret is the row of one account: two blobs, each with the tag of its      *)
(* cipher and the key it was sealed with, which is all that decides whether     *)
(* it can be opened.  DPAPI belongs to the Windows user all processes share.    *)
(***************************************************************************)
EXTENDS KeyResolver, Configuration

CONSTANTS
  Starts,     \* the [Process -> sources] that are installed
  Path,       \* the key files an operator may name
  Content,    \* Content[f] is what a read of f gives, an error or blanks included
  GivenKey,   \* the keys an operator may give
  NoSecret

(* A layer names keys and key files an operator may give. *)
NamesGiven(layer) ==
  /\ Says(layer, "master_key") => layer["master_key"] \in GivenKey
  /\ Says(layer, "master_key_file") => layer["master_key_file"] \in Path

ASSUME KeySourcesAssumption ==
  /\ Content \in [Path -> GivenKey \cup {"blank", "unreadable"}]
  /\ GivenKey \cap (Key \cup {NoKey}) = {}
  /\ "" \notin GivenKey \cup Path
  /\ \A s \in Starts, p \in Process :
       /\ NamesGiven(s[p].args) /\ NamesGiven(s[p].env)
       /\ s[p].json = "read" => NamesGiven(s[p].file)
  /\ \A s \in Starts, p, q \in Process :
       Load(s[p])["data_dir"] = Load(s[q])["data_dir"]

VARIABLES
  start,   \* the sources of each process
  master,  \* cfg.Security.MasterKey of a process that runs, of which its cipher is made
  secret   \* the account's row in account_secrets

svars == <<kvars, start, master, secret>>

Tags == {"dpapi", "aes"}
Blob == [tag : Tags, key : Key \cup GivenKey]

(* Types of the start's sources, the resolved keys and the row                *)
(* (key_resolver.go:46-62, crypto.go:117-121, secrets_repo.go:14-20).         *)
STypeOK ==
  /\ KTypeOK
  /\ start \in Starts
  /\ master \in [Process -> Key \cup GivenKey \cup {NoKey}]
  /\ secret \in [cookies : Blob, tokens : Blob, by : Process] \cup {NoSecret}

SInit ==
  /\ KInit
  /\ start \in Starts
  /\ master = [p \in Process |-> NoKey]
  /\ secret = NoSecret

-----------------------------------------------------------------------------
(* Tiers 1 to 4. *)

Config(p) == Load(start[p])

(* The first three tiers: the flag, the environment, which the resolver reads *)
(* itself, and the configuration.                                            *)
KeyGiven(p) ==
  LET flag == Candidate(start[p].args, "master_key")
      env  == Candidate(start[p].env, "master_key")
      cfg  == Candidate(Config(p), "master_key")
  IN  FirstGiven(<<flag, env, cfg>>, "")

KeyFile(p) ==
  LET flag == Candidate(start[p].args, "master_key_file")
      env  == Candidate(start[p].env, "master_key_file")
      cfg  == Candidate(Config(p), "master_key_file")
  IN  FirstGiven(<<flag, env, cfg>>, "")

Persistent(p) == KeyGiven(p) = "" /\ KeyFile(p) = ""

(* The process has a key, and makes its cipher of the first it gets. *)
Resolved(p, k) == master' = [master EXCEPT ![p] = IF @ = NoKey THEN k ELSE @]

ResolveGiven(c) ==
  LET p == ProcessOf[c] IN
    /\ pc[c] = "idle"
    /\ ~LoadFails(start[p])
    /\ KeyGiven(p) # ""
    /\ Resolved(p, KeyGiven(p))
    /\ UNCHANGED <<kvars, start, secret>>

ReadKeyFile(c) ==
  LET p == ProcessOf[c] IN
    /\ pc[c] = "idle"
    /\ ~LoadFails(start[p])
    /\ KeyGiven(p) = "" /\ KeyFile(p) # ""
    /\ \/ /\ Content[KeyFile(p)] \in GivenKey
          /\ Resolved(p, Content[KeyFile(p)])
          /\ UNCHANGED kvars
       \/ /\ Goto(c, "failed")
          /\ UNCHANGED <<file, cachedKey, lock, key, used, writeFailed, crashes, master>>
    /\ UNCHANGED <<start, secret>>

-----------------------------------------------------------------------------
(* Tier 5: KeyResolver's steps.  A call that returns a key returns the one     *)
(* that is cached then.                                                       *)

MayCreate(c) == Persistent(ProcessOf[c]) /\ ~LoadFails(start[ProcessOf[c]])

ReturnPersistent(c) ==
  /\ HitCache(c) \/ HitCacheLocked(c) \/ CacheKey(c)
  /\ Resolved(ProcessOf[c], cachedKey'[ProcessOf[c]])
  /\ UNCHANGED <<start, secret>>

ResolvePersistent(c) ==
  /\ \/ MissCache(c) /\ MayCreate(c)
     \/ Stat(c) \/ ReadFile(c) \/ Poll(c)
     \/ Create(c) \/ Write(c) \/ Sync(c) \/ RemoveFile(c)
  /\ UNCHANGED <<start, master, secret>>

TakeLock(c) == Lock(c) /\ UNCHANGED <<start, master, secret>>

CallAgain(c) == TryAgain(c) /\ UNCHANGED <<start, master, secret>>

-----------------------------------------------------------------------------
(* Secrets. *)

(* NewAdaptiveCipher. *)
PreferDPAPI(p) == Config(p)["use_dpapi"] /\ Windows

(* DPAPI may fail, AES-GCM takes its place. *)
Encrypt(p) ==
  {[tag |-> t, key |-> master[p]] :
     t \in IF PreferDPAPI(p) THEN {"dpapi", "aes"} ELSE {"aes"}}

(* Fault: the cipher a process prefers is the only one it decrypts with. *)
DecryptPreferred(p, blob) ==
  IF PreferDPAPI(p) THEN blob.tag = "dpapi"
  ELSE blob.tag = "aes" /\ blob.key = master[p]

(* By the tag, whatever the process prefers to encrypt with. *)
Decrypt(p, blob) ==
  IF blob.tag = "aes" THEN blob.key = master[p] ELSE Windows

SaveAccountSecrets(p) ==
  /\ master[p] # NoKey
  /\ \E c \in Encrypt(p), t \in Encrypt(p) :
       secret' = [cookies |-> c, tokens |-> t, by |-> p]
  /\ UNCHANGED <<kvars, start, master>>

DeleteAccountSecrets(p) ==
  /\ master[p] # NoKey
  /\ secret' = NoSecret
  /\ UNCHANGED <<kvars, start, master>>

(* GetAccountSecrets succeeds only if it can open both blobs. *)
GetAccountSecrets(p) == Decrypt(p, secret.cookies) /\ Decrypt(p, secret.tokens)

CrashProcess(p) ==
  /\ Crash(p)
  /\ master' = [master EXCEPT ![p] = NoKey]
  /\ UNCHANGED <<start, secret>>

-----------------------------------------------------------------------------
SNext ==
  \/ \E c \in Caller : \/ ResolveGiven(c) \/ ReadKeyFile(c)
                       \/ ReturnPersistent(c) \/ ResolvePersistent(c)
                       \/ TakeLock(c) \/ CallAgain(c)
  \/ \E p \in Process : \/ SaveAccountSecrets(p) \/ DeleteAccountSecrets(p)
                        \/ CrashProcess(p)

SSpec == SInit /\ [][SNext]_svars

(* As in KeyResolver: goroutines run, and sync.Mutex starves nobody. *)
InCall(c) == pc[c] \notin {"idle", "waiting", "failed"}

SFairSpec ==
  /\ SSpec
  /\ \A c \in Caller :
       /\ WF_svars(InCall(c) /\ (ReturnPersistent(c) \/ ResolvePersistent(c)))
       /\ SF_svars(TakeLock(c))

-----------------------------------------------------------------------------
(* Properties. *)

(* Who wins among all that may name a key: Load and the resolver's tiers        *)
(* together come to this order.  The key file of the command line stands        *)
(* above the configuration's key, as Load clears it, and below the              *)
(* environment's, which the resolver reads again (config.go:171-179,            *)
(* key_resolver.go:118-184).                                                  *)
KeyOrder(p) ==
  LET s == start[p]
      InFile(f) == IF f = "" THEN NoKey ELSE Content[f]
      Key1(layer) == Candidate(layer, "master_key")
      File1(x) == <<x[1] /\ x[2] # "", InFile(x[2])>>
      FromJSON(name) == LET x == FileCandidate(s, name) IN <<x[1] /\ x[2] # "", x[2]>>
  IN  FirstGiven(<<Key1(s.args), Key1(s.env),
                   File1(Candidate(s.args, "master_key_file")),
                   FromJSON("master_key"),
                   File1(Candidate(s.env, "master_key_file")),
                   File1(FileCandidate(s, "master_key_file"))>>, NoKey)

(* A process that runs has the key of its strongest source, after any number   *)
(* of crashes and in whatever order its goroutines resolve it, and a generated *)
(* one only if none is named.                                                *)
StrongestKeyUsed ==
  \A p \in Process : master[p] # NoKey =>
    IF KeyOrder(p) = NoKey THEN master[p] \in Key ELSE master[p] = KeyOrder(p)

(* Every setting of a start has the value of its strongest layer, though some  *)
(* are kept in three fields that Load has to bring into line, and GetManifests- *)
(* Dir then reads the first of them (config.go:52-67, 96-234).                 *)
SettingsByPrecedence ==
  \A p \in Process :
    /\ \A s \in PlainSetting : Config(p)[s] = PlainPrecedence(start[p], s)
    /\ GetManifestsDir(Config(p)) = ManifestsPrecedence(start[p])
    /\ Config(p)["use_dpapi"] = DPAPIPrecedence(start[p])

(* Secrets can be read by every process whose key comes from the same source as *)
(* their writer's, and by the writer itself after a crash, also if one prefers  *)
(* DPAPI and the other does not, and while other processes race to create the   *)
(* key, unless one of them failed to write it (crypto.go:143-174,               *)
(* secrets_repo.go:41-59, key_resolver.go:186-352).                             *)
SecretsReadable ==
  \A p \in Process :
    (/\ secret # NoSecret
     /\ master[p] # NoKey
     /\ ~writeFailed
     /\ KeyOrder(p) = KeyOrder(secret.by)) => GetAccountSecrets(p)
=============================================================================
