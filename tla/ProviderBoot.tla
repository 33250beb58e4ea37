---------------------------- MODULE ProviderBoot ----------------------------
(***************************************************************************)
(* The start of the gateway as far as it concerns providers (cmd/server/    *)
(* main.go:87-159): memory is filled from the table, manifests are loaded    *)
(* from a directory or else from the binary (internal/provider/manifest),   *)
(* registered as one batch, and then the server serves: only now other      *)
(* goroutines call the registry.  It may crash at any time and is started    *)
(* again; the manifests may be edited meanwhile.                            *)
(*                                                                         *)
(* A directory is the sequence of its *.json files by name, or Missing (it   *)
(* is absent, unreadable or a file).  A file is Unreadable (or blank, or not *)
(* JSON), or holds a provider with the set of fields the validator rejects.  *)
(***************************************************************************)
EXTENDS Registry

CONSTANTS Main, Field, Missing, Unreadable, Error, Directories, Embedded

Manifest == [provider : Provider, defects : SUBSET Field]

ASSUME BootAssumption ==
  /\ Main \in Writer
  /\ Directories \subseteq {Missing} \cup Seq(Manifest \cup {Unreadable})
  /\ Embedded \in Seq(Manifest \cup {Unreadable})
  /\ Error \notin Seq(Provider)

VARIABLES
  boot,        \* where main() is
  directory    \* the manifests directory main() finds; Missing when it is not starting

bvars == <<rvars, boot, directory>>

Booting == {"hydrate", "manifests", "register"}

(* The types of the state; in particular every row and every cached provider *)
(* is under its own ID (main.go:87-121, registry.go:213-228).               *)
BTypeOK == /\ RTypeOK
           /\ boot \in Booting \cup {"serving", "down"}
           /\ directory \in Directories \cup {Missing}

NothingCached == [id \in ProviderID |-> None]

BInit == /\ db = NothingCached
         /\ items = NothingCached
         /\ op = [w \in Writer |-> NoOp]
         /\ excused = {}
         /\ boot = "down"
         /\ directory = Missing

-----------------------------------------------------------------------------
(* The loader. *)

(* Validate collects the defects of all fields; LoadFile fails on any. *)
Loadable(file) == file # Unreadable /\ file.defects = {}

IDs(ps) == {IDOf[p] : p \in Range(ps)}

ProvidersOf(files) == [i \in 1 .. Len(files) |-> files[i].provider]

(* Fault: a file that cannot be loaded is passed over. *)
LoadFilesLeniently(files) == ProvidersOf(SelectSeq(files, Loadable))

(* It cannot be loaded, or its ID was seen in a file before it. *)
Rejected(files, i) ==
  \/ ~Loadable(files[i])
  \/ \E j \in 1 .. i - 1 : IDOf[files[j].provider] = IDOf[files[i].provider]

(* One file after the other; the first one that is rejected ends it with an    *)
(* error, and nothing is loaded.                                             *)
LoadFiles(files) ==
  IF \E i \in 1 .. Len(files) : Rejected(files, i) THEN Error ELSE ProvidersOf(files)

LoadDirectory(dir) == IF dir = Missing THEN Error ELSE LoadFiles(dir)

LoadEmbedded == LoadFiles(Embedded)

(* The manifests in the binary are those of a build that passed its tests. *)
ASSUME EmbeddedAssumption == LoadFiles(Embedded) \notin {Error, <<>>}

(* main() does not call LoadWithFallback: any error of the directory is      *)
(* logged, and the embedded manifests take its place.                       *)
Manifests(dir) ==
  IF LoadDirectory(dir) \in {Error, <<>>} THEN LoadEmbedded ELSE LoadDirectory(dir)

(* What main() registers is a batch. *)
ASSUME ManifestsAssumption ==
  \A dir \in Directories \cup {Missing} : Manifests(dir) \in Batches

-----------------------------------------------------------------------------
(* main() *)

Start(dir) ==
  /\ boot = "down"
  /\ boot' = "hydrate"
  /\ directory' = dir
  /\ UNCHANGED rvars

Hydrate ==
  /\ boot = "hydrate"
  /\ \/ ListRows(Main) /\ boot' = boot
     \/ CacheRows(Main) /\ boot' = "manifests"
  /\ UNCHANGED <<excused, directory>>

(* Only a warning: what is in the table is not in memory now. *)
HydrateFails ==
  /\ boot = "hydrate"
  /\ op[Main] = NoOp
  /\ boot' = "manifests"
  /\ excused' = {id \in ProviderID : db[id] # None}
  /\ UNCHANGED <<db, items, op, directory>>

RegisterManifests ==
  /\ boot = "manifests"
  /\ StartBatch(Main, Manifests(directory))
  /\ boot' = "register"
  /\ UNCHANGED <<excused, directory>>

PersistManifest ==
  /\ boot = "register"
  /\ Persist(Main)
  /\ UNCHANGED <<excused, boot, directory>>

(* The memory and the operations of a process that ended. *)
ProcessEnds ==
  /\ boot' = "down"
  /\ items' = NothingCached
  /\ op' = [w \in Writer |-> NoOp]
  /\ excused' = {}
  /\ directory' = Missing
  /\ UNCHANGED db

(* A row cannot be written: os.Exit(1). *)
ExitAtStart ==
  /\ boot = "register"
  /\ op[Main].next <= Len(op[Main].batch)
  /\ ProcessEnds

Listen ==
  /\ boot = "register"
  /\ CacheBatch(Main)
  /\ boot' = "serving"
  /\ excused' = excused \ IDs(op[Main].batch)
  /\ directory' = Missing

Serve(w) ==
  /\ boot = "serving"
  /\ OpStep(w)
  /\ Excuse
  /\ UNCHANGED <<boot, directory>>

Crash == boot # "down" /\ ProcessEnds

BNext ==
  \/ \E dir \in Directories : Start(dir)
  \/ Hydrate \/ HydrateFails \/ RegisterManifests \/ PersistManifest
  \/ ExitAtStart \/ Listen \/ Crash
  \/ \E w \in Writer \ {Main} : Serve(w)

BSpec == BInit /\ [][BNext]_bvars

-----------------------------------------------------------------------------
(* Properties. *)

(* While the gateway serves, also after crashes in the middle of a batch or   *)
(* of any other operation, memory and table agree in the sense of            *)
(* Synchronized (main.go:95-121, registry.go:63-86): a start that can read the *)
(* table heals what an operation that was cut short had left behind.  After a  *)
(* start that cannot (HydrateFails), only what has been registered since is    *)
(* claimed.                                                                  *)
ServesSynchronized == boot = "serving" => Synchronized

(* A directory that may be used: no broken file, no ID twice. *)
Sound(dir) ==
  /\ dir \notin {Missing, <<>>}
  /\ \A i \in 1 .. Len(dir) : Loadable(dir[i])
  /\ \A i, j \in 1 .. Len(dir) :
       IDOf[dir[i].provider] = IDOf[dir[j].provider] => i = j

Providers(files) == {files[i].provider : i \in 1 .. Len(files)}

(* When the gateway begins to serve, either every manifest of the directory   *)
(* is in memory and in the table, or the directory is not sound and every     *)
(* embedded one is: never a part of a directory, nor a mixture (main.go:103-  *)
(* 121, loader.go:100-146).  Every other row is in memory too, unless it could *)
(* not be read.                                                              *)
Whole(ps) ==
  \A id \in ProviderID :
    IF \E p \in ps : IDOf[p] = id
    THEN items'[id] \in ps /\ db'[id] = items'[id]
    ELSE items'[id] = db'[id] \/ id \in excused'

(* Nor does a start that is under way, or that dies, put anything else into a   *)
(* row than one of those manifests.                                          *)
StartsWithAllOrNothing ==
  [][LET ps == Providers(IF Sound(directory) THEN directory ELSE Embedded) IN
       boot # "serving" =>
         /\ boot' = "serving" => Whole(ps)
         /\ \A id \in ProviderID : db'[id] # db[id] => db'[id] \in ps]_bvars

(* Nobody ever reads half a batch: the providers of a batch under way enter   *)
(* the map in one step, after all of them are in the table (registry.go:213-  *)
(* 228).  A failed batch leaves the map as it was.                            *)
BatchAppearsWhole ==
  [][boot' # "down" =>
       \A w \in Writer : Persisting(w) /\ items' # items /\ op'[w] # op[w] =>
         \A id \in IDs(op[w].batch) :
           items'[id] \in {p \in Range(op[w].batch) : IDOf[p] = id}]_bvars
=============================================================================
