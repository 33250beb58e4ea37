---------------------------- MODULE Configuration ----------------------------
(***************************************************************************)
(* internal/config/config.go: the layers of the configuration.  A start has   *)
(* a JSON file, an environment and arguments, each a function from the         *)
(* settings it mentions to their values; Load lays them over the defaults.     *)
(* Values are names ("" is the empty string, by which the environment and the   *)
(* arguments say nothing); so is a port they do not let through, which is 0 for  *)
(* the arguments and whatever is not positive for the environment.             *)
(*                                                                           *)
(* Precedence is the same algorithm stated without layers: who wins, setting   *)
(* by setting.                                                               *)
(***************************************************************************)
EXTENDS Sequences, SequencesExt

CONSTANT Windows  \* runtime.GOOS == "windows"

ASSUME WindowsAssumption == Windows \in BOOLEAN

(* One layer over another: @@ of module TLC, of which the provers know nothing. *)
top ++ below == [s \in DOMAIN top \cup DOMAIN below |->
                   IF s \in DOMAIN top THEN top[s] ELSE below[s]]

PlainSetting == {"host", "port", "api_key", "db_file", "data_dir", "master_key_file"}

ManifestsSetting ==
  <<"manifests_dir", "providers.manifests_dir", "storage.manifests_dir">>

Default ==
  [host |-> "0.0.0.0", port |-> "8080", api_key |-> "", db_file |-> "dezuxk.db",
   data_dir |-> ".", master_key |-> "", master_key_file |-> "",
   use_dpapi |-> Windows]
  ++ [s \in Range(ManifestsSetting) |-> "manifests"]

(* What an environment or a command line says of the settings in S. *)
Given(layer, S) == Restrict(layer, {s \in S \cap DOMAIN layer : layer[s] # ""})

Says(layer, s) == s \in DOMAIN layer /\ layer[s] # ""

ManifestsDirs(dir) == [s \in Range(ManifestsSetting) |-> dir]

(* true or 1, in any case of letters, for which "TRUE" stands here. *)
Truthy(v) == v \in {"true", "TRUE", "1"}

UseDPAPI(layer) ==
  [s \in {s \in {"use_dpapi"} : Says(layer, s)} |-> Truthy(layer[s])]

-----------------------------------------------------------------------------
(* Load. *)

(* Fault: a directory named for the providers is not taken over. *)
SyncManifestsTopOnly(cfg) ==
  IF cfg["manifests_dir"] # "manifests"
  THEN ManifestsDirs(cfg["manifests_dir"]) ++ cfg ELSE cfg

(* The first of the three fields the file has changed decides for all, except *)
(* that the last must not be empty.                                          *)
SyncManifests(cfg) ==
  LET Changed(s) == /\ cfg[s] # "manifests"
                    /\ s = "storage.manifests_dir" => cfg[s] # ""
      first == SelectInSeq(ManifestsSetting, Changed)
  IN  IF first = 0 THEN cfg ELSE ManifestsDirs(cfg[ManifestsSetting[first]]) ++ cfg

(* A file that is missing or unreadable is an error only if it was named;     *)
(* otherwise the start goes on without it.  Arguments that do not parse end    *)
(* the start like a malformed file.                                          *)
LoadFails(start) ==
  start.json = "malformed" \/ (start.json = "unreadable" /\ start.named)

WithFile(start, cfg) ==
  IF start.json = "read" THEN SyncManifests(start.file ++ cfg) ELSE cfg

EnvManifests(env) ==
  IF Says(env, "manifests_dir") THEN ManifestsDirs(env["manifests_dir"])
  ELSE IF Says(env, "providers.manifests_dir")
       THEN ManifestsDirs(env["providers.manifests_dir"]) ELSE <<>>

applyEnv(env, cfg) ==
  Given(env, PlainSetting \cup {"master_key"}) ++ UseDPAPI(env) ++ EnvManifests(env)
    ++ cfg

(* Fault: a key file on the command line leaves the configured key alone. *)
ArgsKeyKept(args) == Given(args, {"master_key"})

(* A key file on the command line clears a key of the file or environment. *)
ArgsKey(args) ==
  IF Says(args, "master_key") THEN Given(args, {"master_key"})
  ELSE IF Says(args, "master_key_file") THEN [master_key |-> ""] ELSE <<>>

ArgsManifests(args) ==
  IF Says(args, "manifests_dir") THEN ManifestsDirs(args["manifests_dir"]) ELSE <<>>

WithArgs(args, cfg) ==
  Given(args, PlainSetting) ++ ArgsKey(args) ++ ArgsManifests(args) ++ UseDPAPI(args)
    ++ cfg

Load(start) == WithArgs(start.args, applyEnv(start.env, WithFile(start, Default)))

GetManifestsDir(cfg) ==
  LET first == SelectInSeq(ManifestsSetting, LAMBDA s : cfg[s] # "")
  IN  IF first = 0 THEN "manifests" ELSE cfg[ManifestsSetting[first]]

-----------------------------------------------------------------------------
(* Precedence, the reference: the first that is given, from the strongest on.  *)
(* A candidate is a pair of whether it is given and its value.                 *)

Candidate(layer, s) == <<Says(layer, s), IF Says(layer, s) THEN layer[s] ELSE "">>

FirstGiven(candidates, default) ==
  LET first == SelectInSeq(candidates, LAMBDA x : x[1])
  IN  IF first = 0 THEN default ELSE candidates[first][2]

(* In a file even the empty string counts. *)
FileSays(start, s) == start.json = "read" /\ s \in DOMAIN start.file

FileCandidate(start, s) ==
  <<FileSays(start, s), IF FileSays(start, s) THEN start.file[s] ELSE "">>

PlainPrecedence(start, s) ==
  FirstGiven(<<Candidate(start.args, s), Candidate(start.env, s),
               FileCandidate(start, s)>>, Default[s])

(* A field of the file that repeats the default counts as not given. *)
FileDir(start, s) ==
  <<FileSays(start, s) /\ start.file[s] # "manifests"
      /\ (s = "storage.manifests_dir" => start.file[s] # ""),
    FileCandidate(start, s)[2]>>

ManifestsPrecedence(start) ==
  LET dir == FirstGiven(<<Candidate(start.args, "manifests_dir"),
                          Candidate(start.env, "manifests_dir"),
                          Candidate(start.env, "providers.manifests_dir"),
                          FileDir(start, "manifests_dir"),
                          FileDir(start, "providers.manifests_dir"),
                          FileDir(start, "storage.manifests_dir")>>, "manifests")
  IN  IF dir = "" THEN "manifests" ELSE dir

DPAPIPrecedence(start) ==
  IF Says(start.args, "use_dpapi") THEN Truthy(start.args["use_dpapi"])
  ELSE IF Says(start.env, "use_dpapi") THEN Truthy(start.env["use_dpapi"])
  ELSE IF FileSays(start, "use_dpapi") THEN start.file["use_dpapi"] ELSE Windows
=============================================================================
