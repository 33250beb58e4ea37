-------------------------- MODULE KeySourcesProofs ---------------------------
(***************************************************************************)
(* Proofs about Configuration and KeySources: whose word counts, for every  *)
(* content of the layers, and what becomes of the key and of the secrets,    *)
(* for every set of processes, callers, keys and installations.              *)
(***************************************************************************)
EXTENDS KeySources, KeyResolverProofs

-----------------------------------------------------------------------------
(* Layers. *)

LEMMA Overlay ==
  ASSUME NEW f, NEW g
  PROVE  /\ DOMAIN (f ++ g) = DOMAIN f \cup DOMAIN g
         /\ \A x \in DOMAIN f : (f ++ g)[x] = f[x]
         /\ \A x \in (DOMAIN g) \ (DOMAIN f) : (f ++ g)[x] = g[x]
BY DEF ++

LEMMA FirstMatches ==
  ASSUME NEW n \in Nat, NEW I \in SUBSET (1 .. n), NEW k \in I,
         \A j \in 1 .. k - 1 : j \notin I
  PROVE  Min(I) = k
<1>1. \A x, y \in I : x <= y /\ y <= x => x = y
  OBVIOUS
<1>2. \A j \in I : k <= j
  OBVIOUS
<1> QED
  BY <1>1, <1>2 DEF Min

(* The candidate that wins is the first that is given. *)
LEMMA FirstWins ==
  ASSUME NEW cs, NEW default, Len(cs) \in Nat,
         NEW k \in 1 .. Len(cs), cs[k][1], \A j \in 1 .. k - 1 : ~cs[j][1]
  PROVE  FirstGiven(cs, default) = cs[k][2]
<1> DEFINE I == {i \in 1 .. Len(cs) : cs[i][1]}
<1>1. k \in I /\ I \in SUBSET (1 .. Len(cs)) /\ \A j \in 1 .. k - 1 : j \notin I
  OBVIOUS
<1>2. FirstGiven(cs, default) = LET first == IF I # {} THEN Min(I) ELSE 0
                                IN  IF first = 0 THEN default ELSE cs[first][2]
  BY DEF FirstGiven, SelectInSeq
<1> HIDE DEF I
<1>3. Min(I) = k
  BY <1>1, FirstMatches
<1> QED
  BY <1>1, <1>2, <1>3

LEMMA NoneWins ==
  ASSUME NEW cs, NEW default, \A j \in 1 .. Len(cs) : ~cs[j][1]
  PROVE  FirstGiven(cs, default) = default
BY DEF FirstGiven, SelectInSeq

LEMMA FirstOfThree ==
  ASSUME NEW cs, NEW default, Len(cs) = 3
  PROVE  FirstGiven(cs, default) =
           IF cs[1][1] THEN cs[1][2] ELSE IF cs[2][1] THEN cs[2][2] ELSE IF cs[3][1] THEN cs[3][2] ELSE default
<1>1. CASE cs[1][1]
  <2>1. 1 \in 1 .. Len(cs) /\ \A j \in 1 .. 1 - 1 : ~cs[j][1]
    BY <1>1
  <2>2. FirstGiven(cs, default) = cs[1][2]
    BY <1>1, <2>1, FirstWins
  <2> QED
    BY <1>1, <2>2
<1>2. CASE ~cs[1][1] /\ cs[2][1]
  <2>1. 2 \in 1 .. Len(cs) /\ \A j \in 1 .. 2 - 1 : ~cs[j][1]
    BY <1>2
  <2>2. FirstGiven(cs, default) = cs[2][2]
    BY <1>2, <2>1, FirstWins
  <2> QED
    BY <1>2, <2>2
<1>3. CASE ~cs[1][1] /\ ~cs[2][1] /\ cs[3][1]
  <2>1. 3 \in 1 .. Len(cs) /\ \A j \in 1 .. 3 - 1 : ~cs[j][1]
    BY <1>3
  <2>2. FirstGiven(cs, default) = cs[3][2]
    BY <1>3, <2>1, FirstWins
  <2> QED
    BY <1>3, <2>2
<1>4. CASE ~cs[1][1] /\ ~cs[2][1] /\ ~cs[3][1]
  <2>1. \A j \in 1 .. Len(cs) : ~cs[j][1]
    BY <1>4
  <2>2. FirstGiven(cs, default) = default
    BY <2>1, NoneWins
  <2> QED
    BY <1>4, <2>2
<1> QED
  BY <1>1, <1>2, <1>3, <1>4

LEMMA FirstOfSix ==
  ASSUME NEW cs, NEW default, Len(cs) = 6
  PROVE  FirstGiven(cs, default) =
           IF cs[1][1] THEN cs[1][2] ELSE IF cs[2][1] THEN cs[2][2] ELSE IF cs[3][1] THEN cs[3][2] ELSE 
           IF cs[4][1] THEN cs[4][2] ELSE IF cs[5][1] THEN cs[5][2] ELSE IF cs[6][1] THEN cs[6][2] ELSE default
<1>1. CASE cs[1][1]
  <2>1. 1 \in 1 .. Len(cs) /\ \A j \in 1 .. 1 - 1 : ~cs[j][1]
    BY <1>1
  <2>2. FirstGiven(cs, default) = cs[1][2]
    BY <1>1, <2>1, FirstWins
  <2> QED
    BY <1>1, <2>2
<1>2. CASE ~cs[1][1] /\ cs[2][1]
  <2>1. 2 \in 1 .. Len(cs) /\ \A j \in 1 .. 2 - 1 : ~cs[j][1]
    BY <1>2
  <2>2. FirstGiven(cs, default) = cs[2][2]
    BY <1>2, <2>1, FirstWins
  <2> QED
    BY <1>2, <2>2
<1>3. CASE ~cs[1][1] /\ ~cs[2][1] /\ cs[3][1]
  <2>1. 3 \in 1 .. Len(cs) /\ \A j \in 1 .. 3 - 1 : ~cs[j][1]
    BY <1>3
  <2>2. FirstGiven(cs, default) = cs[3][2]
    BY <1>3, <2>1, FirstWins
  <2> QED
    BY <1>3, <2>2
<1>4. CASE ~cs[1][1] /\ ~cs[2][1] /\ ~cs[3][1] /\ cs[4][1]
  <2>1. 4 \in 1 .. Len(cs) /\ \A j \in 1 .. 4 - 1 : ~cs[j][1]
    BY <1>4
  <2>2. FirstGiven(cs, default) = cs[4][2]
    BY <1>4, <2>1, FirstWins
  <2> QED
    BY <1>4, <2>2
<1>5. CASE ~cs[1][1] /\ ~cs[2][1] /\ ~cs[3][1] /\ ~cs[4][1] /\ cs[5][1]
  <2>1. 5 \in 1 .. Len(cs) /\ \A j \in 1 .. 5 - 1 : ~cs[j][1]
    BY <1>5
  <2>2. FirstGiven(cs, default) = cs[5][2]
    BY <1>5, <2>1, FirstWins
  <2> QED
    BY <1>5, <2>2
<1>6. CASE ~cs[1][1] /\ ~cs[2][1] /\ ~cs[3][1] /\ ~cs[4][1] /\ ~cs[5][1] /\ cs[6][1]
  <2>1. 6 \in 1 .. Len(cs) /\ \A j \in 1 .. 6 - 1 : ~cs[j][1]
    BY <1>6
  <2>2. FirstGiven(cs, default) = cs[6][2]
    BY <1>6, <2>1, FirstWins
  <2> QED
    BY <1>6, <2>2
<1>7. CASE ~cs[1][1] /\ ~cs[2][1] /\ ~cs[3][1] /\ ~cs[4][1] /\ ~cs[5][1] /\ ~cs[6][1]
  <2>1. \A j \in 1 .. Len(cs) : ~cs[j][1]
    BY <1>7
  <2>2. FirstGiven(cs, default) = default
    BY <2>1, NoneWins
  <2> QED
    BY <1>7, <2>2
<1> QED
  BY <1>1, <1>2, <1>3, <1>4, <1>5, <1>6, <1>7

(* What a candidate is made of. *)
LEMMA CandidateParts ==
  /\ \A layer, s : /\ Candidate(layer, s)[1] <=> Says(layer, s)
                   /\ Says(layer, s) => Candidate(layer, s)[2] = layer[s]
  /\ \A st, s : /\ FileCandidate(st, s)[1] <=> FileSays(st, s)
                /\ FileSays(st, s) => FileCandidate(st, s)[2] = st.file[s]
BY DEF Candidate, FileCandidate, Says, FileSays

-----------------------------------------------------------------------------
(* Load. *)

Named == {"manifests_dir", "providers.manifests_dir", "storage.manifests_dir"}

LEMMA ManifestsDirsNamed ==
  /\ Range(ManifestsSetting) = Named
  /\ \A dir : DOMAIN ManifestsDirs(dir) = Named
  /\ \A dir, s : s \in Named => ManifestsDirs(dir)[s] = dir
<1>1. Range(ManifestsSetting) = Named
  <2>1. DOMAIN ManifestsSetting = 1 .. 3
    BY DEF ManifestsSetting
  <2>2. /\ ManifestsSetting[1] = "manifests_dir"
        /\ ManifestsSetting[2] = "providers.manifests_dir"
        /\ ManifestsSetting[3] = "storage.manifests_dir"
    BY DEF ManifestsSetting
  <2>3. 1 .. 3 = {1, 2, 3}
    OBVIOUS
  <2> QED
    BY <2>1, <2>2, <2>3 DEF Range, Named
<1> QED
  BY <1>1 DEF ManifestsDirs

Laid == PlainSetting \cup {"master_key", "use_dpapi"}

(* The defaults and the file mention every setting. *)
LEMMA DefaultDomain == DOMAIN Default = Laid \cup Named
<1> DEFINE plain == [host |-> "0.0.0.0", port |-> "8080", api_key |-> "",
                     db_file |-> "dezuxk.db", data_dir |-> ".", master_key |-> "",
                     master_key_file |-> "", use_dpapi |-> Windows]
           dirs  == [s \in Range(ManifestsSetting) |-> "manifests"]
<1>1. DOMAIN plain = Laid
  BY DEF Laid, PlainSetting
<1>2. DOMAIN dirs = Named
  BY ManifestsDirsNamed
<1>3. Default = plain ++ dirs
  BY DEF Default
<1> HIDE DEF plain, dirs
<1>4. DOMAIN (plain ++ dirs) = DOMAIN plain \cup DOMAIN dirs
  BY Overlay
<1> QED
  BY <1>1, <1>2, <1>3, <1>4

(* What the file says counts, bringing the three fields into line aside. *)
LEMMA WithFileValue ==
  ASSUME NEW st, NEW s \in Laid
  PROVE  /\ s \in DOMAIN WithFile(st, Default)
         /\ WithFile(st, Default)[s] = IF FileSays(st, s) THEN st.file[s] ELSE Default[s]
<1>1. s \notin Named
  BY DEF Laid, PlainSetting, Named
<1>2. \A cfg : s \in DOMAIN cfg => /\ s \in DOMAIN SyncManifests(cfg)
                                  /\ SyncManifests(cfg)[s] = cfg[s]
  <2> SUFFICES ASSUME NEW cfg, s \in DOMAIN cfg
               PROVE  s \in DOMAIN SyncManifests(cfg) /\ SyncManifests(cfg)[s] = cfg[s]
    OBVIOUS
  <2>1. \/ SyncManifests(cfg) = cfg
        \/ \E dir : SyncManifests(cfg) = ManifestsDirs(dir) ++ cfg
    BY DEF SyncManifests
  <2>2. ASSUME NEW dir PROVE /\ s \in DOMAIN (ManifestsDirs(dir) ++ cfg)
                             /\ (ManifestsDirs(dir) ++ cfg)[s] = cfg[s]
    <3>1. s \notin DOMAIN ManifestsDirs(dir)
      BY <1>1, ManifestsDirsNamed
    <3> QED
      BY <3>1 DEF ++
  <2> QED
    BY <2>1, <2>2
<1>3. /\ s \in DOMAIN (st.file ++ Default)
      /\ (st.file ++ Default)[s] = IF s \in DOMAIN st.file THEN st.file[s] ELSE Default[s]
  <2>1. s \in DOMAIN Default
    BY DefaultDomain
  <2> QED
    BY <2>1 DEF ++
<1> QED
  BY <1>2, <1>3, DefaultDomain DEF WithFile, FileSays

(* What the environment says comes first, then what was there before. *)
LEMMA EnvValue ==
  ASSUME NEW env, NEW cfg, NEW s \in Laid, s \in DOMAIN cfg
  PROVE  /\ s \in DOMAIN applyEnv(env, cfg)
         /\ applyEnv(env, cfg)[s] =
              IF Says(env, s)
              THEN IF s = "use_dpapi" THEN Truthy(env[s]) ELSE env[s]
              ELSE cfg[s]
<1> DEFINE given == Given(env, PlainSetting \cup {"master_key"})
           dpapi == UseDPAPI(env)
           dirs  == EnvManifests(env)
<1>1. /\ s \in DOMAIN given <=> s # "use_dpapi" /\ Says(env, s)
      /\ s \in DOMAIN given => given[s] = env[s]
  BY DEF Given, Restrict, Says, Laid, PlainSetting
<1>2. /\ s \in DOMAIN dpapi <=> s = "use_dpapi" /\ Says(env, s)
      /\ s \in DOMAIN dpapi => dpapi[s] = Truthy(env[s])
  BY DEF UseDPAPI, Says
<1>3. s \notin DOMAIN dirs
  <2>1. s \notin Named
    BY DEF Laid, PlainSetting, Named
  <2>2. \/ dirs = <<>>
        \/ \E dir : dirs = ManifestsDirs(dir)
    BY DEF EnvManifests
  <2> QED
    BY <2>1, <2>2, ManifestsDirsNamed
<1>4. applyEnv(env, cfg) = given ++ dpapi ++ dirs ++ cfg
  BY DEF applyEnv
<1> HIDE DEF given, dpapi, dirs
<1> QED
  BY <1>1, <1>2, <1>3, <1>4 DEF ++

(* The command line comes before it, and a key file there clears the key. *)
LEMMA ArgsValue ==
  ASSUME NEW args, NEW cfg, NEW s \in Laid, s \in DOMAIN cfg
  PROVE  /\ s \in DOMAIN WithArgs(args, cfg)
         /\ WithArgs(args, cfg)[s] =
              IF Says(args, s)
              THEN IF s = "use_dpapi" THEN Truthy(args[s]) ELSE args[s]
              ELSE IF s = "master_key" /\ Says(args, "master_key_file") THEN "" ELSE cfg[s]
<1> DEFINE given == Given(args, PlainSetting)
           key1  == ArgsKey(args)
           dirs  == ArgsManifests(args)
           dpapi == UseDPAPI(args)
<1>1. /\ s \in DOMAIN given <=> s \in PlainSetting /\ Says(args, s)
      /\ s \in DOMAIN given => given[s] = args[s]
  BY DEF Given, Restrict, Says
<1>2. /\ s \in DOMAIN dpapi <=> s = "use_dpapi" /\ Says(args, s)
      /\ s \in DOMAIN dpapi => dpapi[s] = Truthy(args[s])
  BY DEF UseDPAPI, Says
<1>3. s \notin DOMAIN dirs
  <2>1. s \notin Named
    BY DEF Laid, PlainSetting, Named
  <2>2. \/ dirs = <<>>
        \/ \E dir : dirs = ManifestsDirs(dir)
    BY DEF ArgsManifests
  <2> QED
    BY <2>1, <2>2, ManifestsDirsNamed
<1>4. /\ s \in DOMAIN key1 <=> /\ s = "master_key"
                               /\ Says(args, s) \/ Says(args, "master_key_file")
      /\ s \in DOMAIN key1 => key1[s] = IF Says(args, s) THEN args[s] ELSE ""
  <2>1. CASE Says(args, "master_key")
    <3>1. key1 = Given(args, {"master_key"})
      BY <2>1 DEF ArgsKey
    <3>2. DOMAIN key1 = {"master_key"} /\ key1["master_key"] = args["master_key"]
      BY <2>1, <3>1 DEF Given, Restrict, Says
    <3> HIDE DEF key1
    <3> QED
      BY <2>1, <3>2
  <2>2. CASE ~Says(args, "master_key") /\ Says(args, "master_key_file")
    <3>1. key1 = [master_key |-> ""]
      BY <2>2 DEF ArgsKey
    <3> HIDE DEF key1
    <3>2. DOMAIN key1 = {"master_key"}
      BY <3>1
    <3>3. key1["master_key"] = ""
      BY <3>1
    <3> QED
      BY <2>2, <3>2, <3>3
  <2>3. CASE ~Says(args, "master_key") /\ ~Says(args, "master_key_file")
    <3>1. key1 = <<>>
      BY <2>3 DEF ArgsKey
    <3> HIDE DEF key1
    <3> QED
      BY <2>3, <3>1
  <2> QED
    BY <2>1, <2>2, <2>3
<1>5. WithArgs(args, cfg) = given ++ key1 ++ dirs ++ dpapi ++ cfg
  BY DEF WithArgs
<1>6. /\ s \in PlainSetting <=> s \notin {"master_key", "use_dpapi"}
  BY DEF Laid, PlainSetting
<1> HIDE DEF given, key1, dpapi, dirs
<1> QED
  BY <1>1, <1>2, <1>3, <1>4, <1>5, <1>6 DEF ++

LEMMA LoadValue ==
  ASSUME NEW st, NEW s \in Laid
  PROVE  /\ s \in DOMAIN Load(st)
         /\ Load(st)[s] =
              IF Says(st.args, s)
              THEN IF s = "use_dpapi" THEN Truthy(st.args[s]) ELSE st.args[s]
              ELSE IF s = "master_key" /\ Says(st.args, "master_key_file") THEN ""
              ELSE IF Says(st.env, s)
              THEN IF s = "use_dpapi" THEN Truthy(st.env[s]) ELSE st.env[s]
              ELSE IF FileSays(st, s) THEN st.file[s] ELSE Default[s]
<1> DEFINE fromFile == WithFile(st, Default)
           fromEnv  == applyEnv(st.env, fromFile)
<1>1. s \in DOMAIN fromFile
  BY WithFileValue
<1>2. s \in DOMAIN fromEnv
  BY <1>1, EnvValue
<1>3. Load(st) = WithArgs(st.args, fromEnv)
  BY DEF Load
<1>4. /\ s \in DOMAIN WithArgs(st.args, fromEnv)
      /\ WithArgs(st.args, fromEnv)[s] =
           IF Says(st.args, s)
           THEN IF s = "use_dpapi" THEN Truthy(st.args[s]) ELSE st.args[s]
           ELSE IF s = "master_key" /\ Says(st.args, "master_key_file") THEN ""
           ELSE fromEnv[s]
  <2> HIDE DEF fromEnv
  <2> QED
    BY <1>2, ArgsValue
<1>5. fromEnv[s] = IF Says(st.env, s)
                   THEN IF s = "use_dpapi" THEN Truthy(st.env[s]) ELSE st.env[s]
                   ELSE fromFile[s]
  <2> HIDE DEF fromFile
  <2> QED
    BY <1>1, EnvValue
<1>6. fromFile[s] = IF FileSays(st, s) THEN st.file[s] ELSE Default[s]
  BY WithFileValue
<1> HIDE DEF fromFile, fromEnv
<1> QED
  BY <1>3, <1>4, <1>5, <1>6

(* The settings that are read off the layers alike. *)
LEMMA PlainByPrecedence ==
  ASSUME NEW st, NEW s \in PlainSetting
  PROVE  Load(st)[s] = PlainPrecedence(st, s)
<1>1. s \in Laid /\ s \notin {"use_dpapi", "master_key"}
  BY DEF Laid, PlainSetting
<1>2. Load(st)[s] = IF Says(st.args, s) THEN st.args[s]
                    ELSE IF Says(st.env, s) THEN st.env[s]
                    ELSE IF FileSays(st, s) THEN st.file[s] ELSE Default[s]
  BY <1>1, LoadValue
<1> DEFINE cs == <<Candidate(st.args, s), Candidate(st.env, s), FileCandidate(st, s)>>
<1>3. PlainPrecedence(st, s) = FirstGiven(cs, Default[s])
  BY DEF PlainPrecedence
<1>4. /\ Len(cs) = 3
      /\ cs[1] = Candidate(st.args, s)
      /\ cs[2] = Candidate(st.env, s)
      /\ cs[3] = FileCandidate(st, s)
  OBVIOUS
<1> HIDE DEF cs
<1>5. FirstGiven(cs, Default[s]) =
        IF cs[1][1] THEN cs[1][2] ELSE IF cs[2][1] THEN cs[2][2] ELSE IF cs[3][1] THEN cs[3][2] ELSE Default[s]
  BY <1>4, FirstOfThree
<1> QED
  BY <1>2, <1>3, <1>4, <1>5, CandidateParts

LEMMA DPAPIByPrecedence ==
  ASSUME NEW st
  PROVE  Load(st)["use_dpapi"] = DPAPIPrecedence(st)
<1>1. "use_dpapi" \in Laid
  BY DEF Laid
<1>2. Default["use_dpapi"] = Windows
  BY DEF Default, ++
<1> QED
  BY <1>1, <1>2, LoadValue DEF DPAPIPrecedence
-----------------------------------------------------------------------------
(* The directory of the manifests, which is kept in three fields. *)

LEMMA SmallestOfThree ==
  ASSUME NEW I \in SUBSET (1 .. 3)
  PROVE  (IF I # {} THEN Min(I) ELSE 0) =
           IF 1 \in I THEN 1 ELSE IF 2 \in I THEN 2 ELSE IF 3 \in I THEN 3 ELSE 0
<1>1. CASE 1 \in I
  BY <1>1, FirstMatches
<1>2. CASE 1 \notin I /\ 2 \in I
  BY <1>2, FirstMatches
<1>3. CASE 1 \notin I /\ 2 \notin I /\ 3 \in I
  BY <1>3, FirstMatches
<1>4. CASE I = {}
  BY <1>4
<1> QED
  BY <1>1, <1>2, <1>3, <1>4

(* The first field the file has changed decides for all three. *)
LEMMA SyncManifestsValue ==
  ASSUME NEW cfg, Named \subseteq DOMAIN cfg
  PROVE  LET top       == cfg["manifests_dir"]
             providers == cfg["providers.manifests_dir"]
             storage   == cfg["storage.manifests_dir"]
         IN  \A n \in Named :
               /\ n \in DOMAIN SyncManifests(cfg)
               /\ SyncManifests(cfg)[n] =
                    IF top # "manifests" THEN top
                    ELSE IF providers # "manifests" THEN providers
                    ELSE IF storage # "manifests" /\ storage # "" THEN storage
                    ELSE cfg[n]
<1> DEFINE Changed(s) == /\ cfg[s] # "manifests"
                         /\ s = "storage.manifests_dir" => cfg[s] # ""
           I == {i \in 1 .. Len(ManifestsSetting) : Changed(ManifestsSetting[i])}
           first == IF I # {} THEN Min(I) ELSE 0
<1>1. /\ Len(ManifestsSetting) = 3
      /\ ManifestsSetting[1] = "manifests_dir"
      /\ ManifestsSetting[2] = "providers.manifests_dir"
      /\ ManifestsSetting[3] = "storage.manifests_dir"
  BY DEF ManifestsSetting
<1>2. SyncManifests(cfg) =
        IF first = 0 THEN cfg ELSE ManifestsDirs(cfg[ManifestsSetting[first]]) ++ cfg
  BY DEF SyncManifests, SelectInSeq
<1>3. I \in SUBSET (1 .. 3)
  BY <1>1
<1>4. /\ 1 \in I <=> cfg["manifests_dir"] # "manifests"
      /\ 2 \in I <=> cfg["providers.manifests_dir"] # "manifests"
      /\ 3 \in I <=> /\ cfg["storage.manifests_dir"] # "manifests"
                     /\ cfg["storage.manifests_dir"] # ""
  <2>1. \A i \in 1 .. 3 : i \in I <=> Changed(ManifestsSetting[i])
    BY <1>1
  <2>2. 1 \in 1 .. 3 /\ 2 \in 1 .. 3 /\ 3 \in 1 .. 3
    OBVIOUS
  <2>3. /\ 1 \in I <=> Changed("manifests_dir")
        /\ 2 \in I <=> Changed("providers.manifests_dir")
        /\ 3 \in I <=> Changed("storage.manifests_dir")
    <3> HIDE DEF I, Changed
    <3> QED
      BY <1>1, <2>1, <2>2
  <2> HIDE DEF I
  <2> QED
    BY <2>3
<1> HIDE DEF I
<1>5. first = IF 1 \in I THEN 1 ELSE IF 2 \in I THEN 2 ELSE IF 3 \in I THEN 3 ELSE 0
  BY <1>3, SmallestOfThree
<1> HIDE DEF first
<1>6. ASSUME NEW dir, NEW n \in Named
      PROVE  n \in DOMAIN (ManifestsDirs(dir) ++ cfg) /\ (ManifestsDirs(dir) ++ cfg)[n] = dir
  BY <1>6, ManifestsDirsNamed DEF ++
<1> SUFFICES ASSUME NEW n \in Named
             PROVE  /\ n \in DOMAIN SyncManifests(cfg)
                    /\ SyncManifests(cfg)[n] =
                         IF 1 \in I THEN cfg["manifests_dir"]
                         ELSE IF 2 \in I THEN cfg["providers.manifests_dir"]
                         ELSE IF 3 \in I THEN cfg["storage.manifests_dir"]
                         ELSE cfg[n]
  BY <1>4
<1>7. CASE first = 0
  BY <1>2, <1>5, <1>7
<1>8. CASE first # 0
  <2>1. SyncManifests(cfg) = ManifestsDirs(cfg[ManifestsSetting[first]]) ++ cfg
    BY <1>2, <1>8
  <2>2. /\ n \in DOMAIN SyncManifests(cfg)
        /\ SyncManifests(cfg)[n] = cfg[ManifestsSetting[first]]
    BY <1>6, <2>1
  <2> QED
    BY <1>1, <1>5, <1>8, <2>2
<1> QED
  BY <1>7, <1>8

LEMMA GetManifestsDirValue ==
  ASSUME NEW cfg
  PROVE  LET top       == cfg["manifests_dir"]
             providers == cfg["providers.manifests_dir"]
             storage   == cfg["storage.manifests_dir"]
         IN  GetManifestsDir(cfg) =
               IF top # "" THEN top ELSE IF providers # "" THEN providers
               ELSE IF storage # "" THEN storage ELSE "manifests"
<1> DEFINE I == {i \in 1 .. Len(ManifestsSetting) : cfg[ManifestsSetting[i]] # ""}
           first == IF I # {} THEN Min(I) ELSE 0
<1>1. /\ Len(ManifestsSetting) = 3
      /\ ManifestsSetting[1] = "manifests_dir"
      /\ ManifestsSetting[2] = "providers.manifests_dir"
      /\ ManifestsSetting[3] = "storage.manifests_dir"
  BY DEF ManifestsSetting
<1>2. GetManifestsDir(cfg) = IF first = 0 THEN "manifests" ELSE cfg[ManifestsSetting[first]]
  BY DEF GetManifestsDir, SelectInSeq
<1>3. I \in SUBSET (1 .. 3)
  BY <1>1
<1>4. /\ 1 \in I <=> cfg["manifests_dir"] # ""
      /\ 2 \in I <=> cfg["providers.manifests_dir"] # ""
      /\ 3 \in I <=> cfg["storage.manifests_dir"] # ""
  <2>1. \A i \in 1 .. 3 : i \in I <=> cfg[ManifestsSetting[i]] # ""
    BY <1>1
  <2>2. 1 \in 1 .. 3 /\ 2 \in 1 .. 3 /\ 3 \in 1 .. 3
    OBVIOUS
  <2> HIDE DEF I
  <2>3. 1 \in I <=> cfg["manifests_dir"] # ""
    BY <1>1, <2>1, <2>2
  <2>4. 2 \in I <=> cfg["providers.manifests_dir"] # ""
    BY <1>1, <2>1, <2>2
  <2>5. 3 \in I <=> cfg["storage.manifests_dir"] # ""
    BY <1>1, <2>1, <2>2
  <2> QED
    BY <2>3, <2>4, <2>5
<1> HIDE DEF I
<1>5. first = IF 1 \in I THEN 1 ELSE IF 2 \in I THEN 2 ELSE IF 3 \in I THEN 3 ELSE 0
  BY <1>3, SmallestOfThree
<1> HIDE DEF first
<1>6. CASE first = 0
  <2>1. 1 \notin I /\ 2 \notin I /\ 3 \notin I
    BY <1>5, <1>6
  <2> QED
    BY <1>2, <1>4, <1>6, <2>1
<1>7. CASE first # 0
  <2>1. GetManifestsDir(cfg) = cfg[ManifestsSetting[first]]
    BY <1>2, <1>7
  <2>2. CASE 1 \in I
    BY <1>1, <1>4, <1>5, <2>1, <2>2
  <2>3. CASE 1 \notin I /\ 2 \in I
    BY <1>1, <1>4, <1>5, <2>1, <2>3
  <2>4. CASE 1 \notin I /\ 2 \notin I
    BY <1>1, <1>4, <1>5, <1>7, <2>1, <2>4
  <2> QED
    BY <2>2, <2>3, <2>4
<1> QED
  BY <1>6, <1>7

(* The three fields after the file: all the same, or the first of them untouched. *)
LEMMA FileManifests ==
  ASSUME NEW st
  PROVE  LET cfg == WithFile(st, Default)
             dir == IF FileDir(st, "manifests_dir")[1]
                    THEN FileDir(st, "manifests_dir")[2]
                    ELSE IF FileDir(st, "providers.manifests_dir")[1]
                    THEN FileDir(st, "providers.manifests_dir")[2]
                    ELSE IF FileDir(st, "storage.manifests_dir")[1]
                    THEN FileDir(st, "storage.manifests_dir")[2] ELSE "manifests"
         IN  /\ Named \subseteq DOMAIN cfg
             /\ \/ \A n \in Named : cfg[n] = dir
                \/ dir = "manifests" /\ cfg["manifests_dir"] = "manifests"
<1>1. \A n \in Named : n \in DOMAIN Default /\ Default[n] = "manifests"
  <2> DEFINE plain == [host |-> "0.0.0.0", port |-> "8080", api_key |-> "",
                       db_file |-> "dezuxk.db", data_dir |-> ".", master_key |-> "",
                       master_key_file |-> "", use_dpapi |-> Windows]
             dirs  == [s \in Range(ManifestsSetting) |-> "manifests"]
  <2>1. \A n \in Named : n \notin DOMAIN plain
    BY DEF Named
  <2>2. \A n \in Named : n \in DOMAIN dirs /\ dirs[n] = "manifests"
    BY ManifestsDirsNamed
  <2>3. Default = plain ++ dirs
    BY DEF Default
  <2> HIDE DEF plain, dirs
  <2> QED
    BY <2>1, <2>2, <2>3 DEF ++
<1>2. CASE st.json # "read"
  BY <1>1, <1>2 DEF WithFile, FileDir, FileSays
<1>3. CASE st.json = "read"
  <2> DEFINE cfg == st.file ++ Default
  <2>1. WithFile(st, Default) = SyncManifests(cfg)
    BY <1>3 DEF WithFile
  <2>2. \A n \in Named : /\ n \in DOMAIN cfg
                         /\ cfg[n] = IF n \in DOMAIN st.file THEN st.file[n] ELSE "manifests"
    BY <1>1 DEF ++
  <2>3. \A n \in Named : FileSays(st, n) <=> n \in DOMAIN st.file
    BY <1>3 DEF FileSays
  <2> HIDE DEF cfg
  <2>4. /\ FileDir(st, "manifests_dir")[1] <=> cfg["manifests_dir"] # "manifests"
        /\ FileDir(st, "manifests_dir")[1] =>
             FileDir(st, "manifests_dir")[2] = cfg["manifests_dir"]
        /\ FileDir(st, "providers.manifests_dir")[1] <=>
             cfg["providers.manifests_dir"] # "manifests"
        /\ FileDir(st, "providers.manifests_dir")[1] =>
             FileDir(st, "providers.manifests_dir")[2] = cfg["providers.manifests_dir"]
        /\ FileDir(st, "storage.manifests_dir")[1] <=>
             cfg["storage.manifests_dir"] \notin {"manifests", ""}
        /\ FileDir(st, "storage.manifests_dir")[1] =>
             FileDir(st, "storage.manifests_dir")[2] = cfg["storage.manifests_dir"]
    BY <2>2, <2>3 DEF FileDir, FileCandidate, Named
  <2>5. Named \subseteq DOMAIN cfg
    BY <2>2
  <2>6. \A n \in Named :
          /\ n \in DOMAIN SyncManifests(cfg)
          /\ SyncManifests(cfg)[n] =
               IF cfg["manifests_dir"] # "manifests" THEN cfg["manifests_dir"]
               ELSE IF cfg["providers.manifests_dir"] # "manifests"
               THEN cfg["providers.manifests_dir"]
               ELSE IF /\ cfg["storage.manifests_dir"] # "manifests"
                       /\ cfg["storage.manifests_dir"] # ""
               THEN cfg["storage.manifests_dir"] ELSE cfg[n]
    BY <2>5, SyncManifestsValue
  <2>7. /\ "manifests_dir" \in Named /\ "providers.manifests_dir" \in Named
        /\ "storage.manifests_dir" \in Named
    BY DEF Named
  <2>8. ASSUME NEW n \in Named
        PROVE  SyncManifests(cfg)[n] =
                 IF FileDir(st, "manifests_dir")[1]
                 THEN FileDir(st, "manifests_dir")[2]
                 ELSE IF FileDir(st, "providers.manifests_dir")[1]
                 THEN FileDir(st, "providers.manifests_dir")[2]
                 ELSE IF FileDir(st, "storage.manifests_dir")[1]
                 THEN FileDir(st, "storage.manifests_dir")[2] ELSE cfg[n]
    BY <2>4, <2>6
  <2>9. ~FileDir(st, "manifests_dir")[1] => cfg["manifests_dir"] = "manifests"
    BY <2>4
  <2> QED
    BY <2>1, <2>6, <2>7, <2>8, <2>9
<1> QED
  BY <1>2, <1>3

(* What the environment or the command line names goes into all three. *)
LEMMA EnvManifestsValue ==
  ASSUME NEW env, NEW cfg, Named \subseteq DOMAIN cfg, NEW n \in Named
  PROVE  /\ n \in DOMAIN applyEnv(env, cfg)
         /\ applyEnv(env, cfg)[n] =
              IF Says(env, "manifests_dir") THEN env["manifests_dir"]
              ELSE IF Says(env, "providers.manifests_dir")
              THEN env["providers.manifests_dir"] ELSE cfg[n]
<1> DEFINE given == Given(env, PlainSetting \cup {"master_key"})
           dpapi == UseDPAPI(env)
           dirs  == EnvManifests(env)
<1>1. n \notin DOMAIN given
  BY DEF Given, Restrict, PlainSetting, Named
<1>2. n \notin DOMAIN dpapi
  BY DEF UseDPAPI, Named
<1>3. /\ n \in DOMAIN dirs <=> \/ Says(env, "manifests_dir")
                               \/ Says(env, "providers.manifests_dir")
      /\ n \in DOMAIN dirs => dirs[n] = IF Says(env, "manifests_dir")
                                        THEN env["manifests_dir"]
                                        ELSE env["providers.manifests_dir"]
  <2>1. DOMAIN <<>> = {}
    OBVIOUS
  <2> QED
    BY <2>1, ManifestsDirsNamed DEF EnvManifests
<1>4. applyEnv(env, cfg) = given ++ dpapi ++ dirs ++ cfg
  BY DEF applyEnv
<1> HIDE DEF given, dpapi, dirs
<1> QED
  BY <1>1, <1>2, <1>3, <1>4 DEF ++

LEMMA ArgsManifestsValue ==
  ASSUME NEW args, NEW cfg, Named \subseteq DOMAIN cfg, NEW n \in Named
  PROVE  WithArgs(args, cfg)[n] =
           IF Says(args, "manifests_dir") THEN args["manifests_dir"] ELSE cfg[n]
<1> DEFINE given == Given(args, PlainSetting)
           key1  == ArgsKey(args)
           dirs  == ArgsManifests(args)
           dpapi == UseDPAPI(args)
<1>1. n \notin DOMAIN given
  BY DEF Given, Restrict, PlainSetting, Named
<1>2. n \notin DOMAIN dpapi
  BY DEF UseDPAPI, Named
<1>3. /\ n \in DOMAIN dirs <=> Says(args, "manifests_dir")
      /\ n \in DOMAIN dirs => dirs[n] = args["manifests_dir"]
  <2>1. DOMAIN <<>> = {}
    OBVIOUS
  <2> QED
    BY <2>1, ManifestsDirsNamed DEF ArgsManifests
<1>4. n \notin DOMAIN key1
  <2>1. DOMAIN Given(args, {"master_key"}) \subseteq {"master_key"}
    BY DEF Given, Restrict
  <2>2. DOMAIN [master_key |-> ""] = {"master_key"}
    OBVIOUS
  <2>3. DOMAIN <<>> = {}
    OBVIOUS
  <2>4. DOMAIN key1 \subseteq {"master_key"}
    BY <2>1, <2>2, <2>3 DEF ArgsKey
  <2> QED
    BY <2>4 DEF Named
<1>5. WithArgs(args, cfg) = given ++ key1 ++ dirs ++ dpapi ++ cfg
  BY DEF WithArgs
<1> HIDE DEF given, key1, dpapi, dirs
<1> QED
  BY <1>1, <1>2, <1>3, <1>4, <1>5 DEF ++

LEMMA ManifestsByPrecedence ==
  ASSUME NEW st
  PROVE  GetManifestsDir(Load(st)) = ManifestsPrecedence(st)
<1> DEFINE top  == "manifests_dir"
           prov == "providers.manifests_dir"
           stor == "storage.manifests_dir"
           fromFile == WithFile(st, Default)
           fromEnv  == applyEnv(st.env, fromFile)
           a1 == Says(st.args, top)
           a2 == Candidate(st.args, top)[2]
           b1 == Says(st.env, top)
           b2 == Candidate(st.env, top)[2]
           c1 == Says(st.env, prov)
           c2 == Candidate(st.env, prov)[2]
           d1 == FileDir(st, top)[1]
           d2 == FileDir(st, top)[2]
           e1 == FileDir(st, prov)[1]
           e2 == FileDir(st, prov)[2]
           f1 == FileDir(st, stor)[1]
           f2 == FileDir(st, stor)[2]
           file3 == IF d1 THEN d2 ELSE IF e1 THEN e2 ELSE IF f1 THEN f2 ELSE "manifests"
           dir == IF a1 THEN a2 ELSE IF b1 THEN b2 ELSE IF c1 THEN c2 ELSE file3
<1>1. /\ Named \subseteq DOMAIN fromFile
      /\ \/ \A n \in Named : fromFile[n] = file3
         \/ file3 = "manifests" /\ fromFile[top] = "manifests"
  BY FileManifests
<1>2. /\ Named \subseteq DOMAIN fromEnv
      /\ \A n \in Named : fromEnv[n] = IF b1 THEN b2 ELSE IF c1 THEN c2 ELSE fromFile[n]
  <2> HIDE DEF fromFile
  <2> QED
    BY <1>1, EnvManifestsValue DEF Candidate
<1>3. \A n \in Named : Load(st)[n] = IF a1 THEN a2 ELSE fromEnv[n]
  <2>1. Load(st) = WithArgs(st.args, fromEnv)
    BY DEF Load
  <2> HIDE DEF fromEnv
  <2> QED
    BY <1>2, <2>1, ArgsManifestsValue DEF Candidate
<1>4. ManifestsPrecedence(st) = IF dir = "" THEN "manifests" ELSE dir
  <2> DEFINE cs == <<Candidate(st.args, top), Candidate(st.env, top), Candidate(st.env, prov),
                     FileDir(st, top), FileDir(st, prov), FileDir(st, stor)>>
             d == FirstGiven(cs, "manifests")
  <2>1. ManifestsPrecedence(st) = IF d = "" THEN "manifests" ELSE d
    BY DEF ManifestsPrecedence
  <2>2. /\ Len(cs) = 6
        /\ cs[1] = Candidate(st.args, top)
        /\ cs[2] = Candidate(st.env, top)
        /\ cs[3] = Candidate(st.env, prov)
        /\ cs[4] = FileDir(st, top)
        /\ cs[5] = FileDir(st, prov)
        /\ cs[6] = FileDir(st, stor)
    OBVIOUS
  <2> HIDE DEF cs
  <2>3. d = IF cs[1][1] THEN cs[1][2] ELSE IF cs[2][1] THEN cs[2][2] ELSE IF cs[3][1] THEN cs[3][2] ELSE
            IF cs[4][1] THEN cs[4][2] ELSE IF cs[5][1] THEN cs[5][2] ELSE IF cs[6][1] THEN cs[6][2] ELSE "manifests"
    BY <2>2, FirstOfSix
  <2>4. /\ cs[1][1] <=> a1
        /\ cs[2][1] <=> b1
        /\ cs[3][1] <=> c1
    BY <2>2, CandidateParts
  <2> HIDE DEF d
  <2> QED
    BY <2>1, <2>2, <2>3, <2>4
<1> HIDE DEF a1, a2, b1, b2, c1, c2, file3, fromFile, fromEnv
<1>5. \/ \A n \in Named : Load(st)[n] = dir
      \/ dir = "manifests" /\ Load(st)[top] = "manifests"
  BY <1>1, <1>2, <1>3 DEF Named
<1> HIDE DEF dir
<1>6. GetManifestsDir(Load(st)) = IF dir = "" THEN "manifests" ELSE dir
  BY <1>5, GetManifestsDirValue DEF Named
<1> QED
  BY <1>4, <1>6

(* Load and GetManifestsDir agree with the reference on every start. *)
LEMMA AllSettingsByPrecedence == SettingsByPrecedence
BY PlainByPrecedence, ManifestsByPrecedence, DPAPIByPrecedence DEF SettingsByPrecedence, Config
-----------------------------------------------------------------------------
(* The key. *)

(* What the resolver's first four tiers come to is the strongest source. *)
LEMMA StrongestKey ==
  ASSUME start \in Starts, NEW p \in Process
  PROVE  /\ KeyGiven(p) # "" => KeyGiven(p) = KeyOrder(p) /\ KeyOrder(p) \in GivenKey
         /\ KeyGiven(p) = "" /\ KeyFile(p) # "" =>
              KeyFile(p) \in Path /\ KeyOrder(p) = Content[KeyFile(p)]
         /\ Persistent(p) => KeyOrder(p) = NoKey
<1> DEFINE st == start[p]
           argsKey == Candidate(st.args, "master_key")
           envKey  == Candidate(st.env, "master_key")
           cfgKey  == Candidate(Load(st), "master_key")
           argsFile == Candidate(st.args, "master_key_file")
           envFile  == Candidate(st.env, "master_key_file")
           cfgFile  == Candidate(Load(st), "master_key_file")
           InFile(f) == IF f = "" THEN NoKey ELSE Content[f]
           File1(x) == <<x[1] /\ x[2] # "", InFile(x[2])>>
           FromJSON(name) == LET x == FileCandidate(st, name) IN <<x[1] /\ x[2] # "", x[2]>>
           ks == <<argsKey, envKey, cfgKey>>
           fs == <<argsFile, envFile, cfgFile>>
           os == <<argsKey, envKey, File1(argsFile), FromJSON("master_key"), File1(envFile),
                   File1(FileCandidate(st, "master_key_file"))>>
<1>1. /\ KeyGiven(p) = FirstGiven(ks, "")
      /\ KeyFile(p) = FirstGiven(fs, "")
      /\ KeyOrder(p) = FirstGiven(os, NoKey)
  BY DEF KeyGiven, KeyFile, KeyOrder, Config
<1>2. /\ Len(ks) = 3 /\ ks[1] = argsKey /\ ks[2] = envKey /\ ks[3] = cfgKey
      /\ Len(fs) = 3 /\ fs[1] = argsFile /\ fs[2] = envFile /\ fs[3] = cfgFile
  OBVIOUS
<1> HIDE DEF File1, FromJSON
<1>3. /\ Len(os) = 6
      /\ os[1] = argsKey /\ os[2] = envKey
      /\ os[3] = File1(argsFile) /\ os[4] = FromJSON("master_key")
      /\ os[5] = File1(envFile) /\ os[6] = File1(FileCandidate(st, "master_key_file"))
  OBVIOUS
<1>4. FirstGiven(ks, "") = IF ks[1][1] THEN ks[1][2] ELSE IF ks[2][1] THEN ks[2][2]
                           ELSE IF ks[3][1] THEN ks[3][2] ELSE ""
  <2> HIDE DEF ks
  <2> QED
    BY <1>2, FirstOfThree
<1>5. FirstGiven(fs, "") = IF fs[1][1] THEN fs[1][2] ELSE IF fs[2][1] THEN fs[2][2]
                           ELSE IF fs[3][1] THEN fs[3][2] ELSE ""
  <2> HIDE DEF fs
  <2> QED
    BY <1>2, FirstOfThree
<1>6. FirstGiven(os, NoKey) =
        IF os[1][1] THEN os[1][2] ELSE IF os[2][1] THEN os[2][2] ELSE IF os[3][1] THEN os[3][2] ELSE
        IF os[4][1] THEN os[4][2] ELSE IF os[5][1] THEN os[5][2] ELSE IF os[6][1] THEN os[6][2] ELSE NoKey
  <2> HIDE DEF os
  <2> QED
    BY <1>3, FirstOfSix
<1> HIDE DEF ks, fs, os
<1> DEFINE a == Says(st.args, "master_key")
           e == Says(st.env, "master_key")
           j == FileSays(st, "master_key") /\ st.file["master_key"] # ""
           af == Says(st.args, "master_key_file")
           ef == Says(st.env, "master_key_file")
           jf == FileSays(st, "master_key_file") /\ st.file["master_key_file"] # ""
<1>7. /\ Load(st)["master_key"] =
           IF a THEN st.args["master_key"] ELSE IF af THEN ""
           ELSE IF e THEN st.env["master_key"]
           ELSE IF FileSays(st, "master_key") THEN st.file["master_key"] ELSE ""
      /\ Load(st)["master_key_file"] =
           IF af THEN st.args["master_key_file"]
           ELSE IF ef THEN st.env["master_key_file"]
           ELSE IF FileSays(st, "master_key_file") THEN st.file["master_key_file"] ELSE ""
      /\ "master_key" \in DOMAIN Load(st)
      /\ "master_key_file" \in DOMAIN Load(st)
  <2>1. "master_key" \in Laid /\ "master_key_file" \in Laid
    BY DEF Laid, PlainSetting
  <2>2. Default["master_key"] = "" /\ Default["master_key_file"] = ""
    BY DEF Default, ++
  <2> QED
    BY <2>1, <2>2, LoadValue
<1>8. /\ KeyGiven(p) = IF a THEN st.args["master_key"] ELSE IF e THEN st.env["master_key"]
                       ELSE IF ~af /\ j THEN st.file["master_key"] ELSE ""
      /\ KeyFile(p) = IF af THEN st.args["master_key_file"]
                      ELSE IF ef THEN st.env["master_key_file"]
                      ELSE IF jf THEN st.file["master_key_file"] ELSE ""
  <2>1. Says(Load(st), "master_key") <=> Load(st)["master_key"] # ""
    BY <1>7 DEF Says
  <2>2. Says(Load(st), "master_key_file") <=> Load(st)["master_key_file"] # ""
    BY <1>7 DEF Says
  <2>3. /\ ks[1][1] <=> a
        /\ a => ks[1][2] = st.args["master_key"]
    BY <1>2, CandidateParts
  <2>4. /\ ks[2][1] <=> e
        /\ e => ks[2][2] = st.env["master_key"]
    BY <1>2, CandidateParts
  <2>5. /\ ks[3][1] <=> Says(Load(st), "master_key")
        /\ Says(Load(st), "master_key") => ks[3][2] = Load(st)["master_key"]
    BY <1>2, CandidateParts
  <2>6. /\ fs[1][1] <=> af
        /\ af => fs[1][2] = st.args["master_key_file"]
    BY <1>2, CandidateParts
  <2>7. /\ fs[2][1] <=> ef
        /\ ef => fs[2][2] = st.env["master_key_file"]
    BY <1>2, CandidateParts
  <2>8. /\ fs[3][1] <=> Says(Load(st), "master_key_file")
        /\ Says(Load(st), "master_key_file") => fs[3][2] = Load(st)["master_key_file"]
    BY <1>2, CandidateParts
  <2> HIDE DEF a, e, af, ef
  <2>9. KeyGiven(p) = IF a THEN st.args["master_key"] ELSE IF e THEN st.env["master_key"]
                      ELSE Load(st)["master_key"]
    BY <1>1, <1>4, <2>1, <2>3, <2>4, <2>5
  <2>10. KeyFile(p) = IF af THEN st.args["master_key_file"]
                      ELSE IF ef THEN st.env["master_key_file"]
                      ELSE Load(st)["master_key_file"]
    BY <1>1, <1>5, <2>2, <2>6, <2>7, <2>8
  <2> QED
    BY <1>7, <2>9, <2>10
<1>9. KeyOrder(p) =
        IF a THEN st.args["master_key"] ELSE IF e THEN st.env["master_key"]
        ELSE IF af THEN Content[st.args["master_key_file"]]
        ELSE IF j THEN st.file["master_key"]
        ELSE IF ef THEN Content[st.env["master_key_file"]]
        ELSE IF jf THEN Content[st.file["master_key_file"]] ELSE NoKey
  <2>1. \A layer, s : Says(layer, s) => layer[s] # ""
    BY DEF Says
  <2>2. /\ os[1][1] <=> a
        /\ a => os[1][2] = st.args["master_key"]
    BY <1>3, CandidateParts
  <2>3. /\ os[2][1] <=> e
        /\ e => os[2][2] = st.env["master_key"]
    BY <1>3, CandidateParts
  <2>4. ASSUME NEW x, NEW o, o = File1(x)
        PROVE  /\ o[1] <=> x[1] /\ x[2] # ""
               /\ x[2] # "" => o[2] = Content[x[2]]
    BY <2>4 DEF File1
  <2>5. /\ argsFile[1] <=> af
        /\ af => argsFile[2] = st.args["master_key_file"]
    BY CandidateParts
  <2>6. /\ envFile[1] <=> ef
        /\ ef => envFile[2] = st.env["master_key_file"]
    BY CandidateParts
  <2>7. ASSUME NEW name
        PROVE  /\ FileCandidate(st, name)[1] <=> FileSays(st, name)
               /\ FileSays(st, name) => FileCandidate(st, name)[2] = st.file[name]
    BY CandidateParts
  <2>8. /\ os[4][1] <=> j
        /\ j => os[4][2] = st.file["master_key"]
    <3> DEFINE x == FileCandidate(st, "master_key")
    <3>1. /\ x[1] <=> FileSays(st, "master_key")
          /\ FileSays(st, "master_key") => x[2] = st.file["master_key"]
      BY <2>7
    <3>2. os[4] = <<x[1] /\ x[2] # "", x[2]>>
      BY <1>3 DEF FromJSON
    <3> HIDE DEF x
    <3>3. ASSUME NEW o, o = <<x[1] /\ x[2] # "", x[2]>>
          PROVE  (o[1] <=> x[1] /\ x[2] # "") /\ o[2] = x[2]
      BY <3>3
    <3>4. (os[4][1] <=> x[1] /\ x[2] # "") /\ os[4][2] = x[2]
      BY <3>2, <3>3
    <3> QED
      BY <3>1, <3>4
  <2> HIDE DEF argsFile, envFile
  <2>9. /\ os[3][1] <=> af
        /\ af => os[3][2] = Content[st.args["master_key_file"]]
    <3>1. /\ os[3][1] <=> argsFile[1] /\ argsFile[2] # ""
          /\ argsFile[2] # "" => os[3][2] = Content[argsFile[2]]
      BY <1>3, <2>4
    <3> QED
      BY <2>1, <2>5, <3>1
  <2>10. /\ os[5][1] <=> ef
         /\ ef => os[5][2] = Content[st.env["master_key_file"]]
    <3>1. /\ os[5][1] <=> envFile[1] /\ envFile[2] # ""
          /\ envFile[2] # "" => os[5][2] = Content[envFile[2]]
      BY <1>3, <2>4
    <3> QED
      BY <2>1, <2>6, <3>1
  <2>11. /\ os[6][1] <=> jf
         /\ jf => os[6][2] = Content[st.file["master_key_file"]]
    <3> DEFINE x == FileCandidate(st, "master_key_file")
    <3>1. /\ x[1] <=> FileSays(st, "master_key_file")
          /\ FileSays(st, "master_key_file") => x[2] = st.file["master_key_file"]
      BY <2>7
    <3>2. os[6] = File1(x)
      BY <1>3
    <3> HIDE DEF x
    <3>3. /\ os[6][1] <=> x[1] /\ x[2] # ""
          /\ x[2] # "" => os[6][2] = Content[x[2]]
      BY <2>4, <3>2
    <3> QED
      BY <3>1, <3>3
  <2> HIDE DEF a, e, j, af, ef, jf
  <2> QED
    BY <1>1, <1>6, <2>2, <2>3, <2>8, <2>9, <2>10, <2>11
<1>10. /\ a => st.args["master_key"] \in GivenKey
       /\ e => st.env["master_key"] \in GivenKey
       /\ j => st.file["master_key"] \in GivenKey
       /\ af => st.args["master_key_file"] \in Path
       /\ ef => st.env["master_key_file"] \in Path
       /\ jf => st.file["master_key_file"] \in Path
  BY KeySourcesAssumption DEF FileSays, Says, NamesGiven
<1>11. "" \notin GivenKey /\ "" \notin Path
  BY KeySourcesAssumption
<1> HIDE DEF a, e, j, af, ef, jf
<1> QED
  BY <1>8, <1>9, <1>10, <1>11 DEF Persistent
-----------------------------------------------------------------------------
(***************************************************************************)
(* The inductive invariant: KeyResolver's, and that only processes no other  *)
(* tier gives a key reach tier 5 and cache one.  The others have the key of   *)
(* their strongest source, they a key that was returned; a blob has the key   *)
(* of the process that wrote it, and DPAPI's tag only where there is DPAPI.   *)
(***************************************************************************)
OnlyPersistentCalls ==
  /\ \A c \in Caller : pc[c] \notin {"idle", "failed"} => Persistent(ProcessOf[c])
  /\ \A p \in Process : cachedKey[p] # NoKey => Persistent(p)

HasItsKey(p, k) ==
  /\ Persistent(p) => k \in used
  /\ ~Persistent(p) => k \in GivenKey /\ k = KeyOrder(p)

MastersKeys == \A p \in Process : master[p] # NoKey => HasItsKey(p, master[p])

SecretsKeys ==
  secret # NoSecret =>
    \A blob \in {secret.cookies, secret.tokens} :
      /\ HasItsKey(secret.by, blob.key)
      /\ blob.tag = "dpapi" => Windows

SecretInv == KeyInv /\ STypeOK /\ OnlyPersistentCalls /\ MastersKeys /\ SecretsKeys

LEMMA SecretInvInit == SInit => SecretInv
<1> SUFFICES ASSUME SInit PROVE SecretInv
  OBVIOUS
<1>1. KeyInv
  BY KeyInvInit DEF SInit
<1>2. STypeOK
  BY <1>1 DEF SInit, STypeOK, KeyInv
<1>3. OnlyPersistentCalls
  BY DEF SInit, KInit, OnlyPersistentCalls
<1>4. MastersKeys /\ SecretsKeys
  BY DEF SInit, MastersKeys, SecretsKeys
<1> QED
  BY <1>1, <1>2, <1>3, <1>4 DEF SecretInv

(* What is read off the sources does not change. *)
LEMMA SourcesStay ==
  ASSUME start' = start, NEW p
  PROVE  /\ KeyGiven(p)' = KeyGiven(p)
         /\ KeyFile(p)' = KeyFile(p)
         /\ KeyOrder(p)' = KeyOrder(p)
         /\ Persistent(p)' <=> Persistent(p)
<1>1. KeyGiven(p)' = KeyGiven(p)
  BY DEF KeyGiven, Config
<1>2. KeyFile(p)' = KeyFile(p)
  BY DEF KeyFile, Config
<1>3. KeyOrder(p)' = KeyOrder(p)
  BY DEF KeyOrder
<1> QED
  BY <1>1, <1>2, <1>3 DEF Persistent

(* Every step is one of KeyResolver's, leaves its variables alone, or is a    *)
(* call that fails before tier 5.                                            *)
LEMMA KeyInvKept == KeyInv /\ [SNext]_svars => KeyInv'
<1> SUFFICES ASSUME KeyInv, [SNext]_svars PROVE KeyInv'
  OBVIOUS
<1>1. ASSUME NEW c \in Caller, ReadKeyFile(c) PROVE KeyInv'
  <2>1. CASE UNCHANGED kvars
    BY <2>1, KeyInvStep
  <2>2. CASE Goto(c, "failed") /\ UNCHANGED <<file, cachedKey, lock, key, used, writeFailed, crashes>>
    <3>1. pc[c] = "idle"
      BY <1>1 DEF ReadKeyFile
    <3> QED
      BY <2>2, <3>1, KeyResolverAssumption
      DEF Goto, Steps, KeyInv, KTypeOK, CallsHaveKeys, CreatorIsAlone, CreatorsFile,
          KeysAgree, Creators
  <2> QED
    BY <1>1, <2>1, <2>2 DEF ReadKeyFile
<1>2. CASE ~ \E c \in Caller : ReadKeyFile(c)
  <2>1. [KNext]_kvars
    BY <1>2 DEF SNext, svars, kvars, KNext, CallStep, ResolveGiven, ReturnPersistent,
                ResolvePersistent, TakeLock, CallAgain, SaveAccountSecrets,
                DeleteAccountSecrets, CrashProcess
  <2> QED
    BY <2>1, KeyInvStep
<1> QED
  BY <1>1, <1>2

LEMMA SecretInvStep == SecretInv /\ [SNext]_svars => SecretInv'
<1> SUFFICES ASSUME SecretInv, [SNext]_svars PROVE SecretInv'
  OBVIOUS
<1>1. KeyInv'
  BY KeyInvKept DEF SecretInv
<1>2. start' = start
  BY DEF SNext, svars, ResolveGiven, ReadKeyFile, ReturnPersistent, ResolvePersistent,
         TakeLock, CallAgain, SaveAccountSecrets, DeleteAccountSecrets, CrashProcess
<1>3. start \in Starts
  BY DEF SecretInv, STypeOK
<1>4. \A p : /\ KeyOrder(p)' = KeyOrder(p)
            /\ Persistent(p)' <=> Persistent(p)
  BY <1>2, SourcesStay
<1>5. used \subseteq used'
  BY DEF SNext, svars, kvars, ResolveGiven, ReadKeyFile, ReturnPersistent, ResolvePersistent,
         TakeLock, CallAgain, SaveAccountSecrets, DeleteAccountSecrets, CrashProcess,
         HitCache, MissCache, Lock, HitCacheLocked, Stat, ReadFile, Poll, CacheKey, Create,
         Write, Sync, RemoveFile, TryAgain, Crash, ReturnKey, Fail, HasKey
<1>6. KTypeOK /\ KTypeOK'
  BY <1>1 DEF SecretInv, KeyInv
<1>7. ASSUME NEW p \in Process, NEW k,
             Persistent(p) => k \in used,
             ~Persistent(p) => k \in GivenKey /\ k = KeyOrder(p)
      PROVE  /\ Persistent(p)' => k \in used'
             /\ ~Persistent(p)' => k \in GivenKey /\ k = KeyOrder(p)'
  <2>1. KeyOrder(p)' = KeyOrder(p)
    BY <1>2, SourcesStay
  <2>2. Persistent(p)' <=> Persistent(p)
    BY <1>2, SourcesStay
  <2> QED
    BY <1>5, <1>7, <2>1, <2>2
(* The master key of a process that runs. *)
<1> DEFINE MastersStay == /\ MastersKeys'
                          /\ master' \in [Process -> Key \cup GivenKey \cup {NoKey}]
<1>8. ASSUME NEW p \in Process, master[p] # NoKey
      PROVE  /\ Persistent(p)' => master[p] \in used'
             /\ ~Persistent(p)' => master[p] \in GivenKey /\ master[p] = KeyOrder(p)'
  <2>1. /\ Persistent(p) => master[p] \in used
        /\ ~Persistent(p) => master[p] \in GivenKey /\ master[p] = KeyOrder(p)
    BY <1>8 DEF SecretInv, MastersKeys, HasItsKey
  <2> QED
    BY <1>7, <2>1
<1>9. ASSUME UNCHANGED master PROVE MastersStay
  BY <1>8, <1>9 DEF MastersKeys, HasItsKey, SecretInv, STypeOK
<1>10. ASSUME NEW q \in Process, NEW k \in Key \cup GivenKey, Resolved(q, k),
              Persistent(q)' => k \in used',
              ~Persistent(q)' => k \in GivenKey /\ k = KeyOrder(q)'
       PROVE  MastersStay
  <2>1. master' \in [Process -> Key \cup GivenKey \cup {NoKey}]
    BY <1>10 DEF SecretInv, STypeOK, Resolved
  <2>2. ASSUME NEW p \in Process, master'[p] # NoKey
        PROVE  /\ Persistent(p)' => master'[p] \in used'
               /\ ~Persistent(p)' => master'[p] \in GivenKey /\ master'[p] = KeyOrder(p)'
    <3>1. CASE p = q /\ master[p] = NoKey
      <4>1. master'[p] = k
        BY <1>10, <3>1 DEF Resolved, SecretInv, STypeOK
      <4> QED
        BY <1>10, <3>1, <4>1
    <3>2. CASE ~(p = q /\ master[p] = NoKey)
      <4>1. master'[p] = master[p]
        BY <1>10, <3>2 DEF Resolved, SecretInv, STypeOK
      <4> QED
        BY <1>8, <2>2, <4>1
    <3> QED
      BY <3>1, <3>2
  <2>3. MastersKeys'
    BY <2>2 DEF MastersKeys, HasItsKey
  <2> QED
    BY <2>1, <2>3
<1>11. ASSUME NEW q \in Process, master' = [master EXCEPT ![q] = NoKey] PROVE MastersStay
  <2>1. master' \in [Process -> Key \cup GivenKey \cup {NoKey}]
    BY <1>11 DEF SecretInv, STypeOK
  <2>2. \A p \in Process : master'[p] # NoKey => master'[p] = master[p] /\ master[p] # NoKey
    BY <1>11 DEF SecretInv, STypeOK
  <2>3. MastersKeys'
    BY <1>8, <2>2 DEF MastersKeys, HasItsKey
  <2> QED
    BY <2>1, <2>3
<1>12. MastersStay
  <2>1. ASSUME NEW c \in Caller, ResolveGiven(c) PROVE MastersStay
    <3> DEFINE p == ProcessOf[c]
               k == KeyGiven(p)
    <3>1. p \in Process
      BY KeyResolverAssumption
    <3>2. k # "" /\ Resolved(p, k)
      BY <2>1 DEF ResolveGiven
    <3>3. ~Persistent(p) /\ k \in GivenKey /\ k = KeyOrder(p)
      BY <1>3, <3>1, <3>2, StrongestKey DEF Persistent
    <3> HIDE DEF k, p
    <3>4. /\ Persistent(p)' => k \in used'
          /\ ~Persistent(p)' => k \in GivenKey /\ k = KeyOrder(p)'
      BY <1>7, <3>1, <3>3
    <3> QED
      BY <1>10, <3>1, <3>2, <3>3, <3>4
  <2>2. ASSUME NEW c \in Caller, ReadKeyFile(c) PROVE MastersStay
    <3> DEFINE p == ProcessOf[c]
               k == Content[KeyFile(p)]
    <3>1. p \in Process
      BY KeyResolverAssumption
    <3>2. CASE k \in GivenKey /\ Resolved(p, k)
      <4>1. ~Persistent(p) /\ k = KeyOrder(p)
        BY <1>3, <2>2, <3>1, StrongestKey DEF Persistent, ReadKeyFile
      <4> HIDE DEF k, p
      <4>2. /\ Persistent(p)' => k \in used'
            /\ ~Persistent(p)' => k \in GivenKey /\ k = KeyOrder(p)'
        BY <1>7, <3>1, <3>2, <4>1
      <4> QED
        BY <1>10, <3>1, <3>2, <4>2
    <3>3. CASE UNCHANGED master
      BY <1>9, <3>3
    <3> QED
      BY <2>2, <3>2, <3>3 DEF ReadKeyFile
  <2>3. ASSUME NEW c \in Caller, ReturnPersistent(c) PROVE MastersStay
    <3> DEFINE p == ProcessOf[c]
               k == cachedKey'[p]
    <3>1. p \in Process
      BY KeyResolverAssumption
    <3>2. Resolved(p, k)
      BY <2>3 DEF ReturnPersistent
    <3>3. Persistent(p)
      BY <2>3, <3>1 DEF ReturnPersistent, HitCache, HitCacheLocked, CacheKey, Cached,
                        SecretInv, OnlyPersistentCalls
    <3>4. k \in Key /\ k \in used'
      BY <1>6, <2>3, <3>1 DEF ReturnPersistent, HitCache, HitCacheLocked, CacheKey, Cached,
                        ReturnKey, SecretInv, KeyInv, KTypeOK, CallsHaveKeys
    <3> HIDE DEF k, p
    <3>5. Persistent(p)'
      BY <1>2, <3>3, SourcesStay
    <3> QED
      BY <1>10, <3>1, <3>2, <3>4, <3>5
  <2>4. ASSUME NEW q \in Process, CrashProcess(q) PROVE MastersStay
    BY <1>11, <2>4 DEF CrashProcess
  <2>5. CASE UNCHANGED master
    BY <1>9, <2>5
  <2> QED
    BY <2>1, <2>2, <2>3, <2>4, <2>5 DEF SNext, svars, ResolvePersistent, TakeLock, CallAgain,
       SaveAccountSecrets, DeleteAccountSecrets
(* The secrets. *)
<1>13. SecretsKeys' /\ secret' \in [cookies : Blob, tokens : Blob, by : Process] \cup {NoSecret}
  <2>1. CASE UNCHANGED secret
    <3>1. ASSUME secret # NoSecret, NEW blob \in {secret.cookies, secret.tokens}
          PROVE  /\ Persistent(secret.by) => blob.key \in used'
                 /\ ~Persistent(secret.by) => /\ blob.key \in GivenKey
                                              /\ blob.key = KeyOrder(secret.by)
                 /\ blob.tag = "dpapi" => Windows
      BY <1>5, <3>1 DEF SecretInv, SecretsKeys, HasItsKey
    <3>2. /\ KeyOrder(secret.by)' = KeyOrder(secret.by)
          /\ Persistent(secret.by)' <=> Persistent(secret.by)
      BY <1>2, <2>1 DEF Persistent, KeyGiven, KeyFile, Config, KeyOrder
    <3> QED
      BY <2>1, <3>1, <3>2 DEF SecretsKeys, HasItsKey, SecretInv, STypeOK
  <2>2. CASE secret' = NoSecret
    BY <2>2 DEF SecretsKeys
  <2>3. ASSUME NEW p \in Process, SaveAccountSecrets(p)
        PROVE  /\ SecretsKeys'
               /\ secret' \in [cookies : Blob, tokens : Blob, by : Process]
    <3>1. PICK c \in Encrypt(p), t \in Encrypt(p) :
            secret' = [cookies |-> c, tokens |-> t, by |-> p]
      BY <2>3 DEF SaveAccountSecrets
    <3>2. master[p] # NoKey /\ UNCHANGED <<kvars, start, master>>
      BY <2>3 DEF SaveAccountSecrets
    <3>3. ASSUME NEW b \in Encrypt(p)
          PROVE  /\ b \in Blob
                 /\ b.key = master[p]
                 /\ b.tag = "dpapi" => Windows
      BY <3>2 DEF Encrypt, PreferDPAPI, Blob, Tags, SecretInv, STypeOK
    <3>4. /\ secret'.by = p
          /\ \A b \in {secret'.cookies, secret'.tokens} : b \in Encrypt(p)
      BY <3>1
    <3>5. /\ Persistent(p)' => master[p] \in used'
          /\ ~Persistent(p)' => master[p] \in GivenKey /\ master[p] = KeyOrder(p)'
      BY <1>8, <3>2
    <3>6. secret' \in [cookies : Blob, tokens : Blob, by : Process]
      <4>1. c \in Blob /\ t \in Blob
        BY <3>3
      <4> QED
        BY <3>1, <4>1
    <3>7. /\ KeyOrder(secret.by)' = KeyOrder(p)'
          /\ Persistent(secret.by)' <=> Persistent(p)'
      BY <3>4 DEF Persistent, KeyGiven, KeyFile, Config, KeyOrder
    <3>8. ASSUME NEW blob \in {secret'.cookies, secret'.tokens}
          PROVE  /\ Persistent(p)' => blob.key \in used'
                 /\ ~Persistent(p)' => blob.key \in GivenKey /\ blob.key = KeyOrder(p)'
                 /\ blob.tag = "dpapi" => Windows
      <4>1. blob \in Encrypt(p)
        BY <3>4
      <4>2. blob.key = master[p] /\ (blob.tag = "dpapi" => Windows)
        BY <3>3, <4>1
      <4> QED
        BY <3>5, <4>2
    <3>9. SecretsKeys'
      BY <3>7, <3>8 DEF SecretsKeys, HasItsKey
    <3> QED
      BY <3>6, <3>9
  <2> QED
    BY <2>1, <2>2, <2>3 DEF SNext, svars, ResolveGiven, ReadKeyFile, ReturnPersistent,
       ResolvePersistent, TakeLock, CallAgain, DeleteAccountSecrets, CrashProcess
(* Who reaches tier 5. *)
<1>14. OnlyPersistentCalls'
  <2>1. ASSUME NEW p \in Process
        PROVE  Persistent(p)' <=> Persistent(p)
    BY <1>2, SourcesStay
  <2> DEFINE Cache == \A p \in Process : cachedKey'[p] # NoKey => Persistent(p)
             Calls == \A c \in Caller : pc'[c] \notin {"idle", "failed"} => Persistent(ProcessOf[c])
  <2>2. /\ KTypeOK
        /\ ProcessOf \in [Caller -> Process]
        /\ \A p \in Process : cachedKey[p] # NoKey => Persistent(p)
        /\ \A c \in Caller : pc[c] \notin {"idle", "failed"} => Persistent(ProcessOf[c])
    BY <1>6, KeyResolverAssumption DEF SecretInv, OnlyPersistentCalls
  <2>3. ASSUME UNCHANGED kvars PROVE Cache /\ Calls
    BY <2>2, <2>3 DEF kvars
  <2>4. ASSUME NEW c \in Caller, ReadKeyFile(c) PROVE Cache /\ Calls
    <3>1. Cache
      BY <2>2, <2>4 DEF ReadKeyFile, kvars
    <3>2. Calls
      BY <2>2, <2>4 DEF ReadKeyFile, kvars, Goto, KTypeOK
    <3> QED
      BY <3>1, <3>2
  <2>5. ASSUME NEW c \in Caller, ReturnPersistent(c) PROVE Cache /\ Calls
    <3>1. HitCache(c) \/ HitCacheLocked(c) \/ CacheKey(c)
      BY <2>5 DEF ReturnPersistent
    <3>2. Calls
      BY <2>2, <3>1 DEF HitCache, HitCacheLocked, CacheKey, ReturnKey, Goto, KTypeOK
    <3>3. Cache
      BY <2>2, <3>1 DEF HitCache, HitCacheLocked, CacheKey, KTypeOK
    <3> QED
      BY <3>2, <3>3
  <2>6. ASSUME NEW c \in Caller, ResolvePersistent(c) PROVE Cache /\ Calls
    <3>1. Cache
      BY <2>2, <2>6 DEF ResolvePersistent, MissCache, Stat, ReadFile, Poll, Create, Write, Sync,
                        RemoveFile, Fail, HasKey
    <3>2. CASE MissCache(c) /\ MayCreate(c)
      BY <2>2, <3>1, <3>2 DEF MissCache, MayCreate, Goto, KTypeOK
    <3>3. CASE Stat(c) \/ ReadFile(c) \/ Poll(c) \/ Create(c) \/ Write(c) \/ Sync(c) \/ RemoveFile(c)
      <4>1. /\ pc[c] \notin {"idle", "failed"}
            /\ \A d \in Caller \ {c} : pc'[d] = pc[d]
        BY <2>2, <3>3 DEF Stat, ReadFile, Poll, Create, Write, Sync, RemoveFile, Fail, HasKey,
                          Goto, KTypeOK
      <4> QED
        BY <2>2, <3>1, <4>1
    <3> QED
      BY <2>6, <3>2, <3>3 DEF ResolvePersistent
  <2>7. ASSUME NEW c \in Caller, TakeLock(c) PROVE Cache /\ Calls
    BY <2>2, <2>7 DEF TakeLock, Lock, Goto, KTypeOK
  <2>8. ASSUME NEW c \in Caller, CallAgain(c) PROVE Cache /\ Calls
    BY <2>2, <2>8 DEF CallAgain, TryAgain, Goto, KTypeOK
  <2>9. ASSUME NEW p \in Process, CrashProcess(p) PROVE Cache /\ Calls
    BY <2>2, <2>9 DEF CrashProcess, Crash, KTypeOK
  <2>10. Cache /\ Calls
    <3> HIDE DEF Cache, Calls
    <3> QED
      BY <2>3, <2>4, <2>5, <2>6, <2>7, <2>8, <2>9
      DEF SNext, svars, ResolveGiven, SaveAccountSecrets, DeleteAccountSecrets
  <2> QED
    BY <2>1, <2>10, KeyResolverAssumption DEF OnlyPersistentCalls
<1>15. STypeOK'
  BY <1>2, <1>3, <1>6, <1>12, <1>13 DEF STypeOK
<1> QED
  BY <1>1, <1>12, <1>13, <1>14, <1>15 DEF SecretInv

-----------------------------------------------------------------------------
LEMMA SecretInvGivesStrongest == SecretInv => StrongestKeyUsed
<1> SUFFICES ASSUME SecretInv, NEW p \in Process, master[p] # NoKey
             PROVE  IF KeyOrder(p) = NoKey THEN master[p] \in Key ELSE master[p] = KeyOrder(p)
  BY DEF StrongestKeyUsed
<1>1. start \in Starts /\ used \subseteq Key
  BY DEF SecretInv, STypeOK, KTypeOK
<1>2. HasItsKey(p, master[p])
  BY DEF SecretInv, MastersKeys
<1>3. CASE Persistent(p)
  BY <1>1, <1>2, <1>3, StrongestKey DEF HasItsKey
<1>4. CASE ~Persistent(p)
  BY <1>2, <1>4 DEF HasItsKey
<1> QED
  BY <1>3, <1>4

LEMMA SecretInvGivesReadable == SecretInv => SecretsReadable
<1> SUFFICES ASSUME SecretInv, NEW p \in Process, secret # NoSecret, master[p] # NoKey,
                    ~writeFailed, KeyOrder(p) = KeyOrder(secret.by),
                    NEW blob \in {secret.cookies, secret.tokens}
             PROVE  Decrypt(p, blob)
  BY DEF SecretsReadable, GetAccountSecrets
<1>1. start \in Starts /\ secret.by \in Process
  BY DEF SecretInv, STypeOK
<1>2. HasItsKey(p, master[p]) /\ HasItsKey(secret.by, blob.key)
  BY DEF SecretInv, MastersKeys, SecretsKeys
<1>3. blob.tag = "dpapi" => Windows
  BY DEF SecretInv, SecretsKeys
<1>4. blob.tag \in {"dpapi", "aes"}
  BY DEF SecretInv, STypeOK, Blob, Tags
<1>5. \A q \in Process : Persistent(q) => KeyOrder(q) = NoKey
  BY <1>1, StrongestKey
<1>6. NoKey \notin GivenKey
  BY KeySourcesAssumption
<1>7. \A k, l \in used : k = l
  BY DEF SecretInv, KeyInv, KeysAgree
<1>8. blob.key = master[p]
  BY <1>1, <1>2, <1>5, <1>6, <1>7 DEF HasItsKey
<1> QED
  BY <1>3, <1>4, <1>8 DEF Decrypt

(* The invariant holds at every moment of every run of the processes          *)
(* (key_resolver.go, crypto.go and secrets_repo.go together).                 *)
THEOREM SecretInvCorrect == SSpec => []SecretInv
BY SecretInvInit, SecretInvStep, PTL DEF SSpec

(* Every variable has its type: no key but one that may be generated or given  *)
(* gets into a cache, a cipher or a row (key_resolver.go:46-62,               *)
(* crypto.go:117-121, secrets_repo.go:14-20).                                *)
THEOREM SecretTypes == SSpec => []STypeOK
BY SecretInvCorrect, PTL DEF SecretInv

(* The persistent key stays one key also where only some processes fall back   *)
(* on it (key_resolver.go:118-352).                                          *)
THEOREM KeysPersistedAmongSources == SSpec => [](KeyIsPersisted /\ OneCreator)
<1>1. SecretInv => KeyIsPersisted /\ OneCreator
  BY KeyInvGivesPersisted, KeyInvGivesOneCreator DEF SecretInv
<1> QED
  BY <1>1, SecretInvCorrect, PTL

(* A process that runs has the key of its strongest source, and a generated    *)
(* one only if none is named, after any number of crashes (key_resolver.go:   *)
(* 118-184).                                                                 *)
THEOREM StrongestKeyIsUsed == SSpec => []StrongestKeyUsed
BY SecretInvCorrect, SecretInvGivesStrongest, PTL

(* Whoever has its key from the source the writer had its own from can open    *)
(* both blobs, until a Sync fails (crypto.go:143-174, secrets_repo.go:41-59).  *)
THEOREM SecretsStayReadable == SSpec => []SecretsReadable
BY SecretInvCorrect, SecretInvGivesReadable, PTL

(* Every setting of every start has the value of its strongest layer, whatever *)
(* the file, the environment and the command line say (config.go:52-67,        *)
(* 96-234).                                                                  *)
THEOREM SettingsAreByPrecedence == SSpec => []SettingsByPrecedence
BY AllSettingsByPrecedence, PTL
=============================================================================
