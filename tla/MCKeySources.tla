---------------------------- MODULE MCKeySources -----------------------------
(* Small instances of KeySources for TLC. *)
EXTENDS KeySources, TLC

CONSTANTS p1, p2, c1, c2, c3, k1, k2, k3

(* Two goroutines in one process, one in the other. *)
MCProcessOf == [c \in Caller |-> IF c = c3 THEN p2 ELSE p1]

MCContent == [f \in Path |-> CASE f = "argsfile" -> "ka"
                               [] f = "envfile"  -> "ke"
                               [] f = "jsonfile" -> "kj"
                               [] f = "blankfile" -> "blank"]

Start(args, env, json) ==
  [args |-> args, env |-> env, file |-> json, json |-> "read", named |-> TRUE]

Nothing == Start(<<>>, <<>>, <<>>)

SetKey(k) == [master_key |-> k]
SetFile(f) == [master_key_file |-> f]

(* Every set of the six sources of a key but the empty one, and a blank file. *)
KeyStarts ==
  {Start(a, e, j) :
     a \in {<<>>, SetKey("kargs"), SetFile("argsfile"), SetFile("blankfile")},
     e \in {<<>>, SetKey("kenv"), SetFile("envfile")},
     j \in {<<>>, SetKey("kjson"), SetFile("jsonfile"),
            SetKey("kjson") @@ SetFile("jsonfile")}} \ {Nothing}

(* What a file may say in the three fields of the manifests directory, an     *)
(* environment in two, and a command line in one.                            *)
Say(s, v) == IF v = "absent" THEN <<>> ELSE s :> v

ManifestsStarts ==
  {Start(SetKey("kargs"), <<>>,
         Say("manifests_dir", top) @@ Say("providers.manifests_dir", prov)
           @@ Say("storage.manifests_dir", stor)) :
     top \in {"absent", "manifests", "", "d1"},
     prov \in {"absent", "manifests", "", "d2"},
     stor \in {"absent", "manifests", "", "d3"}}
  \cup
  {Start(SetKey("kargs") @@ Say("manifests_dir", a),
         Say("manifests_dir", e1) @@ Say("providers.manifests_dir", e2),
         Say("manifests_dir", "d1") @@ Say("port", "7")) :
     a \in {"absent", "d4"}, e1 \in {"absent", "d5"}, e2 \in {"absent", "", "d6"}}

PlainStarts ==
  {Start(SetKey("kargs") @@ Say("data_dir", a) @@ Say("api_key", j),
         Say("data_dir", e) @@ Say("api_key", a) @@ Say("use_dpapi", "1"),
         Say("data_dir", j) @@ Say("api_key", e) @@ ("use_dpapi" :> FALSE)) :
     a \in {"absent", "va"}, e \in {"absent", "ve"}, j \in {"absent", "", "vj"}}

(* The same sources, but the other choice of cipher. *)
WithoutDPAPI(s) == [s EXCEPT !.args = Say("use_dpapi", "false") @@ @]

Pair(s, t) == p1 :> s @@ p2 :> t

MCStarts ==
  {Pair(Nothing, WithoutDPAPI(Nothing)),
   Pair(Nothing, Start(<<>>, SetKey("kenv"), <<>>)),
   Pair(Start(<<>>, SetKey("kenv"), <<>>), [Nothing EXCEPT !.json = "malformed"]),
   Pair(Start(<<>>, SetKey("kenv"), <<>>),
        [Nothing EXCEPT !.json = "unreadable", !.named = FALSE])}
  \cup {Pair(s, WithoutDPAPI(s)) : s \in KeyStarts \cup ManifestsStarts \cup PlainStarts}
=============================================================================
