--------------------------- MODULE ProviderChoice ----------------------------
(***************************************************************************)
(* The beginning of a request (internal/proxy/engine.go:63-97): which        *)
(* provider it is for, and that provider's blueprint.  Up to five reads of   *)
(* the registry's memory and of the table, one after the other, while the    *)
(* writers of ProviderBoot go on.  What follows in a request is Gateway.     *)
(*                                                                         *)
(* Nothing in the gateway calls SetDefault, so r.defaultID is empty and the  *)
(* default is the first active provider by ID; an ID's place in the alphabet *)
(* is its place in Alphabet.  Rows are listed by name, whose order is open.  *)
(***************************************************************************)
EXTENDS ProviderBoot

CONSTANTS
  Alphabet,  \* the IDs in order
  Active,    \* the providers whose status is active
  Flow       \* the ID "flow"

ASSUME ChoiceAssumption ==
  /\ Alphabet \in Seq(ProviderID) /\ Range(Alphabet) = ProviderID
  /\ Active \subseteq Provider
  /\ Flow \in ProviderID

VARIABLES
  at,         \* where the request is
  providerID, \* the provider it is for
  blueprint,  \* the provider it was given
  stored      \* history: the provider's row has been in the table all the time
              \* since it was chosen, and no read of it has failed

cvars == <<bvars, at, providerID, blueprint, stored>>

(* The types of a request's local variables (engine.go:63-97). *)
CTypeOK ==
  /\ BTypeOK
  /\ at \in {"idle", "flow", "list", "blueprint", "row", "ready"}
  /\ providerID \in ProviderID \cup {None}
  /\ blueprint \in Provider \cup {None}
  /\ stored \in BOOLEAN

NoRequest == /\ at' = "idle" /\ providerID' = None /\ blueprint' = None
             /\ stored' = FALSE

CInit == /\ BInit
         /\ at = "idle" /\ providerID = None /\ blueprint = None
         /\ stored = FALSE

-----------------------------------------------------------------------------
(* DefaultProvider, under the read lock. *)
DefaultProvider ==
  LET first == SelectInSeq(Alphabet, LAMBDA id : items[id] \in Active)
  IN  IF first = 0 THEN None ELSE Alphabet[first]

(* The request is for this provider; its blueprint comes next. *)
Choose(id) ==
  /\ providerID' = id
  /\ at' = "blueprint"
  /\ stored' = (db[id] # None)
  /\ UNCHANGED <<bvars, blueprint>>

NamesProvider == \E id \in ProviderID : at = "idle" /\ Choose(id)

AskDefault ==
  /\ at = "idle"
  /\ IF DefaultProvider # None
     THEN Choose(DefaultProvider)
     ELSE /\ at' = "flow"
          /\ UNCHANGED <<bvars, providerID, blueprint, stored>>

(* GetProvider("flow"), which may fail or find nothing. *)
AskFlow ==
  /\ at = "flow"
  /\ \/ db[Flow] # None /\ Choose(Flow)
     \/ /\ at' = "list"
        /\ UNCHANGED <<bvars, providerID, blueprint, stored>>

(* ListProviders, and "flow" if that fails or finds nothing. *)
AskList ==
  /\ at = "list"
  /\ \/ \E id \in ProviderID : db[id] # None /\ Choose(id)
     \/ Choose(Flow)

Given(p) ==
  /\ blueprint' = p
  /\ at' = "ready"
  /\ UNCHANGED <<bvars, providerID>>

(* Fault: the blueprint is only looked for in memory. *)
BlueprintFromMemory ==
  /\ at = "blueprint"
  /\ Given(items[providerID])
  /\ UNCHANGED stored

(* registry.Get. *)
ReadMemory ==
  /\ at = "blueprint"
  /\ IF items[providerID] # None
     THEN Given(items[providerID]) /\ UNCHANGED stored
     ELSE /\ at' = "row"
          /\ UNCHANGED <<bvars, providerID, blueprint, stored>>

(* repo.GetProvider; an error is ignored. *)
ReadRow ==
  /\ at = "row"
  /\ \/ Given(db[providerID]) /\ UNCHANGED stored
     \/ Given(None) /\ stored' = FALSE

Leave == at = "ready" /\ NoRequest /\ UNCHANGED bvars

RequestStep ==
  /\ boot = "serving"
  /\ \/ NamesProvider \/ AskDefault \/ AskFlow \/ AskList
     \/ ReadMemory \/ ReadRow \/ Leave

(* Everybody else goes on; a request does not survive the process. *)
OtherStep ==
  /\ BNext
  /\ IF boot' = "serving"
     THEN /\ stored' = (stored /\ db'[providerID] # None)
          /\ UNCHANGED <<at, providerID, blueprint>>
     ELSE NoRequest

CNext == RequestStep \/ OtherStep

CSpec == CInit /\ [][CNext]_cvars

-----------------------------------------------------------------------------
(* Properties. *)

(* A provider that stays in the table while a request begins is found by it,    *)
(* in memory or in the table, however many others register, reload or remove    *)
(* and whether or not memory could be filled at the start: the dispatcher       *)
(* takes a request without a blueprint for one without an upstream, and         *)
(* answers it with a picture of its own (engine.go:90-97, dispatcher.go:51).    *)
BlueprintFound == (at = "ready" /\ stored) => blueprint # None
=============================================================================
