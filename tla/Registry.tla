------------------------------ MODULE Registry ------------------------------
(***************************************************************************)
(* The provider registry (internal/provider/registry/registry.go): a map in *)
(* memory in front of the dynamic_providers table.  Every operation writes  *)
(* to the table first, row by row and without the lock, and to the map       *)
(* afterwards, under r.mu: another operation may come between.             *)
(*                                                                         *)
(* ProviderBoot says when these operations run.                            *)
(*                                                                         *)
(* Left out: the fields of a provider but its ID and status (a provider is  *)
(* a model value), copying (cloneProvider), the rejection of nil and empty   *)
(* IDs before the first write, and the accounts a deleted row takes along.  *)
(***************************************************************************)
EXTENDS Integers, Sequences, FiniteSets, SequencesExt

CONSTANTS
  ProviderID,
  Provider,    \* the providers, each with an ID
  IDOf,        \* IDOf[p] is p.ID
  Writer,      \* the goroutines that call the registry
  Batches,     \* the arguments of Register (one provider) and RegisterBatch
  None

ASSUME RegistryAssumption ==
  /\ IDOf \in [Provider -> ProviderID]
  /\ Batches \subseteq Seq(Provider)
  /\ None \notin Provider

VARIABLES
  db,       \* the table
  items,    \* r.items
  op,       \* what each writer has under way
  excused   \* history: where the two may differ from now on

rvars == <<db, items, op, excused>>

Table == {f \in [ProviderID -> Provider \cup {None}] :
            \A id \in ProviderID : f[id] # None => IDOf[f[id]] = id}

NoOp == [step |-> "none"]

Op == {NoOp} \cup [step : {"persisting"}, batch : Batches, next : Nat]
             \cup [step : {"removing"}, id : ProviderID]
             \cup [step : {"loading"}, rows : Table]

(* The types of the registry's part of the state (registry.go:17-22). *)
RTypeOK == /\ db \in Table
           /\ items \in Table
           /\ op \in [Writer -> Op]
           /\ excused \subseteq ProviderID

Begin(w, o) == op[w] = NoOp /\ op' = [op EXCEPT ![w] = o]

Return(w) == op' = [op EXCEPT ![w] = NoOp]

-----------------------------------------------------------------------------
(* Register and RegisterBatch: a batch of one is a Register. *)

Persisting(w) == op[w].step = "persisting"

StartBatch(w, batch) ==
  /\ Begin(w, [step |-> "persisting", batch |-> batch, next |-> 1])
  /\ UNCHANGED <<db, items>>

(* Fault: each provider is cached as soon as it is persisted. *)
PersistAndCache(w) ==
  /\ Persisting(w)
  /\ op[w].next <= Len(op[w].batch)
  /\ LET p == op[w].batch[op[w].next] IN
       /\ db' = [db EXCEPT ![IDOf[p]] = p]
       /\ items' = [items EXCEPT ![IDOf[p]] = p]
  /\ op' = [op EXCEPT ![w].next = @ + 1]

(* Fault: the ID is that of the first provider of the batch. *)
PersistUnderFirst(w) ==
  /\ Persisting(w)
  /\ op[w].next <= Len(op[w].batch)
  /\ db' = [db EXCEPT ![IDOf[op[w].batch[1]]] = op[w].batch[op[w].next]]
  /\ op' = [op EXCEPT ![w].next = @ + 1]
  /\ UNCHANGED items

(* SaveProvider, an upsert, for the next provider of the batch. *)
Persist(w) ==
  /\ Persisting(w)
  /\ op[w].next <= Len(op[w].batch)
  /\ LET p == op[w].batch[op[w].next] IN db' = [db EXCEPT ![IDOf[p]] = p]
  /\ op' = [op EXCEPT ![w].next = @ + 1]
  /\ UNCHANGED items

(* It fails: the batch is over, what it has written stays in the table. *)
PersistFails(w) ==
  /\ Persisting(w)
  /\ op[w].next <= Len(op[w].batch)
  /\ Return(w)
  /\ UNCHANGED <<db, items>>

InBatch(batch, id) == {i \in 1 .. Len(batch) : IDOf[batch[i]] = id}

(* Fault: of two providers with one ID the first remains. *)
CacheFirstWith(batch) ==
  [id \in ProviderID |->
     IF InBatch(batch, id) = {} THEN items[id]
     ELSE batch[CHOOSE i \in InBatch(batch, id) :
                  \A j \in InBatch(batch, id) : i <= j]]

(* Of two providers of a batch with one ID the last remains. *)
CacheWith(batch) ==
  [id \in ProviderID |->
     IF InBatch(batch, id) = {} THEN items[id]
     ELSE batch[CHOOSE i \in InBatch(batch, id) :
                  \A j \in InBatch(batch, id) : j <= i]]

CacheBatch(w) ==
  /\ Persisting(w)
  /\ op[w].next > Len(op[w].batch)
  /\ items' = CacheWith(op[w].batch)
  /\ Return(w)
  /\ UNCHANGED db

-----------------------------------------------------------------------------
(* Unregister and LoadFromRepository. *)

(* DeleteProvider; when it fails nothing has happened. *)
Delete(w, id) ==
  /\ Begin(w, [step |-> "removing", id |-> id])
  /\ db' = [db EXCEPT ![id] = None]
  /\ UNCHANGED items

Uncache(w) ==
  /\ op[w].step = "removing"
  /\ items' = [items EXCEPT ![op[w].id] = None]
  /\ Return(w)
  /\ UNCHANGED db

(* ListProviders; when it fails nothing has happened. *)
ListRows(w) ==
  /\ Begin(w, [step |-> "loading", rows |-> db])
  /\ UNCHANGED <<db, items>>

(* The rows go over the map, which keeps what is not among them. *)
CacheRows(w) ==
  /\ op[w].step = "loading"
  /\ items' = [id \in ProviderID |->
                 IF op[w].rows[id] # None THEN op[w].rows[id] ELSE items[id]]
  /\ Return(w)
  /\ UNCHANGED db

-----------------------------------------------------------------------------
OpStep(w) ==
  \/ \E batch \in Batches : StartBatch(w, batch)
  \/ Persist(w) \/ PersistFails(w) \/ CacheBatch(w)
  \/ \E id \in ProviderID : Delete(w, id)
  \/ Uncache(w) \/ ListRows(w) \/ CacheRows(w)

(* The IDs an operation under way reads or writes. *)
Touched(o) == CASE o.step = "none" -> {}
                [] o.step = "persisting" -> {IDOf[p] : p \in Range(o.batch)}
                [] o.step = "removing" -> {o.id}
                [] o.step = "loading" -> ProviderID

Written(o) == IF o.step = "persisting"
              THEN {IDOf[o.batch[i]] : i \in 1 .. o.next - 1}
              ELSE {}

(* History: two operations on one ID overlap, or a batch fails half-way. *)
Excuse ==
  excused' = excused
    \cup {id \in ProviderID : \E v, w \in Writer :
            v # w /\ id \in Touched(op'[v]) \cap Touched(op'[w])}
    \cup UNION {Written(op[w]) : w \in {x \in Writer : PersistFails(x)}}

-----------------------------------------------------------------------------
(* Properties. *)

(* "thread-safe registry with automatic SQLite synchronization" (PROJECT.md:  *)
(* 24), as far as it goes: memory and table agree on every provider no        *)
(* operation is at work on, unless two operations on that provider have       *)
(* overlapped or a batch with it has failed half-way (registry.go:174-250).   *)
Synchronized ==
  \A id \in ProviderID \ excused :
    (\A w \in Writer : id \notin Touched(op[w])) => items[id] = db[id]
=============================================================================
