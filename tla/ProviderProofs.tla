--------------------------- MODULE ProviderProofs ---------------------------
(***************************************************************************)
(* Proofs about Registry, ProviderBoot and ProviderChoice, for every set of *)
(* providers, writers, batches and manifests directories.                  *)
(***************************************************************************)
EXTENDS ProviderChoice, TLAPS, SequenceTheorems, WellFoundedInduction

-----------------------------------------------------------------------------
(* Batches. *)

(* A set of positions of a sequence that is not empty has a last one. *)
LEMMA LastPosition ==
  ASSUME NEW n \in Nat, NEW I \in SUBSET (1 .. n), I # {}
  PROVE  \E i \in I : \A j \in I : j <= i
<1> DEFINE R == OpToRel(<, Nat)
           J == {k \in Nat : n - k \in I}
<1>1. \A x, y \in Nat : <<y, x>> \in R <=> y < x
  BY DEF OpToRel
<1>2. IsWellFoundedOn(R, Nat)
  BY NatLessThanWellFounded
<1>3. J \in SUBSET Nat /\ J # {}
  <2>1. PICK i \in I : TRUE
    OBVIOUS
  <2>2. n - i \in Nat /\ n - (n - i) = i
    BY <2>1
  <2> QED
    BY <2>2
<1> HIDE DEF R
<1>4. PICK x \in J : \A y \in J : ~(<<y, x>> \in R)
  <2> HIDE DEF J
  <2> QED
    BY <1>2, <1>3, WFMin
<1>5. ASSUME NEW j \in I PROVE j <= n - x
  <2>1. n - j \in J /\ j \in Nat /\ x \in Nat
    OBVIOUS
  <2>2. ~(n - j < x)
    <3> HIDE DEF J
    <3> QED
      BY <1>1, <1>3, <1>4, <2>1
  <2> QED
    BY <2>1, <2>2
<1> QED
  BY <1>5

LEMMA FirstPosition ==
  ASSUME NEW n \in Nat, NEW I \in SUBSET (1 .. n), I # {}
  PROVE  \E i \in I : \A j \in I : i <= j
<1> DEFINE J == {k \in 1 .. n : n + 1 - k \in I}
<1>1. ASSUME NEW i \in I PROVE n + 1 - i \in J
  <2>1. n + 1 - i \in 1 .. n /\ n + 1 - (n + 1 - i) = i
    OBVIOUS
  <2> QED
    BY <2>1
<1>2. J \in SUBSET (1 .. n) /\ J # {} /\ \A k \in J : n + 1 - k \in I
  BY <1>1
<1> HIDE DEF J
<1>3. PICK k \in J : \A j \in J : j <= k
  BY <1>2, LastPosition
<1>4. ASSUME NEW j \in I PROVE n + 1 - k <= j
  <2>1. n + 1 - j <= k
    BY <1>1, <1>3
  <2> QED
    BY <1>2, <2>1
<1> QED
  BY <1>2, <1>4

LEMMA BatchOfProviders ==
  ASSUME NEW batch \in Batches
  PROVE  /\ Len(batch) \in Nat
         /\ \A i \in 1 .. Len(batch) : batch[i] \in Provider /\ IDOf[batch[i]] \in ProviderID
         /\ Range(batch) = {batch[i] : i \in 1 .. Len(batch)}
<1>1. batch \in Seq(Provider)
  BY RegistryAssumption
<1> QED
  BY <1>1, LenProperties, RegistryAssumption DEF Range

(* What the map holds after a batch: the last provider of the batch with the ID. *)
LEMMA CacheWithLast ==
  ASSUME NEW batch \in Batches, NEW id \in ProviderID
  PROVE  IF \E i \in 1 .. Len(batch) : IDOf[batch[i]] = id
         THEN \E i \in 1 .. Len(batch) :
                /\ IDOf[batch[i]] = id
                /\ \A j \in 1 .. Len(batch) : IDOf[batch[j]] = id => j <= i
                /\ CacheWith(batch)[id] = batch[i]
         ELSE CacheWith(batch)[id] = items[id]
<1> DEFINE I == InBatch(batch, id)
<1>1. Len(batch) \in Nat /\ I \in SUBSET (1 .. Len(batch))
  BY BatchOfProviders DEF InBatch
<1>2. I = {i \in 1 .. Len(batch) : IDOf[batch[i]] = id}
  BY DEF InBatch
<1>3. CacheWith(batch)[id] =
        IF I = {} THEN items[id] ELSE batch[CHOOSE i \in I : \A j \in I : j <= i]
  BY <1>2 DEF CacheWith
<1>4. CASE I = {}
  BY <1>2, <1>3, <1>4
<1>5. CASE I # {}
  <2> DEFINE last == CHOOSE i \in I : \A j \in I : j <= i
  <2>1. last \in I /\ \A j \in I : j <= last
    <3> HIDE DEF I
    <3>1. \E i \in I : \A j \in I : j <= i
      BY <1>1, <1>5, LastPosition
    <3> QED
      BY <3>1
  <2>2. CacheWith(batch)[id] = batch[last]
    BY <1>3, <1>5
  <2> HIDE DEF last
  <2> QED
    BY <1>2, <2>1, <2>2
<1> QED
  BY <1>4, <1>5

-----------------------------------------------------------------------------
(* Types.  A batch under way is at most one past its end. *)

BatchGoesOn(o) == o.step = "persisting" => o.next \in 1 .. Len(o.batch) + 1

OpsInv == RTypeOK /\ \A w \in Writer : BatchGoesOn(op[w])

LEMMA OpKinds ==
  ASSUME NEW o \in Op
  PROVE  \/ o = NoOp /\ o.step = "none"
         \/ /\ o \in [step : {"persisting"}, batch : Batches, next : Nat]
            /\ o.step = "persisting" /\ o.batch \in Batches /\ o.next \in Nat
         \/ /\ o \in [step : {"removing"}, id : ProviderID]
            /\ o.step = "removing" /\ o.id \in ProviderID
         \/ /\ o \in [step : {"loading"}, rows : Table]
            /\ o.step = "loading" /\ o.rows \in Table
<1> HIDE DEF Table
<1> QED
  BY DEF Op, NoOp

LEMMA RowChanged ==
  ASSUME NEW f \in Table, NEW id \in ProviderID, NEW p \in Provider \cup {None},
         p # None => IDOf[p] = id
  PROVE  [f EXCEPT ![id] = p] \in Table
BY DEF Table

LEMMA BatchCachedIsTable ==
  ASSUME items \in Table, NEW batch \in Batches
  PROVE  CacheWith(batch) \in Table
<1> DEFINE f == CacheWith(batch)
<1>1. f = [id \in ProviderID |-> f[id]]
  BY DEF CacheWith
<1>2. ASSUME NEW id \in ProviderID
      PROVE  f[id] \in Provider \cup {None} /\ (f[id] # None => IDOf[f[id]] = id)
  <2> HIDE DEF f
  <2>1. items[id] \in Provider \cup {None} /\ (items[id] # None => IDOf[items[id]] = id)
    BY DEF Table
  <2>2. CASE \E i \in 1 .. Len(batch) : IDOf[batch[i]] = id
    <3>1. PICK i \in 1 .. Len(batch) : IDOf[batch[i]] = id /\ f[id] = batch[i]
      BY <2>2, CacheWithLast DEF f
    <3> QED
      BY <3>1, BatchOfProviders
  <2>3. CASE ~\E i \in 1 .. Len(batch) : IDOf[batch[i]] = id
    <3>1. f[id] = items[id]
      BY <2>3, CacheWithLast DEF f
    <3> QED
      BY <2>1, <3>1
  <2> QED
    BY <2>2, <2>3
<1> HIDE DEF f
<1>3. f \in [ProviderID -> Provider \cup {None}]
  BY <1>1, <1>2
<1>4. f \in Table
  BY <1>2, <1>3 DEF Table
<1> QED
  BY <1>4 DEF f

LEMMA RowsCachedIsTable ==
  ASSUME NEW f \in Table, NEW g \in Table
  PROVE  [id \in ProviderID |-> IF f[id] # None THEN f[id] ELSE g[id]] \in Table
BY DEF Table

(* An operation keeps the types, and the other operations are not changed. *)
LEMMA OpStepTypes ==
  ASSUME OpsInv, NEW w \in Writer, OpStep(w)
  PROVE  /\ db' \in Table /\ items' \in Table /\ op' \in [Writer -> Op]
         /\ \A v \in Writer : BatchGoesOn(op'[v])
         /\ \A v \in Writer \ {w} : op'[v] = op[v]
<1>1. db \in Table /\ items \in Table /\ op \in [Writer -> Op] /\ op[w] \in Op
  BY DEF OpsInv, RTypeOK
<1>2. \A v \in Writer : BatchGoesOn(op[v])
  BY DEF OpsInv
<1> DEFINE Changes(o) == op' = [op EXCEPT ![w] = o]
<1>3. ASSUME NEW o, o \in Op, BatchGoesOn(o), Changes(o)
      PROVE  /\ op' \in [Writer -> Op]
             /\ \A v \in Writer : BatchGoesOn(op'[v])
             /\ \A v \in Writer \ {w} : op'[v] = op[v]
  <2>1. op' \in [Writer -> Op] /\ op'[w] = o /\ \A v \in Writer \ {w} : op'[v] = op[v]
    BY <1>1, <1>3
  <2> QED
    BY <1>2, <1>3, <2>1
<1>4. NoOp \in Op /\ BatchGoesOn(NoOp)
  BY DEF Op, NoOp, BatchGoesOn
<1>5. ASSUME NEW batch \in Batches, StartBatch(w, batch)
      PROVE  /\ db' \in Table /\ items' \in Table /\ op' \in [Writer -> Op]
             /\ \A v \in Writer : BatchGoesOn(op'[v])
             /\ \A v \in Writer \ {w} : op'[v] = op[v]
  <2> DEFINE o == [step |-> "persisting", batch |-> batch, next |-> 1]
  <2>1. o \in Op /\ BatchGoesOn(o)
    BY BatchOfProviders DEF Op, BatchGoesOn
  <2>2. Changes(o)
    BY <1>5 DEF StartBatch, Begin
  <2>3. db' = db /\ items' = items
    BY <1>5 DEF StartBatch
  <2> HIDE DEF o
  <2> QED
    BY <1>1, <1>3, <2>1, <2>2, <2>3
<1>6. CASE Persist(w)
  <2> DEFINE o == [op[w] EXCEPT !.next = @ + 1]
             p == op[w].batch[op[w].next]
  <2>1. /\ op[w] \in [step : {"persisting"}, batch : Batches, next : Nat]
        /\ op[w].batch \in Batches /\ op[w].next \in 1 .. Len(op[w].batch)
    <3>1. op[w].step = "persisting" /\ op[w].next <= Len(op[w].batch)
      BY <1>6 DEF Persist, Persisting
    <3>2. /\ op[w] \in [step : {"persisting"}, batch : Batches, next : Nat]
          /\ op[w].batch \in Batches
      BY <1>1, <3>1, OpKinds
    <3>3. op[w].next \in 1 .. Len(op[w].batch) + 1
      BY <1>2, <3>1 DEF BatchGoesOn
    <3> QED
      BY <3>1, <3>2, <3>3, BatchOfProviders
  <2>2. o \in Op /\ BatchGoesOn(o)
    <3>1. Len(op[w].batch) \in Nat
      BY <2>1, BatchOfProviders
    <3> QED
      BY <2>1, <3>1 DEF Op, BatchGoesOn
  <2>3. Changes(o)
    BY <1>1, <1>6 DEF Persist
  <2>4. p \in Provider /\ IDOf[p] \in ProviderID
    BY <2>1, BatchOfProviders
  <2>5. db' = [db EXCEPT ![IDOf[p]] = p] /\ items' = items
    BY <1>6 DEF Persist
  <2> HIDE DEF o, p
  <2>6. db' \in Table
    BY <1>1, <2>4, <2>5, RowChanged
  <2> QED
    BY <1>1, <1>3, <2>2, <2>3, <2>5, <2>6
<1>7. CASE PersistFails(w)
  BY <1>1, <1>3, <1>4, <1>7 DEF PersistFails, Return
<1>8. CASE CacheBatch(w)
  <2>1. op[w].step = "persisting" /\ items' = CacheWith(op[w].batch) /\ db' = db
    BY <1>8 DEF CacheBatch, Persisting
  <2>2. items' \in Table
    BY <1>1, <2>1, OpKinds, BatchCachedIsTable
  <2>3. Changes(NoOp)
    BY <1>8 DEF CacheBatch, Return
  <2> QED
    BY <1>1, <1>3, <1>4, <2>1, <2>2, <2>3
<1>9. ASSUME NEW id \in ProviderID, Delete(w, id)
      PROVE  /\ db' \in Table /\ items' \in Table /\ op' \in [Writer -> Op]
             /\ \A v \in Writer : BatchGoesOn(op'[v])
             /\ \A v \in Writer \ {w} : op'[v] = op[v]
  <2> DEFINE o == [step |-> "removing", id |-> id]
  <2>1. o \in Op /\ BatchGoesOn(o)
    BY DEF Op, BatchGoesOn
  <2>2. Changes(o)
    BY <1>9 DEF Delete, Begin
  <2>3. db' = [db EXCEPT ![id] = None] /\ items' = items
    BY <1>9 DEF Delete
  <2>4. db' \in Table
    BY <1>1, <2>3, RowChanged
  <2> HIDE DEF o
  <2> QED
    BY <1>1, <1>3, <2>1, <2>2, <2>3, <2>4
<1>10. CASE Uncache(w)
  <2>1. op[w].id \in ProviderID
    BY <1>1, <1>10, OpKinds DEF Uncache
  <2>2. items' \in Table
    BY <1>1, <1>10, <2>1, RowChanged DEF Uncache
  <2> QED
    BY <1>1, <1>3, <1>4, <1>10, <2>2 DEF Uncache, Return
<1>11. CASE ListRows(w)
  <2> DEFINE o == [step |-> "loading", rows |-> db]
  <2>1. o \in Op /\ BatchGoesOn(o)
    BY <1>1 DEF Op, BatchGoesOn
  <2>2. Changes(o)
    BY <1>11 DEF ListRows, Begin
  <2>3. db' = db /\ items' = items
    BY <1>11 DEF ListRows
  <2> HIDE DEF o
  <2> QED
    BY <1>1, <1>3, <2>1, <2>2, <2>3
<1>12. CASE CacheRows(w)
  <2>1. op[w].rows \in Table
    BY <1>1, <1>12, OpKinds DEF CacheRows
  <2>2. items' \in Table
    BY <1>1, <1>12, <2>1, RowsCachedIsTable DEF CacheRows
  <2> QED
    BY <1>1, <1>3, <1>4, <1>12, <2>2 DEF CacheRows, Return
<1> QED
  BY <1>5, <1>6, <1>7, <1>8, <1>9, <1>10, <1>11, <1>12 DEF OpStep

-----------------------------------------------------------------------------
(* What one operation keeps true of one provider. *)

(* The first n - 1 providers of a batch are in the table, where d is the row of id. *)
InTable(batch, n, id, d) ==
  \A j \in 1 .. n - 1 :
    IDOf[batch[j]] = id /\ (\A k \in j + 1 .. n - 1 : IDOf[batch[k]] # id) => d = batch[j]

Unwritten(batch, n, id) == \A j \in 1 .. n - 1 : IDOf[batch[j]] # id

(* Row d and cached provider m of id, which only operation o is at work on. *)
Coherent(o, id, d, m) ==
  /\ o.step = "persisting" =>
       /\ InTable(o.batch, o.next, id, d)
       /\ Unwritten(o.batch, o.next, id) => m = d
  /\ o.step = "removing" => d = None
  /\ o.step = "loading" => m = d /\ o.rows[id] = d

Local(o, id, d, m) == IF id \in Touched(o) THEN Coherent(o, id, d, m) ELSE m = d

LEMMA TouchedKinds ==
  ASSUME NEW o \in Op, NEW id \in ProviderID
  PROVE  /\ o.step = "none" => id \notin Touched(o)
         /\ o.step = "persisting" =>
              (id \in Touched(o) <=> \E i \in 1 .. Len(o.batch) : IDOf[o.batch[i]] = id)
         /\ o.step = "removing" => (id \in Touched(o) <=> id = o.id)
         /\ o.step = "loading" => id \in Touched(o)
<1>1. CASE o.step = "none"
  BY <1>1 DEF Touched
<1>2. CASE o.step = "persisting"
  <2>1. o.batch \in Batches
    BY <1>2, OpKinds
  <2>2. Touched(o) = {IDOf[p] : p \in Range(o.batch)}
    BY <1>2 DEF Touched
  <2>3. Range(o.batch) = {o.batch[i] : i \in 1 .. Len(o.batch)}
    BY <2>1, BatchOfProviders
  <2>4. id \in Touched(o) <=> \E i \in 1 .. Len(o.batch) : IDOf[o.batch[i]] = id
    BY <2>2, <2>3
  <2> QED
    BY <1>2, <2>4
<1>3. CASE o.step = "removing"
  BY <1>3 DEF Touched
<1>4. CASE o.step = "loading"
  BY <1>4 DEF Touched
<1> QED
  BY <1>1, <1>2, <1>3, <1>4, OpKinds

(* The next provider of a batch is put into the table. *)
LEMMA NextPersisted ==
  ASSUME NEW batch \in Batches, NEW n \in 1 .. Len(batch), NEW id \in ProviderID, NEW d
  PROVE  /\ IDOf[batch[n]] = id =>
              InTable(batch, n + 1, id, batch[n]) /\ ~Unwritten(batch, n + 1, id)
         /\ IDOf[batch[n]] # id /\ InTable(batch, n, id, d) =>
              /\ InTable(batch, n + 1, id, d)
              /\ Unwritten(batch, n + 1, id) => Unwritten(batch, n, id)
<1>1. Len(batch) \in Nat /\ n \in Nat /\ (n + 1) - 1 = n
  BY BatchOfProviders
<1>2. ASSUME IDOf[batch[n]] = id
      PROVE  InTable(batch, n + 1, id, batch[n]) /\ ~Unwritten(batch, n + 1, id)
  <2>1. ASSUME NEW j \in 1 .. n, \A k \in j + 1 .. n : IDOf[batch[k]] # id
        PROVE  j = n
    BY <1>1, <1>2, <2>1
  <2> QED
    BY <1>1, <1>2, <2>1 DEF InTable, Unwritten
<1>3. ASSUME IDOf[batch[n]] # id, InTable(batch, n, id, d)
      PROVE  /\ InTable(batch, n + 1, id, d)
             /\ Unwritten(batch, n + 1, id) => Unwritten(batch, n, id)
  <2>1. ASSUME NEW j \in 1 .. n, IDOf[batch[j]] = id,
               \A k \in j + 1 .. n : IDOf[batch[k]] # id
        PROVE  d = batch[j]
    <3>1. j \in 1 .. n - 1 /\ \A k \in j + 1 .. n - 1 : k \in j + 1 .. n
      BY <1>1, <1>3, <2>1
    <3> QED
      BY <1>3, <2>1, <3>1 DEF InTable
  <2> QED
    BY <1>1, <2>1 DEF InTable, Unwritten
<1> QED
  BY <1>2, <1>3

(* The map agrees with the table once a whole batch is in both. *)
LEMMA BatchCached ==
  ASSUME NEW batch \in Batches, NEW id \in ProviderID, NEW n, n = Len(batch) + 1,
         InTable(batch, n, id, db[id]),
         Unwritten(batch, n, id) => items[id] = db[id]
  PROVE  CacheWith(batch)[id] = db[id]
<1>1. Len(batch) \in Nat /\ n - 1 = Len(batch)
  BY BatchOfProviders
<1>2. CASE \E i \in 1 .. Len(batch) : IDOf[batch[i]] = id
  <2>1. PICK i \in 1 .. Len(batch) :
          /\ IDOf[batch[i]] = id
          /\ \A j \in 1 .. Len(batch) : IDOf[batch[j]] = id => j <= i
          /\ CacheWith(batch)[id] = batch[i]
    BY <1>2, CacheWithLast
  <2>2. \A k \in i + 1 .. Len(batch) : IDOf[batch[k]] # id
    BY <1>1, <2>1
  <2>3. db[id] = batch[i]
    BY <1>1, <2>1, <2>2 DEF InTable
  <2> QED
    BY <2>1, <2>3
<1>3. CASE ~\E i \in 1 .. Len(batch) : IDOf[batch[i]] = id
  BY <1>1, <1>3, CacheWithLast DEF Unwritten
<1> QED
  BY <1>2, <1>3

LEMMA BatchBegins ==
  ASSUME NEW batch, NEW id, NEW d
  PROVE  InTable(batch, 1, id, d) /\ Unwritten(batch, 1, id)
BY DEF InTable, Unwritten

(* An operation leaves alone what it does not touch, and keeps its promise of *)
(* the rest, unless it fails with rows written.                              *)
LEMMA OpStepLocal ==
  ASSUME OpsInv, NEW w \in Writer, OpStep(w), NEW id \in ProviderID
  PROVE  /\ id \notin Touched(op[w]) /\ id \notin Touched(op'[w]) =>
              db'[id] = db[id] /\ items'[id] = items[id]
         /\ /\ PersistFails(w) => id \notin Written(op[w])
            /\ Local(op[w], id, db[id], items[id])
            => Local(op'[w], id, db'[id], items'[id])
<1> DEFINE Keeps == db'[id] = db[id] /\ items'[id] = items[id]
           Before == Local(op[w], id, db[id], items[id])
           After == Local(op'[w], id, db'[id], items'[id])
           Goal == /\ id \notin Touched(op[w]) /\ id \notin Touched(op'[w]) => Keeps
                   /\ (PersistFails(w) => id \notin Written(op[w])) /\ Before => After
<1>1. db \in Table /\ items \in Table /\ op \in [Writer -> Op] /\ op[w] \in Op
  BY DEF OpsInv, RTypeOK
<1>2. /\ op'[w] \in Op /\ op' \in [Writer -> Op]
      /\ DOMAIN db = ProviderID /\ DOMAIN items = ProviderID
  BY <1>1, OpStepTypes DEF Table
<1>3. BatchGoesOn(op[w])
  BY DEF OpsInv
<1>4. NoOp.step = "none" /\ Touched(NoOp) = {}
  BY DEF NoOp, Touched
<1>5. ASSUME NEW batch \in Batches, StartBatch(w, batch) PROVE Goal
  <2>1. op[w] = NoOp /\ Keeps
    BY <1>5 DEF StartBatch, Begin
  <2>2. op'[w].step = "persisting" /\ op'[w].batch = batch /\ op'[w].next = 1
    BY <1>1, <1>5 DEF StartBatch, Begin
  <2>3. Coherent(op'[w], id, db[id], items[id]) <=> items[id] = db[id]
    BY <2>2, BatchBegins DEF Coherent
  <2> QED
    BY <1>4, <2>1, <2>3 DEF Local
<1>6. CASE Persist(w)
  <2> DEFINE b == op[w].batch
             n == op[w].next
             p == b[n]
  <2>1. op[w].step = "persisting" /\ n <= Len(b)
    BY <1>6 DEF Persist, Persisting
  <2>2. b \in Batches /\ n \in 1 .. Len(b)
    <3>1. b \in Batches /\ n \in Nat
      BY <1>1, <2>1, OpKinds
    <3>2. n \in 1 .. Len(b) + 1
      BY <1>3, <2>1 DEF BatchGoesOn
    <3> QED
      BY <2>1, <3>1, <3>2, BatchOfProviders
  <2>3. p \in Provider /\ IDOf[p] \in ProviderID
    BY <2>2, BatchOfProviders
  <2>4. op'[w].step = "persisting" /\ op'[w].batch = b /\ op'[w].next = n + 1
    <3>1. /\ op[w] \in [step : {"persisting"}, batch : Batches, next : Nat]
      BY <1>1, <2>1, OpKinds
    <3>2. op'[w] = [op[w] EXCEPT !.next = @ + 1]
      BY <1>1, <1>6 DEF Persist
    <3> QED
      BY <3>1, <3>2
  <2>5. /\ items' = items
        /\ db'[id] = IF id = IDOf[p] THEN p ELSE db[id]
    BY <1>2, <1>6, <2>3 DEF Persist
  <2>6. Touched(op'[w]) = Touched(op[w])
    BY <2>1, <2>4 DEF Touched
  <2>7. id \notin Touched(op[w]) => id # IDOf[p]
    BY <1>1, <2>1, <2>2, TouchedKinds
  <2>8. /\ Coherent(op[w], id, db[id], items[id]) <=>
             InTable(b, n, id, db[id]) /\ (Unwritten(b, n, id) => items[id] = db[id])
        /\ Coherent(op'[w], id, db'[id], items'[id]) <=>
             /\ InTable(b, n + 1, id, db'[id])
             /\ Unwritten(b, n + 1, id) => items'[id] = db'[id]
    BY <2>1, <2>4 DEF Coherent
  <2> HIDE DEF b, n
  <2>9. Coherent(op[w], id, db[id], items[id]) => Coherent(op'[w], id, db'[id], items'[id])
    BY <2>2, <2>5, <2>8, NextPersisted
  <2> QED
    BY <2>5, <2>6, <2>7, <2>9 DEF Local
<1>7. CASE PersistFails(w)
  <2>1. op[w].step = "persisting" /\ Keeps /\ op'[w] = NoOp
    BY <1>1, <1>7 DEF PersistFails, Persisting, Return
  <2>2. ASSUME id \notin Written(op[w]), Before
        PROVE  items[id] = db[id]
    <3>1. Unwritten(op[w].batch, op[w].next, id)
      BY <2>1, <2>2 DEF Written, Unwritten
    <3> QED
      BY <2>1, <2>2, <3>1 DEF Local, Coherent
  <2> QED
    BY <1>4, <1>7, <2>1, <2>2 DEF Local
<1>8. CASE CacheBatch(w)
  <2>1. /\ op[w].step = "persisting" /\ op[w].next > Len(op[w].batch) /\ db' = db
        /\ items' = CacheWith(op[w].batch) /\ op'[w] = NoOp
    BY <1>1, <1>8 DEF CacheBatch, Persisting, Return
  <2>2. op[w].batch \in Batches /\ op[w].next = Len(op[w].batch) + 1
    <3>1. op[w].batch \in Batches
      BY <1>1, <2>1, OpKinds
    <3> QED
      BY <1>3, <2>1, <3>1, BatchOfProviders DEF BatchGoesOn
  <2>3. CASE id \in Touched(op[w])
    <3>1. Before => items'[id] = db[id]
      BY <2>1, <2>2, <2>3, BatchCached DEF Local, Coherent
    <3> QED
      BY <1>4, <2>1, <2>3, <3>1 DEF Local
  <2>4. CASE id \notin Touched(op[w])
    <3>1. items'[id] = items[id]
      BY <1>1, <2>1, <2>2, <2>4, TouchedKinds, CacheWithLast
    <3> QED
      BY <1>4, <2>1, <2>4, <3>1 DEF Local
  <2> QED
    BY <2>3, <2>4
<1>9. ASSUME NEW i \in ProviderID, Delete(w, i) PROVE Goal
  <2>1. op[w] = NoOp /\ items' = items /\ db' = [db EXCEPT ![i] = None]
    BY <1>9 DEF Delete, Begin
  <2>2. op'[w].step = "removing" /\ op'[w].id = i
    BY <1>1, <1>9 DEF Delete, Begin
  <2>3. id \in Touched(op'[w]) <=> id = i
    BY <2>2 DEF Touched
  <2>4. db'[id] = IF id = i THEN None ELSE db[id]
    BY <1>2, <2>1
  <2> QED
    BY <1>4, <2>1, <2>2, <2>3, <2>4 DEF Local, Coherent
<1>10. CASE Uncache(w)
  <2>1. /\ op[w].step = "removing" /\ db' = db /\ op'[w] = NoOp
        /\ items' = [items EXCEPT ![op[w].id] = None]
    BY <1>1, <1>10 DEF Uncache, Return
  <2>2. id \in Touched(op[w]) <=> id = op[w].id
    BY <2>1 DEF Touched
  <2>3. items'[id] = IF id = op[w].id THEN None ELSE items[id]
    BY <1>2, <2>1
  <2> QED
    BY <1>4, <2>1, <2>2, <2>3 DEF Local, Coherent
<1>11. CASE ListRows(w)
  <2>1. op[w] = NoOp /\ Keeps
    BY <1>11 DEF ListRows, Begin
  <2>2. op'[w].step = "loading" /\ op'[w].rows = db
    BY <1>1, <1>11 DEF ListRows, Begin
  <2>3. id \in Touched(op'[w])
    BY <2>2 DEF Touched
  <2> QED
    BY <1>4, <2>1, <2>2, <2>3 DEF Local, Coherent
<1>12. CASE CacheRows(w)
  <2>1. op[w].step = "loading" /\ db' = db /\ op'[w] = NoOp
    BY <1>1, <1>12 DEF CacheRows, Return
  <2>2. items'[id] = IF op[w].rows[id] # None THEN op[w].rows[id] ELSE items[id]
    BY <1>12 DEF CacheRows
  <2>3. id \in Touched(op[w])
    BY <2>1 DEF Touched
  <2> QED
    BY <1>4, <2>1, <2>2, <2>3 DEF Local, Coherent
<1>13. CASE \E batch \in Batches : StartBatch(w, batch)
  BY <1>5, <1>13
<1>14. CASE \E i \in ProviderID : Delete(w, i)
  BY <1>9, <1>14
<1> HIDE DEF Goal, Keeps, Before, After
<1> QED
  BY <1>6, <1>7, <1>8, <1>10, <1>11, <1>12, <1>13, <1>14 DEF OpStep

-----------------------------------------------------------------------------
(* The inductive invariant of ProviderBoot: what holds in each phase of the   *)
(* start, and that an operation works alone on what is not excused.          *)

Quiet == /\ boot # "serving" => \A w \in Writer \ {Main} : op[w] = NoOp
         /\ boot \in {"down", "manifests", "serving"} => op[Main] = NoOp

Empty == boot \in {"down", "hydrate"} => items = NothingCached /\ excused = {}

Hydrating == boot = "hydrate" =>
               op[Main] = NoOp \/ op[Main] = [step |-> "loading", rows |-> db]

Hydrated == boot = "manifests" => \A id \in ProviderID \ excused : items[id] = db[id]

Registering == boot = "register" =>
  /\ op[Main].step = "persisting" /\ op[Main].batch = Manifests(directory)
  /\ \A id \in ProviderID :
       /\ InTable(op[Main].batch, op[Main].next, id, db[id])
       /\ Unwritten(op[Main].batch, op[Main].next, id) =>
            items[id] = db[id] \/ id \in excused

Serving == boot = "serving" =>
  \A id \in ProviderID \ excused :
    /\ \A v, w \in Writer : v # w => id \notin Touched(op[v]) \/ id \notin Touched(op[w])
    /\ (\A w \in Writer : id \notin Touched(op[w])) => items[id] = db[id]
    /\ \A w \in Writer : id \in Touched(op[w]) => Coherent(op[w], id, db[id], items[id])

BInv == /\ OpsInv /\ BTypeOK
        /\ Quiet /\ Empty /\ Hydrating /\ Hydrated /\ Registering /\ Serving

LEMMA NothingIsTable == NothingCached \in Table /\ \A id \in ProviderID : NothingCached[id] = None
BY DEF NothingCached, Table

LEMMA AllQuiet ==
  /\ [w \in Writer |-> NoOp] \in [Writer -> Op]
  /\ \A w \in Writer : [x \in Writer |-> NoOp][w] = NoOp
  /\ BatchGoesOn(NoOp) /\ Touched(NoOp) = {} /\ NoOp.step = "none"
BY DEF Op, NoOp, BatchGoesOn, Touched

LEMMA BInvInit == BInit => BInv
<1> SUFFICES ASSUME BInit PROVE BInv
  OBVIOUS
<1>1. /\ db = NothingCached /\ items = NothingCached /\ excused = {} /\ boot = "down"
      /\ directory = Missing
      /\ op \in [Writer -> Op] /\ \A w \in Writer : op[w] = NoOp
  BY AllQuiet DEF BInit
<1>2. OpsInv /\ BTypeOK
  BY <1>1, AllQuiet, NothingIsTable DEF OpsInv, RTypeOK, BTypeOK
<1>3. Quiet
  BY <1>1, BootAssumption DEF Quiet
<1> QED
  BY <1>1, <1>2, <1>3 DEF BInv, Empty, Hydrating, Hydrated, Registering, Serving

LEMMA ProcessEndsKeepsBInv ==
  ASSUME BInv, ProcessEnds
  PROVE  BInv'
<1>1. /\ db' = db /\ items' = NothingCached /\ excused' = {} /\ boot' = "down"
      /\ directory' = Missing
      /\ op' \in [Writer -> Op] /\ \A w \in Writer : op'[w] = NoOp
  BY AllQuiet DEF ProcessEnds
<1>2. db \in Table
  BY DEF BInv, OpsInv, RTypeOK
<1>3. OpsInv' /\ BTypeOK'
  BY <1>1, <1>2, AllQuiet, NothingIsTable DEF OpsInv, RTypeOK, BTypeOK
<1>4. Quiet'
  BY <1>1, BootAssumption DEF Quiet
<1> QED
  BY <1>1, <1>3, <1>4 DEF BInv, Empty, Hydrating, Hydrated, Registering, Serving

LEMMA StartKeepsBInv ==
  ASSUME BInv, NEW dir \in Directories, Start(dir)
  PROVE  BInv'
<1>1. /\ db' = db /\ items' = items /\ op' = op /\ excused' = excused
      /\ boot = "down" /\ boot' = "hydrate" /\ directory' = dir
  BY DEF Start, rvars
<1>2. OpsInv' /\ BTypeOK'
  BY <1>1 DEF BInv, OpsInv, RTypeOK, BTypeOK, Booting
<1>3. Quiet' /\ Empty' /\ Hydrating'
  BY <1>1 DEF BInv, Quiet, Empty, Hydrating
<1> QED
  BY <1>1, <1>2, <1>3 DEF BInv, Hydrated, Registering, Serving

(* An operation of main() during the start. *)
LEMMA MainStepTypes ==
  ASSUME BInv, OpStep(Main), boot' \in Booting \cup {"serving"},
         excused' \subseteq ProviderID, directory' \in Directories \cup {Missing}
  PROVE  /\ OpsInv' /\ BTypeOK'
         /\ boot # "serving" => \A w \in Writer \ {Main} : op'[w] = NoOp
<1>1. OpsInv /\ Main \in Writer
  BY BootAssumption DEF BInv
<1>2. /\ db' \in Table /\ items' \in Table /\ op' \in [Writer -> Op]
      /\ \A v \in Writer : BatchGoesOn(op'[v])
      /\ \A v \in Writer \ {Main} : op'[v] = op[v]
  BY <1>1, OpStepTypes
<1>3. OpsInv' /\ BTypeOK'
  BY <1>2 DEF OpsInv, RTypeOK, BTypeOK
<1> QED
  BY <1>2, <1>3 DEF BInv, Quiet

LEMMA HydrateKeepsBInv ==
  ASSUME BInv, Hydrate
  PROVE  BInv'
<1>1. /\ boot = "hydrate" /\ excused' = excused /\ directory' = directory
      /\ items = NothingCached /\ excused = {} /\ db \in Table /\ op \in [Writer -> Op]
      /\ directory \in Directories \cup {Missing} /\ Main \in Writer
  BY BootAssumption DEF Hydrate, BInv, OpsInv, RTypeOK, BTypeOK, Empty
<1>2. CASE ListRows(Main) /\ boot' = boot
  <2>1. /\ db' = db /\ items' = items /\ boot' = "hydrate"
        /\ op'[Main] = [step |-> "loading", rows |-> db]
    BY <1>1, <1>2 DEF ListRows, Begin
  <2>2. OpsInv' /\ BTypeOK' /\ \A w \in Writer \ {Main} : op'[w] = NoOp
    BY <1>1, <1>2, <2>1, MainStepTypes DEF OpStep, Booting
  <2> QED
    BY <1>1, <2>1, <2>2
    DEF BInv, Quiet, Empty, Hydrating, Hydrated, Registering, Serving
<1>3. CASE CacheRows(Main) /\ boot' = "manifests"
  <2>1. op[Main] = [step |-> "loading", rows |-> db]
    <3>1. op[Main].step = "loading"
      BY <1>3 DEF CacheRows
    <3> QED
      BY <1>1, <3>1, AllQuiet DEF BInv, Hydrating
  <2>2. op[Main].rows = db
    BY <2>1
  <2>3. /\ db' = db /\ op'[Main] = NoOp
        /\ \A id \in ProviderID : items'[id] = db[id]
    BY <1>1, <1>3, <2>2, NothingIsTable DEF CacheRows, Return
  <2>4. OpsInv' /\ BTypeOK' /\ \A w \in Writer \ {Main} : op'[w] = NoOp
    BY <1>1, <1>3, MainStepTypes DEF OpStep, Booting
  <2> QED
    BY <1>3, <2>3, <2>4
    DEF BInv, Quiet, Empty, Hydrating, Hydrated, Registering, Serving
<1> QED
  BY <1>2, <1>3 DEF Hydrate

LEMMA HydrateFailsKeepsBInv ==
  ASSUME BInv, HydrateFails
  PROVE  BInv'
<1>1. /\ boot = "hydrate" /\ boot' = "manifests" /\ op[Main] = NoOp
      /\ excused' = {id \in ProviderID : db[id] # None}
      /\ db' = db /\ items' = items /\ op' = op /\ directory' = directory
      /\ items = NothingCached
  BY DEF HydrateFails, BInv, Empty
<1>2. OpsInv' /\ BTypeOK'
  BY <1>1 DEF BInv, OpsInv, RTypeOK, BTypeOK, Booting
<1>3. Quiet'
  BY <1>1 DEF BInv, Quiet
<1>4. Hydrated'
  BY <1>1, NothingIsTable DEF Hydrated
<1> QED
  BY <1>1, <1>2, <1>3, <1>4 DEF BInv, Empty, Hydrating, Registering, Serving

LEMMA RegisterManifestsKeepsBInv ==
  ASSUME BInv, RegisterManifests
  PROVE  BInv'
<1> DEFINE batch == Manifests(directory)
<1>1. /\ boot = "manifests" /\ boot' = "register"
      /\ excused' = excused /\ directory' = directory
      /\ directory \in Directories \cup {Missing} /\ excused \subseteq ProviderID
      /\ op \in [Writer -> Op] /\ Main \in Writer
  BY BootAssumption DEF RegisterManifests, BInv, OpsInv, RTypeOK, BTypeOK
<1>2. batch \in Batches
  BY <1>1, ManifestsAssumption
<1>3. StartBatch(Main, batch)
  BY DEF RegisterManifests
<1> HIDE DEF batch
<1>4. /\ db' = db /\ items' = items
      /\ op'[Main] = [step |-> "persisting", batch |-> batch, next |-> 1]
  BY <1>1, <1>3 DEF StartBatch, Begin
<1>5. op'[Main].step = "persisting" /\ op'[Main].batch = batch /\ op'[Main].next = 1
  BY <1>4
<1>6. OpsInv' /\ BTypeOK' /\ \A w \in Writer \ {Main} : op'[w] = NoOp
  BY <1>1, <1>2, <1>3, MainStepTypes DEF OpStep, Booting
<1>7. Manifests(directory)' = batch
  BY <1>1 DEF batch
<1>8. \A id \in ProviderID : items[id] = db[id] \/ id \in excused
  BY <1>1 DEF BInv, Hydrated
<1>9. Registering'
  <2>1. \A id \in ProviderID :
          /\ InTable(batch, 1, id, db'[id])
          /\ items'[id] = db'[id] \/ id \in excused'
    BY <1>1, <1>4, <1>8, BatchBegins
  <2> QED
    BY <1>5, <1>7, <2>1 DEF Registering
<1> QED
  BY <1>1, <1>6, <1>9 DEF BInv, Quiet, Empty, Hydrating, Hydrated, Serving

LEMMA PersistManifestKeepsBInv ==
  ASSUME BInv, PersistManifest
  PROVE  BInv'
<1> DEFINE b == op[Main].batch
           n == op[Main].next
           p == b[n]
<1>1. /\ boot = "register" /\ boot' = "register"
      /\ excused' = excused /\ directory' = directory
      /\ directory \in Directories \cup {Missing} /\ excused \subseteq ProviderID
      /\ op \in [Writer -> Op] /\ Main \in Writer /\ db \in Table
      /\ BatchGoesOn(op[Main])
  BY BootAssumption DEF PersistManifest, BInv, OpsInv, RTypeOK, BTypeOK
<1>2. Persist(Main)
  BY DEF PersistManifest
<1>3. op[Main].step = "persisting" /\ n <= Len(b)
  BY <1>2 DEF Persist, Persisting
<1>4. /\ op[Main] \in [step : {"persisting"}, batch : Batches, next : Nat]
      /\ b \in Batches /\ n \in 1 .. Len(b)
  <2>1. /\ op[Main] \in [step : {"persisting"}, batch : Batches, next : Nat]
        /\ b \in Batches
    BY <1>1, <1>3, OpKinds
  <2>2. n \in 1 .. Len(b) + 1
    BY <1>1, <1>3 DEF BatchGoesOn
  <2> QED
    BY <1>3, <2>1, <2>2, BatchOfProviders
<1>5. p \in Provider /\ IDOf[p] \in ProviderID
  BY <1>4, BatchOfProviders
<1>6. op'[Main].step = "persisting" /\ op'[Main].batch = b /\ op'[Main].next = n + 1
  <2>1. op'[Main] = [op[Main] EXCEPT !.next = @ + 1]
    BY <1>1, <1>2 DEF Persist
  <2> QED
    BY <1>4, <2>1
<1>7. db' = [db EXCEPT ![IDOf[p]] = p] /\ items' = items
  BY <1>2 DEF Persist
<1>8. OpsInv' /\ BTypeOK' /\ \A w \in Writer \ {Main} : op'[w] = NoOp
  BY <1>1, <1>2, MainStepTypes DEF OpStep, Booting
<1>9. /\ b = Manifests(directory)
      /\ \A id \in ProviderID :
           /\ InTable(b, n, id, db[id])
           /\ Unwritten(b, n, id) => items[id] = db[id] \/ id \in excused
  BY <1>1 DEF BInv, Registering
<1>10. Manifests(directory)' = Manifests(directory)
  BY <1>1
<1> HIDE DEF b, n
<1>11. ASSUME NEW id \in ProviderID
       PROVE  /\ InTable(b, n + 1, id, db'[id])
              /\ Unwritten(b, n + 1, id) => items'[id] = db'[id] \/ id \in excused'
  <2>1. db'[id] = IF id = IDOf[p] THEN p ELSE db[id]
    BY <1>1, <1>5, <1>7 DEF Table
  <2> QED
    BY <1>1, <1>4, <1>7, <1>9, <2>1, NextPersisted
<1>12. Registering'
  BY <1>6, <1>9, <1>10, <1>11 DEF Registering
<1> QED
  BY <1>1, <1>8, <1>12 DEF BInv, Quiet, Empty, Hydrating, Hydrated, Serving

(* Where memory and table are when the gateway begins to serve. *)
LEMMA ListenCaches ==
  ASSUME BInv, Listen
  PROVE  /\ boot = "register" /\ boot' = "serving" /\ db' = db /\ op'[Main] = NoOp
         /\ op[Main].batch = Manifests(directory) /\ Manifests(directory) \in Batches
         /\ items' = CacheWith(Manifests(directory))
         /\ \A id \in ProviderID :
              IF \E i \in 1 .. Len(Manifests(directory)) : IDOf[Manifests(directory)[i]] = id
              THEN items'[id] = db'[id]
              ELSE id \notin excused => items'[id] = db'[id]
<1> DEFINE b == op[Main].batch
           n == op[Main].next
<1>1. /\ boot = "register" /\ boot' = "serving" /\ CacheBatch(Main)
      /\ directory \in Directories \cup {Missing}
      /\ op \in [Writer -> Op] /\ Main \in Writer
      /\ BatchGoesOn(op[Main])
  BY BootAssumption DEF Listen, BInv, OpsInv, RTypeOK, BTypeOK
<1>2. /\ b = Manifests(directory)
      /\ \A id \in ProviderID :
           /\ InTable(b, n, id, db[id])
           /\ Unwritten(b, n, id) => items[id] = db[id] \/ id \in excused
  BY <1>1 DEF BInv, Registering
<1>3. b \in Batches
  BY <1>1, <1>2, ManifestsAssumption
<1>4. /\ op[Main].step = "persisting" /\ n > Len(b) /\ db' = db
      /\ items' = CacheWith(b) /\ op'[Main] = NoOp
  BY <1>1 DEF CacheBatch, Persisting, Return
<1>5. n = Len(b) + 1
  BY <1>1, <1>3, <1>4, BatchOfProviders DEF BatchGoesOn
<1> HIDE DEF b, n
<1>6. ASSUME NEW id \in ProviderID
      PROVE  IF \E i \in 1 .. Len(b) : IDOf[b[i]] = id
             THEN items'[id] = db'[id]
             ELSE id \notin excused => items'[id] = db'[id]
  <2>1. Unwritten(b, n, id) <=> ~\E i \in 1 .. Len(b) : IDOf[b[i]] = id
    BY <1>3, <1>5, BatchOfProviders DEF Unwritten
  <2>2. CASE Unwritten(b, n, id) /\ id \in excused
    BY <2>1, <2>2
  <2>3. CASE ~(Unwritten(b, n, id) /\ id \in excused)
    BY <1>2, <1>3, <1>4, <1>5, <2>3, BatchCached
  <2> QED
    BY <2>2, <2>3
<1>7. op[Main].batch = Manifests(directory)
  BY <1>2 DEF b
<1> QED
  BY <1>1, <1>2, <1>3, <1>4, <1>6, <1>7

LEMMA ListenKeepsBInv ==
  ASSUME BInv, Listen
  PROVE  BInv'
<1> DEFINE b == Manifests(directory)
<1>1. /\ boot = "register" /\ boot' = "serving" /\ directory' = Missing
      /\ excused' = excused \ IDs(op[Main].batch) /\ CacheBatch(Main)
      /\ excused \subseteq ProviderID /\ op \in [Writer -> Op] /\ Main \in Writer
  BY BootAssumption DEF Listen, BInv, OpsInv, RTypeOK, BTypeOK
<1>2. /\ op'[Main] = NoOp /\ op[Main].batch = b /\ b \in Batches
      /\ \A id \in ProviderID :
           IF \E i \in 1 .. Len(b) : IDOf[b[i]] = id
           THEN items'[id] = db'[id]
           ELSE id \notin excused => items'[id] = db'[id]
  BY ListenCaches
<1> HIDE DEF b
<1>3. OpsInv' /\ BTypeOK' /\ \A w \in Writer \ {Main} : op'[w] = NoOp
  <2>1. excused' \subseteq ProviderID
    BY <1>1
  <2> QED
    BY <1>1, <2>1, MainStepTypes DEF OpStep
<1>4. \A w \in Writer : op'[w] = NoOp
  BY <1>2, <1>3
<1>5. Quiet'
  BY <1>1, <1>4 DEF Quiet
<1>6. ASSUME NEW id \in ProviderID, id \notin excused'
      PROVE  items'[id] = db'[id]
  <2>1. id \in IDs(b) <=> \E i \in 1 .. Len(b) : IDOf[b[i]] = id
    BY <1>2, BatchOfProviders DEF IDs
  <2>2. id \notin excused \/ id \in IDs(b)
    BY <1>1, <1>2, <1>6
  <2> QED
    BY <1>2, <2>1, <2>2
<1>7. Serving'
  BY <1>4, <1>6, AllQuiet DEF Serving
<1> QED
  BY <1>1, <1>3, <1>5, <1>7 DEF BInv, Empty, Hydrating, Hydrated, Registering

LEMMA ServeKeepsBInv ==
  ASSUME BInv, NEW w \in Writer \ {Main}, Serve(w)
  PROVE  BInv'
<1>1. /\ boot = "serving" /\ boot' = "serving" /\ directory' = directory
      /\ OpStep(w) /\ Excuse
      /\ OpsInv /\ excused \subseteq ProviderID
      /\ directory \in Directories \cup {Missing}
      /\ Main \in Writer
  BY BootAssumption DEF Serve, BInv, OpsInv, RTypeOK, BTypeOK
<1>2. /\ db' \in Table /\ items' \in Table /\ op' \in [Writer -> Op]
      /\ \A v \in Writer : BatchGoesOn(op'[v])
      /\ \A v \in Writer \ {w} : op'[v] = op[v]
  BY <1>1, OpStepTypes
<1>3. op \in [Writer -> Op]
  BY <1>1 DEF OpsInv, RTypeOK
<1>4. excused' \subseteq ProviderID
  <2>1. ASSUME NEW x \in Writer, PersistFails(x)
        PROVE  Written(op[x]) \subseteq ProviderID
    <3>1. op[x].step = "persisting" /\ op[x].next <= Len(op[x].batch)
      BY <2>1 DEF PersistFails, Persisting
    <3>2. op[x].batch \in Batches /\ op[x].next \in 1 .. Len(op[x].batch) + 1
      BY <1>1, <1>3, <3>1, OpKinds DEF OpsInv, BatchGoesOn
    <3>3. \A i \in 1 .. op[x].next - 1 : IDOf[op[x].batch[i]] \in ProviderID
      BY <3>1, <3>2, BatchOfProviders
    <3> QED
      BY <3>1, <3>3 DEF Written
  <2> QED
    BY <1>1, <2>1 DEF Excuse
<1>5. OpsInv' /\ BTypeOK'
  BY <1>1, <1>2, <1>4 DEF OpsInv, RTypeOK, BTypeOK
<1>6. Quiet'
  BY <1>1, <1>2 DEF BInv, Quiet
<1>7. ASSUME NEW id \in ProviderID, id \notin excused'
      PROVE  /\ \A u, v \in Writer : u # v => id \notin Touched(op'[u]) \/ id \notin Touched(op'[v])
             /\ (\A v \in Writer : id \notin Touched(op'[v])) => items'[id] = db'[id]
             /\ \A v \in Writer : id \in Touched(op'[v]) => Coherent(op'[v], id, db'[id], items'[id])
  <2>1. /\ id \notin excused
        /\ \A u, v \in Writer : u # v => id \notin Touched(op'[u]) \/ id \notin Touched(op'[v])
        /\ PersistFails(w) => id \notin Written(op[w])
    BY <1>1, <1>7 DEF Excuse
  <2>2. /\ \A u, v \in Writer : u # v => id \notin Touched(op[u]) \/ id \notin Touched(op[v])
        /\ (\A v \in Writer : id \notin Touched(op[v])) => items[id] = db[id]
        /\ \A v \in Writer : id \in Touched(op[v]) => Coherent(op[v], id, db[id], items[id])
    BY <1>1, <2>1 DEF BInv, Serving
  <2>3. /\ id \notin Touched(op[w]) /\ id \notin Touched(op'[w]) =>
             db'[id] = db[id] /\ items'[id] = items[id]
        /\ Local(op[w], id, db[id], items[id]) => Local(op'[w], id, db'[id], items'[id])
    BY <1>1, <2>1, OpStepLocal
  <2>4. CASE \E u \in Writer \ {w} : id \in Touched(op[u])
    <3>1. PICK u \in Writer \ {w} : id \in Touched(op[u])
      BY <2>4
    <3>2. op'[u] = op[u]
      BY <1>2
    <3>3. id \notin Touched(op[w]) /\ id \notin Touched(op'[w])
      BY <2>1, <2>2, <3>1, <3>2
    <3>4. db'[id] = db[id] /\ items'[id] = items[id]
      BY <2>3, <3>3
    <3>5. \A v \in Writer : id \in Touched(op'[v]) => op'[v] = op[v]
      BY <1>2, <3>3
    <3> QED
      BY <2>1, <2>2, <3>1, <3>2, <3>4, <3>5
  <2>5. CASE \A u \in Writer \ {w} : id \notin Touched(op[u])
    <3>1. Local(op[w], id, db[id], items[id])
      BY <2>2, <2>5 DEF Local
    <3>2. Local(op'[w], id, db'[id], items'[id])
      BY <2>3, <3>1
    <3>3. \A v \in Writer \ {w} : id \notin Touched(op'[v])
      BY <1>2, <2>5
    <3> QED
      BY <2>1, <3>2, <3>3 DEF Local
  <2> QED
    BY <2>4, <2>5
<1>8. Serving'
  BY <1>1, <1>7 DEF Serving
<1> QED
  BY <1>1, <1>5, <1>6, <1>8 DEF BInv, Empty, Hydrating, Hydrated, Registering

LEMMA BInvStep == BInv /\ [BNext]_bvars => BInv'
<1> SUFFICES ASSUME BInv, [BNext]_bvars PROVE BInv'
  OBVIOUS
<1>1. CASE UNCHANGED bvars
  BY <1>1 DEF bvars, rvars, BInv, OpsInv, BTypeOK, RTypeOK, Quiet, Empty, Hydrating,
              Hydrated, Registering, Serving
<1>2. CASE ExitAtStart \/ Crash
  BY <1>2, ProcessEndsKeepsBInv DEF ExitAtStart, Crash
<1> QED
  BY <1>1, <1>2, StartKeepsBInv, HydrateKeepsBInv, HydrateFailsKeepsBInv,
     RegisterManifestsKeepsBInv, PersistManifestKeepsBInv, ListenKeepsBInv, ServeKeepsBInv
  DEF BNext

(* The types of ProviderBoot, each provider under its own ID, and the phases   *)
(* of the start.                                                             *)
THEOREM BInvCorrect == BSpec => []BInv
<1>1. BInv /\ [BNext]_bvars => BInv'
  BY BInvStep
<1> QED
  BY BInvInit, <1>1, PTL DEF BSpec

(* Memory and table agree whenever the gateway serves, also after a start that *)
(* follows a crash in the middle of anything, except where operations on one   *)
(* provider overlapped or a batch failed half-way since (registry.go:174-250). *)
THEOREM MemoryFollowsTable == BSpec => []ServesSynchronized
<1>1. BInv => ServesSynchronized
  BY DEF BInv, Serving, ServesSynchronized, Synchronized
<1> QED
  BY <1>1, BInvCorrect, PTL

-----------------------------------------------------------------------------
(* The manifests. *)

LEMMA ProvidersOfFiles ==
  ASSUME NEW files \in Seq(Manifest \cup {Unreadable}),
         \A i \in 1 .. Len(files) : ~Rejected(files, i)
  PROVE  /\ LoadFiles(files) = ProvidersOf(files)
         /\ LoadFiles(files) \in Seq(Provider)
         /\ Len(LoadFiles(files)) = Len(files)
         /\ \A i \in 1 .. Len(files) : LoadFiles(files)[i] = files[i].provider
<1>1. Len(files) \in Nat /\ \A i \in 1 .. Len(files) : files[i] \in Manifest \cup {Unreadable}
  BY LenProperties
<1>2. \A i \in 1 .. Len(files) : files[i].provider \in Provider
  BY <1>1 DEF Rejected, Loadable, Manifest
<1>3. ProvidersOf(files) \in [1 .. Len(files) -> Provider]
  BY <1>2 DEF ProvidersOf
<1>4. ProvidersOf(files) \in Seq(Provider) /\ Len(ProvidersOf(files)) = Len(files)
  BY <1>1, <1>3, SeqDef, LenProperties
<1>5. LoadFiles(files) = ProvidersOf(files)
  BY DEF LoadFiles
<1> QED
  BY <1>4, <1>5 DEF ProvidersOf

(* main() registers the manifests of a sound directory, or else the embedded ones. *)
LEMMA WhatIsRegistered ==
  ASSUME NEW dir \in Directories \cup {Missing}
  PROVE  Range(Manifests(dir)) = Providers(IF Sound(dir) THEN dir ELSE Embedded)
<1>1. ASSUME NEW files \in Seq(Manifest \cup {Unreadable}),
             \A i \in 1 .. Len(files) : ~Rejected(files, i)
      PROVE  Range(LoadFiles(files)) = Providers(files)
  <2>1. LoadFiles(files) \in Seq(Provider) /\ Len(LoadFiles(files)) = Len(files)
        /\ \A i \in 1 .. Len(files) : LoadFiles(files)[i] = files[i].provider
    BY <1>1, ProvidersOfFiles
  <2>2. DOMAIN LoadFiles(files) = 1 .. Len(files)
    BY <2>1, LenProperties
  <2> QED
    BY <2>1, <2>2 DEF Range, Providers
<1>2. Range(LoadEmbedded) = Providers(Embedded)
  <2>1. \A i \in 1 .. Len(Embedded) : ~Rejected(Embedded, i)
    BY EmbeddedAssumption DEF LoadFiles
  <2> QED
    BY <1>1, <2>1, BootAssumption DEF LoadEmbedded
<1>3. CASE Sound(dir)
  <2>1. dir # Missing /\ dir # <<>> /\ dir \in Seq(Manifest \cup {Unreadable})
    BY <1>3, BootAssumption DEF Sound
  <2>2. ASSUME NEW i \in 1 .. Len(dir) PROVE ~Rejected(dir, i)
    <3>1. Len(dir) \in Nat
      BY <2>1, LenProperties
    <3>2. \A j \in 1 .. i - 1 : j \in 1 .. Len(dir) /\ j # i
      BY <3>1
    <3> QED
      BY <1>3, <3>2 DEF Sound, Rejected
  <2>3. LoadFiles(dir) \in Seq(Provider) /\ Len(LoadFiles(dir)) = Len(dir)
    BY <2>1, <2>2, ProvidersOfFiles
  <2>4. LoadFiles(dir) \notin {Error, <<>>}
    <3>1. Len(dir) # 0
      BY <2>1, EmptySeq
    <3> QED
      BY <2>3, <3>1, BootAssumption, EmptySeq
  <2>5. Manifests(dir) = LoadFiles(dir)
    BY <2>1, <2>4 DEF Manifests, LoadDirectory
  <2> QED
    BY <1>1, <1>3, <2>1, <2>2, <2>5
<1>4. CASE ~Sound(dir)
  <2>1. LoadDirectory(dir) \in {Error, <<>>}
    <3>1. CASE dir = Missing
      BY <3>1 DEF LoadDirectory
    <3>2. CASE dir # Missing
      <4>1. dir \in Seq(Manifest \cup {Unreadable}) /\ Len(dir) \in Nat
        BY <3>2, BootAssumption, LenProperties
      <4>2. CASE \E i \in 1 .. Len(dir) : Rejected(dir, i)
        BY <3>2, <4>2 DEF LoadDirectory, LoadFiles
      <4>3. CASE ~\E i \in 1 .. Len(dir) : Rejected(dir, i)
        <5>1. \A i \in 1 .. Len(dir) : Loadable(dir[i])
          BY <4>3 DEF Rejected
        <5>2. \A i \in 1 .. Len(dir) : \A j \in 1 .. i - 1 :
                IDOf[dir[j].provider] # IDOf[dir[i].provider]
          BY <4>3 DEF Rejected
        <5>3. ASSUME NEW i \in 1 .. Len(dir), NEW j \in 1 .. Len(dir),
                     IDOf[dir[i].provider] = IDOf[dir[j].provider]
              PROVE  i = j
          <6>1. i < j => i \in 1 .. j - 1
            BY <4>1
          <6>2. j < i => j \in 1 .. i - 1
            BY <4>1
          <6>3. ~(i < j) /\ ~(j < i)
            BY <5>2, <5>3, <6>1, <6>2
          <6> QED
            BY <4>1, <6>3
        <5>4. dir = <<>>
          BY <1>4, <3>2, <5>1, <5>3 DEF Sound
        <5>5. LoadFiles(dir) = <<>>
          <6>1. LoadFiles(dir) \in Seq(Provider) /\ Len(LoadFiles(dir)) = 0
            BY <4>1, <4>3, <5>4, ProvidersOfFiles
          <6> QED
            BY <6>1, EmptySeq
        <5> QED
          BY <3>2, <5>5 DEF LoadDirectory
      <4> QED
        BY <4>2, <4>3
    <3> QED
      BY <3>1, <3>2
  <2>2. Manifests(dir) = LoadEmbedded
    BY <2>1 DEF Manifests
  <2> QED
    BY <1>2, <1>4, <2>2
<1> QED
  BY <1>3, <1>4

(* The gateway begins to serve with every manifest of a sound directory, or else *)
(* with every embedded one, in memory and in the table, and a start changes no   *)
(* row but to one of them (main.go:103-121, loader.go:100-146).                 *)
THEOREM StartIsAllOrNothing == BSpec => StartsWithAllOrNothing
<1> DEFINE ps == Providers(IF Sound(directory) THEN directory ELSE Embedded)
<1>1. ASSUME BInv, Listen PROVE Whole(ps)
  <2> DEFINE b == Manifests(directory)
  <2>1. /\ op[Main].batch = b /\ b \in Batches /\ items' = CacheWith(b) /\ db' = db
        /\ \A id \in ProviderID :
             IF \E i \in 1 .. Len(b) : IDOf[b[i]] = id
             THEN items'[id] = db'[id]
             ELSE id \notin excused => items'[id] = db'[id]
    BY <1>1, ListenCaches
  <2>2. excused' = excused \ IDs(b)
    BY <1>1, <2>1 DEF Listen
  <2>3. directory \in Directories \cup {Missing}
    BY <1>1 DEF BInv, BTypeOK
  <2>4. Range(b) = ps
    BY <2>3, WhatIsRegistered
  <2> HIDE DEF b, ps
  <2>5. ps = {b[i] : i \in 1 .. Len(b)} /\ IDs(b) = {IDOf[p] : p \in ps}
    BY <2>1, <2>4, BatchOfProviders DEF IDs
  <2>6. ASSUME NEW id \in ProviderID, \E p \in ps : IDOf[p] = id
        PROVE  items'[id] \in ps /\ db'[id] = items'[id]
    <3>1. \E i \in 1 .. Len(b) : IDOf[b[i]] = id
      BY <2>5, <2>6
    <3>2. PICK i \in 1 .. Len(b) : CacheWith(b)[id] = b[i]
      BY <2>1, <3>1, CacheWithLast
    <3> QED
      BY <2>1, <2>5, <3>1, <3>2
  <2>7. ASSUME NEW id \in ProviderID, ~\E p \in ps : IDOf[p] = id
        PROVE  items'[id] = db'[id] \/ id \in excused'
    <3>1. ~\E i \in 1 .. Len(b) : IDOf[b[i]] = id
      BY <2>5, <2>7
    <3>2. id \notin IDs(b)
      BY <2>5, <2>7
    <3> QED
      BY <2>1, <2>2, <3>1, <3>2
  <2> QED
    BY <2>6, <2>7 DEF Whole
<1>2. ASSUME BInv, [BNext]_bvars, boot' = "serving", boot # "serving" PROVE Listen
  <2>1. CASE UNCHANGED bvars
    BY <1>2, <2>1 DEF bvars
  <2>2. CASE BNext
    BY <1>2, <2>2 DEF BNext, Start, Hydrate, HydrateFails, RegisterManifests,
                     PersistManifest, ExitAtStart, ProcessEnds, Crash, Serve
  <2> QED
    BY <1>2, <2>1, <2>2
<1>3. ASSUME BInv, PersistManifest, NEW id \in ProviderID, db'[id] # db[id]
      PROVE  db'[id] \in ps
  <2> DEFINE b == op[Main].batch
             p == b[op[Main].next]
  <2>1. /\ boot = "register" /\ Persist(Main) /\ db \in Table
        /\ directory \in Directories \cup {Missing} /\ BatchGoesOn(op[Main])
    BY <1>3, BootAssumption DEF PersistManifest, BInv, OpsInv, RTypeOK, BTypeOK
  <2>2. b = Manifests(directory) /\ b \in Batches /\ Range(b) = ps
    BY <2>1, <1>3, WhatIsRegistered, ManifestsAssumption DEF BInv, Registering
  <2>3. p \in Range(b)
    <3>1. op[Main].step = "persisting" /\ op[Main].next <= Len(b)
      BY <2>1 DEF Persist, Persisting
    <3>2. op[Main].next \in 1 .. Len(b)
      BY <2>1, <2>2, <3>1, BatchOfProviders DEF BatchGoesOn
    <3> QED
      BY <2>2, <3>2, BatchOfProviders
  <2>4. db' = [db EXCEPT ![IDOf[p]] = p]
    BY <2>1 DEF Persist
  <2> HIDE DEF b, p, ps
  <2>5. db'[id] = p
    BY <1>3, <2>1, <2>4 DEF Table
  <2> QED
    BY <2>2, <2>3, <2>5
<1>4. ASSUME BInv, [BNext]_bvars, boot # "serving", db' # db PROVE PersistManifest
  <2>1. CASE UNCHANGED bvars
    BY <1>4, <2>1 DEF bvars, rvars
  <2>2. CASE Hydrate
    BY <1>4, <2>2 DEF Hydrate, ListRows, CacheRows
  <2>3. CASE Listen
    BY <1>4, <2>3 DEF Listen, CacheBatch
  <2>4. CASE BNext
    BY <1>4, <2>2, <2>3, <2>4
    DEF BNext, Start, HydrateFails, RegisterManifests, StartBatch, ExitAtStart, ProcessEnds,
        Crash, Serve, rvars
  <2> QED
    BY <1>4, <2>1, <2>4
<1> DEFINE Steps == boot # "serving" =>
                      /\ boot' = "serving" => Whole(ps)
                      /\ \A id \in ProviderID : db'[id] # db[id] => db'[id] \in ps
<1>5. BInv /\ [BNext]_bvars => [Steps]_bvars
  <2> SUFFICES ASSUME BInv, [BNext]_bvars, boot # "serving" PROVE Steps
    OBVIOUS
  <2>1. ASSUME boot' = "serving" PROVE Whole(ps)
    BY <1>1, <1>2, <2>1
  <2>2. ASSUME NEW id \in ProviderID, db'[id] # db[id] PROVE db'[id] \in ps
    BY <1>3, <1>4, <2>2
  <2> QED
    BY <2>1, <2>2
<1> QED
  BY <1>5, BInvCorrect, PTL DEF BSpec, StartsWithAllOrNothing

(* Nobody reads half a batch: its providers enter the map in one step          *)
(* (registry.go:213-228).                                                     *)
THEOREM BatchesAppearWhole == BSpec => BatchAppearsWhole
<1> DEFINE Appears == \A w \in Writer : Persisting(w) /\ items' # items /\ op'[w] # op[w] =>
                        \A id \in IDs(op[w].batch) :
                          items'[id] \in {p \in Range(op[w].batch) : IDOf[p] = id}
<1>1. ASSUME BInv, NEW w \in Writer, CacheBatch(w), Persisting(w),
             NEW id \in IDs(op[w].batch)
      PROVE  items'[id] \in {p \in Range(op[w].batch) : IDOf[p] = id}
  <2> DEFINE b == op[w].batch
  <2>1. b \in Batches
    BY <1>1, OpKinds DEF BInv, OpsInv, RTypeOK, Persisting
  <2>2. Range(b) = {b[i] : i \in 1 .. Len(b)} /\ IDs(b) = {IDOf[p] : p \in Range(b)}
    BY <2>1, BatchOfProviders DEF IDs
  <2>3. items' = CacheWith(b)
    BY <1>1 DEF CacheBatch
  <2>4. (\E i \in 1 .. Len(b) : IDOf[b[i]] = id) /\ id \in ProviderID
    BY <1>1, <2>1, <2>2, BatchOfProviders
  <2> HIDE DEF b
  <2>5. PICK i \in 1 .. Len(b) : IDOf[b[i]] = id /\ CacheWith(b)[id] = b[i]
    BY <2>1, <2>4, CacheWithLast
  <2>6. items'[id] \in {p \in Range(b) : IDOf[p] = id}
    BY <2>2, <2>3, <2>5
  <2> QED
    BY <2>6 DEF b
<1>2. ASSUME BInv, NEW v \in Writer, OpStep(v), NEW w \in Writer, Persisting(w),
             items' # items, op'[w] # op[w]
      PROVE  CacheBatch(w)
  <2>1. w = v
    BY <1>2, OpStepTypes DEF BInv
  <2>2. op[w].step = "persisting"
    BY <1>2 DEF Persisting
  <2>3. ~Uncache(w) /\ ~CacheRows(w)
    BY <2>2 DEF Uncache, CacheRows
  <2> QED
    BY <1>2, <2>1, <2>3 DEF OpStep, StartBatch, Persist, PersistFails, Delete, ListRows
<1>3. ASSUME BInv, BNext, boot' # "down", NEW w \in Writer, Persisting(w),
             items' # items, op'[w] # op[w]
      PROVE  CacheBatch(w)
  <2>1. CASE Hydrate
    BY <1>2, <1>3, <2>1, BootAssumption DEF Hydrate, OpStep
  <2>2. CASE Listen
    BY <1>2, <1>3, <2>2, BootAssumption DEF Listen, OpStep
  <2>3. CASE \E v \in Writer \ {Main} : Serve(v)
    BY <1>2, <1>3, <2>3 DEF Serve
  <2>4. ASSUME items' = items \/ boot' = "down" PROVE FALSE
    BY <1>3, <2>4
  <2> QED
    BY <1>3, <2>1, <2>2, <2>3, <2>4
    DEF BNext, Start, rvars, HydrateFails, RegisterManifests, StartBatch,
        PersistManifest, Persist, ExitAtStart, Crash, ProcessEnds
<1>4. BInv /\ [BNext]_bvars => [boot' # "down" => Appears]_bvars
  <2> SUFFICES ASSUME BInv, BNext, boot' # "down" PROVE Appears
    OBVIOUS
  <2> QED
    BY <1>1, <1>3
<1> QED
  BY <1>4, BInvCorrect, PTL DEF BSpec, BatchAppearsWhole

-----------------------------------------------------------------------------
(* A request. *)

LEMMA FirstActive == DefaultProvider \in ProviderID \cup {None}
<1> DEFINE I == {i \in 1 .. Len(Alphabet) : items[Alphabet[i]] \in Active}
<1>1. Len(Alphabet) \in Nat /\ \A i \in 1 .. Len(Alphabet) : Alphabet[i] \in ProviderID
  BY ChoiceAssumption, LenProperties
<1>3. I \in SUBSET (1 .. Len(Alphabet))
  BY <1>1
<1>4. SelectInSeq(Alphabet, LAMBDA id : items[id] \in Active) = IF I # {} THEN Min(I) ELSE 0
  BY DEF SelectInSeq
<1>5. ASSUME I # {} PROVE Min(I) \in I
  <2> HIDE DEF I
  <2>1. \E i \in I : \A j \in I : i <= j
    BY <1>1, <1>3, <1>5, FirstPosition
  <2> QED
    BY <2>1 DEF Min
<1> HIDE DEF I
<1>6. CASE I = {}
  BY <1>4, <1>6 DEF DefaultProvider
<1>7. CASE I # {}
  <2>1. DefaultProvider = Alphabet[Min(I)]
    <3>1. Min(I) # 0
      BY <1>1, <1>3, <1>5, <1>7
    <3> QED
      BY <1>4, <1>7, <3>1 DEF DefaultProvider
  <2> QED
    BY <1>1, <1>3, <1>5, <1>7, <2>1
<1> QED
  BY <1>6, <1>7

(* A request only reads. *)
LEMMA RequestReads == [CNext]_cvars => [BNext]_bvars
BY DEF CNext, cvars, RequestStep, OtherStep, NamesProvider, AskDefault, AskFlow, AskList,
       Choose, ReadMemory, ReadRow, Given, Leave

(* The start and the writers behave as ProviderBoot says, whatever requests do *)
(* (engine.go:63-97): what is proved of BSpec is true of CSpec.               *)
THEOREM RequestsOnlyRead == CSpec => BSpec
<1>1. CInit => BInit
  BY DEF CInit
<1> QED
  BY <1>1, RequestReads, PTL DEF CSpec, BSpec

(* A provider that has stayed in the table is the request's, and it has been  *)
(* found.                                                                    *)
Chosen ==
  /\ at \in {"blueprint", "row", "ready"} => providerID \in ProviderID
  /\ stored => /\ at \in {"blueprint", "row", "ready"}
               /\ db[providerID] # None
  /\ at = "ready" /\ stored => blueprint # None

CInv == BInv /\ CTypeOK /\ Chosen

LEMMA ChooseKeepsCInv ==
  ASSUME CInv, NEW id \in ProviderID, Choose(id)
  PROVE  CTypeOK' /\ Chosen'
<1>1. /\ providerID' = id /\ at' = "blueprint" /\ stored' = (db[id] # None)
      /\ blueprint' = blueprint /\ db' = db
  BY DEF Choose, bvars, rvars
<1>2. BTypeOK'
  BY DEF CInv, CTypeOK, BTypeOK, RTypeOK, Choose, bvars, rvars
<1>3. CTypeOK'
  BY <1>1, <1>2 DEF CInv, CTypeOK
<1> QED
  BY <1>1, <1>3 DEF Chosen

LEMMA CInvStep == CInv /\ [CNext]_cvars => CInv'
<1> SUFFICES ASSUME CInv, [CNext]_cvars PROVE CInv'
  OBVIOUS
<1>1. BInv'
  BY RequestReads, BInvStep DEF CInv
<1>2. BTypeOK'
  BY <1>1 DEF BInv
<1>3. db \in Table /\ items \in Table
  BY DEF CInv, BInv, OpsInv, RTypeOK
<1>4. /\ at \in {"idle", "flow", "list", "blueprint", "row", "ready"}
      /\ providerID \in ProviderID \cup {None}
      /\ blueprint \in Provider \cup {None} /\ stored \in BOOLEAN
  BY DEF CInv, CTypeOK
<1>5. Chosen
  BY DEF CInv
<1>6. ASSUME UNCHANGED <<bvars, providerID, blueprint, stored>>,
             \/ at \in {"idle", "flow", "list"} /\ at' \in {"flow", "list"}
             \/ at = "blueprint" /\ at' = "row"
      PROVE  CTypeOK' /\ Chosen'
  <2>1. providerID' = providerID /\ blueprint' = blueprint /\ stored' = stored /\ db' = db
    BY <1>6 DEF bvars, rvars
  <2> QED
    BY <1>2, <1>4, <1>5, <1>6, <2>1 DEF CTypeOK, Chosen
<1>7. ASSUME NEW p \in Provider \cup {None}, at \in {"blueprint", "row"}, Given(p),
             stored' = (stored /\ p # None)
      PROVE  CTypeOK' /\ Chosen'
  <2>1. at' = "ready" /\ blueprint' = p /\ providerID' = providerID /\ db' = db
    BY <1>7 DEF Given, bvars, rvars
  <2> QED
    BY <1>2, <1>4, <1>5, <1>7, <2>1 DEF CTypeOK, Chosen
<1>8. ASSUME NoRequest PROVE CTypeOK' /\ Chosen'
  BY <1>2, <1>8 DEF NoRequest, CTypeOK, Chosen
<1>9. CASE NamesProvider
  BY <1>9, ChooseKeepsCInv, <1>1 DEF NamesProvider, CInv
<1>10. CASE AskDefault
  BY <1>1, <1>6, <1>10, FirstActive, ChooseKeepsCInv DEF AskDefault, CInv
<1>11. CASE AskFlow
  BY <1>1, <1>6, <1>11, ChooseKeepsCInv, ChoiceAssumption DEF AskFlow, CInv
<1>12. CASE AskList
  BY <1>1, <1>12, ChooseKeepsCInv, ChoiceAssumption DEF AskList, CInv
<1>13. CASE ReadMemory
  <2>1. at = "blueprint" /\ providerID \in ProviderID
    BY <1>5, <1>13 DEF ReadMemory, Chosen
  <2>2. items[providerID] \in Provider \cup {None}
    BY <1>3, <2>1 DEF Table
  <2>3. CASE items[providerID] # None
    <3>1. Given(items[providerID]) /\ stored' = stored
      BY <1>13, <2>3 DEF ReadMemory
    <3> QED
      BY <1>1, <1>4, <1>7, <2>1, <2>2, <2>3, <3>1 DEF CInv
  <2>4. CASE items[providerID] = None
    BY <1>1, <1>6, <1>13, <2>1, <2>4 DEF ReadMemory, CInv
  <2> QED
    BY <2>3, <2>4
<1>14. CASE ReadRow
  <2>1. at = "row" /\ providerID \in ProviderID
    BY <1>5, <1>14 DEF ReadRow, Chosen
  <2>2. db[providerID] \in Provider \cup {None} /\ (stored => db[providerID] # None)
    BY <1>3, <1>5, <2>1 DEF Table, Chosen
  <2>3. CASE Given(db[providerID]) /\ UNCHANGED stored
    BY <1>1, <1>4, <1>7, <2>1, <2>2, <2>3 DEF CInv
  <2>4. CASE Given(None) /\ stored' = FALSE
    BY <1>1, <1>7, <2>1, <2>4 DEF CInv
  <2> QED
    BY <1>14, <2>3, <2>4 DEF ReadRow
<1>15. CASE Leave
  BY <1>1, <1>8, <1>15 DEF Leave, CInv
<1>16. CASE OtherStep
  <2>1. CASE boot' = "serving"
    <3>1. /\ stored' = (stored /\ db'[providerID] # None)
          /\ at' = at /\ providerID' = providerID /\ blueprint' = blueprint
      BY <1>16, <2>1 DEF OtherStep
    <3>2. CTypeOK' /\ Chosen'
      BY <1>2, <1>4, <1>5, <3>1 DEF CTypeOK, Chosen
    <3> QED
      BY <1>1, <3>2 DEF CInv
  <2>2. CASE boot' # "serving"
    BY <1>1, <1>8, <1>16, <2>2 DEF OtherStep, CInv
  <2> QED
    BY <2>1, <2>2
<1>17. CASE UNCHANGED cvars
  <2>1. /\ at' = at /\ providerID' = providerID /\ blueprint' = blueprint
        /\ stored' = stored /\ db' = db
    BY <1>17 DEF cvars, bvars, rvars
  <2> QED
    BY <1>1, <1>2, <1>4, <1>5, <2>1 DEF CInv, CTypeOK, Chosen
<1> QED
  BY <1>9, <1>10, <1>11, <1>12, <1>13, <1>14, <1>15, <1>16, <1>17 DEF CNext, RequestStep

THEOREM CInvCorrect == CSpec => []CInv
<1>1. CInit => CInv
  <2> SUFFICES ASSUME CInit PROVE CInv
    OBVIOUS
  <2>1. BInv /\ BTypeOK
    BY BInvInit DEF CInit, BInv
  <2> QED
    BY <2>1 DEF CInit, CInv, CTypeOK, Chosen
<1> QED
  BY <1>1, CInvStep, PTL DEF CSpec

(* The types of the registry, the start and a request; in particular every row *)
(* and every cached provider is under its own ID (registry.go:213-228).       *)
THEOREM ChoiceTypes == CSpec => []CTypeOK
<1>1. CInv => CTypeOK
  BY DEF CInv
<1> QED
  BY <1>1, CInvCorrect, PTL

(* A provider that stays in the table while a request begins is found by it,   *)
(* whatever registers, reloads and removals come between its reads            *)
(* (engine.go:90-97).                                                         *)
THEOREM StoredProviderIsFound == CSpec => []BlueprintFound
<1>1. CInv => BlueprintFound
  BY DEF CInv, Chosen, BlueprintFound
<1> QED
  BY <1>1, CInvCorrect, PTL
=============================================================================
