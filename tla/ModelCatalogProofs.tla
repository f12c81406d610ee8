------------------------- MODULE ModelCatalogProofs -------------------------
(***************************************************************************)
(* Proofs about ModelCatalog, for any models, names, projects and keys.    *)
(***************************************************************************)
EXTENDS ModelCatalog, FiniteSetTheorems, TLAPS

(***************************************************************************)
(* The inductive invariant.  A model of the code is never archived, so a   *)
(* save that disables what is no longer declared leaves only models of     *)
(* users enabled, and those it has looked for.  A page is as old as its    *)
(* catalog revision: while that is the current one, the page is right.     *)
(***************************************************************************)
OnlyOverlaysArchived == \A m \in Model : models[m].archived => m \in Overlays

PageIsDated ==
    page # NoPage =>
        /\ page.catalog <= supplier.catalog
        /\ page.catalog = supplier.catalog => models[page.model] = page.row

CatalogInv ==
    TypeOK /\ NamesAreUnique /\ ReferencesHold /\ OnlyOverlaysArchived /\ PageIsDated

-----------------------------------------------------------------------------
\* A manifest declares models of the code, each at one place.
LEMMA ManifestFacts ==
    ASSUME NEW list \in Manifest
    PROVE  /\ Declared(list) \subseteq BuiltIns
           /\ \A i \in DOMAIN list :
                  i \in Nat /\ list[i].id \in BuiltIns /\ list[i].def \in Definition
           /\ \A m \in Declared(list) : /\ Place(list, m) \in DOMAIN list
                                        /\ list[Place(list, m)].id = m
<1>1. PICK n \in Nat : list \in [1..n -> Declaration]
  BY DEF Manifest
<1>2. \A i \in DOMAIN list :
         i \in Nat /\ list[i].id \in BuiltIns /\ list[i].def \in Definition
  BY <1>1 DEF Declaration
<1>3. \A m \in Declared(list) : Place(list, m) \in DOMAIN list /\ list[Place(list, m)].id = m
  BY DEF Declared, Place
<1> QED
  BY <1>2, <1>3 DEF Declared

\* The number of bindings of a model is a number.
LEMMA PageType ==
    ASSUME TypeOK, NEW m \in Model
    PROVE  PageOf(m) \in Page
<1> DEFINE refs == {use \in Projects \X Slot : bindings[use[1]].slots[use[2]] = m}
<1>1. IsFiniteSet(Slot)
  <2>1. IsFiniteSet({"default"}) /\ IsFiniteSet({"override"}) /\ IsFiniteSet(Overridable)
    BY FS_Singleton, FS_Subset, FiniteAssumption, OverridableAssumption
  <2>2. IsFiniteSet(Capabilities \X {"default"}) /\ IsFiniteSet(Overridable \X {"override"})
    BY <2>1, FS_Product, FiniteAssumption
  <2> QED
    BY <2>2, FS_Union DEF Slot
<1>2. IsFiniteSet(Projects \X Slot)
  BY <1>1, FS_Product, FiniteAssumption
<1>3. refs \subseteq Projects \X Slot
  OBVIOUS
<1>4. Cardinality(refs) \in Nat
  BY <1>2, <1>3, FS_Subset, FS_CardinalityType
<1>5. models[m] \in ModelRow /\ supplier.catalog \in Nat
  BY DEF TypeOK
<1> QED
  BY <1>4, <1>5 DEF PageOf, Page

\* Saving code keeps the types of the models.
LEMMA SyncedType ==
    ASSUME TypeOK, NEW list \in Manifest
    PROVE  Synced(list) \in [Model -> ModelRow]
<1> SUFFICES ASSUME NEW m \in Model PROVE Synced(list)[m] \in ModelRow
  BY DEF Synced
<1>1. models[m] \in ModelRow
  BY DEF TypeOK
<1>2. CASE m \in Declared(list)
  <2>1. list[Place(list, m)].def \in Definition
    BY <1>2, ManifestFacts
  <2> DEFINE row == [state |-> "live", def |-> list[Place(list, m)].def, enabled |-> TRUE,
                     archived |-> models[m].archived, revision |-> models[m].revision + 1]
  <2>2. row \in ModelRow
    <3>1. models[m].archived \in BOOLEAN /\ models[m].revision + 1 \in Nat
      BY <1>1 DEF ModelRow
    <3> QED
      BY <2>1, <3>1 DEF ModelRow
  <2>3. Synced(list)[m] = models[m] \/ Synced(list)[m] = row
    BY <1>2 DEF Synced
  <2> QED
    BY <1>1, <2>2, <2>3
<1>3. CASE m \notin Declared(list)
  <2> DEFINE row == [models[m] EXCEPT !.enabled = FALSE, !.revision = @ + 1]
  <2>1. row \in ModelRow
    <3> DEFINE off == [models[m] EXCEPT !.enabled = FALSE]
    <3>1. off \in ModelRow /\ off.revision = models[m].revision
      BY <1>1 DEF ModelRow
    <3>2. row = [off EXCEPT !.revision = off.revision + 1]
      BY <1>1 DEF ModelRow
    <3> HIDE DEF off, row
    <3> QED
      BY <3>1, <3>2 DEF ModelRow
  <2>2. Synced(list)[m] = models[m] \/ Synced(list)[m] = row
    BY <1>3 DEF Synced
  <2> QED
    BY <1>1, <2>1, <2>2
<1> QED
  BY <1>2, <1>3

\* What saving code makes of the models: the declared ones are enabled under
\* their names, and no other model of the code is.
LEMMA SyncedNames ==
    ASSUME CatalogInv, NEW list \in Manifest, ~Clashes(list), NEW m \in Model,
           NEW n \in Model, m # n,
           Synced(list)[m].state = "live", Synced(list)[m].enabled,
           Synced(list)[n].state = "live", Synced(list)[n].enabled
    PROVE  Synced(list)[m].def # Synced(list)[n].def
<1>1. \A q \in Model : q \in Declared(list) =>
         Synced(list)[q].def = list[Place(list, q)].def
  BY DEF Synced
<1>2. \A q \in Model : q \notin Declared(list) /\ Synced(list)[q].state = "live"
                           /\ Synced(list)[q].enabled =>
         /\ Synced(list)[q] = models[q] /\ Live(q) /\ models[q].enabled
         /\ q \in Overlays
  <2> SUFFICES ASSUME NEW q \in Model, q \notin Declared(list),
                      Synced(list)[q].state = "live", Synced(list)[q].enabled
               PROVE  /\ Synced(list)[q] = models[q] /\ Live(q) /\ models[q].enabled
                      /\ q \in Overlays
    OBVIOUS
  <2>1. models[q] \in ModelRow
    BY DEF CatalogInv, TypeOK
  <2>2. Synced(list)[q] = models[q]
    BY <2>1 DEF Synced, ModelRow
  <2>3. Live(q) /\ models[q].enabled /\ ~models[q].archived
    BY <2>2 DEF Live, CatalogInv, ReferencesHold
  <2>4. q \notin BuiltIns
    BY <2>1, <2>2, <2>3 DEF Synced, ModelRow
  <2> QED
    BY <2>2, <2>3, <2>4 DEF Model
<1>3. ASSUME NEW p \in Declared(list), NEW q \in Model, q \notin Declared(list),
             Live(q), models[q].enabled
      PROVE  list[Place(list, p)].def # models[q].def
  <2> DEFINE i == Place(list, p)
  <2>1. i \in DOMAIN list /\ i \in Nat
    BY ManifestFacts
  <2>2. ActiveNames(list[i].def, {list[j].id : j \in 1..i}) = {}
    BY <2>1 DEF Clashes
  <2>3. 1..i \subseteq DOMAIN list
    <3>1. PICK k \in Nat : list \in [1..k -> Declaration]
      BY DEF Manifest
    <3> QED
      BY <2>1, <3>1
  <2>4. q \notin {list[j].id : j \in 1..i}
    BY <1>3, <2>3 DEF Declared
  <2> QED
    BY <1>3, <2>2, <2>4 DEF ActiveNames
<1>4. CASE m \in Declared(list) /\ n \in Declared(list)
  <2> DEFINE i == Place(list, m)
             j == Place(list, n)
  <2>1. i \in DOMAIN list /\ j \in DOMAIN list /\ i \in Nat /\ j \in Nat /\ i # j
    BY <1>4, ManifestFacts
  <2>2. \A x \in DOMAIN list : \A y \in 1..(x - 1) : list[y].def # list[x].def
    BY DEF Clashes
  <2>3. PICK k \in Nat : list \in [1..k -> Declaration]
    BY DEF Manifest
  <2>4. i \in 1..(j - 1) \/ j \in 1..(i - 1)
    BY <2>1, <2>3
  <2>5. list[i].def # list[j].def
    <3> HIDE DEF i, j
    <3> QED
      BY <2>1, <2>2, <2>4
  <2> QED
    BY <1>1, <1>4, <2>5
<1>5. CASE m \notin Declared(list) /\ n \notin Declared(list)
  <2>1. /\ Synced(list)[m] = models[m] /\ Live(m) /\ models[m].enabled
        /\ Synced(list)[n] = models[n] /\ Live(n) /\ models[n].enabled
    BY <1>2, <1>5
  <2> QED
    BY <2>1 DEF CatalogInv, NamesAreUnique
<1>6. CASE m \in Declared(list) /\ n \notin Declared(list)
  BY <1>1, <1>2, <1>3, <1>6
<1>7. CASE m \notin Declared(list) /\ n \in Declared(list)
  BY <1>1, <1>2, <1>3, <1>7
<1> QED
  BY <1>4, <1>5, <1>6, <1>7

-----------------------------------------------------------------------------
(* The steps *)

LEMMA CatalogStart == Init => CatalogInv
<1> SUFFICES ASSUME Init PROVE CatalogInv
  OBVIOUS
<1>1. /\ factory \in Manifest
      /\ \A i, j \in DOMAIN factory : factory[i].def = factory[j].def => i = j
  BY DEF Init
<1>2. \A m \in Model : /\ models[m].enabled <=> m \in Declared(factory)
                       /\ ~models[m].archived /\ models[m].revision \in {0, 1}
                       /\ models[m].state = IF m \in Declared(factory) THEN "live" ELSE "none"
                       /\ m \in Declared(factory) =>
                             models[m].def = factory[Place(factory, m)].def
  BY DEF Init
<1>3. models \in [Model -> ModelRow]
  <2>1. (CHOOSE d \in Definition : TRUE) \in Definition
    <3>1. PICK c \in Capabilities, n \in Names : <<c, n>> \in Definition
      BY NamedAssumption DEF Definition
    <3> QED
      BY <3>1
  <2>2. \A m \in Declared(factory) : factory[Place(factory, m)].def \in Definition
    BY <1>1, ManifestFacts
  <2> QED
    BY <2>1, <2>2 DEF Init, ModelRow
<1>4. TypeOK
  BY <1>1, <1>3 DEF Init, TypeOK
<1>5. NamesAreUnique
  <2> SUFFICES ASSUME NEW m \in Declared(factory), NEW n \in Declared(factory),
                      factory[Place(factory, m)].def = factory[Place(factory, n)].def
               PROVE  m = n
    BY <1>2 DEF NamesAreUnique
  <2> QED
    BY <1>1, ManifestFacts
<1>6. ReferencesHold
  BY <1>2, ModelAssumption DEF Init, ReferencesHold, Bound
<1> QED
  BY <1>2, <1>4, <1>5, <1>6 DEF CatalogInv, OnlyOverlaysArchived, PageIsDated, Init

\* An edit from a page, whoever's it is.
LEMMA EditStep ==
    ASSUME CatalogInv, NEW seen \in Page, Edit(seen)
    PROVE  /\ models' \in [Model -> ModelRow]
           /\ requests' \in [Keys -> Model \cup {NoModel}]
           /\ supplier' \in [enabled : BOOLEAN, catalog : Nat, local : BOOLEAN]
           /\ NamesAreUnique' /\ ReferencesHold' /\ OnlyOverlaysArchived'
           /\ supplier'.catalog = supplier.catalog + 1
           /\ UNCHANGED <<factory, bindings, snapshots>>
           /\ Matches(seen)
<1> DEFINE m == seen.model
<1>1. /\ TypeOK /\ m \in Model /\ models[m] \in ModelRow
      /\ supplier \in [enabled : BOOLEAN, catalog : Nat, local : BOOLEAN]
  BY DEF CatalogInv, TypeOK, Page
<1>2. Matches(seen) /\ Bump /\ UNCHANGED <<factory, bindings, snapshots>> /\ Live(m)
  BY DEF Edit, Revise, SetEnabled, Remove, Matches
<1>3. /\ supplier' \in [enabled : BOOLEAN, catalog : Nat, local : BOOLEAN]
      /\ supplier'.catalog = supplier.catalog + 1
  BY <1>1, <1>2 DEF Bump
<1>4. ASSUME NEW d \in Definition, Revise(seen, d)
      PROVE  /\ models' \in [Model -> ModelRow] /\ requests' = requests
             /\ NamesAreUnique' /\ ReferencesHold' /\ OnlyOverlaysArchived'
  <2>1. models' = [models EXCEPT ![m].def = d, ![m].revision = @ + 1]
        /\ (models[m].enabled => ActiveNames(d, {m}) = {}) /\ requests' = requests
    BY <1>4 DEF Revise
  <2>2. /\ models' \in [Model -> ModelRow]
        /\ models'[m].state = models[m].state /\ models'[m].enabled = models[m].enabled
        /\ models'[m].archived = models[m].archived /\ models'[m].def = d
        /\ \A n \in Model : n # m => models'[n] = models[n]
    BY <1>1, <2>1 DEF TypeOK, ModelRow
  <2>3. NamesAreUnique'
    BY <1>1, <2>1, <2>2 DEF CatalogInv, NamesAreUnique, ActiveNames, Live
  <2> QED
    BY <1>1, <1>2, <2>1, <2>2, <2>3
    DEF CatalogInv, ReferencesHold, OnlyOverlaysArchived, Live, Bound, TypeOK
<1>5. ASSUME NEW on \in BOOLEAN, SetEnabled(seen, on)
      PROVE  /\ models' \in [Model -> ModelRow] /\ requests' = requests
             /\ NamesAreUnique' /\ ReferencesHold' /\ OnlyOverlaysArchived'
  <2>1. models' = [models EXCEPT ![m].enabled = on, ![m].revision = @ + 1]
        /\ (on => ActiveNames(models[m].def, {m}) = {}) /\ requests' = requests
        /\ ~models[m].archived
    BY <1>5 DEF SetEnabled
  <2>2. /\ models' \in [Model -> ModelRow]
        /\ models'[m].state = models[m].state /\ models'[m].enabled = on
        /\ models'[m].archived = models[m].archived /\ models'[m].def = models[m].def
        /\ \A n \in Model : n # m => models'[n] = models[n]
    BY <1>1, <2>1 DEF TypeOK, ModelRow
  <2>3. NamesAreUnique'
    BY <1>1, <2>1, <2>2 DEF CatalogInv, NamesAreUnique, ActiveNames, Live
  <2> QED
    BY <1>1, <1>2, <2>1, <2>2, <2>3
    DEF CatalogInv, ReferencesHold, OnlyOverlaysArchived, Live, Bound, TypeOK
<1>6. ASSUME Remove(seen)
      PROVE  /\ models' \in [Model -> ModelRow]
             /\ requests' \in [Keys -> Model \cup {NoModel}]
             /\ NamesAreUnique' /\ ReferencesHold' /\ OnlyOverlaysArchived'
  <2>1. m \in Overlays /\ ~models[m].archived /\ ~Bound(m)
    BY <1>6 DEF Remove
  <2>2. CASE m \in snapshots
    <3>1. /\ models' = [models EXCEPT ![m].enabled = FALSE, ![m].archived = TRUE,
                                      ![m].revision = @ + 1]
          /\ requests' = requests
      BY <1>6, <2>2 DEF Remove
    <3>2. /\ models' \in [Model -> ModelRow]
          /\ models'[m].state = models[m].state /\ ~models'[m].enabled
          /\ models'[m].archived /\ models'[m].def = models[m].def
          /\ \A n \in Model : n # m => models'[n] = models[n]
      BY <1>1, <3>1 DEF TypeOK, ModelRow
    <3> QED
      BY <1>1, <1>2, <2>1, <2>2, <3>1, <3>2
      DEF CatalogInv, NamesAreUnique, ReferencesHold, OnlyOverlaysArchived, Live, Bound,
          TypeOK
  <2>3. CASE m \notin snapshots
    <3>1. /\ models' = [models EXCEPT ![m].state = "deleted", ![m].enabled = FALSE]
          /\ requests' = [k \in Keys |-> IF requests[k] = m THEN NoModel ELSE requests[k]]
      BY <1>6, <2>3 DEF Remove
    <3>2. /\ models' \in [Model -> ModelRow]
          /\ models'[m].state = "deleted" /\ ~models'[m].enabled
          /\ models'[m].archived = models[m].archived
          /\ \A n \in Model : n # m => models'[n] = models[n]
      BY <1>1, <3>1 DEF TypeOK, ModelRow
    <3>3. requests' \in [Keys -> Model \cup {NoModel}]
      BY <1>1, <3>1 DEF TypeOK
    <3>4. NamesAreUnique' /\ OnlyOverlaysArchived'
      BY <1>1, <2>1, <3>2 DEF CatalogInv, NamesAreUnique, OnlyOverlaysArchived, Live
    <3>5. ReferencesHold'
      BY <1>1, <1>2, <2>1, <2>3, <3>1, <3>2 DEF CatalogInv, ReferencesHold, Live, Bound, TypeOK
    <3> QED
      BY <3>2, <3>3, <3>4, <3>5
  <2> QED
    BY <2>2, <2>3
<1>7. /\ models' \in [Model -> ModelRow] /\ requests' \in [Keys -> Model \cup {NoModel}]
      /\ NamesAreUnique' /\ ReferencesHold' /\ OnlyOverlaysArchived'
  BY <1>1, <1>4, <1>5, <1>6 DEF Edit, TypeOK
<1> QED
  BY <1>2, <1>3, <1>7

\* A page is kept or let go while the catalog moves on by one.
LEMMA PageKept ==
    ASSUME CatalogInv, supplier'.catalog = supplier.catalog + 1,
           page' = page \/ page' = NoPage
    PROVE  PageIsDated' /\ page' \in Page \cup {NoPage}
<1>1. supplier.catalog \in Nat /\ page \in Page \cup {NoPage}
  BY DEF CatalogInv, TypeOK
<1>2. page # NoPage => page.catalog \in Nat /\ page.catalog <= supplier.catalog
  BY <1>1 DEF CatalogInv, PageIsDated, Page
<1> QED
  BY <1>1, <1>2 DEF PageIsDated

\* Another model of a user, under a name no enabled model has.
LEMMA CreateStep ==
    ASSUME CatalogInv, NEW k \in Keys, NEW m \in Overlays, NEW d \in Definition,
           CreateModel(k, m, d)
    PROVE  CatalogInv'
<1> DEFINE row == [state |-> "live", def |-> d, enabled |-> TRUE, archived |-> FALSE,
                   revision |-> 1]
<1>1. /\ TypeOK /\ m \in Model /\ models[m].state = "none"
      /\ ActiveNames(d, {}) = {}
      /\ models' = [models EXCEPT ![m] = row]
      /\ requests' = [requests EXCEPT ![k] = m]
      /\ Bump /\ UNCHANGED <<factory, bindings, snapshots, page>>
  BY DEF CreateModel, CatalogInv, Model
<1>2. /\ supplier' \in [enabled : BOOLEAN, catalog : Nat, local : BOOLEAN]
      /\ supplier'.catalog = supplier.catalog + 1
  BY <1>1 DEF Bump, TypeOK
<1>3. row \in ModelRow
  BY DEF ModelRow
<1>4. /\ models' \in [Model -> ModelRow] /\ models'[m] = row
      /\ \A n \in Model : n # m => models'[n] = models[n]
  <2> HIDE DEF row
  <2> QED
    BY <1>1, <1>3 DEF TypeOK
<1>5. requests' \in [Keys -> Model \cup {NoModel}]
  BY <1>1 DEF TypeOK
<1>6. PageIsDated' /\ page' \in Page \cup {NoPage}
  BY <1>1, <1>2, PageKept
<1>7. TypeOK'
  BY <1>1, <1>2, <1>4, <1>5, <1>6 DEF TypeOK
<1>8. \A n \in Model : Live(n) => Live(n)' /\ n # m
  BY <1>1, <1>4 DEF Live
<1>9. NamesAreUnique'
  BY <1>1, <1>4 DEF CatalogInv, NamesAreUnique, ActiveNames, Live
<1>10. OnlyOverlaysArchived'
  BY <1>4 DEF CatalogInv, OnlyOverlaysArchived
<1>11. ReferencesHold'
  <2>1. \A n \in Model : Bound(n)' <=> Bound(n)
    BY <1>1 DEF Bound
  <2>2. \A key \in Keys : requests'[key] # NoModel => models'[requests'[key]].state = "live"
    <3> SUFFICES ASSUME NEW key \in Keys, requests'[key] # NoModel
                 PROVE  models'[requests'[key]].state = "live"
      OBVIOUS
    <3>1. CASE key = k
      BY <1>1, <1>4, <3>1 DEF TypeOK, Live
    <3>2. CASE key # k
      BY <1>1, <1>8, <3>2 DEF TypeOK, CatalogInv, ReferencesHold, Live
    <3> QED
      BY <3>1, <3>2
  <2>3. \A n \in snapshots' : Live(n)'
    BY <1>1, <1>8 DEF CatalogInv, ReferencesHold, TypeOK
  <2>4. \A n \in Model : Bound(n)' => Live(n)' /\ ~models'[n].archived
    BY <1>4, <1>8, <2>1 DEF CatalogInv, ReferencesHold
  <2>5. \A n \in Model : models'[n].archived => ~models'[n].enabled /\ n \in snapshots'
    BY <1>1, <1>4 DEF CatalogInv, ReferencesHold
  <2> QED
    BY <2>2, <2>3, <2>4, <2>5 DEF ReferencesHold, Live
<1> QED
  BY <1>6, <1>7, <1>9, <1>10, <1>11 DEF CatalogInv

\* Saving, restoring and installing code.
LEMMA SyncStep ==
    ASSUME CatalogInv, NEW list \in Manifest, NEW local \in BOOLEAN, Sync(list, local),
           factory' \in Manifest
    PROVE  CatalogInv'
<1>1. /\ TypeOK /\ ~Clashes(list) /\ models' = Synced(list)
      /\ UNCHANGED <<requests, bindings, snapshots, page>>
      /\ supplier' = [supplier EXCEPT
                         !.local = local, !.catalog = IF models' # models THEN @ + 1 ELSE @]
  BY DEF Sync, CatalogInv
<1>2. /\ supplier' \in [enabled : BOOLEAN, catalog : Nat, local : BOOLEAN]
      /\ \/ supplier'.catalog = supplier.catalog + 1
         \/ supplier'.catalog = supplier.catalog /\ models' = models
  <2>1. CASE models' = models
    <3>1. supplier' = [supplier EXCEPT !.local = local, !.catalog = @]
      BY <1>1, <2>1
    <3> QED
      BY <1>1, <2>1, <3>1 DEF TypeOK
  <2>2. CASE models' # models
    <3> DEFINE saved == [supplier EXCEPT !.local = local]
    <3>1. /\ saved \in [enabled : BOOLEAN, catalog : Nat, local : BOOLEAN]
          /\ saved.catalog = supplier.catalog
      BY <1>1 DEF TypeOK
    <3>2. supplier' = [saved EXCEPT !.catalog = saved.catalog + 1]
      BY <1>1, <2>2 DEF TypeOK
    <3> HIDE DEF saved
    <3> QED
      BY <3>1, <3>2
  <2> QED
    BY <2>1, <2>2
<1>3. models' \in [Model -> ModelRow]
  BY <1>1, SyncedType
<1>4. PageIsDated' /\ page' \in Page \cup {NoPage}
  BY <1>1, <1>2, PageKept DEF CatalogInv, PageIsDated, TypeOK
<1>5. TypeOK'
  BY <1>1, <1>2, <1>3, <1>4 DEF TypeOK
<1>6. NamesAreUnique'
  <2> SUFFICES ASSUME NEW m \in Model, NEW n \in Model, m # n,
                      models'[m].state = "live", models'[m].enabled,
                      models'[n].state = "live", models'[n].enabled
               PROVE  models'[m].def # models'[n].def
    BY DEF NamesAreUnique, Live
  <2> QED
    BY <1>1, SyncedNames
<1>7. \A m \in Model : /\ models'[m].archived = models[m].archived
                       /\ Live(m) => Live(m)'
                       /\ models[m].archived => models'[m] = models[m]
  <2> SUFFICES ASSUME NEW m \in Model
               PROVE  /\ models'[m].archived = models[m].archived
                      /\ Live(m) => Live(m)'
                      /\ models[m].archived => models'[m] = models[m]
    OBVIOUS
  <2>1. models[m] \in ModelRow
    BY <1>1 DEF TypeOK
  <2>2. models[m].archived => m \notin Declared(list) /\ m \notin BuiltIns
    BY ManifestFacts, ModelAssumption DEF CatalogInv, OnlyOverlaysArchived
  <2>3. models'[m].archived = models[m].archived /\ (Live(m) => models'[m].state = "live")
    BY <1>1, <2>1 DEF Synced, ModelRow, Live
  <2>4. models[m].archived => models'[m] = models[m]
    BY <1>1, <2>2 DEF Synced
  <2> QED
    BY <2>3, <2>4 DEF Live
<1>8. ReferencesHold'
  <2>1. \A m \in Model : Bound(m)' <=> Bound(m)
    BY <1>1 DEF Bound
  <2> QED
    BY <1>1, <1>7, <2>1 DEF CatalogInv, ReferencesHold, TypeOK
<1>9. OnlyOverlaysArchived'
  BY <1>7 DEF CatalogInv, OnlyOverlaysArchived
<1> QED
  BY <1>4, <1>5, <1>6, <1>8, <1>9 DEF CatalogInv

\* A project binds models that can be resolved.
LEMMA BindStep ==
    ASSUME CatalogInv, NEW p \in Projects, NEW slots \in [Slot -> Model \cup {NoModel}],
           Bind(p, slots)
    PROVE  CatalogInv'
<1>1. /\ TypeOK /\ UNCHANGED <<supplier, factory, models, requests, snapshots, page>>
      /\ bindings' = [bindings EXCEPT ![p] = [slots |-> slots, revision |-> @.revision + 1]]
      /\ \A slot \in Slot : slots[slot] # NoModel =>
             Live(slots[slot]) /\ ~models[slots[slot]].archived
  BY DEF Bind, CatalogInv
<1>2. bindings' \in [Projects -> [slots : [Slot -> Model \cup {NoModel}], revision : Nat]]
  BY <1>1 DEF TypeOK
<1>3. TypeOK'
  BY <1>1, <1>2 DEF TypeOK
<1>4. \A m \in Model : Bound(m)' => Bound(m) \/ (Live(m) /\ ~models[m].archived)
  <2> SUFFICES ASSUME NEW m \in Model, NEW q \in Projects, NEW slot \in Slot,
                      bindings'[q].slots[slot] = m
               PROVE  Bound(m) \/ (Live(m) /\ ~models[m].archived)
    BY DEF Bound
  <2>1. CASE q = p
    <3>1. slots[slot] = m /\ m # NoModel
      BY <1>1, <2>1, ModelAssumption DEF TypeOK
    <3> QED
      BY <1>1, <3>1
  <2>2. CASE q # p
    BY <1>1, <2>2 DEF TypeOK, Bound
  <2> QED
    BY <2>1, <2>2
<1>5. ReferencesHold'
  <2>1. \A m \in Model : Live(m)' <=> Live(m)
    BY <1>1 DEF Live
  <2>2. \A m \in snapshots' : Live(m)'
    BY <1>1, <2>1 DEF CatalogInv, ReferencesHold, TypeOK
  <2>3. \A k \in Keys : requests'[k] # NoModel => models'[requests'[k]].state = "live"
    BY <1>1 DEF CatalogInv, ReferencesHold, TypeOK, Live
  <2>4. \A m \in Model : Bound(m)' => Live(m)' /\ ~models'[m].archived
    BY <1>1, <1>4, <2>1 DEF CatalogInv, ReferencesHold
  <2>5. \A m \in Model : models'[m].archived => ~models'[m].enabled /\ m \in snapshots'
    BY <1>1 DEF CatalogInv, ReferencesHold
  <2> QED
    BY <2>2, <2>3, <2>4, <2>5 DEF ReferencesHold, Live
<1>6. NamesAreUnique' /\ OnlyOverlaysArchived' /\ PageIsDated'
  BY <1>1 DEF CatalogInv, NamesAreUnique, Live, OnlyOverlaysArchived, PageIsDated
<1> QED
  BY <1>3, <1>5, <1>6 DEF CatalogInv

\* A job, a session or a test keeps its model in the history.
LEMMA UseStep ==
    ASSUME CatalogInv, NEW m \in Model, Live(m), snapshots' = snapshots \cup {m},
           UNCHANGED <<supplier, factory, models, requests, bindings, page>>
    PROVE  CatalogInv'
<1>1. TypeOK'
  BY DEF CatalogInv, TypeOK
<1>2. ReferencesHold'
  BY DEF CatalogInv, ReferencesHold, Live, Bound
<1> QED
  BY <1>1, <1>2 DEF CatalogInv, NamesAreUnique, Live, OnlyOverlaysArchived, PageIsDated

LEMMA CatalogStep == CatalogInv /\ [Next]_vars => CatalogInv'
<1> SUFFICES ASSUME CatalogInv, [Next]_vars PROVE CatalogInv'
  OBVIOUS
<1>1. ASSUME NEW k \in Keys, NEW m \in Overlays, NEW d \in Definition, CreateModel(k, m, d)
      PROVE  CatalogInv'
  BY <1>1, CreateStep
<1>2. ASSUME NEW seen \in Page, Edit(seen), page' = page \/ page' = NoPage
      PROVE  CatalogInv'
  <2>1. PageIsDated' /\ page' \in Page \cup {NoPage}
    BY <1>2, EditStep, PageKept
  <2>2. /\ NamesAreUnique' /\ ReferencesHold' /\ OnlyOverlaysArchived'
        /\ models' \in [Model -> ModelRow] /\ requests' \in [Keys -> Model \cup {NoModel}]
        /\ supplier' \in [enabled : BOOLEAN, catalog : Nat, local : BOOLEAN]
        /\ UNCHANGED <<factory, bindings, snapshots>>
    BY <1>2, EditStep
  <2>3. TypeOK'
    BY <2>1, <2>2 DEF CatalogInv, TypeOK
  <2> QED
    BY <2>1, <2>2, <2>3 DEF CatalogInv
<1>3. ASSUME NEW m \in Model, EditNow(m) PROVE CatalogInv'
  <2>1. PageOf(m) \in Page
    BY PageType DEF CatalogInv
  <2> QED
    BY <1>2, <1>3, <2>1 DEF EditNow
<1>4. ASSUME NEW m \in Model, OpenPage(m) PROVE CatalogInv'
  <2>1. /\ TypeOK /\ page' = PageOf(m)
        /\ UNCHANGED <<supplier, factory, models, requests, bindings, snapshots>>
    BY <1>4 DEF OpenPage, CatalogInv
  <2>2. TypeOK'
    BY <2>1, PageType DEF TypeOK
  <2>3. PageIsDated'
    <3>1. page'.catalog = supplier.catalog /\ page'.model = m /\ page'.row = models[m]
      BY <2>1 DEF PageOf
    <3>2. supplier.catalog \in Nat
      BY <2>1 DEF TypeOK
    <3> QED
      BY <2>1, <3>1, <3>2 DEF PageIsDated
  <2> QED
    BY <2>1, <2>2, <2>3
    DEF CatalogInv, NamesAreUnique, ReferencesHold, Live, Bound, OnlyOverlaysArchived
<1>5. ASSUME EditLater PROVE CatalogInv'
  <2>1. page \in Page
    BY <1>5 DEF EditLater, CatalogInv, TypeOK
  <2> QED
    BY <1>2, <1>5, <2>1 DEF EditLater
<1>6. ASSUME NEW m \in Model, TestModel(m) PROVE CatalogInv'
  BY <1>6, UseStep DEF TestModel
<1>7. ASSUME NEW list \in Manifest, SaveCode(list) \/ Install(list) PROVE CatalogInv'
  <2>1. factory' \in Manifest /\ \E local \in BOOLEAN : Sync(list, local)
    BY <1>7 DEF SaveCode, Install, CatalogInv, TypeOK
  <2> QED
    BY <2>1, SyncStep
<1>8. ASSUME RestoreBuiltIn PROVE CatalogInv'
  <2>1. factory \in Manifest /\ factory' \in Manifest /\ Sync(factory, FALSE)
    BY <1>8 DEF RestoreBuiltIn, CatalogInv, TypeOK
  <2> QED
    BY <2>1, SyncStep
<1>9. ASSUME UpdateSupplier PROVE CatalogInv'
  <2>1. /\ UNCHANGED <<factory, models, requests, bindings, snapshots, page>>
        /\ supplier' \in [enabled : BOOLEAN, catalog : Nat, local : BOOLEAN]
        /\ supplier'.catalog = supplier.catalog
    BY <1>9 DEF UpdateSupplier, CatalogInv, TypeOK
  <2> QED
    BY <2>1 DEF CatalogInv, TypeOK, NamesAreUnique, ReferencesHold, Live, Bound,
                OnlyOverlaysArchived, PageIsDated
<1>10. ASSUME NEW p \in Projects, NEW slots \in [Slot -> Model \cup {NoModel}], Bind(p, slots)
       PROVE  CatalogInv'
  BY <1>10, BindStep
<1>11. ASSUME NEW p \in Projects, NEW c \in Capabilities, Enqueue(p, c) PROVE CatalogInv'
  <2> DEFINE m == Resolved(p, c)
  <2>1. /\ m # NoModel /\ Live(m) /\ snapshots' = snapshots \cup {m}
        /\ UNCHANGED <<supplier, factory, models, requests, bindings, page>>
    BY <1>11 DEF Enqueue, Usable
  <2>2. <<c, "default">> \in Slot /\ (c \in Overridable => <<c, "override">> \in Slot)
    BY DEF Slot
  <2>3. m \in Model \cup {NoModel}
    BY <2>2 DEF Resolved, CatalogInv, TypeOK
  <2> HIDE DEF m
  <2> QED
    BY <2>1, <2>3, UseStep
<1>12. CASE UNCHANGED vars
  BY <1>12 DEF vars, CatalogInv, TypeOK, NamesAreUnique, ReferencesHold, Live, Bound,
              OnlyOverlaysArchived, PageIsDated
<1> QED
  BY <1>1, <1>3, <1>4, <1>5, <1>6, <1>7, <1>8, <1>9, <1>10, <1>11, <1>12 DEF Next

-----------------------------------------------------------------------------
\* Names, references, archives and pages stay right together, whatever handlers
\* run in whatever order.
THEOREM CatalogInvariant == Spec => []CatalogInv
BY CatalogStart, CatalogStep, PTL DEF Spec

\* No two enabled models of one capability and provider name, however many models,
\* manifests and versions there are.
THEOREM NamesStayUnique == Spec => []NamesAreUnique
<1>1. CatalogInv => NamesAreUnique
  BY DEF CatalogInv
<1> QED
  BY <1>1, CatalogInvariant, PTL

\* No snapshot, binding or creation key refers to a model that is gone.
THEOREM ReferencesStay == Spec => []ReferencesHold
<1>1. CatalogInv => ReferencesHold
  BY DEF CatalogInv
<1> QED
  BY <1>1, CatalogInvariant, PTL

\* An edit from an old page finds the model as that page shows it, because the
\* page is dated: PageIsDated, and not the comparison of the model's own revision,
\* is what excludes the change that was undone in between.
THEOREM NoUpdateIsLost == Spec => NoLostUpdate
<1>1. ASSUME CatalogInv, Next, page # NoPage, page' = NoPage
      PROVE  models[page.model] = page.row
  <2>1. EditLater
    <3>1. page' = page => FALSE
      BY <1>1
    <3>2. ASSUME NEW m \in Model, OpenPage(m) PROVE FALSE
      BY <1>1, <3>2 DEF OpenPage
    <3> QED
      BY <1>1, <3>1, <3>2
      DEF Next, CreateModel, EditNow, TestModel, SaveCode, Install, RestoreBuiltIn, Sync,
          UpdateSupplier, Bind, Enqueue
  <2>2. page \in Page
    BY <1>1 DEF CatalogInv, TypeOK
  <2>3. Matches(page)
    BY <1>1, <2>1, <2>2, EditStep DEF EditLater
  <2> QED
    BY <1>1, <2>3 DEF CatalogInv, PageIsDated, Matches
<1>2. CatalogInv /\ [Next]_vars => [page # NoPage /\ page' = NoPage =>
                                        models[page.model] = page.row]_vars
  BY <1>1
<1> QED
  BY <1>2, CatalogInvariant, PTL DEF Spec, NoLostUpdate
=============================================================================
