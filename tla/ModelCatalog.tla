---------------------------- MODULE ModelCatalog ----------------------------
(***************************************************************************)
(* The model catalog of one supplier, the projects bound to its models and *)
(* the history that refers to them.  A handler is one transaction; what is *)
(* hard is that people edit from pages read long before, that saving the   *)
(* supplier's code rewrites the catalog, and that rows which bindings,     *)
(* snapshots and idempotency keys refer to can be removed.                 *)
(***************************************************************************)
EXTENDS Naturals, Sequences, FiniteSets

CONSTANTS
    BuiltIns,       \* model ids that manifests declare
    Overlays,       \* model ids of the models users add
    NoModel,        \* no model
    Capabilities,   \* text, image, video
    Overridable,    \* the capabilities whose operations projects override
    Names,          \* provider model names
    Projects,
    Keys,           \* idempotency keys of model creations
    MaxCatalog,     \* bound: revisions of the catalog
    MaxBindings     \* bound: revisions of a project's bindings

Model == BuiltIns \cup Overlays

ASSUME ModelAssumption == BuiltIns \cap Overlays = {} /\ NoModel \notin Model
ASSUME OverridableAssumption == Overridable \subseteq Capabilities
ASSUME FiniteAssumption == IsFiniteSet(Projects) /\ IsFiniteSet(Capabilities)
ASSUME NamedAssumption == Capabilities # {} /\ Names # {}
ASSUME BoundsAssumption ==
    MaxCatalog \in Nat /\ MaxBindings \in Nat

VARIABLES
    supplier,       \* enabled, model_catalog_revision, and whether its current
                    \* version is the installed one or a local override
    factory,        \* the manifest of the newest built-in version
    models,         \* supplier_models with their current revision
    requests,       \* model_creation_requests: the model a key made
    bindings,       \* project_model_bindings and operation overrides
    snapshots,      \* execution_snapshots: the models they are of
    page            \* a model as somebody's page shows it

vars == <<supplier, factory, models, requests, bindings, snapshots, page>>

-----------------------------------------------------------------------------
(* Rows *)

Definition == Capabilities \X Names
CapabilityOf(d) == d[1]

ModelRow == [state : {"none", "live", "deleted"}, def : Definition,
             enabled : BOOLEAN, archived : BOOLEAN, revision : Nat]

\* The manifest of a version: what its code declares, in order.
Declaration == [id : BuiltIns, def : Definition]
Manifest == {list \in UNION {[1..n -> Declaration] : n \in 0..Cardinality(BuiltIns)} :
                \A i, j \in DOMAIN list : list[i].id = list[j].id => i = j}

\* A project binds a default per capability, and overrides for its operations.
Slot == (Capabilities \X {"default"}) \cup (Overridable \X {"override"})
SlotCapability(slot) == slot[1]

\* What a page about a model knows of it.
PageOf(m) ==
    [model |-> m, row |-> models[m], catalog |-> supplier.catalog,
     refs |-> Cardinality({use \in Projects \X Slot :
                               bindings[use[1]].slots[use[2]] = m})]
NoPage == [model |-> NoModel]

Live(m) == models[m].state = "live"

\* find_active_model_name
ActiveNames(d, except) ==
    {m \in Model \ except : Live(m) /\ models[m].enabled /\ models[m].def = d}

Bound(m) == \E p \in Projects, slot \in Slot : bindings[p].slots[slot] = m

\* The models a manifest declares, and where it does.
Declared(list) == {list[i].id : i \in DOMAIN list}
Place(list, m) == CHOOSE i \in DOMAIN list : list[i].id = m

\* The first start has installed what the release declares; a supplier of the
\* user's own starts with nothing.  Revisions are counted from here.
Init ==
    /\ supplier = [enabled |-> TRUE, catalog |-> 0, local |-> FALSE]
    /\ factory \in {list \in Manifest :
                       \A i, j \in DOMAIN list : list[i].def = list[j].def => i = j}
    /\ models = [m \in Model |->
           LET here == m \in Declared(factory)
           IN  [state |-> IF here THEN "live" ELSE "none",
                def |-> IF here THEN factory[Place(factory, m)].def
                        ELSE CHOOSE d \in Definition : TRUE,
                enabled |-> here, archived |-> FALSE,
                revision |-> IF here THEN 1 ELSE 0]]
    /\ requests = [k \in Keys |-> NoModel]
    /\ bindings = [p \in Projects |-> [slots |-> [slot \in Slot |-> NoModel],
                                       revision |-> 0]]
    /\ snapshots = {}
    /\ page = NoPage

Bump == /\ supplier.catalog < MaxCatalog
        /\ supplier' = [supplier EXCEPT !.catalog = @ + 1]

-----------------------------------------------------------------------------
(* Models of users *)

\* A key that has made a model answers with that model.
CreateModel(k, m, d) ==
    /\ m \in Overlays /\ models[m].state = "none" /\ requests[k] = NoModel
    /\ ActiveNames(d, {}) = {}
    /\ models' = [models EXCEPT ![m] = [state |-> "live", def |-> d, enabled |-> TRUE,
                                        archived |-> FALSE, revision |-> 1]]
    /\ requests' = [requests EXCEPT ![k] = m]
    /\ Bump
    /\ UNCHANGED <<factory, bindings, snapshots, page>>

\* Mutant: If-Match is not compared.
MatchesLive(seen) == Live(seen.model)

\* The two entity tags of an edit.
Matches(seen) ==
    /\ Live(seen.model)
    /\ models[seen.model].revision = seen.row.revision
    /\ supplier.catalog = seen.catalog

\* revise_supplier_model: also the capability may change, under a number of
\* bindings that the editor acknowledges.
Revise(seen, d) ==
    LET m == seen.model
    IN  /\ Matches(seen) /\ ~models[m].archived
        /\ PageOf(m).refs = seen.refs
        /\ models[m].enabled => ActiveNames(d, {m}) = {}
        /\ models' = [models EXCEPT ![m].def = d, ![m].revision = @ + 1]
        /\ Bump
        /\ UNCHANGED <<factory, requests, bindings, snapshots>>

\* Mutant: a model is enabled beside another of its name.
SetEnabledBeside(seen, on) ==
    /\ Matches(seen) /\ ~models[seen.model].archived
    /\ models' = [models EXCEPT ![seen.model].enabled = on, ![seen.model].revision = @ + 1]
    /\ Bump
    /\ UNCHANGED <<factory, requests, bindings, snapshots>>

SetEnabled(seen, on) ==
    LET m == seen.model
    IN  /\ Matches(seen) /\ ~models[m].archived
        /\ on => ActiveNames(models[m].def, {m}) = {}
        /\ models' = [models EXCEPT ![m].enabled = on, ![m].revision = @ + 1]
        /\ Bump
        /\ UNCHANGED <<factory, requests, bindings, snapshots>>

\* Mutant: the keys that made the model stay.
RemoveButKeys(seen) ==
    /\ Matches(seen) /\ seen.model \in Overlays \ snapshots /\ ~Bound(seen.model)
    /\ models' = [models EXCEPT ![seen.model].state = "deleted", ![seen.model].enabled = FALSE]
    /\ Bump
    /\ UNCHANGED <<factory, requests, bindings, snapshots>>

\* remove_supplier_model_atomically: a model with history is archived, another is
\* deleted with its revisions and with the keys that made it.
Remove(seen) ==
    LET m == seen.model
    IN  /\ Matches(seen) /\ m \in Overlays /\ ~models[m].archived /\ ~Bound(m)
        /\ IF m \in snapshots
           THEN /\ models' = [models EXCEPT ![m].enabled = FALSE, ![m].archived = TRUE,
                                            ![m].revision = @ + 1]
                /\ UNCHANGED requests
           ELSE /\ models' = [models EXCEPT ![m].state = "deleted",
                                            ![m].enabled = FALSE]
                /\ requests' = [k \in Keys |-> IF requests[k] = m THEN NoModel
                                               ELSE requests[k]]
        /\ Bump
        /\ UNCHANGED <<factory, bindings, snapshots>>

Edit(seen) ==
    \/ \E d \in Definition : Revise(seen, d)
    \/ \E on \in BOOLEAN : SetEnabled(seen, on)
    \/ Remove(seen)

\* An edit from a page that has just been read, and one from a page read before.
EditNow(m) == Live(m) /\ Edit(PageOf(m)) /\ UNCHANGED page

OpenPage(m) ==
    /\ Live(m) /\ page = NoPage
    /\ page' = PageOf(m)
    /\ UNCHANGED <<supplier, factory, models, requests, bindings, snapshots>>

EditLater ==
    /\ page # NoPage
    /\ Edit(page)
    /\ page' = NoPage

-----------------------------------------------------------------------------
(* Versions of the supplier's code *)

\* _sync_manifest_models_locked goes through the declarations in order; each looks
\* for an enabled model of its name among the models as they are by then, and a
\* clash undoes the whole save.  What is no longer declared is disabled last, so
\* it still clashes.  The supplier's own revision is left out: a page of the code
\* that does not match it is refused.
Clashes(list) ==
    \E i \in DOMAIN list :
        \/ \E j \in 1..(i - 1) : list[j].def = list[i].def
        \/ ActiveNames(list[i].def, {list[j].id : j \in 1..i}) # {}

Synced(list) ==
    [m \in Model |->
        IF m \in Declared(list)
        THEN LET d == list[Place(list, m)].def
             IN  IF Live(m) /\ models[m].enabled /\ models[m].def = d
                 THEN models[m]
                 ELSE [state |-> "live", def |-> d, enabled |-> TRUE,
                       archived |-> models[m].archived,
                       revision |-> models[m].revision + 1]
        ELSE IF m \in BuiltIns /\ Live(m) /\ ~models[m].archived /\ models[m].enabled
             THEN [models[m] EXCEPT !.enabled = FALSE, !.revision = @ + 1]
             ELSE models[m]]

Sync(list, local) ==
    /\ ~Clashes(list)
    /\ models' = Synced(list)
    /\ models' # models => supplier.catalog < MaxCatalog
    /\ supplier' = [supplier EXCEPT
                       !.local = local, !.catalog = IF models' # models THEN @ + 1 ELSE @]
    /\ UNCHANGED <<requests, bindings, snapshots, page>>

SaveCode(list) ==
    /\ Sync(list, TRUE)
    /\ UNCHANGED factory

RestoreBuiltIn ==
    /\ factory # <<>>
    /\ Sync(factory, FALSE)
    /\ UNCHANGED factory

\* install_builtin_adapters at a later start, of a release that brings another
\* source; a local override is left alone.
Install(list) ==
    /\ factory # <<>> /\ ~supplier.local /\ list \notin {factory, <<>>}
    /\ Sync(list, FALSE)
    /\ factory' = list

UpdateSupplier ==
    /\ \E on \in BOOLEAN : supplier' = [supplier EXCEPT !.enabled = on]
    /\ UNCHANGED <<factory, models, requests, bindings, snapshots, page>>

-----------------------------------------------------------------------------
(* Bindings and uses *)

\* replace_project_model_bindings: the whole set at once.
Bind(p, slots) ==
    /\ bindings[p].revision < MaxBindings
    /\ \A slot \in Slot :
           slots[slot] # NoModel =>
               /\ Live(slots[slot]) /\ ~models[slots[slot]].archived
               /\ CapabilityOf(models[slots[slot]].def) = SlotCapability(slot)
    /\ bindings' = [bindings EXCEPT ![p] = [slots |-> slots, revision |-> @.revision + 1]]
    /\ UNCHANGED <<supplier, factory, models, requests, snapshots, page>>

\* ModelResolver.resolve: the override, or else the default of the capability.
Resolved(p, c) ==
    IF c \in Overridable /\ bindings[p].slots[<<c, "override">>] # NoModel
    THEN bindings[p].slots[<<c, "override">>]
    ELSE bindings[p].slots[<<c, "default">>]

Usable(m) == /\ Live(m) /\ models[m].enabled /\ ~models[m].archived
             /\ supplier.enabled

\* A job, a script session or a rerun of one.
Enqueue(p, c) ==
    LET m == Resolved(p, c)
    IN  /\ m # NoModel /\ Usable(m)
        /\ CapabilityOf(models[m].def) = c
        /\ snapshots' = snapshots \cup {m}
        /\ UNCHANGED <<supplier, factory, models, requests, bindings, page>>

\* A model test names its model itself.
TestModel(m) ==
    /\ Live(m) /\ models[m].enabled /\ supplier.enabled
    /\ snapshots' = snapshots \cup {m}
    /\ UNCHANGED <<supplier, factory, models, requests, bindings, page>>

-----------------------------------------------------------------------------
Next ==
    \/ \E k \in Keys, m \in Overlays, d \in Definition : CreateModel(k, m, d)
    \/ \E m \in Model : EditNow(m) \/ OpenPage(m) \/ TestModel(m)
    \/ EditLater
    \/ \E list \in Manifest : SaveCode(list) \/ Install(list)
    \/ RestoreBuiltIn \/ UpdateSupplier
    \/ \E p \in Projects, slots \in [Slot -> Model \cup {NoModel}] : Bind(p, slots)
    \/ \E p \in Projects, c \in Capabilities : Enqueue(p, c)

Spec == Init /\ [][Next]_vars

-----------------------------------------------------------------------------
(* Properties *)

Page == [model : Model, row : ModelRow, catalog : Nat, refs : Nat]

TypeOK ==
    /\ supplier \in [enabled : BOOLEAN, catalog : Nat, local : BOOLEAN]
    /\ factory \in Manifest
    /\ models \in [Model -> ModelRow]
    /\ requests \in [Keys -> Model \cup {NoModel}]
    /\ bindings \in [Projects -> [slots : [Slot -> Model \cup {NoModel}], revision : Nat]]
    /\ snapshots \subseteq Model
    /\ page \in Page \cup {NoPage}

\* Two enabled models of one capability and provider name never stand side by
\* side, whichever of creation, revision, enabling, saving code, restoring and
\* installing brought them there, and in whatever order a manifest lists them.
NamesAreUnique ==
    \A m, n \in Model :
        /\ Live(m) /\ models[m].enabled
        /\ Live(n) /\ models[n].enabled
        /\ models[m].def = models[n].def
        => m = n

\* Nothing refers to a model that is gone: a snapshot and a creation key keep
\* their model, a binding keeps one that can be resolved, archived models are not
\* bound and not enabled, and what was archived is part of the history.
ReferencesHold ==
    /\ \A m \in snapshots : Live(m)
    /\ \A k \in Keys : requests[k] # NoModel => Live(requests[k])
    /\ \A m \in Model : Bound(m) => Live(m) /\ ~models[m].archived
    /\ \A m \in Model : models[m].archived => ~models[m].enabled /\ m \in snapshots

\* An edit from an old page takes effect only on the model that page shows:
\* whatever changed it since, code saved and restored included, has changed a
\* revision the edit must match.
NoLostUpdate ==
    [][page # NoPage /\ page' = NoPage => models[page.model] = page.row]_vars
=============================================================================
