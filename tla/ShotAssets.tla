----------------------------- MODULE ShotAssets -----------------------------
(***************************************************************************)
(* From an approved storyboard to a queued video: the assets of a chapter, *)
(* their adoption for what a shot needs, the requirement sets that record  *)
(* what was adopted, the shot prompt sets made from them, and the records  *)
(* that a shot is ready.  Every handler of the server runs to its end      *)
(* before the next one starts; a storyboard is approved, rejected or made  *)
(* stale by the web or by a command line process at any moment.            *)
(*                                                                         *)
(* A chapter has one shot here: a requirement set is ready only when every *)
(* one of its shots is, and readiness is per shot.                         *)
(***************************************************************************)
EXTENDS Naturals, Sequences, FiniteSets

CONSTANTS
    Assets,
    NoAsset,
    NumNeeds,       \* what the shot needs: character, scene, prop, keyframe
    Boards,         \* storyboard revisions
    NoBoard,
    MaxSets,        \* bound: requirement sets
    MaxPrompts,     \* bound: shot prompt revisions
    MaxVideos,      \* bound: videos that are queued
    MaxCrashes      \* bound: restarts of the server

ASSUME NamesAssumption == NoAsset \notin Assets /\ NoBoard \notin Boards
ASSUME BoundsAssumption ==
    NumNeeds \in Nat /\ MaxSets \in Nat /\ MaxPrompts \in Nat
    /\ MaxVideos \in Nat /\ MaxCrashes \in Nat

VARIABLES
    board,          \* current_approved of the storyboard artifact
    fresh,          \* there is one, and its revision_freshness is FRESH
    approved,       \* storyboards that have an approval on record
    assets,         \* table assets: status
    current,        \* table asset_bindings: per need, the asset of the binding
                    \* with is_current = 1
    sets,           \* table asset_requirement_sets, in order of created_at
    prompts,        \* shot_prompt_set revisions with their dependency,
                    \* validation results and readiness records
    videos,         \* video jobs that were queued
    op,             \* what the server is doing between two of its commits
    crashes

vars == <<board, fresh, approved, assets, current, sets, prompts, videos, op,
          crashes>>

boardVars == <<board, fresh, approved>>
assetVars == <<assets, current>>

-----------------------------------------------------------------------------
Needs == 1..NumNeeds

AssetStatus == {"absent", "draft", "usable", "rejected"}

\* What is missing and what only waits for a review is one status here.
SetStatus == {"ready", "incomplete"}

RequirementSet ==
    [board : Boards, status : SetStatus, ready : [Needs -> Assets \cup {NoAsset}]]

Prompt ==
    [claims : Boards \cup {NoBoard}, dep : Boards \cup {NoBoard},
     refs : SUBSET Assets, validated : {"none", "PASS", "FAIL"},
     ready : BOOLEAN]

Video == [prompt : Nat, assets : SUBSET Assets, overridden : BOOLEAN]

Step == {"idle", "calling", "linking", "validating", "rejecting"}

Operation ==
    [at : Step, dep : Boards \cup {NoBoard}, flawed : BOOLEAN,
     asset : Assets \cup {NoAsset}]

Idle == [at |-> "idle", dep |-> NoBoard, flawed |-> FALSE, asset |-> NoAsset]

At(step) == op.at = step
Goto(step) == op' = [op EXCEPT !.at = step]

Exists(a) == assets[a] # "absent"

-----------------------------------------------------------------------------
Init ==
    /\ board = NoBoard
    /\ fresh = FALSE
    /\ approved = {}
    /\ assets = [a \in Assets |-> "absent"]
    /\ current = [n \in Needs |-> NoAsset]
    /\ sets = <<>>
    /\ prompts = <<>>
    /\ videos = {}
    /\ op = Idle
    /\ crashes = 0

(* The storyboard, from the processes of module RevisionChain *)

ApproveBoard ==
    /\ \E b \in Boards : board' = b /\ approved' = approved \cup {b}
    /\ fresh' = TRUE
    /\ UNCHANGED <<assetVars, sets, prompts, videos, op, crashes>>

RejectBoard ==
    /\ board' = NoBoard /\ fresh' = FALSE
    /\ UNCHANGED <<approved, assetVars, sets, prompts, videos, op, crashes>>

\* Another script is approved, or the storyboard's own one again.
SourceChanges ==
    /\ board # NoBoard
    /\ fresh' = ~fresh
    /\ UNCHANGED <<board, approved, assetVars, sets, prompts, videos, op, crashes>>

(* Assets *)

\* An upload, or the result of an image generation.
CreateAsset ==
    /\ At("idle")
    /\ \E a \in Assets :
           /\ ~Exists(a)
           /\ assets' = [assets EXCEPT ![a] = "draft"]
    /\ UNCHANGED <<boardVars, current, sets, prompts, videos, op, crashes>>

\* create_asset_binding takes the place of the current binding of the need; a
\* binding made again without is_current gives its place up.
BindAsset ==
    /\ At("idle")
    /\ \E a \in Assets, n \in Needs, isCurrent \in BOOLEAN :
           /\ Exists(a)
           /\ isCurrent => assets[a] = "usable"
           /\ current' = [current EXCEPT ![n] =
                  IF isCurrent THEN a ELSE IF @ = a THEN NoAsset ELSE @]
    /\ UNCHANGED <<boardVars, assets, sets, prompts, videos, op, crashes>>

\* From any status, a rejected asset's included.
MarkUsable ==
    /\ At("idle")
    /\ \E a \in Assets :
           /\ Exists(a)
           /\ assets' = [assets EXCEPT ![a] = "usable"]
    /\ UNCHANGED <<boardVars, current, sets, prompts, videos, op, crashes>>

\* The status is one commit, the bindings are the next.
RejectAsset ==
    /\ At("idle")
    /\ \E a \in Assets :
           /\ Exists(a)
           /\ assets' = [assets EXCEPT ![a] = "rejected"]
           /\ op' = [Idle EXCEPT !.at = "rejecting", !.asset = a]
    /\ UNCHANGED <<boardVars, current, sets, prompts, videos, crashes>>

\* Mutant: the bindings of a rejected asset stay current.
KeepBindings ==
    /\ At("rejecting") /\ op' = Idle
    /\ UNCHANGED <<boardVars, assetVars, sets, prompts, videos, crashes>>

ClearBindings ==
    /\ At("rejecting")
    /\ current' = [n \in Needs |-> IF current[n] = op.asset THEN NoAsset ELSE current[n]]
    /\ op' = Idle
    /\ UNCHANGED <<boardVars, assets, sets, prompts, videos, crashes>>

(* Requirements *)

\* _evaluate_need: the usable current binding, or none.
ReadyAsset(n) ==
    IF current[n] # NoAsset /\ assets[current[n]] = "usable" THEN current[n] ELSE NoAsset

OverallStatus ==
    IF \A n \in Needs : ReadyAsset(n) # NoAsset THEN "ready" ELSE "incomplete"

\* The freshness of the storyboard is not asked.
Analyze ==
    /\ At("idle") /\ board # NoBoard
    /\ Len(sets) < MaxSets
    /\ sets' = Append(sets, [board |-> board, status |-> OverallStatus,
                             ready |-> [n \in Needs |-> ReadyAsset(n)]])
    /\ UNCHANGED <<boardVars, assetVars, prompts, videos, op, crashes>>

\* The latest set of the chapter, when it is ready and of this storyboard.
LatestReady(b) ==
    IF /\ sets # <<>>
       /\ sets[Len(sets)].board = b /\ sets[Len(sets)].status = "ready"
    THEN {Len(sets)} ELSE {}

ReadyRefs(i) == {sets[i].ready[n] : n \in Needs}

(* Shot prompts *)

\* run_shot_prompt up to the call of its provider.
GeneratePrompts ==
    /\ At("idle")
    /\ board # NoBoard /\ fresh /\ LatestReady(board) # {}
    /\ op' = [Idle EXCEPT !.at = "calling", !.dep = board]
    /\ UNCHANGED <<boardVars, assetVars, sets, prompts, videos, crashes>>

InsertPrompt(prompt) ==
    /\ Len(prompts) < MaxPrompts
    /\ prompts' = Append(prompts, prompt)

\* Nothing compares the source that the answer names, or the assets it refers
\* to, with what was asked.
PromptsAnswered ==
    /\ At("calling")
    /\ \E claims \in Boards \cup {NoBoard}, refs \in (SUBSET Assets) \ {{}} :
           InsertPrompt([claims |-> claims, dep |-> NoBoard, refs |-> refs,
                         validated |-> "none", ready |-> FALSE])
    /\ \E flawed \in BOOLEAN : op' = [op EXCEPT !.at = "linking", !.flawed = flawed]
    /\ UNCHANGED <<boardVars, assetVars, sets, videos, crashes>>

PromptsFail ==
    /\ At("calling")
    /\ op' = Idle
    /\ UNCHANGED <<boardVars, assetVars, sets, prompts, videos, crashes>>

\* A revision by hand keeps the source that its original names.
EditPrompts ==
    /\ At("idle")
    /\ \E p \in DOMAIN prompts, refs \in (SUBSET Assets) \ {{}}, flawed \in BOOLEAN :
           /\ InsertPrompt([prompts[p] EXCEPT !.dep = NoBoard, !.refs = refs,
                                         !.validated = "none", !.ready = FALSE])
           /\ op' = [Idle EXCEPT !.at = "linking", !.dep = prompts[p].dep,
                                 !.flawed = flawed]
    /\ UNCHANGED <<boardVars, assetVars, sets, videos, crashes>>

RegenerateShot ==
    /\ At("idle")
    /\ \E p \in DOMAIN prompts :
           /\ InsertPrompt([prompts[p] EXCEPT !.dep = NoBoard, !.validated = "none",
                                              !.ready = FALSE])
           /\ \E flawed \in BOOLEAN :
                  op' = [Idle EXCEPT !.at = "linking", !.dep = prompts[p].dep,
                                     !.flawed = flawed]
    /\ UNCHANGED <<boardVars, assetVars, sets, videos, crashes>>

LinkPrompts ==
    /\ At("linking")
    /\ prompts' = [prompts EXCEPT ![Len(prompts)].dep = op.dep]
    /\ Goto("validating")
    /\ UNCHANGED <<boardVars, assetVars, sets, videos, crashes>>

ValidatePrompts ==
    /\ At("validating")
    /\ prompts' = [prompts EXCEPT ![Len(prompts)].validated =
                       IF op.flawed THEN "FAIL" ELSE "PASS"]
    /\ op' = Idle
    /\ UNCHANGED <<boardVars, assetVars, sets, videos, crashes>>

\* ready_by_asset_id keeps one need per asset, the last: an asset that is ready
\* for two needs is looked at for that one only.
LastNeedOf(i, a) ==
    CHOOSE n \in Needs :
        /\ sets[i].ready[n] = a
        /\ \A m \in Needs : sets[i].ready[m] = a => m <= n

\* The record that a shot is ready: a review record with its opening event.
RecordReady(p) == prompts' = [prompts EXCEPT ![p].ready = TRUE]

\* Mutant: the validation result is not asked for.
MarkReadyUnvalidated ==
    /\ At("idle")
    /\ \E p \in DOMAIN prompts :
           /\ \E i \in LatestReady(prompts[p].claims) : prompts[p].refs = ReadyRefs(i)
           /\ RecordReady(p)
    /\ UNCHANGED <<boardVars, assetVars, sets, videos, op, crashes>>

MarkReady ==
    /\ At("idle")
    /\ \E p \in DOMAIN prompts :
           /\ prompts[p].validated = "PASS"
           /\ \E i \in LatestReady(prompts[p].claims) :
                  /\ prompts[p].refs = ReadyRefs(i)
                  /\ \A a \in ReadyRefs(i) :
                         assets[a] = "usable" /\ current[LastNeedOf(i, a)] = a
           /\ RecordReady(p)
    /\ UNCHANGED <<boardVars, assetVars, sets, videos, op, crashes>>

(* Videos *)

\* Mutant: the readiness on record is taken for the state of the assets.
QueueUnchecked ==
    /\ At("idle") /\ Cardinality(videos) < MaxVideos
    /\ \E p \in DOMAIN prompts :
           /\ prompts[p].ready
           /\ videos' = videos \cup
                  {[prompt |-> p, assets |-> prompts[p].refs, overridden |-> FALSE]}
    /\ UNCHANGED <<boardVars, assetVars, sets, prompts, op, crashes>>

\* The request may name other assets than the prompt does.
QueueVideo ==
    /\ At("idle") /\ Cardinality(videos) < MaxVideos
    /\ \E p \in DOMAIN prompts, overridden \in BOOLEAN :
       \E used \in IF overridden THEN (SUBSET Assets) \ {{}} ELSE {prompts[p].refs} :
           /\ prompts[p].ready
           /\ \A a \in used : assets[a] = "usable"
           /\ videos' = videos \cup
                  {[prompt |-> p, assets |-> used, overridden |-> overridden]}
    /\ UNCHANGED <<boardVars, assetVars, sets, prompts, op, crashes>>

Crash ==
    /\ crashes < MaxCrashes /\ ~At("idle")
    /\ crashes' = crashes + 1
    /\ op' = Idle
    /\ UNCHANGED <<boardVars, assetVars, sets, prompts, videos>>

-----------------------------------------------------------------------------
Board == ApproveBoard \/ RejectBoard \/ SourceChanges

Asset == CreateAsset \/ BindAsset \/ MarkUsable \/ RejectAsset \/ ClearBindings

Prompting ==
    \/ Analyze \/ GeneratePrompts \/ PromptsAnswered \/ PromptsFail \/ EditPrompts
    \/ RegenerateShot \/ LinkPrompts \/ ValidatePrompts \/ MarkReady

Next == Board \/ Asset \/ Prompting \/ QueueVideo \/ Crash

Spec == Init /\ [][Next]_vars

-----------------------------------------------------------------------------
(* What the page of the chapter is told *)

\* The newest shot prompt set that names this storyboard as its source.
LatestPrompts(b) ==
    {p \in DOMAIN prompts :
        /\ prompts[p].claims = b
        /\ \A q \in DOMAIN prompts : prompts[q].claims = b => q <= p}

ChapterStatus ==
    IF board = NoBoard THEN "no_storyboard"
    ELSE IF LatestReady(board) = {} THEN "assets_incomplete"
    ELSE IF LatestPrompts(board) = {} THEN "assets_ready"
    ELSE IF \A p \in LatestPrompts(board) : prompts[p].ready THEN "prompts_ready"
    ELSE "prompts_draft"

-----------------------------------------------------------------------------
(* Properties *)

TypeOK ==
    /\ board \in Boards \cup {NoBoard} /\ fresh \in BOOLEAN
    /\ approved \subseteq Boards
    /\ assets \in [Assets -> AssetStatus]
    /\ current \in [Needs -> Assets \cup {NoAsset}]
    /\ sets \in Seq(RequirementSet)
    /\ prompts \in Seq(Prompt)
    /\ videos \subseteq Video
    /\ op \in Operation
    /\ crashes \in Nat

\* What stands behind a record that prompt p is ready: its validator passed, and
\* some requirement set of the storyboard it names, which was approved, was
\* ready with exactly the assets it refers to.
Earned(p) ==
    /\ prompts[p].validated = "PASS"
    /\ prompts[p].claims \in approved
    /\ \E i \in DOMAIN sets :
           /\ sets[i].board = prompts[p].claims /\ sets[i].status = "ready"
           /\ ReadyRefs(i) = prompts[p].refs

\* Readiness is earned, whatever the model answered, whatever was edited,
\* rejected or approved in between; a dependency is on an approved storyboard;
\* and a chapter that is told to be complete has an earned prompt set for its
\* current storyboard.
ReadyWasEarned ==
    /\ \A p \in DOMAIN prompts :
           /\ prompts[p].ready => Earned(p)
           /\ prompts[p].dep \in approved \cup {NoBoard}
    /\ ChapterStatus = "prompts_ready" =>
           \E p \in DOMAIN prompts : prompts[p].claims = board /\ Earned(p)

\* An asset that is adopted for a need is usable: a rejection takes its adoption
\* away.  A server that dies between the two commits of a rejection leaves a
\* rejected asset adopted.
AdoptedIsUsable ==
    \A n \in Needs :
        current[n] # NoAsset =>
            \/ assets[current[n]] = "usable"
            \/ op.at = "rejecting" /\ op.asset = current[n]
            \/ crashes > 0

\* A video is queued for a shot whose readiness was earned, with assets that are
\* usable at that moment and, unless the request names others, were all ready
\* for one storyboard.
VideoIsBacked ==
    [][\A v \in videos' \ videos :
           /\ Earned(v.prompt)
           /\ \A a \in v.assets : assets[a] = "usable"
           /\ ~v.overridden => \E i \in DOMAIN sets :
                  sets[i].status = "ready" /\ v.assets \subseteq ReadyRefs(i)]_vars
=============================================================================
