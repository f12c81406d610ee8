-------------------------- MODULE ShotAssetsProofs --------------------------
(***************************************************************************)
(* Readiness is earned and adopted assets are usable, for any assets,      *)
(* storyboards and needs and any number of restarts.                       *)
(*                                                                         *)
(* What is not in the properties and makes them inductive: a storyboard    *)
(* that is or was the current one has an approval on record, and while a   *)
(* prompt set is being linked and validated it is the last one and is not  *)
(* ready.                                                                  *)
(***************************************************************************)
EXTENDS ShotAssets, TLAPS

BoardsFit ==
    /\ board # NoBoard => board \in approved
    /\ \A i \in DOMAIN sets : sets[i].board \in approved
    /\ op.dep \in approved \cup {NoBoard}

PromptsFit ==
    /\ op.at \in {"linking", "validating"} =>
           Len(prompts) > 0 /\ ~prompts[Len(prompts)].ready
    /\ \A p \in DOMAIN prompts :
           /\ prompts[p].ready => Earned(p)
           /\ prompts[p].dep \in approved \cup {NoBoard}

ShotInv == TypeOK /\ BoardsFit /\ PromptsFit /\ AdoptedIsUsable

-----------------------------------------------------------------------------
(* Sequences of rows *)

LEMMA PromptTypes ==
    ASSUME TypeOK, NEW p \in DOMAIN prompts
    PROVE  prompts[p] \in Prompt
BY DEF TypeOK

LEMMA RowInserted ==
    ASSUME TypeOK, NEW row \in Prompt, InsertPrompt(row)
    PROVE  /\ prompts' \in Seq(Prompt)
           /\ Len(prompts') = Len(prompts) + 1
           /\ \A p \in DOMAIN prompts : p \in DOMAIN prompts' /\ prompts'[p] = prompts[p]
           /\ prompts'[Len(prompts')] = row
           /\ DOMAIN prompts' = DOMAIN prompts \cup {Len(prompts')}
BY DEF TypeOK, InsertPrompt

\* What a prompt set has earned it keeps: approvals and requirement sets are
\* never taken off the record.
LEMMA EarnedStays ==
    ASSUME TypeOK, NEW p \in DOMAIN prompts, p \in DOMAIN prompts', Earned(p),
           prompts'[p].validated = prompts[p].validated,
           prompts'[p].claims = prompts[p].claims, prompts'[p].refs = prompts[p].refs,
           approved \subseteq approved',
           \A i \in DOMAIN sets : i \in DOMAIN sets' /\ sets'[i] = sets[i]
    PROVE  Earned(p)'
<1>1. PICK i \in DOMAIN sets :
          /\ sets[i].board = prompts[p].claims /\ sets[i].status = "ready"
          /\ ReadyRefs(i) = prompts[p].refs
  BY DEF Earned
<1>2. ReadyRefs(i)' = ReadyRefs(i)
  BY DEF ReadyRefs
<1>3. Earned(p)' <=>
          /\ prompts'[p].validated = "PASS"
          /\ prompts'[p].claims \in approved'
          /\ \E j \in DOMAIN sets' :
                 /\ sets'[j].board = prompts'[p].claims /\ sets'[j].status = "ready"
                 /\ ReadyRefs(j)' = prompts'[p].refs
  BY DEF Earned
<1> QED
  BY <1>1, <1>2, <1>3 DEF Earned

-----------------------------------------------------------------------------
(* Steps *)

LEMMA TypeStep == ShotInv /\ [Next]_vars => TypeOK'
<1> SUFFICES ASSUME ShotInv, [Next]_vars PROVE TypeOK'
  OBVIOUS
<1>0. TypeOK /\ BoardsFit /\ PromptsFit /\ AdoptedIsUsable
  BY DEF ShotInv
<1> USE NamesAssumption, BoundsAssumption
<1>1. CASE ApproveBoard
  BY <1>1, <1>0 DEF ApproveBoard, TypeOK, boardVars, assetVars, Operation, Idle, At, Goto, Step, Exists, AssetStatus
<1>2. CASE RejectBoard
  BY <1>2, <1>0 DEF RejectBoard, TypeOK, boardVars, assetVars, Operation, Idle, At, Goto, Step, Exists, AssetStatus
<1>3. CASE SourceChanges
  BY <1>3, <1>0 DEF SourceChanges, TypeOK, boardVars, assetVars, Operation, Idle, At, Goto, Step, Exists, AssetStatus
<1>4. CASE CreateAsset
  BY <1>4, <1>0 DEF CreateAsset, TypeOK, boardVars, assetVars, Operation, Idle, At, Goto, Step, Exists, AssetStatus
<1>5. CASE BindAsset
  BY <1>5, <1>0 DEF BindAsset, TypeOK, boardVars, assetVars, Operation, Idle, At, Goto, Step, Exists, AssetStatus
<1>6. CASE MarkUsable
  BY <1>6, <1>0 DEF MarkUsable, TypeOK, boardVars, assetVars, Operation, Idle, At, Goto, Step, Exists, AssetStatus
<1>7. CASE RejectAsset
  BY <1>7, <1>0 DEF RejectAsset, TypeOK, boardVars, assetVars, Operation, Idle, At, Goto, Step, Exists, AssetStatus
<1>8. CASE ClearBindings
  BY <1>8, <1>0 DEF ClearBindings, TypeOK, boardVars, assetVars, Operation, Idle, At, Goto, Step, Exists, AssetStatus
<1>9. CASE Analyze
  <2>1. [board |-> board, status |-> OverallStatus, ready |-> [n \in Needs |-> ReadyAsset(n)]]
            \in RequirementSet
    <3>1. [n \in Needs |-> ReadyAsset(n)] \in [Needs -> Assets \cup {NoAsset}]
      BY <1>0 DEF TypeOK, ReadyAsset
    <3>2. OverallStatus \in SetStatus
      BY DEF OverallStatus, SetStatus
    <3>3. board \in Boards
      BY <1>9, <1>0 DEF Analyze, TypeOK
    <3> QED
      BY <3>1, <3>2, <3>3 DEF RequirementSet
  <2> QED
    BY <2>1, <1>9, <1>0 DEF Analyze, TypeOK, boardVars, assetVars
<1>10. CASE GeneratePrompts
  BY <1>10, <1>0 DEF GeneratePrompts, TypeOK, boardVars, assetVars, Operation, Idle, At, Goto, Step, Exists, AssetStatus
<1>11. CASE PromptsAnswered
  <2>1. PICK claims \in Boards \cup {NoBoard}, refs \in (SUBSET Assets) \ {{}} :
            InsertPrompt([claims |-> claims, dep |-> NoBoard, refs |-> refs,
                          validated |-> "none", ready |-> FALSE])
    BY <1>11 DEF PromptsAnswered
  <2>2. [claims |-> claims, dep |-> NoBoard, refs |-> refs, validated |-> "none",
         ready |-> FALSE] \in Prompt
    BY DEF Prompt
  <2>3. prompts' \in Seq(Prompt)
    BY <2>1, <2>2, <1>0, RowInserted
  <2>4. op' \in Operation
    BY <1>11, <1>0 DEF PromptsAnswered, TypeOK, Operation, Step
  <2> QED
    BY <2>3, <2>4, <1>11, <1>0 DEF PromptsAnswered, TypeOK, boardVars, assetVars
<1>12. CASE PromptsFail
  BY <1>12, <1>0 DEF PromptsFail, TypeOK, boardVars, assetVars, Operation, Idle, At, Goto, Step, Exists, AssetStatus
<1>13. CASE EditPrompts
  <2>1. PICK p \in DOMAIN prompts, refs \in (SUBSET Assets) \ {{}}, flawed \in BOOLEAN :
            /\ InsertPrompt([prompts[p] EXCEPT !.dep = NoBoard, !.refs = refs,
                                              !.validated = "none", !.ready = FALSE])
            /\ op' = [Idle EXCEPT !.at = "linking", !.dep = prompts[p].dep,
                                  !.flawed = flawed]
    BY <1>13 DEF EditPrompts
  <2>2. prompts[p] \in Prompt
    BY <1>0, PromptTypes
  <2>3. [prompts[p] EXCEPT !.dep = NoBoard, !.refs = refs, !.validated = "none",
                           !.ready = FALSE] \in Prompt
    BY <2>2 DEF Prompt
  <2>4. prompts' \in Seq(Prompt)
    BY <2>1, <2>3, <1>0, RowInserted
  <2>5. op' \in Operation
    BY <2>1, <2>2 DEF Prompt, Operation, Step, Idle
  <2> QED
    BY <2>4, <2>5, <1>13, <1>0 DEF EditPrompts, TypeOK, boardVars, assetVars
<1>14. CASE RegenerateShot
  <2>1. PICK p \in DOMAIN prompts :
            /\ InsertPrompt([prompts[p] EXCEPT !.dep = NoBoard, !.validated = "none",
                                              !.ready = FALSE])
            /\ \E flawed \in BOOLEAN :
                   op' = [Idle EXCEPT !.at = "linking", !.dep = prompts[p].dep,
                                      !.flawed = flawed]
    BY <1>14 DEF RegenerateShot
  <2>2. prompts[p] \in Prompt
    BY <1>0, PromptTypes
  <2>3. [prompts[p] EXCEPT !.dep = NoBoard, !.validated = "none", !.ready = FALSE]
            \in Prompt
    BY <2>2 DEF Prompt
  <2>4. prompts' \in Seq(Prompt)
    BY <2>1, <2>3, <1>0, RowInserted
  <2>5. op' \in Operation
    BY <2>1, <2>2 DEF Prompt, Operation, Step, Idle
  <2> QED
    BY <2>4, <2>5, <1>14, <1>0 DEF RegenerateShot, TypeOK, boardVars, assetVars
<1>15. CASE LinkPrompts
  <2>1. Len(prompts) \in DOMAIN prompts /\ op \in Operation
    BY <1>15, <1>0 DEF LinkPrompts, At, PromptsFit, TypeOK
  <2>2. prompts[Len(prompts)] \in Prompt
    BY <2>1, <1>0, PromptTypes
  <2>3. [prompts[Len(prompts)] EXCEPT !.dep = op.dep] \in Prompt
    BY <2>1, <2>2 DEF Prompt, Operation
  <2>4. prompts' = [prompts EXCEPT ![Len(prompts)] =
                       [prompts[Len(prompts)] EXCEPT !.dep = op.dep]]
    BY <1>15 DEF LinkPrompts
  <2>5. prompts' \in Seq(Prompt)
    BY <2>1, <2>3, <2>4, <1>0 DEF TypeOK
  <2>6. op' \in Operation
    BY <2>1, <1>15 DEF LinkPrompts, Goto, Operation, Step, Idle
  <2> QED
    BY <2>5, <2>6, <1>15, <1>0 DEF LinkPrompts, TypeOK, boardVars, assetVars
<1>16. CASE ValidatePrompts
  <2>1. Len(prompts) \in DOMAIN prompts /\ op \in Operation
    BY <1>16, <1>0 DEF ValidatePrompts, At, PromptsFit, TypeOK
  <2>2. prompts[Len(prompts)] \in Prompt
    BY <2>1, <1>0, PromptTypes
  <2>3. [prompts[Len(prompts)] EXCEPT !.validated = IF op.flawed THEN "FAIL" ELSE "PASS"] \in Prompt
    BY <2>1, <2>2 DEF Prompt, Operation
  <2>4. prompts' = [prompts EXCEPT ![Len(prompts)] =
                       [prompts[Len(prompts)] EXCEPT !.validated = IF op.flawed THEN "FAIL" ELSE "PASS"]]
    BY <1>16 DEF ValidatePrompts
  <2>5. prompts' \in Seq(Prompt)
    BY <2>1, <2>3, <2>4, <1>0 DEF TypeOK
  <2>6. op' \in Operation
    BY <2>1, <1>16 DEF ValidatePrompts, Goto, Operation, Step, Idle
  <2> QED
    BY <2>5, <2>6, <1>16, <1>0 DEF ValidatePrompts, TypeOK, boardVars, assetVars
<1>17. CASE MarkReady
  <2>1. PICK p \in DOMAIN prompts : prompts' = [prompts EXCEPT ![p].ready = TRUE]
    BY <1>17 DEF MarkReady, RecordReady
  <2>2. [prompts[p] EXCEPT !.ready = TRUE] \in Prompt
    BY <1>0, PromptTypes DEF Prompt
  <2>3. prompts' \in Seq(Prompt)
    BY <2>1, <2>2, <1>0 DEF TypeOK
  <2> QED
    BY <2>3, <1>17, <1>0 DEF MarkReady, RecordReady, TypeOK, boardVars, assetVars
<1>18. CASE QueueVideo
  <2>1. PICK p \in DOMAIN prompts, overridden \in BOOLEAN :
            \E used \in IF overridden THEN (SUBSET Assets) \ {{}} ELSE {prompts[p].refs} :
                videos' = videos \cup
                    {[prompt |-> p, assets |-> used, overridden |-> overridden]}
    BY <1>18 DEF QueueVideo
  <2>2. PICK used \in IF overridden THEN (SUBSET Assets) \ {{}} ELSE {prompts[p].refs} :
                videos' = videos \cup
                    {[prompt |-> p, assets |-> used, overridden |-> overridden]}
    BY <2>1
  <2>3. used \subseteq Assets /\ p \in Nat
    BY <1>0, PromptTypes DEF Prompt, TypeOK
  <2>4. videos' \subseteq Video
    BY <2>2, <2>3, <1>0 DEF TypeOK, Video
  <2> QED
    BY <2>4, <1>18, <1>0 DEF QueueVideo, TypeOK, boardVars, assetVars
<1>19. CASE Crash
  BY <1>19, <1>0 DEF Crash, TypeOK, boardVars, assetVars, Operation, Idle, At, Goto, Step, Exists, AssetStatus
<1>20. CASE UNCHANGED vars
  BY <1>20, <1>0 DEF vars, TypeOK, boardVars, assetVars, Operation, Idle, At, Goto, Step, Exists, AssetStatus
<1> QED
  BY <1>1, <1>2, <1>3, <1>4, <1>5, <1>6, <1>7, <1>8, <1>9, <1>10, <1>11, <1>12, <1>13, <1>14, <1>15, <1>16, <1>17, <1>18, <1>19, <1>20 DEF Next, Board, Asset, Prompting

LEMMA BoardStep == ShotInv /\ [Next]_vars => BoardsFit'
<1> SUFFICES ASSUME ShotInv, [Next]_vars PROVE BoardsFit'
  OBVIOUS
<1>0. TypeOK /\ BoardsFit /\ PromptsFit /\ AdoptedIsUsable
  BY DEF ShotInv
<1> USE NamesAssumption, BoundsAssumption
<1>1. CASE ApproveBoard
  BY <1>1, <1>0 DEF ApproveBoard, BoardsFit, TypeOK, boardVars, assetVars, Operation, Idle, At, Goto, Step
<1>2. CASE RejectBoard
  BY <1>2, <1>0 DEF RejectBoard, BoardsFit, TypeOK, boardVars, assetVars, Operation, Idle, At, Goto, Step
<1>3. CASE SourceChanges
  BY <1>3, <1>0 DEF SourceChanges, BoardsFit, TypeOK, boardVars, assetVars, Operation, Idle, At, Goto, Step
<1>4. CASE CreateAsset
  BY <1>4, <1>0 DEF CreateAsset, BoardsFit, TypeOK, boardVars, assetVars, Operation, Idle, At, Goto, Step
<1>5. CASE BindAsset
  BY <1>5, <1>0 DEF BindAsset, BoardsFit, TypeOK, boardVars, assetVars, Operation, Idle, At, Goto, Step
<1>6. CASE MarkUsable
  BY <1>6, <1>0 DEF MarkUsable, BoardsFit, TypeOK, boardVars, assetVars, Operation, Idle, At, Goto, Step
<1>7. CASE RejectAsset
  BY <1>7, <1>0 DEF RejectAsset, BoardsFit, TypeOK, boardVars, assetVars, Operation, Idle, At, Goto, Step
<1>8. CASE ClearBindings
  BY <1>8, <1>0 DEF ClearBindings, BoardsFit, TypeOK, boardVars, assetVars, Operation, Idle, At, Goto, Step
<1>9. CASE Analyze
  BY <1>9, <1>0 DEF Analyze, BoardsFit, TypeOK, boardVars, assetVars, Operation, Idle, At, Goto, Step
<1>10. CASE GeneratePrompts
  BY <1>10, <1>0 DEF GeneratePrompts, BoardsFit, TypeOK, boardVars, assetVars, Operation, Idle, At, Goto, Step
<1>11. CASE PromptsAnswered
  BY <1>11, <1>0 DEF PromptsAnswered, BoardsFit, TypeOK, boardVars, assetVars, Operation, Idle, At, Goto, Step
<1>12. CASE PromptsFail
  BY <1>12, <1>0 DEF PromptsFail, BoardsFit, TypeOK, boardVars, assetVars, Operation, Idle, At, Goto, Step
<1>13. CASE EditPrompts
  <2>1. PICK p \in DOMAIN prompts : op'.dep = prompts[p].dep
    BY <1>13 DEF EditPrompts, Idle
  <2>2. prompts[p].dep \in approved \cup {NoBoard}
    BY <1>0 DEF PromptsFit
  <2> QED
    BY <2>1, <2>2, <1>13, <1>0 DEF EditPrompts, BoardsFit, boardVars, assetVars
<1>14. CASE RegenerateShot
  <2>1. PICK p \in DOMAIN prompts : op'.dep = prompts[p].dep
    BY <1>14 DEF RegenerateShot, Idle
  <2>2. prompts[p].dep \in approved \cup {NoBoard}
    BY <1>0 DEF PromptsFit
  <2> QED
    BY <2>1, <2>2, <1>14, <1>0 DEF RegenerateShot, BoardsFit, boardVars, assetVars
<1>15. CASE LinkPrompts
  BY <1>15, <1>0 DEF LinkPrompts, BoardsFit, TypeOK, boardVars, assetVars, Operation, Idle, At, Goto, Step
<1>16. CASE ValidatePrompts
  BY <1>16, <1>0 DEF ValidatePrompts, BoardsFit, TypeOK, boardVars, assetVars, Operation, Idle, At, Goto, Step
<1>17. CASE MarkReady
  BY <1>17, <1>0 DEF MarkReady, BoardsFit, TypeOK, boardVars, assetVars, Operation, Idle, At, Goto, Step
<1>18. CASE QueueVideo
  BY <1>18, <1>0 DEF QueueVideo, BoardsFit, TypeOK, boardVars, assetVars, Operation, Idle, At, Goto, Step
<1>19. CASE Crash
  BY <1>19, <1>0 DEF Crash, BoardsFit, TypeOK, boardVars, assetVars, Operation, Idle, At, Goto, Step
<1>20. CASE UNCHANGED vars
  BY <1>20, <1>0 DEF vars, BoardsFit, TypeOK, boardVars, assetVars, Operation, Idle, At, Goto, Step
<1> QED
  BY <1>1, <1>2, <1>3, <1>4, <1>5, <1>6, <1>7, <1>8, <1>9, <1>10, <1>11, <1>12, <1>13, <1>14, <1>15, <1>16, <1>17, <1>18, <1>19, <1>20 DEF Next, Board, Asset, Prompting

LEMMA AdoptedStep == ShotInv /\ [Next]_vars => AdoptedIsUsable'
<1> SUFFICES ASSUME ShotInv, [Next]_vars PROVE AdoptedIsUsable'
  OBVIOUS
<1>0. TypeOK /\ BoardsFit /\ PromptsFit /\ AdoptedIsUsable
  BY DEF ShotInv
<1> USE NamesAssumption, BoundsAssumption
<1>1. CASE ApproveBoard
  BY <1>1, <1>0 DEF ApproveBoard, AdoptedIsUsable, TypeOK, boardVars, assetVars, Operation, Idle, At, Goto, Step, Exists, AssetStatus
<1>2. CASE RejectBoard
  BY <1>2, <1>0 DEF RejectBoard, AdoptedIsUsable, TypeOK, boardVars, assetVars, Operation, Idle, At, Goto, Step, Exists, AssetStatus
<1>3. CASE SourceChanges
  BY <1>3, <1>0 DEF SourceChanges, AdoptedIsUsable, TypeOK, boardVars, assetVars, Operation, Idle, At, Goto, Step, Exists, AssetStatus
<1>4. CASE CreateAsset
  BY <1>4, <1>0 DEF CreateAsset, AdoptedIsUsable, TypeOK, boardVars, assetVars, Operation, Idle, At, Goto, Step, Exists, AssetStatus
<1>5. CASE BindAsset
  BY <1>5, <1>0 DEF BindAsset, AdoptedIsUsable, TypeOK, boardVars, assetVars, Operation, Idle, At, Goto, Step, Exists, AssetStatus
<1>6. CASE MarkUsable
  BY <1>6, <1>0 DEF MarkUsable, AdoptedIsUsable, TypeOK, boardVars, assetVars, Operation, Idle, At, Goto, Step, Exists, AssetStatus
<1>7. CASE RejectAsset
  BY <1>7, <1>0 DEF RejectAsset, AdoptedIsUsable, TypeOK, boardVars, assetVars, Operation, Idle, At, Goto, Step, Exists, AssetStatus
<1>8. CASE ClearBindings
  BY <1>8, <1>0 DEF ClearBindings, AdoptedIsUsable, TypeOK, boardVars, assetVars, Operation, Idle, At, Goto, Step, Exists, AssetStatus
<1>9. CASE Analyze
  BY <1>9, <1>0 DEF Analyze, AdoptedIsUsable, TypeOK, boardVars, assetVars, Operation, Idle, At, Goto, Step, Exists, AssetStatus
<1>10. CASE GeneratePrompts
  BY <1>10, <1>0 DEF GeneratePrompts, AdoptedIsUsable, TypeOK, boardVars, assetVars, Operation, Idle, At, Goto, Step, Exists, AssetStatus
<1>11. CASE PromptsAnswered
  BY <1>11, <1>0 DEF PromptsAnswered, AdoptedIsUsable, TypeOK, boardVars, assetVars, Operation, Idle, At, Goto, Step, Exists, AssetStatus
<1>12. CASE PromptsFail
  BY <1>12, <1>0 DEF PromptsFail, AdoptedIsUsable, TypeOK, boardVars, assetVars, Operation, Idle, At, Goto, Step, Exists, AssetStatus
<1>13. CASE EditPrompts
  BY <1>13, <1>0 DEF EditPrompts, AdoptedIsUsable, TypeOK, boardVars, assetVars, Operation, Idle, At, Goto, Step, Exists, AssetStatus
<1>14. CASE RegenerateShot
  BY <1>14, <1>0 DEF RegenerateShot, AdoptedIsUsable, TypeOK, boardVars, assetVars, Operation, Idle, At, Goto, Step, Exists, AssetStatus
<1>15. CASE LinkPrompts
  BY <1>15, <1>0 DEF LinkPrompts, AdoptedIsUsable, TypeOK, boardVars, assetVars, Operation, Idle, At, Goto, Step, Exists, AssetStatus
<1>16. CASE ValidatePrompts
  BY <1>16, <1>0 DEF ValidatePrompts, AdoptedIsUsable, TypeOK, boardVars, assetVars, Operation, Idle, At, Goto, Step, Exists, AssetStatus
<1>17. CASE MarkReady
  BY <1>17, <1>0 DEF MarkReady, AdoptedIsUsable, TypeOK, boardVars, assetVars, Operation, Idle, At, Goto, Step, Exists, AssetStatus
<1>18. CASE QueueVideo
  BY <1>18, <1>0 DEF QueueVideo, AdoptedIsUsable, TypeOK, boardVars, assetVars, Operation, Idle, At, Goto, Step, Exists, AssetStatus
<1>19. CASE Crash
  BY <1>19, <1>0 DEF Crash, AdoptedIsUsable, TypeOK, boardVars, assetVars, Operation, Idle, At, Goto, Step, Exists, AssetStatus
<1>20. CASE UNCHANGED vars
  BY <1>20, <1>0 DEF vars, AdoptedIsUsable, TypeOK, boardVars, assetVars, Operation, Idle, At, Goto, Step, Exists, AssetStatus
<1> QED
  BY <1>1, <1>2, <1>3, <1>4, <1>5, <1>6, <1>7, <1>8, <1>9, <1>10, <1>11, <1>12, <1>13, <1>14, <1>15, <1>16, <1>17, <1>18, <1>19, <1>20 DEF Next, Board, Asset, Prompting

\* Steps that leave the prompt sets alone.
LEMMA PromptsKept ==
    ASSUME ShotInv, UNCHANGED prompts, approved \subseteq approved',
           \A i \in DOMAIN sets : i \in DOMAIN sets' /\ sets'[i] = sets[i],
           op'.at \in {"linking", "validating"} => op.at \in {"linking", "validating"}
    PROVE  PromptsFit'
<1>1. ASSUME NEW p \in DOMAIN prompts, prompts[p].ready PROVE Earned(p)'
  <2>1. Earned(p) /\ TypeOK
    BY <1>1 DEF ShotInv, PromptsFit
  <2> QED
    BY <2>1, EarnedStays
<1> QED
  BY <1>1 DEF ShotInv, PromptsFit

\* A new prompt set is not ready, and depends on nothing yet.
LEMMA PromptAdded ==
    ASSUME ShotInv, NEW row \in Prompt, ~row.ready, row.dep = NoBoard, InsertPrompt(row),
           UNCHANGED <<approved, sets>>
    PROVE  PromptsFit'
<1>1. TypeOK /\ PromptsFit
  BY DEF ShotInv
<1>2. /\ Len(prompts') = Len(prompts) + 1
      /\ \A p \in DOMAIN prompts : p \in DOMAIN prompts' /\ prompts'[p] = prompts[p]
      /\ prompts'[Len(prompts')] = row
      /\ DOMAIN prompts' = DOMAIN prompts \cup {Len(prompts')}
  BY <1>1, RowInserted
<1>3. Len(prompts) \in Nat
  BY <1>1 DEF TypeOK
<1>4. ASSUME NEW p \in DOMAIN prompts' PROVE prompts'[p].ready => Earned(p)'
  <2>1. CASE p \in DOMAIN prompts
    <3>1. prompts[p].ready => Earned(p)
      BY <2>1, <1>1 DEF PromptsFit
    <3> QED
      BY <3>1, <2>1, <1>1, <1>2, EarnedStays
  <2>2. CASE p = Len(prompts')
    BY <2>2, <1>2
  <2> QED
    BY <2>1, <2>2, <1>2
<1>5. ASSUME NEW p \in DOMAIN prompts' PROVE prompts'[p].dep \in approved' \cup {NoBoard}
  BY <1>1, <1>2 DEF PromptsFit
<1> QED
  BY <1>2, <1>3, <1>4, <1>5 DEF PromptsFit

\* A prompt set that is changed keeps what it has earned, or is not ready.
LEMMA PromptChanged ==
    ASSUME ShotInv, NEW q \in DOMAIN prompts, NEW row \in Prompt,
           prompts' = [prompts EXCEPT ![q] = row],
           row.claims = prompts[q].claims, row.refs = prompts[q].refs,
           row.ready => Earned(q) /\ row.validated = prompts[q].validated,
           row.dep \in approved \cup {NoBoard},
           op'.at \in {"linking", "validating"} => q = Len(prompts) /\ ~row.ready,
           UNCHANGED <<approved, sets>>
    PROVE  PromptsFit'
<1>1. TypeOK /\ PromptsFit
  BY DEF ShotInv
<1>2. /\ DOMAIN prompts' = DOMAIN prompts /\ Len(prompts') = Len(prompts)
      /\ prompts'[q] = row
      /\ \A p \in DOMAIN prompts : p # q => prompts'[p] = prompts[p]
      /\ Len(prompts) \in Nat /\ Len(prompts) > 0
  BY <1>1 DEF TypeOK
<1>3. ASSUME NEW p \in DOMAIN prompts' PROVE prompts'[p].ready => Earned(p)'
  <2>1. CASE p = q
    BY <2>1, <1>1, <1>2, EarnedStays
  <2>2. CASE p # q
    <3>1. prompts[p].ready => Earned(p)
      BY <1>1, <1>2 DEF PromptsFit
    <3> QED
      BY <3>1, <2>2, <1>1, <1>2, EarnedStays
  <2> QED
    BY <2>1, <2>2
<1>4. ASSUME NEW p \in DOMAIN prompts' PROVE prompts'[p].dep \in approved' \cup {NoBoard}
  BY <1>1, <1>2 DEF PromptsFit
<1> QED
  BY <1>2, <1>3, <1>4 DEF PromptsFit

LEMMA PromptStep == ShotInv /\ [Next]_vars => PromptsFit'
<1> SUFFICES ASSUME ShotInv, [Next]_vars PROVE PromptsFit'
  OBVIOUS
<1>0. TypeOK /\ BoardsFit /\ PromptsFit
  BY DEF ShotInv
<1>1. CASE Board \/ Asset \/ QueueVideo \/ Crash \/ GeneratePrompts \/ PromptsFail
           \/ UNCHANGED vars
  <2>1. UNCHANGED prompts /\ UNCHANGED sets
    BY <1>1 DEF Board, Asset, ApproveBoard, RejectBoard, SourceChanges, CreateAsset, BindAsset,
           MarkUsable, RejectAsset, ClearBindings, QueueVideo, Crash, GeneratePrompts,
           PromptsFail, vars
  <2>2. approved \subseteq approved'
    BY <1>1 DEF Board, Asset, ApproveBoard, RejectBoard, SourceChanges, CreateAsset, BindAsset,
           MarkUsable, RejectAsset, ClearBindings, QueueVideo, Crash, GeneratePrompts,
           PromptsFail, vars, boardVars
  <2>3. op'.at \in {"linking", "validating"} => op.at \in {"linking", "validating"}
    <3>1. CASE Board \/ CreateAsset \/ BindAsset \/ MarkUsable \/ QueueVideo \/ UNCHANGED vars
      <4>1. op' = op
        BY <3>1 DEF Board, ApproveBoard, RejectBoard, SourceChanges, CreateAsset, BindAsset,
               MarkUsable, QueueVideo, vars
      <4> QED
        BY <4>1
    <3>2. CASE ClearBindings \/ Crash \/ PromptsFail
      <4>1. op' = Idle
        BY <3>2 DEF ClearBindings, Crash, PromptsFail
      <4> QED
        BY <4>1 DEF Idle
    <3>3. CASE RejectAsset
      <4>1. op'.at = "rejecting"
        BY <3>3 DEF RejectAsset, Idle
      <4> QED
        BY <4>1
    <3>4. CASE GeneratePrompts
      <4>1. op'.at = "calling"
        BY <3>4 DEF GeneratePrompts, Idle
      <4> QED
        BY <4>1
    <3> QED
      BY <1>1, <3>1, <3>2, <3>3, <3>4 DEF Asset
  <2> QED
    BY <2>1, <2>2, <2>3, PromptsKept
<1>2. CASE Analyze
  <2>1. \A i \in DOMAIN sets : i \in DOMAIN sets' /\ sets'[i] = sets[i]
    BY <1>2, <1>0 DEF Analyze, TypeOK
  <2>2. UNCHANGED <<prompts, approved, op>>
    BY <1>2 DEF Analyze, boardVars
  <2> QED
    BY <2>1, <2>2, PromptsKept
<1>3. CASE PromptsAnswered
  <2>1. PICK claims \in Boards \cup {NoBoard}, refs \in (SUBSET Assets) \ {{}} :
            InsertPrompt([claims |-> claims, dep |-> NoBoard, refs |-> refs,
                          validated |-> "none", ready |-> FALSE])
    BY <1>3 DEF PromptsAnswered
  <2> DEFINE row == [claims |-> claims, dep |-> NoBoard, refs |-> refs,
                     validated |-> "none", ready |-> FALSE]
  <2>2. row \in Prompt /\ ~row.ready /\ row.dep = NoBoard
    BY DEF Prompt
  <2>3. UNCHANGED <<approved, sets>> /\ InsertPrompt(row)
    BY <1>3, <2>1 DEF PromptsAnswered, boardVars
  <2> HIDE DEF row
  <2> QED
    BY <2>2, <2>3, PromptAdded
<1>4. CASE EditPrompts
  <2>1. PICK p \in DOMAIN prompts, refs \in (SUBSET Assets) \ {{}} :
            InsertPrompt([prompts[p] EXCEPT !.dep = NoBoard, !.refs = refs,
                                            !.validated = "none", !.ready = FALSE])
    BY <1>4 DEF EditPrompts
  <2> DEFINE row == [prompts[p] EXCEPT !.dep = NoBoard, !.refs = refs,
                                       !.validated = "none", !.ready = FALSE]
  <2>2. prompts[p] \in Prompt
    BY <1>0, PromptTypes
  <2>3. row \in Prompt /\ ~row.ready /\ row.dep = NoBoard
    BY <2>2 DEF Prompt
  <2>4. UNCHANGED <<approved, sets>> /\ InsertPrompt(row)
    BY <1>4, <2>1 DEF EditPrompts, boardVars
  <2> HIDE DEF row
  <2> QED
    BY <2>3, <2>4, PromptAdded
<1>5. CASE RegenerateShot
  <2>1. PICK p \in DOMAIN prompts :
            InsertPrompt([prompts[p] EXCEPT !.dep = NoBoard, !.validated = "none",
                                            !.ready = FALSE])
    BY <1>5 DEF RegenerateShot
  <2> DEFINE row == [prompts[p] EXCEPT !.dep = NoBoard, !.validated = "none",
                                       !.ready = FALSE]
  <2>2. prompts[p] \in Prompt
    BY <1>0, PromptTypes
  <2>3. row \in Prompt /\ ~row.ready /\ row.dep = NoBoard
    BY <2>2 DEF Prompt
  <2>4. UNCHANGED <<approved, sets>> /\ InsertPrompt(row)
    BY <1>5, <2>1 DEF RegenerateShot, boardVars
  <2> HIDE DEF row
  <2> QED
    BY <2>3, <2>4, PromptAdded
<1>6. CASE LinkPrompts
  <2> DEFINE last == Len(prompts)
  <2> DEFINE row == [prompts[last] EXCEPT !.dep = op.dep]
  <2>1. last \in DOMAIN prompts /\ ~prompts[last].ready /\ op \in Operation
    BY <1>6, <1>0 DEF LinkPrompts, At, PromptsFit, TypeOK
  <2>2. prompts[last] \in Prompt
    BY <2>1, <1>0, PromptTypes
  <2>3. /\ row \in Prompt /\ row.claims = prompts[last].claims
        /\ row.refs = prompts[last].refs /\ ~row.ready /\ row.dep = op.dep
    BY <2>1, <2>2 DEF Prompt, Operation
  <2>4. prompts' = [prompts EXCEPT ![last] = row] /\ UNCHANGED <<approved, sets>>
    BY <1>6 DEF LinkPrompts, boardVars
  <2>5. op.dep \in approved \cup {NoBoard}
    BY <1>0 DEF BoardsFit
  <2> HIDE DEF row
  <2> QED
    BY <2>1, <2>3, <2>4, <2>5, PromptChanged
<1>7. CASE ValidatePrompts
  <2> DEFINE last == Len(prompts)
  <2> DEFINE row == [prompts[last] EXCEPT !.validated = IF op.flawed THEN "FAIL" ELSE "PASS"]
  <2>1. last \in DOMAIN prompts /\ ~prompts[last].ready
    BY <1>7, <1>0 DEF ValidatePrompts, At, PromptsFit, TypeOK
  <2>2. prompts[last] \in Prompt /\ prompts[last].dep \in approved \cup {NoBoard}
    BY <2>1, <1>0, PromptTypes DEF PromptsFit
  <2>3. /\ row \in Prompt /\ row.claims = prompts[last].claims
        /\ row.refs = prompts[last].refs /\ ~row.ready /\ row.dep = prompts[last].dep
    BY <2>1, <2>2 DEF Prompt
  <2>4. prompts' = [prompts EXCEPT ![last] = row] /\ UNCHANGED <<approved, sets>>
    BY <1>7 DEF ValidatePrompts, boardVars
  <2>5. op'.at = "idle"
    BY <1>7 DEF ValidatePrompts, Idle
  <2> HIDE DEF row
  <2> QED
    BY <2>1, <2>2, <2>3, <2>4, <2>5, PromptChanged
<1>8. CASE MarkReady
  <2>1. PICK p \in DOMAIN prompts :
            /\ prompts[p].validated = "PASS"
            /\ \E i \in LatestReady(prompts[p].claims) : prompts[p].refs = ReadyRefs(i)
            /\ prompts' = [prompts EXCEPT ![p].ready = TRUE]
    BY <1>8 DEF MarkReady, RecordReady
  <2> DEFINE row == [prompts[p] EXCEPT !.ready = TRUE]
  <2>2. prompts[p] \in Prompt /\ prompts[p].dep \in approved \cup {NoBoard}
    BY <1>0, PromptTypes DEF PromptsFit
  <2>3. PICK i \in LatestReady(prompts[p].claims) : prompts[p].refs = ReadyRefs(i)
    BY <2>1
  <2>4. i \in DOMAIN sets /\ sets[i].board = prompts[p].claims /\ sets[i].status = "ready"
    BY <1>0 DEF LatestReady, TypeOK
  <2>5. Earned(p)
    BY <2>1, <2>3, <2>4, <1>0 DEF Earned, BoardsFit
  <2>6. /\ row \in Prompt /\ row.claims = prompts[p].claims
        /\ row.refs = prompts[p].refs /\ row.dep = prompts[p].dep
        /\ row.validated = prompts[p].validated
    BY <2>2 DEF Prompt
  <2>7. prompts' = [prompts EXCEPT ![p] = row] /\ UNCHANGED <<approved, sets>> /\ op' = op
    BY <1>8, <2>1 DEF MarkReady, RecordReady, boardVars
  <2>8. op.at = "idle"
    BY <1>8 DEF MarkReady, At
  <2> HIDE DEF row
  <2> QED
    BY <2>2, <2>5, <2>6, <2>7, <2>8, PromptChanged
<1> QED
  BY <1>1, <1>2, <1>3, <1>4, <1>5, <1>6, <1>7, <1>8 DEF Next, Prompting

LEMMA ShotStart == Init => ShotInv
<1> SUFFICES ASSUME Init PROVE ShotInv
  OBVIOUS
<1>1. op \in Operation
  BY DEF Init, Idle, Operation, Step
<1>2. sets \in Seq(RequirementSet) /\ prompts \in Seq(Prompt)
  BY DEF Init
<1>3. assets \in [Assets -> AssetStatus] /\ current \in [Needs -> Assets \cup {NoAsset}]
  BY DEF Init, AssetStatus
<1>4. TypeOK
  BY <1>1, <1>2, <1>3 DEF Init, TypeOK
<1>5. DOMAIN sets = {} /\ DOMAIN prompts = {}
  BY DEF Init
<1>6. op.at = "idle" /\ op.dep = NoBoard
  BY DEF Init, Idle
<1>7. BoardsFit
  BY <1>5, <1>6 DEF Init, BoardsFit
<1>8. PromptsFit
  BY <1>5, <1>6 DEF PromptsFit
<1>9. AdoptedIsUsable
  BY DEF Init, AdoptedIsUsable
<1> QED
  BY <1>4, <1>7, <1>8, <1>9 DEF ShotInv

LEMMA ShotStep == ShotInv /\ [Next]_vars => ShotInv'
BY TypeStep, BoardStep, AdoptedStep, PromptStep DEF ShotInv

-----------------------------------------------------------------------------
(* Theorems *)

\* Boards, prompt sets and adoptions fit together, whatever is approved,
\* rejected, edited or interrupted.
THEOREM ShotInvariant == Spec => []ShotInv
BY ShotStart, ShotStep, PTL DEF Spec

\* Every variable of the chapter's assets and prompts keeps its type.
THEOREM ShotTypes == Spec => []TypeOK
<1>1. ShotInv => TypeOK
  BY DEF ShotInv
<1> QED
  BY <1>1, ShotInvariant, PTL

\* Readiness is earned, and a chapter that is told to be complete has earned it.
THEOREM ReadinessIsEarned == Spec => []ReadyWasEarned
<1>1. ASSUME ShotInv PROVE ReadyWasEarned
  <2>1. \A p \in DOMAIN prompts :
            /\ prompts[p].ready => Earned(p)
            /\ prompts[p].dep \in approved \cup {NoBoard}
    BY <1>1 DEF ShotInv, PromptsFit
  <2>2. ASSUME ChapterStatus = "prompts_ready"
        PROVE  \E p \in DOMAIN prompts : prompts[p].claims = board /\ Earned(p)
    <3>1. LatestPrompts(board) # {} /\ \A p \in LatestPrompts(board) : prompts[p].ready
      BY <2>2 DEF ChapterStatus
    <3>2. PICK p \in LatestPrompts(board) : prompts[p].ready
      BY <3>1
    <3> QED
      BY <3>2, <2>1 DEF LatestPrompts
  <2> QED
    BY <2>1, <2>2 DEF ReadyWasEarned
<1>2. ShotInv => ReadyWasEarned
  BY <1>1
<1> QED
  BY <1>2, ShotInvariant, PTL

\* What is adopted for a need is usable, but for a rejection that is under way or
\* was cut off.
THEOREM AdoptionsAreUsable == Spec => []AdoptedIsUsable
<1>1. ShotInv => AdoptedIsUsable
  BY DEF ShotInv
<1> QED
  BY <1>1, ShotInvariant, PTL

\* A video is queued with assets that are usable and were ready.
THEOREM VideosAreBacked == Spec => VideoIsBacked
<1> DEFINE A == \A v \in videos' \ videos :
                    /\ Earned(v.prompt)
                    /\ \A a \in v.assets : assets[a] = "usable"
                    /\ ~v.overridden => \E i \in DOMAIN sets :
                           sets[i].status = "ready" /\ v.assets \subseteq ReadyRefs(i)
<1>1. ShotInv /\ [Next]_vars => [A]_vars
  <2> SUFFICES ASSUME ShotInv, Next PROVE A
    OBVIOUS
  <2>1. CASE QueueVideo
    <3>1. PICK p \in DOMAIN prompts, overridden \in BOOLEAN :
              \E used \in IF overridden THEN (SUBSET Assets) \ {{}} ELSE {prompts[p].refs} :
                  /\ prompts[p].ready
                  /\ \A a \in used : assets[a] = "usable"
                  /\ videos' = videos \cup
                         {[prompt |-> p, assets |-> used, overridden |-> overridden]}
      BY <2>1 DEF QueueVideo
    <3>2. PICK used \in IF overridden THEN (SUBSET Assets) \ {{}} ELSE {prompts[p].refs} :
                  /\ prompts[p].ready
                  /\ \A a \in used : assets[a] = "usable"
                  /\ videos' = videos \cup
                         {[prompt |-> p, assets |-> used, overridden |-> overridden]}
      BY <3>1
    <3>3. Earned(p)
      BY <3>2 DEF ShotInv, PromptsFit
    <3>4. ~overridden => \E i \in DOMAIN sets :
              sets[i].status = "ready" /\ used \subseteq ReadyRefs(i)
      BY <3>2, <3>3 DEF Earned
    <3> QED
      BY <3>2, <3>3, <3>4
  <2>2. CASE Board \/ Asset \/ Prompting \/ Crash
    <3>1. UNCHANGED videos
      BY <2>2 DEF Board, Asset, Prompting, ApproveBoard, RejectBoard, SourceChanges,
             CreateAsset, BindAsset, MarkUsable, RejectAsset, ClearBindings, Analyze,
             GeneratePrompts, PromptsAnswered, PromptsFail, EditPrompts, RegenerateShot,
             LinkPrompts, ValidatePrompts, MarkReady, Crash
    <3> QED
      BY <3>1
  <2> QED
    BY <2>1, <2>2 DEF Next
<1> QED
  BY <1>1, ShotInvariant, PTL DEF Spec, VideoIsBacked

=============================================================================
