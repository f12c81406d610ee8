------------------------ MODULE RevisionChainProofs ------------------------
(***************************************************************************)
(* Proofs about RevisionChain, for any processes, directories and bounds.  *)
(***************************************************************************)
EXTENDS RevisionChain, SequenceTheorems, TLAPS

(***************************************************************************)
(* The inductive invariant.  The tables agree only because of what each    *)
(* process has in hand between two commits: the revision it works on is in *)
(* the table, the source it carries to a storyboard was approved when it   *)
(* was looked up and stays in the log, and a directory moved into place is *)
(* its own until the export is on record.                                  *)
(***************************************************************************)
Working == {"linking", "bundling", "attesting", "validating", "approving",
            "replacing", "committing"}

IsSource(s) == s \in Revs /\ revisions[s].kind = "script" /\ WasApproved(s)

InHand(a) ==
    /\ op[a].at \in Working => op[a].rev \in Revs
    /\ At(a, "linking") => revisions[op[a].rev].kind = "board"
    /\ op[a].at \in {"calling", "linking"} => IsSource(op[a].dep)
    /\ op[a].at \in {"replacing", "committing"} =>
           /\ op[a].dest \in Directories
           /\ op[a].kind = "formal" => WasApproved(op[a].rev)
           /\ op[a].kind \in Placed
    /\ At(a, "committing") =>
           /\ files[op[a].dest] = op[a].rev
           /\ \A e \in exports : e.kind \in Placed => e.dest # op[a].dest

OwnDirectories ==
    \A a, b \in Actors :
        At(a, "committing") /\ At(b, "committing") /\ a # b => op[a].dest # op[b].dest

LogInv == \A i \in DOMAIN decisions : decisions[i].rev \in Revs

ExportsInv == \A e \in exports : e.rev \in Revs

ChainInv ==
    /\ TypeOK /\ LogInv /\ ExportsInv /\ OwnDirectories
    /\ \A a \in Actors : InHand(a)
    /\ StatusAgreesWithLog /\ SourceWasApproved /\ RecordIsTrue

-----------------------------------------------------------------------------
(* Types *)

LEMMA RowTypes ==
    ASSUME NEW k \in Kind, NEW flawed \in BOOLEAN, NEW s \in RunStatus
    PROVE  NewRow(k, flawed, s) \in RevisionRow
  BY DEF NewRow, RevisionRow, Approval, Validator

LEMMA ListTypes ==
    /\ <<>> \in Seq(Validator)
    /\ \A k \in Kind : Declared(k) \in Seq(Validator) /\ Required(k) \subseteq Validator
<1>1. \A k \in Kind : Declared(k) \in Seq(Validator)
  <2>1. <<"structure">> \in Seq(Validator)
    BY DEF Validator
  <2>2. <<"structure", "coverage", "freshness", "integrity">> \in Seq(Validator)
    BY DEF Validator
  <2> QED
    BY <2>1, <2>2 DEF Declared
<1>2. \A k \in Kind : Required(k) \subseteq Validator
  BY <1>1 DEF Required
<1> QED
  BY <1>1, <1>2

LEMMA IdleType == Idle \in Operation
<1>1. <<>> \in Seq(Validator)
  BY ListTypes
<1> QED
  BY <1>1 DEF Idle, Operation, Step, ExportKind

\* A revision that is written or added leaves the others as they are.
LEMMA RowKept ==
    ASSUME TypeOK, NEW r \in Revs, NEW row \in RevisionRow,
           revisions' = [revisions EXCEPT ![r] = row]
    PROVE  /\ revisions' \in Seq(RevisionRow) /\ Revs' = Revs
           /\ \A q \in Revs : revisions'[q] = IF q = r THEN row ELSE revisions[q]
  BY DEF TypeOK, Revs

LEMMA RowAdded ==
    ASSUME TypeOK, NEW row \in RevisionRow, Insert(row)
    PROVE  /\ revisions' \in Seq(RevisionRow) /\ Revs' = Revs \cup {Inserted}
           /\ Inserted \in Nat \ {0} /\ Inserted \notin Revs /\ revisions'[Inserted] = row
           /\ \A q \in Revs : revisions'[q] = revisions[q]
  BY DEF TypeOK, Insert, Revs, Inserted

-----------------------------------------------------------------------------
(* What most steps leave of the tables and of the other processes *)

\* Rows are added, pending and without a source, and the others keep their kind,
\* status and source.
Grows ==
    /\ revisions' \in Seq(RevisionRow) /\ Revs \subseteq Revs' /\ 0 \notin Revs'
    /\ \A q \in Revs :
           /\ revisions'[q].kind = revisions[q].kind
           /\ revisions'[q].approval = revisions[q].approval
           /\ revisions'[q].dep = revisions[q].dep
    /\ \A q \in Revs' : q \notin Revs =>
           revisions'[q].approval = "pending" /\ revisions'[q].dep = 0

\* What is in the tables stays there, but for the status.
Stays ==
    /\ Revs \subseteq Revs' /\ \A q \in Revs : revisions'[q].kind = revisions[q].kind
    /\ \A i \in DOMAIN decisions : i \in DOMAIN decisions' /\ decisions'[i] = decisions[i]

SameHand(b) ==
    /\ op'[b].at = op[b].at /\ op'[b].rev = op[b].rev /\ op'[b].dep = op[b].dep
    /\ op'[b].dest = op[b].dest /\ op'[b].kind = op[b].kind

LEMMA SourceStays ==
    ASSUME Stays
    PROVE  /\ \A r : WasApproved(r) => WasApproved(r)'
           /\ \A s : IsSource(s) => IsSource(s)'
<1>1. \A r : WasApproved(r) => WasApproved(r)'
  BY DEF Stays, WasApproved, Approves
<1> QED
  BY <1>1 DEF Stays, IsSource, Revs

LEMMA HandStays ==
    ASSUME Stays, NEW b \in Actors, InHand(b), SameHand(b),
           At(b, "committing") =>
               /\ files'[op[b].dest] = op[b].rev
               /\ \A e \in exports' : e.kind \in Placed => e.dest # op[b].dest
    PROVE  InHand(b)'
<1>1. \A r : WasApproved(r) => WasApproved(r)'
  BY SourceStays
<1>2. \A s : IsSource(s) => IsSource(s)'
  BY SourceStays
<1>3. At(b, "linking") => op[b].rev \in Revs
  BY DEF InHand, At, Working
<1> QED
  BY <1>1, <1>2, <1>3 DEF InHand, SameHand, Stays, At

LEMMA GotoHands ==
    ASSUME TypeOK, NEW a \in Actors, NEW o \in Operation, Goto(a, o) \/ GotoSeen(a, o)
    PROVE  /\ op' \in [Actors -> Operation] /\ op'[a] = o
           /\ \A b \in Actors : b # a => SameHand(b)
<1>1. CASE Goto(a, o)
  BY <1>1 DEF Goto, TypeOK, SameHand
<1>2. CASE GotoSeen(a, o)
  <2>1. \A b \in Actors : [op[b] EXCEPT !.raced = TRUE] \in Operation
    BY DEF TypeOK, Operation
  <2>2. ASSUME NEW b \in Actors, b # a PROVE SameHand(b)
    <3>1. op[b] \in Operation
      BY DEF TypeOK
    <3>2. op'[b] = op[b] \/ op'[b] = [op[b] EXCEPT !.raced = TRUE]
      BY <1>2, <2>2 DEF GotoSeen
    <3> QED
      BY <3>1, <3>2 DEF SameHand, Operation
  <2> QED
    BY <1>2, <2>1, <2>2 DEF GotoSeen, TypeOK
<1> QED
  BY <1>1, <1>2

\* The statuses agree with the log as long as neither it nor they change.
Marks ==
    /\ \A q \in Revs :
           /\ revisions'[q].kind = revisions[q].kind
           /\ revisions'[q].approval = revisions[q].approval
    /\ \A q \in Revs' : q \notin Revs => revisions'[q].approval = "pending"

LEMMA StatusStays ==
    ASSUME ChainInv, Marks, UNCHANGED decisions
    PROVE  StatusAgreesWithLog'
<1> SUFFICES ASSUME NEW r \in Revs'
             PROVE  IF revisions'[r].approval = "pending"
                    THEN \A i \in DOMAIN decisions : decisions[i].rev # r
                    ELSE \E i \in DOMAIN decisions :
                             /\ decisions[i].rev = r
                             /\ \A j \in DOMAIN decisions : j > i => decisions[j].rev # r
                             /\ revisions'[r].approval =
                                  IF decisions[i].action = "reject" THEN "rejected"
                                  ELSE IF \E j \in DOMAIN decisions :
                                              /\ j > i /\ decisions[j].action = "approve"
                                              /\ revisions'[decisions[j].rev].kind
                                                     = revisions'[r].kind
                                       THEN "superseded" ELSE "approved"
  BY DEF StatusAgreesWithLog
<1>1. \A i \in DOMAIN decisions : decisions[i].rev \in Revs
  BY DEF ChainInv, LogInv
<1>2. CASE r \notin Revs
  <2>1. revisions'[r].approval = "pending"
    BY <1>2 DEF Marks
  <2> QED
    BY <1>1, <1>2, <2>1
<1>3. CASE r \in Revs
  <2>1. revisions'[r].approval = revisions[r].approval /\ revisions'[r].kind = revisions[r].kind
    BY <1>3 DEF Marks
  <2>2. \A j \in DOMAIN decisions :
           revisions'[decisions[j].rev].kind = revisions[decisions[j].rev].kind
    BY <1>1 DEF Marks
  <2> QED
    BY <1>3, <2>1, <2>2 DEF ChainInv, StatusAgreesWithLog
<1> QED
  BY <1>2, <1>3

\* The sources depend on what Grows keeps, too.
LEMMA TablesGrow ==
    ASSUME ChainInv, Grows, UNCHANGED decisions
    PROVE  Stays /\ LogInv' /\ StatusAgreesWithLog' /\ SourceWasApproved'
<1>1. Stays
  BY DEF Stays, Grows
<1>2. LogInv'
  BY <1>1 DEF LogInv, Stays, ChainInv
<1>3. SourceWasApproved'
  <2>1. ASSUME NEW r \in Revs', revisions'[r].dep # 0
        PROVE  /\ revisions'[r].kind = "board"
               /\ IsSource(revisions[r].dep)'
    <3>1. r \in Revs /\ revisions'[r].dep = revisions[r].dep
      BY <2>1 DEF Grows
    <3>2. revisions[r].dep \in Revs
      BY <2>1, <3>1 DEF ChainInv, TypeOK
    <3>3. IsSource(revisions[r].dep) /\ revisions[r].kind = "board"
      BY <2>1, <3>1, <3>2 DEF ChainInv, SourceWasApproved, IsSource
    <3> QED
      <4>1. IsSource(revisions[r].dep)'
        BY <1>1, <3>1, <3>3, SourceStays DEF IsSource, Revs, WasApproved, Approves
      <4> QED
        BY <3>1, <3>3, <4>1 DEF Grows
  <2> QED
    BY <2>1 DEF SourceWasApproved, IsSource
<1>4. StatusAgreesWithLog'
  BY StatusStays DEF Grows, Marks
<1> QED
  BY <1>1, <1>2, <1>3, <1>4

\* A step that leaves the log, the exports and the directories alone.
LEMMA QuietStep ==
    ASSUME ChainInv, Grows, UNCHANGED <<decisions, exports, files>>,
           crashes' \in Nat, op' \in [Actors -> Operation],
           \A b \in Actors : SameHand(b) \/ (InHand(b)' /\ ~At(b, "committing")')
    PROVE  ChainInv'
<1>1. Stays /\ LogInv' /\ StatusAgreesWithLog' /\ SourceWasApproved'
  BY TablesGrow
<1>2. TypeOK'
  <2>1. \A r \in Revs' : revisions'[r].dep \in Revs' \cup {0}
    BY DEF Grows, ChainInv, TypeOK
  <2> QED
    BY <2>1 DEF Grows, ChainInv, TypeOK
<1>3. ExportsInv' /\ RecordIsTrue'
  <2>1. \A r : WasApproved(r) => WasApproved(r)'
    BY <1>1, SourceStays
  <2> QED
    BY <1>1, <2>1 DEF ChainInv, ExportsInv, RecordIsTrue, Stays
<1>4. ASSUME NEW b \in Actors, SameHand(b) PROVE InHand(b)'
  <2>1. InHand(b) /\ SameHand(b)
    BY <1>4 DEF ChainInv
  <2>2. At(b, "committing") =>
            /\ files'[op[b].dest] = op[b].rev
            /\ \A e \in exports' : e.kind \in Placed => e.dest # op[b].dest
    BY <2>1 DEF InHand
  <2> QED
    BY <1>1, <2>1, <2>2, HandStays
<1>5. OwnDirectories'
  BY DEF ChainInv, OwnDirectories, SameHand, At
<1> QED
  BY <1>1, <1>2, <1>3, <1>4, <1>5 DEF ChainInv

\* Kinds of steps on the table of revisions.
LEMMA GrowsByRow ==
    ASSUME ChainInv, NEW row \in RevisionRow, Insert(row),
           row.approval = "pending", row.dep = 0
    PROVE  Grows /\ revisions'[Inserted] = row /\ Inserted \in Revs'
<1>1. TypeOK
  BY DEF ChainInv
<1>2. 0 \notin Revs
  BY <1>1 DEF TypeOK, Revs
<1> QED
  BY <1>1, <1>2, RowAdded DEF Grows

LEMMA GrowsNot == ASSUME ChainInv, UNCHANGED revisions PROVE Grows
  BY DEF ChainInv, TypeOK, Grows, Revs

LEMMA GrowsInPlace ==
    ASSUME ChainInv, NEW r \in Revs, NEW row \in RevisionRow,
           revisions' = [revisions EXCEPT ![r] = row],
           row.kind = revisions[r].kind, row.approval = revisions[r].approval,
           row.dep = revisions[r].dep
    PROVE  Grows
<1>1. TypeOK
  BY DEF ChainInv
<1>2. 0 \notin Revs
  BY <1>1 DEF TypeOK, Revs
<1>3. /\ revisions' \in Seq(RevisionRow) /\ Revs' = Revs
      /\ \A q \in Revs : revisions'[q] = IF q = r THEN row ELSE revisions[q]
  BY <1>1, RowKept
<1> QED
  BY <1>2, <1>3 DEF Grows

\* Every revision is a record of the table.
LEMMA RowAt == ASSUME TypeOK, NEW r \in Revs PROVE revisions[r] \in RevisionRow
  BY DEF TypeOK, Revs

\* The approved revisions of a kind are in the log.
LEMMA ApprovedWasApproved ==
    ASSUME ChainInv, NEW r \in Revs, revisions[r].approval = "approved"
    PROVE  WasApproved(r)
<1>1. PICK i \in DOMAIN decisions : decisions[i].rev = r /\ decisions[i].action # "reject"
  BY DEF ChainInv, StatusAgreesWithLog
<1>2. decisions[i] \in Decided
  BY <1>1 DEF ChainInv, TypeOK
<1>3. decisions[i].action \in {"approve", "reject"}
  BY <1>2 DEF Decided
<1> QED
  BY <1>1, <1>3 DEF WasApproved, Approves

-----------------------------------------------------------------------------
(* The steps *)

\* A process that has nothing in hand, or whose hand is as the invariant wants it.
LEMMA IdleHand == ASSUME NEW a \in Actors, op'[a] = Idle PROVE InHand(a)' /\ ~At(a, "committing")'
  BY DEF InHand, Idle, At, Working

LEMMA InsertStep ==
    ASSUME ChainInv, NEW a \in Actors,
           ScriptAnswered(a) \/ BoardAnswered(a) \/ MigrateBoard(a) \/ EditScript(a)
           \/ EditBoard(a)
    PROVE  ChainInv'
<1>1. TypeOK /\ op[a] \in Operation
  BY DEF ChainInv, TypeOK
<1>2. PICK row \in RevisionRow, o \in Operation :
         /\ Insert(row) /\ row.approval = "pending" /\ row.dep = 0 /\ Goto(a, o)
         /\ o.rev = Inserted /\ o.at \in {"validating", "linking"}
         /\ o.at = "linking" => row.kind = "board" /\ IsSource(o.dep)
  <2>1. \A k \in Kind, s \in RunStatus, f \in BOOLEAN :
           /\ NewRow(k, f, s) \in RevisionRow
           /\ NewRow(k, f, s).approval = "pending" /\ NewRow(k, f, s).dep = 0
           /\ NewRow(k, f, s).kind = k
    BY RowTypes DEF NewRow
  <2>2. /\ Inserted \in Nat /\ {"script", "board"} \subseteq Kind
        /\ {"VALIDATING", "SUCCEEDED"} \subseteq RunStatus
    BY <1>1 DEF TypeOK, Inserted, Kind, RunStatus
  <2>3. \A k \in Kind : Declared(k) \in Seq(Validator)
    BY ListTypes
  <2> DEFINE Made(k, s, o) ==
               /\ \E f \in BOOLEAN : Insert(NewRow(k, f, s))
               /\ Goto(a, o) /\ o \in Operation /\ o.rev = Inserted
               /\ o.at \in {"validating", "linking"}
               /\ o.at = "linking" => k = "board" /\ IsSource(o.dep)
  <2>4. ASSUME NEW k \in Kind, NEW s \in RunStatus, NEW o, Made(k, s, o)
        PROVE  \E row \in RevisionRow, q \in Operation :
                  /\ Insert(row) /\ row.approval = "pending" /\ row.dep = 0 /\ Goto(a, q)
                  /\ q.rev = Inserted /\ q.at \in {"validating", "linking"}
                  /\ q.at = "linking" => row.kind = "board" /\ IsSource(q.dep)
    <3>1. PICK f \in BOOLEAN : Insert(NewRow(k, f, s))
      BY <2>4
    <3> QED
      BY <2>1, <2>4, <3>1
  <2>5. CASE ScriptAnswered(a)
    <3> DEFINE o == [Idle EXCEPT !.at = "validating", !.rev = Inserted,
                                 !.todo = Declared("script"), !.settle = TRUE]
    <3>1. o \in Operation /\ o.at = "validating" /\ o.rev = Inserted
      BY <2>2, <2>3, IdleType DEF Operation, Step, Idle
    <3>2. Goto(a, o) /\ \E f \in BOOLEAN : Insert(NewRow("script", f, "VALIDATING"))
      BY <2>5 DEF ScriptAnswered
    <3> QED
      <4> HIDE DEF o
      <4>1. Made("script", "VALIDATING", o)
        BY <3>1, <3>2
      <4> HIDE DEF Made
      <4> QED
        BY <2>2, <2>4, <4>1
  <2>6. CASE EditScript(a)
    <3> DEFINE o == [Idle EXCEPT !.at = "validating", !.rev = Inserted,
                                 !.todo = Declared("script")]
    <3>1. o \in Operation /\ o.at = "validating" /\ o.rev = Inserted
      BY <2>2, <2>3, IdleType DEF Operation, Step, Idle
    <3>2. Goto(a, o) /\ \E f \in BOOLEAN : Insert(NewRow("script", f, "SUCCEEDED"))
      BY <2>6 DEF EditScript
    <3> QED
      <4> HIDE DEF o
      <4>1. Made("script", "SUCCEEDED", o)
        BY <3>1, <3>2
      <4> HIDE DEF Made
      <4> QED
        BY <2>2, <2>4, <4>1
  <2>7. CASE BoardAnswered(a)
    <3> DEFINE o == [op[a] EXCEPT !.at = "linking", !.rev = Inserted,
                                  !.todo = Declared("board"), !.settle = TRUE]
    <3>1. o \in Operation /\ o.at = "linking" /\ o.rev = Inserted /\ o.dep = op[a].dep
      BY <1>1, <2>2, <2>3 DEF Operation, Step
    <3>2. Goto(a, o) /\ \E f \in BOOLEAN : Insert(NewRow("board", f, "SUCCEEDED"))
      BY <2>7 DEF BoardAnswered
    <3>3. IsSource(op[a].dep)
      BY <2>7 DEF BoardAnswered, ChainInv, InHand, At
    <3> QED
      <4> HIDE DEF o
      <4>1. Made("board", "SUCCEEDED", o)
        BY <3>1, <3>2, <3>3
      <4> HIDE DEF Made
      <4> QED
        BY <2>2, <2>4, <4>1
  <2>8. CASE MigrateBoard(a)
    <3>1. PICK s \in Revs :
             /\ revisions[s].kind = "script" /\ WasApproved(s)
             /\ Insert(NewRow("board", FALSE, "SUCCEEDED"))
             /\ Goto(a, [Idle EXCEPT !.at = "linking", !.rev = Inserted, !.dep = s])
      BY <2>8 DEF MigrateBoard
    <3> DEFINE o == [Idle EXCEPT !.at = "linking", !.rev = Inserted, !.dep = s]
    <3>2. o \in Operation /\ o.at = "linking" /\ o.rev = Inserted /\ o.dep = s
      <4>1. s \in Nat
        BY <1>1 DEF TypeOK, Revs
      <4> QED
        BY <2>2, <4>1, IdleType DEF Operation, Step, Idle
    <3>3. IsSource(s)
      BY <3>1 DEF IsSource
    <3> QED
      <4>1. Goto(a, o)
        BY <3>1
      <4> HIDE DEF o
      <4>2. Made("board", "SUCCEEDED", o)
        BY <3>1, <3>2, <3>3, <4>1
      <4> HIDE DEF Made
      <4> QED
        BY <2>2, <2>4, <4>2
  <2>9. CASE EditBoard(a)
    <3>1. PICK r \in Revs :
             /\ revisions[r].kind = "board" /\ revisions[r].dep # 0
             /\ Goto(a, [Idle EXCEPT !.at = "linking", !.rev = Inserted,
                                     !.dep = revisions[r].dep, !.todo = Declared("board")])
      BY <2>9 DEF EditBoard
    <3>2. \E f \in BOOLEAN : Insert(NewRow("board", f, "SUCCEEDED"))
      BY <2>9 DEF EditBoard
    <3>3. IsSource(revisions[r].dep) /\ revisions[r].dep \in Nat
      <4>1. revisions[r].dep \in Revs
        BY <1>1, <3>1 DEF TypeOK
      <4>2. Revs \subseteq Nat
        BY <1>1 DEF TypeOK, Revs
      <4> QED
        BY <3>1, <4>1, <4>2 DEF ChainInv, SourceWasApproved, IsSource
    <3> DEFINE o == [Idle EXCEPT !.at = "linking", !.rev = Inserted,
                                 !.dep = revisions[r].dep, !.todo = Declared("board")]
    <3>4. /\ o \in Operation /\ o.at = "linking" /\ o.rev = Inserted
          /\ o.dep = revisions[r].dep
      BY <2>2, <2>3, <3>3, IdleType DEF Operation, Step, Idle
    <3> QED
      <4>1. Goto(a, o)
        BY <3>1
      <4> HIDE DEF o
      <4>2. Made("board", "SUCCEEDED", o)
        BY <3>2, <3>3, <3>4, <4>1
      <4> HIDE DEF Made
      <4> QED
        BY <2>2, <2>4, <4>2
  <2> QED
    BY <2>5, <2>6, <2>7, <2>8, <2>9
<1>3. Grows /\ revisions'[Inserted] = row /\ Inserted \in Revs'
  BY <1>2, GrowsByRow
<1>4. UNCHANGED <<decisions, exports, files, crashes>>
  BY DEF ScriptAnswered, BoardAnswered, MigrateBoard, EditScript, EditBoard
<1>5. /\ op' \in [Actors -> Operation] /\ op'[a] = o
      /\ \A b \in Actors : b # a => SameHand(b)
  BY <1>1, <1>2, GotoHands
<1>6. InHand(a)' /\ ~At(a, "committing")'
  <2>1. o.at = "linking" => IsSource(o.dep)'
    BY <1>2, <1>3, <1>4, TablesGrow, SourceStays
  <2> QED
    BY <1>2, <1>3, <1>5, <2>1 DEF InHand, At
<1> QED
  BY <1>1, <1>3, <1>4, <1>5, <1>6, QuietStep DEF TypeOK

\* A process takes another step with the revision it has in hand.
LEMMA OnwardHand ==
    ASSUME ChainInv, NEW a \in Actors, NEW s \in Step \ {"linking", "committing"},
           op[a].at \in Working, NEW o \in Operation,
           o.at = s, o.rev = op[a].rev, o.dep = op[a].dep, s \notin {"calling", "replacing"},
           op'[a] = o, Stays
    PROVE  InHand(a)' /\ ~At(a, "committing")'
  BY DEF ChainInv, InHand, At, Stays, Working

LEMMA InPlaceStep ==
    ASSUME ChainInv, NEW a \in Actors,
           Bundle(a) \/ BundleFails(a) \/ Attest(a) \/ RunValidator(a) \/ Settle(a)
    PROVE  ChainInv'
<1>1. TypeOK /\ op[a] \in Operation
  BY DEF ChainInv, TypeOK
<1>2. op[a].at \in {"bundling", "attesting", "validating"} /\ op[a].rev \in Revs
  BY DEF Bundle, BundleFails, Attest, RunValidator, Settle, At, ChainInv, InHand, Working
<1>3. revisions[op[a].rev] \in RevisionRow
  BY <1>1, <1>2, RowAt
<1>4. Grows
  <2> DEFINE r == op[a].rev
  <2>1. r \in Revs /\ revisions[r] \in RevisionRow
    BY <1>2, <1>3
  <2>2. PICK row \in RevisionRow :
           /\ revisions' = [revisions EXCEPT ![r] = row] \/ revisions' = revisions
           /\ row.kind = revisions[r].kind /\ row.approval = revisions[r].approval
           /\ row.dep = revisions[r].dep
    <3> HIDE DEF r
    <3> DEFINE Fits(row) == /\ row \in RevisionRow
                            /\ row.kind = revisions[r].kind
                            /\ row.approval = revisions[r].approval
                            /\ row.dep = revisions[r].dep
    <3>1. /\ Fits([revisions[r] EXCEPT !.bundle = TRUE])
          /\ \A x \in RunStatus : Fits([revisions[r] EXCEPT !.run = x])
          /\ \A v \in Validator : Fits([revisions[r] EXCEPT !.passed = @ \cup {v}])
          /\ \A v \in Validator : Fits([revisions[r] EXCEPT !.failed = @ \cup {v}])
          /\ Fits(revisions[r])
      BY <2>1 DEF RevisionRow
    <3>2. {"VALIDATION_FAILED", "SUCCEEDED"} \subseteq RunStatus /\ "integrity" \in Validator
      BY DEF RunStatus, Validator
    <3>3. RunValidator(a) => Head(op[a].todo) \in Validator
      BY <1>1 DEF RunValidator, Operation
    <3> SUFFICES \E row : /\ Fits(row)
                          /\ revisions' = [revisions EXCEPT ![r] = row] \/ revisions' = revisions
      OBVIOUS
    <3>4. CASE Bundle(a)
      BY <3>1, <3>4 DEF Bundle, r
    <3>5. CASE BundleFails(a)
      BY <3>1, <3>2, <3>5 DEF BundleFails, r
    <3>6. CASE Attest(a)
      BY <3>1, <3>2, <3>6 DEF Attest, r
    <3>7. CASE RunValidator(a)
      BY <3>1, <3>3, <3>7 DEF RunValidator, r
    <3>8. CASE Settle(a)
      BY <3>1, <3>2, <3>8 DEF Settle, r
    <3> QED
      BY <3>4, <3>5, <3>6, <3>7, <3>8
  <2> QED
    BY <2>1, <2>2, GrowsInPlace, GrowsNot
<1>5. UNCHANGED <<decisions, exports, files, crashes>>
  BY DEF Bundle, BundleFails, Attest, RunValidator, Settle
<1>6. PICK o \in Operation :
         /\ Goto(a, o) \/ GotoSeen(a, o)
         /\ o = Idle \/ (/\ o.at \in {"attesting", "validating"}
                         /\ o.rev = op[a].rev /\ o.dep = op[a].dep)
  <2>1. {"attesting", "validating"} \subseteq Step
    BY DEF Step
  <2>2. CASE Bundle(a) \/ Attest(a)
    <3>1. PICK x \in {"attesting", "validating"} : Goto(a, [op[a] EXCEPT !.at = x])
      BY <2>2 DEF Bundle, Attest
    <3>2. [op[a] EXCEPT !.at = x] \in Operation
      BY <1>1, <2>1 DEF Operation
    <3> QED
      BY <1>1, <3>1, <3>2 DEF Operation
  <2>3. CASE BundleFails(a) \/ Settle(a)
    BY <2>3, IdleType DEF BundleFails, Settle
  <2>4. CASE RunValidator(a)
    <3>1. op[a].todo \in Seq(Validator) /\ Tail(op[a].todo) \in Seq(Validator)
      BY <1>1, <2>4 DEF RunValidator, Operation
    <3> DEFINE o == [op[a] EXCEPT !.todo = Tail(op[a].todo)]
               q == [o EXCEPT !.blocked = TRUE]
    <3>2. /\ o \in Operation /\ o.at = "validating" /\ o.rev = op[a].rev
          /\ o.dep = op[a].dep
      BY <1>1, <2>4, <3>1 DEF Operation, RunValidator, At
    <3>3. /\ q \in Operation /\ q.at = "validating" /\ q.rev = op[a].rev
          /\ q.dep = op[a].dep
      <4> HIDE DEF o
      <4> QED
        BY <3>2 DEF Operation
    <3>4. GotoSeen(a, o) \/ GotoSeen(a, q)
      BY <2>4 DEF RunValidator
    <3> HIDE DEF o, q
    <3> QED
      BY <3>2, <3>3, <3>4
  <2> QED
    BY <2>2, <2>3, <2>4
<1>7. /\ op' \in [Actors -> Operation] /\ op'[a] = o
      /\ \A b \in Actors : b # a => SameHand(b)
  BY <1>1, <1>6, GotoHands
<1>8. InHand(a)' /\ ~At(a, "committing")'
  <2>1. Stays
    BY <1>4, <1>5, TablesGrow
  <2>2. CASE o = Idle
    BY <1>7, <2>2, IdleHand
  <2>3. CASE o # Idle
    <3>1. op[a].at \in Working /\ {"attesting", "validating"} \subseteq Step
      BY <1>2 DEF Working, Step
    <3> QED
      BY <1>6, <1>7, <2>1, <2>3, <3>1, OnwardHand
  <2> QED
    BY <2>2, <2>3
<1> QED
  BY <1>1, <1>4, <1>5, <1>7, <1>8, QuietStep DEF TypeOK

\* The steps that only look at the tables.
LEMMA LookStep ==
    ASSUME ChainInv, NEW a \in Actors,
           PrepareScript(a) \/ GenerateBoard(a) \/ GenerationFails(a) \/ ValidateBoard(a)
           \/ ApproveCheck(a) \/ ExportBundle(a) \/ Crash(a)
    PROVE  ChainInv'
<1>1. TypeOK /\ Revs \subseteq Nat
  BY DEF ChainInv, TypeOK, Revs
<1>2. UNCHANGED <<revisions, decisions, exports, files>> /\ crashes' \in Nat
  <2>1. CASE Crash(a)
    BY <1>1, <2>1 DEF Crash, TypeOK
  <2>2. CASE ~Crash(a)
    <3>1. UNCHANGED <<revisions, decisions, exports, files, crashes>>
      BY <2>2 DEF PrepareScript, GenerateBoard, GenerationFails, ValidateBoard,
         ApproveCheck, ExportBundle
    <3> QED
      BY <1>1, <3>1 DEF TypeOK
  <2> QED
    BY <2>1, <2>2
<1>3. Grows
  BY <1>2, GrowsNot
<1>4. \A s : IsSource(s) => IsSource(s)'
  BY <1>2, <1>3, TablesGrow, SourceStays
<1>5. \A r : WasApproved(r) => WasApproved(r)'
  BY <1>2, <1>3, TablesGrow, SourceStays
<1>6. PICK o \in Operation :
         /\ Goto(a, o)
         /\ \/ o.at \in {"idle", "drafting"}
            \/ o.at = "calling" /\ IsSource(o.dep)
            \/ o.at \in {"bundling", "approving"} /\ o.rev \in Revs
            \/ /\ o.at = "replacing" /\ o.rev \in Revs /\ o.dest \in Directories
               /\ o.kind \in Placed /\ (o.kind = "formal" => WasApproved(o.rev))
  <2>0. {"drafting", "calling", "bundling", "approving", "replacing"} \subseteq Step
    BY DEF Step
  <2>1. CASE PrepareScript(a)
    <3>1. [Idle EXCEPT !.at = "drafting"] \in Operation
      BY <2>0, IdleType DEF Operation
    <3> QED
      BY <2>1, <3>1 DEF PrepareScript, Idle
  <2>2. CASE GenerationFails(a) \/ Crash(a)
    BY <2>2, IdleType DEF GenerationFails, Crash, Idle
  <2>3. CASE GenerateBoard(a)
    <3>1. PICK s \in CurrentApproved("script") :
             Goto(a, [Idle EXCEPT !.at = "calling", !.dep = s])
      BY <2>3 DEF GenerateBoard
    <3>2. s \in Revs /\ s \in Nat /\ IsSource(s)
      BY <1>1, ApprovedWasApproved DEF CurrentApproved, IsSource
    <3> DEFINE o == [Idle EXCEPT !.at = "calling", !.dep = s]
    <3>3. o \in Operation /\ o.at = "calling" /\ o.dep = s
      BY <2>0, <3>2, IdleType DEF Operation, Idle
    <3>4. Goto(a, o)
      BY <3>1
    <3> HIDE DEF o
    <3> QED
      BY <3>2, <3>3, <3>4
  <2>4. CASE ValidateBoard(a)
    <3>1. PICK r \in Revs : Goto(a, [Idle EXCEPT !.at = "bundling", !.rev = r,
                                                 !.todo = Declared("board")])
      BY <2>4 DEF ValidateBoard
    <3> DEFINE o == [Idle EXCEPT !.at = "bundling", !.rev = r, !.todo = Declared("board")]
    <3>2. Declared("board") \in Seq(Validator) /\ r \in Nat
      BY <1>1, ListTypes DEF Kind
    <3>3. o \in Operation /\ o.at = "bundling" /\ o.rev = r
      BY <2>0, <3>2, IdleType DEF Operation, Idle
    <3>4. Goto(a, o)
      BY <3>1
    <3> HIDE DEF o
    <3> QED
      BY <3>3, <3>4
  <2>5. CASE ApproveCheck(a)
    <3>1. PICK r \in Revs : Goto(a, [Idle EXCEPT !.at = "approving", !.rev = r,
                                                 !.raced = Unvalidated(r)])
      BY <2>5 DEF ApproveCheck
    <3> DEFINE o == [Idle EXCEPT !.at = "approving", !.rev = r, !.raced = Unvalidated(r)]
    <3>2. Unvalidated(r) \in BOOLEAN /\ r \in Nat
      BY <1>1 DEF Unvalidated
    <3>3. o \in Operation /\ o.at = "approving" /\ o.rev = r
      <4> DEFINE b == Unvalidated(r)
      <4> HIDE DEF b
      <4>1. b \in BOOLEAN
        BY <3>2 DEF b
      <4> QED
        BY <2>0, <3>2, <4>1, IdleType DEF Operation, Idle
    <3>4. Goto(a, o)
      BY <3>1
    <3> HIDE DEF o
    <3> QED
      BY <3>3, <3>4
  <2>6. CASE ExportBundle(a)
    <3>1. PICK r \in Revs, d \in Directories, k \in Placed :
             /\ k = "formal" => revisions[r].approval = "approved"
             /\ Goto(a, [Idle EXCEPT !.at = "replacing", !.rev = r, !.kind = k, !.dest = d])
      BY <2>6 DEF ExportBundle
    <3> DEFINE o == [Idle EXCEPT !.at = "replacing", !.rev = r, !.kind = k, !.dest = d]
    <3>2. k = "formal" => WasApproved(r)
      BY <3>1, ApprovedWasApproved
    <3>3. k \in ExportKind /\ r \in Nat /\ d \in Directories \cup {NoDirectory}
      BY <1>1 DEF ExportKind, Placed
    <3>4. /\ o \in Operation /\ o.at = "replacing" /\ o.rev = r /\ o.dest = d /\ o.kind = k
      BY <2>0, <3>3, IdleType DEF Operation, Idle
    <3>5. Goto(a, o)
      BY <3>1
    <3> HIDE DEF o
    <3> QED
      BY <3>2, <3>4, <3>5
  <2> QED
    BY <2>1, <2>2, <2>3, <2>4, <2>5, <2>6
<1>7. /\ op' \in [Actors -> Operation] /\ op'[a] = o
      /\ \A b \in Actors : b # a => SameHand(b)
  BY <1>1, <1>6, GotoHands
<1>8. InHand(a)' /\ ~At(a, "committing")'
  <2>1. op'[a].rev \in Revs' <=> op'[a].rev \in Revs
    BY <1>2 DEF Revs
  <2>2. CASE o.at \in {"idle", "drafting"}
    BY <1>7, <2>2 DEF InHand, At, Working
  <2>3. CASE o.at = "calling" /\ IsSource(o.dep)
    <3>1. IsSource(op[a].dep)'
      BY <1>4, <1>7, <2>3
    <3> QED
      BY <1>7, <2>3, <3>1 DEF InHand, At, Working
  <2>4. CASE o.at \in {"bundling", "approving"} /\ o.rev \in Revs
    BY <1>7, <2>1, <2>4 DEF InHand, At, Working
  <2>5. CASE /\ o.at = "replacing" /\ o.rev \in Revs /\ o.dest \in Directories
             /\ o.kind \in Placed /\ (o.kind = "formal" => WasApproved(o.rev))
    <3>1. op'[a].kind = "formal" => WasApproved(op[a].rev)'
      BY <1>5, <1>7, <2>5
    <3> QED
      BY <1>7, <2>1, <2>5, <3>1 DEF InHand, At, Working
  <2> QED
    BY <1>6, <2>2, <2>3, <2>4, <2>5
<1> QED
  BY <1>2, <1>3, <1>7, <1>8, QuietStep

\* The runner's thread and the command that makes a bundle have nothing in hand.
LEMMA AloneStep ==
    ASSUME ChainInv, PublishScript \/ \E a \in Actors : Materialize(a)
    PROVE  ChainInv'
<1>1. TypeOK
  BY DEF ChainInv
<1>2. Grows
  <2>1. CASE PublishScript
    <3> DEFINE first == NewRow("script", FALSE, "SUCCEEDED")
               row == [first EXCEPT !.passed = Required("script")]
    <3>1. /\ first \in RevisionRow /\ first.approval = "pending" /\ first.dep = 0
          /\ Required("script") \subseteq Validator
      BY RowTypes, ListTypes DEF Kind, RunStatus, NewRow
    <3>2. row \in RevisionRow /\ row.approval = "pending" /\ row.dep = 0
      <4> HIDE DEF first
      <4> QED
        BY <3>1 DEF RevisionRow
    <3>3. Insert(row)
      BY <2>1 DEF PublishScript
    <3> HIDE DEF row
    <3> QED
      BY <3>2, <3>3, GrowsByRow
  <2>2. CASE \E a \in Actors : Materialize(a)
    <3>1. PICK r \in Revs : revisions' = [revisions EXCEPT ![r].bundle = TRUE]
      BY <2>2 DEF Materialize
    <3> DEFINE row == [revisions[r] EXCEPT !.bundle = TRUE]
    <3>2. /\ row \in RevisionRow /\ row.kind = revisions[r].kind
          /\ row.approval = revisions[r].approval /\ row.dep = revisions[r].dep
      BY <1>1, RowAt DEF RevisionRow
    <3>3. revisions' = [revisions EXCEPT ![r] = row]
      BY <3>1
    <3> HIDE DEF row
    <3> QED
      BY <3>2, <3>3, GrowsInPlace
  <2> QED
    BY <2>1, <2>2
<1>3. UNCHANGED <<decisions, exports, files, op, crashes>>
  BY DEF PublishScript, Materialize
<1> QED
  BY <1>1, <1>2, <1>3, QuietStep DEF TypeOK, SameHand

LEMMA LinkStep == ASSUME ChainInv, NEW a \in Actors, Link(a) PROVE ChainInv'
<1> DEFINE r == op[a].rev
           d == op[a].dep
           row == [revisions[r] EXCEPT !.dep = d]
<1>1. TypeOK /\ op[a] \in Operation
  BY DEF ChainInv, TypeOK
<1>2. r \in Revs /\ revisions[r].kind = "board" /\ IsSource(d) /\ d \in Nat
  <2>1. r \in Revs /\ revisions[r].kind = "board" /\ IsSource(d)
    BY DEF Link, At, ChainInv, InHand, Working
  <2> QED
    BY <1>1, <2>1 DEF Operation
<1>3. /\ row \in RevisionRow /\ row.kind = revisions[r].kind
      /\ row.approval = revisions[r].approval /\ row.dep = d
  <2>1. revisions[r] \in RevisionRow
    BY <1>1, <1>2, RowAt
  <2> HIDE DEF r, d
  <2> QED
    BY <1>2, <2>1 DEF RevisionRow
<1>4. /\ revisions' \in Seq(RevisionRow) /\ Revs' = Revs
      /\ \A q \in Revs : revisions'[q] = IF q = r THEN row ELSE revisions[q]
  <2>1. revisions' = [revisions EXCEPT ![r] = row]
    BY DEF Link
  <2> HIDE DEF row, r
  <2> QED
    BY <1>1, <1>2, <1>3, <2>1, RowKept
<1>5. UNCHANGED <<decisions, exports, files, crashes>>
  BY DEF Link
<1> HIDE DEF row
<1>6. Stays /\ Marks
  BY <1>2, <1>3, <1>4, <1>5 DEF Stays, Marks
<1>7. LogInv' /\ StatusAgreesWithLog'
  BY <1>4, <1>5, <1>6, StatusStays DEF ChainInv, LogInv
<1>8. \A q : (WasApproved(q) => WasApproved(q)') /\ (IsSource(q) => IsSource(q)')
  BY <1>6, SourceStays
<1>9. \A q \in Revs : revisions'[q].kind = revisions[q].kind
  BY <1>6 DEF Marks
<1>10. SourceWasApproved'
  <2> SUFFICES ASSUME NEW q \in Revs, revisions'[q].dep # 0
               PROVE  /\ revisions'[q].kind = "board"
                      /\ \E s : s = revisions'[q].dep /\ IsSource(s)'
    BY <1>4 DEF SourceWasApproved, IsSource
  <2>1. CASE q = r
    BY <1>2, <1>3, <1>4, <1>8, <1>9, <2>1
  <2>2. CASE q # r
    <3>1. revisions'[q].dep = revisions[q].dep
      BY <1>4, <2>2
    <3>2. revisions[q].dep \in Revs
      BY <1>1, <3>1 DEF TypeOK
    <3>3. IsSource(revisions[q].dep) /\ revisions[q].kind = "board"
      BY <3>1, <3>2 DEF ChainInv, SourceWasApproved, IsSource
    <3> QED
      BY <1>8, <1>9, <3>1, <3>3
  <2> QED
    BY <2>1, <2>2
<1>11. PICK o \in Operation :
          /\ Goto(a, o)
          /\ o = Idle \/ (o.at = "bundling" /\ o.rev = r /\ o.dep = d)
  <2>1. [op[a] EXCEPT !.at = "bundling"] \in Operation
    BY <1>1 DEF Operation, Step
  <2> QED
    BY <1>1, <2>1, IdleType DEF Link, Operation
<1>12. /\ op' \in [Actors -> Operation] /\ op'[a] = o
       /\ \A b \in Actors : b # a => SameHand(b)
  BY <1>1, <1>11, GotoHands
<1>13. InHand(a)' /\ ~At(a, "committing")'
  <2>1. CASE o = Idle
    BY <1>12, <2>1, IdleHand
  <2>2. CASE o # Idle
    BY <1>2, <1>4, <1>11, <1>12, <2>2 DEF InHand, At, Working
  <2> QED
    BY <2>1, <2>2
<1>14. ASSUME NEW b \in Actors, b # a PROVE InHand(b)'
  <2>1. InHand(b) /\ SameHand(b)
    BY <1>12, <1>14 DEF ChainInv
  <2>2. At(b, "committing") =>
            /\ files'[op[b].dest] = op[b].rev
            /\ \A e \in exports' : e.kind \in Placed => e.dest # op[b].dest
    BY <1>5, <2>1 DEF InHand
  <2> QED
    BY <1>6, <2>1, <2>2, HandStays
<1>15. OwnDirectories'
  BY <1>12, <1>13 DEF ChainInv, OwnDirectories, SameHand, At
<1>16. TypeOK'
  <2>1. \A q \in Revs' : revisions'[q].dep \in Revs' \cup {0}
    BY <1>1, <1>2, <1>3, <1>4 DEF TypeOK, IsSource
  <2> QED
    BY <1>1, <1>4, <1>5, <1>12, <2>1 DEF TypeOK
<1>17. ExportsInv' /\ RecordIsTrue'
  BY <1>4, <1>5, <1>8 DEF ChainInv, ExportsInv, RecordIsTrue
<1> QED
  BY <1>7, <1>10, <1>13, <1>14, <1>15, <1>16, <1>17 DEF ChainInv

\* A decision is one more entry of the log and the statuses that follow from it.
LEMMA Decides ==
    ASSUME ChainInv, NEW r \in Revs, NEW action \in {"approve", "reject"},
           Decide(r, action), Revs' = Revs,
           \A q \in Revs :
               /\ revisions'[q].kind = revisions[q].kind
               /\ revisions'[q].approval =
                      IF q = r THEN (IF action = "approve" THEN "approved" ELSE "rejected")
                      ELSE IF /\ action = "approve" /\ revisions[q].kind = revisions[r].kind
                              /\ revisions[q].approval = "approved"
                           THEN "superseded" ELSE revisions[q].approval
    PROVE  /\ decisions' \in Seq(Decided) /\ Stays /\ LogInv' /\ StatusAgreesWithLog'
<1> DEFINE n == Len(decisions) + 1
           d == [rev |-> r, action |-> action]
<1>1. TypeOK /\ Revs \subseteq Nat
  BY DEF ChainInv, TypeOK, Revs
<1>2. d \in Decided
  BY <1>1 DEF Decided
<1>3. /\ decisions' \in Seq(Decided) /\ n \in Nat
      /\ DOMAIN decisions' = DOMAIN decisions \cup {n} /\ decisions'[n] = d
      /\ \A i \in DOMAIN decisions : decisions'[i] = decisions[i] /\ i \in Nat /\ i < n
  <2>1. decisions \in Seq(Decided) /\ decisions' = Append(decisions, d)
    BY <1>1 DEF TypeOK, Decide
  <2> HIDE DEF d
  <2> QED
    BY <1>2, <2>1
<1> HIDE DEF n
<1>4. Stays
  BY <1>3 DEF Stays
<1>5. LogInv'
  BY <1>3 DEF ChainInv, LogInv
<1>6. StatusAgreesWithLog'
  <2> DEFINE Says(q, i) ==
               /\ decisions'[i].rev = q
               /\ \A j \in DOMAIN decisions' : j > i => decisions'[j].rev # q
               /\ revisions'[q].approval =
                    IF decisions'[i].action = "reject" THEN "rejected"
                    ELSE IF \E j \in DOMAIN decisions' :
                                /\ j > i /\ decisions'[j].action = "approve"
                                /\ revisions'[decisions'[j].rev].kind = revisions'[q].kind
                         THEN "superseded" ELSE "approved"
  <2>1. \A j \in DOMAIN decisions' : decisions'[j].rev \in Revs
    BY <1>3 DEF ChainInv, LogInv
  <2>2. \A j \in DOMAIN decisions' :
           revisions'[decisions'[j].rev].kind = revisions[decisions'[j].rev].kind
    BY <2>1
  <2>3. Says(r, n)
    BY <1>3
  <2>4. ASSUME NEW q \in Revs, q # r, revisions[q].approval = "pending"
        PROVE  /\ revisions'[q].approval = "pending"
               /\ \A j \in DOMAIN decisions' : decisions'[j].rev # q
    BY <1>3, <2>4 DEF ChainInv, StatusAgreesWithLog
  <2>5. ASSUME NEW q \in Revs, q # r, revisions[q].approval # "pending"
        PROVE  \E i \in DOMAIN decisions' : Says(q, i)
    <3>1. PICK i \in DOMAIN decisions :
             /\ decisions[i].rev = q
             /\ \A j \in DOMAIN decisions : j > i => decisions[j].rev # q
             /\ revisions[q].approval =
                  IF decisions[i].action = "reject" THEN "rejected"
                  ELSE IF \E j \in DOMAIN decisions :
                              /\ j > i /\ decisions[j].action = "approve"
                              /\ revisions[decisions[j].rev].kind = revisions[q].kind
                       THEN "superseded" ELSE "approved"
      BY <2>5 DEF ChainInv, StatusAgreesWithLog
    <3>2. /\ decisions'[i].rev = q
          /\ \A j \in DOMAIN decisions' : j > i => decisions'[j].rev # q
      BY <1>3, <2>5, <3>1
    <3>3. CASE decisions[i].action = "reject"
      BY <1>3, <2>5, <3>1, <3>2, <3>3
    <3>4. CASE decisions[i].action # "reject" /\ action = "approve"
               /\ revisions[q].kind = revisions[r].kind
      <4>1. \E j \in DOMAIN decisions' :
               /\ j > i /\ decisions'[j].action = "approve"
               /\ revisions'[decisions'[j].rev].kind = revisions'[q].kind
        BY <1>3, <2>2, <3>1, <3>4
      <4>2. revisions'[q].approval = "superseded"
        BY <2>5, <3>1, <3>4
      <4> QED
        BY <1>3, <3>2, <3>4, <4>1, <4>2
    <3>5. CASE decisions[i].action # "reject"
               /\ ~(action = "approve" /\ revisions[q].kind = revisions[r].kind)
      <4>1. (\E j \in DOMAIN decisions' :
                /\ j > i /\ decisions'[j].action = "approve"
                /\ revisions'[decisions'[j].rev].kind = revisions'[q].kind)
            <=> \E j \in DOMAIN decisions :
                    /\ j > i /\ decisions[j].action = "approve"
                    /\ revisions[decisions[j].rev].kind = revisions[q].kind
        BY <1>3, <2>1, <2>2, <3>1, <3>5
      <4>2. revisions'[q].approval = revisions[q].approval
        BY <2>5, <3>5
      <4> QED
        BY <1>3, <3>1, <3>2, <3>5, <4>1, <4>2
    <3> QED
      BY <3>3, <3>4, <3>5
  <2>6. ASSUME NEW q \in Revs, q # r, revisions[q].approval # "pending"
        PROVE  revisions'[q].approval # "pending"
    BY <2>6
  <2>7. ASSUME NEW q \in Revs'
        PROVE  IF revisions'[q].approval = "pending"
               THEN \A j \in DOMAIN decisions' : decisions'[j].rev # q
               ELSE \E i \in DOMAIN decisions' : Says(q, i)
    <3>1. CASE q = r
      <4>1. revisions'[q].approval # "pending"
        BY <3>1
      <4> QED
        BY <1>3, <2>3, <3>1, <4>1
    <3>2. CASE q # r /\ revisions[q].approval = "pending"
      BY <2>4, <2>7, <3>2
    <3>3. CASE q # r /\ revisions[q].approval # "pending"
      <4> HIDE DEF Says
      <4> QED
        BY <2>5, <2>6, <2>7, <3>3
    <3> QED
      BY <3>1, <3>2, <3>3
  <2> QED
    BY <2>7 DEF StatusAgreesWithLog
<1> QED
  BY <1>3, <1>4, <1>5, <1>6

LEMMA DecisionStep ==
    ASSUME ChainInv, NEW a \in Actors, ApproveCommit(a) \/ Reject(a)
    PROVE  ChainInv'
<1>1. TypeOK
  BY DEF ChainInv, TypeOK
<1>2. PICK r \in Revs, action \in {"approve", "reject"} :
         /\ Decide(r, action) /\ GotoSeen(a, Idle)
         /\ revisions' = IF action = "approve" THEN Approved(r)
                         ELSE [revisions EXCEPT ![r].approval = "rejected"]
  <2>1. ApproveCommit(a) => op[a].rev \in Revs
    BY DEF ApproveCommit, At, ChainInv, InHand, Working
  <2> QED
    BY <2>1 DEF ApproveCommit, Reject
<1>3. /\ revisions' \in Seq(RevisionRow) /\ Revs' = Revs
      /\ \A q \in Revs :
            /\ revisions'[q].kind = revisions[q].kind /\ revisions'[q].dep = revisions[q].dep
            /\ revisions'[q].approval =
                   IF q = r THEN (IF action = "approve" THEN "approved" ELSE "rejected")
                   ELSE IF /\ action = "approve" /\ revisions[q].kind = revisions[r].kind
                           /\ revisions[q].approval = "approved"
                        THEN "superseded" ELSE revisions[q].approval
  <2>1. \A q \in Revs, x \in Approval :
           /\ [revisions[q] EXCEPT !.approval = x] \in RevisionRow
           /\ [revisions[q] EXCEPT !.approval = x].kind = revisions[q].kind
           /\ [revisions[q] EXCEPT !.approval = x].dep = revisions[q].dep
           /\ [revisions[q] EXCEPT !.approval = x].approval = x
    BY <1>1, RowAt DEF RevisionRow
  <2>2. {"approved", "superseded", "rejected"} \subseteq Approval
    BY DEF Approval
  <2>3. \A q \in Revs : revisions[q].approval \in Approval
    BY <1>1, RowAt DEF RevisionRow
  <2>4. CASE action = "approve"
    <3> DEFINE new(q) == IF q = r THEN "approved"
                         ELSE IF /\ revisions[q].kind = revisions[r].kind
                                 /\ revisions[q].approval = "approved"
                              THEN "superseded" ELSE revisions[q].approval
    <3>1. \A q \in Revs : new(q) \in Approval
      BY <2>2, <2>3
    <3>2. revisions' = [q \in Revs |-> [revisions[q] EXCEPT !.approval = new(q)]]
      BY <1>2, <2>4 DEF Approved
    <3> HIDE DEF new
    <3>3. revisions' \in [Revs -> RevisionRow]
      BY <2>1, <3>1, <3>2
    <3>4. Revs = 1..Len(revisions) /\ Len(revisions) \in Nat
      BY <1>1 DEF TypeOK, Revs
    <3>5. revisions' \in Seq(RevisionRow)
      BY <3>3, <3>4, SeqDef
    <3>6. Revs' = Revs
      BY <3>2 DEF Revs
    <3>7. \A q \in Revs : /\ revisions'[q].kind = revisions[q].kind
                          /\ revisions'[q].dep = revisions[q].dep
                          /\ revisions'[q].approval = new(q)
      BY <2>1, <3>1, <3>2
    <3> QED
      BY <2>4, <3>5, <3>6, <3>7 DEF new
  <2>5. CASE action = "reject"
    <3> DEFINE row == [revisions[r] EXCEPT !.approval = "rejected"]
    <3>1. row \in RevisionRow /\ revisions' = [revisions EXCEPT ![r] = row]
      BY <1>2, <2>1, <2>2, <2>5
    <3>2. /\ row.kind = revisions[r].kind /\ row.dep = revisions[r].dep
          /\ row.approval = "rejected"
      BY <2>1, <2>2
    <3> HIDE DEF row
    <3>3. /\ revisions' \in Seq(RevisionRow) /\ Revs' = Revs
          /\ \A q \in Revs : revisions'[q] = IF q = r THEN row ELSE revisions[q]
      BY <1>1, <3>1, RowKept
    <3> QED
      BY <2>5, <3>2, <3>3
  <2> QED
    BY <2>4, <2>5
<1>4. /\ decisions' \in Seq(Decided) /\ Stays /\ LogInv' /\ StatusAgreesWithLog'
  BY <1>2, <1>3, Decides
<1>5. \A q : (WasApproved(q) => WasApproved(q)') /\ (IsSource(q) => IsSource(q)')
  BY <1>4, SourceStays
<1>6. UNCHANGED <<exports, files, crashes>>
  BY DEF ApproveCommit, Reject
<1>7. SourceWasApproved'
  BY <1>1, <1>3, <1>5 DEF ChainInv, SourceWasApproved, TypeOK
<1>8. /\ op' \in [Actors -> Operation] /\ op'[a] = Idle
      /\ \A b \in Actors : b # a => SameHand(b)
  BY <1>1, <1>2, GotoHands, IdleType
<1>9. ASSUME NEW b \in Actors, b # a PROVE InHand(b)'
  <2>1. InHand(b) /\ SameHand(b)
    BY <1>8, <1>9 DEF ChainInv
  <2>2. At(b, "committing") =>
            /\ files'[op[b].dest] = op[b].rev
            /\ \A e \in exports' : e.kind \in Placed => e.dest # op[b].dest
    BY <1>6, <2>1 DEF InHand
  <2> QED
    BY <1>4, <2>1, <2>2, HandStays
<1>10. InHand(a)' /\ ~At(a, "committing")'
  BY <1>8, IdleHand
<1>11. OwnDirectories'
  BY <1>8, <1>10 DEF ChainInv, OwnDirectories, SameHand, At
<1>12. TypeOK'
  BY <1>1, <1>3, <1>4, <1>6, <1>8 DEF TypeOK
<1>13. ExportsInv' /\ RecordIsTrue'
  BY <1>3, <1>5, <1>6 DEF ChainInv, ExportsInv, RecordIsTrue
<1> QED
  BY <1>4, <1>7, <1>9, <1>10, <1>11, <1>12, <1>13 DEF ChainInv

\* The steps of an export after its gates.
LEMMA ExportStep ==
    ASSUME ChainInv, NEW a \in Actors,
           ReplaceDirectory(a) \/ CommitExport(a) \/ CommitFails(a) \/ ExportSingle(a)
               \/ BlockExecution(a)
    PROVE  ChainInv'
<1>1. TypeOK /\ Revs \subseteq Nat /\ 0 \notin Revs /\ op[a] \in Operation
  BY DEF ChainInv, TypeOK, Revs
<1>2. UNCHANGED <<revisions, decisions, crashes>>
  BY DEF ReplaceDirectory, CommitExport, CommitFails, ExportSingle, BlockExecution
<1>3. Stays /\ LogInv' /\ StatusAgreesWithLog' /\ SourceWasApproved'
  BY <1>2, GrowsNot, TablesGrow
<1>4. \A q : (WasApproved(q) => WasApproved(q)') /\ (IsSource(q) => IsSource(q)')
  BY <1>3, SourceStays
<1>5. At(a, "replacing") \/ At(a, "committing") =>
         /\ op[a].rev \in Revs /\ op[a].dest \in Directories /\ op[a].kind \in Placed
         /\ op[a].kind = "formal" => WasApproved(op[a].rev)
  BY DEF ChainInv, InHand, At, Working
<1>6. op' \in [Actors -> Operation] /\ \A b \in Actors : b # a => op'[b] = op[b]
  <2>1. [op[a] EXCEPT !.at = "committing"] \in Operation
    BY <1>1 DEF Operation, Step
  <2> QED
    BY <1>1, <2>1, IdleType DEF ReplaceDirectory, CommitExport, CommitFails, ExportSingle, BlockExecution,
       Goto, TypeOK
<1>7. \/ op'[a] = Idle
      \/ /\ ReplaceDirectory(a) /\ files[op[a].dest] = 0
         /\ op'[a].at = "committing" /\ op'[a].rev = op[a].rev
         /\ op'[a].dest = op[a].dest /\ op'[a].kind = op[a].kind
      \/ (ExportSingle(a) \/ BlockExecution(a)) /\ op' = op /\ At(a, "idle")
  BY <1>1 DEF ReplaceDirectory, CommitExport, CommitFails, ExportSingle, BlockExecution, Goto, TypeOK,
     Operation
<1>8. \A b \in Actors : At(b, "committing") =>
         /\ op[b].dest \in Directories /\ files[op[b].dest] = op[b].rev
         /\ op[b].rev \in Revs
         /\ \A e \in exports : e.kind \in Placed => e.dest # op[b].dest
  BY DEF ChainInv, InHand, At, Working
<1>9. files' \in [Directories -> Nat]
  <2>1. CASE CommitExport(a) \/ ExportSingle(a) \/ BlockExecution(a)
    <3>1. files' = files
      BY <2>1 DEF CommitExport, ExportSingle, BlockExecution
    <3> QED
      BY <1>1, <3>1 DEF TypeOK
  <2>2. CASE ReplaceDirectory(a) \/ CommitFails(a)
    BY <1>1, <1>5, <2>2 DEF TypeOK, ReplaceDirectory, CommitFails
  <2> QED
    BY <2>1, <2>2
<1>10. PICK e \in ExportRow :
          \/ exports' = exports
          \/ /\ exports' = exports \cup {e} /\ e.rev \in Revs
             /\ e.kind \in Vouched => WasApproved(e.rev)
             /\ \/ e.kind \notin Placed
                \/ CommitExport(a) /\ e.dest = op[a].dest /\ e.rev = op[a].rev
  <2>1. CASE ExportSingle(a)
    <3>1. PICK k \in Kind : \E r \in CurrentApproved(k) : Record([Idle EXCEPT !.rev = r])
      BY <2>1 DEF ExportSingle
    <3>2. PICK r \in CurrentApproved(k) : Record([Idle EXCEPT !.rev = r])
      BY <3>1
    <3>3. r \in Revs /\ WasApproved(r)
      BY <3>2, ApprovedWasApproved DEF CurrentApproved
    <3> DEFINE e == [rev |-> r, kind |-> "single", dest |-> NoDirectory]
    <3>4. e \in ExportRow /\ e.rev = r /\ e.kind \notin Placed
      BY <1>1, <3>3 DEF ExportRow, ExportKind, Placed
    <3>5. exports' = exports \cup {e}
      BY <3>2 DEF Record, Idle
    <3> HIDE DEF e
    <3> QED
      BY <3>3, <3>4, <3>5
  <2>4. CASE BlockExecution(a)
    <3>1. PICK r \in Revs, d \in Directories :
              exports' = exports \cup {[rev |-> r, kind |-> "execution", dest |-> d]}
      BY <2>4 DEF BlockExecution
    <3> DEFINE e == [rev |-> r, kind |-> "execution", dest |-> d]
    <3>2. e \in ExportRow /\ e.rev = r /\ e.kind \notin Placed /\ e.kind \notin Vouched
      BY <1>1 DEF ExportRow, ExportKind, Placed, Vouched
    <3>3. exports' = exports \cup {e}
      BY <3>1
    <3> HIDE DEF e
    <3> QED
      BY <3>2, <3>3
  <2>2. CASE CommitExport(a)
    <3> DEFINE e == [rev |-> op[a].rev, kind |-> op[a].kind, dest |-> op[a].dest]
    <3>1. /\ e \in ExportRow /\ e.rev = op[a].rev /\ e.kind = op[a].kind
          /\ e.dest = op[a].dest
      BY <1>1 DEF ExportRow, Operation
    <3>2. exports' = exports \cup {e} /\ At(a, "committing")
      BY <2>2 DEF CommitExport, Record
    <3>3. op[a].kind \in Vouched => WasApproved(op[a].rev)
      BY <1>1, <1>5, <3>2 DEF Operation, ExportKind, Placed, Vouched
    <3> HIDE DEF e
    <3> QED
      BY <1>5, <2>2, <3>1, <3>2, <3>3
  <2>3. CASE ReplaceDirectory(a) \/ CommitFails(a)
    <3>1. exports' = exports
      BY <2>3 DEF ReplaceDirectory, CommitFails
    <3>2. [rev |-> 0, kind |-> "single", dest |-> NoDirectory] \in ExportRow
      BY DEF ExportRow, ExportKind
    <3> QED
      BY <3>1, <3>2
  <2> QED
    BY <2>1, <2>2, <2>3, <2>4
<1>11. \A d \in Directories : files'[d] # files[d] =>
          \/ files[d] = 0
          \/ CommitFails(a) /\ d = op[a].dest /\ At(a, "committing")
  BY <1>1 DEF ReplaceDirectory, CommitExport, CommitFails, ExportSingle, BlockExecution, TypeOK
<1>12. ExportsInv' /\ RecordIsTrue'
  <2>1. ASSUME NEW x \in exports'
        PROVE  /\ x.rev \in Revs' /\ (x.kind \in Vouched => WasApproved(x.rev)')
               /\ x.kind \in Placed => x.dest \in Directories /\ files'[x.dest] = x.rev
    <3>1. Revs' = Revs
      BY <1>2 DEF Revs
    <3>2. CASE x \in exports
      <4>1. /\ x.rev \in Revs /\ (x.kind \in Vouched => WasApproved(x.rev))
            /\ x.kind \in Placed => x.dest \in Directories /\ files[x.dest] = x.rev
        BY <3>2 DEF ChainInv, ExportsInv, RecordIsTrue
      <4>2. x.kind \in Placed => files'[x.dest] = files[x.dest]
        BY <1>1, <1>8, <1>11, <3>2, <4>1
      <4> QED
        BY <1>4, <3>1, <4>1, <4>2
    <3>3. CASE x \notin exports
      <4>1. /\ x = e /\ x.rev \in Revs /\ (x.kind \in Vouched => WasApproved(x.rev))
            /\ \/ x.kind \notin Placed
               \/ CommitExport(a) /\ x.dest = op[a].dest /\ x.rev = op[a].rev
        BY <1>10, <2>1, <3>3
      <4>2. CommitExport(a) => At(a, "committing") /\ files' = files
        BY DEF CommitExport
      <4> QED
        BY <1>4, <1>5, <1>8, <3>1, <4>1, <4>2
    <3> QED
      BY <3>2, <3>3
  <2> QED
    BY <2>1 DEF ExportsInv, RecordIsTrue
<1>13. ASSUME NEW b \in Actors, b # a PROVE InHand(b)'
  <2>1. InHand(b) /\ SameHand(b)
    BY <1>6, <1>13 DEF ChainInv, SameHand
  <2>2. ASSUME At(b, "committing")
        PROVE  /\ files'[op[b].dest] = op[b].rev
               /\ \A x \in exports' : x.kind \in Placed => x.dest # op[b].dest
    <3>1. At(a, "committing") => op[a].dest # op[b].dest
      BY <1>13, <2>2 DEF ChainInv, OwnDirectories
    <3>2. files'[op[b].dest] = op[b].rev
      BY <1>1, <1>8, <1>11, <2>2, <3>1
    <3>3. CommitExport(a) => At(a, "committing")
      BY DEF CommitExport
    <3> QED
      BY <1>8, <1>10, <2>2, <3>1, <3>2, <3>3
  <2> QED
    BY <1>3, <2>1, <2>2, HandStays
<1>14. InHand(a)'
  <2>1. CASE op'[a] = Idle
    BY <2>1, IdleHand
  <2>2. CASE (ExportSingle(a) \/ BlockExecution(a)) /\ op' = op /\ At(a, "idle")
    BY <2>2 DEF InHand, At, Working
  <2>3. CASE /\ ReplaceDirectory(a) /\ files[op[a].dest] = 0
             /\ op'[a].at = "committing" /\ op'[a].rev = op[a].rev
             /\ op'[a].dest = op[a].dest /\ op'[a].kind = op[a].kind
    <3>1. /\ At(a, "replacing") /\ exports' = exports
          /\ files' = [files EXCEPT ![op[a].dest] = op[a].rev]
      BY <2>3 DEF ReplaceDirectory
    <3>2. files'[op[a].dest] = op[a].rev
      BY <1>1, <1>5, <3>1 DEF TypeOK
    <3>3. \A x \in exports : x.kind \in Placed => x.dest # op[a].dest
      BY <1>1, <2>3 DEF ChainInv, RecordIsTrue, ExportsInv
    <3>4. op[a].rev \in Revs'
      BY <1>2, <1>5, <3>1 DEF Revs
    <3> QED
      BY <1>4, <1>5, <2>3, <3>1, <3>2, <3>3, <3>4 DEF InHand, At
  <2> QED
    BY <1>7, <2>1, <2>2, <2>3
<1>15. OwnDirectories'
  <2>1. ASSUME NEW b \in Actors, b # a, At(a, "committing")', At(b, "committing")
        PROVE  op'[a].dest # op[b].dest
    <3>1. files[op'[a].dest] = 0
      BY <1>7, <2>1 DEF At, Idle
    <3> QED
      BY <1>1, <1>8, <2>1, <3>1
  <2> QED
    BY <1>6, <2>1 DEF ChainInv, OwnDirectories, At
<1>16. TypeOK'
  BY <1>1, <1>2, <1>6, <1>9, <1>10 DEF TypeOK, Revs
<1> QED
  BY <1>3, <1>12, <1>13, <1>14, <1>15, <1>16 DEF ChainInv

-----------------------------------------------------------------------------
(***************************************************************************)
(* Earned approvals.  The gates see results, and what they say depends on  *)
(* who is validating: a revision has no result, or all that its skill      *)
(* requires, or somebody is recording them, as long as nobody has died     *)
(* (RowFits); who records them has the missing ones on a list (TodoFits);  *)
(* and what an approval has seen stays true until it commits, unless it    *)
(* has been raced (GateFits).                                              *)
(***************************************************************************)
Results(r) == revisions[r].passed \cup revisions[r].failed

Left(b) == {op[b].todo[i] : i \in DOMAIN op[b].todo}

TodoFits(b) ==
    LET row == revisions[op[b].rev]
    IN  /\ At(b, "linking") => op[b].todo = <<>> \/ op[b].todo = Declared("board")
        /\ op[b].at \in {"bundling", "attesting"} =>
               row.kind = "board" /\ op[b].todo = Declared("board")
        /\ At(b, "attesting") => row.bundle
        /\ At(b, "validating") =>
               /\ Left(b) \subseteq Required(row.kind)
               /\ Required(row.kind) \subseteq Results(op[b].rev) \cup Left(b)
               /\ row.kind = "board" => row.bundle

RowFits(r) ==
    /\ "integrity" \notin revisions[r].failed
    /\ crashes = 0 =>
           \/ Results(r) = {}
           \/ Required(revisions[r].kind) \subseteq Results(r)
           \/ \E b \in Actors : At(b, "validating") /\ op[b].rev = r

GateFits(a) ==
    LET row == revisions[op[a].rev]
    IN  At(a, "approving") =>
            /\ row.kind = "board" => row.bundle
            /\ ~op[a].raced =>
                   /\ Blocking(op[a].rev) = {} /\ Fresh(op[a].rev)
                   /\ crashes = 0 => Required(row.kind) \subseteq row.passed
                   /\ \A b \in Actors : At(b, "linking") => op[b].rev # op[a].rev

EarnInv ==
    /\ \A b \in Actors : TodoFits(b) /\ GateFits(b)
    /\ \A r \in Revs : RowFits(r)

\* The other processes go on as they were, or are told that an approval of theirs
\* has been raced.
OthersSame(a) == \A b \in Actors : b # a => op'[b] = op[b]

OthersSee(a) ==
    \A b \in Actors : b # a =>
        op'[b] = IF At(b, "approving") THEN [op[b] EXCEPT !.raced = TRUE] ELSE op[b]

\* A row keeps what it has, and gets results only from who is validating it.
RowKeeps(a, q) ==
    /\ revisions'[q].kind = revisions[q].kind
    /\ revisions[q].bundle => revisions'[q].bundle
    /\ revisions[q].passed \subseteq revisions'[q].passed
    /\ revisions[q].failed \subseteq revisions'[q].failed
    /\ "integrity" \notin revisions'[q].failed
    /\ Results(q)' = Results(q) \/ (At(a, "validating")' /\ op'[a].rev = q)
    /\ crashes' = 0 /\ At(a, "validating") /\ op[a].rev = q =>
           \/ At(a, "validating")' /\ op'[a].rev = q
           \/ Required(revisions[q].kind) \subseteq Results(q)'

\* What an approval has seen of a row is still so.
SightKept(a, q) ==
    /\ revisions'[q].failed = revisions[q].failed
    /\ Fresh(q) => Fresh(q)' \/ (At(a, "linking") /\ op[a].rev = q)

LEMMA EarnKept ==
    ASSUME ChainInv, EarnInv, NEW a \in Actors,
           Revs \subseteq Revs', crashes' = 0 => crashes = 0,
           \A q \in Revs : RowKeeps(a, q),
           \A q \in Revs' : q \notin Revs => RowFits(q)',
           OthersSee(a) \/ \A q \in Revs : SightKept(a, q),
           \/ UNCHANGED op /\ \A q \in Revs : SightKept(a, q)
           \/ /\ OthersSame(a) \/ OthersSee(a)
              /\ TodoFits(a)' /\ GateFits(a)'
              /\ At(a, "linking")' => op'[a].rev \notin Revs
    PROVE  EarnInv'
<1> DEFINE Other(b) == b # a \/ (UNCHANGED op /\ \A q \in Revs : SightKept(a, q))
<1>1. ASSUME NEW b \in Actors, Other(b)
      PROVE  /\ op'[b].at = op[b].at /\ op'[b].rev = op[b].rev /\ op'[b].todo = op[b].todo
             /\ ~op'[b].raced => ~op[b].raced
             /\ op[b].at = "approving" /\ ~op'[b].raced => \A q \in Revs : SightKept(a, q)
  <2>1. op[b] \in Operation
    BY DEF ChainInv, TypeOK
  <2>2. CASE OthersSee(a) /\ b # a
    <3>1. op'[b] = op[b] \/ (op'[b] = [op[b] EXCEPT !.raced = TRUE])
      BY <2>2 DEF OthersSee
    <3>2. op[b].at = "approving" => op'[b] = [op[b] EXCEPT !.raced = TRUE]
      BY <2>2 DEF OthersSee, At
    <3> QED
      BY <2>1, <3>1, <3>2 DEF Operation
  <2>3. CASE (\A q \in Revs : SightKept(a, q)) /\ op'[b] = op[b]
    BY <2>3
  <2> HIDE DEF Other
  <2>4. (OthersSee(a) /\ b # a) \/ ((\A q \in Revs : SightKept(a, q)) /\ op'[b] = op[b])
    BY <1>1 DEF Other, OthersSame
  <2> QED
    BY <2>2, <2>3, <2>4
<1> HIDE DEF Other
<1>2. ASSUME NEW b \in Actors, Other(b), op[b].at \in Working
      PROVE  op[b].rev \in Revs
  BY <1>2 DEF ChainInv, InHand
<1>3. ASSUME NEW b \in Actors, Other(b) PROVE TodoFits(b)'
  <2>1. /\ At(b, "linking")' <=> At(b, "linking")
        /\ At(b, "attesting")' <=> At(b, "attesting")
        /\ At(b, "validating")' <=> At(b, "validating")
        /\ Left(b)' = Left(b)
    BY <1>1, <1>3 DEF At, Left
  <2>2. PICK r : r = op[b].rev
    OBVIOUS
  <2>3. TodoFits(b) /\ op'[b].rev = r
    BY <1>1, <1>3, <2>2 DEF EarnInv
  <2>4. CASE op[b].at \in {"bundling", "attesting", "validating"}
    <3>1. r \in Revs
      BY <1>2, <1>3, <2>2, <2>4 DEF Working
    <3>2. /\ revisions'[r].kind = revisions[r].kind
          /\ revisions[r].bundle => revisions'[r].bundle
          /\ Results(r) \subseteq Results(r)'
      BY <3>1 DEF RowKeeps, Results
    <3>3. Results(op[b].rev)' = Results(r)' /\ Results(op[b].rev) = Results(r)
      BY <2>2, <2>3 DEF Results
    <3> QED
      BY <1>1, <1>3, <2>1, <2>2, <2>3, <2>4, <3>2, <3>3 DEF TodoFits, At
  <2>5. CASE op[b].at \notin {"bundling", "attesting", "validating"}
    BY <1>1, <1>3, <2>1, <2>3, <2>5 DEF TodoFits, At
  <2> QED
    BY <2>4, <2>5
<1>4. ASSUME NEW c \in Actors, Other(c) PROVE GateFits(c)'
  <2> SUFFICES ASSUME At(c, "approving")'
               PROVE  LET row == revisions'[op'[c].rev]
                      IN  /\ row.kind = "board" => row.bundle
                          /\ ~op'[c].raced =>
                                 /\ Blocking(op[c].rev)' = {} /\ Fresh(op[c].rev)'
                                 /\ crashes' = 0 => Required(row.kind) \subseteq row.passed
                                 /\ \A b \in Actors :
                                        At(b, "linking")' => op'[b].rev # op'[c].rev
    BY DEF GateFits
  <2>0. PICK r : r = op[c].rev
    OBVIOUS
  <2>1. op[c].at = "approving" /\ op'[c].rev = r
    BY <1>1, <1>4, <2>0 DEF At
  <2>2. r \in Revs
    BY <1>2, <1>4, <2>0, <2>1 DEF Working
  <2>3. RowKeeps(a, r)
    BY <2>2
  <2>4. GateFits(c)
    BY DEF EarnInv
  <2>5. revisions'[r].kind = "board" => revisions'[r].bundle
    BY <2>0, <2>1, <2>3, <2>4 DEF GateFits, RowKeeps, At
  <2>6. ASSUME ~op'[c].raced
        PROVE  /\ Blocking(r)' = {} /\ Fresh(r)'
               /\ crashes' = 0 => Required(revisions'[r].kind) \subseteq revisions'[r].passed
               /\ \A b \in Actors : At(b, "linking")' => op'[b].rev # r
    <3>1. ~op[c].raced /\ SightKept(a, r)
      BY <1>1, <1>4, <2>1, <2>2, <2>6
    <3>2. /\ Blocking(r) = {} /\ Fresh(r)
          /\ crashes = 0 => Required(revisions[r].kind) \subseteq revisions[r].passed
          /\ \A b \in Actors : At(b, "linking") => op[b].rev # r
      BY <2>0, <2>1, <2>4, <3>1 DEF GateFits, At
    <3>3. Blocking(r)' = {}
      BY <3>1, <3>2 DEF SightKept, Blocking
    <3>4. Fresh(r)'
      BY <3>1, <3>2 DEF SightKept
    <3>5. crashes' = 0 => Required(revisions'[r].kind) \subseteq revisions'[r].passed
      BY <2>3, <3>2 DEF RowKeeps
    <3>6. ASSUME NEW b \in Actors, At(b, "linking")' PROVE op'[b].rev # r
      BY <1>1, <2>2, <3>2, <3>6 DEF At, Other
    <3> QED
      BY <3>3, <3>4, <3>5, <3>6
  <2>7. (Blocking(op[c].rev)' = Blocking(r)') /\ (Fresh(op[c].rev)' <=> Fresh(r)')
    BY <2>1 DEF Blocking, Fresh
  <2> QED
    BY <2>1, <2>5, <2>6, <2>7
<1>5. ASSUME NEW q \in Revs, q \in Revs' PROVE RowFits(q)'
  <2>1. RowKeeps(a, q) /\ RowFits(q)
    BY <1>5 DEF EarnInv
  <2>2. "integrity" \notin revisions'[q].failed
    BY <2>1 DEF RowKeeps
  <2>3. ASSUME crashes' = 0
        PROVE  \/ Results(q)' = {}
               \/ Required(revisions'[q].kind) \subseteq Results(q)'
               \/ \E b \in Actors : At(b, "validating")' /\ op'[b].rev = q
    <3>1. CASE At(a, "validating")' /\ op'[a].rev = q
      BY <3>1
    <3>2. CASE ~(At(a, "validating")' /\ op'[a].rev = q)
      <4>1. Results(q)' = Results(q) /\ revisions'[q].kind = revisions[q].kind
        BY <2>1, <3>2 DEF RowKeeps
      <4>2. CASE Results(q) = {} \/ Required(revisions[q].kind) \subseteq Results(q)
        BY <4>1, <4>2
      <4>3. CASE \E b \in Actors : At(b, "validating") /\ op[b].rev = q
        <5>1. PICK b \in Actors : At(b, "validating") /\ op[b].rev = q
          BY <4>3
        <5>2. CASE b = a
          BY <2>1, <2>3, <3>2, <4>1, <5>1, <5>2 DEF RowKeeps
        <5>3. CASE b # a
          BY <1>1, <5>1, <5>3 DEF At, Other
        <5> QED
          BY <5>2, <5>3
      <4> QED
        BY <2>1, <2>3, <4>2, <4>3 DEF RowFits
    <3> QED
      BY <3>1, <3>2
  <2> QED
    BY <2>2, <2>3 DEF RowFits
<1>6. ASSUME NEW b \in Actors PROVE TodoFits(b)' /\ GateFits(b)'
  <2>1. CASE Other(b)
    BY <1>3, <1>4, <2>1
  <2>2. CASE ~Other(b)
    BY <2>2 DEF Other
  <2> QED
    BY <2>1, <2>2
<1> QED
  BY <1>5, <1>6 DEF EarnInv

\* What Grows keeps keeps a revision fresh.
LEMMA FreshStays ==
    ASSUME ChainInv, Grows, NEW r \in Revs, Fresh(r)
    PROVE  Fresh(r)'
<1>1. \A s : s \in CurrentApproved("script") => s \in CurrentApproved("script")'
  BY DEF CurrentApproved, Grows
<1>2. revisions'[r].kind = revisions[r].kind /\ revisions'[r].dep = revisions[r].dep
  BY DEF Grows
<1> QED
  BY <1>1, <1>2 DEF Fresh

\* A process that neither validates nor approves nor is about to.
LEMMA IdleFits ==
    ASSUME NEW a \in Actors,
           op'[a].at \notin {"linking", "bundling", "attesting", "validating", "approving"}
    PROVE  TodoFits(a)' /\ GateFits(a)' /\ ~At(a, "linking")' /\ ~At(a, "validating")'
  BY DEF TodoFits, GateFits, At

LEMMA GotoOthers ==
    ASSUME TypeOK, NEW a \in Actors, NEW o
    PROVE  /\ Goto(a, o) => OthersSame(a) /\ op'[a] = o
           /\ GotoSeen(a, o) => OthersSee(a) /\ op'[a] = o
  BY DEF Goto, GotoSeen, OthersSame, OthersSee, TypeOK

\* The lists of validators.
LEMMA DeclaredFacts ==
    /\ Required("script") = {"structure"}
    /\ Required("board") = {"structure", "coverage", "freshness", "integrity"}
    /\ \A k \in Kind : Declared(k) # <<>>
<1>1. DOMAIN Declared("script") = {1} /\ Declared("script")[1] = "structure"
  BY DEF Declared
<1>2. /\ DOMAIN Declared("board") = {1, 2, 3, 4} /\ Declared("board")[1] = "structure"
      /\ Declared("board")[2] = "coverage" /\ Declared("board")[3] = "freshness"
      /\ Declared("board")[4] = "integrity"
  BY DEF Declared
<1> QED
  BY <1>1, <1>2 DEF Required, Kind, Declared

\* A new revision has no result, or all of them.
LEMMA EarnInsert ==
    ASSUME ChainInv, EarnInv, NEW a \in Actors, NEW row \in RevisionRow, Insert(row),
           row.approval = "pending", row.dep = 0, row.failed = {},
           row.passed = {} \/ Required(row.kind) \subseteq row.passed,
           UNCHANGED crashes,
           \/ UNCHANGED op
           \/ /\ ~At(a, "validating") /\ OthersSame(a) /\ TodoFits(a)' /\ GateFits(a)'
              /\ At(a, "linking")' => op'[a].rev = Inserted
    PROVE  EarnInv'
<1>1. TypeOK
  BY DEF ChainInv
<1>2. /\ Revs' = Revs \cup {Inserted} /\ Inserted \notin Revs /\ revisions'[Inserted] = row
      /\ \A q \in Revs : revisions'[q] = revisions[q]
  BY <1>1, RowAdded
<1>3. Grows
  BY GrowsByRow
<1>4. ASSUME NEW q \in Revs PROVE RowKeeps(a, q) /\ SightKept(a, q)
  <2>1. revisions'[q] = revisions[q] /\ Results(q)' = Results(q)
    BY <1>2 DEF Results
  <2>2. RowFits(q)
    BY DEF EarnInv
  <2>3. Fresh(q) => Fresh(q)'
    BY <1>3, FreshStays
  <2>4. At(a, "validating") /\ op[a].rev = q => At(a, "validating")' /\ op'[a].rev = q
    BY DEF At
  <2> QED
    BY <2>1, <2>2, <2>3, <2>4 DEF RowKeeps, SightKept, RowFits
<1>5. ASSUME NEW q \in Revs', q \notin Revs PROVE RowFits(q)'
  <2>1. q = Inserted /\ revisions'[q] = row
    BY <1>2, <1>5
  <2> QED
    BY <2>1 DEF RowFits, Results
<1>6. op'[a].rev = Inserted => op'[a].rev \notin Revs
  BY <1>2
<1> QED
  BY <1>2, <1>4, <1>5, <1>6, EarnKept

\* What a process has in hand once it has made a revision.
LEMMA MadeFits ==
    ASSUME TypeOK, NEW a \in Actors, NEW k \in Kind, NEW row \in RevisionRow,
           row.kind = k, Insert(row), NEW o \in Operation, op'[a] = o, o.rev = Inserted,
           \/ o.at = "linking" /\ (o.todo = <<>> \/ o.todo = Declared("board"))
           \/ o.at = "validating" /\ k = "script" /\ o.todo = Declared("script")
    PROVE  TodoFits(a)' /\ GateFits(a)'
<1>1. revisions'[Inserted] = row
  BY RowAdded
<1>2. CASE o.at = "linking"
  BY <1>2 DEF TodoFits, GateFits, At
<1>3. CASE o.at = "validating"
  <2>1. Left(a)' = Required("script")
    BY <1>3 DEF Left, Required
  <2>2. revisions'[op'[a].rev].kind = "script"
    BY <1>1, <1>3
  <2> QED
    BY <1>3, <2>1, <2>2 DEF TodoFits, GateFits, At
<1> QED
  BY <1>2, <1>3

LEMMA EarnMade ==
    ASSUME ChainInv, EarnInv, NEW a \in Actors,
           ScriptAnswered(a) \/ BoardAnswered(a) \/ MigrateBoard(a) \/ EditScript(a)
           \/ EditBoard(a)
    PROVE  EarnInv'
<1>1. TypeOK /\ op[a] \in Operation
  BY DEF ChainInv, TypeOK
<1>2. /\ UNCHANGED crashes /\ op[a].at \in {"idle", "drafting", "calling"}
      /\ op[a].todo \in Seq(Validator)
  BY <1>1 DEF ScriptAnswered, BoardAnswered, MigrateBoard, EditScript, EditBoard, At, Operation
<1>3. /\ \A k \in Kind, s \in RunStatus, f \in BOOLEAN :
            /\ NewRow(k, f, s) \in RevisionRow /\ NewRow(k, f, s).kind = k
            /\ NewRow(k, f, s).approval = "pending" /\ NewRow(k, f, s).dep = 0
            /\ NewRow(k, f, s).failed = {} /\ NewRow(k, f, s).passed = {}
      /\ Inserted \in Nat /\ {"script", "board"} \subseteq Kind
      /\ {"VALIDATING", "SUCCEEDED"} \subseteq RunStatus
      /\ {"linking", "validating"} \subseteq Step
      /\ \A k \in Kind : Declared(k) \in Seq(Validator)
  <2>1. \A k \in Kind, s \in RunStatus, f \in BOOLEAN : NewRow(k, f, s) \in RevisionRow
    BY RowTypes
  <2>2. \A k \in Kind : Declared(k) \in Seq(Validator)
    BY ListTypes
  <2>3. Inserted \in Nat
    BY <1>1 DEF TypeOK, Inserted
  <2>4. \A k \in Kind, s \in RunStatus, f \in BOOLEAN :
            /\ NewRow(k, f, s).kind = k
            /\ NewRow(k, f, s).approval = "pending" /\ NewRow(k, f, s).dep = 0
            /\ NewRow(k, f, s).failed = {} /\ NewRow(k, f, s).passed = {}
    BY DEF NewRow
  <2>5. /\ {"script", "board"} \subseteq Kind
        /\ {"VALIDATING", "SUCCEEDED"} \subseteq RunStatus
        /\ {"linking", "validating"} \subseteq Step
    BY DEF Kind, RunStatus, Step
  <2> QED
    BY <2>1, <2>2, <2>3, <2>4, <2>5
<1> DEFINE Made(o, k, row) ==
             /\ row \in RevisionRow /\ row.kind = k /\ Insert(row)
             /\ row.approval = "pending" /\ row.dep = 0
             /\ row.failed = {} /\ row.passed = {}
             /\ o \in Operation /\ Goto(a, o) /\ o.rev = Inserted
             /\ \/ o.at = "linking" /\ (o.todo = <<>> \/ o.todo = Declared("board"))
                \/ o.at = "validating" /\ k = "script" /\ o.todo = Declared("script")
<1>4. ASSUME NEW o, NEW k \in Kind, NEW row, Made(o, k, row) PROVE EarnInv'
  <2>1. op'[a] = o /\ OthersSame(a)
    BY <1>1, <1>4, GotoOthers
  <2>2. TodoFits(a)' /\ GateFits(a)'
    BY <1>1, <1>4, <2>1, MadeFits
  <2>3. ~At(a, "validating")
    BY <1>2 DEF At
  <2> QED
    BY <1>2, <1>4, <2>1, <2>2, <2>3, EarnInsert
<1>5. ASSUME NEW o, NEW k \in Kind, NEW s \in RunStatus,
             \E f \in BOOLEAN : Insert(NewRow(k, f, s)),
             o \in Operation, Goto(a, o), o.rev = Inserted,
             \/ o.at = "linking" /\ (o.todo = <<>> \/ o.todo = Declared("board"))
             \/ o.at = "validating" /\ k = "script" /\ o.todo = Declared("script")
      PROVE  EarnInv'
  <2>1. PICK f \in BOOLEAN : Insert(NewRow(k, f, s))
    BY <1>5
  <2> DEFINE row == NewRow(k, f, s)
  <2>2. Made(o, k, row)
    BY <1>3, <1>5, <2>1
  <2> HIDE DEF row, Made
  <2> QED
    BY <1>4, <2>2
<1> HIDE DEF Made
<1>6. CASE ScriptAnswered(a)
  <2> DEFINE o == [Idle EXCEPT !.at = "validating", !.rev = Inserted,
                               !.todo = Declared("script"), !.settle = TRUE]
  <2>1. /\ o \in Operation /\ o.rev = Inserted /\ o.at = "validating"
        /\ o.todo = Declared("script")
    BY <1>3, IdleType DEF Operation, Idle
  <2>2. Goto(a, o) /\ \E f \in BOOLEAN : Insert(NewRow("script", f, "VALIDATING"))
    BY <1>6 DEF ScriptAnswered
  <2> HIDE DEF o
  <2> QED
    BY <1>3, <1>5, <2>1, <2>2
<1>9. CASE EditScript(a)
  <2> DEFINE o == [Idle EXCEPT !.at = "validating", !.rev = Inserted,
                               !.todo = Declared("script")]
  <2>1. /\ o \in Operation /\ o.rev = Inserted /\ o.at = "validating"
        /\ o.todo = Declared("script")
    BY <1>3, IdleType DEF Operation, Idle
  <2>2. Goto(a, o) /\ \E f \in BOOLEAN : Insert(NewRow("script", f, "SUCCEEDED"))
    BY <1>9 DEF EditScript
  <2> HIDE DEF o
  <2> QED
    BY <1>3, <1>5, <2>1, <2>2
<1>7. CASE BoardAnswered(a)
  <2> DEFINE o == [op[a] EXCEPT !.at = "linking", !.rev = Inserted,
                                !.todo = Declared("board"), !.settle = TRUE]
  <2>1. /\ o \in Operation /\ o.rev = Inserted /\ o.at = "linking"
        /\ o.todo = Declared("board")
    BY <1>1, <1>3 DEF Operation
  <2>2. Goto(a, o) /\ \E f \in BOOLEAN : Insert(NewRow("board", f, "SUCCEEDED"))
    BY <1>7 DEF BoardAnswered
  <2> HIDE DEF o
  <2> QED
    BY <1>3, <1>5, <2>1, <2>2
<1>8. CASE MigrateBoard(a)
  <2>1. PICK s \in Revs :
           /\ Insert(NewRow("board", FALSE, "SUCCEEDED"))
           /\ Goto(a, [Idle EXCEPT !.at = "linking", !.rev = Inserted, !.dep = s])
    BY <1>8 DEF MigrateBoard
  <2>2. s \in Nat
    BY <1>1 DEF TypeOK, Revs
  <2> DEFINE o == [Idle EXCEPT !.at = "linking", !.rev = Inserted, !.dep = s]
  <2>3. o \in Operation /\ o.rev = Inserted /\ o.at = "linking" /\ o.todo = <<>>
    BY <1>3, <2>2, IdleType DEF Operation, Idle
  <2>4. Goto(a, o) /\ \E f \in BOOLEAN : Insert(NewRow("board", f, "SUCCEEDED"))
    BY <2>1
  <2> HIDE DEF o
  <2> QED
    BY <1>3, <1>5, <2>3, <2>4
<1>10. CASE EditBoard(a)
  <2>1. PICK r \in Revs :
           Goto(a, [Idle EXCEPT !.at = "linking", !.rev = Inserted,
                                !.dep = revisions[r].dep, !.todo = Declared("board")])
    BY <1>10 DEF EditBoard
  <2>2. revisions[r].dep \in Nat
    BY <1>1, RowAt DEF RevisionRow
  <2> DEFINE o == [Idle EXCEPT !.at = "linking", !.rev = Inserted,
                               !.dep = revisions[r].dep, !.todo = Declared("board")]
  <2>3. /\ o \in Operation /\ o.rev = Inserted /\ o.at = "linking"
        /\ o.todo = Declared("board")
    BY <1>3, <2>2, IdleType DEF Operation, Idle
  <2>4. Goto(a, o) /\ \E f \in BOOLEAN : Insert(NewRow("board", f, "SUCCEEDED"))
    BY <1>10, <2>1 DEF EditBoard
  <2> HIDE DEF o
  <2> QED
    BY <1>3, <1>5, <2>3, <2>4
<1> QED
  BY <1>6, <1>7, <1>8, <1>9, <1>10

LEMMA EarnPublished == ASSUME ChainInv, EarnInv, PublishScript PROVE EarnInv'
<1> DEFINE first == NewRow("script", FALSE, "SUCCEEDED")
           row == [first EXCEPT !.passed = Required("script")]
<1>1. PICK a : a \in Actors
  BY DEF PublishScript, Actors
<1>2. /\ first \in RevisionRow /\ first.kind = "script" /\ first.approval = "pending"
      /\ first.dep = 0 /\ first.failed = {}
  BY RowTypes DEF Kind, RunStatus, NewRow
<1>3. Required("script") \subseteq Validator
  BY ListTypes DEF Kind
<1>4. Insert(row) /\ UNCHANGED crashes /\ UNCHANGED op
  BY DEF PublishScript
<1> HIDE DEF first
<1>5. /\ row \in RevisionRow /\ row.kind = "script" /\ row.approval = "pending"
      /\ row.dep = 0 /\ row.failed = {} /\ row.passed = Required("script")
  BY <1>2, <1>3 DEF RevisionRow
<1> HIDE DEF row
<1> QED
  BY <1>1, <1>4, <1>5, EarnInsert

\* A row that changes in its status and its bundle, or gets a result.
LEMMA RowWritten ==
    ASSUME ChainInv, NEW r \in Revs, NEW row \in RevisionRow,
           revisions' = [revisions EXCEPT ![r] = row] \/ (revisions' = revisions /\ row = revisions[r]),
           row.kind = revisions[r].kind, row.approval = revisions[r].approval,
           row.dep = revisions[r].dep
    PROVE  /\ Revs' = Revs /\ Grows /\ revisions'[r] = row
           /\ \A q \in Revs : q # r => revisions'[q] = revisions[q]
<1>1. TypeOK
  BY DEF ChainInv
<1>2. CASE revisions' = [revisions EXCEPT ![r] = row]
  <2>1. Grows
    BY <1>2, GrowsInPlace
  <2>2. /\ Revs' = Revs
        /\ \A q \in Revs : revisions'[q] = IF q = r THEN row ELSE revisions[q]
    BY <1>1, <1>2, RowKept
  <2> QED
    BY <2>1, <2>2
<1>3. CASE revisions' = revisions /\ row = revisions[r]
  BY <1>3, GrowsNot DEF Revs
<1> QED
  BY <1>2, <1>3

\* A step that gives no result but that of the bundle's integrity, and leaves what
\* the other processes have in hand.
LEMMA EarnWritten ==
    ASSUME ChainInv, EarnInv, NEW a \in Actors, NEW r \in Revs, NEW row \in RevisionRow,
           revisions' = [revisions EXCEPT ![r] = row] \/ (revisions' = revisions /\ row = revisions[r]),
           row.kind = revisions[r].kind, row.approval = revisions[r].approval,
           row.dep = revisions[r].dep, row.failed = revisions[r].failed,
           revisions[r].bundle => row.bundle,
           \/ row.passed = revisions[r].passed
           \/ /\ row.passed = revisions[r].passed \cup {"integrity"}
              /\ At(a, "validating")' /\ op'[a].rev = r,
           crashes' = 0 => crashes = 0,
           \/ UNCHANGED op
           \/ /\ OthersSame(a) /\ TodoFits(a)' /\ GateFits(a)' /\ ~At(a, "linking")'
              /\ crashes' = 0 /\ At(a, "validating") =>
                     Required(revisions[op[a].rev].kind) \subseteq Results(op[a].rev)
    PROVE  EarnInv'
<1>1. /\ Revs' = Revs /\ Grows /\ revisions'[r] = row
      /\ \A q \in Revs : q # r => revisions'[q] = revisions[q]
  BY RowWritten
<1>2. ASSUME NEW q \in Revs PROVE RowKeeps(a, q) /\ SightKept(a, q)
  <2>1. RowFits(q) /\ (Fresh(q) => Fresh(q)')
    BY <1>1, FreshStays DEF EarnInv
  <2>2. /\ revisions'[q].kind = revisions[q].kind
        /\ revisions[q].bundle => revisions'[q].bundle
        /\ revisions[q].passed \subseteq revisions'[q].passed
        /\ revisions'[q].failed = revisions[q].failed
        /\ Results(q) \subseteq Results(q)'
        /\ Results(q)' = Results(q) \/ (At(a, "validating")' /\ op'[a].rev = q)
    BY <1>1 DEF Results
  <2>3. crashes' = 0 /\ At(a, "validating") /\ op[a].rev = q =>
            \/ At(a, "validating")' /\ op'[a].rev = q
            \/ Required(revisions[q].kind) \subseteq Results(q)'
    BY <2>2 DEF At
  <2> QED
    BY <2>1, <2>2, <2>3 DEF RowKeeps, SightKept, RowFits
<1>3. At(a, "linking")' => ~At(a, "linking")' \/ UNCHANGED op
  OBVIOUS
<1> QED
  BY <1>1, <1>2, <1>3, EarnKept

LEMMA EarnInPlace ==
    ASSUME ChainInv, EarnInv, NEW a \in Actors,
           Bundle(a) \/ BundleFails(a) \/ Attest(a) \/ Settle(a)
    PROVE  EarnInv'
<1> DEFINE r == op[a].rev
<1>1. /\ TypeOK /\ op[a] \in Operation /\ TodoFits(a) /\ UNCHANGED crashes
      /\ op[a].at \in {"bundling", "attesting", "validating"} /\ r \in Revs
  BY DEF ChainInv, TypeOK, EarnInv, Bundle, BundleFails, Attest, Settle, At, InHand, Working
<1>2. revisions[r] \in RevisionRow
  BY <1>1, RowAt
<1> DEFINE Fits(row) ==
             /\ row \in RevisionRow
             /\ row.kind = revisions[r].kind /\ row.approval = revisions[r].approval
             /\ row.dep = revisions[r].dep /\ row.failed = revisions[r].failed
             /\ revisions[r].bundle => row.bundle
<1>3. /\ Fits([revisions[r] EXCEPT !.bundle = TRUE])
      /\ [revisions[r] EXCEPT !.bundle = TRUE].bundle
      /\ [revisions[r] EXCEPT !.bundle = TRUE].passed = revisions[r].passed
      /\ \A x \in RunStatus : /\ Fits([revisions[r] EXCEPT !.run = x])
                              /\ [revisions[r] EXCEPT !.run = x].passed = revisions[r].passed
      /\ Fits([revisions[r] EXCEPT !.passed = @ \cup {"integrity"}])
      /\ [revisions[r] EXCEPT !.passed = @ \cup {"integrity"}].passed
            = revisions[r].passed \cup {"integrity"}
      /\ Fits(revisions[r])
  <2> HIDE DEF r
  <2>1. "integrity" \in Validator
    BY DEF Validator
  <2> QED
    BY <1>2, <2>1 DEF RevisionRow
<1>4. {"VALIDATION_FAILED", "SUCCEEDED"} \subseteq RunStatus
  BY DEF RunStatus
<1> DEFINE Wrote(row) ==
             /\ Fits(row)
             /\ \/ revisions' = [revisions EXCEPT ![r] = row]
                \/ revisions' = revisions /\ row = revisions[r]
<1>5. ASSUME NEW row, Wrote(row), row.passed = revisions[r].passed, Goto(a, Idle),
             At(a, "validating") => op[a].todo = <<>>
      PROVE  EarnInv'
  <2>1. OthersSame(a) /\ op'[a] = Idle
    BY <1>1, <1>5, GotoOthers
  <2>2. TodoFits(a)' /\ GateFits(a)' /\ ~At(a, "linking")'
    <3>1. op'[a].at = "idle"
      BY <2>1 DEF Idle
    <3> QED
      BY <3>1, IdleFits
  <2>3. At(a, "validating") => Required(revisions[r].kind) \subseteq Results(r)
    <3>1. At(a, "validating") => Left(a) = {}
      BY <1>5 DEF Left
    <3> QED
      BY <1>1, <3>1 DEF TodoFits
  <2> HIDE DEF r
  <2> QED
    BY <1>1, <1>5, <2>1, <2>2, <2>3, EarnWritten DEF r
<1>6. ASSUME NEW row, Wrote(row), row.bundle, row.kind = "board",
             NEW s \in {"attesting", "validating"}, Goto(a, [op[a] EXCEPT !.at = s]),
             op[a].at \in {"bundling", "attesting"}, op[a].todo = Declared("board"),
             \/ row.passed = revisions[r].passed
             \/ s = "validating" /\ row.passed = revisions[r].passed \cup {"integrity"}
      PROVE  EarnInv'
  <2> DEFINE o == [op[a] EXCEPT !.at = s]
  <2>1. o.at = s /\ o.rev = r /\ o.todo = Declared("board")
    BY <1>1, <1>6 DEF Operation
  <2>2. OthersSame(a) /\ op'[a] = o
    BY <1>1, <1>6, GotoOthers
  <2> HIDE DEF o
  <2>3. revisions'[r] = row
    BY <1>1, <1>6, RowKept
  <2>4. Left(a)' = Required("board")
    BY <2>1, <2>2 DEF Left, Required
  <2>5. TodoFits(a)' /\ GateFits(a)' /\ ~At(a, "linking")'
    <3>1. revisions'[op'[a].rev].kind = "board" /\ revisions'[op'[a].rev].bundle
      BY <1>6, <2>1, <2>2, <2>3
    <3> QED
      BY <1>6, <2>1, <2>2, <2>4, <3>1 DEF TodoFits, GateFits, At
  <2>6. ~At(a, "validating") /\ (s = "validating" => At(a, "validating")' /\ op'[a].rev = r)
    BY <1>6, <2>1, <2>2 DEF At
  <2> HIDE DEF r
  <2> QED
    BY <1>1, <1>6, <2>2, <2>5, <2>6, EarnWritten
<1>7. CASE Bundle(a)
  <2> DEFINE row == [revisions[r] EXCEPT !.bundle = TRUE]
  <2>1. Wrote(row) /\ row.bundle /\ row.passed = revisions[r].passed
    BY <1>3, <1>7 DEF Bundle
  <2>2. /\ op[a].at = "bundling" /\ revisions[r].kind = "board"
        /\ op[a].todo = Declared("board")
    BY <1>1, <1>7 DEF Bundle, At, TodoFits
  <2>3. \E s \in {"attesting", "validating"} : Goto(a, [op[a] EXCEPT !.at = s])
    BY <1>7 DEF Bundle
  <2>4. row.kind = "board"
    BY <2>1, <2>2
  <2> HIDE DEF row, Fits, r
  <2> QED
    BY <1>6, <2>1, <2>2, <2>3, <2>4
<1>8. CASE Attest(a)
  <2> DEFINE row == [revisions[r] EXCEPT !.passed = @ \cup {"integrity"}]
  <2>1. Wrote(row) /\ row.passed = revisions[r].passed \cup {"integrity"}
    BY <1>3, <1>8 DEF Attest
  <2>2. /\ op[a].at = "attesting" /\ revisions[r].kind = "board" /\ revisions[r].bundle
        /\ op[a].todo = Declared("board")
    BY <1>1, <1>8 DEF Attest, At, TodoFits
  <2>3. Goto(a, [op[a] EXCEPT !.at = "validating"])
    BY <1>8 DEF Attest
  <2>4. row.kind = "board" /\ row.bundle
    BY <2>1, <2>2
  <2> HIDE DEF row, Fits, r
  <2> QED
    BY <1>6, <2>1, <2>2, <2>3, <2>4
<1>9. CASE BundleFails(a)
  <2>1. \E row : Wrote(row) /\ row.passed = revisions[r].passed
    BY <1>3, <1>4, <1>9 DEF BundleFails
  <2>2. Goto(a, Idle) /\ ~At(a, "validating")
    BY <1>9 DEF BundleFails, At
  <2> HIDE DEF Fits, r
  <2> QED
    BY <1>5, <2>1, <2>2
<1>10. CASE Settle(a)
  <2>1. \E row : Wrote(row) /\ row.passed = revisions[r].passed
    BY <1>3, <1>4, <1>10 DEF Settle
  <2>2. Goto(a, Idle) /\ op[a].todo = <<>>
    BY <1>10 DEF Settle
  <2> HIDE DEF Fits, r
  <2> QED
    BY <1>5, <2>1, <2>2
<1> QED
  BY <1>7, <1>8, <1>9, <1>10

LEMMA EarnMaterialized == ASSUME ChainInv, EarnInv, NEW a \in Actors, Materialize(a) PROVE EarnInv'
<1>1. TypeOK
  BY DEF ChainInv
<1>2. PICK r \in Revs : revisions' = [revisions EXCEPT ![r].bundle = TRUE]
  BY DEF Materialize
<1> DEFINE row == [revisions[r] EXCEPT !.bundle = TRUE]
<1>3. /\ row \in RevisionRow /\ row.kind = revisions[r].kind
      /\ row.approval = revisions[r].approval /\ row.dep = revisions[r].dep
      /\ row.failed = revisions[r].failed /\ row.passed = revisions[r].passed /\ row.bundle
  BY <1>1, RowAt DEF RevisionRow
<1>4. revisions' = [revisions EXCEPT ![r] = row] /\ UNCHANGED op /\ UNCHANGED crashes
  BY <1>2 DEF Materialize
<1> HIDE DEF row
<1> QED
  BY <1>3, <1>4, EarnWritten

LEMMA HeadAndTail ==
    ASSUME NEW S, NEW s \in Seq(S), s # <<>>
    PROVE  /\ Head(s) \in S /\ Tail(s) \in Seq(S)
           /\ {s[i] : i \in DOMAIN s}
                 = {Head(s)} \cup {Tail(s)[i] : i \in DOMAIN Tail(s)}
<1>1. /\ Len(s) \in Nat \ {0} /\ DOMAIN s = 1..Len(s) /\ Head(s) = s[1] /\ Head(s) \in S
      /\ Tail(s) \in Seq(S) /\ DOMAIN Tail(s) = 1..(Len(s) - 1)
      /\ \A i \in 1..(Len(s) - 1) : Tail(s)[i] = s[i + 1]
  OBVIOUS
<1>2. ASSUME NEW i \in DOMAIN s
      PROVE  s[i] = Head(s) \/ \E j \in DOMAIN Tail(s) : s[i] = Tail(s)[j]
  <2>1. CASE i = 1
    BY <1>1, <2>1
  <2>2. CASE i # 1
    <3>1. i - 1 \in DOMAIN Tail(s) /\ Tail(s)[i - 1] = s[i]
      BY <1>1, <2>2
    <3> QED
      BY <3>1
  <2> QED
    BY <2>1, <2>2
<1>3. \A j \in DOMAIN Tail(s) : \E i \in DOMAIN s : Tail(s)[j] = s[i]
  BY <1>1
<1>4. \E i \in DOMAIN s : Head(s) = s[i]
  BY <1>1
<1> QED
  BY <1>1, <1>2, <1>3, <1>4

LEMMA EarnValidated ==
    ASSUME ChainInv, EarnInv, NEW a \in Actors, RunValidator(a) PROVE EarnInv'
<1> DEFINE r == op[a].rev
           v == Head(op[a].todo)
           rest == Tail(op[a].todo)
<1>1. /\ TypeOK /\ op[a] \in Operation /\ TodoFits(a) /\ UNCHANGED crashes
      /\ op[a].at = "validating" /\ r \in Revs
  BY DEF ChainInv, TypeOK, EarnInv, RunValidator, At, InHand, Working
<1>2. revisions[r] \in RevisionRow
  BY <1>1, RowAt
<1>3. v \in Validator /\ rest \in Seq(Validator) /\ Left(a) = {v} \cup {rest[i] : i \in DOMAIN rest}
  <2>1. op[a].todo \in Seq(Validator) /\ op[a].todo # <<>>
    BY <1>1 DEF Operation, RunValidator
  <2> QED
    BY <2>1, HeadAndTail DEF Left
<1>4. /\ v \in Required(revisions[r].kind)
      /\ Required(revisions[r].kind) \subseteq Results(r) \cup Left(a)
      /\ Left(a) \subseteq Required(revisions[r].kind)
      /\ revisions[r].kind = "board" => revisions[r].bundle
  BY <1>1, <1>3 DEF TodoFits, At
<1>5. v = "integrity" => Passes(r, v)
  <2>1. v = "integrity" => revisions[r].kind = "board"
    BY <1>2, <1>4, DeclaredFacts DEF RevisionRow, Kind
  <2> HIDE DEF r, v
  <2> QED
    BY <1>4, <2>1 DEF Passes, Intact
<1>6. PICK row \in RevisionRow :
         /\ revisions' = [revisions EXCEPT ![r] = row]
         /\ row.kind = revisions[r].kind /\ row.approval = revisions[r].approval
         /\ row.dep = revisions[r].dep /\ row.bundle = revisions[r].bundle
         /\ \/ row.passed = revisions[r].passed \cup {v} /\ row.failed = revisions[r].failed
            \/ /\ row.failed = revisions[r].failed \cup {v} /\ row.passed = revisions[r].passed
               /\ v # "integrity"
  <2>1. CASE Passes(r, v)
    <3>1. revisions' = [revisions EXCEPT ![r].passed = @ \cup {v}]
      BY <2>1 DEF RunValidator
    <3> DEFINE row == [revisions[r] EXCEPT !.passed = @ \cup {v}]
    <3>2. revisions' = [revisions EXCEPT ![r] = row]
      BY <3>1
    <3> HIDE DEF r, v
    <3>3. /\ row \in RevisionRow
          /\ row.kind = revisions[r].kind /\ row.approval = revisions[r].approval
          /\ row.dep = revisions[r].dep /\ row.bundle = revisions[r].bundle
          /\ row.passed = revisions[r].passed \cup {v} /\ row.failed = revisions[r].failed
      BY <1>2, <1>3 DEF RevisionRow
    <3> HIDE DEF row
    <3> QED
      BY <3>2, <3>3
  <2>2. CASE ~Passes(r, v)
    <3>1. revisions' = [revisions EXCEPT ![r].failed = @ \cup {v}]
      BY <2>2 DEF RunValidator
    <3> DEFINE row == [revisions[r] EXCEPT !.failed = @ \cup {v}]
    <3>2. revisions' = [revisions EXCEPT ![r] = row]
      BY <3>1
    <3>4. v # "integrity"
      BY <1>5, <2>2
    <3> HIDE DEF r, v
    <3>3. /\ row \in RevisionRow
          /\ row.kind = revisions[r].kind /\ row.approval = revisions[r].approval
          /\ row.dep = revisions[r].dep /\ row.bundle = revisions[r].bundle
          /\ row.failed = revisions[r].failed \cup {v} /\ row.passed = revisions[r].passed
      BY <1>2, <1>3 DEF RevisionRow
    <3> HIDE DEF row
    <3> QED
      BY <3>2, <3>3, <3>4
  <2> QED
    BY <2>1, <2>2
<1>7. /\ OthersSee(a) /\ op'[a].at = "validating" /\ op'[a].rev = r /\ op'[a].todo = rest
  <2> DEFINE o == [op[a] EXCEPT !.todo = rest]
             p == [op[a] EXCEPT !.todo = rest, !.blocked = TRUE]
  <2>1. /\ o.at = "validating" /\ o.rev = r /\ o.todo = rest
        /\ p.at = "validating" /\ p.rev = r /\ p.todo = rest
    BY <1>1 DEF Operation
  <2>2. GotoSeen(a, o) \/ GotoSeen(a, p)
    BY DEF RunValidator
  <2> HIDE DEF o, p
  <2>3. \A x : GotoSeen(a, x) => OthersSee(a) /\ op'[a] = x
    BY <1>1, GotoOthers
  <2> QED
    BY <2>1, <2>2, <2>3
<1>8. /\ Revs' = Revs /\ revisions'[r] = row
      /\ \A q \in Revs : q # r => revisions'[q] = revisions[q]
  BY <1>1, <1>6, RowWritten
<1> HIDE DEF r, v, rest
<1>10. ASSUME NEW q \in Revs PROVE RowKeeps(a, q)
  <2>1. RowFits(q)
    BY DEF EarnInv
  <2>2. CASE q = r
    BY <1>6, <1>7, <1>8, <2>1, <2>2 DEF RowKeeps, RowFits, At
  <2>3. CASE q # r
    <3>1. revisions'[q] = revisions[q] /\ Results(q)' = Results(q) /\ op[a].rev # q
      BY <1>8, <2>3 DEF Results, r
    <3> QED
      BY <2>1, <3>1 DEF RowKeeps, RowFits
  <2> QED
    BY <2>2, <2>3
<1>11. TodoFits(a)' /\ GateFits(a)' /\ ~At(a, "linking")'
  <2>1. Left(a)' = {rest[i] : i \in DOMAIN rest}
    BY <1>7 DEF Left
  <2>2. Results(op[a].rev)' = {v} \cup Results(r)
    <3>1. Results(op[a].rev)' = revisions'[r].passed \cup revisions'[r].failed
      BY <1>7 DEF Results
    <3> QED
      BY <1>6, <1>8, <3>1 DEF Results
  <2>3. /\ revisions'[op'[a].rev].kind = revisions[r].kind
        /\ revisions'[op'[a].rev].bundle = revisions[r].bundle
    BY <1>6, <1>7, <1>8
  <2> QED
    BY <1>3, <1>4, <1>7, <2>1, <2>2, <2>3 DEF TodoFits, GateFits, At
<1> QED
  BY <1>1, <1>7, <1>8, <1>10, <1>11, EarnKept

LEMMA EarnLinked == ASSUME ChainInv, EarnInv, NEW a \in Actors, Link(a) PROVE EarnInv'
<1> DEFINE r == op[a].rev
           row == [revisions[r] EXCEPT !.dep = op[a].dep]
<1>1. /\ TypeOK /\ op[a] \in Operation /\ TodoFits(a) /\ UNCHANGED crashes
      /\ op[a].at = "linking" /\ r \in Revs /\ revisions[r].kind = "board"
  BY DEF ChainInv, TypeOK, EarnInv, Link, At, InHand, Working
<1>2. /\ row \in RevisionRow /\ row.kind = revisions[r].kind /\ row.bundle = revisions[r].bundle
      /\ row.approval = revisions[r].approval
      /\ row.passed = revisions[r].passed /\ row.failed = revisions[r].failed
  <2>1. revisions[r] \in RevisionRow /\ op[a].dep \in Nat
    BY <1>1, RowAt DEF Operation
  <2> HIDE DEF r
  <2> QED
    BY <2>1 DEF RevisionRow
<1>3. revisions' = [revisions EXCEPT ![r] = row]
  BY DEF Link
<1> HIDE DEF row
<1>4. Revs' = Revs /\ \A q \in Revs : revisions'[q] = IF q = r THEN row ELSE revisions[q]
  <2> HIDE DEF r
  <2> QED
    BY <1>1, <1>2, <1>3, RowKept
<1>5. PICK o : /\ OthersSame(a) /\ op'[a] = o
               /\ o = Idle \/ (o.at = "bundling" /\ o.rev = r /\ o.todo = Declared("board"))
  <2> DEFINE o == [op[a] EXCEPT !.at = "bundling"]
  <2>1. o.at = "bundling" /\ o.rev = r /\ o.todo = op[a].todo
    BY <1>1 DEF Operation
  <2>2. op[a].todo = <<>> \/ op[a].todo = Declared("board")
    BY <1>1 DEF TodoFits, At
  <2>3. Goto(a, Idle) \/ (Goto(a, o) /\ op[a].todo # <<>>)
    BY DEF Link
  <2> HIDE DEF o
  <2> QED
    BY <1>1, <2>1, <2>2, <2>3, GotoOthers
<1>6. TodoFits(a)' /\ GateFits(a)' /\ ~At(a, "linking")'
  <2>1. CASE o = Idle
    <3>1. op'[a].at = "idle"
      BY <1>5, <2>1 DEF Idle
    <3> QED
      BY <3>1, IdleFits
  <2>2. CASE o # Idle
    <3>1. revisions'[op'[a].rev].kind = "board"
      BY <1>1, <1>2, <1>4, <1>5, <2>2
    <3> QED
      BY <1>5, <2>2, <3>1 DEF TodoFits, GateFits, At
  <2> QED
    BY <2>1, <2>2
<1>7. ASSUME NEW q \in Revs PROVE RowKeeps(a, q) /\ SightKept(a, q)
  <2>1. /\ revisions'[q].kind = revisions[q].kind
        /\ revisions'[q].bundle = revisions[q].bundle
        /\ revisions'[q].passed = revisions[q].passed
        /\ revisions'[q].failed = revisions[q].failed
    BY <1>2, <1>4
  <2>2. RowFits(q) /\ Results(q)' = Results(q) /\ ~At(a, "validating")
    BY <1>1, <2>1 DEF EarnInv, Results, At
  <2>3. ASSUME Fresh(q), q # r PROVE Fresh(q)'
    <3>1. CurrentApproved("script")' = CurrentApproved("script")
      BY <1>2, <1>4 DEF CurrentApproved
    <3>2. revisions'[q] = revisions[q]
      BY <1>4, <2>3
    <3> QED
      BY <2>3, <3>1, <3>2 DEF Fresh
  <2> QED
    BY <1>1, <2>1, <2>2, <2>3 DEF RowKeeps, SightKept, RowFits, At
<1> QED
  BY <1>1, <1>4, <1>5, <1>6, <1>7, EarnKept

\* A step that leaves the table of revisions alone.
LEMMA EarnUnwritten ==
    ASSUME ChainInv, EarnInv, NEW a \in Actors, UNCHANGED revisions,
           crashes' = 0 => crashes = 0,
           \/ UNCHANGED op
           \/ /\ OthersSame(a) /\ TodoFits(a)' /\ GateFits(a)' /\ ~At(a, "linking")'
              /\ crashes' = 0 => ~At(a, "validating")
    PROVE  EarnInv'
<1>1. Revs' = Revs
  BY DEF Revs
<1>2. ASSUME NEW q \in Revs PROVE RowKeeps(a, q) /\ SightKept(a, q)
  <2>1. RowFits(q) /\ Results(q)' = Results(q)
    BY DEF EarnInv, Results
  <2>2. Fresh(q) => Fresh(q)'
    BY DEF Fresh, CurrentApproved, Revs
  <2>3. UNCHANGED op => (At(a, "validating") => At(a, "validating")')
    BY DEF At
  <2> QED
    BY <2>1, <2>2, <2>3 DEF RowKeeps, SightKept, RowFits
<1> QED
  BY <1>1, <1>2, EarnKept

\* The gates have seen all the results, and none that failed.
LEMMA EarnChecked == ASSUME ChainInv, EarnInv, NEW a \in Actors, ApproveCheck(a) PROVE EarnInv'
<1>1. TypeOK
  BY DEF ChainInv
<1>2. PICK r \in Revs : /\ Approvable(r)
                        /\ Goto(a, [Idle EXCEPT !.at = "approving", !.rev = r,
                                                !.raced = Unvalidated(r)])
  BY DEF ApproveCheck
<1> DEFINE o == [Idle EXCEPT !.at = "approving", !.rev = r, !.raced = Unvalidated(r)]
<1>3. o.at = "approving" /\ o.rev = r /\ (~o.raced => ~Unvalidated(r))
  BY DEF Idle
<1>4. OthersSame(a) /\ op'[a] = o
  BY <1>1, <1>2, GotoOthers
<1> HIDE DEF o
<1>5. UNCHANGED revisions /\ UNCHANGED crashes /\ ~At(a, "validating")
  BY DEF ApproveCheck, At
<1>6. ASSUME ~Unvalidated(r), crashes = 0
      PROVE  Required(revisions[r].kind) \subseteq revisions[r].passed
  <2>1. Results(r) # {} /\ revisions[r].failed \subseteq {"integrity"}
    BY <1>2 DEF Approvable, Results, Blocking
  <2>2. ~ \E b \in Actors : At(b, "validating") /\ op[b].rev = r
    BY <1>6 DEF Unvalidated, At
  <2>3. RowFits(r)
    BY DEF EarnInv
  <2> QED
    BY <1>6, <2>1, <2>2, <2>3 DEF RowFits, Results
<1>7. GateFits(a)'
  <2>1. /\ revisions[r].kind = "board" => revisions[r].bundle
        /\ Blocking(r) = {} /\ Fresh(r)
    BY <1>2 DEF Approvable, Intact
  <2>2. ASSUME ~o.raced, NEW b \in Actors, At(b, "linking")' PROVE op'[b].rev # r
    <3>1. CASE b = a
      BY <1>3, <1>4, <2>2, <3>1 DEF At
    <3>2. CASE b # a
      BY <1>3, <1>4, <2>2, <3>2 DEF At, OthersSame, Unvalidated
    <3> QED
      BY <3>1, <3>2
  <2>3. (Blocking(op[a].rev)' = Blocking(r)) /\ (Fresh(op[a].rev)' <=> Fresh(r))
    BY <1>3, <1>4, <1>5 DEF Blocking, Fresh, CurrentApproved, Revs
  <2> QED
    BY <1>3, <1>4, <1>5, <1>6, <2>1, <2>2, <2>3 DEF GateFits
<1>8. TodoFits(a)' /\ ~At(a, "linking")'
  BY <1>3, <1>4 DEF TodoFits, At
<1> QED
  BY <1>4, <1>5, <1>7, <1>8, EarnUnwritten

LEMMA EarnLooked ==
    ASSUME ChainInv, EarnInv, NEW a \in Actors,
           PrepareScript(a) \/ GenerateBoard(a) \/ GenerationFails(a) \/ ValidateBoard(a)
           \/ Export(a) \/ Crash(a)
    PROVE  EarnInv'
<1>1. TypeOK /\ op[a] \in Operation
  BY DEF ChainInv, TypeOK
<1>2. /\ UNCHANGED revisions /\ (crashes' = 0 => crashes = 0)
      /\ crashes' = 0 => ~At(a, "validating") \/ UNCHANGED op
  <2>1. CASE Crash(a)
    BY <1>1, <2>1 DEF Crash, ChainInv, TypeOK
  <2>2. CASE ~Crash(a)
    BY <2>2 DEF PrepareScript, GenerateBoard, GenerationFails, ValidateBoard, Export,
       ExportBundle, ReplaceDirectory, CommitExport, CommitFails, ExportSingle,
       BlockExecution, At
  <2> QED
    BY <2>1, <2>2
<1> DEFINE Aside == {"idle", "drafting", "calling", "replacing", "committing"}
<1>3. ASSUME NEW o, Goto(a, o), o.at \in Aside PROVE EarnInv'
  <2>1. OthersSame(a) /\ op'[a].at \in Aside
    BY <1>1, <1>3, GotoOthers
  <2>2. TodoFits(a)' /\ GateFits(a)' /\ ~At(a, "linking")'
    BY <2>1, IdleFits
  <2> QED
    BY <1>2, <2>1, <2>2, EarnUnwritten
<1>4. CASE PrepareScript(a)
  <2> DEFINE o == [Idle EXCEPT !.at = "drafting"]
  <2>1. o.at \in Aside
    BY DEF Idle
  <2>2. Goto(a, o)
    BY <1>4 DEF PrepareScript
  <2> QED
    BY <1>3, <2>1, <2>2
<1>5. CASE GenerateBoard(a)
  <2>1. PICK s : Goto(a, [Idle EXCEPT !.at = "calling", !.dep = s])
    BY <1>5 DEF GenerateBoard
  <2>2. [Idle EXCEPT !.at = "calling", !.dep = s].at \in Aside
    BY DEF Idle
  <2> QED
    BY <1>3, <2>1, <2>2
<1>6. CASE GenerationFails(a) \/ Crash(a) \/ CommitExport(a) \/ CommitFails(a)
  <2>1. Goto(a, Idle)
    BY <1>6 DEF GenerationFails, Crash, CommitExport, CommitFails
  <2>2. Idle.at \in Aside
    BY DEF Idle
  <2> QED
    BY <1>3, <2>1, <2>2
<1>7. CASE ExportBundle(a)
  <2>1. PICK r, k, d : Goto(a, [Idle EXCEPT !.at = "replacing", !.rev = r, !.kind = k, !.dest = d])
    BY <1>7 DEF ExportBundle
  <2>2. [Idle EXCEPT !.at = "replacing", !.rev = r, !.kind = k, !.dest = d].at \in Aside
    BY DEF Idle
  <2> QED
    BY <1>3, <2>1, <2>2
<1>8. CASE ReplaceDirectory(a)
  <2> DEFINE o == [op[a] EXCEPT !.at = "committing"]
  <2>1. o.at \in Aside /\ Idle.at \in Aside
    BY <1>1 DEF Operation, Idle
  <2>2. Goto(a, Idle) \/ Goto(a, o)
    BY <1>8 DEF ReplaceDirectory
  <2> HIDE DEF o, Aside
  <2> QED
    BY <1>3, <2>1, <2>2
<1>9. CASE ExportSingle(a) \/ BlockExecution(a)
  <2>1. UNCHANGED op
    BY <1>9 DEF ExportSingle, BlockExecution
  <2> QED
    BY <1>2, <2>1, EarnUnwritten
<1>10. CASE ValidateBoard(a)
  <2>1. PICK r \in Revs :
           /\ revisions[r].kind = "board"
           /\ Goto(a, [Idle EXCEPT !.at = "bundling", !.rev = r, !.todo = Declared("board")])
    BY <1>10 DEF ValidateBoard
  <2> DEFINE o == [Idle EXCEPT !.at = "bundling", !.rev = r, !.todo = Declared("board")]
  <2>2. o.at = "bundling" /\ o.rev = r /\ o.todo = Declared("board")
    BY DEF Idle
  <2>3. OthersSame(a) /\ op'[a] = o
    BY <1>1, <2>1, GotoOthers
  <2> HIDE DEF o
  <2>4. TodoFits(a)' /\ GateFits(a)' /\ ~At(a, "linking")'
    BY <1>2, <2>1, <2>2, <2>3 DEF TodoFits, GateFits, At
  <2>5. ~At(a, "validating")
    BY <1>10 DEF ValidateBoard, At
  <2> QED
    BY <1>2, <2>3, <2>4, <2>5, EarnUnwritten
<1> QED
  BY <1>4, <1>5, <1>6, <1>7, <1>8, <1>9, <1>10 DEF Export

LEMMA EarnDecided ==
    ASSUME ChainInv, EarnInv, NEW a \in Actors, ApproveCommit(a) \/ Reject(a) PROVE EarnInv'
<1>1. TypeOK
  BY DEF ChainInv
<1>2. /\ Revs' = Revs
      /\ \A q \in Revs : \E x : revisions'[q] = [revisions[q] EXCEPT !.approval = x]
  <2>1. CASE ApproveCommit(a)
    BY <2>1 DEF ApproveCommit, Approved, Revs
  <2>2. CASE Reject(a)
    <3>1. PICK r \in Revs : revisions' = [revisions EXCEPT ![r].approval = "rejected"]
      BY <2>2 DEF Reject
    <3>2. Revs' = Revs
      BY <3>1 DEF Revs
    <3>3. ASSUME NEW q \in Revs
          PROVE  \E x : revisions'[q] = [revisions[q] EXCEPT !.approval = x]
      <4>1. CASE q = r
        BY <3>1, <4>1 DEF Revs
      <4>2. CASE q # r
        <5>1. revisions'[q] = revisions[q] /\ revisions[q] \in RevisionRow
          BY <1>1, <3>1, <4>2, RowAt DEF Revs
        <5>2. revisions[q] = [revisions[q] EXCEPT !.approval = revisions[q].approval]
          BY <5>1 DEF RevisionRow
        <5> QED
          BY <5>1, <5>2
      <4> QED
        BY <4>1, <4>2
    <3> QED
      BY <3>2, <3>3
  <2> QED
    BY <2>1, <2>2 DEF ApproveCommit, Reject
<1>3. /\ OthersSee(a) /\ op'[a].at = "idle" /\ UNCHANGED crashes /\ ~At(a, "validating")
  <2>1. GotoSeen(a, Idle) /\ UNCHANGED crashes /\ ~At(a, "validating")
    BY DEF ApproveCommit, Reject, At
  <2>2. OthersSee(a) /\ op'[a] = Idle
    BY <1>1, <2>1, GotoOthers
  <2> QED
    BY <2>1, <2>2 DEF Idle
<1>4. ASSUME NEW q \in Revs PROVE RowKeeps(a, q)
  <2>1. revisions[q] \in RevisionRow /\ RowFits(q)
    BY <1>1, RowAt DEF EarnInv
  <2>2. /\ revisions'[q].kind = revisions[q].kind
        /\ revisions'[q].bundle = revisions[q].bundle
        /\ revisions'[q].passed = revisions[q].passed
        /\ revisions'[q].failed = revisions[q].failed
    BY <1>2, <2>1 DEF RevisionRow
  <2>3. Results(q)' = Results(q)
    BY <2>2 DEF Results
  <2> QED
    BY <1>3, <2>1, <2>2, <2>3 DEF RowKeeps, RowFits
<1>5. TodoFits(a)' /\ GateFits(a)' /\ ~At(a, "linking")'
  BY <1>3, IdleFits
<1> QED
  BY <1>2, <1>3, <1>4, <1>5, EarnKept

-----------------------------------------------------------------------------
(* The theorems *)

LEMMA ChainStart == Init => ChainInv
<1> SUFFICES ASSUME Init PROVE ChainInv
  OBVIOUS
<1>1. revisions \in Seq(RevisionRow) /\ decisions \in Seq(Decided) /\ Revs = {}
      /\ DOMAIN decisions = {}
  BY DEF Init, Revs
<1>2. TypeOK
  BY <1>1, IdleType DEF Init, TypeOK
<1>3. \A a \in Actors : op[a] = Idle
  BY DEF Init
<1>4. Idle.at = "idle"
  BY DEF Idle
<1> QED
  BY <1>1, <1>2, <1>3, <1>4 DEF Init, ChainInv, LogInv, ExportsInv, OwnDirectories, InHand,
     StatusAgreesWithLog, SourceWasApproved, RecordIsTrue, At, Working

LEMMA ChainStep == ChainInv /\ [Next]_vars => ChainInv'
<1> SUFFICES ASSUME ChainInv, [Next]_vars PROVE ChainInv'
  OBVIOUS
<1>1. CASE PublishScript
  BY <1>1, AloneStep
<1>2. ASSUME NEW a \in Actors, Generation(a) PROVE ChainInv'
  BY <1>2, AloneStep, InsertStep, InPlaceStep, LookStep, LinkStep DEF Generation
<1>3. ASSUME NEW a \in Actors, Decision(a) \/ Export(a) \/ Crash(a) PROVE ChainInv'
  BY <1>3, LookStep, DecisionStep, ExportStep DEF Decision, Export
<1>4. CASE UNCHANGED vars
  <2>1. UNCHANGED <<revisions, decisions, exports, files, op, crashes>>
    BY <1>4 DEF vars
  <2>2. Grows /\ \A b \in Actors : SameHand(b)
    BY <2>1, GrowsNot DEF SameHand
  <2> QED
    BY <2>1, <2>2, QuietStep DEF ChainInv, TypeOK
<1> QED
  BY <1>1, <1>2, <1>3, <1>4 DEF Next

LEMMA EarnStart == Init => EarnInv
<1> SUFFICES ASSUME Init PROVE EarnInv
  OBVIOUS
<1>1. Revs = {} /\ \A a \in Actors : op[a] = Idle
  BY DEF Init, Revs
<1>2. Idle.at = "idle"
  BY DEF Idle
<1> QED
  BY <1>1, <1>2 DEF EarnInv, TodoFits, GateFits, At

LEMMA EarnStep == ChainInv /\ EarnInv /\ [Next]_vars => EarnInv'
<1> SUFFICES ASSUME ChainInv, EarnInv, [Next]_vars PROVE EarnInv'
  OBVIOUS
<1>1. CASE PublishScript
  BY <1>1, EarnPublished
<1>2. ASSUME NEW a \in Actors, Generation(a) PROVE EarnInv'
  BY <1>2, EarnLooked, EarnMade, EarnLinked, EarnInPlace, EarnMaterialized, EarnValidated
     DEF Generation
<1>3. ASSUME NEW a \in Actors, Decision(a) \/ Export(a) \/ Crash(a) PROVE EarnInv'
  BY <1>3, EarnChecked, EarnDecided, EarnLooked DEF Decision
<1>4. CASE UNCHANGED vars
  <2>1. revisions' = revisions /\ op' = op /\ crashes' = crashes
    BY <1>4 DEF vars
  <2>2. ASSUME NEW b \in Actors PROVE TodoFits(b)'
    BY <2>1 DEF EarnInv, TodoFits, Left, Results, At
  <2>3. ASSUME NEW b \in Actors PROVE GateFits(b)'
    BY <2>1 DEF EarnInv, GateFits, At, Fresh, CurrentApproved, Blocking, Revs
  <2>4. ASSUME NEW r \in Revs PROVE RowFits(r)'
    BY <2>1 DEF EarnInv, RowFits, Results, At
  <2> QED
    BY <2>1, <2>2, <2>3, <2>4 DEF EarnInv, Revs
<1> QED
  BY <1>1, <1>2, <1>3, <1>4 DEF Next

\* The inductive invariant holds of the tables and of what each process has in
\* hand between two commits of services.py and store.py.
THEOREM ChainInvariant == Spec => []ChainInv
<1> QED
  BY ChainStart, ChainStep, PTL DEF Spec

\* Every row, log entry, export and operation keeps its type, and a source is a
\* revision that is there.
THEOREM ChainTypes == Spec => []TypeOK
<1>1. ChainInv => TypeOK
  BY DEF ChainInv
<1> QED
  BY <1>1, ChainInvariant, PTL

\* approval_status is what approval_records says (approve_in_transaction and
\* record_rejection), whoever decides and in whatever order.
THEOREM StatusIsTheLogs == Spec => []StatusAgreesWithLog
<1>1. ChainInv => StatusAgreesWithLog
  BY DEF ChainInv
<1> QED
  BY <1>1, ChainInvariant, PTL

\* What a storyboard depends on in revision_dependencies is a script that was
\* approved, however the storyboard came about.
THEOREM SourcesWereApproved == Spec => []SourceWasApproved
<1>1. ChainInv => SourceWasApproved
  BY DEF ChainInv
<1> QED
  BY <1>1, ChainInvariant, PTL

\* A recorded bundle stands at its destination, any number of processes exporting
\* at once, and no formal or single export is of a revision never approved.
THEOREM ExportsAreTrue == Spec => []RecordIsTrue
<1>1. ChainInv => RecordIsTrue
  BY DEF ChainInv
<1> QED
  BY <1>1, ChainInvariant, PTL

\* What the gates of approve_revision have seen is still so when the transaction
\* of the approval commits, unless the history says it was raced: any number of
\* processes, of revisions and of deaths.
THEOREM ApprovalsAreEarned == Spec => ApprovalIsEarned
<1>1. ASSUME EarnInv, NEW r \in Revs, NEW a \in Actors, At(a, "approving"), op[a].rev = r
      PROVE  /\ revisions[r].kind = "board" => revisions[r].bundle
             /\ ~op[a].raced =>
                    /\ Blocking(r) = {} /\ Fresh(r)
                    /\ crashes = 0 => Required(revisions[r].kind) \subseteq revisions[r].passed
  BY <1>1 DEF EarnInv, GateFits
<1>2. EarnInv /\ [Next]_vars =>
        [\A r \in Revs, a \in Actors :
           BecomesApproved(r) /\ At(a, "approving") /\ op'[a] = Idle /\ op[a].rev = r =>
               /\ revisions[r].kind = "board" => revisions[r].bundle
               /\ ~op[a].raced =>
                      /\ Blocking(r) = {} /\ Fresh(r)
                      /\ crashes = 0 =>
                            Required(revisions[r].kind) \subseteq revisions[r].passed]_vars
  BY <1>1
<1>3. Spec => []EarnInv
  <2>1. Init => EarnInv
    BY EarnStart
  <2>2. ChainInv /\ EarnInv /\ [Next]_vars => EarnInv'
    BY EarnStep
  <2> QED
    BY <2>1, <2>2, ChainInvariant, PTL DEF Spec
<1> QED
  BY <1>2, <1>3, PTL DEF Spec, ApprovalIsEarned
=============================================================================
