---------------------------- MODULE ScriptProofs ----------------------------
(***************************************************************************)
(* The safety of streamed script generation and of the page that watches   *)
(* it, for any sessions and any number of frames, errors, deaths and lost  *)
(* connections.                                                            *)
(*                                                                         *)
(* What a session's rows say of each other holds at every moment           *)
(* (SessionFits), and what the step the runner is at has made of the rows  *)
(* of its session holds as long as it is there (RunnerFits).  The recovery *)
(* needs only the first, for no runner is at work then.  The page rests on *)
(* two facts about the server: a log only grows, and an end is final.      *)
(***************************************************************************)
EXTENDS ScriptView, SequenceTheorems, TLAPS

EventType == {"text_delta", "usage", "stage", "failed", "revision_completed"}
RuntimeStatus == {"none", "RUNNING", "VALIDATING", "SUCCEEDED"} \cup Rejected
AtStep == TrySteps \cup ExceptSteps \cup {"idle", "dead"}

TypeOK ==
    /\ status \in [Sessions -> Status]
    /\ events \in [Sessions -> Seq(EventType)]
    /\ textRun \in [Sessions -> {"none", "prepared", "completed", "failed"}]
    /\ runtime \in [Sessions -> RuntimeStatus]
    /\ revisions \in [Sessions -> Nat]
    /\ calls \in [Sessions -> Nat]
    /\ server \in {"down", "recovering", "up"}
    /\ starting \in Sessions \cup {NoSession}
    /\ at \in AtStep
    /\ cur \in Sessions \cup {NoSession}
    /\ frames \in Nat /\ failSeq \in Nat /\ heading \in BOOLEAN

\* The rows of one session, whoever is at work on it: the revision is in the
\* chain exactly when the run succeeded, and from then on the session can only
\* be completed.
SessionFits(s) ==
    /\ calls[s] <= 1
    /\ revisions[s] <= 1
    /\ revisions[s] = 1 <=> runtime[s] = "SUCCEEDED"
    /\ revisions[s] = 1 => /\ status[s] \in {"finalizing", "completed"}
                           /\ textRun[s] = "completed"
                           /\ ~Has(s, "failed")
    /\ Has(s, "revision_completed") => revisions[s] = 1
    /\ status[s] = "completed" => revisions[s] = 1 /\ Has(s, "revision_completed")
    /\ status[s] \in {"absent", "prepared"} => calls[s] = 0 /\ ~Has(s, "failed")
    /\ status[s] = "prepared" => textRun[s] = "prepared"

\* Steps before the run can have succeeded, and steps after it has.
EarlySteps == {"claimed", "stream", "completing", "finalizing", "validating", "settling",
               "parsing", "checking"}
LostSteps == {"failing", "failText", "failStatus", "exceptFailing", "exceptText",
              "exceptStatus"}
PublishedSteps == {"publish", "publishStatus", "rescue", "rescueStatus"}

RunnerFits ==
    /\ at = "idle" => cur = NoSession
    /\ server # "up" => at = "idle" /\ starting = NoSession
    /\ starting # NoSession => status[starting] = "absent"
    /\ at \notin {"idle", "dead"} =>
        /\ cur \in Sessions
        /\ status[cur] \in Active
        /\ at = "claimed" => calls[cur] = 0
        /\ at \in {"claimed", "stream", "completing", "finalizing", "validating", "settling"} =>
               textRun[cur] = "prepared"
        /\ at \in {"parsing", "checking"} => textRun[cur] = "completed"
        /\ at \in {"finalizing", "validating", "settling", "parsing", "checking"} =>
               status[cur] = "finalizing"
        /\ at \in EarlySteps \cup LostSteps \cup {"rejected", "rejectedStatus"} =>
               revisions[cur] = 0
        /\ at \in EarlySteps => ~Has(cur, "failed")
        /\ at \in PublishedSteps => revisions[cur] = 1
        /\ at \in {"publishStatus", "rescueStatus"} => Has(cur, "revision_completed")

ScriptInv == TypeOK /\ (\A s \in Sessions : SessionFits(s)) /\ RunnerFits

-----------------------------------------------------------------------------
(* What an event adds to a log *)

LEMMA HasAppended ==
    ASSUME NEW q \in Seq(EventType), NEW x \in EventType, NEW y
    PROVE  /\ Append(q, x) \in Seq(EventType)
           /\ Contains(Append(q, x), y) <=> Contains(q, y) \/ x = y
<1>1. Append(q, x) \in Seq(EventType) /\ Len(Append(q, x)) = Len(q) + 1
  OBVIOUS
<1>2. \A i \in 1..Len(q) : Append(q, x)[i] = q[i]
  OBVIOUS
<1>3. Append(q, x)[Len(q) + 1] = x
  OBVIOUS
<1>4. ASSUME Contains(Append(q, x), y) PROVE Contains(q, y) \/ x = y
  <2>1. PICK i \in 1..(Len(q) + 1) : Append(q, x)[i] = y
    BY <1>1, <1>4 DEF Contains
  <2>2. CASE i = Len(q) + 1
    BY <2>1, <2>2, <1>3
  <2>3. CASE i \in 1..Len(q)
    BY <2>1, <2>3, <1>2 DEF Contains
  <2> QED
    BY <2>2, <2>3
<1>5. ASSUME Contains(q, y) PROVE Contains(Append(q, x), y)
  BY <1>5, <1>1, <1>2 DEF Contains
<1>6. ASSUME x = y PROVE Contains(Append(q, x), y)
  BY <1>6, <1>1, <1>3 DEF Contains
<1> QED
  BY <1>1, <1>4, <1>5, <1>6

LEMMA EventAdded ==
    ASSUME TypeOK, NEW s \in Sessions, NEW type \in EventType, AppendEvent(s, type)
    PROVE  /\ events' \in [Sessions -> Seq(EventType)]
           /\ \A z \in Sessions, y \in EventType :
                  Has(z, y)' <=> Has(z, y) \/ (z = s /\ y = type)
           /\ UNCHANGED <<status, textRun, runtime, revisions>>
<1>1. events' = [events EXCEPT ![s] = Append(@, type)]
  BY DEF AppendEvent
<1>2. \A z \in Sessions : events[z] \in Seq(EventType)
  BY DEF TypeOK
<1>3. \A z \in Sessions : events'[z] = IF z = s THEN Append(events[z], type) ELSE events[z]
  BY <1>1 DEF TypeOK
<1>4. events' \in [Sessions -> Seq(EventType)]
  BY <1>1, <1>2, HasAppended DEF TypeOK
<1>5. ASSUME NEW z \in Sessions, NEW y \in EventType
      PROVE  Has(z, y)' <=> Has(z, y) \/ (z = s /\ y = type)
  <2>1. Has(z, y)' <=> Contains(events'[z], y)
    BY DEF Has
  <2>2. CASE z = s
    BY <2>1, <2>2, <1>2, <1>3, HasAppended DEF Has
  <2>3. CASE z # s
    BY <2>1, <2>3, <1>3 DEF Has
  <2> QED
    BY <2>2, <2>3
<1> QED
  BY <1>4, <1>5 DEF AppendEvent

LEMMA LogsKept ==
    ASSUME events' = events
    PROVE  \A z \in Sessions, y \in EventType : Has(z, y)' <=> Has(z, y)
BY DEF Has

-----------------------------------------------------------------------------
(* Steps *)
LEMMA TypeStep == ScriptInv /\ [Next]_vars => TypeOK'
<1> SUFFICES ASSUME ScriptInv, [Next]_vars PROVE TypeOK'
  OBVIOUS
<1> USE SessionsAssumption, BoundsAssumption
<1>0. TypeOK
  BY DEF ScriptInv
<1>1. ASSUME NEW s \in Sessions, PrepareInputs(s) PROVE TypeOK'
  BY <1>1, <1>0 DEF PrepareInputs, SetRuntime, TypeOK, AtStep, TrySteps, ExceptSteps, tables, Outside, stream, Status, Active, Ended, RuntimeStatus, Rejected
<1>2. ASSUME Enqueue PROVE TypeOK'
  BY <1>2, <1>0 DEF Enqueue, TypeOK, AtStep, TrySteps, ExceptSteps, tables, Outside, stream, Status, Active, Ended, RuntimeStatus, Rejected
<1>3. ASSUME StartFails PROVE TypeOK'
  BY <1>3, <1>0 DEF StartFails, TypeOK, AtStep, TrySteps, ExceptSteps, tables, Outside, stream, Status, Active, Ended, RuntimeStatus, Rejected
<1>4. ASSUME NEW s \in Sessions, Claim(s) PROVE TypeOK'
  BY <1>4, <1>0 DEF Claim, Transition, TypeOK, AtStep, TrySteps, ExceptSteps, tables, Outside, stream, Status, Active, Ended, RuntimeStatus, Rejected
<1>5. ASSUME Submit PROVE TypeOK'
  <2>1. cur \in Sessions
    BY <1>5, <1>0 DEF Submit, ScriptInv, RunnerFits
  <2>2. calls' \in [Sessions -> Nat]
    BY <2>1, <1>5, <1>0 DEF Submit, TypeOK
  <2> QED
    BY <2>2, <1>5, <1>0 DEF Submit, TypeOK, tables, stream, AtStep, TrySteps
<1>6. ASSUME StartedFrame PROVE TypeOK'
  <2>1. frames' \in Nat
    BY <1>6, <1>0 DEF StartedFrame, NextFrame, TypeOK
  <2>2. status' \in [Sessions -> Status]
    BY <1>6, <1>0 DEF StartedFrame, Transition, TypeOK, Status, Active
  <2>3. UNCHANGED <<events, textRun, runtime, revisions, heading, at, cur, failSeq, Outside>>
    BY <1>6 DEF StartedFrame, NextFrame, Transition
  <2> QED
    BY <2>1, <2>2, <2>3, <1>0 DEF TypeOK, Outside
<1>7. ASSUME TextFrame PROVE TypeOK'
  <2>1. frames' \in Nat
    BY <1>7, <1>0 DEF TextFrame, NextFrame, TypeOK
  <2>2. heading' \in BOOLEAN
    BY <1>7, <1>0, Zenon DEF TextFrame, TypeOK
  <2>3. UNCHANGED <<at, cur, failSeq, Outside>>
    BY <1>7 DEF TextFrame, NextFrame
  <2>4. cur \in Sessions /\ "text_delta" \in EventType
    BY <1>7, <1>0 DEF TextFrame, NextFrame, ScriptInv, RunnerFits, EventType
  <2>5. /\ events' \in [Sessions -> Seq(EventType)]
        /\ UNCHANGED <<status, textRun, runtime, revisions>>
    <3>1. CASE AppendEvent(cur, "text_delta")
      BY <3>1, <2>4, <1>0, EventAdded
    <3>2. CASE UNCHANGED tables
      BY <3>2, <1>0 DEF tables, TypeOK
    <3> QED
      BY <3>1, <3>2, <1>7 DEF TextFrame
  <2>6. UNCHANGED <<server, starting, calls>>
    BY <2>3 DEF Outside
  <2>7. /\ status' \in [Sessions -> Status]
        /\ textRun' \in [Sessions -> {"none", "prepared", "completed", "failed"}]
        /\ runtime' \in [Sessions -> RuntimeStatus]
        /\ revisions' \in [Sessions -> Nat] /\ calls' \in [Sessions -> Nat]
    BY <2>5, <2>6, <1>0 DEF TypeOK
  <2>8. /\ server' \in {"down", "recovering", "up"}
        /\ starting' \in Sessions \cup {NoSession} /\ at' \in AtStep
        /\ cur' \in Sessions \cup {NoSession} /\ failSeq' \in Nat
    BY <2>3, <2>6, <1>0 DEF TypeOK
  <2> QED
    BY <2>1, <2>2, <2>5, <2>7, <2>8, Zenon DEF TypeOK
<1>8. ASSUME UsageFrame PROVE TypeOK'
  <2>1. cur \in Sessions /\ "usage" \in EventType
    BY <1>8, <1>0 DEF UsageFrame, NextFrame, ScriptInv, RunnerFits, EarlySteps, LostSteps, PublishedSteps, EventType, AtStep, TrySteps, ExceptSteps
  <2>2. AppendEvent(cur, "usage")
    BY <1>8 DEF UsageFrame, NextFrame
  <2>3. /\ events' \in [Sessions -> Seq(EventType)]
        /\ UNCHANGED <<status, textRun, runtime, revisions>>
    BY <2>1, <2>2, <1>0, EventAdded
  <2> QED
    BY <2>3, <1>8, <1>0 DEF UsageFrame, NextFrame, TypeOK, AtStep, TrySteps, ExceptSteps, Outside, stream
<1>9. ASSUME FailedFrame PROVE TypeOK'
  BY <1>9, <1>0 DEF FailedFrame, TypeOK, AtStep, TrySteps, ExceptSteps, tables, Outside, stream, Status, Active, Ended, RuntimeStatus, Rejected
<1>10. ASSUME CompletedFrame PROVE TypeOK'
  BY <1>10, <1>0 DEF CompletedFrame, Goto, TypeOK, AtStep, TrySteps, ExceptSteps, tables, Outside, stream, Status, Active, Ended, RuntimeStatus, Rejected
<1>11. ASSUME ToFinalizing PROVE TypeOK'
  BY <1>11, <1>0 DEF ToFinalizing, Transition, Goto, TypeOK, AtStep, TrySteps, ExceptSteps, tables, Outside, stream, Status, Active, Ended, RuntimeStatus, Rejected
<1>12. ASSUME StageFinalizing PROVE TypeOK'
  <2>1. cur \in Sessions /\ "stage" \in EventType
    BY <1>12, <1>0 DEF StageFinalizing, Goto, ScriptInv, RunnerFits, EarlySteps, LostSteps, PublishedSteps, EventType, AtStep, TrySteps, ExceptSteps
  <2>2. AppendEvent(cur, "stage")
    BY <1>12 DEF StageFinalizing, Goto
  <2>3. /\ events' \in [Sessions -> Seq(EventType)]
        /\ UNCHANGED <<status, textRun, runtime, revisions>>
    BY <2>1, <2>2, <1>0, EventAdded
  <2> QED
    BY <2>3, <1>12, <1>0 DEF StageFinalizing, Goto, TypeOK, AtStep, TrySteps, ExceptSteps, Outside, stream
<1>13. ASSUME StageValidating PROVE TypeOK'
  <2>1. cur \in Sessions /\ "stage" \in EventType
    BY <1>13, <1>0 DEF StageValidating, Goto, ScriptInv, RunnerFits, EarlySteps, LostSteps, PublishedSteps, EventType, AtStep, TrySteps, ExceptSteps
  <2>2. AppendEvent(cur, "stage")
    BY <1>13 DEF StageValidating, Goto
  <2>3. /\ events' \in [Sessions -> Seq(EventType)]
        /\ UNCHANGED <<status, textRun, runtime, revisions>>
    BY <2>1, <2>2, <1>0, EventAdded
  <2> QED
    BY <2>3, <1>13, <1>0 DEF StageValidating, Goto, TypeOK, AtStep, TrySteps, ExceptSteps, Outside, stream
<1>14. ASSUME CompleteText PROVE TypeOK'
  BY <1>14, <1>0 DEF CompleteText, SettleText, Goto, TypeOK, AtStep, TrySteps, ExceptSteps, tables, Outside, stream, Status, Active, Ended, RuntimeStatus, Rejected
<1>15. ASSUME Parse PROVE TypeOK'
  BY <1>15, <1>0 DEF Parse, SetRuntime, Goto, Rejected, TypeOK, AtStep, TrySteps, ExceptSteps, tables, Outside, stream, Status, Active, Ended, RuntimeStatus, Rejected
<1>16. ASSUME Validate PROVE TypeOK'
  <2>1. cur \in Sessions
    BY <1>16, <1>0 DEF Validate, ScriptInv, RunnerFits
  <2>2. CASE SetRuntime(cur, "VALIDATION_FAILED") /\ Goto("rejected")
    BY <2>2, <1>0 DEF SetRuntime, Goto, TypeOK, AtStep, TrySteps, Outside, stream,
                      RuntimeStatus, Rejected
  <2>3. CASE /\ runtime' = [runtime EXCEPT ![cur] = "SUCCEEDED"]
             /\ revisions' = [revisions EXCEPT ![cur] = @ + 1]
             /\ Goto("publish")
             /\ UNCHANGED <<status, events, textRun>>
    <3>1. revisions' \in [Sessions -> Nat] /\ runtime' \in [Sessions -> RuntimeStatus]
      BY <2>1, <2>3, <1>0 DEF TypeOK, RuntimeStatus
    <3> QED
      BY <3>1, <2>3, <1>0 DEF Goto, TypeOK, AtStep, TrySteps, Outside, stream
  <2> QED
    BY <2>2, <2>3, <1>16 DEF Validate
<1>17. ASSUME RejectedEvent PROVE TypeOK'
  <2>1. cur \in Sessions /\ "failed" \in EventType
    BY <1>17, <1>0 DEF RejectedEvent, Goto, ScriptInv, RunnerFits, EarlySteps, LostSteps, PublishedSteps, EventType, AtStep, TrySteps, ExceptSteps
  <2>2. AppendEvent(cur, "failed")
    BY <1>17 DEF RejectedEvent, Goto
  <2>3. /\ events' \in [Sessions -> Seq(EventType)]
        /\ UNCHANGED <<status, textRun, runtime, revisions>>
    BY <2>1, <2>2, <1>0, EventAdded
  <2> QED
    BY <2>3, <1>17, <1>0 DEF RejectedEvent, Goto, TypeOK, AtStep, TrySteps, ExceptSteps, Outside, stream
<1>18. ASSUME RejectedStatus PROVE TypeOK'
  BY <1>18, <1>0 DEF RejectedStatus, Transition, Finish, TypeOK, AtStep, TrySteps, ExceptSteps, tables, Outside, stream, Status, Active, Ended, RuntimeStatus, Rejected
<1>19. ASSUME PublishEvent PROVE TypeOK'
  <2>1. cur \in Sessions /\ "revision_completed" \in EventType
    BY <1>19, <1>0 DEF PublishEvent, Goto, ScriptInv, RunnerFits, EarlySteps, LostSteps, PublishedSteps, EventType, AtStep, TrySteps, ExceptSteps
  <2>2. AppendEvent(cur, "revision_completed")
    BY <1>19 DEF PublishEvent, Goto
  <2>3. /\ events' \in [Sessions -> Seq(EventType)]
        /\ UNCHANGED <<status, textRun, runtime, revisions>>
    BY <2>1, <2>2, <1>0, EventAdded
  <2> QED
    BY <2>3, <1>19, <1>0 DEF PublishEvent, Goto, TypeOK, AtStep, TrySteps, ExceptSteps, Outside, stream
<1>20. ASSUME PublishStatus PROVE TypeOK'
  BY <1>20, <1>0 DEF PublishStatus, Transition, Finish, TypeOK, AtStep, TrySteps, ExceptSteps, tables, Outside, stream, Status, Active, Ended, RuntimeStatus, Rejected
<1>21. ASSUME FailEvent PROVE TypeOK'
  <2>1. cur \in Sessions /\ status[cur] \notin Ended /\ "failed" \in EventType
    BY <1>21, <1>0 DEF FailEvent, ScriptInv, RunnerFits, EventType, Active, Ended
  <2>2. /\ events' \in [Sessions -> Seq(EventType)]
        /\ UNCHANGED <<status, textRun, runtime, revisions>>
    <3>1. CASE AppendEvent(cur, "failed")
      BY <3>1, <2>1, <1>0, EventAdded
    <3>2. CASE UNCHANGED tables
      BY <3>2, <1>0 DEF tables, TypeOK
    <3> QED
      BY <3>1, <3>2, <2>1, <1>21 DEF FailEvent
  <2>3. at' \in {"failText", "exceptText"} /\ UNCHANGED <<stream, Outside>>
    BY <2>1, <1>21 DEF FailEvent, Goto
  <2> QED
    BY <2>2, <2>3, <1>0 DEF TypeOK, AtStep, TrySteps, ExceptSteps, Outside, stream
<1>22. ASSUME FailText PROVE TypeOK'
  BY <1>22, <1>0 DEF FailText, SettleText, Goto, TypeOK, AtStep, TrySteps, ExceptSteps, tables, Outside, stream, Status, Active, Ended, RuntimeStatus, Rejected
<1>23. ASSUME FailStatus PROVE TypeOK'
  BY <1>23, <1>0 DEF FailStatus, Transition, Finish, TypeOK, AtStep, TrySteps, ExceptSteps, tables, Outside, stream, Status, Active, Ended, RuntimeStatus, Rejected
<1>24. ASSUME Except PROVE TypeOK'
  BY <1>24, <1>0 DEF Except, Goto, TypeOK, AtStep, TrySteps, ExceptSteps, tables, Outside, stream, Status, Active, Ended, RuntimeStatus, Rejected
<1>25. ASSUME RescueEvent PROVE TypeOK'
  <2>1. CASE AppendEvent(cur, "revision_completed")
    <3>1. cur \in Sessions /\ "revision_completed" \in EventType
      BY <1>25, <1>0 DEF RescueEvent, Goto, ScriptInv, RunnerFits, EarlySteps, LostSteps, PublishedSteps, EventType, AtStep, TrySteps, ExceptSteps
    <3>2. AppendEvent(cur, "revision_completed")
      BY <2>1, <1>25 DEF RescueEvent, Goto
    <3>3. /\ events' \in [Sessions -> Seq(EventType)]
          /\ UNCHANGED <<status, textRun, runtime, revisions>>
      BY <3>1, <3>2, <1>0, EventAdded
    <3> QED
      BY <3>3, <1>25, <1>0 DEF RescueEvent, Goto, TypeOK, AtStep, TrySteps, ExceptSteps, Outside, stream
  <2>2. CASE Has(cur, "revision_completed") /\ UNCHANGED tables
    BY <2>2, <1>25, <1>0 DEF RescueEvent, Goto, TypeOK, AtStep, TrySteps, ExceptSteps, tables, Outside, stream
  <2> QED
    BY <2>1, <2>2, <1>25 DEF RescueEvent, Goto
<1>26. ASSUME RescueStatus PROVE TypeOK'
  BY <1>26, <1>0 DEF RescueStatus, Transition, Finish, TypeOK, AtStep, TrySteps, ExceptSteps, tables, Outside, stream, Status, Active, Ended, RuntimeStatus, Rejected
<1>27. ASSUME FailEventLost PROVE TypeOK'
  BY <1>27, <1>0 DEF FailEventLost, TypeOK, AtStep, TrySteps, ExceptSteps, tables, Outside, stream, Status, Active, Ended, RuntimeStatus, Rejected
<1>28. ASSUME Raise PROVE TypeOK'
  BY <1>28, <1>0 DEF Raise, TypeOK, AtStep, TrySteps, ExceptSteps, tables, Outside, stream, Status, Active, Ended, RuntimeStatus, Rejected
<1>29. ASSUME RunnerDies PROVE TypeOK'
  BY <1>29, <1>0 DEF RunnerDies, TypeOK, AtStep, TrySteps, ExceptSteps, tables, Outside, stream, Status, Active, Ended, RuntimeStatus, Rejected
<1>30. ASSUME Boot PROVE TypeOK'
  BY <1>30, <1>0 DEF Boot, TypeOK, AtStep, TrySteps, ExceptSteps, tables, Outside, stream, Status, Active, Ended, RuntimeStatus, Rejected
<1>31. ASSUME NEW s \in Sessions, RecoverEvent(s) PROVE TypeOK'
  <2>1. s \in Sessions /\ Outcome(s) \in EventType
    BY <1>31, <1>0 DEF RecoverEvent, Recovering, Decided, Outcome, Rejected, ScriptInv, RunnerFits, EarlySteps, LostSteps, PublishedSteps, EventType, AtStep, TrySteps, ExceptSteps
  <2>2. AppendEvent(s, Outcome(s))
    BY <1>31 DEF RecoverEvent, Recovering, Decided, Outcome, Rejected
  <2>3. /\ events' \in [Sessions -> Seq(EventType)]
        /\ UNCHANGED <<status, textRun, runtime, revisions>>
    BY <2>1, <2>2, <1>0, EventAdded
  <2> QED
    BY <2>3, <1>31, <1>0 DEF RecoverEvent, Recovering, Decided, Outcome, Rejected, TypeOK, AtStep, TrySteps, ExceptSteps, Outside, stream
<1>32. ASSUME NEW s \in Sessions, RecoverStatus(s) PROVE TypeOK'
  BY <1>32, <1>0 DEF RecoverStatus, Recovering, Transition, Decided, Outcome, Rejected, TypeOK, AtStep, TrySteps, ExceptSteps, tables, Outside, stream, Status, Active, Ended, RuntimeStatus, Rejected
<1>33. ASSUME NEW s \in Sessions, UnknownEvent(s) PROVE TypeOK'
  <2>1. s \in Sessions /\ "failed" \in EventType
    BY <1>33, <1>0 DEF UnknownEvent, Recovering, Decided, Outcome, Unresolved, Rejected, ScriptInv, RunnerFits, EarlySteps, LostSteps, PublishedSteps, EventType, AtStep, TrySteps, ExceptSteps
  <2>2. AppendEvent(s, "failed")
    BY <1>33 DEF UnknownEvent, Recovering, Decided, Outcome, Unresolved, Rejected
  <2>3. /\ events' \in [Sessions -> Seq(EventType)]
        /\ UNCHANGED <<status, textRun, runtime, revisions>>
    BY <2>1, <2>2, <1>0, EventAdded
  <2> QED
    BY <2>3, <1>33, <1>0 DEF UnknownEvent, Recovering, Decided, Outcome, Unresolved, Rejected, TypeOK, AtStep, TrySteps, ExceptSteps, Outside, stream
<1>34. ASSUME RecoverDone PROVE TypeOK'
  BY <1>34, <1>0 DEF RecoverDone, Recovering, Decided, Outcome, Unresolved, TypeOK, AtStep, TrySteps, ExceptSteps, tables, Outside, stream, Status, Active, Ended, RuntimeStatus, Rejected
<1>35. ASSUME Crash PROVE TypeOK'
  BY <1>35, <1>0 DEF Crash, TypeOK, AtStep, TrySteps, ExceptSteps, tables, Outside, stream, Status, Active, Ended, RuntimeStatus, Rejected
<1>36. CASE UNCHANGED vars
  BY <1>36, <1>0 DEF vars, tables, stream, TypeOK
<1> QED
  BY <1>1, <1>2, <1>3, <1>4, <1>5, <1>6, <1>7, <1>8, <1>9, <1>10, <1>11, <1>12, <1>13, <1>14, <1>15, <1>16, <1>17, <1>18, <1>19, <1>20, <1>21, <1>22, <1>23, <1>24, <1>25, <1>26, <1>27, <1>28, <1>29, <1>30, <1>31, <1>32, <1>33, <1>34, <1>35, <1>36 DEF Next, Alive, Start, Runner, Recovery

LEMMA RowsStep == ScriptInv /\ [Next]_vars => (\A z \in Sessions : SessionFits(z)') /\ RunnerFits'
<1> SUFFICES ASSUME ScriptInv, [Next]_vars
             PROVE  (\A z \in Sessions : SessionFits(z)') /\ RunnerFits'
  OBVIOUS
<1> USE SessionsAssumption
<1>0. TypeOK /\ RunnerFits /\ \A z \in Sessions : SessionFits(z)
  BY DEF ScriptInv
<1> DEFINE Goal == (\A z \in Sessions : SessionFits(z)') /\ RunnerFits'
<1> SUFFICES Goal
  OBVIOUS
<1>1. ASSUME NEW s \in Sessions, PrepareInputs(s) PROVE Goal
  <2>1. \A z \in Sessions, y \in EventType : Has(z, y)' <=> Has(z, y)
    BY <1>1, LogsKept DEF PrepareInputs, SetRuntime, tables
  <2> QED
    BY <2>1, <1>1, <1>0 DEF PrepareInputs, SetRuntime, SessionFits, RunnerFits, EarlySteps, LostSteps, PublishedSteps, Status, Active, Ended, tables, Outside, stream, AtStep, TrySteps, ExceptSteps, TypeOK, EventType
<1>2. ASSUME Enqueue PROVE Goal
  <2>1. \A z \in Sessions, y \in EventType : Has(z, y)' <=> Has(z, y)
    BY <1>2, LogsKept DEF Enqueue, tables
  <2> QED
    BY <2>1, <1>2, <1>0 DEF Enqueue, SessionFits, RunnerFits, EarlySteps, LostSteps, PublishedSteps, Status, Active, Ended, tables, Outside, stream, AtStep, TrySteps, ExceptSteps, TypeOK, EventType
<1>3. ASSUME StartFails PROVE Goal
  <2>1. \A z \in Sessions, y \in EventType : Has(z, y)' <=> Has(z, y)
    BY <1>3, LogsKept DEF StartFails, tables
  <2> QED
    BY <2>1, <1>3, <1>0 DEF StartFails, SessionFits, RunnerFits, EarlySteps, LostSteps, PublishedSteps, Status, Active, Ended, tables, Outside, stream, AtStep, TrySteps, ExceptSteps, TypeOK, EventType
<1>4. ASSUME NEW s \in Sessions, Claim(s) PROVE Goal
  <2>1. \A z \in Sessions, y \in EventType : Has(z, y)' <=> Has(z, y)
    BY <1>4, LogsKept DEF Claim, Transition, tables
  <2> QED
    BY <2>1, <1>4, <1>0 DEF Claim, Transition, SessionFits, RunnerFits, EarlySteps, LostSteps, PublishedSteps, Status, Active, Ended, tables, Outside, stream, AtStep, TrySteps, ExceptSteps, TypeOK, EventType
<1>5. ASSUME Submit PROVE Goal
  <2>1. \A z \in Sessions, y \in EventType : Has(z, y)' <=> Has(z, y)
    BY <1>5, LogsKept DEF Submit, tables
  <2> QED
    BY <2>1, <1>5, <1>0 DEF Submit, SessionFits, RunnerFits, EarlySteps, LostSteps, PublishedSteps, Status, Active, Ended, tables, Outside, stream, AtStep, TrySteps, ExceptSteps, TypeOK, EventType
<1>6. ASSUME StartedFrame PROVE Goal
  <2>1. \A z \in Sessions, y \in EventType : Has(z, y)' <=> Has(z, y)
    BY <1>6, LogsKept DEF StartedFrame, NextFrame, Transition, tables
  <2> QED
    BY <2>1, <1>6, <1>0 DEF StartedFrame, NextFrame, Transition, SessionFits, RunnerFits, EarlySteps, LostSteps, PublishedSteps, Status, Active, Ended, tables, Outside, stream, AtStep, TrySteps, ExceptSteps, TypeOK, EventType
<1>7. ASSUME TextFrame PROVE Goal
  <2>1. CASE AppendEvent(cur, "text_delta")
    <3>1. cur \in Sessions /\ "text_delta" \in EventType
      BY <1>7, <1>0 DEF TextFrame, NextFrame, RunnerFits, EarlySteps, LostSteps, PublishedSteps, EventType, AtStep, TrySteps, ExceptSteps
    <3>2. AppendEvent(cur, "text_delta")
      BY <2>1, <1>7 DEF TextFrame, NextFrame
    <3>3. /\ \A z \in Sessions, y \in EventType :
                 Has(z, y)' <=> Has(z, y) \/ (z = cur /\ y = "text_delta")
          /\ UNCHANGED <<status, textRun, runtime, revisions>>
      BY <3>1, <3>2, <1>0, EventAdded
    <3> QED
      BY <3>1, <3>3, <1>7, <1>0 DEF TextFrame, NextFrame, SessionFits, RunnerFits, EarlySteps, LostSteps, PublishedSteps, Status, Active, Ended, Outside, stream, AtStep, TrySteps, ExceptSteps, EventType
  <2>2. CASE UNCHANGED tables
    <3>1. \A z \in Sessions, y \in EventType : Has(z, y)' <=> Has(z, y)
      BY <2>2, LogsKept DEF tables
    <3> QED
      BY <3>1, <2>2, <1>7, <1>0 DEF TextFrame, NextFrame, SessionFits, RunnerFits, EarlySteps, LostSteps, PublishedSteps, Status, Active, Ended, tables, Outside, stream, AtStep, TrySteps, ExceptSteps, TypeOK, EventType
  <2> QED
    BY <2>1, <2>2, <1>7 DEF TextFrame, NextFrame
<1>8. ASSUME UsageFrame PROVE Goal
  <2>1. cur \in Sessions /\ "usage" \in EventType
    BY <1>8, <1>0 DEF UsageFrame, NextFrame, RunnerFits, EarlySteps, LostSteps, PublishedSteps, EventType, AtStep, TrySteps, ExceptSteps
  <2>2. AppendEvent(cur, "usage")
    BY <1>8 DEF UsageFrame, NextFrame
  <2>3. /\ \A z \in Sessions, y \in EventType :
               Has(z, y)' <=> Has(z, y) \/ (z = cur /\ y = "usage")
        /\ UNCHANGED <<status, textRun, runtime, revisions>>
    BY <2>1, <2>2, <1>0, EventAdded
  <2> QED
    BY <2>1, <2>3, <1>8, <1>0 DEF UsageFrame, NextFrame, SessionFits, RunnerFits, EarlySteps, LostSteps, PublishedSteps, Status, Active, Ended, Outside, stream, AtStep, TrySteps, ExceptSteps, EventType
<1>9. ASSUME FailedFrame PROVE Goal
  <2>1. \A z \in Sessions, y \in EventType : Has(z, y)' <=> Has(z, y)
    BY <1>9, LogsKept DEF FailedFrame, tables
  <2> QED
    BY <2>1, <1>9, <1>0 DEF FailedFrame, SessionFits, RunnerFits, EarlySteps, LostSteps, PublishedSteps, Status, Active, Ended, tables, Outside, stream, AtStep, TrySteps, ExceptSteps, TypeOK, EventType
<1>10. ASSUME CompletedFrame PROVE Goal
  <2>1. \A z \in Sessions, y \in EventType : Has(z, y)' <=> Has(z, y)
    BY <1>10, LogsKept DEF CompletedFrame, Goto, tables
  <2> QED
    BY <2>1, <1>10, <1>0 DEF CompletedFrame, Goto, SessionFits, RunnerFits, EarlySteps, LostSteps, PublishedSteps, Status, Active, Ended, tables, Outside, stream, AtStep, TrySteps, ExceptSteps, TypeOK, EventType
<1>11. ASSUME ToFinalizing PROVE Goal
  <2>1. \A z \in Sessions, y \in EventType : Has(z, y)' <=> Has(z, y)
    BY <1>11, LogsKept DEF ToFinalizing, Transition, Goto, tables
  <2> QED
    BY <2>1, <1>11, <1>0 DEF ToFinalizing, Transition, Goto, SessionFits, RunnerFits, EarlySteps, LostSteps, PublishedSteps, Status, Active, Ended, tables, Outside, stream, AtStep, TrySteps, ExceptSteps, TypeOK, EventType
<1>12. ASSUME StageFinalizing PROVE Goal
  <2>1. cur \in Sessions /\ "stage" \in EventType
    BY <1>12, <1>0 DEF StageFinalizing, Goto, RunnerFits, EarlySteps, LostSteps, PublishedSteps, EventType, AtStep, TrySteps, ExceptSteps
  <2>2. AppendEvent(cur, "stage")
    BY <1>12 DEF StageFinalizing, Goto
  <2>3. /\ \A z \in Sessions, y \in EventType :
               Has(z, y)' <=> Has(z, y) \/ (z = cur /\ y = "stage")
        /\ UNCHANGED <<status, textRun, runtime, revisions>>
    BY <2>1, <2>2, <1>0, EventAdded
  <2> QED
    BY <2>1, <2>3, <1>12, <1>0 DEF StageFinalizing, Goto, SessionFits, RunnerFits, EarlySteps, LostSteps, PublishedSteps, Status, Active, Ended, Outside, stream, AtStep, TrySteps, ExceptSteps, EventType
<1>13. ASSUME StageValidating PROVE Goal
  <2>1. cur \in Sessions /\ "stage" \in EventType
    BY <1>13, <1>0 DEF StageValidating, Goto, RunnerFits, EarlySteps, LostSteps, PublishedSteps, EventType, AtStep, TrySteps, ExceptSteps
  <2>2. AppendEvent(cur, "stage")
    BY <1>13 DEF StageValidating, Goto
  <2>3. /\ \A z \in Sessions, y \in EventType :
               Has(z, y)' <=> Has(z, y) \/ (z = cur /\ y = "stage")
        /\ UNCHANGED <<status, textRun, runtime, revisions>>
    BY <2>1, <2>2, <1>0, EventAdded
  <2> QED
    BY <2>1, <2>3, <1>13, <1>0 DEF StageValidating, Goto, SessionFits, RunnerFits, EarlySteps, LostSteps, PublishedSteps, Status, Active, Ended, Outside, stream, AtStep, TrySteps, ExceptSteps, EventType
<1>14. ASSUME CompleteText PROVE Goal
  <2>1. \A z \in Sessions, y \in EventType : Has(z, y)' <=> Has(z, y)
    BY <1>14, LogsKept DEF CompleteText, SettleText, Goto, tables
  <2> QED
    BY <2>1, <1>14, <1>0 DEF CompleteText, SettleText, Goto, SessionFits, RunnerFits, EarlySteps, LostSteps, PublishedSteps, Status, Active, Ended, tables, Outside, stream, AtStep, TrySteps, ExceptSteps, TypeOK, EventType
<1>15. ASSUME Parse PROVE Goal
  <2>1. \A z \in Sessions, y \in EventType : Has(z, y)' <=> Has(z, y)
    BY <1>15, LogsKept DEF Parse, SetRuntime, Goto, Rejected, tables
  <2> QED
    BY <2>1, <1>15, <1>0 DEF Parse, SetRuntime, Goto, Rejected, SessionFits, RunnerFits, EarlySteps, LostSteps, PublishedSteps, Status, Active, Ended, tables, Outside, stream, AtStep, TrySteps, ExceptSteps, TypeOK, EventType
<1>16. ASSUME Validate PROVE Goal
  <2>1. \A z \in Sessions, y \in EventType : Has(z, y)' <=> Has(z, y)
    BY <1>16, LogsKept DEF Validate, SetRuntime, Goto, Rejected, tables
  <2> QED
    BY <2>1, <1>16, <1>0 DEF Validate, SetRuntime, Goto, Rejected, SessionFits, RunnerFits, EarlySteps, LostSteps, PublishedSteps, Status, Active, Ended, tables, Outside, stream, AtStep, TrySteps, ExceptSteps, TypeOK, EventType
<1>17. ASSUME RejectedEvent PROVE Goal
  <2>1. cur \in Sessions /\ "failed" \in EventType
    BY <1>17, <1>0 DEF RejectedEvent, Goto, RunnerFits, EarlySteps, LostSteps, PublishedSteps, EventType, AtStep, TrySteps, ExceptSteps
  <2>2. AppendEvent(cur, "failed")
    BY <1>17 DEF RejectedEvent, Goto
  <2>3. /\ \A z \in Sessions, y \in EventType :
               Has(z, y)' <=> Has(z, y) \/ (z = cur /\ y = "failed")
        /\ UNCHANGED <<status, textRun, runtime, revisions>>
    BY <2>1, <2>2, <1>0, EventAdded
  <2> QED
    BY <2>1, <2>3, <1>17, <1>0 DEF RejectedEvent, Goto, SessionFits, RunnerFits, EarlySteps, LostSteps, PublishedSteps, Status, Active, Ended, Outside, stream, AtStep, TrySteps, ExceptSteps, EventType
<1>18. ASSUME RejectedStatus PROVE Goal
  <2>1. \A z \in Sessions, y \in EventType : Has(z, y)' <=> Has(z, y)
    BY <1>18, LogsKept DEF RejectedStatus, Transition, Finish, tables
  <2> QED
    BY <2>1, <1>18, <1>0 DEF RejectedStatus, Transition, Finish, SessionFits, RunnerFits, EarlySteps, LostSteps, PublishedSteps, Status, Active, Ended, tables, Outside, stream, AtStep, TrySteps, ExceptSteps, TypeOK, EventType
<1>19. ASSUME PublishEvent PROVE Goal
  <2>1. cur \in Sessions /\ "revision_completed" \in EventType
    BY <1>19, <1>0 DEF PublishEvent, Goto, RunnerFits, EarlySteps, LostSteps, PublishedSteps, EventType, AtStep, TrySteps, ExceptSteps
  <2>2. AppendEvent(cur, "revision_completed")
    BY <1>19 DEF PublishEvent, Goto
  <2>3. /\ \A z \in Sessions, y \in EventType :
               Has(z, y)' <=> Has(z, y) \/ (z = cur /\ y = "revision_completed")
        /\ UNCHANGED <<status, textRun, runtime, revisions>>
    BY <2>1, <2>2, <1>0, EventAdded
  <2> QED
    BY <2>1, <2>3, <1>19, <1>0 DEF PublishEvent, Goto, SessionFits, RunnerFits, EarlySteps, LostSteps, PublishedSteps, Status, Active, Ended, Outside, stream, AtStep, TrySteps, ExceptSteps, EventType
<1>20. ASSUME PublishStatus PROVE Goal
  <2>1. \A z \in Sessions, y \in EventType : Has(z, y)' <=> Has(z, y)
    BY <1>20, LogsKept DEF PublishStatus, Transition, Finish, tables
  <2> QED
    BY <2>1, <1>20, <1>0 DEF PublishStatus, Transition, Finish, SessionFits, RunnerFits, EarlySteps, LostSteps, PublishedSteps, Status, Active, Ended, tables, Outside, stream, AtStep, TrySteps, ExceptSteps, TypeOK, EventType
<1>21. ASSUME FailEvent PROVE Goal
  <2>1. CASE AppendEvent(cur, "failed")
    <3>1. cur \in Sessions /\ "failed" \in EventType
      BY <1>21, <1>0 DEF FailEvent, Goto, Finish, RunnerFits, EarlySteps, LostSteps, PublishedSteps, EventType, AtStep, TrySteps, ExceptSteps
    <3>2. AppendEvent(cur, "failed")
      BY <2>1, <1>21 DEF FailEvent, Goto, Finish
    <3>3. /\ \A z \in Sessions, y \in EventType :
                 Has(z, y)' <=> Has(z, y) \/ (z = cur /\ y = "failed")
          /\ UNCHANGED <<status, textRun, runtime, revisions>>
      BY <3>1, <3>2, <1>0, EventAdded
    <3> QED
      BY <3>1, <3>3, <1>21, <1>0 DEF FailEvent, Goto, Finish, SessionFits, RunnerFits, EarlySteps, LostSteps, PublishedSteps, Status, Active, Ended, Outside, stream, AtStep, TrySteps, ExceptSteps, EventType
  <2>2. CASE UNCHANGED tables
    <3>1. \A z \in Sessions, y \in EventType : Has(z, y)' <=> Has(z, y)
      BY <2>2, LogsKept DEF tables
    <3> QED
      BY <3>1, <2>2, <1>21, <1>0 DEF FailEvent, Goto, Finish, SessionFits, RunnerFits, EarlySteps, LostSteps, PublishedSteps, Status, Active, Ended, tables, Outside, stream, AtStep, TrySteps, ExceptSteps, TypeOK, EventType
  <2> QED
    BY <2>1, <2>2, <1>21 DEF FailEvent, Goto, Finish
<1>22. ASSUME FailText PROVE Goal
  <2>1. \A z \in Sessions, y \in EventType : Has(z, y)' <=> Has(z, y)
    BY <1>22, LogsKept DEF FailText, SettleText, Goto, tables
  <2> QED
    BY <2>1, <1>22, <1>0 DEF FailText, SettleText, Goto, SessionFits, RunnerFits, EarlySteps, LostSteps, PublishedSteps, Status, Active, Ended, tables, Outside, stream, AtStep, TrySteps, ExceptSteps, TypeOK, EventType
<1>23. ASSUME FailStatus PROVE Goal
  <2>1. \A z \in Sessions, y \in EventType : Has(z, y)' <=> Has(z, y)
    BY <1>23, LogsKept DEF FailStatus, Transition, Finish, tables
  <2> QED
    BY <2>1, <1>23, <1>0 DEF FailStatus, Transition, Finish, SessionFits, RunnerFits, EarlySteps, LostSteps, PublishedSteps, Status, Active, Ended, tables, Outside, stream, AtStep, TrySteps, ExceptSteps, TypeOK, EventType
<1>24. ASSUME Except PROVE Goal
  <2>1. \A z \in Sessions, y \in EventType : Has(z, y)' <=> Has(z, y)
    BY <1>24, LogsKept DEF Except, Goto, tables
  <2> QED
    BY <2>1, <1>24, <1>0 DEF Except, Goto, SessionFits, RunnerFits, EarlySteps, LostSteps, PublishedSteps, Status, Active, Ended, tables, Outside, stream, AtStep, TrySteps, ExceptSteps, TypeOK, EventType
<1>25. ASSUME RescueEvent PROVE Goal
  <2>1. CASE AppendEvent(cur, "revision_completed")
    <3>1. cur \in Sessions /\ "revision_completed" \in EventType
      BY <1>25, <1>0 DEF RescueEvent, Goto, RunnerFits, EarlySteps, LostSteps, PublishedSteps, EventType, AtStep, TrySteps, ExceptSteps
    <3>2. AppendEvent(cur, "revision_completed")
      BY <2>1, <1>25 DEF RescueEvent, Goto
    <3>3. /\ \A z \in Sessions, y \in EventType :
                 Has(z, y)' <=> Has(z, y) \/ (z = cur /\ y = "revision_completed")
          /\ UNCHANGED <<status, textRun, runtime, revisions>>
      BY <3>1, <3>2, <1>0, EventAdded
    <3> QED
      BY <3>1, <3>3, <1>25, <1>0 DEF RescueEvent, Goto, SessionFits, RunnerFits, EarlySteps, LostSteps, PublishedSteps, Status, Active, Ended, Outside, stream, AtStep, TrySteps, ExceptSteps, EventType
  <2>2. CASE Has(cur, "revision_completed") /\ UNCHANGED tables
    <3>1. \A z \in Sessions, y \in EventType : Has(z, y)' <=> Has(z, y)
      BY <2>2, LogsKept DEF tables
    <3> QED
      BY <3>1, <2>2, <1>25, <1>0 DEF RescueEvent, Goto, SessionFits, RunnerFits, EarlySteps, LostSteps, PublishedSteps, Status, Active, Ended, tables, Outside, stream, AtStep, TrySteps, ExceptSteps, TypeOK, EventType
  <2> QED
    BY <2>1, <2>2, <1>25 DEF RescueEvent, Goto
<1>26. ASSUME RescueStatus PROVE Goal
  <2>1. \A z \in Sessions, y \in EventType : Has(z, y)' <=> Has(z, y)
    BY <1>26, LogsKept DEF RescueStatus, Transition, Finish, tables
  <2> QED
    BY <2>1, <1>26, <1>0 DEF RescueStatus, Transition, Finish, SessionFits, RunnerFits, EarlySteps, LostSteps, PublishedSteps, Status, Active, Ended, tables, Outside, stream, AtStep, TrySteps, ExceptSteps, TypeOK, EventType
<1>27. ASSUME FailEventLost PROVE Goal
  <2>1. \A z \in Sessions, y \in EventType : Has(z, y)' <=> Has(z, y)
    BY <1>27, LogsKept DEF FailEventLost, tables
  <2> QED
    BY <2>1, <1>27, <1>0 DEF FailEventLost, SessionFits, RunnerFits, EarlySteps, LostSteps, PublishedSteps, Status, Active, Ended, tables, Outside, stream, AtStep, TrySteps, ExceptSteps, TypeOK, EventType
<1>28. ASSUME Raise PROVE Goal
  <2>1. \A z \in Sessions, y \in EventType : Has(z, y)' <=> Has(z, y)
    BY <1>28, LogsKept DEF Raise, tables
  <2> QED
    BY <2>1, <1>28, <1>0 DEF Raise, SessionFits, RunnerFits, EarlySteps, LostSteps, PublishedSteps, Status, Active, Ended, tables, Outside, stream, AtStep, TrySteps, ExceptSteps, TypeOK, EventType
<1>29. ASSUME RunnerDies PROVE Goal
  <2>1. \A z \in Sessions, y \in EventType : Has(z, y)' <=> Has(z, y)
    BY <1>29, LogsKept DEF RunnerDies, tables
  <2> QED
    BY <2>1, <1>29, <1>0 DEF RunnerDies, SessionFits, RunnerFits, EarlySteps, LostSteps, PublishedSteps, Status, Active, Ended, tables, Outside, stream, AtStep, TrySteps, ExceptSteps, TypeOK, EventType
<1>30. ASSUME Boot PROVE Goal
  <2>1. \A z \in Sessions, y \in EventType : Has(z, y)' <=> Has(z, y)
    BY <1>30, LogsKept DEF Boot, tables
  <2> QED
    BY <2>1, <1>30, <1>0 DEF Boot, SessionFits, RunnerFits, EarlySteps, LostSteps, PublishedSteps, Status, Active, Ended, tables, Outside, stream, AtStep, TrySteps, ExceptSteps, TypeOK, EventType
<1>31. ASSUME NEW s \in Sessions, RecoverEvent(s) PROVE Goal
  <2>1. s \in Sessions /\ Outcome(s) \in EventType
    BY <1>31, <1>0 DEF RecoverEvent, Recovering, Decided, Outcome, Rejected, RunnerFits, EarlySteps, LostSteps, PublishedSteps, EventType, AtStep, TrySteps, ExceptSteps
  <2>2. AppendEvent(s, Outcome(s))
    BY <1>31 DEF RecoverEvent, Recovering, Decided, Outcome, Rejected
  <2>3. /\ \A z \in Sessions, y \in EventType :
               Has(z, y)' <=> Has(z, y) \/ (z = s /\ y = Outcome(s))
        /\ UNCHANGED <<status, textRun, runtime, revisions>>
    BY <2>1, <2>2, <1>0, EventAdded
  <2> QED
    BY <2>1, <2>3, <1>31, <1>0 DEF RecoverEvent, Recovering, Decided, Outcome, Rejected, SessionFits, RunnerFits, EarlySteps, LostSteps, PublishedSteps, Status, Active, Ended, Outside, stream, AtStep, TrySteps, ExceptSteps, EventType
<1>32. ASSUME NEW s \in Sessions, RecoverStatus(s) PROVE Goal
  <2>1. \A z \in Sessions, y \in EventType : Has(z, y)' <=> Has(z, y)
    BY <1>32, LogsKept DEF RecoverStatus, Recovering, Transition, Decided, Outcome, Rejected, tables
  <2> QED
    BY <2>1, <1>32, <1>0 DEF RecoverStatus, Recovering, Transition, Decided, Outcome, Rejected, SessionFits, RunnerFits, EarlySteps, LostSteps, PublishedSteps, Status, Active, Ended, tables, Outside, stream, AtStep, TrySteps, ExceptSteps, TypeOK, EventType
<1>33. ASSUME NEW s \in Sessions, UnknownEvent(s) PROVE Goal
  <2>1. s \in Sessions /\ "failed" \in EventType
    BY <1>33, <1>0 DEF UnknownEvent, Recovering, Decided, Outcome, Unresolved, Rejected, RunnerFits, EarlySteps, LostSteps, PublishedSteps, EventType, AtStep, TrySteps, ExceptSteps
  <2>2. AppendEvent(s, "failed")
    BY <1>33 DEF UnknownEvent, Recovering, Decided, Outcome, Unresolved, Rejected
  <2>3. /\ \A z \in Sessions, y \in EventType :
               Has(z, y)' <=> Has(z, y) \/ (z = s /\ y = "failed")
        /\ UNCHANGED <<status, textRun, runtime, revisions>>
    BY <2>1, <2>2, <1>0, EventAdded
  <2> QED
    BY <2>1, <2>3, <1>33, <1>0 DEF UnknownEvent, Recovering, Decided, Outcome, Unresolved, Rejected, SessionFits, RunnerFits, EarlySteps, LostSteps, PublishedSteps, Status, Active, Ended, Outside, stream, AtStep, TrySteps, ExceptSteps, EventType
<1>34. ASSUME RecoverDone PROVE Goal
  <2>1. \A z \in Sessions, y \in EventType : Has(z, y)' <=> Has(z, y)
    BY <1>34, LogsKept DEF RecoverDone, Recovering, Decided, Outcome, Unresolved, tables
  <2> QED
    BY <2>1, <1>34, <1>0 DEF RecoverDone, Recovering, Decided, Outcome, Unresolved, SessionFits, RunnerFits, EarlySteps, LostSteps, PublishedSteps, Status, Active, Ended, tables, Outside, stream, AtStep, TrySteps, ExceptSteps, TypeOK, EventType
<1>35. ASSUME Crash PROVE Goal
  <2>1. \A z \in Sessions, y \in EventType : Has(z, y)' <=> Has(z, y)
    BY <1>35, LogsKept DEF Crash, tables
  <2> QED
    BY <2>1, <1>35, <1>0 DEF Crash, SessionFits, RunnerFits, EarlySteps, LostSteps, PublishedSteps, Status, Active, Ended, tables, Outside, stream, AtStep, TrySteps, ExceptSteps, TypeOK, EventType
<1>36. CASE UNCHANGED vars
  <2>1. \A z \in Sessions, y \in EventType : Has(z, y)' <=> Has(z, y)
    BY <1>36, LogsKept DEF vars, tables
  <2> QED
    BY <2>1, <1>36, <1>0 DEF vars, tables, Outside, stream, SessionFits, RunnerFits, EarlySteps, LostSteps, PublishedSteps, EventType
<1> QED
  BY <1>1, <1>2, <1>3, <1>4, <1>5, <1>6, <1>7, <1>8, <1>9, <1>10, <1>11, <1>12, <1>13, <1>14, <1>15, <1>16, <1>17, <1>18, <1>19, <1>20, <1>21, <1>22, <1>23, <1>24, <1>25, <1>26, <1>27, <1>28, <1>29, <1>30, <1>31, <1>32, <1>33, <1>34, <1>35, <1>36 DEF Next, Alive, Start, Runner, Recovery
-----------------------------------------------------------------------------
(* Theorems *)

LEMMA ScriptStart == Init => ScriptInv
<1> SUFFICES ASSUME Init PROVE ScriptInv
  OBVIOUS
<1>1. \A s \in Sessions, y \in EventType : ~Has(s, y)
  BY DEF Init, Has, Contains
<1>2. TypeOK
  <2>1. events \in [Sessions -> Seq(EventType)]
    BY DEF Init
  <2>2. heading \in BOOLEAN
    BY DEF Init
  <2> QED
    BY <2>1, <2>2 DEF Init, TypeOK, Status, RuntimeStatus, AtStep
<1>3. ASSUME NEW s \in Sessions PROVE SessionFits(s)
  BY <1>1 DEF Init, SessionFits, EventType
<1>4. RunnerFits
  BY DEF Init, RunnerFits
<1> QED
  BY <1>2, <1>3, <1>4 DEF ScriptInv

LEMMA ScriptStep == ScriptInv /\ [Next]_vars => ScriptInv'
BY TypeStep, RowsStep DEF ScriptInv

\* The rows of every session agree with each other and with what the runner is
\* at, whatever raises, whoever starts sessions and whenever the process dies.
THEOREM ScriptInvariant == Spec => []ScriptInv
BY ScriptStart, ScriptStep, PTL DEF Spec

\* The supplier is called at most once for a session.
THEOREM ScriptSubmittedOnce == Spec => []SubmittedOnce
<1>1. ScriptInv => SubmittedOnce
  BY DEF ScriptInv, SubmittedOnce, SessionFits
<1> QED
  BY <1>1, ScriptInvariant, PTL

\* A session ends as completed exactly when its revision is in the chain.
THEOREM ScriptEndsTruly == Spec => []EndAgreesWithChain
<1>1. ScriptInv => EndAgreesWithChain
  BY DEF ScriptInv, EndAgreesWithChain, SessionFits, Ended
<1> QED
  BY <1>1, ScriptInvariant, PTL

\* The log announces a revision only when there is one, and a failure only when
\* there is none.
THEOREM ScriptLogIsTrue == Spec => []LogAgreesWithChain
<1>1. ASSUME ScriptInv, NEW s \in Sessions
      PROVE  /\ Has(s, "revision_completed") => revisions[s] = 1
             /\ Has(s, "failed") => revisions[s] = 0
  <2>1. SessionFits(s) /\ revisions[s] \in Nat
    BY <1>1 DEF ScriptInv, TypeOK
  <2>2. Has(s, "revision_completed") => revisions[s] = 1
    BY <2>1 DEF SessionFits
  <2>3. Has(s, "failed") => revisions[s] = 0
    BY <2>1 DEF SessionFits
  <2> QED
    BY <2>2, <2>3
<1>2. ScriptInv => LogAgreesWithChain
  BY <1>1 DEF LogAgreesWithChain
<1> QED
  BY <1>2, ScriptInvariant, PTL

-----------------------------------------------------------------------------
(* The runner is not refused *)

\* Where the runner commits a compare and set, or reads its runtime run, the row is
\* as it expects: no step of it is refused, however requests, errors and restarts
\* come between.
NeverRefused ==
    /\ at = "claimed" => status[cur] = "submitting" /\ runtime[cur] = "RUNNING"
    /\ at = "completing" => status[cur] \in {"submitting", "streaming"}
    /\ at \in {"rejected", "rejectedStatus", "publish", "publishStatus", "rescue",
               "rescueStatus"} => status[cur] = "finalizing"
    /\ at \in {"failing", "failText", "failStatus", "exceptFailing", "exceptText",
               "exceptStatus"} => status[cur] \in Active

\* What they rest on.
QueueFits ==
    /\ \A s \in Sessions : status[s] = "prepared" => runtime[s] = "RUNNING"
    /\ starting # NoSession => runtime[starting] = "RUNNING"
    /\ at = "stream" => status[cur] \in {"submitting", "streaming"}

LEMMA RefusalStep ==
    ScriptInv /\ NeverRefused /\ QueueFits /\ [Next]_vars => NeverRefused' /\ QueueFits'
<1> SUFFICES ASSUME ScriptInv, NeverRefused, QueueFits, [Next]_vars
             PROVE  NeverRefused' /\ QueueFits'
  OBVIOUS
<1> DEFINE Fits == NeverRefused' /\ QueueFits'
<1> SUFFICES Fits
  OBVIOUS
<1> USE SessionsAssumption DEF ScriptInv, NeverRefused, QueueFits
<1>1. ASSUME NEW s \in Sessions, PrepareInputs(s) PROVE Fits
  BY <1>1 DEF PrepareInputs, SetRuntime, TypeOK, stream, RunnerFits, Active, AtStep, TrySteps,
              ExceptSteps
<1>2. CASE Enqueue
  BY <1>2 DEF Enqueue, TypeOK, stream, RunnerFits, Active, AtStep, TrySteps, ExceptSteps
<1>3. CASE StartFails \/ Boot
  BY <1>3 DEF StartFails, Boot, tables, stream
<1>4. ASSUME NEW s \in Sessions, Claim(s) PROVE Fits
  BY <1>4 DEF Claim, Transition, TypeOK, stream, Outside, RunnerFits
<1>5. CASE Submit
  BY <1>5 DEF Submit, tables, stream
<1>6. CASE StartedFrame \/ ToFinalizing
  BY <1>6 DEF StartedFrame, NextFrame, ToFinalizing, Transition, Goto, TypeOK, stream, Outside,
              RunnerFits
<1>7. CASE TextFrame \/ UsageFrame \/ StageFinalizing \/ StageValidating \/ PublishEvent
           \/ RejectedEvent
  BY <1>7 DEF TextFrame, UsageFrame, NextFrame, StageFinalizing, StageValidating, PublishEvent,
              RejectedEvent, AppendEvent, Goto, tables, stream, Outside
<1>8. CASE FailedFrame \/ CompletedFrame \/ Except
  BY <1>8 DEF FailedFrame, CompletedFrame, Except, Goto, tables, stream, Outside, RunnerFits,
              Active
<1>9. CASE CompleteText \/ FailText
  BY <1>9 DEF CompleteText, FailText, SettleText, Goto, stream, Outside
<1>10. CASE Parse \/ Validate
  <2>1. /\ cur \in Sessions /\ status[cur] = "finalizing" /\ status' = status
        /\ at' \in {"rejected", "checking", "publish"} /\ UNCHANGED <<stream, Outside>>
        /\ \A s \in Sessions : s # cur => runtime'[s] = runtime[s]
    BY <1>10 DEF Parse, Validate, SetRuntime, Goto, TypeOK, RunnerFits
  <2> QED
    BY <2>1 DEF stream, Outside, RunnerFits, Active, TypeOK
<1>11. CASE RejectedStatus \/ PublishStatus \/ FailStatus \/ RescueStatus
  BY <1>11 DEF RejectedStatus, PublishStatus, FailStatus, RescueStatus, Transition, Finish,
               TypeOK, Outside, RunnerFits
<1>12. CASE FailEvent \/ RescueEvent
  BY <1>12 DEF FailEvent, RescueEvent, AppendEvent, Finish, Goto, tables, stream, Outside,
               RunnerFits, Active, Ended
<1>13. CASE FailEventLost \/ RunnerDies \/ Raise
  BY <1>13 DEF FailEventLost, RunnerDies, Raise, tables, stream
<1>14. CASE Crash
  BY <1>14 DEF Crash, tables
<1>15. ASSUME NEW s \in Sessions, RecoverEvent(s) \/ UnknownEvent(s) PROVE Fits
  BY <1>15 DEF RecoverEvent, UnknownEvent, Recovering, AppendEvent, stream
<1>16. ASSUME NEW s \in Sessions, RecoverStatus(s) PROVE Fits
  BY <1>16 DEF RecoverStatus, Recovering, Transition, TypeOK, stream, RunnerFits
<1>17. CASE RecoverDone
  BY <1>17 DEF RecoverDone, Recovering, TypeOK, stream, RunnerFits
<1>18. CASE UNCHANGED vars
  BY <1>18 DEF vars, tables, stream
<1>19. CASE Start \/ Recovery
  BY <1>19, <1>1, <1>2, <1>3, <1>15, <1>16, <1>17 DEF Start, Recovery
<1>20. CASE Runner
  BY <1>20, <1>4, <1>5, <1>6, <1>7, <1>8, <1>9, <1>10, <1>11, <1>12 DEF Runner
<1> QED
  BY <1>13, <1>14, <1>18, <1>19, <1>20 DEF Next, Alive

\* No compare and set of the runner is ever refused.
THEOREM RunnerIsNeverRefused == Spec => []NeverRefused
<1>1. Init => NeverRefused /\ QueueFits
  BY DEF Init, NeverRefused, QueueFits
<1> QED
  BY <1>1, RefusalStep, ScriptInvariant, PTL DEF Spec

-----------------------------------------------------------------------------
(* The promise of a session *)

\* Once the stream is open the supplier has been asked.
AskedSteps == EarlySteps \ {"claimed"}
AskedFits == at \in AskedSteps => calls[cur] = 1

LEMMA AskedStep == ASSUME ScriptInv, AskedFits, [Next]_vars PROVE AskedFits'
<1> USE DEF AskedFits, AskedSteps, EarlySteps
<1>1. ASSUME Start \/ Recovery PROVE AskedFits'
  BY <1>1 DEF Start, Enqueue, StartFails, PrepareInputs, Recovery, Boot, RecoverDone, RecoverEvent,
              RecoverStatus, UnknownEvent, Recovering, stream
<1>2. ASSUME Submit PROVE AskedFits'
  BY <1>2 DEF Submit, stream, ScriptInv, TypeOK, RunnerFits
<1>3. ASSUME NEW s \in Sessions, Claim(s) PROVE AskedFits'
  BY <1>3 DEF Claim
<1>4. ASSUME StartedFrame \/ TextFrame \/ UsageFrame \/ FailedFrame \/ CompletedFrame
      PROVE  AskedFits'
  BY <1>4 DEF StartedFrame, TextFrame, UsageFrame, FailedFrame, CompletedFrame, NextFrame, Goto,
              Outside, stream
<1>5. ASSUME \/ ToFinalizing \/ StageFinalizing \/ StageValidating \/ CompleteText \/ Parse
             \/ Validate \/ RejectedEvent \/ PublishEvent \/ Except
      PROVE  AskedFits'
  BY <1>5 DEF ToFinalizing, StageFinalizing, StageValidating, CompleteText, Parse, Validate,
              RejectedEvent, PublishEvent, Except, Goto, Outside, stream
<1>6. ASSUME RejectedStatus \/ PublishStatus \/ FailStatus \/ RescueStatus PROVE AskedFits'
  BY <1>6 DEF RejectedStatus, PublishStatus, FailStatus, RescueStatus, Finish
<1>7. ASSUME FailEvent \/ FailText \/ RescueEvent PROVE AskedFits'
  BY <1>7 DEF FailEvent, FailText, RescueEvent, Finish, Goto
<1>8. ASSUME FailEventLost \/ Raise \/ RunnerDies \/ Crash PROVE AskedFits'
  BY <1>8 DEF FailEventLost, Raise, RunnerDies, Crash
<1>9. CASE UNCHANGED vars
  BY <1>9 DEF vars, stream
<1> QED
  BY <1>1, <1>2, <1>3, <1>4, <1>5, <1>6, <1>7, <1>8, <1>9 DEF Next, Alive, Runner

-----------------------------------------------------------------------------
Phases == [s \in Sessions |-> PhaseOf(s)]
Unseen == Phases' = Phases /\ UNCHANGED <<events, calls, revisions>>

LEMMA PhasesKept == ASSUME status' = status PROVE Phases' = Phases
BY DEF Phases, PhaseOf

LEMMA PhaseMoved ==
    ASSUME TypeOK, NEW s \in Sessions, NEW to \in Status, status' = [status EXCEPT ![s] = to]
    PROVE  Phases' = [Phases EXCEPT ![s] = PhaseIn(to)]
<1>1. \A z \in Sessions : status'[z] = IF z = s THEN to ELSE status[z]
  BY DEF TypeOK
<1>2. \A z \in Sessions : PhaseOf(z)' = IF z = s THEN PhaseIn(to) ELSE PhaseOf(z)
  BY <1>1 DEF PhaseOf, PhaseIn
<1> QED
  BY <1>2 DEF Phases

\* The session the runner works on may still be decided either way.
LEMMA EarlyIsUndecided ==
    ASSUME ScriptInv, at \in EarlySteps
    PROVE  cur \in Sessions /\ revisions[cur] = 0 /\ Promise!Undecided(cur)
<1>1. /\ cur \in Sessions /\ status[cur] \in Active /\ revisions[cur] = 0
      /\ ~Has(cur, "failed")
  BY DEF ScriptInv, RunnerFits, EarlySteps
<1>2. ~Has(cur, "revision_completed")
  BY <1>1 DEF ScriptInv, SessionFits
<1>3. Phases[cur] = "open"
  BY <1>1 DEF Phases, PhaseOf, PhaseIn, Active
<1>4. \A word \in {"revision_completed", "failed"} : ~Contains(events[cur], word)
  BY <1>1, <1>2 DEF Has
<1> QED
  BY <1>1, <1>3, <1>4 DEF Promise!Undecided, Promise!Told, Promise!LastWords, Promise!Contains,
                          Contains, Phases

\* A session that is given up by a restart has no result.
LEMMA UnresolvedHasNone ==
    ASSUME ScriptInv, Decided = {}, NEW s \in Unresolved
    PROVE  s \in Sessions /\ status[s] \in Active /\ revisions[s] = 0
<1>1. s \in Sessions /\ status[s] \in Active
  BY DEF Unresolved
<1>2. SessionFits(s) /\ revisions[s] \in Nat
  BY <1>1 DEF ScriptInv, TypeOK
<1>3. ASSUME revisions[s] = 1 PROVE FALSE
  <2>1. status[s] = "finalizing" /\ runtime[s] = "SUCCEEDED"
    BY <1>1, <1>2, <1>3 DEF SessionFits, Active
  <2>2. Outcome(s) # "none"
    BY <2>1, <1>3 DEF Outcome
  <2> QED
    BY <1>1, <2>1, <2>2 DEF Decided
<1> QED
  BY <1>1, <1>2, <1>3 DEF SessionFits

LEMMA ConcludeStep ==
    ASSUME TypeOK, NEW s \in Sessions, NEW word, AppendEvent(s, word), UNCHANGED calls,
           status[s] \in Active,
           word = IF revisions[s] = 1 THEN "revision_completed" ELSE "failed"
    PROVE  Promise!Conclude(s)
<1>1. Phases' = Phases
  BY PhasesKept DEF AppendEvent
<1>2. Phases[s] = "open"
  BY DEF Phases, PhaseOf, PhaseIn, Active
<1> QED
  BY <1>1, <1>2 DEF Promise!Conclude, AppendEvent, Phases

LEMMA CloseStep ==
    ASSUME ScriptInv, NEW s \in Sessions, NEW to \in {"completed", "failed"},
           Transition(s, {status[s]}, to), status[s] \in Active, UNCHANGED calls,
           to = "completed" <=> revisions[s] = 1,
           to = "completed" => Has(s, "revision_completed")
    PROVE  Promise!Close({s})
<1>1. Phases' = [Phases EXCEPT ![s] = to]
  <2>1. TypeOK /\ to \in Status /\ PhaseIn(to) = to
    BY DEF ScriptInv, Status, Ended, PhaseIn, Active
  <2> QED
    BY <2>1, PhaseMoved DEF Transition
<1>2. Phases[s] = "open"
  BY DEF Phases, PhaseOf, PhaseIn, Active
<1>3. Phases' = [z \in Sessions |-> IF z \notin {s} THEN Phases[z]
                                    ELSE IF revisions[z] = 1 THEN "completed" ELSE "failed"]
  BY <1>1 DEF Phases
<1>4. UNCHANGED <<events, calls, revisions>>
  BY DEF Transition
<1>5. revisions[s] = 1 => Promise!Told(s, "revision_completed")
  BY DEF Promise!Told, Promise!Contains, Has, Contains
<1> QED
  BY <1>2, <1>3, <1>4, <1>5 DEF Promise!Close, Phases

LEMMA UnseenStep ==
    ASSUME status' = status, UNCHANGED <<events, calls, revisions>>
    PROVE  UNCHANGED Promise!promiseVars
<1>1. Phases' = Phases
  BY PhasesKept
<1> QED
  BY <1>1 DEF Promise!promiseVars, Phases

\* The runner moves its session within the open ones.
LEMMA StaysOpen ==
    ASSUME TypeOK, NEW s \in Sessions, NEW from, NEW to \in Active,
           status[s] \in Active, Transition(s, from, to), UNCHANGED calls
    PROVE  UNCHANGED Promise!promiseVars
<1>1. Phases' = [Phases EXCEPT ![s] = "open"]
  <2>1. to \in Status /\ PhaseIn(to) = "open"
    BY DEF Status, PhaseIn, Active
  <2> QED
    BY <2>1, PhaseMoved DEF Transition
<1>2. Phases[s] = "open"
  BY DEF Phases, PhaseOf, PhaseIn, Active
<1>3. Phases' = Phases
  BY <1>1, <1>2 DEF Phases
<1> QED
  BY <1>3 DEF Promise!promiseVars, Phases, Transition

LEMMA TellStep ==
    ASSUME ScriptInv, AskedFits, at \in AskedSteps, NEW word \in {"text_delta", "stage", "usage"},
           AppendEvent(cur, word), UNCHANGED calls
    PROVE  Promise!Tell(cur, word)
<1>1. cur \in Sessions /\ revisions[cur] = 0 /\ Promise!Undecided(cur) /\ calls[cur] = 1
  BY EarlyIsUndecided DEF AskedSteps, AskedFits
<1>2. Phases' = Phases
  BY PhasesKept DEF AppendEvent
<1> QED
  BY <1>1, <1>2 DEF Promise!Tell, AppendEvent, Phases

\* Every commit of the server is a move of the promise, or none.
LEMMA PromiseStep ==
    ASSUME ScriptInv, AskedFits, [Next]_vars
    PROVE  [Promise!PromiseNext]_(Promise!promiseVars)
<1> DEFINE Kept == [Promise!PromiseNext]_(Promise!promiseVars)
<1> USE DEF ScriptInv
<1>1. ASSUME NEW s \in Sessions, PrepareInputs(s) PROVE Kept
  BY <1>1, UnseenStep DEF PrepareInputs, SetRuntime
<1>2. CASE Enqueue
  <2>1. starting \in Sessions /\ status[starting] = "absent" /\ "prepared" \in Status
    BY <1>2 DEF Enqueue, RunnerFits, TypeOK, Status
  <2>2. Phases' = [Phases EXCEPT ![starting] = PhaseIn("prepared")]
    BY <1>2, <2>1, PhaseMoved DEF Enqueue
  <2>3. Phases[starting] = "new" /\ PhaseIn("prepared") = "new"
    BY <2>1 DEF Phases, PhaseOf, PhaseIn
  <2>4. Phases' = Phases
    BY <2>2, <2>3 DEF Phases
  <2> QED
    BY <1>2, <2>4 DEF Enqueue, Promise!promiseVars, Phases
<1>3. CASE StartFails \/ Boot \/ Except \/ FailedFrame \/ CompletedFrame \/ RunnerDies \/ Raise
           \/ FailEventLost \/ Crash
  BY <1>3, UnseenStep DEF StartFails, Boot, Except, FailedFrame, CompletedFrame, RunnerDies, Raise,
         FailEventLost, Crash, Goto, Outside, tables
<1>4. ASSUME NEW s \in Sessions, Claim(s) PROVE Kept
  <2>1. status[s] = "prepared" /\ "submitting" \in Status
    BY <1>4 DEF Claim, Status, Active
  <2>2. Phases' = [Phases EXCEPT ![s] = "open"]
    <3>1. PhaseIn("submitting") = "open"
      BY DEF PhaseIn, Active
    <3> QED
      BY <1>4, <2>1, <3>1, PhaseMoved DEF Claim, Transition
  <2>3. Phases[s] = "new"
    BY <2>1 DEF Phases, PhaseOf, PhaseIn
  <2>4. Promise!Open(s)
    BY <1>4, <2>2, <2>3 DEF Promise!Open, Claim, Transition, Outside, Phases
  <2> QED
    BY <2>4 DEF Promise!PromiseNext
<1>5. CASE Submit
  <2>1. cur \in Sessions /\ Promise!Undecided(cur) /\ calls[cur] = 0
    BY <1>5, EarlyIsUndecided DEF Submit, RunnerFits, EarlySteps
  <2>2. calls' = [calls EXCEPT ![cur] = 1] /\ status' = status
    BY <1>5, <2>1 DEF Submit, tables
  <2>3. Promise!Ask(cur)
    BY <1>5, <2>1, <2>2, PhasesKept DEF Promise!Ask, Submit, tables, Phases
  <2> QED
    BY <2>1, <2>3 DEF Promise!PromiseNext
<1>6. CASE StartedFrame \/ ToFinalizing
  <2>1. cur \in Sessions /\ status[cur] \in Active
    BY <1>6 DEF StartedFrame, NextFrame, ToFinalizing, RunnerFits
  <2>2. UNCHANGED calls
    BY <1>6 DEF StartedFrame, NextFrame, ToFinalizing, Goto, Outside
  <2> QED
    BY <1>6, <2>1, <2>2, StaysOpen DEF StartedFrame, ToFinalizing, Active
<1>7. CASE TextFrame \/ UsageFrame \/ StageFinalizing \/ StageValidating
  <2>1. UNCHANGED calls /\ at \in AskedSteps
    BY <1>7 DEF TextFrame, UsageFrame, NextFrame, StageFinalizing, StageValidating, Goto, Outside,
                AskedSteps, EarlySteps
  <2>2. \/ UNCHANGED tables
        \/ \E word \in {"text_delta", "stage", "usage"} : AppendEvent(cur, word)
    BY <1>7 DEF TextFrame, UsageFrame, StageFinalizing, StageValidating
  <2>3. CASE UNCHANGED tables
    BY <2>1, <2>3, UnseenStep DEF tables
  <2>4. ASSUME NEW word \in {"text_delta", "stage", "usage"}, AppendEvent(cur, word) PROVE Kept
    <3>1. cur \in Sessions /\ Promise!Tell(cur, word)
      BY <2>1, <2>4, TellStep, EarlyIsUndecided DEF AskedSteps
    <3> QED
      BY <3>1 DEF Promise!PromiseNext
  <2> QED
    BY <2>2, <2>3, <2>4
<1>8. CASE CompleteText \/ Parse \/ FailText
  BY <1>8, UnseenStep DEF CompleteText, Parse, FailText, SettleText, SetRuntime, Goto, Outside
<1>9. CASE Validate
  <2>1. UNCHANGED <<calls, status, events>>
    BY <1>9 DEF Validate, SetRuntime, Goto, Outside
  <2>2. CASE revisions' = revisions
    BY <2>1, <2>2, UnseenStep
  <2>3. CASE revisions' = [revisions EXCEPT ![cur] = @ + 1]
    <3>1. at \in AskedSteps
      BY <1>9 DEF Validate, AskedSteps, EarlySteps
    <3>2. cur \in Sessions /\ revisions[cur] = 0 /\ Promise!Undecided(cur) /\ calls[cur] = 1
      BY <3>1, EarlyIsUndecided DEF AskedSteps, AskedFits
    <3>3. revisions' = [revisions EXCEPT ![cur] = 1]
      BY <2>3, <3>2
    <3>4. Promise!Make(cur)
      BY <2>1, <3>2, <3>3, PhasesKept DEF Promise!Make, Phases
    <3> QED
      BY <3>2, <3>4 DEF Promise!PromiseNext
  <2> QED
    BY <1>9, <2>2, <2>3 DEF Validate, SetRuntime
<1>10. CASE RejectedEvent \/ PublishEvent \/ FailEvent \/ RescueEvent
  <2>1. /\ cur \in Sessions /\ status[cur] \in Active
        /\ at \in PublishedSteps => revisions[cur] = 1
        /\ at \notin PublishedSteps => revisions[cur] = 0
    BY <1>10 DEF RejectedEvent, PublishEvent, FailEvent, RescueEvent, RunnerFits, PublishedSteps,
                 LostSteps
  <2>2. UNCHANGED calls
    BY <1>10, <2>1 DEF RejectedEvent, PublishEvent, FailEvent, RescueEvent, Goto, Outside, Active,
                       Ended
  <2>3. \/ UNCHANGED tables
        \/ AppendEvent(cur, IF revisions[cur] = 1 THEN "revision_completed" ELSE "failed")
    BY <1>10, <2>1 DEF RejectedEvent, PublishEvent, FailEvent, RescueEvent, PublishedSteps, Active,
                       Ended
  <2>4. CASE UNCHANGED tables
    BY <2>2, <2>4, UnseenStep DEF tables
  <2>5. CASE AppendEvent(cur, IF revisions[cur] = 1 THEN "revision_completed" ELSE "failed")
    <3>1. Promise!Conclude(cur)
      BY <2>1, <2>2, <2>5, ConcludeStep
    <3> QED
      BY <2>1, <3>1 DEF Promise!PromiseNext
  <2> QED
    BY <2>3, <2>4, <2>5
<1>11. CASE RejectedStatus \/ PublishStatus \/ FailStatus \/ RescueStatus
  <2>1. PICK to \in {"completed", "failed"} :
            /\ Transition(cur, {status[cur]}, to)
            /\ to = "completed" <=> at \in PublishedSteps
    BY <1>11 DEF RejectedStatus, PublishStatus, FailStatus, RescueStatus, PublishedSteps, Transition
  <2>2. /\ cur \in Sessions /\ status[cur] \in Active
        /\ to = "completed" <=> revisions[cur] = 1
        /\ to = "completed" => Has(cur, "revision_completed")
    BY <1>11, <2>1 DEF RejectedStatus, PublishStatus, FailStatus, RescueStatus, RunnerFits,
                       PublishedSteps, LostSteps
  <2>3. UNCHANGED calls
    BY <1>11 DEF RejectedStatus, PublishStatus, FailStatus, RescueStatus, Finish, Outside
  <2>4. Promise!Close({cur})
    BY <2>1, <2>2, <2>3, CloseStep DEF ScriptInv
  <2> QED
    BY <2>2, <2>4 DEF Promise!PromiseNext
<1>12. ASSUME NEW s \in Sessions, RecoverEvent(s) PROVE Kept
  <2>1. status[s] \in Active /\ UNCHANGED calls /\ SessionFits(s)
    BY <1>12 DEF RecoverEvent, Recovering, Decided, Active
  <2>2. Outcome(s) = IF revisions[s] = 1 THEN "revision_completed" ELSE "failed"
    BY <1>12, <2>1 DEF RecoverEvent, Decided, Outcome, SessionFits, TypeOK, Rejected
  <2>3. Promise!Conclude(s)
    BY <1>12, <2>1, <2>2, ConcludeStep DEF RecoverEvent
  <2> QED
    BY <2>3 DEF Promise!PromiseNext
<1>13. ASSUME NEW s \in Sessions, RecoverStatus(s) PROVE Kept
  <2>1. status[s] \in Active /\ UNCHANGED calls /\ SessionFits(s)
    BY <1>13 DEF RecoverStatus, Recovering, Decided, Active
  <2>2. Outcome(s) = IF revisions[s] = 1 THEN "revision_completed" ELSE "failed"
    BY <1>13, <2>1 DEF RecoverStatus, Decided, Outcome, SessionFits, TypeOK, Rejected
  <2>3. PICK to \in {"completed", "failed"} :
            /\ Transition(s, {status[s]}, to)
            /\ to = "completed" <=> revisions[s] = 1
            /\ to = "completed" => Has(s, "revision_completed")
    BY <1>13, <2>2 DEF RecoverStatus, Transition
  <2>4. Promise!Close({s})
    BY <2>1, <2>3, CloseStep DEF ScriptInv
  <2> QED
    BY <2>4 DEF Promise!PromiseNext
<1>14. ASSUME NEW s \in Sessions, UnknownEvent(s) PROVE Kept
  <2>1. status[s] \in Active /\ revisions[s] = 0
    BY <1>14, UnresolvedHasNone DEF UnknownEvent
  <2>2. Promise!Conclude(s)
    BY <1>14, <2>1, ConcludeStep DEF UnknownEvent, Recovering
  <2> QED
    BY <2>2 DEF Promise!PromiseNext
<1>15. CASE RecoverDone
  <2>1. \A s \in Unresolved : s \in Sessions /\ status[s] \in Active /\ revisions[s] = 0
    BY <1>15, UnresolvedHasNone DEF RecoverDone
  <2>2. \A s \in Sessions :
            PhaseOf(s)' = IF s \in Unresolved THEN "unknown_outcome" ELSE PhaseOf(s)
    BY <1>15 DEF RecoverDone, PhaseOf, PhaseIn, Active
  <2>3. \A s \in Unresolved : Phases[s] = "open"
    BY <2>1 DEF Phases, PhaseOf, PhaseIn, Active
  <2>4. Phases' = [s \in Sessions |-> IF s \notin Unresolved THEN Phases[s]
                                      ELSE IF revisions[s] = 1 THEN "completed"
                                      ELSE "unknown_outcome"]
    BY <2>1, <2>2 DEF Phases
  <2>5. UNCHANGED <<events, calls, revisions>>
    BY <1>15 DEF RecoverDone, Recovering
  <2>6. Promise!Close(Unresolved)
    BY <2>1, <2>3, <2>4, <2>5 DEF Promise!Close, Phases
  <2>7. Unresolved \in SUBSET Sessions
    BY DEF Unresolved
  <2> QED
    BY <2>6, <2>7 DEF Promise!PromiseNext
<1>16. CASE UNCHANGED vars
  BY <1>16, UnseenStep DEF vars, tables
<1>17. CASE Start \/ Recovery
  BY <1>17, <1>1, <1>2, <1>3, <1>12, <1>13, <1>14, <1>15 DEF Start, Recovery
<1>18. CASE Runner
  BY <1>18, <1>3, <1>4, <1>5, <1>6, <1>7, <1>8, <1>9, <1>10, <1>11 DEF Runner
<1>19. Kept
  BY <1>3, <1>16, <1>17, <1>18 DEF Next, Alive
<1> QED
  BY <1>19 DEF Kept

LEMMA PromiseStart == Init => Promise!PromiseInit
BY DEF Init, Promise!PromiseInit, PhaseOf, PhaseIn

\* A session keeps its promise, whatever raises, dies or is recovered.
THEOREM SessionRefinement == Spec => KeepsPromise
<1>1. Init => AskedFits
  BY DEF Init, AskedFits, AskedSteps, EarlySteps
<1>2. ScriptInv /\ AskedFits /\ [Next]_vars => AskedFits'
  BY AskedStep
<1>3. ScriptInv /\ AskedFits /\ [Next]_vars => [Promise!PromiseNext]_(Promise!promiseVars)
  BY PromiseStep
<1> QED
  BY <1>1, <1>2, <1>3, ScriptInvariant, PromiseStart, PTL DEF Spec, KeepsPromise, Promise!PromiseSpec

-----------------------------------------------------------------------------
(* What the page may rely on *)

\* A session's log keeps what it has, and an ended session keeps its end.
ServerKeeps(s) ==
    /\ Len(events[s]) <= Len(events'[s])
    /\ \A i \in 1..Len(events[s]) : events'[s][i] = events[s][i]
    /\ \A y \in EventType : Has(s, y) => Has(s, y)'
    /\ status[s] \in Ended => status'[s] = status[s]
    /\ revisions[s] = 1 => revisions'[s] = 1

LEMMA LogGrows ==
    ASSUME TypeOK, NEW s \in Sessions, NEW z \in Sessions, NEW type \in EventType,
           AppendEvent(s, type)
    PROVE  /\ Len(events[z]) <= Len(events'[z])
           /\ \A i \in 1..Len(events[z]) : events'[z][i] = events[z][i]
<1>1. events[z] \in Seq(EventType)
  BY DEF TypeOK
<1>2. events'[z] = IF z = s THEN Append(events[z], type) ELSE events[z]
  BY DEF AppendEvent, TypeOK
<1> QED
  BY <1>1, <1>2

LEMMA KeepingStep == ScriptInv /\ [Next]_vars => \A z \in Sessions : ServerKeeps(z)
<1> SUFFICES ASSUME ScriptInv, [Next]_vars, NEW z \in Sessions PROVE ServerKeeps(z)
  OBVIOUS
<1>0. TypeOK /\ RunnerFits /\ \A s \in Sessions : SessionFits(s)
  BY DEF ScriptInv
<1> DEFINE Rows == /\ status[z] \in Ended => status'[z] = status[z]
                   /\ revisions[z] = 1 => revisions'[z] = 1
<1> DEFINE Adds == \E s \in Sessions, type \in EventType : AppendEvent(s, type)
<1>a. ASSUME Rows, Adds PROVE ServerKeeps(z)
  BY <1>a, <1>0, EventAdded, LogGrows DEF ServerKeeps
<1>b. ASSUME Rows, UNCHANGED events PROVE ServerKeeps(z)
  BY <1>b, <1>0, LogsKept DEF ServerKeeps, TypeOK
<1>1. ASSUME NEW s \in Sessions, PrepareInputs(s) PROVE ServerKeeps(z)
  <2>1. UNCHANGED events
    BY <1>1 DEF PrepareInputs, SetRuntime, tables
  <2>2. Rows
    BY <1>1, <1>0 DEF PrepareInputs, SetRuntime, SessionFits, RunnerFits, EarlySteps, LostSteps, PublishedSteps, Status, Active, Ended, tables, AtStep, TrySteps, ExceptSteps, TypeOK
  <2> QED
    BY <2>1, <2>2, <1>b
<1>2. ASSUME Enqueue PROVE ServerKeeps(z)
  <2>1. UNCHANGED events
    BY <1>2 DEF Enqueue, tables
  <2>2. Rows
    BY <1>2, <1>0 DEF Enqueue, SessionFits, RunnerFits, EarlySteps, LostSteps, PublishedSteps, Status, Active, Ended, tables, AtStep, TrySteps, ExceptSteps, TypeOK
  <2> QED
    BY <2>1, <2>2, <1>b
<1>3. ASSUME StartFails PROVE ServerKeeps(z)
  <2>1. UNCHANGED events
    BY <1>3 DEF StartFails, tables
  <2>2. Rows
    BY <1>3, <1>0 DEF StartFails, SessionFits, RunnerFits, EarlySteps, LostSteps, PublishedSteps, Status, Active, Ended, tables, AtStep, TrySteps, ExceptSteps, TypeOK
  <2> QED
    BY <2>1, <2>2, <1>b
<1>4. ASSUME NEW s \in Sessions, Claim(s) PROVE ServerKeeps(z)
  <2>1. UNCHANGED events
    BY <1>4 DEF Claim, Transition, tables
  <2>2. Rows
    BY <1>4, <1>0 DEF Claim, Transition, SessionFits, RunnerFits, EarlySteps, LostSteps, PublishedSteps, Status, Active, Ended, tables, AtStep, TrySteps, ExceptSteps, TypeOK
  <2> QED
    BY <2>1, <2>2, <1>b
<1>5. ASSUME Submit PROVE ServerKeeps(z)
  <2>1. UNCHANGED events
    BY <1>5 DEF Submit, tables
  <2>2. Rows
    BY <1>5, <1>0 DEF Submit, SessionFits, RunnerFits, EarlySteps, LostSteps, PublishedSteps, Status, Active, Ended, tables, AtStep, TrySteps, ExceptSteps, TypeOK
  <2> QED
    BY <2>1, <2>2, <1>b
<1>6. ASSUME StartedFrame PROVE ServerKeeps(z)
  <2>1. UNCHANGED events
    BY <1>6 DEF StartedFrame, NextFrame, Transition, tables
  <2>2. Rows
    BY <1>6, <1>0 DEF StartedFrame, NextFrame, Transition, SessionFits, RunnerFits, EarlySteps, LostSteps, PublishedSteps, Status, Active, Ended, tables, AtStep, TrySteps, ExceptSteps, TypeOK
  <2> QED
    BY <2>1, <2>2, <1>b
<1>7. ASSUME TextFrame PROVE ServerKeeps(z)
  <2>1. cur \in Sessions /\ "text_delta" \in EventType
    BY <1>7, <1>0 DEF TextFrame, NextFrame, RunnerFits, EarlySteps, LostSteps, PublishedSteps, EventType, AtStep, TrySteps, ExceptSteps
  <2>2. CASE AppendEvent(cur, "text_delta")
    <3>1. UNCHANGED <<status, revisions>>
      BY <2>2 DEF AppendEvent
    <3> QED
      BY <2>1, <2>2, <3>1, <1>a
  <2>3. CASE UNCHANGED tables
    BY <2>3, <1>b DEF tables
  <2> QED
    BY <2>2, <2>3, <1>7 DEF TextFrame, NextFrame
<1>8. ASSUME UsageFrame PROVE ServerKeeps(z)
  <2>1. cur \in Sessions /\ "usage" \in EventType
    BY <1>8, <1>0 DEF UsageFrame, NextFrame, RunnerFits, EarlySteps, LostSteps, PublishedSteps, EventType, AtStep, TrySteps, ExceptSteps
  <2>2. AppendEvent(cur, "usage")
    BY <1>8 DEF UsageFrame, NextFrame
  <2>3. UNCHANGED <<status, revisions>>
    BY <2>2 DEF AppendEvent
  <2> QED
    BY <2>1, <2>2, <2>3, <1>a
<1>9. ASSUME FailedFrame PROVE ServerKeeps(z)
  <2>1. UNCHANGED events
    BY <1>9 DEF FailedFrame, tables
  <2>2. Rows
    BY <1>9, <1>0 DEF FailedFrame, SessionFits, RunnerFits, EarlySteps, LostSteps, PublishedSteps, Status, Active, Ended, tables, AtStep, TrySteps, ExceptSteps, TypeOK
  <2> QED
    BY <2>1, <2>2, <1>b
<1>10. ASSUME CompletedFrame PROVE ServerKeeps(z)
  <2>1. UNCHANGED events
    BY <1>10 DEF CompletedFrame, Goto, tables
  <2>2. Rows
    BY <1>10, <1>0 DEF CompletedFrame, Goto, SessionFits, RunnerFits, EarlySteps, LostSteps, PublishedSteps, Status, Active, Ended, tables, AtStep, TrySteps, ExceptSteps, TypeOK
  <2> QED
    BY <2>1, <2>2, <1>b
<1>11. ASSUME ToFinalizing PROVE ServerKeeps(z)
  <2>1. UNCHANGED events
    BY <1>11 DEF ToFinalizing, Transition, Goto, tables
  <2>2. Rows
    BY <1>11, <1>0 DEF ToFinalizing, Transition, Goto, SessionFits, RunnerFits, EarlySteps, LostSteps, PublishedSteps, Status, Active, Ended, tables, AtStep, TrySteps, ExceptSteps, TypeOK
  <2> QED
    BY <2>1, <2>2, <1>b
<1>12. ASSUME StageFinalizing PROVE ServerKeeps(z)
  <2>1. cur \in Sessions /\ "stage" \in EventType
    BY <1>12, <1>0 DEF StageFinalizing, Goto, RunnerFits, EarlySteps, LostSteps, PublishedSteps, EventType, AtStep, TrySteps, ExceptSteps
  <2>2. AppendEvent(cur, "stage")
    BY <1>12 DEF StageFinalizing, Goto
  <2>3. UNCHANGED <<status, revisions>>
    BY <2>2 DEF AppendEvent
  <2> QED
    BY <2>1, <2>2, <2>3, <1>a
<1>13. ASSUME StageValidating PROVE ServerKeeps(z)
  <2>1. cur \in Sessions /\ "stage" \in EventType
    BY <1>13, <1>0 DEF StageValidating, Goto, RunnerFits, EarlySteps, LostSteps, PublishedSteps, EventType, AtStep, TrySteps, ExceptSteps
  <2>2. AppendEvent(cur, "stage")
    BY <1>13 DEF StageValidating, Goto
  <2>3. UNCHANGED <<status, revisions>>
    BY <2>2 DEF AppendEvent
  <2> QED
    BY <2>1, <2>2, <2>3, <1>a
<1>14. ASSUME CompleteText PROVE ServerKeeps(z)
  <2>1. UNCHANGED events
    BY <1>14 DEF CompleteText, SettleText, Goto, tables
  <2>2. Rows
    BY <1>14, <1>0 DEF CompleteText, SettleText, Goto, SessionFits, RunnerFits, EarlySteps, LostSteps, PublishedSteps, Status, Active, Ended, tables, AtStep, TrySteps, ExceptSteps, TypeOK
  <2> QED
    BY <2>1, <2>2, <1>b
<1>15. ASSUME Parse PROVE ServerKeeps(z)
  <2>1. UNCHANGED events
    BY <1>15 DEF Parse, SetRuntime, Goto, Rejected, tables
  <2>2. Rows
    BY <1>15, <1>0 DEF Parse, SetRuntime, Goto, Rejected, SessionFits, RunnerFits, EarlySteps, LostSteps, PublishedSteps, Status, Active, Ended, tables, AtStep, TrySteps, ExceptSteps, TypeOK
  <2> QED
    BY <2>1, <2>2, <1>b
<1>16. ASSUME Validate PROVE ServerKeeps(z)
  <2>1. UNCHANGED events
    BY <1>16 DEF Validate, SetRuntime, Goto, Rejected, tables
  <2>2. Rows
    BY <1>16, <1>0 DEF Validate, SetRuntime, Goto, Rejected, SessionFits, RunnerFits, EarlySteps, LostSteps, PublishedSteps, Status, Active, Ended, tables, AtStep, TrySteps, ExceptSteps, TypeOK
  <2> QED
    BY <2>1, <2>2, <1>b
<1>17. ASSUME RejectedEvent PROVE ServerKeeps(z)
  <2>1. cur \in Sessions /\ "failed" \in EventType
    BY <1>17, <1>0 DEF RejectedEvent, Goto, RunnerFits, EarlySteps, LostSteps, PublishedSteps, EventType, AtStep, TrySteps, ExceptSteps
  <2>2. AppendEvent(cur, "failed")
    BY <1>17 DEF RejectedEvent, Goto
  <2>3. UNCHANGED <<status, revisions>>
    BY <2>2 DEF AppendEvent
  <2> QED
    BY <2>1, <2>2, <2>3, <1>a
<1>18. ASSUME RejectedStatus PROVE ServerKeeps(z)
  <2>1. UNCHANGED events
    BY <1>18 DEF RejectedStatus, Transition, Finish, tables
  <2>2. Rows
    BY <1>18, <1>0 DEF RejectedStatus, Transition, Finish, SessionFits, RunnerFits, EarlySteps, LostSteps, PublishedSteps, Status, Active, Ended, tables, AtStep, TrySteps, ExceptSteps, TypeOK
  <2> QED
    BY <2>1, <2>2, <1>b
<1>19. ASSUME PublishEvent PROVE ServerKeeps(z)
  <2>1. cur \in Sessions /\ "revision_completed" \in EventType
    BY <1>19, <1>0 DEF PublishEvent, Goto, RunnerFits, EarlySteps, LostSteps, PublishedSteps, EventType, AtStep, TrySteps, ExceptSteps
  <2>2. AppendEvent(cur, "revision_completed")
    BY <1>19 DEF PublishEvent, Goto
  <2>3. UNCHANGED <<status, revisions>>
    BY <2>2 DEF AppendEvent
  <2> QED
    BY <2>1, <2>2, <2>3, <1>a
<1>20. ASSUME PublishStatus PROVE ServerKeeps(z)
  <2>1. UNCHANGED events
    BY <1>20 DEF PublishStatus, Transition, Finish, tables
  <2>2. Rows
    BY <1>20, <1>0 DEF PublishStatus, Transition, Finish, SessionFits, RunnerFits, EarlySteps, LostSteps, PublishedSteps, Status, Active, Ended, tables, AtStep, TrySteps, ExceptSteps, TypeOK
  <2> QED
    BY <2>1, <2>2, <1>b
<1>21. ASSUME FailEvent PROVE ServerKeeps(z)
  <2>1. cur \in Sessions /\ "failed" \in EventType
    BY <1>21, <1>0 DEF FailEvent, Goto, Finish, RunnerFits, EarlySteps, LostSteps, PublishedSteps, EventType, AtStep, TrySteps, ExceptSteps
  <2>2. CASE AppendEvent(cur, "failed")
    <3>1. UNCHANGED <<status, revisions>>
      BY <2>2 DEF AppendEvent
    <3> QED
      BY <2>1, <2>2, <3>1, <1>a
  <2>3. CASE UNCHANGED tables
    BY <2>3, <1>b DEF tables
  <2> QED
    BY <2>2, <2>3, <1>21, <1>0 DEF FailEvent, Goto, Finish
<1>22. ASSUME FailText PROVE ServerKeeps(z)
  <2>1. UNCHANGED events
    BY <1>22 DEF FailText, SettleText, Goto, tables
  <2>2. Rows
    BY <1>22, <1>0 DEF FailText, SettleText, Goto, SessionFits, RunnerFits, EarlySteps, LostSteps, PublishedSteps, Status, Active, Ended, tables, AtStep, TrySteps, ExceptSteps, TypeOK
  <2> QED
    BY <2>1, <2>2, <1>b
<1>23. ASSUME FailStatus PROVE ServerKeeps(z)
  <2>1. UNCHANGED events
    BY <1>23 DEF FailStatus, Transition, Finish, tables
  <2>2. Rows
    BY <1>23, <1>0 DEF FailStatus, Transition, Finish, SessionFits, RunnerFits, EarlySteps, LostSteps, PublishedSteps, Status, Active, Ended, tables, AtStep, TrySteps, ExceptSteps, TypeOK
  <2> QED
    BY <2>1, <2>2, <1>b
<1>24. ASSUME Except PROVE ServerKeeps(z)
  <2>1. UNCHANGED events
    BY <1>24 DEF Except, Goto, tables
  <2>2. Rows
    BY <1>24, <1>0 DEF Except, Goto, SessionFits, RunnerFits, EarlySteps, LostSteps, PublishedSteps, Status, Active, Ended, tables, AtStep, TrySteps, ExceptSteps, TypeOK
  <2> QED
    BY <2>1, <2>2, <1>b
<1>25. ASSUME RescueEvent PROVE ServerKeeps(z)
  <2>1. cur \in Sessions /\ "revision_completed" \in EventType
    BY <1>25, <1>0 DEF RescueEvent, Goto, RunnerFits, EarlySteps, LostSteps, PublishedSteps, EventType, AtStep, TrySteps, ExceptSteps
  <2>2. CASE AppendEvent(cur, "revision_completed")
    <3>1. UNCHANGED <<status, revisions>>
      BY <2>2 DEF AppendEvent
    <3> QED
      BY <2>1, <2>2, <3>1, <1>a
  <2>3. CASE UNCHANGED tables
    BY <2>3, <1>b DEF tables
  <2> QED
    BY <2>2, <2>3, <1>25 DEF RescueEvent, Goto
<1>26. ASSUME RescueStatus PROVE ServerKeeps(z)
  <2>1. UNCHANGED events
    BY <1>26 DEF RescueStatus, Transition, Finish, tables
  <2>2. Rows
    BY <1>26, <1>0 DEF RescueStatus, Transition, Finish, SessionFits, RunnerFits, EarlySteps, LostSteps, PublishedSteps, Status, Active, Ended, tables, AtStep, TrySteps, ExceptSteps, TypeOK
  <2> QED
    BY <2>1, <2>2, <1>b
<1>27. ASSUME FailEventLost PROVE ServerKeeps(z)
  <2>1. UNCHANGED events
    BY <1>27 DEF FailEventLost, tables
  <2>2. Rows
    BY <1>27, <1>0 DEF FailEventLost, SessionFits, RunnerFits, EarlySteps, LostSteps, PublishedSteps, Status, Active, Ended, tables, AtStep, TrySteps, ExceptSteps, TypeOK
  <2> QED
    BY <2>1, <2>2, <1>b
<1>28. ASSUME Raise PROVE ServerKeeps(z)
  <2>1. UNCHANGED events
    BY <1>28 DEF Raise, tables
  <2>2. Rows
    BY <1>28, <1>0 DEF Raise, SessionFits, RunnerFits, EarlySteps, LostSteps, PublishedSteps, Status, Active, Ended, tables, AtStep, TrySteps, ExceptSteps, TypeOK
  <2> QED
    BY <2>1, <2>2, <1>b
<1>29. ASSUME RunnerDies PROVE ServerKeeps(z)
  <2>1. UNCHANGED events
    BY <1>29 DEF RunnerDies, tables
  <2>2. Rows
    BY <1>29, <1>0 DEF RunnerDies, SessionFits, RunnerFits, EarlySteps, LostSteps, PublishedSteps, Status, Active, Ended, tables, AtStep, TrySteps, ExceptSteps, TypeOK
  <2> QED
    BY <2>1, <2>2, <1>b
<1>30. ASSUME Boot PROVE ServerKeeps(z)
  <2>1. UNCHANGED events
    BY <1>30 DEF Boot, tables
  <2>2. Rows
    BY <1>30, <1>0 DEF Boot, SessionFits, RunnerFits, EarlySteps, LostSteps, PublishedSteps, Status, Active, Ended, tables, AtStep, TrySteps, ExceptSteps, TypeOK
  <2> QED
    BY <2>1, <2>2, <1>b
<1>31. ASSUME NEW s \in Sessions, RecoverEvent(s) PROVE ServerKeeps(z)
  <2>1. s \in Sessions /\ Outcome(s) \in EventType
    BY <1>31, <1>0 DEF RecoverEvent, Recovering, Decided, Outcome, Rejected, RunnerFits, EarlySteps, LostSteps, PublishedSteps, EventType, AtStep, TrySteps, ExceptSteps
  <2>2. AppendEvent(s, Outcome(s))
    BY <1>31 DEF RecoverEvent, Recovering, Decided, Outcome, Rejected
  <2>3. UNCHANGED <<status, revisions>>
    BY <2>2 DEF AppendEvent
  <2> QED
    BY <2>1, <2>2, <2>3, <1>a
<1>32. ASSUME NEW s \in Sessions, RecoverStatus(s) PROVE ServerKeeps(z)
  <2>1. UNCHANGED events
    BY <1>32 DEF RecoverStatus, Recovering, Transition, Decided, Outcome, Rejected, tables
  <2>2. Rows
    BY <1>32, <1>0 DEF RecoverStatus, Recovering, Transition, Decided, Outcome, Rejected, SessionFits, RunnerFits, EarlySteps, LostSteps, PublishedSteps, Status, Active, Ended, tables, AtStep, TrySteps, ExceptSteps, TypeOK
  <2> QED
    BY <2>1, <2>2, <1>b
<1>33. ASSUME NEW s \in Sessions, UnknownEvent(s) PROVE ServerKeeps(z)
  <2>1. s \in Sessions /\ "failed" \in EventType
    BY <1>33, <1>0 DEF UnknownEvent, Recovering, Decided, Outcome, Unresolved, Rejected, RunnerFits, EarlySteps, LostSteps, PublishedSteps, EventType, AtStep, TrySteps, ExceptSteps
  <2>2. AppendEvent(s, "failed")
    BY <1>33 DEF UnknownEvent, Recovering, Decided, Outcome, Unresolved, Rejected
  <2>3. UNCHANGED <<status, revisions>>
    BY <2>2 DEF AppendEvent
  <2> QED
    BY <2>1, <2>2, <2>3, <1>a
<1>34. ASSUME RecoverDone PROVE ServerKeeps(z)
  <2>1. UNCHANGED events
    BY <1>34 DEF RecoverDone, Recovering, Decided, Outcome, Unresolved, tables
  <2>2. Rows
    BY <1>34, <1>0 DEF RecoverDone, Recovering, Decided, Outcome, Unresolved, SessionFits, RunnerFits, EarlySteps, LostSteps, PublishedSteps, Status, Active, Ended, tables, AtStep, TrySteps, ExceptSteps, TypeOK
  <2> QED
    BY <2>1, <2>2, <1>b
<1>35. ASSUME Crash PROVE ServerKeeps(z)
  <2>1. UNCHANGED events
    BY <1>35 DEF Crash, tables
  <2>2. Rows
    BY <1>35, <1>0 DEF Crash, SessionFits, RunnerFits, EarlySteps, LostSteps, PublishedSteps, Status, Active, Ended, tables, AtStep, TrySteps, ExceptSteps, TypeOK
  <2> QED
    BY <2>1, <2>2, <1>b
<1>36. CASE UNCHANGED vars
  BY <1>36, <1>b DEF vars, tables
<1> QED
  BY <1>1, <1>2, <1>3, <1>4, <1>5, <1>6, <1>7, <1>8, <1>9, <1>10, <1>11, <1>12, <1>13, <1>14, <1>15, <1>16, <1>17, <1>18, <1>19, <1>20, <1>21, <1>22, <1>23, <1>24, <1>25, <1>26, <1>27, <1>28, <1>29, <1>30, <1>31, <1>32, <1>33, <1>34, <1>35, <1>36 DEF Next, Alive, Start, Runner, Recovery

-----------------------------------------------------------------------------
(* The page *)

ViewTypeOK ==
    /\ cursor \in Nat
    /\ wire \in Seq(Nat)
    /\ gen \in {"list", "check", "none"}
    /\ reply \in {"none", "asked"} \cup Status
    /\ view \in [shown : Seq(Nat), last : Nat, status : Status, terminal : BOOLEAN,
                 reconnecting : BOOLEAN]

\* What is on the wire continues what the page has applied: the numbers up to
\* the cursor, without a gap.
WireFits ==
    /\ cursor <= Len(events[Watched])
    /\ Len(wire) <= cursor
    /\ \A i \in 1..Len(wire) : wire[i] = (cursor - Len(wire)) + i
    /\ gen # "none" \/ wire # <<>> => cursor - Len(wire) <= view.last
    /\ source = "none" => gen = "none" /\ wire = <<>>

\* What it shows of the end was true when it was sent, and an end stays.
TruthFits ==
    /\ view.status = "completed" => revisions[Watched] = 1
    /\ view.status \in {"failed", "unknown_outcome"} =>
           Has(Watched, "failed") \/ status[Watched] \in {"failed", "unknown_outcome"}
    /\ reply \in Ended => status[Watched] = reply

ViewInv == ScriptInv /\ ViewTypeOK /\ WireFits /\ TruthFits /\ ShownIsLogPrefix

LEMMA Serves == [ViewNext]_allVars => [Next]_vars
BY DEF ViewNext, allVars, Next, Alive, CrashConnection, Open, Page, Connect, Receive,
       StreamEnded, ReplyLands, Router, Answer, ListEvents, CheckStatus, ConnectionLost,
       ReplyFails, vars, tables, stream

\* A step of the server leaves the page true.
LEMMA ServerStep ==
    ASSUME ViewInv, [Next]_vars, UNCHANGED <<cursor, wire, gen, view, reply, source>>
    PROVE  ViewTypeOK' /\ WireFits' /\ TruthFits' /\ ShownIsLogPrefix'
<1>1. Watched \in Sessions
  BY ViewAssumption
<1>2. ServerKeeps(Watched)
  BY <1>1, KeepingStep DEF ViewInv
<1>3. Len(events[Watched]) \in Nat /\ Len(events'[Watched]) \in Nat
  <2>1. TypeOK /\ TypeOK'
    BY TypeStep DEF ViewInv, ScriptInv
  <2>2. events[Watched] \in Seq(EventType) /\ events'[Watched] \in Seq(EventType)
    BY <2>1, <1>1 DEF TypeOK
  <2> QED
    BY <2>2
<1>4. ViewTypeOK'
  BY DEF ViewInv, ViewTypeOK
<1>5. WireFits'
  BY <1>2, <1>3 DEF ViewInv, WireFits, ViewTypeOK, ServerKeeps
<1>6. TruthFits'
  <2>1. "failed" \in EventType
    BY DEF EventType
  <2> QED
    BY <1>2, <2>1 DEF ViewInv, TruthFits, ServerKeeps, Ended
<1>7. ShownIsLogPrefix'
  BY <1>2, <1>3 DEF ViewInv, ShownIsLogPrefix, ViewTypeOK, ServerKeeps
<1> QED
  BY <1>4, <1>5, <1>6, <1>7

\* An event that is applied is the next one, and says the truth.
LEMMA Applied ==
    ASSUME ViewInv, NEW n \in 1..Len(events[Watched]), n <= view.last + 1
    PROVE  LET v == Reduce(view, n)
           IN  /\ v \in [shown : Seq(Nat), last : Nat, status : Status, terminal : BOOLEAN,
                         reconnecting : BOOLEAN]
               /\ v.last <= Len(events[Watched]) /\ v.last >= n /\ v.last >= view.last
               /\ v.shown = [i \in 1..v.last |-> i]
               /\ v.status = "completed" => revisions[Watched] = 1
               /\ v.status \in {"failed", "unknown_outcome"} =>
                      \/ Has(Watched, "failed")
                      \/ status[Watched] \in {"failed", "unknown_outcome"}
<1> DEFINE type == events[Watched][n]
<1> DEFINE v == Reduce(view, n)
<1>1. Watched \in Sessions /\ events[Watched] \in Seq(EventType) /\ type \in EventType
  BY ViewAssumption DEF ViewInv, ScriptInv, TypeOK
<1>2. Has(Watched, type)
  BY DEF Has, Contains
<1>3. SessionFits(Watched)
  BY <1>1 DEF ViewInv, ScriptInv
<1>4. view \in [shown : Seq(Nat), last : Nat, status : Status, terminal : BOOLEAN,
                reconnecting : BOOLEAN]
  BY DEF ViewInv, ViewTypeOK
<1>5. view.last <= Len(events[Watched]) /\ view.shown = [i \in 1..view.last |-> i]
  BY DEF ViewInv, ShownIsLogPrefix
<1>6. TruthFits
  BY DEF ViewInv
<1>7. CASE n <= view.last
  <2>1. v = view
    BY <1>7 DEF Reduce
  <2> QED
    BY <2>1, <1>4, <1>5, <1>6, <1>7 DEF TruthFits
<1>8. CASE n = view.last + 1
  <2>1. ~(n <= view.last)
    BY <1>8, <1>4
  <2> DEFINE st == IF type \in DOMAIN StatusOf THEN StatusOf[type] ELSE view.status
  <2>2. v = [shown |-> Append(view.shown, n), last |-> n, status |-> st,
             terminal |-> (view.terminal \/ type \in {"failed", "revision_completed"}),
             reconnecting |-> FALSE]
    BY <2>1, <1>4 DEF Reduce
  <2>3. /\ type = "text_delta" => st = "streaming"
        /\ type = "stage" => st = "finalizing"
        /\ type = "failed" => st = "failed"
        /\ type = "revision_completed" => st = "completed"
        /\ type = "usage" => st = view.status
    BY DEF StatusOf
  <2> HIDE DEF st, type
  <2>4. st \in Status
    BY <2>3, <1>1, <1>4 DEF EventType, Status, Active, Ended
  <2>5. st = "completed" => revisions[Watched] = 1
    BY <2>3, <1>1, <1>2, <1>3, <1>6 DEF EventType, SessionFits, TruthFits
  <2>6. st \in {"failed", "unknown_outcome"} =>
            Has(Watched, "failed") \/ status[Watched] \in {"failed", "unknown_outcome"}
    BY <2>3, <1>1, <1>2, <1>6 DEF EventType, TruthFits
  <2>7. Append(view.shown, n) = [i \in 1..n |-> i] /\ Append(view.shown, n) \in Seq(Nat)
    BY <1>4, <1>5, <1>8
  <2>8. v.shown = [i \in 1..v.last |-> i] /\ v.last = n /\ v.status = st
    BY <2>2, <2>7
  <2>9. v \in [shown : Seq(Nat), last : Nat, status : Status, terminal : BOOLEAN,
               reconnecting : BOOLEAN]
    BY <2>2, <2>4, <2>7, <1>4
  <2> QED
    BY <2>5, <2>6, <2>8, <2>9, <1>4, <1>5, <1>8
<1> QED
  BY <1>7, <1>8, <1>4

LEMMA NumbersJoined ==
    ASSUME NEW p \in Seq(Nat), NEW q \in Seq(Nat)
    PROVE  /\ p \o q \in Seq(Nat)
           /\ Len(p \o q) = Len(p) + Len(q)
           /\ \A i \in 1..(Len(p) + Len(q)) :
                  (p \o q)[i] = IF i <= Len(p) THEN p[i] ELSE q[i - Len(p)]
BY ConcatProperties

LEMMA ViewStep == ViewInv /\ [ViewNext]_allVars => ViewInv'
<1> SUFFICES ASSUME ViewInv, [ViewNext]_allVars PROVE ViewInv'
  OBVIOUS
<1>0. [Next]_vars /\ ScriptInv' /\ Watched \in Sessions
  BY Serves, ScriptStep, ViewAssumption DEF ViewInv
<1> DEFINE Goal == ViewTypeOK' /\ WireFits' /\ TruthFits' /\ ShownIsLogPrefix'
<1> SUFFICES Goal
  BY <1>0 DEF ViewInv
<1>t. /\ TypeOK /\ SessionFits(Watched) /\ events[Watched] \in Seq(EventType)
      /\ Len(events[Watched]) \in Nat /\ status[Watched] \in Status
  <2>1. TypeOK /\ SessionFits(Watched)
    BY <1>0 DEF ViewInv, ScriptInv
  <2>2. events[Watched] \in Seq(EventType) /\ status[Watched] \in Status
    BY <2>1, <1>0 DEF TypeOK
  <2> QED
    BY <2>1, <2>2
<1>u. ASSUME UNCHANGED vars
      PROVE  /\ UNCHANGED <<events, status, revisions>>
             /\ Has(Watched, "failed")' <=> Has(Watched, "failed")
  <2>1. UNCHANGED <<events, status, revisions>> /\ "failed" \in EventType
    BY <1>u DEF vars, tables, EventType
  <2> QED
    BY <2>1, <1>0, LogsKept
<1>1. ASSUME Alive, UNCHANGED viewVars PROVE Goal
  BY <1>0, <1>1, ServerStep DEF viewVars
<1>2. ASSUME CrashConnection PROVE Goal
  <2>1. UNCHANGED <<events, status, revisions>> /\ "failed" \in EventType
    BY <1>2 DEF CrashConnection, Crash, tables, EventType
  <2>2. Has(Watched, "failed")' <=> Has(Watched, "failed")
    BY <2>1, <1>0, LogsKept
  <2>3. gen' = "none" /\ wire' = <<>> /\ UNCHANGED cursor
    BY <1>2 DEF CrashConnection, Disconnect
  <2>4. view' = IF source = "open" THEN [view EXCEPT !.reconnecting = TRUE] ELSE view
    BY <1>2 DEF CrashConnection
  <2>5. /\ view' \in [shown : Seq(Nat), last : Nat, status : Status, terminal : BOOLEAN,
                      reconnecting : BOOLEAN]
        /\ view'.last = view.last /\ view'.shown = view.shown /\ view'.status = view.status
    BY <2>4 DEF ViewInv, ViewTypeOK
  <2>6. reply' \in {reply, "none"}
    BY <1>2 DEF CrashConnection
  <2>7. ViewTypeOK'
    BY <2>3, <2>5, <2>6 DEF ViewInv, ViewTypeOK
  <2>8. WireFits'
    BY <2>1, <2>3, <1>t DEF ViewInv, ViewTypeOK, WireFits
  <2>9. TruthFits' /\ ShownIsLogPrefix'
    BY <2>1, <2>2, <2>5, <2>6 DEF ViewInv, TruthFits, ShownIsLogPrefix, Ended
  <2> QED
    BY <2>7, <2>8, <2>9
<1>3. ASSUME Open PROVE Goal
  <2>1. PICK st \in {"prepared", status[Watched]} : view' = NewView(st)
    BY <1>3 DEF Open
  <2>2. UNCHANGED vars /\ UNCHANGED <<gen, cursor, wire, reply>>
    BY <1>3 DEF Open
  <2>3. gen = "none" /\ wire = <<>>
    BY <1>3 DEF Open, ViewInv, WireFits
  <2>4. /\ view'.last = 0 /\ view'.shown = <<>> /\ view'.status = st
        /\ view' \in [shown : Seq(Nat), last : Nat, status : Status, terminal : BOOLEAN,
                      reconnecting : BOOLEAN]
    BY <2>1, <1>t DEF NewView, Status
  <2>5. ViewTypeOK'
    BY <2>2, <2>4 DEF ViewInv, ViewTypeOK
  <2>6. WireFits'
    BY <2>2, <2>3, <1>u, <1>t DEF ViewInv, ViewTypeOK, WireFits
  <2>7. st = "completed" => revisions[Watched] = 1
    BY <1>t DEF SessionFits
  <2>8. TruthFits'
    BY <2>2, <2>4, <2>7, <1>u DEF ViewInv, TruthFits
  <2>9. ShownIsLogPrefix'
    BY <2>2, <2>4, <1>u, <1>t DEF ShownIsLogPrefix
  <2> QED
    BY <2>5, <2>6, <2>8, <2>9
<1>4. ASSUME Connect PROVE Goal
  <2>1. UNCHANGED vars /\ gen' = "list" /\ cursor' = 0 /\ wire' = <<>> /\ reply' = reply
    BY <1>4 DEF Connect
  <2>2. /\ view' \in [shown : Seq(Nat), last : Nat, status : Status, terminal : BOOLEAN,
                      reconnecting : BOOLEAN]
        /\ view'.last = view.last /\ view'.shown = view.shown /\ view'.status = view.status
    BY <1>4 DEF Connect, ViewInv, ViewTypeOK
  <2>3. source' = "open"
    BY <1>4 DEF Connect
  <2>4. ViewTypeOK'
    BY <2>1, <2>2 DEF ViewInv, ViewTypeOK
  <2>5. WireFits'
    BY <2>1, <2>2, <2>3, <1>u, <1>t DEF WireFits
  <2>6. TruthFits' /\ ShownIsLogPrefix'
    BY <2>1, <2>2, <1>u DEF ViewInv, TruthFits, ShownIsLogPrefix
  <2> QED
    BY <2>4, <2>5, <2>6
<1>5. ASSUME Receive PROVE Goal
  <2> DEFINE n == Head(wire)
  <2>1. UNCHANGED vars /\ view' = Reduce(view, n) /\ reply' = reply /\ wire # <<>>
        /\ source = "open"
    BY <1>5 DEF Receive
  <2>2. Len(wire) > 0 /\ n = wire[1] /\ wire \in Seq(Nat) /\ cursor \in Nat
    BY <2>1 DEF ViewInv, ViewTypeOK
  <2>3. n = cursor - Len(wire) + 1 /\ n \in 1..Len(events[Watched]) /\ n <= view.last + 1
    <3>1. wire[1] = (cursor - Len(wire)) + 1 /\ cursor - Len(wire) <= view.last
      BY <2>1, <2>2 DEF ViewInv, WireFits
    <3>2. view.last \in Nat /\ Len(wire) <= cursor /\ cursor <= Len(events[Watched])
      BY DEF ViewInv, ViewTypeOK, WireFits
    <3> QED
      BY <3>1, <3>2, <2>2, <1>t
  <2> HIDE DEF n
  <2>4. /\ view' \in [shown : Seq(Nat), last : Nat, status : Status, terminal : BOOLEAN,
                      reconnecting : BOOLEAN]
        /\ view'.last <= Len(events[Watched]) /\ view'.last >= n /\ view'.last >= view.last
        /\ view'.shown = [i \in 1..view'.last |-> i]
        /\ view'.status = "completed" => revisions[Watched] = 1
        /\ view'.status \in {"failed", "unknown_outcome"} =>
               Has(Watched, "failed") \/ status[Watched] \in {"failed", "unknown_outcome"}
    BY <2>1, <2>3, Applied
  <2>5. TruthFits' /\ ShownIsLogPrefix'
    BY <2>1, <2>4, <1>u DEF ViewInv, TruthFits, ShownIsLogPrefix
  <2>6. CASE gen' = "none" /\ wire' = <<>> /\ UNCHANGED cursor /\ source' = "closed"
    <3>1. WireFits'
      BY <2>1, <2>6, <2>2, <1>u, <1>t DEF ViewInv, WireFits
    <3>2. ViewTypeOK'
      BY <2>1, <2>4, <2>6 DEF ViewInv, ViewTypeOK
    <3> QED
      BY <3>1, <3>2, <2>5
  <2>7. CASE wire' = Tail(wire) /\ UNCHANGED <<source, gen, cursor>>
    <3>1. /\ wire' \in Seq(Nat) /\ Len(wire') = Len(wire) - 1
          /\ \A i \in 1..Len(wire') : wire'[i] = wire[i + 1]
      BY <2>7, <2>2
    <3>2. WireFits'
      <4>1. cursor' <= Len(events'[Watched]) /\ Len(wire') <= cursor'
        BY <2>1, <2>7, <2>2, <3>1, <1>u, <1>t DEF ViewInv, WireFits
      <4>2. ASSUME NEW i \in 1..Len(wire') PROVE wire'[i] = (cursor' - Len(wire')) + i
        <5>1. i + 1 \in 1..Len(wire) /\ i \in Nat
          BY <3>1, <2>2
        <5>2. wire[i + 1] = (cursor - Len(wire)) + (i + 1)
          BY <5>1 DEF ViewInv, WireFits
        <5> QED
          BY <5>1, <5>2, <3>1, <2>7, <2>2
      <4>3. cursor' - Len(wire') <= view'.last
        BY <2>3, <2>4, <2>7, <2>2, <3>1
      <4>4. source' # "none"
        BY <2>7, <2>1
      <4> QED
        BY <4>1, <4>2, <4>3, <4>4 DEF WireFits
    <3>3. ViewTypeOK'
      BY <2>1, <2>4, <2>7, <3>1 DEF ViewInv, ViewTypeOK
    <3> QED
      BY <3>2, <3>3, <2>5
  <2> QED
    BY <2>6, <2>7, <1>5 DEF Receive, Disconnect
<1>6. ASSUME StreamEnded \/ ConnectionLost PROVE Goal
  <2>1. UNCHANGED vars /\ OnError
    BY <1>6 DEF StreamEnded, ConnectionLost
  <2>2. gen' = "none" /\ wire' = <<>> /\ UNCHANGED cursor
    BY <2>1 DEF OnError, Disconnect
  <2>3. /\ view' \in [shown : Seq(Nat), last : Nat, status : Status, terminal : BOOLEAN,
                      reconnecting : BOOLEAN]
        /\ view'.last = view.last /\ view'.shown = view.shown /\ view'.status = view.status
    BY <2>1 DEF OnError, ViewInv, ViewTypeOK
  <2>4. reply' \in {reply, "asked"}
    BY <2>1 DEF OnError
  <2>5. ViewTypeOK'
    BY <2>2, <2>3, <2>4 DEF ViewInv, ViewTypeOK
  <2>6. WireFits'
    BY <2>1, <2>2, <1>u, <1>t DEF ViewInv, ViewTypeOK, WireFits
  <2>7. TruthFits' /\ ShownIsLogPrefix'
    BY <2>1, <2>3, <2>4, <1>u DEF ViewInv, TruthFits, ShownIsLogPrefix, Ended
  <2> QED
    BY <2>5, <2>6, <2>7
<1>7. ASSUME ReplyLands PROVE Goal
  <2>1. UNCHANGED vars /\ reply \in Status /\ view' = Reconcile(view, reply) /\ reply' = "none"
    BY <1>7 DEF ReplyLands
  <2>2. /\ view' \in [shown : Seq(Nat), last : Nat, status : Status, terminal : BOOLEAN,
                      reconnecting : BOOLEAN]
        /\ view'.last = view.last /\ view'.shown = view.shown /\ view'.status = reply
    <3>1. view \in [shown : Seq(Nat), last : Nat, status : Status, terminal : BOOLEAN,
                    reconnecting : BOOLEAN]
      BY DEF ViewInv, ViewTypeOK
    <3>2. \E t, r \in BOOLEAN :
              view' = [shown |-> view.shown, last |-> view.last, status |-> reply,
                       terminal |-> t, reconnecting |-> r]
      <4>1. CASE reply \in Ended
        <5>1. view' = [view EXCEPT !.status = reply, !.terminal = TRUE,
                                   !.reconnecting = FALSE]
          BY <2>1, <4>1 DEF Reconcile
        <5> QED
          BY <5>1, <3>1
      <4>2. CASE reply \notin Ended
        <5>1. view' = [view EXCEPT !.status = reply, !.terminal = FALSE,
                                   !.reconnecting = TRUE]
          <6>1. (reply \in Ended) = FALSE
            BY <4>2
          <6>2. (reply \notin Ended) = TRUE
            BY <4>2
          <6> QED
            BY <2>1, <6>1, <6>2 DEF Reconcile
        <5> QED
          BY <5>1, <3>1
      <4> QED
        BY <4>1, <4>2
    <3> QED
      BY <2>1, <3>1, <3>2
  <2>3. \/ gen' = "none" /\ wire' = <<>> /\ UNCHANGED cursor
        \/ UNCHANGED <<source, gen, cursor, wire>>
    BY <1>7 DEF ReplyLands, Disconnect
  <2>4. ViewTypeOK'
    <3>1. cursor \in Nat /\ wire \in Seq(Nat) /\ gen \in {"list", "check", "none"}
      BY DEF ViewInv, ViewTypeOK
    <3>2. cursor' \in Nat /\ wire' \in Seq(Nat) /\ gen' \in {"list", "check", "none"}
      <4>1. CASE gen' = "none" /\ wire' = <<>> /\ UNCHANGED cursor
        BY <3>1, <4>1
      <4>2. CASE UNCHANGED <<source, gen, cursor, wire>>
        BY <3>1, <4>2
      <4> QED
        BY <4>1, <4>2, <2>3
    <3> QED
      BY <3>2, <2>1, <2>2 DEF ViewTypeOK
  <2>5. WireFits'
    <3>1. CASE gen' = "none" /\ wire' = <<>> /\ UNCHANGED cursor
      BY <3>1, <2>1, <2>2, <1>u, <1>t DEF ViewInv, ViewTypeOK, WireFits
    <3>2. CASE UNCHANGED <<source, gen, cursor, wire>>
      BY <3>2, <2>1, <2>2, <1>u, <1>t DEF ViewInv, ViewTypeOK, WireFits
    <3> QED
      BY <3>1, <3>2, <2>3
  <2>6. reply \in Ended => status[Watched] = reply
    BY DEF ViewInv, TruthFits
  <2>7. TruthFits'
    BY <2>1, <2>2, <2>6, <1>u, <1>t DEF TruthFits, Ended, SessionFits
  <2>8. ShownIsLogPrefix'
    BY <2>1, <2>2, <1>u DEF ViewInv, ShownIsLogPrefix
  <2> QED
    BY <2>4, <2>5, <2>7, <2>8
<1>8. ASSUME ReplyFails \/ Answer \/ CheckStatus PROVE Goal
  <2>1. UNCHANGED vars /\ UNCHANGED <<cursor, wire, source, view>>
    BY <1>8 DEF ReplyFails, Answer, CheckStatus
  <2>2. reply' \in {reply, "none", status[Watched]}
    BY <1>8 DEF ReplyFails, Answer, CheckStatus
  <2>3. /\ gen' \in {"list", "check", "none"}
        /\ gen = "none" => gen' = "none"
    BY <1>8 DEF ReplyFails, Answer, CheckStatus, ViewInv, ViewTypeOK
  <2>4. ViewTypeOK'
    BY <2>1, <2>2, <2>3, <1>t DEF ViewInv, ViewTypeOK
  <2>5. WireFits'
    BY <2>1, <2>3, <1>u DEF ViewInv, WireFits
  <2>6. TruthFits' /\ ShownIsLogPrefix'
    BY <2>1, <2>2, <1>u DEF ViewInv, TruthFits, ShownIsLogPrefix, Ended
  <2> QED
    BY <2>4, <2>5, <2>6
<1>9. ASSUME ListEvents PROVE Goal
  <2> DEFINE top == Len(events[Watched])
  <2> DEFINE more == [i \in 1..(top - cursor) |-> cursor + i]
  <2>1. UNCHANGED vars /\ UNCHANGED <<source, view, reply>>
        /\ wire' = wire \o more /\ cursor' = top /\ gen' = "check" /\ gen = "list"
    BY <1>9 DEF ListEvents
  <2>2. cursor \in Nat /\ cursor <= top /\ wire \in Seq(Nat) /\ top \in Nat /\ source # "none"
    BY <1>t, <2>1 DEF ViewInv, ViewTypeOK, WireFits
  <2>3. more \in Seq(Nat) /\ Len(more) = top - cursor
    BY <2>2
  <2>4. \A i \in 1..(top - cursor) : more[i] = cursor + i
    OBVIOUS
  <2> HIDE DEF more
  <2>5. /\ wire' \in Seq(Nat) /\ Len(wire') = Len(wire) + (top - cursor)
        /\ \A i \in 1..Len(wire') :
               wire'[i] = IF i <= Len(wire) THEN wire[i] ELSE more[i - Len(wire)]
    <3>1. /\ wire \o more \in Seq(Nat)
          /\ Len(wire \o more) = Len(wire) + Len(more)
          /\ \A i \in 1..(Len(wire) + Len(more)) :
                 (wire \o more)[i] = IF i <= Len(wire) THEN wire[i] ELSE more[i - Len(wire)]
      BY <2>2, <2>3, NumbersJoined
    <3> QED
      BY <3>1, <2>1, <2>3
  <2>6. WireFits'
    <3>1. cursor' <= Len(events'[Watched]) /\ Len(wire') <= cursor'
      BY <2>1, <2>2, <2>5, <1>u DEF ViewInv, WireFits
    <3>2. ASSUME NEW i \in 1..Len(wire') PROVE wire'[i] = (cursor' - Len(wire')) + i
      <4>1. CASE i <= Len(wire)
        <5>1. i \in 1..Len(wire)
          BY <4>1, <2>2
        <5>2. wire[i] = (cursor - Len(wire)) + i
          BY <5>1 DEF ViewInv, WireFits
        <5> QED
          BY <5>1, <5>2, <2>1, <2>2, <2>5
      <4>2. CASE ~(i <= Len(wire))
        <5>1. i - Len(wire) \in 1..(top - cursor)
          BY <4>2, <2>2, <2>5
        <5>2. more[i - Len(wire)] = cursor + (i - Len(wire))
          BY <5>1, <2>4
        <5> QED
          BY <4>2, <5>2, <2>1, <2>2, <2>5
      <4> QED
        BY <4>1, <4>2
    <3>3. cursor' - Len(wire') <= view'.last
      <4>1. cursor - Len(wire) <= view.last /\ view.last \in Nat
        BY <2>1 DEF ViewInv, WireFits, ViewTypeOK
      <4> QED
        BY <4>1, <2>1, <2>2, <2>5
    <3>4. source' # "none"
      BY <2>1, <2>2
    <3> QED
      BY <3>1, <3>2, <3>3, <3>4 DEF WireFits
  <2>7. ViewTypeOK'
    BY <2>1, <2>2, <2>5 DEF ViewInv, ViewTypeOK
  <2>8. TruthFits' /\ ShownIsLogPrefix'
    BY <2>1, <1>u DEF ViewInv, TruthFits, ShownIsLogPrefix
  <2> QED
    BY <2>6, <2>7, <2>8
<1>10. CASE UNCHANGED allVars
  BY <1>10, <1>0, ServerStep DEF allVars, viewVars
<1> QED
  BY <1>1, <1>2, <1>3, <1>4, <1>5, <1>6, <1>7, <1>8, <1>9, <1>10 DEF ViewNext, Page, Router

LEMMA ViewStart == ViewInit => ViewInv
<1> SUFFICES ASSUME ViewInit PROVE ViewInv
  OBVIOUS
<1>1. Init /\ ScriptInv /\ Watched \in Sessions
  BY ScriptStart, ViewAssumption DEF ViewInit
<1>2. /\ view.last = 0 /\ view.shown = <<>> /\ view.status = "absent"
      /\ view \in [shown : Seq(Nat), last : Nat, status : Status, terminal : BOOLEAN,
                   reconnecting : BOOLEAN]
  BY DEF ViewInit, NewView, Status
<1>3. events[Watched] = <<>>
  BY <1>1 DEF Init
<1>4. ViewTypeOK
  BY <1>2 DEF ViewInit, ViewTypeOK
<1>5. WireFits /\ ShownIsLogPrefix
  BY <1>2, <1>3 DEF ViewInit, WireFits, ShownIsLogPrefix
<1>6. TruthFits
  BY <1>2 DEF ViewInit, TruthFits, Ended
<1> QED
  BY <1>1, <1>4, <1>5, <1>6 DEF ViewInv

\* A page that watches changes nothing: all that is proved of the server holds with
\* the page, its router and its lost connections beside it.
THEOREM WatchingIsHarmless == ViewSpec => Spec /\ KeepsPromise
<1>1. ViewInit => Init
  BY DEF ViewInit
<1> QED
  BY <1>1, Serves, SessionRefinement, PTL DEF ViewSpec, Spec

\* The page, the wire and the generator agree with the log, however often the
\* connection is lost and however late the answers come.
THEOREM ViewInvariant == ViewSpec => []ViewInv
BY ViewStart, ViewStep, PTL DEF ViewSpec

\* The page has applied a prefix of the log, each event once and in order.
THEOREM ShownOnce == ViewSpec => []ShownIsLogPrefix
<1>1. ViewInv => ShownIsLogPrefix
  BY DEF ViewInv
<1> QED
  BY <1>1, ViewInvariant, PTL

\* The end that the page shows is the one the chain of revisions has.
THEOREM TruthIsShown == ViewSpec => []ViewIsTruthful
<1>1. ASSUME ViewInv PROVE ViewIsTruthful
  <2>1. SessionFits(Watched) /\ revisions[Watched] \in Nat /\ TruthFits
    BY <1>1, ViewAssumption DEF ViewInv, ScriptInv, TypeOK
  <2>2. Has(Watched, "failed") \/ status[Watched] \in {"failed", "unknown_outcome"} =>
            revisions[Watched] = 0
    BY <2>1 DEF SessionFits
  <2> QED
    BY <2>1, <2>2 DEF ViewIsTruthful, TruthFits
<1>2. ViewInv => ViewIsTruthful
  BY <1>1
<1> QED
  BY <1>2, ViewInvariant, PTL

=============================================================================
