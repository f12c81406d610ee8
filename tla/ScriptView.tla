----------------------------- MODULE ScriptView -----------------------------
(***************************************************************************)
(* A browser watching a session of ScriptGeneration: the generator behind  *)
(* GET /script-generation-runs/{id}/events, the EventSource of             *)
(* useScriptGenerationStream, and the state its reducer keeps.             *)
(*                                                                         *)
(* The generator lists the events after its cursor and then reads the      *)
(* status, and the runner's thread commits in between.  What it yields is  *)
(* on the wire until the page receives it; a lost connection loses it.     *)
(* EventSource reconnects by itself, always to ?after_sequence=0, while    *)
(* the GET that onerror sent is on its way.                                *)
(*                                                                         *)
(* Abstracted: payloads, heartbeats, unmounting the page.  One such GET is *)
(* in flight at a time: an error that comes while one is sends none.       *)
(***************************************************************************)
EXTENDS ScriptGeneration

CONSTANTS
    Watched,      \* the session on the page
    MaxDrops,     \* bound: lost connections and failed GETs
    LateReplies   \* may EventSource be back before the GET is answered?

ASSUME ViewAssumption == Watched \in Sessions /\ MaxDrops \in Nat /\ LateReplies \in BOOLEAN

VARIABLES
    gen,        \* the generator's next step: "list", "check" or "none"
    cursor,     \* its cursor: the last sequence it has yielded
    wire,       \* sequences yielded and not yet received
    source,     \* the EventSource: "none", "connecting", "open" or "closed"
    view,       \* the ScriptStreamState; shown is what was applied to text and stage
    reply,      \* the GET of onerror: "none", "asked", or the status it answered
    drops

viewVars == <<gen, cursor, wire, source, view, reply, drops>>
allVars == <<vars, viewVars>>

\* createScriptStreamState
NewView(st) == [shown |-> <<>>, last |-> 0, status |-> st, terminal |-> st \in Ended,
                reconnecting |-> FALSE]

ViewInit ==
    /\ Init
    /\ gen = "none" /\ cursor = 0 /\ wire = <<>>
    /\ source = "none" /\ view = NewView("absent") /\ reply = "none" /\ drops = 0

-----------------------------------------------------------------------------
(* streaming.ts *)

\* Mutant: what was shown before is shown again.
ReduceAll(v, n) ==
    [v EXCEPT !.last = n, !.reconnecting = FALSE, !.shown = Append(@, n),
              !.terminal = @ \/ events[Watched][n] \in {"failed", "revision_completed"}]

\* What an event makes of the status; "usage" leaves it.
StatusOf == [text_delta |-> "streaming", stage |-> "finalizing", failed |-> "failed",
             revision_completed |-> "completed"]

\* reduceScriptStreamEvent: an event that is not newer than the last is ignored.
Reduce(v, n) ==
    LET type == events[Watched][n] IN
    IF n <= v.last THEN v
    ELSE [v EXCEPT !.last = n, !.reconnecting = FALSE, !.shown = Append(@, n),
                   !.terminal = @ \/ type \in {"failed", "revision_completed"},
                   !.status = IF type \in DOMAIN StatusOf THEN StatusOf[type] ELSE @]

\* reconcileScriptRun: the answer of the GET replaces status and terminal.
Reconcile(v, st) == [v EXCEPT !.status = st, !.terminal = st \in Ended,
                              !.reconnecting = st \notin Ended]

-----------------------------------------------------------------------------
(* useScriptGenerationStream *)

Disconnect == gen' = "none" /\ wire' = <<>> /\ UNCHANGED cursor

\* The page gets the run from the start request, whose answer may be an old one
\* that sessionStorage kept, and opens the EventSource.
Open ==
    /\ source = "none" /\ status[Watched] # "absent"
    /\ \E st \in {"prepared", status[Watched]} : view' = NewView(st)
    /\ source' = "connecting"
    /\ UNCHANGED <<vars, gen, cursor, wire, reply, drops>>

\* onopen; the URL still says after_sequence=0.
Connect ==
    /\ source = "connecting" /\ server = "up"
    /\ LateReplies \/ reply = "none"
    /\ source' = "open" /\ gen' = "list" /\ cursor' = 0 /\ wire' = <<>>
    /\ view' = [view EXCEPT !.reconnecting = FALSE]
    /\ UNCHANGED <<vars, reply, drops>>

\* accept: a terminal event closes the source.
Receive ==
    /\ source = "open" /\ wire # <<>>
    /\ view' = Reduce(view, Head(wire))
    /\ IF events[Watched][Head(wire)] \in {"failed", "revision_completed"}
       THEN source' = "closed" /\ Disconnect
       ELSE wire' = Tail(wire) /\ UNCHANGED <<source, gen, cursor>>
    /\ UNCHANGED <<vars, reply, drops>>

\* Mutant: the run is not read.
OnErrorBlind == /\ source' = "connecting" /\ UNCHANGED reply
                /\ view' = [view EXCEPT !.reconnecting = TRUE]
                /\ Disconnect

\* onerror: EventSource will reconnect, and the run is read meanwhile.
OnError ==
    /\ source' = "connecting"
    /\ view' = [view EXCEPT !.reconnecting = TRUE]
    /\ reply' = IF reply = "none" THEN "asked" ELSE reply
    /\ Disconnect

\* The generator has returned and all it sent has been received.
StreamEnded == /\ source = "open" /\ gen = "none" /\ wire = <<>> /\ OnError
               /\ UNCHANGED <<vars, drops>>

\* What is on the wire is lost.
ConnectionLost == /\ source = "open" /\ drops < MaxDrops /\ OnError
                  /\ drops' = drops + 1 /\ UNCHANGED vars

ReplyLands ==
    /\ reply \in Status
    /\ view' = Reconcile(view, reply)
    /\ IF reply \in Ended /\ source # "closed" THEN source' = "closed" /\ Disconnect
                                              ELSE UNCHANGED <<source, gen, cursor, wire>>
    /\ reply' = "none"
    /\ UNCHANGED <<vars, drops>>

\* .catch(() => undefined)
ReplyFails == /\ reply # "none" /\ drops < MaxDrops
              /\ reply' = "none" /\ drops' = drops + 1
              /\ UNCHANGED <<vars, gen, cursor, wire, source, view>>

-----------------------------------------------------------------------------
(* routers/scripts.py *)

\* get_script_generation_run
Answer == /\ reply = "asked" /\ server = "up" /\ reply' = status[Watched]
          /\ UNCHANGED <<vars, gen, cursor, wire, source, view, drops>>

\* event_stream: one turn is a list and then a read of the status.
ListEvents ==
    /\ gen = "list"
    /\ LET top == Len(events[Watched]) IN
       /\ wire' = wire \o [i \in 1..(top - cursor) |-> cursor + i]
       /\ cursor' = top
    /\ gen' = "check"
    /\ UNCHANGED <<vars, source, view, reply, drops>>

CheckStatus ==
    /\ gen = "check"
    /\ gen' = IF status[Watched] \in Ended THEN "none" ELSE "list"
    /\ UNCHANGED <<vars, cursor, wire, source, view, reply, drops>>

\* A crash ends the connection, and a GET that was not yet answered.
CrashConnection ==
    /\ Crash
    /\ Disconnect
    /\ source' = IF source = "open" THEN "connecting" ELSE source
    /\ view' = IF source = "open" THEN [view EXCEPT !.reconnecting = TRUE] ELSE view
    /\ reply' = IF reply = "asked" THEN "none" ELSE reply
    /\ UNCHANGED drops

-----------------------------------------------------------------------------

Page == Connect \/ Receive \/ StreamEnded \/ ReplyLands
Router == Answer \/ ListEvents \/ CheckStatus

ViewNext == \/ Alive /\ UNCHANGED viewVars
            \/ CrashConnection
            \/ Open \/ Page \/ Router \/ ConnectionLost \/ ReplyFails

ViewSpec == ViewInit /\ [][ViewNext]_allVars

\* The server's fairness, and the event loops of the page and of the server go on.
ViewFairSpec == /\ ViewSpec /\ Fairness
                /\ WF_allVars(Page) /\ WF_allVars(Answer)
                /\ WF_allVars(ListEvents) /\ WF_allVars(CheckStatus)

-----------------------------------------------------------------------------
(* Properties *)

\* streaming.ts: the page has applied the events of a prefix of the log, each once
\* and in order, however often the connection was lost and the log replayed.
ShownIsLogPrefix ==
    /\ view.shown = [i \in 1..view.last |-> i]
    /\ view.last <= Len(events[Watched])

\* What the page says of the end is true of the chain: "completed" only with a
\* revision there, "failed" or "unknown" only without one.
ViewIsTruthful ==
    /\ view.status = "completed" => revisions[Watched] = 1
    /\ view.status \in {"failed", "unknown_outcome"} => revisions[Watched] = 0

\* A page that watches a session which has ended comes to say so, and to stay so.
ViewEnds ==
    source # "none" /\ status[Watched] \in Ended
        ~> [](source = "closed" /\ view.terminal /\ view.status \in Ended)

=============================================================================
