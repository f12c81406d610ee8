--------------------------- MODULE SessionPromise ---------------------------
(***************************************************************************)
(* What streamed generation promises of each session, without rows,        *)
(* threads or deaths: the supplier is asked at most once; what it says     *)
(* goes to a log that only grows; at most one result is made, never after  *)
(* a failure was told; the log's last word is the truth about the result;  *)
(* and the session is closed once, a result never without its word.        *)
(***************************************************************************)
EXTENDS Naturals, Sequences, SequencesExt

CONSTANT Sessions

VARIABLES phase,   \* "new", "open", or the word it was closed with
          log,     \* what subscribers are told, in order
          asked,   \* requests made to the supplier
          made     \* results that entered the chain

promiseVars == <<phase, log, asked, made>>

LastWords == {"revision_completed", "failed"}

PromiseInit ==
    /\ phase = [s \in Sessions |-> "new"]
    /\ log = [s \in Sessions |-> <<>>]
    /\ asked = [s \in Sessions |-> 0]
    /\ made = [s \in Sessions |-> 0]

Told(s, word) == Contains(log[s], word)
Undecided(s) == phase[s] = "open" /\ \A word \in LastWords : ~Told(s, word)

Open(s) ==
    /\ phase[s] = "new"
    /\ phase' = [phase EXCEPT ![s] = "open"]
    /\ UNCHANGED <<log, asked, made>>

Ask(s) ==
    /\ Undecided(s) /\ asked[s] = 0
    /\ asked' = [asked EXCEPT ![s] = 1]
    /\ UNCHANGED <<phase, log, made>>

\* A word of the stream, and no more of them once the last word was said.
Tell(s, word) ==
    /\ Undecided(s) /\ asked[s] = 1 /\ made[s] = 0
    /\ log' = [log EXCEPT ![s] = Append(@, word)]
    /\ UNCHANGED <<phase, asked, made>>

Make(s) ==
    /\ Undecided(s) /\ asked[s] = 1 /\ made[s] = 0
    /\ made' = [made EXCEPT ![s] = 1]
    /\ UNCHANGED <<phase, log, asked>>

\* The last word may be said again, but never another one.
Conclude(s) ==
    /\ phase[s] = "open"
    /\ log' = [log EXCEPT ![s] =
                  Append(@, IF made[s] = 1 THEN "revision_completed" ELSE "failed")]
    /\ UNCHANGED <<phase, asked, made>>

\* Several at a time, when a restart gives them up.
Close(S) ==
    /\ \A s \in S : phase[s] = "open" /\ (made[s] = 1 => Told(s, "revision_completed"))
    /\ \E word \in {"failed", "unknown_outcome"} :
           phase' = [s \in Sessions |-> IF s \notin S THEN phase[s]
                                        ELSE IF made[s] = 1 THEN "completed" ELSE word]
    /\ UNCHANGED <<log, asked, made>>

PromiseNext ==
    \/ \E s \in Sessions : \/ Open(s) \/ Ask(s) \/ Make(s) \/ Conclude(s)
                           \/ \E word \in {"text_delta", "stage", "usage"} : Tell(s, word)
    \/ \E S \in SUBSET Sessions : Close(S)

PromiseSpec == PromiseInit /\ [][PromiseNext]_promiseVars

=============================================================================
