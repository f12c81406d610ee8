------------------------- MODULE SubmissionPromise -------------------------
(***************************************************************************)
(* What the generation subsystem promises of each job, without tables,     *)
(* processes or crashes: the provider is asked at most once; a job that    *)
(* has ended is never asked about again; only a job whose provider id is   *)
(* on record can complete, and it completes or ends once.                  *)
(***************************************************************************)
EXTENDS Naturals

CONSTANT Jobs

VARIABLES phase,   \* "new", "called", "tracked", "completed" or "ended"
          calls    \* submissions of the job to a provider

promiseVars == <<phase, calls>>

PromiseInit ==
    /\ phase = [j \in Jobs |-> "new"]
    /\ calls = [j \in Jobs |-> 0]

Advance(j, from, to) == phase[j] \in from /\ phase' = [phase EXCEPT ![j] = to]

Call(j) ==
    /\ calls[j] = 0
    /\ Advance(j, {"new"}, "called")
    /\ calls' = [calls EXCEPT ![j] = 1]

Track(j) == Advance(j, {"called"}, "tracked") /\ UNCHANGED calls

Complete(j) == Advance(j, {"tracked"}, "completed") /\ UNCHANGED calls

\* Failed or cancelled, several at a time when a credential is revoked.
End(S) ==
    /\ \A j \in S : phase[j] \in {"new", "called", "tracked"}
    /\ phase' = [j \in Jobs |-> IF j \in S THEN "ended" ELSE phase[j]]
    /\ UNCHANGED calls

PromiseNext ==
    \/ \E j \in Jobs : Call(j) \/ Track(j) \/ Complete(j)
    \/ \E S \in SUBSET Jobs : End(S)

PromiseSpec == PromiseInit /\ [][PromiseNext]_promiseVars

=============================================================================
