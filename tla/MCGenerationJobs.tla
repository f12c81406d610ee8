-------------------------- MODULE MCGenerationJobs --------------------------
(* GenerationJobs for TLC.  The configurations give the jobs of each kind, the *)
(* settings a start may find and the number of crashes.                        *)
EXTENDS GenerationJobs
=============================================================================
