--------------------------- MODULE MCJobDelivery ---------------------------
(* TLC instances of JobDelivery. *)
EXTENDS JobDelivery, TLC

CONSTANTS r1, r2, r3

\* Every request has a job of its own.
OwnJobs == r1 :> 1 @@ r2 :> 2 @@ r3 :> 3

OwnJobs2 == r1 :> 1 @@ r2 :> 2

\* The hub sends one job again: r2 carries the job_id of r1. With it TLC finds
\* PersistedUntilSent violated.
RetriedJob == r1 :> 1 @@ r2 :> 1
=============================================================================
