--------------------------- MODULE MCJobServices ---------------------------
(* Small sets of jobs and services for TLC to check JobServices on.        *)
EXTENDS JobServices, TLC

CONSTANTS a, b, k, l

OneJob == {a}
TwoJobs == {a, b}

\* A job asks for one cluster.
OneService == {k}
OfA == k :> a
TwoServices == {k, l}
OfEach == k :> a @@ l :> b
=============================================================================
