--------------------------- MODULE MCJobLifecycle ---------------------------
(* Small builds for TLC to check JobLifecycle on.                          *)
EXTENDS JobLifecycle, TLC

CONSTANTS a, b, m, s

TwoJobs == {a, b}
OneJob == {a}

\* The "on" that rewrite_depends_on makes of "*".
Wildcard == {"finished", "error", "failure", "skipped"}

\* A chain: b needs a to have finished.
ChainDeps == a :> {} @@ b :> {[job |-> a, on |-> {"finished"}]}

\* A job, and one that waits for its end.
WaitDeps == a :> {} @@ b :> {[job |-> a, on |-> Wildcard]}

NoDeps == a :> {}

InOrder == a :> 1 @@ b :> 2
JustOne == a :> 1

\* The second job runs in a second cluster, or in the same one.
TwoClusters == {m, s}
Apart == a :> m @@ b :> s
OneCluster == {m}
Together == a :> m @@ b :> m
Alone == a :> m

\* The users make one request, an abort or a restart.
OneRequest == nAborts + nRestarts <= 1
=============================================================================
