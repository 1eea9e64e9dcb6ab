------------------------------ MODULE MCJobData ------------------------------
(* A parent and a child it generates, in two clusters; a parent, a child, and *)
(* a job that depends on both and runs in any case; a single job with         *)
(* results; and a parent with children in two clusters other than its own.    *)
(* (What is its own creator is never there.)                                  *)
EXTENDS JobData, TLC

CONSTANTS p, q, g, A, B, C

At(x, y, z) == p :> x @@ q :> y @@ g :> z
NoFiles == {}

Always == {"finished", "error", "failure", "skipped"}

Deploying(cluster, parents, creator, files, deployments) ==
    [cluster |-> cluster, parents |-> parents, on |-> [j \in Jobs |-> [k \in Jobs |-> {"finished"}]],
     creator |-> creator, files |-> files, deployments |-> deployments, tries |-> 2]
Setup(cluster, parents, creator, files) == Deploying(cluster, parents, creator, files, {})
Impatient(one) == [one EXCEPT !.tries = 1]
CleanUp(j, one) == [one EXCEPT !.on[j] = [k \in Jobs |-> Always]]

TwoClusters ==
    {Setup(At(A, B, A), At({}, {p}, {}), At({}, {p}, {g}), NoFiles),
     CleanUp(g, Impatient(Setup(At(A, B, A), At({}, {p}, {p, q}), At({}, {}, {}), NoFiles))),
     Deploying(At(A, A, A), At({}, {}, {}), At({}, {q}, {g}),
               {<<"testresult", 1>>, <<"markup", 1>>, <<"badge", 1>>}, {1, 2})}

ThreeClusters == {Setup(At(A, B, C), At({}, {p}, {p}), At({}, {}, {}), NoFiles)}

ManyBadges == {Setup(At(A, A, A), At({}, {p}, {p}), At({}, {}, {}), {<<"badge", 1>>, <<"badge", 2>>})}
=============================================================================
