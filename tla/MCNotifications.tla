--------------------------- MODULE MCNotifications ---------------------------
(* Two builds of a commit: 'Create Jobs' and one job more, and the           *)
(* 'Create Jobs' of its restart. Their dashboard, the command line with a    *)
(* token of the project, and a stranger.                                     *)
EXTENDS Notifications

CONSTANTS p, sha, b, b2, c, j, c2, dashboard, cli, stranger

Build == [i \in {c, j, c2} |-> IF i = c2 THEN b2 ELSE b]
Name == [i \in {c, j, c2} |-> IF i = j THEN "test" ELSE "Create Jobs"]
CommitOfBuild == [x \in {b, b2} |-> sha]
ProjectOfCommit == [x \in {sha} |-> p]
Tokens == [x \in {dashboard, cli, stranger} |-> IF x = cli THEN "project" ELSE "user"]

\* The reviews of projects of their own type see the two builds.
Reviewed == {<<"github-review", "github">>, <<"gerrit-review", "gerrit">>}
Setup(s, t, r, x) == [service |-> s, type |-> [i \in {p} |-> t], room |-> r, clients |-> x,
                      builds |-> IF <<s, t>> \in Reviewed THEN {b, b2} ELSE {b}]
AllSetups ==
    {Setup("job-listener", "upload", "project", {dashboard}),
     Setup("job-listener", "github", "build", {cli}),
     Setup("console-listener", "upload", "job", {dashboard, cli}),
     Setup("console-listener", "upload", "job", {dashboard, stranger}),
     Setup("github-review", "github", "project", {}),
     Setup("github-review", "gerrit", "project", {}),
     Setup("gerrit-review", "gerrit", "project", {}),
     Setup("gerrit-review", "github", "project", {})}
Changes == [s \in Service |-> IF s \in Review THEN 4 ELSE 2]
=============================================================================
