------------------------------ MODULE MCBuilds ------------------------------
(* Three requests of all kinds to one project, of each type.                *)
EXTENDS Builds

CONSTANTS g, u, e, c, d

AProject == {g, u, e}
Types == [p \in AProject |-> CASE p = g -> "github" [] p = u -> "upload" [] OTHER -> "gerrit"]

Ask(kind, p, commit, branch) == [kind |-> kind, project |-> p, commit |-> commit, branch |-> branch]

\* Two heads, pushed, in a pull request, and triggered by its hash.
GitHubAsks ==
    <<Ask("push", g, c, TRUE), Ask("push", g, d, TRUE), Ask("pull_request", g, c, TRUE),
      Ask("trigger", g, d, FALSE), Ask("restart", g, None, TRUE)>>
UploadAsks ==
    <<Ask("upload", u, None, TRUE), Ask("trigger", u, None, TRUE), Ask("restart", u, None, TRUE)>>
GerritAsks ==
    <<Ask("event", e, c, TRUE), Ask("event", e, d, TRUE), Ask("trigger", e, d, TRUE)>>

\* Every choice of three that are not all the same, in one order.
Choices(asks) ==
    {[r \in 1..3 |-> asks[t[r]]] : t \in
        {t \in [1..3 -> DOMAIN asks] : t[1] <= t[2] /\ t[2] <= t[3] /\ t[1] # t[3]}}

AllScenarios == Choices(GitHubAsks) \cup Choices(UploadAsks) \cup Choices(GerritAsks)
=============================================================================
