---------------------------- MODULE MCJobCreation ----------------------------
(* Small documents for TLC to check JobCreation on.                         *)
EXTENDS JobCreation

\* Entries: a job, and a workflow, with their dependencies.
On(n, on) == [job |-> n, on |-> on]
Finished(n) == On(n, {"finished"})
Job(n, deps) == [name |-> n, workflow |-> FALSE, sub |-> <<>>, deps |-> deps]
Workflow(n, deps, sub) == [name |-> n, workflow |-> TRUE, sub |-> sub, deps |-> deps]

\* The documents of a document, and how deep it is.
RECURSIVE Parts(_), Height(_)
Parts(doc) == {doc} \cup UNION {Parts(doc[i].sub) : i \in DOMAIN doc}
Height(doc) == Max({0} \cup {1 + Height(doc[i].sub) : i \in DOMAIN doc})

\* A workflow with two branches between two jobs, the last one for cleaning up.
Nested ==
    <<Job("a", <<>>),
      Workflow("w", <<Finished("a")>>, <<Job("x", <<>>), Job("y", <<>>)>>),
      Job("b", <<On("w", {"*"})>>)>>

\* A workflow in a workflow, with a chain in front of it.
Deep ==
    <<Job("a", <<>>),
      Workflow("w", <<On("a", {"failure", "finished"})>>,
               <<Job("x", <<>>), Workflow("v", <<Finished("x")>>, <<Job("y", <<>>)>>)>>)>>

\* A job between two.
Chain == <<Job("a", <<>>), Job("b", <<Finished("a")>>)>>

\* A chain in a workflow, with a clean-up job at its end, and a workflow
\* without jobs.
CleanUp ==
    <<Workflow("w", <<>>,
               <<Job("a", <<>>), Job("b", <<Finished("a")>>), Workflow("v", <<Finished("a")>>, <<>>),
                 Job("x", <<Finished("b"), On("v", {"finished", "error"})>>),
                 Job("y", <<On("x", {"*"})>>)>>)>>

\* Not valid: two jobs that wait for each other, and a name used twice.
Cycle == <<Job("a", <<Finished("b")>>), Job("b", <<Finished("a")>>)>>
Twice == <<Job("a", <<>>), Job("a", <<>>)>>

\* Valid, and without a job.
Empty == <<>>

One == <<Job("z", <<>>)>>
Wrapped == <<Workflow("w", <<>>, <<Job("z", <<>>)>>)>>

AllDocuments == {Nested, Deep, Chain, CleanUp, Cycle, Twice, Empty}
AllGenerated == {Wrapped, Cycle}
OnlyChain == {Chain}
OnlyOne == {One}

AllNames == {"a", "b", "c", "v", "w", "x", "y", "z"}
AllDoc == UNION {Parts(doc) : doc \in AllDocuments \cup AllGenerated \cup {One}}
Depths == [doc \in AllDoc |-> Height(doc)]
=============================================================================
