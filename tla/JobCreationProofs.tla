-------------------------- MODULE JobCreationProofs --------------------------
(***************************************************************************)
(* Proofs about JobCreation: the type invariant, and what the order of a    *)
(* document means for the jobs that are made of it.                         *)
(***************************************************************************)
EXTENDS JobCreation, SequenceTheorems, TLAPS

-----------------------------------------------------------------------------
(* Paths.                                                                  *)

LEMMA Longer ==
    ASSUME NEW n \in Names, NEW p \in Seq(Names)
    PROVE  /\ <<n>> \in Path
           /\ <<n>> \o p \in Path
           /\ Head(<<n>>) = n
           /\ Tail(<<n>>) = <<>>
           /\ Head(<<n>> \o p) = n
           /\ Tail(<<n>> \o p) = p
           /\ p # <<>> => <<n>> \o p # <<n>>
  BY DEF Path

LEMMA PathIsSeq == \A p \in Path : p \in Seq(Names) /\ p # <<>>
  BY DEF Path

LEMMA LongerPrefix ==
    ASSUME NEW n \in Names, NEW p \in Path, NEW q \in Path,
           IsStrictPrefix(<<n>> \o p, <<n>> \o q)
    PROVE  IsStrictPrefix(p, q)
<1> DEFINE P == <<n>> \o p
           Q == <<n>> \o q
<1>1. p \in Seq(Names) /\ q \in Seq(Names) /\ P \in Seq(Names) /\ Q \in Seq(Names)
  BY DEF Path
<1>2. Len(P) = Len(p) + 1 /\ Len(Q) = Len(q) + 1
  BY <1>1
<1>3. /\ \A i \in 1..Len(p) : P[i + 1] = p[i]
      /\ \A i \in 1..Len(q) : Q[i + 1] = q[i]
  BY <1>1
<1>4. Len(p) <= Len(q) /\ p # q /\ SubSeq(P, 1, Len(P)) = SubSeq(Q, 1, Len(P))
  BY <1>1, <1>2 DEF IsStrictPrefix, IsPrefix
<1>5. \A i \in 1..Len(P) : P[i] = Q[i]
  <2> HIDE DEF P, Q
  <2> QED
    BY <1>1, <1>2, <1>4
<1>6. \A i \in 1..Len(p) : p[i] = q[i]
  <2> TAKE i \in 1..Len(p)
  <2> HIDE DEF P, Q
  <2>1. Len(p) \in Nat /\ i + 1 \in 1..Len(P) /\ i \in 1..Len(q)
    BY <1>1, <1>2, <1>4
  <2>2. P[i + 1] = Q[i + 1]
    BY <2>1, <1>5
  <2> QED
    BY <2>1, <2>2, <1>3
<1>7. SubSeq(p, 1, Len(p)) = SubSeq(q, 1, Len(p))
  BY <1>1, <1>4, <1>6
<1> QED
  BY <1>4, <1>7 DEF IsStrictPrefix, IsPrefix

LEMMA PrefixHead ==
    ASSUME NEW p \in Path, NEW q \in Path, IsStrictPrefix(p, q)
    PROVE  Head(p) = Head(q)
  BY DEF IsStrictPrefix, IsPrefix, Path

\* Nothing is a proper prefix of a path of one name.
LEMMA NoPrefixOfOne ==
    ASSUME NEW n \in Names, NEW p \in Path
    PROVE  ~IsStrictPrefix(p, <<n>>)
<1> SUFFICES ASSUME IsStrictPrefix(p, <<n>>)
             PROVE  FALSE
  OBVIOUS
<1>1. p \in Seq(Names) /\ Len(p) = 1 /\ Head(p) = n
  BY PrefixHead, Longer DEF IsStrictPrefix, IsPrefix, Path
<1>2. p = <<n>>
  BY <1>1
<1> QED
  BY <1>2 DEF IsStrictPrefix

-----------------------------------------------------------------------------
(* Documents.                                                              *)

LEMMA EntryFacts ==
    ASSUME NEW doc \in Doc, NEW i \in DOMAIN doc
    PROVE  /\ doc[i] \in Entry
           /\ Len(doc) \in Nat /\ DOMAIN doc = 1..Len(doc) /\ i \in Nat
           /\ doc[i].name \in Names /\ doc[i].sub \in Doc
           /\ doc[i].deps \in Seq(Dependency)
           /\ ParentsOf(doc[i]) \subseteq Names
           /\ doc[i].workflow => Depth[doc[i].sub] < Depth[doc]
<1>1. doc \in Seq(Entry)
  BY DocumentsAssumption
<1>2. doc[i] \in Entry /\ Len(doc) \in Nat /\ DOMAIN doc = 1..Len(doc) /\ i \in Nat
  BY <1>1
<1>3. doc[i].deps \in Seq(Dependency)
  BY <1>2 DEF Entry
<1>4. ParentsOf(doc[i]) \subseteq Names
  <2>1. \A k \in DOMAIN doc[i].deps : doc[i].deps[k] \in Dependency
    BY <1>3
  <2> QED
    BY <2>1 DEF ParentsOf, Dependency
<1> QED
  BY <1>2, <1>3, <1>4, DocumentsAssumption DEF Entry

ValidBody(valid, doc) ==
    \A i \in DOMAIN doc : ValidEntry(doc, i) /\ (doc[i].workflow => valid[doc[i].sub])

JobListBody(list, doc) ==
    UNION {JobsOf(doc[i], IF doc[i].workflow THEN list[doc[i].sub] ELSE {}) : i \in DOMAIN doc}

BeforeBody(before, doc) ==
    [p \in Path |-> [q \in Path |->
        IF Head(p) # Head(q) THEN Precedes(doc, Head(p), Head(q))
        ELSE \E i \in DOMAIN doc :
                /\ doc[i].name = Head(p) /\ doc[i].workflow
                /\ Tail(p) # <<>> /\ Tail(q) # <<>>
                /\ before[doc[i].sub][Tail(p)][Tail(q)]]]

Validity == INSTANCE DepthRecursion WITH Data <- Doc, Body <- ValidBody
Listing == INSTANCE DepthRecursion WITH Data <- Doc, Body <- JobListBody
Ordering == INSTANCE DepthRecursion WITH Data <- Doc, Body <- BeforeBody

LEMMA DepthType == Depth \in [Doc -> Nat]
  BY DocumentsAssumption

LEMMA ValidDef == Valid = [doc \in Doc |-> ValidBody(Valid, doc)]
<1>1. Validity!Local
  <2> SUFFICES ASSUME NEW f, NEW g, NEW d \in Doc,
                      \A e \in Doc : Depth[e] < Depth[d] => f[e] = g[e]
               PROVE  ValidBody(f, d) = ValidBody(g, d)
    BY Zenon DEF Validity!Local
  <2>1. \A i \in DOMAIN d : d[i].workflow => f[d[i].sub] = g[d[i].sub]
    BY EntryFacts
  <2> QED
    BY <2>1, Zenon DEF ValidBody
<1>2. Valid = CHOOSE valid : valid = [doc \in Doc |-> ValidBody(valid, doc)]
  BY Zenon DEF Valid, ValidBody
<1> QED
  BY <1>1, <1>2, DepthType, Validity!Recursion, Zenon

LEMMA JobListDef == JobList = [doc \in Doc |-> JobListBody(JobList, doc)]
<1>1. Listing!Local
  <2> SUFFICES ASSUME NEW f, NEW g, NEW d \in Doc,
                      \A e \in Doc : Depth[e] < Depth[d] => f[e] = g[e]
               PROVE  JobListBody(f, d) = JobListBody(g, d)
    BY Zenon DEF Listing!Local
  <2>1. \A i \in DOMAIN d : d[i].workflow => f[d[i].sub] = g[d[i].sub]
    BY EntryFacts
  <2>2. \A i \in DOMAIN d :
            JobsOf(d[i], IF d[i].workflow THEN f[d[i].sub] ELSE {})
              = JobsOf(d[i], IF d[i].workflow THEN g[d[i].sub] ELSE {})
    BY <2>1, Zenon
  <2> QED
    BY <2>2, Zenon DEF JobListBody
<1>2. JobList = CHOOSE list : list = [doc \in Doc |-> JobListBody(list, doc)]
  BY Zenon DEF JobList, JobListBody
<1> QED
  BY <1>1, <1>2, DepthType, Listing!Recursion, Zenon

LEMMA BeforeDef == Before = [doc \in Doc |-> BeforeBody(Before, doc)]
<1>1. Ordering!Local
  <2> SUFFICES ASSUME NEW f, NEW g, NEW d \in Doc,
                      \A e \in Doc : Depth[e] < Depth[d] => f[e] = g[e]
               PROVE  BeforeBody(f, d) = BeforeBody(g, d)
    BY Zenon DEF Ordering!Local
  <2>1. \A i \in DOMAIN d : d[i].workflow => f[d[i].sub] = g[d[i].sub]
    BY EntryFacts
  <2>2. ASSUME NEW p \in Path, NEW q \in Path
        PROVE  (\E i \in DOMAIN d : /\ d[i].name = Head(p) /\ d[i].workflow
                                    /\ Tail(p) # <<>> /\ Tail(q) # <<>>
                                    /\ f[d[i].sub][Tail(p)][Tail(q)])
                = (\E i \in DOMAIN d : /\ d[i].name = Head(p) /\ d[i].workflow
                                       /\ Tail(p) # <<>> /\ Tail(q) # <<>>
                                       /\ g[d[i].sub][Tail(p)][Tail(q)])
    BY <2>1, Zenon
  <2> QED
    BY <2>2, Zenon DEF BeforeBody
<1>2. Before = CHOOSE before : before = [doc \in Doc |-> BeforeBody(before, doc)]
  BY Zenon DEF Before, BeforeBody
<1> QED
  BY <1>1, <1>2, DepthType, Ordering!Recursion, Zenon

\* A valid document: names identify its entries, and an entry depends on
\* entries in front of it.
LEMMA ValidFacts ==
    ASSUME NEW doc \in Doc, Valid[doc], NEW i \in DOMAIN doc
    PROVE  /\ ParentsOf(doc[i]) \subseteq {doc[k].name : k \in 1..(i - 1)}
           /\ doc[i].name \notin ParentsOf(doc[i])
           /\ \A k \in DOMAIN doc : doc[k].name = doc[i].name => k = i
           /\ doc[i].workflow => Valid[doc[i].sub]
<1>1. Valid[doc] = ValidBody(Valid, doc)
  BY ValidDef, Zenon
<1>2. \A k \in DOMAIN doc : ValidEntry(doc, k)
  BY <1>1 DEF ValidBody
<1>3. \A k \in DOMAIN doc : doc[k].name \notin {doc[m].name : m \in 1..(k - 1)}
  BY <1>2, Zenon DEF ValidEntry
<1>4. ASSUME NEW k \in DOMAIN doc, doc[k].name = doc[i].name
      PROVE  k = i
  <2>1. i \in Nat /\ k \in Nat /\ DOMAIN doc = 1..Len(doc) /\ Len(doc) \in Nat
    BY EntryFacts
  <2>2. ~(k \in 1..(i - 1)) /\ ~(i \in 1..(k - 1))
    BY <1>3, <1>4
  <2> QED
    BY <2>1, <2>2
<1>5. ParentsOf(doc[i]) \subseteq {doc[k].name : k \in 1..(i - 1)}
  BY <1>2, Zenon DEF ValidEntry
<1> QED
  BY <1>1, <1>3, <1>4, <1>5 DEF ValidBody

-----------------------------------------------------------------------------
(* Lists of jobs, and what is true of the ones that are made of documents.   *)

Link == [job : Path, on : SUBSET {"finished", "error", "failure", "skipped"}]
Listed == [name : Path, wait : BOOLEAN, deps : SUBSET Link]

\* T has, with a job, whatever it waits for.
Closed(list, T) == \A j \in list : j.name \in T => Parents(j) \subseteq T

\* Names identify jobs.
Named(list) == \A j, k \in list : j.name = k.name => j = k

\* Dependencies are jobs of the list.
Whole(list) == \A j \in list : \A p \in Parents(j) : \E k \in list : k.name = p

\* There are no cycles.
Founded(list) ==
    \A X \in SUBSET list : X # {} => \E j \in X : \A k \in X : k.name \notin Parents(j)

\* Who waits for the leaves waits for all.
Covered(list) ==
    \A T \in SUBSET Path :
        Closed(list, T) /\ (\A j \in Leaves(list) : j.name \in T) => \A j \in list : j.name \in T

\* A final job waits for all jobs of its workflow.
Bounded(list) ==
    \A T \in SUBSET Path : Closed(list, T) =>
        \A j, k \in list :
            k.wait /\ IsStrictPrefix(k.name, j.name) /\ Parents(k) \subseteq T => j.name \in T

\* The dependencies say what the order before says.
Ordered(list, before) ==
    \A T \in SUBSET Path : Closed(list, T) =>
        \A j, k \in list : before[j.name][k.name] /\ Parents(k) \subseteq T => j.name \in T

Good(doc) ==
    /\ JobList[doc] \subseteq Listed
    /\ Named(JobList[doc])
    /\ Whole(JobList[doc])
    /\ Founded(JobList[doc])
    /\ Covered(JobList[doc])
    /\ Bounded(JobList[doc])
    /\ Ordered(JobList[doc], Before[doc])
    /\ doc # <<>> => JobList[doc] # {}

\* The jobs that an entry becomes, with a name in front of theirs.
Heads(list, n) ==
    /\ \A j \in list : Head(j.name) = n
    /\ \E j \in list : j.name = <<n>>
    /\ \A j \in list : <<n>> \notin Parents(j)

\* They wait for each other, and for the entries in front of them.
Outside(list, names) ==
    \A j \in list : \A p \in Parents(j) :
        (\E k \in list : k.name = p) \/ (\E m \in names : p = <<m>>)

\* Who waits for the job that has the name of the entry waits for all.
Closing(list, n) ==
    \A T \in SUBSET Path : Closed(list, T) /\ <<n>> \in T => \A j \in list : j.name \in T

\* Who waits for any one waits for the entries in front of them.
Opening(list, names) ==
    \A T \in SUBSET Path : Closed(list, T) =>
        \A j \in list : Parents(j) \subseteq T => \A m \in names : <<m>> \in T

Block(doc, i) == JobsOf(doc[i], IF doc[i].workflow THEN JobList[doc[i].sub] ELSE {})

GoodBlock(doc, i) ==
    LET list == Block(doc, i) IN
    /\ list \subseteq Listed
    /\ Named(list)
    /\ Founded(list)
    /\ Bounded(list)
    /\ Ordered(list, Before[doc])
    /\ Heads(list, doc[i].name)
    /\ Outside(list, ParentsOf(doc[i]))
    /\ Closing(list, doc[i].name)
    /\ Opening(list, WaitsFor(doc[i]))

LEMMA PrefixedFacts ==
    ASSUME NEW doc \in Doc, NEW i \in DOMAIN doc
    PROVE  /\ Prefixed(doc[i]) \subseteq Link
           /\ {d.job : d \in Prefixed(doc[i])} = {<<m>> : m \in ParentsOf(doc[i])}
           /\ Prefixed(doc[i]) = {} => ParentsOf(doc[i]) = {}
<1> DEFINE e == doc[i]
<1>1. \A k \in DOMAIN e.deps : e.deps[k] \in Dependency
  BY EntryFacts
<1>2. \A k \in DOMAIN e.deps :
         /\ <<e.deps[k].job>> \in Path
         /\ Rewritten(e.deps[k].on) \subseteq {"finished", "error", "failure", "skipped"}
  <2> TAKE k \in DOMAIN e.deps
  <2>1. e.deps[k].job \in Names /\ e.deps[k].on \subseteq Condition
    BY <1>1 DEF Dependency
  <2> QED
    BY <2>1 DEF Path, Rewritten, Condition
<1> HIDE DEF e
<1>3. Prefixed(e) \subseteq Link
  BY <1>2 DEF Prefixed, Link
<1>4. {d.job : d \in Prefixed(e)} = {<<m>> : m \in ParentsOf(e)}
  <2> DEFINE D(k) == [job |-> <<e.deps[k].job>>, on |-> Rewritten(e.deps[k].on)]
  <2>1. \A k : D(k).job = <<e.deps[k].job>>
    OBVIOUS
  <2>2. Prefixed(e) = {D(k) : k \in DOMAIN e.deps}
    BY DEF Prefixed
  <2> HIDE DEF D
  <2>3. ASSUME NEW d \in Prefixed(e)
        PROVE  \E m \in ParentsOf(e) : d.job = <<m>>
    BY <2>1, <2>2 DEF ParentsOf
  <2>4. ASSUME NEW m \in ParentsOf(e)
        PROVE  \E d \in Prefixed(e) : d.job = <<m>>
    BY <2>1, <2>2 DEF ParentsOf
  <2> QED
    BY <2>3, <2>4
<1>5. Prefixed(e) = {} => ParentsOf(e) = {}
  BY DEF Prefixed, ParentsOf
<1> QED
  BY <1>3, <1>4, <1>5 DEF e

LEMMA JobBlock ==
    ASSUME NEW doc \in Doc, Valid[doc], NEW i \in DOMAIN doc, ~doc[i].workflow
    PROVE  GoodBlock(doc, i)
<1> DEFINE n == doc[i].name
           j == [name |-> <<n>>, wait |-> FALSE, deps |-> Prefixed(doc[i])]
           list == Block(doc, i)
<1>1. list = {j}
  BY DEF Block, JobsOf
<1>2. n \in Names /\ <<n>> \in Path /\ Head(<<n>>) = n /\ Tail(<<n>>) = <<>>
  BY EntryFacts, Longer, EmptySeq
<1>3. list \subseteq Listed
  BY <1>1, <1>2, PrefixedFacts DEF Listed
<1>4. Parents(j) = {<<m>> : m \in ParentsOf(doc[i])}
  BY PrefixedFacts DEF Parents
<1>5. <<n>> \notin Parents(j)
  BY <1>4, ValidFacts
<1> HIDE DEF n
<1>6. j.name = <<n>> /\ ~j.wait
  OBVIOUS
<1> HIDE DEF j
<1>7. Named(list) /\ Founded(list) /\ Bounded(list)
  BY <1>1, <1>5, <1>6 DEF Named, Founded, Bounded
<1>8. Ordered(list, Before[doc])
  <2>1. Before[doc][<<n>>][<<n>>] = BeforeBody(Before, doc)[<<n>>][<<n>>]
    BY BeforeDef, Zenon
  <2>2. ~Before[doc][<<n>>][<<n>>]
    BY <2>1, <1>2 DEF BeforeBody
  <2> QED
    BY <2>2, <1>1, <1>6 DEF Ordered
<1>9. Heads(list, n) /\ Closing(list, n)
  BY <1>1, <1>2, <1>5, <1>6 DEF Heads, Closing
<1>10. Outside(list, ParentsOf(doc[i])) /\ Opening(list, WaitsFor(doc[i]))
  BY <1>1, <1>4 DEF Outside, Opening, WaitsFor
<1> QED
  BY <1>3, <1>7, <1>8, <1>9, <1>10 DEF GoodBlock, n

\* The job j of a workflow, as a job of the document that includes it.
Put(entry, j) ==
    [name |-> <<entry.name>> \o j.name, wait |-> j.wait,
     deps |-> IF j.deps = {} THEN Prefixed(entry)
              ELSE {[job |-> <<entry.name>> \o d.job, on |-> d.on] : d \in j.deps}]

LEMMA PutFacts ==
    ASSUME NEW doc \in Doc, NEW i \in DOMAIN doc, NEW j \in Listed
    PROVE  LET n == doc[i].name
               e == doc[i] IN
           /\ Put(e, j) \in Listed
           /\ Put(e, j).name = <<n>> \o j.name
           /\ Put(e, j).wait = j.wait
           /\ Parents(j) \in SUBSET Path
           /\ \A p \in Parents(j) : <<n>> \o p \in Parents(Put(e, j))
           /\ \A q \in Parents(Put(e, j)) :
                 \/ Parents(j) = {} /\ \E m \in ParentsOf(e) : q = <<m>>
                 \/ \E p \in Parents(j) : q = <<n>> \o p
           /\ Parents(j) = {} => \A m \in ParentsOf(e) : <<m>> \in Parents(Put(e, j))
<1> DEFINE e == doc[i]
           n == doc[i].name
           E(d) == [job |-> <<n>> \o d.job, on |-> d.on]
           S == {E(d) : d \in j.deps}
<1>1. j.name \in Path /\ j.wait \in BOOLEAN /\ j.deps \subseteq Link /\ n \in Names
  BY EntryFacts DEF Listed
<1>2. \A d \in j.deps : d.job \in Path /\ E(d) \in Link /\ E(d).job = <<n>> \o d.job
  BY <1>1, Longer, PathIsSeq DEF Link
<1>3. Parents(j) \in SUBSET Path /\ (Parents(j) = {} <=> j.deps = {})
  BY <1>1, <1>2 DEF Parents
<1>4. Put(e, j) = [name |-> <<n>> \o j.name, wait |-> j.wait,
                   deps |-> IF j.deps = {} THEN Prefixed(e) ELSE S]
  BY DEF Put
<1>5. S \subseteq Link /\ Prefixed(e) \subseteq Link
  BY <1>2, PrefixedFacts
<1>6. <<n>> \o j.name \in Path
  BY <1>1, Longer, PathIsSeq
<1>7. Put(e, j) \in Listed
  <2> HIDE DEF S, e, n
  <2> QED
    BY <1>1, <1>4, <1>5, <1>6 DEF Listed
<1>10. Put(e, j).name = <<n>> \o j.name /\ Put(e, j).wait = j.wait
  BY <1>4
<1> DEFINE Result ==
        /\ \A p \in Parents(j) : <<n>> \o p \in Parents(Put(e, j))
        /\ \A q \in Parents(Put(e, j)) :
              \/ Parents(j) = {} /\ \E m \in ParentsOf(e) : q = <<m>>
              \/ \E p \in Parents(j) : q = <<n>> \o p
        /\ Parents(j) = {} => \A m \in ParentsOf(e) : <<m>> \in Parents(Put(e, j))
<1>8. ASSUME j.deps = {} PROVE Result
  <2>1. Parents(Put(e, j)) = {d.job : d \in Prefixed(e)}
    BY <1>4, <1>8 DEF Parents
  <2>2. Parents(Put(e, j)) = {<<m>> : m \in ParentsOf(e)}
    BY <2>1, PrefixedFacts
  <2> QED
    BY <1>3, <1>8, <2>2
<1>9. ASSUME j.deps # {} PROVE Result
  <2> HIDE DEF E
  <2>1. Parents(Put(e, j)) = {E(d).job : d \in j.deps}
    BY <1>4, <1>9 DEF Parents
  <2>2. Parents(j) = {d.job : d \in j.deps}
    BY DEF Parents
  <2>3. ASSUME NEW p \in Parents(j)
        PROVE  <<n>> \o p \in Parents(Put(e, j))
    BY <1>2, <2>1, <2>2
  <2>4. ASSUME NEW q \in Parents(Put(e, j))
        PROVE  \E p \in Parents(j) : q = <<n>> \o p
    BY <1>2, <2>1, <2>2
  <2> QED
    BY <1>3, <1>9, <2>3, <2>4
<1> QED
  BY <1>3, <1>7, <1>8, <1>9, <1>10

LEMMA UnderFacts ==
    ASSUME NEW doc \in Doc, NEW i \in DOMAIN doc, NEW list \in SUBSET Listed
    PROVE  LET e == doc[i]
               n == doc[i].name
               F == Final(n, Under(n, list)) IN
           /\ JobsOf(e, list) = IF e.workflow THEN {Put(e, j) : j \in list} \cup {F}
                                ELSE JobsOf(e, {})
           /\ F \in Listed /\ F.name = <<n>> /\ F.wait
           /\ Parents(F) = {<<n>> \o j.name : j \in Leaves(list)}
<1> DEFINE e == doc[i]
           n == doc[i].name
           E(d) == [job |-> <<n>> \o d.job, on |-> d.on]
           U(j) == [name |-> <<n>> \o j.name, wait |-> j.wait, deps |-> {E(d) : d \in j.deps}]
           sub == Under(n, list)
           F == Final(n, sub)
<1>1. n \in Names
  BY EntryFacts
<1>2. sub = {U(j) : j \in list}
  BY DEF Under
<1>3. \A j \in list : j.name \in Path /\ j.deps \subseteq Link
  BY DEF Listed
<1>4. ASSUME NEW j \in list
      PROVE  /\ U(j).name = <<n>> \o j.name
             /\ U(j).name \in Path
             /\ U(j).deps = {E(d) : d \in j.deps}
             /\ U(j).wait = j.wait
  BY <1>1, <1>3, Longer, PathIsSeq
<1>5. ASSUME NEW j \in list
      PROVE  Parents(U(j)) = {<<n>> \o p : p \in Parents(j)}
  <2>1. \A d : E(d).job = <<n>> \o d.job
    OBVIOUS
  <2>2. Parents(U(j)) = {E(d).job : d \in j.deps}
    <3> HIDE DEF E, U
    <3> QED
      BY <1>4 DEF Parents
  <2>3. Parents(j) = {d.job : d \in j.deps}
    BY DEF Parents
  <2> HIDE DEF E, U
  <2>4. ASSUME NEW p \in Parents(j)
        PROVE  <<n>> \o p \in Parents(U(j))
    BY <2>1, <2>2, <2>3
  <2>5. ASSUME NEW q \in Parents(U(j))
        PROVE  \E p \in Parents(j) : q = <<n>> \o p
    BY <2>1, <2>2, <2>3
  <2> QED
    BY <2>4, <2>5
<1>6. ASSUME NEW j \in list, NEW k \in list
      PROVE  U(j).name \in Parents(U(k)) <=> j.name \in Parents(k)
  <2>1. Parents(k) \in SUBSET Path
    <3>1. \A d \in k.deps : d.job \in Path
      BY <1>3 DEF Link
    <3> QED
      BY <3>1 DEF Parents
  <2>2. ASSUME NEW p \in Path, <<n>> \o p = <<n>> \o j.name
        PROVE  p = j.name
    <3>1. Tail(<<n>> \o p) = p /\ Tail(<<n>> \o j.name) = j.name
      BY <1>1, <1>3, Longer, PathIsSeq
    <3> QED
      BY <3>1, <2>2
  <2> HIDE DEF U
  <2>3. U(j).name = <<n>> \o j.name
    BY <1>4
  <2>4. Parents(U(k)) = {<<n>> \o p : p \in Parents(k)}
    BY <1>5
  <2> QED
    BY <2>1, <2>2, <2>3, <2>4
<1>7. Leaves(sub) = {U(j) : j \in Leaves(list)}
  <2> HIDE DEF U
  <2> QED
    BY <1>2, <1>6 DEF Leaves
<1>8. F = [name |-> <<n>>, wait |-> TRUE,
           deps |-> {[job |-> j.name, on |-> {"finished"}] : j \in Leaves(sub)}]
  BY DEF Final
<1>9. Leaves(list) \subseteq list
  BY DEF Leaves
<1>10. Parents(F) = {<<n>> \o j.name : j \in Leaves(list)}
  <2> DEFINE D(j) == [job |-> j.name, on |-> {"finished"}]
  <2>1. Parents(F) = {d.job : d \in {D(j) : j \in Leaves(sub)}}
    BY <1>8 DEF Parents
  <2>2. Parents(F) = {D(j).job : j \in Leaves(sub)}
    <3> HIDE DEF D
    <3> QED
      BY <2>1
  <2>3. Parents(F) = {j.name : j \in Leaves(sub)}
    BY <2>2
  <2>4. Parents(F) = {U(j).name : j \in Leaves(list)}
    <3> HIDE DEF U
    <3> QED
      BY <1>7, <2>3
  <2> HIDE DEF U, F, sub
  <2> QED
    BY <2>4, <1>4, <1>9
<1>11. F \in Listed
  <2>1. \A j \in Leaves(sub) : j.name \in Path
    <3> HIDE DEF U
    <3> QED
      BY <1>4, <1>7, <1>9
  <2>2. {[job |-> j.name, on |-> {"finished"}] : j \in Leaves(sub)} \subseteq Link
    BY <2>1 DEF Link
  <2> QED
    <3> DEFINE D == {[job |-> j.name, on |-> {"finished"}] : j \in Leaves(sub)}
    <3>1. <<n>> \in Path
      BY <1>1, EmptySeq, Longer
    <3>3. D \subseteq Link
      BY <2>2
    <3>2. F = [name |-> <<n>>, wait |-> TRUE, deps |-> D]
      BY <1>8
    <3> HIDE DEF D, F, n
    <3> QED
      BY <3>1, <3>2, <3>3 DEF Listed
<1>12. Adopted(sub, Prefixed(e)) = {Put(e, j) : j \in list}
  <2> DEFINE G(u) == [name |-> u.name, wait |-> u.wait,
                      deps |-> IF u.deps = {} THEN Prefixed(e) ELSE u.deps]
  <2>1. ASSUME NEW j \in list
        PROVE  G(U(j)) = Put(e, j)
    <3>1. U(j).deps = {E(d) : d \in j.deps} /\ U(j).name = <<n>> \o j.name /\ U(j).wait = j.wait
      BY <1>4
    <3>2. Put(e, j) = [name |-> <<n>> \o j.name, wait |-> j.wait,
                       deps |-> IF j.deps = {} THEN Prefixed(e) ELSE {E(d) : d \in j.deps}]
      BY DEF Put
    <3> HIDE DEF E, U, e, n
    <3>3. U(j).deps = {} <=> j.deps = {}
      BY <3>1
    <3> QED
      BY <3>1, <3>2, <3>3
  <2>2. Adopted(sub, Prefixed(e)) = {G(u) : u \in sub}
    BY DEF Adopted
  <2> HIDE DEF U, G, sub, e
  <2> QED
    BY <1>2, <2>1, <2>2
<1>13. JobsOf(e, list) = IF e.workflow THEN {Put(e, j) : j \in list} \cup {F} ELSE JobsOf(e, {})
  BY <1>12 DEF JobsOf
<1>14. F.name = <<n>> /\ F.wait
  BY <1>8
<1> QED
  BY <1>10, <1>11, <1>13, <1>14

\* The path of a job that is put under a workflow tells the job.
LEMMA PutPath ==
    ASSUME NEW n \in Names, NEW p \in Path, NEW q \in Path, <<n>> \o p = <<n>> \o q
    PROVE  p = q
<1>1. Tail(<<n>> \o p) = p /\ Tail(<<n>> \o q) = q
  BY Longer, PathIsSeq
<1> QED
  BY <1>1

\* What the workflow entry i of the document makes of the list of its own.
Rebuilt(doc, i) ==
    LET list == JobList[doc[i].sub] IN
    {Put(doc[i], j) : j \in list} \cup {Final(doc[i].name, Under(doc[i].name, list))}

\* A closed set of paths, seen from within the workflow.
Within(n, T) == {p \in Path : <<n>> \o p \in T}

LEMMA ClosedWithin ==
    ASSUME NEW doc \in Doc, NEW i \in DOMAIN doc, Good(doc[i].sub),
           NEW T \in SUBSET Path, Closed(Rebuilt(doc, i), T)
    PROVE  /\ Closed(JobList[doc[i].sub], Within(doc[i].name, T))
           /\ \A j \in JobList[doc[i].sub] :
                 Parents(Put(doc[i], j)) \subseteq T => Parents(j) \subseteq Within(doc[i].name, T)
           /\ \A j \in JobList[doc[i].sub] :
                 j.name \in Within(doc[i].name, T) <=> Put(doc[i], j).name \in T
<1> DEFINE list == JobList[doc[i].sub]
           n == doc[i].name
           e == doc[i]
           W == Within(n, T)
<1>1. ASSUME NEW j \in list
      PROVE  /\ j \in Listed /\ j.name \in Path
             /\ Put(e, j).name = <<n>> \o j.name /\ Put(e, j) \in Rebuilt(doc, i)
             /\ Parents(j) \in SUBSET Path
             /\ \A p \in Parents(j) : <<n>> \o p \in Parents(Put(e, j))
  <2>1. j \in Listed /\ j.name \in Path
    BY DEF Good, Listed
  <2>2. Put(e, j) \in Rebuilt(doc, i)
    BY DEF Rebuilt
  <2> QED
    BY <2>1, <2>2, PutFacts
<1> HIDE DEF list, n, e
<1>2. ASSUME NEW j \in list, Parents(Put(e, j)) \subseteq T
      PROVE  Parents(j) \subseteq W
  BY <1>1, <1>2 DEF Within
<1>3. ASSUME NEW j \in list
      PROVE  j.name \in W <=> Put(e, j).name \in T
  BY <1>1 DEF Within
<1>4. ASSUME NEW j \in list, j.name \in W
      PROVE  Parents(j) \subseteq W
  BY <1>1, <1>2, <1>3, <1>4 DEF Closed
<1> QED
  BY <1>2, <1>3, <1>4 DEF Closed, list, n, e

\* The final job of a workflow that has jobs waits for at least one of them.
LEMMA LeafExists ==
    ASSUME NEW list, Covered(list), list # {}
    PROVE  Leaves(list) # {}
<1> SUFFICES ASSUME Leaves(list) = {}
             PROVE  FALSE
  OBVIOUS
<1>1. Closed(list, {})
  BY DEF Closed
<1> QED
  BY <1>1 DEF Covered

LEMMA WorkflowBlock ==
    ASSUME NEW doc \in Doc, Valid[doc], NEW i \in DOMAIN doc, doc[i].workflow, Good(doc[i].sub)
    PROVE  GoodBlock(doc, i)
<1> DEFINE e == doc[i]
           n == doc[i].name
           list == JobList[doc[i].sub]
           F == Final(n, Under(n, list))
           block == Rebuilt(doc, i)
           P(j) == Put(e, j)
<1>1. /\ list \subseteq Listed /\ Named(list) /\ Whole(list) /\ Founded(list)
      /\ Covered(list) /\ Bounded(list) /\ Ordered(list, Before[e.sub])
      /\ e.sub # <<>> => list # {}
  BY DEF Good
<1>2. /\ F \in Listed /\ F.name = <<n>> /\ F.wait
      /\ Parents(F) = {<<n>> \o j.name : j \in Leaves(list)}
  BY <1>1, UnderFacts, Zenon
<1>3. Block(doc, i) = block
  <2>1. JobsOf(e, list) = {Put(e, j) : j \in list} \cup {F}
    BY <1>1, UnderFacts, Zenon
  <2> QED
    BY <2>1, Zenon DEF Block, Rebuilt
<1>4. block = {P(j) : j \in list} \cup {F}
  BY Zenon DEF Rebuilt
<1>5. ASSUME NEW j \in list
      PROVE  /\ P(j) \in Listed /\ P(j).name = <<n>> \o j.name /\ P(j).wait = j.wait
             /\ Parents(j) \in SUBSET Path
             /\ \A p \in Parents(j) : <<n>> \o p \in Parents(P(j))
             /\ \A q \in Parents(P(j)) :
                   \/ Parents(j) = {} /\ \E m \in ParentsOf(e) : q = <<m>>
                   \/ \E p \in Parents(j) : q = <<n>> \o p
             /\ Parents(j) = {} => \A m \in ParentsOf(e) : <<m>> \in Parents(P(j))
  <2>1. j \in Listed
    BY <1>1
  <2> QED
    BY <2>1, PutFacts
<1>6. /\ n \in Names /\ n \notin ParentsOf(e) /\ ParentsOf(e) \subseteq Names
      /\ \A k \in DOMAIN doc : doc[k].name = n => k = i
  BY EntryFacts, ValidFacts
<1>7. \A j \in list : j.name \in Path
  BY <1>1 DEF Listed
<1>8. \A p \in Path : <<n>> \o p \in Path /\ Head(<<n>> \o p) = n /\ Tail(<<n>> \o p) = p
                      /\ <<n>> \o p # <<n>>
  BY <1>6, Longer, PathIsSeq
<1>9. <<n>> \in Path /\ Head(<<n>>) = n /\ Tail(<<n>>) = <<>>
  BY <1>6, Longer, EmptySeq
<1>10. \A m \in Names : Head(<<m>>) = m
  BY Longer, EmptySeq
<1>11. \A T \in SUBSET Path : Closed(block, T) =>
          /\ Closed(list, Within(n, T)) /\ Within(n, T) \in SUBSET Path
          /\ \A j \in list : Parents(P(j)) \subseteq T => Parents(j) \subseteq Within(n, T)
          /\ \A j \in list : j.name \in Within(n, T) <=> P(j).name \in T
  <2> SUFFICES ASSUME NEW T \in SUBSET Path, Closed(block, T)
               PROVE  /\ Closed(list, Within(n, T)) /\ Within(n, T) \in SUBSET Path
                      /\ \A j \in list : Parents(P(j)) \subseteq T => Parents(j) \subseteq Within(n, T)
                      /\ \A j \in list : j.name \in Within(n, T) <=> P(j).name \in T
    BY Zenon
  <2>1. Within(n, T) \in SUBSET Path
    BY DEF Within
  <2> QED
    BY <2>1, ClosedWithin, Zenon
<1>12. Leaves(list) \subseteq list
  BY DEF Leaves
<1> HIDE DEF e, n, list, F, block, P
<1>26. /\ \A j \in Leaves(list) : j \in list /\ P(j).name \in Parents(F)
       /\ \A q \in Parents(F) : \E j \in Leaves(list) : j \in list /\ q = P(j).name
  <2> DEFINE G(j) == <<n>> \o j.name
  <2>1. Parents(F) = {G(j) : j \in Leaves(list)}
    BY <1>2
  <2>2. \A j \in list : P(j).name = G(j)
    BY <1>5
  <2> HIDE DEF G
  <2> QED
    BY <2>1, <2>2, <1>12
<1>13. block \subseteq Listed
  BY <1>2, <1>4, <1>5
<1>14. Heads(block, n)
  <2>1. ASSUME NEW j \in list
        PROVE  Head(P(j).name) = n /\ <<n>> \notin Parents(P(j))
    <3>1. Head(P(j).name) = n
      BY <1>5, <1>7, <1>8
    <3>2. \A m \in ParentsOf(e) : <<m>> # <<n>>
      BY <1>6, <1>10
    <3>3. \A p \in Parents(j) : <<n>> \o p # <<n>>
      BY <1>5, <1>8
    <3> QED
      BY <3>1, <3>2, <3>3, <1>5
  <2>2. Head(F.name) = n /\ <<n>> \notin Parents(F)
    BY <1>2, <1>7, <1>8, <1>9, <1>12
  <2> QED
    BY <1>2, <1>4, <2>1, <2>2 DEF Heads
<1>15. ASSUME NEW j \in list, NEW k \in list, P(j).name = P(k).name
       PROVE  j = k
  <2>1. j.name = k.name
    <3>1. <<n>> \o j.name = <<n>> \o k.name
      BY <1>5, <1>15
    <3> QED
      BY <3>1, <1>6, <1>7, PutPath
  <2> QED
    BY <2>1, <1>1 DEF Named
<1>16. \A j \in list : P(j).name # <<n>>
  BY <1>5, <1>7, <1>8
<1>17. Named(block)
  BY <1>2, <1>4, <1>15, <1>16 DEF Named
<1>18. Founded(block)
  <2> SUFFICES ASSUME NEW X \in SUBSET block, X # {}
               PROVE  \E j \in X : \A k \in X : k.name \notin Parents(j)
    BY DEF Founded
  <2> DEFINE Y == {j \in list : P(j) \in X}
  <2>1. CASE Y = {}
    <3>1. X = {F}
      BY <1>4, <2>1
    <3> QED
      BY <3>1, <1>2, <1>4, <1>14 DEF Heads
  <2>2. CASE Y # {}
    <3>1. PICK j \in Y : \A k \in Y : k.name \notin Parents(j)
      BY <1>1, <2>2 DEF Founded
    <3>2. P(j) \in X /\ j \in list
      BY <3>1
    <3>3. ASSUME NEW k \in list, P(k) \in X
          PROVE  P(k).name \notin Parents(P(j))
      <4>1. \A m \in ParentsOf(e) : <<m>> # P(k).name
        BY <1>5, <1>6, <1>7, <1>8, <1>10
      <4>2. ASSUME NEW p \in Parents(j), P(k).name = <<n>> \o p
            PROVE  p = k.name
        <5>1. p \in Path /\ k.name \in Path /\ P(k).name = <<n>> \o k.name
          BY <1>5, <1>7, <3>2
        <5> QED
          BY <5>1, <4>2, <1>6, PutPath
      <4>3. k.name \notin Parents(j)
        BY <3>1, <3>3
      <4> QED
        BY <3>2, <4>1, <4>2, <4>3, <1>5
    <3>4. F.name \notin Parents(P(j))
      BY <1>2, <1>4, <1>14, <3>2 DEF Heads
    <3> QED
      BY <1>4, <3>2, <3>3, <3>4
  <2> QED
    BY <2>1, <2>2
<1>19. ASSUME NEW T \in SUBSET Path, Closed(block, T), Parents(F) \subseteq T
       PROVE  \A j \in list : P(j).name \in T
  <2>1. \A j \in Leaves(list) : j.name \in Within(n, T)
    BY <1>11, <1>19, <1>26
  <2> QED
    BY <1>1, <1>11, <1>19, <2>1 DEF Covered
<1>20. Closing(block, n)
  BY <1>2, <1>4, <1>19 DEF Closing, Closed
<1>21. ASSUME NEW T \in SUBSET Path, Closed(block, T),
              NEW k \in list, Parents(P(k)) \subseteq T, NEW m \in ParentsOf(e)
       PROVE  <<m>> \in T
  <2> DEFINE X == {j \in list : Parents(P(j)) \subseteq T}
  <2>1. PICK j \in X : \A x \in X : x.name \notin Parents(j)
    <3>1. X \in SUBSET list /\ X # {}
      BY <1>21
    <3> QED
      BY <3>1, <1>1 DEF Founded
  <2>2. Parents(j) = {}
    <3> SUFFICES ASSUME NEW p \in Parents(j)
                 PROVE  FALSE
      OBVIOUS
    <3>1. PICK x \in list : x.name = p
      BY <1>1 DEF Whole
    <3>2. P(x).name = <<n>> \o p /\ <<n>> \o p \in Parents(P(j))
      BY <3>1, <1>5
    <3>3. P(x) \in block /\ P(x).name \in T
      BY <3>2, <1>4
    <3>4. x \in X
      BY <3>3, <1>21 DEF Closed
    <3> QED
      BY <3>1, <3>4, <2>1
  <2> QED
    BY <2>1, <2>2, <1>5
<1>22. Opening(block, WaitsFor(e))
  <2> SUFFICES ASSUME NEW T \in SUBSET Path, Closed(block, T), NEW b \in block,
                      Parents(b) \subseteq T, NEW m \in WaitsFor(e)
               PROVE  <<m>> \in T
    BY DEF Opening
  <2>1. list # {} /\ m \in ParentsOf(e)
    BY <1>1 DEF WaitsFor, e
  <2>2. \E k \in list : Parents(P(k)) \subseteq T
    <3>1. CASE b = F
      <4>1. PICK k \in Leaves(list) : TRUE
        BY <2>1, <1>1, LeafExists
      <4>2. P(k).name \in T /\ P(k) \in block
        BY <3>1, <4>1, <1>4, <1>26
      <4> QED
        BY <4>1, <4>2, <1>12 DEF Closed
    <3> QED
      BY <3>1, <1>4
  <2> QED
    BY <2>1, <2>2, <1>21
<1>23. Outside(block, ParentsOf(e))
  <2>1. ASSUME NEW j \in list, NEW q \in Parents(P(j))
        PROVE  (\E k \in block : k.name = q) \/ (\E m \in ParentsOf(e) : q = <<m>>)
    <3>1. ASSUME NEW p \in Parents(j), q = <<n>> \o p
          PROVE  \E k \in block : k.name = q
      <4>1. PICK k \in list : k.name = p
        BY <1>1 DEF Whole
      <4> QED
        BY <4>1, <3>1, <1>4, <1>5
    <3> QED
      BY <3>1, <1>5
  <2>2. ASSUME NEW q \in Parents(F)
        PROVE  \E k \in block : k.name = q
    BY <1>4, <1>26
  <2> QED
    BY <1>4, <2>1, <2>2 DEF Outside
<1>24. Bounded(block)
  <2> SUFFICES ASSUME NEW T \in SUBSET Path, Closed(block, T), NEW b \in block, NEW c \in block,
                      c.wait, IsStrictPrefix(c.name, b.name), Parents(c) \subseteq T
               PROVE  b.name \in T
    BY DEF Bounded
  <2>1. b # F
    <3>1. c.name \in Path
      BY <1>13 DEF Listed
    <3> QED
      BY <3>1, <1>2, <1>6, NoPrefixOfOne
  <2>2. PICK j \in list : b = P(j)
    BY <2>1, <1>4
  <2>3. CASE c = F
    BY <2>2, <2>3, <1>19
  <2>4. ASSUME NEW k \in list, c = P(k)
        PROVE  b.name \in T
    <3>1. IsStrictPrefix(k.name, j.name)
      <4>1. IsStrictPrefix(<<n>> \o k.name, <<n>> \o j.name)
        BY <2>2, <2>4, <1>5
      <4> QED
        BY <4>1, <1>6, <1>7, LongerPrefix
    <3>2. k.wait /\ Parents(k) \subseteq Within(n, T)
      BY <2>4, <1>5, <1>11
    <3>3. j.name \in Within(n, T)
      BY <3>1, <3>2, <1>1, <1>11 DEF Bounded
    <3> QED
      BY <3>3, <2>2, <1>11
  <2> QED
    BY <2>3, <2>4, <1>4
<1>25. Ordered(block, Before[doc])
  <2> SUFFICES ASSUME NEW T \in SUBSET Path, Closed(block, T), NEW b \in block, NEW c \in block,
                      Before[doc][b.name][c.name], Parents(c) \subseteq T
               PROVE  b.name \in T
    BY DEF Ordered
  <2>1. b.name \in Path /\ c.name \in Path
    BY <1>13 DEF Listed
  <2>2. Before[doc][b.name][c.name] = BeforeBody(Before, doc)[b.name][c.name]
    BY BeforeDef, Zenon
  <2>3. Head(b.name) = n /\ Head(c.name) = n
    BY <1>14 DEF Heads
  <2>4. \E k \in DOMAIN doc : /\ doc[k].name = n
                              /\ Tail(b.name) # <<>> /\ Tail(c.name) # <<>>
                              /\ Before[doc[k].sub][Tail(b.name)][Tail(c.name)]
    BY <2>1, <2>2, <2>3 DEF BeforeBody
  <2>5. /\ Tail(b.name) # <<>> /\ Tail(c.name) # <<>>
        /\ Before[e.sub][Tail(b.name)][Tail(c.name)]
    BY <2>4, <1>6 DEF e
  <2>6. PICK j \in list, k \in list : b = P(j) /\ c = P(k)
    BY <2>5, <1>2, <1>4, <1>9
  <2>7. Tail(b.name) = j.name /\ Tail(c.name) = k.name
    BY <2>6, <1>5, <1>7, <1>8
  <2>8. Parents(k) \subseteq Within(n, T)
    BY <2>6, <1>11
  <2>9. j.name \in Within(n, T)
    BY <2>5, <2>7, <2>8, <1>1, <1>11 DEF Ordered
  <2> QED
    BY <2>6, <2>9, <1>11
<1> QED
  BY <1>3, <1>13, <1>14, <1>17, <1>18, <1>20, <1>22, <1>23, <1>24, <1>25 DEF GoodBlock, e, n

LEMMA ClosedPart ==
    ASSUME NEW list, NEW part, part \subseteq list, NEW T, Closed(list, T)
    PROVE  Closed(part, T)
  BY DEF Closed

LEMMA GoodDocument ==
    ASSUME NEW doc \in Doc, Valid[doc], \A i \in DOMAIN doc : GoodBlock(doc, i)
    PROVE  Good(doc)
<1> DEFINE list == JobList[doc]
           B(i) == Block(doc, i)
           n(i) == doc[i].name
<1>1. list = UNION {B(i) : i \in DOMAIN doc}
  <2>1. list = JobListBody(JobList, doc)
    BY JobListDef, Zenon
  <2> QED
    BY <2>1, Zenon DEF JobListBody, Block
<1>2. \A i \in DOMAIN doc :
         /\ B(i) \subseteq Listed /\ Named(B(i)) /\ Founded(B(i)) /\ Bounded(B(i))
         /\ Ordered(B(i), Before[doc]) /\ Heads(B(i), n(i)) /\ Outside(B(i), ParentsOf(doc[i]))
         /\ Closing(B(i), n(i)) /\ Opening(B(i), WaitsFor(doc[i]))
  BY Zenon DEF GoodBlock
<1>3. /\ Len(doc) \in Nat /\ DOMAIN doc = 1..Len(doc)
      /\ \A i \in DOMAIN doc :
            /\ i \in Nat /\ n(i) \in Names
            /\ ParentsOf(doc[i]) \subseteq {n(k) : k \in 1..(i - 1)}
            /\ \A k \in DOMAIN doc : n(k) = n(i) => k = i
  <2>1. doc \in Seq(Entry)
    BY DocumentsAssumption
  <2> QED
    BY <2>1, EntryFacts, ValidFacts
<1>4. \A i \in DOMAIN doc : <<n(i)>> \in Path /\ Head(<<n(i)>>) = n(i)
  BY <1>3, Longer, EmptySeq
<1> HIDE DEF list, B, n
<1>5. \A j \in list : \E i \in DOMAIN doc : j \in B(i)
  BY <1>1
<1>6. \A i \in DOMAIN doc : B(i) \subseteq list
  BY <1>1
<1>7. \A i \in DOMAIN doc : \A j \in B(i) : Head(j.name) = n(i) /\ <<n(i)>> \notin Parents(j)
  BY <1>2 DEF Heads
<1>8. \A i, k \in DOMAIN doc : \A j \in B(i) : Head(j.name) = n(k) => i = k
  BY <1>3, <1>7
<1>9. ASSUME NEW i \in DOMAIN doc, NEW j \in B(i), NEW p \in Parents(j)
      PROVE  \/ \E k \in B(i) : k.name = p
             \/ \E k \in DOMAIN doc : k < i /\ p = <<n(k)>>
  <2>1. (\E k \in B(i) : k.name = p) \/ (\E m \in ParentsOf(doc[i]) : p = <<m>>)
    BY <1>2 DEF Outside
  <2>2. ASSUME NEW m \in ParentsOf(doc[i])
        PROVE  \E k \in DOMAIN doc : k < i /\ m = n(k)
    <3>1. PICK k \in 1..(i - 1) : m = n(k)
      BY <1>3
    <3> QED
      BY <3>1, <1>3
  <2> QED
    BY <2>1, <2>2
\* A dependency leads to the same block, or to one in front of it.
<1>10. ASSUME NEW i \in DOMAIN doc, NEW j \in B(i),
              NEW k \in DOMAIN doc, NEW x \in B(k), x.name \in Parents(j)
       PROVE  k <= i
  <2>1. CASE \E y \in B(i) : y.name = x.name
    <3>1. Head(x.name) = n(i)
      BY <2>1, <1>7
    <3>2. k = i
      BY <3>1, <1>8
    <3> QED
      BY <3>2, <1>3
  <2>2. ASSUME NEW m \in DOMAIN doc, m < i, x.name = <<n(m)>>
        PROVE  k <= i
    <3>1. Head(x.name) = n(m)
      BY <2>2, <1>4
    <3>2. k = m
      BY <3>1, <1>8
    <3> QED
      BY <3>2, <2>2, <1>3
  <2>3. \/ \E y \in B(i) : y.name = x.name
        \/ \E m \in DOMAIN doc : m < i /\ x.name = <<n(m)>>
    BY <1>9, <1>10, Zenon
  <2> QED
    BY <2>1, <2>2, <2>3
<1>11. list \subseteq Listed
  BY <1>2, <1>5
<1>12. Named(list)
  <2> SUFFICES ASSUME NEW j \in list, NEW k \in list, j.name = k.name
               PROVE  j = k
    BY DEF Named
  <2>1. PICK i \in DOMAIN doc, m \in DOMAIN doc : j \in B(i) /\ k \in B(m)
    BY <1>5
  <2>2. i = m
    BY <2>1, <1>7, <1>8
  <2> QED
    BY <2>1, <2>2, <1>2 DEF Named
<1>13. Whole(list)
  <2> SUFFICES ASSUME NEW j \in list, NEW p \in Parents(j)
               PROVE  \E k \in list : k.name = p
    BY DEF Whole
  <2>1. PICK i \in DOMAIN doc : j \in B(i)
    BY <1>5
  <2>2. ASSUME NEW k \in DOMAIN doc, p = <<n(k)>>
        PROVE  \E x \in list : x.name = p
    BY <2>2, <1>2, <1>6 DEF Heads
  <2> QED
    BY <2>1, <2>2, <1>6, <1>9
<1>14. Founded(list)
  <2> SUFFICES ASSUME NEW X \in SUBSET list, X # {}
               PROVE  \E j \in X : \A k \in X : k.name \notin Parents(j)
    BY DEF Founded
  <2> DEFINE I == {i \in DOMAIN doc : X \cap B(i) # {}}
  <2>1. PICK i \in I : \A k \in I : i <= k
    <3>1. I \in SUBSET Nat /\ I # {}
      BY <1>3, <1>5
    <3> QED
      BY <3>1, Listing!Least
  <2>2. PICK j \in X \cap B(i) : \A k \in X \cap B(i) : k.name \notin Parents(j)
    <3>1. X \cap B(i) \in SUBSET B(i) /\ X \cap B(i) # {} /\ i \in DOMAIN doc
      BY <2>1
    <3> QED
      BY <3>1, <1>2 DEF Founded
  <2>3. ASSUME NEW x \in X, x.name \in Parents(j)
        PROVE  FALSE
    <3>1. PICK k \in DOMAIN doc : x \in B(k)
      BY <1>5
    <3>2. k \in I /\ i \in DOMAIN doc
      BY <3>1, <2>1
    <3>3. k <= i /\ i <= k
      BY <3>1, <3>2, <2>1, <2>2, <2>3, <1>10
    <3>4. k = i
      BY <3>2, <3>3, <1>3
    <3> QED
      BY <3>1, <3>4, <2>2, <2>3
  <2> QED
    BY <2>2, <2>3
<1>15. Covered(list)
  <2> SUFFICES ASSUME NEW T \in SUBSET Path, Closed(list, T),
                      \A j \in Leaves(list) : j.name \in T,
                      NEW bad \in list, bad.name \notin T
               PROVE  FALSE
    BY DEF Covered
  <2> DEFINE I == {i \in DOMAIN doc : \E j \in B(i) : j.name \notin T}
             R == {Len(doc) - i : i \in I}
  <2>1. PICK i \in I : \A k \in I : k <= i
    <3>1. I # {} /\ I \subseteq DOMAIN doc
      BY <1>5
    <3>2. R \in SUBSET Nat /\ R # {}
      BY <3>1, <1>3
    <3>3. PICK r \in R : \A s \in R : r <= s
      BY <3>2, Listing!Least
    <3>4. PICK i \in I : r = Len(doc) - i
      BY <3>3
    <3>5. ASSUME NEW k \in I
          PROVE  k <= i
      <4>1. Len(doc) - i <= Len(doc) - k
        BY <3>3, <3>4
      <4> QED
        BY <4>1, <3>1, <1>3
    <3> QED
      BY <3>5
  <2>2. i \in DOMAIN doc /\ Closed(B(i), T)
    BY <2>1, <1>6, ClosedPart
  <2>3. PICK f \in B(i) : f.name = <<n(i)>>
    BY <2>2, <1>2 DEF Heads
  <2>4. f.name \in T
    <3> SUFFICES ASSUME f.name \notin T
                 PROVE  FALSE
      OBVIOUS
    <3>1. f \in list /\ f \notin Leaves(list)
      BY <2>2, <2>3, <1>6
    <3>2. PICK k \in list : f.name \in Parents(k)
      BY <3>1 DEF Leaves
    <3>3. PICK m \in DOMAIN doc : k \in B(m)
      BY <1>5
    <3>4. k.name \notin T
      BY <3>2 DEF Closed
    <3>5. m <= i
      BY <3>3, <3>4, <2>1
    <3>6. i <= m
      BY <3>2, <3>3, <2>2, <2>3, <1>10
    <3>7. m = i
      BY <3>5, <3>6, <2>2, <1>3
    <3> QED
      BY <3>2, <3>3, <3>7, <2>3, <1>7
  <2> QED
    BY <2>1, <2>2, <2>3, <2>4, <1>2 DEF Closing
<1>16. Bounded(list)
  <2> SUFFICES ASSUME NEW T \in SUBSET Path, Closed(list, T), NEW j \in list, NEW k \in list,
                      k.wait, IsStrictPrefix(k.name, j.name), Parents(k) \subseteq T
               PROVE  j.name \in T
    BY DEF Bounded
  <2>1. PICK i \in DOMAIN doc, m \in DOMAIN doc : j \in B(i) /\ k \in B(m)
    BY <1>5
  <2>2. Head(k.name) = Head(j.name)
    BY <1>11, PrefixHead DEF Listed
  <2>3. i = m
    BY <2>1, <2>2, <1>7, <1>8
  <2>4. Closed(B(i), T)
    BY <1>6, ClosedPart
  <2> QED
    BY <2>1, <2>3, <2>4, <1>2 DEF Bounded
<1>17. Ordered(list, Before[doc])
  <2> SUFFICES ASSUME NEW T \in SUBSET Path, Closed(list, T), NEW j \in list, NEW k \in list,
                      Before[doc][j.name][k.name], Parents(k) \subseteq T
               PROVE  j.name \in T
    BY DEF Ordered
  <2>1. PICK a \in DOMAIN doc, b \in DOMAIN doc : j \in B(a) /\ k \in B(b)
    BY <1>5
  <2>2. \A i \in DOMAIN doc : Closed(B(i), T)
    BY <1>6, ClosedPart
  <2>3. CASE a = b
    BY <2>1, <2>2, <2>3, <1>2 DEF Ordered
  <2>4. CASE a # b
    <3>1. /\ j.name \in Path /\ k.name \in Path
          /\ Head(j.name) = n(a) /\ Head(k.name) = n(b) /\ n(a) # n(b)
      BY <2>1, <2>4, <1>3, <1>7, <1>11 DEF Listed
    <3>2. Before[doc][j.name][k.name] = BeforeBody(Before, doc)[j.name][k.name]
      BY BeforeDef, Zenon
    <3>3. Precedes(doc, n(a), n(b))
      BY <3>1, <3>2 DEF BeforeBody
    <3> DEFINE S == {m \in NamesOf(doc) : <<m>> \in T}
    <3>4. ASSUME NEW i \in DOMAIN doc, NEW x \in B(i), Parents(x) \subseteq T
          PROVE  WaitsFor(doc[i]) \subseteq S
      <4>1. \A m \in WaitsFor(doc[i]) : <<m>> \in T
        BY <3>4, <2>2, <1>2 DEF Opening
      <4>2. WaitsFor(doc[i]) \subseteq ParentsOf(doc[i])
        BY DEF WaitsFor
      <4>3. ParentsOf(doc[i]) \subseteq NamesOf(doc)
        <5> SUFFICES ASSUME NEW m \in ParentsOf(doc[i])
                     PROVE  m \in NamesOf(doc)
          OBVIOUS
        <5>1. PICK y \in 1..(i - 1) : m = n(y)
          BY <1>3
        <5>2. y \in DOMAIN doc
          BY <1>3
        <5> QED
          BY <5>1, <5>2 DEF NamesOf, n
      <4> QED
        BY <4>1, <4>2, <4>3
    <3>5. ASSUME NEW i \in DOMAIN doc, doc[i].name \in S \cup {n(b)}
          PROVE  WaitsFor(doc[i]) \subseteq S
      <4>1. CASE n(i) \in S
        <5>1. PICK f \in B(i) : f.name = <<n(i)>>
          BY <1>2 DEF Heads
        <5>2. Parents(f) \subseteq T
          BY <4>1, <5>1, <2>2 DEF Closed
        <5> QED
          BY <5>1, <5>2, <3>4
      <4>2. CASE n(i) = n(b)
        <5>1. i = b
          BY <4>2, <1>3
        <5> QED
          BY <5>1, <2>1, <3>4
      <4> QED
        BY <3>5, <4>1, <4>2 DEF n
    <3>6. n(a) \in S
      <4>1. S \in SUBSET NamesOf(doc)
        OBVIOUS
      <4> HIDE DEF S
      <4> QED
        BY <3>3, <3>5, <4>1 DEF Precedes
    <3> QED
      BY <3>6, <2>1, <2>2, <1>2 DEF Closing
  <2> QED
    BY <2>3, <2>4
<1>18. doc # <<>> => list # {}
  <2>1. doc # <<>> => 1 \in DOMAIN doc
    <3>1. doc \in Seq(Entry)
      BY DocumentsAssumption
    <3> QED
      BY <3>1
  <2> QED
    BY <2>1, <1>2, <1>6 DEF Heads
<1> QED
  BY <1>11, <1>12, <1>13, <1>14, <1>15, <1>16, <1>17, <1>18 DEF Good, list

\* The list of a valid document is good, however deep its workflows are.
THEOREM ListsAreGood == \A doc \in Doc : Valid[doc] => Good(doc)
<1> SUFFICES ASSUME NEW some \in Doc, Valid[some], ~Good(some)
             PROVE  FALSE
  OBVIOUS
<1> DEFINE D == {doc \in Doc : Valid[doc] /\ ~Good(doc)}
<1>1. PICK doc \in D : \A d \in D : Depth[doc] <= Depth[d]
  <2>1. D \in SUBSET Doc /\ D # {}
    OBVIOUS
  <2> QED
    BY <2>1, DepthType, Listing!Shallowest
<1>2. ASSUME NEW i \in DOMAIN doc
      PROVE  GoodBlock(doc, i)
  <2>1. CASE ~doc[i].workflow
    BY <1>1, <2>1, JobBlock
  <2>2. CASE doc[i].workflow
    <3>1. doc[i].sub \in Doc /\ Depth[doc[i].sub] < Depth[doc] /\ Valid[doc[i].sub]
      BY <1>1, <2>2, EntryFacts, ValidFacts
    <3>2. Depth[doc] \in Nat /\ Depth[doc[i].sub] \in Nat
      BY <1>1, <3>1, DepthType
    <3>3. doc[i].sub \notin D
      BY <1>1, <3>1, <3>2
    <3>4. Good(doc[i].sub)
      BY <3>1, <3>3
    <3> QED
      BY <1>1, <2>2, <3>4, WorkflowBlock
  <2> QED
    BY <2>1, <2>2
<1>3. Good(doc)
  BY <1>1, <1>2, GoodDocument
<1> QED
  BY <1>1, <1>3

-----------------------------------------------------------------------------
(* The inductive invariant.                                                *)

State == Ended \union {"queued", "running"}
Row(ids) == [deps : SUBSET [job : ids, on : SUBSET Ended], wait : BOOLEAN, state : State]

\* The request that a list was sent with.
Origin(l) == [creator |-> lists[l].creator, jobs |-> JobList[lists[l].doc], list |-> l]

\* A list is made from a valid document, by a job that there is.
ListsOK ==
    /\ lists \in Seq([creator : Id, doc : Doc])
    /\ \A l \in 1..Len(lists) : lists[l].creator \in DOMAIN job /\ Valid[lists[l].doc]

\* With one job of a list there are all of them, with the dependencies that
\* the list gives them.
RowsOK ==
    /\ DOMAIN job \subseteq Id
    /\ CreateJobs \in DOMAIN job
    /\ job \in [DOMAIN job -> Row(DOMAIN job)]
    /\ \A i \in Created :
          /\ i.list \in 1..Len(lists)
          /\ \E j \in Origin(i.list).jobs : j.name = i.path
          /\ Rows(Origin(i.list)) \subseteq DOMAIN job
          /\ job[i].deps = RowOf(Origin(i.list), i).deps
          /\ job[i].wait = RowOf(Origin(i.list), i).wait

\* A request is about a list of its own, that has no rows yet; at most one of
\* the requests of a job is awaited.
RequestsOK ==
    \A q \in request :
        /\ q \in [creator : Id, jobs : SUBSET Listed, list : 1..Len(lists), awaited : BOOLEAN]
        /\ q.creator = Origin(q.list).creator /\ q.jobs = Origin(q.list).jobs
        /\ \A i \in Created : i.list # q.list
        /\ q.awaited => runner[q.creator] = "creating"
        /\ \A r \in request : r.list = q.list => r = q
        /\ \A r \in request : r.awaited /\ q.awaited /\ r.creator = q.creator => r = q

RunnersOK ==
    /\ runner \in [DOMAIN job -> {"off", "body", "creating", "output"}]
    /\ \A i \in DOMAIN job : runner[i] # "off" <=> job[i].state = "running"

\* What a job waits for has ended, unless it is queued or was killed.
Waited == \A i \in DOMAIN job : job[i].state \notin {"queued", "killed"} => ParentsEnded(i)

RestOK == document \in Documents /\ faults \in 0..MaxFaults

IInv == ListsOK /\ RowsOK /\ RequestsOK /\ RunnersOK /\ Waited /\ RestOK

LEMMA StateSet ==
    ASSUME RowsOK, NEW i \in DOMAIN job, NEW s \in State, SetState(i, s)
    PROVE  /\ DOMAIN job' = DOMAIN job
           /\ job' \in [DOMAIN job -> Row(DOMAIN job)]
           /\ \A k \in DOMAIN job :
                 /\ job'[k].deps = job[k].deps /\ job'[k].wait = job[k].wait
                 /\ job'[k].state = IF k = i THEN s ELSE job[k].state
<1> DEFINE ids == DOMAIN job
           R == Row(ids)
<1>1. job \in [ids -> R] /\ job' = [job EXCEPT ![i].state = s]
  BY DEF RowsOK, SetState
<1>2. \A r \in R : /\ [r EXCEPT !.state = s] \in R
                   /\ [r EXCEPT !.state = s].deps = r.deps
                   /\ [r EXCEPT !.state = s].wait = r.wait
                   /\ [r EXCEPT !.state = s].state = s
  BY DEF Row
<1>3. job' = [k \in ids |-> IF k = i THEN [job[k] EXCEPT !.state = s] ELSE job[k]]
  BY <1>1
<1> HIDE DEF R, ids
<1> QED
  BY <1>1, <1>2, <1>3 DEF R, ids

\* What a step that changes neither the rows, nor their dependencies, nor the
\* lists leaves as it was.
LEMMA RowsKept ==
    ASSUME ListsOK, RowsOK, UNCHANGED lists,
           DOMAIN job' = DOMAIN job,
           job' \in [DOMAIN job -> Row(DOMAIN job)],
           \A k \in DOMAIN job : job'[k].deps = job[k].deps /\ job'[k].wait = job[k].wait
    PROVE  ListsOK' /\ RowsOK'
<1>1. \A l : Origin(l)' = Origin(l)
  BY DEF Origin
<1>2. Created' = Created
  BY DEF Created
<1>3. ListsOK'
  BY DEF ListsOK
<1>4. \A i \in Created : i \in DOMAIN job
  BY DEF Created
<1>5. \A i \in Created :
          /\ i.list \in 1..Len(lists')
          /\ \E j \in Origin(i.list)'.jobs : j.name = i.path
          /\ Rows(Origin(i.list)') \subseteq DOMAIN job'
          /\ job'[i].deps = RowOf(Origin(i.list)', i).deps
          /\ job'[i].wait = RowOf(Origin(i.list)', i).wait
  BY <1>1, <1>4 DEF RowsOK
<1> QED
  BY <1>2, <1>3, <1>5 DEF RowsOK

LEMMA WaitedKept ==
    ASSUME RowsOK, Waited, NEW i \in DOMAIN job, NEW s \in State, SetState(i, s),
           job[i].state \notin Ended,
           s \notin {"queued", "killed"} => ParentsEnded(i)
    PROVE  Waited'
<1>1. /\ DOMAIN job' = DOMAIN job
      /\ \A k \in DOMAIN job :
            /\ job'[k].deps = job[k].deps
            /\ job'[k].state = IF k = i THEN s ELSE job[k].state
  BY StateSet
<1>2. \A k \in DOMAIN job : \A d \in job[k].deps : d.job \in DOMAIN job
  BY DEF RowsOK, Row
<1>3. \A k \in DOMAIN job : job[k].state \in Ended => job'[k].state \in Ended
  BY <1>1
<1>4. \A k \in DOMAIN job : ParentsEnded(k) => ParentsEnded(k)'
  BY <1>1, <1>2, <1>3 DEF ParentsEnded
<1> QED
  BY <1>1, <1>4 DEF Waited

\* The answer to no request is awaited but by a job whose runner says so.
LEMMA RequestsKept ==
    ASSUME ListsOK, RequestsOK, RunnersOK, UNCHANGED lists, DOMAIN job' = DOMAIN job,
           NEW i \in DOMAIN job, NEW r,
           \/ UNCHANGED runner
           \/ runner' = [runner EXCEPT ![i] = r],
           \/ UNCHANGED request /\ runner[i] # "creating"
           \/ request' = Unawaited(i)
    PROVE  RequestsOK'
<1>1. /\ \A l : Origin(l)' = Origin(l)
      /\ Created' = Created
  BY DEF Origin, Created
<1>2. \A k \in DOMAIN job : k # i => runner'[k] = runner[k]
  BY DEF RunnersOK
<1>3. \A q \in request : q.creator \in DOMAIN job
  BY DEF RequestsOK, ListsOK, Origin
<1>4. CASE UNCHANGED request /\ runner[i] # "creating"
  <2>1. \A q \in request : q.awaited => runner'[q.creator] = "creating"
    BY <1>2, <1>3, <1>4 DEF RequestsOK
  <2> QED
    BY <1>1, <1>4, <2>1 DEF RequestsOK
<1>5. CASE request' = Unawaited(i)
  <2> DEFINE G(q) == IF q.creator = i THEN [q EXCEPT !.awaited = FALSE] ELSE q
             S == [creator : Id, jobs : SUBSET Listed, list : 1..Len(lists), awaited : BOOLEAN]
  <2>1. request' = {G(q) : q \in request}
    BY <1>5 DEF Unawaited
  <2>2. ASSUME NEW q \in request
        PROVE  /\ G(q) \in S
               /\ G(q).creator = q.creator /\ G(q).jobs = q.jobs /\ G(q).list = q.list
               /\ G(q).awaited => q.creator # i /\ q.awaited
    <3>1. q \in S
      BY DEF RequestsOK
    <3>2. \A x \in S : /\ [x EXCEPT !.awaited = FALSE] \in S
                       /\ [x EXCEPT !.awaited = FALSE].creator = x.creator
                       /\ [x EXCEPT !.awaited = FALSE].jobs = x.jobs
                       /\ [x EXCEPT !.awaited = FALSE].list = x.list
                       /\ [x EXCEPT !.awaited = FALSE].awaited = FALSE
      OBVIOUS
    <3> HIDE DEF S
    <3> QED
      BY <3>1, <3>2
  <2> HIDE DEF G
  <2> SUFFICES ASSUME NEW q \in request
               PROVE  /\ G(q) \in S
                      /\ G(q).creator = Origin(G(q).list).creator
                      /\ G(q).jobs = Origin(G(q).list).jobs
                      /\ \A k \in Created : k.list # G(q).list
                      /\ G(q).awaited => runner'[G(q).creator] = "creating"
                      /\ \A x \in request : G(x).list = G(q).list => G(x) = G(q)
                      /\ \A x \in request :
                            G(x).awaited /\ G(q).awaited /\ G(x).creator = G(q).creator => G(x) = G(q)
    BY <1>1, <2>1 DEF RequestsOK
  <2>3. G(q).awaited => runner'[G(q).creator] = "creating"
    BY <2>2, <1>2, <1>3 DEF RequestsOK
  <2>4. \A x \in request : G(x).list = G(q).list => G(x) = G(q)
    BY <2>2 DEF RequestsOK
  <2>5. \A x \in request :
           G(x).awaited /\ G(q).awaited /\ G(x).creator = G(q).creator => G(x) = G(q)
    BY <2>2 DEF RequestsOK
  <2>6. \A k \in Created : k.list # G(q).list
    BY <2>2 DEF RequestsOK
  <2>7. G(q).creator = Origin(G(q).list).creator /\ G(q).jobs = Origin(G(q).list).jobs
    BY <2>2 DEF RequestsOK
  <2> QED
    BY <2>2, <2>3, <2>4, <2>5, <2>6, <2>7
<1> QED
  BY <1>4, <1>5

RunnerState == {"off", "body", "creating", "output"}

LEMMA RequestDropped ==
    ASSUME ListsOK, RequestsOK, RunnersOK, UNCHANGED lists, DOMAIN job' = DOMAIN job,
           NEW q \in request, request' = request \ {q}, NEW r,
           \/ UNCHANGED runner
           \/ q.awaited /\ runner' = [runner EXCEPT ![q.creator] = r]
    PROVE  RequestsOK'
<1>1. /\ \A l : Origin(l)' = Origin(l)
      /\ Created' = Created
  BY DEF Origin, Created
<1>2. \A x \in request : x.creator \in DOMAIN job
  BY DEF RequestsOK, ListsOK, Origin
<1>3. ASSUME NEW x \in request', x.awaited
      PROVE  runner'[x.creator] = "creating"
  <2>1. CASE UNCHANGED runner
    BY <1>3, <2>1 DEF RequestsOK
  <2>2. CASE q.awaited /\ runner' = [runner EXCEPT ![q.creator] = r]
    <3>1. x.creator # q.creator
      BY <1>3, <2>2 DEF RequestsOK
    <3> QED
      BY <1>2, <1>3, <2>2, <3>1 DEF RequestsOK, RunnersOK
  <2> QED
    BY <2>1, <2>2
<1> QED
  BY <1>1, <1>3 DEF RequestsOK

\* A job gets another state, and its runner with it.
LEMMA JobMoves ==
    ASSUME IInv, NEW i \in DOMAIN job, NEW s \in State, SetState(i, s), UNCHANGED lists,
           job[i].state \notin Ended,
           s \notin {"queued", "killed"} => ParentsEnded(i),
           NEW r \in RunnerState, runner' = [runner EXCEPT ![i] = r], r # "off" <=> s = "running"
    PROVE  ListsOK' /\ RowsOK' /\ RunnersOK' /\ Waited' /\ DOMAIN job' = DOMAIN job
<1>1. /\ DOMAIN job' = DOMAIN job
      /\ job' \in [DOMAIN job -> Row(DOMAIN job)]
      /\ \A k \in DOMAIN job :
            /\ job'[k].deps = job[k].deps /\ job'[k].wait = job[k].wait
            /\ job'[k].state = IF k = i THEN s ELSE job[k].state
  BY StateSet DEF IInv
<1>2. ListsOK' /\ RowsOK'
  BY <1>1, RowsKept DEF IInv
<1>3. RunnersOK'
  BY <1>1 DEF IInv, RunnersOK, RunnerState
<1>4. Waited'
  BY WaitedKept DEF IInv
<1> QED
  BY <1>1, <1>2, <1>3, <1>4

\* The runner of a running job goes on.
LEMMA RunnerMoves ==
    ASSUME IInv, NEW i \in DOMAIN job, UNCHANGED <<job, lists>>, runner[i] # "off",
           NEW r \in RunnerState \ {"off"}, runner' = [runner EXCEPT ![i] = r]
    PROVE  ListsOK' /\ RowsOK' /\ RunnersOK' /\ Waited'
<1>1. ListsOK' /\ RowsOK'
  BY RowsKept DEF IInv, RowsOK
<1>2. RunnersOK'
  BY DEF IInv, RunnersOK, RunnerState
<1>3. Waited'
  BY DEF IInv, Waited, ParentsEnded
<1> QED
  BY <1>1, <1>2, <1>3

LEMMA StateFacts ==
    ASSUME IInv, NEW i \in DOMAIN job
    PROVE  /\ job[i].state \in State
           /\ runner[i] \in RunnerState
           /\ job[i].state = "queued" => runner[i] = "off" /\ job[i].state \notin Ended
           /\ runner[i] # "off" => /\ job[i].state = "running" /\ job[i].state \notin Ended
                                   /\ ParentsEnded(i)
           /\ runner[i] = "off" => runner = [runner EXCEPT ![i] = "off"]
<1>1. job[i].state \in State
  BY DEF IInv, RowsOK, Row
<1>2. runner[i] \in RunnerState /\ (runner[i] # "off" <=> job[i].state = "running")
  BY DEF IInv, RunnersOK, RunnerState
<1>3. runner[i] = "off" => runner = [runner EXCEPT ![i] = "off"]
  BY DEF IInv, RunnersOK
<1>4. job[i].state \in {"queued", "running"} => job[i].state \notin Ended
  BY DEF Ended
<1>5. job[i].state = "running" => ParentsEnded(i)
  BY DEF IInv, Waited
<1> QED
  BY <1>1, <1>2, <1>3, <1>4, <1>5

LEMMA InitOK == Init => IInv
<1> SUFFICES ASSUME Init
             PROVE  IInv
  OBVIOUS
<1>1. CreateJobs \in Id
  BY EmptySeq DEF CreateJobs, Id
<1>2. DOMAIN job = {CreateJobs} /\ Created = {}
  BY DEF Init, Created
<1>3. job[CreateJobs] = [deps |-> {}, wait |-> FALSE, state |-> "queued"]
  BY DEF Init
<1>4. job \in [DOMAIN job -> Row(DOMAIN job)]
  <2>1. job[CreateJobs] \in Row(DOMAIN job)
    BY <1>3 DEF Row, State, Ended
  <2>2. job = [i \in {CreateJobs} |-> job[i]]
    BY DEF Init
  <2> QED
    BY <1>2, <2>1, <2>2
<1>5. ListsOK
  BY EmptySeq DEF Init, ListsOK
<1>6. RowsOK
  BY <1>1, <1>2, <1>4 DEF RowsOK
<1>7. RequestsOK
  BY DEF Init, RequestsOK
<1>8. RunnersOK
  BY <1>2, <1>3 DEF Init, RunnersOK
<1>9. Waited
  BY <1>2, <1>3 DEF Waited
<1>10. RestOK
  BY BoundsAssumption DEF Init, RestOK
<1> QED
  BY <1>5, <1>6, <1>7, <1>8, <1>9, <1>10 DEF IInv

LEMMA SchedulerOK ==
    ASSUME IInv, NEW i \in DOMAIN job, SchedulerNext(i)
    PROVE  IInv'
<1>1. CASE StartJob(i)
  <2>1. SetState(i, "running") /\ "running" \in State /\ "body" \in RunnerState
    BY <1>1 DEF StartJob, State, RunnerState
  <2>2. job[i].state = "queued" /\ ParentsEnded(i) /\ runner' = [runner EXCEPT ![i] = "body"]
    BY <1>1 DEF StartJob
  <2>3. UNCHANGED <<request, document, lists, faults>>
    BY <1>1 DEF StartJob
  <2>4. ListsOK' /\ RowsOK' /\ RunnersOK' /\ Waited' /\ DOMAIN job' = DOMAIN job
    BY <2>1, <2>2, <2>3, StateFacts, JobMoves
  <2>5. RequestsOK'
    BY <2>2, <2>3, <2>4, StateFacts, RequestsKept DEF IInv
  <2> QED
    BY <2>3, <2>4, <2>5 DEF IInv, RestOK
<1>2. ASSUME NEW s \in {"finished", "skipped"}, SetState(i, s), job[i].state = "queued",
             ParentsEnded(i), UNCHANGED <<runner, request, document, lists, faults>>
      PROVE  IInv'
  <2>1. s \in State /\ s # "running" /\ "off" \in RunnerState
    BY DEF State, Ended, RunnerState
  <2>2. runner' = [runner EXCEPT ![i] = "off"]
    BY <1>2, StateFacts
  <2>3. ListsOK' /\ RowsOK' /\ RunnersOK' /\ Waited' /\ DOMAIN job' = DOMAIN job
    BY <1>2, <2>1, <2>2, StateFacts, JobMoves
  <2>4. RequestsOK'
    BY <1>2, <2>2, <2>3, StateFacts, RequestsKept DEF IInv
  <2> QED
    BY <1>2, <2>3, <2>4 DEF IInv, RestOK
<1>3. CASE FinishWait(i)
  BY <1>2, <1>3 DEF FinishWait
<1>4. CASE SkipJob(i)
  BY <1>2, <1>4 DEF SkipJob
<1> QED
  BY <1>1, <1>3, <1>4 DEF SchedulerNext

LEMMA FaultOK ==
    ASSUME RestOK, Fault, UNCHANGED document
    PROVE  RestOK'
  BY BoundsAssumption DEF RestOK, Fault

LEMMA KillOK ==
    ASSUME IInv, NEW i \in DOMAIN job, KillJob(i)
    PROVE  IInv'
<1>1. /\ SetState(i, "killed") /\ "killed" \in State /\ "off" \in RunnerState
      /\ job[i].state \notin Ended /\ runner' = [runner EXCEPT ![i] = "off"]
      /\ request' = Unawaited(i) /\ UNCHANGED <<document, lists>> /\ Fault
  BY DEF KillJob, State, Ended, RunnerState
<1>2. ListsOK' /\ RowsOK' /\ RunnersOK' /\ Waited' /\ DOMAIN job' = DOMAIN job
  BY <1>1, JobMoves
<1>3. RequestsOK'
  BY <1>1, <1>2, RequestsKept DEF IInv
<1> QED
  BY <1>1, <1>2, <1>3, FaultOK DEF IInv

\* The end of a job whose runner is at work.
LEMMA EndOK ==
    ASSUME IInv, NEW i \in DOMAIN job, NEW s \in {"finished", "failure", "error"}, EndJob(i, s),
           runner[i] # "off", UNCHANGED lists
    PROVE  /\ ListsOK' /\ RowsOK' /\ RunnersOK' /\ Waited' /\ DOMAIN job' = DOMAIN job
           /\ runner' = [runner EXCEPT ![i] = "off"]
           /\ runner[i] # "creating" /\ UNCHANGED request => RequestsOK'
           /\ request' = Unawaited(i) => RequestsOK'
<1>1. /\ SetState(i, s) /\ s \in State /\ s # "running" /\ "off" \in RunnerState
      /\ runner' = [runner EXCEPT ![i] = "off"]
  BY DEF EndJob, State, Ended, RunnerState
<1>2. ListsOK' /\ RowsOK' /\ RunnersOK' /\ Waited' /\ DOMAIN job' = DOMAIN job
  BY <1>1, StateFacts, JobMoves
<1>3. runner[i] # "creating" /\ UNCHANGED request => RequestsOK'
  BY <1>1, <1>2, RequestsKept DEF IInv
<1>4. request' = Unawaited(i) => RequestsOK'
  BY <1>1, <1>2, RequestsKept DEF IInv
<1> QED
  BY <1>1, <1>2, <1>3, <1>4

LEMMA GoesOn ==
    ASSUME IInv, NEW i \in DOMAIN job, runner[i] = "body",
           runner' = [runner EXCEPT ![i] = "output"],
           UNCHANGED <<job, request, document, lists, faults>>
    PROVE  IInv'
<1>1. "output" \in RunnerState \ {"off"}
  BY DEF RunnerState
<1>2. ListsOK' /\ RowsOK' /\ RunnersOK' /\ Waited'
  BY <1>1, RunnerMoves
<1>3. RequestsOK'
  BY RequestsKept DEF IInv
<1> QED
  BY <1>2, <1>3 DEF IInv, RestOK

\* A document is left, and its list is sent.
LEMMA ListSent ==
    ASSUME IInv, NEW i \in DOMAIN job, NEW doc \in Doc, Valid[doc], runner[i] = "body",
           lists' = Append(lists, [creator |-> i, doc |-> doc]),
           request' = request \union
              {[creator |-> i, jobs |-> JobList[doc], list |-> Len(lists'), awaited |-> TRUE]},
           runner' = [runner EXCEPT ![i] = "creating"],
           UNCHANGED <<job, document, faults>>
    PROVE  IInv'
<1>0. PICK l : l = Len(lists) + 1
  OBVIOUS
<1> DEFINE c == [creator |-> i, doc |-> doc]
           S == [creator : Id, doc : Doc]
<1>1. i \in Id /\ c \in S /\ c.creator = i /\ c.doc = doc
  BY DEF IInv, RowsOK
<1>2. lists \in Seq(S)
  BY DEF IInv, ListsOK
<1> HIDE DEF c, S
<1>3. /\ Len(lists) \in Nat /\ Len(lists') = l /\ lists' \in Seq(S)
      /\ \A k \in 1..Len(lists) : lists'[k] = lists[k]
      /\ lists'[l] = c
  BY <1>0, <1>1, <1>2 DEF c
<1>4. 1..Len(lists') = 1..Len(lists) \cup {l} /\ l \notin 1..Len(lists)
  BY <1>0, <1>3
<1>5. ListsOK'
  <2>1. lists' \in Seq([creator : Id, doc : Doc])
    BY <1>3 DEF S
  <2>2. \A k \in 1..Len(lists) : lists'[k].creator \in DOMAIN job' /\ Valid[lists'[k].doc]
    BY <1>3 DEF IInv, ListsOK
  <2>3. lists'[l].creator \in DOMAIN job' /\ Valid[lists'[l].doc]
    BY <1>1, <1>3
  <2> QED
    BY <1>4, <2>1, <2>2, <2>3 DEF ListsOK
<1>6. /\ \A k \in 1..Len(lists) : Origin(k)' = Origin(k)
      /\ Origin(l)' = [creator |-> i, jobs |-> JobList[doc], list |-> l]
      /\ Created' = Created
  <2>1. \A k \in 1..Len(lists) : Origin(k)' = Origin(k)
    BY <1>3 DEF Origin
  <2>2. Origin(l)' = [creator |-> i, jobs |-> JobList[doc], list |-> l]
    BY <1>1, <1>3 DEF Origin
  <2> QED
    BY <2>1, <2>2 DEF Created
<1>7. RowsOK'
  <2>1. \A k \in Created :
           /\ k.list \in 1..Len(lists')
           /\ \E j \in Origin(k.list)'.jobs : j.name = k.path
           /\ Rows(Origin(k.list)') \subseteq DOMAIN job'
           /\ job'[k].deps = RowOf(Origin(k.list)', k).deps
           /\ job'[k].wait = RowOf(Origin(k.list)', k).wait
    BY <1>4, <1>6 DEF IInv, RowsOK
  <2> QED
    BY <1>6, <2>1 DEF IInv, RowsOK
<1>8. RequestsOK'
  <2> PICK q : q = [creator |-> i, jobs |-> JobList[doc], list |-> l, awaited |-> TRUE]
    OBVIOUS
  <2>1. /\ q.creator = i /\ q.jobs = JobList[doc] /\ q.list = l /\ q.awaited
        /\ q \in [creator : Id, jobs : SUBSET Listed, list : 1..Len(lists'), awaited : BOOLEAN]
    BY <1>1, <1>4, ListsAreGood DEF Good
  <2>2. request' = request \cup {q}
    BY <1>3
  <2>3. ASSUME NEW r \in request
        PROVE  /\ r \in [creator : Id, jobs : SUBSET Listed, list : 1..Len(lists'), awaited : BOOLEAN]
               /\ r.creator = Origin(r.list)'.creator /\ r.jobs = Origin(r.list)'.jobs
               /\ \A k \in Created' : k.list # r.list
               /\ r.awaited => runner'[r.creator] = "creating"
               /\ r.list # q.list
               /\ ~(r.awaited /\ r.creator = q.creator)
    <3>1. /\ r \in [creator : Id, jobs : SUBSET Listed, list : 1..Len(lists), awaited : BOOLEAN]
          /\ r.creator = Origin(r.list).creator /\ r.jobs = Origin(r.list).jobs
          /\ \A k \in Created : k.list # r.list
          /\ r.awaited => runner[r.creator] = "creating"
      BY DEF IInv, RequestsOK
    <3>2. ~(r.awaited /\ r.creator = q.creator)
      BY <2>1, <3>1
    <3>3. r.creator \in DOMAIN job
      BY <3>1 DEF IInv, ListsOK, Origin
    <3>4. r.awaited => runner'[r.creator] = "creating"
      BY <2>1, <3>1, <3>2, <3>3 DEF IInv, RunnersOK
    <3>5. r \in [creator : Id, jobs : SUBSET Listed, list : 1..Len(lists'), awaited : BOOLEAN]
      BY <3>1, <1>4
    <3>6. r.list \in 1..Len(lists) /\ r.list # q.list
      BY <3>1, <2>1, <1>4
    <3> QED
      BY <3>1, <3>2, <3>4, <3>5, <3>6, <1>6
  <2>4. /\ q.creator = Origin(q.list)'.creator /\ q.jobs = Origin(q.list)'.jobs
        /\ \A k \in Created' : k.list # q.list
        /\ runner'[q.creator] = "creating"
    <3>1. \A k \in Created : k.list # l
      BY <1>4 DEF IInv, RowsOK
    <3> QED
      BY <2>1, <3>1, <1>6 DEF IInv, RunnersOK
  <2>5. ASSUME NEW x \in request, NEW y \in request
        PROVE  /\ x.list = y.list => x = y
               /\ x.awaited /\ y.awaited /\ x.creator = y.creator => x = y
    BY DEF IInv, RequestsOK
  <2>6. ASSUME NEW r \in request'
        PROVE  /\ r \in [creator : Id, jobs : SUBSET Listed, list : 1..Len(lists'), awaited : BOOLEAN]
               /\ r.creator = Origin(r.list)'.creator /\ r.jobs = Origin(r.list)'.jobs
               /\ \A k \in Created' : k.list # r.list
               /\ r.awaited => runner'[r.creator] = "creating"
    <3>1. CASE r = q
      BY <2>1, <2>4, <3>1
    <3>2. CASE r \in request
      BY <2>3, <3>2
    <3> QED
      BY <2>2, <3>1, <3>2
  <2>7. ASSUME NEW x \in request', NEW y \in request'
        PROVE  /\ x.list = y.list => x = y
               /\ x.awaited /\ y.awaited /\ x.creator = y.creator => x = y
    BY <2>1, <2>2, <2>3, <2>5
  <2> QED
    BY <2>6, <2>7 DEF RequestsOK
<1>9. RunnersOK' /\ Waited'
  BY DEF IInv, RunnersOK, Waited, ParentsEnded
<1> QED
  BY <1>5, <1>7, <1>8, <1>9 DEF IInv, RestOK

LEMMA LeaveOK ==
    ASSUME IInv, NEW i \in DOMAIN job, NEW doc \in Doc, LeaveDocument(i, doc)
    PROVE  IInv'
<1>1. runner[i] = "body" /\ UNCHANGED <<document, faults>>
  BY DEF LeaveDocument
<1>2. CASE EndJob(i, "failure") /\ UNCHANGED <<request, lists>>
  <2>1. ListsOK' /\ RowsOK' /\ RunnersOK' /\ Waited' /\ RequestsOK'
    BY <1>1, <1>2, EndOK
  <2> QED
    BY <1>1, <2>1 DEF IInv, RestOK
<1>3. CASE runner' = [runner EXCEPT ![i] = "output"] /\ UNCHANGED <<job, request, lists>>
  BY <1>1, <1>3, GoesOn
<1>4. CASE /\ Valid[doc]
           /\ lists' = Append(lists, [creator |-> i, doc |-> doc])
           /\ request' = request \union
                {[creator |-> i, jobs |-> JobList[doc], list |-> Len(lists'), awaited |-> TRUE]}
           /\ runner' = [runner EXCEPT ![i] = "creating"]
           /\ UNCHANGED job
  BY <1>1, <1>4, ListSent
<1> QED
  BY <1>2, <1>3, <1>4 DEF LeaveDocument

LEMMA RunnerOK ==
    ASSUME IInv, NEW i \in DOMAIN job, RunnerNext(i)
    PROVE  IInv'
<1>1. CASE EndBody(i)
  <2>1. document \in Doc /\ Generated \subseteq Doc
    BY DocumentsAssumption DEF IInv, RestOK
  <2>2. CASE LeaveNothing(i)
    BY <2>2, GoesOn DEF LeaveNothing
  <2>3. ASSUME NEW doc \in Doc, LeaveDocument(i, doc)
        PROVE  IInv'
    BY <2>3, LeaveOK
  <2> QED
    BY <1>1, <2>1, <2>2, <2>3 DEF EndBody
<1>2. ASSUME NEW s \in {"finished", "failure", "error"}, EndJob(i, s), runner[i] \in {"body", "output"},
             UNCHANGED <<request, document, lists, faults>>
      PROVE  IInv'
  <2>1. ListsOK' /\ RowsOK' /\ RunnersOK' /\ Waited' /\ RequestsOK'
    BY <1>2, EndOK
  <2> QED
    BY <1>2, <2>1 DEF IInv, RestOK
<1>3. CASE FinishJob(i)
  BY <1>2, <1>3 DEF FinishJob
<1>4. CASE FailJob(i)
  BY <1>2, <1>4 DEF FailJob
<1> QED
  BY <1>1, <1>3, <1>4 DEF RunnerNext

LEMMA TimeoutOK ==
    ASSUME IInv, NEW i \in DOMAIN job, CreationTimesOut(i)
    PROVE  IInv'
<1>1. /\ runner[i] # "off" /\ Fault /\ EndJob(i, "error") /\ request' = Unawaited(i)
      /\ UNCHANGED <<document, lists>>
  BY DEF CreationTimesOut
<1>2. ListsOK' /\ RowsOK' /\ RunnersOK' /\ Waited' /\ RequestsOK'
  BY <1>1, EndOK
<1> QED
  BY <1>1, <1>2, FaultOK DEF IInv

LEMMA RestartOK ==
    ASSUME IInv, NEW i \in DOMAIN job, RestartContainer(i)
    PROVE  IInv'
<1>1. /\ runner[i] # "off" /\ Fault /\ runner' = [runner EXCEPT ![i] = "body"]
      /\ request' = Unawaited(i) /\ UNCHANGED <<job, document, lists>>
      /\ "body" \in RunnerState \ {"off"}
  BY DEF RestartContainer, RunnerState
<1>2. ListsOK' /\ RowsOK' /\ RunnersOK' /\ Waited'
  BY <1>1, RunnerMoves
<1>3. RequestsOK'
  BY <1>1, RequestsKept DEF IInv
<1> QED
  BY <1>1, <1>2, <1>3, FaultOK DEF IInv

\* The rows of a request.
LEMMA RowFacts ==
    ASSUME ListsOK, NEW l \in 1..Len(lists)
    PROVE  /\ lists[l].doc \in Doc /\ lists[l].creator \in DOMAIN job
           /\ l \in Nat /\ Good(lists[l].doc)
           /\ Origin(l).jobs = JobList[lists[l].doc] /\ Origin(l).list = l
           /\ Origin(l).creator = lists[l].creator
           /\ \A j \in Origin(l).jobs :
                 /\ j \in Listed /\ j.name \in Path
                 /\ [list |-> l, path |-> j.name] \in Id
                 /\ [list |-> l, path |-> j.name] \in Rows(Origin(l))
                 /\ [list |-> l, path |-> j.name] # CreateJobs
                 /\ RowOf(Origin(l), [list |-> l, path |-> j.name])
                      = [deps |-> RowDeps(Origin(l), j), wait |-> j.wait, state |-> "queued"]
<1>1. lists[l] \in [creator : Id, doc : Doc] /\ Len(lists) \in Nat /\ l \in Nat /\ l # 0
  <2> DEFINE S == [creator : Id, doc : Doc]
  <2>1. lists \in Seq(S)
    BY DEF ListsOK
  <2> HIDE DEF S
  <2>2. Len(lists) \in Nat /\ lists[l] \in S
    BY <2>1
  <2> QED
    BY <2>2 DEF S
<1>2. Good(lists[l].doc) /\ lists[l].creator \in DOMAIN job
  BY <1>1, ListsAreGood DEF ListsOK
<1> DEFINE q == Origin(l)
<1>3. q.jobs = JobList[lists[l].doc] /\ q.list = l /\ q.creator = lists[l].creator
  BY DEF Origin
<1> HIDE DEF q
<1>4. Named(q.jobs) /\ q.jobs \subseteq Listed
  BY <1>2, <1>3 DEF Good
<1>5. ASSUME NEW j \in q.jobs
      PROVE  /\ j \in Listed /\ j.name \in Path
             /\ [list |-> l, path |-> j.name] \in Id
             /\ [list |-> l, path |-> j.name] \in Rows(q)
             /\ [list |-> l, path |-> j.name] # CreateJobs
             /\ RowOf(q, [list |-> l, path |-> j.name])
                  = [deps |-> RowDeps(q, j), wait |-> j.wait, state |-> "queued"]
  <2> DEFINE i == [list |-> l, path |-> j.name]
             k == CHOOSE x \in q.jobs : x.name = i.path
  <2>1. j \in Listed /\ j.name \in Path
    BY <1>4 DEF Listed
  <2>2. i \in Id /\ i.list = l /\ i.path = j.name
    BY <1>1, <2>1 DEF Id, Path
  <2>3. i \in Rows(q)
    BY <1>3 DEF Rows
  <2>4. i # CreateJobs
    BY <1>1, <2>2 DEF CreateJobs
  <2>5. k = j
    <3>1. k \in q.jobs /\ k.name = j.name
      BY <2>2
    <3> QED
      BY <3>1, <1>4 DEF Named
  <2>6. RowOf(q, i) = [deps |-> RowDeps(q, k), wait |-> k.wait, state |-> "queued"]
    BY DEF RowOf
  <2> QED
    BY <2>1, <2>2, <2>3, <2>4, <2>5, <2>6
<1> QED
  BY <1>1, <1>2, <1>3, <1>5 DEF q

\* Every row of a request names rows of the request, or the creator.
LEMMA RowTyped ==
    ASSUME ListsOK, RowsOK, NEW l \in 1..Len(lists), NEW i \in Rows(Origin(l))
    PROVE  /\ i \in Id /\ i.list = l /\ i # CreateJobs
           /\ \E j \in Origin(l).jobs : j.name = i.path /\ i = [list |-> l, path |-> j.name]
           /\ RowOf(Origin(l), i) \in Row(DOMAIN job \cup Rows(Origin(l)))
           /\ RowOf(Origin(l), i).state = "queued"
<1> DEFINE q == Origin(l)
           ids == DOMAIN job \cup Rows(q)
<1>1. PICK j \in q.jobs : i = [list |-> l, path |-> j.name]
  BY RowFacts DEF Rows
<1>2. /\ j \in Listed /\ i \in Id /\ i # CreateJobs
      /\ RowOf(q, i) = [deps |-> RowDeps(q, j), wait |-> j.wait, state |-> "queued"]
      /\ q.list = l /\ q.creator \in DOMAIN job /\ Whole(q.jobs)
  BY <1>1, RowFacts DEF Good
<1>3. j.wait \in BOOLEAN /\ j.deps \subseteq Link
  BY <1>2 DEF Listed
<1>4. RowDeps(q, j) \subseteq [job : ids, on : SUBSET Ended]
  <2> HIDE DEF q
  <2>1. CASE j.deps = {}
    BY <2>1, <1>2 DEF RowDeps, Ended
  <2>2. CASE j.deps # {}
    <3>1. RowDeps(q, j) = {[job |-> [list |-> l, path |-> d.job], on |-> d.on] : d \in j.deps}
      BY <2>2, <1>2 DEF RowDeps
    <3>2. ASSUME NEW d \in j.deps
          PROVE  [list |-> l, path |-> d.job] \in ids /\ d.on \subseteq Ended
      <4>1. d.job \in Parents(j)
        BY DEF Parents
      <4>2. PICK k \in q.jobs : k.name = d.job
        BY <4>1, <1>1, <1>2 DEF Whole
      <4>3. [list |-> l, path |-> d.job] \in Rows(q)
        BY <4>2, <1>2 DEF Rows
      <4>4. d.on \subseteq Ended
        BY <1>3 DEF Link, Ended
      <4> QED
        BY <4>3, <4>4
    <3> HIDE DEF ids
    <3> QED
      BY <3>1, <3>2
  <2> QED
    BY <2>1, <2>2
<1>5. RowOf(q, i) \in Row(ids)
  <2> HIDE DEF q, ids
  <2> QED
    BY <1>2, <1>3, <1>4 DEF Row, State
<1> QED
  BY <1>1, <1>2, <1>5

LEMMA CommitOK ==
    ASSUME IInv, NEW q \in request, CommitJobs(q)
    PROVE  IInv'
<1>0. PICK l : l = q.list
  OBVIOUS
<1> DEFINE new == Rows(Origin(l))
           ids == DOMAIN job \cup new
<1>1. /\ l \in 1..Len(lists) /\ q.creator = Origin(l).creator /\ q.jobs = Origin(l).jobs
      /\ q.list = Origin(l).list
      /\ \A i \in Created : i.list # l
      /\ q.awaited => runner[q.creator] = "creating"
  BY <1>0, RowFacts DEF IInv, RequestsOK
<1>2. Rows(q) = new /\ \A i : RowOf(q, i) = RowOf(Origin(l), i)
  BY <1>1 DEF Rows, RowOf, RowDeps
<1>3. job' = [i \in ids |-> IF i \in DOMAIN job THEN job[i] ELSE RowOf(Origin(l), i)]
  BY <1>2 DEF CommitJobs
<1>4. runner' = [i \in ids |-> CASE i = q.creator /\ q.awaited -> "output"
                                 [] i \notin DOMAIN job -> "off"
                                 [] OTHER -> runner[i]]
  BY <1>2 DEF CommitJobs
<1>5. UNCHANGED <<document, lists, faults>> /\ request' = request \ {q}
  BY DEF CommitJobs
<1>6. \A i \in new : /\ i \in Id /\ i.list = l /\ i # CreateJobs /\ i \notin DOMAIN job
                     /\ \E j \in Origin(l).jobs : j.name = i.path
                     /\ RowOf(Origin(l), i) \in Row(ids)
                     /\ RowOf(Origin(l), i).state = "queued"
  <2>1. \A i \in new : /\ i \in Id /\ i.list = l /\ i # CreateJobs
                       /\ \E j \in Origin(l).jobs : j.name = i.path
                       /\ RowOf(Origin(l), i) \in Row(ids)
                       /\ RowOf(Origin(l), i).state = "queued"
    <3> TAKE i \in new
    <3>1. ListsOK /\ RowsOK /\ i \in Rows(Origin(l))
      BY DEF IInv
    <3> QED
      <4>1. /\ i \in Id /\ i.list = l /\ i # CreateJobs
            /\ \E j \in Origin(l).jobs : j.name = i.path /\ i = [list |-> l, path |-> j.name]
            /\ RowOf(Origin(l), i) \in Row(DOMAIN job \cup Rows(Origin(l)))
            /\ RowOf(Origin(l), i).state = "queued"
        BY <1>1, <3>1, RowTyped, Zenon
      <4> QED
        BY <4>1
  <2> QED
    BY <2>1, <1>1 DEF Created
<1>7. \A k : Origin(k)' = Origin(k)
  BY <1>5 DEF Origin
<1>8. PICK N : N = new
  OBVIOUS
<1>9. DOMAIN job' = DOMAIN job \cup N /\ Created' = Created \cup N
  <2>1. DOMAIN job' = DOMAIN job \cup N
    BY <1>3, <1>8
  <2> QED
    BY <2>1, <1>6, <1>8 DEF Created
<1>10. /\ \A i \in DOMAIN job : job'[i] = job[i]
       /\ \A i \in N : job'[i] = RowOf(Origin(l), i)
  BY <1>3, <1>6, <1>8
<1> HIDE DEF new
<1>11. ListsOK'
  BY <1>5, <1>9 DEF IInv, ListsOK
<1>12. RowsOK'
  <2>1. DOMAIN job' \subseteq Id /\ CreateJobs \in DOMAIN job'
    BY <1>6, <1>8, <1>9 DEF IInv, RowsOK
  <2>2. job' \in [DOMAIN job' -> Row(DOMAIN job')]
    <3>1. \A i \in DOMAIN job : job'[i] \in Row(ids)
      <4>1. Row(DOMAIN job) \subseteq Row(ids)
        BY DEF Row
      <4> QED
        BY <4>1, <1>10 DEF IInv, RowsOK
    <3>2. \A i \in new : job'[i] \in Row(ids)
      BY <1>6, <1>8, <1>10
    <3>3. job' = [i \in ids |-> job'[i]] /\ DOMAIN job' = ids
      BY <1>3
    <3> QED
      BY <3>1, <3>2, <3>3
  <2>3. ASSUME NEW i \in Created
        PROVE  /\ i.list \in 1..Len(lists')
               /\ \E j \in Origin(i.list)'.jobs : j.name = i.path
               /\ Rows(Origin(i.list)') \subseteq DOMAIN job'
               /\ job'[i].deps = RowOf(Origin(i.list)', i).deps
               /\ job'[i].wait = RowOf(Origin(i.list)', i).wait
    <3>1. i \in DOMAIN job
      BY DEF Created
    <3> QED
      BY <3>1, <1>5, <1>7, <1>9, <1>10 DEF IInv, RowsOK
  <2>4. ASSUME NEW i \in N
        PROVE  /\ i.list \in 1..Len(lists')
               /\ \E j \in Origin(i.list)'.jobs : j.name = i.path
               /\ Rows(Origin(i.list)') \subseteq DOMAIN job'
               /\ job'[i].deps = RowOf(Origin(i.list)', i).deps
               /\ job'[i].wait = RowOf(Origin(i.list)', i).wait
    <3>1. i.list = l /\ \E j \in Origin(l).jobs : j.name = i.path
      BY <1>6, <1>8
    <3>2. Rows(Origin(l)) \subseteq DOMAIN job'
      BY <1>8, <1>9 DEF new
    <3> QED
      BY <3>1, <3>2, <1>1, <1>5, <1>7, <1>10
  <2> QED
    BY <2>1, <2>2, <2>3, <2>4, <1>9 DEF RowsOK
<1>13. \A r \in request : r.creator \in DOMAIN job
  BY DEF IInv, RequestsOK, ListsOK, Origin
<1>14. RequestsOK'
  <2>1. ASSUME NEW r \in request', r.awaited
        PROVE  runner'[r.creator] = "creating"
    <3>1. r \in request /\ r # q /\ r.creator \in DOMAIN job
      BY <1>5, <1>13
    <3>2. ~(r.creator = q.creator /\ q.awaited)
      BY <2>1, <3>1 DEF IInv, RequestsOK
    <3>3. runner'[r.creator] = runner[r.creator]
      BY <3>1, <3>2, <1>4
    <3> QED
      BY <2>1, <3>1, <3>3 DEF IInv, RequestsOK
  <2>2. ASSUME NEW r \in request'
        PROVE  \A i \in Created' : i.list # r.list
    <3>1. r \in request /\ r # q
      BY <1>5
    <3>2. r.list # l
      BY <3>1, <1>0 DEF IInv, RequestsOK
    <3>3. \A i \in Created : i.list # r.list
      BY <3>1 DEF IInv, RequestsOK
    <3> QED
      BY <3>2, <3>3, <1>6, <1>8, <1>9
  <2>3. ASSUME NEW r \in request'
        PROVE  /\ r \in [creator : Id, jobs : SUBSET Listed, list : 1..Len(lists'), awaited : BOOLEAN]
               /\ r.creator = Origin(r.list)'.creator /\ r.jobs = Origin(r.list)'.jobs
               /\ \A x \in request' : x.list = r.list => x = r
               /\ \A x \in request' : x.awaited /\ r.awaited /\ x.creator = r.creator => x = r
    BY <1>5, <1>7 DEF IInv, RequestsOK
  <2> QED
    BY <2>1, <2>2, <2>3 DEF RequestsOK
<1>15. RunnersOK'
  <2>1. ASSUME NEW i \in DOMAIN job
        PROVE  /\ runner'[i] \in {"off", "body", "creating", "output"}
               /\ runner'[i] # "off" <=> job'[i].state = "running"
    <3>1. CASE i = q.creator /\ q.awaited
      <4>1. runner'[i] = "output" /\ runner[i] = "creating"
        BY <3>1, <1>1, <1>4
      <4> QED
        BY <4>1, <1>10 DEF IInv, RunnersOK
    <3>2. CASE ~(i = q.creator /\ q.awaited)
      <4>1. runner'[i] = runner[i]
        BY <3>2, <1>4
      <4> QED
        BY <4>1, <1>10 DEF IInv, RunnersOK
    <3> QED
      BY <3>1, <3>2
  <2>2. ASSUME NEW i \in N
        PROVE  runner'[i] = "off" /\ job'[i].state = "queued"
    <3>1. i \notin DOMAIN job /\ i \in ids /\ job'[i].state = "queued"
      BY <1>6, <1>8, <1>10
    <3>2. ~(i = q.creator /\ q.awaited)
      BY <3>1, <1>13
    <3> QED
      BY <3>1, <3>2, <1>4
  <2>3. runner' = [i \in DOMAIN job \cup N |-> runner'[i]]
    BY <1>4, <1>8
  <2> QED
    BY <2>1, <2>2, <2>3, <1>9 DEF RunnersOK
<1>16. Waited'
  <2>1. ASSUME NEW i \in DOMAIN job, ParentsEnded(i)
        PROVE  ParentsEnded(i)'
    <3>1. \A d \in job[i].deps : d.job \in DOMAIN job
      BY DEF IInv, RowsOK, Row
    <3> QED
      BY <2>1, <3>1, <1>10 DEF ParentsEnded
  <2>2. \A i \in N : job'[i].state = "queued"
    BY <1>6, <1>8, <1>10
  <2> QED
    BY <2>1, <2>2, <1>9, <1>10 DEF IInv, Waited
<1> QED
  BY <1>5, <1>11, <1>12, <1>14, <1>15, <1>16 DEF IInv, RestOK

LEMMA RejectOK ==
    ASSUME IInv, NEW q \in request, RejectJobs(q)
    PROVE  IInv'
<1>1. /\ request' = request \ {q} /\ UNCHANGED <<document, lists>>
      /\ faults' \in {faults, faults + 1} /\ faults' <= MaxFaults
  BY DEF RejectJobs
<1>2. RestOK'
  BY <1>1, BoundsAssumption DEF IInv, RestOK
<1>3. CASE q.awaited
  <2>1. EndJob(q.creator, "failure")
    BY <1>3 DEF RejectJobs
  <2>2. q.creator \in DOMAIN job /\ runner[q.creator] # "off"
    BY <1>3 DEF IInv, RequestsOK, ListsOK, Origin
  <2>3. /\ ListsOK' /\ RowsOK' /\ RunnersOK' /\ Waited' /\ DOMAIN job' = DOMAIN job
        /\ runner' = [runner EXCEPT ![q.creator] = "off"]
    BY <1>1, <2>1, <2>2, EndOK
  <2>4. RequestsOK'
    BY <1>1, <1>3, <2>3, RequestDropped DEF IInv
  <2> QED
    BY <1>2, <2>3, <2>4 DEF IInv
<1>4. CASE ~q.awaited
  <2>1. UNCHANGED <<job, runner>>
    BY <1>4 DEF RejectJobs
  <2>2. RequestsOK'
    BY <1>1, <2>1, RequestDropped DEF IInv
  <2>3. ListsOK' /\ RowsOK'
    BY <1>1, <2>1, RowsKept DEF IInv, RowsOK
  <2>4. RunnersOK' /\ Waited'
    BY <2>1 DEF IInv, RunnersOK, Waited, ParentsEnded
  <2> QED
    BY <1>2, <2>2, <2>3, <2>4 DEF IInv
<1> QED
  BY <1>3, <1>4

LEMMA NextOK == IInv /\ [Next]_vars => IInv'
<1> SUFFICES ASSUME IInv, [Next]_vars
             PROVE  IInv'
  OBVIOUS
<1>1. ASSUME NEW i \in DOMAIN job,
             \/ SchedulerNext(i) \/ KillJob(i)
             \/ RunnerNext(i) \/ CreationTimesOut(i) \/ RestartContainer(i)
      PROVE  IInv'
  BY <1>1, SchedulerOK, KillOK, RunnerOK, TimeoutOK, RestartOK
<1>2. ASSUME NEW q \in request, CommitJobs(q) \/ RejectJobs(q)
      PROVE  IInv'
  BY <1>2, CommitOK, RejectOK
<1>3. CASE UNCHANGED vars
  <2>1. UNCHANGED <<job, runner, request, document, lists, faults>>
    BY <1>3 DEF vars
  <2>2. ListsOK' /\ RowsOK'
    BY <2>1, RowsKept DEF IInv, RowsOK
  <2>3. RequestsOK'
    BY <2>1 DEF IInv, RequestsOK, Origin, Created
  <2>4. RunnersOK' /\ Waited' /\ RestOK'
    BY <2>1 DEF IInv, RunnersOK, Waited, ParentsEnded, RestOK
  <2> QED
    BY <2>2, <2>3, <2>4 DEF IInv
<1> QED
  BY <1>1, <1>2, <1>3 DEF Next

THEOREM Invariant == Spec => []IInv
<1>1. Init => IInv
  BY InitOK
<1>2. IInv /\ [Next]_vars => IInv'
  BY NextOK
<1> QED
  BY <1>1, <1>2, PTL DEF Spec

-----------------------------------------------------------------------------
(* The properties.                                                         *)

\* The types of the job table, the runners and the requests; a dependency
\* always names a job that there is.
THEOREM TypeCorrect == Spec => []TypeOK
<1>1. IInv => TypeOK
  <2> SUFFICES ASSUME IInv
               PROVE  TypeOK
    OBVIOUS
  <2>1. DOMAIN job \subseteq Id
    BY DEF IInv, RowsOK
  <2>2. ASSUME NEW i \in DOMAIN job
        PROVE  /\ job[i].state \in Ended \union {"queued", "running"}
               /\ job[i].wait \in BOOLEAN
               /\ i.list \in 0..Len(lists)
               /\ \A d \in job[i].deps : d.job \in DOMAIN job /\ d.on \subseteq Ended
    <3>1. job[i] \in Row(DOMAIN job)
      BY DEF IInv, RowsOK
    <3>2. Len(lists) \in Nat
      BY DEF IInv, ListsOK
    <3>3. i.list \in 0..Len(lists)
      <4>1. CASE i = CreateJobs
        BY <4>1, <3>2 DEF CreateJobs
      <4>2. CASE i # CreateJobs
        BY <4>2, <3>2 DEF IInv, RowsOK, Created
      <4> QED
        BY <4>1, <4>2
    <3> QED
      BY <3>1, <3>3 DEF Row, State
  <2>3. /\ runner \in [DOMAIN job -> {"off", "body", "creating", "output"}]
        /\ \A i \in DOMAIN job : runner[i] # "off" <=> job[i].state = "running"
    BY DEF IInv, RunnersOK
  <2>4. \A q \in request : q.awaited => runner[q.creator] = "creating"
    BY DEF IInv, RequestsOK
  <2> QED
    BY <2>1, <2>2, <2>3, <2>4 DEF TypeOK, IInv, RestOK
<1> QED
  BY <1>1, Invariant, PTL

\* The paths of the jobs of a list that have ended.
EndedPaths(l) ==
    {p \in Path : [list |-> l, path |-> p] \in DOMAIN job /\ job[[list |-> l, path |-> p]].state \in Ended}

\* Only a killed job of a list has not waited for what it waits for, and that
\* tears the list.
LEMMA NotTorn ==
    ASSUME IInv, NEW i \in Created, ~Torn(i.list), job[i].state # "queued"
    PROVE  ParentsEnded(i)
  BY DEF IInv, Waited, Torn, Created

\* The row of a job of the list, and what it waits for.
LEMMA RowOfJob ==
    ASSUME IInv, NEW i \in Created
    PROVE  LET l == i.list IN
           /\ l \in 1..Len(lists)
           /\ \E j \in Origin(l).jobs : j.name = i.path
           /\ \A j \in Origin(l).jobs :
                 LET k == [list |-> l, path |-> j.name] IN
                 /\ k \in Created /\ k.list = l /\ k.path = j.name /\ j.name \in Path
                 /\ j.name = i.path => k = i
                 /\ job[k].wait = j.wait
                 /\ ParentsEnded(k) => Parents(j) \subseteq EndedPaths(l)
                 /\ ParentsEnded(k) /\ j.deps = {} => job[CreatorOf(i)].state \in Ended
<1> DEFINE l == i.list
<1>1. /\ l \in 1..Len(lists) /\ \E j \in Origin(l).jobs : j.name = i.path
      /\ Rows(Origin(l)) \subseteq DOMAIN job /\ i \in Id
  BY DEF IInv, RowsOK, Created
<1>2. /\ Origin(l).list = l /\ Origin(l).creator = CreatorOf(i)
  BY <1>1, RowFacts DEF IInv, CreatorOf
<1>3. ASSUME NEW j \in Origin(l).jobs
      PROVE  LET k == [list |-> l, path |-> j.name] IN
             /\ k \in Created /\ k.list = l /\ k.path = j.name /\ j.name \in Path
             /\ j.name = i.path => k = i
             /\ job[k].wait = j.wait
             /\ ParentsEnded(k) => Parents(j) \subseteq EndedPaths(l)
             /\ ParentsEnded(k) /\ j.deps = {} => job[CreatorOf(i)].state \in Ended
  <2> DEFINE k == [list |-> l, path |-> j.name]
  <2>1. /\ j \in Listed /\ j.name \in Path /\ k \in Rows(Origin(l)) /\ k # CreateJobs
        /\ RowOf(Origin(l), k) = [deps |-> RowDeps(Origin(l), j), wait |-> j.wait, state |-> "queued"]
    BY <1>1, RowFacts DEF IInv
  <2>2. k \in Created /\ k.list = l /\ k.path = j.name
    BY <1>1, <2>1 DEF Created
  <2>3. j.name = i.path => k = i
    BY <1>1 DEF Id
  <2>4. job[k].deps = RowDeps(Origin(l), j) /\ job[k].wait = j.wait
    BY <2>1, <2>2 DEF IInv, RowsOK
  <2>5. ASSUME ParentsEnded(k)
        PROVE  Parents(j) \subseteq EndedPaths(l)
    <3> SUFFICES ASSUME NEW d \in j.deps
                 PROVE  d.job \in EndedPaths(l)
      BY DEF Parents
    <3> DEFINE x == [job |-> [list |-> l, path |-> d.job], on |-> d.on]
    <3>1. job[k].deps = {[job |-> [list |-> l, path |-> e.job], on |-> e.on] : e \in j.deps}
      BY <2>4, <1>2 DEF RowDeps
    <3>2. x \in job[k].deps
      BY <3>1
    <3>3. x.job \in DOMAIN job
      BY <2>2, <3>2 DEF IInv, RowsOK, Row, Created
    <3>4. job[x.job].state \in Ended
      BY <2>5, <3>2 DEF ParentsEnded
    <3>5. d.job \in Path
      BY <2>1 DEF Listed, Link
    <3> QED
      BY <3>3, <3>4, <3>5 DEF EndedPaths
  <2>6. ASSUME ParentsEnded(k), j.deps = {}
        PROVE  job[CreatorOf(i)].state \in Ended
    <3>1. job[k].deps = {[job |-> CreatorOf(i), on |-> {"finished"}]}
      BY <2>4, <2>6, <1>2 DEF RowDeps
    <3>2. [job |-> CreatorOf(i), on |-> {"finished"}] \in job[k].deps
      BY <3>1
    <3> QED
      BY <2>6, <3>2 DEF ParentsEnded
  <2> QED
    BY <2>1, <2>2, <2>3, <2>4, <2>5, <2>6
<1> QED
  BY <1>1, <1>3

LEMMA EndedAreClosed ==
    ASSUME IInv, NEW i \in Created, ~Torn(i.list)
    PROVE  Closed(JobList[lists[i.list].doc], EndedPaths(i.list))
<1> DEFINE l == i.list
<1> SUFFICES ASSUME NEW j \in JobList[lists[l].doc], j.name \in EndedPaths(l)
             PROVE  Parents(j) \subseteq EndedPaths(l)
  BY DEF Closed
<1> DEFINE k == [list |-> l, path |-> j.name]
<1>1. j \in Origin(l).jobs
  BY DEF Origin
<1>2. k \in Created /\ k.list = l /\ (ParentsEnded(k) => Parents(j) \subseteq EndedPaths(l))
  BY <1>1, RowOfJob
<1>3. job[k].state # "queued"
  BY DEF EndedPaths, Ended
<1> QED
  BY <1>2, <1>3, NotTorn

\* A job that runs, or has run, has waited.
LEMMA HasWaited ==
    ASSUME IInv, NEW k \in Created, job[k].state \in HasRun
    PROVE  \E j \in JobList[lists[k.list].doc] :
              /\ j.name = k.path /\ j.wait = job[k].wait
              /\ Parents(j) \subseteq EndedPaths(k.list)
<1>1. ParentsEnded(k)
  BY DEF IInv, Waited, HasRun, Created
<1>2. PICK j \in Origin(k.list).jobs : j.name = k.path
  BY RowOfJob
<1>3. j.wait = job[k].wait /\ Parents(j) \subseteq EndedPaths(k.list)
  <2> DEFINE x == [list |-> k.list, path |-> j.name]
  <2>1. x = k
    BY <1>2, RowOfJob
  <2>2. job[x].wait = j.wait /\ (ParentsEnded(x) => Parents(j) \subseteq EndedPaths(k.list))
    BY RowOfJob
  <2> HIDE DEF x
  <2> QED
    BY <1>1, <2>1, <2>2
<1> QED
  BY <1>2, <1>3 DEF Origin

LEMMA ListIsGood ==
    ASSUME IInv, NEW i \in Created
    PROVE  /\ Good(lists[i.list].doc)
           /\ \E j \in JobList[lists[i.list].doc] : j.name = i.path
           /\ EndedPaths(i.list) \in SUBSET Path
           /\ i = [list |-> i.list, path |-> i.path]
<1>1. i.list \in 1..Len(lists) /\ \E j \in Origin(i.list).jobs : j.name = i.path
  BY RowOfJob
<1>2. i = [list |-> i.list, path |-> i.path]
  BY DEF IInv, RowsOK, Created, Id
<1> QED
  BY <1>1, <1>2, RowFacts DEF IInv, Origin, EndedPaths

\* DocumentOrder: whatever the documents are and however deep their
\* workflows, no job runs before one that stands before it has ended, as long
\* as no job of the list is killed before its time.
THEOREM OrderSurvives == Spec => []DocumentOrder
<1>1. IInv => DocumentOrder
  <2> SUFFICES ASSUME IInv, NEW i \in Created, NEW k \in Created,
                      SameList(i, k), job[k].state \in HasRun,
                      Before[lists[i.list].doc][i.path][k.path], ~Torn(i.list)
               PROVE  job[i].state \in Ended
    BY DEF DocumentOrder
  <2> DEFINE doc == lists[i.list].doc
             T == EndedPaths(i.list)
  <2>1. i.list = k.list
    BY DEF SameList
  <2>2. /\ Ordered(JobList[doc], Before[doc]) /\ T \in SUBSET Path
        /\ i = [list |-> i.list, path |-> i.path]
    BY ListIsGood DEF Good
  <2>3. Closed(JobList[doc], T)
    BY EndedAreClosed
  <2>4. PICK j \in JobList[doc] : j.name = i.path
    BY ListIsGood
  <2>5. PICK x \in JobList[doc] : x.name = k.path /\ Parents(x) \subseteq T
    BY <2>1, HasWaited
  <2>6. i.path \in T
    <3> HIDE DEF doc, T
    <3>1. Before[doc][j.name][x.name]
      BY <2>4, <2>5 DEF doc
    <3> QED
      BY <3>1, <2>2, <2>3, <2>4, <2>5 DEF Ordered
  <2> QED
    BY <2>2, <2>6 DEF EndedPaths
<1> QED
  BY <1>1, Invariant, PTL

\* WorkflowEnds: the final job of a workflow, at any depth, finishes only
\* after all of its jobs, as long as none of the list is killed before its time.
THEOREM FinalJobIsLast == Spec => []WorkflowEnds
<1>1. IInv => WorkflowEnds
  <2> SUFFICES ASSUME IInv, NEW i \in Created, NEW k \in Created,
                      SameList(i, k), job[k].wait, job[k].state = "finished",
                      IsStrictPrefix(k.path, i.path), ~Torn(i.list)
               PROVE  job[i].state \in Ended
    BY DEF WorkflowEnds
  <2> DEFINE list == JobList[lists[i.list].doc]
             T == EndedPaths(i.list)
  <2>1. i.list = k.list /\ job[k].state \in HasRun
    BY DEF SameList, HasRun
  <2>2. Bounded(list) /\ T \in SUBSET Path /\ i = [list |-> i.list, path |-> i.path]
    BY ListIsGood DEF Good
  <2>3. Closed(list, T)
    BY EndedAreClosed
  <2>4. PICK j \in list : j.name = i.path
    BY ListIsGood
  <2>5. PICK x \in list : x.name = k.path /\ x.wait /\ Parents(x) \subseteq T
    BY <2>1, HasWaited
  <2>6. i.path \in T
    <3> HIDE DEF list, T
    <3> QED
      BY <2>2, <2>3, <2>4, <2>5 DEF Bounded
  <2> QED
    BY <2>2, <2>6 DEF EndedPaths
<1> QED
  BY <1>1, Invariant, PTL

\* StartsAfterCreator: a job that runs can be followed, along what it waits
\* for, to one that waits for the creator of the list; there is no cycle that
\* would not lead there.
THEOREM CreatorHasEnded == Spec => []StartsAfterCreator
<1>1. IInv => StartsAfterCreator
  <2> SUFFICES ASSUME IInv, NEW i \in Created, job[i].state \in HasRun, ~Torn(i.list)
               PROVE  job[CreatorOf(i)].state \in Ended
    BY DEF StartsAfterCreator
  <2> DEFINE l == i.list
             list == JobList[lists[l].doc]
             row(j) == [list |-> l, path |-> j.name]
             X == {j \in list : job[row(j)].state # "queued"}
  <2>1. Founded(list) /\ Whole(list) /\ list = Origin(l).jobs
    BY ListIsGood DEF Good, Origin
  <2>2. PICK x \in list : x.name = i.path
    BY ListIsGood
  <2>3. row(x) = i /\ job[i].state # "queued"
    BY <2>1, <2>2, RowOfJob DEF HasRun
  <2>4. PICK j \in X : \A k \in X : k.name \notin Parents(j)
    <3>1. X \in SUBSET list /\ X # {}
      BY <2>2, <2>3
    <3> HIDE DEF X, list
    <3> QED
      BY <3>1, <2>1 DEF Founded
  <2>5. /\ row(j) \in Created /\ row(j).list = l
        /\ ParentsEnded(row(j)) => Parents(j) \subseteq EndedPaths(l)
        /\ ParentsEnded(row(j)) /\ j.deps = {} => job[CreatorOf(i)].state \in Ended
    BY <2>1, <2>4, RowOfJob
  <2>6. ParentsEnded(row(j))
    BY <2>4, <2>5, NotTorn
  <2>7. j.deps = {}
    <3> SUFFICES ASSUME NEW d \in j.deps
                 PROVE  FALSE
      OBVIOUS
    <3>1. d.job \in Parents(j)
      BY DEF Parents
    <3>2. PICK k \in list : k.name = d.job
      BY <3>1, <2>1, <2>4 DEF Whole
    <3>3. job[row(k)].state \in Ended
      BY <2>5, <2>6, <3>1, <3>2 DEF EndedPaths
    <3>4. k \in X
      BY <3>2, <3>3 DEF Ended
    <3> QED
      BY <3>1, <3>2, <3>4, <2>4
  <2> QED
    BY <2>5, <2>6, <2>7
<1> QED
  BY <1>1, Invariant, PTL

\* The API finds every dependency of a list it is sent: no list of a valid
\* document is refused for an unknown job, and no row depends on none.
THEOREM NamesAreFound == Spec => [](\A q \in request : Resolved(q))
<1>1. IInv => \A q \in request : Resolved(q)
  <2> SUFFICES ASSUME IInv, NEW q \in request
               PROVE  Resolved(q)
    OBVIOUS
  <2>1. q.list \in 1..Len(lists) /\ q.jobs = Origin(q.list).jobs
    BY DEF IInv, RequestsOK
  <2>2. Whole(q.jobs)
    BY <2>1, RowFacts DEF IInv, Good
  <2> QED
    BY <2>2 DEF Whole, Resolved, Parents
<1> QED
  BY <1>1, Invariant, PTL
=============================================================================
