--------------------------- MODULE DepthRecursion ---------------------------
(***************************************************************************)
(* Recursive functions on data that have a depth, such as a document with   *)
(* the documents of its workflows: a definition f[d \in Data] == Body(f, d) *)
(* that looks at f only below d has a solution, so that f[d] is Body(f, d). *)
(***************************************************************************)
EXTENDS Naturals, WellFoundedInduction, TLAPS

CONSTANTS Data, Depth, Body(_, _)

\* What f says of d follows from what it says of the data less deep than d.
Local ==
    \A f, g : \A d \in Data :
        (\A e \in Data : Depth[e] < Depth[d] => f[e] = g[e]) => Body(f, d) = Body(g, d)

\* A set of numbers that is not empty has a least one.
LEMMA Least ==
    ASSUME NEW T \in SUBSET Nat, T # {}
    PROVE  \E x \in T : \A y \in T : x <= y
<1>1. IsWellFoundedOn(OpToRel(<, Nat), Nat)
  BY NatLessThanWellFounded
<1>2. PICK x \in T : \A y \in T : ~(<<y, x>> \in OpToRel(<, Nat))
  BY <1>1, WFMin
<1>3. \A y \in T : ~(y < x)
  BY <1>2 DEF OpToRel
<1>4. \A y \in T : x \in Nat /\ y \in Nat
  OBVIOUS
<1> QED
  BY <1>3, <1>4

\* A set of data that is not empty has a member that is the least deep one.
LEMMA Shallowest ==
    ASSUME Depth \in [Data -> Nat], NEW T \in SUBSET Data, T # {}
    PROVE  \E d \in T : \A e \in T : Depth[d] <= Depth[e]
<1> DEFINE D == {Depth[e] : e \in T}
<1>1. D \in SUBSET Nat /\ D # {}
  OBVIOUS
<1>2. PICK n \in D : \A m \in D : n <= m
  BY <1>1, Least
<1> QED
  BY <1>2

Below(n) == {d \in Data : Depth[d] < n}
Fits(f, n) == f = [d \in Below(n) |-> Body(f, d)]

LEMMA FitsUnique ==
    ASSUME Depth \in [Data -> Nat], Local,
           NEW m \in Nat, NEW n \in Nat, NEW f, NEW g, Fits(f, m), Fits(g, n)
    PROVE  \A d \in Below(m) \cap Below(n) : f[d] = g[d]
<1> SUFFICES ASSUME NEW x \in Below(m) \cap Below(n), f[x] # g[x]
             PROVE  FALSE
  OBVIOUS
<1> DEFINE T == {d \in Below(m) \cap Below(n) : f[d] # g[d]}
<1>1. PICK d \in T : \A e \in T : Depth[d] <= Depth[e]
  <2>1. T \in SUBSET Data /\ T # {}
    BY DEF Below
  <2> QED
    BY <2>1, Shallowest
<1>2. ASSUME NEW e \in Data, Depth[e] < Depth[d]
      PROVE  f[e] = g[e]
  <2>1. d \in Data /\ Depth[d] < m /\ Depth[d] < n
    BY <1>1 DEF Below
  <2>2. e \in Below(m) \cap Below(n)
    BY <2>1, <1>2 DEF Below
  <2>3. ~(Depth[d] <= Depth[e])
    BY <2>1, <1>2
  <2> QED
    BY <1>1, <2>2, <2>3
<1>3. Body(f, d) = Body(g, d)
  BY <1>1, <1>2 DEF Local, Below
<1>4. f[d] = Body(f, d) /\ g[d] = Body(g, d)
  <2>1. d \in Below(m) /\ d \in Below(n)
    BY <1>1
  <2> QED
    BY <2>1 DEF Fits
<1> QED
  BY <1>1, <1>3, <1>4

LEMMA FitsExists ==
    ASSUME Depth \in [Data -> Nat], Local
    PROVE  \A n \in Nat : \E f : Fits(f, n)
<1> SUFFICES ASSUME NEW x \in Nat, ~\E f : Fits(f, x)
             PROVE  FALSE
  OBVIOUS
<1> DEFINE T == {n \in Nat : ~\E f : Fits(f, n)}
<1>1. PICK n \in T : \A m \in T : n <= m
  BY Least
<1>2. CASE n = 0
  <2> DEFINE f == [d \in Below(n) |-> {}]
  <2>1. Below(n) = {}
    BY <1>2 DEF Below
  <2>2. Fits(f, n)
    BY <2>1 DEF Fits
  <2> QED
    BY <1>1, <2>2
<1>3. CASE n # 0
  <2>1. n - 1 \in Nat /\ ~(n <= n - 1)
    BY <1>3
  <2>2. PICK f : Fits(f, n - 1)
    BY <1>1, <2>1
  <2> DEFINE g == [d \in Below(n) |-> Body(f, d)]
  <2>3. ASSUME NEW d \in Below(n)
        PROVE  Body(g, d) = Body(f, d)
    <3>1. ASSUME NEW e \in Data, Depth[e] < Depth[d]
          PROVE  g[e] = f[e]
      <4>1. d \in Data /\ Depth[d] < n
        BY DEF Below
      <4>2. e \in Below(n - 1) /\ e \in Below(n)
        BY <3>1, <4>1, <1>1 DEF Below
      <4>3. g[e] = Body(f, e)
        BY <4>2
      <4>4. f[e] = Body(f, e)
        BY <4>2, <2>2 DEF Fits
      <4> QED
        BY <4>3, <4>4
    <3>2. d \in Data
      BY DEF Below
    <3> HIDE DEF g
    <3> QED
      BY <3>1, <3>2 DEF Local
  <2>4. Fits(g, n)
    BY <2>3 DEF Fits
  <2> QED
    BY <1>1, <2>4
<1> QED
  BY <1>2, <1>3

\* The function that f[d \in Data] == Body(f, d) defines takes the value of
\* its body.
THEOREM Recursion ==
    ASSUME Depth \in [Data -> Nat], Local
    PROVE  LET f == CHOOSE f : f = [d \in Data |-> Body(f, d)]
           IN  f = [d \in Data |-> Body(f, d)]
<1> DEFINE P(n) == CHOOSE f : Fits(f, n)
           F == [d \in Data |-> P(Depth[d] + 1)[d]]
<1>1. \A n \in Nat : Fits(P(n), n)
  BY FitsExists
<1>2. ASSUME NEW d \in Data
      PROVE  F[d] = Body(F, d)
  <2> DEFINE n == Depth[d] + 1
  <2>1. n \in Nat /\ d \in Below(n)
    BY DEF Below
  <2>2. P(n)[d] = Body(P(n), d)
    BY <1>1, <2>1 DEF Fits
  <2>3. ASSUME NEW e \in Data, Depth[e] < Depth[d]
        PROVE  F[e] = P(n)[e]
    <3> DEFINE m == Depth[e] + 1
    <3>1. m \in Nat /\ e \in Below(m) \cap Below(n)
      BY <2>3 DEF Below
    <3>2. Fits(P(m), m) /\ Fits(P(n), n)
      BY <1>1, <3>1, <2>1
    <3>3. P(m)[e] = P(n)[e]
      <4> HIDE DEF P, m, n
      <4> QED
        BY <3>1, <3>2, <2>1, FitsUnique
    <3> QED
      BY <3>3
  <2>4. Body(F, d) = Body(P(n), d)
    <3> HIDE DEF F, P, n
    <3> QED
      BY <2>3 DEF Local
  <2>5. F[d] = P(n)[d]
    OBVIOUS
  <2> QED
    BY <2>2, <2>4, <2>5
<1>3. F = [d \in Data |-> Body(F, d)]
  <2>1. F = [d \in Data |-> F[d]]
    OBVIOUS
  <2> HIDE DEF F
  <2> QED
    BY <1>2, <2>1
<1> HIDE DEF F
<1> QED
  BY <1>3
=============================================================================
