---------------------------- MODULE ConsoleProofs ----------------------------
(* The log of a job is its output, for any limits and number of lines,      *)
(* executions, faults and endings.                                          *)
EXTENDS Console, FiniteSetTheorems, TLAPS

(***************************************************************************)
(* The inductive invariant: types, and what the clock of the database and  *)
(* the counters of the runner say of the pieces that are on their way.     *)
(***************************************************************************)

RequestType == [piece : Piece, date : Nat]

TypeInv ==
    /\ state \in ActiveState \cup Result \cup {"killed", "error"}
    /\ log \in Seq(Piece)
    /\ rows \subseteq RequestType /\ IsFiniteSet(rows) /\ Cardinality(rows) <= MaxUpdates + 1
    /\ date \in Nat
    /\ requests \subseteq RequestType
    /\ execution \in 0..MaxExecutions
    /\ phase \in {"none", "start", "body", "header", "report", "gathered"}
    /\ phase # "none" => execution > 0
    /\ result \in Result
    /\ written \in 0..MaxLines + 1 /\ sent \in 0..written
    /\ phase = "start" => written = 0
    /\ phase = "body" => written <= MaxLines
    /\ posting \in BOOLEAN
    /\ gathered \in Seq(Piece)
    /\ ending \in [kind : {"none", "abort", "timeout"}, read : BOOLEAN, log : Seq(Piece)]
    /\ due \in 0..written
    /\ trouble \in BOOLEAN

InFlight == requests \cup rows

Apart(p, q) == p.execution = q.execution => p.last < q.first \/ q.last < p.first

\* The clock of the database numbers the requests it has authorised.
DatesInv ==
    /\ \A r \in InFlight : r.date <= date
    /\ \A r \in rows : r.date > 0
    /\ \A r, s \in InFlight : r.date = s.date /\ r.date > 0 => r = s

\* No line is sent twice.
PiecesInv ==
    /\ \A r \in InFlight : /\ r.piece.first <= r.piece.last
                           /\ r.piece.execution <= execution
                           /\ r.piece.execution = execution => r.piece.last <= sent
    /\ \A r, s \in InFlight : r # s => Apart(r.piece, s.piece)

LogsInv == LinesOnce(log) /\ LinesOnce(gathered) /\ LinesOnce(ending.log)

(***************************************************************************)
(* The rows, as long as there was no trouble.                              *)
(***************************************************************************)

\* The rows are the first lines of one execution.
RowsInv ==
    /\ \A r, s \in rows : /\ r.piece.execution = s.piece.execution
                          /\ r.date < s.date => r.piece.last < s.piece.first
    /\ \A r \in rows : r.piece.first = 1 \/ \E s \in rows : s.piece.last + 1 = r.piece.first

\* They reach line n, unless they are too much.
Reach(n) ==
    /\ \A r \in rows : r.piece.last <= n
    /\ \/ TooMuch
       \/ n = 0 /\ rows = {}
       \/ \E r \in rows : r.piece.last = n

\* The request that is on its way, if any, comes next.
NextInv ==
    /\ \A q, r \in requests : q = r
    /\ \A q \in requests : /\ Reach(q.piece.first - 1)
                           /\ \A r \in rows : /\ r.piece.execution = q.piece.execution
                                              /\ q.date > 0 => r.date < q.date

Live == phase \in {"body", "header", "report"}

RunnerInv ==
    /\ posting => phase \in {"body", "header"} /\ requests # {}
    /\ phase \in {"report", "gathered"} => requests = {}
    /\ Live =>
          /\ \A r \in InFlight : r.piece.execution = execution
          /\ \A q \in requests : q.piece.last = sent /\ posting
          /\ requests = {} => Reach(sent)
    /\ phase = "report" => sent >= due
    /\ phase = "gathered" => Whole(gathered)

EndedInv ==
    /\ state \in Result => /\ phase = "none" /\ requests = {} /\ rows = {}
                           /\ Whole(log)
    /\ Contiguous(log) /\ Contiguous(gathered) /\ Contiguous(ending.log)

LogInv ==
    /\ TypeInv /\ DatesInv /\ PiecesInv /\ LogsInv
    /\ state \in Result => phase = "none"
    /\ ~trouble => RowsInv /\ NextInv /\ RunnerInv /\ EndedInv

(***************************************************************************)
(* Gathering: the rows in the order of their dates.                        *)
(***************************************************************************)

LEMMA PieceType ==
    ASSUME NEW r \in RequestType
    PROVE  /\ r.piece \in Piece /\ r.date \in Nat
           /\ r.piece.execution \in Nat /\ r.piece.first \in Nat /\ r.piece.last \in Nat
           /\ r.piece.execution > 0 /\ r.piece.first > 0 /\ r.piece.last > 0
BY ConsoleAssumption DEF RequestType, Piece

LEMMA PlaceType ==
    ASSUME TypeInv, NEW r \in rows
    PROVE  Place(r) \in 1..Cardinality(rows)
<1> DEFINE S == {s \in rows : s.date <= r.date}
<1>1. r \in S
  BY PieceType DEF TypeInv
<1>2. IsFiniteSet(S) /\ Cardinality(S) <= Cardinality(rows) /\ IsFiniteSet(rows)
  BY FS_Subset DEF TypeInv
<1>3. Cardinality(S) \in Nat /\ Cardinality(rows) \in Nat
  BY <1>2, FS_CardinalityType
<1>4. Cardinality(S) # 0
  BY <1>1, <1>2, FS_EmptySet
<1> HIDE DEF S
<1>5. Cardinality(S) \in 1..Cardinality(rows)
  BY <1>2, <1>3, <1>4
<1> QED
  BY <1>5 DEF S, Place

\* A later row has a later place.
LEMMA PlaceOrder ==
    ASSUME TypeInv, NEW r \in rows, NEW s \in rows, r.date < s.date
    PROVE  Place(r) < Place(s)
<1> DEFINE R == {t \in rows : t.date <= r.date}
           S == {t \in rows : t.date <= s.date}
<1>1. \A t \in rows : t.date \in Nat
  BY PieceType DEF TypeInv
<1>2. R \subseteq S /\ s \in S /\ s \notin R
  BY <1>1
<1>3. IsFiniteSet(S) /\ S \subseteq rows
  BY FS_Subset DEF TypeInv
<1> HIDE DEF R, S
<1>4. Cardinality(R) <= Cardinality(S) /\ Cardinality(R) # Cardinality(S) /\ IsFiniteSet(R)
  BY <1>2, <1>3, FS_Subset
<1>5. Cardinality(R) \in Nat /\ Cardinality(S) \in Nat
  BY <1>3, <1>4, FS_CardinalityType
<1>6. Cardinality(R) < Cardinality(S)
  BY <1>4, <1>5
<1> QED
  BY <1>6 DEF Place, R, S

\* Every place is taken.
LEMMA PlaceTaken ==
    ASSUME TypeInv, DatesInv, NEW i \in 1..Cardinality(rows)
    PROVE  \E r \in rows : Place(r) = i
<1> DEFINE n == Cardinality(rows)
           P == [r \in rows |-> Place(r)]
<1>1. P \in [rows -> 1..n]
  BY PlaceType
<1>2. ASSUME NEW r \in rows, NEW s \in rows, r # s PROVE P[r] # P[s]
  <2>1. r.date \in Nat /\ s.date \in Nat /\ r.date # s.date
    BY <1>2, PieceType DEF TypeInv, DatesInv, InFlight
  <2>2. Place(r) < Place(s) \/ Place(s) < Place(r)
    BY <2>1, PlaceOrder
  <2>3. Place(r) \in Nat /\ Place(s) \in Nat
    BY PlaceType
  <2> QED
    BY <2>2, <2>3
<1>3. P \in Injection(rows, 1..n)
  BY <1>1, <1>2 DEF Injection, IsInjective
<1>4. n \in Nat
  BY FS_CardinalityType DEF TypeInv
<1>5. IsFiniteSet(1..n) /\ Cardinality(1..n) = n
  BY <1>4, FS_Interval
<1>6. P \in Surjection(rows, 1..n)
  BY <1>3, <1>5, FS_Injection
<1> QED
  BY <1>6 DEF Surjection

Rank(i) == CHOOSE r \in rows : Place(r) = i

LEMMA GatherRows ==
    ASSUME TypeInv, DatesInv
    PROVE  /\ Gather \in Seq(Piece) /\ Len(Gather) = Cardinality(rows) /\ Cardinality(rows) \in Nat
           /\ DOMAIN Gather = 1..Cardinality(rows)
           /\ \A i \in 1..Cardinality(rows) : Rank(i) \in rows /\ Gather[i] = Rank(i).piece
           /\ \A i, j \in 1..Cardinality(rows) :
                 i < j => Rank(i).date < Rank(j).date /\ Rank(i) # Rank(j)
           /\ \A r \in rows : \E i \in 1..Cardinality(rows) : r = Rank(i)
<1> DEFINE n == Cardinality(rows)
<1>1. n \in Nat
  BY FS_CardinalityType DEF TypeInv
<1>2. \A i \in 1..n : Rank(i) \in rows /\ Place(Rank(i)) = i
  BY PlaceTaken DEF Rank
<1>3. Gather = [i \in 1..n |-> Rank(i).piece]
  BY DEF Gather, Rank
<1>4. \A i \in 1..n : Rank(i).piece \in Piece
  BY <1>2, PieceType DEF TypeInv
<1>5. Gather \in Seq(Piece) /\ Len(Gather) = n /\ DOMAIN Gather = 1..n
  BY <1>1, <1>3, <1>4
<1>6. ASSUME NEW i \in 1..n, NEW j \in 1..n, i < j
      PROVE  Rank(i).date < Rank(j).date /\ Rank(i) # Rank(j)
  <2>1. Rank(i) # Rank(j)
    BY <1>2, <1>6
  <2>2. Rank(i).date \in Nat /\ Rank(j).date \in Nat
    BY <1>2, PieceType DEF TypeInv
  <2>3. Rank(i).date # Rank(j).date
    BY <1>2, <2>1, <2>2 DEF DatesInv, InFlight
  <2>4. ~(Rank(j).date < Rank(i).date)
    BY <1>2, <1>6, PlaceOrder
  <2> QED
    BY <2>1, <2>2, <2>3, <2>4
<1>7. ASSUME NEW r \in rows PROVE \E i \in 1..n : r = Rank(i)
  <2>1. Place(r) \in 1..n
    BY PlaceType
  <2>2. Rank(Place(r)) \in rows /\ Place(Rank(Place(r))) = Place(r)
    BY <1>2, <2>1
  <2>3. Rank(Place(r)) = r
    <3> DEFINE s == Rank(Place(r))
    <3>1. s \in rows /\ Place(s) = Place(r) /\ s.date \in Nat /\ r.date \in Nat /\ Place(r) \in Nat
      BY <2>1, <2>2, PieceType DEF TypeInv
    <3> HIDE DEF s
    <3>2. ~(s.date < r.date) /\ ~(r.date < s.date)
      BY <3>1, PlaceOrder
    <3>3. s.date = r.date
      BY <3>1, <3>2
    <3> QED
      BY <3>1, <3>3 DEF DatesInv, InFlight, s
  <2> QED
    BY <2>1, <2>3
<1> QED
  BY <1>1, <1>2, <1>3, <1>5, <1>6, <1>7

LEMMA GatherOnce ==
    ASSUME TypeInv, DatesInv, PiecesInv
    PROVE  LinesOnce(Gather)
<1> SUFFICES ASSUME NEW i \in DOMAIN Gather, NEW j \in DOMAIN Gather, i < j,
                    Gather[i].execution = Gather[j].execution
             PROVE  Gather[i].last < Gather[j].first \/ Gather[j].last < Gather[i].first
  BY DEF LinesOnce
<1> QED
  BY GatherRows DEF PiecesInv, InFlight, Apart

\* The rows, as they are before there was any trouble, are a log.
LEMMA GatherContiguous ==
    ASSUME TypeInv, DatesInv, PiecesInv, RowsInv
    PROVE  Contiguous(Gather)
<1> SUFFICES ASSUME NEW i \in DOMAIN Gather
             PROVE  IF i = 1 THEN Gather[1].first = 1 ELSE Sequel(Gather[i - 1], Gather[i])
  BY DEF Contiguous
<1> DEFINE n == Cardinality(rows)
           a(k) == Rank(k).piece
<1>1. i \in 1..n /\ n \in Nat
  BY GatherRows
<1>2. \A k \in 1..n : /\ a(k).first \in Nat /\ a(k).last \in Nat /\ a(k).first <= a(k).last
                      /\ a(k).first > 0 /\ Gather[k] = a(k)
  BY GatherRows, PieceType DEF PiecesInv, InFlight, TypeInv
<1>3. \A j, k \in 1..n : j < k => a(j).last < a(k).first /\ a(j).execution = a(k).execution
  BY GatherRows DEF RowsInv
<1>4. \A k \in 1..n : a(k).first = 1 \/ \E j \in 1..n : a(j).last + 1 = a(k).first
  BY GatherRows DEF RowsInv
<1> HIDE DEF a
<1>5. ASSUME NEW j \in 1..n, a(j).last + 1 = a(i).first PROVE j < i
  <2>1. j # i
    BY <1>2, <1>5
  <2>2. ~(i < j)
    <3>1. /\ a(i).first \in Nat /\ a(i).last \in Nat /\ a(i).first <= a(i).last
          /\ a(j).first \in Nat /\ a(j).last \in Nat /\ a(j).first <= a(j).last
      BY <1>1, <1>2
    <3>2. i < j => a(i).last < a(j).first
      BY <1>1, <1>3
    <3> QED
      BY <1>5, <3>1, <3>2
  <2>3. i \in Nat /\ j \in Nat
    BY <1>1
  <2> QED
    BY <2>1, <2>2, <2>3
<1>6. CASE i = 1
  BY <1>1, <1>2, <1>4, <1>5, <1>6
<1>7. CASE i # 1
  <2>1. i - 1 \in 1..n /\ i - 1 < i
    BY <1>1, <1>7
  <2>2. a(i - 1).last < a(i).first /\ a(i - 1).execution = a(i).execution
    BY <1>1, <1>3, <2>1
  <2>8. /\ a(i).first \in Nat /\ a(i).last \in Nat
        /\ a(i - 1).first \in Nat /\ a(i - 1).last \in Nat /\ a(i - 1).first <= a(i - 1).last
        /\ a(i - 1).first > 0
    BY <1>1, <1>2, <2>1
  <2>3. a(i).first # 1
    BY <2>8, <2>2
  <2>4. PICK j \in 1..n : a(j).last + 1 = a(i).first
    BY <1>1, <1>4, <2>3
  <2>5. j < i
    BY <1>5, <2>4
  <2>6. j = i - 1
    <3> SUFFICES ASSUME j < i - 1 PROVE FALSE
      BY <1>1, <2>5
    <3>1. a(j).last < a(i - 1).first
      BY <1>3, <2>1
    <3> QED
      BY <1>1, <1>2, <2>1, <2>2, <2>4, <3>1
  <2> QED
    BY <1>1, <1>2, <1>7, <2>1, <2>2, <2>4, <2>6 DEF Sequel
<1> QED
  BY <1>6, <1>7

\* When the rows reach the last line that was sent, the log is whole.
LEMMA GatherWhole ==
    ASSUME TypeInv, DatesInv, PiecesInv, RowsInv, Reach(sent), sent >= due
    PROVE  Whole(Gather)
<1> DEFINE n == Cardinality(rows)
<1>1. /\ n \in Nat /\ Len(Gather) = n
      /\ {sent, due, MaxUpdates, MaxLength} \subseteq Nat
  BY GatherRows, ConsoleAssumption DEF TypeInv
<1>2. ASSUME NEW r \in rows
      PROVE  /\ n > 0 /\ n \in 1..n
             /\ Gather[n].last >= r.piece.last /\ Gather[n].last \in Nat /\ r.piece.last \in Nat
  <2>1. PICK i \in 1..n : r = Rank(i)
    BY GatherRows
  <2>2. n > 0 /\ n \in 1..n
    BY <1>1, <2>1
  <2>3. Gather[n] = Rank(n).piece /\ Rank(n) \in rows
    BY <2>2, GatherRows
  <2>4. /\ Rank(n).piece.first \in Nat /\ Rank(n).piece.last \in Nat /\ r.piece.last \in Nat
        /\ Rank(n).piece.first <= Rank(n).piece.last
    BY <2>3, PieceType DEF TypeInv, PiecesInv, InFlight
  <2>5. CASE i = n
    BY <2>1, <2>2, <2>3, <2>4, <2>5
  <2>6. CASE i # n
    <3>1. i < n
      BY <1>1, <2>1, <2>6
    <3>2. r.date < Rank(n).date
      BY <2>1, <2>2, <3>1, GatherRows
    <3>3. r.piece.last < Rank(n).piece.first
      BY <2>3, <3>2 DEF RowsInv
    <3> QED
      BY <2>2, <2>3, <2>4, <3>3
  <2> QED
    BY <2>5, <2>6
<1>3. CASE \E r \in rows : r.piece.last = sent
  BY <1>1, <1>2, <1>3 DEF Whole
<1>4. CASE sent = 0
  BY <1>1, <1>4 DEF Whole
<1>5. CASE n > MaxUpdates
  BY <1>1, <1>5 DEF Whole, UpToLimit
<1>6. CASE Length > MaxLength
  <2>1. Lines # {}
    <3> SUFFICES ASSUME Lines = {} PROVE FALSE
      OBVIOUS
    <3>1. Length = 0
      BY FS_EmptySet DEF Length
    <3> QED
      BY <1>1, <1>6, <3>1
  <2>2. PICK r \in rows : TRUE
    BY <2>1 DEF Lines
  <2> DEFINE m == Gather[n].last
             f == [x \in Lines |-> x[2]]
  <2>3. n > 0 /\ m \in Nat
    BY <1>2, <2>2
  <2>4. \A x \in Lines : /\ x = <<x[1], x[2]>> /\ x[1] \in rows
                       /\ x[2] \in 1..m /\ x[2] \in x[1].piece.first..x[1].piece.last
    <3> SUFFICES ASSUME NEW s \in rows, NEW l \in s.piece.first..s.piece.last
                 PROVE  l \in 1..m
      BY DEF Lines
    <3>1. m >= s.piece.last /\ s.piece.last \in Nat /\ s.piece.first \in Nat /\ s.piece.first > 0
      BY <1>2, PieceType DEF TypeInv
    <3> HIDE DEF m
    <3> QED
      BY <2>3, <3>1
  <2>5. ASSUME NEW x \in Lines, NEW y \in Lines, x[2] = y[2] PROVE x = y
    <3>1. x[1] \in rows /\ y[1] \in rows /\ x[2] \in x[1].piece.first..x[1].piece.last
          /\ x[2] \in y[1].piece.first..y[1].piece.last
      BY <2>4, <2>5
    <3>2. x[1] = y[1]
      <4> SUFFICES ASSUME x[1] # y[1] PROVE FALSE
        OBVIOUS
      <4>1. x[1].piece.execution = y[1].piece.execution
        BY <3>1 DEF RowsInv
      <4>2. x[1].piece.last < y[1].piece.first \/ y[1].piece.last < x[1].piece.first
        BY <3>1, <4>1 DEF PiecesInv, InFlight, Apart
      <4>3. /\ x[1].piece.last \in Nat /\ y[1].piece.last \in Nat
            /\ x[1].piece.first \in Nat /\ y[1].piece.first \in Nat
        BY <3>1, PieceType DEF TypeInv
      <4> QED
        BY <3>1, <4>2, <4>3
    <3> QED
      BY <2>4, <2>5, <3>2
  <2>6. f \in Injection(Lines, 1..m)
    BY <2>4, <2>5 DEF Injection, IsInjective
  <2>7. IsFiniteSet(1..m) /\ Cardinality(1..m) = m
    <3> HIDE DEF m
    <3>1. IsFiniteSet(1..m) /\ Cardinality(1..m) = IF 1 > m THEN 0 ELSE m - 1 + 1
      BY <2>3, FS_Interval
    <3> QED
      BY <2>3, <3>1
  <2>8. IsFiniteSet(Lines) /\ Cardinality(Lines) <= m
    BY <2>6, <2>7, FS_Injection
  <2>9. Length \in Nat /\ Length <= m
    BY <2>8, FS_CardinalityType DEF Length
  <2> HIDE DEF m
  <2>10. m > MaxLength
    BY <1>1, <1>6, <2>3, <2>9
  <2> QED
    BY <1>1, <2>3, <2>10 DEF Whole, UpToLimit, m
<1> QED
  BY <1>3, <1>4, <1>5, <1>6 DEF Reach, TooMuch

(***************************************************************************)
(* Types.                                                                  *)
(***************************************************************************)

QActions(q) == Authorise(q) \/ Unauthorised(q) \/ ConsoleUpdate(q) \/ ConsoleUpdateFails(q)

LEMMA NothingTypes ==
    /\ Nothing \in Seq(Piece)
    /\ NoEnding \in [kind : {"none", "abort", "timeout"}, read : BOOLEAN, log : Seq(Piece)]
<1>1. Nothing \in Seq(Piece)
  BY DEF Nothing
<1> QED
  BY <1>1 DEF NoEnding

LEMMA Dated ==
    ASSUME NEW q \in RequestType, NEW d \in Nat
    PROVE  /\ [q EXCEPT !.date = d] \in RequestType
           /\ [q EXCEPT !.date = d].piece = q.piece /\ [q EXCEPT !.date = d].date = d
BY DEF RequestType

LEMMA TypeInit == Init => TypeInv /\ DatesInv /\ PiecesInv /\ LogsInv
<1> SUFFICES ASSUME Init PROVE TypeInv /\ DatesInv /\ PiecesInv /\ LogsInv
  OBVIOUS
<1>1. IsFiniteSet({}) /\ Cardinality({}) = 0
  BY FS_EmptySet
<1>2. TypeInv
  <2>1. rows \subseteq RequestType /\ IsFiniteSet(rows) /\ Cardinality(rows) <= MaxUpdates + 1
    BY <1>1, ConsoleAssumption DEF Init
  <2>2. /\ log \in Seq(Piece) /\ gathered \in Seq(Piece)
        /\ ending \in [kind : {"none", "abort", "timeout"}, read : BOOLEAN, log : Seq(Piece)]
    BY NothingTypes DEF Init
  <2>3. /\ date \in Nat /\ execution \in 0..MaxExecutions
        /\ written \in 0..MaxLines + 1 /\ sent \in 0..written /\ due \in 0..written
        /\ phase = "body" => written <= MaxLines
    BY ConsoleAssumption DEF Init
  <2> QED
    BY <2>1, <2>2, <2>3 DEF Init, TypeInv, ActiveState, Result
<1>3. DatesInv /\ PiecesInv
  BY DEF Init, DatesInv, PiecesInv, InFlight
<1>4. LogsInv
  BY DEF Init, LogsInv, LinesOnce, Nothing, NoEnding
<1> QED
  BY <1>2, <1>3, <1>4

LEMMA RunnerTypes ==
    ASSUME TypeInv,
           StartPod \/ SetRunning \/ Collect \/ Flush \/ FlushFails \/ (\E r \in Result : EndBody(r))
           \/ Report \/ PodGone
    PROVE  TypeInv'
<1> USE ConsoleAssumption
<1>1. CASE StartPod
  <2>1. /\ written' = 0 /\ written' \in 0..MaxLines + 1 /\ sent' \in 0..written' /\ due' \in 0..written'
        /\ execution' \in 0..MaxExecutions /\ execution' > 0
    BY <1>1 DEF TypeInv, StartPod
  <2> QED
    BY <1>1, <2>1, NothingTypes DEF TypeInv, StartPod, jobVars
<1>2. CASE SetRunning
  <2>1. IsFiniteSet({}) /\ Cardinality({}) = 0
    BY FS_EmptySet
  <2> QED
    BY <1>2, <2>1 DEF TypeInv, SetRunning, ActiveState
<1>3. CASE Collect
  BY <1>3 DEF TypeInv, Collect, jobVars
<1>4. CASE Flush
  <2>1. [piece |-> [execution |-> execution, first |-> sent + 1, last |-> written], date |-> 0]
           \in RequestType
    BY <1>4 DEF TypeInv, Flush, RequestType, Piece
  <2>2. requests' \subseteq RequestType
    BY <1>4, <2>1 DEF TypeInv, Flush
  <2> QED
    BY <1>4, <2>2 DEF TypeInv, Flush, jobVars
<1>5. CASE FlushFails
  <2>1. requests' \subseteq RequestType
    BY <1>5 DEF TypeInv, FlushFails
  <2> QED
    BY <1>5, <2>1 DEF TypeInv, FlushFails, jobVars
<1>6. CASE \E r \in Result : EndBody(r)
  BY <1>6 DEF TypeInv, EndBody, jobVars
<1>7. CASE Report \/ PodGone
  BY <1>7 DEF TypeInv, Report, PodGone, jobVars
<1> QED
  BY <1>1, <1>2, <1>3, <1>4, <1>5, <1>6, <1>7

LEMMA RequestTypes ==
    ASSUME TypeInv, NEW q \in requests, QActions(q)
    PROVE  TypeInv'
<1> USE ConsoleAssumption
<1>1. q \in RequestType
  BY DEF TypeInv
<1>2. CASE Authorise(q)
  <2>1. [q EXCEPT !.date = date + 1] \in RequestType
    <3>1. date + 1 \in Nat
      BY DEF TypeInv
    <3> QED
      BY <1>1, <3>1, Dated
  <2>2. requests' \subseteq RequestType
    BY <1>2, <2>1 DEF TypeInv, Authorise
  <2> QED
    BY <1>2, <2>2 DEF TypeInv, Authorise, jobVars, runnerVars
<1>3. CASE Unauthorised(q)
  BY <1>3 DEF TypeInv, Unauthorised, Answered, jobVars
<1>5. CASE ConsoleUpdateFails(q)
  BY <1>5 DEF TypeInv, ConsoleUpdateFails, Answered, jobVars
<1>4. CASE ConsoleUpdate(q)
  <2>1. /\ rows' \subseteq RequestType /\ IsFiniteSet(rows') /\ Cardinality(rows') <= MaxUpdates + 1
        /\ requests' \subseteq RequestType
    <3>1. CASE TooMuch
      BY <1>4, <3>1 DEF TypeInv, ConsoleUpdate
    <3>2. CASE ~TooMuch
      <4>1. IsFiniteSet(rows) /\ Cardinality(rows) \in Nat /\ Cardinality(rows) <= MaxUpdates
        BY <3>2, FS_CardinalityType DEF TypeInv, TooMuch
      <4>2. /\ IsFiniteSet(rows \cup {q})
            /\ \/ Cardinality(rows \cup {q}) = Cardinality(rows) + 1
               \/ Cardinality(rows \cup {q}) = Cardinality(rows)
        BY <4>1, FS_AddElement
      <4>3. Cardinality(rows \cup {q}) <= MaxUpdates + 1
        BY <4>1, <4>2
      <4> QED
        BY <1>1, <1>4, <3>2, <4>2, <4>3 DEF TypeInv, ConsoleUpdate
    <3> QED
      BY <3>1, <3>2
  <2> QED
    BY <1>4, <2>1 DEF TypeInv, ConsoleUpdate, Answered, jobVars
<1> QED
  BY <1>2, <1>3, <1>4, <1>5 DEF QActions

LEMMA EndingTypes ==
    ASSUME TypeInv, DatesInv,
           ReadRows \/ SetFinished \/ (\E kind \in {"abort", "timeout"} : StartEnding(kind))
           \/ ReadRowsOfEnding \/ SetKilled \/ SetTimedOut \/ Restart
    PROVE  TypeInv'
<1> USE ConsoleAssumption
<1>1. Gather \in Seq(Piece)
  BY GatherRows
<1>2. CASE ReadRows
  BY <1>1, <1>2 DEF TypeInv, ReadRows, jobVars
<1>3. CASE SetFinished
  <2>1. IsFiniteSet({}) /\ Cardinality({}) = 0
    BY FS_EmptySet
  <2> QED
    BY <1>3, <2>1 DEF TypeInv, SetFinished
<1>4. CASE \E kind \in {"abort", "timeout"} : StartEnding(kind)
  BY <1>4, NothingTypes DEF TypeInv, StartEnding, jobVars, runnerVars
<1>5. CASE ReadRowsOfEnding
  BY <1>1, <1>5 DEF TypeInv, ReadRowsOfEnding, jobVars, runnerVars
<1>6. CASE SetKilled \/ SetTimedOut
  BY <1>6, NothingTypes DEF TypeInv, SetKilled, SetTimedOut, jobVars, runnerVars
<1>7. CASE Restart
  BY <1>7, NothingTypes DEF TypeInv, Restart, runnerVars, ActiveState
<1> QED
  BY <1>2, <1>3, <1>4, <1>5, <1>6, <1>7

LEMMA TypeStep == TypeInv /\ DatesInv /\ [Next]_vars => TypeInv'
<1> SUFFICES ASSUME TypeInv, DatesInv, [Next]_vars PROVE TypeInv'
  OBVIOUS
<1>1. CASE UNCHANGED vars
  BY <1>1 DEF TypeInv, vars, jobVars, runnerVars
<1>2. CASE Next
  BY <1>2, RunnerTypes, RequestTypes, EndingTypes DEF Next, QActions
<1> QED
  BY <1>1, <1>2

(***************************************************************************)
(* What is on its way: dates and pieces.                                   *)
(***************************************************************************)

\* Requests are dropped, or become rows.
LEMMA NothingNew ==
    ASSUME DatesInv, PiecesInv, InFlight' \subseteq InFlight, \A r \in rows' : r.date > 0,
           date' = date, execution' = execution, sent' = sent
    PROVE  DatesInv' /\ PiecesInv'
BY DEF DatesInv, PiecesInv

LEMMA FlightStep ==
    ASSUME TypeInv, DatesInv, PiecesInv, [Next]_vars
    PROVE  DatesInv' /\ PiecesInv'
<1>1. CASE StartPod
  <2>1. DatesInv'
    BY <1>1 DEF StartPod, DatesInv, InFlight
  <2>2. ASSUME NEW r \in InFlight
        PROVE  r.piece.execution <= execution' /\ r.piece.execution # execution'
    BY <1>1, <2>2, PieceType DEF StartPod, PiecesInv, InFlight, TypeInv
  <2>3. InFlight' = InFlight
    BY <1>1 DEF StartPod, InFlight
  <2> QED
    BY <2>1, <2>2, <2>3 DEF PiecesInv
<1>2. CASE Flush
  <2> DEFINE p == [execution |-> execution, first |-> sent + 1, last |-> written]
             n == [piece |-> p, date |-> 0]
  <2>1. /\ InFlight' = InFlight \cup {n} /\ rows' = rows /\ date' = date /\ execution' = execution
        /\ sent' = written /\ sent < written /\ sent \in Nat /\ written \in Nat /\ date \in Nat
    BY <1>2 DEF Flush, InFlight, TypeInv
  <2>2. n.date = 0 /\ n.piece = p /\ p.execution = execution /\ p.first = sent + 1 /\ p.last = written
    OBVIOUS
  <2>3. execution \in Nat
    BY DEF TypeInv
  <2> HIDE DEF n, p
  <2>4. DatesInv'
    BY <2>1, <2>2 DEF DatesInv
  <2>5. ASSUME NEW r \in InFlight
        PROVE  /\ r.piece.execution = execution' => r.piece.last <= sent'
               /\ Apart(r.piece, p) /\ Apart(p, r.piece)
    <3>1. r.piece.last \in Nat /\ r.piece.first \in Nat
      BY PieceType DEF TypeInv, InFlight
    <3>2. r.piece.execution = execution => r.piece.last <= sent
      BY DEF PiecesInv
    <3> QED
      BY <2>1, <2>2, <3>1, <3>2 DEF Apart
  <2> QED
    BY <2>1, <2>2, <2>3, <2>4, <2>5 DEF PiecesInv
<1>3. CASE \E q \in requests : Authorise(q)
  <2>1. PICK q \in requests : Authorise(q)
    BY <1>3
  <2> DEFINE n == [q EXCEPT !.date = date + 1]
  <2>2. date \in Nat /\ date + 1 \in Nat /\ q \in RequestType /\ q \in InFlight
    BY DEF TypeInv, InFlight
  <2>3. n.piece = q.piece /\ n.date = date + 1
    BY <2>2, Dated
  <2>4. InFlight' = (InFlight \ {q}) \cup {n} /\ rows' = rows
    BY <2>1 DEF Authorise, InFlight, DatesInv
  <2>5. date' = date + 1 /\ execution' = execution /\ sent' = sent
    BY <2>1 DEF Authorise, runnerVars
  <2>6. \A r \in InFlight : r.date \in Nat /\ r.date <= date
    BY PieceType DEF TypeInv, InFlight, DatesInv
  <2> HIDE DEF n
  <2>7. DatesInv'
    BY <2>2, <2>3, <2>4, <2>5, <2>6 DEF DatesInv
  <2>8. ASSUME NEW r \in InFlight, r # q PROVE Apart(r.piece, n.piece) /\ Apart(n.piece, r.piece)
    BY <2>2, <2>3, <2>8 DEF PiecesInv
  <2> QED
    BY <2>2, <2>3, <2>4, <2>5, <2>7, <2>8 DEF PiecesInv
<1>4. CASE \/ SetRunning \/ FlushFails \/ SetFinished
           \/ \E q \in requests : Unauthorised(q) \/ ConsoleUpdate(q) \/ ConsoleUpdateFails(q)
  <2>1. /\ InFlight' \subseteq InFlight /\ \A r \in rows' : r.date > 0
        /\ date' = date /\ execution' = execution /\ sent' = sent
    BY <1>4 DEF SetRunning, FlushFails, SetFinished, Unauthorised, ConsoleUpdate, ConsoleUpdateFails,
                InFlight, DatesInv
  <2> QED
    BY <2>1, NothingNew
<1>5. CASE \/ Collect \/ (\E r \in Result : EndBody(r)) \/ Report \/ PodGone \/ ReadRows
           \/ (\E kind \in {"abort", "timeout"} : StartEnding(kind))
           \/ ReadRowsOfEnding \/ SetKilled \/ SetTimedOut \/ Restart \/ UNCHANGED vars
  <2>1. /\ rows' = rows /\ requests' = requests
        /\ date' = date /\ execution' = execution /\ sent' = sent
    BY <1>5 DEF Collect, EndBody, Report, PodGone, ReadRows, StartEnding, ReadRowsOfEnding, SetKilled,
                SetTimedOut, Restart, vars, runnerVars
  <2> QED
    BY <2>1, NothingNew DEF InFlight, DatesInv
<1> QED
  BY <1>1, <1>2, <1>3, <1>4, <1>5 DEF Next

\* What is a log was a log, or has been gathered.
LEMMA LogsTaken ==
    ASSUME TypeInv, [Next]_vars
    PROVE  /\ log' \in {log, Nothing, gathered, ending.log}
           /\ gathered' \in {gathered, Nothing, Gather}
           /\ ending'.log \in {ending.log, Nothing, Gather}
<1>1. CASE \/ StartPod \/ SetRunning \/ Collect \/ Flush \/ FlushFails
           \/ (\E r \in Result : EndBody(r)) \/ Report \/ PodGone
           \/ (\E q \in requests : QActions(q))
           \/ UNCHANGED vars
  BY <1>1 DEF StartPod, SetRunning, Collect, Flush, FlushFails, EndBody, Report, PodGone, Authorise,
              QActions, Unauthorised, ConsoleUpdate, ConsoleUpdateFails, vars, runnerVars, jobVars
<1>2. CASE ReadRows \/ SetFinished \/ SetKilled \/ SetTimedOut \/ Restart
  BY <1>2 DEF ReadRows, SetFinished, SetKilled, SetTimedOut, Restart, runnerVars, jobVars, NoEnding
<1>3. CASE \E kind \in {"abort", "timeout"} : StartEnding(kind)
  BY <1>3 DEF StartEnding, runnerVars, jobVars
<1>4. CASE ReadRowsOfEnding
  <2>1. ending \in [kind : {"none", "abort", "timeout"}, read : BOOLEAN, log : Seq(Piece)]
    BY DEF TypeInv
  <2>2. ending' = [ending EXCEPT !.read = TRUE, !.log = Gather]
    BY <1>4 DEF ReadRowsOfEnding
  <2>3. ending'.log = Gather
    BY <2>1, <2>2
  <2> QED
    BY <1>4, <2>3 DEF ReadRowsOfEnding, runnerVars, jobVars
<1> QED
  BY <1>1, <1>2, <1>3, <1>4 DEF Next, QActions

LEMMA LogsStep ==
    ASSUME TypeInv, DatesInv, PiecesInv, LogsInv, [Next]_vars
    PROVE  LogsInv'
<1>1. LinesOnce(Nothing)
  BY DEF LinesOnce, Nothing
<1>2. LinesOnce(Gather)
  BY GatherOnce
<1> QED
  BY <1>1, <1>2, LogsTaken DEF LogsInv

\* A job that its runner has ended has no runner.
LEMMA ResultStep ==
    ASSUME TypeInv, state \in Result => phase = "none", [Next]_vars
    PROVE  state' \in Result => phase' = "none"
<1>1. CASE \/ StartPod \/ SetRunning \/ Collect \/ Flush \/ FlushFails
           \/ (\E r \in Result : EndBody(r)) \/ Report \/ PodGone
  BY <1>1 DEF StartPod, SetRunning, Collect, Flush, FlushFails, EndBody, Report, PodGone, jobVars, Result
<1>2. CASE \/ (\E q \in requests : QActions(q))
           \/ (\E kind \in {"abort", "timeout"} : StartEnding(kind))
           \/ ReadRowsOfEnding \/ UNCHANGED vars
  BY <1>2 DEF QActions, Authorise, Unauthorised, ConsoleUpdate, ConsoleUpdateFails, StartEnding,
              ReadRowsOfEnding, vars, runnerVars,
              jobVars
<1>3. CASE ReadRows \/ SetFinished \/ SetKilled \/ SetTimedOut \/ Restart
  BY <1>3 DEF ReadRows, SetFinished, SetKilled, SetTimedOut, Restart, runnerVars, jobVars, Result,
              ActiveState
<1> QED
  BY <1>1, <1>2, <1>3 DEF Next, QActions

(***************************************************************************)
(* The rows, the request and the runner, as long as there was no trouble.  *)
(***************************************************************************)

Quiet == ~trouble /\ RowsInv /\ NextInv /\ RunnerInv /\ EndedInv

LEMMA TooMuchKept ==
    ASSUME rows' = rows
    PROVE  TooMuch' <=> TooMuch
BY DEF TooMuch, Length, Lines

LEMMA TroubleStays ==
    ASSUME [Next]_vars, ~trouble'
    PROVE  ~trouble
BY DEF Next, vars, StartPod, SetRunning, Collect, Flush, FlushFails, EndBody, Report, PodGone, Authorise,
       Unauthorised, ConsoleUpdate, ConsoleUpdateFails, ReadRows, SetFinished, StartEnding,
       ReadRowsOfEnding, SetKilled,
       SetTimedOut, Restart

\* With no trouble, a request is recorded by the runner that waits for it.
LEMMA Waiting ==
    ASSUME Quiet, NEW q \in requests
    PROVE  /\ requests = {q} /\ phase \notin {"report", "gathered"}
           /\ phase \in {"body", "header"}
                 => q.piece.execution = execution /\ q.piece.last = sent /\ posting
           /\ posting => phase \in {"body", "header"}
BY DEF Quiet, NextInv, RunnerInv, Live, InFlight

\* The request joins the rows.
LEMMA UpdateRows ==
    ASSUME TypeInv, PiecesInv, Quiet, NEW q \in requests, ConsoleUpdate(q)
    PROVE  /\ RowsInv' /\ requests' = {}
           /\ \A r \in rows' : r.piece.last <= q.piece.last
           /\ TooMuch' \/ \E r \in rows' : r.piece.last = q.piece.last
<1>1. /\ requests' = {} /\ rows' = IF TooMuch THEN rows ELSE rows \cup {q}
      /\ q.date > 0
  BY Waiting DEF ConsoleUpdate
<1>2. /\ Reach(q.piece.first - 1)
      /\ \A r \in rows : r.piece.execution = q.piece.execution /\ r.date < q.date
  BY <1>1 DEF Quiet, NextInv
<1>3. /\ q.piece.first \in Nat /\ q.piece.last \in Nat /\ q.date \in Nat
      /\ q.piece.first > 0 /\ q.piece.first <= q.piece.last
  BY PieceType DEF TypeInv, PiecesInv, InFlight
<1>4. \A r \in rows : r.piece.last \in Nat /\ r.date \in Nat
  BY PieceType DEF TypeInv
<1>5. \A r \in rows : r.piece.last < q.piece.first /\ r.piece.last <= q.piece.last
  BY <1>2, <1>3, <1>4 DEF Reach
<1>6. CASE TooMuch
  <2>1. rows' = rows
    BY <1>1, <1>6
  <2>2. TooMuch'
    BY <1>6, <2>1, TooMuchKept
  <2> QED
    BY <1>1, <1>5, <2>1, <2>2 DEF Quiet, RowsInv
<1>7. CASE ~TooMuch
  <2>1. rows' = rows \cup {q}
    BY <1>1, <1>7
  <2>2. q.piece.first = 1 \/ \E s \in rows : s.piece.last + 1 = q.piece.first
    BY <1>2, <1>3, <1>4, <1>7 DEF Reach
  <2>3. RowsInv'
    BY <1>2, <1>3, <1>4, <1>5, <2>1, <2>2 DEF Quiet, RowsInv
  <2> QED
    BY <1>1, <1>3, <1>5, <2>1, <2>3
<1> QED
  BY <1>6, <1>7

LEMMA RowsStep ==
    ASSUME TypeInv, PiecesInv, Quiet, [Next]_vars
    PROVE  RowsInv'
<1>1. CASE \E q \in requests : ConsoleUpdate(q)
  BY <1>1, UpdateRows
<1>2. CASE SetRunning \/ SetFinished
  BY <1>2 DEF SetRunning, SetFinished, RowsInv
<1>3. CASE rows' = rows
  BY <1>3 DEF Quiet, RowsInv
<1>4. rows' = rows \/ SetRunning \/ SetFinished \/ (\E q \in requests : ConsoleUpdate(q))
  BY DEF Next, vars, StartPod, Collect, Flush, FlushFails, EndBody, Report, PodGone, Authorise,
         Unauthorised, ConsoleUpdateFails, ReadRows, StartEnding, ReadRowsOfEnding, SetKilled,
         SetTimedOut, Restart
<1> QED
  BY <1>1, <1>2, <1>3, <1>4

LEMMA NextStep ==
    ASSUME TypeInv, DatesInv, PiecesInv, Quiet, [Next]_vars, ~trouble'
    PROVE  NextInv'
<1>1. CASE Flush
  <2> DEFINE p == [execution |-> execution, first |-> sent + 1, last |-> written]
             n == [piece |-> p, date |-> 0]
  <2>1. requests = {}
    BY <1>1, Waiting DEF Flush
  <2>2. requests' = {n} /\ rows' = rows /\ phase \in {"body", "header"}
    BY <1>1, <2>1 DEF Flush
  <2>3. sent \in Nat /\ sent + 1 - 1 = sent
    BY DEF TypeInv
  <2>4. Reach(sent) /\ \A r \in rows : r.piece.execution = execution
    BY <2>1, <2>2 DEF Quiet, RunnerInv, Live, InFlight
  <2>5. TooMuch' <=> TooMuch
    BY <2>2, TooMuchKept
  <2>6. PICK m : m = n
    OBVIOUS
  <2>7. m.piece.first - 1 = sent /\ m.piece.execution = execution /\ m.date = 0 /\ requests' = {m}
    BY <2>2, <2>3, <2>6
  <2> HIDE DEF n, p
  <2>8. Reach(m.piece.first - 1)'
    BY <2>2, <2>4, <2>5, <2>7 DEF Reach
  <2>9. \A r \in rows' : r.piece.execution = m.piece.execution /\ (m.date > 0 => r.date < m.date)
    BY <2>2, <2>4, <2>7
  <2> QED
    BY <2>7, <2>8, <2>9 DEF NextInv
<1>2. CASE \E q \in requests : Authorise(q)
  <2>1. PICK q \in requests : Authorise(q)
    BY <1>2
  <2>11. PICK n : n = [q EXCEPT !.date = date + 1]
    OBVIOUS
  <2>2. date \in Nat /\ date + 1 \in Nat /\ q \in RequestType
    BY DEF TypeInv
  <2>3. n.piece = q.piece /\ n.date = date + 1
    BY <2>2, <2>11, Dated
  <2>4. requests' = {n} /\ rows' = rows
    BY <2>1, <2>11, Waiting DEF Authorise
  <2>5. TooMuch' <=> TooMuch
    BY <2>4, TooMuchKept
  <2>6. \A r \in rows : r.date \in Nat /\ r.date <= date
    BY PieceType DEF TypeInv, DatesInv, InFlight
  <2>7. Reach(q.piece.first - 1) /\ \A r \in rows : r.piece.execution = q.piece.execution
    BY DEF Quiet, NextInv
  <2>8. \A q1, q2 \in requests' : q1 = q2
    BY <2>4
  <2>9. \A r \in rows' : r.piece.execution = n.piece.execution /\ r.date < n.date
    BY <2>2, <2>3, <2>4, <2>6, <2>7
  <2>10. Reach(n.piece.first - 1)'
    BY <2>3, <2>4, <2>5, <2>7 DEF Reach
  <2> QED
    BY <2>4, <2>8, <2>9, <2>10 DEF NextInv
<1>3. CASE requests' = {}
  BY <1>3 DEF NextInv
<1>4. CASE rows' = rows /\ requests' = requests
  <2>1. TooMuch' <=> TooMuch
    BY <1>4, TooMuchKept
  <2> QED
    BY <1>4, <2>1 DEF Quiet, NextInv, Reach
<1>5. CASE SetRunning
  BY <1>3, <1>5 DEF SetRunning
<1>6. CASE SetFinished
  BY <1>3, <1>6 DEF SetFinished, Quiet, RunnerInv
<1>7. CASE \E q \in requests : ConsoleUpdate(q)
  BY <1>3, <1>7, UpdateRows
<1>8. (rows' = rows /\ requests' = requests) \/ Flush \/ (\E q \in requests : Authorise(q))
      \/ SetRunning \/ SetFinished \/ (\E q \in requests : ConsoleUpdate(q))
  BY DEF Next, vars, StartPod, Collect, FlushFails, EndBody, Report, PodGone, Unauthorised,
         ConsoleUpdateFails, ReadRows,
         StartEnding, ReadRowsOfEnding, SetKilled, SetTimedOut, Restart
<1> QED
  BY <1>1, <1>2, <1>4, <1>5, <1>6, <1>7, <1>8

LEMMA RunnerStep ==
    ASSUME TypeInv, DatesInv, PiecesInv, Quiet, [Next]_vars, ~trouble'
    PROVE  RunnerInv'
<1>1. CASE StartPod \/ PodGone
  BY <1>1 DEF StartPod, PodGone, Quiet, RunnerInv, Live
<1>2. CASE SetRunning
  <2>1. /\ phase' = "body" /\ requests' = {} /\ rows' = {} /\ sent' = sent /\ posting' = posting
        /\ phase = "start"
    BY <1>2 DEF SetRunning
  <2>2. sent = 0 /\ ~posting
    BY <2>1 DEF TypeInv, Quiet, RunnerInv
  <2> QED
    BY <2>1, <2>2 DEF RunnerInv, Live, Reach, InFlight, TypeInv
<1>3. CASE Flush
  <2> DEFINE p == [execution |-> execution, first |-> sent + 1, last |-> written]
             n == [piece |-> p, date |-> 0]
  <2>1. requests = {}
    BY <1>3, Waiting DEF Flush
  <2>2. /\ requests' = {n} /\ rows' = rows /\ phase \in {"body", "header"} /\ phase' = phase
        /\ posting' = TRUE /\ execution' = execution /\ sent' = written
    BY <1>3, <2>1 DEF Flush
  <2>3. \A r \in rows : r.piece.execution = execution
    BY <2>2 DEF Quiet, RunnerInv, Live, InFlight
  <2>4. n.piece.execution = execution /\ n.piece.last = written
    OBVIOUS
  <2> HIDE DEF n
  <2> QED
    BY <2>2, <2>3, <2>4 DEF RunnerInv, Live, InFlight
<1>4. CASE \E q \in requests : Authorise(q)
  <2>1. PICK q \in requests : Authorise(q)
    BY <1>4
  <2> DEFINE n == [q EXCEPT !.date = date + 1]
  <2>2. date + 1 \in Nat /\ q \in RequestType
    BY DEF TypeInv
  <2>3. n.piece = q.piece
    BY <2>2, Dated
  <2>4. requests' = {n} /\ rows' = rows
    BY <2>1, Waiting DEF Authorise
  <2>5. UNCHANGED <<execution, runnerVars>>
    BY <2>1 DEF Authorise
  <2> HIDE DEF n
  <2> QED
    BY <2>3, <2>4, <2>5, Waiting DEF Quiet, RunnerInv, Live, InFlight, runnerVars
<1>5. CASE \E q \in requests : ConsoleUpdate(q)
  <2>1. PICK q \in requests : ConsoleUpdate(q)
    BY <1>5
  <2>2. /\ requests' = {} /\ rows' \subseteq rows \cup {q}
        /\ \A r \in rows' : r.piece.last <= q.piece.last
        /\ TooMuch' \/ \E r \in rows' : r.piece.last = q.piece.last
    BY <2>1, UpdateRows DEF ConsoleUpdate
  <2>3. /\ UNCHANGED <<execution, phase, sent, due, gathered>>
        /\ posting' = (posting /\ ~(q.piece.execution = execution /\ q.piece.last = sent))
    BY <2>1 DEF ConsoleUpdate, Answered
  <2>4. ~posting' /\ phase \notin {"report", "gathered"}
    BY <2>3, Waiting
  <2>5. Live => /\ q.piece.last = sent
                /\ \A r \in rows : r.piece.execution = execution
                /\ q.piece.execution = execution
    BY <2>4 DEF Quiet, RunnerInv, Live, InFlight
  <2>6. Live' => Reach(sent)'
    BY <2>2, <2>3, <2>5 DEF Reach, Live
  <2> QED
    BY <2>2, <2>3, <2>4, <2>5, <2>6 DEF RunnerInv, Live, InFlight
<1>6. CASE Collect \/ (\E r \in Result : EndBody(r)) \/ Report
  <2>1. /\ rows' = rows /\ requests' = requests /\ sent' = sent /\ execution' = execution
        /\ gathered' = gathered /\ posting' = posting /\ ~posting
        /\ phase \in {"body", "header"} /\ phase' \in {"body", "header", "report"}
        /\ phase' = "report" => sent' >= due'
    BY <1>6 DEF Collect, EndBody, Report
  <2>2. TooMuch' <=> TooMuch
    BY <2>1, TooMuchKept
  <2>3. requests = {}
    BY <2>1, Waiting
  <2>4. Reach(sent) /\ \A r \in rows : r.piece.execution = execution
    BY <2>1, <2>3 DEF Quiet, RunnerInv, Live, InFlight
  <2>5. Reach(sent)'
    BY <2>1, <2>2, <2>4 DEF Reach
  <2> QED
    BY <2>1, <2>3, <2>4, <2>5 DEF RunnerInv, Live, InFlight
<1>7. CASE ReadRows
  <2>1. /\ phase = "report" /\ phase' = "gathered" /\ gathered' = Gather /\ requests' = requests
        /\ posting' = posting /\ due' = due
    BY <1>7 DEF ReadRows
  <2>2. requests = {} /\ ~posting /\ Reach(sent) /\ sent >= due
    BY <2>1 DEF Quiet, RunnerInv, Live
  <2>3. Whole(Gather)
    BY <2>2, GatherWhole DEF Quiet
  <2>4. Whole(gathered)'
    BY <2>1, <2>3 DEF Whole
  <2> QED
    BY <2>1, <2>2, <2>4 DEF RunnerInv, Live
<1>8. CASE SetFinished
  BY <1>8 DEF SetFinished, Quiet, RunnerInv, Live
<1>9. CASE UNCHANGED <<rows, requests, execution, runnerVars>>
  <2>1. TooMuch' <=> TooMuch
    BY <1>9, TooMuchKept
  <2> QED
    BY <1>9, <2>1 DEF Quiet, RunnerInv, Live, Reach, InFlight, Whole, runnerVars
<1>10. \/ StartPod \/ PodGone \/ SetRunning \/ Flush \/ Collect \/ (\E r \in Result : EndBody(r)) \/ Report
       \/ (\E q \in requests : Authorise(q) \/ ConsoleUpdate(q)) \/ ReadRows \/ SetFinished
       \/ UNCHANGED <<rows, requests, execution, runnerVars>>
  BY DEF Next, vars, FlushFails, Unauthorised, ConsoleUpdateFails, StartEnding, ReadRowsOfEnding,
         SetKilled, SetTimedOut,
         Restart
<1> QED
  BY <1>1, <1>2, <1>3, <1>4, <1>5, <1>6, <1>7, <1>8, <1>9, <1>10

LEMMA ContiguousStep ==
    ASSUME TypeInv, DatesInv, PiecesInv, Quiet, [Next]_vars
    PROVE  Contiguous(log') /\ Contiguous(gathered') /\ Contiguous(ending'.log)
<1>1. Contiguous(Nothing)
  BY DEF Contiguous, Nothing
<1>2. Contiguous(Gather)
  BY GatherContiguous DEF Quiet
<1> QED
  BY <1>1, <1>2, LogsTaken DEF Quiet, EndedInv

LEMMA EndedStep ==
    ASSUME TypeInv, DatesInv, PiecesInv, Quiet, [Next]_vars, ~trouble',
           state \in Result => phase = "none", state' \in Result => phase' = "none"
    PROVE  EndedInv'
<1>1. Contiguous(log') /\ Contiguous(gathered') /\ Contiguous(ending'.log)
  BY ContiguousStep
<1>2. ASSUME state' \in Result PROVE requests' = {} /\ rows' = {} /\ Whole(log)'
  <2>1. CASE SetFinished
    <3>1. Whole(gathered) /\ requests = {}
      BY <2>1 DEF SetFinished, Quiet, RunnerInv
    <3> QED
      BY <2>1, <3>1 DEF SetFinished, Whole
  <2>2. CASE state \in Result /\ ~SetFinished
    <3>1. phase = "none" /\ requests = {} /\ rows = {} /\ Whole(log) /\ state \notin ActiveState
      BY <2>2 DEF Quiet, EndedInv, Result, ActiveState
    <3>2. UNCHANGED <<rows, requests, log, due>>
      <4>1. CASE \/ StartPod \/ SetRunning \/ Collect \/ Flush \/ FlushFails
                 \/ (\E r \in Result : EndBody(r)) \/ Report \/ PodGone
        BY <3>1, <4>1, Waiting DEF StartPod, SetRunning, Collect, Flush, FlushFails, EndBody, Report,
                                   PodGone, ActiveState, RunnerInv, Quiet
      <4>2. CASE \/ ReadRows \/ (\E kind \in {"abort", "timeout"} : StartEnding(kind))
                 \/ ReadRowsOfEnding \/ SetKilled \/ UNCHANGED vars
        BY <3>1, <4>2 DEF ReadRows, StartEnding, ReadRowsOfEnding, SetKilled, vars, jobVars, runnerVars
      <4>3. ~SetTimedOut /\ ~Restart
        BY <1>2 DEF SetTimedOut, Restart, Result
      <4> QED
        BY <2>2, <3>1, <4>1, <4>2, <4>3 DEF Next
    <3> QED
      BY <3>1, <3>2 DEF Whole
  <2>3. state \in Result \/ SetFinished
    <3>1. CASE \/ StartPod \/ SetRunning \/ Collect \/ Flush \/ FlushFails
               \/ (\E r \in Result : EndBody(r)) \/ Report \/ PodGone
               \/ (\E q \in requests : QActions(q))
      BY <1>2, <3>1 DEF StartPod, SetRunning, Collect, Flush, FlushFails, EndBody, Report, PodGone,
                        QActions, Authorise, Unauthorised, ConsoleUpdate, ConsoleUpdateFails,
                        jobVars, Result
    <3>2. CASE \/ ReadRows \/ (\E kind \in {"abort", "timeout"} : StartEnding(kind))
               \/ ReadRowsOfEnding \/ SetKilled \/ SetTimedOut \/ Restart \/ UNCHANGED vars
      BY <1>2, <3>2 DEF ReadRows, StartEnding, ReadRowsOfEnding, SetKilled, SetTimedOut, Restart, vars,
                        jobVars, Result
    <3> QED
      BY <3>1, <3>2 DEF Next, QActions
  <2> QED
    BY <2>1, <2>2, <2>3
<1> QED
  BY <1>1, <1>2 DEF EndedInv

(***************************************************************************)
(* The theorems.                                                           *)
(***************************************************************************)

LEMMA LogInit == Init => LogInv
<1> SUFFICES ASSUME Init PROVE LogInv
  OBVIOUS
<1>1. RowsInv /\ NextInv
  BY DEF Init, RowsInv, NextInv
<1>2. RunnerInv
  BY DEF Init, RunnerInv, Live
<1>3. EndedInv
  BY DEF Init, EndedInv, Contiguous, Result, Nothing, NoEnding
<1>4. state \notin Result
  BY DEF Init, Result
<1> QED
  BY <1>1, <1>2, <1>3, <1>4, TypeInit DEF LogInv

LEMMA LogStep == LogInv /\ [Next]_vars => LogInv'
<1> SUFFICES ASSUME LogInv, [Next]_vars PROVE LogInv'
  OBVIOUS
<1>1. TypeInv /\ DatesInv /\ PiecesInv /\ LogsInv /\ (state \in Result => phase = "none")
  BY DEF LogInv
<1>2. TypeInv' /\ DatesInv' /\ PiecesInv' /\ LogsInv' /\ (state' \in Result => phase' = "none")
  BY <1>1, TypeStep, FlightStep, LogsStep, ResultStep
<1>3. ASSUME ~trouble' PROVE RowsInv' /\ NextInv' /\ RunnerInv' /\ EndedInv'
  <2>1. Quiet
    BY <1>3, TroubleStays DEF LogInv, Quiet
  <2> QED
    BY <1>1, <1>2, <1>3, <2>1, RowsStep, NextStep, RunnerStep, EndedStep
<1> QED
  BY <1>2, <1>3 DEF LogInv

LEMMA LogInvariant == Spec => []LogInv
BY LogInit, LogStep, PTL DEF Spec

\* Types: a line is in a piece of an execution that there is, the rows of a
\* job have different dates, and their number stays within its limit.
THEOREM TypeCorrect == Spec => []TypeOK
<1>1. ASSUME LogInv PROVE TypeOK
  <2>1. TypeInv /\ DatesInv
    BY <1>1 DEF LogInv
  <2>2. \A r, s \in rows : r.date = s.date => r = s
    BY <2>1 DEF DatesInv, InFlight
  <2> QED
    BY <2>1, <2>2 DEF TypeInv, TypeOK, RequestType, Row
<1> QED
  BY <1>1, LogInvariant, PTL

\* The log of a job is its output: no line twice, and, as long as no POST was
\* given up, refused or late, one execution without a gap, which is complete
\* when the runner has ended the job.
THEOREM LogIsFaithful == Spec => []LogFaithful
<1>1. ASSUME LogInv PROVE LogFaithful
  BY <1>1 DEF LogInv, LogsInv, EndedInv, LogFaithful
<1> QED
  BY <1>1, LogInvariant, PTL

=============================================================================
