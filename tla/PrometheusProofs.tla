-------------------------- MODULE PrometheusProofs --------------------------
(***************************************************************************)
(* What holds of collect_prometheus whatever the server names, and however *)
(* often: silence means that every answer was received and understood, the *)
(* collection is an evidence source as run() takes it, and what it admits  *)
(* is exactly what the answers call for.                                   *)
(***************************************************************************)
EXTENDS PrometheusProperties, PrefixRecursion, FiniteSetTheorems, FunctionTheorems

ElementsOf(s) == {s[i] : i \in DOMAIN s}

\* The list of captures is a sequence, whatever its elements are.
LEMMA AppendedCaptures ==
  ASSUME NEW s, s \in Seq(ElementsOf(s)), NEW x
  PROVE  /\ Append(s, x) \in Seq(ElementsOf(Append(s, x)))
         /\ \A i \in DOMAIN Append(s, x) :
               (i \in DOMAIN s /\ Append(s, x)[i] = s[i]) \/ Append(s, x)[i] = x
<1> DEFINE t == Append(s, x)
<1> DEFINE T == ElementsOf(s) \cup {x}
<1>1. s \in Seq(T)
  OBVIOUS
<1>2. /\ t \in Seq(T) /\ Len(t) = Len(s) + 1 /\ Len(s) \in Nat
      /\ DOMAIN s = 1 .. Len(s) /\ DOMAIN t = 1 .. Len(t)
      /\ \A i \in 1 .. Len(s) : t[i] = s[i]
      /\ t[Len(s) + 1] = x
  BY <1>1
<1>3. \A i \in DOMAIN t : (i \in DOMAIN s /\ t[i] = s[i]) \/ t[i] = x
  BY <1>2
<1>4. \A i \in 1 .. Len(t) : t[i] \in ElementsOf(t)
  BY <1>2 DEF ElementsOf
<1>5. t \in Seq(ElementsOf(t))
  BY <1>2, <1>4
<1> QED
  BY <1>3, <1>5

-----------------------------------------------------------------------------
(* The inductive invariant. *)

\* Nothing is admitted before the loops are through, and nothing returns without
\* a contribution or a problem.
EndInv ==
  /\ ppc \in WorkingLabels \cup {"returned", "interrupted"}
  /\ admitted \in BOOLEAN /\ problems \in BOOLEAN
  /\ admitted => ppc \in {"tidy", "returned", "interrupted"}
  /\ admitted => left = <<>> /\ stage = "ranges"
  /\ ppc = "tidy" => admitted
  /\ ppc = "returned" => problems \/ admitted

Understood(c) == c.outcome \notin {"failed", "malformed"}

\* A capture that failed or was not understood has made a problem.
CapturesInv ==
  /\ captures \in Seq(ElementsOf(captures))
  /\ ~problems => \A i \in DOMAIN captures : Understood(captures[i])

PrometheusInv == EndInv /\ CapturesInv

LEMMA InitInv == Init => PrometheusInv
<1> SUFFICES ASSUME Init PROVE PrometheusInv
  OBVIOUS
<1>1. EndInv
  BY DEF Init, EndInv, WorkingLabels
<1>2. CapturesInv
  BY DEF Init, CapturesInv, ElementsOf
<1> QED
  BY <1>1, <1>2 DEF PrometheusInv

LEMMA EndStep ==
  ASSUME EndInv, [Next]_vars
  PROVE  EndInv'
<1> USE DEF EndInv, WorkingLabels, Goto, Return, Record, request, answer
<1>1. CASE Prepare \/ NextLoop \/ OpenCapture
  BY <1>1 DEF Prepare, NextLoop, OpenCapture
<1>2. CASE Respond \/ Chunk \/ ResponseEnds \/ ServerFails \/ TimesOut
  BY <1>2 DEF Respond, Chunk, ResponseEnds, ServerFails, TimesOut
<1>3. CASE CannotCapture \/ CaptureBreaks \/ Escape
  <2>1. /\ ppc' = "returned" /\ problems' = (problems \/ TRUE)
        /\ admitted' = admitted
    BY <1>3 DEF CannotCapture, CaptureBreaks, Escape
  <2>2. problems' = TRUE
    BY <2>1, Zenon
  <2>3. ppc \in {"prepare", "next", "read", "judge"}
    BY <1>3 DEF CannotCapture, CaptureBreaks, Escape
  <2>4. ~admitted'
    BY <2>1, <2>3
  <2> QED
    BY <2>1, <2>2, <2>4
<1>4. CASE RecordFailure \/ RecordPlain \/ RecordMalformed
  <2>1. ppc = "judge" /\ ppc' = "next" /\ admitted' = admitted
    BY <1>4 DEF RecordFailure, RecordPlain, RecordMalformed
  <2>2. problems' = TRUE \/ problems' = problems
    BY <1>4 DEF RecordFailure, RecordPlain, RecordMalformed
  <2>3. ~admitted'
    BY <2>1
  <2> QED
    BY <2>1, <2>2, <2>3
<1>5. CASE RecordJobs
  BY <1>5 DEF RecordJobs
<1>6. CASE RecordMetrics
  BY <1>6 DEF RecordMetrics
<1>7. CASE Promote \/ CannotPromote
  BY <1>7 DEF Promote, CannotPromote
<1>8. CASE TidyStaging
  BY <1>8 DEF TidyStaging
<1>9. CASE Keystroke
  BY <1>9 DEF Keystroke
<1>10. CASE UNCHANGED vars
  BY <1>10 DEF vars
<1> QED
  BY <1>1, <1>2, <1>3, <1>4, <1>5, <1>6, <1>7, <1>8, <1>9, <1>10 DEF Next, Client, Server

\* A capture is recorded as understood, or with a problem.
LEMMA RecordKeepsCaptures ==
  ASSUME CapturesInv, NEW c, captures' = Append(captures, c),
         ~problems' => ~problems /\ Understood(c)
  PROVE  CapturesInv'
<1>1. /\ captures' \in Seq(ElementsOf(captures'))
      /\ \A i \in DOMAIN captures' :
            (i \in DOMAIN captures /\ captures'[i] = captures[i]) \/ captures'[i] = c
  BY AppendedCaptures DEF CapturesInv
<1>2. ASSUME ~problems', NEW i \in DOMAIN captures' PROVE Understood(captures'[i])
  BY <1>1, <1>2 DEF CapturesInv
<1> QED
  BY <1>1, <1>2 DEF CapturesInv

LEMMA CapturesStep ==
  ASSUME PrometheusInv, [Next]_vars
  PROVE  CapturesInv'
<1>0. CapturesInv /\ problems \in BOOLEAN
  BY DEF PrometheusInv, EndInv
<1>1. CASE \/ Prepare \/ NextLoop \/ OpenCapture \/ Promote \/ Keystroke
           \/ Respond \/ Chunk \/ ResponseEnds \/ ServerFails \/ TimesOut \/ UNCHANGED vars
  <2>1. UNCHANGED <<captures, problems>>
    BY <1>1 DEF Prepare, NextLoop, OpenCapture, Promote, Keystroke, Respond, Chunk,
                ResponseEnds, ServerFails, TimesOut, vars, answer
  <2> QED
    BY <1>0, <2>1 DEF CapturesInv
<1>2. CASE CannotCapture \/ CaptureBreaks \/ Escape \/ CannotPromote \/ TidyStaging
  <2>1. captures' = captures /\ (~problems' => ~problems)
    BY <1>0, <1>2 DEF CannotCapture, CaptureBreaks, Escape, CannotPromote, TidyStaging, Return
  <2> QED
    BY <1>0, <2>1 DEF CapturesInv
<1>3. CASE RecordFailure \/ RecordMalformed
  <2>1. problems' = TRUE /\ \E c : captures' = Append(captures, c)
    BY <1>3 DEF RecordFailure, RecordMalformed, Record
  <2> QED
    BY <1>0, <2>1, RecordKeepsCaptures
<1>4. CASE RecordPlain
  <2>1. /\ problems' = problems
        /\ captures' = Append(captures, [request |-> Head(left), outcome |-> "fine",
                                         list |-> <<>>])
    BY <1>4 DEF RecordPlain, Record
  <2> QED
    BY <1>0, <2>1, RecordKeepsCaptures DEF Understood
<1>5. CASE RecordJobs \/ RecordMetrics
  <2>1. problems' = problems /\ \E list :
           captures' = Append(captures, [request |-> Head(left), outcome |-> "listed",
                                         list |-> list])
    BY <1>5 DEF RecordJobs, RecordMetrics, Record
  <2> QED
    BY <1>0, <2>1, RecordKeepsCaptures DEF Understood
<1> QED
  BY <1>1, <1>2, <1>3, <1>4, <1>5 DEF Next, Client, Server

\* What every point of a collection knows of its end and of its captures.
THEOREM PrometheusInvariant == Spec => []PrometheusInv
<1>1. PrometheusInv /\ [Next]_vars => PrometheusInv'
  BY EndStep, CapturesStep DEF PrometheusInv
<1> QED
  BY InitInv, <1>1, PTL DEF Spec

-----------------------------------------------------------------------------
\* A call of collect_prometheus that returns no problem admitted what it collected,
\* worked off its last loop, and failed or misunderstood no capture.
THEOREM SilenceIsComplete == Spec => []SilenceMeansComplete
<1>1. PrometheusInv => SilenceMeansComplete
  BY DEF PrometheusInv, EndInv, CapturesInv, Understood, SilenceMeansComplete
<1> QED
  BY <1>1, PrometheusInvariant, PTL

\* collect_prometheus admits all or nothing, before it ends, and never returns
\* without a contribution and without a problem.
THEOREM PrometheusIsEvidenceSource == Spec => IsEvidenceSource
<1>1. Init => Source!Init
  BY DEF Init, Source!Init, WorkingLabels
<1>2. ASSUME PrometheusInv, [Next]_vars
      PROVE  [Source!Next]_(Source!vars)
  <2> USE DEF Source!Next, Source!Admit, Source!Return, Source!Interrupt, Source!vars,
              WorkingLabels, Goto, Return, Record, answer
  <2>1. EndInv
    BY <1>2 DEF PrometheusInv
  <2>2. CASE Prepare \/ NextLoop \/ OpenCapture
    BY <2>1, <2>2 DEF EndInv, Prepare, NextLoop, OpenCapture
  <2>3. CASE Respond \/ Chunk \/ ResponseEnds \/ ServerFails \/ TimesOut
    BY <2>1, <2>3 DEF EndInv, Respond, Chunk, ResponseEnds, ServerFails, TimesOut
  <2>4. CASE CannotCapture \/ CaptureBreaks \/ Escape
    BY <2>1, <2>4 DEF EndInv, CannotCapture, CaptureBreaks, Escape
  <2>5. CASE RecordFailure \/ RecordPlain \/ RecordMalformed
    BY <2>1, <2>5 DEF EndInv, RecordFailure, RecordPlain, RecordMalformed
  <2>6. CASE RecordJobs
    BY <2>1, <2>6 DEF EndInv, RecordJobs
  <2>7. CASE RecordMetrics
    BY <2>1, <2>7 DEF EndInv, RecordMetrics
  <2>8. CASE Promote
    BY <2>1, <2>8 DEF EndInv, Promote
  <2>9. CASE CannotPromote \/ TidyStaging
    BY <2>1, <2>9 DEF EndInv, CannotPromote, TidyStaging
  <2>10. CASE Keystroke
    BY <2>1, <2>10 DEF EndInv, Keystroke
  <2>11. CASE UNCHANGED vars
    BY <2>11 DEF vars
  <2> QED
    BY <1>2, <2>2, <2>3, <2>4, <2>5, <2>6, <2>7, <2>8, <2>9, <2>10, <2>11
       DEF Next, Client, Server
<1> QED
  BY <1>1, <1>2, PrometheusInvariant, PTL DEF Spec, IsEvidenceSource, Source!Spec

-----------------------------------------------------------------------------
(* How often a value occurs in a sequence. *)

Hits(s, x)  == {p \in DOMAIN s : s[p] = x}
Count(s, x) == Cardinality(Hits(s, x))

LEMMA PartIsFinite ==
  ASSUME NEW n \in Nat, NEW P, P \subseteq 1 .. n
  PROVE  IsFiniteSet(P) /\ Cardinality(P) \in Nat
<1>1. IsFiniteSet(1 .. n)
  BY FS_Interval
<1>2. IsFiniteSet(P)
  BY <1>1, FS_Subset
<1> QED BY <1>2, FS_CardinalityType

LEMMA HitsAreFinite ==
  ASSUME NEW T, NEW s \in Seq(T), NEW x
  PROVE  IsFiniteSet(Hits(s, x)) /\ Count(s, x) \in Nat
<1>1. Len(s) \in Nat /\ Hits(s, x) \subseteq 1 .. Len(s)
  BY DEF Hits
<1> QED BY <1>1, PartIsFinite DEF Count

\* A part of 1 .. n + 1 counts n + 1, or does not.
LEMMA OneMore ==
  ASSUME NEW n \in Nat, NEW P, NEW Q, P \subseteq 1 .. n,
         Q = P \/ Q = P \cup {n + 1}
  PROVE  Cardinality(Q) = IF n + 1 \in Q THEN Cardinality(P) + 1 ELSE Cardinality(P)
<1>1. IsFiniteSet(P) /\ Cardinality(P) \in Nat /\ n + 1 \notin P
  <2>1. n + 1 \notin P
    OBVIOUS
  <2> QED BY <2>1, PartIsFinite, Zenon
<1>2. CASE Q = P
  <2>1. n + 1 \notin Q /\ Cardinality(Q) = Cardinality(P)
    BY <1>1, <1>2, Zenon
  <2> QED BY <1>1, <2>1
<1>3. CASE Q = P \cup {n + 1}
  <2>1. Cardinality(Q) = Cardinality(P) + 1 /\ n + 1 \in Q
    BY <1>1, <1>3, FS_AddElement
  <2> QED BY <2>1
<1> QED BY <1>2, <1>3

LEMMA CountOfEmpty == \A x : Count(<<>>, x) = 0
<1>1. ASSUME NEW x PROVE Hits(<<>>, x) = {}
  BY DEF Hits
<1> QED BY <1>1, FS_EmptySet DEF Count

LEMMA CountOfAppend ==
  ASSUME NEW T, NEW s \in Seq(T), NEW y \in T, NEW x
  PROVE  Count(Append(s, y), x) = IF y = x THEN Count(s, x) + 1 ELSE Count(s, x)
<1>1. /\ Len(s) \in Nat /\ DOMAIN Append(s, y) = 1 .. Len(s) + 1 /\ DOMAIN s = 1 .. Len(s)
      /\ \A i \in 1 .. Len(s) : Append(s, y)[i] = s[i]
      /\ Append(s, y)[Len(s) + 1] = y
  OBVIOUS
<1>2. /\ Hits(s, x) \subseteq 1 .. Len(s)
      /\ (Len(s) + 1 \in Hits(Append(s, y), x)) = (y = x)
      /\ Hits(Append(s, y), x) = Hits(s, x) \/ Hits(Append(s, y), x) = Hits(s, x) \cup {Len(s) + 1}
  BY <1>1 DEF Hits
<1> QED BY <1>1, <1>2, OneMore DEF Count

\* Numbers moved by c are as many as before.
LEMMA ShiftedCount ==
  ASSUME NEW n \in Nat, NEW P, P \subseteq 1 .. n, NEW c \in Nat
  PROVE  /\ IsFiniteSet({c + p : p \in P})
         /\ Cardinality({c + p : p \in P}) = Cardinality(P)
<1> DEFINE f == [p \in P |-> c + p]
           Q == {c + p : p \in P}
<1>1. f \in Bijection(P, Q)
  <2>1. f \in [P -> Q] /\ \A q \in Q : \E p \in P : f[p] = q
    OBVIOUS
  <2>2. \A a, b \in P : f[a] = f[b] => a = b
    OBVIOUS
  <2> HIDE DEF f, Q
  <2> QED BY <2>1, <2>2, Fun_IsBij
<1>2. IsFiniteSet(P)
  BY PartIsFinite
<1> HIDE DEF f, Q
<1>3. ExistsBijection(P, Q)
  BY <1>1 DEF ExistsBijection
<1>4. IsFiniteSet(Q) /\ Cardinality(Q) = Cardinality(P)
  BY <1>2, <1>3, FS_Bijection
<1> QED BY <1>4 DEF Q

LEMMA CountOfConcatenation ==
  ASSUME NEW T, NEW s \in Seq(T), NEW t \in Seq(T), NEW x
  PROVE  Count(s \o t, x) = Count(s, x) + Count(t, x)
<1> DEFINE M == {Len(s) + p : p \in Hits(t, x)}
<1>1. /\ Len(s) \in Nat /\ Len(t) \in Nat /\ DOMAIN (s \o t) = 1 .. Len(s) + Len(t)
      /\ DOMAIN s = 1 .. Len(s) /\ DOMAIN t = 1 .. Len(t)
      /\ \A i \in 1 .. Len(s) : (s \o t)[i] = s[i]
      /\ \A i \in 1 .. Len(t) : (s \o t)[Len(s) + i] = t[i]
  OBVIOUS
<1>2. Hits(s, x) \subseteq 1 .. Len(s) /\ Hits(t, x) \subseteq 1 .. Len(t)
  BY <1>1 DEF Hits
<1>3. Hits(s \o t, x) = Hits(s, x) \cup M
  <2>1. ASSUME NEW i \in Hits(s \o t, x) PROVE i \in Hits(s, x) \cup M
    <3>1. CASE i \in 1 .. Len(s)
      BY <3>1, <2>1, <1>1 DEF Hits
    <3>2. CASE i \notin 1 .. Len(s)
      <4>1. i - Len(s) \in 1 .. Len(t) /\ i = Len(s) + (i - Len(s))
        BY <3>2, <2>1, <1>1 DEF Hits
      <4>2. i - Len(s) \in Hits(t, x)
        BY <4>1, <2>1, <1>1 DEF Hits
      <4> QED BY <4>1, <4>2
    <3> QED BY <3>1, <3>2
  <2>2. ASSUME NEW i \in Hits(s, x) PROVE i \in Hits(s \o t, x)
    BY <1>1 DEF Hits
  <2>3. ASSUME NEW p \in Hits(t, x) PROVE Len(s) + p \in Hits(s \o t, x)
    BY <1>1 DEF Hits
  <2> QED BY <2>1, <2>2, <2>3
<1>4. IsFiniteSet(M) /\ Cardinality(M) = Count(t, x)
  BY <1>1, <1>2, ShiftedCount DEF Count
<1>5. Hits(s, x) \cap M = {}
  BY <1>1, <1>2
<1>6. IsFiniteSet(Hits(s, x)) /\ Count(s, x) \in Nat /\ Count(t, x) \in Nat
  BY HitsAreFinite
<1>7. Cardinality(Hits(s, x) \cap M) = 0
  BY <1>5, FS_EmptySet
<1> HIDE DEF M
<1>8. Cardinality(Hits(s, x) \cup M) = Cardinality(Hits(s, x)) + Cardinality(M) - 0
  BY <1>4, <1>6, <1>7, FS_Union
<1> QED BY <1>3, <1>4, <1>6, <1>8 DEF Count

-----------------------------------------------------------------------------
(* What the recursive functions of the model compute. *)

MatchStep(t, x, pattern) == IF x \in pattern THEN Append(t, x) ELSE t
DistinctStep(t, x)       == IF Contains(t, x) THEN t ELSE Append(t, x)

\* MatchesAfter takes the elements one by one.
LEMMA MatchesDefined ==
  ASSUME NEW T, NEW s \in Seq(T), NEW pattern
  PROVE  /\ MatchesAfter(s, pattern) \in [0 .. Len(s) -> Seq(T)]
         /\ MatchesAfter(s, pattern)[0] = <<>>
         /\ \A n \in 1 .. Len(s) : MatchesAfter(s, pattern)[n] = MatchStep(MatchesAfter(s, pattern)[n - 1], s[n], pattern)
<1> DEFINE N    == Len(s)
           S    == Seq(T)
           step == [x \in (1 .. N) \X S |-> MatchStep(x[2], s[x[1]], pattern)]
           R(f) == f = [n \in 0 .. N |->
                          IF n = 0 THEN <<>>
                          ELSE IF s[n] \in pattern THEN Append(f[n - 1], s[n]) ELSE f[n - 1]]
           t    == MatchesAfter(s, pattern)
<1>1. N \in Nat /\ <<>> \in S
  OBVIOUS
<1>2. StaysIn(S, N, step)
  <2>1. ASSUME NEW n \in 1 .. N, NEW x \in S PROVE MatchStep(x, s[n], pattern) \in S
    BY DEF MatchStep
  <2>2. ASSUME NEW n \in 1 .. N, NEW x \in S PROVE step[<<n, x>>] = MatchStep(x, s[n], pattern)
    <3> HIDE DEF N, S
    <3> QED OBVIOUS
  <2> HIDE DEF step, N, S
  <2> QED BY <2>1, <2>2 DEF StaysIn
<1>3. PICK g : Iterates(g, N, S, <<>>, step)
  <2> HIDE DEF step, N, S
  <2> QED BY <1>1, <1>2, IterationExists
<1>4. R(g)
  <2>1. ASSUME NEW n \in 0 .. N
        PROVE  g[n] = IF n = 0 THEN <<>> ELSE MatchStep(g[n - 1], s[n], pattern)
    <3> HIDE DEF N, S
    <3>1. CASE n = 0
      BY <3>1, <1>3 DEF Iterates
    <3>2. CASE n # 0
      <4>1. n \in 1 .. N /\ g[n - 1] \in S
        BY <3>2, <1>1, <1>3 DEF Iterates
      <4>2. g[n] = MatchStep(g[n - 1], s[n], pattern)
        BY <4>1, <1>3 DEF Iterates
      <4> QED BY <3>2, <4>2
    <3> QED BY <3>1, <3>2
  <2>2. g \in [0 .. N -> S]
    BY <1>3 DEF Iterates
  <2> HIDE DEF N, S
  <2> QED BY <2>1, <2>2 DEF MatchStep
<1>5. R(t)
  <2>1. t = CHOOSE f : R(f)
    BY DEF MatchesAfter
  <2> HIDE DEF R, t
  <2> QED BY <1>4, <2>1, Zenon
<1>6. Iterates(t, N, S, <<>>, step)
  <2> HIDE DEF t
  <2>1. t[0] = <<>> /\ t = [n \in 0 .. N |-> t[n]]
    <3> HIDE DEF N
    <3> QED BY <1>1, <1>5
  <2>2. ASSUME NEW n \in 1 .. N, t[n - 1] \in S PROVE t[n] = step[<<n, t[n - 1]>>]
    <3> HIDE DEF N, S
    <3>1. n \in 0 .. N /\ n # 0
      BY <1>1
    <3>2. t[n] = MatchStep(t[n - 1], s[n], pattern)
      BY <3>1, <1>5 DEF MatchStep
    <3> QED BY <2>2, <3>2
  <2> HIDE DEF step, N, S
  <2> QED BY <1>1, <1>2, <2>1, <2>2, IterationIsTyped
<1>7. ASSUME NEW n \in 1 .. N PROVE t[n] = MatchStep(t[n - 1], s[n], pattern)
  <2> HIDE DEF t, N, S
  <2>1. t[n - 1] \in S
    BY <1>1, <1>6 DEF Iterates
  <2> QED BY <2>1, <1>6 DEF Iterates
<1>8. t \in [0 .. N -> S] /\ t[0] = <<>>
  <2> HIDE DEF t, N, S, step
  <2> QED BY <1>6 DEF Iterates
<1> QED BY <1>7, <1>8

\* So does DistinctAfter.
LEMMA DistinctDefined ==
  ASSUME NEW T, NEW s \in Seq(T)
  PROVE  /\ DistinctAfter(s) \in [0 .. Len(s) -> Seq(T)]
         /\ DistinctAfter(s)[0] = <<>>
         /\ \A n \in 1 .. Len(s) : DistinctAfter(s)[n] = DistinctStep(DistinctAfter(s)[n - 1], s[n])
<1> DEFINE N    == Len(s)
           S    == Seq(T)
           step == [x \in (1 .. N) \X S |-> DistinctStep(x[2], s[x[1]])]
           R(f) == f = [n \in 0 .. N |->
                          IF n = 0 THEN <<>>
                          ELSE IF Contains(f[n - 1], s[n]) THEN f[n - 1] ELSE Append(f[n - 1], s[n])]
           t    == DistinctAfter(s)
<1>1. N \in Nat /\ <<>> \in S
  OBVIOUS
<1>2. StaysIn(S, N, step)
  <2>1. ASSUME NEW n \in 1 .. N, NEW x \in S PROVE DistinctStep(x, s[n]) \in S
    BY DEF DistinctStep
  <2>2. ASSUME NEW n \in 1 .. N, NEW x \in S PROVE step[<<n, x>>] = DistinctStep(x, s[n])
    <3> HIDE DEF N, S
    <3> QED OBVIOUS
  <2> HIDE DEF step, N, S
  <2> QED BY <2>1, <2>2 DEF StaysIn
<1>3. PICK g : Iterates(g, N, S, <<>>, step)
  <2> HIDE DEF step, N, S
  <2> QED BY <1>1, <1>2, IterationExists
<1>4. R(g)
  <2>1. ASSUME NEW n \in 0 .. N
        PROVE  g[n] = IF n = 0 THEN <<>> ELSE DistinctStep(g[n - 1], s[n])
    <3> HIDE DEF N, S
    <3>1. CASE n = 0
      BY <3>1, <1>3 DEF Iterates
    <3>2. CASE n # 0
      <4>1. n \in 1 .. N /\ g[n - 1] \in S
        BY <3>2, <1>1, <1>3 DEF Iterates
      <4>2. g[n] = DistinctStep(g[n - 1], s[n])
        BY <4>1, <1>3 DEF Iterates
      <4> QED BY <3>2, <4>2
    <3> QED BY <3>1, <3>2
  <2>2. g \in [0 .. N -> S]
    BY <1>3 DEF Iterates
  <2> HIDE DEF N, S
  <2> QED BY <2>1, <2>2 DEF DistinctStep
<1>5. R(t)
  <2>1. t = CHOOSE f : R(f)
    BY DEF DistinctAfter
  <2> HIDE DEF R, t
  <2> QED BY <1>4, <2>1, Zenon
<1>6. Iterates(t, N, S, <<>>, step)
  <2> HIDE DEF t
  <2>1. t[0] = <<>> /\ t = [n \in 0 .. N |-> t[n]]
    <3> HIDE DEF N
    <3> QED BY <1>1, <1>5
  <2>2. ASSUME NEW n \in 1 .. N, t[n - 1] \in S PROVE t[n] = step[<<n, t[n - 1]>>]
    <3> HIDE DEF N, S
    <3>1. n \in 0 .. N /\ n # 0
      BY <1>1
    <3>2. t[n] = DistinctStep(t[n - 1], s[n])
      BY <3>1, <1>5 DEF DistinctStep
    <3> QED BY <2>2, <3>2
  <2> HIDE DEF step, N, S
  <2> QED BY <1>1, <1>2, <2>1, <2>2, IterationIsTyped
<1>7. ASSUME NEW n \in 1 .. N PROVE t[n] = DistinctStep(t[n - 1], s[n])
  <2> HIDE DEF t, N, S
  <2>1. t[n - 1] \in S
    BY <1>1, <1>6 DEF Iterates
  <2> QED BY <2>1, <1>6 DEF Iterates
<1>8. t \in [0 .. N -> S] /\ t[0] = <<>>
  <2> HIDE DEF t, N, S, step
  <2> QED BY <1>6 DEF Iterates
<1> QED BY <1>7, <1>8

\* PairsAfter takes the jobs one by one.
LEMMA PairsDefined ==
  ASSUME NEW js, Len(js) \in Nat, NEW T, \A n \in 1 .. Len(js) : Row(js[n]) \in Seq(T)
  PROVE  /\ PairsAfter(js) \in [0 .. Len(js) -> Seq(T)]
         /\ PairsAfter(js)[0] = <<>>
         /\ \A n \in 1 .. Len(js) : PairsAfter(js)[n] = PairsAfter(js)[n - 1] \o Row(js[n])
<1> DEFINE N    == Len(js)
           S    == Seq(T)
           step == [x \in (1 .. N) \X S |-> x[2] \o Row(js[x[1]])]
           R(f) == f = [n \in 0 .. N |->
                          IF n = 0 THEN <<>>
                          ELSE f[n - 1] \o Row(js[n])]
           t    == PairsAfter(js)
<1>1. N \in Nat /\ <<>> \in S
  OBVIOUS
<1>2. StaysIn(S, N, step)
  <2>1. ASSUME NEW n \in 1 .. N, NEW x \in S PROVE x \o Row(js[n]) \in S
    OBVIOUS
  <2>2. ASSUME NEW n \in 1 .. N, NEW x \in S PROVE step[<<n, x>>] = x \o Row(js[n])
    <3> HIDE DEF N, S
    <3> QED OBVIOUS
  <2> HIDE DEF step, N, S
  <2> QED BY <2>1, <2>2 DEF StaysIn
<1>3. PICK g : Iterates(g, N, S, <<>>, step)
  <2> HIDE DEF step, N, S
  <2> QED BY <1>1, <1>2, IterationExists
<1>4. R(g)
  <2>1. ASSUME NEW n \in 0 .. N
        PROVE  g[n] = IF n = 0 THEN <<>> ELSE g[n - 1] \o Row(js[n])
    <3> HIDE DEF N, S
    <3>1. CASE n = 0
      BY <3>1, <1>3 DEF Iterates
    <3>2. CASE n # 0
      <4>1. n \in 1 .. N /\ g[n - 1] \in S
        BY <3>2, <1>1, <1>3 DEF Iterates
      <4>2. g[n] = g[n - 1] \o Row(js[n])
        BY <4>1, <1>3 DEF Iterates
      <4> QED BY <3>2, <4>2
    <3> QED BY <3>1, <3>2
  <2>2. g \in [0 .. N -> S]
    BY <1>3 DEF Iterates
  <2> HIDE DEF N, S
  <2> QED BY <2>1, <2>2
<1>5. R(t)
  <2>1. t = CHOOSE f : R(f)
    BY DEF PairsAfter
  <2> HIDE DEF R, t
  <2> QED BY <1>4, <2>1, Zenon
<1>6. Iterates(t, N, S, <<>>, step)
  <2> HIDE DEF t
  <2>1. t[0] = <<>> /\ t = [n \in 0 .. N |-> t[n]]
    <3> HIDE DEF N
    <3> QED BY <1>1, <1>5
  <2>2. ASSUME NEW n \in 1 .. N, t[n - 1] \in S PROVE t[n] = step[<<n, t[n - 1]>>]
    <3> HIDE DEF N, S
    <3>1. n \in 0 .. N /\ n # 0
      BY <1>1
    <3>2. t[n] = t[n - 1] \o Row(js[n])
      BY <3>1, <1>5
    <3> QED BY <2>2, <3>2
  <2> HIDE DEF step, N, S
  <2> QED BY <1>1, <1>2, <2>1, <2>2, IterationIsTyped
<1>7. ASSUME NEW n \in 1 .. N PROVE t[n] = t[n - 1] \o Row(js[n])
  <2> HIDE DEF t, N, S
  <2>1. t[n - 1] \in S
    BY <1>1, <1>6 DEF Iterates
  <2> QED BY <2>1, <1>6 DEF Iterates
<1>8. t \in [0 .. N -> S] /\ t[0] = <<>>
  <2> HIDE DEF t, N, S, step
  <2> QED BY <1>6 DEF Iterates
<1> QED BY <1>7, <1>8

Found(s, n, x)           == {p \in 1 .. n : s[p] = x}
Selection(s, n, pattern) == {p \in 1 .. n : s[p] \in pattern}

\* A position counts for its own value.
LEMMA NextFound ==
  ASSUME NEW s, NEW n \in Nat, NEW x
  PROVE  /\ Cardinality(Found(s, n, x)) \in Nat
         /\ Cardinality(Found(s, n + 1, x)) = IF s[n + 1] = x THEN Cardinality(Found(s, n, x)) + 1
                                              ELSE Cardinality(Found(s, n, x))
<1>1. /\ Found(s, n, x) \subseteq 1 .. n
      /\ (n + 1 \in Found(s, n + 1, x)) = (s[n + 1] = x)
      /\ \/ Found(s, n + 1, x) = Found(s, n, x)
         \/ Found(s, n + 1, x) = Found(s, n, x) \cup {n + 1}
  BY DEF Found
<1>2. Cardinality(Found(s, n + 1, x)) = IF n + 1 \in Found(s, n + 1, x)
         THEN Cardinality(Found(s, n, x)) + 1 ELSE Cardinality(Found(s, n, x))
  BY <1>1, OneMore
<1> QED BY <1>1, <1>2, PartIsFinite

\* A pattern keeps all the occurrences of what it finds, and nothing else.
LEMMA MatchesCount ==
  ASSUME NEW T, NEW s \in Seq(T), NEW pattern
  PROVE  /\ Matches(s, pattern) \in Seq(T)
         /\ \A x : Count(Matches(s, pattern), x) = IF x \in pattern THEN Count(s, x) ELSE 0
<1> DEFINE N == Len(s)
           t == MatchesAfter(s, pattern)
           Kept(n, x) == IF x \in pattern THEN Cardinality(Found(s, n, x)) ELSE 0
           U == {n \in 0 .. N : \A x : Count(t[n], x) = Kept(n, x)}
<1>1. /\ N \in Nat /\ t \in [0 .. N -> Seq(T)] /\ t[0] = <<>>
      /\ \A n \in 1 .. N : t[n] = MatchStep(t[n - 1], s[n], pattern) /\ s[n] \in T
  BY MatchesDefined
<1> HIDE DEF t
<1>2. 0 \in U
  <2>1. \A x : Found(s, 0, x) = {}
    BY DEF Found
  <2>2. \A x : Cardinality(Found(s, 0, x)) = 0
    BY <2>1, FS_EmptySet
  <2>3. ASSUME NEW x PROVE Count(t[0], x) = Kept(0, x)
    BY <1>1, <2>2, CountOfEmpty
  <2> QED BY <1>1, <2>3
<1>3. ASSUME NEW n \in 0 .. N - 1, n \in U PROVE n + 1 \in U
  <2>1. /\ n \in Nat /\ n \in 0 .. N /\ n + 1 \in 0 .. N /\ n + 1 \in 1 .. N /\ (n + 1) - 1 = n
    BY <1>1
  <2>2. t[n] \in Seq(T) /\ s[n + 1] \in T /\ t[n + 1] = MatchStep(t[n], s[n + 1], pattern)
    BY <1>1, <2>1
  <2>3. ASSUME NEW x PROVE Count(t[n + 1], x) = Kept(n + 1, x)
    <3>1. Count(t[n], x) = Kept(n, x)
      BY <1>3
    <3>2. /\ Cardinality(Found(s, n, x)) \in Nat
          /\ Cardinality(Found(s, n + 1, x)) = IF s[n + 1] = x
               THEN Cardinality(Found(s, n, x)) + 1 ELSE Cardinality(Found(s, n, x))
      BY <2>1, NextFound
    <3>3. CASE s[n + 1] \in pattern
      <4>1. Count(t[n + 1], x) = IF s[n + 1] = x THEN Count(t[n], x) + 1 ELSE Count(t[n], x)
        BY <2>2, <3>3, CountOfAppend DEF MatchStep
      <4> QED BY <3>1, <3>2, <3>3, <4>1
    <3>4. CASE s[n + 1] \notin pattern
      <4>1. Count(t[n + 1], x) = Count(t[n], x)
        BY <2>2, <3>4 DEF MatchStep
      <4> QED BY <3>1, <3>2, <3>4, <4>1
    <3> QED BY <3>3, <3>4
  <2> QED BY <2>1, <2>3
<1>4. 0 .. N \subseteq U
  <2> HIDE DEF U, N
  <2> QED BY <1>1, <1>2, <1>3, PrefixInduction
<1>5. Matches(s, pattern) = t[N]
  BY DEF Matches, t
<1>6. \A x : Found(s, N, x) = Hits(s, x)
  BY DEF Found, Hits
<1>7. t[N] \in Seq(T) /\ N \in U
  BY <1>1, <1>4
<1> QED BY <1>5, <1>6, <1>7 DEF Count

\* The elements a pattern finds, numbered as they come.
LEMMA MatchesNumbered ==
  ASSUME NEW T, NEW s \in Seq(T), NEW pattern
  PROVE  {<<i, Matches(s, pattern)[i]>> : i \in DOMAIN Matches(s, pattern)}
           = {<<Cardinality(Selection(s, p, pattern)), s[p]>> : p \in Selection(s, Len(s), pattern)}
<1> DEFINE N == Len(s)
           t == MatchesAfter(s, pattern)
           Sel(n) == Selection(s, n, pattern)
           Has(n) == {<<i, t[n][i]>> : i \in DOMAIN t[n]}
           Wants(n) == {<<Cardinality(Sel(p)), s[p]>> : p \in Sel(n)}
           Fits(n) == Len(t[n]) = Cardinality(Sel(n)) /\ Has(n) = Wants(n)
           U == {n \in 0 .. N : Fits(n)}
<1>1. /\ N \in Nat /\ t \in [0 .. N -> Seq(T)] /\ t[0] = <<>>
      /\ \A n \in 1 .. N : t[n] = MatchStep(t[n - 1], s[n], pattern) /\ s[n] \in T
  BY MatchesDefined
<1> HIDE DEF t
<1>2. 0 \in U
  <2>1. Sel(0) = {} /\ Has(0) = {}
    BY <1>1 DEF Selection
  <2>2. Cardinality(Sel(0)) = 0 /\ Wants(0) = {} /\ Len(t[0]) = 0
    BY <1>1, <2>1, FS_EmptySet
  <2>3. Fits(0)
    <3> HIDE DEF Has, Wants, Sel
    <3> QED BY <2>1, <2>2
  <2> HIDE DEF Fits
  <2> QED BY <1>1, <2>3
<1>3. ASSUME NEW n \in 0 .. N - 1, n \in U PROVE n + 1 \in U
  <2>1. /\ n \in Nat /\ n \in 0 .. N /\ n + 1 \in 0 .. N /\ n + 1 \in 1 .. N /\ (n + 1) - 1 = n
    BY <1>1
  <2>2. t[n] \in Seq(T) /\ s[n + 1] \in T /\ t[n + 1] = MatchStep(t[n], s[n + 1], pattern)
    BY <1>1, <2>1
  <2>3. /\ Sel(n) \subseteq 1 .. n
        /\ Sel(n + 1) = IF s[n + 1] \in pattern THEN Sel(n) \cup {n + 1} ELSE Sel(n)
    BY <2>1 DEF Selection
  <2>4. Len(t[n]) = Cardinality(Sel(n)) /\ Has(n) = Wants(n) /\ Len(t[n]) \in Nat
    BY <1>3, <2>2
  <2>5. ASSUME s[n + 1] \notin pattern PROVE Fits(n + 1)
    <3>1. t[n + 1] = t[n] /\ Sel(n + 1) = Sel(n)
      BY <2>2, <2>3, <2>5 DEF MatchStep
    <3>2. Has(n + 1) = Has(n) /\ Wants(n + 1) = Wants(n)
      BY <3>1
    <3> HIDE DEF Has, Wants, Sel
    <3> QED BY <2>4, <3>1, <3>2
  <2>6. ASSUME s[n + 1] \in pattern PROVE Fits(n + 1)
    <3>1. t[n + 1] = Append(t[n], s[n + 1]) /\ Sel(n + 1) = Sel(n) \cup {n + 1}
      BY <2>2, <2>3, <2>6 DEF MatchStep
    <3>2. Cardinality(Sel(n + 1)) = Cardinality(Sel(n)) + 1
      <4>1. n + 1 \in Sel(n + 1)
        BY <3>1
      <4> HIDE DEF Sel
      <4> QED BY <2>1, <2>3, <3>1, <4>1, OneMore
    <3>3. /\ Len(t[n + 1]) = Len(t[n]) + 1
          /\ DOMAIN t[n] = 1 .. Len(t[n]) /\ DOMAIN t[n + 1] = 1 .. Len(t[n]) + 1
          /\ \A i \in 1 .. Len(t[n]) : t[n + 1][i] = t[n][i]
          /\ t[n + 1][Len(t[n]) + 1] = s[n + 1]
      BY <2>2, <3>1
    <3>4. Has(n + 1) = Has(n) \cup {<<Len(t[n]) + 1, s[n + 1]>>}
      <4>1. ASSUME NEW i \in DOMAIN t[n + 1]
            PROVE  <<i, t[n + 1][i]>> \in Has(n) \cup {<<Len(t[n]) + 1, s[n + 1]>>}
        <5>1. CASE i = Len(t[n]) + 1
          BY <3>3, <5>1
        <5>2. CASE i # Len(t[n]) + 1
          <6>1. i \in DOMAIN t[n] /\ t[n + 1][i] = t[n][i]
            BY <2>4, <3>3, <5>2
          <6> QED BY <6>1
        <5> QED BY <5>1, <5>2
      <4>2. ASSUME NEW i \in DOMAIN t[n] PROVE <<i, t[n][i]>> \in Has(n + 1)
        <5>1. i \in DOMAIN t[n + 1] /\ t[n + 1][i] = t[n][i]
          BY <2>4, <3>3
        <5> QED BY <5>1
      <4>3. <<Len(t[n]) + 1, s[n + 1]>> \in Has(n + 1)
        <5>1. Len(t[n]) + 1 \in DOMAIN t[n + 1]
          BY <2>4, <3>3
        <5> QED BY <3>3, <5>1
      <4> QED BY <4>1, <4>2, <4>3
    <3>5. Wants(n + 1) = Wants(n) \cup {<<Cardinality(Sel(n + 1)), s[n + 1]>>}
      <4> HIDE DEF Sel
      <4> QED BY <3>1
    <3> HIDE DEF Has, Wants, Sel
    <3> QED BY <2>4, <3>2, <3>3, <3>4, <3>5
  <2>7. Fits(n + 1)
    BY <2>5, <2>6
  <2> HIDE DEF Fits
  <2> QED BY <2>1, <2>7
<1>4. 0 .. N \subseteq U
  <2> HIDE DEF U, N
  <2> QED BY <1>1, <1>2, <1>3, PrefixInduction
<1>5. Matches(s, pattern) = t[N]
  BY DEF Matches, t
<1>6. N \in U
  BY <1>1, <1>4
<1> QED BY <1>5, <1>6

LEMMA ContainsAppended ==
  ASSUME NEW T, NEW s \in Seq(T), NEW y \in T, NEW x
  PROVE  Contains(Append(s, y), x) <=> Contains(s, x) \/ y = x
<1>1. /\ Len(s) \in Nat /\ Len(Append(s, y)) = Len(s) + 1
      /\ \A i \in 1 .. Len(s) : Append(s, y)[i] = s[i]
      /\ Append(s, y)[Len(s) + 1] = y
  OBVIOUS
<1>2. ASSUME Contains(Append(s, y), x) PROVE Contains(s, x) \/ y = x
  BY <1>1, <1>2 DEF Contains
<1>3. ASSUME Contains(s, x) \/ y = x PROVE Contains(Append(s, y), x)
  <2>1. \A i \in 1 .. Len(s) + 1 : Append(s, y)[i] = x => Contains(Append(s, y), x)
    BY <1>1 DEF Contains
  <2>2. CASE y = x
    BY <1>1, <2>1, <2>2
  <2>3. CASE Contains(s, x)
    <3>1. PICK i \in 1 .. Len(s) : s[i] = x
      BY <2>3 DEF Contains
    <3> QED BY <1>1, <2>1, <3>1
  <2> QED BY <1>3, <2>2, <2>3
<1> QED BY <1>2, <1>3

\* Of equal elements one stays, and of every element one.
LEMMA DistinctCount ==
  ASSUME NEW T, NEW s \in Seq(T)
  PROVE  /\ Distinct(s) \in Seq(T)
         /\ \A x : /\ Contains(Distinct(s), x) <=> Contains(s, x)
                   /\ Count(Distinct(s), x) = IF Contains(s, x) THEN 1 ELSE 0
<1> DEFINE N == Len(s)
           t == DistinctAfter(s)
           Seen(n, x) == \E p \in 1 .. n : s[p] = x
           Fits(n, x) == /\ Contains(t[n], x) <=> Seen(n, x)
                         /\ Count(t[n], x) = IF Seen(n, x) THEN 1 ELSE 0
           U == {n \in 0 .. N : \A x : Fits(n, x)}
<1>1. /\ N \in Nat /\ t \in [0 .. N -> Seq(T)] /\ t[0] = <<>>
      /\ \A n \in 1 .. N : t[n] = DistinctStep(t[n - 1], s[n]) /\ s[n] \in T
  BY DistinctDefined
<1> HIDE DEF t
<1>2. 0 \in U
  <2>1. ASSUME NEW x PROVE Fits(0, x)
    <3>1. ~Seen(0, x) /\ ~Contains(t[0], x) /\ Count(t[0], x) = 0
      BY <1>1, CountOfEmpty DEF Contains
    <3> HIDE DEF Seen
    <3> QED BY <3>1
  <2> HIDE DEF Fits
  <2> QED BY <1>1, <2>1
<1>3. ASSUME NEW n \in 0 .. N - 1, n \in U PROVE n + 1 \in U
  <2>1. /\ n \in Nat /\ n \in 0 .. N /\ n + 1 \in 0 .. N /\ n + 1 \in 1 .. N /\ (n + 1) - 1 = n
    BY <1>1
  <2>2. t[n] \in Seq(T) /\ s[n + 1] \in T /\ t[n + 1] = DistinctStep(t[n], s[n + 1])
    BY <1>1, <2>1
  <2>3. ASSUME NEW x
        PROVE  Fits(n + 1, x)
    <3>1. Fits(n, x) /\ Fits(n, s[n + 1])
      <4> HIDE DEF Fits
      <4> QED BY <1>3
    <3>2. Seen(n + 1, x) <=> Seen(n, x) \/ s[n + 1] = x
      <4>1. \A p \in 1 .. n : p \in 1 .. n + 1
        BY <2>1
      <4>2. \A p \in 1 .. n + 1 : p \in 1 .. n \/ p = n + 1
        BY <2>1
      <4> QED BY <2>1, <4>1, <4>2
    <3>3. CASE Contains(t[n], s[n + 1])
      <4>1. t[n + 1] = t[n]
        BY <2>2, <3>3 DEF DistinctStep
      <4>2. s[n + 1] = x => Seen(n, x)
        <5> HIDE DEF Seen
        <5> QED BY <3>1, <3>3
      <4> HIDE DEF Seen
      <4> QED BY <3>1, <3>2, <4>1, <4>2
    <3>4. CASE ~Contains(t[n], s[n + 1])
      <4>1. t[n + 1] = Append(t[n], s[n + 1])
        BY <2>2, <3>4 DEF DistinctStep
      <4>2. Count(t[n + 1], x) = IF s[n + 1] = x THEN Count(t[n], x) + 1 ELSE Count(t[n], x)
        BY <2>2, <4>1, CountOfAppend
      <4>3. Contains(t[n + 1], x) <=> Contains(t[n], x) \/ s[n + 1] = x
        BY <2>2, <4>1, ContainsAppended
      <4>4. s[n + 1] = x => ~Seen(n, x)
        <5> HIDE DEF Seen
        <5> QED BY <3>1, <3>4
      <4> HIDE DEF Seen
      <4> QED BY <3>1, <3>2, <4>2, <4>3, <4>4
    <3> QED BY <3>3, <3>4
  <2> HIDE DEF Fits
  <2> QED BY <2>1, <2>3
<1>4. 0 .. N \subseteq U
  <2> HIDE DEF U, N
  <2> QED BY <1>1, <1>2, <1>3, PrefixInduction
<1>5. Distinct(s) = t[N]
  BY DEF Distinct, t
<1>6. \A x : Seen(N, x) <=> Contains(s, x)
  BY DEF Contains
<1>7. t[N] \in Seq(T) /\ N \in U
  <2> HIDE DEF U
  <2> QED BY <1>1, <1>4
<1>8. \A x : Fits(N, x)
  <2> HIDE DEF Fits
  <2> QED BY <1>7
<1> HIDE DEF Seen
<1> QED BY <1>5, <1>6, <1>7, <1>8

-----------------------------------------------------------------------------
(* The pairs that ranges are asked of. *)

JobMetrics == [job : STRING, metrics : Seq(STRING)]

Once(s) == \A x : Count(s, x) = IF Contains(s, x) THEN 1 ELSE 0

LEMMA RowCount ==
  ASSUME NEW j \in JobMetrics, Once(j.metrics)
  PROVE  /\ Row(j) \in Seq(STRING \X STRING)
         /\ \A a, m : Count(Row(j), <<a, m>>)
              = IF m \in Matching /\ j.job = a /\ Contains(j.metrics, m) THEN 1 ELSE 0
<1> DEFINE names == Matches(j.metrics, Matching)
<1>1. /\ names \in Seq(STRING) /\ j.job \in STRING /\ j.metrics \in Seq(STRING)
      /\ \A m : Count(names, m) = IF m \in Matching THEN Count(j.metrics, m) ELSE 0
  BY MatchesCount DEF JobMetrics
<1>2. Row(j) = [k \in DOMAIN names |-> <<j.job, names[k]>>]
  BY DEF Row
<1> HIDE DEF names
<1>3. Row(j) \in Seq(STRING \X STRING)
  <2>1. Len(names) \in Nat /\ DOMAIN names = 1 .. Len(names)
        /\ \A k \in 1 .. Len(names) : names[k] \in STRING
    BY <1>1
  <2> QED BY <1>1, <1>2, <2>1
<1>4. ASSUME NEW a, NEW m
      PROVE  Count(Row(j), <<a, m>>)
               = IF m \in Matching /\ j.job = a /\ Contains(j.metrics, m) THEN 1 ELSE 0
  <2>1. CASE j.job = a
    <3>1. Hits(Row(j), <<a, m>>) = Hits(names, m)
      BY <1>2, <2>1 DEF Hits
    <3>2. Count(Row(j), <<a, m>>) = Count(names, m)
      BY <3>1 DEF Count
    <3> QED BY <1>1, <2>1, <3>2 DEF Once
  <2>2. CASE j.job # a
    <3>1. Hits(Row(j), <<a, m>>) = {}
      BY <1>2, <2>2 DEF Hits
    <3> QED BY <2>2, <3>1, FS_EmptySet DEF Count
  <2> QED BY <2>1, <2>2
<1> QED BY <1>3, <1>4

NamedBy(js, n, a, m) == {k \in 1 .. n : js[k].job = a /\ Contains(js[k].metrics, m)}

\* A pair comes as often as jobs name it.
LEMMA PairsCount ==
  ASSUME NEW js \in Seq(JobMetrics), \A n \in 1 .. Len(js) : Once(js[n].metrics)
  PROVE  /\ PairsAfter(js)[Len(js)] \in Seq(STRING \X STRING)
         /\ \A a, m : Count(PairsAfter(js)[Len(js)], <<a, m>>)
              = IF m \in Matching THEN Cardinality(NamedBy(js, Len(js), a, m)) ELSE 0
<1> DEFINE N == Len(js)
           S == STRING \X STRING
           t == PairsAfter(js)
           Wanted(n, a, m) == IF m \in Matching THEN Cardinality(NamedBy(js, n, a, m)) ELSE 0
           U == {n \in 0 .. N : \A a, m : Count(t[n], <<a, m>>) = Wanted(n, a, m)}
<1>0. /\ N \in Nat /\ \A n \in 1 .. N : js[n] \in JobMetrics /\ Row(js[n]) \in Seq(S)
  BY RowCount
<1>1. /\ t \in [0 .. N -> Seq(S)] /\ t[0] = <<>>
      /\ \A n \in 1 .. N : t[n] = t[n - 1] \o Row(js[n])
  BY <1>0, PairsDefined
<1> HIDE DEF t, S
<1>2. 0 \in U
  <2>1. ASSUME NEW a, NEW m PROVE Count(t[0], <<a, m>>) = Wanted(0, a, m)
    <3>1. NamedBy(js, 0, a, m) = {}
      BY DEF NamedBy
    <3> QED BY <1>1, <3>1, CountOfEmpty, FS_EmptySet
  <2> HIDE DEF Wanted
  <2> QED BY <1>0, <2>1
<1>3. ASSUME NEW n \in 0 .. N - 1, n \in U PROVE n + 1 \in U
  <2>1. /\ n \in Nat /\ n \in 0 .. N /\ n + 1 \in 0 .. N /\ n + 1 \in 1 .. N /\ (n + 1) - 1 = n
    BY <1>0
  <2>2. t[n] \in Seq(S) /\ Row(js[n + 1]) \in Seq(S) /\ t[n + 1] = t[n] \o Row(js[n + 1])
    BY <1>0, <1>1, <2>1
  <2>3. ASSUME NEW a, NEW m PROVE Count(t[n + 1], <<a, m>>) = Wanted(n + 1, a, m)
    <3> DEFINE new == js[n + 1].job = a /\ Contains(js[n + 1].metrics, m)
               P == NamedBy(js, n, a, m)
               Q == NamedBy(js, n + 1, a, m)
    <3>1. Count(t[n], <<a, m>>) = IF m \in Matching THEN Cardinality(P) ELSE 0
      BY <1>3
    <3>2. Count(Row(js[n + 1]), <<a, m>>) = IF m \in Matching /\ new THEN 1 ELSE 0
      BY <1>0, <2>1, RowCount
    <3>3. Count(t[n + 1], <<a, m>>) = Count(t[n], <<a, m>>) + Count(Row(js[n + 1]), <<a, m>>)
      BY <2>2, CountOfConcatenation
    <3>4. P \subseteq 1 .. n /\ (n + 1 \in Q <=> new) /\ (Q = P \/ Q = P \cup {n + 1})
      BY <2>1 DEF NamedBy
    <3> HIDE DEF new, P, Q
    <3>5. /\ Cardinality(P) \in Nat
          /\ Cardinality(Q) = IF n + 1 \in Q THEN Cardinality(P) + 1 ELSE Cardinality(P)
      BY <2>1, <3>4, OneMore, PartIsFinite
    <3>6. Count(t[n + 1], <<a, m>>) = IF m \in Matching THEN Cardinality(Q) ELSE 0
      BY <3>1, <3>2, <3>3, <3>4, <3>5
    <3> QED BY <3>6 DEF Q
  <2> HIDE DEF Wanted
  <2> QED BY <2>1, <2>3
<1>4. 0 .. N \subseteq U
  <2> HIDE DEF U, N
  <2> QED BY <1>0, <1>2, <1>3, PrefixInduction
<1>5. N \in 0 .. N
  BY <1>0
<1>6. t[N] \in Seq(S) /\ N \in U
  <2> HIDE DEF U
  <2> QED BY <1>1, <1>4, <1>5
<1> QED BY <1>6 DEF t, S

-----------------------------------------------------------------------------
(* The plan: the requests that the answers so far call for, in order. *)

Kinds    == {"buildinfo", "targets", "job-values", "metric-names", "query-range"}
Outcomes == {"fine", "listed", "failed", "malformed"}

RequestShape == [kind : Kinds, number : Nat, job : STRING, metric : STRING]
CaptureShape == [request : RequestShape, outcome : Outcomes, list : Seq(STRING)]

Pairs == PairsAfter(jobs)[Len(jobs)]

NamesIn(cs) == IF Len(cs) >= 3 THEN Matches(cs[3].list, SelectedJobs) ELSE <<>>

Named == NamesIn(captures)

Planned ==
  [i \in Nat |->
     IF i <= 3 THEN Controls[i]
     ELSE IF i <= 3 + Len(Named) THEN Discoveries(Named)[i - 3]
     ELSE Ranges[i - (3 + Len(Named))]]

Extent == 3 + Len(Named) + (IF stage = "ranges" THEN Len(Ranges) ELSE 0)

ShapeInv ==
  /\ captures \in Seq(CaptureShape) /\ left \in Seq(RequestShape)
  /\ stage \in {"discoveries", "ranges"}
  /\ ppc \in {"connect", "read", "judge"} => left # <<>>

\* The captures are the plan as far as it is worked off, and what is left is the
\* rest of it; ranges are planned when every discovery has been made.
PlanInv ==
  /\ Len(captures) + Len(left) = Extent
  /\ \A i \in DOMAIN captures : captures[i].request = Planned[i]
  /\ \A n \in DOMAIN left : left[n] = Planned[Len(captures) + n]
  /\ stage = "ranges" => Len(captures) >= 3 + Len(Named)

NamingIn(cs, j, m) ==
  {i \in DOMAIN cs : /\ cs[i].request.kind = "metric-names" /\ cs[i].request.job = j
                     /\ Contains(cs[i].list, m)}

\* The jobs and their metrics are what the discoveries named, each metric once.
JobsInv ==
  /\ jobs \in Seq(JobMetrics)
  /\ \A k \in 1 .. Len(jobs) : Once(jobs[k].metrics)
  /\ \A j, m : Cardinality(NamedBy(jobs, Len(jobs), j, m)) = Cardinality(NamingIn(captures, j, m))

LEMMA ControlsAre ==
  /\ Controls \in Seq(RequestShape) /\ Len(Controls) = 3
  /\ Controls[1].kind = "buildinfo" /\ Controls[2].kind = "targets"
  /\ Controls[3].kind = "job-values"
  /\ \A i \in {1, 2, 3} : Controls[i] \in RequestShape
<1>1. NoName \in STRING
  BY ListsShape
<1> DEFINE a == Control("buildinfo")
           b == Control("targets")
           c == Control("job-values")
<1>2. a \in RequestShape /\ a.kind = "buildinfo"
  BY <1>1 DEF Control, Request, RequestShape, Kinds
<1>3. b \in RequestShape /\ b.kind = "targets"
  BY <1>1 DEF Control, Request, RequestShape, Kinds
<1>4. c \in RequestShape /\ c.kind = "job-values"
  BY <1>1 DEF Control, Request, RequestShape, Kinds
<1>5. Controls = <<a, b, c>>
  BY DEF Controls
<1> HIDE DEF a, b, c
<1> QED BY <1>2, <1>3, <1>4, <1>5

LEMMA DiscoveriesAre ==
  ASSUME NEW names \in Seq(STRING)
  PROVE  /\ Discoveries(names) \in Seq(RequestShape) /\ Len(Discoveries(names)) = Len(names)
         /\ \A i \in 1 .. Len(names) :
               /\ Discoveries(names)[i].kind = "metric-names"
               /\ Discoveries(names)[i].number = i /\ Discoveries(names)[i].job = names[i]
<1>1. NoName \in STRING
  BY ListsShape
<1>2. /\ Len(names) \in Nat /\ DOMAIN names = 1 .. Len(names)
      /\ Discoveries(names) = [i \in 1 .. Len(names) |-> Request("metric-names", i, names[i], NoName)]
  BY DEF Discoveries
<1>3. ASSUME NEW i \in 1 .. Len(names)
      PROVE  LET r == Request("metric-names", i, names[i], NoName)
             IN  r \in RequestShape /\ r.kind = "metric-names" /\ r.number = i /\ r.job = names[i]
  <2>1. names[i] \in STRING /\ i \in Nat
    BY <1>2
  <2> DEFINE r == Request("metric-names", i, names[i], NoName)
  <2>2. r = Request("metric-names", i, names[i], NoName)
    OBVIOUS
  <2> HIDE DEF r
  <2>k. "metric-names" \in Kinds
    BY DEF Kinds
  <2>3. r \in RequestShape /\ r.kind = "metric-names" /\ r.number = i /\ r.job = names[i]
    BY <1>1, <2>1, <2>2, <2>k DEF Request, RequestShape
  <2> QED BY <2>3 DEF r
<1> QED BY <1>2, <1>3

LEMMA RangesAre ==
  ASSUME JobsInv
  PROVE  /\ Pairs \in Seq(STRING \X STRING)
         /\ Ranges \in Seq(RequestShape) /\ Len(Ranges) = Len(Pairs)
         /\ \A i \in 1 .. Len(Pairs) :
               /\ Ranges[i].kind = "query-range" /\ Ranges[i].number = i
               /\ Ranges[i].job = Pairs[i][1] /\ Ranges[i].metric = Pairs[i][2]
<1>1. Pairs \in Seq(STRING \X STRING)
  BY PairsCount DEF JobsInv, Pairs
<1>2. Ranges = [i \in DOMAIN Pairs |-> Request("query-range", i, Pairs[i][1], Pairs[i][2])]
  BY DEF Ranges, Pairs
<1> DEFINE P == Pairs
<1>3. P \in Seq(STRING \X STRING) /\ Ranges = [i \in 1 .. Len(P) |-> Request("query-range", i, P[i][1], P[i][2])]
  BY <1>1, <1>2
<1>4. ASSUME NEW i \in 1 .. Len(P)
      PROVE  LET r == Request("query-range", i, P[i][1], P[i][2])
             IN  /\ r \in RequestShape /\ r.kind = "query-range" /\ r.number = i
                 /\ r.job = P[i][1] /\ r.metric = P[i][2]
  <2> HIDE DEF P
  <2>1. P[i] \in STRING \X STRING /\ i \in Nat
    BY <1>3
  <2>2. P[i][1] \in STRING /\ P[i][2] \in STRING
    BY <2>1
  <2> DEFINE r == Request("query-range", i, P[i][1], P[i][2])
  <2>3. r = Request("query-range", i, P[i][1], P[i][2])
    OBVIOUS
  <2> HIDE DEF r
  <2>k. "query-range" \in Kinds
    BY DEF Kinds
  <2>4. /\ r \in RequestShape /\ r.kind = "query-range" /\ r.number = i
        /\ r.job = P[i][1] /\ r.metric = P[i][2]
    BY <2>1, <2>2, <2>3, <2>k DEF Request, RequestShape
  <2> QED BY <2>4 DEF r
<1>5. Ranges \in Seq(RequestShape) /\ Len(Ranges) = Len(P)
  <2> HIDE DEF P
  <2>1. Len(P) \in Nat
    BY <1>3
  <2> QED BY <1>3, <1>4, <2>1
<1>6. ASSUME NEW i \in 1 .. Len(P)
      PROVE  /\ Ranges[i].kind = "query-range" /\ Ranges[i].number = i
             /\ Ranges[i].job = P[i][1] /\ Ranges[i].metric = P[i][2]
  <2> HIDE DEF P
  <2> QED BY <1>3, <1>4
<1> QED BY <1>1, <1>5, <1>6

LEMMA NamedIsTyped ==
  ASSUME NEW cs \in Seq(CaptureShape)
  PROVE  NamesIn(cs) \in Seq(STRING) /\ Len(NamesIn(cs)) \in Nat
<1>1. CASE Len(cs) >= 3
  <2>1. Len(cs) \in Nat /\ 3 \in DOMAIN cs
    BY <1>1
  <2>2. cs[3] \in CaptureShape
    BY <2>1
  <2>3. cs[3].list \in Seq(STRING)
    BY <2>2 DEF CaptureShape
  <2>4. Matches(cs[3].list, SelectedJobs) \in Seq(STRING)
    BY <2>3, MatchesCount
  <2> QED BY <1>1, <2>4 DEF NamesIn
<1>2. CASE ~(Len(cs) >= 3)
  BY <1>2 DEF NamesIn
<1> QED BY <1>1, <1>2

\* The plan, kind by kind.
LEMMA PlanKinds ==
  ASSUME ShapeInv, JobsInv, NEW i \in 1 .. Extent
  PROVE  /\ Planned[i] \in RequestShape
         /\ i = 1 => Planned[i].kind = "buildinfo"
         /\ i = 2 => Planned[i].kind = "targets"
         /\ i = 3 => Planned[i].kind = "job-values"
         /\ i \in 4 .. 3 + Len(Named) =>
              /\ Planned[i].kind = "metric-names" /\ Planned[i].number = i - 3
              /\ Planned[i].job = Named[i - 3]
         /\ i > 3 + Len(Named) =>
              /\ stage = "ranges" /\ i - (3 + Len(Named)) \in 1 .. Len(Pairs)
              /\ Planned[i].kind = "query-range" /\ Planned[i].number = i - (3 + Len(Named))
              /\ Planned[i].job = Pairs[i - (3 + Len(Named))][1]
              /\ Planned[i].metric = Pairs[i - (3 + Len(Named))][2]
<1> DEFINE n == Len(Named)
<1>1. Named \in Seq(STRING) /\ n \in Nat
  BY NamedIsTyped DEF ShapeInv, Named
<1>2. /\ Ranges \in Seq(RequestShape) /\ Len(Ranges) = Len(Pairs) /\ Len(Pairs) \in Nat
      /\ \A k \in 1 .. Len(Pairs) :
            /\ Ranges[k].kind = "query-range" /\ Ranges[k].number = k
            /\ Ranges[k].job = Pairs[k][1] /\ Ranges[k].metric = Pairs[k][2]
  BY RangesAre
<1>3. /\ stage = "ranges" => Extent = 3 + n + Len(Pairs)
      /\ stage # "ranges" => Extent = 3 + n
  <2> DEFINE more == IF stage = "ranges" THEN Len(Ranges) ELSE 0
  <2>1. Extent = 3 + n + more
    BY DEF Extent
  <2>2. (stage = "ranges" => more = Len(Pairs)) /\ (stage # "ranges" => more = 0)
    BY <1>2
  <2> HIDE DEF more, n
  <2> QED BY <1>1, <2>1, <2>2
<1>4. CASE i <= 3
  <2>1. i \in {1, 2, 3} /\ Planned[i] = Controls[i]
    BY <1>1, <1>3, <1>4, <1>2 DEF Planned
  <2>2. Controls[i] \in RequestShape
    BY <2>1, ControlsAre
  <2>3. ~(i \in 4 .. 3 + n) /\ ~(i > 3 + n)
    BY <1>1, <1>4, <2>1
  <2>4. /\ i = 1 => Planned[i].kind = "buildinfo"
        /\ i = 2 => Planned[i].kind = "targets"
        /\ i = 3 => Planned[i].kind = "job-values"
    BY <2>1, ControlsAre
  <2> QED BY <2>1, <2>2, <2>3, <2>4
<1>5. CASE i > 3 /\ i <= 3 + n
  <2>1. i \in Nat /\ i - 3 \in 1 .. n /\ Planned[i] = Discoveries(Named)[i - 3]
    BY <1>1, <1>5, <1>2, <1>3 DEF Planned
  <2>2. /\ Discoveries(Named)[i - 3] \in RequestShape
        /\ Discoveries(Named)[i - 3].kind = "metric-names"
        /\ Discoveries(Named)[i - 3].number = i - 3
        /\ Discoveries(Named)[i - 3].job = Named[i - 3]
    BY <1>1, <2>1, DiscoveriesAre
  <2> QED BY <1>1, <1>5, <2>1, <2>2
<1>6. CASE i > 3 + n
  <2>1. /\ i \in Nat /\ stage = "ranges" /\ i - (3 + n) \in 1 .. Len(Pairs)
        /\ ~(i <= 3) /\ ~(i <= 3 + n)
    BY <1>1, <1>2, <1>3, <1>6
  <2>2. Planned[i] = Ranges[i - (3 + n)]
    BY <2>1 DEF Planned
  <2>3. Ranges[i - (3 + n)] \in RequestShape
    BY <1>2, <2>1
  <2> HIDE DEF n
  <2> QED BY <1>1, <1>2, <1>6, <2>1, <2>2, <2>3 DEF n
<1>7. i <= 3 \/ (i > 3 /\ i <= 3 + n) \/ i > 3 + n
  BY <1>1
<1> QED BY <1>4, <1>5, <1>6, <1>7

LEMMA NoMatches == \A pattern : Matches(<<>>, pattern) = <<>>
<1>1. ASSUME NEW pattern PROVE Matches(<<>>, pattern) = <<>>
  <2>1. <<>> \in Seq(STRING) /\ Len(<<>>) = 0
    OBVIOUS
  <2>2. MatchesAfter(<<>>, pattern)[0] = <<>>
    BY <2>1, MatchesDefined
  <2> QED BY <2>1, <2>2 DEF Matches
<1> QED BY <1>1

\* Only the third capture's list says which jobs there are.
LEMMA NamesStay ==
  ASSUME NEW cs \in Seq(CaptureShape), NEW c \in CaptureShape, Len(cs) # 2 \/ c.list = <<>>
  PROVE  NamesIn(Append(cs, c)) = NamesIn(cs)
<1> DEFINE ds == Append(cs, c)
<1>1. /\ Len(cs) \in Nat /\ Len(ds) = Len(cs) + 1
      /\ \A i \in 1 .. Len(cs) : ds[i] = cs[i]
      /\ ds[Len(cs) + 1] = c
  OBVIOUS
<1> SUFFICES NamesIn(ds) = NamesIn(cs)
  OBVIOUS
<1> HIDE DEF ds
<1>2. CASE Len(cs) = 2
  <2>1. Len(ds) >= 3 /\ ~(Len(cs) >= 3) /\ ds[3] = c /\ c.list = <<>>
    BY <1>1, <1>2
  <2> QED BY <2>1, NoMatches DEF NamesIn
<1>3. CASE Len(cs) >= 3
  <2>1. Len(ds) >= 3 /\ ds[3] = cs[3]
    BY <1>1, <1>3
  <2> QED BY <1>3, <2>1 DEF NamesIn
<1>4. CASE Len(cs) # 2 /\ ~(Len(cs) >= 3)
  <2> DEFINE k == Len(cs)
  <2>1. k \in Nat /\ k # 2 /\ ~(k >= 3) /\ Len(ds) = k + 1
    BY <1>1, <1>4
  <2> HIDE DEF k
  <2>2. ~(k + 1 >= 3)
    BY <2>1
  <2> QED BY <1>4, <2>1, <2>2 DEF NamesIn
<1> QED BY <1>2, <1>3, <1>4

\* The plan changes where nothing of it has been asked for yet.
LEMMA PlanStays ==
  ASSUME ShapeInv, JobsInv, Named' = Named, stage' = stage,
         stage = "discoveries" \/ jobs' = jobs
  PROVE  Extent' = Extent /\ \A i \in 1 .. Extent : Planned'[i] = Planned[i]
<1>1. CASE jobs' = jobs
  <2>1. Ranges' = Ranges
    BY <1>1 DEF Ranges
  <2> QED BY <2>1 DEF Extent, Planned
<1>2. CASE stage = "discoveries"
  <2>1. Named \in Seq(STRING) /\ Len(Named) \in Nat
    BY NamedIsTyped DEF ShapeInv, Named
  <2>2. Extent = 3 + Len(Named) /\ Extent' = 3 + Len(Named)
    BY <1>2, <2>1 DEF Extent
  <2>3. ASSUME NEW i \in 1 .. Extent PROVE Planned'[i] = Planned[i]
    <3>1. i <= 3 + Len(Named)
      BY <2>1, <2>2
    <3> QED BY <3>1 DEF Planned
  <2> QED BY <2>2, <2>3
<1> QED BY <1>1, <1>2

LEMMA ExtentIsTyped == ASSUME ShapeInv, JobsInv PROVE Extent \in Nat
<1>1. Len(Named) \in Nat
  BY NamedIsTyped DEF ShapeInv, Named
<1>2. Len(Ranges) \in Nat
  BY RangesAre
<1>3. CASE stage = "ranges"
  BY <1>1, <1>2, <1>3 DEF Extent
<1>4. CASE stage # "ranges"
  BY <1>1, <1>4 DEF Extent
<1> QED BY <1>3, <1>4

\* What the next request's kind says of the place in the plan.
LEMMA NextRequest ==
  ASSUME ShapeInv, JobsInv, PlanInv, left # <<>>
  PROVE  /\ Head(left) \in RequestShape
         /\ Head(left) = left[1] /\ Head(left) = Planned[Len(captures) + 1]
         /\ Len(captures) + 1 \in 1 .. Extent
         /\ Head(left).kind = "job-values" <=> Len(captures) = 2
         /\ Head(left).kind = "metric-names" => Len(captures) >= 3 /\ stage = "discoveries"
         /\ Len(captures) <= 2 => stage = "discoveries"
<1> DEFINE n == Len(Named)
           i == Len(captures) + 1
<1>1. /\ Len(captures) \in Nat /\ Len(left) \in Nat /\ Len(left) >= 1 /\ Head(left) = left[1]
      /\ 1 \in DOMAIN left /\ Head(left) \in RequestShape
  BY DEF ShapeInv
<1>2. n \in Nat /\ Extent \in Nat
  BY NamedIsTyped, ExtentIsTyped DEF ShapeInv, Named
<1>3. i \in 1 .. Extent /\ Head(left) = Planned[i]
  BY <1>1, <1>2 DEF PlanInv
<1>4. stage \in {"discoveries", "ranges"} /\ (stage = "ranges" => Len(captures) >= 3 + n)
  BY DEF PlanInv, ShapeInv
<1> HIDE DEF n, i
<1>5. /\ i = 1 => Planned[i].kind = "buildinfo"
      /\ i = 2 => Planned[i].kind = "targets"
      /\ i = 3 => Planned[i].kind = "job-values"
      /\ i \in 4 .. 3 + n => Planned[i].kind = "metric-names"
      /\ i > 3 + n => Planned[i].kind = "query-range"
  BY <1>3, PlanKinds DEF n
<1>6. i = 1 \/ i = 2 \/ i = 3 \/ i \in 4 .. 3 + n \/ (i > 3 /\ i > 3 + n)
  BY <1>2, <1>3
<1>7. /\ Planned[i].kind = "job-values" <=> i = 3
      /\ Planned[i].kind = "metric-names" => i \in 4 .. 3 + n
  <2> DEFINE kind == Planned[i].kind
  <2> HIDE DEF kind
  <2>1. CASE i = 1 \/ i = 2
    <3>1. kind = "buildinfo" \/ kind = "targets"
      BY <1>5, <2>1 DEF kind
    <3> QED BY <2>1, <3>1 DEF kind
  <2>2. CASE i = 3
    BY <1>5, <2>2
  <2>3. CASE i \in 4 .. 3 + n
    <3>1. kind = "metric-names" /\ i # 3
      BY <1>5, <2>3 DEF kind
    <3> QED BY <2>3, <3>1 DEF kind
  <2>4. CASE i > 3 /\ i > 3 + n
    <3>1. kind = "query-range" /\ i # 3
      BY <1>3, <1>5, <2>4 DEF kind
    <3> QED BY <3>1 DEF kind
  <2> QED BY <1>6, <2>1, <2>2, <2>3, <2>4
<1>8. /\ Planned[i].kind = "job-values" <=> Len(captures) = 2
      /\ Planned[i].kind = "metric-names" => Len(captures) >= 3 /\ ~(Len(captures) >= 3 + n)
  <2> DEFINE k == Len(captures)
  <2>1. k \in Nat /\ i = k + 1
    BY <1>1 DEF i
  <2> HIDE DEF k
  <2>2. (i = 3 <=> k = 2) /\ (i \in 4 .. 3 + n => k >= 3 /\ ~(k >= 3 + n))
    BY <1>2, <2>1
  <2> QED BY <1>7, <2>2 DEF k
<1>9. Len(captures) <= 2 => ~(Len(captures) >= 3 + n)
  BY <1>1, <1>2
<1> QED BY <1>1, <1>3, <1>4, <1>8, <1>9 DEF i

\* Working off a request works off the plan.
LEMMA RecordKeepsPlan ==
  ASSUME ShapeInv, JobsInv, PlanInv, left # <<>>, NEW c \in CaptureShape, c.request = Head(left),
         captures' = Append(captures, c), left' = Tail(left), stage' = stage, Named' = Named,
         stage = "discoveries" \/ jobs' = jobs
  PROVE  PlanInv'
<1> DEFINE k == Len(captures)
           E == Extent
<1>1. E \in Nat /\ E' = E /\ \A i \in 1 .. E : Planned'[i] = Planned[i]
  BY PlanStays, ExtentIsTyped
<1>2. /\ k \in Nat /\ Len(left) \in Nat /\ Len(left) >= 1
      /\ DOMAIN captures = 1 .. k /\ DOMAIN left = 1 .. Len(left)
      /\ Len(captures') = k + 1 /\ DOMAIN captures' = 1 .. k + 1
      /\ \A i \in 1 .. k : captures'[i] = captures[i]
      /\ captures'[k + 1] = c
      /\ Len(left') = Len(left) - 1 /\ DOMAIN left' = 1 .. Len(left) - 1
      /\ \A n \in 1 .. Len(left) - 1 : left'[n] = left[n + 1]
  BY DEF ShapeInv
<1>3. /\ k + Len(left) = E
      /\ \A i \in 1 .. k : captures[i].request = Planned[i]
      /\ \A n \in 1 .. Len(left) : left[n] = Planned[k + n]
      /\ stage = "ranges" => k >= 3 + Len(Named)
  BY <1>2 DEF PlanInv
<1>4. c.request = Planned[k + 1]
  BY NextRequest
<1> HIDE DEF k, E
<1>5. ASSUME NEW i \in 1 .. k + 1 PROVE captures'[i].request = Planned'[i]
  <2>1. i \in 1 .. E
    BY <1>1, <1>2, <1>3
  <2>2. CASE i = k + 1
    BY <1>1, <1>2, <1>4, <2>1, <2>2
  <2>3. CASE i # k + 1
    <3>1. i \in 1 .. k
      BY <1>2, <2>3
    <3> QED BY <1>1, <1>2, <1>3, <2>1, <3>1
  <2> QED BY <2>2, <2>3
<1>6. ASSUME NEW n \in 1 .. Len(left) - 1 PROVE left'[n] = Planned'[Len(captures') + n]
  <2> DEFINE i == k + (n + 1)
  <2>1. n + 1 \in 1 .. Len(left) /\ i \in 1 .. E /\ Len(captures') + n = i
    BY <1>1, <1>2, <1>3
  <2> HIDE DEF i
  <2>2. left'[n] = Planned[i]
    BY <1>2, <1>3, <2>1 DEF i
  <2>3. Planned'[i] = Planned[i]
    BY <1>1, <2>1
  <2> QED BY <2>1, <2>2, <2>3
<1>7. Len(captures') + Len(left') = E'
  BY <1>1, <1>2, <1>3
<1>8. stage' = "ranges" => Len(captures') >= 3 + Len(Named')
  <2>1. Len(Named) \in Nat
    BY NamedIsTyped DEF ShapeInv, Named
  <2> QED BY <1>2, <1>3, <2>1
<1> QED BY <1>2, <1>5, <1>6, <1>7, <1>8 DEF PlanInv, E

LEMMA NamingOneMore ==
  ASSUME NEW cs \in Seq(CaptureShape), NEW c \in CaptureShape, NEW j, NEW m
  PROVE  /\ Cardinality(NamingIn(cs, j, m)) \in Nat
         /\ Cardinality(NamingIn(Append(cs, c), j, m))
              = IF c.request.kind = "metric-names" /\ c.request.job = j /\ Contains(c.list, m)
                THEN Cardinality(NamingIn(cs, j, m)) + 1
                ELSE Cardinality(NamingIn(cs, j, m))
<1> DEFINE ds == Append(cs, c)
           n == Len(cs)
           P == NamingIn(cs, j, m)
           Q == NamingIn(ds, j, m)
           new == c.request.kind = "metric-names" /\ c.request.job = j /\ Contains(c.list, m)
<1>1. /\ n \in Nat /\ DOMAIN cs = 1 .. n /\ DOMAIN ds = 1 .. n + 1
      /\ \A i \in 1 .. n : ds[i] = cs[i]
      /\ ds[n + 1] = c
  OBVIOUS
<1> HIDE DEF ds, n
<1>2. P \subseteq 1 .. n /\ (n + 1 \in Q <=> new) /\ (Q = P \/ Q = P \cup {n + 1})
  <2>1. P \subseteq 1 .. n /\ (n + 1 \in Q <=> new)
    BY <1>1 DEF NamingIn
  <2>2. \A i \in 1 .. n : i \in Q <=> i \in P
    BY <1>1 DEF NamingIn
  <2>3. Q \subseteq 1 .. n + 1
    BY <1>1 DEF NamingIn
  <2>4. 1 .. n + 1 = (1 .. n) \cup {n + 1} /\ n + 1 \notin 1 .. n
    BY <1>1
  <2> HIDE DEF P, Q, new
  <2> QED BY <2>1, <2>2, <2>3, <2>4
<1> HIDE DEF P, Q, new
<1>3. Cardinality(P) \in Nat
  BY <1>1, <1>2, PartIsFinite
<1>4. Cardinality(Q) = IF n + 1 \in Q THEN Cardinality(P) + 1 ELSE Cardinality(P)
  BY <1>1, <1>2, OneMore
<1>5. Cardinality(Q) = IF new THEN Cardinality(P) + 1 ELSE Cardinality(P)
  BY <1>2, <1>4
<1> QED BY <1>3, <1>5 DEF P, Q, new, ds

LEMMA NamedByOneMore ==
  ASSUME NEW js \in Seq(JobMetrics), NEW r \in JobMetrics, NEW j, NEW m
  PROVE  Cardinality(NamedBy(Append(js, r), Len(Append(js, r)), j, m))
           = IF r.job = j /\ Contains(r.metrics, m)
             THEN Cardinality(NamedBy(js, Len(js), j, m)) + 1
             ELSE Cardinality(NamedBy(js, Len(js), j, m))
<1> DEFINE ks == Append(js, r)
           n == Len(js)
           P == NamedBy(js, n, j, m)
           Q == NamedBy(ks, n + 1, j, m)
           new == r.job = j /\ Contains(r.metrics, m)
<1>1. /\ n \in Nat /\ Len(ks) = n + 1
      /\ \A i \in 1 .. n : ks[i] = js[i]
      /\ ks[n + 1] = r
  OBVIOUS
<1> HIDE DEF ks, n
<1>2. P \subseteq 1 .. n /\ (n + 1 \in Q <=> new) /\ (Q = P \/ Q = P \cup {n + 1})
  <2>1. P \subseteq 1 .. n /\ (n + 1 \in Q <=> new) /\ Q \subseteq 1 .. n + 1
    BY <1>1 DEF NamedBy
  <2>2. 1 .. n + 1 = (1 .. n) \cup {n + 1} /\ n + 1 \notin 1 .. n
    BY <1>1
  <2>3. \A i \in 1 .. n : i \in Q <=> i \in P
    BY <1>1, <2>2 DEF NamedBy
  <2> HIDE DEF P, Q, new
  <2> QED BY <2>1, <2>2, <2>3
<1> HIDE DEF P, Q, new
<1>3. Cardinality(Q) = IF n + 1 \in Q THEN Cardinality(P) + 1 ELSE Cardinality(P)
  BY <1>1, <1>2, OneMore
<1>4. Cardinality(Q) = IF new THEN Cardinality(P) + 1 ELSE Cardinality(P)
  BY <1>2, <1>3
<1> QED BY <1>1, <1>4 DEF P, Q, new, ks, n

\* A capture whose list nobody reads changes neither the jobs nor the names.
LEMMA RecordsWithoutList ==
  ASSUME ShapeInv, JobsInv, PlanInv, left # <<>>, NEW c \in CaptureShape, c.request = Head(left),
         c.list = <<>>, captures' = Append(captures, c), left' = Tail(left),
         stage' = stage, jobs' = jobs
  PROVE  PlanInv' /\ JobsInv'
<1>1. captures \in Seq(CaptureShape)
  BY DEF ShapeInv
<1>2. Named' = Named
  BY <1>1, NamesStay DEF Named
<1>3. PlanInv'
  BY <1>2, RecordKeepsPlan
<1>4. ASSUME NEW j, NEW m
      PROVE  Cardinality(NamingIn(captures', j, m)) = Cardinality(NamingIn(captures, j, m))
  <2>1. ~Contains(c.list, m)
    BY DEF Contains
  <2> QED BY <1>1, <2>1, NamingOneMore
<1>5. JobsInv'
  BY <1>4 DEF JobsInv
<1> QED BY <1>3, <1>5

LEMMA AppendedCapture ==
  ASSUME NEW cs \in Seq(CaptureShape), NEW c \in CaptureShape
  PROVE  /\ DOMAIN cs = 1 .. Len(cs) /\ DOMAIN Append(cs, c) = 1 .. Len(cs) + 1
         /\ Len(Append(cs, c)) = Len(cs) + 1
         /\ \A i \in 1 .. Len(cs) : Append(cs, c)[i] = cs[i]
         /\ Append(cs, c)[Len(cs) + 1] = c
OBVIOUS

\* The third answer makes the plan: one discovery for each job it names.
LEMMA JobsAreListed ==
  ASSUME ShapeInv, JobsInv, PlanInv, left # <<>>, Head(left).kind = "job-values",
         NEW list \in Seq(STRING), NEW c \in CaptureShape,
         c.request = Head(left), c.list = list,
         captures' = Append(captures, c), stage' = stage, jobs' = jobs,
         left' = Discoveries(Matches(list, SelectedJobs))
  PROVE  PlanInv' /\ JobsInv' /\ left' \in Seq(RequestShape)
<1> DEFINE names == Matches(list, SelectedJobs)
<1>1. names \in Seq(STRING) /\ Len(names) \in Nat
  BY MatchesCount
<1>2. captures \in Seq(CaptureShape) /\ Len(captures) = 2 /\ stage = "discoveries"
  BY NextRequest DEF ShapeInv
<1>3. /\ DOMAIN captures = 1 .. 2 /\ DOMAIN captures' = 1 .. 3 /\ Len(captures') = 3
      /\ captures'[1] = captures[1] /\ captures'[2] = captures[2] /\ captures'[3] = c
  <2> DEFINE ds == Append(captures, c)
  <2>1. /\ DOMAIN captures = 1 .. Len(captures) /\ DOMAIN ds = 1 .. Len(captures) + 1
        /\ Len(ds) = Len(captures) + 1
        /\ \A i \in 1 .. Len(captures) : ds[i] = captures[i]
        /\ ds[Len(captures) + 1] = c
    BY <1>2, AppendedCapture
  <2>2. captures' = ds
    OBVIOUS
  <2> HIDE DEF ds
  <2>3. DOMAIN captures = 1 .. 2 /\ DOMAIN ds = 1 .. 3 /\ Len(ds) = 3
    BY <1>2, <2>1
  <2>4. ds[1] = captures[1] /\ ds[2] = captures[2] /\ ds[3] = c
    BY <1>2, <2>1
  <2> QED BY <2>2, <2>3, <2>4
<1>4. Named' = names
  BY <1>3 DEF Named, NamesIn
<1>5. /\ left' \in Seq(RequestShape) /\ Len(left') = Len(names) /\ DOMAIN left' = 1 .. Len(names)
      /\ left' = Discoveries(Named')
  BY <1>1, <1>4, DiscoveriesAre
<1> HIDE DEF names
<1>6. \A i \in {1, 2, 3} : Planned[i] = Controls[i] /\ Planned'[i] = Controls[i]
  BY DEF Planned
<1>7. ASSUME NEW i \in DOMAIN captures' PROVE captures'[i].request = Planned'[i]
  <2>1. i \in {1, 2, 3}
    BY <1>3
  <2>2. captures[1].request = Planned[1] /\ captures[2].request = Planned[2]
    BY <1>3 DEF PlanInv
  <2>3. c.request = Planned[3]
    BY <1>2, NextRequest
  <2> QED BY <1>3, <1>6, <2>1, <2>2, <2>3
<1>8. ASSUME NEW n \in DOMAIN left' PROVE left'[n] = Planned'[Len(captures') + n]
  <2>1. /\ n \in 1 .. Len(names) /\ 3 + n \in Nat /\ ~(3 + n <= 3) /\ 3 + n <= 3 + Len(names)
        /\ (3 + n) - 3 = n
    BY <1>1, <1>5
  <2>2. Planned'[3 + n] = Discoveries(Named')[n]
    BY <1>4, <2>1 DEF Planned
  <2> QED BY <1>3, <1>5, <2>2
<1>9. Len(captures') + Len(left') = Extent' /\ stage' = "discoveries"
  BY <1>1, <1>2, <1>3, <1>4, <1>5 DEF Extent
<1>10. PlanInv'
  BY <1>7, <1>8, <1>9 DEF PlanInv
<1>11. ASSUME NEW j, NEW m
       PROVE  Cardinality(NamingIn(captures', j, m)) = Cardinality(NamingIn(captures, j, m))
  BY <1>2, NamingOneMore
<1>12. JobsInv'
  BY <1>11 DEF JobsInv
<1> QED BY <1>5, <1>10, <1>12

\* A discovery's answer adds its job with the metrics it names, each once.
LEMMA MetricsAreListed ==
  ASSUME ShapeInv, JobsInv, PlanInv, left # <<>>, Head(left).kind = "metric-names",
         NEW list \in Seq(STRING), NEW c \in CaptureShape,
         c.request = Head(left), c.list = list,
         captures' = Append(captures, c), left' = Tail(left), stage' = stage,
         jobs' = Append(jobs, [job |-> Head(left).job, metrics |-> Distinct(list)])
  PROVE  PlanInv' /\ JobsInv'
<1> DEFINE r == [job |-> Head(left).job, metrics |-> Distinct(list)]
<1>1. captures \in Seq(CaptureShape) /\ Len(captures) # 2 /\ stage = "discoveries"
  BY NextRequest DEF ShapeInv
<1>2. Named' = Named
  BY <1>1, NamesStay DEF Named
<1>3. PlanInv'
  BY <1>1, <1>2, RecordKeepsPlan
<1>4. /\ Distinct(list) \in Seq(STRING)
      /\ \A x : /\ Contains(Distinct(list), x) <=> Contains(list, x)
                /\ Count(Distinct(list), x) = IF Contains(list, x) THEN 1 ELSE 0
  BY DistinctCount
<1>5. r \in JobMetrics /\ r.job = c.request.job /\ r.metrics = Distinct(list)
  <2>1. Head(left).job \in STRING
    BY NextRequest DEF RequestShape
  <2> QED BY <1>4, <2>1 DEF JobMetrics
<1>6. Once(r.metrics)
  BY <1>4, <1>5 DEF Once
<1>7. jobs \in Seq(JobMetrics) /\ jobs' = Append(jobs, r)
  BY DEF JobsInv
<1> HIDE DEF r
<1>8. jobs' \in Seq(JobMetrics) /\ \A k \in 1 .. Len(jobs') : Once(jobs'[k].metrics)
  <2>1. /\ jobs' \in Seq(JobMetrics) /\ Len(jobs) \in Nat /\ Len(jobs') = Len(jobs) + 1
        /\ \A k \in 1 .. Len(jobs) : jobs'[k] = jobs[k]
        /\ jobs'[Len(jobs) + 1] = r
    BY <1>5, <1>7
  <2>2. ASSUME NEW k \in 1 .. Len(jobs') PROVE Once(jobs'[k].metrics)
    <3>1. CASE k \in 1 .. Len(jobs)
      BY <2>1, <3>1 DEF JobsInv
    <3>2. CASE k = Len(jobs) + 1
      BY <1>6, <2>1, <3>2
    <3> QED BY <2>1, <3>1, <3>2
  <2> QED BY <2>1, <2>2
<1>9. ASSUME NEW j, NEW m
      PROVE  Cardinality(NamedBy(jobs', Len(jobs'), j, m)) = Cardinality(NamingIn(captures', j, m))
  <2>1. Cardinality(NamedBy(jobs', Len(jobs'), j, m))
          = IF r.job = j /\ Contains(r.metrics, m)
            THEN Cardinality(NamedBy(jobs, Len(jobs), j, m)) + 1
            ELSE Cardinality(NamedBy(jobs, Len(jobs), j, m))
    BY <1>5, <1>7, NamedByOneMore
  <2>2. Cardinality(NamingIn(captures', j, m))
          = IF c.request.kind = "metric-names" /\ c.request.job = j /\ Contains(c.list, m)
            THEN Cardinality(NamingIn(captures, j, m)) + 1
            ELSE Cardinality(NamingIn(captures, j, m))
    BY <1>1, NamingOneMore
  <2>3. (r.job = j /\ Contains(r.metrics, m))
          <=> (c.request.kind = "metric-names" /\ c.request.job = j /\ Contains(c.list, m))
    BY <1>4, <1>5
  <2>4. Cardinality(NamedBy(jobs, Len(jobs), j, m)) = Cardinality(NamingIn(captures, j, m))
    BY DEF JobsInv
  <2> QED BY <2>1, <2>2, <2>3, <2>4
<1>10. JobsInv'
  BY <1>8, <1>9 DEF JobsInv
<1> QED BY <1>3, <1>10

-----------------------------------------------------------------------------
(* Every step works on the plan. *)

CollectionInv == ShapeInv /\ PlanInv /\ JobsInv

LEMMA InitCollection == Init => CollectionInv
<1> SUFFICES ASSUME Init PROVE CollectionInv
  OBVIOUS
<1>1. /\ captures = <<>> /\ left = Controls /\ jobs = <<>> /\ stage = "discoveries"
      /\ ppc = "prepare"
  BY DEF Init
<1>2. Controls \in Seq(RequestShape) /\ Len(Controls) = 3
  BY ControlsAre
<1>3. ShapeInv
  BY <1>1, <1>2 DEF ShapeInv
<1>4. Named = <<>> /\ Len(Named) = 0 /\ Len(captures) = 0 /\ DOMAIN captures = {}
  BY <1>1 DEF Named, NamesIn
<1>5. PlanInv
  <2>1. Extent = 3
    BY <1>1, <1>4 DEF Extent
  <2>2. ASSUME NEW n \in DOMAIN left PROVE left[n] = Planned[Len(captures) + n]
    <3>1. n \in 1 .. 3 /\ n \in Nat /\ n <= 3 /\ 0 + n = n
      BY <1>1, <1>2
    <3> QED BY <1>1, <1>4, <3>1 DEF Planned
  <2> QED BY <1>1, <1>2, <1>4, <2>1, <2>2 DEF PlanInv
<1>6. JobsInv
  <2>1. jobs \in Seq(JobMetrics) /\ Len(jobs) = 0
    BY <1>1
  <2>2. ASSUME NEW j, NEW m
        PROVE  NamedBy(jobs, Len(jobs), j, m) = {} /\ NamingIn(captures, j, m) = {}
    BY <1>4, <2>1 DEF NamedBy, NamingIn
  <2>3. ASSUME NEW j, NEW m
        PROVE  Cardinality(NamedBy(jobs, Len(jobs), j, m)) = Cardinality(NamingIn(captures, j, m))
    BY <2>2
  <2> QED BY <2>1, <2>3 DEF JobsInv
<1> QED BY <1>3, <1>5, <1>6 DEF CollectionInv

LEMMA RangesArePlanned ==
  ASSUME CollectionInv, NextLoop
  PROVE  PlanInv' /\ JobsInv' /\ left' \in Seq(RequestShape)
<1>1. /\ left = <<>> /\ stage = "discoveries" /\ stage' = "ranges" /\ left' = Ranges
      /\ jobs' = jobs /\ captures' = captures
  BY DEF NextLoop
<1>2. JobsInv /\ JobsInv' /\ ShapeInv /\ PlanInv
  BY <1>1 DEF CollectionInv, JobsInv
<1>3. /\ Ranges \in Seq(RequestShape) /\ Len(Ranges) \in Nat
      /\ Named \in Seq(STRING) /\ Len(Named) \in Nat
  BY <1>2, RangesAre, NamedIsTyped DEF ShapeInv, Named
<1>4. Named' = Named /\ Ranges' = Ranges
  BY <1>1 DEF Named, Ranges
<1>5. Planned' = Planned
  BY <1>4 DEF Planned
<1>6. Len(captures) = 3 + Len(Named)
  <2>1. Extent = 3 + Len(Named)
    BY <1>1, <1>3 DEF Extent
  <2>2. Len(captures) + 0 = Extent /\ Len(captures) \in Nat
    BY <1>1, <1>2 DEF PlanInv, ShapeInv
  <2> QED BY <2>1, <2>2
<1>7. Extent' = 3 + Len(Named) + Len(Ranges)
  BY <1>1, <1>4 DEF Extent
<1>8. ASSUME NEW n \in DOMAIN left' PROVE left'[n] = Planned'[Len(captures') + n]
  <2> DEFINE k == Len(captures)
  <2>1. /\ n \in Nat /\ n >= 1 /\ k \in Nat /\ k = 3 + Len(Named) /\ left'[n] = Ranges[n]
    BY <1>1, <1>3, <1>6
  <2> HIDE DEF k
  <2>2. k + n \in Nat /\ ~(k + n <= 3) /\ ~(k + n <= 3 + Len(Named)) /\ (k + n) - (3 + Len(Named)) = n
    BY <1>3, <2>1
  <2>3. Planned[k + n] = Ranges[n]
    BY <2>2 DEF Planned
  <2> QED BY <1>1, <1>5, <2>1, <2>3 DEF k
<1>9. Len(captures') + Len(left') = Extent' /\ Len(captures') >= 3 + Len(Named')
  BY <1>1, <1>3, <1>4, <1>6, <1>7
<1>10. \A i \in DOMAIN captures' : captures'[i].request = Planned'[i]
  BY <1>1, <1>2, <1>5 DEF PlanInv
<1>11. PlanInv'
  BY <1>8, <1>9, <1>10 DEF PlanInv
<1> QED BY <1>1, <1>2, <1>3, <1>11

\* One more capture, and the call goes on with what is left.
LEMMA CaptureKeepsShape ==
  ASSUME ShapeInv, NEW c \in CaptureShape, captures' = Append(captures, c),
         left' \in Seq(RequestShape), stage' = stage, ppc' = "next"
  PROVE  ShapeInv'
BY DEF ShapeInv

LEMMA CollectionStep ==
  ASSUME CollectionInv, [Next]_vars
  PROVE  CollectionInv'
<1>0. ShapeInv /\ PlanInv /\ JobsInv
  BY DEF CollectionInv
<1>1. ASSUME UNCHANGED <<captures, request>>,
             ppc' \in {"connect", "read", "judge"} => left # <<>>
      PROVE  CollectionInv'
  <2>1. captures' = captures /\ left' = left /\ stage' = stage /\ jobs' = jobs
    BY <1>1 DEF request
  <2>2. Named' = Named /\ Ranges' = Ranges
    BY <2>1 DEF Named, Ranges
  <2>3. Planned' = Planned /\ Extent' = Extent
    BY <2>1, <2>2 DEF Planned, Extent
  <2>4. ShapeInv'
    BY <1>0, <1>1, <2>1 DEF ShapeInv
  <2>5. PlanInv'
    BY <1>0, <2>1, <2>2, <2>3 DEF PlanInv
  <2>6. JobsInv'
    BY <1>0, <2>1 DEF JobsInv
  <2> QED BY <2>4, <2>5, <2>6 DEF CollectionInv
<1>2. CASE \/ Prepare \/ CannotCapture \/ Escape \/ Promote \/ CannotPromote \/ TidyStaging
           \/ OpenCapture \/ CaptureBreaks \/ Keystroke
  <2>1. /\ UNCHANGED <<captures, request>>
        /\ ppc' \in {"connect", "read", "judge"} => left # <<>>
    BY <1>2 DEF Prepare, CannotCapture, Escape, Promote, CannotPromote, TidyStaging,
                OpenCapture, CaptureBreaks, Keystroke, Goto, Return
  <2> QED BY <1>1, <2>1
<1>3. CASE Respond \/ Chunk \/ ResponseEnds \/ ServerFails \/ TimesOut \/ UNCHANGED vars
  <2>1. /\ UNCHANGED <<captures, request>>
        /\ ppc' = ppc \/ ppc \in {"connect", "read"}
    BY <1>3 DEF Respond, Chunk, ResponseEnds, ServerFails, TimesOut, vars, Goto
  <2>2. ppc' \in {"connect", "read", "judge"} => left # <<>>
    BY <1>0, <2>1 DEF ShapeInv
  <2> QED BY <1>1, <2>1, <2>2
<1>4. CASE NextLoop
  <2>1. PlanInv' /\ JobsInv' /\ left' \in Seq(RequestShape)
    BY <1>4, RangesArePlanned
  <2>2. ShapeInv'
    BY <1>0, <1>4, <2>1 DEF ShapeInv, NextLoop
  <2> QED BY <2>1, <2>2 DEF CollectionInv
<1>5. CASE RecordFailure \/ RecordPlain \/ RecordMalformed
  <2>1. PICK outcome \in Outcomes :
          /\ ppc = "judge" /\ ppc' = "next" /\ left' = Tail(left) /\ stage' = stage /\ jobs' = jobs
          /\ captures' = Append(captures, [request |-> Head(left), outcome |-> outcome,
                                           list |-> <<>>])
    BY <1>5 DEF RecordFailure, RecordPlain, RecordMalformed, Record, Goto, Outcomes
  <2> DEFINE c == [request |-> Head(left), outcome |-> outcome, list |-> <<>>]
  <2>2. left # <<>>
    BY <1>0, <2>1 DEF ShapeInv
  <2>3. c \in CaptureShape /\ c.request = Head(left) /\ c.list = <<>>
    <3>1. Head(left) \in RequestShape
      BY <1>0, <2>2, NextRequest
    <3> QED BY <3>1 DEF CaptureShape
  <2>4. captures' = Append(captures, c)
    BY <2>1
  <2> HIDE DEF c
  <2>5. PlanInv' /\ JobsInv'
    BY <1>0, <2>1, <2>2, <2>3, <2>4, RecordsWithoutList
  <2>6. Tail(left) \in Seq(RequestShape)
    BY <1>0, <2>2 DEF ShapeInv
  <2>7. ShapeInv'
    BY <1>0, <2>1, <2>3, <2>4, <2>6, CaptureKeepsShape
  <2> QED BY <2>5, <2>7 DEF CollectionInv
<1>6. CASE RecordJobs
  <2>1. PICK list \in JobLists :
          /\ ppc = "judge" /\ ppc' = "next" /\ stage' = stage /\ jobs' = jobs
          /\ Head(left).kind = "job-values"
          /\ left' = Discoveries(Matches(list, SelectedJobs))
          /\ captures' = Append(captures, [request |-> Head(left), outcome |-> "listed",
                                           list |-> list])
    BY <1>6 DEF RecordJobs, Record, Goto
  <2> DEFINE c == [request |-> Head(left), outcome |-> "listed", list |-> list]
  <2>2. left # <<>> /\ list \in Seq(STRING)
    BY <1>0, <2>1, ListsShape DEF ShapeInv
  <2>3. c \in CaptureShape /\ c.request = Head(left) /\ c.list = list
    <3>1. Head(left) \in RequestShape
      BY <1>0, <2>2, NextRequest
    <3> QED BY <2>2, <3>1 DEF CaptureShape, Outcomes
  <2>4. captures' = Append(captures, c)
    BY <2>1
  <2> HIDE DEF c
  <2>5. PlanInv' /\ JobsInv' /\ left' \in Seq(RequestShape)
    BY <1>0, <2>1, <2>2, <2>3, <2>4, JobsAreListed
  <2>6. ShapeInv'
    BY <1>0, <2>1, <2>3, <2>4, <2>5, CaptureKeepsShape
  <2> QED BY <2>5, <2>6 DEF CollectionInv
<1>7. CASE RecordMetrics
  <2>1. PICK list \in MetricLists :
          /\ ppc = "judge" /\ ppc' = "next" /\ stage' = stage
          /\ Head(left).kind = "metric-names" /\ left' = Tail(left)
          /\ jobs' = Append(jobs, [job |-> Head(left).job, metrics |-> Distinct(list)])
          /\ captures' = Append(captures, [request |-> Head(left), outcome |-> "listed",
                                           list |-> list])
    BY <1>7 DEF RecordMetrics, Record, Goto
  <2> DEFINE c == [request |-> Head(left), outcome |-> "listed", list |-> list]
  <2>2. left # <<>> /\ list \in Seq(STRING)
    BY <1>0, <2>1, ListsShape DEF ShapeInv
  <2>3. c \in CaptureShape /\ c.request = Head(left) /\ c.list = list
    <3>1. Head(left) \in RequestShape
      BY <1>0, <2>2, NextRequest
    <3> QED BY <2>2, <3>1 DEF CaptureShape, Outcomes
  <2>4. captures' = Append(captures, c)
    BY <2>1
  <2> HIDE DEF c
  <2>5. PlanInv' /\ JobsInv'
    BY <1>0, <2>1, <2>2, <2>3, <2>4, MetricsAreListed
  <2>6. Tail(left) \in Seq(RequestShape)
    BY <1>0, <2>2 DEF ShapeInv
  <2>7. ShapeInv'
    BY <1>0, <2>1, <2>3, <2>4, <2>6, CaptureKeepsShape
  <2> QED BY <2>5, <2>7 DEF CollectionInv
<1> QED
  BY <1>2, <1>3, <1>4, <1>5, <1>6, <1>7 DEF Next, Client, Server

\* At every point of a collection the captures are the worked-off part of the plan
\* that the answers so far call for, and the jobs are what the discoveries named.
THEOREM CollectionFollowsPlan == Spec => []CollectionInv
<1>1. CollectionInv /\ [Next]_vars => CollectionInv'
  BY CollectionStep
<1> QED
  BY InitCollection, <1>1, PTL DEF Spec

-----------------------------------------------------------------------------
\* No two requests of the plan share a directory.
LEMMA PlacesAreUnique ==
  ASSUME ShapeInv, JobsInv, NEW i \in 1 .. Extent, NEW j \in 1 .. Extent,
         Planned[i].kind = Planned[j].kind, Planned[i].number = Planned[j].number
  PROVE  i = j
<1> DEFINE n == Len(Named)
           k == Planned[i].kind
<1>1. n \in Nat /\ Extent \in Nat
  BY NamedIsTyped, ExtentIsTyped DEF ShapeInv, Named
<1> HIDE DEF n
<1>2. ASSUME NEW x \in 1 .. Extent
      PROVE  /\ x = 1 => Planned[x].kind = "buildinfo"
             /\ x = 2 => Planned[x].kind = "targets"
             /\ x = 3 => Planned[x].kind = "job-values"
             /\ x \in 4 .. 3 + n => Planned[x].kind = "metric-names" /\ Planned[x].number = x - 3
             /\ x > 3 + n => Planned[x].kind = "query-range" /\ Planned[x].number = x - (3 + n)
             /\ x = 1 \/ x = 2 \/ x = 3 \/ x \in 4 .. 3 + n \/ x > 3 + n
  <2>1. x = 1 \/ x = 2 \/ x = 3 \/ x \in 4 .. 3 + n \/ x > 3 + n
    BY <1>1
  <2> QED BY <2>1, PlanKinds DEF n
<1>3. k = Planned[i].kind /\ k = Planned[j].kind /\ i \in Nat /\ j \in Nat
  BY <1>1
<1> HIDE DEF k
<1>4. CASE i = 1
  <2>1. k = "buildinfo"
    BY <1>2, <1>3, <1>4
  <2>2. j # 2 /\ j # 3 /\ ~(j \in 4 .. 3 + n) /\ ~(j > 3 + n)
    BY <1>2, <1>3, <2>1
  <2> QED BY <1>2, <1>4, <2>2
<1>5. CASE i = 2
  <2>1. k = "targets"
    BY <1>2, <1>3, <1>5
  <2>2. j # 1 /\ j # 3 /\ ~(j \in 4 .. 3 + n) /\ ~(j > 3 + n)
    BY <1>2, <1>3, <2>1
  <2> QED BY <1>2, <1>5, <2>2
<1>6. CASE i = 3
  <2>1. k = "job-values"
    BY <1>2, <1>3, <1>6
  <2>2. j # 1 /\ j # 2 /\ ~(j \in 4 .. 3 + n) /\ ~(j > 3 + n)
    BY <1>2, <1>3, <2>1
  <2> QED BY <1>2, <1>6, <2>2
<1>7. CASE i \in 4 .. 3 + n
  <2>1. k = "metric-names" /\ Planned[i].number = i - 3
    BY <1>2, <1>3, <1>7
  <2>2. j # 1 /\ j # 2 /\ j # 3 /\ ~(j > 3 + n)
    BY <1>2, <1>3, <2>1
  <2>3. j \in 4 .. 3 + n
    BY <1>2, <2>2
  <2>4. Planned[j].number = j - 3
    BY <1>2, <2>3
  <2>5. i - 3 = j - 3
    BY <2>1, <2>4
  <2> QED BY <1>3, <2>5
<1>8. CASE i > 3 + n
  <2>1. k = "query-range" /\ Planned[i].number = i - (3 + n)
    BY <1>2, <1>3, <1>8
  <2>2. j # 1 /\ j # 2 /\ j # 3 /\ ~(j \in 4 .. 3 + n)
    BY <1>2, <1>3, <2>1
  <2>3. j > 3 + n
    BY <1>2, <2>2
  <2>4. Planned[j].number = j - (3 + n)
    BY <1>2, <2>3
  <2>5. i - (3 + n) = j - (3 + n)
    BY <2>1, <2>4
  <2> QED BY <1>1, <1>3, <2>5
<1> QED BY <1>2, <1>4, <1>5, <1>6, <1>7, <1>8

\* What a collection admits is exactly what the server's answers call for: the three
\* controls, one discovery per named job, numbered in job-values' order, and one
\* range per discovered pair of a job and a matching metric, each in a directory
\* of its own, whatever the lists name and however often.
THEOREM RequestsAreExact == Spec => []RequestsExact
<1>1. ASSUME PrometheusInv, CollectionInv, admitted PROVE RequestsExact
  <2> DEFINE n == Len(Named)
             E == Extent
  <2>0. ShapeInv /\ PlanInv /\ JobsInv
    BY <1>1 DEF CollectionInv
  <2>1. left = <<>> /\ stage = "ranges"
    BY <1>1 DEF PrometheusInv, EndInv
  <2>2. /\ Named \in Seq(STRING) /\ n \in Nat /\ E \in Nat
        /\ Pairs \in Seq(STRING \X STRING) /\ Len(Pairs) \in Nat /\ Len(Ranges) = Len(Pairs)
    BY <2>0, NamedIsTyped, ExtentIsTyped, RangesAre DEF ShapeInv, Named
  <2>3. E = 3 + n + Len(Pairs)
    BY <2>1, <2>2 DEF Extent
  <2>4. Len(captures) = E /\ DOMAIN captures = 1 .. E
    <3>1. Len(captures) \in Nat /\ DOMAIN captures = 1 .. Len(captures)
      BY <2>0 DEF ShapeInv
    <3>2. Len(captures) + 0 = E
      BY <2>0, <2>1 DEF PlanInv
    <3> QED BY <3>1, <3>2
  <2>5. ASSUME NEW i \in 1 .. E
        PROVE  /\ captures[i].request = Planned[i]
               /\ i = 1 => captures[i].request.kind = "buildinfo"
               /\ i = 2 => captures[i].request.kind = "targets"
               /\ i = 3 => captures[i].request.kind = "job-values"
               /\ i \in 4 .. 3 + n =>
                    /\ captures[i].request.kind = "metric-names"
                    /\ captures[i].request.number = i - 3
                    /\ captures[i].request.job = Named[i - 3]
               /\ i > 3 + n =>
                    /\ captures[i].request.kind = "query-range"
                    /\ captures[i].request.job = Pairs[i - (3 + n)][1]
                    /\ captures[i].request.metric = Pairs[i - (3 + n)][2]
               /\ i = 1 \/ i = 2 \/ i = 3 \/ i \in 4 .. 3 + n \/ i > 3 + n
    <3>1. captures[i].request = Planned[i]
      BY <2>0, <2>4 DEF PlanInv
    <3>2. i = 1 \/ i = 2 \/ i = 3 \/ i \in 4 .. 3 + n \/ i > 3 + n
      BY <2>2
    <3> QED BY <2>0, <3>1, <3>2, PlanKinds
  <2> HIDE DEF n, E
  <2>6. ASSUME NEW i \in DOMAIN captures, NEW j \in DOMAIN captures,
               captures[i].request.kind = captures[j].request.kind,
               captures[i].request.number = captures[j].request.number
        PROVE  i = j
    BY <2>0, <2>4, <2>5, <2>6, PlacesAreUnique DEF E
  <2>7. 1 \in 1 .. E /\ 2 \in 1 .. E /\ 3 \in 1 .. E
    BY <2>2, <2>3
  <2>8. 1 \in Places("buildinfo") /\ 2 \in Places("targets") /\ 3 \in Places("job-values")
    BY <2>4, <2>5, <2>7 DEF Places
  <2>9. Places("metric-names") = 4 .. 3 + n
    <3>1. 4 .. 3 + n \subseteq 1 .. E
      BY <2>2, <2>3
    <3>2. ASSUME NEW i \in 1 .. E, captures[i].request.kind = "metric-names"
          PROVE  i \in 4 .. 3 + n
      BY <2>5, <3>2
    <3> QED BY <2>4, <2>5, <3>1, <3>2 DEF Places
  <2>10. Places("query-range") = {i \in 1 .. E : i > 3 + n}
    <3>1. ASSUME NEW i \in 1 .. E, captures[i].request.kind = "query-range"
          PROVE  i > 3 + n
      BY <2>5, <3>1
    <3> QED BY <2>4, <2>5, <3>1 DEF Places
  <2>11. Discovered = Numbered(captures[3].list)
    <3> DEFINE list == captures[3].list
    <3>1. list \in Seq(STRING) /\ Named = Matches(list, SelectedJobs)
      <4>1. captures[3] \in CaptureShape /\ Len(captures) >= 3
        BY <2>0, <2>2, <2>3, <2>4, <2>7 DEF ShapeInv
      <4> QED BY <4>1 DEF CaptureShape, Named, NamesIn
    <3>2. Discovered = {<<i, Named[i]>> : i \in 1 .. n}
      <4>1. Discovered = {<<captures[i].request.number, captures[i].request.job>> : i \in 4 .. 3 + n}
        BY <2>9 DEF Discovered
      <4>2. ASSUME NEW i \in 4 .. 3 + n
            PROVE  /\ captures[i].request.number = i - 3 /\ captures[i].request.job = Named[i - 3]
                   /\ i - 3 \in 1 .. n
        <5>1. i \in 1 .. E /\ i - 3 \in 1 .. n
          BY <2>2, <2>3
        <5> QED BY <2>5, <5>1
      <4>3. ASSUME NEW k \in 1 .. n PROVE k + 3 \in 4 .. 3 + n /\ (k + 3) - 3 = k
        BY <2>2
      <4> QED BY <4>1, <4>2, <4>3
    <3>3. DOMAIN Named = 1 .. n
      BY <2>2 DEF n
    <3>4. {<<i, Named[i]>> : i \in DOMAIN Named}
            = {<<Cardinality(Selection(list, p, SelectedJobs)), list[p]>> :
                 p \in Selection(list, Len(list), SelectedJobs)}
      BY <3>1, MatchesNumbered
    <3>5. Numbered(list) = {<<Cardinality(Selection(list, p, SelectedJobs)), list[p]>> :
                              p \in Selection(list, Len(list), SelectedJobs)}
      BY DEF Numbered, Selection
    <3> QED BY <3>2, <3>3, <3>4, <3>5
  <2>12. ASSUME NEW m, NEW j
         PROVE  Cardinality(Asking(j, m))
                  = IF m \in Matching THEN Cardinality(Naming(j, m)) ELSE 0
    <3> DEFINE H == Hits(Pairs, <<j, m>>)
    <3>1. H \subseteq 1 .. Len(Pairs)
      BY <2>2 DEF Hits
    <3>2. Asking(j, m) = {(3 + n) + p : p \in H}
      <4>1. ASSUME NEW i \in Asking(j, m) PROVE \E p \in H : i = (3 + n) + p
        <5>1. /\ i \in 1 .. E /\ i > 3 + n
              /\ captures[i].request.job = j /\ captures[i].request.metric = m
          BY <2>10 DEF Asking
        <5>2. i - (3 + n) \in 1 .. Len(Pairs) /\ i = (3 + n) + (i - (3 + n))
          BY <2>2, <2>3, <5>1
        <5>3. Pairs[i - (3 + n)] = <<j, m>>
          <6>1. Pairs[i - (3 + n)][1] = j /\ Pairs[i - (3 + n)][2] = m
            BY <2>5, <5>1
          <6>2. Pairs[i - (3 + n)] \in STRING \X STRING
            BY <2>2, <5>2
          <6> QED BY <6>1, <6>2
        <5>4. i - (3 + n) \in H
          BY <2>2, <5>2, <5>3 DEF Hits
        <5> QED BY <5>2, <5>4
      <4>2. ASSUME NEW p \in H PROVE (3 + n) + p \in Asking(j, m)
        <5> DEFINE i == (3 + n) + p
        <5>1. p \in 1 .. Len(Pairs) /\ Pairs[p] = <<j, m>>
          BY <3>1 DEF Hits
        <5>2. i \in 1 .. E /\ i > 3 + n /\ i - (3 + n) = p
          BY <2>2, <2>3, <5>1
        <5> HIDE DEF i
        <5>3. captures[i].request.job = j /\ captures[i].request.metric = m
          BY <2>5, <5>1, <5>2
        <5> QED BY <2>10, <5>2, <5>3 DEF Asking, i
      <4> HIDE DEF H
      <4> QED BY <4>1, <4>2
    <3>3. Cardinality(Asking(j, m)) = Count(Pairs, <<j, m>>)
      <4>1. 3 + n \in Nat
        BY <2>2
      <4> HIDE DEF H
      <4>2. Cardinality({(3 + n) + p : p \in H}) = Cardinality(H)
        BY <2>2, <3>1, <4>1, ShiftedCount
      <4> QED BY <3>2, <4>2 DEF Count, H
    <3>4. Count(Pairs, <<j, m>>)
            = IF m \in Matching THEN Cardinality(NamedBy(jobs, Len(jobs), j, m)) ELSE 0
      BY <2>0, PairsCount DEF JobsInv, Pairs
    <3>5. Cardinality(NamedBy(jobs, Len(jobs), j, m)) = Cardinality(NamingIn(captures, j, m))
      BY <2>0 DEF JobsInv
    <3>6. NamingIn(captures, j, m) = Naming(j, m)
      BY DEF NamingIn, Naming, Places
    <3> QED BY <3>3, <3>4, <3>5, <3>6
  <2> QED BY <2>6, <2>8, <2>11, <2>12 DEF RequestsExact
<1>2. PrometheusInv /\ CollectionInv => RequestsExact
  BY <1>1 DEF RequestsExact
<1> QED
  BY <1>2, PrometheusInvariant, CollectionFollowsPlan, PTL

=============================================================================
