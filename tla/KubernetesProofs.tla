-------------------------- MODULE KubernetesProofs --------------------------
(***************************************************************************)
(* Theorems about collect_kubernetes, for every catalog, every number of   *)
(* logs a control may name and any number of keystrokes.                   *)
(***************************************************************************)
EXTENDS KubernetesProperties, SequenceTheorems, TLAPS

-----------------------------------------------------------------------------
(* Names and lists. *)

\* The names only grow.
LEMMA NamesGrow ==
  ASSUME nextLog \in Nat \ {0}, nextLog' \in Nat \ {0}, nextLog <= nextLog'
  PROVE  Names \subseteq Names'
BY DEF Names, Fixed

\* Which log names there are.
LEMMA LogNames ==
  ASSUME nextLog \in Nat \ {0}, NEW k \in Nat \ {0}
  PROVE  [name |-> "log", number |-> k] \in Names <=> k < nextLog
<1> DEFINE probe == [name |-> "log", number |-> k]
<1>1. probe \in [name : {"log"}, number : 1 .. nextLog - 1] <=> k \in 1 .. nextLog - 1
  OBVIOUS
<1>2. probe \notin {Fixed(Catalog[i]) : i \in DOMAIN Catalog}
  <2>1. ASSUME NEW i \in DOMAIN Catalog, probe = Fixed(Catalog[i])
        PROVE  FALSE
    <3>1. probe.number = Fixed(Catalog[i]).number
      BY <2>1
    <3>2. Fixed(Catalog[i]).number = 0
      BY DEF Fixed
    <3>3. probe.number = k
      OBVIOUS
    <3> QED
      BY <3>1, <3>2, <3>3
  <2> QED
    BY <2>1
<1>3. k \in 1 .. nextLog - 1 <=> k < nextLog
  OBVIOUS
<1> HIDE DEF probe
<1>4. probe \in Names <=> k < nextLog
  BY <1>1, <1>2, <1>3 DEF Names
<1> QED
  BY <1>4 DEF probe

\* The next n log probes are new names, in order.
LEMMA LogProbesFacts ==
  ASSUME nextLog \in Nat \ {0}, NEW n \in Nat, nextLog' = nextLog + n
  PROVE  /\ LogProbes(n) \in Seq(Names')
         /\ Len(LogProbes(n)) = n
         /\ \A i \in 1 .. n :
               LogProbes(n)[i] = [name |-> "log", number |-> nextLog + i - 1]
<1>1. LogProbes(n) \in [1 .. n -> Names']
  <2>1. \A i \in 1 .. n : [name |-> "log", number |-> nextLog + i - 1] \in Names'
    <3> SUFFICES ASSUME NEW i \in 1 .. n
                 PROVE  [name |-> "log", number |-> nextLog + i - 1] \in Names'
      OBVIOUS
    <3>1. nextLog + i - 1 \in 1 .. nextLog' - 1
      OBVIOUS
    <3>2. [name |-> "log", number |-> nextLog + i - 1]
             \in [name : {"log"}, number : 1 .. nextLog' - 1]
      BY <3>1
    <3> QED
      BY <3>2 DEF Names
  <2> QED
    BY <2>1 DEF LogProbes
<1>2. LogProbes(n) \in Seq(Names') /\ Len(LogProbes(n)) = n
  <2>1. LogProbes(n) \in Seq(Names')
    BY <1>1, SeqDef
  <2>2. DOMAIN LogProbes(n) = 1 .. n
    BY DEF LogProbes
  <2> QED
    BY <2>1, <2>2, LenProperties
<1>3. \A i \in 1 .. n : LogProbes(n)[i] = [name |-> "log", number |-> nextLog + i - 1]
  BY DEF LogProbes
<1> QED
  BY <1>2, <1>3

\* What every way of going on to the next probe does to the list: n new logs
\* take the current probe's place.
Advanced(n) ==
  /\ nextLog' = nextLog + n
  /\ pending' \in Seq(Names')
  /\ Len(pending') = n + Len(pending) - 1
  /\ \A i \in 1 .. n :
        pending'[i] = [name |-> "log", number |-> nextLog + i - 1]
  /\ \A i \in n + 1 .. Len(pending') : pending'[i] = pending[i - n + 1]

LEMMA SpliceAdvances ==
  ASSUME TypeOK, pending # <<>>, NEW n \in Nat,
         nextLog' = nextLog + n, pending' = LogProbes(n) \o Tail(pending)
  PROVE  Advanced(n)
<1>1. nextLog \in Nat \ {0} /\ nextLog' \in Nat \ {0} /\ nextLog <= nextLog'
  BY DEF TypeOK
<1>2. pending \in Seq(Names')
  BY <1>1, NamesGrow, SeqMonotonic DEF TypeOK
<1>3. /\ Tail(pending) \in Seq(Names')
      /\ Len(Tail(pending)) = Len(pending) - 1
      /\ \A i \in 1 .. Len(Tail(pending)) : Tail(pending)[i] = pending[i + 1]
      /\ Len(pending) \in Nat
  BY <1>2, HeadTailProperties, LenProperties
<1>4. /\ LogProbes(n) \in Seq(Names')
      /\ Len(LogProbes(n)) = n
      /\ \A i \in 1 .. n : LogProbes(n)[i] = [name |-> "log", number |-> nextLog + i - 1]
  BY <1>1, LogProbesFacts
<1>5. /\ pending' \in Seq(Names')
      /\ Len(pending') = n + Len(pending) - 1
      /\ \A i \in 1 .. n + (Len(pending) - 1) :
            pending'[i] = IF i <= n THEN LogProbes(n)[i] ELSE Tail(pending)[i - n]
  <2> DEFINE logs == LogProbes(n)
             rest == Tail(pending)
  <2>1. logs \in Seq(Names') /\ rest \in Seq(Names') /\ pending' = logs \o rest
    BY <1>3, <1>4
  <2>2. Len(logs) = n /\ Len(rest) = Len(pending) - 1
    BY <1>3, <1>4
  <2> HIDE DEF logs, rest
  <2>3. /\ logs \o rest \in Seq(Names')
        /\ Len(logs \o rest) = Len(logs) + Len(rest)
        /\ \A i \in 1 .. Len(logs) + Len(rest) :
              (logs \o rest)[i] = IF i <= Len(logs) THEN logs[i] ELSE rest[i - Len(logs)]
    BY <2>1, ConcatProperties
  <2>4. /\ pending' \in Seq(Names')
        /\ Len(pending') = n + (Len(pending) - 1)
        /\ \A i \in 1 .. n + (Len(pending) - 1) :
              pending'[i] = IF i <= n THEN logs[i] ELSE rest[i - n]
    BY <2>1, <2>2, <2>3
  <2>5. n + (Len(pending) - 1) = n + Len(pending) - 1
    BY <1>3
  <2> QED
    BY <2>4, <2>5 DEF logs, rest
<1>6. ASSUME NEW i \in n + 1 .. Len(pending')
      PROVE  pending'[i] = pending[i - n + 1]
  <2>1. i - n \in 1 .. Len(Tail(pending)) /\ ~(i <= n)
    BY <1>3, <1>5
  <2>2. Tail(pending)[i - n] = pending[(i - n) + 1]
    BY <1>3, <2>1
  <2> QED
    BY <1>3, <1>5, <2>1, <2>2
<1>7. \A i \in 1 .. n : pending'[i] = [name |-> "log", number |-> nextLog + i - 1]
  BY <1>3, <1>4, <1>5
<1> QED
  BY <1>5, <1>6, <1>7 DEF Advanced

LEMMA TailAdvances ==
  ASSUME TypeOK, pending # <<>>, nextLog' = nextLog, pending' = Tail(pending)
  PROVE  Advanced(0)
<1>1. Names' = Names /\ nextLog \in Nat
  BY DEF TypeOK, Names
<1>2. /\ Tail(pending) \in Seq(Names)
      /\ Len(Tail(pending)) = Len(pending) - 1
      /\ \A i \in 1 .. Len(Tail(pending)) : Tail(pending)[i] = pending[i + 1]
      /\ Len(pending) \in Nat
  BY HeadTailProperties, LenProperties DEF TypeOK
<1> QED
  BY <1>1, <1>2 DEF Advanced

\* Going on keeps the list's names apart, new and complete.
LEMMA AdvancedKeepsList ==
  ASSUME TypeOK, ListInv, kpc \in WithProbe, NEW n \in Nat, Advanced(n),
         done' = done, kpc' = "next"
  PROVE  ListInv'
<1>1. /\ nextLog \in Nat \ {0} /\ nextLog' \in Nat \ {0} /\ nextLog <= nextLog'
      /\ nextLog' = nextLog + n
  BY DEF TypeOK, Advanced
<1>2. /\ pending \in Seq(Names) /\ Len(pending) \in Nat /\ DOMAIN pending = 1 .. Len(pending)
      /\ \A i \in 1 .. Len(pending) : pending[i] \in Names
      /\ pending # <<>> /\ Len(pending) >= 1 /\ pending[1] \in done
  <2>1. pending \in Seq(Names) /\ pending # <<>> /\ Probe \in done
    BY DEF TypeOK, ListInv
  <2>2. Len(pending) \in Nat /\ DOMAIN pending = 1 .. Len(pending)
    BY <2>1, LenProperties
  <2>3. \A i \in 1 .. Len(pending) : pending[i] \in Names
    BY <2>1, ElementOfSeq
  <2>4. Len(pending) \in Nat \ {0}
    BY <2>1, EmptySeq
  <2>5. Probe = pending[1]
    BY <2>1 DEF Probe
  <2> QED
    BY <2>1, <2>2, <2>3, <2>4, <2>5
<1>3. /\ pending' \in Seq(Names') /\ DOMAIN pending' = 1 .. Len(pending')
      /\ Len(pending') = n + Len(pending) - 1
  BY LenProperties DEF Advanced
<1>4. \A i \in 1 .. n : /\ pending'[i] = [name |-> "log", number |-> nextLog + i - 1]
                        /\ pending'[i] \notin Names
  <2> SUFFICES ASSUME NEW i \in 1 .. n
               PROVE  /\ pending'[i] = [name |-> "log", number |-> nextLog + i - 1]
                      /\ [name |-> "log", number |-> nextLog + i - 1] \notin Names
    BY Zenon
  <2>1. pending'[i] = [name |-> "log", number |-> nextLog + i - 1]
    BY DEF Advanced
  <2>2. nextLog + i - 1 \in Nat \ {0} /\ ~(nextLog + i - 1 < nextLog)
    BY <1>1
  <2> QED
    BY <1>1, <2>1, <2>2, LogNames
<1>5. \A i \in n + 1 .. Len(pending') : /\ i - n + 1 \in 2 .. Len(pending)
                                        /\ pending'[i] = pending[i - n + 1]
                                        /\ pending'[i] \in Names
  BY <1>2, <1>3 DEF Advanced
<1>6. \A i \in 1 .. Len(pending') : i \in 1 .. n \/ i \in n + 1 .. Len(pending')
  BY <1>2, <1>3
<1>7. ASSUME NEW i \in DOMAIN pending', NEW j \in DOMAIN pending', pending'[i] = pending'[j]
      PROVE  i = j
  <2>1. CASE i \in 1 .. n /\ j \in 1 .. n
    <3>1. [name |-> "log", number |-> nextLog + i - 1].number
            = [name |-> "log", number |-> nextLog + j - 1].number
      BY <1>4, <1>7, <2>1
    <3> QED
      BY <1>1, <2>1, <3>1
  <2>2. CASE i \in n + 1 .. Len(pending') /\ j \in n + 1 .. Len(pending')
    <3>1. i - n + 1 \in DOMAIN pending /\ j - n + 1 \in DOMAIN pending
      BY <1>2, <1>5, <2>2
    <3>2. pending[i - n + 1] = pending[j - n + 1]
      BY <1>5, <1>7, <2>2
    <3>3. \A k, l \in DOMAIN pending : pending[k] = pending[l] => k = l
      BY DEF ListInv
    <3>4. i - n + 1 = j - n + 1
      BY <3>1, <3>2, <3>3
    <3> QED
      BY <2>2, <3>4
  <2> QED
    BY <1>3, <1>4, <1>5, <1>6, <1>7, <2>1, <2>2
<1>8. \A i \in DOMAIN pending' : pending'[i] \notin done'
  <2>1. \A i \in 2 .. Len(pending) : pending[i] \notin done
    BY <1>2 DEF ListInv
  <2>2. done \subseteq Names
    BY DEF TypeOK
  <2> QED
    BY <1>3, <1>4, <1>5, <1>6, <2>1, <2>2
<1>9. ASSUME NEW name \in Names', name \notin done'
      PROVE  \E i \in DOMAIN pending' : pending'[i] = name
  <2>1. CASE name \in Names
    <3>1. PICK i \in 1 .. Len(pending) : pending[i] = name
      BY <1>2, <1>9, <2>1 DEF ListInv
    <3>2. i # 1
      BY <1>2, <1>9, <3>1
    <3>3. i + n - 1 \in n + 1 .. Len(pending') /\ (i + n - 1) - n + 1 = i
      BY <1>2, <1>3, <3>2
    <3>4. i + n - 1 \in DOMAIN pending'
      BY <1>3, <3>3
    <3>5. pending'[i + n - 1] = pending[(i + n - 1) - n + 1]
      BY <1>5, <3>3
    <3> QED
      BY <3>1, <3>3, <3>4, <3>5
  <2>2. CASE name \notin Names
    <3>1. PICK k \in nextLog .. nextLog' - 1 : name = [name |-> "log", number |-> k]
      <4>1. name \notin {Fixed(Catalog[i]) : i \in DOMAIN Catalog}
        BY <2>2 DEF Names
      <4>2. name \in [name : {"log"}, number : 1 .. nextLog' - 1]
        BY <1>9, <4>1 DEF Names, Fixed
      <4>3. PICK k \in 1 .. nextLog' - 1 : name = [name |-> "log", number |-> k]
        BY <4>2
      <4>4. ~(k < nextLog)
        BY <1>1, <2>2, <4>3, LogNames
      <4> QED
        BY <1>1, <4>3, <4>4
    <3>2. k - nextLog + 1 \in 1 .. n /\ nextLog + (k - nextLog + 1) - 1 = k
      BY <1>1, <3>1
    <3>3. k - nextLog + 1 \in DOMAIN pending'
      BY <1>2, <1>3, <3>2
    <3>4. pending'[k - nextLog + 1] = name
      BY <1>4, <3>1, <3>2
    <3> QED
      BY <3>3, <3>4
  <2> QED
    BY <2>1, <2>2
<1> QED
  BY <1>7, <1>8, <1>9 DEF ListInv, WithProbe, Terminating

-----------------------------------------------------------------------------
(* What a step does to the list. *)

ListLabels == WithProbe \cup {"returned", "interrupted"}

Stands ==
  /\ UNCHANGED work
  /\ kpc' \in WithProbe => kpc \in WithProbe
  /\ kpc \in ListLabels => kpc' \in ListLabels

TakesUp ==
  /\ pending # <<>> /\ Probe \notin done
  /\ kpc = "next" /\ kpc' \in {"started", "close"}
  /\ done' = done \cup {Probe}
  /\ UNCHANGED <<pending, nextLog>>

GoesOn ==
  /\ kpc = "record" /\ kpc' = "next"
  /\ done' = done
  /\ \E n \in Nat : Advanced(n)

LEMMA StepOnList ==
  ASSUME TypeOK, ListInv, [Next]_vars
  PROVE  Stands \/ TakesUp \/ GoesOn
<1> USE DEF Goto, Return, work, ListLabels, WithProbe, Terminating
<1>1. CASE Prepare \/ CannotCapture
  BY <1>1 DEF Stands, WorkingLabels, Prepare, CannotCapture
<1>2. CASE BeginWait \/ ProbeReturned \/ ProbeTimesOut
  BY <1>2 DEF Stands, WorkingLabels, BeginWait, ProbeReturned, ProbeTimesOut
<1>3. CASE SignalGroup \/ GroupGone \/ GraceOver \/ GiveUp
  BY <1>3 DEF Stands, WorkingLabels, SignalGroup, GroupGone, GraceOver, GiveUp
<1>4. CASE CloseCapture \/ CaptureBreaks \/ RecordSurvivor
  BY <1>4 DEF Stands, WorkingLabels, CloseCapture, CaptureBreaks, RecordSurvivor
<1>5. CASE Promote \/ CannotPromote \/ TidyStaging
  BY <1>5 DEF Stands, WorkingLabels, Promote, CannotPromote, TidyStaging
<1>6. CASE Keystroke \/ LeaderEnds \/ OthersEnd
  BY <1>6 DEF Stands, WorkingLabels, Keystroke, LeaderEnds, OthersEnd
<1>7. CASE LaunchProbe \/ ProbeCannotStart
  BY <1>7 DEF TakesUp, LaunchProbe, ProbeCannotStart
<1>8. CASE RecordFailure \/ RecordSuccess \/ ControlMalformed
  <2>1. /\ kpc = "record" /\ kpc' = "next" /\ done' = done
        /\ nextLog' = nextLog /\ pending' = Tail(pending)
    BY <1>8 DEF RecordFailure, RecordSuccess, ControlMalformed
  <2>2. Advanced(0)
    BY <2>1, TailAdvances DEF ListInv
  <2> QED
    BY <2>1, <2>2 DEF GoesOn
<1>9. CASE ScheduleLogs
  <2>1. PICK n \in 0 .. MaxLogs : /\ pending' = LogProbes(n) \o Tail(pending)
                                  /\ nextLog' = nextLog + n
    BY <1>9 DEF ScheduleLogs
  <2>2. n \in Nat
    BY KubernetesBounds
  <2>3. kpc = "record" /\ kpc' = "next" /\ done' = done
    BY <1>9 DEF ScheduleLogs
  <2>4. Advanced(n)
    BY <2>1, <2>2, <2>3, SpliceAdvances DEF ListInv
  <2> QED
    BY <2>2, <2>3, <2>4 DEF GoesOn
<1>10. CASE UNCHANGED vars
  BY <1>10 DEF Stands, vars
<1> QED
  BY <1>1, <1>2, <1>3, <1>4, <1>5, <1>6, <1>7, <1>8, <1>9, <1>10 DEF Next, Collect

LEMMA ListStep ==
  ASSUME TypeOK, ListInv, [Next]_vars
  PROVE  ListInv'
<1>1. CASE Stands
  <2>1. Names' = Names /\ Probe' = Probe
    BY <1>1 DEF Stands, work, Names, Probe
  <2> QED
    BY <1>1, <2>1 DEF Stands, work, ListInv, ListLabels
<1>2. CASE TakesUp
  <2>1. Names' = Names /\ Probe' = Probe
    BY <1>2 DEF TakesUp, Names, Probe
  <2>2. /\ pending \in Seq(Names) /\ DOMAIN pending = 1 .. Len(pending)
        /\ Len(pending) \in Nat \ {0} /\ Probe = pending[1]
    BY <1>2, LenProperties, EmptySeq DEF TypeOK, TakesUp, Probe
  <2>3. \A i \in DOMAIN pending : pending[i] \notin done
    BY <1>2 DEF TakesUp, ListInv, WithProbe, Terminating
  <2>4. \A i \in DOMAIN pending : pending[i] = Probe => i = 1
    BY <2>2 DEF ListInv
  <2>5. kpc' \in WithProbe
    BY <1>2 DEF TakesUp, WithProbe
  <2> QED
    BY <1>2, <2>1, <2>2, <2>3, <2>4, <2>5 DEF TakesUp, ListInv
<1>3. CASE GoesOn
  BY <1>3, AdvancedKeepsList DEF GoesOn, WithProbe
<1> QED
  BY <1>1, <1>2, <1>3, StepOnList

-----------------------------------------------------------------------------
(* Types. *)

LEMMA ListTypesStep ==
  ASSUME TypeOK, ListInv, [Next]_vars
  PROVE  nextLog' \in Nat \ {0} /\ pending' \in Seq(Names') /\ done' \subseteq Names'
<1>1. CASE Stands
  BY <1>1 DEF Stands, work, TypeOK, Names
<1>2. CASE TakesUp
  <2>1. Names' = Names
    BY <1>2 DEF TakesUp, Names
  <2>2. Probe \in Names
    BY <1>2, HeadTailProperties DEF TakesUp, TypeOK, Probe
  <2> QED
    BY <1>2, <2>1, <2>2 DEF TakesUp, TypeOK
<1>3. CASE GoesOn
  <2>1. PICK n \in Nat : Advanced(n)
    BY <1>3 DEF GoesOn
  <2>2. nextLog' \in Nat \ {0} /\ nextLog <= nextLog'
    BY <2>1 DEF Advanced, TypeOK
  <2>3. Names \subseteq Names'
    BY <2>2, NamesGrow DEF TypeOK
  <2> QED
    BY <1>3, <2>1, <2>2, <2>3 DEF GoesOn, Advanced, TypeOK
<1> QED
  BY <1>1, <1>2, <1>3, StepOnList

LEMMA TypesStep ==
  ASSUME TypeOK, ListInv, [Next]_vars
  PROVE  TypeOK'
<1> DEFINE Scalars ==
      /\ kpc \in WorkingLabels \cup {"returned", "interrupted"}
      /\ leader \in {"none", "running", "zero", "nonzero"}
      /\ cause \in {"none", "timeout", "interrupt"}
      /\ exit \in {"none", "succeeded", "failed"}
      /\ others \in BOOLEAN /\ residue \in BOOLEAN /\ told \in BOOLEAN
      /\ admitted \in BOOLEAN /\ problems \in BOOLEAN
      /\ keystrokes \in 0 .. MaxKeystrokes
      /\ window \subseteq Unguarded
<1>1. Scalars
  BY DEF TypeOK
<1>2. Scalars'
  <2> USE <1>1, KubernetesBounds
      DEF WorkingLabels, Terminating, Unguarded, Goto, Return, group, locals,
          answer, strikes
  <2>1. CASE Prepare
    BY <2>1 DEF Prepare
  <2>2. CASE CannotCapture
    BY <2>2 DEF CannotCapture
  <2>3. CASE LaunchProbe
    BY <2>3 DEF LaunchProbe
  <2>4. CASE ProbeCannotStart
    BY <2>4 DEF ProbeCannotStart
  <2>5. CASE BeginWait
    BY <2>5 DEF BeginWait
  <2>6. CASE ProbeReturned
    BY <2>6 DEF ProbeReturned
  <2>7. CASE ProbeTimesOut
    BY <2>7 DEF ProbeTimesOut
  <2>8. CASE SignalGroup
    BY <2>8 DEF SignalGroup
  <2>9. CASE GroupGone
    BY <2>9 DEF GroupGone
  <2>10. CASE GraceOver
    BY <2>10 DEF GraceOver
  <2>11. CASE GiveUp
    BY <2>11 DEF GiveUp
  <2>12. CASE CloseCapture
    BY <2>12 DEF CloseCapture
  <2>13. CASE CaptureBreaks
    BY <2>13 DEF CaptureBreaks
  <2>14. CASE RecordSurvivor
    BY <2>14 DEF RecordSurvivor
  <2>15. CASE RecordFailure
    BY <2>15 DEF RecordFailure
  <2>16. CASE RecordSuccess
    BY <2>16 DEF RecordSuccess
  <2>17. CASE ScheduleLogs
    BY <2>17 DEF ScheduleLogs
  <2>18. CASE ControlMalformed
    BY <2>18 DEF ControlMalformed
  <2>19. CASE Promote
    BY <2>19 DEF Promote
  <2>20. CASE CannotPromote
    BY <2>20 DEF CannotPromote
  <2>21. CASE TidyStaging
    BY <2>21 DEF TidyStaging
  <2>22. CASE Keystroke
    <3>1. window' \subseteq Unguarded
      BY <2>22 DEF Keystroke
    <3>2. keystrokes' \in 0 .. MaxKeystrokes
      BY <2>22 DEF Keystroke
    <3>3. /\ kpc' \in WorkingLabels \cup {"returned", "interrupted"}
          /\ cause' \in {"none", "timeout", "interrupt"}
      BY <2>22 DEF Keystroke
    <3>4. UNCHANGED <<leader, others, exit, residue, told, admitted, problems>>
      BY <2>22 DEF Keystroke, work
    <3> QED
      BY <3>1, <3>2, <3>3, <3>4
  <2>23. CASE LeaderEnds
    BY <2>23 DEF LeaderEnds
  <2>24. CASE OthersEnd
    <3>1. /\ others' = FALSE
          /\ UNCHANGED <<kpc, leader, cause, residue, exit, told, admitted, problems,
                        keystrokes, window>>
      BY <2>24 DEF OthersEnd
    <3>2. others' \in BOOLEAN
      BY <3>1
    <3> QED
      BY <3>1, <3>2
  <2>25. CASE UNCHANGED vars
    BY <2>25 DEF vars
  <2> QED
    BY <2>1, <2>2, <2>3, <2>4, <2>5, <2>6, <2>7, <2>8, <2>9, <2>10, <2>11,
       <2>12, <2>13, <2>14, <2>15, <2>16, <2>17, <2>18, <2>19, <2>20, <2>21,
       <2>22, <2>23, <2>24, <2>25 DEF Next, Collect
<1> QED
  BY <1>2, ListTypesStep DEF TypeOK

-----------------------------------------------------------------------------
(* The invariant's other parts. *)

LEMMA GroupStep ==
  ASSUME TypeOK, GroupInv, [Next]_vars
  PROVE  GroupInv'
<1> USE DEF TypeOK, GroupInv, GroupAlive, Goto, Return, group, locals, answer,
           strikes, work, Terminating
<1>1. CASE Prepare
  BY <1>1 DEF Prepare
<1>2. CASE CannotCapture
  BY <1>2 DEF CannotCapture
<1>3. CASE LaunchProbe
  BY <1>3 DEF LaunchProbe
<1>4. CASE ProbeCannotStart
  BY <1>4 DEF ProbeCannotStart
<1>5. CASE BeginWait
  BY <1>5 DEF BeginWait
<1>6. CASE ProbeReturned
  BY <1>6 DEF ProbeReturned
<1>7. CASE ProbeTimesOut
  BY <1>7 DEF ProbeTimesOut
<1>8. CASE SignalGroup
  BY <1>8 DEF SignalGroup
<1>9. CASE GroupGone
  BY <1>9 DEF GroupGone
<1>10. CASE GraceOver
  BY <1>10 DEF GraceOver
<1>11. CASE GiveUp
  BY <1>11 DEF GiveUp
<1>12. CASE CloseCapture
  BY <1>12 DEF CloseCapture
<1>13. CASE CaptureBreaks
  BY <1>13 DEF CaptureBreaks
<1>14. CASE RecordSurvivor
  BY <1>14 DEF RecordSurvivor
<1>15. CASE RecordFailure
  BY <1>15 DEF RecordFailure
<1>16. CASE RecordSuccess
  BY <1>16 DEF RecordSuccess
<1>17. CASE ScheduleLogs
  BY <1>17 DEF ScheduleLogs
<1>18. CASE ControlMalformed
  BY <1>18 DEF ControlMalformed
<1>19. CASE Promote
  BY <1>19 DEF Promote
<1>20. CASE CannotPromote
  BY <1>20 DEF CannotPromote
<1>21. CASE TidyStaging
  BY <1>21 DEF TidyStaging
<1>22. CASE Keystroke
  BY <1>22 DEF Keystroke
<1>23. CASE LeaderEnds
  BY <1>23 DEF LeaderEnds
<1>24. CASE OthersEnd
  BY <1>24 DEF OthersEnd
<1>25. CASE UNCHANGED vars
  BY <1>25 DEF vars
<1> QED
  BY <1>1, <1>2, <1>3, <1>4, <1>5, <1>6, <1>7, <1>8, <1>9, <1>10, <1>11,
     <1>12, <1>13, <1>14, <1>15, <1>16, <1>17, <1>18, <1>19, <1>20, <1>21,
     <1>22, <1>23, <1>24, <1>25 DEF Next, Collect

LEMMA KeystrokeStep ==
  ASSUME TypeOK, GroupInv, KeystrokeInv, [Next]_vars
  PROVE  KeystrokeInv'
<1> USE DEF TypeOK, GroupInv, KeystrokeInv, InterruptLeavesNoGroup, GroupAlive,
           WorkingLabels, Unguarded, Goto, Return, group, locals, answer, strikes, work, Terminating
<1>1. CASE Prepare
  BY <1>1 DEF Prepare
<1>2. CASE CannotCapture
  BY <1>2 DEF CannotCapture
<1>3. CASE LaunchProbe
  BY <1>3 DEF LaunchProbe
<1>4. CASE ProbeCannotStart
  BY <1>4 DEF ProbeCannotStart
<1>5. CASE BeginWait
  BY <1>5 DEF BeginWait
<1>6. CASE ProbeReturned
  BY <1>6 DEF ProbeReturned
<1>7. CASE ProbeTimesOut
  BY <1>7 DEF ProbeTimesOut
<1>8. CASE SignalGroup
  BY <1>8 DEF SignalGroup
<1>9. CASE GroupGone
  BY <1>9 DEF GroupGone
<1>10. CASE GraceOver
  BY <1>10 DEF GraceOver
<1>11. CASE GiveUp
  BY <1>11 DEF GiveUp
<1>12. CASE CloseCapture
  BY <1>12 DEF CloseCapture
<1>13. CASE CaptureBreaks
  BY <1>13 DEF CaptureBreaks
<1>14. CASE RecordSurvivor
  BY <1>14 DEF RecordSurvivor
<1>15. CASE RecordFailure
  BY <1>15 DEF RecordFailure
<1>16. CASE RecordSuccess
  BY <1>16 DEF RecordSuccess
<1>17. CASE ScheduleLogs
  BY <1>17 DEF ScheduleLogs
<1>18. CASE ControlMalformed
  BY <1>18 DEF ControlMalformed
<1>19. CASE Promote
  BY <1>19 DEF Promote
<1>20. CASE CannotPromote
  BY <1>20 DEF CannotPromote
<1>21. CASE TidyStaging
  BY <1>21 DEF TidyStaging
<1>22. CASE Keystroke
  <2>1. CASE kpc = "wait"
    BY <1>22, <2>1 DEF Keystroke
  <2>2. CASE kpc # "wait"
    <3>1. kpc' = "interrupted" /\ UNCHANGED <<leader, others, cause, told>>
      BY <1>22, <2>2 DEF Keystroke
    <3>2. CASE kpc \in Unguarded
      <4>1. GroupAlive => kpc \in window'
        BY <1>22, <2>2, <3>2 DEF Keystroke
      <4> QED
        BY <3>1, <4>1
    <3>3. CASE kpc \in {"prepare", "next", "tidy"}
      BY <3>1, <3>3
    <3> QED
      BY <1>22, <2>2, <3>2, <3>3 DEF Keystroke
  <2> QED
    BY <2>1, <2>2
<1>23. CASE LeaderEnds
  BY <1>23 DEF LeaderEnds
<1>24. CASE OthersEnd
  BY <1>24 DEF OthersEnd
<1>25. CASE UNCHANGED vars
  BY <1>25 DEF vars
<1> QED
  BY <1>1, <1>2, <1>3, <1>4, <1>5, <1>6, <1>7, <1>8, <1>9, <1>10, <1>11,
     <1>12, <1>13, <1>14, <1>15, <1>16, <1>17, <1>18, <1>19, <1>20, <1>21,
     <1>22, <1>23, <1>24, <1>25 DEF Next, Collect

LEMMA PromotionStep ==
  ASSUME TypeOK, GroupInv, PromotionInv, [Next]_vars
  PROVE  PromotionInv'
<1> USE DEF TypeOK, GroupInv, PromotionInv, SurvivorStopsPromotion, GroupAlive,
           WorkingLabels, Goto, Return, group, locals, answer, strikes, work, Terminating
<1>1. CASE Prepare
  BY <1>1 DEF Prepare
<1>2. CASE CannotCapture
  BY <1>2 DEF CannotCapture
<1>3. CASE LaunchProbe
  BY <1>3 DEF LaunchProbe
<1>4. CASE ProbeCannotStart
  BY <1>4 DEF ProbeCannotStart
<1>5. CASE BeginWait
  BY <1>5 DEF BeginWait
<1>6. CASE ProbeReturned
  BY <1>6 DEF ProbeReturned
<1>7. CASE ProbeTimesOut
  BY <1>7 DEF ProbeTimesOut
<1>8. CASE SignalGroup
  BY <1>8 DEF SignalGroup
<1>9. CASE GroupGone
  BY <1>9 DEF GroupGone
<1>10. CASE GraceOver
  BY <1>10 DEF GraceOver
<1>11. CASE GiveUp
  BY <1>11 DEF GiveUp
<1>12. CASE CloseCapture
  BY <1>12 DEF CloseCapture
<1>13. CASE CaptureBreaks
  BY <1>13 DEF CaptureBreaks
<1>14. CASE RecordSurvivor
  BY <1>14 DEF RecordSurvivor
<1>15. CASE RecordFailure
  BY <1>15 DEF RecordFailure
<1>16. CASE RecordSuccess
  BY <1>16 DEF RecordSuccess
<1>17. CASE ScheduleLogs
  BY <1>17 DEF ScheduleLogs
<1>18. CASE ControlMalformed
  BY <1>18 DEF ControlMalformed
<1>19. CASE Promote
  BY <1>19 DEF Promote
<1>20. CASE CannotPromote
  BY <1>20 DEF CannotPromote
<1>21. CASE TidyStaging
  BY <1>21 DEF TidyStaging
<1>22. CASE Keystroke
  BY <1>22 DEF Keystroke
<1>23. CASE LeaderEnds
  BY <1>23 DEF LeaderEnds
<1>24. CASE OthersEnd
  BY <1>24 DEF OthersEnd
<1>25. CASE UNCHANGED vars
  BY <1>25 DEF vars
<1> QED
  BY <1>1, <1>2, <1>3, <1>4, <1>5, <1>6, <1>7, <1>8, <1>9, <1>10, <1>11,
     <1>12, <1>13, <1>14, <1>15, <1>16, <1>17, <1>18, <1>19, <1>20, <1>21,
     <1>22, <1>23, <1>24, <1>25 DEF Next, Collect

-----------------------------------------------------------------------------
(* Theorems. *)

LEMMA InitInv == Init => KubernetesInv
<1> SUFFICES ASSUME Init PROVE KubernetesInv
  OBVIOUS
<1>1. /\ Catalog \in Seq(STRING) /\ Len(Catalog) \in Nat
      /\ DOMAIN Catalog = 1 .. Len(Catalog)
  BY CatalogDistinct, LenProperties
<1>2. /\ pending = [i \in 1 .. Len(Catalog) |-> Fixed(Catalog[i])]
      /\ pending \in [1 .. Len(Catalog) -> Names]
  BY <1>1 DEF Init, Names
<1>3. pending \in Seq(Names) /\ DOMAIN pending = 1 .. Len(Catalog)
  BY <1>1, <1>2, SeqDef
<1>4. TypeOK
  <2>1. kpc \in WorkingLabels /\ window \subseteq Unguarded
    BY DEF Init, WorkingLabels
  <2>2. keystrokes \in 0 .. MaxKeystrokes /\ nextLog \in Nat \ {0}
    BY KubernetesBounds DEF Init
  <2>3. /\ leader \in {"none", "running", "zero", "nonzero"}
        /\ cause \in {"none", "timeout", "interrupt"}
        /\ exit \in {"none", "succeeded", "failed"}
        /\ {others, residue, told, admitted, problems} \subseteq BOOLEAN
        /\ done \subseteq Names
    BY DEF Init
  <2> QED
    BY <1>3, <2>1, <2>2, <2>3 DEF TypeOK
<1>5. GroupInv /\ KeystrokeInv /\ PromotionInv
  BY DEF Init, GroupInv, KeystrokeInv, PromotionInv, InterruptLeavesNoGroup,
         SurvivorStopsPromotion, GroupAlive, Terminating
<1>6. ListInv
  <2>1. ASSUME NEW i \in DOMAIN pending, NEW j \in DOMAIN pending, pending[i] = pending[j]
        PROVE  i = j
    <3>1. Fixed(Catalog[i]).name = Fixed(Catalog[j]).name
      BY <1>2, <1>3, <2>1
    <3>2. Catalog[i] = Catalog[j]
      BY <3>1 DEF Fixed
    <3> QED
      BY <1>1, <1>3, <3>2, CatalogDistinct
  <2>2. [name : {"log"}, number : 1 .. nextLog - 1] = {}
    BY DEF Init
  <2>3. \A name \in Names : \E i \in DOMAIN pending : pending[i] = name
    BY <1>1, <1>2, <1>3, <2>2 DEF Names
  <2>4. done = {} /\ kpc \notin WithProbe
    BY DEF Init, WithProbe, Terminating
  <2> QED
    BY <2>1, <2>3, <2>4 DEF ListInv
<1> QED
  BY <1>4, <1>5, <1>6 DEF KubernetesInv

LEMMA StepInv == KubernetesInv /\ [Next]_vars => KubernetesInv'
BY TypesStep, GroupStep, KeystrokeStep, ListStep, PromotionStep DEF KubernetesInv

\* The inductive invariant: what is known at each label of collect_kubernetes of
\* the current probe's group, of the list of probes and of what was promoted.
THEOREM KubernetesInvariant == Spec => []KubernetesInv
BY InitInv, StepInv, PTL DEF Spec

\* Types of collect_kubernetes's state.
THEOREM KubernetesTypes == Spec => []TypeOK
<1>1. KubernetesInv => TypeOK
  BY DEF KubernetesInv
<1> QED
  BY <1>1, KubernetesInvariant, PTL

\* However many logs every list of Pods names, no capture directory's name is
\* used twice.
THEOREM CapturesAreFresh == Spec => []NamesFresh
<1>1. KubernetesInv => NamesFresh
  BY DEF KubernetesInv, ListInv, NamesFresh, WithProbe, Terminating
<1> QED
  BY <1>1, KubernetesInvariant, PTL

\* What a surviving process may still write to is not promoted.
THEOREM SurvivorsPreventPromotion == Spec => []SurvivorStopsPromotion
<1>1. KubernetesInv => SurvivorStopsPromotion
  BY DEF KubernetesInv, PromotionInv
<1> QED
  BY <1>1, KubernetesInvariant, PTL

\* No error that follows a keystroke makes it an ordinary failure.
THEOREM InterruptsAreNotSwallowed == Spec => []InterruptNotSwallowed
<1>1. KubernetesInv => InterruptNotSwallowed
  BY DEF KubernetesInv, TypeOK, KeystrokeInv, InterruptNotSwallowed, Terminating
<1> QED
  BY <1>1, KubernetesInvariant, PTL

\* An interrupt leaves no group alive that it does not name, outside the windows.
THEOREM InterruptsLeaveNoGroup == Spec => []InterruptLeavesNoGroup
<1>1. KubernetesInv => InterruptLeavesNoGroup
  BY DEF KubernetesInv, KeystrokeInv
<1> QED
  BY <1>1, KubernetesInvariant, PTL

\* A collection that returns no problem has captured every probe it scheduled.
THEOREM SilenceIsComplete == Spec => []SilenceMeansComplete
<1>1. ASSUME KubernetesInv PROVE SilenceMeansComplete
  <2> SUFFICES ASSUME kpc = "returned", ~problems
               PROVE  admitted /\ pending = <<>> /\ done = Names
    BY DEF SilenceMeansComplete
  <2>1. admitted /\ pending = <<>>
    BY <1>1 DEF KubernetesInv, PromotionInv
  <2>2. DOMAIN pending = {}
    BY <2>1
  <2>3. Names \subseteq done /\ done \subseteq Names
    BY <1>1, <2>2 DEF KubernetesInv, ListInv, TypeOK
  <2> QED
    BY <2>1, <2>3
<1> QED
  BY <1>1, KubernetesInvariant, PTL

\* collect_kubernetes implements EvidenceSource: whatever run() relies on when it
\* calls a source holds of it.
THEOREM KubernetesIsEvidenceSource == Spec => IsEvidenceSource
<1>1. Init => Source!Init
  BY DEF Init, Source!Init, WorkingLabels
<1>2. ASSUME KubernetesInv, [Next]_vars
      PROVE  [Source!Next]_(Source!vars)
  <2> USE DEF Source!Next, Source!Admit, Source!Return, Source!Interrupt, Source!vars,
              WorkingLabels, Terminating, Goto, Return, answer
  <2>1. /\ admitted \in BOOLEAN /\ problems \in BOOLEAN
        /\ kpc \in WorkingLabels \cup {"returned", "interrupted"}
        /\ admitted => kpc \in {"tidy", "returned", "interrupted"}
        /\ kpc = "tidy" => admitted
    BY <1>2 DEF KubernetesInv, TypeOK, PromotionInv
  <2>2. CASE \/ Prepare \/ LaunchProbe \/ ProbeCannotStart
             \/ BeginWait \/ ProbeReturned \/ ProbeTimesOut
    BY <2>1, <2>2 DEF Prepare, LaunchProbe, ProbeCannotStart, BeginWait,
                      ProbeReturned, ProbeTimesOut
  <2>3. CASE CannotCapture
    BY <2>1, <2>3 DEF CannotCapture
  <2>4. CASE SignalGroup \/ GroupGone \/ GraceOver \/ GiveUp
    BY <2>1, <2>4 DEF SignalGroup, GroupGone, GraceOver, GiveUp
  <2>5. CASE CloseCapture \/ CaptureBreaks \/ RecordSurvivor
    BY <2>1, <2>5 DEF CloseCapture, CaptureBreaks, RecordSurvivor
  <2>6. CASE RecordFailure \/ RecordSuccess \/ ScheduleLogs \/ ControlMalformed
    BY <2>1, <2>6 DEF RecordFailure, RecordSuccess, ScheduleLogs, ControlMalformed
  <2>7. CASE Promote \/ CannotPromote \/ TidyStaging
    BY <2>1, <2>7 DEF Promote, CannotPromote, TidyStaging
  <2>8. CASE Keystroke
    BY <2>1, <2>8 DEF Keystroke
  <2>9. CASE LeaderEnds \/ OthersEnd
    BY <2>1, <2>9 DEF LeaderEnds, OthersEnd
  <2>10. CASE UNCHANGED vars
    BY <2>10 DEF vars
  <2> QED
    BY <1>2, <2>2, <2>3, <2>4, <2>5, <2>6, <2>7, <2>8, <2>9, <2>10 DEF Next, Collect
<1> QED
  BY <1>1, <1>2, KubernetesInvariant, PTL DEF Spec, IsEvidenceSource, Source!Spec

=============================================================================
