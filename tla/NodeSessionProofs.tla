-------------------------- MODULE NodeSessionProofs --------------------------
(***************************************************************************)
(* What holds of a session with a Target Node whatever its catalogs,       *)
(* timeouts and stubborn probes are, and however the connection, the       *)
(* collector and the keystrokes behave.                                    *)
(*                                                                         *)
(* The collector's invariant RemoteInv speaks of its own variables only;   *)
(* SessionInv joins collect_node to it through SSH's status and the way    *)
(* the archive's stream ended.                                             *)
(***************************************************************************)
EXTENDS NodeSession, TLAPS

JobNames == Probes \cup Copies \cup {"crash-infos"}

Gone == {"cleanup", "exit", "exited", "killed"}

Capturing == {"wait", "terminate", "reap", "record"}

JobTypes ==
  /\ plan \in Seq(JobNames)
  /\ listed \in 0 .. Len(CrashInfos)
  /\ good \subseteq Probes \cup Copies
  /\ sent \subseteq Probes \cup Copies

FlagTypes ==
  /\ succeeded \in BOOLEAN /\ raised \in BOOLEAN /\ workspace \in BOOLEAN
  /\ signalled \in BOOLEAN /\ said \in BOOLEAN /\ sigint \in BOOLEAN
  /\ abandoned \in BOOLEAN

LabelTypes ==
  /\ rpc \in RemoteActive \cup {"absent", "exited", "killed"}
  /\ probe \in {"none", "running", "zero", "nonzero"}
  /\ exit \in {"none", "succeeded", "failed"}
  /\ ending \in {"none", "short", "end"}
  /\ rstatus \in {"none", "zero", "nonzero"}
  /\ link \in {"up", "down"}
  /\ rwindow \subseteq {"assign", "cleanup", "elsewhere"}

CapturesProbe == rpc \in Capturing => plan # <<>> /\ Job \in Probes

RemoteTypes == JobTypes /\ FlagTypes /\ LabelTypes /\ CapturesProbe

\* A job is to be done, or was done well, or the collector knows of a failure.
NothingForgotten == succeeded => Jobs \subseteq good \cup Elements(plan)

\* What the archive holds, and what a zero exit status rests on.
StreamInv ==
  /\ rpc \notin Gone => ending = "none" /\ rstatus = "none"
  /\ rpc = "stream" => plan = <<>>
  /\ ending = "end" => plan = <<>> /\ sent = good
  /\ rpc \in {"cleanup", "exit"} =>
        /\ rstatus = "none"
        /\ succeeded /\ ~raised => ending = "end"
  /\ rpc \in {"exited", "killed"} => rstatus # "none"
  /\ rstatus = "zero" => rpc = "exited" /\ succeeded /\ ending = "end"

\* Who knows of the workspace.
WorkspaceInv ==
  /\ rpc \in {"absent", "make"} => ~workspace
  /\ rpc = "exit" /\ workspace => ~succeeded /\ (said \/ link = "down")
  /\ rpc = "exited" /\ workspace =>
        /\ rstatus = "nonzero"
        /\ said \/ link = "down" \/ rwindow \cap {"assign", "cleanup"} # {}

\* Who has left a probe behind.
ProbeInv ==
  /\ rpc \notin Gone \cup {"wait", "terminate", "reap"} => probe = "none"
  /\ rpc \in {"cleanup", "exit"} /\ probe # "none" => raised /\ rwindow # {}
  /\ rpc = "exited" /\ probe # "none" => rstatus = "nonzero" /\ rwindow # {}

\* A probe that was given up is a failure.
AbandonedInv == abandoned => ~succeeded

RemoteInv ==
  /\ RemoteTypes /\ NothingForgotten /\ StreamInv /\ WorkspaceInv /\ ProbeInv
  /\ AbandonedInv

-----------------------------------------------------------------------------
(* Sequences of jobs. *)

LEMMA TailElements ==
  ASSUME NEW S, NEW s \in Seq(S), s # <<>>
  PROVE  /\ Tail(s) \in Seq(S) /\ Head(s) \in S
         /\ Elements(s) = {Head(s)} \cup Elements(Tail(s))
<1>1. Len(s) \in Nat \ {0} /\ DOMAIN s = 1 .. Len(s)
  OBVIOUS
<1>2. /\ Tail(s) \in Seq(S) /\ Head(s) = s[1] /\ s[1] \in S
      /\ Len(Tail(s)) = Len(s) - 1 /\ DOMAIN Tail(s) = 1 .. Len(s) - 1
      /\ \A i \in 1 .. Len(s) - 1 : Tail(s)[i] = s[i + 1]
  BY <1>1
<1>3. ASSUME NEW i \in 1 .. Len(s), i # 1
      PROVE  i - 1 \in DOMAIN Tail(s) /\ s[i] = Tail(s)[i - 1]
  <2>1. i - 1 \in 1 .. Len(s) - 1 /\ (i - 1) + 1 = i
    BY <1>1, <1>3
  <2> QED
    BY <1>2, <2>1
<1>4. ASSUME NEW i \in DOMAIN s PROVE s[i] \in {Head(s)} \cup Elements(Tail(s))
  <2>1. CASE i = 1
    BY <1>2, <2>1
  <2>2. CASE i # 1
    BY <1>1, <1>3, <2>2 DEF Elements
  <2> QED
    BY <2>1, <2>2
<1>5. {Head(s)} \cup Elements(Tail(s)) \subseteq Elements(s)
  <2>1. Head(s) \in Elements(s)
    BY <1>1, <1>2 DEF Elements
  <2>2. ASSUME NEW i \in 1 .. Len(s) - 1 PROVE Tail(s)[i] \in Elements(s)
    <3>1. i + 1 \in DOMAIN s /\ Tail(s)[i] = s[i + 1]
      BY <1>1, <1>2
    <3> QED
      BY <3>1 DEF Elements
  <2> QED
    BY <1>2, <2>1, <2>2 DEF Elements
<1>6. Elements(s) \subseteq {Head(s)} \cup Elements(Tail(s))
  BY <1>4 DEF Elements
<1> QED
  BY <1>2, <1>5, <1>6

LEMMA ConcatElements ==
  ASSUME NEW S, NEW s \in Seq(S), NEW t \in Seq(S)
  PROVE  /\ s \o t \in Seq(S)
         /\ Elements(s) \cup Elements(t) \subseteq Elements(s \o t)
<1>1. /\ s \o t \in Seq(S) /\ Len(s \o t) = Len(s) + Len(t)
      /\ Len(s) \in Nat /\ Len(t) \in Nat
      /\ DOMAIN s = 1 .. Len(s) /\ DOMAIN t = 1 .. Len(t)
      /\ DOMAIN (s \o t) = 1 .. Len(s) + Len(t)
      /\ \A i \in 1 .. Len(s) : (s \o t)[i] = s[i]
      /\ \A i \in 1 .. Len(t) : (s \o t)[Len(s) + i] = t[i]
  OBVIOUS
<1>2. Elements(s) \subseteq Elements(s \o t)
  BY <1>1 DEF Elements
<1>3. ASSUME NEW i \in 1 .. Len(t) PROVE t[i] \in Elements(s \o t)
  <2>1. Len(s) + i \in DOMAIN (s \o t) /\ (s \o t)[Len(s) + i] = t[i]
    BY <1>1
  <2> QED
    BY <2>1 DEF Elements
<1> QED
  BY <1>1, <1>2, <1>3 DEF Elements

\* Every name a catalog holds is a job's.
LEMMA CatalogNames ==
  /\ NodeProbes \in Seq(JobNames) /\ CephProbes \in Seq(JobNames)
  /\ CrashInfos \in Seq(JobNames)
  /\ Plan \in Seq(JobNames)
<1>1. /\ NodeProbes \in Seq(JobNames) /\ CephProbes \in Seq(JobNames)
      /\ CrashInfos \in Seq(JobNames)
  BY PlanDistinct DEF JobNames, Probes, Elements
<1>2. /\ <<"crash-infos">> \in Seq(JobNames) /\ <<>> \in Seq(JobNames)
      /\ <<"config", "journal", "logs">> \in Seq(JobNames)
  BY DEF JobNames, Probes, Copies
<1>3. CephProbes \o <<"crash-infos">> \in Seq(JobNames)
  BY <1>1, <1>2
<1>4. NodeProbes \o (IF CollectCeph THEN CephProbes \o <<"crash-infos">> ELSE <<>>)
        \in Seq(JobNames)
  BY <1>1, <1>2, <1>3
<1> QED
  BY <1>1, <1>2, <1>4 DEF Plan


-----------------------------------------------------------------------------
(* The jobs: nothing is forgotten. *)

LEMMA FinishedJob ==
  ASSUME RemoteTypes, NothingForgotten, plan # <<>>, NEW ok \in BOOLEAN,
         FinishJob(ok), ok => Job \in Probes \cup Copies
  PROVE  /\ plan' \in Seq(JobNames)
         /\ listed' \in 0 .. Len(CrashInfos)
         /\ good' \subseteq Probes \cup Copies
         /\ succeeded' \in BOOLEAN
         /\ succeeded' => succeeded /\ ok
         /\ NothingForgotten'
<1>1. /\ plan' = Tail(plan) /\ listed' = listed
      /\ succeeded' = (succeeded /\ ok)
      /\ good' = good \cup (IF ok THEN {Job} ELSE {})
  BY DEF FinishJob
<1>2. /\ Tail(plan) \in Seq(JobNames)
      /\ Elements(plan) = {Job} \cup Elements(Tail(plan))
  BY TailElements DEF RemoteTypes, JobTypes, Job
<1>3. Jobs' = Jobs
  BY <1>1 DEF Jobs
<1>4. succeeded' => succeeded /\ ok
  BY <1>1
<1>5. succeeded' => Jobs' \subseteq good' \cup Elements(plan')
  <2> SUFFICES ASSUME succeeded' PROVE Jobs' \subseteq good' \cup Elements(plan')
    OBVIOUS
  <2>1. succeeded /\ ok
    BY <1>4
  <2>2. Jobs \subseteq good \cup Elements(plan)
    BY <2>1 DEF NothingForgotten
  <2>3. good' = good \cup {Job}
    BY <1>1, <2>1
  <2> QED
    BY <1>1, <1>2, <1>3, <2>2, <2>3
<1>6. succeeded' \in BOOLEAN
  BY <1>1 DEF RemoteTypes, FlagTypes
<1>7. good' \subseteq Probes \cup Copies
  BY <1>1 DEF RemoteTypes, JobTypes
<1>8. listed' \in 0 .. Len(CrashInfos) /\ plan' \in Seq(JobNames)
  BY <1>1, <1>2 DEF RemoteTypes, JobTypes
<1> QED
  BY <1>4, <1>5, <1>6, <1>7, <1>8 DEF NothingForgotten

LEMMA CrashListRead ==
  ASSUME RemoteTypes, NothingForgotten, ReadCrashList
  PROVE  /\ plan' \in Seq(JobNames)
         /\ listed' \in 0 .. Len(CrashInfos)
         /\ NothingForgotten'
<1>1. PICK n \in 0 .. Len(CrashInfos) :
         /\ listed' = n
         /\ plan' = SubSeq(CrashInfos, 1, n) \o Tail(plan)
  BY DEF ReadCrashList
<1>2. plan # <<>> /\ Job = "crash-infos" /\ succeeded' = succeeded /\ good' = good
  BY DEF ReadCrashList
<1>3. /\ Tail(plan) \in Seq(JobNames)
      /\ Elements(plan) = {Job} \cup Elements(Tail(plan))
  BY <1>2, TailElements DEF RemoteTypes, JobTypes, Job
<1> DEFINE infos == SubSeq(CrashInfos, 1, n)
<1>4. /\ infos \in Seq(JobNames)
      /\ \A i \in 1 .. n : CrashInfos[i] \in Elements(infos)
  <2>1. CrashInfos \in Seq(JobNames) /\ Len(CrashInfos) \in Nat /\ n \in Nat
    BY CatalogNames
  <2>2. /\ infos \in Seq(JobNames) /\ DOMAIN infos = 1 .. n
        /\ \A i \in 1 .. n : infos[i] = CrashInfos[i]
    BY <2>1
  <2> QED
    BY <2>2 DEF Elements
<1>5. /\ plan' \in Seq(JobNames)
      /\ Elements(infos) \cup Elements(Tail(plan)) \subseteq Elements(plan')
  BY <1>1, <1>3, <1>4, ConcatElements
<1>6. succeeded' => Jobs' \subseteq good' \cup Elements(plan')
  <2> SUFFICES ASSUME succeeded', NEW j \in Jobs' PROVE j \in good' \cup Elements(plan')
    OBVIOUS
  <2>1. CASE j \in Elements(Plan) \ {"crash-infos"}
    <3>1. j \in Jobs /\ succeeded
      BY <1>2, <2>1 DEF Jobs
    <3>2. j \in good \cup Elements(plan)
      BY <3>1 DEF NothingForgotten
    <3> QED
      BY <1>2, <1>3, <1>5, <2>1, <3>2
  <2>2. CASE j \in {CrashInfos[i] : i \in 1 .. n}
    BY <1>4, <1>5, <2>2
  <2> QED
    BY <1>1, <2>1, <2>2 DEF Jobs
<1> QED
  BY <1>1, <1>5, <1>6 DEF NothingForgotten


-----------------------------------------------------------------------------
(* The collector's steps. *)

RemoteAny ==
  RemoteStep \/ RemoteInterrupted \/ RemoteKilled \/ ProbeLost \/ ProbeEnds \/ ProbeDies

\* Those that leave the jobs alone.
PlainStep ==
  \/ Refuse \/ MakeRemoteWorkspace \/ AssignRemoteWorkspace \/ LayOut
  \/ LaunchProbe \/ ProbeCannotStart \/ ProbeReturned \/ ProbeTimesOut
  \/ TerminateProbe \/ ReapProbe \/ CopyRaises \/ CutoffOverflows
  \/ OpenStream \/ EndStream
  \/ RemoveRemoteWorkspace \/ ExitRemote
  \/ RemoteInterrupted \/ RemoteKilled \/ ProbeEnds \/ ProbeDies

FailingStep == StreamFails \/ CannotRemoveRemoteWorkspace

JobStep == CaptureFails \/ ProbeLost \/ RecordProbe \/ CopyFiles

ListStep == ReadCrashList \/ CrashListMalformed

LEMMA StepKinds == RemoteAny => PlainStep \/ FailingStep \/ JobStep \/ ListStep
  BY DEF RemoteAny, RemoteStep, PlainStep, FailingStep, JobStep, ListStep

\* What becomes of the jobs in a step.
LEMMA JobsStep ==
  ASSUME RemoteTypes, NothingForgotten, RemoteAny
  PROVE  /\ plan' \in Seq(JobNames)
         /\ listed' \in 0 .. Len(CrashInfos)
         /\ good' \subseteq Probes \cup Copies
         /\ succeeded' \in BOOLEAN
         /\ succeeded' => succeeded
         /\ NothingForgotten'
<1>1. CASE PlainStep
  <2>1. UNCHANGED work
    BY <1>1 DEF PlainStep, Refuse, MakeRemoteWorkspace, AssignRemoteWorkspace, LayOut,
         LaunchProbe, ProbeCannotStart, ProbeReturned, ProbeTimesOut, TerminateProbe,
         ReapProbe, CopyRaises, CutoffOverflows, OpenStream, EndStream, RemoveRemoteWorkspace,
         ExitRemote, RemoteInterrupted, RemoteKilled, ProbeEnds, ProbeDies
  <2> QED
    BY <2>1 DEF work, RemoteTypes, JobTypes, FlagTypes, NothingForgotten, Jobs
<1>2. CASE FailingStep
  BY <1>2 DEF FailingStep, StreamFails, CannotRemoveRemoteWorkspace, RemoteTypes,
              JobTypes, FlagTypes, NothingForgotten
<1>3. CASE CaptureFails
  <2>1. plan # <<>> /\ FinishJob(FALSE)
    BY <1>3 DEF CaptureFails, Diagnose, RemoteTypes, CapturesProbe, Capturing
  <2> QED
    BY <2>1, FinishedJob
<1>8. CASE ProbeLost
  <2>1. plan # <<>> /\ FinishJob(FALSE)
    BY <1>8 DEF ProbeLost, Diagnose, RemoteTypes, CapturesProbe, Capturing
  <2> QED
    BY <2>1, FinishedJob
<1>4. CASE RecordProbe
  <2>1. plan # <<>> /\ Job \in Probes /\ FinishJob(exit = "succeeded")
    BY <1>4 DEF RecordProbe, RemoteGoto, Diagnose, RemoteTypes, CapturesProbe, Capturing
  <2> QED
    BY <2>1, FinishedJob
<1>5. CASE CopyFiles
  <2>1. plan # <<>> /\ Job \in Copies /\ \E ok \in BOOLEAN : FinishJob(ok)
    BY <1>5 DEF CopyFiles
  <2> QED
    BY <2>1, FinishedJob
<1>6. CASE ReadCrashList
  <2>1. succeeded' = succeeded /\ good' = good
    BY <1>6 DEF ReadCrashList
  <2> QED
    BY <1>6, <2>1, CrashListRead DEF RemoteTypes, JobTypes, FlagTypes
<1>7. CASE CrashListMalformed
  <2>1. /\ plan # <<>> /\ plan' = Tail(plan) /\ succeeded' = FALSE
        /\ listed' = listed /\ good' = good
    BY <1>7 DEF CrashListMalformed
  <2> QED
    BY <2>1, TailElements DEF RemoteTypes, JobTypes, FlagTypes, NothingForgotten
<1> QED
  BY <1>1, <1>2, <1>3, <1>4, <1>5, <1>6, <1>7, <1>8, StepKinds DEF JobStep, ListStep

LEMMA FlagStep == ASSUME RemoteTypes, NothingForgotten, RemoteAny PROVE FlagTypes'
<1> USE DEF RemoteTypes, FlagTypes, Diagnose, process, environment
<1>0. succeeded' \in BOOLEAN
  BY JobsStep
<1>1. CASE Refuse \/ MakeRemoteWorkspace \/ AssignRemoteWorkspace \/ LayOut
  BY <1>0, <1>1 DEF Refuse, MakeRemoteWorkspace, AssignRemoteWorkspace, LayOut
<1>2. CASE LaunchProbe \/ ProbeCannotStart
  BY <1>0, <1>2 DEF LaunchProbe, ProbeCannotStart
<1>3. CASE ProbeReturned \/ ProbeTimesOut \/ TerminateProbe \/ ReapProbe
  BY <1>0, <1>3 DEF ProbeReturned, ProbeTimesOut, TerminateProbe, ReapProbe
<1>4. CASE CopyRaises \/ CutoffOverflows \/ OpenStream \/ EndStream
  BY <1>0, <1>4 DEF CopyRaises, CutoffOverflows, OpenStream, EndStream
<1>5. CASE RemoveRemoteWorkspace \/ ExitRemote \/ RemoteKilled
  BY <1>0, <1>5 DEF RemoveRemoteWorkspace, ExitRemote, RemoteKilled
<1>6. CASE RemoteInterrupted
  BY <1>0, <1>6 DEF RemoteInterrupted
<1>7. CASE ProbeEnds \/ ProbeDies
  BY <1>0, <1>7 DEF ProbeEnds, ProbeDies
<1>8. CASE FailingStep
  BY <1>0, <1>8 DEF FailingStep, StreamFails, CannotRemoveRemoteWorkspace
<1>9. CASE JobStep
  BY <1>0, <1>9 DEF JobStep, CaptureFails, ProbeLost, RecordProbe, CopyFiles
<1>10. CASE ListStep
  BY <1>0, <1>10 DEF ListStep, ReadCrashList, CrashListMalformed
<1> QED
  BY <1>1, <1>2, <1>3, <1>4, <1>5, <1>6, <1>7, <1>8, <1>9, <1>10, StepKinds DEF PlainStep

LEMMA LabelStep == ASSUME RemoteTypes, RemoteAny PROVE LabelTypes'
<1> USE DEF RemoteTypes, LabelTypes, RemoteActive, RemoteTryLabels, RemoteGoto, Diagnose,
            CutStream, process, stream, environment
<1>1. CASE Refuse \/ MakeRemoteWorkspace \/ AssignRemoteWorkspace \/ LayOut
  BY <1>1 DEF Refuse, MakeRemoteWorkspace, AssignRemoteWorkspace, LayOut
<1>2. CASE LaunchProbe \/ ProbeCannotStart
  BY <1>2 DEF LaunchProbe, ProbeCannotStart
<1>3. CASE ProbeReturned \/ ProbeTimesOut \/ TerminateProbe \/ ReapProbe
  BY <1>3 DEF ProbeReturned, ProbeTimesOut, TerminateProbe, ReapProbe
<1>4. CASE CopyRaises \/ CutoffOverflows \/ OpenStream \/ EndStream
  BY <1>4 DEF CopyRaises, CutoffOverflows, OpenStream, EndStream
<1>5. CASE RemoveRemoteWorkspace \/ ExitRemote \/ RemoteKilled
  BY <1>5 DEF RemoveRemoteWorkspace, ExitRemote, RemoteKilled
<1>6. CASE RemoteInterrupted
  BY <1>6 DEF RemoteInterrupted
<1>7. CASE ProbeEnds \/ ProbeDies
  BY <1>7 DEF ProbeEnds, ProbeDies
<1>8. CASE FailingStep
  BY <1>8 DEF FailingStep, StreamFails, CannotRemoveRemoteWorkspace
<1>9. CASE JobStep
  BY <1>9 DEF JobStep, CaptureFails, ProbeLost, RecordProbe, CopyFiles
<1>10. CASE ListStep
  BY <1>10 DEF ListStep, ReadCrashList, CrashListMalformed
<1> QED
  BY <1>1, <1>2, <1>3, <1>4, <1>5, <1>6, <1>7, <1>8, <1>9, <1>10, StepKinds DEF PlainStep

LEMMA CaptureStep == ASSUME RemoteTypes, RemoteAny PROVE CapturesProbe'
<1> USE DEF RemoteTypes, CapturesProbe, Capturing, RemoteGoto, Diagnose, Job, work
<1>1. CASE Refuse \/ MakeRemoteWorkspace \/ AssignRemoteWorkspace \/ LayOut
  BY <1>1 DEF Refuse, MakeRemoteWorkspace, AssignRemoteWorkspace, LayOut
<1>2. CASE LaunchProbe \/ ProbeCannotStart
  BY <1>2 DEF LaunchProbe, ProbeCannotStart
<1>3. CASE ProbeReturned \/ ProbeTimesOut \/ TerminateProbe \/ ReapProbe
  BY <1>3 DEF ProbeReturned, ProbeTimesOut, TerminateProbe, ReapProbe
<1>4. CASE CopyRaises \/ CutoffOverflows \/ OpenStream \/ EndStream
  BY <1>4 DEF CopyRaises, CutoffOverflows, OpenStream, EndStream
<1>5. CASE RemoveRemoteWorkspace \/ ExitRemote \/ RemoteKilled
  BY <1>5 DEF RemoveRemoteWorkspace, ExitRemote, RemoteKilled
<1>6. CASE RemoteInterrupted
  BY <1>6 DEF RemoteInterrupted
<1>7. CASE ProbeEnds \/ ProbeDies
  BY <1>7 DEF ProbeEnds, ProbeDies
<1>8. CASE FailingStep
  BY <1>8 DEF FailingStep, StreamFails, CannotRemoveRemoteWorkspace
<1>9. CASE JobStep
  BY <1>9 DEF JobStep, CaptureFails, ProbeLost, RecordProbe, CopyFiles
<1>10. CASE ListStep
  BY <1>10 DEF ListStep, ReadCrashList, CrashListMalformed
<1> QED
  BY <1>1, <1>2, <1>3, <1>4, <1>5, <1>6, <1>7, <1>8, <1>9, <1>10, StepKinds DEF PlainStep

LEMMA RemoteTypesStep ==
  ASSUME RemoteTypes, NothingForgotten, RemoteAny
  PROVE  RemoteTypes'
<1>1. sent' = sent \/ sent' = good
  BY StepKinds DEF PlainStep, FailingStep, JobStep, ListStep, Refuse, MakeRemoteWorkspace,
     AssignRemoteWorkspace, LayOut, LaunchProbe, ProbeCannotStart, CaptureFails,
     ProbeReturned, ProbeTimesOut, TerminateProbe, ReapProbe, RecordProbe, ReadCrashList,
     CrashListMalformed, CopyFiles, CopyRaises, ProbeLost, CutoffOverflows, OpenStream, EndStream, StreamFails,
     RemoveRemoteWorkspace, CannotRemoveRemoteWorkspace, ExitRemote, RemoteInterrupted,
     RemoteKilled, ProbeEnds, ProbeDies, CutStream, stream
<1>2. JobTypes'
  BY <1>1, JobsStep DEF RemoteTypes, JobTypes
<1> QED
  BY <1>2, FlagStep, LabelStep, CaptureStep DEF RemoteTypes

LEMMA StreamStep ==
  ASSUME RemoteTypes, NothingForgotten, StreamInv, RemoteAny
  PROVE  StreamInv'
<1> USE DEF StreamInv, Gone, RemoteActive, RemoteTryLabels, RemoteGoto, Diagnose, CutStream,
            work, stream
<1>1. CASE Refuse \/ MakeRemoteWorkspace \/ AssignRemoteWorkspace \/ LayOut
  BY <1>1 DEF Refuse, MakeRemoteWorkspace, AssignRemoteWorkspace, LayOut
<1>2. CASE LaunchProbe \/ ProbeCannotStart \/ ProbeReturned \/ ProbeTimesOut
             \/ TerminateProbe \/ ReapProbe
  BY <1>2 DEF LaunchProbe, ProbeCannotStart, ProbeReturned, ProbeTimesOut, TerminateProbe,
              ReapProbe
<1>3. CASE CopyRaises \/ CutoffOverflows \/ OpenStream \/ EndStream
  BY <1>3 DEF CopyRaises, CutoffOverflows, OpenStream, EndStream
<1>4. CASE RemoveRemoteWorkspace \/ RemoteKilled
  BY <1>4 DEF RemoveRemoteWorkspace, RemoteKilled
<1>5. CASE ExitRemote
  BY <1>5 DEF ExitRemote
<1>6. CASE RemoteInterrupted
  BY <1>6 DEF RemoteInterrupted
<1>7. CASE ProbeEnds \/ ProbeDies
  BY <1>7 DEF ProbeEnds, ProbeDies
<1>8. CASE StreamFails
  BY <1>8 DEF StreamFails
<1>9. CASE CannotRemoveRemoteWorkspace
  BY <1>9 DEF CannotRemoveRemoteWorkspace
<1>10. CASE CaptureFails \/ ProbeLost \/ RecordProbe
  BY <1>10 DEF CaptureFails, ProbeLost, RecordProbe, RemoteTypes, FlagTypes, LabelTypes
<1>11. CASE CopyFiles
  BY <1>11 DEF CopyFiles, RemoteTypes, FlagTypes, LabelTypes
<1>12. CASE ListStep
  BY <1>12 DEF ListStep, ReadCrashList, CrashListMalformed, RemoteTypes, FlagTypes, LabelTypes
<1> QED
  BY <1>1, <1>2, <1>3, <1>4, <1>5, <1>6, <1>7, <1>8, <1>9, <1>10, <1>11, <1>12, StepKinds
     DEF PlainStep, FailingStep, JobStep

LEMMA WorkspaceStep ==
  ASSUME RemoteTypes, WorkspaceInv, RemoteAny
  PROVE  WorkspaceInv'
<1> USE DEF WorkspaceInv, RemoteActive, RemoteTryLabels, RemoteGoto, Diagnose, environment
<1>1. CASE Refuse \/ MakeRemoteWorkspace \/ AssignRemoteWorkspace \/ LayOut
  BY <1>1 DEF Refuse, MakeRemoteWorkspace, AssignRemoteWorkspace, LayOut
<1>2. CASE LaunchProbe \/ ProbeCannotStart \/ ProbeReturned \/ ProbeTimesOut
             \/ TerminateProbe \/ ReapProbe
  BY <1>2 DEF LaunchProbe, ProbeCannotStart, ProbeReturned, ProbeTimesOut, TerminateProbe,
              ReapProbe
<1>3. CASE CopyRaises \/ CutoffOverflows \/ OpenStream \/ EndStream \/ StreamFails
  BY <1>3 DEF CopyRaises, CutoffOverflows, OpenStream, EndStream, StreamFails
<1>4. CASE RemoveRemoteWorkspace \/ RemoteKilled
  BY <1>4 DEF RemoveRemoteWorkspace, RemoteKilled
<1>5. CASE ExitRemote
  BY <1>5 DEF ExitRemote, work, RemoteTypes, FlagTypes, LabelTypes
<1>6. CASE RemoteInterrupted
  BY <1>6 DEF RemoteInterrupted, RemoteTypes, FlagTypes, LabelTypes
<1>7. CASE ProbeEnds \/ ProbeDies
  BY <1>7 DEF ProbeEnds, ProbeDies, work
<1>8. CASE CannotRemoveRemoteWorkspace
  BY <1>8 DEF CannotRemoveRemoteWorkspace, RemoteTypes, FlagTypes, LabelTypes
<1>9. CASE CaptureFails \/ ProbeLost \/ RecordProbe
  BY <1>9 DEF CaptureFails, ProbeLost, RecordProbe
<1>10. CASE CopyFiles
  BY <1>10 DEF CopyFiles
<1>11. CASE ListStep
  BY <1>11 DEF ListStep, ReadCrashList, CrashListMalformed
<1> QED
  BY <1>1, <1>2, <1>3, <1>4, <1>5, <1>6, <1>7, <1>8, <1>9, <1>10, <1>11, StepKinds
     DEF PlainStep, FailingStep, JobStep

LEMMA ProbeStep ==
  ASSUME RemoteTypes, StreamInv, ProbeInv, RemoteAny
  PROVE  ProbeInv'
<1> USE DEF ProbeInv, Gone, RemoteActive, RemoteTryLabels, RemoteGoto, Diagnose, process,
            environment
<1>1. CASE Refuse \/ MakeRemoteWorkspace \/ AssignRemoteWorkspace \/ LayOut
  BY <1>1 DEF Refuse, MakeRemoteWorkspace, AssignRemoteWorkspace, LayOut
<1>2. CASE LaunchProbe \/ ProbeCannotStart \/ ProbeReturned \/ ProbeTimesOut
             \/ TerminateProbe \/ ReapProbe
  BY <1>2 DEF LaunchProbe, ProbeCannotStart, ProbeReturned, ProbeTimesOut, TerminateProbe,
              ReapProbe
<1>3. CASE CopyRaises \/ CutoffOverflows \/ OpenStream \/ EndStream \/ StreamFails
  BY <1>3 DEF CopyRaises, CutoffOverflows, OpenStream, EndStream, StreamFails
<1>4. CASE RemoveRemoteWorkspace \/ RemoteKilled
  BY <1>4 DEF RemoveRemoteWorkspace, RemoteKilled
<1>5. CASE ExitRemote
  BY <1>5 DEF ExitRemote
<1>6. CASE RemoteInterrupted
  <2>1. rwindow' # {} /\ probe' = probe
    BY <1>6 DEF RemoteInterrupted
  <2>2. \/ rpc' = "cleanup" /\ raised' = TRUE
        \/ rpc' = "exited" /\ rstatus' = "nonzero"
    BY <1>6 DEF RemoteInterrupted
  <2> QED
    BY <2>1, <2>2
<1>7. CASE ProbeEnds \/ ProbeDies
  BY <1>7 DEF ProbeEnds, ProbeDies
<1>8. CASE CannotRemoveRemoteWorkspace
  BY <1>8 DEF CannotRemoveRemoteWorkspace, RemoteTypes, FlagTypes, LabelTypes
<1>9. CASE CaptureFails \/ ProbeLost \/ RecordProbe
  BY <1>9 DEF CaptureFails, ProbeLost, RecordProbe
<1>10. CASE CopyFiles
  BY <1>10 DEF CopyFiles
<1>11. CASE ListStep
  BY <1>11 DEF ListStep, ReadCrashList, CrashListMalformed
<1> QED
  BY <1>1, <1>2, <1>3, <1>4, <1>5, <1>6, <1>7, <1>8, <1>9, <1>10, <1>11, StepKinds
     DEF PlainStep, FailingStep, JobStep

LEMMA AbandonedStep ==
  ASSUME RemoteTypes, NothingForgotten, AbandonedInv, RemoteAny
  PROVE  AbandonedInv'
<1>1. CASE ProbeLost
  BY <1>1 DEF ProbeLost, FinishJob, AbandonedInv
<1>2. CASE ~ProbeLost
  <2>1. abandoned' = abandoned
    BY <1>2, StepKinds DEF PlainStep, FailingStep, JobStep, ListStep, Refuse, MakeRemoteWorkspace,
       AssignRemoteWorkspace, LayOut, LaunchProbe, ProbeCannotStart, CaptureFails,
       ProbeReturned, ProbeTimesOut, TerminateProbe, ReapProbe, RecordProbe, ReadCrashList,
       CrashListMalformed, CopyFiles, CopyRaises, CutoffOverflows, OpenStream, EndStream,
       StreamFails, RemoveRemoteWorkspace, CannotRemoveRemoteWorkspace, ExitRemote,
       RemoteInterrupted, RemoteKilled, ProbeEnds, ProbeDies,
       environment
  <2> QED
    BY <2>1, JobsStep DEF AbandonedInv
<1> QED
  BY <1>1, <1>2

LEMMA RemoteKeeps == ASSUME RemoteInv, RemoteAny PROVE RemoteInv'
  BY JobsStep, RemoteTypesStep, StreamStep, WorkspaceStep, ProbeStep, AbandonedStep
     DEF RemoteInv


-----------------------------------------------------------------------------
(* The session. *)

SessionTypes ==
  /\ wpc \in WorkingLabels \cup {"returned", "interrupted"}
  /\ ssh \in {"none", "running", "exited"}
  /\ sshStatus \in {"none", "zero", "nonzero"}
  /\ arrived \in {"cut", "short", "end"}
  /\ asked \in BOOLEAN /\ admitted \in BOOLEAN
  /\ problems \in BOOLEAN /\ chained \in BOOLEAN
  /\ keystrokes \in 0 .. MaxKeystrokes
  /\ window \subseteq Unguarded \cup {"wait"}

\* What each label of collect_node knows of SSH; nobody starts it a second time.
SshInv ==
  /\ wpc \in {"prepare", "popen"} => ssh = "none"
  /\ wpc \in {"close", "admit", "judge"} => ssh = "exited"
  /\ wpc = "returned" /\ ssh = "running" => problems
  /\ wpc \in {"returned", "interrupted"} /\ ssh = "running" => window # {} \/ chained

\* What the answer rests on: on the end of the stream, and on a zero exit status.
AnswerInv ==
  /\ arrived # "cut" => arrived = ending
  /\ admitted => /\ wpc \in {"judge", "returned", "interrupted"}
                 /\ ssh = "exited" /\ arrived = "end"
  /\ wpc = "judge" => admitted
  /\ wpc = "returned" => problems \/ (admitted /\ sshStatus = "zero")
  /\ sshStatus = "zero" => ssh = "exited" /\ rpc = "exited" /\ rstatus = "zero"

SessionInv == RemoteInv /\ SessionTypes /\ SshInv /\ AnswerInv

LEMMA InitInv == Init => SessionInv
<1> SUFFICES ASSUME Init PROVE SessionInv
  OBVIOUS
<1> USE DEF Init, RemoteInit
<1>1. RemoteTypes
  <2>1. plan \in Seq(JobNames) /\ 0 \in 0 .. Len(CrashInfos)
    BY CatalogNames
  <2> QED
    BY <2>1 DEF RemoteTypes, JobTypes, FlagTypes, LabelTypes, CapturesProbe, Capturing
<1>2. NothingForgotten
  <2>1. {CrashInfos[i] : i \in 1 .. listed} = {}
    OBVIOUS
  <2> QED
    BY <2>1 DEF NothingForgotten, Jobs
<1>3. StreamInv /\ WorkspaceInv /\ ProbeInv /\ AbandonedInv
  BY DEF StreamInv, WorkspaceInv, ProbeInv, AbandonedInv, Gone
<1>4. SessionTypes
  <2>1. 0 \in 0 .. MaxKeystrokes
    BY KeystrokeBound
  <2> QED
    BY <2>1 DEF SessionTypes, WorkingLabels
<1>5. SshInv /\ AnswerInv
  BY DEF SshInv, AnswerInv
<1> QED
  BY <1>1, <1>2, <1>3, <1>4, <1>5 DEF SessionInv, RemoteInv

Ssh == SshConnects \/ SshDelivers \/ SshEnds \/ SshFails \/ SshHearsInterrupt

\* SSH starts the collector, may take its connection away or interrupt it, and does
\* nothing else to it.
LEMMA SshKeepsRemote == ASSUME RemoteInv, Ssh PROVE RemoteInv'
<1>1. /\ UNCHANGED <<work, raised, workspace, process, stream, said, abandoned, rwindow,
                      rstatus>>
      /\ rpc' = rpc \/ (rpc = "absent" /\ rpc' = "make")
      /\ link' = link \/ link' = "down"
      /\ sigint' = sigint \/ sigint' = TRUE
  BY DEF Ssh, SshConnects, SshDelivers, SshEnds, SshFails, SshHearsInterrupt, RemoteBut,
         remoteVars, environment
<1>2. RemoteTypes'
  <2> USE DEF RemoteInv, RemoteTypes
  <2>1. JobTypes'
    BY <1>1 DEF JobTypes, work, stream
  <2>2. FlagTypes'
    BY <1>1 DEF FlagTypes, work, process
  <2>3. LabelTypes'
    BY <1>1 DEF LabelTypes, RemoteActive, RemoteTryLabels, process, stream
  <2>4. CapturesProbe'
    BY <1>1 DEF CapturesProbe, Capturing, Job, work
  <2> QED
    BY <2>1, <2>2, <2>3, <2>4
<1>3. NothingForgotten'
  BY <1>1 DEF RemoteInv, NothingForgotten, Jobs, work
<1>4. StreamInv'
  BY <1>1 DEF RemoteInv, StreamInv, Gone, work, stream
<1>5. WorkspaceInv'
  BY <1>1 DEF RemoteInv, WorkspaceInv, work
<1>6. ProbeInv'
  BY <1>1 DEF RemoteInv, ProbeInv, Gone, process
<1>7. AbandonedInv'
  BY <1>1 DEF RemoteInv, AbandonedInv, work
<1> QED
  BY <1>2, <1>3, <1>4, <1>5, <1>6, <1>7 DEF RemoteInv

LEMMA RemoteInvKept == ASSUME RemoteInv, UNCHANGED remoteVars PROVE RemoteInv'
<1> USE DEF remoteVars, work, process, stream, environment
<1>1. RemoteTypes' /\ NothingForgotten'
  BY DEF RemoteInv, RemoteTypes, JobTypes, FlagTypes, LabelTypes, CapturesProbe,
         NothingForgotten, Jobs, Job
<1>2. StreamInv' /\ WorkspaceInv' /\ ProbeInv' /\ AbandonedInv'
  BY DEF RemoteInv, StreamInv, WorkspaceInv, ProbeInv, AbandonedInv
<1> QED
  BY <1>1, <1>2 DEF RemoteInv

\* The steps of collect_node and the keystrokes.
Local == CollectNode \/ CannotWait \/ CannotWaitAtAll \/ Keystroke

LEMMA NextKinds ==
  ASSUME [Next]_vars
  PROVE  \/ Local /\ UNCHANGED remoteVars
         \/ Ssh
         \/ RemoteAny /\ UNCHANGED sessionVars
         \/ UNCHANGED vars
<1>1. CASE CollectNode
  BY <1>1 DEF Local, CollectNode, Prepare, CannotSession, StartSsh, BeginWait, SshReturned,
     ForwardInterrupt, CannotForward, RaiseInterrupt, CloseStreams, AdmitArchive,
     ArchiveNotAdmitted, JudgeStatus
<1>2. CASE CannotWait \/ CannotWaitAtAll \/ Keystroke
  BY <1>2 DEF Local, CannotWait, CannotWaitAtAll, Keystroke
<1> QED
  BY <1>1, <1>2 DEF Next, Ssh, Remote, RemoteAny

LEMMA LocalTypes == ASSUME SessionTypes, Local PROVE SessionTypes'
<1> USE DEF SessionTypes, WorkingLabels, Unguarded, WGoto, Return, sshVars, answerVars, strikes
<1>1. CASE Prepare \/ CannotSession \/ StartSsh \/ BeginWait \/ SshReturned
             \/ CannotWaitAtAll
  BY <1>1 DEF Prepare, CannotSession, StartSsh, BeginWait, SshReturned, CannotWaitAtAll
<1>2. CASE ForwardInterrupt \/ CannotForward \/ RaiseInterrupt \/ CannotWait
  BY <1>2 DEF ForwardInterrupt, CannotForward, RaiseInterrupt, CannotWait
<1>3. CASE CloseStreams \/ AdmitArchive \/ ArchiveNotAdmitted
  BY <1>3 DEF CloseStreams, AdmitArchive, ArchiveNotAdmitted
<1>4. CASE JudgeStatus
  BY <1>4 DEF JudgeStatus
<1>5. CASE Keystroke
  <2>1. keystrokes' \in 0 .. MaxKeystrokes
    BY <1>5, KeystrokeBound DEF Keystroke
  <2>2. window' \subseteq Unguarded \cup {"wait"}
    BY <1>5 DEF Keystroke
  <2>3. /\ wpc' \in {"signal", "interrupted", "returned"}
        /\ problems' \in BOOLEAN /\ chained' \in BOOLEAN
        /\ UNCHANGED <<ssh, sshStatus, arrived, asked, admitted>>
    BY <1>5 DEF Keystroke
  <2> QED
    BY <2>1, <2>2, <2>3
<1> QED
  BY <1>1, <1>2, <1>3, <1>4, <1>5 DEF Local, CollectNode

LEMMA LocalSsh == ASSUME SessionTypes, SshInv, Local PROVE SshInv'
<1> USE DEF SshInv, WGoto, Return, sshVars, answerVars, strikes
<1>1. CASE Prepare \/ CannotSession \/ StartSsh \/ BeginWait \/ SshReturned
             \/ CannotWaitAtAll
  BY <1>1 DEF Prepare, CannotSession, StartSsh, BeginWait, SshReturned, CannotWaitAtAll
<1>2. CASE ForwardInterrupt \/ CannotForward \/ RaiseInterrupt \/ CannotWait
  BY <1>2 DEF ForwardInterrupt, CannotForward, RaiseInterrupt, CannotWait
<1>3. CASE CloseStreams \/ AdmitArchive \/ ArchiveNotAdmitted \/ JudgeStatus
  BY <1>3 DEF CloseStreams, AdmitArchive, ArchiveNotAdmitted, JudgeStatus
<1>4. CASE Keystroke
  <2>1. CASE wpc \in Unguarded
    <3>1. wpc \in window'
      BY <1>4, <2>1 DEF Keystroke
    <3>2. wpc' \in {"interrupted", "returned"}
      BY <1>4, <2>1 DEF Keystroke, Unguarded
    <3>3. wpc' = "returned" => problems'
      BY <1>4, <2>1 DEF Keystroke, Unguarded
    <3> QED
      BY <3>1, <3>2, <3>3
  <2>2. CASE wpc \notin Unguarded
    BY <1>4, <2>2 DEF Keystroke, Unguarded, WorkingLabels
  <2> QED
    BY <2>1, <2>2
<1> QED
  BY <1>1, <1>2, <1>3, <1>4 DEF Local, CollectNode

LEMMA LocalAnswer ==
  ASSUME SessionTypes, SshInv, AnswerInv, Local, UNCHANGED remoteVars
  PROVE  AnswerInv'
<1>0. UNCHANGED <<rpc, rstatus, ending>>
  BY DEF remoteVars, stream
<1> USE DEF AnswerInv, SshInv, WGoto, Return, sshVars, answerVars, strikes
<1>1. CASE Prepare \/ CannotSession \/ BeginWait \/ SshReturned \/ CannotWaitAtAll
  BY <1>0, <1>1 DEF Prepare, CannotSession, BeginWait, SshReturned, CannotWaitAtAll
<1>2. CASE StartSsh
  BY <1>0, <1>2 DEF StartSsh
<1>3. CASE ForwardInterrupt \/ CannotForward \/ RaiseInterrupt \/ CannotWait
  <2>1. /\ wpc \in {"signal", "wait_again"} /\ wpc' \in {"wait_again", "interrupted"}
        /\ UNCHANGED <<ssh, sshStatus, arrived, admitted, problems>>
    BY <1>3 DEF ForwardInterrupt, CannotForward, RaiseInterrupt, CannotWait
  <2> QED
    BY <1>0, <2>1
<1>4. CASE CloseStreams \/ AdmitArchive \/ ArchiveNotAdmitted
  BY <1>0, <1>4 DEF CloseStreams, AdmitArchive, ArchiveNotAdmitted, WholeArchive
<1>5. CASE JudgeStatus
  <2>1. problems' \/ sshStatus = "zero"
    BY <1>5 DEF JudgeStatus
  <2> QED
    BY <1>0, <1>5, <2>1 DEF JudgeStatus
<1>6. CASE Keystroke
  BY <1>0, <1>6 DEF Keystroke, WorkingLabels
<1> QED
  BY <1>1, <1>2, <1>3, <1>4, <1>5, <1>6 DEF Local, CollectNode

LEMMA SshKeepsSession ==
  ASSUME RemoteInv, SessionTypes, SshInv, AnswerInv, Ssh
  PROVE  SessionTypes' /\ SshInv' /\ AnswerInv'
<1>0. UNCHANGED <<wpc, answerVars, strikes>> /\ ending' = ending
  BY DEF Ssh, SshConnects, SshDelivers, SshEnds, SshFails, SshHearsInterrupt, RemoteBut,
         remoteVars, sessionVars, stream
<1>1. ssh = "running" /\ ssh' \in {"running", "exited"}
  BY DEF Ssh, SshConnects, SshDelivers, SshEnds, SshFails, SshHearsInterrupt, sessionVars,
         sshVars
<1>2. SshInv'
  BY <1>0, <1>1 DEF SshInv, answerVars, strikes
<1>3. ~admitted /\ sshStatus # "zero"
  BY <1>1 DEF AnswerInv
<1>4. arrived' = arrived \/ (arrived' = ending /\ ending # "none")
  BY DEF Ssh, SshConnects, SshDelivers, SshEnds, SshFails, SshHearsInterrupt, sessionVars,
         sshVars
<1>5. asked' = asked \/ asked' = FALSE
  BY DEF Ssh, SshConnects, SshDelivers, SshEnds, SshFails, SshHearsInterrupt, sessionVars,
         sshVars
<1>6. \/ sshStatus' = sshStatus
      \/ sshStatus' = "nonzero"
      \/ /\ sshStatus' = rstatus /\ ssh' = "exited"
         /\ UNCHANGED <<rpc, rstatus>>
  BY DEF Ssh, SshConnects, SshDelivers, SshEnds, SshFails, SshHearsInterrupt, sessionVars,
         sshVars
<1>7. SessionTypes'
  <2>1. /\ ssh' \in {"none", "running", "exited"}
        /\ sshStatus' \in {"none", "zero", "nonzero"}
        /\ arrived' \in {"cut", "short", "end"}
    BY <1>1, <1>4, <1>6 DEF SessionTypes, RemoteInv, RemoteTypes, LabelTypes
  <2>2. asked' \in BOOLEAN
    BY <1>5 DEF SessionTypes
  <2>3. UNCHANGED <<wpc, admitted, problems, chained, keystrokes, window>>
    BY <1>0 DEF answerVars, strikes
  <2> QED
    BY <2>1, <2>2, <2>3 DEF SessionTypes
<1>8. AnswerInv'
  <2>1. sshStatus' = "zero" => ssh' = "exited" /\ rpc' = "exited" /\ rstatus' = "zero"
    BY <1>3, <1>6 DEF RemoteInv, StreamInv
  <2>2. arrived' # "cut" => arrived' = ending'
    BY <1>0, <1>4 DEF AnswerInv
  <2>3. wpc' # "judge" /\ (wpc' = "returned" => problems')
    BY <1>0, <1>1 DEF SshInv, answerVars
  <2> QED
    BY <1>0, <1>3, <2>1, <2>2, <2>3 DEF AnswerInv, answerVars
<1> QED
  BY <1>2, <1>7, <1>8

\* An ending that SSH may have delivered is not changed, and an exited collector stays
\* as it is.
LEMMA RemoteKeepsAnswer ==
  ASSUME RemoteInv, SessionTypes, AnswerInv, RemoteAny, UNCHANGED sessionVars
  PROVE  AnswerInv'
<1>1. UNCHANGED <<wpc, ssh, sshStatus, arrived, admitted, problems>>
  BY DEF sessionVars, sshVars, answerVars
<1>2. ending' = ending \/ ending = "none"
  <2>1. rpc \in Gone => ending' = ending
    BY DEF RemoteAny, RemoteStep, RemoteGoto, Diagnose, Refuse, MakeRemoteWorkspace,
       AssignRemoteWorkspace, LayOut, LaunchProbe, ProbeCannotStart, CaptureFails,
       ProbeReturned, ProbeTimesOut, TerminateProbe, ReapProbe, RecordProbe, ReadCrashList,
       CrashListMalformed, CopyFiles, CopyRaises, ProbeLost, CutoffOverflows, OpenStream, EndStream, StreamFails,
       RemoveRemoteWorkspace, CannotRemoveRemoteWorkspace, ExitRemote, RemoteInterrupted,
       RemoteKilled, ProbeEnds, ProbeDies, Gone, RemoteTryLabels, stream
  <2> QED
    BY <2>1 DEF RemoteInv, StreamInv
<1>3. rpc = "exited" => rpc' = "exited" /\ rstatus' = rstatus
  BY DEF RemoteAny, RemoteStep, RemoteGoto, Diagnose, Refuse, MakeRemoteWorkspace,
     AssignRemoteWorkspace, LayOut, LaunchProbe, ProbeCannotStart, CaptureFails,
     ProbeReturned, ProbeTimesOut, TerminateProbe, ReapProbe, RecordProbe, ReadCrashList,
     CrashListMalformed, CopyFiles, CopyRaises, ProbeLost, CutoffOverflows, OpenStream, EndStream, StreamFails,
     RemoveRemoteWorkspace, CannotRemoveRemoteWorkspace, ExitRemote, RemoteInterrupted,
     RemoteKilled, ProbeEnds, ProbeDies, RemoteActive, RemoteTryLabels
<1>4. arrived # "cut" => arrived = ending'
  BY <1>2 DEF AnswerInv, SessionTypes
<1> QED
  BY <1>1, <1>3, <1>4 DEF AnswerInv

LEMMA SessionStep == SessionInv /\ [Next]_vars => SessionInv'
<1> SUFFICES ASSUME SessionInv, [Next]_vars PROVE SessionInv'
  OBVIOUS
<1>0. RemoteInv /\ SessionTypes /\ SshInv /\ AnswerInv
  BY DEF SessionInv
<1>1. CASE Local /\ UNCHANGED remoteVars
  BY <1>0, <1>1, RemoteInvKept, LocalTypes, LocalSsh, LocalAnswer DEF SessionInv
<1>2. CASE Ssh
  BY <1>0, <1>2, SshKeepsRemote, SshKeepsSession DEF SessionInv
<1>3. CASE RemoteAny /\ UNCHANGED sessionVars
  <2>1. SessionTypes' /\ SshInv'
    BY <1>0, <1>3 DEF SessionTypes, SshInv, sessionVars, sshVars, answerVars, strikes
  <2> QED
    BY <1>0, <1>3, <2>1, RemoteKeeps, RemoteKeepsAnswer DEF SessionInv
<1>4. CASE UNCHANGED vars
  <2>1. SessionTypes' /\ SshInv' /\ AnswerInv'
    BY <1>0, <1>4 DEF SessionTypes, SshInv, AnswerInv, vars, sessionVars, sshVars, answerVars,
                      strikes, remoteVars, stream
  <2> QED
    BY <1>0, <1>4, <2>1, RemoteInvKept DEF SessionInv, vars
<1> QED
  BY <1>1, <1>2, <1>3, <1>4, NextKinds

\* What every moment of a session knows of both programs.
THEOREM SessionInvariant == Spec => []SessionInv
  BY InitInv, SessionStep, PTL DEF Spec

-----------------------------------------------------------------------------
(* The properties. *)

\* The types of both programs' states.
THEOREM SessionTypesHold == Spec => []TypeOK
<1>1. SessionInv => TypeOK
  BY DEF SessionInv, RemoteInv, RemoteTypes, JobTypes, FlagTypes, LabelTypes, SessionTypes,
         JobNames, TypeOK
<1> QED
  BY <1>1, SessionInvariant, PTL

\* A collect_node that returns without a problem left nothing out, running or behind.
THEOREM SilentSessionIsComplete == Spec => []SilenceMeansComplete
<1>1. SessionInv => SilenceMeansComplete
  <2> SUFFICES ASSUME SessionInv, wpc = "returned", ~problems
               PROVE  /\ admitted /\ Jobs \subseteq sent /\ Jobs \subseteq good
                      /\ rpc = "exited" /\ probe = "none" /\ ~abandoned /\ ~workspace
    BY DEF SilenceMeansComplete
  <2>1. admitted /\ rpc = "exited" /\ rstatus = "zero"
    BY DEF SessionInv, AnswerInv
  <2>2. succeeded /\ plan = <<>> /\ sent = good
    BY <2>1 DEF SessionInv, RemoteInv, StreamInv
  <2>3. Elements(plan) = {}
    BY <2>2 DEF Elements
  <2>4. Jobs \subseteq good
    BY <2>2, <2>3 DEF SessionInv, RemoteInv, NothingForgotten
  <2>5. probe = "none" /\ ~abandoned /\ ~workspace
    BY <2>1, <2>2 DEF SessionInv, RemoteInv, ProbeInv, AbandonedInv, WorkspaceInv
  <2> QED
    BY <2>1, <2>2, <2>4, <2>5
<1> QED
  BY <1>1, SessionInvariant, PTL

\* What is admitted is a stream that the collector ended, after its last job.
THEOREM AdmittedIsWhole == Spec => []OnlyWholeArchivesAdmitted
<1>1. SessionInv => OnlyWholeArchivesAdmitted
  BY DEF SessionInv, AnswerInv, RemoteInv, StreamInv, OnlyWholeArchivesAdmitted
<1> QED
  BY <1>1, SessionInvariant, PTL

\* A workspace that an exited collector left is named, or could not be.
THEOREM RemoteResidueIsSaid == Spec => []RemoteResidueSaid
<1>1. SessionInv => RemoteResidueSaid
  BY DEF SessionInv, RemoteInv, WorkspaceInv, RemoteResidueSaid
<1> QED
  BY <1>1, SessionInvariant, PTL

\* Only a SIGINT, a kill, or a failed signal or wait leaves a probe running without its
\* collector.
THEOREM ProbesEndFirst == Spec => []NoOrphan
<1>1. SessionInv => NoOrphan
  <2> SUFFICES ASSUME SessionInv PROVE NoOrphan
    OBVIOUS
  <2>1. abandoned /\ rpc = "exited" => rstatus = "nonzero"
    BY DEF SessionInv, RemoteInv, RemoteTypes, LabelTypes, AbandonedInv, StreamInv
  <2> QED
    BY <2>1 DEF SessionInv, RemoteInv, RemoteTypes, LabelTypes, ProbeInv, NoOrphan, Gone
<1> QED
  BY <1>1, SessionInvariant, PTL

\* SSH outlives collect_node only after a keystroke where none is handled, or when the
\* second wait failed and the interrupt says so.
THEOREM SshDoesNotOutlive == Spec => []SshEndsFirst
<1>1. SessionInv => SshEndsFirst
  BY DEF SessionInv, SshInv, SshEndsFirst
<1> QED
  BY <1>1, SessionInvariant, PTL

\* collect_node is an evidence source as run() takes it.
THEOREM SessionIsEvidenceSource == Spec => IsEvidenceSource
<1>1. Init => Source!Init
  BY DEF Init, Source!Init, WorkingLabels
<1>2. SessionInv /\ [Next]_vars => [Source!Next]_(Source!vars)
  <2> SUFFICES ASSUME SessionInv, [Next]_vars PROVE [Source!Next]_(Source!vars)
    OBVIOUS
  <2>0. SessionTypes /\ AnswerInv
    BY DEF SessionInv
  <2>1. CASE UNCHANGED <<wpc, admitted, problems>>
    BY <2>1 DEF Source!vars
  <2>2. CASE Local
    <3> USE DEF Source!Next, Source!Admit, Source!Return, Source!Interrupt, Source!vars,
                WorkingLabels, WGoto, Return, answerVars
    <3>1. CASE Prepare \/ StartSsh \/ BeginWait \/ SshReturned \/ ForwardInterrupt
                 \/ CannotForward \/ CloseStreams
      BY <3>1 DEF Prepare, StartSsh, BeginWait, SshReturned, ForwardInterrupt,
                  CannotForward, CloseStreams
    <3>2. CASE CannotSession \/ CannotWaitAtAll \/ ArchiveNotAdmitted
      BY <3>2 DEF CannotSession, CannotWaitAtAll, ArchiveNotAdmitted
    <3>3. CASE RaiseInterrupt \/ CannotWait
      BY <3>3 DEF RaiseInterrupt, CannotWait
    <3>4. CASE AdmitArchive
      BY <2>0, <3>4 DEF AdmitArchive, AnswerInv
    <3>5. CASE JudgeStatus
      BY <2>0, <3>5 DEF JudgeStatus, AnswerInv
    <3>6. CASE Keystroke
      BY <3>6 DEF Keystroke
    <3> QED
      BY <2>2, <3>1, <3>2, <3>3, <3>4, <3>5, <3>6 DEF Local, CollectNode
  <2>3. CASE Ssh
    BY <2>1, <2>3 DEF Ssh, SshConnects, SshDelivers, SshEnds, SshFails, SshHearsInterrupt,
                      sessionVars, answerVars
  <2>4. CASE UNCHANGED sessionVars
    BY <2>1, <2>4 DEF sessionVars, answerVars
  <2> QED
    BY <2>2, <2>3, <2>4, NextKinds DEF vars
<1> QED
  BY <1>1, <1>2, SessionInvariant, PTL DEF Spec, IsEvidenceSource, Source!Spec

=============================================================================
