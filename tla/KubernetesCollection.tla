------------------------ MODULE KubernetesCollection ------------------------
(***************************************************************************)
(* collect_kubernetes() of collect/kubernetes.py: a list of kubectl probes *)
(* that grows while it is worked off, because each good list of Pods names *)
(* the logs to collect next; each probe a process group, terminated in two *)
(* bounded steps on a timeout or a Ctrl-C; and one rename at the end.      *)
(***************************************************************************)
EXTENDS Naturals, Sequences

CONSTANTS Catalog,        \* the names of _probe_catalog, in order
          Controls,       \* those with a pod_control_namespace
          Timed,          \* probe_timeout_seconds is not 0
          MaxLogs,        \* bound: the log probes one control names
          MaxKeystrokes   \* bound: Ctrl-C keystrokes

ASSUME CatalogDistinct ==
          /\ Catalog \in Seq(STRING)
          /\ \A i, j \in DOMAIN Catalog : Catalog[i] = Catalog[j] => i = j
          /\ "log" \notin {Catalog[i] : i \in DOMAIN Catalog}
          /\ Controls \subseteq {Catalog[i] : i \in DOMAIN Catalog}
ASSUME KubernetesBounds == Timed \in BOOLEAN /\ MaxLogs \in Nat /\ MaxKeystrokes \in Nat

VARIABLES
  kpc,         \* where collect_kubernetes is
  pending,     \* pending_probes from probe_index on
  nextLog,     \* next_log_sequence
  done,        \* the capture directories made so far
  leader,      \* the probe's process
  others,      \* its group has other members
  cause,       \* why the group is terminated
  residue,     \* process_residue is not None
  exit,        \* outcome and exit_code
  told,        \* the caller is told that a group survived, or may have
  admitted,    \* the contribution was promoted
  problems,    \* the list is not empty
  keystrokes,  \* how many there were
  window       \* history: where a keystroke found a live group unguarded

work     == <<pending, nextLog, done>>
group    == <<leader, others>>
locals   == <<cause, residue, exit>>
answer   == <<told, admitted, problems>>
strikes  == <<keystrokes, window>>
vars     == <<kpc, work, group, locals, answer, strikes>>

Terminating == {"term", "grace", "kill", "last_grace"}
Unguarded   == Terminating \cup {"started", "close", "record"}
WorkingLabels == Terminating \cup
                 {"prepare", "next", "started", "wait", "close", "record", "tidy"}

Goto(from, to) == kpc = from /\ kpc' = to

Return(problem) == kpc' = "returned" /\ problems' = (problems \/ problem)

GroupAlive == leader = "running" \/ others

\* A capture directory's name: log probes are numbered, in one sequence.
Fixed(name)  == [name |-> name, number |-> 0]
LogProbes(n) == [i \in 1 .. n |-> [name |-> "log", number |-> nextLog + i - 1]]

Probe == Head(pending)

-----------------------------------------------------------------------------
(* The loop. *)

Prepare ==
  /\ Goto("prepare", "next")
  /\ UNCHANGED <<work, group, locals, answer, strikes>>

\* Staging, or a probe's capture directory and files, could not be made.
CannotCapture ==
  /\ kpc = "prepare" \/ (kpc = "next" /\ pending # <<>>)
  /\ Return(TRUE)
  /\ UNCHANGED <<work, group, locals, told, admitted, strikes>>

\* mkdir refuses a name that was used before.
LaunchProbe ==
  /\ pending # <<>> /\ Probe \notin done
  /\ Goto("next", "started")
  /\ done' = done \cup {Probe}
  /\ leader' = "running" /\ others' \in BOOLEAN
  /\ cause' = "none" /\ residue' = FALSE /\ exit' = "none"
  /\ UNCHANGED <<pending, nextLog, answer, strikes>>

ProbeCannotStart ==
  /\ pending # <<>> /\ Probe \notin done
  /\ Goto("next", "close")
  /\ done' = done \cup {Probe}
  /\ leader' = "none" /\ others' = FALSE
  /\ cause' = "none" /\ residue' = FALSE /\ exit' = "failed"
  /\ UNCHANGED <<pending, nextLog, answer, strikes>>

\* Popen has returned; process.wait() begins.
BeginWait ==
  /\ Goto("started", "wait")
  /\ UNCHANGED <<work, group, locals, answer, strikes>>

ProbeReturned ==
  /\ leader # "running"
  /\ Goto("wait", "close")
  /\ exit' = (IF leader = "zero" THEN "succeeded" ELSE "failed")
  /\ UNCHANGED <<work, group, cause, residue, answer, strikes>>

ProbeTimesOut ==
  /\ Timed
  /\ Goto("wait", "term")
  /\ cause' = "timeout" /\ exit' = "failed"
  /\ UNCHANGED <<work, group, residue, answer, strikes>>

-----------------------------------------------------------------------------
(* _terminate_process_group. *)

\* killpg with SIGTERM, then with SIGKILL; each grace ends at its deadline.
SignalGroup ==
  /\ \/ Goto("term", "grace")
     \/ Goto("kill", "last_grace")
  /\ UNCHANGED <<work, group, locals, answer, strikes>>

\* Mutant: the leader alone is waited for.
LeaderGone ==
  /\ leader # "running"
  /\ \/ Goto("grace", "close")
     \/ Goto("last_grace", "close")
  /\ UNCHANGED <<work, group, locals, answer, strikes>>

GroupGone ==
  /\ ~GroupAlive
  /\ \/ Goto("grace", "close")
     \/ Goto("last_grace", "close")
  /\ UNCHANGED <<work, group, locals, answer, strikes>>

\* Mutant: waits for the group without a deadline.
GraceUntilGone ==
  /\ ~GroupAlive
  /\ Goto("grace", "kill")
  /\ UNCHANGED <<work, group, locals, answer, strikes>>

\* The deadline passed after a last look at the group.
GraceOver ==
  /\ Goto("grace", "kill")
  /\ UNCHANGED <<work, group, locals, answer, strikes>>

GiveUp ==
  /\ Goto("last_grace", "close")
  /\ residue' = TRUE
  /\ UNCHANGED <<work, group, cause, exit, answer, strikes>>

-----------------------------------------------------------------------------
(* What the probe left. *)

\* The capture's files are closed.  An interrupt goes on from here, with the
\* survivor as its cause.
CloseCapture ==
  /\ kpc = "close"
  /\ IF cause = "interrupt"
       THEN kpc' = "interrupted" /\ told' = residue
       ELSE kpc' = "record" /\ UNCHANGED told
  /\ UNCHANGED <<work, group, locals, admitted, problems, strikes>>

\* Mutant: an OSError hides the interrupt it was raised under.
CaptureBreaksPlainly ==
  /\ kpc \in {"term", "kill", "close", "record"}
  /\ Return(TRUE)
  /\ UNCHANGED <<work, group, locals, told, admitted, strikes>>

\* An OSError of a signal, of closing the files, or of writing result.json: the
\* collection ends here, as an interrupt when the error was raised under one.
CaptureBreaks ==
  /\ kpc \in {"term", "kill", "close", "record"}
  /\ IF cause = "interrupt"
       THEN kpc' = "interrupted" /\ told' = TRUE /\ UNCHANGED problems
       ELSE Return(TRUE) /\ UNCHANGED told
  /\ UNCHANGED <<work, group, locals, admitted, strikes>>

\* result.json is written, and the survivor of a timeout ends the collection.
RecordSurvivor ==
  /\ kpc = "record" /\ residue
  /\ Return(TRUE)
  /\ told' = TRUE
  /\ UNCHANGED <<work, group, locals, admitted, strikes>>

RecordFailure ==
  /\ Goto("record", "next")
  /\ exit = "failed" /\ ~residue
  /\ problems' = TRUE
  /\ pending' = Tail(pending)
  /\ UNCHANGED <<nextLog, done, group, locals, told, admitted, strikes>>

RecordSuccess ==
  /\ Goto("record", "next")
  /\ exit = "succeeded" /\ Probe.name \notin Controls
  /\ pending' = Tail(pending)
  /\ UNCHANGED <<nextLog, done, group, locals, answer, strikes>>

\* Mutant: every control numbers its logs from one.
ScheduleFromOne ==
  /\ Goto("record", "next")
  /\ exit = "succeeded" /\ Probe.name \in Controls
  /\ \E n \in 0 .. MaxLogs : pending' = LogProbes(n) \o Tail(pending)
  /\ UNCHANGED <<nextLog, done, group, locals, answer, strikes>>

\* Mutant: the logs take the place of the probe after the control.
ScheduleOverNext ==
  /\ Goto("record", "next")
  /\ exit = "succeeded" /\ Probe.name \in Controls
  /\ \E n \in 0 .. MaxLogs :
        /\ pending' = LogProbes(n) \o SubSeq(pending, 3, Len(pending))
        /\ nextLog' = nextLog + n
  /\ UNCHANGED <<done, group, locals, answer, strikes>>

\* _pod_log_probes: the logs come next, before what was pending.
ScheduleLogs ==
  /\ Goto("record", "next")
  /\ exit = "succeeded" /\ Probe.name \in Controls
  /\ \E n \in 0 .. MaxLogs :
        /\ pending' = LogProbes(n) \o Tail(pending)
        /\ nextLog' = nextLog + n
  /\ UNCHANGED <<done, group, locals, answer, strikes>>

ControlMalformed ==
  /\ Goto("record", "next")
  /\ exit = "succeeded" /\ Probe.name \in Controls
  /\ problems' = TRUE
  /\ pending' = Tail(pending)
  /\ UNCHANGED <<nextLog, done, group, locals, told, admitted, strikes>>

\* Mutant: promotes what there is when a group could not be stopped.
PromoteAnyway ==
  /\ \/ pending = <<>> /\ kpc = "next"
     \/ kpc = "record" /\ residue
  /\ kpc' = "tidy"
  /\ admitted' = TRUE
  /\ UNCHANGED <<work, group, locals, told, problems, strikes>>

Promote ==
  /\ pending = <<>>
  /\ Goto("next", "tidy")
  /\ admitted' = TRUE
  /\ UNCHANGED <<work, group, locals, told, problems, strikes>>

\* Mutant: the problem is not added to the list.
CannotPromoteQuietly ==
  /\ pending = <<>> /\ kpc = "next"
  /\ Return(FALSE)
  /\ UNCHANGED <<work, group, locals, told, admitted, strikes>>

CannotPromote ==
  /\ pending = <<>> /\ kpc = "next"
  /\ Return(TRUE)
  /\ UNCHANGED <<work, group, locals, told, admitted, strikes>>

\* rmdir of the empty staging directory, which may fail.
TidyStaging ==
  /\ kpc = "tidy"
  /\ \E problem \in BOOLEAN : Return(problem)
  /\ UNCHANGED <<work, group, locals, told, admitted, strikes>>

-----------------------------------------------------------------------------
(* What happens to it. *)

\* Only the wait has a handler.
Keystroke ==
  /\ keystrokes < MaxKeystrokes
  /\ kpc \in WorkingLabels
  /\ keystrokes' = keystrokes + 1
  /\ IF kpc = "wait"
       THEN kpc' = "term" /\ cause' = "interrupt" /\ UNCHANGED window
       ELSE /\ kpc' = "interrupted" /\ UNCHANGED cause
            /\ window' = window \cup {l \in Unguarded : l = kpc /\ GroupAlive}
  /\ UNCHANGED <<work, group, residue, exit, answer>>

\* Members of the group end, by themselves or by a signal.
LeaderEnds ==
  /\ leader = "running"
  /\ leader' \in {"zero", "nonzero"}
  /\ UNCHANGED <<kpc, work, others, locals, answer, strikes>>

OthersEnd ==
  /\ others
  /\ others' = FALSE
  /\ UNCHANGED <<kpc, work, leader, locals, answer, strikes>>

-----------------------------------------------------------------------------

Init ==
  /\ kpc = "prepare"
  /\ pending = [i \in DOMAIN Catalog |-> Fixed(Catalog[i])]
  /\ nextLog = 1 /\ done = {}
  /\ leader = "none" /\ others = FALSE
  /\ cause = "none" /\ residue = FALSE /\ exit = "none"
  /\ told = FALSE /\ admitted = FALSE /\ problems = FALSE
  /\ keystrokes = 0 /\ window = {}

Collect ==
  \/ Prepare \/ CannotCapture
  \/ LaunchProbe \/ ProbeCannotStart \/ BeginWait \/ ProbeReturned \/ ProbeTimesOut
  \/ SignalGroup \/ GroupGone \/ GraceOver \/ GiveUp
  \/ CloseCapture \/ CaptureBreaks
  \/ RecordSurvivor \/ RecordFailure \/ RecordSuccess \/ ScheduleLogs \/ ControlMalformed
  \/ Promote \/ CannotPromote \/ TidyStaging

Next == Collect \/ Keystroke \/ LeaderEnds \/ OthersEnd

Spec == Init /\ [][Next]_vars

\* The workstation runs the collection and its clock advances.  No process of a
\* probe need ever end.
FairSpec == Spec /\ WF_vars(Collect)

=============================================================================
