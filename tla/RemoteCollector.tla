-------------------------- MODULE RemoteCollector --------------------------
(***************************************************************************)
(* main() of remote_collector.py, the program SSH feeds to "python3 -" on  *)
(* a Target Node: a fixed list of probes, each a process of a session of   *)
(* its own with a timeout; two copies of selected files; the archive on    *)
(* stdout; and the removal of the private workspace, whatever happened.    *)
(*                                                                         *)
(* Around it are the probes' own behaviour, SSH's connection, which takes  *)
(* stdout and stderr with it when it breaks, and the SIGINT that asks for  *)
(* an orderly end.                                                         *)
(***************************************************************************)
EXTENDS Naturals, Sequences

CONSTANTS NodeProbes,   \* NODE_PROBE_CATALOG
          CephProbes,   \* CEPH_PROBE_CATALOG
          CrashList,    \* "crash-ls-json", whose answer names the crashes
          CrashInfos,   \* the crash-info probes, at most ten of them
          CollectCeph,  \* --collect-ceph
          Timed,        \* --probe-timeout-seconds is not 0
          Stubborn      \* probes that SIGTERM does not end

VARIABLES
  rpc,          \* where main() is
  plan,         \* what is still to do, in order
  listed,       \* how many crash-info probes were added to it
  succeeded,    \* the local variable of that name
  raised,       \* an exception is on its way out of main()
  good,         \* the jobs that succeeded
  workspace,    \* the private workspace exists
  probe,        \* the current probe's process
  signalled,    \* its group was sent SIGTERM
  exit,         \* how the probe ended, as result.json will say
  sent,         \* the successful jobs whose evidence the archive holds
  ending,       \* how the stream of the archive ended
  rstatus,      \* the exit status
  said,         \* the residue's path was written to stderr
  link,         \* SSH's connection
  sigint,       \* a SIGINT is pending
  abandoned,    \* history: a running probe was given up
  rwindow       \* history: the delicate places at which one struck

work        == <<plan, listed, succeeded, good>>
process     == <<probe, signalled, exit>>
stream      == <<sent, ending>>
environment == <<link, sigint, abandoned, rwindow>>
remoteVars  == <<rpc, work, raised, workspace, process, stream, rstatus, said,
                 environment>>

Elements(s) == {s[i] : i \in DOMAIN s}

\* What main() does from first to last; "crash-infos" stands for the place where
\* _run_ceph_probes reads the crash list.
Plan == NodeProbes
        \o (IF CollectCeph THEN CephProbes \o <<"crash-infos">> ELSE <<>>)
        \o <<"config", "journal", "logs">>

Copies == {"config", "logs"}
Probes == Elements(NodeProbes) \cup Elements(CephProbes) \cup Elements(CrashInfos)
             \cup {"journal"}

ASSUME PlanDistinct ==
          /\ NodeProbes \in Seq(STRING) /\ CephProbes \in Seq(STRING)
          /\ CrashInfos \in Seq(STRING)
          /\ Probes \cap (Copies \cup {"crash-infos"}) = {}
          /\ Len(CrashInfos) <= 10
          /\ \A i, j \in DOMAIN (NodeProbes \o CephProbes \o CrashInfos) :
                (NodeProbes \o CephProbes \o CrashInfos)[i]
                   = (NodeProbes \o CephProbes \o CrashInfos)[j] => i = j
ASSUME RemoteFlags == /\ {CollectCeph, Timed} \subseteq BOOLEAN
                      /\ Stubborn \subseteq Probes

\* Every job this run has to do.
Jobs == (Elements(Plan) \ {"crash-infos"}) \cup {CrashInfos[i] : i \in 1 .. listed}

Job == Head(plan)

\* The labels inside the try block.
RemoteTryLabels == {"layout", "next", "wait", "terminate", "reap", "record", "stream"}
RemoteActive    == RemoteTryLabels \cup {"make", "assign", "cleanup", "exit"}

RemoteGoto(from, to) == rpc = from /\ rpc' = to

\* A line on stderr.  Once the connection is gone, writing it raises.
Diagnose(from, to) ==
  /\ rpc = from
  /\ rpc' = (IF link = "up" THEN to ELSE "cleanup")
  /\ raised' = (raised \/ link = "down")

-----------------------------------------------------------------------------
(* main(), up to its loop over the probes. *)

\* An old Python, refused arguments, or no temporary directory: nothing was made.
Refuse ==
  /\ rpc = "make"
  /\ rpc' = "exited" /\ rstatus' = "nonzero"
  /\ UNCHANGED <<work, raised, workspace, process, stream, said, environment>>

MakeRemoteWorkspace ==
  /\ RemoteGoto("make", "assign")
  /\ workspace' = TRUE
  /\ UNCHANGED <<work, raised, process, stream, rstatus, said, environment>>

AssignRemoteWorkspace ==
  /\ RemoteGoto("assign", "layout")
  /\ UNCHANGED <<work, raised, workspace, process, stream, rstatus, said, environment>>

LayOut ==
  /\ rpc = "layout"
  /\ \/ rpc' = "next" /\ UNCHANGED raised
     \/ rpc' = "cleanup" /\ raised' = TRUE
  /\ UNCHANGED <<work, workspace, process, stream, rstatus, said, environment>>

-----------------------------------------------------------------------------
(* One job. *)

\* Mutant: only the last probe's success is kept.
ForgetEarlier(ok) ==
  /\ plan' = Tail(plan)
  /\ succeeded' = ok
  /\ good' = good \cup (IF ok THEN {Job} ELSE {})
  /\ UNCHANGED listed

\* What the callers of _capture_probe do with its answer.
FinishJob(ok) ==
  /\ plan' = Tail(plan)
  /\ succeeded' = (succeeded /\ ok)
  /\ good' = good \cup (IF ok THEN {Job} ELSE {})
  /\ UNCHANGED listed

\* The capture directory, its two files, and the process in its own session.
LaunchProbe ==
  /\ plan # <<>> /\ Job \in Probes
  /\ RemoteGoto("next", "wait")
  /\ probe' = "running"
  /\ UNCHANGED <<work, raised, workspace, signalled, exit, stream, rstatus, said, environment>>

\* Popen failed: the capture will say so.
ProbeCannotStart ==
  /\ plan # <<>> /\ Job \in Probes
  /\ RemoteGoto("next", "record")
  /\ exit' = "failed"
  /\ UNCHANGED <<work, raised, workspace, probe, signalled, stream, rstatus, said,
                 environment>>

\* _capture_probe: an OSError of the capture's own files.
CaptureFails ==
  /\ \/ rpc = "next" /\ plan # <<>> /\ Job \in Probes /\ Diagnose("next", "next")
     \/ Diagnose("record", "next")
  /\ FinishJob(FALSE)
  /\ exit' = "none"
  /\ UNCHANGED <<workspace, probe, signalled, stream, rstatus, said, environment>>

\* process.wait(timeout=...) returned.
ProbeReturned ==
  /\ probe \in {"zero", "nonzero"}
  /\ RemoteGoto("wait", "record")
  /\ exit' = (IF probe = "zero" THEN "succeeded" ELSE "failed")
  /\ probe' = "none"
  /\ UNCHANGED <<work, raised, workspace, signalled, stream, rstatus, said, environment>>

\* TimeoutExpired; the probe may have ended in between.
ProbeTimesOut ==
  /\ Timed
  /\ RemoteGoto("wait", "terminate")
  /\ UNCHANGED <<work, raised, workspace, process, stream, rstatus, said, environment>>

\* Mutant: a timed-out probe is left alone.
TerminateNobody ==
  /\ RemoteGoto("terminate", "reap")
  /\ UNCHANGED <<work, raised, workspace, process, stream, rstatus, said, environment>>

\* os.killpg(process.pid, SIGTERM)
TerminateProbe ==
  /\ RemoteGoto("terminate", "reap")
  /\ signalled' = (probe = "running")
  /\ UNCHANGED <<work, raised, workspace, probe, exit, stream, rstatus, said, environment>>

\* Mutant: the probe is not waited for once signalled.
ReapWithoutWaiting ==
  /\ RemoteGoto("reap", "record")
  /\ exit' = "failed"
  /\ UNCHANGED <<work, raised, workspace, probe, signalled, stream, rstatus, said,
                 environment>>

\* process.wait() without a bound.
ReapProbe ==
  /\ probe # "running"
  /\ RemoteGoto("reap", "record")
  /\ exit' = "failed" /\ probe' = "none" /\ signalled' = FALSE
  /\ UNCHANGED <<work, raised, workspace, stream, rstatus, said, environment>>

\* killpg fails though the group is there, or a wait fails: _capture_probe takes it for
\* a failure of the capture, and nobody waits for the probe again.
ProbeLost ==
  /\ \E at \in {"wait", "terminate", "reap"} : Diagnose(at, "next")
  /\ FinishJob(FALSE)
  /\ abandoned' = (abandoned \/ probe = "running")
  /\ probe' = "none" /\ signalled' = FALSE /\ exit' = "none"
  /\ UNCHANGED <<workspace, stream, rstatus, said, link, sigint, rwindow>>

\* result.json is written; a failure is said on stderr.
RecordProbe ==
  /\ \/ exit = "succeeded" /\ RemoteGoto("record", "next") /\ UNCHANGED raised
     \/ exit = "failed" /\ Diagnose("record", "next")
  /\ FinishJob(exit = "succeeded")
  /\ exit' = "none"
  /\ UNCHANGED <<workspace, probe, signalled, stream, rstatus, said, environment>>

\* Only a crash list that was captured well is read, and names more probes.
ReadCrashList ==
  /\ plan # <<>> /\ Job = "crash-infos"
  /\ \E n \in 0 .. Len(CrashInfos) :
        /\ CrashList \notin good => n = 0
        /\ listed' = n
        /\ plan' = SubSeq(CrashInfos, 1, n) \o Tail(plan)
  /\ RemoteGoto("next", "next")
  /\ UNCHANGED <<succeeded, good, raised, workspace, process, stream,
                 rstatus, said, environment>>

\* It does not parse.
CrashListMalformed ==
  /\ plan # <<>> /\ Job = "crash-infos" /\ CrashList \in good
  /\ Diagnose("next", "next")
  /\ succeeded' = FALSE
  /\ plan' = Tail(plan)
  /\ UNCHANGED <<listed, good, workspace, process, stream, rstatus, said,
                 environment>>

\* _copy_configuration_files and _copy_log_files.
CopyFiles ==
  /\ plan # <<>> /\ Job \in Copies
  /\ \E ok \in BOOLEAN :
        /\ FinishJob(ok)
        /\ IF ok THEN RemoteGoto("next", "next") /\ UNCHANGED raised
                 ELSE Diagnose("next", "next")
  /\ UNCHANGED <<workspace, process, stream, rstatus, said, environment>>

\* The parent directory's descriptor does not close: nobody handles that.
CopyRaises ==
  /\ plan # <<>> /\ Job \in Copies
  /\ RemoteGoto("next", "cleanup")
  /\ raised' = TRUE
  /\ UNCHANGED <<work, workspace, process, stream, rstatus, said, environment>>

\* A window that startup accepted may reach back beyond the first year that the
\* log cutoff, computed here, can have.
CutoffOverflows ==
  /\ plan # <<>> /\ Job = "journal"
  /\ RemoteGoto("next", "cleanup")
  /\ raised' = TRUE
  /\ UNCHANGED <<work, workspace, process, stream, rstatus, said, environment>>

-----------------------------------------------------------------------------
(* The archive and the end. *)

OpenStream ==
  /\ plan = <<>>
  /\ RemoteGoto("next", "stream")
  /\ UNCHANGED <<work, raised, workspace, process, stream, rstatus, said, environment>>

\* Everything, the two zero blocks and the gzip trailer.  Writes go to a buffer,
\* so they may succeed although nobody reads any more.
EndStream ==
  /\ RemoteGoto("stream", "cleanup")
  /\ sent' = good
  /\ ending' = "end"
  /\ UNCHANGED <<work, raised, workspace, process, rstatus, said, environment>>

\* tarfile leaves its with block by an exception: it closes the gzip member, if
\* that can be written, and adds no zero blocks.
CutStream == ending' \in {"short", "none"} /\ UNCHANGED sent

StreamFails ==
  /\ Diagnose("stream", "cleanup")
  /\ CutStream
  /\ succeeded' = FALSE
  /\ UNCHANGED <<plan, listed, good, workspace, process, rstatus, said,
                 environment>>

RemoveRemoteWorkspace ==
  /\ RemoteGoto("cleanup", "exit")
  /\ workspace' = FALSE
  /\ UNCHANGED <<work, raised, process, stream, rstatus, said, environment>>

\* Mutant: a workspace that stays is only a line on stderr.
ReportRemoteResidueOnly ==
  /\ Diagnose("cleanup", "exit") /\ link = "up"
  /\ said' = TRUE
  /\ UNCHANGED <<work, workspace, process, stream, rstatus, environment>>

\* rmtree failed: the path is said, and it counts as a failure.
CannotRemoveRemoteWorkspace ==
  /\ RemoteGoto("cleanup", "exit")
  /\ said' = (link = "up")
  /\ raised' = (raised \/ link = "down")
  /\ succeeded' = FALSE
  /\ UNCHANGED <<plan, listed, good, workspace, process, stream, rstatus,
                 environment>>

\* The interpreter flushes stdout last, which may fail when nobody reads it.
ExitRemote ==
  /\ RemoteGoto("exit", "exited")
  /\ \/ rstatus' = (IF succeeded /\ ~raised THEN "zero" ELSE "nonzero")
     \/ link = "down" /\ rstatus' = "nonzero"
  /\ UNCHANGED <<work, raised, workspace, process, stream, said, environment>>

RemoteStep ==
  \/ Refuse \/ MakeRemoteWorkspace \/ AssignRemoteWorkspace \/ LayOut
  \/ LaunchProbe \/ ProbeCannotStart \/ CaptureFails
  \/ ProbeReturned \/ ProbeTimesOut \/ TerminateProbe \/ ReapProbe \/ RecordProbe
  \/ ReadCrashList \/ CrashListMalformed
  \/ CopyFiles \/ CopyRaises \/ CutoffOverflows
  \/ OpenStream \/ EndStream \/ StreamFails
  \/ RemoveRemoteWorkspace \/ CannotRemoveRemoteWorkspace \/ ExitRemote

-----------------------------------------------------------------------------
(* What happens to it. *)

\* A KeyboardInterrupt in main().
RemoteInterrupted ==
  /\ sigint /\ rpc \in RemoteActive
  /\ sigint' = FALSE
  /\ \/ /\ rpc \in RemoteTryLabels
        /\ rpc' = "cleanup" /\ raised' = TRUE
        /\ IF rpc = "stream" THEN CutStream ELSE UNCHANGED stream
        /\ UNCHANGED rstatus
     \/ /\ rpc \notin RemoteTryLabels
        /\ rpc' = "exited" /\ rstatus' = "nonzero"
        /\ UNCHANGED <<raised, stream>>
  /\ rwindow' = rwindow \cup (IF rpc \in {"assign", "cleanup"} THEN {rpc}
                                                              ELSE {"elsewhere"})
  /\ UNCHANGED <<work, workspace, process, said, link, abandoned>>

\* A kill, or the Target Node going down: no finally runs.
RemoteKilled ==
  /\ rpc \in RemoteActive
  /\ rpc' = "killed" /\ rstatus' = "nonzero"
  /\ UNCHANGED <<work, raised, workspace, process, stream, said, environment>>

\* The probe ends by itself.
ProbeEnds ==
  /\ probe = "running"
  /\ probe' \in {"zero", "nonzero"}
  /\ UNCHANGED <<rpc, work, raised, workspace, signalled, exit, stream, rstatus, said,
                 environment>>

\* SIGTERM ends it.
ProbeDies ==
  /\ probe = "running" /\ signalled /\ Job \notin Stubborn
  /\ probe' = "nonzero"
  /\ UNCHANGED <<rpc, work, raised, workspace, signalled, exit, stream, rstatus, said,
                 environment>>

RemoteInit ==
  /\ rpc = "absent"
  /\ plan = Plan /\ listed = 0
  /\ succeeded = TRUE /\ raised = FALSE
  /\ good = {}
  /\ workspace = FALSE
  /\ probe = "none" /\ signalled = FALSE /\ exit = "none"
  /\ sent = {} /\ ending = "none"
  /\ rstatus = "none" /\ said = FALSE
  /\ link = "up" /\ sigint = FALSE /\ abandoned = FALSE /\ rwindow = {}

=============================================================================
