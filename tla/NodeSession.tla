---------------------------- MODULE NodeSession ----------------------------
(***************************************************************************)
(* One Target Node: collect_node() of collect/node.py on the workstation,  *)
(* the SSH process it starts, and the Remote Node Collector at the other   *)
(* end.  SSH is external: it may fail at any moment, and its local output  *)
(* file may miss what the collector wrote.  What admission makes of that   *)
(* file is ArchiveAdmission's subject; here an archive passes when its     *)
(* stream ended with the end of the archive.                               *)
(***************************************************************************)
EXTENDS RemoteCollector

CONSTANT MaxKeystrokes   \* bound: Ctrl-C keystrokes on the workstation

ASSUME KeystrokeBound == MaxKeystrokes \in Nat

VARIABLES
  wpc,          \* where collect_node is
  ssh,          \* its SSH process
  sshStatus,    \* return_code
  asked,        \* a SIGINT is pending at SSH's process group
  arrived,      \* how the archive file ends
  admitted,     \* the contribution was promoted
  problems,     \* collect_node returns problems
  chained,      \* interruption_problems is not empty
  keystrokes,   \* how many there were
  window        \* history: where one struck with SSH running unguarded, or the wait failed

sshVars     == <<ssh, sshStatus, asked, arrived>>
answerVars  == <<admitted, problems>>
strikes     == <<chained, keystrokes, window>>
sessionVars == <<wpc, sshVars, answerVars, strikes>>
vars        == <<remoteVars, sessionVars>>

WorkingLabels == {"prepare", "popen", "started", "wait", "signal", "wait_again",
                  "close", "admit", "judge"}

Unguarded == {"started", "signal", "wait_again"}

WGoto(from, to) == wpc = from /\ wpc' = to

Return(problem) == wpc' = "returned" /\ problems' = problem

-----------------------------------------------------------------------------
(* collect_node. *)

\* Private staging and the three stream files.
Prepare ==
  /\ WGoto("prepare", "popen")
  /\ UNCHANGED <<remoteVars, sshVars, answerVars, strikes>>

\* Mutant: stream files that do not close are no problem.
CloseQuietly ==
  /\ wpc \in {"prepare", "popen", "close"}
  /\ Return(wpc # "close")
  /\ UNCHANGED <<remoteVars, sshVars, admitted, strikes>>

\* Staging, the files, SSH's start, or the closing of the files failed.
CannotSession ==
  /\ wpc \in {"prepare", "popen", "close"}
  /\ Return(TRUE)
  /\ UNCHANGED <<remoteVars, sshVars, admitted, strikes>>

StartSsh ==
  /\ WGoto("popen", "started")
  /\ ssh' = "running"
  /\ UNCHANGED <<remoteVars, sshStatus, asked, arrived, answerVars, strikes>>

\* Popen has returned; process.wait() begins.
BeginWait ==
  /\ WGoto("started", "wait")
  /\ UNCHANGED <<remoteVars, sshVars, answerVars, strikes>>

SshReturned ==
  /\ ssh = "exited"
  /\ WGoto("wait", "close")
  /\ UNCHANGED <<remoteVars, sshVars, answerVars, strikes>>

\* The first wait fails: the problem is that of the stream files, and SSH runs on.
CannotWaitAtAll ==
  /\ wpc = "wait"
  /\ Return(TRUE)
  /\ window' = window \cup {"wait"}
  /\ UNCHANGED <<remoteVars, sshVars, admitted, chained, keystrokes>>

\* Mutant: the interrupt is not passed on.
ForwardNothing ==
  /\ WGoto("signal", "wait_again")
  /\ UNCHANGED <<remoteVars, sshVars, answerVars, strikes>>

\* os.killpg(process.pid, SIGINT); the group may be gone.
ForwardInterrupt ==
  /\ WGoto("signal", "wait_again")
  /\ asked' = (ssh = "running")
  /\ UNCHANGED <<remoteVars, ssh, sshStatus, arrived, answerVars, strikes>>

\* killpg fails for another reason than a group that is gone.
CannotForward ==
  /\ WGoto("signal", "wait_again")
  /\ chained' = TRUE
  /\ UNCHANGED <<remoteVars, sshVars, answerVars, keystrokes, window>>

\* Mutant: SSH is not waited for again.
RaiseWithoutWaiting ==
  /\ WGoto("wait_again", "interrupted")
  /\ UNCHANGED <<remoteVars, sshVars, answerVars, strikes>>

\* The second wait, the closing of the files, which may fail, the diagnostics, and
\* the raise.
RaiseInterrupt ==
  /\ ssh = "exited"
  /\ WGoto("wait_again", "interrupted")
  /\ chained' \in {chained, TRUE}
  /\ UNCHANGED <<remoteVars, sshVars, answerVars, keystrokes, window>>

\* The second wait fails.
CannotWait ==
  /\ WGoto("wait_again", "interrupted")
  /\ chained' = TRUE
  /\ UNCHANGED <<remoteVars, sshVars, answerVars, keystrokes, window>>

CloseStreams ==
  /\ WGoto("close", "admit")
  /\ UNCHANGED <<remoteVars, sshVars, answerVars, strikes>>

\* Mutant: one gzip member is enough.
ShortEnough == arrived \in {"short", "end"}

\* What ArchiveAdmission lets in, of what a Remote Node Collector may write.
WholeArchive == arrived = "end"

\* The rename is the last thing admit_archive does.
AdmitArchive ==
  /\ WholeArchive
  /\ WGoto("admit", "judge")
  /\ admitted' = TRUE
  /\ UNCHANGED <<remoteVars, sshVars, problems, strikes>>

\* ArchiveRejected, or an OSError of admission itself.
ArchiveNotAdmitted ==
  /\ wpc = "admit"
  /\ Return(TRUE)
  /\ UNCHANGED <<remoteVars, sshVars, admitted, strikes>>

JudgeStatus ==
  /\ wpc = "judge"
  /\ Return(sshStatus # "zero")
  /\ UNCHANGED <<remoteVars, sshVars, admitted, strikes>>

\* A KeyboardInterrupt is handled only around the wait.  On its way out it closes the
\* stream files, which may fail: the OSError takes its place, and unless the handler
\* had begun it is returned as a problem like any other.
Keystroke ==
  /\ keystrokes < MaxKeystrokes
  /\ wpc \in WorkingLabels
  /\ \/ /\ wpc' = (IF wpc = "wait" THEN "signal" ELSE "interrupted")
        /\ UNCHANGED <<problems, chained>>
     \/ /\ wpc \in {"prepare", "popen", "started", "signal", "close"}
        /\ Return(TRUE)
        /\ UNCHANGED chained
     \/ /\ wpc \in {"signal", "wait_again"}
        /\ wpc' = "interrupted" /\ chained' = TRUE
        /\ UNCHANGED problems
  /\ keystrokes' = keystrokes + 1
  /\ window' = window \cup ({wpc} \cap Unguarded)
  /\ UNCHANGED <<remoteVars, sshVars, admitted>>

CollectNode ==
  \/ Prepare \/ CannotSession \/ StartSsh \/ BeginWait \/ SshReturned
  \/ ForwardInterrupt \/ CannotForward \/ RaiseInterrupt
  \/ CloseStreams \/ AdmitArchive \/ ArchiveNotAdmitted \/ JudgeStatus

-----------------------------------------------------------------------------
(* SSH. *)

RemoteBut == <<work, raised, workspace, process, stream, said, abandoned, rwindow>>

SshConnects ==
  /\ ssh = "running" /\ rpc = "absent"
  /\ rpc' = "make"
  /\ UNCHANGED <<RemoteBut, rstatus, link, sigint, sessionVars>>

\* The collector's last bytes reach the archive file.
SshDelivers ==
  /\ ssh = "running" /\ arrived = "cut" /\ ending # "none"
  /\ arrived' = ending
  /\ UNCHANGED <<remoteVars, wpc, ssh, sshStatus, asked, answerVars, strikes>>

\* The remote command ended.  SSH gives its status, even when it could not
\* write all of the output to the local file.
SshEnds ==
  /\ ssh = "running" /\ rpc \in {"exited", "killed"}
  /\ ssh' = "exited" /\ sshStatus' = rstatus /\ link' = "down"
  /\ UNCHANGED <<RemoteBut, rpc, rstatus, sigint, wpc, asked, arrived, answerVars, strikes>>

\* No connection, or a broken one.
SshFails ==
  /\ ssh = "running"
  /\ ssh' = "exited" /\ sshStatus' = "nonzero" /\ link' = "down"
  /\ UNCHANGED <<RemoteBut, rpc, rstatus, sigint, wpc, asked, arrived, answerVars, strikes>>

\* SSH dies of the SIGINT, which is what a client without a terminal does, or passes
\* it on, which is what node.py hopes for.
SshHearsInterrupt ==
  /\ ssh = "running" /\ asked
  /\ asked' = FALSE
  /\ \/ /\ ssh' = "exited" /\ sshStatus' = "nonzero" /\ link' = "down"
        /\ UNCHANGED sigint
     \/ /\ rpc \in RemoteActive
        /\ sigint' = TRUE
        /\ UNCHANGED <<ssh, sshStatus, link>>
  /\ UNCHANGED <<RemoteBut, rpc, rstatus, wpc, arrived, answerVars, strikes>>

-----------------------------------------------------------------------------

Init ==
  /\ RemoteInit
  /\ wpc = "prepare"
  /\ ssh = "none" /\ sshStatus = "none" /\ asked = FALSE
  /\ arrived = "cut"
  /\ admitted = FALSE /\ problems = FALSE
  /\ chained = FALSE /\ keystrokes = 0 /\ window = {}

Remote == RemoteStep /\ UNCHANGED sessionVars

Next ==
  \/ CollectNode \/ CannotWait \/ CannotWaitAtAll \/ Keystroke
  \/ SshConnects \/ SshDelivers \/ SshEnds \/ SshFails \/ SshHearsInterrupt
  \/ Remote
  \/ /\ RemoteInterrupted \/ RemoteKilled \/ ProbeLost \/ ProbeEnds \/ ProbeDies
     /\ UNCHANGED sessionVars

Spec == Init /\ [][Next]_vars

\* Both programs are scheduled and their file system answers.  SSH connects or
\* fails, reports a command that ended, and reacts to a signal; Python raises the
\* KeyboardInterrupt; a process that SIGTERM ends does end.  A probe that is left
\* alone may run for ever, and no wait need fail.
FairSpec ==
  /\ Spec
  /\ WF_vars(CollectNode)
  /\ WF_vars(SshConnects) /\ WF_vars(SshEnds) /\ WF_vars(SshHearsInterrupt)
  /\ WF_vars(Remote)
  /\ WF_vars(RemoteInterrupted /\ UNCHANGED sessionVars)
  /\ WF_vars(ProbeDies /\ UNCHANGED sessionVars)

-----------------------------------------------------------------------------
(* Properties. *)

TypeOK ==
  /\ rpc \in RemoteActive \cup {"absent", "exited", "killed"}
  /\ plan \in Seq(Probes \cup Copies \cup {"crash-infos"})
  /\ listed \in 0 .. Len(CrashInfos)
  /\ good \cup sent \subseteq Probes \cup Copies
  /\ {succeeded, raised, workspace, signalled, said, sigint, abandoned} \subseteq BOOLEAN
  /\ probe \in {"none", "running", "zero", "nonzero"}
  /\ exit \in {"none", "succeeded", "failed"}
  /\ ending \in {"none", "short", "end"}
  /\ {rstatus, sshStatus} \subseteq {"none", "zero", "nonzero"}
  /\ link \in {"up", "down"}
  /\ rwindow \subseteq {"assign", "cleanup", "elsewhere"}
  /\ wpc \in WorkingLabels \cup {"returned", "interrupted"}
  /\ ssh \in {"none", "running", "exited"}
  /\ arrived \in {"cut", "short", "end"}
  /\ {asked, admitted, problems, chained} \subseteq BOOLEAN
  /\ keystrokes \in 0 .. MaxKeystrokes
  /\ window \subseteq Unguarded \cup {"wait"}

\* No news is good news: when collect_node returns without a problem, every job
\* of the Remote Node Collector succeeded and its evidence is in the admitted
\* contribution, nothing runs on the Target Node any more, and its private
\* workspace is gone.
SilenceMeansComplete ==
  wpc = "returned" /\ ~problems =>
     /\ admitted /\ Jobs \subseteq sent /\ Jobs \subseteq good
     /\ rpc = "exited" /\ probe = "none" /\ ~abandoned /\ ~workspace

\* A broken connection, an interrupt or an archive that was cut short admits no
\* contribution: what is admitted ends where the collector ended it, comes
\* after its last job, and SSH wrote its last byte before admission read it.
OnlyWholeArchivesAdmitted ==
  admitted => ending = "end" /\ ssh = "exited" /\ plan = <<>>

\* A collector that ended by itself has removed its workspace, or has said so on
\* stderr if anybody could read it, and has not exited 0; a SIGINT between
\* mkdtemp and the try block, or during the removal, is the exception.
RemoteResidueSaid ==
  rpc = "exited" /\ workspace =>
     /\ rstatus = "nonzero"
     /\ said \/ link = "down" \/ rwindow \cap {"assign", "cleanup"} # {}

\* A probe outlives the collector only when a SIGINT struck, or a kill did; or when its
\* group could not be signalled or waited for, and then the collector does not exit 0.
NoOrphan ==
  /\ probe = "running" /\ rpc \notin {"wait", "terminate", "reap"} =>
        rpc = "killed" \/ rwindow # {}
  /\ abandoned /\ rpc = "exited" => rstatus = "nonzero"

\* The SSH process never outlives collect_node, except when waiting for it failed, or
\* for a keystroke between its start and the wait for it, or one more while the first
\* was being handled.
SshEndsFirst ==
  wpc \in {"returned", "interrupted"} /\ ssh = "running" => window # {} \/ chained

\* collect_node ends.  With timeouts only one thing can hold it: waiting, after a
\* timeout, for a probe that SIGTERM does not end.
SessionEnds ==
  \/ <>(wpc \in {"returned", "interrupted"})
  \/ <>[](rpc = "reap" /\ probe = "running" /\ Job \in Stubborn)

\* Ctrl-C while SSH runs ends collect_node even then: forwarding the interrupt is
\* what ends SSH.  An interrupt that could not be forwarded promises nothing.
KeystrokeEnds == wpc = "signal" ~> wpc \in {"interrupted", "returned"} \/ chained

\* "probe_timeout is each Probe's longest waiting time" (docs/user-guide.md): a
\* probe that timed out is not waited for without end.
TimeoutBoundsProbe == rpc = "terminate" ~> rpc \notin {"terminate", "reap"}

Source == INSTANCE EvidenceSource WITH
            phase <- IF wpc \in WorkingLabels THEN "working" ELSE wpc,
            contribution <- admitted,
            problem <- problems

\* collect_node is an evidence source as run() takes it.
IsEvidenceSource == Source!Spec

=============================================================================
