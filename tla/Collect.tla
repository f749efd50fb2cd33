------------------------------ MODULE Collect ------------------------------
(***************************************************************************)
(* run() of collect/__init__.py: startup, the private workspace, every     *)
(* configured evidence source in order, publication, and the report and    *)
(* exit status that tell the operator what was delivered.                  *)
(*                                                                         *)
(* The call of publish_bundle is BundlePublication, step for step: its     *)
(* "pin" is the call, its ExitLabels the places where run() goes on.       *)
(***************************************************************************)
EXTENDS BundlePublication, Sequences

CONSTANT Order    \* the configured sources, in the order run() takes them

ASSUME OrderEnumeratesSources ==
          /\ Order \in Seq(Sources)
          /\ \A s \in Sources : \E i \in DOMAIN Order : Order[i] = s

VARIABLES
  turn,         \* the index in Order of the next source
  owned,        \* collectors whose workspace variable is assigned
  reported,     \* the residue named on stderr
  announced,    \* the outcome printed beside the path on stdout
  status        \* the exit status

runVars == <<turn, owned, reported, announced, status>>
vars    == <<pubVars, runVars>>

-----------------------------------------------------------------------------
(* Control. *)

\* Before the try block: nothing in the program catches a keystroke.
StartupLabels == {"startup", "inspect"}

\* Inside the try block, apart from the call of publish_bundle.
RunTryLabels == {"make_workspace", "assign_workspace", "layout", "collect",
                 "diagnose", "handback", "announce", "finish"}

RunHandlerLabels == {"on_interrupt", "on_error", "on_publication_error"}

RunLabels == StartupLabels \cup RunTryLabels \cup RunHandlerLabels
Labels    == RunLabels \cup PubLabels \cup {"exited"}

Status  == {"running", "0", "1", "130", "uncaught"}
Outcome == {"nothing", "complete", "partial"}

\* The process ends with status s.
Exit(c, from, s) ==
  /\ Goto(c, from, "exited")
  /\ status' = [status EXCEPT ![c] = s]

-----------------------------------------------------------------------------
(* Startup. *)

\* _validate_startup accepts the Inventory, the window and the directory, or
\* every problem is printed and the run is a nondelivery.
Startup(c) ==
  /\ \/ Goto(c, "startup", "inspect") /\ UNCHANGED status
     \/ Exit(c, "startup", "1")
  /\ UNCHANGED <<final, disk, inode, inputs, locals, answer, history,
                 turn, owned, reported, announced>>

\* lstat of the final path: absent, present, or not to be inspected.
Inspect(c) ==
  /\ \/ /\ final = Nobody
        /\ Goto(c, "inspect", "make_workspace")
        /\ UNCHANGED status
     \/ Exit(c, "inspect", "1")
  /\ UNCHANGED <<final, disk, inode, inputs, locals, answer, history,
                 turn, owned, reported, announced>>

-----------------------------------------------------------------------------
(* Collection. *)

\* mkdtemp has made the directory; its name is not assigned yet.
MakeWorkspace(c) ==
  /\ Goto(c, "make_workspace", "assign_workspace")
  /\ workspaces' = workspaces \cup {c}
  /\ UNCHANGED <<final, candidates, inode, inputs, locals, answer, history, runVars>>

AssignWorkspace(c) ==
  /\ Goto(c, "assign_workspace", "layout")
  /\ owned' = owned \cup {c}
  /\ UNCHANGED <<final, disk, inode, inputs, locals, answer, history,
                 turn, reported, announced, status>>

\* The directories and the Inventory Snapshot.
Layout(c) ==
  /\ Goto(c, "layout", "collect")
  /\ UNCHANGED <<final, disk, inode, inputs, locals, answer, history, runVars>>

\* Mutant: a source without a contribution leaves no problem.
CollectForgiving(c) ==
  /\ turn[c] \in DOMAIN Order
  /\ Goto(c, "collect", "collect")
  /\ turn' = [turn EXCEPT ![c] = @ + 1]
  /\ UNCHANGED <<final, disk, inode, inputs, locals, answer, history,
                 owned, reported, announced, status>>

\* One collect_node, collect_kubernetes or collect_prometheus: its contribution
\* is admitted whole or not at all, and what is not admitted, by its own report
\* or by an unexpected exception, leaves a problem.  No source stops the next.
CollectSource(c) ==
  /\ turn[c] \in DOMAIN Order
  /\ Goto(c, "collect", "collect")
  /\ turn' = [turn EXCEPT ![c] = @ + 1]
  /\ \/ /\ admitted' = [admitted EXCEPT ![c] = @ \cup {Order[turn[c]]}]
        /\ UNCHANGED flawed
     \/ /\ admitted' = [admitted EXCEPT ![c] = @ \cup {Order[turn[c]]}]
        /\ flawed' = flawed \cup {c}
     \/ /\ flawed' = flawed \cup {c}
        /\ UNCHANGED admitted
  /\ UNCHANGED <<final, disk, inode, locals, answer, history,
                 owned, reported, announced, status>>

\* Mutant: the sources that remain are not attempted.
DiagnoseEarly(c) ==
  /\ Goto(c, "collect", "diagnose")
  /\ UNCHANGED <<final, disk, inode, inputs, locals, answer, history, runVars>>

\* The problems go to stderr; a stream that fails changes nothing.
Diagnose(c) ==
  /\ turn[c] \notin DOMAIN Order
  /\ Goto(c, "collect", "diagnose")
  /\ UNCHANGED <<final, disk, inode, inputs, locals, answer, history, runVars>>

CallPublication(c) ==
  /\ Goto(c, "diagnose", "pin")
  /\ UNCHANGED <<final, disk, inode, inputs, locals, answer, history, runVars>>

\* mkdtemp or the layout failed.
RunRaise(c) ==
  /\ pc[c] \in {"make_workspace", "layout"}
  /\ pc' = [pc EXCEPT ![c] = "on_error"]
  /\ UNCHANGED <<final, disk, inode, inputs, locals, answer, history, runVars>>

-----------------------------------------------------------------------------
(* The report. *)

\* Mutant: an interrupted publication is taken for a nondelivery.
ReportInterrupted(c) ==
  /\ result[c] # "DELIVERED"
  /\ Exit(c, "handback", "130")
  /\ reported' = [reported EXCEPT ![c] = @ \cup residue[c]]
  /\ UNCHANGED <<final, disk, inode, inputs, locals, answer, history,
                 turn, owned, announced>>

\* publication.delivered is False.
ReportNondelivery(c) ==
  /\ result[c] = "INTERRUPTED"
  /\ Exit(c, "handback", "130")
  /\ reported' = [reported EXCEPT ![c] = @ \cup residue[c]]
  /\ UNCHANGED <<final, disk, inode, inputs, locals, answer, history,
                 turn, owned, announced>>

\* Mutant: whatever publish_bundle returns is taken for a delivery.
ReportAnyResidue(c) ==
  /\ Goto(c, "handback", "announce")
  /\ reported' = [reported EXCEPT ![c] = @ \cup residue[c]]
  /\ UNCHANGED <<final, disk, inode, inputs, locals, answer, history,
                 turn, owned, announced, status>>

\* The residue is printed.
ReportResidue(c) ==
  /\ result[c] # "INTERRUPTED"
  /\ Goto(c, "handback", "announce")
  /\ reported' = [reported EXCEPT ![c] = @ \cup residue[c]]
  /\ UNCHANGED <<final, disk, inode, inputs, locals, answer, history,
                 turn, owned, announced, status>>

\* Mutant: residue is printed but is no problem of the run.
AnnounceEvidenceOnly(c) ==
  /\ Goto(c, "announce", "finish")
  /\ announced' = [announced EXCEPT ![c] =
                     IF c \in flawed THEN "partial" ELSE "complete"]
  /\ UNCHANGED <<final, disk, inode, inputs, locals, answer, history,
                 turn, owned, reported, status>>

\* The path and the outcome, on stdout or, when that fails, on stderr.  Each
\* object of the residue has become a problem of the run.
Announce(c) ==
  /\ Goto(c, "announce", "finish")
  /\ announced' = [announced EXCEPT ![c] =
                     IF c \in flawed \/ residue[c] # {} THEN "partial" ELSE "complete"]
  /\ UNCHANGED <<final, disk, inode, inputs, locals, answer, history,
                 turn, owned, reported, status>>

Finish(c) ==
  /\ Exit(c, "finish", "0")
  /\ UNCHANGED <<final, disk, inode, inputs, locals, answer, history,
                 turn, owned, reported, announced>>

-----------------------------------------------------------------------------
(* The handlers of run(). *)

\* Mutant: a workspace that cannot be removed is not reported.
HandleQuietly(c) ==
  /\ \/ Exit(c, "on_interrupt", "130")
     \/ Exit(c, "on_error", "1")
  /\ IF c \in owned
       THEN CleanupOwnedWorkspace(c)
       ELSE UNCHANGED <<workspaces, unclean>>
  /\ UNCHANGED <<final, candidates, inode, inputs, known, attempted, published,
                 answer, history, turn, owned, reported, announced>>

\* KeyboardInterrupt, or an exception other than a BundlePublicationError: the
\* workspace is removed if its name is known, and the run is a nondelivery.
HandleAndExit(c) ==
  /\ \/ Exit(c, "on_interrupt", "130")
     \/ Exit(c, "on_error", "1")
  /\ IF c \in owned
       THEN CleanupOwnedWorkspace(c)
       ELSE UNCHANGED <<workspaces, unclean>>
  /\ reported' = [reported EXCEPT ![c] = @ \cup
                    IF c \in owned /\ c \in workspaces' THEN {"workspace"} ELSE {}]
  /\ UNCHANGED <<final, candidates, inode, inputs, known, attempted, published,
                 answer, history, turn, owned, announced>>

\* A BundlePublicationError has already named the residue; nothing is retried.
HandlePublicationError(c) ==
  /\ Exit(c, "on_publication_error", "1")
  /\ reported' = [reported EXCEPT ![c] = @ \cup residue[c]]
  /\ UNCHANGED <<final, disk, inode, inputs, locals, answer, history,
                 turn, owned, announced>>

-----------------------------------------------------------------------------
(* What the environment does to an invocation outside publish_bundle. *)

RunWindowAt(l) ==
  CASE l = "assign_workspace"                      -> {"workspace_unassigned"}
    [] l \in {"handback", "announce", "finish"}    -> {"reporting"}
    [] OTHER                                       -> {}

RunInterrupt(c) ==
  /\ interrupts < MaxInterrupts
  /\ \/ /\ pc[c] \in RunTryLabels
        /\ pc' = [pc EXCEPT ![c] = "on_interrupt"]
        /\ UNCHANGED status
     \/ \E l \in StartupLabels \cup RunHandlerLabels : Exit(c, l, "uncaught")
  /\ interrupts' = interrupts + 1
  /\ window' = [window EXCEPT ![c] = @ \cup RunWindowAt(pc[c])]
  /\ UNCHANGED <<final, disk, inode, inputs, locals, answer,
                 turn, owned, reported, announced>>

RunKill(c) ==
  /\ pc[c] \in RunLabels
  /\ pc' = [pc EXCEPT ![c] = "killed"]
  /\ UNCHANGED <<final, disk, inode, inputs, locals, answer, history, runVars>>

\* stderr does not take a line of a report.
LosesALine(c) ==
  window' = [window EXCEPT ![c] = @ \cup {"report_lost"}]

\* A line of a delivered bundle's residue is lost, and run() goes on.
LoseResidueLine(c) ==
  /\ result[c] # "INTERRUPTED"
  /\ residue[c] # {}
  /\ Goto(c, "handback", "announce")
  /\ \E taken \in SUBSET residue[c] :
        reported' = [reported EXCEPT ![c] = @ \cup taken]
  /\ LosesALine(c)
  /\ UNCHANGED <<final, disk, inode, inputs, locals, answer, interrupts,
                 turn, owned, announced, status>>

\* The nondelivery of a publication, the line on a late keystroke, or the line
\* that replaces stdout's: the exception reaches run()'s last handler.
LoseReport(c) ==
  /\ \/ /\ result[c] = "INTERRUPTED"
        /\ Goto(c, "handback", "on_error")
        /\ \E taken \in SUBSET residue[c] :
              reported' = [reported EXCEPT ![c] = @ \cup taken]
     \/ /\ Goto(c, "announce", "on_error")
        /\ UNCHANGED reported
  /\ LosesALine(c)
  /\ UNCHANGED <<final, disk, inode, inputs, locals, answer, interrupts,
                 turn, owned, announced, status>>

\* The nondelivery of startup or of a handler: nothing catches the exception.
LoseAnswer(c) ==
  /\ \/ /\ \E l \in StartupLabels \cup {"on_publication_error"} : Exit(c, l, "uncaught")
        /\ UNCHANGED <<workspaces, unclean>>
     \/ /\ \E l \in {"on_interrupt", "on_error"} : Exit(c, l, "uncaught")
        /\ IF c \in owned
             THEN CleanupOwnedWorkspace(c)
             ELSE UNCHANGED <<workspaces, unclean>>
  /\ LosesALine(c)
  /\ UNCHANGED <<final, candidates, inode, inputs, known, attempted, published,
                 answer, interrupts, turn, owned, reported, announced>>

\* A failing stderr.
StderrFails(c) == LoseResidueLine(c) \/ LoseReport(c) \/ LoseAnswer(c)

-----------------------------------------------------------------------------

RunStep(c) ==
  \/ Startup(c) \/ Inspect(c)
  \/ MakeWorkspace(c) \/ AssignWorkspace(c) \/ Layout(c)
  \/ CollectSource(c) \/ Diagnose(c) \/ CallPublication(c) \/ RunRaise(c)
  \/ ReportNondelivery(c) \/ ReportResidue(c) \/ Announce(c) \/ Finish(c)
  \/ HandleAndExit(c) \/ HandlePublicationError(c)

\* What the program does by itself, as against what happens to it.
Step(c) == RunStep(c) \/ (PubStep(c) /\ UNCHANGED runVars)

Init ==
  /\ PubLocalsInit
  /\ workspaces = {}
  /\ admitted = [c \in Collectors |-> {}]
  /\ flawed = {}
  /\ pc = [c \in Collectors |-> "startup"]
  /\ turn = [c \in Collectors |-> 1]
  /\ owned = {}
  /\ reported = [c \in Collectors |-> {}]
  /\ announced = [c \in Collectors |-> "nothing"]
  /\ status = [c \in Collectors |-> "running"]

Next ==
  \/ \E c \in Collectors :
        Step(c) \/ RunInterrupt(c) \/ RunKill(c) \/ StderrFails(c)
  \/ \E c \in Collectors : (PubInterrupt(c) \/ PubKill(c)) /\ UNCHANGED runVars
  \/ ForeignCreate /\ UNCHANGED runVars

\* Safety only: an invocation ends when its sources do, which is their own subject.
Spec == Init /\ [][Next]_vars

=============================================================================
