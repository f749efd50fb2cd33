------------------------- MODULE BundlePublication -------------------------
(***************************************************************************)
(* publish_bundle() of collect/bundle.py: one call per collector packs the *)
(* admitted evidence of its private workspace into a private candidate     *)
(* file, removes the workspace, and publishes the candidate under the      *)
(* final path with a hard link that never replaces.  Two collectors        *)
(* started in the same second with the same output directory compete for   *)
(* one final path, and anything else on the workstation may create it.     *)
(*                                                                         *)
(* A step is the code between two points where something else can happen:  *)
(* a KeyboardInterrupt (which Python may raise between any two bytecodes), *)
(* an exception, another process, or an uncatchable kill.                  *)
(*                                                                         *)
(* A Boolean of each collector is written as the set of the collectors it  *)
(* is true of.                                                             *)
(***************************************************************************)
EXTENDS Naturals

CONSTANTS Collectors,    \* the invocations that share one final path
          Sources,       \* the evidence sources an Inventory may configure
          Foreign,       \* an owner of the final path that is no collector
          Nobody,        \* the owner of a final path that does not exist
          MaxInterrupts  \* bound: Ctrl-C keystrokes in a behaviour

ASSUME OwnersDistinct ==
          /\ Foreign \notin Collectors
          /\ Nobody \notin Collectors
          /\ Foreign # Nobody
ASSUME InterruptBound == MaxInterrupts \in Nat

VARIABLES
  \* The workstation's file system.
  final,        \* who created the final path: its inode is that candidate's
  workspaces,   \* collectors whose private workspace exists
  candidates,   \* collectors whose candidate directory entry exists
  \* The inode of each candidate, which the final path shares once linked.
  packed,       \* the contributions written to the archive
  outcome,      \* the outcome in collection.json
  sealed,       \* collectors whose candidate is flushed, closed and readable
  \* What the call was given: the workspace's contents and prior_partial.
  admitted,     \* the sources with an admitted contribution
  flawed,       \* collectors with a problem before publication
  \* The local state of each call.
  pc,
  known,        \* candidate is not None
  attempted,    \* workspace_cleanup_attempted
  unclean,      \* cleanup_problem is not None
  published,    \* the local variable of that name
  residue,      \* the residue of the result, or named by the raised error
  result,       \* the PublicationState returned
  \* History, for the properties only.
  interrupts,   \* the keystrokes so far
  window        \* the delicate places at which a keystroke struck,
                \* and whether stderr refused a line of the report

disk      == <<workspaces, candidates>>
inode     == <<packed, outcome, sealed>>
inputs    == <<admitted, flawed>>
locals    == <<known, attempted, unclean, published>>
answer    == <<residue, result>>
history   == <<interrupts, window>>
pubVars   == <<final, disk, inode, inputs, pc, locals, answer, history>>

-----------------------------------------------------------------------------
(* Control. *)

\* The labels inside the try block: a keystroke there enters the handler.
TryLabels == {"pin", "validate", "create", "assign_candidate", "archive",
              "removed", "removed_badly", "describe", "seal", "link",
              "linked", "drop_candidate", "return"}

\* The two handlers: a keystroke there leaves publish_bundle altogether.
HandlerLabels == {"ki_workspace", "ki_candidate", "ki_return",
                  "ex_workspace", "ex_candidate", "ex_raise"}

\* Where the caller continues: the returned result, or one of run()'s handlers.
ExitLabels == {"handback", "on_publication_error", "on_interrupt"}

PubLabels == TryLabels \cup HandlerLabels \cup ExitLabels \cup {"killed"}

\* The steps an OSError or a BundlePublicationError can end.
Fallible == {"pin", "validate", "create", "archive", "describe", "seal", "link"}

PublicationState == {"DELIVERED", "INTERRUPTED", "DELIVERED_INTERRUPTED"}
Object           == {"workspace", "candidate"}
Windows          == {"workspace_unassigned", "candidate_unassigned",
                     "publication_unrecorded", "reporting", "handler",
                     "report_lost"}

Goto(c, from, to) == pc[c] = from /\ pc' = [pc EXCEPT ![c] = to]

-----------------------------------------------------------------------------
(* Helpers of the module. *)

\* cleanup_owned_workspace: rmtree succeeds, finds nothing, or reports a problem.
CleanupOwnedWorkspace(c) ==
  \/ /\ workspaces' = workspaces \ {c}
     /\ unclean' = unclean \ {c}
  \/ /\ c \in workspaces
     /\ unclean' = unclean \cup {c}
     /\ UNCHANGED workspaces

\* _remove_candidate: the entry is gone afterwards, or the unlink failed.
RemoveCandidate(c, left) ==
  \/ /\ left = {}
     /\ candidates' = candidates \ {c}
  \/ /\ c \in candidates
     /\ left = {"candidate"}
     /\ UNCHANGED candidates

UncleanWorkspace(c) == IF c \in unclean THEN {"workspace"} ELSE {}

-----------------------------------------------------------------------------
(* The try block of publish_bundle. *)

Pin(c) ==
  /\ Goto(c, "pin", "validate")
  /\ UNCHANGED <<final, disk, inode, inputs, locals, answer, history>>

\* _validate_lifecycle_paths finds no final path yet; _validated_entries lists
\* the admitted tree.
Validate(c) ==
  /\ final = Nobody
  /\ Goto(c, "validate", "create")
  /\ UNCHANGED <<final, disk, inode, inputs, locals, answer, history>>

\* os.open(O_EXCL) in _create_private_candidate has made the entry; the caller
\* has not assigned its name yet.
CreateCandidate(c) ==
  /\ Goto(c, "create", "assign_candidate")
  /\ candidates' = candidates \cup {c}
  /\ UNCHANGED <<final, workspaces, inode, inputs, locals, answer, history>>

AssignCandidate(c) ==
  /\ Goto(c, "assign_candidate", "archive")
  /\ known' = known \cup {c}
  /\ UNCHANGED <<final, disk, inode, inputs, attempted, unclean, published,
                 answer, history>>

ArchiveEntry(c) ==
  /\ Goto(c, "archive", "archive")
  /\ \E s \in admitted[c] \ packed[c] :
        packed' = [packed EXCEPT ![c] = @ \cup {s}]
  /\ UNCHANGED <<final, disk, outcome, sealed, inputs, locals, answer, history>>

\* Mutant: the workspace goes while entries are still to be packed.
RemoveWorkspaceEarly(c) ==
  /\ \/ Goto(c, "archive", "removed")
     \/ Goto(c, "archive", "removed_badly")
  /\ CleanupOwnedWorkspace(c)
  /\ UNCHANGED <<final, candidates, inode, inputs, known, attempted, published,
                 answer, history>>

\* Everything is packed: close the input and remove the workspace.  A close
\* problem is raised only after the removal was recorded.
RemoveWorkspace(c) ==
  /\ packed[c] = admitted[c]
  /\ \/ Goto(c, "archive", "removed")
     \/ Goto(c, "archive", "removed_badly")
  /\ CleanupOwnedWorkspace(c)
  /\ UNCHANGED <<final, candidates, inode, inputs, known, attempted, published,
                 answer, history>>

MarkAttempted(c) ==
  /\ \/ Goto(c, "removed", "describe")
     \/ Goto(c, "removed_badly", "ex_workspace")
  /\ attempted' = attempted \cup {c}
  /\ UNCHANGED <<final, disk, inode, inputs, known, unclean, published,
                 answer, history>>

\* collection.json fixes the outcome before the bundle exists.
Describe(c) ==
  /\ Goto(c, "describe", "seal")
  /\ outcome' = [outcome EXCEPT ![c] =
                   IF c \in flawed \cup unclean THEN "partial" ELSE "complete"]
  /\ UNCHANGED <<final, disk, packed, sealed, inputs, locals, answer, history>>

\* flush, fsync and close, then the ordinary mode.
Seal(c) ==
  /\ Goto(c, "seal", "link")
  /\ sealed' = sealed \cup {c}
  /\ UNCHANGED <<final, disk, packed, outcome, inputs, locals, answer, history>>

\* Mutant: os.replace in place of os.link.
Replace(c) ==
  /\ Goto(c, "link", "linked")
  /\ final' = c
  /\ UNCHANGED <<disk, inode, inputs, locals, answer, history>>

\* os.link never replaces an existing path.
Link(c) ==
  /\ final = Nobody
  /\ Goto(c, "link", "linked")
  /\ final' = c
  /\ UNCHANGED <<disk, inode, inputs, locals, answer, history>>

RecordPublication(c) ==
  /\ Goto(c, "linked", "drop_candidate")
  /\ published' = published \cup {c}
  /\ UNCHANGED <<final, disk, inode, inputs, known, attempted, unclean,
                 answer, history>>

\* Mutant: the workspace that could not be removed is left out of the residue.
DropCandidateOnly(c) ==
  /\ Goto(c, "drop_candidate", "return")
  /\ \E left \in SUBSET {"candidate"} :
        /\ RemoveCandidate(c, left)
        /\ residue' = [residue EXCEPT ![c] = left]
  /\ UNCHANGED <<final, workspaces, inode, inputs, locals, result, history>>

DropCandidate(c) ==
  /\ Goto(c, "drop_candidate", "return")
  /\ \E left \in SUBSET {"candidate"} :
        /\ RemoveCandidate(c, left)
        /\ residue' = [residue EXCEPT ![c] = left \cup UncleanWorkspace(c)]
  /\ UNCHANGED <<final, workspaces, inode, inputs, locals, result, history>>

ReturnDelivered(c) ==
  /\ Goto(c, "return", "handback")
  /\ result' = [result EXCEPT ![c] = "DELIVERED"]
  /\ UNCHANGED <<final, disk, inode, inputs, locals, residue, history>>

\* An exception in the try block enters the second handler.
Raise(c) ==
  /\ pc[c] \in Fallible
  /\ pc' = [pc EXCEPT ![c] = "ex_workspace"]
  /\ UNCHANGED <<final, disk, inode, inputs, locals, answer, history>>

-----------------------------------------------------------------------------
(* The handlers of publish_bundle. *)

HandlerCleansWorkspace(c) ==
  /\ \/ Goto(c, "ki_workspace", "ki_candidate")
     \/ Goto(c, "ex_workspace", "ex_candidate")
  /\ IF c \in attempted THEN UNCHANGED <<workspaces, unclean>>
                        ELSE CleanupOwnedWorkspace(c)
  /\ UNCHANGED <<final, candidates, inode, inputs, known, attempted, published,
                 answer, history>>

HandlerDropsCandidate(c) ==
  /\ \/ Goto(c, "ki_candidate", "ki_return")
     \/ Goto(c, "ex_candidate", "ex_raise")
  /\ \E left \in SUBSET {"candidate"} :
        /\ IF c \in known THEN RemoveCandidate(c, left)
                          ELSE left = {} /\ UNCHANGED candidates
        /\ residue' = [residue EXCEPT ![c] = @ \cup left \cup UncleanWorkspace(c)]
  /\ UNCHANGED <<final, workspaces, inode, inputs, locals, result, history>>

\* Mutant: the handler forgets that the bundle may be published.
ReturnInterruptedAlways(c) ==
  /\ Goto(c, "ki_return", "handback")
  /\ result' = [result EXCEPT ![c] = "INTERRUPTED"]
  /\ UNCHANGED <<final, disk, inode, inputs, locals, residue, history>>

ReturnInterrupted(c) ==
  /\ Goto(c, "ki_return", "handback")
  /\ result' = [result EXCEPT ![c] = IF c \in published
                                       THEN "DELIVERED_INTERRUPTED"
                                       ELSE "INTERRUPTED"]
  /\ UNCHANGED <<final, disk, inode, inputs, locals, residue, history>>

RaisePublicationError(c) ==
  /\ Goto(c, "ex_raise", "on_publication_error")
  /\ UNCHANGED <<final, disk, inode, inputs, locals, answer, history>>

-----------------------------------------------------------------------------
(* What the environment does to a call. *)

\* The window a keystroke at label l strikes, if it is a delicate one.
WindowAt(l) ==
  CASE l = "assign_candidate" -> {"candidate_unassigned"}
    [] l = "linked"           -> {"publication_unrecorded"}
    [] l \in HandlerLabels    -> {"handler"}
    [] OTHER                  -> {}

PubInterrupt(c) ==
  /\ interrupts < MaxInterrupts
  /\ \/ /\ pc[c] \in TryLabels
        /\ pc' = [pc EXCEPT ![c] = "ki_workspace"]
     \/ /\ pc[c] \in HandlerLabels
        /\ pc' = [pc EXCEPT ![c] = "on_interrupt"]
  /\ interrupts' = interrupts + 1
  /\ window' = [window EXCEPT ![c] = @ \cup WindowAt(pc[c])]
  /\ UNCHANGED <<final, disk, inode, inputs, locals, answer>>

\* SIGKILL, or the machine's death: no handler runs.
PubKill(c) ==
  /\ pc[c] \in TryLabels \cup HandlerLabels
  /\ pc' = [pc EXCEPT ![c] = "killed"]
  /\ UNCHANGED <<final, disk, inode, inputs, locals, answer, history>>

\* Something else on the workstation creates the final path.
ForeignCreate ==
  /\ final = Nobody
  /\ final' = Foreign
  /\ UNCHANGED <<disk, inode, inputs, pc, locals, answer, history>>

-----------------------------------------------------------------------------

PubStep(c) ==
  \/ Pin(c) \/ Validate(c) \/ CreateCandidate(c) \/ AssignCandidate(c)
  \/ ArchiveEntry(c) \/ RemoveWorkspace(c) \/ MarkAttempted(c) \/ Describe(c)
  \/ Seal(c) \/ Link(c) \/ RecordPublication(c) \/ DropCandidate(c)
  \/ ReturnDelivered(c) \/ Raise(c)
  \/ HandlerCleansWorkspace(c) \/ HandlerDropsCandidate(c)
  \/ ReturnInterrupted(c) \/ RaisePublicationError(c)

\* The state of every local variable when a call has not begun.
PubLocalsInit ==
  /\ final = Nobody
  /\ candidates = {}
  /\ packed = [c \in Collectors |-> {}]
  /\ outcome = [c \in Collectors |-> "unset"]
  /\ sealed = {}
  /\ known = {} /\ attempted = {} /\ unclean = {} /\ published = {}
  /\ residue = [c \in Collectors |-> {}]
  /\ result = [c \in Collectors |-> "none"]
  /\ interrupts = 0
  /\ window = [c \in Collectors |-> {}]

\* Publication alone: every collector calls it with some admitted evidence, and
\* a source without a contribution has left a problem behind.
PubInit ==
  /\ PubLocalsInit
  /\ workspaces = Collectors
  /\ admitted \in [Collectors -> SUBSET Sources]
  /\ flawed \in SUBSET Collectors
  /\ \A c \in Collectors : c \notin flawed => admitted[c] = Sources
  /\ pc = [c \in Collectors |-> "pin"]

PubNext ==
  \/ \E c \in Collectors : PubStep(c) \/ PubInterrupt(c) \/ PubKill(c)
  \/ ForeignCreate

\* Safety only: every step of a call waits for the file system alone.
PubSpec == PubInit /\ [][PubNext]_pubVars

-----------------------------------------------------------------------------
(* Properties. *)

PubTypes ==
  /\ final \in Collectors \cup {Foreign, Nobody}
  /\ workspaces \in SUBSET Collectors
  /\ candidates \in SUBSET Collectors
  /\ packed \in [Collectors -> SUBSET Sources]
  /\ outcome \in [Collectors -> {"unset", "complete", "partial"}]
  /\ sealed \in SUBSET Collectors
  /\ admitted \in [Collectors -> SUBSET Sources]
  /\ flawed \in SUBSET Collectors
  /\ known \in SUBSET Collectors
  /\ attempted \in SUBSET Collectors
  /\ unclean \in SUBSET Collectors
  /\ published \in SUBSET Collectors
  /\ residue \in [Collectors -> SUBSET Object]
  /\ result \in [Collectors -> PublicationState \cup {"none"}]
  /\ interrupts \in 0..MaxInterrupts
  /\ window \in [Collectors -> SUBSET Windows]

\* Type invariant of publication alone.
PubTypeOK == PubTypes /\ pc \in [Collectors -> PubLabels]

\* Nothing publish_bundle does replaces or removes a final path that exists,
\* whoever created it: not a losing link, not a handler's cleanup.
NoReplacement == [][final # Nobody => final' = final]_pubVars

\* What stands at the final path is a whole bundle: every admitted contribution
\* packed, its metadata written, flushed and closed, from the instant it is
\* visible, whatever strikes or fails before or after.
FinalIsWhole ==
  \A c \in Collectors :
     final = c => /\ c \in sealed
                  /\ packed[c] = admitted[c]
                  /\ outcome[c] # "unset"

\* A published bundle that calls itself complete has the evidence of every
\* source, no problem from any, and no workspace left behind.
CompleteMeansComplete ==
  \A c \in Collectors :
     final = c /\ outcome[c] = "complete" =>
        /\ c \notin flawed
        /\ packed[c] = Sources
        /\ c \notin workspaces

\* The owned objects that are still there.
Owned(c) == {o \in Object : \/ o = "workspace" /\ c \in workspaces
                            \/ o = "candidate" /\ c \in candidates}

Returned(c) == pc[c] \in {"handback", "on_publication_error"}

\* What the code does keep: whatever is left is named, unless the keystroke fell
\* between the candidate's creation and the assignment of its name; and whatever
\* is named is left, unless the handler's second try at removal succeeded.
ResidueNamed ==
  \A c \in Collectors : Returned(c) =>
     /\ "candidate_unassigned" \notin window[c] => Owned(c) \subseteq residue[c]
     /\ result[c] # "DELIVERED_INTERRUPTED" => residue[c] \subseteq Owned(c)

\* What the code does keep: a result that says delivered is true, a raised error
\* is true, and INTERRUPTED is true unless the keystroke fell between the link
\* and the assignment that records it.
ResultTruthful ==
  \A c \in Collectors :
     /\ pc[c] = "on_publication_error" => final # c
     /\ pc[c] = "handback" /\ result[c] # "INTERRUPTED" => final = c
     /\ pc[c] = "handback" /\ result[c] = "INTERRUPTED" =>
           final # c \/ "publication_unrecorded" \in window[c]

-----------------------------------------------------------------------------
(* The inductive invariant behind them: what each point of the call knows.  It
   says nothing of labels that are not publish_bundle's, so that it stays
   inductive where a caller shares these variables. *)

\* The places where a keystroke comes after the bundle's publication and is
\* taken for one before it, and a report that stderr did not take.
LateWindows == {"publication_unrecorded", "reporting", "handler", "report_lost"}

Late(c) == window[c] \cap LateWindows # {}

BeforeMetadata == {"pin", "validate", "create", "assign_candidate", "archive",
                   "removed", "removed_badly", "describe"}
BeforeLink     == BeforeMetadata \cup {"seal", "link"}
Failing        == {"ex_workspace", "ex_candidate", "ex_raise",
                   "on_publication_error"}
Interrupted    == {"ki_workspace", "ki_candidate", "ki_return"}

\* How far the candidate's contents are at each label.
ContentsInv(c) ==
  /\ pc[c] \in {"removed", "removed_badly", "describe"} => packed[c] = admitted[c]
  /\ pc[c] \in BeforeMetadata => outcome[c] = "unset"
  /\ pc[c] \in {"seal", "link"} => outcome[c] # "unset"
  /\ pc[c] = "link" => c \in sealed
  /\ c \in sealed => outcome[c] # "unset"
  /\ outcome[c] # "unset" => packed[c] = admitted[c]

\* What the metadata's outcome stands for.
OutcomeInv(c) ==
  /\ c \in attempted \/ pc[c] \in {"removed", "removed_badly"} =>
        (c \in workspaces => c \in unclean)
  /\ pc[c] = "describe" \/ outcome[c] # "unset" => c \in attempted
  /\ pc[c] \in TryLabels /\ c \notin flawed => admitted[c] = Sources
  /\ pc[c] \in TryLabels \cup HandlerLabels \cup {"handback"} =>
        (outcome[c] = "partial" => c \in flawed \cup unclean)
  /\ outcome[c] = "complete" => /\ c \notin flawed
                                /\ c \notin workspaces
                                /\ admitted[c] = Sources

\* Who holds the final path, and what the call knows of it.
LinkInv(c) ==
  /\ final = c => c \in sealed /\ pc[c] \notin BeforeLink \cup Failing
  /\ pc[c] \in {"linked", "drop_candidate", "return"} => final = c
  /\ pc[c] \in {"drop_candidate", "return"} => c \in published
  /\ c \in published => final = c
  /\ pc[c] = "handback" => result[c] # "none"
  /\ result[c] \in {"DELIVERED", "DELIVERED_INTERRUPTED"} => final = c
  /\ final = c /\ pc[c] \in Interrupted /\ c \notin published =>
        "publication_unrecorded" \in window[c]
  /\ final = c /\ pc[c] = "handback" /\ result[c] = "INTERRUPTED" =>
        "publication_unrecorded" \in window[c]
  /\ final = c /\ pc[c] = "on_interrupt" => Late(c)
  /\ pc[c] \in TryLabels => window[c] = {}
  /\ final = c => "candidate_unassigned" \notin window[c]

\* What is left on disk, what the call knows to be left, and what it has named.
ResidueInv(c) ==
  /\ c \in unclean => c \in workspaces
  /\ pc[c] \in {"pin", "validate", "create"} => c \notin candidates
  /\ pc[c] \in TryLabels \cup HandlerLabels /\ pc[c] # "assign_candidate" =>
        (c \in candidates => c \in known \/ "candidate_unassigned" \in window[c])
  /\ pc[c] \in {"ki_candidate", "ki_return", "ex_candidate", "ex_raise"} =>
        (c \in workspaces => c \in unclean)
  /\ pc[c] \in {"return", "ki_return", "ex_raise"} \/ Returned(c) =>
        /\ c \in workspaces => "workspace" \in residue[c]
        /\ c \in candidates => \/ "candidate" \in residue[c]
                               \/ "candidate_unassigned" \in window[c]
  /\ pc[c] \in TryLabels \cup HandlerLabels \cup {"handback"} =>
        ("workspace" \in residue[c] => c \in unclean)
  /\ pc[c] \in BeforeLink \cup {"linked", "drop_candidate", "ex_workspace",
                                "ex_candidate"} => residue[c] = {}
  /\ pc[c] \in {"ki_workspace", "ki_candidate"} /\ c \notin published =>
        residue[c] = {}
  /\ pc[c] \in {"return", "ex_raise", "on_publication_error"} =>
        residue[c] \subseteq Owned(c)
  /\ pc[c] = "ki_return" /\ c \notin published => residue[c] \subseteq Owned(c)
  /\ pc[c] = "handback" /\ result[c] # "DELIVERED_INTERRUPTED" =>
        residue[c] \subseteq Owned(c)

PubInv ==
  \A c \in Collectors :
     ContentsInv(c) /\ OutcomeInv(c) /\ LinkInv(c) /\ ResidueInv(c)

=============================================================================
