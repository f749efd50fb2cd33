------------------------- MODULE CollectProperties -------------------------
(***************************************************************************)
(* What an operator may conclude from an invocation's exit status, its     *)
(* output and the final path, and what Collect shows of BundleDelivery.    *)
(***************************************************************************)
EXTENDS Collect

\* Type invariant.
TypeOK ==
  /\ PubTypes
  /\ pc \in [Collectors -> Labels]
  /\ turn \in [Collectors -> 1 .. Len(Order) + 1]
  /\ owned \in SUBSET Collectors
  /\ reported \in [Collectors -> SUBSET Object]
  /\ announced \in [Collectors -> Outcome]
  /\ status \in [Collectors -> Status]

\* A bundle is published only after every configured source was attempted,
\* however many of them failed.
EverySourceAttempted ==
  \A c \in Collectors : final = c => turn[c] = Len(Order) + 1

\* Exit status 0 is given only to an invocation whose own bundle stands at the
\* final path; 1 and 130, which print "FAIL: no Incident Bundle delivered", only
\* when it does not, or a keystroke struck in one of the late windows or stderr
\* did not take a line of the report.
StatusTruthful ==
  \A c \in Collectors :
     /\ status[c] = "0" => final = c
     /\ status[c] \in {"1", "130"} /\ ~Late(c) =>
           final # c /\ announced[c] = "nothing"

\* "Ctrl-C after publication: the delivered Bundle is kept, exit status 0"
\* (docs/architecture.md), as it is said; stderr takes every line.
DeliveredExitsZero ==
  \A c \in Collectors :
     final = c /\ "report_lost" \notin window[c] =>
        status[c] \in {"running", "0", "uncaught"}

\* When an invocation ends by itself, whatever it made and could not remove was
\* named on stderr, except where a keystroke made it forget the name or stderr
\* did not take the line.
ResidueReported ==
  \A c \in Collectors : status[c] \in {"0", "1", "130"} =>
     /\ "workspace" \in Owned(c) \ reported[c] =>
           window[c] \cap {"workspace_unassigned", "report_lost"} # {}
     /\ "candidate" \in Owned(c) \ reported[c] =>
           window[c] \cap {"candidate_unassigned", "handler", "reporting",
                           "report_lost"} # {}

\* The outcome on stdout against the one inside the bundle: "complete" is never
\* said of a partial bundle nor with anything left behind, and "partial" of a
\* complete one only for a candidate that was reported as residue, if stderr
\* took the report.
AnnouncementAgrees ==
  \A c \in Collectors :
     /\ announced[c] = "complete" => outcome[c] = "complete" /\ Owned(c) = {}
     /\ announced[c] = "partial" /\ outcome[c] = "complete" =>
           "candidate" \in reported[c] \/ "report_lost" \in window[c]

-----------------------------------------------------------------------------
(* The inductive invariant of an invocation, on top of publication's. *)

\* Before publish_bundle is called, and where a failure before it leads.
Preparing == StartupLabels \cup {"make_workspace", "assign_workspace", "layout",
                                 "collect", "diagnose"}

BeforePublication(c) ==
  pc[c] \in Preparing \/ (pc[c] = "on_error" /\ "report_lost" \notin window[c])

PreparingInv(c) ==
  BeforePublication(c) => /\ final # c
                          /\ packed[c] = {}
                          /\ outcome[c] = "unset"
                          /\ c \notin attempted \cup candidates
                          /\ result[c] = "none"
                          /\ residue[c] = {} /\ window[c] = {}

\* What the sources taken so far have left.
SourcesInv(c) ==
  /\ pc[c] = "diagnose" \/ pc[c] \in TryLabels \/ outcome[c] # "unset" =>
        turn[c] = Len(Order) + 1
  /\ \A i \in DOMAIN Order :
        i < turn[c] => Order[i] \in admitted[c] \/ c \in flawed

\* What was said of the delivery.
ClaimInv(c) ==
  /\ status[c] = "running" <=> pc[c] # "exited"
  /\ pc[c] \in {"announce", "finish"} => final = c
  /\ announced[c] # "nothing" => final = c
  /\ status[c] = "0" => final = c
  /\ status[c] \in {"1", "130"} /\ final = c => Late(c)

\* What the announcement rests on, and what stays true of it.
AnnounceInv(c) ==
  /\ pc[c] = "announce" =>
        /\ residue[c] \subseteq reported[c] \/ "report_lost" \in window[c]
        /\ Owned(c) \subseteq residue[c]
        /\ outcome[c] = "partial" => c \in flawed \cup unclean
        /\ "workspace" \in residue[c] => c \in unclean
  /\ announced[c] = "complete" => outcome[c] = "complete" /\ Owned(c) = {}
  /\ announced[c] = "partial" /\ outcome[c] = "complete" =>
        "candidate" \in reported[c] \/ "report_lost" \in window[c]

\* What is left behind and what the run knows or said of it.
ForgetfulWindows == {"candidate_unassigned", "handler", "reporting", "report_lost"}

OwnershipInv(c) ==
  /\ pc[c] \in {"startup", "inspect", "make_workspace"} => c \notin workspaces
  /\ c \in workspaces /\ pc[c] # "assign_workspace" =>
        c \in owned \/ "workspace_unassigned" \in window[c] \/ pc[c] = "killed"
  /\ c \in candidates /\ pc[c] \in {"on_interrupt", "on_error"} =>
        window[c] \cap ForgetfulWindows # {}
  /\ pc[c] \in {"announce", "finish"} \/ status[c] \in {"0", "1", "130"} =>
        /\ c \in workspaces =>
              \/ "workspace" \in reported[c]
              \/ window[c] \cap {"workspace_unassigned", "report_lost"} # {}
        /\ c \in candidates => \/ "candidate" \in reported[c]
                               \/ window[c] \cap ForgetfulWindows # {}

RunInv(c) ==
  PreparingInv(c) /\ SourcesInv(c) /\ ClaimInv(c) /\ AnnounceInv(c) /\ OwnershipInv(c)

CollectInv == PubInv /\ \A c \in Collectors : RunInv(c)

-----------------------------------------------------------------------------
(* Refinement. *)

ClaimOf(s) == CASE s = "0"             -> "delivered"
                [] s \in {"1", "130"}  -> "not delivered"
                [] OTHER               -> "none"

Delivery == INSTANCE BundleDelivery WITH
              slot <- final,
              claim <- [c \in Collectors |-> ClaimOf(status[c])],
              disturbed <- {c \in Collectors : final = c /\ Late(c)}

\* An invocation implements the promise: it fills the slot at most once and
\* never lies about it, but when disturbed after delivery: by a keystroke, or by
\* a stderr that does not take its report.
DeliverySpec == Delivery!Spec

=============================================================================
