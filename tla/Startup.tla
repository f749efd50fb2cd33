------------------------------- MODULE Startup -------------------------------
(***************************************************************************)
(* From a hosts file to the sources' parameters: generate-inventory drafts *)
(* a file (generate_inventory.py), perhaps twice at once and perhaps with  *)
(* --force; the operator edits, replaces or removes it; and collect        *)
(* validates it together with the Evidence Window (_validate_startup of    *)
(* collect/__init__.py) and hands the window to its sources.               *)
(***************************************************************************)
EXTENDS Inventory

CONSTANTS
  Generators,  \* invocations of generate-inventory with one --output
  Forced,      \* those with --force
  HostsTexts,  \* what the hosts file may say
  OwnTexts,    \* Inventories the operator may put in place
  Units,       \* units an operator may write after --since
  KubectlUnits,\* units kubectl's own --since knows
  Absent, Operator,
  MaxEdits     \* bound: the operator's changes

ASSUME GeneratorsShape == Forced \subseteq Generators /\ Operator \notin Generators
ASSUME TextsAreLines   == HostsTexts \subseteq Seq(Lines)

VARIABLES
  gpc,      \* where each generator is
  draft,    \* generated, and its problems
  status,   \* its exit status
  handle,   \* it holds the file that is at the output path open
  file,     \* what is at the output path
  author,   \* history: who alone wrote it
  edits,    \* the operator's changes so far
  started,  \* the Inventory collect started with
  source,   \* history: whose it was
  handed    \* the window as each source receives it

generator == <<gpc, draft, status, handle>>
output    == <<file, author>>
collector == <<started, source, handed>>
vars      == <<generator, output, edits, collector>>

NoText == [Broken EXCEPT !.broken = FALSE]

Goto(g, from, to) == gpc[g] = from /\ gpc' = [gpc EXCEPT ![g] = to]

Exit(g, from, code) ==
  /\ Goto(g, from, "exited")
  /\ status' = [status EXCEPT ![g] = code]

\* The file at the output path becomes what g made of it.
Put(g, text) == file' = text /\ author' = g

-----------------------------------------------------------------------------
(* generate-inventory *)

\* The path cannot be resolved or looked at, or something is there.
Refuse(g) ==
  /\ Exit(g, "check", 1)
  /\ UNCHANGED <<draft, handle, output, edits, collector>>

CheckOutput(g) ==
  /\ g \in Forced \/ file = Absent
  /\ Goto(g, "check", "draft")
  /\ UNCHANGED <<draft, status, handle, output, edits, collector>>

CannotReadHosts(g) ==
  /\ Exit(g, "draft", 1)
  /\ UNCHANGED <<draft, handle, output, edits, collector>>

DraftInventory(g) ==
  /\ Goto(g, "draft", "open")
  /\ \E lines \in HostsTexts : draft' = [draft EXCEPT ![g] = Draft(lines)]
  /\ UNCHANGED <<status, handle, output, edits, collector>>

\* Mutant: the check made before is trusted.
OpenAnyway(g) ==
  /\ Goto(g, "open", "write")
  /\ handle' = [handle EXCEPT ![g] = TRUE]
  /\ Put(g, Broken)
  /\ UNCHANGED <<draft, status, edits, collector>>

\* Mode "xb" creates; mode "wb" truncates what is there.
Open(g) ==
  /\ g \in Forced \/ file = Absent
  /\ Goto(g, "open", "write")
  /\ handle' = [handle EXCEPT ![g] = TRUE]
  /\ Put(g, Broken)
  /\ UNCHANGED <<draft, status, edits, collector>>

CannotOpen(g) ==
  /\ Exit(g, "open", 1)
  /\ UNCHANGED <<draft, handle, output, edits, collector>>

\* Leaving the with statement.
Close(g) == handle' = [handle EXCEPT ![g] = FALSE]

\* A removed file is written to all the same.  Another generator's longer text in
\* the same file keeps its tail, which makes an Inventory of neither.
Write(g) ==
  /\ Goto(g, "write", "report") /\ Close(g)
  /\ \/ handle[g] /\ Put(g, draft[g])
     \/ handle[g] /\ author # g /\ Put(Operator, Broken)
     \/ ~handle[g] /\ UNCHANGED output
  /\ UNCHANGED <<draft, status, edits, collector>>

CannotWrite(g) ==
  /\ Exit(g, "write", 1) /\ Close(g)
  /\ \/ handle[g] /\ \E part \in Parts(draft[g]) : Put(g, part)
     \/ ~handle[g] /\ UNCHANGED output
  /\ UNCHANGED <<draft, edits, collector>>

Report(g) ==
  /\ Exit(g, "report", IF Collides(draft[g].nodes) THEN 1 ELSE 0)
  /\ UNCHANGED <<draft, handle, output, edits, collector>>

\* A kill, a power loss or a Ctrl-C; the write that goes on may be cut anywhere.
Kill(g) ==
  /\ gpc[g] # "exited"
  /\ gpc' = [gpc EXCEPT ![g] = "exited"] /\ Close(g)
  /\ \/ UNCHANGED output
     \/ gpc[g] = "write" /\ handle[g] /\ \E part \in Parts(draft[g]) : Put(g, part)
  /\ UNCHANGED <<draft, status, edits, collector>>

-----------------------------------------------------------------------------
(* The operator, and the start of collect. *)

\* Removes the file, or moves another one to its place.
Edit ==
  /\ edits < MaxEdits /\ edits' = edits + 1
  /\ file' \in OwnTexts \cup {Absent} /\ author' = Operator
  /\ handle' = [g \in Generators |-> FALSE]
  /\ UNCHANGED <<gpc, draft, status, collector>>

\* Without one problem: the Inventory loads and the window is a positive integer
\* plus m, h, d or w.  Nodes and Prometheus get it in seconds, kubectl as it is.
StartCollect ==
  /\ started = Absent /\ file # Absent /\ Loads(file)
  /\ \E unit \in Units :
       /\ unit \in {"m", "h", "d", "w"}
       /\ handed' = [nodes |-> "seconds", prometheus |-> "seconds", kubernetes |-> unit]
  /\ started' = file /\ source' = author
  /\ UNCHANGED <<generator, output, edits>>

Init ==
  /\ gpc = [g \in Generators |-> "check"] /\ draft = [g \in Generators |-> NoText]
  /\ status = [g \in Generators |-> 2] /\ handle = [g \in Generators |-> FALSE]
  /\ file \in OwnTexts \cup {Absent} /\ author = Operator /\ edits = 0
  /\ started = Absent /\ source = Operator
  /\ handed = [nodes |-> "none", prometheus |-> "none", kubernetes |-> "none"]

Next ==
  \/ \E g \in Generators :
       \/ Refuse(g) \/ CheckOutput(g) \/ CannotReadHosts(g) \/ DraftInventory(g)
       \/ Open(g) \/ CannotOpen(g) \/ Write(g) \/ CannotWrite(g) \/ Report(g) \/ Kill(g)
  \/ Edit \/ StartCollect

Spec == Init /\ [][Next]_vars

-----------------------------------------------------------------------------
\* Whatever comes to the output path between the check and the open, a generator
\* without --force only ever writes to the file it made itself.
NothingReplacedWithoutForce ==
  [][\A g \in Generators \ Forced :
        gpc'[g] # gpc[g] /\ file # Absent /\ ~handle[g] => file' = file]_vars

\* After exit status 0, as long as nobody else has changed the file, it holds the
\* whole draft, and a collect that started from it had the whole of it.
DraftKept ==
  \A g \in Generators :
     status[g] = 0 =>
        /\ author = g => file = draft[g]
        /\ source = g => started = draft[g]

\* What exit status 0 promises: the draft is kept, and loads if it has a node at all.
ExitZeroIsUsable ==
  /\ DraftKept
  /\ \A g \in Generators :
        status[g] = 0 /\ author = g /\ file.nodes # <<>> => Loads(file)

\* "It affects ... Kubernetes container logs" (docs/user-guide.md): a window that
\* startup accepts is one that kubectl understands.
WindowReachesPods == started # Absent => handed.kubernetes \in KubectlUnits

=============================================================================
