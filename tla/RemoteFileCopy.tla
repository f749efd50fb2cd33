--------------------------- MODULE RemoteFileCopy ---------------------------
(***************************************************************************)
(* What the CopyFiles step of RemoteCollector does inside: the selected    *)
(* files of a Target Node are copied while the node goes on living.  A     *)
(* selection is one fixed file, the listed files of one directory, or a    *)
(* whole tree; directories are opened one component at a time, never       *)
(* through a link, and read through their descriptors; a file is looked at *)
(* by name, opened by its whole path, and looked at again.  Between any    *)
(* two system calls an entry of a directory may become something else, and *)
(* any system call may fail.                                               *)
(***************************************************************************)
EXTENDS Naturals, Sequences, SequencesExt, FiniteSetsExt

CONSTANTS
  Inodes, Absent,
  Kind,        \* of an inode: "dir", "file", "link", "other"; of Absent, "absent"
  Depth,       \* of a directory: how far from the root it lives
  Recent,      \* the inodes modified since the cutoff
  Root,        \* the node's root directory
  Names,       \* names of directory entries, numbered in sorted() order
  InitialTree, \* [dir or link, name] -> inode; below a link, what following it finds
  Jobs,        \* the selections in order: [kind, path, includes, windowed]
  MaxChanges,  \* bound: changes of the file system
  MaxFaults    \* bound: system calls that fail

Kinds    == {"dir", "file", "link", "other"}
Entries  == {i \in Inodes : Kind[i] \in {"dir", "link"}} \X Names

ASSUME FileSystem ==
         /\ Absent \notin Inodes /\ Root \in Inodes /\ Names \subseteq Nat
         /\ \A i \in Inodes : Kind[i] \in Kinds
         /\ Kind[Root] = "dir" /\ Kind[Absent] = "absent"
         /\ InitialTree \in [Entries -> Inodes \cup {Absent}]
ASSUME JobsShape ==
         Jobs \in Seq([kind : {"file", "listed", "tree"}, path : Seq(Names) \ {<<>>},
                       includes : SUBSET Names, windowed : BOOLEAN])
\* No selection is inside another: no destination is written twice.
ASSUME SelectionsApart ==
         \A j, k \in DOMAIN Jobs : j # k => ~IsPrefix(Jobs[j].path, Jobs[k].path)

VARIABLES
  tree, changes,       \* the file system, and how often it has changed
  job,                 \* the selection at work
  pc,                  \* the system call that is next
  frames,              \* the directories being read: descriptor, path, names left
  goal,                \* the file being copied, or <<>>
  at, todo,            \* _open_directory_without_links: descriptor and components left
  opened,              \* the inode behind the source's descriptor
  stored,              \* the destination files
  said,                \* the paths stderr names; the result is that there are none
  faults,              \* system calls that have failed
  touched, been, hurt, \* history: entries changed, entries seen, paths of failed calls
  chosen               \* history: the paths selected by a listing or a walk

position    == <<frames, goal, at, todo, opened>>
fileSystem  == <<tree, changes, touched, been>>
failures    == <<faults, hurt>>
vars == <<fileSystem, job, pc, position, stored, said, failures, chosen>>

Ended    == pc = "walk" /\ frames = <<>> /\ job = Len(Jobs)
Top      == frames[Len(frames)]
Selected == Jobs[job].kind # "file"          \* was_selected
Accepts(i) == Kind[i] = "file" /\ (Jobs[job].windowed => i \in Recent)
Present(dir) == {n \in Names : tree[<<dir, n>>] # Absent}
Found    == tree[<<at, IF todo # <<>> THEN Head(todo) ELSE Last(goal)>>]
\* Entries come in sorted order.  The entry at hand, its path, and the path of the
\* directory about to be read.
EntryName == Min(Top.left)
EntryPath == Append(Top.path, EntryName)
ScanPath  == IF frames = <<>> THEN Jobs[job].path ELSE EntryPath
Subject   == IF goal # <<>> THEN goal ELSE ScanPath

-----------------------------------------------------------------------------
(* Helpers: where a function returns to, and what it has said by then.     *)

\* Done with the entry at hand.
Advance(fs) == IF fs = <<>> THEN fs ELSE [fs EXCEPT ![Len(fs)].left = @ \ {Min(@)}]

\* Mutant: the first failure is the last thing tried, as "succeeded and copy()" does.
FailAndStop(p) ==
  /\ said' = said \cup {p}
  /\ pc' = "walk" /\ goal' = <<>> /\ at' = Root /\ todo' = <<>> /\ opened' = Absent
  /\ frames' = <<>>

Resume ==
  /\ pc' = "walk" /\ goal' = <<>> /\ at' = Root /\ todo' = <<>> /\ opened' = Absent
  /\ frames' = Advance(frames)

\* An omission: nothing is said.
Omit == Resume /\ UNCHANGED said

\* Evidence that was attempted and failed; the next entry is tried all the same.
Fail(p) == Resume /\ said' = said \cup {p}

\* Mutant: a selected file that has disappeared is an ordinary omission.
LoseQuietly == Omit

\* A file or a directory on its path is not there: an omission, unless a
\* listing or a walk has just seen the file.
Lose == IF goal # <<>> /\ Selected THEN Fail(goal) ELSE Omit

\* A call fails for a reason of its own; p is the path it was about.
Fault(p) ==
  /\ faults < MaxFaults
  /\ faults' = faults + 1
  /\ hurt' = hurt \cup {p}

NoFault == UNCHANGED failures

Step(from) ==
  /\ pc = from
  /\ UNCHANGED <<fileSystem, job>>

-----------------------------------------------------------------------------
(* The selections, and directories opened without following a link.        *)

\* Mutant: O_NOFOLLOW is forgotten.
IsDirectoryOrLink(i) == Kind[i] \in {"dir", "link"}

\* What os.open with O_DIRECTORY | O_NOFOLLOW accepts.
IsDirectory(i) == Kind[i] = "dir"

OpenPath(path) == pc' = "open" /\ at' = Root /\ todo' = path /\ opened' = Absent

CopySelected(p) == OpenPath(Front(p)) /\ goal' = p

NextJob ==
  /\ pc = "walk" /\ frames = <<>> /\ job < Len(Jobs)
  /\ job' = job + 1
  /\ IF Jobs[job'].kind = "file"
       THEN CopySelected(Jobs[job'].path)
       ELSE OpenPath(Jobs[job'].path) /\ UNCHANGED goal
  /\ UNCHANGED <<fileSystem, frames, stored, said, failures, chosen>>

OpenComponent ==
  /\ Step("open") /\ todo # <<>>
  /\ IF IsDirectory(Found)
       THEN /\ at' = Found /\ todo' = Tail(todo)
            /\ UNCHANGED <<pc, frames, goal, opened, said>>
       ELSE Lose
  /\ NoFault /\ UNCHANGED <<stored, chosen>>

OpenComponentFails ==
  /\ Step("open") /\ todo # <<>>
  /\ Fault(Subject)
  /\ pc' = "relook"
  /\ UNCHANGED <<position, stored, said, chosen>>

\* The second look decides whether the failed open was about a directory.
Relook ==
  /\ Step("relook")
  /\ \/ Kind[Found] \in {"dir", "absent"} /\ Fail(Subject) /\ NoFault
     \/ Kind[Found] \notin {"dir", "absent"} /\ Lose /\ NoFault
     \/ Fault(Subject) /\ Fail(Subject)
  /\ UNCHANGED <<stored, chosen>>

-----------------------------------------------------------------------------
(* Reading a directory: _copy_configuration_files, _copy_regular_file_directory. *)

Listing == Present(at) \cap (IF Jobs[job].kind = "listed" THEN Jobs[job].includes ELSE Names)

Scan ==
  /\ Step("open") /\ todo = <<>> /\ goal = <<>>
  /\ frames' = Append(Advance(frames), [dir |-> at, path |-> ScanPath, left |-> Listing])
  /\ pc' = "walk" /\ at' = Root
  /\ NoFault /\ UNCHANGED <<goal, todo, opened, stored, said, chosen>>

ScanFails ==
  /\ Step("open") /\ todo = <<>> /\ goal = <<>>
  /\ Fault(ScanPath) /\ Fail(ScanPath)
  /\ UNCHANGED <<stored, chosen>>

LeaveDirectory ==
  /\ Step("walk") /\ frames # <<>> /\ Top.left = {}
  /\ frames' = Front(frames)
  /\ NoFault /\ UNCHANGED <<pc, goal, at, todo, opened, stored, said, chosen>>

\* A listed file is copied as it is named; an entry of a tree is looked at first.
Entry ==
  /\ Step("walk") /\ frames # <<>> /\ Top.left # {}
  /\ LET found  == tree[<<Top.dir, EntryName>>]
         listed == Jobs[job].kind = "listed"
         take   == listed \/ (Accepts(found) /\ EntryName \in Jobs[job].includes)
     IN  \/ /\ take
            /\ CopySelected(EntryPath)
            /\ chosen' = chosen \cup {EntryPath}
            /\ UNCHANGED <<frames, said>>
         \/ /\ ~listed /\ Kind[found] = "dir"
            /\ pc' = "child"
            /\ UNCHANGED <<position, said, chosen>>
         \/ /\ ~take /\ Kind[found] # "dir"
            /\ Omit /\ UNCHANGED chosen
  /\ NoFault /\ UNCHANGED stored

EntryFails ==
  /\ Step("walk") /\ frames # <<>> /\ Top.left # {} /\ Jobs[job].kind = "tree"
  /\ Fault(EntryPath) /\ Fail(EntryPath)
  /\ UNCHANGED <<stored, chosen>>

Child == tree[<<Top.dir, EntryName>>]

OpenChild ==
  /\ Step("child")
  /\ IF IsDirectory(Child) THEN pc' = "open" /\ at' = Child
                           ELSE pc' = "childlook" /\ UNCHANGED at
  /\ NoFault /\ UNCHANGED <<frames, goal, todo, opened, stored, said, chosen>>

OpenChildFails ==
  /\ Step("child")
  /\ Fault(EntryPath)
  /\ \/ Fail(EntryPath)
     \/ pc' = "childlook" /\ UNCHANGED <<position, said>>
  /\ UNCHANGED <<stored, chosen>>

BecameOmitted == Kind[Child] \notin {"dir", "absent"}

\* _directory_became_an_omitted_object
ChildLook ==
  /\ Step("childlook")
  /\ \/ (IF BecameOmitted THEN Omit ELSE Fail(EntryPath)) /\ NoFault
     \/ Fault(EntryPath) /\ (Fail(EntryPath) \/ (Kind[Child] = "link" /\ Omit))
  /\ UNCHANGED <<stored, chosen>>

-----------------------------------------------------------------------------
(* _copy_selected_file, once the parent directory is open.                 *)

StatSource ==
  /\ Step("open") /\ todo = <<>> /\ goal # <<>>
  /\ IF Found = Absent THEN Lose
     ELSE IF Kind[Found] # "file" THEN Omit
     ELSE pc' = "source" /\ UNCHANGED <<position, said>>
  /\ NoFault /\ UNCHANGED <<stored, chosen>>

OpenSource ==
  /\ Step("source")
  /\ \/ Found = Absent /\ Fail(goal)
     \/ Kind[Found] = "link" /\ Omit
     \/ /\ Kind[Found] \notin {"absent", "link"}
        /\ pc' = "opened" /\ opened' = Found
        /\ UNCHANGED <<frames, goal, at, todo, said>>
  /\ NoFault /\ UNCHANGED <<stored, chosen>>

OpenSourceFails ==
  /\ Step("source")
  /\ Fault(goal)
  /\ pc' = "sourcelook"
  /\ UNCHANGED <<position, stored, said, chosen>>

SourceLook ==
  /\ Step("sourcelook")
  /\ IF Kind[Found] \in {"file", "absent"} THEN Fail(goal) ELSE Omit
  /\ NoFault /\ UNCHANGED <<stored, chosen>>

\* The calls of the copy that may fail before there is a destination file.
SourceCallFails ==
  /\ \/ Step("open") /\ todo = <<>> /\ goal # <<>>
     \/ Step("sourcelook") \/ Step("opened") \/ Step("copy")
  /\ Fault(goal) /\ Fail(goal)
  /\ UNCHANGED <<stored, chosen>>

InspectOpened ==
  /\ Step("opened")
  /\ IF Accepts(opened) THEN pc' = "copy" /\ UNCHANGED <<position, said>> ELSE Omit
  /\ NoFault /\ UNCHANGED <<stored, chosen>>

Copy ==
  /\ Step("copy")
  /\ stored' = stored \cup {[path |-> goal, inode |-> opened, whole |-> TRUE]}
  /\ Omit
  /\ NoFault /\ UNCHANGED chosen

\* The copy breaks off and the destination cannot be unlinked either.
CopyLeavesPart ==
  /\ Step("copy")
  /\ Fault(goal) /\ Fail(goal)
  /\ stored' = stored \cup {[path |-> goal, inode |-> opened, whole |-> FALSE]}
  /\ UNCHANGED chosen

\* However the copy went, the parent's descriptor is closed in the end.  When that
\* fails, nobody handles it: the collector ends.
ParentCloseFails ==
  /\ \/ Step("open") /\ todo = <<>> /\ goal # <<>>
     \/ Step("source") \/ Step("sourcelook") \/ Step("opened") \/ Step("copy")
  /\ Fault(goal)
  /\ pc' = "raised"
  /\ said' \in {said, said \cup {goal}}
  /\ \/ UNCHANGED stored
     \/ \E whole \in BOOLEAN :
           /\ pc = "copy" /\ (whole \/ goal \in said')
           /\ stored' = stored \cup {[path |-> goal, inode |-> opened, whole |-> whole]}
  /\ UNCHANGED <<position, chosen>>

-----------------------------------------------------------------------------
(* The node goes on living.                                                *)

\* An entry is removed, made, or replaced; a directory stays at its depth.
Change ==
  /\ ~Ended /\ pc # "raised" /\ changes < MaxChanges /\ changes' = changes + 1
  /\ \E d \in Inodes, n \in Names, i \in Inodes \cup {Absent} :
       /\ Kind[d] = "dir" /\ i # tree[<<d, n>>]
       /\ Kind[i] = "dir" => /\ Depth[i] = Depth[d] + 1
                             /\ \A e \in DOMAIN tree : tree[e] # i
       /\ tree' = [tree EXCEPT ![<<d, n>>] = i]
       /\ touched' = touched \cup {<<d, n>>}
       /\ been' = been \cup (IF i = Absent THEN {} ELSE {<<d, n, i>>})
  /\ UNCHANGED <<job, pc, position, stored, said, failures, chosen>>

Init ==
  /\ tree = InitialTree /\ changes = 0 /\ touched = {}
  /\ been = {<<e[1], e[2], InitialTree[e]>> : e \in {x \in Entries : InitialTree[x] # Absent}}
  /\ job = 0 /\ pc = "walk"
  /\ frames = <<>> /\ goal = <<>> /\ at = Root /\ todo = <<>> /\ opened = Absent
  /\ stored = {} /\ said = {} /\ faults = 0 /\ hurt = {} /\ chosen = {}

CopyStep ==
  \/ NextJob \/ OpenComponent \/ OpenComponentFails \/ Relook
  \/ Scan \/ ScanFails \/ LeaveDirectory \/ Entry \/ EntryFails
  \/ OpenChild \/ OpenChildFails \/ ChildLook
  \/ StatSource \/ OpenSource \/ OpenSourceFails \/ SourceLook \/ SourceCallFails
  \/ InspectOpened \/ Copy \/ CopyLeavesPart \/ ParentCloseFails

Next == CopyStep \/ Change

Spec == Init /\ [][Next]_vars

=============================================================================
