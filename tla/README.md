# Verification of ceph-incident-bundle

TLA+ models of `ceph-incident-bundle` (the Python package under
`src/src/ceph_incident_bundle/`), the TLC configurations that check them on small
instances, and theorems about them that TLAPS proves for every instance. Paths
below are relative to `src/src/ceph_incident_bundle/` unless they start with `docs/`.

## The system

`ceph-incident-bundle collect` gathers evidence of an incident from several
sources and delivers it as one archive, the Incident Bundle. The workstation runs
the sources one after the other, in one thread: each Target Node over one SSH
process, then Kubernetes with local `kubectl` processes, then Prometheus over
HTTP. Each source either has its whole contribution *admitted* into the
invocation's private workspace or contributes nothing and leaves problems.
Then the admitted tree is packed, the workspace is removed and the bundle is
published under a final path that names the second the invocation began.

What the operator learns is an exit status, one line on stdout (the path and
`complete` or `partial`) and problems on stderr. The hard part is that this stays
*true* when a source fails half-way, when a Target Node sends something malformed,
when another invocation takes the same final path, and when Ctrl-C strikes between
any two instructions.

### Components

| component | state | operations | interacts with |
|---|---|---|---|
| Collection invocation, `collect/__init__.py` | workspace name, problems, exit status | `run()`: start up, make the workspace, attempt every source, publish, report; two handlers | calls every source and `publish_bundle`; stdout, stderr |
| Bundle publication, `collect/bundle.py` | candidate, `workspace_cleanup_attempted`, `cleanup_problem`, `published`, residue | `publish_bundle()`: validate, create the candidate, archive, remove the workspace, seal, link, unlink; two handlers | the file system, which other invocations share |
| Node archive admission, `collect/node_archive.py` | the reader's position, `by_path`, the extraction directory | `admit_archive()`: inflate one gzip member, check every member, check the structure and the tar end, extract, rename | the untrusted file SSH left; later `publish_bundle`'s own validation |
| Node session, `collect/node.py` | SSH process, its stream files | `collect_node()`: start SSH, wait, forward Ctrl-C, admit | SSH, Remote Node Collector, admission |
| Remote Node Collector, `remote_collector.py` | remote workspace, `succeeded` | `main()`: probes with timeouts, file copies, archive streaming, cleanup | probe processes, the node's files, SSH's streams |
| Kubernetes collection, `collect/kubernetes.py` | the growing probe list, staging | `collect_kubernetes()`: probes, Pod log fan-out, process-group escalation, promotion | `kubectl` process groups |
| Prometheus collection, `collect/prometheus.py` | the fixed window, control responses | `collect_prometheus()`: controls, discovery, ranges, promotion | an HTTP server |
| Inventory, `inventory.py` | none | draft an Inventory from hosts text; load and validate one | `collect` and `generate-inventory` |
| Inventory generation, `generate_inventory.py` | the output file | existence check, exclusive or truncating open | the file system |
| Command line, `cli.py` | none | argument parsing and dispatch | the two commands |

### What is hard here, and what correctness means

`PROJECT.json` lists each hazard at its line. The groups are:

* **Shared final path.** Two invocations of one second, or anything else, may take
  it between the existence checks and `os.link`. Correct: the path is created at
  most once and never replaced, and each invocation knows whether it was the one.
* **Keystrokes.** Python raises `KeyboardInterrupt` between any two bytecodes,
  inside handlers too. Correct: status, announcement and residue report stay true,
  except at windows that are few, known and named.
* **Partial failure.** Any I/O step may fail. Correct: no source stops another, no
  half contribution is admitted, no half archive is linked, `complete` is said only
  of a run without a problem.
* **Irreversible order.** The workspace is removed *before* publication, and the
  outcome is written into the archive *before* the last cleanup. Correct: nothing
  of the evidence is lost by it, and what stdout says agrees with the bundle.
* **Untrusted archives.** Correct: admission decides exactly well-formedness,
  whatever the chunking and the order of members, and what it lets in is never
  refused by publication.
* **Processes.** Timeouts, signals and process groups of SSH, probes and `kubectl`.
* **Files that change under the copy.** A Target Node goes on living: between a look at a
  file, its open and its read it may be replaced, removed or become a link. Correct: what is
  stored was really there, reached through directories only, and silence accounts for every
  selected file.
* **Requests that decide requests.** An answer of Prometheus schedules the next loop.
  Correct: exactly what the answers call for is requested, under names of its own.
* **Before it all.** An Inventory is drafted, edited and loaded. Correct: no generator
  replaces a file without `--force`, and exit status 0 means a usable draft.

## Modules

| module | models |
|---|---|
| `BundlePublication` | `publish_bundle()` of `collect/bundle.py` |
| `Collect` | `run()` of `collect/__init__.py`, around `BundlePublication` |
| `CollectProperties` | what is claimed of `Collect`, its inductive invariant, the refinement mapping |
| `BundleDelivery` | abstract: a slot written once, and claims that are true of it |
| `ArchiveAdmission` | `admit_archive()` of `collect/node_archive.py`, and `_validated_entries` of `collect/bundle.py` on the trees it admits |
| `EvidenceSource` | abstract: what `run()` relies on when it calls a source |
| `RemoteCollector` | `main()` of `remote_collector.py` and the probes it runs |
| `NodeSession` | `collect_node()` of `collect/node.py`, SSH, and `RemoteCollector` at its other end |
| `KubernetesCollection` | `collect_kubernetes()` of `collect/kubernetes.py` |
| `KubernetesProperties` | what is claimed of it, and its inductive invariant |
| `RemoteFileCopy` | the copy of configuration files and logs in `remote_collector.py`, system call by system call |
| `FileCopyProperties` | what is claimed of it |
| `PrometheusCollection` | `collect_prometheus()` of `collect/prometheus.py` |
| `PrometheusProperties` | what is claimed of it |
| `Inventory` | `draft_inventory()` and `load_inventory()` of `inventory.py`, as operators |
| `Startup` | `run()` of `generate_inventory.py`, the operator's edits, and `_validate_startup` of `collect/__init__.py` |
| `MCCollect`, `MCAdmission`, `MCNode`, `MCKubernetes`, `MCFileCopy`, `MCPrometheus`, `MCStartup` | instances for TLC |
| `CollectProofs`, `ArchiveAdmissionProofs`, `NodeSessionProofs`, `FileCopyProofs`, `KubernetesProofs`, `PrometheusProofs`, `StartupProofs` | theorems |
| `PrefixRecursion` | lemmas: induction over positions, and what a function computes that is defined by recursion over them |

How they compose: `Collect` extends `BundlePublication`; `NodeSession` extends
`RemoteCollector`; `Startup` extends `Inventory`. `NodeSession`, `KubernetesCollection` and
`PrometheusCollection` each implement `EvidenceSource`, which is what `Collect` takes a
source to be. `RemoteFileCopy` is the inside of `RemoteCollector`'s step `CopyFiles`, and
`ArchiveAdmission` of `NodeSession`'s step `AdmitArchive`. `MCStartup` evaluates that what
`load_inventory` accepts is what `ArchiveAdmission` assumes of names (`NodesPortable`).

### BundlePublication

One `pc` per collector. A label is a place where something else can happen: the
code between two labels has one visible effect. So `os.open(O_EXCL)` making the
candidate (`CreateCandidate`) and the assignment of its name (`AssignCandidate`)
are two steps, as are `os.link` (`Link`) and `published = True`
(`RecordPublication`): a keystroke fits between them. `Raise` is any `OSError`
or `BundlePublicationError` of a step in `Fallible`. The handlers' labels
`ki_*` and `ex_*` are the `except KeyboardInterrupt` and `except BaseException`
blocks; a keystroke inside one leaves `publish_bundle` altogether.

The file system is `final` (who created the final path, which is enough because
`os.link` shares the inode), `workspaces` and `candidates` (whose entries exist).
The inode's content is `packed`, `outcome` and `sealed`. A Boolean local of each
collector is the set of the collectors for which it is true. `window` is history:
which delicate place a keystroke struck, and whether stderr refused a line. Properties
that Ctrl-C or a lost line can break name their windows with it, so they still say
exactly when the claim holds.

`Seal` is `flush`, `fsync` and `close`. A kill loses nothing that was written, so the kills
of the model say nothing of a power loss: there is no state between written and durable,
and a bundle that is whole after one rests on the `fsync` (`bundle.py:148`), unchecked.

Abstracted: payload bytes and archive metadata other than the outcome; the retry
of a candidate name that is taken; `shutil.rmtree`, one step that removes the workspace or
fails. (That takes the private workspace to be nobody else's: `rmtree` may report an entry
that vanished below it as `FileNotFoundError`, which `cleanup_owned_workspace` reads as a
workspace that is gone.) A close problem that comes after the workspace's
removal is the pc label `removed_badly`.

### Collect

`RunStep` has one action per stage of `run()`; inside `publish_bundle` the same
`pc` continues with `PubStep`. A source is one step (`CollectSource`) with the
outcomes its contract allows: admitted, admitted with problems, problems only.
`Inventory` order is the constant `Order`. Keystrokes before the `try` escape
uncaught; inside it they reach `on_interrupt`; inside a handler they escape. Each handler
of `run()` is one step: it makes one observable change and a keystroke inside it
ends as `uncaught` either way.

`StderrFails` is a stderr that does not take a line, at any time. The problems of the
sources and the lines of a delivered bundle's residue are printed under an `except` that goes
on (`Diagnose`, `LoseResidueLine`). The other lines in the `try` block, those of a nondelivery,
of a late keystroke and of a lost stdout, reach `except Exception` (`LoseReport`), and what
fails in a handler or in startup leaves `run()` (`LoseAnswer`, status `uncaught`). The window
`report_lost` names all three. `docs/adr/0015` puts such a stream outside what the program
promises; the model shows what then happens to the promises it does make.

### ArchiveAdmission

`Spool` chooses any file SSH may leave. `InflateChunk`, `RejectTrailing`,
`OpenTar` and `RejectStream` are the loop of `_one_gzip_member_chunks` on positions:
`size` is the file's length and `gzip` where its first gzip member ends.
`CheckMember`/`RejectMember` are the body of `_validate_members`'s loop,
`CheckStructure`/`RejectStructure` what follows it, `ExtractMember` one `mkdir` or
exclusive open in the order `_extract_members` uses, `Promote` the rename,
`LocalFailure` an `OSError` anywhere. When all nodes are done, `ValidateTree` is
`publish_bundle`'s validation, translated from `bundle.py` and sharing no helper
with admission but the path comparison.

Names are compared exactly (`=`), portably (`Fold`) and as the workstation's file
system does (`FsFold`). Left out: payload bytes, the modes, and the Kubernetes and
Prometheus subtrees, whose names the workstation chooses.

### RemoteCollector and NodeSession

`RemoteCollector` is the program at the far end. `rpc` is where `main()` is; `plan` is
what is left of its fixed order, into which `ReadCrashList` puts the crash-info probes;
`succeeded` is the local variable of that name and `raised` an exception on its way
out. `probe`, `signalled` and `exit` are the current probe's process group. `Diagnose` is
a `print` to stderr: it raises once `link`, the SSH connection, is down. That is how a
broken connection ends a remote collector, and the model keeps it because
a print in an error path is then what decides whether the rest is attempted.

`NodeSession` adds `collect_node` (`wpc`), the SSH process and its local output file
(`arrived`: how it ends). SSH is external: it may fail at any moment, report a status
although the file is short, die of the SIGINT or pass it on. (A client without a terminal
dies of it; that it passes the signal on is what `node.py:75-78` hopes for. The model allows
both, and no claim about the program rests on the second.) An archive is admitted when
it ends with the end of the archive (`WholeArchive`): of everything a Remote Node
Collector can leave, cut anywhere, that is what `ArchiveAdmission` lets in. A gzip
member that is complete but has no end-of-archive blocks (`short`) is what `tarfile`
writes when its `with` block is left by an exception. In the interrupt handler `killpg`, the
second wait and the closing of the files may fail; `chained` says that the interrupt then
carries a cause. An `OSError` of the first wait (`CannotWaitAtAll`) is an ordinary problem, and
SSH runs on. So is one of closing the files while a keystroke is on its way out before the
handler has begun: it takes the keystroke's place (`Keystroke`, second disjunct). At the far end
an `OSError` of `killpg` or of a wait is taken for a failure of the capture (`ProbeLost`): the
probe is nobody's from then on (`abandoned`), and `NoOrphan` says that the collector then does
not end with success. `CopyRaises` is a descriptor that does not close inside a copy, which
nobody handles. `CutoffOverflows` is a window that `_validate_startup` accepted and that
reaches back before year 1: the exception comes only on the Target Node, after its probes.

### KubernetesCollection

`pending` is `pending_probes` from `probe_index` on, so `Head(pending)` is the current
probe; `ScheduleLogs` splices a control's log probes in front of the rest.
`leader` and `others` are the probe's process group, which outlives its leader;
`term`, `grace`, `kill` and `last_grace` are `_terminate_process_group`. `cause` says
why it runs: a timeout or an interrupt. `CaptureBreaks` is any `OSError` of a signal, a
close or `result.json`: with an interrupt in its context it goes on as that
interrupt, else it ends the collection with a problem. `told` says whether the caller
learns of a group that survived or may have; `window` is history, as above. What a Pod
list says is only how many logs it names, or that it cannot be used.

### RemoteFileCopy

The file system is `tree`, a function from a directory's inode and a name to an inode; an
inode's kind never changes, what a name leads to does (`Change`, external, at any moment).
`pc` is the system call that comes next, so every gap between two of them is a state:
`open` walks a path component by component (`_open_directory_without_links`), `walk` takes the
next entry of the innermost directory being read (`frames`, one per open descriptor; what is
left of a listing is a set, from which `EntryName` takes the least name as the code's sorting
does), and a selected file goes through a look by name, an open by its whole path, a look through the
descriptor, and the copy. A failed open is followed by the code's second look, which
decides between an omission and a failure. `said` is what stderr names; the result of the
copy is that there is nothing in it. Any call may fail for a reason of its own (`hurt`);
where the code asks again after a failure, `ChildLook` has every answer: gone, a failed look
with a link that can be read, a failed look without. The close of the parent directory's
descriptor is the one call no handler covers (`ParentCloseFails`, `raised`). No selection lies
below another (`SelectionsApart`, true of `remote_collector.py`'s own lists), so that the
exclusive creation of a destination finds nothing there.
Abstracted: contents, times other than before or after the cutoff, and permissions, which
are calls that fail. An open by path follows a link only in a component above the file.

### PrometheusCollection

One step per request's stage: `OpenCapture`, `Respond` or `ServerFails` or `TimesOut`, then
`Chunk` for every read, then `ResponseEnds`, which is where Content-Length, the status and
the document are judged. `left` is what the current loop has still to request; `RecordJobs`
and `RecordMetrics` fill `jobs`, from which `Discoveries` and `Ranges` compute the next
loop's requests: `Matches` keeps what a pattern finds, `Distinct` is `dict.fromkeys`, `PairsAfter`
the nested loops over jobs and metrics, all recursive functions over positions. `Escape` is an exception that no handler
in the module lists. `beat` flips with every chunk, so that a server that never stops sending
is a behaviour and not stuttering. URLs, quoting and the numbers of the window are left out.

### Inventory and Startup

A hosts line is what its first field is and its second field; what the code finds out about
a spelling (a hostname, a local name, its label, its portable form) is a constant. A text is
its nodes, its Ceph source, whether anything else in it is wrong, and whether it is all that
was meant (`whole`). `Parts` is what a write that breaks off can leave: something unreadable,
an Inventory of the first nodes only, the last one perhaps with a part of its address, or
all of the nodes and the Ceph source or a part of its name. Some of these load.

In `Startup` each generator has a `gpc`. The check, the reading of the hosts file, the open,
the write and the report are steps; an exclusive open fails when something has come to the
path since the check. `handle` says that the file a generator holds open is still the one at
the path: the operator (`Edit`) may remove it or move another there. Two generators with
`--force` may truncate and write one file together; what comes of it belongs to neither.
`StartCollect` loads whatever is there and hands the window to the three kinds of source.

## Runs

| run | question | instance | size |
|---|---|---|---|
| `collect_one` | What may an operator conclude from one invocation? Does it implement `BundleDelivery`? | 1 collector, 2 sources, 3 keystrokes, a failing stderr | 18 k states |
| `collect_race` | Do two whole invocations, and something else, keep one final path whole, and is publication's answer true? | 2 collectors, 1 source, 1 keystroke, a failing stderr | 3.3 M |
| `admission` | Is admission exact, chunk by chunk and member by member? Do the two boundaries agree? | the Ceph source with ~1500 archives, another node with 4, case-folding file system, fairness | 520 k |
| `node_session` | What may be concluded from a session that reports nothing, or admits something? What may keep one from ending? | 3 probes, one deaf to SIGTERM, 2 keystrokes, fairness | 512 k |
| `file_copy` | Is everything stored that nothing disturbed? Was what is stored really there? Does silence account for the rest? | 3 selections, 9 inodes, 2 changes, 1 failing call | 748 k |
| `kubernetes` | Can names collide, survivors be promoted, interrupts be lost? Does it end? | 3 probes, 2 of them controls with up to 2 logs, 3 keystrokes, fairness | 7 k |
| `prometheus` | Is what is admitted what the answers call for? Does silence mean all of it? What can keep it from ending? | up to 3 discoveries with repeated names, fairness | 137 k |
| `inventory` | Is anything replaced without `--force`? What does exit status 0 promise? | 2 generators, one with `--force`, 2 edits | 124 k |
| `exit_status_claim`, `timeout_claim`, `window_claim` | the findings below | one of everything | violations |

### Bounds, and why they are enough

* `Collectors`: the race is pairwise. An invocation sees another only through
  `final`, and `Foreign` already stands for everybody else.
* `MaxInterrupts`: a keystroke enters a handler, a second leaves it, a third strikes
  `run()`'s handler. `collect_one` has the three; the race has one because each
  collector's handlers are the same.
* `Sources`/`Order`: two, so that one may fail and the other not, in either order.
* `ChunkBytes = 2` with files of 0..5 bytes and members of 1..4: every position of
  the member's end and the file's end in a chunk.
* Archives: the required directories, complete or one missing, with up to two of
  twelve extra members in any order before or after: each check of one member and
  each relation between two of them is met and broken. Two zero blocks and one
  more of either kind give each side of the tar end.

* `NodeSession`: one plain probe, one whose answer names more, one such answer: every
  kind of job once. Keystrokes: one is forwarded, a second leaves the second wait.
* `KubernetesCollection`: two controls with a plain probe between them, up to two logs
  each: the second control's numbers follow the first's, and logs precede what was pending.
  Three keystrokes: the wait, the termination, and one more.
* `RemoteFileCopy`: one selection of each kind, the drop-in directory beside the fixed file, a
  directory in the tree, a link to a directory, a special file, an old and a recent file. Two
  changes: one between a look and an open, one more before the second look; or a swap there
  and back. `MaxBelow = 2`: how far below a selection a file is looked for, as deep as the
  instance's tree is. One failing call: what it costs is seen against everything else being right.
* `PrometheusCollection`: two selected jobs of three, three metrics of which two match, each
  list with a repetition: every way a number could be used twice.
* `Startup`: a race needs two generators; `--force` differs between them. Four hosts, two of
  one portable name, and texts with a collision, without a node, and with lines passed over.

None of them bounds the theorems: those hold for every value of the constants
that satisfies the assumptions.

### Fairness

`Collect` has none: its control goes forward only, so that an invocation ends when its
sources do, and that is each source's own liveness property.
`ArchiveAdmission!FairSpec` has `WF_vars(Step)`: admission is one thread that
waits for nobody; `LocalFailure` is not fair, a disk need not fail.
`NodeSession!FairSpec`: both programs run; SSH connects or fails, reports a command that
ended and reacts to a signal; Python raises the pending `KeyboardInterrupt`; a process
that SIGTERM ends does end. `SshFails` and `ProbeEnds` are not fair: connections need not
break and a probe may hang. `KubernetesCollection!FairSpec` has only `WF_vars(Collect)`:
the clock reaches every deadline; no `kubectl` need ever end.
`PrometheusCollection!FairSpec`: the client is scheduled, and a timeout comes unless chunks
go on coming for ever; the server owes nothing. `RemoteFileCopy` and `Startup` have no liveness
property and no fairness: nothing in them waits.

## Proved

Every safety property that a run checks is proved, the invariants, the action properties and
the refinements. All theorems follow from the named assumptions on the constants: `OwnersDistinct`,
`InterruptBound`, `OrderEnumeratesSources` (`Collect`), for admission `WordsFold`,
`NodesPortable` (which `load_inventory` enforces, `inventory.py:225-236`),
`PortableEnough` (the portable identity is no finer than the file system's),
`SomeArchive`, `ArchiveShape`, `ChunkPositive`, and for the rest what each paragraph names.

* **Publication** (`CollectProofs`). `PubInv` is the inductive invariant:
  `ContentsInv` (what is packed and sealed at each label), `OutcomeInv` (what the
  recorded outcome rests on), `LinkInv` (where `final = c` is known to hold or not
  to hold, with `published`), `ResidueInv` (what exists and what of it is known).
  `FinalIsWhole` alone is not inductive: it needs to know that the workspace is
  removed only when everything is packed and that only a sealed candidate reaches `link`.
* **Invocations** (`CollectProofs`). `CollectInv` adds to `PubInv` what `run()`
  knows: `PreparingInv`, `SourcesInv`, `ClaimInv`, `AnnounceInv`, `OwnershipInv`.
  From it follow `EverySourceAttempted`, `CompleteMeansComplete`,
  `StatusTruthful`, `ResidueReported`, `AnnouncementAgrees`. `NoReplacement` is an
  action property: every step that changes `final` finds `Nobody` there.
* **Refinement** (`CollectProofs`). Any number of invocations implements
  `BundleDelivery`, with `slot <- final`, `claim` read off the exit status and
  `disturbed` the invocations struck, or left without a line of stderr, after their bundle
  was in place.
* **Admission** (`ArchiveAdmissionProofs`). `AdmissionInv` joins types, turns, what
  the reader and the loop have established so far, and the two goals.
  `AdmissionDecidesExactly` says that admission agrees with `WellFormed`, an
  independent definition over the whole file. `ExtractionIsUnobstructed` and
  `AdmittedTreesPublish` follow from it: parents precede children because
  directories come by depth, and names that differ portably differ on disk.

* **Kubernetes** (`KubernetesProofs`), from `CatalogDistinct` and `KubernetesBounds`.
  `KubernetesInv` joins `GroupInv` (what each label knows of the current probe's group),
  `KeystrokeInv` (an interrupt is on its way out from the first keystroke on), `ListInv`
  and `PromotionInv`. Fresh names need `ListInv`'s third part, that the list and the
  captures together are exactly the names up to `next_log_sequence`; the lemma
  `AdvancedKeepsList` shows that splicing in any number of logs keeps it. The refinement of
  `EvidenceSource` then is one case per action.
* **Node session** (`NodeSessionProofs`), from `PlanDistinct` and `KeystrokeBound`. The
  collector's part, `RemoteInv`, speaks of its own variables: `NothingForgotten` (a job is still
  in `plan`, was done well, or the collector knows of a failure), `StreamInv` (what the archive
  holds and what a zero exit status rests on), `WorkspaceInv` and `ProbeInv` (who knows of what
  is left behind). `SshInv` and `AnswerInv` join `collect_node` to it through SSH's status and
  the end of the archive file. `SilenceMeansComplete` alone is not inductive: a zero status must
  be traced from SSH's answer back to the loop over the jobs. All five safety properties and
  the refinement of `EvidenceSource` follow.
* **File copy** (`FileCopyProofs`), from `FileSystem`, `JobsShape` and `BelowBound`, for any tree,
  any selections and any number of changes and failing calls. `CopyInv` has a part for each thing
  the code relies on without saying so:
  - `HistoryInv`: an entry that is not in `touched` is what it was in the beginning, and `been`
    holds whatever an entry ever was.
  - `FramesInv`: a directory being read belongs to the selection and has been at its path; if
    nothing happened on the way it is the one from the beginning, and so are the entries left in it.
  - `PlaceInv`, `DescentInv`, `OpenedInv`: what each label knows of the entry at hand, of the path
    walked so far and of the descriptor it holds.
  - `TroubleInv` and `SaidInv`: a second look is only taken at an entry to which something
    happened, and what is on stderr has such a cause. Without them an undisturbed file could still
    be given up.
  - `StoredWasThere`, `ChosenInv` and `LossInv`: what has been stored, selected, and lost on the way.
    `LossInv` is about *absence*: a wanted and undisturbed file of a selection begun is stored, or
    is still before the walk, at the entry at hand or in a frame.

  `StoredWasThere` is a part of it; `UndisturbedUnharmed` and `SilenceAccounts` follow. Where a path
  leads is defined by recursion along it, so the lemmas about one more component come first.
* **Prometheus** (`PrometheusProofs`), from `ListsShape`. `PrometheusInv` joins `EndInv`
  (nothing is admitted before the loops are through, nothing returns without a contribution
  or a problem) and `CapturesInv` (a capture that failed or was not understood has made a
  problem). `SilenceMeansComplete` and the refinement of `EvidenceSource` follow.
  `RequestsExact` needs `CollectionInv`: by `PlanInv` the captures are the worked-off part of a plan
  and `left` is its rest, where the plan is what the answers so far call for: it grows when
  job-values is understood and when the discoveries are through, and only where nothing has been
  asked yet (`PlanStays`). By `JobsInv` `jobs` names each pair as often as the discoveries do. The
  lemmas before it say what the recursive functions compute, by how often (`Count`) and under
  which number a value comes: `MatchesCount`, `MatchesNumbered`, `DistinctCount`, `PairsCount`.
* **Startup** (`StartupProofs`), from `GeneratorsShape` and `TextsAreLines`, for any number of
  generators and any hosts texts. `StartupInv` says of each generator whose the file is at each of
  its labels; that the file is `Broken` while its author writes is what keeps `collect` from
  starting from a part of it. `NothingReplacedWithoutForce` and `ExitZeroIsUsable` follow. That a
  draft loads is an induction over the hosts lines: the hostnames taken so far are distinct, are
  usable and have portable names of their own.

Induction over data is done with sets. The library's induction theorems take the formula as an
operator, which the provers cannot instantiate; `PrefixRecursion` says the same of a *set* of
numbers that contains 0 and each successor, from the well-foundedness of `<`, and that a function
satisfying the equations of a recursion over 0 .. n is determined by them. Every recursive
definition that a theorem is about is therefore a function over the positions of a sequence.

Only model-checked: the liveness properties (`Decides`, `SessionEnds`, `KeystrokeEnds`,
`CollectionEnds`, `EndsUnlessFed`). They rest on fairness and `ENABLED`, which
are out of the prover's reach.
The inductive invariants `PubInv`, `CollectInv`, `AdmissionInv`, `KubernetesInv`, `CopyInv` and
`CollectionInv` were checked by TLC before they were proved; the runs check what follows from them.

## Findings

* `exit_status_claim`: `docs/architecture.md:211` says Ctrl-C after publication
  keeps the bundle and exits 0. That is so only inside `publish_bundle`. While
  `run()` reports the delivery a keystroke exits 130 and prints the nondelivery line.
* `timeout_claim`: `docs/user-guide.md:183` calls `probe_timeout` each probe's longest
  waiting time. On a Target Node a timed-out probe gets one SIGTERM and is then waited
  for without bound. `SessionEnds` shows that nothing else holds a session.
* `window_claim`: `docs/user-guide.md:208` says `--since` takes `m`, `h`, `d` or `w` and also
  affects Kubernetes container logs. Nodes and Prometheus get seconds; `kubectl logs` gets the
  text (`collect/kubernetes.py:403`), and its `--since`, a Go duration, knows no `d` and no `w`.
  Every log probe of a collection with `--since 7d` fails.

The passing properties state the same claims with the windows excepted, so the runs and
theorems say that there are no others. Two of these windows are narrow places in
`publish_bundle` itself: between the creation of the candidate and the assignment of its
name (`candidate_unassigned`: the entry stays unnamed), and between `os.link` and
`published = True` (`publication_unrecorded`: the answer says `INTERRUPTED` of a bundle in place).

Smaller observations, without a run of their own:

* A keystroke between `publish_bundle`'s return and `run()`'s report drops the residue the
  result names (`collect/__init__.py:148-164`), against `CONTEXT.md:32`; it is the window
  `reporting` of `ResidueReported`.
* An error writing `result.json` after a failed termination replaces the survivor's problem
  (`collect/kubernetes.py:287`), against `docs/architecture.md:213`. Nothing is promoted then.
* A `KeyboardInterrupt` in the remote collector while it waits for a probe leaves that probe's
  session running (`remote_collector.py:654`): `NoOrphan` names it. Whether one arrives depends
  on what SSH does with the SIGINT it is sent.
* When stdout and stderr both fail after delivery, `run()` ends with 1 or by an exception though
  its bundle is in place (`collect/__init__.py:167-176`); it is the window `report_lost`.
* `docs/python-rewrite-spec.md:292` and `:395` let a timeout be `0`; `_duration_seconds` and its
  tests refuse it.
* `request_timeout` bounds each wait for the server and not the request; `EndsUnlessFed` says so.
* `remote_collector.py:578` recurses once and holds one descriptor per directory level; a deeper
  tree than Python's or the system's limit ends the walk there.

## Not modelled, and why

* `cli.py`: `argparse` set-up and dispatch, without state.
* Rendering of SSH diagnostics (`_print_diagnostics`, `_write_terminal_safe`): its errors
  are swallowed, so it decides nothing.
* The spelling rules of `load_inventory` (durations, URLs, namespaces, regular expressions) and
  of `_parse_arguments`: they only decide whether there is a problem, which is one flag.
* The recursion limit in `_copy_regular_file_directory`; the length and order of a directory's
  listing other than by name.
* `src/validation`, `src/tests`: test tooling.

## Plan

1. `Collect` with its sources replaced by `EvidenceSource` instances, so that the
   contracts are composed and not only stated.
2. `RemoteFileCopy` under the plan of `RemoteCollector`: that the step `CopyFiles` abstracts it.
