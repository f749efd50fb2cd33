-------------------------- MODULE ArchiveAdmission --------------------------
(***************************************************************************)
(* The two fail-closed boundaries an untrusted Node Evidence Archive       *)
(* crosses on the workstation.  admit_archive() of collect/node_archive.py *)
(* reads the file SSH left in private staging, checks it member by member, *)
(* extracts it privately and renames the tree to an admitted contribution. *)
(* Much later publish_bundle() validates the final tree made of all the    *)
(* contributions with rules of its own: collect/bundle.py imports nothing  *)
(* from collect/node_archive.py, on purpose.  If the two ever disagreed, a *)
(* single Target Node's archive would cost the operator the whole bundle.  *)
(*                                                                         *)
(* A path is the sequence of its components.  Names are only compared,     *)
(* exactly and after _portable_component (NFC and case folding), which is  *)
(* the function Fold.  Payload bytes are left out.                         *)
(***************************************************************************)
EXTENDS Naturals, Sequences

CONSTANTS Nodes,       \* the Inventory Names of the Target Nodes
          CephSource,  \* [ceph] source, or anything else when there is none
          Names,       \* the path components an archive may use
          Unsafe,      \* those _safe_components refuses: "", ".", "..", a\b
          Fold,        \* _portable_component
          FsFold,      \* which names the workstation's file system confuses
          Root,        \* the bundle's root directory
          Archives,    \* of each Target Node, the files SSH may leave in staging
          ChunkBytes   \* _STREAM_CHUNK_BYTES

Words == {"node", "ceph", "probes", "files", "nodes", "inventory.ini"}

Kinds  == {"dir", "file", "other"}   \* other: links, devices, sparse files
Path   == Seq(Names) \ {<<>>}
Member == [path : Path, kind : Kinds]

\* A file, as admission can tell one from another.
Archive == [members : Seq(Member),       \* its headers, in their order
            size : Nat,                  \* its bytes
            gzip : Nat \ {0},            \* the bytes its gzip member needs
            readable : BOOLEAN,          \* it inflates, and the headers parse
            aligned : BOOLEAN,           \* the tar stream is whole blocks
            tail : Seq({"zero", "data"})]  \* its blocks after the members

\* The words the two modules compare with are lower-case ASCII, which NFC and
\* case folding leave alone.
ASSUME WordsFold == /\ Words \cup {Root} \cup Nodes \subseteq Names
                    /\ Fold \in [Names -> Names]
                    /\ \A w \in Words : Fold[w] = w
\* load_inventory refuses two Inventory Names with one portable name, and
\* names that are no plain path component.
ASSUME NodesPortable == /\ \A a, b \in Nodes : Fold[a] = Fold[b] => a = b
                        /\ Nodes \cap Unsafe = {}
\* The portable identity is at least as coarse as the file system's.
ASSUME PortableEnough == /\ FsFold \in [Names -> Names]
                         /\ \A a, b \in Names :
                               FsFold[a] = FsFold[b] => Fold[a] = Fold[b]
ASSUME SomeArchive == Nodes # {} /\ \A n \in Nodes : Archives[n] # {}
ASSUME ArchiveShape == Archives \in [Nodes -> SUBSET Archive]
ASSUME ChunkPositive == ChunkBytes \in Nat \ {0}

VARIABLES
  pc,            \* where admission, or publication, is
  waiting,       \* the Target Nodes not yet collected
  current,       \* the Target Node being collected
  archive,       \* the file in its staging directory
  taken,         \* the compressed bytes read so far
  checked,       \* how many members the loop of _validate_members has passed
  seen,          \* by_path: those members
  extraction,    \* the tree under the private extraction directory
  contributions, \* the admitted trees; {} where there is none
  answer,        \* what collect_node learned of each archive
  source         \* history: the archive each Target Node sent

locals == <<current, archive, taken, checked, seen, extraction>>
vars   == <<pc, waiting, locals, contributions, answer, source>>

-----------------------------------------------------------------------------
(* Helpers. *)

Portable(p) == [i \in DOMAIN p |-> Fold[p[i]]]
OnDisk(p)   == [i \in DOMAIN p |-> FsFold[p[i]]]

\* p's ancestor of the given length.
Ancestor(p, length) == SubSeq(p, 1, length)

HasDirectory(tree, p) == \E m \in tree : m.path = p /\ m.kind = "dir"
HasPath(tree, p)      == \E m \in tree : m.path = p

\* Mutant: any Target Node may bring Ceph evidence.
CephFromAnyone(n) == n \in Nodes

CephAllowed(n) == n = CephSource

-----------------------------------------------------------------------------
(* admit_archive. *)

\* SSH ends and leaves some file behind.
Spool(n) ==
    /\ pc = "next" /\ n \in waiting
    /\ \E a \in Archives[n] : archive' = a /\ source' = [source EXCEPT ![n] = a]
    /\ current' = n
    /\ waiting' = waiting \ {n}
    /\ taken' = 0 /\ checked' = 0 /\ seen' = {} /\ extraction' = {}
    /\ pc' = "inflate"
    /\ UNCHANGED <<contributions, answer>>

Answer(verdict) ==
    /\ answer' = [answer EXCEPT ![current] = verdict]
    /\ pc' = "next"
    /\ UNCHANGED <<waiting, locals, source>>

Reject == Answer("rejected") /\ UNCHANGED contributions

\* One turn of the loop of _one_gzip_member_chunks.
ChunkEnd == IF taken + ChunkBytes < archive.size
            THEN taken + ChunkBytes ELSE archive.size

\* Mutant: expects a byte after the gzip member in every chunk.
InflateBelowEnd ==
    /\ pc = "inflate" /\ taken < archive.size
    /\ ChunkEnd < archive.gzip
    /\ taken' = ChunkEnd
    /\ UNCHANGED <<pc, waiting, current, archive, checked, seen, extraction,
                   contributions, answer, source>>

InflateChunk ==
    /\ pc = "inflate" /\ taken < archive.size
    /\ taken < archive.gzip          \* not decompressor.eof
    /\ ChunkEnd <= archive.gzip      \* not decompressor.unused_data
    /\ taken' = ChunkEnd
    /\ UNCHANGED <<pc, waiting, current, archive, checked, seen, extraction,
                   contributions, answer, source>>

RejectTrailing ==
    /\ pc = "inflate" /\ taken < archive.size
    /\ taken >= archive.gzip \/ ChunkEnd > archive.gzip
    /\ Reject

\* Nothing is left to read; getmembers() then parses the tar stream.
OpenTar ==
    /\ pc = "inflate" /\ taken = archive.size
    /\ taken >= archive.gzip /\ archive.readable
    /\ pc' = "check"
    /\ UNCHANGED <<waiting, locals, contributions, answer, source>>

RejectStream ==
    /\ pc = "inflate" /\ taken = archive.size
    /\ taken < archive.gzip \/ ~archive.readable
    /\ Reject

\* The body of the first loop of _validate_members.
SafePath(m) == \A i \in DOMAIN m.path : m.path[i] \notin Unsafe

KnownRoot(m, allowed) == m.path[1] \in (IF allowed THEN {"node", "ceph"}
                                                   ELSE {"node"})

SupportedType(m) == m.kind \in {"dir", "file"}

\* Mutant: compares paths exactly, as by_path does, and not portably.
UnclaimedExactly(m, earlier) == \A e \in earlier : e.path # m.path

Unclaimed(m, earlier) == \A e \in earlier : Portable(e.path) # Portable(m.path)

MemberPasses(m, earlier, allowed) ==
    SafePath(m) /\ KnownRoot(m, allowed) /\ SupportedType(m)
                /\ Unclaimed(m, earlier)

Remaining == checked < Len(archive.members)
NextMember == archive.members[checked + 1]

CheckMember ==
    /\ pc = "check" /\ Remaining
    /\ MemberPasses(NextMember, seen, CephAllowed(current))
    /\ seen' = seen \cup {NextMember}
    /\ checked' = checked + 1
    /\ UNCHANGED <<pc, waiting, current, archive, taken, extraction,
                   contributions, answer, source>>

RejectMember ==
    /\ pc = "check" /\ Remaining
    /\ ~MemberPasses(NextMember, seen, CephAllowed(current))
    /\ Reject

\* The rest of _validate_members, on the whole of by_path.
RequiredDirectories(tree) ==
    /\ \A p \in {<<"node">>, <<"node", "probes">>, <<"node", "files">>} :
          HasDirectory(tree, p)
    /\ HasPath(tree, <<"ceph">>) =>
          /\ HasDirectory(tree, <<"ceph">>)
          /\ HasDirectory(tree, <<"ceph", "probes">>)

AncestorsAreDirectories(tree) ==
    \A m \in tree : \A length \in 1 .. Len(m.path) - 1 :
       HasDirectory(tree, Ancestor(m.path, length))

\* Mutant: looks at the two end blocks and at nothing after them.
TarEndsSomewhere(a) == /\ a.aligned
                       /\ Len(a.tail) >= 2
                       /\ a.tail[1] = "zero" /\ a.tail[2] = "zero"

\* _validate_tar_end: at least 1024 zero bytes, and nothing else.
TarEnds(a) == /\ a.aligned
              /\ Len(a.tail) >= 2
              /\ \A i \in DOMAIN a.tail : a.tail[i] = "zero"

StructurePasses == /\ RequiredDirectories(seen)
                   /\ AncestorsAreDirectories(seen)
                   /\ TarEnds(archive)

CheckStructure ==
    /\ pc = "check" /\ ~Remaining /\ StructurePasses
    /\ pc' = "extract"
    /\ UNCHANGED <<waiting, locals, contributions, answer, source>>

RejectStructure ==
    /\ pc = "check" /\ ~Remaining /\ ~StructurePasses
    /\ Reject

\* _extract_members: directories by depth, then the regular files.  Members of
\* one depth come in the archive's order, which is the sender's choice.
Due(m) ==
    /\ m \in seen \ extraction
    /\ m.kind = "dir" => \A d \in seen \ extraction :
                            d.kind = "dir" => Len(m.path) <= Len(d.path)
    /\ m.kind = "file" => \A d \in seen : d.kind = "dir" => d \in extraction

\* mkdir and open("xb") need the parent, and a name the file system sees as new.
Unobstructed(m) ==
    /\ Len(m.path) > 1 =>
          \E e \in extraction :
             /\ e.kind = "dir"
             /\ OnDisk(e.path) = OnDisk(Ancestor(m.path, Len(m.path) - 1))
    /\ \A e \in extraction : OnDisk(e.path) # OnDisk(m.path)

ExtractMember(m) ==
    /\ pc = "extract" /\ Due(m) /\ Unobstructed(m)
    /\ extraction' = extraction \cup {m}
    /\ UNCHANGED <<pc, waiting, current, archive, taken, checked, seen,
                   contributions, answer, source>>

\* Mutant: promotes the directories before their files are written.
PromoteDirectories ==
    /\ pc = "extract"
    /\ {m \in seen : m.kind = "dir"} \subseteq extraction
    /\ contributions' = [contributions EXCEPT ![current] = extraction]
    /\ Answer("admitted")

\* os.rename(extraction_directory, contribution_directory)
Promote ==
    /\ pc = "extract" /\ seen \subseteq extraction
    /\ contributions' = [contributions EXCEPT ![current] = extraction]
    /\ Answer("admitted")

\* An OSError anywhere in admit_archive, an obstructed mkdir or open included.
LocalFailure ==
    /\ pc \in {"inflate", "check", "extract"}
    /\ Answer("failed") /\ UNCHANGED contributions

-----------------------------------------------------------------------------
(* publish_bundle: _validated_entries and what it calls.                   *)

Admitted == {n \in Nodes : contributions[n] # {}}

\* Where a member of a contribution goes: node/ under the Target Node's name,
\* ceph/ straight under the root.
Destination(n, p) ==
    IF p[1] = "node" THEN <<Root, "nodes", n>> \o Tail(p) ELSE <<Root>> \o p

\* bundle_root, the Inventory Snapshot and the two directories always there.
FixedEntries ==
    { [from |-> <<>>, to |-> <<Root>>, isDirectory |-> TRUE],
      [from |-> <<>>, to |-> <<Root, "inventory.ini">>, isDirectory |-> FALSE],
      [from |-> <<>>, to |-> <<Root, "nodes">>, isDirectory |-> TRUE],
      [from |-> <<>>, to |-> <<Root, "ceph">>, isDirectory |-> TRUE] }

\* _append_children_at adds what is below ceph/, whose own entry is fixed.
ContributionEntries(n) ==
    { [from |-> <<n>> \o m.path, to |-> Destination(n, m.path),
       isDirectory |-> m.kind = "dir"] :
      m \in {x \in contributions[n] : x.path # <<"ceph">>} }

Entries == FixedEntries \cup UNION {ContributionEntries(n) : n \in Admitted}

\* _append_node_contributions, with _append_children_at on each object.
ContributionPasses(n) ==
    LET tree == contributions[n] IN
    /\ n \notin Unsafe
    /\ \A m \in tree : m.path[1] \in {"node", "ceph"}
    /\ \A m \in tree : SafePath(m) /\ SupportedType(m)
    /\ RequiredDirectories(tree)

OneCeph == \A a, b \in Admitted :
              /\ HasPath(contributions[a], <<"ceph">>)
              /\ HasPath(contributions[b], <<"ceph">>)
              => a = b

\* _validate_archive_paths: no duplicate, no portable collision, no file above.
PathsPass(entries) ==
    /\ \A e, f \in entries : Portable(e.to) = Portable(f.to) => e = f
    /\ \A e, f \in entries : \A length \in 1 .. Len(e.to) - 1 :
          f.to = Ancestor(e.to, length) => f.isDirectory

FinalTreePasses == /\ \A n \in Admitted : ContributionPasses(n)
                   /\ OneCeph
                   /\ PathsPass(Entries)

ValidateTree ==
    /\ pc = "next" /\ waiting = {}
    /\ pc' = IF FinalTreePasses THEN "published" ELSE "refused"
    /\ UNCHANGED <<waiting, locals, contributions, answer, source>>

-----------------------------------------------------------------------------
Init ==
    /\ pc = "next"
    /\ waiting = Nodes
    /\ current = (CHOOSE n \in Nodes : TRUE)       \* before the first Spool
    /\ archive = (CHOOSE a \in Archives[current] : TRUE)  \* these two say nothing
    /\ taken = 0 /\ checked = 0 /\ seen = {} /\ extraction = {}
    /\ contributions = [n \in Nodes |-> {}]
    /\ answer = [n \in Nodes |-> "none"]
    /\ source = [n \in Nodes |-> archive]


Step ==
    \/ \E n \in Nodes : Spool(n)
    \/ InflateChunk \/ RejectTrailing \/ OpenTar \/ RejectStream
    \/ CheckMember \/ RejectMember \/ CheckStructure \/ RejectStructure
    \/ \E m \in seen : ExtractMember(m)
    \/ Promote \/ ValidateTree

Next == Step \/ LocalFailure

Spec == Init /\ [][Next]_vars

\* One thread runs admission from end to end, and nothing in it waits.  The
\* file system need not fail.
FairSpec == Spec /\ WF_vars(Step)

-----------------------------------------------------------------------------
(* Properties. *)

TypeOK ==
    /\ pc \in {"next", "inflate", "check", "extract", "published", "refused"}
    /\ waiting \subseteq Nodes
    /\ current \in Nodes /\ archive \in Archive
    /\ taken \in 0 .. archive.size
    /\ checked \in 0 .. Len(archive.members)
    /\ seen \subseteq Member /\ extraction \subseteq seen
    /\ contributions \in [Nodes -> SUBSET Member]
    /\ answer \in [Nodes -> {"none", "rejected", "failed", "admitted"}]
    /\ source \in [Nodes -> Archive]

\* What an admissible archive is, said of the whole file at once: exactly one
\* gzip member holding exactly one tar stream, whose members form a tree of
\* directories and regular files under the roots this Target Node may use,
\* with the directories the final bundle requires and names that stay apart
\* on any workstation.
Contents(a) == {a.members[i] : i \in DOMAIN a.members}

WellFormed(n, a) ==
    /\ a.readable /\ a.size = a.gzip
    /\ a.aligned /\ Len(a.tail) > 1 /\ a.tail \in Seq({"zero"})
    /\ \A i, j \in DOMAIN a.members :
          i # j => Portable(a.members[i].path) # Portable(a.members[j].path)
    /\ \A m \in Contents(a) :
          /\ m.kind \in {"dir", "file"}
          /\ m.path \in Seq(Names \ Unsafe)
          /\ m.path[1] = "node" \/ (m.path[1] = "ceph" /\ n = CephSource)
          /\ \A i \in 1 .. Len(m.path) - 1 :
                [path |-> SubSeq(m.path, 1, i), kind |-> "dir"] \in Contents(a)
    /\ {<<"node">>, <<"node", "probes">>, <<"node", "files">>}
          \subseteq {d.path : d \in {m \in Contents(a) : m.kind = "dir"}}
    /\ <<"ceph">> \in {m.path : m \in Contents(a)} =>
          {[path |-> <<"ceph">>, kind |-> "dir"],
           [path |-> <<"ceph", "probes">>, kind |-> "dir"]} \subseteq Contents(a)

\* The chunked reader and the loop over the members decide exactly this: no
\* malformed archive is admitted at any chunk or member boundary, and no well
\* formed one is turned away, whatever order its members come in.
AdmissionIsExact ==
    \A n \in Nodes :
       /\ answer[n] = "admitted" => WellFormed(n, source[n])
       /\ answer[n] = "rejected" => ~WellFormed(n, source[n])

\* Once the checks have passed, no mkdir or exclusive open of _extract_members
\* can meet a missing parent or a name already taken, on a file system that
\* confuses names no less finely than the portable identity does.
ExtractionUnobstructed ==
    pc = "extract" => \A m \in seen : Due(m) => Unobstructed(m)

\* A Target Node contributes all of its archive or nothing: the rename comes
\* after the last member, and no failure leaves half a tree admitted.
ContributionWhole ==
    \A n \in Nodes :
       contributions[n] = IF answer[n] = "admitted" THEN Contents(source[n])
                                                    ELSE {}

\* The two boundaries agree: whatever the Target Nodes sent and whichever
\* admissions failed, publish_bundle never refuses the tree that
\* admit_archive let in.
AdmittedIsPublishable == pc # "refused"

\* Every archive gets its answer and the final tree its verdict.
Decides == <>(pc \in {"published", "refused"})

-----------------------------------------------------------------------------
(* The inductive invariant. *)

Working == pc \in {"inflate", "check", "extract"}

\* Who has been asked, and whose archive is in hand.
TurnInv ==
    /\ Working => current \notin waiting /\ source[current] = archive
    /\ \A n \in Nodes :
          answer[n] = "none" <=> n \in waiting \/ (Working /\ n = current)
    /\ pc \in {"published", "refused"} => waiting = {}

\* What the reader and the loop have established so far.
ProgressInv ==
    /\ pc = "inflate" => taken <= archive.gzip /\ checked = 0 /\ seen = {}
    /\ pc = "inflate" => extraction = {}
    /\ pc = "check" => extraction = {}
    /\ pc \in {"check", "extract"} =>
          /\ archive.readable /\ archive.size = archive.gzip
          /\ seen = {archive.members[i] : i \in 1 .. checked}
          /\ \A i, j \in 1 .. checked :
                i # j => Portable(archive.members[i].path)
                            # Portable(archive.members[j].path)
          /\ \A m \in seen : SafePath(m) /\ SupportedType(m)
                                /\ KnownRoot(m, CephAllowed(current))
    /\ pc = "extract" => checked = Len(archive.members) /\ StructurePasses

AdmissionInv == /\ TypeOK /\ TurnInv /\ ProgressInv
                /\ AdmissionIsExact /\ ContributionWhole

=============================================================================
