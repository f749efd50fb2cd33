----------------------- MODULE ArchiveAdmissionProofs -----------------------
(* What admit_archive and the final tree's validation guarantee, for every    *)
(* set of Target Nodes, every archive and every chunk size.                   *)
EXTENDS ArchiveAdmission, TLAPS

-----------------------------------------------------------------------------
(* Paths. *)

LEMMA PortableEqual ==
    ASSUME NEW p \in Seq(Names), NEW q \in Seq(Names)
    PROVE  Portable(p) = Portable(q) <=>
              /\ Len(p) = Len(q)
              /\ \A i \in 1 .. Len(p) : Fold[p[i]] = Fold[q[i]]
<1>1. DOMAIN p = 1 .. Len(p) /\ DOMAIN q = 1 .. Len(q)
  OBVIOUS
<1>2. Len(p) \in Nat /\ Len(q) \in Nat
  OBVIOUS
<1>3. ASSUME Portable(p) = Portable(q)
      PROVE  Len(p) = Len(q) /\ \A i \in 1 .. Len(p) : Fold[p[i]] = Fold[q[i]]
  <2>1. DOMAIN Portable(p) = 1 .. Len(p) /\ DOMAIN Portable(q) = 1 .. Len(q)
    BY <1>1 DEF Portable
  <2>2. Len(p) = Len(q)
    BY <1>2, <1>3, <2>1
  <2>3. \A i \in 1 .. Len(p) : Portable(p)[i] = Fold[p[i]]
                               /\ Portable(q)[i] = Fold[q[i]]
    BY <1>1, <2>2 DEF Portable
  <2> QED BY <1>3, <2>2, <2>3
<1>4. ASSUME Len(p) = Len(q), \A i \in 1 .. Len(p) : Fold[p[i]] = Fold[q[i]]
      PROVE  Portable(p) = Portable(q)
  BY <1>1, <1>4 DEF Portable
<1> QED BY <1>3, <1>4

\* Names one file system takes for one have one portable identity.
LEMMA OnDiskIsFiner ==
    ASSUME NEW p \in Seq(Names), NEW q \in Seq(Names), OnDisk(p) = OnDisk(q)
    PROVE  Portable(p) = Portable(q)
<1>1. DOMAIN p = 1 .. Len(p) /\ DOMAIN q = 1 .. Len(q)
      /\ Len(p) \in Nat /\ Len(q) \in Nat
  OBVIOUS
<1>2. DOMAIN OnDisk(p) = 1 .. Len(p) /\ DOMAIN OnDisk(q) = 1 .. Len(q)
  BY <1>1 DEF OnDisk
<1>3. Len(p) = Len(q)
  <2>1. ASSUME NEW f, NEW g, f = g PROVE DOMAIN f = DOMAIN g
    BY <2>1
  <2>2. DOMAIN OnDisk(p) = DOMAIN OnDisk(q)
    BY <2>1
  <2>3. 1 .. Len(p) = 1 .. Len(q)
    BY <1>2, <2>2
  <2>4. Len(p) \in Nat /\ Len(q) \in Nat
    OBVIOUS
  <2> QED BY <2>3, <2>4
<1>4. \A i \in 1 .. Len(p) : FsFold[p[i]] = FsFold[q[i]]
  <2> TAKE i \in 1 .. Len(p)
  <2>1. OnDisk(p)[i] = FsFold[p[i]] /\ OnDisk(q)[i] = FsFold[q[i]]
    BY <1>1, <1>3 DEF OnDisk
  <2> QED BY <2>1
<1>5. \A i \in 1 .. Len(p) : p[i] \in Names /\ q[i] \in Names
  BY <1>3
<1>6. \A i \in 1 .. Len(p) : Fold[p[i]] = Fold[q[i]]
  BY <1>4, <1>5, PortableEnough
<1> QED BY <1>3, <1>6, PortableEqual

LEMMA AncestorIsPath ==
    ASSUME NEW p \in Path, NEW length \in 1 .. Len(p)
    PROVE  /\ Ancestor(p, length) \in Path
           /\ Len(Ancestor(p, length)) = length
           /\ \A i \in 1 .. length : Ancestor(p, length)[i] = p[i]
BY DEF Path, Ancestor

LEMMA MemberFacts ==
    ASSUME NEW a \in Archive, NEW i \in 1 .. Len(a.members)
    PROVE  /\ a.members[i] \in Member
           /\ a.members[i].path \in Path
           /\ a.members[i].kind \in Kinds
<1>1. a.members \in Seq(Member)
  BY DEF Archive
<1>2. a.members[i] \in Member
  BY <1>1
<1> QED BY <1>2 DEF Member

-----------------------------------------------------------------------------
(* The invariant holds initially. *)

LEMMA InitTypes == Init => TypeOK
<1> SUFFICES ASSUME Init PROVE TypeOK
  OBVIOUS
<1>1. current \in Nodes /\ archive \in Archives[current]
  BY SomeArchive DEF Init
<1>2. archive \in Archive
  BY <1>1, ArchiveShape
<1>3. archive.size \in Nat /\ Len(archive.members) \in Nat
  BY <1>2 DEF Archive
<1>4. taken \in 0 .. archive.size /\ checked \in 0 .. Len(archive.members)
  <2>1. taken = 0 /\ checked = 0
    BY DEF Init
  <2> QED
    BY <1>3, <2>1
<1>5. source \in [Nodes -> Archive]
  <2>1. source = [n \in Nodes |-> archive]
    BY DEF Init
  <2> QED
    BY <1>2, <2>1
<1>6. /\ contributions \in [Nodes -> SUBSET Member]
      /\ answer \in [Nodes -> {"none", "rejected", "failed", "admitted"}]
  BY DEF Init
<1> QED BY <1>1, <1>2, <1>4, <1>5, <1>6 DEF Init, TypeOK

LEMMA InitInv == Init => AdmissionInv
<1> SUFFICES ASSUME Init PROVE AdmissionInv
  OBVIOUS
<1>1. TypeOK
  BY InitTypes
<1>2. TurnInv
  BY DEF Init, TurnInv, Working
<1>3. ProgressInv
  BY DEF Init, ProgressInv
<1>4. AdmissionIsExact /\ ContributionWhole
  BY DEF Init, AdmissionIsExact, ContributionWhole
<1> QED BY <1>1, <1>2, <1>3, <1>4 DEF AdmissionInv

-----------------------------------------------------------------------------
(* Each step keeps the types. *)

LEMMA NextTypes == TypeOK /\ [Next]_vars => TypeOK'
<1> SUFFICES ASSUME TypeOK, [Next]_vars PROVE TypeOK'
  OBVIOUS
<1> USE DEF TypeOK
<1>0. /\ archive.members \in Seq(Member) /\ Len(archive.members) \in Nat
      /\ archive.size \in Nat /\ archive.gzip \in Nat
      /\ ChunkBytes \in Nat \ {0}
  BY ChunkPositive DEF Archive
<1>1. ASSUME NEW n \in Nodes, Spool(n) PROVE TypeOK'
  <2>1. archive' \in Archive
    BY <1>1, ArchiveShape DEF Spool
  <2>2. archive'.size \in Nat /\ Len(archive'.members) \in Nat
    BY <2>1 DEF Archive
  <2>3. source' \in [Nodes -> Archive]
    BY <1>1, <2>1, ArchiveShape DEF Spool
  <2> QED BY <1>1, <2>1, <2>2, <2>3 DEF Spool
<1>2. CASE InflateChunk
  <2>1. ChunkEnd \in 0 .. archive.size
    BY <1>0 DEF ChunkEnd
  <2> QED BY <1>2, <2>1 DEF InflateChunk
<1>3. ASSUME NEW verdict \in {"rejected", "failed", "admitted"},
             Answer(verdict), contributions' \in [Nodes -> SUBSET Member]
      PROVE  TypeOK'
  BY <1>3 DEF Answer, locals
<1>4. CASE RejectTrailing \/ RejectStream \/ RejectMember \/ RejectStructure
  BY <1>4, <1>3 DEF RejectTrailing, RejectStream, RejectMember, RejectStructure,
                    Reject
<1>5. CASE LocalFailure
  BY <1>5, <1>3 DEF LocalFailure
<1>6. CASE OpenTar \/ CheckStructure
  BY <1>6 DEF OpenTar, CheckStructure, locals
<1>7. CASE CheckMember
  <2>1. NextMember \in Member /\ checked + 1 \in 0 .. Len(archive.members)
    BY <1>7, <1>0 DEF CheckMember, Remaining, NextMember
  <2> QED BY <1>7, <2>1 DEF CheckMember
<1>8. ASSUME NEW m \in seen, ExtractMember(m) PROVE TypeOK'
  BY <1>8 DEF ExtractMember
<1>9. CASE Promote
  <2>1. contributions' \in [Nodes -> SUBSET Member]
    BY <1>9 DEF Promote
  <2> QED BY <1>9, <2>1, <1>3 DEF Promote
<1>10. CASE ValidateTree
  BY <1>10 DEF ValidateTree, locals
<1>11. CASE UNCHANGED vars
  BY <1>11 DEF vars, locals
<1> QED BY <1>1, <1>2, <1>4, <1>5, <1>6, <1>7, <1>8, <1>9, <1>10, <1>11
        DEF Next, Step

-----------------------------------------------------------------------------
(* Each step keeps the invariant. *)

LEMMA NextTurn == AdmissionInv /\ [Next]_vars => TurnInv'
<1> SUFFICES ASSUME AdmissionInv, [Next]_vars PROVE TurnInv'
  OBVIOUS
<1> USE DEF AdmissionInv, TypeOK, TurnInv, Working
<1>1. ASSUME NEW n \in Nodes, Spool(n) PROVE TurnInv'
  BY <1>1 DEF Spool
<1>2. ASSUME NEW verdict \in {"rejected", "failed", "admitted"},
             Answer(verdict), Working
      PROVE  TurnInv'
  BY <1>2 DEF Answer, locals
<1>3. CASE RejectTrailing \/ RejectStream \/ RejectMember \/ RejectStructure
  BY <1>3, <1>2 DEF RejectTrailing, RejectStream, RejectMember,
                    RejectStructure, Reject
<1>4. CASE LocalFailure \/ Promote
  BY <1>4, <1>2 DEF LocalFailure, Promote
<1>5. CASE OpenTar \/ CheckStructure \/ ValidateTree
  BY <1>5 DEF OpenTar, CheckStructure, ValidateTree, locals
<1>6. CASE InflateChunk \/ CheckMember
  BY <1>6 DEF InflateChunk, CheckMember
<1>7. ASSUME NEW m \in seen, ExtractMember(m) PROVE TurnInv'
  BY <1>7 DEF ExtractMember
<1>8. CASE UNCHANGED vars
  BY <1>8 DEF vars, locals
<1> QED BY <1>1, <1>3, <1>4, <1>5, <1>6, <1>7, <1>8 DEF Next, Step

LEMMA NextProgress == AdmissionInv /\ [Next]_vars => ProgressInv'
<1> SUFFICES ASSUME AdmissionInv, [Next]_vars PROVE ProgressInv'
  OBVIOUS
<1>0. /\ TypeOK /\ ProgressInv
      /\ archive.members \in Seq(Member) /\ Len(archive.members) \in Nat
      /\ archive.size \in Nat /\ archive.gzip \in Nat \ {0}
      /\ ChunkBytes \in Nat \ {0}
  BY ChunkPositive DEF AdmissionInv, TypeOK, Archive
<1>1. ASSUME NEW n \in Nodes, Spool(n) PROVE ProgressInv'
  <2>1. archive'.gzip \in Nat
    BY <1>1, ArchiveShape DEF Spool, Archive
  <2> QED BY <1>1, <2>1 DEF Spool, ProgressInv
<1>2. CASE pc' \in {"next", "published", "refused"}
  BY <1>2 DEF ProgressInv
<1>3. CASE RejectTrailing \/ RejectStream \/ RejectMember \/ RejectStructure
           \/ LocalFailure \/ Promote \/ ValidateTree
  BY <1>2, <1>3 DEF RejectTrailing, RejectStream, RejectMember,
     RejectStructure, Reject, LocalFailure, Promote, ValidateTree, Answer
<1>4. CASE InflateChunk
  BY <1>4, <1>0 DEF InflateChunk, ProgressInv
<1>5. CASE OpenTar
  <2>1. /\ pc' = "check" /\ archive' = archive /\ seen' = seen
        /\ checked' = checked /\ extraction' = extraction /\ current' = current
    BY <1>5 DEF OpenTar, locals
  <2>2. archive.readable /\ archive.size = archive.gzip
    BY <1>5, <1>0 DEF OpenTar, ProgressInv
  <2>3. seen = {} /\ checked = 0 /\ extraction = {}
    BY <1>5, <1>0 DEF OpenTar, ProgressInv
  <2>4. {archive.members[i] : i \in 1 .. 0} = {}
    OBVIOUS
  <2> QED BY <2>1, <2>2, <2>3, <2>4 DEF ProgressInv
<1>6. CASE CheckMember
  <2>1. /\ pc = "check" /\ pc' = "check" /\ archive' = archive
        /\ current' = current /\ extraction' = extraction
        /\ checked' = checked + 1 /\ seen' = seen \cup {NextMember}
        /\ MemberPasses(NextMember, seen, CephAllowed(current))
        /\ NextMember = archive.members[checked + 1]
    BY <1>6 DEF CheckMember, NextMember
  <2>2. /\ archive.readable /\ archive.size = archive.gzip
        /\ seen = {archive.members[i] : i \in 1 .. checked}
        /\ \A i, j \in 1 .. checked :
              i # j => Portable(archive.members[i].path)
                          # Portable(archive.members[j].path)
        /\ \A m \in seen : SafePath(m) /\ SupportedType(m)
                              /\ KnownRoot(m, CephAllowed(current))
        /\ extraction = {}
    BY <2>1, <1>0 DEF ProgressInv
  <2>3. checked \in Nat
    BY <1>0 DEF TypeOK
  <2>4. 1 .. checked + 1 = (1 .. checked) \cup {checked + 1}
    BY <2>3
  <2>5. seen' = {archive.members[i] : i \in 1 .. checked + 1}
    BY <2>1, <2>2, <2>4
  <2>6. \A i \in 1 .. checked : Portable(archive.members[i].path)
                                   # Portable(NextMember.path)
    BY <2>1, <2>2 DEF MemberPasses, Unclaimed
  <2>7. \A i, j \in 1 .. checked + 1 :
           i # j => Portable(archive.members[i].path)
                       # Portable(archive.members[j].path)
    BY <2>1, <2>2, <2>4, <2>6
  <2>8. \A m \in seen' : SafePath(m) /\ SupportedType(m)
                            /\ KnownRoot(m, CephAllowed(current))
    BY <2>1, <2>2 DEF MemberPasses
  <2> QED BY <2>1, <2>2, <2>5, <2>7, <2>8 DEF ProgressInv, CephAllowed
<1>7. CASE CheckStructure
  <2>1. /\ pc = "check" /\ pc' = "extract" /\ StructurePasses /\ ~Remaining
        /\ archive' = archive /\ seen' = seen /\ checked' = checked
        /\ current' = current
    BY <1>7 DEF CheckStructure, locals
  <2>2. checked = Len(archive.members)
    BY <2>1, <1>0 DEF Remaining, TypeOK
  <2>3. StructurePasses'
    BY <2>1 DEF StructurePasses
  <2> QED BY <2>1, <2>2, <2>3, <1>0 DEF ProgressInv, CephAllowed
<1>8. ASSUME NEW m \in seen, ExtractMember(m) PROVE ProgressInv'
  <2>1. /\ pc = "extract" /\ pc' = "extract" /\ archive' = archive
        /\ seen' = seen /\ checked' = checked /\ current' = current
    BY <1>8 DEF ExtractMember
  <2>2. StructurePasses' = StructurePasses
    BY <2>1 DEF StructurePasses
  <2> QED BY <2>1, <2>2, <1>0 DEF ProgressInv, CephAllowed
<1>9. CASE UNCHANGED vars
  <2>1. /\ pc' = pc /\ archive' = archive /\ seen' = seen /\ taken' = taken
        /\ checked' = checked /\ extraction' = extraction /\ current' = current
    BY <1>9 DEF vars, locals
  <2>2. StructurePasses' = StructurePasses
    BY <2>1 DEF StructurePasses
  <2> QED BY <2>1, <2>2, <1>0 DEF ProgressInv, CephAllowed
<1> QED BY <1>1, <1>3, <1>4, <1>5, <1>6, <1>7, <1>8, <1>9 DEF Next, Step

-----------------------------------------------------------------------------
(* What the checks decide. *)

\* Past every check, what was seen is the whole archive, and it is well formed.
LEMMA PassedIsWellFormed ==
    ASSUME AdmissionInv, pc = "extract"
    PROVE  seen = Contents(archive) /\ WellFormed(current, archive)
<1>1. /\ archive \in Archive /\ archive.members \in Seq(Member)
      /\ Len(archive.members) \in Nat
      /\ DOMAIN archive.members = 1 .. Len(archive.members)
  BY DEF AdmissionInv, TypeOK, Archive
<1>2. /\ archive.readable /\ archive.size = archive.gzip
      /\ checked = Len(archive.members)
      /\ seen = {archive.members[i] : i \in 1 .. checked}
      /\ \A i, j \in 1 .. checked :
            i # j => Portable(archive.members[i].path)
                        # Portable(archive.members[j].path)
      /\ \A m \in seen : SafePath(m) /\ SupportedType(m)
                            /\ KnownRoot(m, CephAllowed(current))
      /\ StructurePasses
  BY DEF AdmissionInv, ProgressInv
<1>3. seen = Contents(archive)
  BY <1>1, <1>2 DEF Contents
<1>4. archive.aligned /\ Len(archive.tail) > 1 /\ archive.tail \in Seq({"zero"})
  <2>1. TarEnds(archive) /\ archive.tail \in Seq({"zero", "data"})
    BY <1>1, <1>2 DEF StructurePasses, Archive
  <2> QED BY <2>1 DEF TarEnds
<1>5. \A m \in seen :
         /\ m.kind \in {"dir", "file"}
         /\ m.path \in Seq(Names \ Unsafe)
         /\ m.path[1] = "node" \/ (m.path[1] = "ceph" /\ current = CephSource)
  <2> TAKE m \in seen
  <2>1. m.path \in Seq(Names)
    BY DEF AdmissionInv, TypeOK, Member, Path
  <2>2. \A i \in 1 .. Len(m.path) : m.path[i] \in Names \ Unsafe
    BY <2>1, <1>2 DEF SafePath
  <2>3. m.path \in Seq(Names \ Unsafe)
    BY <2>1, <2>2
  <2>4. m.path[1] = "node" \/ (m.path[1] = "ceph" /\ current = CephSource)
    BY <1>2 DEF KnownRoot, CephAllowed
  <2> QED BY <2>3, <2>4, <1>2 DEF SupportedType
<1>6. ASSUME NEW d \in Member, d.kind = "dir"
      PROVE  d = [path |-> d.path, kind |-> "dir"]
  BY <1>6 DEF Member
<1>7. \A m \in seen : \A i \in 1 .. Len(m.path) - 1 :
         [path |-> SubSeq(m.path, 1, i), kind |-> "dir"] \in seen
  <2> TAKE m \in seen
  <2> TAKE i \in 1 .. Len(m.path) - 1
  <2>1. PICK d \in seen : d.path = Ancestor(m.path, i) /\ d.kind = "dir"
    BY <1>2 DEF StructurePasses, AncestorsAreDirectories, HasDirectory
  <2>2. d \in Member
    BY DEF AdmissionInv, TypeOK
  <2> QED BY <2>1, <2>2, <1>6 DEF Ancestor
<1>8. {<<"node">>, <<"node", "probes">>, <<"node", "files">>}
         \subseteq {d.path : d \in {m \in seen : m.kind = "dir"}}
  BY <1>2 DEF StructurePasses, RequiredDirectories, HasDirectory
<1>9. <<"ceph">> \in {m.path : m \in seen} =>
         {[path |-> <<"ceph">>, kind |-> "dir"],
          [path |-> <<"ceph", "probes">>, kind |-> "dir"]} \subseteq seen
  <2> HAVE <<"ceph">> \in {m.path : m \in seen}
  <2>1. HasPath(seen, <<"ceph">>)
    BY DEF HasPath
  <2>2. HasDirectory(seen, <<"ceph">>) /\ HasDirectory(seen, <<"ceph", "probes">>)
    BY <2>1, <1>2 DEF StructurePasses, RequiredDirectories
  <2>3. seen \subseteq Member
    BY DEF AdmissionInv, TypeOK
  <2> QED BY <2>2, <2>3, <1>6 DEF HasDirectory
<1> QED BY <1>1, <1>2, <1>3, <1>4, <1>5, <1>7, <1>8, <1>9 DEF WellFormed

\* No rejection is of a well formed archive.
LEMMA RejectedIsIllFormed ==
    ASSUME AdmissionInv,
           RejectTrailing \/ RejectStream \/ RejectMember \/ RejectStructure
    PROVE  ~WellFormed(current, archive)
<1>1. /\ archive.members \in Seq(Member) /\ Len(archive.members) \in Nat
      /\ DOMAIN archive.members = 1 .. Len(archive.members)
      /\ archive.size \in Nat /\ archive.gzip \in Nat
      /\ taken \in 0 .. archive.size /\ checked \in 0 .. Len(archive.members)
      /\ archive.tail \in Seq({"zero", "data"})
  BY DEF AdmissionInv, TypeOK, Archive
<1>2. CASE RejectTrailing
  <2>1. ChunkEnd <= archive.size
    BY <1>1, ChunkPositive DEF ChunkEnd
  <2>2. archive.size # archive.gzip
    BY <1>1, <1>2, <2>1, ChunkPositive DEF RejectTrailing, ChunkEnd
  <2> QED BY <2>2 DEF WellFormed
<1>3. CASE RejectStream
  BY <1>1, <1>3 DEF RejectStream, WellFormed
<1>4. CASE RejectMember
  <2> DEFINE m == NextMember
  <2>1. /\ checked + 1 \in 1 .. Len(archive.members)
        /\ m = archive.members[checked + 1]
    BY <1>1, <1>4 DEF RejectMember, Remaining, NextMember
  <2>2. m \in Contents(archive)
    BY <1>1, <2>1 DEF Contents
  <2>3. ~MemberPasses(m, seen, CephAllowed(current))
    BY <1>4 DEF RejectMember
  <2>4. CASE ~SafePath(m)
    <3>1. PICK i \in DOMAIN m.path : m.path[i] \in Unsafe
      BY <2>4 DEF SafePath
    <3>2. m.path \notin Seq(Names \ Unsafe)
      BY <3>1
    <3> QED BY <2>2, <3>2 DEF WellFormed
  <2>5. CASE ~KnownRoot(m, CephAllowed(current))
    <3>1. ~(m.path[1] = "node" \/ (m.path[1] = "ceph" /\ current = CephSource))
      BY <2>5 DEF KnownRoot, CephAllowed
    <3> QED BY <2>2, <3>1 DEF WellFormed
  <2>6. CASE ~SupportedType(m)
    BY <2>2, <2>6 DEF SupportedType, WellFormed
  <2>7. CASE ~Unclaimed(m, seen)
    <3>1. PICK e \in seen : Portable(e.path) = Portable(m.path)
      BY <2>7 DEF Unclaimed
    <3>2. seen = {archive.members[i] : i \in 1 .. checked}
      BY <1>4 DEF AdmissionInv, ProgressInv, RejectMember
    <3>3. PICK i \in 1 .. checked : e = archive.members[i]
      BY <3>1, <3>2
    <3>4. /\ i \in DOMAIN archive.members
          /\ checked + 1 \in DOMAIN archive.members /\ i # checked + 1
      BY <1>1, <2>1, <3>3
    <3> QED BY <2>1, <3>1, <3>3, <3>4 DEF WellFormed
  <2> QED BY <2>3, <2>4, <2>5, <2>6, <2>7 DEF MemberPasses
<1>5. CASE RejectStructure
  <2>1. ~StructurePasses /\ checked = Len(archive.members) /\ pc = "check"
    BY <1>1, <1>5 DEF RejectStructure, Remaining
  <2>2. seen = Contents(archive)
    BY <1>1, <2>1 DEF AdmissionInv, ProgressInv, Contents
  <2>3. SUFFICES ASSUME WellFormed(current, archive) PROVE FALSE
    OBVIOUS
  <2>4. TarEnds(archive)
    <3>1. /\ archive.aligned /\ Len(archive.tail) > 1
          /\ archive.tail \in Seq({"zero"})
      BY <2>3 DEF WellFormed
    <3>2. Len(archive.tail) \in Nat
          /\ \A i \in DOMAIN archive.tail : archive.tail[i] \in {"zero"}
      BY <3>1
    <3> QED BY <3>1, <3>2 DEF TarEnds
  <2>5. AncestorsAreDirectories(seen)
    <3>1. \A m \in seen : \A i \in 1 .. Len(m.path) - 1 :
             [path |-> SubSeq(m.path, 1, i), kind |-> "dir"] \in seen
      BY <2>2, <2>3 DEF WellFormed
    <3> QED BY <3>1 DEF AncestorsAreDirectories, HasDirectory, Ancestor
  <2>6. RequiredDirectories(seen)
    <3>1. {<<"node">>, <<"node", "probes">>, <<"node", "files">>}
             \subseteq {d.path : d \in {m \in seen : m.kind = "dir"}}
      BY <2>2, <2>3 DEF WellFormed
    <3>2. HasPath(seen, <<"ceph">>) =>
             {[path |-> <<"ceph">>, kind |-> "dir"],
              [path |-> <<"ceph", "probes">>, kind |-> "dir"]} \subseteq seen
      <4>1. <<"ceph">> \in {m.path : m \in seen} =>
               {[path |-> <<"ceph">>, kind |-> "dir"],
                [path |-> <<"ceph", "probes">>, kind |-> "dir"]} \subseteq seen
        BY <2>2, <2>3 DEF WellFormed
      <4> QED BY <4>1 DEF HasPath
    <3>3. \A p \in {<<"node">>, <<"node", "probes">>, <<"node", "files">>} :
             HasDirectory(seen, p)
      BY <3>1 DEF HasDirectory
    <3> QED BY <3>2, <3>3 DEF RequiredDirectories, HasDirectory
  <2> QED BY <2>1, <2>4, <2>5, <2>6 DEF StructurePasses
<1> QED BY <1>2, <1>3, <1>4, <1>5

LEMMA NextVerdicts ==
    AdmissionInv /\ [Next]_vars => (AdmissionIsExact /\ ContributionWhole)'
<1> SUFFICES ASSUME AdmissionInv, [Next]_vars
             PROVE  (AdmissionIsExact /\ ContributionWhole)'
  OBVIOUS
<1>0. /\ TypeOK /\ TurnInv /\ AdmissionIsExact /\ ContributionWhole
      /\ current \in Nodes
  BY DEF AdmissionInv, TypeOK
<1>1. ASSUME NEW n \in Nodes, Spool(n)
      PROVE  (AdmissionIsExact /\ ContributionWhole)'
  <2>1. answer[n] = "none"
    BY <1>0, <1>1 DEF Spool, TurnInv
  <2>2. \A k \in Nodes : k # n => source'[k] = source[k]
    BY <1>0, <1>1 DEF Spool, TypeOK
  <2>3. answer' = answer /\ contributions' = contributions
    BY <1>1 DEF Spool
  <2> QED BY <1>0, <2>1, <2>2, <2>3 DEF AdmissionIsExact, ContributionWhole
<1>2. ASSUME Answer("rejected"), UNCHANGED contributions, Working,
             ~WellFormed(current, archive)
      PROVE  (AdmissionIsExact /\ ContributionWhole)'
  <2>1. /\ source' = source /\ source[current] = archive
        /\ answer' = [answer EXCEPT ![current] = "rejected"]
        /\ answer[current] = "none"
    BY <1>0, <1>2 DEF Answer, TurnInv
  <2>2. answer \in [Nodes -> {"none", "rejected", "failed", "admitted"}]
    BY <1>0 DEF TypeOK
  <2> QED BY <1>0, <1>2, <2>1, <2>2 DEF AdmissionIsExact, ContributionWhole
<1>3. CASE RejectTrailing \/ RejectStream \/ RejectMember \/ RejectStructure
  BY <1>2, <1>3, RejectedIsIllFormed DEF RejectTrailing, RejectStream,
     RejectMember, RejectStructure, Reject, Working
<1>4. CASE LocalFailure
  <2>1. /\ source' = source /\ contributions' = contributions
        /\ answer' = [answer EXCEPT ![current] = "failed"]
        /\ answer[current] = "none"
    BY <1>0, <1>4 DEF LocalFailure, Answer, TurnInv, Working
  <2>2. answer \in [Nodes -> {"none", "rejected", "failed", "admitted"}]
    BY <1>0 DEF TypeOK
  <2> QED BY <1>0, <2>1, <2>2 DEF AdmissionIsExact, ContributionWhole
<1>5. CASE Promote
  <2>1. /\ source' = source /\ source[current] = archive
        /\ contributions' = [contributions EXCEPT ![current] = extraction]
        /\ answer' = [answer EXCEPT ![current] = "admitted"]
        /\ pc = "extract"
    BY <1>0, <1>5 DEF Promote, Answer, TurnInv, Working
  <2>2. extraction = seen
    BY <1>0, <1>5 DEF Promote, TypeOK
  <2>3. seen = Contents(archive) /\ WellFormed(current, archive)
    BY <2>1, PassedIsWellFormed
  <2>4. /\ answer \in [Nodes -> {"none", "rejected", "failed", "admitted"}]
        /\ contributions \in [Nodes -> SUBSET Member]
    BY <1>0 DEF TypeOK
  <2> QED BY <1>0, <2>1, <2>2, <2>3, <2>4
          DEF AdmissionIsExact, ContributionWhole
<1>6. CASE answer' = answer /\ contributions' = contributions
           /\ source' = source
  BY <1>0, <1>6 DEF AdmissionIsExact, ContributionWhole
<1>7. CASE OpenTar \/ CheckStructure \/ ValidateTree \/ InflateChunk
           \/ CheckMember
  BY <1>6, <1>7 DEF OpenTar, CheckStructure, ValidateTree, InflateChunk,
                    CheckMember
<1>8. ASSUME NEW m \in seen, ExtractMember(m)
      PROVE  (AdmissionIsExact /\ ContributionWhole)'
  BY <1>6, <1>8 DEF ExtractMember
<1>9. CASE UNCHANGED vars
  BY <1>6, <1>9 DEF vars
<1> QED BY <1>1, <1>3, <1>4, <1>5, <1>7, <1>8, <1>9 DEF Next, Step

\* Types, whose turn it is, progress and verdicts, in every reachable state.
THEOREM AdmissionInvariant == Spec => []AdmissionInv
<1>1. AdmissionInv /\ [Next]_vars => AdmissionInv'
  BY NextTypes, NextTurn, NextProgress, NextVerdicts DEF AdmissionInv
<1> QED BY InitInv, <1>1, PTL DEF Spec

\* Every variable of the two boundaries keeps its type: the types of
\* admit_archive's locals and of the admitted trees.
THEOREM AdmissionTypes == Spec => []TypeOK
<1>1. AdmissionInv => TypeOK
  BY DEF AdmissionInv
<1> QED BY <1>1, AdmissionInvariant, PTL

\* admit_archive admits exactly the well formed archives, of any length and
\* read in chunks of any size.
THEOREM AdmissionDecidesExactly == Spec => []AdmissionIsExact
<1>1. AdmissionInv => AdmissionIsExact
  BY DEF AdmissionInv
<1> QED BY <1>1, AdmissionInvariant, PTL

\* A Target Node's contribution is its whole archive or nothing.
THEOREM ContributionsAreWhole == Spec => []ContributionWhole
<1>1. AdmissionInv => ContributionWhole
  BY DEF AdmissionInv
<1> QED BY <1>1, AdmissionInvariant, PTL

-----------------------------------------------------------------------------
(* Extraction. *)

LEMMA NeverObstructed == AdmissionInv => ExtractionUnobstructed
<1> SUFFICES ASSUME AdmissionInv, pc = "extract", NEW m \in seen, Due(m)
             PROVE  Unobstructed(m)
  BY DEF ExtractionUnobstructed
<1>1. /\ seen \subseteq Member /\ extraction \subseteq seen
      /\ archive.members \in Seq(Member)
  BY DEF AdmissionInv, TypeOK, Archive
<1>2. \A x \in seen : x.path \in Path /\ x.path \in Seq(Names)
  BY <1>1 DEF Member, Path
<1>3. /\ seen = {archive.members[i] : i \in 1 .. checked}
      /\ \A i, j \in 1 .. checked :
            i # j => Portable(archive.members[i].path)
                        # Portable(archive.members[j].path)
      /\ AncestorsAreDirectories(seen)
      /\ \A x \in seen : x.kind \in {"dir", "file"}
  BY DEF AdmissionInv, ProgressInv, StructurePasses, SupportedType
<1>4. \A x, y \in seen : Portable(x.path) = Portable(y.path) => x = y
  BY <1>3
<1>5. ASSUME Len(m.path) > 1
      PROVE  \E e \in extraction :
                /\ e.kind = "dir"
                /\ OnDisk(e.path) = OnDisk(Ancestor(m.path, Len(m.path) - 1))
  <2>1. Len(m.path) \in Nat /\ Len(m.path) - 1 \in 1 .. Len(m.path) - 1
    BY <1>2, <1>5
  <2>2. PICK d \in seen : d.path = Ancestor(m.path, Len(m.path) - 1)
                          /\ d.kind = "dir"
    BY <1>3, <2>1 DEF AncestorsAreDirectories, HasDirectory
  <2>3. Len(d.path) = Len(m.path) - 1
    BY <1>2, <2>1, <2>2, AncestorIsPath
  <2>4. d \in extraction
    <3>1. CASE m.kind = "dir"
      BY <2>1, <2>2, <2>3, <3>1 DEF Due
    <3>2. CASE m.kind = "file"
      BY <2>2, <3>2 DEF Due
    <3> QED BY <1>3, <3>1, <3>2
  <2> QED BY <2>2, <2>4
<1>6. ASSUME NEW e \in extraction PROVE OnDisk(e.path) # OnDisk(m.path)
  <2>1. SUFFICES ASSUME OnDisk(e.path) = OnDisk(m.path) PROVE FALSE
    OBVIOUS
  <2>2. e \in seen /\ e.path \in Seq(Names) /\ m.path \in Seq(Names)
    BY <1>1, <1>2
  <2>3. Portable(e.path) = Portable(m.path)
    BY <2>1, <2>2, OnDiskIsFiner
  <2>4. e = m
    BY <1>4, <2>2, <2>3
  <2> QED BY <2>4 DEF Due
<1> QED BY <1>5, <1>6 DEF Unobstructed

\* On every file system the portable rule covers, extraction meets every
\* parent it needs and no name already taken.
THEOREM ExtractionIsUnobstructed == Spec => []ExtractionUnobstructed
BY NeverObstructed, AdmissionInvariant, PTL

-----------------------------------------------------------------------------
(* The final tree. *)

\* What publication knows of an admitted contribution, by its archive.
LEMMA ContributionFacts ==
    ASSUME AdmissionInv, NEW n \in Admitted
    PROVE  LET tree == contributions[n] IN
           /\ n \in Nodes
           /\ tree \subseteq Member
           /\ \A m \in tree : /\ m.path \in Path /\ m.path \in Seq(Names)
                              /\ m.kind \in {"dir", "file"}
                              /\ m.path \in Seq(Names \ Unsafe)
                              /\ m.path[1] = "node"
                                 \/ (m.path[1] = "ceph" /\ n = CephSource)
           /\ \A x, y \in tree : Portable(x.path) = Portable(y.path) => x = y
           /\ AncestorsAreDirectories(tree)
           /\ RequiredDirectories(tree)
<1> DEFINE tree == contributions[n]
<1>1. n \in Nodes /\ tree # {}
  BY DEF Admitted
<1>2. tree = Contents(source[n]) /\ WellFormed(n, source[n])
  BY <1>1 DEF AdmissionInv, ContributionWhole, AdmissionIsExact
<1>3. tree \subseteq Member
  BY <1>1 DEF AdmissionInv, TypeOK
<1>4. \A m \in tree : m.path \in Path /\ m.path \in Seq(Names)
  BY <1>3 DEF Member, Path
<1>5. \A m \in tree : /\ m.kind \in {"dir", "file"}
                      /\ m.path \in Seq(Names \ Unsafe)
                      /\ m.path[1] = "node"
                         \/ (m.path[1] = "ceph" /\ n = CephSource)
  BY <1>2 DEF WellFormed
<1>6. \A x, y \in tree : Portable(x.path) = Portable(y.path) => x = y
  <2> DEFINE ms == source[n].members
  <2>1. \A i, j \in DOMAIN ms :
           i # j => Portable(ms[i].path) # Portable(ms[j].path)
    BY <1>2 DEF WellFormed
  <2>2. tree = {ms[i] : i \in DOMAIN ms}
    BY <1>2 DEF Contents
  <2> HIDE DEF tree, ms
  <2> QED BY <2>1, <2>2
<1>7. AncestorsAreDirectories(tree)
  <2>1. \A m \in tree : \A i \in 1 .. Len(m.path) - 1 :
           [path |-> SubSeq(m.path, 1, i), kind |-> "dir"] \in tree
    <3>1. \A m \in Contents(source[n]) : \A i \in 1 .. Len(m.path) - 1 :
             [path |-> SubSeq(m.path, 1, i), kind |-> "dir"]
                \in Contents(source[n])
      BY <1>2 DEF WellFormed
    <3> QED BY <1>2, <3>1
  <2> QED BY <2>1 DEF AncestorsAreDirectories, HasDirectory, Ancestor
<1>8. RequiredDirectories(tree)
  <2>1. {<<"node">>, <<"node", "probes">>, <<"node", "files">>}
           \subseteq {d.path : d \in {m \in tree : m.kind = "dir"}}
    BY <1>2 DEF WellFormed
  <2>2. HasPath(tree, <<"ceph">>) =>
           {[path |-> <<"ceph">>, kind |-> "dir"],
            [path |-> <<"ceph", "probes">>, kind |-> "dir"]} \subseteq tree
    <3>1. <<"ceph">> \in {m.path : m \in tree} =>
             {[path |-> <<"ceph">>, kind |-> "dir"],
              [path |-> <<"ceph", "probes">>, kind |-> "dir"]} \subseteq tree
      BY <1>2 DEF WellFormed
    <3> QED BY <3>1 DEF HasPath
  <2>3. \A p \in {<<"node">>, <<"node", "probes">>, <<"node", "files">>} :
           HasDirectory(tree, p)
    BY <2>1 DEF HasDirectory
  <2> QED BY <2>2, <2>3 DEF RequiredDirectories, HasDirectory
<1> QED BY <1>1, <1>3, <1>4, <1>5, <1>6, <1>7, <1>8

LEMMA NodeDestination ==
    ASSUME NEW n \in Nodes, NEW p \in Path, p[1] = "node"
    PROVE  /\ Destination(n, p) \in Seq(Names)
           /\ Len(Destination(n, p)) = Len(p) + 2
           /\ Destination(n, p)[1] = Root
           /\ Destination(n, p)[2] = "nodes"
           /\ Destination(n, p)[3] = n
           /\ \A i \in 2 .. Len(p) : Destination(n, p)[i + 2] = p[i]
<1>1. /\ Tail(p) \in Seq(Names) /\ Len(Tail(p)) = Len(p) - 1
      /\ Len(p) \in Nat /\ Len(p) > 0
      /\ \A i \in 1 .. Len(p) - 1 : Tail(p)[i] = p[i + 1]
  BY DEF Path
<1>2. <<Root, "nodes", n>> \in Seq(Names)
  BY WordsFold DEF Words
<1>3. Destination(n, p) = <<Root, "nodes", n>> \o Tail(p)
  BY DEF Destination
<1>4. /\ Destination(n, p) \in Seq(Names)
      /\ Len(Destination(n, p)) = Len(p) + 2
  BY <1>1, <1>2, <1>3
<1>5. /\ Destination(n, p)[1] = Root
      /\ Destination(n, p)[2] = "nodes"
      /\ Destination(n, p)[3] = n
  BY <1>1, <1>2, <1>3
<1>6. ASSUME NEW i \in 2 .. Len(p) PROVE Destination(n, p)[i + 2] = p[i]
  <2>1. i - 1 \in 1 .. Len(p) - 1 /\ i + 2 = 3 + (i - 1) /\ (i - 1) + 1 = i
    BY <1>1
  <2>2. Destination(n, p)[i + 2] = Tail(p)[i - 1]
    BY <1>1, <1>2, <1>3, <2>1
  <2> QED BY <1>1, <2>1, <2>2
<1> QED BY <1>4, <1>5, <1>6

LEMMA CephDestination ==
    ASSUME NEW n \in Nodes, NEW p \in Path, p[1] = "ceph"
    PROVE  /\ Destination(n, p) \in Seq(Names)
           /\ Len(Destination(n, p)) = Len(p) + 1
           /\ Destination(n, p)[1] = Root
           /\ Destination(n, p)[2] = "ceph"
           /\ \A i \in 1 .. Len(p) : Destination(n, p)[i + 1] = p[i]
<1>1. p \in Seq(Names) /\ Len(p) \in Nat /\ Len(p) > 0
  BY DEF Path
<1>2. <<Root>> \in Seq(Names)
  BY WordsFold DEF Words
<1>3. Destination(n, p) = <<Root>> \o p
  BY DEF Destination
<1>4. /\ Destination(n, p) \in Seq(Names)
      /\ Len(Destination(n, p)) = Len(p) + 1
  BY <1>1, <1>2, <1>3
<1>5. Destination(n, p)[1] = Root
  BY <1>1, <1>2, <1>3
<1>6. ASSUME NEW i \in 1 .. Len(p) PROVE Destination(n, p)[i + 1] = p[i]
  BY <1>1, <1>2, <1>3
<1>7. Destination(n, p)[2] = "ceph"
  <2>1. 1 \in 1 .. Len(p) /\ 1 + 1 = 2
    BY <1>1
  <2> QED BY <1>6, <2>1
<1> QED BY <1>4, <1>5, <1>6, <1>7

\* The four entries every bundle has.
LEMMA FixedFacts ==
    ASSUME NEW e \in FixedEntries
    PROVE  /\ e.to \in Seq(Names)
           /\ Len(e.to) \in {1, 2}
           /\ Len(e.to) = 1 => e.isDirectory
           /\ Len(e.to) = 2 => e.to[2] \in {"inventory.ini", "nodes", "ceph"}
           /\ Len(e.to) = 2 /\ e.to[2] # "inventory.ini" => e.isDirectory
<1>1. {Root, "inventory.ini", "nodes", "ceph"} \subseteq Names
  BY WordsFold DEF Words
<1>2. CASE e = [from |-> <<>>, to |-> <<Root>>, isDirectory |-> TRUE]
  BY <1>1, <1>2
<1>3. ASSUME NEW w \in {"inventory.ini", "nodes", "ceph"},
             e.to = <<Root, w>>, w = "inventory.ini" \/ e.isDirectory
      PROVE  /\ e.to \in Seq(Names) /\ Len(e.to) = 2 /\ e.to[2] = w
             /\ w # "inventory.ini" => e.isDirectory
  <2>1. <<Root, w>> \in Seq(Names)
    BY <1>1
  <2>2. Len(<<Root, w>>) = 2 /\ <<Root, w>>[2] = w
    OBVIOUS
  <2> QED BY <1>3, <2>1, <2>2
<1>4. \/ e = [from |-> <<>>, to |-> <<Root>>, isDirectory |-> TRUE]
      \/ \E w \in {"inventory.ini", "nodes", "ceph"} :
            e.to = <<Root, w>> /\ (w = "inventory.ini" \/ e.isDirectory)
  BY DEF FixedEntries
<1> QED BY <1>2, <1>3, <1>4

\* Two entries of one name are one entry.
LEMMA FixedApart ==
    ASSUME NEW e \in FixedEntries, NEW f \in FixedEntries,
           Portable(e.to) = Portable(f.to)
    PROVE  e = f
<1>1. /\ e.to \in Seq(Names) /\ f.to \in Seq(Names)
      /\ Len(e.to) = Len(f.to) /\ Len(e.to) \in {1, 2}
      /\ \A i \in 1 .. Len(e.to) : Fold[e.to[i]] = Fold[f.to[i]]
  BY FixedFacts, PortableEqual
<1>2. CASE Len(e.to) = 1
  <2>1. \A g \in FixedEntries :
           Len(g.to) = 1 => g = [from |-> <<>>, to |-> <<Root>>,
                                 isDirectory |-> TRUE]
    <3>1. \A x \in {"inventory.ini", "nodes", "ceph"} : Len(<<Root, x>>) = 2
      OBVIOUS
    <3> TAKE g \in FixedEntries
    <3>2. \/ g = [from |-> <<>>, to |-> <<Root>>, isDirectory |-> TRUE]
          \/ \E x \in {"inventory.ini", "nodes", "ceph"} : g.to = <<Root, x>>
      BY DEF FixedEntries
    <3> QED BY <3>1, <3>2
  <2> QED BY <1>1, <1>2, <2>1
<1>3. CASE Len(e.to) = 2
  <2>1. /\ e.to[2] \in {"inventory.ini", "nodes", "ceph"}
        /\ f.to[2] \in {"inventory.ini", "nodes", "ceph"}
    BY <1>1, <1>3, FixedFacts
  <2>2. \A w \in {"inventory.ini", "nodes", "ceph"} : Fold[w] = w
    BY WordsFold DEF Words
  <2>3. Fold[e.to[2]] = Fold[f.to[2]]
    BY <1>1, <1>3
  <2>4. e.to[2] = f.to[2]
    BY <2>1, <2>2, <2>3
  <2>5. \A g \in FixedEntries : Len(g.to) = 2 =>
           g = [from |-> <<>>, to |-> <<Root, g.to[2]>>,
                isDirectory |-> g.to[2] # "inventory.ini"]
    <3> TAKE g \in FixedEntries
    <3>1. CASE g = [from |-> <<>>, to |-> <<Root>>, isDirectory |-> TRUE]
      BY <3>1
    <3>2. ASSUME NEW w \in {"inventory.ini", "nodes", "ceph"},
                 g = [from |-> <<>>, to |-> <<Root, w>>,
                      isDirectory |-> w # "inventory.ini"]
          PROVE  g = [from |-> <<>>, to |-> <<Root, g.to[2]>>,
                      isDirectory |-> g.to[2] # "inventory.ini"]
      <4>1. g.to[2] = w
        BY <3>2
      <4> QED BY <3>2, <4>1
    <3> QED BY <3>1, <3>2 DEF FixedEntries
  <2> QED BY <1>1, <1>3, <2>4, <2>5
<1> QED BY <1>1, <1>2, <1>3

\* An entry of a contribution, and the member it stands for.
LEMMA ContributionEntry ==
    ASSUME AdmissionInv, NEW n \in Admitted, NEW e \in ContributionEntries(n)
    PROVE  \E m \in contributions[n] :
              /\ e = [from |-> <<n>> \o m.path, to |-> Destination(n, m.path),
                      isDirectory |-> m.kind = "dir"]
              /\ m.path \in Path /\ m.path \in Seq(Names) /\ Len(m.path) \in Nat
              /\ e.to \in Seq(Names) /\ Len(e.to) > 2
              /\ \/ m.path[1] = "node" /\ e.to[2] = "nodes"
                 \/ m.path[1] = "ceph" /\ e.to[2] = "ceph" /\ n = CephSource
<1>1. PICK m \in contributions[n] :
         /\ e = [from |-> <<n>> \o m.path, to |-> Destination(n, m.path),
                 isDirectory |-> m.kind = "dir"]
         /\ m.path # <<"ceph">>
  BY DEF ContributionEntries
<1>2. /\ n \in Nodes /\ m.path \in Path /\ m.path \in Seq(Names)
      /\ m.path[1] = "node" \/ (m.path[1] = "ceph" /\ n = CephSource)
  BY ContributionFacts
<1>3. Len(m.path) \in Nat /\ Len(m.path) > 0
  BY <1>2 DEF Path
<1>4. e.to = Destination(n, m.path)
  BY <1>1
<1> DEFINE Facts == /\ e.to \in Seq(Names) /\ Len(e.to) > 2
                    /\ \/ m.path[1] = "node" /\ e.to[2] = "nodes"
                       \/ /\ m.path[1] = "ceph" /\ e.to[2] = "ceph"
                          /\ n = CephSource
<1>5. ASSUME m.path[1] = "node" PROVE Facts
  <2>1. /\ Destination(n, m.path) \in Seq(Names)
        /\ Len(Destination(n, m.path)) = Len(m.path) + 2
        /\ Destination(n, m.path)[2] = "nodes"
    BY <1>2, <1>5, NodeDestination
  <2>2. e.to \in Seq(Names) /\ Len(e.to) > 2 /\ e.to[2] = "nodes"
    BY <1>3, <1>4, <2>1
  <2> QED BY <1>5, <2>2
<1>6. ASSUME m.path[1] = "ceph" /\ n = CephSource PROVE Facts
  <2>1. /\ Destination(n, m.path) \in Seq(Names)
        /\ Len(Destination(n, m.path)) = Len(m.path) + 1
        /\ Destination(n, m.path)[2] = "ceph"
    BY <1>2, <1>6, CephDestination
  <2>2. Len(m.path) # 1
    <3>1. SUFFICES ASSUME Len(m.path) = 1 PROVE FALSE
      OBVIOUS
    <3>2. m.path = <<m.path[1]>>
      BY <1>2, <3>1
    <3> QED BY <1>1, <1>6, <3>2
  <2>3. e.to \in Seq(Names) /\ Len(e.to) > 2 /\ e.to[2] = "ceph"
    <3> HIDE DEF Facts
    <3>0. \A x \in Nat : x > 0 /\ x # 1 => x + 1 > 2
      OBVIOUS
    <3>1. Len(m.path) + 1 > 2
      BY <1>3, <2>2, <3>0
    <3>2. Len(e.to) > 2
      BY <1>4, <2>1, <3>1
    <3> QED BY <1>4, <2>1, <3>2
  <2> QED BY <1>6, <2>3
<1>7. Facts
  BY <1>2, <1>5, <1>6
<1> QED BY <1>1, <1>2, <1>3, <1>7

\* Two entries of one kind whose names agree up to some length come from one
\* Target Node and from paths that agree up to the matching length.
LEMMA AgreementBelow ==
    ASSUME NEW n \in Nodes, NEW k \in Nodes,
           NEW p \in Path, NEW q \in Path,
           p \in Seq(Names), q \in Seq(Names),
           Len(Destination(n, p)) <= Len(Destination(k, q)),
           \A i \in 1 .. Len(Destination(n, p)) :
              Fold[Destination(n, p)[i]] = Fold[Destination(k, q)[i]],
           \/ p[1] = "node" /\ q[1] = "node"
           \/ p[1] = "ceph" /\ q[1] = "ceph" /\ n = CephSource /\ k = CephSource
    PROVE  /\ n = k
           /\ Len(p) \in Nat /\ Len(q) \in Nat /\ Len(p) <= Len(q)
           /\ Len(q) - Len(p) = Len(Destination(k, q)) - Len(Destination(n, p))
           /\ \A i \in 1 .. Len(p) : Fold[p[i]] = Fold[q[i]]
<1>1. Len(p) \in Nat /\ Len(q) \in Nat /\ Len(p) > 0 /\ Len(q) > 0
  BY DEF Path
<1>2. CASE p[1] = "node" /\ q[1] = "node"
  <2>1. /\ Len(Destination(n, p)) = Len(p) + 2
        /\ Destination(n, p)[3] = n
        /\ \A i \in 2 .. Len(p) : Destination(n, p)[i + 2] = p[i]
    BY <1>2, NodeDestination
  <2>2. /\ Len(Destination(k, q)) = Len(q) + 2
        /\ Destination(k, q)[3] = k
        /\ \A i \in 2 .. Len(q) : Destination(k, q)[i + 2] = q[i]
    BY <1>2, NodeDestination
  <2>3. Len(p) <= Len(q)
    BY <1>1, <2>1, <2>2
  <2>4. Fold[n] = Fold[k]
    BY <1>1, <2>1, <2>2
  <2>5. n = k
    BY <2>4, NodesPortable
  <2>6. ASSUME NEW i \in 2 .. Len(p) PROVE Fold[p[i]] = Fold[q[i]]
    <3>1. /\ i + 2 \in 1 .. Len(Destination(n, p)) /\ i \in 2 .. Len(q)
      BY <1>1, <2>1, <2>3
    <3>2. Destination(n, p)[i + 2] = p[i] /\ Destination(k, q)[i + 2] = q[i]
      BY <2>1, <2>2, <3>1
    <3> QED BY <3>1, <3>2
  <2>7. \A i \in 1 .. Len(p) : i = 1 \/ i \in 2 .. Len(p)
    BY <1>1
  <2>8. \A i \in 1 .. Len(p) : Fold[p[i]] = Fold[q[i]]
    BY <1>2, <2>6, <2>7
  <2>9. Len(q) - Len(p) = Len(Destination(k, q)) - Len(Destination(n, p))
    BY <1>1, <2>1, <2>2
  <2> QED BY <1>1, <2>3, <2>5, <2>8, <2>9
<1>3. CASE p[1] = "ceph" /\ q[1] = "ceph" /\ n = CephSource /\ k = CephSource
  <2>1. /\ Len(Destination(n, p)) = Len(p) + 1
        /\ \A i \in 1 .. Len(p) : Destination(n, p)[i + 1] = p[i]
    BY <1>3, CephDestination
  <2>2. /\ Len(Destination(k, q)) = Len(q) + 1
        /\ \A i \in 1 .. Len(q) : Destination(k, q)[i + 1] = q[i]
    BY <1>3, CephDestination
  <2>3. Len(p) <= Len(q)
    BY <1>1, <2>1, <2>2
  <2>4. ASSUME NEW i \in 1 .. Len(p) PROVE Fold[p[i]] = Fold[q[i]]
    <3>1. /\ i + 1 \in 1 .. Len(Destination(n, p)) /\ i \in 1 .. Len(q)
      BY <1>1, <2>1, <2>3
    <3>2. Destination(n, p)[i + 1] = p[i] /\ Destination(k, q)[i + 1] = q[i]
      BY <2>1, <2>2, <3>1
    <3> QED BY <3>1, <3>2
  <2>5. Len(q) - Len(p) = Len(Destination(k, q)) - Len(Destination(n, p))
    BY <1>1, <2>1, <2>2
  <2> QED BY <1>1, <1>3, <2>3, <2>4, <2>5
<1> QED BY <1>2, <1>3

LEMMA ContributionsApart ==
    ASSUME AdmissionInv, NEW n \in Admitted, NEW k \in Admitted,
           NEW e \in ContributionEntries(n), NEW f \in ContributionEntries(k),
           Portable(e.to) = Portable(f.to)
    PROVE  e = f
<1>1. PICK x \in contributions[n] :
         /\ e = [from |-> <<n>> \o x.path, to |-> Destination(n, x.path),
                 isDirectory |-> x.kind = "dir"]
         /\ x.path \in Path /\ x.path \in Seq(Names)
         /\ e.to \in Seq(Names) /\ Len(e.to) > 2
         /\ \/ x.path[1] = "node" /\ e.to[2] = "nodes"
            \/ x.path[1] = "ceph" /\ e.to[2] = "ceph" /\ n = CephSource
  BY ContributionEntry
<1>2. PICK y \in contributions[k] :
         /\ f = [from |-> <<k>> \o y.path, to |-> Destination(k, y.path),
                 isDirectory |-> y.kind = "dir"]
         /\ y.path \in Path /\ y.path \in Seq(Names)
         /\ f.to \in Seq(Names) /\ Len(f.to) > 2
         /\ \/ y.path[1] = "node" /\ f.to[2] = "nodes"
            \/ y.path[1] = "ceph" /\ f.to[2] = "ceph" /\ k = CephSource
  BY ContributionEntry
<1>3. e.to = Destination(n, x.path) /\ f.to = Destination(k, y.path)
  BY <1>1, <1>2
<1>4. /\ Len(e.to) = Len(f.to)
      /\ \A i \in 1 .. Len(e.to) : Fold[e.to[i]] = Fold[f.to[i]]
  BY <1>1, <1>2, PortableEqual
<1>5. Fold[e.to[2]] = Fold[f.to[2]]
  <2>1. 2 \in 1 .. Len(e.to)
    BY <1>1
  <2> QED BY <1>4, <2>1
<1>6. Fold["nodes"] # Fold["ceph"]
  BY WordsFold DEF Words
<1>7. \/ x.path[1] = "node" /\ y.path[1] = "node"
      \/ x.path[1] = "ceph" /\ y.path[1] = "ceph"
         /\ n = CephSource /\ k = CephSource
  BY <1>1, <1>2, <1>5, <1>6
<1>8. n \in Nodes /\ k \in Nodes
  BY DEF Admitted
<1>9. /\ Len(Destination(n, x.path)) \in Nat /\ Len(Destination(k, y.path)) \in Nat
      /\ Len(Destination(n, x.path)) = Len(Destination(k, y.path))
  BY <1>1, <1>3, <1>4
<1>10. \A i \in 1 .. Len(Destination(n, x.path)) :
          Fold[Destination(n, x.path)[i]] = Fold[Destination(k, y.path)[i]]
  BY <1>3, <1>4
<1>11. /\ n = k /\ Len(x.path) \in Nat /\ Len(y.path) \in Nat
       /\ Len(y.path) - Len(x.path)
             = Len(Destination(k, y.path)) - Len(Destination(n, x.path))
       /\ \A i \in 1 .. Len(x.path) : Fold[x.path[i]] = Fold[y.path[i]]
  <2>1. Len(Destination(n, x.path)) <= Len(Destination(k, y.path))
    BY <1>9
  <2>2. /\ x.path \in Path /\ x.path \in Seq(Names)
        /\ y.path \in Path /\ y.path \in Seq(Names)
    BY <1>1, <1>2
  <2>3. ASSUME NEW p \in Path, NEW q \in Path, p = x.path, q = y.path
        PROVE  /\ n = k /\ Len(p) \in Nat /\ Len(q) \in Nat
               /\ Len(q) - Len(p)
                     = Len(Destination(k, q)) - Len(Destination(n, p))
               /\ \A i \in 1 .. Len(p) : Fold[p[i]] = Fold[q[i]]
    <3>1. p \in Seq(Names) /\ q \in Seq(Names)
      BY DEF Path
    <3>2. Len(Destination(n, p)) <= Len(Destination(k, q))
      BY <2>1, <2>3
    <3>3. \A i \in 1 .. Len(Destination(n, p)) :
             Fold[Destination(n, p)[i]] = Fold[Destination(k, q)[i]]
      BY <1>10, <2>3
    <3>4. \/ p[1] = "node" /\ q[1] = "node"
          \/ p[1] = "ceph" /\ q[1] = "ceph" /\ n = CephSource /\ k = CephSource
      BY <1>7, <2>3
    <3> HIDE <2>3
    <3> QED BY <1>8, <3>1, <3>2, <3>3, <3>4, AgreementBelow
  <2> QED BY <2>2, <2>3
<1>12. Len(x.path) = Len(y.path)
  BY <1>9, <1>11
<1>13. Portable(x.path) = Portable(y.path)
  BY <1>1, <1>2, <1>11, <1>12, PortableEqual
<1>14. x = y
  BY <1>11, <1>13, ContributionFacts
<1> QED BY <1>1, <1>2, <1>11, <1>14

LEMMA ContributionsBelowDirectories ==
    ASSUME AdmissionInv, NEW n \in Admitted, NEW k \in Admitted,
           NEW f \in ContributionEntries(n), NEW e \in ContributionEntries(k),
           NEW length \in 1 .. Len(e.to) - 1,
           f.to = Ancestor(e.to, length)
    PROVE  f.isDirectory
<1>1. PICK x \in contributions[n] :
         /\ f = [from |-> <<n>> \o x.path, to |-> Destination(n, x.path),
                 isDirectory |-> x.kind = "dir"]
         /\ x.path \in Path /\ x.path \in Seq(Names)
         /\ f.to \in Seq(Names) /\ Len(f.to) > 2
         /\ \/ x.path[1] = "node" /\ f.to[2] = "nodes"
            \/ x.path[1] = "ceph" /\ f.to[2] = "ceph" /\ n = CephSource
  BY ContributionEntry
<1>2. PICK y \in contributions[k] :
         /\ e = [from |-> <<k>> \o y.path, to |-> Destination(k, y.path),
                 isDirectory |-> y.kind = "dir"]
         /\ y.path \in Path /\ y.path \in Seq(Names)
         /\ e.to \in Seq(Names) /\ Len(e.to) > 2
         /\ \/ y.path[1] = "node" /\ e.to[2] = "nodes"
            \/ y.path[1] = "ceph" /\ e.to[2] = "ceph" /\ k = CephSource
  BY ContributionEntry
<1>3. e.to = Destination(k, y.path) /\ f.to = Destination(n, x.path)
  BY <1>1, <1>2
<1>4. /\ Len(f.to) = length /\ length \in Nat /\ Len(e.to) \in Nat
      /\ length < Len(e.to)
      /\ \A i \in 1 .. Len(f.to) : f.to[i] = e.to[i]
  BY <1>1, <1>2 DEF Ancestor
<1>5. f.to[2] = e.to[2]
  <2>1. 2 \in 1 .. Len(f.to)
    BY <1>1
  <2> QED BY <1>4, <2>1
<1>6. \/ x.path[1] = "node" /\ y.path[1] = "node"
      \/ x.path[1] = "ceph" /\ y.path[1] = "ceph"
         /\ n = CephSource /\ k = CephSource
  BY <1>1, <1>2, <1>5
<1>7. n \in Nodes /\ k \in Nodes
  BY DEF Admitted
<1>8. /\ n = k /\ Len(x.path) \in Nat /\ Len(y.path) \in Nat
      /\ Len(y.path) - Len(x.path) = Len(e.to) - Len(f.to)
      /\ \A i \in 1 .. Len(x.path) : Fold[x.path[i]] = Fold[y.path[i]]
  <2>1. Len(Destination(n, x.path)) <= Len(Destination(k, y.path))
    BY <1>3, <1>4
  <2>2. \A i \in 1 .. Len(Destination(n, x.path)) :
           Fold[Destination(n, x.path)[i]] = Fold[Destination(k, y.path)[i]]
    BY <1>3, <1>4
  <2>3. /\ x.path \in Path /\ x.path \in Seq(Names)
        /\ y.path \in Path /\ y.path \in Seq(Names)
    BY <1>1, <1>2
  <2>4. ASSUME NEW p \in Path, NEW q \in Path, p = x.path, q = y.path
        PROVE  /\ n = k /\ Len(p) \in Nat /\ Len(q) \in Nat
               /\ Len(q) - Len(p)
                     = Len(Destination(k, q)) - Len(Destination(n, p))
               /\ \A i \in 1 .. Len(p) : Fold[p[i]] = Fold[q[i]]
    <3>1. p \in Seq(Names) /\ q \in Seq(Names)
      BY DEF Path
    <3>2. Len(Destination(n, p)) <= Len(Destination(k, q))
      BY <2>1, <2>4
    <3>3. \A i \in 1 .. Len(Destination(n, p)) :
             Fold[Destination(n, p)[i]] = Fold[Destination(k, q)[i]]
      BY <2>2, <2>4
    <3>4. \/ p[1] = "node" /\ q[1] = "node"
          \/ p[1] = "ceph" /\ q[1] = "ceph" /\ n = CephSource /\ k = CephSource
      BY <1>6, <2>4
    <3> HIDE <2>4
    <3> QED BY <1>7, <3>1, <3>2, <3>3, <3>4, AgreementBelow
  <2> QED BY <1>3, <2>3, <2>4
<1>9. Len(x.path) \in 1 .. Len(y.path) - 1 /\ Len(x.path) \in 1 .. Len(y.path)
  <2>1. Len(x.path) > 0
    BY <1>1 DEF Path
  <2>2. \A a, b, c, d \in Nat :
           b - a = d - c /\ c < d /\ a > 0 => a \in 1 .. b - 1 /\ a \in 1 .. b
    OBVIOUS
  <2>3. Len(f.to) \in Nat /\ Len(e.to) \in Nat /\ Len(f.to) < Len(e.to)
    BY <1>4
  <2> HIDE <1>1, <1>2
  <2> QED BY <1>8, <2>1, <2>2, <2>3
<1>10. PICK d \in contributions[n] :
          d.path = Ancestor(y.path, Len(x.path)) /\ d.kind = "dir"
  <2>1. AncestorsAreDirectories(contributions[n])
    BY ContributionFacts
  <2> QED BY <1>2, <1>8, <1>9, <2>1 DEF AncestorsAreDirectories, HasDirectory
<1>11. /\ d.path \in Seq(Names) /\ Len(d.path) = Len(x.path)
       /\ \A i \in 1 .. Len(x.path) : d.path[i] = y.path[i]
  <2>1. d.path \in Seq(Names)
    BY ContributionFacts
  <2> QED BY <1>2, <1>9, <1>10, <2>1, AncestorIsPath
<1>12. Portable(d.path) = Portable(x.path)
  <2>1. x.path \in Seq(Names)
    BY <1>1
  <2>2. \A i \in 1 .. Len(d.path) : Fold[d.path[i]] = Fold[x.path[i]]
    BY <1>8, <1>11
  <2> QED BY <1>11, <2>1, <2>2, PortableEqual
<1>13. d = x
  BY <1>12, ContributionFacts
<1> QED BY <1>1, <1>10, <1>13

\* The whole of _validate_archive_paths accepts the admitted entries.
LEMMA EntriesPass == AdmissionInv => PathsPass(Entries)
<1> SUFFICES ASSUME AdmissionInv PROVE PathsPass(Entries)
  OBVIOUS
<1>1. ASSUME NEW e \in Entries
      PROVE  e \in FixedEntries \/ \E n \in Admitted : e \in ContributionEntries(n)
  BY DEF Entries
<1>2. ASSUME NEW e \in FixedEntries
      PROVE  e.to \in Seq(Names) /\ Len(e.to) <= 2
  <2>1. e.to \in Seq(Names) /\ Len(e.to) \in {1, 2}
    BY FixedFacts
  <2>2. \A x \in {1, 2} : x <= 2
    OBVIOUS
  <2> QED BY <2>1, <2>2
<1>3. ASSUME NEW n \in Admitted, NEW e \in ContributionEntries(n)
      PROVE  /\ e.to \in Seq(Names) /\ Len(e.to) > 2
             /\ e.to[2] # "inventory.ini"
  BY ContributionEntry
<1>4. ASSUME NEW e \in Entries, NEW f \in Entries,
             Portable(e.to) = Portable(f.to)
      PROVE  e = f
  <2>1. Len(e.to) = Len(f.to) /\ Len(e.to) \in Nat
    BY <1>1, <1>2, <1>3, <1>4, PortableEqual
  <2>2. CASE e \in FixedEntries /\ f \in FixedEntries
    BY <1>4, <2>2, FixedApart
  <2>3. CASE /\ \E n \in Admitted : e \in ContributionEntries(n)
             /\ \E n \in Admitted : f \in ContributionEntries(n)
    BY <1>4, <2>3, ContributionsApart
  <2>4. CASE /\ e \in FixedEntries
             /\ \E n \in Admitted : f \in ContributionEntries(n)
    BY <1>2, <1>3, <2>1, <2>4
  <2>5. CASE /\ f \in FixedEntries
             /\ \E n \in Admitted : e \in ContributionEntries(n)
    BY <1>2, <1>3, <2>1, <2>5
  <2> QED BY <1>1, <2>2, <2>3, <2>4, <2>5
<1>5. ASSUME NEW e \in Entries, NEW f \in Entries,
             NEW length \in 1 .. Len(e.to) - 1,
             f.to = Ancestor(e.to, length)
      PROVE  f.isDirectory
  <2>1. /\ e.to \in Seq(Names) /\ Len(e.to) \in Nat
        /\ length \in Nat /\ length > 0 /\ length < Len(e.to)
        /\ Len(f.to) = length
        /\ \A i \in 1 .. length : f.to[i] = e.to[i]
    <3>1. e.to \in Seq(Names) /\ Len(e.to) \in Nat
      BY <1>1, <1>2, <1>3
    <3> QED BY <1>5, <3>1 DEF Ancestor
  <2>2. CASE f \in FixedEntries
    <3>1. CASE Len(f.to) = 1
      BY <2>2, <3>1, FixedFacts
    <3>2. CASE Len(f.to) = 2
      <4>1. Len(e.to) > 2 /\ f.to[2] = e.to[2]
        BY <2>1, <3>2
      <4>2. e.to[2] # "inventory.ini"
        BY <1>1, <1>2, <1>3, <4>1
      <4> QED BY <2>2, <3>2, <4>1, <4>2, FixedFacts
    <3> QED BY <2>2, <3>1, <3>2, FixedFacts
  <2>3. ASSUME NEW n \in Admitted, f \in ContributionEntries(n)
        PROVE  f.isDirectory
    <3>1. Len(e.to) > 2
      BY <1>3, <2>1, <2>3
    <3>2. PICK k \in Admitted : e \in ContributionEntries(k)
      BY <1>1, <1>2, <3>1
    <3> QED BY <1>5, <2>3, <3>2, ContributionsBelowDirectories
  <2> QED BY <1>1, <2>2, <2>3
<1> QED BY <1>4, <1>5 DEF PathsPass

\* Every check publish_bundle makes on the final tree.
LEMMA TreePasses == AdmissionInv => FinalTreePasses
<1> SUFFICES ASSUME AdmissionInv PROVE FinalTreePasses
  OBVIOUS
<1>1. ASSUME NEW n \in Admitted PROVE ContributionPasses(n)
  <2>1. n \notin Unsafe
    BY NodesPortable DEF Admitted
  <2>2. \A m \in contributions[n] :
           /\ m.path[1] \in {"node", "ceph"}
           /\ m.kind \in {"dir", "file"}
           /\ m.path \in Seq(Names \ Unsafe)
    BY ContributionFacts
  <2>3. \A m \in contributions[n] : SafePath(m) /\ SupportedType(m)
    BY <2>2 DEF SafePath, SupportedType
  <2>4. RequiredDirectories(contributions[n])
    BY ContributionFacts
  <2> QED BY <2>1, <2>2, <2>3, <2>4 DEF ContributionPasses
<1>2. ASSUME NEW n \in Admitted, HasPath(contributions[n], <<"ceph">>)
      PROVE  n = CephSource
  <2>1. PICK m \in contributions[n] : m.path = <<"ceph">>
    BY <1>2 DEF HasPath
  <2>2. m.path[1] = "node" \/ (m.path[1] = "ceph" /\ n = CephSource)
    BY ContributionFacts
  <2>3. m.path[1] = "ceph"
    BY <2>1
  <2> QED BY <2>2, <2>3
<1>3. OneCeph
  BY <1>2 DEF OneCeph
<1> QED BY <1>1, <1>3, EntriesPass DEF FinalTreePasses

\* The two boundaries agree: publish_bundle never refuses a tree that
\* admit_archive let in, whatever the Target Nodes sent.
THEOREM AdmittedTreesPublish == Spec => []AdmittedIsPublishable
<1>1. Init => AdmittedIsPublishable
  BY DEF Init, AdmittedIsPublishable
<1>2. AdmissionInv /\ AdmittedIsPublishable /\ [Next]_vars
         => AdmittedIsPublishable'
  BY TreePasses DEF AdmittedIsPublishable, Next, Step, vars, locals, Spool,
     InflateChunk, RejectTrailing, OpenTar, RejectStream, CheckMember,
     RejectMember, CheckStructure, RejectStructure, ExtractMember, Promote,
     ValidateTree, LocalFailure, Reject, Answer
<1> QED BY <1>1, <1>2, AdmissionInvariant, PTL DEF Spec

=============================================================================
