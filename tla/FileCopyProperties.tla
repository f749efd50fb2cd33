------------------------ MODULE FileCopyProperties ------------------------
(***************************************************************************)
(* What the operator may conclude from the copied files and from what the  *)
(* Remote Node Collector's stderr says of them, whatever the Target Node   *)
(* did to its files meanwhile.                                             *)
(***************************************************************************)
EXTENDS RemoteFileCopy

CONSTANT MaxBelow  \* bound: how far below a selection a file is looked for

ASSUME BelowBound == MaxBelow \in Nat

Paths == UNION {[1 .. Len(Jobs[k].path) + d -> Names] : k \in DOMAIN Jobs, d \in 0 .. MaxBelow}

Prefix(p, n) == SubSeq(p, 1, n)

\* Where name n led from i in the beginning, and leads from anything in "from" by
\* the entries "seen", no link being followed.
InitiallyBelow(i, n)   == IF Kind[i] = "dir" THEN InitialTree[<<i, n>>] ELSE Absent
Below(seen, from, n)   == {x[3] : x \in {y \in seen : y[2] = n /\ y[1] \in from /\ Kind[y[1]] = "dir"}}

\* What was on the way to p in the beginning, component by component.
InitiallyAlong(p) ==
  LET on[n \in 0 .. Len(p)] == IF n = 0 THEN Root ELSE InitiallyBelow(on[n - 1], p[n])
  IN  on

Initially(p) == InitiallyAlong(p)[Len(p)]

\* What has ever been on the way to p and at p, by the entries seen.
SeenAlong(seen, p) ==
  LET on[n \in 0 .. Len(p)] == IF n = 0 THEN {Root} ELSE Below(seen, on[n - 1], p[n])
  IN  on

EverAt(p) == SeenAlong(been, p)[Len(p)]

\* No entry on the way to p has changed, and no call about one has failed.
Undisturbed(p) ==
  LET on == InitiallyAlong(p)
  IN  \A n \in 1 .. Len(p) : <<on[n - 1], p[n]>> \notin touched /\ Prefix(p, n) \notin hurt

Covers(j, p) ==
  IF j.kind = "file" THEN p = j.path
  ELSE IF j.kind = "listed" THEN Len(p) = Len(j.path) + 1 /\ IsPrefix(j.path, p)
  ELSE Len(p) > Len(j.path) /\ IsPrefix(j.path, p)

AcceptedBy(j, p, i) ==
  Kind[i] = "file" /\ (j.kind # "file" => Last(p) \in j.includes)
                   /\ (j.windowed => i \in Recent)

\* The files the collector is there to bring home.
Wanted == {p \in Paths : \E k \in DOMAIN Jobs :
                            Covers(Jobs[k], p) /\ AcceptedBy(Jobs[k], p, Initially(p))}

Stored(p, i) == [path |-> p, inode |-> i, whole |-> TRUE] \in stored

-----------------------------------------------------------------------------
\* One thing going wrong costs one thing: a file that nothing disturbed is stored
\* whole in the end, whatever failed or changed before and beside it; and stderr is
\* about real trouble, never about a source nobody touched, be it absent or special.
UndisturbedUnharmed ==
  /\ \A p \in said : ~Undisturbed(p)
  /\ Ended => \A p \in Wanted : Undisturbed(p) => Stored(p, Initially(p))

\* Whatever is swapped between a look, an open and a read: what is stored under
\* a path was a regular file at that path, reached through directories only,
\* of a windowed selection a recent one, and is whole or named on stderr.
StoredWasThere ==
  \A s \in stored :
     /\ s.inode \in EverAt(s.path) /\ (s.whole \/ s.path \in said)
     /\ \E k \in 1 .. job : Covers(Jobs[k], s.path) /\ AcceptedBy(Jobs[k], s.path, s.inode)

\* A selected file of which nothing is said is stored whole, unless its path has
\* been something that need not be copied.
SilenceAccounts ==
  Ended => \A p \in chosen \ said :
             \/ \E i \in Inodes : Stored(p, i)
             \/ \E i \in EverAt(p), k \in DOMAIN Jobs :
                   Covers(Jobs[k], p) /\ ~AcceptedBy(Jobs[k], p, i)

=============================================================================
