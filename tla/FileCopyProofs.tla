---------------------------- MODULE FileCopyProofs ----------------------------
(***************************************************************************)
(* What holds of the file copy for every file system, every list of        *)
(* selections, and any number of changes and of failing calls.             *)
(***************************************************************************)
EXTENDS FileCopyProperties, PrefixRecursion, SequenceTheorems

-----------------------------------------------------------------------------
(* Paths, and what was and has been on them. *)

\* q leads through p, or is p.
Extends(q, p) == Len(p) <= Len(q) /\ \A n \in 1 .. Len(p) : q[n] = p[n]

LEMMA InitiallyDefined ==
  ASSUME NEW p \in Seq(Names)
  PROVE  /\ InitiallyAlong(p) \in [0 .. Len(p) -> Inodes \cup {Absent}]
         /\ InitiallyAlong(p)[0] = Root
         /\ \A n \in 1 .. Len(p) : InitiallyAlong(p)[n] = InitiallyBelow(InitiallyAlong(p)[n - 1], p[n])
<1> DEFINE N    == Len(p)
           S    == Inodes \cup {Absent}
           step == [x \in (1 .. N) \X S |-> InitiallyBelow(x[2], p[x[1]])]
           R(f) == f = [n \in 0 .. N |-> IF n = 0 THEN Root ELSE InitiallyBelow(f[n - 1], p[n])]
           on   == InitiallyAlong(p)
<1>1. N \in Nat /\ Root \in S /\ \A n \in 1 .. N : p[n] \in Names
  BY FileSystem
<1>2. StaysIn(S, N, step)
  BY <1>1, FileSystem DEF StaysIn, InitiallyBelow, Entries
<1>3. PICK g : Iterates(g, N, S, Root, step)
  <2> HIDE DEF step, N, S
  <2> QED BY <1>1, <1>2, IterationExists
<1>4. R(g)
  <2>1. g \in [0 .. N -> S]
    BY <1>3 DEF Iterates
  <2>2. ASSUME NEW n \in 0 .. N
        PROVE  g[n] = IF n = 0 THEN Root ELSE InitiallyBelow(g[n - 1], p[n])
    <3> HIDE DEF N, S
    <3>1. CASE n = 0
      BY <3>1, <1>3 DEF Iterates
    <3>2. CASE n # 0
      <4>1. n \in 1 .. N /\ n - 1 \in 0 .. N /\ g[n - 1] \in S
        BY <3>2, <1>1, <2>1
      <4>2. g[n] = step[<<n, g[n - 1]>>]
        BY <4>1, <1>3 DEF Iterates
      <4> QED BY <3>2, <4>1, <4>2
    <3> QED BY <3>1, <3>2
  <2> HIDE DEF N, S
  <2> QED BY <2>1, <2>2
<1>5. R(on)
  <2>1. on = CHOOSE f : R(f)
    BY DEF InitiallyAlong
  <2> HIDE DEF R, on
  <2> QED BY <1>4, <2>1, Zenon
<1>6. /\ on = [n \in 0 .. N |-> on[n]] /\ on[0] = Root
      /\ \A n \in 1 .. N : on[n] = InitiallyBelow(on[n - 1], p[n])
  <2> HIDE DEF N, on
  <2>1. \A n \in 1 .. N : n \in 0 .. N /\ n # 0
    BY <1>1
  <2> QED BY <1>1, <1>5, <2>1
<1>7. Iterates(on, N, S, Root, step)
  <2>1. ASSUME NEW n \in 1 .. N, on[n - 1] \in S PROVE on[n] = step[<<n, on[n - 1]>>]
    <3> HIDE DEF N, S, on
    <3> QED BY <2>1, <1>6
  <2> HIDE DEF step, N, S, on
  <2> QED BY <1>1, <1>2, <1>6, <2>1, IterationIsTyped
<1> QED
  <2> HIDE DEF step
  <2> QED BY <1>6, <1>7 DEF Iterates

LEMMA SeenDefined ==
  ASSUME NEW seen, NEW p \in Seq(Names)
  PROVE  /\ SeenAlong(seen, p)[0] = {Root}
         /\ \A n \in 1 .. Len(p) : SeenAlong(seen, p)[n] = Below(seen, SeenAlong(seen, p)[n - 1], p[n])
<1> DEFINE N    == Len(p)
           S    == SUBSET ({Root} \cup {x[3] : x \in seen})
           step == [x \in (1 .. N) \X S |-> Below(seen, x[2], p[x[1]])]
           R(f) == f = [n \in 0 .. N |-> IF n = 0 THEN {Root} ELSE Below(seen, f[n - 1], p[n])]
           on   == SeenAlong(seen, p)
<1>1. N \in Nat /\ {Root} \in S /\ \A n \in 1 .. N : p[n] \in Names
  BY FileSystem
<1>2. StaysIn(S, N, step)
  BY <1>1, FileSystem DEF StaysIn, Below
<1>3. PICK g : Iterates(g, N, S, {Root}, step)
  <2> HIDE DEF step, N, S
  <2> QED BY <1>1, <1>2, IterationExists
<1>4. R(g)
  <2>1. g \in [0 .. N -> S]
    BY <1>3 DEF Iterates
  <2>2. ASSUME NEW n \in 0 .. N
        PROVE  g[n] = IF n = 0 THEN {Root} ELSE Below(seen, g[n - 1], p[n])
    <3> HIDE DEF N, S
    <3>1. CASE n = 0
      BY <3>1, <1>3 DEF Iterates
    <3>2. CASE n # 0
      <4>1. n \in 1 .. N /\ n - 1 \in 0 .. N /\ g[n - 1] \in S
        BY <3>2, <1>1, <2>1
      <4>2. g[n] = step[<<n, g[n - 1]>>]
        BY <4>1, <1>3 DEF Iterates
      <4> QED BY <3>2, <4>1, <4>2
    <3> QED BY <3>1, <3>2
  <2> HIDE DEF N, S
  <2> QED BY <2>1, <2>2
<1>5. R(on)
  <2>1. on = CHOOSE f : R(f)
    BY DEF SeenAlong
  <2> HIDE DEF R, on
  <2> QED BY <1>4, <2>1, Zenon
<1>6. on[0] = {Root} /\ \A n \in 1 .. N : on[n] = Below(seen, on[n - 1], p[n])
  <2> HIDE DEF N, on
  <2>1. on[0] = {Root}
    BY <1>1, <1>5
  <2>2. ASSUME NEW n \in 1 .. N PROVE on[n] = Below(seen, on[n - 1], p[n])
    <3>1. n \in 0 .. N /\ n # 0
      BY <1>1
    <3> QED BY <3>1, <1>5
  <2> QED BY <2>1, <2>2
<1> QED
  <2> HIDE DEF step, S, R
  <2> QED BY <1>6, Zenon


\* An earlier part of a path was and is on the way of the longer one.
LEMMA InitiallyOnPrefix ==
  ASSUME NEW p \in Seq(Names), NEW q \in Seq(Names), Extends(q, p)
  PROVE  \A n \in 0 .. Len(p) : InitiallyAlong(q)[n] = InitiallyAlong(p)[n]
<1> DEFINE f == InitiallyAlong(p)
           g == InitiallyAlong(q)
           T == {n \in 0 .. Len(p) : g[n] = f[n]}
<1>1. Len(p) \in Nat /\ Len(q) \in Nat /\ Len(p) <= Len(q)
  BY DEF Extends
<1>2. f[0] = Root /\ \A n \in 1 .. Len(p) : f[n] = InitiallyBelow(f[n - 1], p[n])
  BY InitiallyDefined
<1>3. g[0] = Root /\ \A n \in 1 .. Len(q) : g[n] = InitiallyBelow(g[n - 1], q[n])
  BY InitiallyDefined
<1> HIDE DEF f, g
<1>4. 0 \in T
  BY <1>1, <1>2, <1>3
<1>5. ASSUME NEW n \in 0 .. Len(p) - 1, n \in T PROVE n + 1 \in T
  <2>1. /\ n + 1 \in 1 .. Len(p) /\ n + 1 \in 1 .. Len(q) /\ (n + 1) - 1 = n
        /\ g[n] = f[n] /\ q[n + 1] = p[n + 1] /\ n + 1 \in 0 .. Len(p)
    BY <1>1, <1>5 DEF Extends
  <2> QED BY <2>1, <1>2, <1>3
<1>6. 0 .. Len(p) \subseteq T
  <2> HIDE DEF T
  <2> QED BY <1>1, <1>4, <1>5, PrefixInduction
<1> QED
  BY <1>6 DEF f, g

LEMMA SeenOnPrefix ==
  ASSUME NEW seen, NEW more, seen \subseteq more,
         NEW p \in Seq(Names), NEW q \in Seq(Names), Extends(q, p)
  PROVE  \A n \in 0 .. Len(p) : SeenAlong(seen, p)[n] \subseteq SeenAlong(more, q)[n]
<1> DEFINE f == SeenAlong(seen, p)
           g == SeenAlong(more, q)
           T == {n \in 0 .. Len(p) : f[n] \subseteq g[n]}
<1>1. Len(p) \in Nat /\ Len(q) \in Nat /\ Len(p) <= Len(q)
  BY DEF Extends
<1>2. f[0] = {Root} /\ \A n \in 1 .. Len(p) : f[n] = Below(seen, f[n - 1], p[n])
  BY SeenDefined
<1>3. g[0] = {Root} /\ \A n \in 1 .. Len(q) : g[n] = Below(more, g[n - 1], q[n])
  BY SeenDefined
<1> HIDE DEF f, g
<1>4. 0 \in T
  BY <1>1, <1>2, <1>3
<1>5. ASSUME NEW n \in 0 .. Len(p) - 1, n \in T PROVE n + 1 \in T
  <2>1. /\ n + 1 \in 1 .. Len(p) /\ n + 1 \in 1 .. Len(q) /\ (n + 1) - 1 = n
        /\ f[n] \subseteq g[n] /\ q[n + 1] = p[n + 1] /\ n + 1 \in 0 .. Len(p)
    BY <1>1, <1>5 DEF Extends
  <2>2. f[n + 1] = Below(seen, f[n], p[n + 1]) /\ g[n + 1] = Below(more, g[n], p[n + 1])
    BY <2>1, <1>2, <1>3
  <2> QED BY <2>1, <2>2 DEF Below
<1>6. 0 .. Len(p) \subseteq T
  <2> HIDE DEF T
  <2> QED BY <1>1, <1>4, <1>5, PrefixInduction
<1> QED
  BY <1>6 DEF f, g

\* One component further.
LEMMA SeenStep ==
  ASSUME NEW p \in Seq(Names), NEW seen, NEW n \in 1 .. Len(p), NEW i, NEW x,
         i \in SeenAlong(seen, p)[n - 1], Kind[i] = "dir", <<i, p[n], x>> \in seen
  PROVE  x \in SeenAlong(seen, p)[n]
<1>1. SeenAlong(seen, p)[n] = Below(seen, SeenAlong(seen, p)[n - 1], p[n])
  BY SeenDefined
<1> DEFINE e == <<i, p[n], x>>
<1>2. e[1] = i /\ e[2] = p[n] /\ e[3] = x /\ e \in seen
  OBVIOUS
<1> QED
  BY <1>1, <1>2 DEF Below

\* What is there at the end of a path was reached through directories.
LEMMA OnlyThroughDirectories ==
  ASSUME NEW p \in Seq(Names), Initially(p) # Absent, NEW k \in 0 .. Len(p) - 1
  PROVE  Kind[InitiallyAlong(p)[k]] = "dir"
<1> DEFINE f == InitiallyAlong(p)
<1> SUFFICES ASSUME Kind[f[k]] # "dir" PROVE FALSE
  OBVIOUS
<1>1. Len(p) \in Nat /\ \A n \in 1 .. Len(p) : f[n] = InitiallyBelow(f[n - 1], p[n])
  BY InitiallyDefined
<1>2. f[Len(p)] # Absent
  BY DEF Initially
<1> HIDE DEF f
<1> DEFINE T == {n \in 0 .. Len(p) : n > k => f[n] = Absent}
<1>3. 0 \in T
  BY <1>1
<1>4. ASSUME NEW n \in 0 .. Len(p) - 1, n \in T PROVE n + 1 \in T
  <2>1. n + 1 \in 1 .. Len(p) /\ n + 1 \in 0 .. Len(p) /\ (n + 1) - 1 = n
    BY <1>1
  <2>2. f[n + 1] = InitiallyBelow(f[n], p[n + 1])
    BY <2>1, <1>1
  <2>3. n + 1 > k => Kind[f[n]] # "dir"
    BY <1>4, <2>1, FileSystem
  <2> QED BY <2>1, <2>2, <2>3 DEF InitiallyBelow
<1>5. 0 .. Len(p) \subseteq T
  <2> HIDE DEF T
  <2> QED BY <1>1, <1>3, <1>4, PrefixInduction
<1> QED
  BY <1>1, <1>2, <1>5

LEMMA InitiallyTyped ==
  ASSUME NEW p \in Seq(Names), NEW k \in 0 .. Len(p)
  PROVE  InitiallyAlong(p)[k] \in Inodes \cup {Absent}
BY InitiallyDefined

LEMMA AppendedPath ==
  ASSUME NEW p \in Seq(Names), NEW n \in Names
  PROVE  /\ Append(p, n) \in Seq(Names) /\ Append(p, n) # <<>>
         /\ Len(Append(p, n)) = Len(p) + 1 /\ Append(p, n)[Len(p) + 1] = n
         /\ Last(Append(p, n)) = n
         /\ Extends(Append(p, n), p)
BY DEF Extends, Last

LEMMA InitiallyAppended ==
  ASSUME NEW p \in Seq(Names), NEW n \in Names
  PROVE  Initially(Append(p, n)) = InitiallyBelow(Initially(p), n)
<1> DEFINE q == Append(p, n)
<1>1. q \in Seq(Names) /\ Len(q) = Len(p) + 1 /\ q[Len(p) + 1] = n /\ Extends(q, p)
  BY AppendedPath
<1>2. Len(p) \in Nat /\ Len(q) \in 1 .. Len(q) /\ Len(q) - 1 = Len(p) /\ Len(p) \in 0 .. Len(p)
  BY <1>1
<1> HIDE DEF q
<1>3. InitiallyAlong(q)[Len(q)] = InitiallyBelow(InitiallyAlong(q)[Len(q) - 1], q[Len(q)])
  BY <1>1, <1>2, InitiallyDefined
<1>4. InitiallyAlong(q)[Len(p)] = InitiallyAlong(p)[Len(p)]
  BY <1>1, <1>2, InitiallyOnPrefix
<1>5. Initially(q) = InitiallyBelow(Initially(p), n)
  BY <1>1, <1>2, <1>3, <1>4 DEF Initially
<1> QED
  BY <1>5 DEF q

LEMMA EverAtAppended ==
  ASSUME NEW p \in Seq(Names), NEW n \in Names, NEW i \in EverAt(p), Kind[i] = "dir",
         NEW x, <<i, n, x>> \in been
  PROVE  x \in EverAt(Append(p, n))
<1> DEFINE q == Append(p, n)
<1>1. q \in Seq(Names) /\ Len(q) = Len(p) + 1 /\ q[Len(p) + 1] = n /\ Extends(q, p)
  BY AppendedPath
<1>2. Len(p) \in Nat /\ Len(q) \in 1 .. Len(q) /\ Len(q) - 1 = Len(p) /\ Len(p) \in 0 .. Len(p)
  BY <1>1
<1> HIDE DEF q
<1>3. i \in SeenAlong(been, q)[Len(p)]
  BY <1>1, <1>2, SeenOnPrefix DEF EverAt
<1>4. x \in EverAt(q)
  BY <1>1, <1>2, <1>3, SeenStep DEF EverAt
<1> QED
  BY <1>4 DEF q

-----------------------------------------------------------------------------
(* What disturbs a path. *)

\* Undisturbed, of any changes and failures.
Free(changed, failed, p) ==
  LET on == InitiallyAlong(p)
  IN  \A n \in 1 .. Len(p) : <<on[n - 1], p[n]>> \notin changed /\ Prefix(p, n) \notin failed

LEMMA FreePrefix ==
  ASSUME NEW changed, NEW failed, NEW p \in Seq(Names), NEW q \in Seq(Names), Extends(q, p),
         Free(changed, failed, q)
  PROVE  Free(changed, failed, p)
<1> SUFFICES ASSUME NEW n \in 1 .. Len(p)
             PROVE  <<InitiallyAlong(p)[n - 1], p[n]>> \notin changed /\ Prefix(p, n) \notin failed
  BY DEF Free
<1>1. Len(p) \in Nat /\ Len(q) \in Nat /\ n \in 1 .. Len(q) /\ n - 1 \in 0 .. Len(p) /\ q[n] = p[n]
  BY DEF Extends
<1>2. InitiallyAlong(q)[n - 1] = InitiallyAlong(p)[n - 1]
  BY <1>1, InitiallyOnPrefix
<1>3. Prefix(q, n) = Prefix(p, n)
  BY <1>1, SubSeqProperties DEF Prefix, Extends
<1> QED
  BY <1>1, <1>2, <1>3 DEF Free

LEMMA UndisturbedPrefix ==
  ASSUME NEW p \in Seq(Names), NEW q \in Seq(Names), Extends(q, p)
  PROVE  /\ Undisturbed(q) => Undisturbed(p)
         /\ Undisturbed(q)' => Undisturbed(p)'
<1>1. /\ \A r : Undisturbed(r) <=> Free(touched, hurt, r)
      /\ \A r : Undisturbed(r)' <=> Free(touched', hurt', r)
  BY DEF Undisturbed, Free
<1> QED
  BY <1>1, FreePrefix

LEMMA HurtDisturbs ==
  ASSUME NEW p \in Seq(Names), p # <<>>
  PROVE  /\ p \in hurt => ~Undisturbed(p)
         /\ p \in hurt' => ~Undisturbed(p)'
<1>1. Len(p) \in 1 .. Len(p) /\ Prefix(p, Len(p)) = p
  BY SubSeqFull DEF Prefix
<1> QED
  BY <1>1 DEF Undisturbed

LEMMA UndisturbedEntry ==
  ASSUME NEW p \in Seq(Names), NEW k \in 1 .. Len(p), Undisturbed(p)
  PROVE  <<InitiallyAlong(p)[k - 1], p[k]>> \notin touched
BY DEF Undisturbed

LEMMA ExtendsItself ==
  ASSUME NEW p \in Seq(Names)
  PROVE  Extends(p, p)
BY DEF Extends

\* What is disturbed stays disturbed; what has been seen stays seen.
LEMMA HistoryGrows ==
  ASSUME touched \subseteq touched', hurt \subseteq hurt', been \subseteq been', NEW p \in Seq(Names)
  PROVE  /\ Undisturbed(p)' => Undisturbed(p)
         /\ EverAt(p) \subseteq EverAt(p)'
         /\ \A k \in 0 .. Len(p) : SeenAlong(been, p)[k] \subseteq SeenAlong(been', p)[k]
<1>1. Undisturbed(p)' => Undisturbed(p)
  BY DEF Undisturbed
<1>2. \A k \in 0 .. Len(p) : SeenAlong(been, p)[k] \subseteq SeenAlong(been', p)[k]
  BY ExtendsItself, SeenOnPrefix
<1>3. Len(p) \in 0 .. Len(p)
  OBVIOUS
<1> QED
  BY <1>1, <1>2, <1>3 DEF EverAt

-----------------------------------------------------------------------------
(* The inductive invariant. *)

Directories == {i \in Inodes : Kind[i] = "dir"}
Frames      == [dir : Directories, path : Seq(Names), left : SUBSET Names]
Copying     == {"source", "sourcelook", "opened", "copy"}
Calls       == {"walk", "open", "relook", "child", "childlook", "raised"} \cup Copying

Job == Jobs[job]

TypeInv ==
  /\ tree \in [Entries -> Inodes \cup {Absent}]
  /\ job \in 0 .. Len(Jobs) /\ pc \in Calls
  /\ frames \in Seq(Frames) /\ goal \in Seq(Names)
  /\ at \in Directories /\ todo \in Seq(Names) /\ opened \in Inodes \cup {Absent}
  /\ stored \subseteq [path : Seq(Names), inode : Inodes, whole : BOOLEAN]
  /\ said \subseteq Seq(Names) /\ chosen \subseteq Seq(Names) \ {<<>>}

\* "been" and "touched" tell the file system's history.
HistoryInv ==
  \A e \in Entries : /\ tree[e] # Absent => <<e[1], e[2], tree[e]>> \in been
                     /\ e \notin touched => tree[e] = InitialTree[e]

\* A directory being read belongs to the selection, was there, and unless something
\* happened on the way it is the one that was there from the beginning, as are the
\* entries that are left.
FrameFits(f, j, seen, changed, failed) ==
  /\ j.kind # "file" /\ Extends(f.path, j.path)
  /\ j.kind = "listed" => Len(f.path) = Len(j.path) /\ f.left \subseteq j.includes
  /\ f.dir \in SeenAlong(seen, f.path)[Len(f.path)]
  /\ Free(changed, failed, f.path) =>
        /\ f.dir = Initially(f.path)
        /\ \A n \in f.left : <<f.dir, n>> \notin changed => InitialTree[<<f.dir, n>>] # Absent

FramesInv == \A k \in DOMAIN frames : FrameFits(frames[k], Job, been, touched, hurt)

\* Where the program is: at a file or a directory of the entry at hand, or of the
\* selection itself.
PlaceInv ==
  /\ frames # <<>> \/ pc # "walk" => job # 0
  /\ frames # <<>> /\ pc # "walk" => Top.left # {}
  /\ pc = "walk" => goal = <<>> /\ todo = <<>>
  /\ pc \in Copying => goal # <<>>
  /\ pc \in {"child", "childlook"} => goal = <<>> /\ frames # <<>>
  /\ goal # <<>> => /\ goal = ScanPath /\ (frames = <<>> <=> Job.kind = "file")
                    /\ Selected => Last(goal) \in Job.includes
  /\ goal = <<>> /\ pc # "walk" => /\ Job.kind # "file"
                                   /\ frames # <<>> => Job.kind = "tree" /\ todo = <<>>

\* How many components of ScanPath are to be opened, and how many have been.
Descent == Len(ScanPath) - (IF goal # <<>> THEN 1 ELSE 0)
Reached == Descent - Len(todo)

DescentInv ==
  pc \notin {"walk", "child", "childlook"} =>
     /\ Len(todo) <= Descent
     /\ \A n \in 1 .. Len(todo) : todo[n] = ScanPath[Reached + n]
     /\ pc = "relook" => todo # <<>>
     /\ pc \in Copying => todo = <<>>
     /\ at \in SeenAlong(been, ScanPath)[Reached]
     /\ Undisturbed(ScanPath) => at = InitiallyAlong(ScanPath)[Reached]

OpenedInv ==
  /\ pc \in {"opened", "copy"} => opened \in EverAt(goal) /\ opened # Absent
                                  /\ (Undisturbed(goal) => opened = Initially(goal))
  /\ pc = "copy" => Accepts(opened)

\* What is known of the entry at hand if nothing happened to it.
TroubleInv ==
  /\ pc \in {"relook", "sourcelook", "childlook"} => ~Undisturbed(ScanPath)
  /\ pc = "child" /\ Undisturbed(ScanPath) => Kind[Initially(ScanPath)] = "dir"
  /\ goal # <<>> /\ (Selected \/ pc = "source") /\ Undisturbed(goal) => Initially(goal) # Absent
  /\ goal # <<>> /\ Job.kind = "tree" /\ Undisturbed(goal) => Kind[Initially(goal)] = "file"

SaidInv == \A p \in said : ~Undisturbed(p)

Excused(p) ==
  \/ \E i \in Inodes : Stored(p, i)
  \/ \E i \in EverAt(p), k \in DOMAIN Jobs : Covers(Jobs[k], p) /\ ~AcceptedBy(Jobs[k], p, i)

ChosenInv == \A p \in chosen \ said : Excused(p) \/ (goal = p /\ Selected)

\* What the selection at work has still before it.
InHand(p) ==
  \/ frames = <<>> /\ pc # "walk"
  \/ \E k \in DOMAIN frames : \E n \in frames[k].left : Extends(p, Append(frames[k].path, n))

LossInv ==
  \A k \in 1 .. job, p \in Paths :
     Covers(Jobs[k], p) /\ AcceptedBy(Jobs[k], p, Initially(p)) /\ Undisturbed(p)
       => Stored(p, Initially(p)) \/ (k = job /\ InHand(p))

CopyInv ==
  /\ TypeInv /\ HistoryInv /\ FramesInv /\ PlaceInv /\ DescentInv /\ OpenedInv
  /\ TroubleInv /\ SaidInv /\ StoredWasThere /\ ChosenInv /\ LossInv

-----------------------------------------------------------------------------
(* What the invariant says of the entry at hand. *)

LEMMA JobFacts ==
  ASSUME TypeInv, job # 0
  PROVE  /\ job \in 1 .. Len(Jobs) /\ Job.kind \in {"file", "listed", "tree"}
         /\ Job.path \in Seq(Names) /\ Job.path # <<>> /\ Job.includes \subseteq Names
         /\ Job.windowed \in BOOLEAN
<1>1. job \in 1 .. Len(Jobs)
  BY JobsShape DEF TypeInv
<1>2. Jobs[job] \in [kind : {"file", "listed", "tree"}, path : Seq(Names) \ {<<>>},
                     includes : SUBSET Names, windowed : BOOLEAN]
  <2> DEFINE S == [kind : {"file", "listed", "tree"}, path : Seq(Names) \ {<<>>},
                   includes : SUBSET Names, windowed : BOOLEAN]
  <2>1. Jobs \in Seq(S)
    BY JobsShape
  <2> HIDE DEF S
  <2>2. Jobs[job] \in S
    BY <1>1, <2>1, ElementOfSeq
  <2> QED
    BY <2>2 DEF S
<1> QED
  BY <1>1, <1>2 DEF Job

LEMMA PrefixIsExtended ==
  ASSUME NEW p \in Seq(Names), NEW q \in Seq(Names)
  PROVE  IsPrefix(p, q) <=> Extends(q, p)
<1>1. Len(p) \in Nat /\ Len(q) \in Nat
  OBVIOUS
<1>2. SubSeq(p, 1, Len(p)) = p
  BY SubSeqFull
<1>3. CASE Len(p) <= Len(q)
  <2>1. /\ Len(SubSeq(q, 1, Len(p))) = Len(p)
        /\ \A n \in 1 .. Len(p) : SubSeq(q, 1, Len(p))[n] = q[n]
        /\ SubSeq(q, 1, Len(p)) \in Seq(Names)
    BY <1>1, <1>3, SubSeqProperties
  <2>2. SubSeq(q, 1, Len(p)) = p <=> \A n \in 1 .. Len(p) : q[n] = p[n]
    BY <2>1, SeqEqual
  <2> QED BY <1>2, <1>3, <2>2 DEF IsPrefix, Extends
<1> QED
  BY <1>1, <1>3 DEF IsPrefix, Extends

LEMMA PathsAreTyped == Paths \subseteq Seq(Names)
<1> SUFFICES ASSUME NEW k \in DOMAIN Jobs, NEW d \in 0 .. MaxBelow,
                    NEW p \in [1 .. Len(Jobs[k].path) + d -> Names]
             PROVE  p \in Seq(Names)
  BY DEF Paths
<1>1. k \in 1 .. Len(Jobs)
  BY JobsShape
<1> DEFINE S == [kind : {"file", "listed", "tree"}, path : Seq(Names) \ {<<>>},
                 includes : SUBSET Names, windowed : BOOLEAN]
<1>2. Jobs \in Seq(S)
  BY JobsShape
<1>3. Jobs[k] \in S
  <2> HIDE DEF S
  <2> QED BY <1>1, <1>2, ElementOfSeq
<1>4. Len(Jobs[k].path) + d \in Nat
  <2>1. Jobs[k].path \in Seq(Names)
    BY <1>3
  <2>2. Len(Jobs[k].path) \in Nat
    BY <2>1
  <2> QED
    BY <2>2, BelowBound
<1> QED
  BY <1>4

LEMMA TopFacts ==
  ASSUME TypeInv, frames # <<>>
  PROVE  /\ Len(frames) \in 1 .. Len(frames) /\ DOMAIN frames = 1 .. Len(frames)
         /\ Top \in Frames /\ Top.dir \in Directories /\ Top.path \in Seq(Names)
         /\ Top.left \subseteq Names
         /\ Top.left # {} => /\ EntryName \in Top.left /\ EntryName \in Names
                             /\ EntryPath \in Seq(Names) /\ EntryPath # <<>>
                             /\ Extends(EntryPath, Top.path)
<1>1. frames \in Seq(Frames)
  BY DEF TypeInv
<1>2. Len(frames) \in 1 .. Len(frames) /\ DOMAIN frames = 1 .. Len(frames) /\ Top \in Frames
  BY <1>1 DEF Top
<1>3. Top.dir \in Directories /\ Top.path \in Seq(Names) /\ Top.left \subseteq Names
  BY <1>2 DEF Frames
<1>4. ASSUME Top.left # {} PROVE EntryName \in Top.left
  <2>1. \E x \in Top.left : \A y \in Top.left : x <= y
    BY <1>3, <1>4, FileSystem, LeastElement
  <2> QED BY <2>1, Zenon DEF EntryName, Min
<1>5. ASSUME Top.left # {} PROVE EntryPath \in Seq(Names) /\ EntryPath # <<>> /\ Extends(EntryPath, Top.path)
  BY <1>3, <1>4, <1>5, AppendedPath DEF EntryPath
<1> QED
  BY <1>2, <1>3, <1>4, <1>5

LEMMA AdvanceFacts ==
  ASSUME TypeInv
  PROVE  /\ Advance(frames) \in Seq(Frames) /\ Len(Advance(frames)) = Len(frames)
         /\ DOMAIN Advance(frames) = DOMAIN frames
         /\ \A k \in DOMAIN frames :
               /\ Advance(frames)[k].dir = frames[k].dir /\ Advance(frames)[k].path = frames[k].path
               /\ Advance(frames)[k].left =
                    IF k = Len(frames) THEN frames[k].left \ {EntryName} ELSE frames[k].left
<1>0. frames \in Seq(Frames)
  BY DEF TypeInv
<1>1. CASE frames = <<>>
  BY <1>0, <1>1 DEF Advance
<1>2. CASE frames # <<>>
  <2>1. Len(frames) \in 1 .. Len(frames) /\ DOMAIN frames = 1 .. Len(frames) /\ Top \in Frames
    BY <1>2, TopFacts
  <2> DEFINE top == [Top EXCEPT !.left = @ \ {EntryName}]
  <2>2. Advance(frames) = [frames EXCEPT ![Len(frames)] = top]
    BY <1>0, <1>2, <2>1 DEF Advance, Top, EntryName
  <2>3. top \in Frames /\ top.dir = Top.dir /\ top.path = Top.path /\ top.left = Top.left \ {EntryName}
    BY <2>1 DEF Frames
  <2> HIDE DEF top
  <2> DEFINE fs == Advance(frames)
  <2>4. fs \in Seq(Frames) /\ Len(fs) = Len(frames) /\ DOMAIN fs = DOMAIN frames
    BY <1>0, <2>1, <2>2, <2>3, ExceptSeq
  <2>5. fs[Len(frames)] = top /\ \A k \in DOMAIN frames : k # Len(frames) => fs[k] = frames[k]
    BY <1>0, <2>1, <2>2
  <2>6. frames[Len(frames)] = Top
    BY DEF Top
  <2> HIDE DEF fs
  <2>7. \A k \in DOMAIN frames :
           /\ fs[k].dir = frames[k].dir /\ fs[k].path = frames[k].path
           /\ fs[k].left = IF k = Len(frames) THEN frames[k].left \ {EntryName} ELSE frames[k].left
    BY <2>1, <2>3, <2>5, <2>6
  <2> QED
    BY <2>4, <2>7 DEF fs
<1> QED
  BY <1>1, <1>2

LEMMA TopFits ==
  ASSUME TypeInv, FramesInv, frames # <<>>
  PROVE  /\ Job.kind # "file" /\ Extends(Top.path, Job.path)
         /\ Job.kind = "listed" => Len(Top.path) = Len(Job.path) /\ Top.left \subseteq Job.includes
         /\ Top.dir \in EverAt(Top.path)
         /\ Undisturbed(Top.path) =>
               /\ Top.dir = Initially(Top.path)
               /\ \A n \in Top.left : <<Top.dir, n>> \notin touched => InitialTree[<<Top.dir, n>>] # Absent
<1>1. FrameFits(Top, Job, been, touched, hurt)
  BY TopFacts DEF FramesInv, Top
<1>2. Undisturbed(Top.path) <=> Free(touched, hurt, Top.path)
  BY DEF Undisturbed, Free
<1> QED
  BY <1>1, <1>2 DEF FrameFits, EverAt

\* The path at hand belongs to the selection.
LEMMA ScanPathFacts ==
  ASSUME TypeInv, FramesInv, job # 0, frames = <<>> \/ Top.left # {}
  PROVE  /\ ScanPath \in Seq(Names) /\ ScanPath # <<>> /\ Extends(ScanPath, Job.path)
         /\ frames = <<>> => ScanPath = Job.path
         /\ frames # <<>> => ScanPath = EntryPath
<1>1. CASE frames = <<>>
  BY <1>1, JobFacts, ExtendsItself DEF ScanPath, Job
<1>2. CASE frames # <<>>
  <2>1. ScanPath = EntryPath
    BY <1>2 DEF ScanPath
  <2>2. Extends(Top.path, Job.path)
    BY <1>2, TopFits
  <2> QED
    BY <1>2, <2>1, <2>2, TopFacts, JobFacts DEF Extends
<1> QED
  BY <1>1, <1>2

\* The entry of a directory that is being read.
LEMMA EntryFacts ==
  ASSUME TypeInv, HistoryInv, FramesInv, frames # <<>>, Top.left # {}
  PROVE  /\ Child \in Inodes \cup {Absent}
         /\ Child # Absent => Child \in EverAt(EntryPath)
         /\ Undisturbed(EntryPath) => Child = Initially(EntryPath) /\ Child # Absent
<1> DEFINE e == <<Top.dir, EntryName>>
<1>1. /\ Top.dir \in Inodes /\ Kind[Top.dir] = "dir" /\ EntryName \in Names /\ EntryName \in Top.left
      /\ Top.path \in Seq(Names) /\ EntryPath \in Seq(Names) /\ EntryPath = Append(Top.path, EntryName)
      /\ Extends(EntryPath, Top.path)
  BY TopFacts DEF Directories, EntryPath
<1>3. e \in Entries /\ e[1] = Top.dir /\ e[2] = EntryName /\ Child = tree[e]
  BY <1>1 DEF Entries, Child
<1> HIDE DEF e
<1>4. Child \in Inodes \cup {Absent}
  BY <1>3 DEF TypeInv
<1>5. ASSUME Child # Absent PROVE Child \in EverAt(EntryPath)
  <2>1. <<Top.dir, EntryName, Child>> \in been
    BY <1>3, <1>5 DEF HistoryInv
  <2> QED
    BY <1>1, <2>1, EverAtAppended, TopFits
<1>6. ASSUME Undisturbed(EntryPath) PROVE Child = Initially(EntryPath) /\ Child # Absent
  <2>1. Undisturbed(Top.path)
    BY <1>1, <1>6, UndisturbedPrefix
  <2>2. Top.dir = Initially(Top.path)
    BY <2>1, TopFits
  <2>3. e \notin touched
    <3>1. /\ Len(EntryPath) = Len(Top.path) + 1 /\ EntryPath[Len(EntryPath)] = EntryName
          /\ Len(EntryPath) \in 1 .. Len(EntryPath) /\ Len(Top.path) \in 0 .. Len(Top.path)
      BY <1>1, AppendedPath
    <3>2. InitiallyAlong(EntryPath)[Len(EntryPath) - 1] = Initially(Top.path)
      <4>1. Len(EntryPath) - 1 = Len(Top.path)
        BY <1>1, <3>1
      <4>2. InitiallyAlong(EntryPath)[Len(Top.path)] = InitiallyAlong(Top.path)[Len(Top.path)]
        BY <1>1, <3>1, InitiallyOnPrefix
      <4> QED
        BY <4>1, <4>2 DEF Initially
    <3>3. <<InitiallyAlong(EntryPath)[Len(EntryPath) - 1], EntryPath[Len(EntryPath)]>> \notin touched
      BY <1>1, <1>6, <3>1, UndisturbedEntry
    <3> QED
      BY <2>2, <3>1, <3>2, <3>3 DEF e
  <2>4. Child = InitialTree[e]
    BY <1>3, <2>3 DEF HistoryInv
  <2>5. InitialTree[e] # Absent
    BY <1>1, <2>1, <2>3, TopFits DEF e
  <2>6. Initially(EntryPath) = InitialTree[e]
    BY <1>1, <2>2, InitiallyAppended DEF InitiallyBelow, e
  <2> QED
    BY <2>4, <2>5, <2>6
<1> QED
  BY <1>4, <1>5, <1>6

\* What the next component of the path at hand leads to, or the file itself.
LEMMA FoundFacts ==
  ASSUME CopyInv, pc \notin {"walk", "child", "childlook"}, todo # <<>> \/ goal # <<>>
  PROVE  /\ Reached \in 0 .. Len(ScanPath) - 1
         /\ todo = <<>> => Reached = Len(ScanPath) - 1
         /\ todo # <<>> /\ goal # <<>> => Reached + 1 <= Len(ScanPath) - 1
         /\ Found \in Inodes \cup {Absent}
         /\ Found # Absent => Found \in SeenAlong(been, ScanPath)[Reached + 1]
         /\ Undisturbed(ScanPath) => Found = InitiallyAlong(ScanPath)[Reached + 1]
<1> USE DEF CopyInv
<1>1. job # 0 /\ (frames = <<>> \/ Top.left # {})
  BY DEF PlaceInv
<1>2. ScanPath \in Seq(Names) /\ ScanPath # <<>>
  BY <1>1, ScanPathFacts
<1>3. Len(ScanPath) \in Nat /\ Len(ScanPath) # 0
  BY <1>2
<1>4. todo \in Seq(Names) /\ Len(todo) \in Nat /\ (todo = <<>> <=> Len(todo) = 0)
  BY DEF TypeInv
<1>5. Reached \in 0 .. Len(ScanPath) - 1 /\ (todo = <<>> => Reached = Len(ScanPath) - 1)
      /\ (todo # <<>> /\ goal # <<>> => Reached + 1 <= Len(ScanPath) - 1)
  BY <1>3, <1>4 DEF DescentInv, Reached, Descent
<1> DEFINE n == ScanPath[Reached + 1]
<1>6. n \in Names /\ Found = tree[<<at, n>>]
  <2>1. CASE todo # <<>>
    <3>1. Head(todo) = todo[1] /\ 1 \in 1 .. Len(todo)
      BY <1>4, <2>1
    <3>2. Head(todo) = ScanPath[Reached + 1]
      BY <3>1 DEF DescentInv
    <3> QED
      BY <1>2, <1>5, <2>1, <3>2 DEF Found
  <2>2. CASE todo = <<>>
    <3>1. Last(goal) = ScanPath[Reached + 1]
      BY <1>3, <1>5, <2>2 DEF PlaceInv, Last
    <3> QED
      BY <1>2, <1>5, <2>2, <3>1 DEF Found
  <2> QED BY <2>1, <2>2
<1>7. at \in Inodes /\ Kind[at] = "dir"
  BY DEF TypeInv, Directories
<1> DEFINE e == <<at, n>>
<1>8. e \in Entries /\ e[1] = at /\ e[2] = n /\ Found = tree[e]
  BY <1>6, <1>7 DEF Entries
<1> HIDE DEF n, e
<1>9. Found \in Inodes \cup {Absent}
  BY <1>8 DEF TypeInv
<1>10. Reached + 1 \in 1 .. Len(ScanPath) /\ (Reached + 1) - 1 = Reached
  BY <1>3, <1>5
<1>11. ASSUME Found # Absent PROVE Found \in SeenAlong(been, ScanPath)[Reached + 1]
  <2>1. <<at, n, Found>> \in been
    BY <1>8, <1>11 DEF HistoryInv
  <2>2. at \in SeenAlong(been, ScanPath)[Reached]
    BY DEF DescentInv
  <2> QED
    BY <1>2, <1>7, <1>10, <2>1, <2>2, SeenStep DEF n
<1>12. ASSUME Undisturbed(ScanPath) PROVE Found = InitiallyAlong(ScanPath)[Reached + 1]
  <2>1. at = InitiallyAlong(ScanPath)[Reached]
    BY <1>12 DEF DescentInv
  <2>2. <<at, n>> \notin touched
    BY <1>2, <1>10, <1>12, <2>1, UndisturbedEntry DEF n
  <2>3. Found = InitialTree[<<at, n>>]
    BY <1>8, <2>2 DEF HistoryInv, e
  <2>4. InitiallyAlong(ScanPath)[Reached + 1] = InitiallyBelow(at, n)
    BY <1>2, <1>10, <2>1, InitiallyDefined DEF n
  <2> QED
    BY <1>7, <2>3, <2>4 DEF InitiallyBelow
<1> QED
  BY <1>5, <1>9, <1>11, <1>12

-----------------------------------------------------------------------------
(* What every step keeps. *)

Grows ==
  /\ touched \subseteq touched' /\ been \subseteq been' /\ hurt \subseteq hurt'
  /\ stored \subseteq stored' /\ said \subseteq said' /\ chosen \subseteq chosen'

LEMMA HistoryOnlyGrows ==
  ASSUME [Next]_vars
  PROVE  Grows
<1> USE DEF Grows, Step, NoFault, Fault, failures, fileSystem, position, Resume, Omit, Fail, Lose
<1>1. CASE NextJob
  BY <1>1 DEF NextJob, CopySelected, OpenPath
<1>2. CASE OpenComponent \/ OpenComponentFails \/ Relook
  BY <1>2 DEF OpenComponent, OpenComponentFails, Relook
<1>3. CASE Scan \/ ScanFails \/ LeaveDirectory
  BY <1>3 DEF Scan, ScanFails, LeaveDirectory
<1>4. CASE Entry \/ EntryFails
  BY <1>4 DEF Entry, EntryFails, CopySelected, OpenPath
<1>5. CASE OpenChild \/ OpenChildFails \/ ChildLook
  BY <1>5 DEF OpenChild, OpenChildFails, ChildLook
<1>6. CASE StatSource \/ OpenSource \/ OpenSourceFails
  BY <1>6 DEF StatSource, OpenSource, OpenSourceFails
<1>7. CASE SourceLook \/ SourceCallFails \/ InspectOpened
  BY <1>7 DEF SourceLook, SourceCallFails, InspectOpened
<1>8. CASE Copy \/ CopyLeavesPart
  BY <1>8 DEF Copy, CopyLeavesPart
<1>11. CASE ParentCloseFails
  BY <1>11 DEF ParentCloseFails
<1>9. CASE Change
  BY <1>9 DEF Change
<1>10. CASE UNCHANGED vars
  BY <1>10 DEF vars
<1> QED
  BY <1>1, <1>2, <1>3, <1>4, <1>5, <1>6, <1>7, <1>8, <1>9, <1>10, <1>11 DEF Next, CopyStep

\* A frame goes on fitting when names are taken from it.
LEMMA FrameKept ==
  ASSUME NEW f, NEW g, NEW j, NEW seen, NEW more, NEW changed, NEW moreChanged,
         NEW failed, NEW moreFailed, f.path \in Seq(Names),
         FrameFits(f, j, seen, changed, failed),
         g.dir = f.dir, g.path = f.path, g.left \subseteq f.left,
         seen \subseteq more, changed \subseteq moreChanged, failed \subseteq moreFailed
  PROVE  FrameFits(g, j, more, moreChanged, moreFailed)
<1>1. SeenAlong(seen, f.path)[Len(f.path)] \subseteq SeenAlong(more, f.path)[Len(f.path)]
  <2>1. Extends(f.path, f.path) /\ Len(f.path) \in 0 .. Len(f.path)
    BY ExtendsItself
  <2> QED
    BY <2>1, SeenOnPrefix
<1>2. Free(moreChanged, moreFailed, f.path) => Free(changed, failed, f.path)
  BY DEF Free
<1> QED
  BY <1>1, <1>2 DEF FrameFits

LEMMA FramesKept ==
  ASSUME CopyInv, Grows, job' = job,
         \A k \in DOMAIN frames' : /\ k \in DOMAIN frames
                                   /\ frames'[k].dir = frames[k].dir /\ frames'[k].path = frames[k].path
                                   /\ frames'[k].left \subseteq frames[k].left
  PROVE  FramesInv'
<1> SUFFICES ASSUME NEW k \in DOMAIN frames'
             PROVE  FrameFits(frames'[k], Job', been', touched', hurt')
  BY DEF FramesInv
<1>1. frames[k].path \in Seq(Names) /\ FrameFits(frames[k], Job, been, touched, hurt)
  <2>1. frames[k] \in Frames
    BY DEF CopyInv, TypeInv
  <2> QED
    BY <2>1 DEF CopyInv, FramesInv, Frames
<1>2. Job' = Job
  BY DEF Job
<1> QED
  BY <1>1, <1>2, FrameKept DEF Grows

LEMMA SaidKept ==
  ASSUME CopyInv, Grows,
         said' = said \/ (\E p \in Seq(Names) : said' = said \cup {p} /\ ~Undisturbed(p)')
  PROVE  SaidInv'
BY HistoryGrows DEF CopyInv, TypeInv, SaidInv, Grows

LEMMA StoredKept ==
  ASSUME CopyInv, Grows, stored' = stored, job' \in Nat, job <= job'
  PROVE  StoredWasThere'
<1> SUFFICES ASSUME NEW s \in stored
             PROVE  /\ s.inode \in EverAt(s.path)' /\ (s.whole \/ s.path \in said')
                    /\ \E k \in 1 .. job' : Covers(Jobs[k], s.path) /\ AcceptedBy(Jobs[k], s.path, s.inode)
  BY DEF StoredWasThere
<1>1. s.path \in Seq(Names) /\ job \in Nat
  BY DEF CopyInv, TypeInv
<1>2. /\ s.inode \in EverAt(s.path) /\ (s.whole \/ s.path \in said)
      /\ \E k \in 1 .. job : Covers(Jobs[k], s.path) /\ AcceptedBy(Jobs[k], s.path, s.inode)
  BY DEF CopyInv, StoredWasThere
<1>3. 1 .. job \subseteq 1 .. job'
  BY <1>1
<1> QED
  BY <1>1, <1>2, <1>3, HistoryGrows DEF Grows

LEMMA ExcusedKept ==
  ASSUME Grows, NEW p \in Seq(Names), Excused(p)
  PROVE  Excused(p)'
BY HistoryGrows DEF Grows, Excused, Stored

LEMMA ChosenKept ==
  ASSUME CopyInv, Grows, job' = job, chosen' = chosen,
         \/ goal' = goal
         \/ \A p \in chosen : p = goal /\ Selected => p \in said' \/ Excused(p)'
  PROVE  ChosenInv'
<1> SUFFICES ASSUME NEW p \in chosen, p \notin said'
             PROVE  Excused(p)' \/ (goal' = p /\ Selected')
  BY DEF ChosenInv
<1>1. p \notin said /\ p \in Seq(Names)
  BY DEF Grows, CopyInv, TypeInv
<1>2. Excused(p) \/ (goal = p /\ Selected)
  BY <1>1 DEF CopyInv, ChosenInv
<1>3. Selected' <=> Selected
  BY DEF Selected
<1>4. p # <<>>
  BY DEF CopyInv, TypeInv
<1>5. CASE Excused(p)
  BY <1>1, <1>5, ExcusedKept
<1>6. CASE goal = p /\ Selected
  <2>1. CASE goal' = goal
    BY <1>3, <1>6, <2>1
  <2>2. CASE \A r \in chosen : r = goal /\ Selected => r \in said' \/ Excused(r)'
    BY <1>6, <2>2
  <2> QED BY <2>1, <2>2
<1> QED
  BY <1>2, <1>5, <1>6

\* Nothing is lost if what was in hand still is, or is stored, or something has
\* happened to it.
LEMMA LossKept ==
  ASSUME CopyInv, Grows, job' = job,
         \A p \in Paths : Covers(Job, p) /\ AcceptedBy(Job, p, Initially(p)) /\ Undisturbed(p)'
                             /\ job # 0 /\ InHand(p)
                             => InHand(p)' \/ Stored(p, Initially(p))'
  PROVE  LossInv'
<1> SUFFICES ASSUME NEW k \in 1 .. job, NEW p \in Paths,
                    Covers(Jobs[k], p), AcceptedBy(Jobs[k], p, Initially(p)), Undisturbed(p)'
             PROVE  Stored(p, Initially(p))' \/ (k = job /\ InHand(p)')
  BY DEF LossInv
<1>1. p \in Seq(Names)
  BY PathsAreTyped
<1>2. Undisturbed(p) /\ (Stored(p, Initially(p)) => Stored(p, Initially(p))')
  BY <1>1, HistoryGrows DEF Grows, Stored
<1>3. Stored(p, Initially(p)) \/ (k = job /\ InHand(p))
  BY <1>2 DEF CopyInv, LossInv
<1>4. job \in Nat
  BY DEF CopyInv, TypeInv
<1> QED
  BY <1>2, <1>3, <1>4 DEF Job

-----------------------------------------------------------------------------
(* Types and history. *)

LEMMA ListingTyped ==
  ASSUME TypeInv, job # 0, job' = job
  PROVE  Listing \subseteq Names
BY JobFacts DEF Listing, Present

LEMMA ResumeTypes ==
  ASSUME TypeInv, Resume
  PROVE  /\ pc' \in Calls /\ frames' \in Seq(Frames) /\ goal' \in Seq(Names)
         /\ at' \in Directories /\ todo' \in Seq(Names) /\ opened' \in Inodes \cup {Absent}
<1>1. frames' \in Seq(Frames)
  BY AdvanceFacts DEF Resume
<1>2. Root \in Directories
  BY FileSystem DEF Directories
<1> QED
  BY <1>1, <1>2 DEF Resume, Calls

LEMMA FoundTyped ==
  ASSUME TypeInv, goal # <<>> \/ todo # <<>>
  PROVE  Found \in Inodes \cup {Absent}
<1> DEFINE n == IF todo # <<>> THEN Head(todo) ELSE Last(goal)
<1>1. n \in Names
  <2>1. CASE todo # <<>>
    BY <2>1 DEF TypeInv
  <2>2. CASE todo = <<>>
    BY <2>2 DEF TypeInv, Last
  <2> QED BY <2>1, <2>2
<1>2. Found = tree[<<at, n>>]
  BY DEF Found
<1>3. <<at, n>> \in Entries
  <2> HIDE DEF n
  <2> QED BY <1>1 DEF TypeInv, Entries, Directories
<1> QED
  <2> HIDE DEF n
  <2> QED BY <1>2, <1>3 DEF TypeInv

LEMMA TypeStep ==
  ASSUME CopyInv, [Next]_vars
  PROVE  TypeInv'
<1>0. TypeInv /\ PlaceInv /\ FramesInv
  BY DEF CopyInv
<1>a. /\ frames # <<>> => /\ Top.dir \in Directories /\ Top.path \in Seq(Names) /\ Top.left \subseteq Names
                          /\ Top.left # {} => EntryPath \in Seq(Names) /\ EntryPath # <<>> /\ EntryName \in Names
      /\ job # 0 /\ (frames = <<>> \/ Top.left # {}) => ScanPath \in Seq(Names) /\ ScanPath # <<>>
  BY <1>0, TopFacts, ScanPathFacts
<1>b. pc # "walk" => job # 0 /\ (frames = <<>> \/ Top.left # {})
  BY <1>0 DEF PlaceInv
<1>c. ASSUME Resume, UNCHANGED <<fileSystem, job, chosen>>,
             said' = said \/ said' = said \cup {goal} \/ said' = said \cup {Subject} \/ said' = said \cup {ScanPath}
               \/ (frames # <<>> /\ said' = said \cup {EntryPath}),
             pc # "walk" \/ (frames # <<>> /\ Top.left # {}),
             stored' = stored \/ (pc = "copy" /\ \E w \in BOOLEAN :
                stored' = stored \cup {[path |-> goal, inode |-> opened, whole |-> w]})
      PROVE  TypeInv'
  <2>1. said' \subseteq Seq(Names)
    <3>1. goal \in Seq(Names) /\ said \subseteq Seq(Names)
      BY <1>0 DEF TypeInv
    <3>2. job # 0 /\ (frames = <<>> \/ Top.left # {})
      BY <1>b, <1>c, <1>0 DEF PlaceInv
    <3>3. ScanPath \in Seq(Names) /\ (frames # <<>> => EntryPath \in Seq(Names))
      BY <3>2, <1>a
    <3> QED
      BY <1>c, <3>1, <3>3 DEF Subject
  <2>2. stored' \subseteq [path : Seq(Names), inode : Inodes, whole : BOOLEAN]
    BY <1>0, <1>c DEF TypeInv, CopyInv, OpenedInv
  <2>3. tree' \in [Entries -> Inodes \cup {Absent}] /\ job' \in 0 .. Len(Jobs)
        /\ chosen' \subseteq Seq(Names) \ {<<>>}
    BY <1>0, <1>c DEF TypeInv, fileSystem
  <2> QED
    BY <1>0, <1>c, <2>1, <2>2, <2>3, ResumeTypes DEF TypeInv
<1>1. CASE NextJob
  <2>1. job' \in 1 .. Len(Jobs)
    BY <1>0, <1>1 DEF NextJob, TypeInv
  <2> DEFINE S == [kind : {"file", "listed", "tree"}, path : Seq(Names) \ {<<>>},
                   includes : SUBSET Names, windowed : BOOLEAN]
  <2>2. Jobs[job'] \in S
    <3>1. Jobs \in Seq(S)
      BY JobsShape
    <3> HIDE DEF S
    <3> QED BY <2>1, <3>1, ElementOfSeq
  <2>3. Jobs[job'].path \in Seq(Names) /\ Jobs[job'].path # <<>>
    BY <2>2
  <2>4. Front(Jobs[job'].path) \in Seq(Names)
    BY <2>3 DEF Front
  <2>5. todo' \in Seq(Names) /\ goal' \in Seq(Names) /\ at' = Root /\ pc' = "open" /\ opened' = Absent
    BY <1>0, <1>1, <2>3, <2>4 DEF NextJob, CopySelected, OpenPath, TypeInv
  <2>6. Root \in Directories
    BY FileSystem DEF Directories
  <2>7. UNCHANGED <<tree, frames, stored, said, chosen>>
    BY <1>1 DEF NextJob, fileSystem
  <2> QED
    BY <1>0, <2>1, <2>5, <2>6, <2>7 DEF TypeInv, Calls
<1>2. CASE OpenComponent
  <2>1. CASE IsDirectory(Found)
    <3>1. Found \in Directories
      BY <1>0, <1>2, <2>1, FoundTyped, FileSystem DEF OpenComponent, IsDirectory, Directories
    <3>2. /\ at' = Found /\ todo' = Tail(todo) /\ todo # <<>>
          /\ UNCHANGED <<pc, frames, goal, opened, said, tree, job, stored, chosen>>
      BY <1>2, <2>1 DEF OpenComponent, Step, fileSystem
    <3>3. todo' \in Seq(Names)
      BY <1>0, <3>2 DEF TypeInv
    <3> QED
      BY <1>0, <3>1, <3>2, <3>3 DEF TypeInv
  <2>2. CASE ~IsDirectory(Found)
    BY <1>2, <2>2, <1>c DEF OpenComponent, Step, Lose, Omit, Fail, NoFault, failures
  <2> QED BY <2>1, <2>2
<1>3. CASE OpenComponentFails
  BY <1>0, <1>3 DEF OpenComponentFails, Step, position, fileSystem, TypeInv, Calls
<1>4. CASE Relook
  BY <1>4, <1>c DEF Relook, Step, Lose, Omit, Fail, NoFault, failures
<1>5. CASE Scan
  <2>1. at \in Directories /\ ScanPath \in Seq(Names) /\ Listing \subseteq Names
    <3>1. job # 0 /\ job' = job
      BY <1>5, <1>b DEF Scan, Step
    <3> QED
      BY <1>0, <1>5, <1>a, <1>b, <3>1, ListingTyped DEF Scan, Step, TypeInv
  <2>2. [dir |-> at, path |-> ScanPath, left |-> Listing] \in Frames
    BY <2>1 DEF Frames
  <2>3. frames' \in Seq(Frames)
    BY <1>0, <1>5, <2>2, AdvanceFacts DEF Scan
  <2>4. Root \in Directories
    BY FileSystem DEF Directories
  <2> QED
    BY <1>0, <1>5, <2>3, <2>4 DEF Scan, Step, fileSystem, TypeInv, Calls
<1>6. CASE ScanFails
  BY <1>6, <1>c DEF ScanFails, Step, Fail
<1>7. CASE LeaveDirectory
  <2>1. frames' \in Seq(Frames)
    BY <1>0, <1>7 DEF LeaveDirectory, Front, TypeInv
  <2> QED
    BY <1>0, <1>7, <2>1 DEF LeaveDirectory, Step, fileSystem, TypeInv, Calls
<1>8. CASE Entry
  <2> DEFINE found  == tree[<<Top.dir, EntryName>>]
             listed == Jobs[job].kind = "listed"
             take   == listed \/ (Accepts(found) /\ EntryName \in Jobs[job].includes)
  <2>1. CASE CopySelected(EntryPath) /\ chosen' = chosen \cup {EntryPath} /\ UNCHANGED <<frames, said>>
    <3>1. EntryPath \in Seq(Names) /\ EntryPath # <<>>
      BY <1>8, <1>a DEF Entry
    <3>2. Front(EntryPath) \in Seq(Names) /\ Root \in Directories
      BY <3>1, FileSystem DEF Front, Directories
    <3> QED
      BY <1>0, <1>8, <2>1, <3>1, <3>2 DEF Entry, CopySelected, OpenPath, Step, fileSystem, TypeInv, Calls
  <2>2. CASE pc' = "child" /\ UNCHANGED <<position, said, chosen>>
    BY <1>0, <1>8, <2>2 DEF Entry, position, Step, fileSystem, TypeInv, Calls
  <2>3. CASE Omit /\ UNCHANGED chosen
    BY <1>8, <1>c, <2>3 DEF Entry, Step, Omit
  <2> QED
    BY <1>8, <2>1, <2>2, <2>3 DEF Entry
<1>9. CASE EntryFails
  BY <1>9, <1>c DEF EntryFails, Step, Fail
<1>10. CASE OpenChild
  <2>1. IsDirectory(Child) => Child \in Directories
    <3>1. frames # <<>> /\ Top.left # {}
      BY <1>0, <1>10 DEF OpenChild, Step, PlaceInv
    <3>2. Child \in Inodes \cup {Absent}
      BY <3>1, EntryFacts DEF CopyInv
    <3> QED
      BY <3>2, FileSystem DEF IsDirectory, Directories
  <2> QED
    BY <1>0, <1>10, <2>1 DEF OpenChild, Step, fileSystem, TypeInv, Calls
<1>11. CASE OpenChildFails
  <2>1. CASE Fail(EntryPath)
    <3>1. frames # <<>>
      BY <1>0, <1>11 DEF OpenChildFails, Step, PlaceInv
    <3> QED
      BY <1>11, <1>c, <2>1, <3>1 DEF OpenChildFails, Step, Fail
  <2>2. CASE pc' = "childlook" /\ UNCHANGED <<position, said>>
    BY <1>0, <1>11, <2>2 DEF OpenChildFails, Step, position, fileSystem, TypeInv, Calls
  <2> QED BY <1>11, <2>1, <2>2 DEF OpenChildFails
<1>12. CASE ChildLook
  <2>1. frames # <<>>
    BY <1>0, <1>12 DEF ChildLook, Step, PlaceInv
  <2> QED
    BY <1>12, <1>c, <2>1 DEF ChildLook, Step, Fail, Omit, NoFault, failures
<1>13. CASE StatSource
  <2>1. CASE Found = Absent \/ Kind[Found] # "file"
    <3>1. Lose \/ Omit
      BY <1>13, <2>1 DEF StatSource
    <3>2. Resume /\ (said' = said \/ said' = said \cup {goal})
      BY <3>1 DEF Lose, Omit, Fail
    <3> QED
      BY <1>13, <1>c, <3>2 DEF StatSource, Step
  <2>2. CASE pc' = "source" /\ UNCHANGED <<position, said>>
    BY <1>0, <1>13, <2>2 DEF StatSource, Step, position, fileSystem, TypeInv, Calls, Copying
  <2> QED BY <1>13, <2>1, <2>2 DEF StatSource
<1>14. CASE OpenSource
  <2>1. CASE Fail(goal) \/ Omit
    BY <1>14, <1>c, <2>1 DEF OpenSource, Step, Omit, Fail
  <2>2. CASE /\ pc' = "opened" /\ opened' = Found
             /\ UNCHANGED <<frames, goal, at, todo, said>>
    <3>1. Found \in Inodes \cup {Absent}
      BY <1>0, <1>14, FoundTyped DEF OpenSource, Step, PlaceInv, Copying
    <3> QED
      BY <1>0, <1>14, <2>2, <3>1 DEF OpenSource, Step, fileSystem, TypeInv, Calls, Copying
  <2> QED BY <1>14, <2>1, <2>2 DEF OpenSource
<1>15. CASE OpenSourceFails
  BY <1>0, <1>15 DEF OpenSourceFails, Step, position, fileSystem, TypeInv, Calls, Copying
<1>16. CASE SourceLook
  BY <1>16, <1>c DEF SourceLook, Step, Omit, Fail
<1>17. CASE SourceCallFails
  BY <1>17, <1>c DEF SourceCallFails, Step, Fail
<1>18. CASE InspectOpened
  <2>1. CASE Accepts(opened)
    BY <1>0, <1>18, <2>1 DEF InspectOpened, Step, position, fileSystem, TypeInv, Calls, Copying
  <2>2. CASE ~Accepts(opened)
    BY <1>18, <1>c, <2>2 DEF InspectOpened, Step, Omit
  <2> QED BY <2>1, <2>2
<1>19. CASE Copy \/ CopyLeavesPart
  BY <1>19, <1>c DEF Copy, CopyLeavesPart, Step, Omit, Fail
<1>22. CASE ParentCloseFails
  <2>1. goal \in Seq(Names) /\ pc' = "raised"
        /\ UNCHANGED <<tree, job, frames, goal, at, todo, opened, chosen>>
    BY <1>0, <1>22 DEF ParentCloseFails, Step, position, fileSystem, TypeInv
  <2>2. said' \subseteq Seq(Names)
    BY <1>0, <1>22, <2>1 DEF ParentCloseFails, TypeInv
  <2>3. stored' \subseteq [path : Seq(Names), inode : Inodes, whole : BOOLEAN]
    BY <1>0, <1>22, <2>1 DEF ParentCloseFails, TypeInv, CopyInv, OpenedInv
  <2> QED
    BY <1>0, <2>1, <2>2, <2>3 DEF TypeInv, Calls
<1>20. CASE Change
  <2>1. tree' \in [Entries -> Inodes \cup {Absent}]
    BY <1>0, <1>20 DEF Change, TypeInv
  <2> QED
    BY <1>0, <1>20, <2>1 DEF Change, position, failures, TypeInv
<1>21. CASE UNCHANGED vars
  BY <1>0, <1>21 DEF vars, position, fileSystem, TypeInv
<1> QED
  BY <1>1, <1>2, <1>3, <1>4, <1>5, <1>6, <1>7, <1>8, <1>9, <1>10, <1>11, <1>12, <1>13, <1>14,
     <1>15, <1>16, <1>17, <1>18, <1>19, <1>20, <1>21, <1>22 DEF Next, CopyStep

LEMMA HistoryStep ==
  ASSUME CopyInv, [Next]_vars
  PROVE  HistoryInv'
<1>1. CASE UNCHANGED fileSystem
  BY <1>1 DEF CopyInv, HistoryInv, fileSystem
<1>2. CASE Change
  <2>1. PICK d \in Inodes, n \in Names, i \in Inodes \cup {Absent} :
          /\ tree' = [tree EXCEPT ![<<d, n>>] = i]
          /\ touched' = touched \cup {<<d, n>>}
          /\ been' = been \cup (IF i = Absent THEN {} ELSE {<<d, n, i>>})
    BY <1>2 DEF Change
  <2> SUFFICES ASSUME NEW e \in Entries
               PROVE  /\ tree'[e] # Absent => <<e[1], e[2], tree'[e]>> \in been'
                      /\ e \notin touched' => tree'[e] = InitialTree[e]
    BY DEF HistoryInv
  <2>2. /\ tree[e] # Absent => <<e[1], e[2], tree[e]>> \in been
        /\ e \notin touched => tree[e] = InitialTree[e]
        /\ tree \in [Entries -> Inodes \cup {Absent}]
    BY DEF CopyInv, HistoryInv, TypeInv
  <2>3. CASE e = <<d, n>>
    <3>1. tree'[e] = i /\ e[1] = d /\ e[2] = n
      BY <2>1, <2>2, <2>3
    <3> QED
      BY <2>1, <2>3, <3>1
  <2>4. CASE e # <<d, n>>
    BY <2>1, <2>2, <2>4
  <2> QED BY <2>3, <2>4
<1>3. ASSUME ~Change PROVE UNCHANGED fileSystem
  <2>1. CASE CopyStep
    BY <2>1 DEF CopyStep, NextJob, OpenComponent, OpenComponentFails, Relook, Scan, ScanFails,
         LeaveDirectory, Entry, EntryFails, OpenChild, OpenChildFails, ChildLook, StatSource,
         OpenSource, OpenSourceFails, SourceLook, SourceCallFails, InspectOpened, Copy,
         CopyLeavesPart, ParentCloseFails, Step
  <2>2. CASE UNCHANGED vars
    BY <2>2 DEF vars, fileSystem
  <2> QED BY <1>3, <2>1, <2>2 DEF Next
<1> QED
  BY <1>1, <1>2, <1>3

-----------------------------------------------------------------------------
(* The file at hand. *)

LEMMA CoversExtends ==
  ASSUME TypeInv, job # 0, NEW p \in Seq(Names), Covers(Job, p)
  PROVE  /\ Extends(p, Job.path)
         /\ Job.kind = "file" => p = Job.path
         /\ Job.kind = "listed" => Len(p) = Len(Job.path) + 1
         /\ Job.kind = "tree" => Len(p) > Len(Job.path)
BY JobFacts, PrefixIsExtended, ExtendsItself DEF Covers

\* It is one of the selection's.
LEMMA GoalFacts ==
  ASSUME CopyInv, goal # <<>>
  PROVE  /\ job # 0 /\ (frames = <<>> \/ Top.left # {})
         /\ pc \notin {"walk", "child", "childlook"}
         /\ goal = ScanPath /\ goal \in Seq(Names)
         /\ Covers(Job, goal)
         /\ Job.kind # "file" => Last(goal) \in Job.includes
         /\ Job.kind = "file" => goal = Job.path
<1> USE DEF CopyInv
<1>1. pc \notin {"walk", "child", "childlook"}
  BY DEF PlaceInv
<1>2. job # 0 /\ (frames = <<>> \/ Top.left # {})
  BY <1>1 DEF PlaceInv
<1>3. goal = ScanPath /\ (frames = <<>> <=> Job.kind = "file")
  BY DEF PlaceInv
<1>4. Job.kind # "file" => Last(goal) \in Job.includes
  BY DEF PlaceInv, Selected, Job
<1>5. /\ goal \in Seq(Names) /\ Extends(goal, Job.path)
      /\ frames = <<>> => goal = Job.path
      /\ frames # <<>> => goal = EntryPath
  BY <1>2, <1>3, ScanPathFacts
<1>6. Job.path \in Seq(Names) /\ Job.kind \in {"file", "listed", "tree"}
  BY <1>2, JobFacts
<1>7. Covers(Job, goal)
  <2>1. CASE frames = <<>>
    BY <1>3, <1>5, <2>1 DEF Covers
  <2>2. CASE frames # <<>>
    <3>1. /\ Top.path \in Seq(Names) /\ EntryName \in Names /\ Extends(Top.path, Job.path)
          /\ Job.kind = "listed" => Len(Top.path) = Len(Job.path)
      BY <1>2, <2>2, TopFacts, TopFits
    <3>2. Len(goal) = Len(Top.path) + 1
      BY <1>5, <2>2, <3>1, AppendedPath DEF EntryPath
    <3>3. Len(Job.path) <= Len(Top.path) /\ Len(Job.path) \in Nat /\ Len(Top.path) \in Nat
      BY <1>6, <3>1 DEF Extends
    <3>4. IsPrefix(Job.path, goal)
      BY <1>5, <1>6, PrefixIsExtended
    <3> QED
      BY <1>3, <1>6, <2>2, <3>1, <3>2, <3>3, <3>4 DEF Covers
  <2> QED BY <2>1, <2>2
<1> QED
  BY <1>1, <1>2, <1>3, <1>4, <1>5, <1>7

\* Nothing wanted lies below it.
LEMMA GoalIsLast ==
  ASSUME CopyInv, goal # <<>>, NEW p \in Seq(Names), Covers(Job, p),
         AcceptedBy(Job, p, Initially(p)), Extends(p, goal), Undisturbed(p)
  PROVE  p = goal /\ Undisturbed(goal)
<1> USE DEF CopyInv
<1>1. /\ job # 0 /\ goal = ScanPath /\ goal \in Seq(Names) /\ Covers(Job, goal)
      /\ Job.kind = "file" => goal = Job.path
  BY GoalFacts
<1>2. \A h \in Seq(Names) : h = goal => (Extends(p, h) => Undisturbed(h))
  BY UndisturbedPrefix
<1>3. Undisturbed(goal)
  BY <1>1, <1>2
<1>4. Len(p) \in Nat /\ Len(goal) \in Nat /\ Len(goal) <= Len(p)
  BY <1>1 DEF Extends
<1>5. ASSUME Len(p) = Len(goal) PROVE p = goal
  BY <1>1, <1>5, SeqEqual DEF Extends
<1>6. CASE Job.kind = "file"
  BY <1>1, <1>3, <1>6, CoversExtends
<1>7. CASE Job.kind = "listed"
  <2>1. Len(p) = Len(goal)
    BY <1>1, <1>7, CoversExtends
  <2> QED BY <1>3, <1>5, <2>1
<1>8. CASE Job.kind = "tree"
  <2>1. CASE Len(p) = Len(goal)
    BY <1>3, <1>5, <2>1
  <2>2. CASE Len(p) # Len(goal)
    <3>1. Len(goal) \in 0 .. Len(p) - 1 /\ Len(goal) \in 0 .. Len(goal)
      BY <1>4, <2>2
    <3>2. Kind[InitiallyAlong(p)[Len(goal)]] = "dir"
      <4>1. Initially(p) # Absent
        BY FileSystem DEF AcceptedBy
      <4> QED BY <3>1, <4>1, OnlyThroughDirectories
    <3>3. Initially(goal) = InitiallyAlong(p)[Len(goal)]
      BY <1>1, <3>1, InitiallyOnPrefix DEF Initially
    <3>4. Kind[Initially(goal)] = "file"
      BY <1>3, <1>8 DEF TroubleInv
    <3> QED
      BY <3>2, <3>3, <3>4
  <2> QED BY <2>1, <2>2
<1>9. Job.kind \in {"file", "listed", "tree"}
  BY <1>1, JobFacts
<1> QED
  BY <1>6, <1>7, <1>8, <1>9

\* What its name leads to.
LEMMA SourceFacts ==
  ASSUME CopyInv, goal # <<>>, todo = <<>>
  PROVE  /\ Found \in Inodes \cup {Absent}
         /\ Found # Absent => Found \in EverAt(goal)
         /\ Undisturbed(goal) => Found = Initially(goal)
<1>1. pc \notin {"walk", "child", "childlook"} /\ goal = ScanPath /\ goal \in Seq(Names)
  BY GoalFacts
<1>2. /\ Reached = Len(ScanPath) - 1
      /\ Found \in Inodes \cup {Absent}
      /\ Found # Absent => Found \in SeenAlong(been, ScanPath)[Reached + 1]
      /\ Undisturbed(ScanPath) => Found = InitiallyAlong(ScanPath)[Reached + 1]
  BY <1>1, FoundFacts
<1>3. Reached + 1 = Len(goal)
  BY <1>1, <1>2
<1> QED
  BY <1>1, <1>2, <1>3 DEF EverAt, Initially

\* A file that is not to be copied excuses its path.
LEMMA NotAcceptedExcuses ==
  ASSUME CopyInv, goal # <<>>, NEW i \in EverAt(goal), ~Accepts(i)
  PROVE  /\ Excused(goal)
         /\ ~AcceptedBy(Job, goal, i)
<1>1. job # 0 /\ Covers(Job, goal)
  BY GoalFacts
<1>2. job \in DOMAIN Jobs
  BY <1>1, JobFacts, JobsShape DEF CopyInv
<1>3. ~AcceptedBy(Job, goal, i)
  BY DEF Accepts, AcceptedBy, Job
<1> QED
  BY <1>1, <1>2, <1>3 DEF Excused, Job

-----------------------------------------------------------------------------
(* The entry at hand is done with. *)

LEMMA EndKeeps ==
  ASSUME CopyInv, Grows, Resume, TypeInv', HistoryInv', StoredWasThere',
         job' = job, chosen' = chosen, job # 0, frames = <<>> \/ Top.left # {},
         NEW h \in Seq(Names), h = ScanPath,
         said' = said \/ (said' = said \cup {h} /\ ~Undisturbed(h)'),
         goal # <<>> /\ Selected => h \in said' \/ Excused(h)',
         \A p \in Paths : Covers(Job, p) /\ AcceptedBy(Job, p, Initially(p))
                             /\ Extends(p, h) /\ Undisturbed(p)' => Stored(p, Initially(p))'
  PROVE  CopyInv'
<1>1. /\ DOMAIN frames' = DOMAIN frames
      /\ Len(frames') = Len(frames) /\ DOMAIN frames = 1 .. Len(frames)
      /\ \A k \in DOMAIN frames :
            /\ frames'[k].dir = frames[k].dir /\ frames'[k].path = frames[k].path
            /\ frames'[k].left = IF k = Len(frames) THEN frames[k].left \ {EntryName} ELSE frames[k].left
  <2>1. frames \in Seq(Frames)
    BY DEF CopyInv, TypeInv
  <2>2. DOMAIN frames = 1 .. Len(frames)
    BY <2>1
  <2>3. frames' = Advance(frames) /\ TypeInv
    BY DEF Resume, CopyInv
  <2> QED
    BY <2>2, <2>3, AdvanceFacts, Zenon
<1>2. FramesInv'
  BY <1>1, FramesKept
<1>3. SaidInv'
  BY SaidKept
<1>4. ChosenInv'
  <2>1. goal # <<>> => goal = h
    BY GoalFacts
  <2>2. chosen \subseteq Seq(Names) \ {<<>>}
    BY DEF CopyInv, TypeInv
  <2>3. \A p \in chosen : p = goal /\ Selected => p \in said' \/ Excused(p)'
    BY <2>1, <2>2
  <2> QED
    BY <2>3, ChosenKept
<1>5. LossInv'
  <2> SUFFICES ASSUME NEW p \in Paths, Covers(Job, p), AcceptedBy(Job, p, Initially(p)),
                      Undisturbed(p)', InHand(p), ~Stored(p, Initially(p))'
               PROVE  InHand(p)'
    BY LossKept
  <2>1. p \in Seq(Names) /\ Extends(p, Job.path)
    BY PathsAreTyped, CoversExtends DEF CopyInv
  <2>2. ~Extends(p, h)
    OBVIOUS
  <2>3. frames # <<>>
    BY <2>1, <2>2, ScanPathFacts DEF CopyInv
  <2>a. PICK k \in DOMAIN frames : \E n \in frames[k].left : Extends(p, Append(frames[k].path, n))
    BY <2>3 DEF InHand
  <2>4. PICK n \in frames[k].left : Extends(p, Append(frames[k].path, n))
    BY <2>a
  <2>5. ~ (k = Len(frames) /\ n = EntryName)
    BY <2>2, <2>3, <2>4, ScanPathFacts DEF EntryPath, Top, CopyInv
  <2>6. k \in DOMAIN frames' /\ n \in frames'[k].left /\ frames'[k].path = frames[k].path
    BY <1>1, <2>4, <2>5
  <2> QED
    BY <2>4, <2>6 DEF InHand
<1>6. pc' = "walk" /\ goal' = <<>> /\ todo' = <<>>
  BY DEF Resume
<1>7. PlaceInv' /\ DescentInv' /\ OpenedInv' /\ TroubleInv'
  <2>1. PlaceInv'
    BY <1>6 DEF PlaceInv, Copying
  <2>2. DescentInv' /\ OpenedInv' /\ TroubleInv'
    BY <1>6 DEF DescentInv, OpenedInv, TroubleInv
  <2> QED BY <2>1, <2>2
<1> QED
  BY <1>2, <1>3, <1>4, <1>5, <1>7 DEF CopyInv

\* Something has happened to it.
LEMMA DisturbedEnds ==
  ASSUME CopyInv, Grows, Resume, TypeInv', HistoryInv', StoredWasThere',
         job' = job, chosen' = chosen, job # 0, frames = <<>> \/ Top.left # {},
         NEW h \in Seq(Names), h = ScanPath, ~Undisturbed(h)',
         said' = said \/ said' = said \cup {h},
         goal # <<>> /\ Selected => h \in said' \/ Excused(h)'
  PROVE  CopyInv'
<1>1. \A p \in Paths : Extends(p, h) /\ Undisturbed(p)' => FALSE
  BY PathsAreTyped, UndisturbedPrefix
<1> QED
  BY <1>1, EndKeeps

\* Or it is nothing that is wanted.
LEMMA UnwantedEnds ==
  ASSUME CopyInv, Grows, Resume, TypeInv', HistoryInv', StoredWasThere',
         job' = job, chosen' = chosen, job # 0, frames = <<>> \/ Top.left # {},
         NEW h \in Seq(Names), h = ScanPath,
         said' = said,
         goal # <<>> /\ Selected => Excused(h),
         \A p \in Paths : Covers(Job, p) /\ AcceptedBy(Job, p, Initially(p))
                             /\ Extends(p, h) /\ Undisturbed(p) => FALSE
  PROVE  CopyInv'
<1>1. Excused(h) => Excused(h)'
  BY ExcusedKept
<1>2. \A p \in Paths : Undisturbed(p)' => Undisturbed(p)
  BY PathsAreTyped, HistoryGrows DEF Grows
<1> QED
  BY <1>1, <1>2, EndKeeps

LEMMA StepFacts ==
  ASSUME CopyInv, CopyStep
  PROVE  /\ Grows /\ TypeInv' /\ HistoryInv'
         /\ stored' = stored /\ job' = job => StoredWasThere'
<1>1. [Next]_vars
  BY DEF Next
<1>2. Grows
  BY <1>1, HistoryOnlyGrows
<1>3. TypeInv' /\ HistoryInv'
  BY <1>1, TypeStep, HistoryStep
<1>4. job \in Nat
  BY DEF CopyInv, TypeInv
<1> QED
  BY <1>2, <1>3, <1>4, StoredKept

LEMMA AtHand ==
  ASSUME CopyInv, pc # "walk" \/ (frames # <<>> /\ Top.left # {})
  PROVE  /\ job # 0 /\ (frames = <<>> \/ Top.left # {})
         /\ ScanPath \in Seq(Names) /\ ScanPath # <<>> /\ Extends(ScanPath, Job.path)
         /\ Job.kind \in {"file", "listed", "tree"}
         /\ goal # <<>> => goal = ScanPath
         /\ Subject = ScanPath
<1>1. job # 0 /\ (frames = <<>> \/ Top.left # {})
  BY DEF CopyInv, PlaceInv
<1>2. goal # <<>> => goal = ScanPath
  BY GoalFacts
<1> QED
  BY <1>1, <1>2, ScanPathFacts, JobFacts DEF Subject, CopyInv

\* A call about it has failed.
LEMMA FaultEnds ==
  ASSUME CopyInv, CopyStep, Resume, job' = job, chosen' = chosen, StoredWasThere',
         pc # "walk" \/ (frames # <<>> /\ Top.left # {}),
         NEW h, h = ScanPath, Fault(h), said' = said \cup {h}
  PROVE  CopyInv'
<1>1. h \in Seq(Names) /\ h # <<>>
  BY AtHand
<1>2. ~Undisturbed(h)'
  BY <1>1, HurtDisturbs DEF Fault
<1> QED
  BY <1>1, <1>2, StepFacts, AtHand, DisturbedEnds

\* Something has happened to it before.
LEMMA TroubleEnds ==
  ASSUME CopyInv, CopyStep, Resume, job' = job, chosen' = chosen, stored' = stored,
         pc # "walk" \/ (frames # <<>> /\ Top.left # {}),
         NEW h, h = ScanPath, ~Undisturbed(h), said' = said \/ said' = said \cup {h},
         goal # <<>> /\ Selected => h \in said' \/ Excused(h)
  PROVE  CopyInv'
<1>1. h \in Seq(Names) /\ h # <<>>
  BY AtHand
<1>2. ~Undisturbed(h)' /\ (Excused(h) => Excused(h)')
  BY <1>1, StepFacts, HistoryGrows, ExcusedKept DEF Grows
<1> QED
  BY <1>1, <1>2, StepFacts, AtHand, DisturbedEnds

LEMMA FailedCallsKeep ==
  ASSUME CopyInv, ScanFails \/ EntryFails \/ SourceCallFails
                    \/ (OpenChildFails /\ Fail(EntryPath))
  PROVE  CopyInv'
<1>1. PICK h : h = ScanPath
  OBVIOUS
<1>2. CopyStep
  BY DEF CopyStep
<1>3. Resume /\ job' = job /\ chosen' = chosen /\ stored' = stored
  BY DEF ScanFails, EntryFails, SourceCallFails, OpenChildFails, Step, Fail
<1>4. pc # "walk" \/ (frames # <<>> /\ Top.left # {})
  BY DEF ScanFails, EntryFails, SourceCallFails, OpenChildFails, Step
<1>5. Fault(h) /\ said' = said \cup {h}
  <2>1. CASE ScanFails
    BY <1>1, <2>1 DEF ScanFails, Fail
  <2>2. CASE EntryFails
    <3>1. EntryPath = h
      BY <1>1, <2>2 DEF EntryFails, ScanPath
    <3> QED
      BY <2>2, <3>1 DEF EntryFails, Fail
  <2>3. CASE SourceCallFails
    <3>1. goal = h
      <4>1. goal # <<>>
        BY <2>3 DEF SourceCallFails, Step, CopyInv, PlaceInv, Copying
      <4> QED
        BY <1>1, <4>1, GoalFacts
    <3> QED
      BY <2>3, <3>1 DEF SourceCallFails, Fail
  <2>4. CASE OpenChildFails /\ Fail(EntryPath)
    <3>1. EntryPath = h
      BY <1>1, <2>4 DEF OpenChildFails, Step, ScanPath, CopyInv, PlaceInv
    <3> QED
      BY <2>4, <3>1 DEF OpenChildFails, Fail
  <2> QED BY <2>1, <2>2, <2>3, <2>4
<1>6. StoredWasThere'
  BY <1>2, <1>3, StepFacts
<1> QED
  BY <1>1, <1>2, <1>3, <1>4, <1>5, <1>6, FaultEnds

LEMMA RelookKeeps ==
  ASSUME CopyInv, Relook
  PROVE  CopyInv'
<1>1. PICK h : h = ScanPath
  OBVIOUS
<1>2. CopyStep
  BY DEF CopyStep
<1>3. Resume /\ job' = job /\ chosen' = chosen /\ stored' = stored /\ pc = "relook"
  BY DEF Relook, Step, Fail, Lose, Omit
<1>4. ~Undisturbed(h)
  BY <1>1, <1>3 DEF CopyInv, TroubleInv
<1>5. Subject = h /\ (goal # <<>> => goal = h)
  BY <1>1, <1>3, AtHand
<1>6. CASE Fail(Subject)
  BY <1>1, <1>2, <1>3, <1>4, <1>5, <1>6, TroubleEnds DEF Fail
<1>7. CASE Lose
  BY <1>1, <1>2, <1>3, <1>4, <1>5, <1>7, TroubleEnds DEF Lose, Fail, Omit
<1> QED
  BY <1>6, <1>7 DEF Relook

LEMMA ChildLookKeeps ==
  ASSUME CopyInv, ChildLook
  PROVE  CopyInv'
<1>1. PICK h : h = ScanPath
  OBVIOUS
<1>2. CopyStep
  BY DEF CopyStep
<1>3. Resume /\ job' = job /\ chosen' = chosen /\ stored' = stored /\ pc = "childlook"
  BY DEF ChildLook, Step, Fail, Omit
<1>4. ~Undisturbed(h) /\ goal = <<>> /\ frames # <<>>
  BY <1>1, <1>3 DEF CopyInv, TroubleInv, PlaceInv
<1>5. EntryPath = h
  BY <1>1, <1>4 DEF ScanPath
<1>6. said' = said \/ said' = said \cup {h}
  BY <1>5 DEF ChildLook, Fail, Omit
<1> QED
  BY <1>1, <1>2, <1>3, <1>4, <1>6, TroubleEnds

LEMMA SourceLookKeeps ==
  ASSUME CopyInv, SourceLook
  PROVE  CopyInv'
<1>1. PICK h : h = ScanPath
  OBVIOUS
<1>2. CopyStep
  BY DEF CopyStep
<1>3. Resume /\ job' = job /\ chosen' = chosen /\ stored' = stored /\ pc = "sourcelook"
  BY DEF SourceLook, Step, Fail, Omit
<1>4. goal # <<>> /\ todo = <<>>
  BY <1>3 DEF CopyInv, PlaceInv, DescentInv, Copying
<1>5. ~Undisturbed(h) /\ goal = h
  BY <1>1, <1>3, <1>4, GoalFacts DEF CopyInv, TroubleInv
<1>6. CASE Kind[Found] \in {"file", "absent"}
  <2>1. said' = said \cup {h}
    BY <1>5, <1>6 DEF SourceLook, Fail
  <2> QED
    BY <1>1, <1>2, <1>3, <1>5, <2>1, TroubleEnds
<1>7. CASE Kind[Found] \notin {"file", "absent"}
  <2>1. Found \in EverAt(goal)
    BY <1>4, <1>7, SourceFacts, FileSystem
  <2>2. Excused(goal)
    BY <1>4, <1>7, <2>1, NotAcceptedExcuses DEF Accepts
  <2>3. goal # <<>> /\ Selected => Excused(h)
    BY <1>5, <2>2
  <2>4. said' = said
    BY <1>7 DEF SourceLook, Omit
  <2> QED
    BY <1>1, <1>2, <1>3, <1>5, <2>3, <2>4, TroubleEnds
<1> QED
  BY <1>6, <1>7

\* Nothing that is wanted is at the file at hand or below it, if its name leads, or
\* led, to something that is not to be copied.
LEMMA NothingWanted ==
  ASSUME CopyInv, goal # <<>>, NEW h, h = goal, NEW i,
         Undisturbed(goal) => i = Initially(goal),
         NEW p \in Paths, Covers(Job, p), AcceptedBy(Job, p, Initially(p)), Extends(p, h), Undisturbed(p)
  PROVE  p = goal /\ Undisturbed(goal) /\ AcceptedBy(Job, goal, i) /\ Accepts(i)
<1>1. p \in Seq(Names)
  BY PathsAreTyped
<1>2. p = goal /\ Undisturbed(goal)
  BY <1>1, GoalIsLast
<1>3. Accepts(Initially(p))
  BY DEF AcceptedBy, Accepts, Job
<1> QED
  BY <1>2, <1>3

LEMMA NoDirectoryKeeps ==
  ASSUME CopyInv, OpenComponent, ~IsDirectory(Found)
  PROVE  CopyInv'
<1> USE DEF CopyInv
<1>1. PICK h : h = ScanPath
  OBVIOUS
<1>2. CopyStep
  BY DEF CopyStep
<1>3. /\ Resume /\ job' = job /\ chosen' = chosen /\ stored' = stored
      /\ pc = "open" /\ todo # <<>> /\ Lose
  BY DEF OpenComponent, Step, Lose, Fail, Omit
<1>4. /\ job # 0 /\ h \in Seq(Names) /\ (frames = <<>> \/ Top.left # {})
      /\ Job.kind \in {"file", "listed", "tree"} /\ (goal # <<>> => goal = h)
  BY <1>1, <1>3, AtHand
<1>5. /\ Reached \in 0 .. Len(h) - 1
      /\ goal # <<>> => Reached + 1 <= Len(h) - 1
      /\ Undisturbed(h) => Found = InitiallyAlong(h)[Reached + 1]
  BY <1>1, <1>3, FoundFacts
<1>6. Kind[Found] # "dir"
  BY DEF IsDirectory
<1>7. CASE goal # <<>> /\ Selected
  <2>1. said' = said \cup {h}
    BY <1>3, <1>4, <1>7 DEF Lose, Fail
  <2>2. ~Undisturbed(h)
    <3> SUFFICES ASSUME Undisturbed(h) PROVE FALSE
      OBVIOUS
    <3>1. Initially(h) # Absent
      BY <1>4, <1>7 DEF TroubleInv
    <3>2. Reached + 1 \in 0 .. Len(h) - 1
      BY <1>4, <1>5, <1>7
    <3>3. Kind[InitiallyAlong(h)[Reached + 1]] = "dir"
      BY <1>4, <3>1, <3>2, OnlyThroughDirectories
    <3> QED
      BY <1>5, <1>6, <3>3
  <2> QED
    BY <1>1, <1>2, <1>3, <2>1, <2>2, TroubleEnds
<1>8. CASE ~(goal # <<>> /\ Selected)
  <2>1. said' = said
    BY <1>3, <1>8 DEF Lose, Omit
  <2>2. ASSUME NEW p \in Paths, Covers(Job, p), AcceptedBy(Job, p, Initially(p)),
               Extends(p, h), Undisturbed(p)
        PROVE  FALSE
    <3>1. p \in Seq(Names) /\ Undisturbed(h)
      BY <1>4, <2>2, PathsAreTyped, UndisturbedPrefix
    <3>2. Initially(p) # Absent
      BY <2>2, FileSystem DEF AcceptedBy
    <3>3. Len(h) \in Nat /\ Len(p) \in Nat /\ Len(h) <= Len(p)
      BY <1>4, <2>2, <3>1 DEF Extends
    <3>4. Reached + 1 \in 0 .. Len(p) - 1
      <4>1. CASE goal # <<>>
        BY <1>5, <3>3, <4>1
      <4>2. CASE goal = <<>>
        <5>1. h = Job.path /\ Job.kind # "file"
          BY <1>1, <1>3, <4>2, AtHand, ScanPathFacts DEF PlaceInv
        <5>2. Len(p) >= Len(h) + 1
          BY <1>4, <2>2, <3>1, <3>3, <5>1, CoversExtends
        <5> QED
          BY <1>5, <3>3, <5>2
      <4> QED BY <4>1, <4>2
    <3>5. Kind[InitiallyAlong(p)[Reached + 1]] = "dir"
      BY <3>1, <3>2, <3>4, OnlyThroughDirectories
    <3>6. InitiallyAlong(p)[Reached + 1] = InitiallyAlong(h)[Reached + 1]
      <4>1. Reached + 1 \in 0 .. Len(h)
        BY <1>5, <3>3
      <4> QED
        BY <1>4, <2>2, <3>1, <4>1, InitiallyOnPrefix
    <3> QED
      BY <1>5, <1>6, <3>1, <3>5, <3>6
  <2> HIDE DEF CopyInv
  <2> QED
    BY <1>1, <1>2, <1>3, <1>4, <1>8, <2>1, <2>2, StepFacts, UnwantedEnds
<1> QED
  BY <1>7, <1>8

\* The file is not there any more, or is something else.
LEMMA LostSourceKeeps ==
  ASSUME CopyInv, CopyStep, Resume, job' = job, chosen' = chosen, stored' = stored,
         pc \in {"open", "source"}, todo = <<>>, goal # <<>>,
         \/ Found = Absent /\ (pc = "source" \/ Selected) /\ said' = said \cup {goal}
         \/ Found = Absent /\ ~Selected /\ said' = said
         \/ Found # Absent /\ Kind[Found] # "file" /\ said' = said
  PROVE  CopyInv'
<1>1. PICK h : h = ScanPath
  OBVIOUS
<1>2. /\ job # 0 /\ (frames = <<>> \/ Top.left # {}) /\ h = goal /\ h \in Seq(Names)
      /\ pc # "walk"
  BY <1>1, GoalFacts
<1>3. /\ Found # Absent => Found \in EverAt(goal)
      /\ Undisturbed(goal) => Found = Initially(goal)
  BY SourceFacts
<1>4. ~Accepts(Found) \/ Found = Absent
  BY DEF Accepts
<1>5. Kind[Absent] = "absent"
  BY FileSystem
<1>6. CASE Found = Absent /\ (pc = "source" \/ Selected) /\ said' = said \cup {goal}
  <2>1. ~Undisturbed(goal)
    BY <1>3, <1>6 DEF CopyInv, TroubleInv
  <2>2. ~Undisturbed(h)
    BY <1>2, <2>1
  <2> QED
    BY <1>1, <1>2, <1>6, <2>2, TroubleEnds
<1>7. CASE said' = said /\ (Selected => Found # Absent) /\ Kind[Found] # "file"
  <2>1. Selected => Excused(goal)
    BY <1>3, <1>7, NotAcceptedExcuses DEF Accepts
  <2>2. goal # <<>> /\ Selected => Excused(h)
    BY <1>2, <2>1
  <2>3. \A p \in Paths : Covers(Job, p) /\ AcceptedBy(Job, p, Initially(p))
                            /\ Extends(p, h) /\ Undisturbed(p) => FALSE
    BY <1>2, <1>3, <1>7, NothingWanted DEF Accepts
  <2> QED
    BY <1>1, <1>2, <1>7, <2>2, <2>3, StepFacts, UnwantedEnds
<1> QED
  BY <1>5, <1>6, <1>7

LEMMA NotAcceptedKeeps ==
  ASSUME CopyInv, InspectOpened, ~Accepts(opened)
  PROVE  CopyInv'
<1>1. PICK h : h = ScanPath
  OBVIOUS
<1>2. CopyStep
  BY DEF CopyStep
<1>3. /\ Resume /\ job' = job /\ chosen' = chosen /\ stored' = stored
      /\ pc = "opened" /\ said' = said
  BY DEF InspectOpened, Step, Omit
<1>4. goal # <<>>
  BY <1>3 DEF CopyInv, PlaceInv, Copying
<1>5. job # 0 /\ (frames = <<>> \/ Top.left # {}) /\ h = goal /\ h \in Seq(Names)
  BY <1>1, <1>4, GoalFacts
<1>6. opened \in EverAt(goal) /\ (Undisturbed(goal) => opened = Initially(goal))
  BY <1>3 DEF CopyInv, OpenedInv
<1>7. Excused(goal)
  BY <1>4, <1>6, NotAcceptedExcuses
<1>8. goal # <<>> /\ Selected => Excused(h)
  BY <1>5, <1>7
<1>9. \A p \in Paths : Covers(Job, p) /\ AcceptedBy(Job, p, Initially(p))
                          /\ Extends(p, h) /\ Undisturbed(p) => FALSE
  BY <1>4, <1>5, <1>6, NothingWanted
<1> QED
  BY <1>1, <1>2, <1>3, <1>5, <1>8, <1>9, StepFacts, UnwantedEnds

\* What is stored, whole or in part, is the file that was accepted.
LEMMA CopiedWasThere ==
  ASSUME CopyInv, CopyStep, pc = "copy", job' = job, NEW w \in BOOLEAN,
         stored' = stored \cup {[path |-> goal, inode |-> opened, whole |-> w]},
         w \/ goal \in said'
  PROVE  /\ StoredWasThere'
         /\ goal # <<>> /\ goal \in Seq(Names)
         /\ opened \in Inodes /\ Accepts(opened)
         /\ Undisturbed(goal) => opened = Initially(goal)
<1>1. goal # <<>>
  BY DEF CopyInv, PlaceInv, Copying
<1>2. /\ job # 0 /\ goal \in Seq(Names) /\ Covers(Job, goal)
      /\ Job.kind # "file" => Last(goal) \in Job.includes
  BY <1>1, GoalFacts
<1>3. /\ opened \in EverAt(goal) /\ opened # Absent /\ Accepts(opened)
      /\ Undisturbed(goal) => opened = Initially(goal)
  BY DEF CopyInv, OpenedInv
<1>4. opened \in Inodes /\ job \in 1 .. job
  BY <1>2, <1>3 DEF CopyInv, TypeInv
<1>5. AcceptedBy(Job, goal, opened)
  BY <1>2, <1>3 DEF Accepts, AcceptedBy, Job
<1>6. Grows
  BY StepFacts
<1>7. PICK g : g = goal
  OBVIOUS
<1>8. opened \in EverAt(g)'
  BY <1>2, <1>3, <1>6, <1>7, HistoryGrows DEF Grows
<1>9. StoredWasThere'
  <2> SUFFICES ASSUME NEW s \in stored'
               PROVE  /\ s.inode \in EverAt(s.path)' /\ (s.whole \/ s.path \in said')
                      /\ \E k \in 1 .. job : Covers(Jobs[k], s.path) /\ AcceptedBy(Jobs[k], s.path, s.inode)
    BY DEF StoredWasThere
  <2>1. CASE s = [path |-> g, inode |-> opened, whole |-> w]
    BY <1>2, <1>4, <1>5, <1>7, <1>8, <2>1 DEF Job
  <2>2. CASE s \in stored
    <3>1. s.path \in Seq(Names)
      BY <2>2 DEF CopyInv, TypeInv
    <3>2. /\ s.inode \in EverAt(s.path) /\ (s.whole \/ s.path \in said)
          /\ \E k \in 1 .. job : Covers(Jobs[k], s.path) /\ AcceptedBy(Jobs[k], s.path, s.inode)
      BY <2>2 DEF CopyInv, StoredWasThere
    <3> QED
      BY <1>6, <3>1, <3>2, HistoryGrows DEF Grows
  <2> QED BY <1>7, <2>1, <2>2
<1> QED
  BY <1>1, <1>2, <1>3, <1>4, <1>9

LEMMA CopyKeeps ==
  ASSUME CopyInv, Copy
  PROVE  CopyInv'
<1>1. PICK h : h = ScanPath
  OBVIOUS
<1>2. CopyStep
  BY DEF CopyStep
<1>3. /\ Resume /\ job' = job /\ chosen' = chosen /\ pc = "copy" /\ said' = said
      /\ stored' = stored \cup {[path |-> goal, inode |-> opened, whole |-> TRUE]}
  BY DEF Copy, Step, Omit
<1>4. /\ StoredWasThere'
      /\ goal # <<>> /\ opened \in Inodes /\ Accepts(opened)
      /\ Undisturbed(goal) => opened = Initially(goal)
  BY <1>2, <1>3, CopiedWasThere
<1>5. job # 0 /\ (frames = <<>> \/ Top.left # {}) /\ h = goal /\ h \in Seq(Names)
  BY <1>1, <1>4, GoalFacts
<1>6. Grows /\ TypeInv' /\ HistoryInv'
  BY <1>2, StepFacts
<1>7. Excused(h)'
  <2>1. PICK o : o = opened
    OBVIOUS
  <2>2. Stored(h, o)'
    BY <1>3, <1>5, <2>1 DEF Stored
  <2> QED
    BY <1>4, <2>1, <2>2 DEF Excused
<1>8. ASSUME NEW p \in Paths, Covers(Job, p), AcceptedBy(Job, p, Initially(p)),
             Extends(p, h), Undisturbed(p)'
      PROVE  Stored(p, Initially(p))'
  <2>1. Undisturbed(p) /\ p \in Seq(Names)
    BY <1>6, <1>8, PathsAreTyped, HistoryGrows DEF Grows
  <2>2. p = goal /\ Undisturbed(goal)
    BY <1>4, <1>5, <1>8, <2>1, GoalIsLast
  <2>3. opened = Initially(p)
    BY <1>4, <2>2
  <2> QED
    BY <1>3, <2>2, <2>3 DEF Stored
<1> QED
  BY <1>1, <1>3, <1>4, <1>5, <1>6, <1>7, <1>8, EndKeeps

LEMMA CopyLeavesPartKeeps ==
  ASSUME CopyInv, CopyLeavesPart
  PROVE  CopyInv'
<1>1. PICK h : h = ScanPath
  OBVIOUS
<1>2. CopyStep
  BY DEF CopyStep
<1>3. /\ Resume /\ job' = job /\ chosen' = chosen /\ pc = "copy" /\ said' = said \cup {goal}
      /\ stored' = stored \cup {[path |-> goal, inode |-> opened, whole |-> FALSE]}
      /\ Fault(goal)
  BY DEF CopyLeavesPart, Step, Fail
<1>4. StoredWasThere' /\ goal # <<>>
  BY <1>2, <1>3, CopiedWasThere
<1>5. h = goal
  BY <1>1, <1>4, GoalFacts
<1>6. Fault(h) /\ said' = said \cup {h}
  BY <1>3, <1>5
<1> QED
  BY <1>1, <1>2, <1>3, <1>4, <1>6, FaultEnds

\* An entry of a tree that is neither a directory nor wanted.
LEMMA EntryOmittedKeeps ==
  ASSUME CopyInv, Step("walk"), frames # <<>>, Top.left # {}, NoFault, UNCHANGED <<stored, chosen>>,
         Omit, CopyStep, Job.kind # "listed", Kind[Child] # "dir",
         ~(Accepts(Child) /\ EntryName \in Job.includes)
  PROVE  CopyInv'
<1> USE DEF CopyInv
<1>1. PICK h : h = ScanPath
  OBVIOUS
<1>2. /\ Resume /\ job' = job /\ chosen' = chosen /\ stored' = stored
      /\ said' = said /\ pc = "walk"
  BY DEF Step, Omit
<1>3. job # 0 /\ h \in Seq(Names) /\ h = EntryPath /\ goal = <<>>
  BY <1>1, <1>2, AtHand DEF PlaceInv, ScanPath
<1>4. Undisturbed(EntryPath) => Child = Initially(EntryPath)
  BY EntryFacts
<1>5. Top.path \in Seq(Names) /\ EntryName \in Names
  BY TopFacts
<1>6. Last(h) = EntryName
  BY <1>3, <1>5, AppendedPath DEF EntryPath
<1>7. Job.kind # "file"
  BY TopFits
<1>8. ASSUME NEW p \in Paths, Covers(Job, p), AcceptedBy(Job, p, Initially(p)),
             Extends(p, h), Undisturbed(p)
      PROVE  FALSE
  <2>1. p \in Seq(Names) /\ Undisturbed(h)
    BY <1>3, <1>8, PathsAreTyped, UndisturbedPrefix
  <2>2. Child = Initially(h)
    BY <1>3, <1>4, <2>1
  <2>3. Len(h) \in Nat /\ Len(p) \in Nat /\ Len(h) <= Len(p)
    BY <1>3, <1>8, <2>1 DEF Extends
  <2>4. CASE Len(h) = Len(p)
    <3>1. p = h
      BY <1>3, <1>8, <2>1, <2>4, SeqEqual DEF Extends
    <3> QED
      BY <1>6, <1>7, <1>8, <2>2, <3>1 DEF AcceptedBy, Accepts, Job
  <2>5. CASE Len(h) # Len(p)
    <3>1. Len(h) \in 0 .. Len(p) - 1 /\ Len(h) \in 0 .. Len(h)
      BY <2>3, <2>5
    <3>2. Initially(p) # Absent
      BY <1>8, FileSystem DEF AcceptedBy
    <3>3. Kind[InitiallyAlong(p)[Len(h)]] = "dir"
      BY <2>1, <3>1, <3>2, OnlyThroughDirectories
    <3>4. InitiallyAlong(p)[Len(h)] = Initially(h)
      BY <1>3, <1>8, <2>1, <3>1, InitiallyOnPrefix DEF Initially
    <3> QED
      BY <2>2, <3>3, <3>4
  <2> QED BY <2>4, <2>5
<1> HIDE DEF CopyInv
<1> QED
  BY <1>1, <1>2, <1>3, <1>8, StepFacts, UnwantedEnds

-----------------------------------------------------------------------------
(* The entry at hand goes on being worked on. *)

\* It is still the same one.
LEMMA HandKept ==
  ASSUME TypeInv, Grows, UNCHANGED <<frames, job>>, ScanPath \in Seq(Names)
  PROVE  /\ ScanPath' = ScanPath
         /\ Undisturbed(ScanPath)' => Undisturbed(ScanPath)
         /\ InitiallyAlong(ScanPath)' = InitiallyAlong(ScanPath)
         /\ Initially(ScanPath)' = Initially(ScanPath)
         /\ \A k \in 0 .. Len(ScanPath) : SeenAlong(been, ScanPath)[k] \subseteq SeenAlong(been', ScanPath')[k]
         /\ goal' = goal => /\ Undisturbed(goal)' => Undisturbed(goal)
                            /\ EverAt(goal) \subseteq EverAt(goal)'
                            /\ Initially(goal)' = Initially(goal)
<1>1. ScanPath' = ScanPath
  BY DEF ScanPath, EntryPath, EntryName, Top
<1>2. PICK h : h = ScanPath
  OBVIOUS
<1>3. PICK g : g = goal
  OBVIOUS
<1>4. /\ Undisturbed(ScanPath)' <=> Free(touched', hurt', ScanPath')
      /\ Undisturbed(h)' <=> Free(touched', hurt', h)
      /\ Undisturbed(ScanPath) <=> Undisturbed(h)
  BY <1>2 DEF Undisturbed, Free
<1>5. Undisturbed(h)' => Undisturbed(h)
  BY <1>2, HistoryGrows DEF Grows
<1>6. \A k \in 0 .. Len(h) : SeenAlong(been, h)[k] \subseteq SeenAlong(been', h)[k]
  BY <1>2, HistoryGrows DEF Grows
<1>7. InitiallyAlong(ScanPath)' = InitiallyAlong(ScanPath') /\ Initially(ScanPath)' = Initially(ScanPath')
  BY DEF Initially, InitiallyAlong
<1>8. ASSUME goal' = goal
      PROVE  /\ Undisturbed(goal)' => Undisturbed(goal)
             /\ EverAt(goal) \subseteq EverAt(goal)'
             /\ Initially(goal)' = Initially(goal)
  <2>1. /\ Undisturbed(goal)' <=> Free(touched', hurt', goal')
        /\ Undisturbed(g)' <=> Free(touched', hurt', g)
        /\ Undisturbed(goal) <=> Undisturbed(g)
    BY <1>3 DEF Undisturbed, Free
  <2>2. EverAt(goal)' = SeenAlong(been', goal')[Len(goal')] /\ EverAt(g)' = SeenAlong(been', g)[Len(g)]
    BY DEF EverAt, SeenAlong
  <2>3. Initially(goal)' = Initially(goal')
    BY DEF Initially, InitiallyAlong
  <2>4. g \in Seq(Names)
    BY <1>3 DEF TypeInv
  <2>5. (Undisturbed(g)' => Undisturbed(g)) /\ EverAt(g) \subseteq EverAt(g)'
    BY <2>4, HistoryGrows DEF Grows
  <2> QED
    BY <1>3, <1>8, <2>1, <2>2, <2>3, <2>5
<1> QED
  BY <1>1, <1>2, <1>4, <1>5, <1>6, <1>7, <1>8

LEMMA ForwardKeeps ==
  ASSUME CopyInv, CopyStep, UNCHANGED <<job, frames, goal, stored, said, chosen>>,
         pc' # "walk", PlaceInv', DescentInv', OpenedInv', TroubleInv'
  PROVE  CopyInv'
<1>1. Grows /\ TypeInv' /\ HistoryInv' /\ StoredWasThere'
  BY StepFacts
<1>2. FramesInv' /\ SaidInv' /\ ChosenInv'
  BY <1>1, FramesKept, SaidKept, ChosenKept
<1>3. LossInv'
  <2>1. \A p : InHand(p) => InHand(p)'
    BY DEF InHand
  <2> QED
    BY <1>1, <2>1, LossKept
<1> QED
  BY <1>1, <1>2, <1>3 DEF CopyInv

LEMMA DirectoryKeeps ==
  ASSUME CopyInv, OpenComponent, IsDirectory(Found)
  PROVE  CopyInv'
<1>1. CopyStep
  BY DEF CopyStep
<1>2. /\ pc = "open" /\ todo # <<>> /\ at' = Found /\ todo' = Tail(todo)
      /\ UNCHANGED <<fileSystem, job, pc, frames, goal, opened, said, stored, chosen>>
      /\ UNCHANGED failures
  BY DEF OpenComponent, Step, NoFault
<1>3. job # 0 /\ ScanPath \in Seq(Names)
  BY <1>2, AtHand
<1>4. Grows
  BY <1>1, StepFacts
<1>5. ScanPath' = ScanPath /\ InitiallyAlong(ScanPath)' = InitiallyAlong(ScanPath)
      /\ (Undisturbed(ScanPath)' => Undisturbed(ScanPath))
      /\ (Undisturbed(goal)' => Undisturbed(goal)) /\ Initially(goal)' = Initially(goal)
  BY <1>2, <1>3, <1>4, HandKept DEF CopyInv
<1>6. Job' = Job /\ Top' = Top /\ (Selected' <=> Selected)
  BY <1>2 DEF Job, Top, Selected
<1>7. PlaceInv'
  <2>1. goal = <<>> => frames = <<>> /\ Job.kind # "file"
    BY <1>2 DEF CopyInv, PlaceInv
  <2> QED
    BY <1>2, <1>3, <1>5, <1>6, <2>1 DEF CopyInv, PlaceInv, Copying
<1>8. DescentInv'
  <2>1. /\ Reached \in 0 .. Len(ScanPath) - 1
        /\ Found # Absent => Found \in SeenAlong(been, ScanPath)[Reached + 1]
        /\ Undisturbed(ScanPath) => Found = InitiallyAlong(ScanPath)[Reached + 1]
    BY <1>2, FoundFacts
  <2>2. Found # Absent
    BY FileSystem DEF IsDirectory
  <2>3. todo \in Seq(Names) /\ Len(todo) \in Nat /\ Len(todo) # 0
    BY <1>2 DEF CopyInv, TypeInv
  <2>4. /\ Len(Tail(todo)) = Len(todo) - 1
        /\ \A n \in 1 .. Len(todo) - 1 : Tail(todo)[n] = todo[n + 1]
    BY <2>3
  <2>5. Len(todo) <= Descent /\ Descent \in Int
    <3>1. Len(ScanPath) \in Nat
      BY <1>3
    <3> QED
      BY <1>2, <3>1 DEF CopyInv, DescentInv, Descent
  <2>6. Descent' = Descent /\ Reached' = Reached + 1
    <3>1. Descent' = Descent
      BY <1>2, <1>5 DEF Descent
    <3> QED
      BY <1>2, <2>3, <2>4, <2>5, <3>1 DEF Reached
  <2>7. \A n \in 1 .. Len(todo') : todo'[n] = ScanPath[Reached + 1 + n]
    <3>1. \A n \in 1 .. Len(todo) : todo[n] = ScanPath[Reached + n]
      BY <1>2 DEF CopyInv, DescentInv
    <3> SUFFICES ASSUME NEW n \in 1 .. Len(todo) - 1
                 PROVE  todo'[n] = ScanPath[Reached + 1 + n]
      BY <1>2, <2>4
    <3>2. n + 1 \in 1 .. Len(todo) /\ Reached + (n + 1) = Reached + 1 + n
      BY <2>1, <2>3
    <3>3. todo[n + 1] = ScanPath[Reached + (n + 1)]
      BY <3>1, <3>2
    <3> QED
      BY <1>2, <2>4, <3>2, <3>3
  <2>8. SeenAlong(been, ScanPath)' = SeenAlong(been, ScanPath)
    BY <1>2, <1>5 DEF SeenAlong, fileSystem
  <2>9. Len(todo') <= Descent'
    BY <1>2, <2>3, <2>4, <2>5, <2>6
  <2> QED
    BY <1>2, <1>5, <2>1, <2>2, <2>6, <2>7, <2>8, <2>9 DEF DescentInv, Copying
<1>9. OpenedInv' /\ TroubleInv'
  BY <1>2, <1>5, <1>6 DEF CopyInv, OpenedInv, TroubleInv
<1> QED
  BY <1>1, <1>2, <1>7, <1>8, <1>9, ForwardKeeps

\* The call is to be looked at again, or the next call is about the same place.
LEMMA SameGroundKept ==
  ASSUME CopyInv, Grows, UNCHANGED <<job, frames, goal, at, todo>>,
         pc \notin {"walk", "child", "childlook"},
         pc' \notin {"walk", "child", "childlook"},
         pc' \in Copying => goal # <<>> /\ todo = <<>>,
         pc' = "relook" => todo # <<>>
  PROVE  PlaceInv' /\ DescentInv'
<1>1. job # 0 /\ ScanPath \in Seq(Names)
  BY AtHand
<1>2. /\ ScanPath' = ScanPath /\ InitiallyAlong(ScanPath)' = InitiallyAlong(ScanPath)
      /\ Undisturbed(ScanPath)' => Undisturbed(ScanPath)
      /\ \A k \in 0 .. Len(ScanPath) : SeenAlong(been, ScanPath)[k] \subseteq SeenAlong(been', ScanPath')[k]
  BY <1>1, HandKept DEF CopyInv
<1>3. Job' = Job /\ Top' = Top /\ (Selected' <=> Selected) /\ Descent' = Descent /\ Reached' = Reached
  BY <1>2 DEF Job, Top, Selected, Descent, Reached
<1>4. PlaceInv'
  BY <1>2, <1>3 DEF CopyInv, PlaceInv
<1>5. Reached \in 0 .. Len(ScanPath)
  <2>1. Len(ScanPath) \in Nat /\ Len(todo) \in Nat /\ Len(todo) <= Descent
    BY <1>1 DEF CopyInv, TypeInv, DescentInv
  <2> QED
    BY <2>1 DEF Reached, Descent
<1>6. DescentInv'
  <2>1. at \in SeenAlong(been', ScanPath')[Reached]
    BY <1>2, <1>5 DEF CopyInv, DescentInv
  <2>2. SeenAlong(been, ScanPath)' = SeenAlong(been', ScanPath')
    BY DEF SeenAlong
  <2> QED
    BY <1>2, <1>3, <2>1, <2>2 DEF CopyInv, DescentInv
<1> QED
  BY <1>4, <1>6

LEMMA SameFileKeeps ==
  ASSUME CopyInv, CopyStep, UNCHANGED <<job, frames, goal, at, todo, stored, said, chosen>>,
         pc \notin {"walk", "child", "childlook"},
         pc' \notin {"walk", "child", "childlook"},
         pc' \in Copying => goal # <<>> /\ todo = <<>>,
         pc' = "relook" => todo # <<>>,
         pc' \in {"relook", "sourcelook"} => ScanPath \in hurt',
         pc' = "source" => Initially(goal) # Absent \/ ~Undisturbed(goal),
         pc' \in {"opened", "copy"} =>
            /\ opened' \in EverAt(goal) /\ opened' # Absent
            /\ Undisturbed(goal) => opened' = Initially(goal),
         pc' = "copy" => Accepts(opened')
  PROVE  CopyInv'
<1>1. job # 0 /\ ScanPath \in Seq(Names) /\ ScanPath # <<>>
  BY AtHand
<1>2. Grows
  BY StepFacts
<1>3. PlaceInv' /\ DescentInv'
  BY <1>2, SameGroundKept
<1>4. /\ ScanPath' = ScanPath
      /\ Undisturbed(goal)' => Undisturbed(goal)
      /\ EverAt(goal) \subseteq EverAt(goal)'
      /\ Initially(goal)' = Initially(goal)
  BY <1>1, <1>2, HandKept DEF CopyInv
<1>5. Job' = Job /\ (Selected' <=> Selected)
  BY DEF Job, Selected
<1>6. OpenedInv'
  <2>1. pc' = "copy" => Accepts(opened)'
    BY DEF Accepts
  <2> QED
    BY <1>4, <2>1 DEF OpenedInv
<1>7. TroubleInv'
  <2>1. pc' \in {"relook", "sourcelook"} => ~Undisturbed(ScanPath)'
    <3>1. PICK h : h = ScanPath
      OBVIOUS
    <3>2. h \in hurt' => ~Undisturbed(h)'
      BY <1>1, <3>1, HurtDisturbs
    <3>3. Undisturbed(ScanPath)' <=> Undisturbed(h)'
      BY <1>4, <3>1 DEF Undisturbed
    <3> QED
      BY <3>1, <3>2, <3>3
  <2> QED
    BY <1>4, <1>5, <2>1 DEF TroubleInv, CopyInv
<1> QED
  BY <1>3, <1>6, <1>7, ForwardKeeps

\* The calls that leave the program at the same file or directory.
LEMMA FileCallsKeep ==
  ASSUME CopyInv, CopyStep,
         \/ OpenComponentFails \/ OpenSourceFails
         \/ StatSource /\ pc' = "source" /\ UNCHANGED <<position, said>> /\ Found # Absent
         \/ OpenSource /\ pc' = "opened"
         \/ InspectOpened /\ pc' = "copy"
  PROVE  CopyInv'
<1> USE DEF Step
<1>1. CASE OpenComponentFails
  <2>1. /\ pc = "open" /\ pc' = "relook" /\ todo # <<>> /\ Subject \in hurt'
        /\ UNCHANGED <<job, frames, goal, at, todo, stored, said, chosen>>
    BY <1>1 DEF OpenComponentFails, Fault, position
  <2>2. Subject = ScanPath
    BY <2>1, AtHand
  <2> QED
    BY <2>1, <2>2, SameFileKeeps DEF Copying
<1>2. CASE OpenSourceFails
  <2>1. /\ pc = "source" /\ pc' = "sourcelook" /\ goal \in hurt'
        /\ UNCHANGED <<job, frames, goal, at, todo, stored, said, chosen>>
    BY <1>2 DEF OpenSourceFails, Fault, position
  <2>2. goal # <<>> /\ todo = <<>>
    BY <2>1 DEF CopyInv, PlaceInv, DescentInv, Copying
  <2>3. goal = ScanPath
    BY <2>2, GoalFacts
  <2> QED
    BY <2>1, <2>2, <2>3, SameFileKeeps
<1>3. CASE StatSource /\ pc' = "source" /\ UNCHANGED <<position, said>> /\ Found # Absent
  <2>1. /\ pc = "open" /\ pc' = "source" /\ goal # <<>> /\ todo = <<>>
        /\ UNCHANGED <<job, frames, goal, at, todo, stored, said, chosen>>
    BY <1>3 DEF StatSource, position
  <2>2. Initially(goal) # Absent \/ ~Undisturbed(goal)
    BY <1>3, <2>1, SourceFacts
  <2> QED
    BY <2>1, <2>2, SameFileKeeps
<1>4. CASE OpenSource /\ pc' = "opened"
  <2>1. /\ pc = "source" /\ opened' = Found /\ Kind[Found] \notin {"absent", "link"}
        /\ UNCHANGED <<job, frames, goal, at, todo, stored, said, chosen>>
    BY <1>4 DEF OpenSource, Fail, Omit, Resume
  <2>2. goal # <<>> /\ todo = <<>>
    BY <2>1 DEF CopyInv, PlaceInv, DescentInv, Copying
  <2>3. Found # Absent
    BY <2>1, FileSystem
  <2> QED
    BY <1>4, <2>1, <2>2, <2>3, SourceFacts, SameFileKeeps
<1>5. CASE InspectOpened /\ pc' = "copy"
  <2>1. /\ pc = "opened" /\ Accepts(opened) /\ opened' = opened
        /\ UNCHANGED <<job, frames, goal, at, todo, stored, said, chosen>>
    BY <1>5 DEF InspectOpened, Omit, Resume, position
  <2>2. goal # <<>> /\ todo = <<>>
    BY <2>1 DEF CopyInv, PlaceInv, DescentInv, Copying
  <2> QED
    BY <1>5, <2>1, <2>2, SameFileKeeps DEF CopyInv, OpenedInv
<1> QED
  BY <1>1, <1>2, <1>3, <1>4, <1>5

\* An entry of a tree is opened as a directory, or looked at again.
LEMMA ChildKeeps ==
  ASSUME CopyInv, OpenChild \/ (OpenChildFails /\ pc' = "childlook")
  PROVE  CopyInv'
<1>1. CopyStep
  BY DEF CopyStep
<1>2. /\ pc = "child" /\ pc' \in {"open", "childlook"} /\ goal = <<>> /\ frames # <<>>
      /\ UNCHANGED <<job, frames, goal, todo, opened, stored, said, chosen>>
  BY DEF OpenChild, OpenChildFails, Step, Fail, Resume, position, CopyInv, PlaceInv
<1>3. /\ job # 0 /\ Top.left # {} /\ ScanPath \in Seq(Names) /\ ScanPath # <<>>
      /\ ScanPath = EntryPath
  BY <1>2, AtHand DEF ScanPath
<1>4. Grows /\ TypeInv'
  BY <1>1, StepFacts
<1>5. /\ ScanPath' = ScanPath /\ InitiallyAlong(ScanPath)' = InitiallyAlong(ScanPath)
      /\ Undisturbed(ScanPath)' => Undisturbed(ScanPath)
      /\ \A k \in 0 .. Len(ScanPath) : SeenAlong(been, ScanPath)[k] \subseteq SeenAlong(been', ScanPath')[k]
  BY <1>2, <1>3, <1>4, HandKept DEF CopyInv
<1>6. Job' = Job /\ Top' = Top /\ (Selected' <=> Selected)
  BY <1>2 DEF Job, Top, Selected
<1>7. PlaceInv'
  BY <1>2, <1>3, <1>5, <1>6 DEF CopyInv, PlaceInv, Copying
<1>8. Undisturbed(ScanPath) => Child = Initially(ScanPath)
  BY <1>2, <1>3, EntryFacts DEF CopyInv
<1>9. pc' = "childlook" => ~Undisturbed(ScanPath)'
  <2>1. CASE OpenChild /\ pc' = "childlook"
    <3>1. Kind[Child] # "dir"
      BY <2>1 DEF OpenChild, IsDirectory
    <3>2. Undisturbed(ScanPath) => Kind[Initially(ScanPath)] = "dir"
      BY <1>2 DEF CopyInv, TroubleInv
    <3> QED
      BY <1>5, <1>8, <3>1, <3>2
  <2>2. CASE OpenChildFails
    <3>1. PICK h : h = ScanPath
      OBVIOUS
    <3>2. h \in hurt'
      BY <1>3, <2>2, <3>1 DEF OpenChildFails, Fault
    <3>3. ~Undisturbed(h)'
      BY <1>3, <3>1, <3>2, HurtDisturbs
    <3>4. Undisturbed(ScanPath)' <=> Undisturbed(h)'
      BY <1>5, <3>1 DEF Undisturbed
    <3> QED BY <3>3, <3>4
  <2> QED BY <2>1, <2>2
<1>10. TroubleInv' /\ OpenedInv'
  BY <1>2, <1>9 DEF TroubleInv, OpenedInv
<1>11. DescentInv'
  <2>1. CASE pc' = "childlook"
    BY <2>1 DEF DescentInv
  <2>2. CASE pc' = "open"
    <3>1. at' = Child /\ Kind[Child] = "dir"
      BY <2>2 DEF OpenChild, OpenChildFails, IsDirectory, Step, Fail, Resume
    <3>2. Child \in EverAt(ScanPath)
      BY <1>2, <1>3, <3>1, EntryFacts, FileSystem DEF CopyInv
    <3>3. todo = <<>>
      BY <1>2 DEF CopyInv, PlaceInv
    <3>4. Descent' = Len(ScanPath) /\ Reached' = Len(ScanPath) /\ Len(todo') = 0
          /\ Len(ScanPath) \in 0 .. Len(ScanPath)
      BY <1>2, <1>3, <1>5, <3>3 DEF Descent, Reached
    <3>5. Child \in SeenAlong(been', ScanPath')[Len(ScanPath)]
      BY <1>5, <3>2, <3>4 DEF EverAt
    <3>6. SeenAlong(been, ScanPath)' = SeenAlong(been', ScanPath')
      BY DEF SeenAlong
    <3>7. Undisturbed(ScanPath)' => at' = InitiallyAlong(ScanPath)[Len(ScanPath)]
      BY <1>5, <1>8, <3>1 DEF Initially
    <3> QED
      BY <1>2, <1>5, <2>2, <3>1, <3>3, <3>4, <3>5, <3>6, <3>7 DEF DescentInv, Copying
  <2> QED BY <1>2, <2>1, <2>2
<1> QED
  BY <1>1, <1>2, <1>7, <1>10, <1>11, ForwardKeeps

-----------------------------------------------------------------------------
(* The next entry, the next directory, the next selection. *)

\* An entry of a tree will be opened as a directory.
LEMMA EntryIsDirectoryKeeps ==
  ASSUME CopyInv, CopyStep, pc = "walk", frames # <<>>, Top.left # {}, Job.kind # "listed",
         Kind[Child] = "dir", pc' = "child", UNCHANGED <<fileSystem, failures, job, position, stored, said, chosen>>
  PROVE  CopyInv'
<1>1. UNCHANGED <<frames, goal, at, todo, opened, touched, hurt>>
  BY DEF position, fileSystem, failures
<1>2. /\ job # 0 /\ ScanPath \in Seq(Names) /\ ScanPath = EntryPath
      /\ Job.kind \in {"file", "listed", "tree"}
  BY AtHand DEF ScanPath
<1>3. goal = <<>> /\ todo = <<>>
  BY DEF CopyInv, PlaceInv
<1>4. Grows
  BY StepFacts
<1>5. /\ ScanPath' = ScanPath /\ Initially(ScanPath)' = Initially(ScanPath)
      /\ Undisturbed(ScanPath)' => Undisturbed(ScanPath)
  BY <1>1, <1>2, <1>4, HandKept DEF CopyInv
<1>6. Job' = Job /\ Top' = Top /\ (Selected' <=> Selected)
  BY <1>1 DEF Job, Top, Selected
<1>7. Job.kind = "tree"
  BY <1>2, TopFits DEF CopyInv
<1>8. PlaceInv'
  BY <1>1, <1>2, <1>3, <1>6, <1>7 DEF PlaceInv, Copying
<1>9. Undisturbed(ScanPath) => Kind[Initially(ScanPath)] = "dir"
  BY <1>2, EntryFacts DEF CopyInv
<1>10. DescentInv' /\ OpenedInv' /\ TroubleInv'
  BY <1>1, <1>3, <1>5, <1>9 DEF DescentInv, OpenedInv, TroubleInv
<1> QED
  BY <1>1, <1>8, <1>10, ForwardKeeps

LEMMA FrontFacts ==
  ASSUME NEW p \in Seq(Names), p # <<>>
  PROVE  /\ Front(p) \in Seq(Names) /\ Len(Front(p)) = Len(p) - 1
         /\ \A n \in 1 .. Len(p) - 1 : Front(p)[n] = p[n]
<1>1. PICK m \in Nat : m = Len(p) - 1
  OBVIOUS
<1>2. Front(p) = SubSeq(p, 1, m)
  BY <1>1 DEF Front
<1>3. \A n \in 1 .. m : p[n] \in Names
  BY <1>1
<1>4. /\ SubSeq(p, 1, m) \in Seq(Names)
      /\ Len(SubSeq(p, 1, m)) = m
      /\ \A n \in 1 .. m : SubSeq(p, 1, m)[n] = p[n]
  BY <1>3, SubSeqProperties
<1> QED
  BY <1>1, <1>2, <1>4

\* A file is chosen.
LEMMA EntryChosenKeeps ==
  ASSUME CopyInv, CopyStep, pc = "walk", frames # <<>>, Top.left # {},
         Job.kind = "listed" \/ (Accepts(Child) /\ EntryName \in Job.includes),
         CopySelected(EntryPath), chosen' = chosen \cup {EntryPath},
         UNCHANGED <<fileSystem, failures, job, frames, stored, said>>
  PROVE  CopyInv'
<1>1. /\ job # 0 /\ ScanPath \in Seq(Names) /\ ScanPath # <<>> /\ ScanPath = EntryPath
      /\ Job.kind \in {"file", "listed", "tree"}
  BY AtHand DEF ScanPath
<1>2. /\ goal = <<>> /\ goal' = EntryPath /\ pc' = "open" /\ at' = Root
      /\ todo' = Front(EntryPath) /\ opened' = Absent
  BY DEF CopySelected, OpenPath, CopyInv, PlaceInv
<1>3. Grows /\ TypeInv' /\ HistoryInv' /\ StoredWasThere'
  BY StepFacts
<1>4. FramesInv' /\ SaidInv'
  BY <1>3, FramesKept, SaidKept
<1>5. LossInv'
  <2>1. \A p : InHand(p) => InHand(p)'
    BY DEF InHand
  <2> QED
    BY <1>3, <2>1, LossKept
<1>6. Job.kind # "file" /\ Selected /\ (Selected' <=> Selected) /\ Job' = Job /\ Top' = Top
  BY TopFits DEF CopyInv, Selected, Job, Top
<1>7. ChosenInv'
  <2> SUFFICES ASSUME NEW p \in chosen', p \notin said'
               PROVE  Excused(p)' \/ (goal' = p /\ Selected')
    BY DEF ChosenInv
  <2>1. CASE p = EntryPath
    BY <1>2, <1>6, <2>1
  <2>2. CASE p \in chosen
    <3>1. p \in Seq(Names) /\ p # <<>>
      BY <2>2 DEF CopyInv, TypeInv
    <3>2. Excused(p)
      BY <1>2, <2>2, <3>1 DEF CopyInv, ChosenInv
    <3> QED
      BY <1>3, <3>1, <3>2, ExcusedKept
  <2> QED BY <2>1, <2>2
<1>8. ScanPath' = ScanPath
  BY <1>1, <1>3, HandKept DEF CopyInv
<1>9. Top.path \in Seq(Names) /\ EntryName \in Names /\ EntryName \in Top.left
  BY TopFacts DEF CopyInv
<1>10. PlaceInv'
  <2>1. Last(EntryPath) = EntryName
    BY <1>9, AppendedPath DEF EntryPath
  <2>2. EntryName \in Job.includes
    BY <1>9, TopFits DEF CopyInv
  <2> QED
    BY <1>1, <1>2, <1>6, <1>8, <2>1, <2>2 DEF PlaceInv, Copying
<1>11. DescentInv'
  <2>1. Len(EntryPath) \in Nat /\ Len(EntryPath) # 0
    BY <1>1
  <2>2. /\ Len(Front(EntryPath)) = Len(EntryPath) - 1
        /\ \A n \in 1 .. Len(EntryPath) - 1 : Front(EntryPath)[n] = EntryPath[n]
    BY <1>1, FrontFacts
  <2>3. Descent' = Len(EntryPath) - 1
    BY <1>1, <1>2, <1>8 DEF Descent
  <2>4. Reached' = 0
    BY <1>2, <2>1, <2>2, <2>3 DEF Reached
  <2>5. SeenAlong(been, ScanPath)'[0] = {Root} /\ InitiallyAlong(ScanPath)'[0] = Root
    <3>1. PICK h, seen : h = ScanPath /\ seen = been'
      OBVIOUS
    <3>2. SeenAlong(been, ScanPath)' = SeenAlong(seen, h) /\ InitiallyAlong(ScanPath)' = InitiallyAlong(h)
      BY <1>8, <3>1 DEF SeenAlong, InitiallyAlong
    <3>3. h \in Seq(Names)
      BY <1>1, <3>1
    <3>4. SeenAlong(seen, h)[0] = {Root}
      BY <3>3, SeenDefined
    <3>5. InitiallyAlong(h)[0] = Root
      BY <3>3, InitiallyDefined
    <3> QED
      BY <3>2, <3>4, <3>5
  <2>6. \A n \in 1 .. Len(todo') : todo'[n] = ScanPath'[0 + n]
    BY <1>1, <1>2, <1>8, <2>1, <2>2
  <2>7. Len(todo') <= Descent'
    BY <1>2, <2>1, <2>2, <2>3
  <2> QED
    BY <1>2, <2>4, <2>5, <2>6, <2>7 DEF DescentInv, Copying
<1>12. OpenedInv' /\ TroubleInv'
  <2>1. PICK h : h = EntryPath
    OBVIOUS
  <2>2. Undisturbed(h)' => Undisturbed(h)
    BY <1>1, <1>3, <2>1, HistoryGrows DEF Grows
  <2>3. Undisturbed(h) => Child = Initially(h) /\ Child # Absent
    BY <2>1, EntryFacts DEF CopyInv
  <2>4. (Undisturbed(goal)' <=> Undisturbed(h)') /\ Initially(goal)' = Initially(h)
    <3>1. goal' = h
      BY <1>2, <2>1
    <3> QED
      BY <3>1 DEF Undisturbed, Initially, InitiallyAlong
  <2>5. Job.kind = "tree" => Kind[Child] = "file"
    BY DEF Accepts
  <2> QED
    BY <1>2, <1>6, <2>2, <2>3, <2>4, <2>5 DEF OpenedInv, TroubleInv
<1> QED
  BY <1>3, <1>4, <1>5, <1>7, <1>10, <1>11, <1>12 DEF CopyInv

LEMMA EntryKeeps ==
  ASSUME CopyInv, Entry
  PROVE  CopyInv'
<1>1. CopyStep
  BY DEF CopyStep
<1>2. /\ Step("walk") /\ frames # <<>> /\ Top.left # {} /\ NoFault /\ UNCHANGED stored
      /\ pc = "walk" /\ UNCHANGED <<fileSystem, job, failures>>
  BY DEF Entry, Step, NoFault
<1> DEFINE take == Job.kind = "listed" \/ (Accepts(Child) /\ EntryName \in Job.includes)
<1>3. \/ take /\ CopySelected(EntryPath) /\ chosen' = chosen \cup {EntryPath} /\ UNCHANGED <<frames, said>>
      \/ /\ Job.kind # "listed" /\ Kind[Child] = "dir"
         /\ pc' = "child" /\ UNCHANGED <<position, said, chosen>>
      \/ ~take /\ Kind[Child] # "dir" /\ Omit /\ UNCHANGED chosen
  BY DEF Entry, Child, Job
<1>4. CASE take /\ CopySelected(EntryPath) /\ chosen' = chosen \cup {EntryPath} /\ UNCHANGED <<frames, said>>
  BY <1>1, <1>2, <1>4, EntryChosenKeeps
<1>5. CASE /\ Job.kind # "listed" /\ Kind[Child] = "dir"
           /\ pc' = "child" /\ UNCHANGED <<position, said, chosen>>
  BY <1>1, <1>2, <1>5, EntryIsDirectoryKeeps
<1>6. CASE ~take /\ Kind[Child] # "dir" /\ Omit /\ UNCHANGED chosen
  BY <1>1, <1>2, <1>6, EntryOmittedKeeps
<1> QED
  BY <1>3, <1>4, <1>5, <1>6

\* A wanted file below a directory that nothing disturbed is below one of its entries.
LEMMA ListedOrPresent ==
  ASSUME CopyInv, pc = "open", todo = <<>>, goal = <<>>, NEW h, h = ScanPath,
         NEW p \in Seq(Names), Covers(Job, p), AcceptedBy(Job, p, Initially(p)),
         Undisturbed(p), Extends(p, h)
  PROVE  \E n \in Listing : Extends(p, Append(h, n))
<1> USE DEF CopyInv
<1>1. /\ job # 0 /\ (frames = <<>> \/ Top.left # {}) /\ h \in Seq(Names) /\ Extends(h, Job.path)
      /\ Job.kind \in {"file", "listed", "tree"}
  BY AtHand
<1>2. Job.kind # "file" /\ (frames # <<>> => Job.kind = "tree")
  BY DEF PlaceInv
<1>3. Len(h) \in Nat /\ Len(p) \in Nat /\ Len(h) <= Len(p)
  BY <1>1 DEF Extends
<1>4. Undisturbed(h) /\ at = Initially(h) /\ at \in Inodes /\ Kind[at] = "dir"
  <2>1. Undisturbed(h)
    BY <1>1, UndisturbedPrefix
  <2>2. Reached = Len(h)
    BY <1>3 DEF Reached, Descent
  <2> QED
    BY <2>1, <2>2 DEF DescentInv, Initially, TypeInv, Directories
<1>5. InitiallyAlong(p)[Len(h)] = at
  BY <1>1, <1>3, <1>4, InitiallyOnPrefix DEF Initially
<1>6. Kind[Initially(p)] = "file" /\ Initially(p) # Absent
  BY FileSystem DEF AcceptedBy
<1>7. Len(p) # Len(h)
  BY <1>4, <1>5, <1>6 DEF Initially
<1> DEFINE k == Len(h) + 1
           n == p[k]
<1>8. k \in 1 .. Len(p) /\ k - 1 = Len(h) /\ n \in Names
  BY <1>3, <1>7
<1>9. Append(h, n) \in Seq(Names) /\ Extends(p, Append(h, n))
  BY <1>1, <1>3, <1>8 DEF Extends
<1>10. InitiallyAlong(p)[k] = InitialTree[<<at, n>>]
  BY <1>4, <1>5, <1>8, InitiallyDefined DEF InitiallyBelow
<1>11. InitiallyAlong(p)[k] # Absent
  <2>1. CASE k = Len(p)
    BY <1>6, <2>1 DEF Initially
  <2>2. CASE k # Len(p)
    <3>1. k \in 0 .. Len(p) - 1
      BY <1>8, <2>2
    <3>2. Kind[InitiallyAlong(p)[k]] = "dir"
      BY <1>6, <3>1, OnlyThroughDirectories
    <3> QED
      BY <3>2, FileSystem
  <2> QED BY <2>1, <2>2
<1>12. n \in Present(at)
  <2>1. <<at, n>> \notin touched
    BY <1>5, <1>8, UndisturbedEntry
  <2>2. <<at, n>> \in Entries
    BY <1>4, <1>8 DEF Entries
  <2>3. tree[<<at, n>>] = InitialTree[<<at, n>>]
    BY <2>1, <2>2 DEF HistoryInv
  <2> QED
    BY <1>8, <1>10, <1>11, <2>3 DEF Present
<1>13. Job.kind = "listed" => n \in Job.includes
  <2> SUFFICES ASSUME Job.kind = "listed" PROVE n \in Job.includes
    OBVIOUS
  <2>1. h = Job.path
    BY <1>1, <1>2, ScanPathFacts
  <2>2. Len(p) = k
    BY <1>1, <1>3, <2>1, CoversExtends
  <2> QED
    BY <2>2 DEF AcceptedBy, Last
<1>14. n \in Listing
  BY <1>8, <1>12, <1>13 DEF Listing, Job
<1> QED
  BY <1>9, <1>14

LEMMA ScanKeeps ==
  ASSUME CopyInv, Scan
  PROVE  CopyInv'
<1>1. CopyStep
  BY DEF CopyStep
<1>2. PICK h : h = ScanPath
  OBVIOUS
<1>3. PICK new : new = [dir |-> at, path |-> h, left |-> Listing]
  OBVIOUS
<1>4. /\ pc = "open" /\ todo = <<>> /\ goal = <<>> /\ pc' = "walk" /\ todo' = <<>> /\ goal' = <<>>
      /\ frames' = Append(Advance(frames), new)
      /\ UNCHANGED <<fileSystem, failures, job, stored, said, chosen>>
  BY <1>2, <1>3 DEF Scan, Step, NoFault
<1>5. Grows /\ TypeInv' /\ HistoryInv' /\ StoredWasThere'
  BY <1>1, <1>4, StepFacts
<1>6. SaidInv' /\ ChosenInv'
  BY <1>4, <1>5, SaidKept, ChosenKept
<1>7. /\ job # 0 /\ (frames = <<>> \/ Top.left # {}) /\ h \in Seq(Names) /\ Extends(h, Job.path)
      /\ Job.kind \in {"file", "listed", "tree"}
      /\ Job.kind # "file" /\ (frames # <<>> => Job.kind = "tree" /\ h = EntryPath)
      /\ frames = <<>> => h = Job.path
  <2>1. job # 0 /\ (frames = <<>> \/ Top.left # {})
    BY <1>4, AtHand
  <2> QED
    BY <1>2, <1>4, <2>1, AtHand, ScanPathFacts DEF CopyInv, PlaceInv
<1>8. /\ Advance(frames) \in Seq(Frames) /\ Len(Advance(frames)) = Len(frames)
      /\ DOMAIN frames = 1 .. Len(frames) /\ Len(frames) \in Nat
      /\ \A k \in DOMAIN frames :
            /\ Advance(frames)[k].dir = frames[k].dir /\ Advance(frames)[k].path = frames[k].path
            /\ Advance(frames)[k].left =
                 IF k = Len(frames) THEN frames[k].left \ {EntryName} ELSE frames[k].left
  <2>1. frames \in Seq(Frames) /\ TypeInv
    BY DEF CopyInv, TypeInv
  <2>2. DOMAIN frames = 1 .. Len(frames) /\ Len(frames) \in Nat
    BY <2>1
  <2> QED
    BY <2>1, <2>2, AdvanceFacts, Zenon
<1>9. /\ DOMAIN frames' = 1 .. Len(frames) + 1
      /\ frames'[Len(frames) + 1] = new
      /\ \A k \in DOMAIN frames : frames'[k] = Advance(frames)[k]
  BY <1>4, <1>8
<1>10. FrameFits(new, Job, been, touched, hurt)
  <2>1. new.dir = at /\ new.path = h /\ new.left = Listing
    BY <1>3
  <2>2. Reached = Len(h)
    BY <1>2, <1>4, <1>7 DEF Reached, Descent
  <2>3. at \in SeenAlong(been, h)[Len(h)] /\ (Undisturbed(h) => at = Initially(h))
    BY <1>2, <1>4, <2>2 DEF CopyInv, DescentInv, Initially
  <2>4. Job.kind = "listed" => Len(h) = Len(Job.path) /\ Listing \subseteq Job.includes
    BY <1>7 DEF Listing, Job
  <2>5. \A n \in Listing : <<at, n>> \notin touched => InitialTree[<<at, n>>] # Absent
    <3> SUFFICES ASSUME NEW n \in Listing, <<at, n>> \notin touched
                 PROVE  InitialTree[<<at, n>>] # Absent
      OBVIOUS
    <3>1. n \in Names /\ tree[<<at, n>>] # Absent
      BY DEF Listing, Present
    <3>2. <<at, n>> \in Entries
      BY <3>1 DEF CopyInv, TypeInv, Directories, Entries
    <3> QED
      BY <3>1, <3>2 DEF CopyInv, HistoryInv
  <2>6. Undisturbed(h) <=> Free(touched, hurt, h)
    BY DEF Undisturbed, Free
  <2> QED
    BY <1>7, <2>1, <2>3, <2>4, <2>5, <2>6 DEF FrameFits
<1>11. FramesInv'
  <2> SUFFICES ASSUME NEW k \in DOMAIN frames'
               PROVE  FrameFits(frames'[k], Job', been', touched', hurt')
    BY DEF FramesInv
  <2>1. Job' = Job /\ been' = been /\ touched' = touched /\ hurt' = hurt
    BY <1>4 DEF Job, fileSystem, failures
  <2>2. CASE k = Len(frames) + 1
    BY <1>9, <1>10, <2>1, <2>2
  <2>3. CASE k # Len(frames) + 1
    <3>1. k \in DOMAIN frames
      BY <1>8, <1>9, <2>3
    <3>2. frames[k] \in Frames /\ FrameFits(frames[k], Job, been, touched, hurt)
      BY <3>1 DEF CopyInv, TypeInv, FramesInv
    <3>3. /\ frames'[k].dir = frames[k].dir /\ frames'[k].path = frames[k].path
          /\ frames'[k].left \subseteq frames[k].left /\ frames[k].path \in Seq(Names)
      BY <1>8, <1>9, <3>1, <3>2 DEF Frames
    <3> QED
      BY <2>1, <3>2, <3>3, FrameKept
  <2> QED BY <2>2, <2>3
<1>12. LossInv'
  <2> SUFFICES ASSUME NEW p \in Paths, Covers(Job, p), AcceptedBy(Job, p, Initially(p)),
                      Undisturbed(p)', InHand(p)
               PROVE  InHand(p)'
    BY <1>4, <1>5, LossKept
  <2>1. p \in Seq(Names) /\ Undisturbed(p)
    BY <1>5, PathsAreTyped, HistoryGrows DEF Grows
  <2>2. CASE Extends(p, h)
    <3>1. PICK n \in Listing : Extends(p, Append(h, n))
      BY <1>2, <1>4, <2>1, <2>2, ListedOrPresent
    <3>2. new.path = h /\ n \in new.left
      BY <1>3
    <3>3. Len(frames) + 1 \in DOMAIN frames'
      BY <1>8, <1>9
    <3> QED
      BY <1>9, <3>1, <3>2, <3>3 DEF InHand
  <2>3. CASE ~Extends(p, h)
    <3>1. frames # <<>>
      BY <1>7, <2>1, <2>3, CoversExtends DEF CopyInv
    <3>2. PICK k \in DOMAIN frames : \E n \in frames[k].left : Extends(p, Append(frames[k].path, n))
      BY <3>1 DEF InHand
    <3>3. PICK n \in frames[k].left : Extends(p, Append(frames[k].path, n))
      BY <3>2
    <3>4. ~ (k = Len(frames) /\ n = EntryName)
      <4>1. EntryPath = Append(frames[Len(frames)].path, EntryName)
        BY DEF EntryPath, Top
      <4>2. h = EntryPath
        BY <1>7, <3>1
      <4> QED
        BY <2>3, <3>3, <4>1, <4>2
    <3>5. k \in DOMAIN frames' /\ frames'[k] = Advance(frames)[k]
      BY <1>8, <1>9, <3>2
    <3>6. n \in Advance(frames)[k].left /\ Advance(frames)[k].path = frames[k].path
      BY <1>8, <3>2, <3>3, <3>4
    <3> QED
      BY <3>3, <3>5, <3>6 DEF InHand
  <2> QED BY <2>2, <2>3
<1>13. PlaceInv' /\ DescentInv' /\ OpenedInv' /\ TroubleInv'
  BY <1>4, <1>7 DEF PlaceInv, DescentInv, OpenedInv, TroubleInv, Copying
<1> QED
  BY <1>5, <1>6, <1>11, <1>12, <1>13 DEF CopyInv

LEMMA LeaveDirectoryKeeps ==
  ASSUME CopyInv, LeaveDirectory
  PROVE  CopyInv'
<1>1. CopyStep
  BY DEF CopyStep
<1>2. /\ pc = "walk" /\ pc' = "walk" /\ frames # <<>> /\ Top.left = {} /\ frames' = Front(frames)
      /\ UNCHANGED <<job, goal, todo, stored, said, chosen>>
  BY DEF LeaveDirectory, Step
<1>3. Grows /\ TypeInv' /\ HistoryInv' /\ StoredWasThere'
  BY <1>1, <1>2, StepFacts
<1>4. frames \in Seq(Frames) /\ Len(frames) \in Nat /\ Len(frames) # 0
  BY <1>2 DEF CopyInv, TypeInv
<1>5. /\ DOMAIN frames = 1 .. Len(frames) /\ DOMAIN frames' = 1 .. Len(frames) - 1
      /\ \A k \in 1 .. Len(frames) - 1 : frames'[k] = frames[k]
  BY <1>2, <1>4 DEF Front
<1>6. FramesInv' /\ SaidInv' /\ ChosenInv'
  BY <1>2, <1>3, <1>5, FramesKept, SaidKept, ChosenKept
<1>7. LossInv'
  <2>1. ASSUME NEW p, InHand(p) PROVE InHand(p)'
    <3>1. PICK k \in DOMAIN frames : \E n \in frames[k].left : Extends(p, Append(frames[k].path, n))
      BY <1>2, <2>1 DEF InHand
    <3>2. k # Len(frames)
      BY <1>2, <3>1 DEF Top
    <3>3. k \in DOMAIN frames' /\ frames'[k] = frames[k]
      BY <1>4, <1>5, <3>2
    <3> QED
      BY <3>1, <3>3 DEF InHand
  <2> QED
    BY <1>2, <1>3, <2>1, LossKept
<1>8. PlaceInv'
  BY <1>2 DEF CopyInv, PlaceInv, Copying
<1>9. DescentInv' /\ OpenedInv' /\ TroubleInv'
  <2>1. goal = <<>>
    BY <1>2 DEF CopyInv, PlaceInv
  <2> QED
    BY <1>2, <2>1 DEF DescentInv, OpenedInv, TroubleInv
<1> QED
  BY <1>3, <1>6, <1>7, <1>8, <1>9 DEF CopyInv

LEMMA NextJobKeeps ==
  ASSUME CopyInv, NextJob
  PROVE  CopyInv'
<1>1. CopyStep
  BY DEF CopyStep
<1>2. PICK j : j = Jobs[job']
  OBVIOUS
<1>3. /\ pc = "walk" /\ pc' = "open" /\ frames = <<>> /\ frames' = <<>>
      /\ goal = <<>> /\ job' = job + 1 /\ job < Len(Jobs) /\ at' = Root /\ opened' = Absent
      /\ j.kind = "file" => goal' = j.path /\ todo' = Front(j.path)
      /\ j.kind # "file" => goal' = <<>> /\ todo' = j.path
      /\ UNCHANGED <<fileSystem, stored, said, failures, chosen>>
  BY <1>2 DEF NextJob, CopySelected, OpenPath, CopyInv, PlaceInv
<1>4. Grows /\ TypeInv' /\ HistoryInv'
  BY <1>1, StepFacts
<1>5. job \in Nat /\ job' \in 1 .. Len(Jobs) /\ job' # 0
  BY <1>3 DEF CopyInv, TypeInv
<1>6. Job' = j /\ j.kind \in {"file", "listed", "tree"} /\ j.path \in Seq(Names) /\ j.path # <<>>
  <2>1. Job' = j
    BY <1>2 DEF Job
  <2> DEFINE S == [kind : {"file", "listed", "tree"}, path : Seq(Names) \ {<<>>},
                   includes : SUBSET Names, windowed : BOOLEAN]
  <2>2. j \in S
    <3>1. Jobs \in Seq(S)
      BY JobsShape
    <3> HIDE DEF S
    <3> QED BY <1>2, <1>5, <3>1, ElementOfSeq
  <2> QED BY <2>1, <2>2
<1>7. StoredWasThere'
  BY <1>3, <1>4, <1>5, StoredKept
<1>8. FramesInv'
  BY <1>3 DEF FramesInv
<1>9. SaidInv'
  BY <1>3, <1>4, SaidKept
<1>10. ChosenInv'
  <2> SUFFICES ASSUME NEW p \in chosen, p \notin said PROVE Excused(p)'
    BY <1>3 DEF ChosenInv
  <2>1. p \in Seq(Names) /\ p # <<>>
    BY DEF CopyInv, TypeInv
  <2>2. Excused(p)
    BY <1>3, <2>1 DEF CopyInv, ChosenInv
  <2> QED
    BY <1>4, <2>1, <2>2, ExcusedKept
<1>11. LossInv'
  <2> SUFFICES ASSUME NEW k \in 1 .. job', NEW p \in Paths,
                      Covers(Jobs[k], p), AcceptedBy(Jobs[k], p, Initially(p)), Undisturbed(p)'
               PROVE  Stored(p, Initially(p))' \/ (k = job' /\ InHand(p)')
    BY DEF LossInv
  <2>1. CASE k = job'
    BY <1>3, <2>1 DEF InHand
  <2>2. CASE k # job'
    <3>1. k \in 1 .. job
      BY <1>3, <1>5, <2>2
    <3>2. Undisturbed(p) /\ ~InHand(p)
      BY <1>3, <1>4, PathsAreTyped, HistoryGrows DEF Grows, InHand
    <3>3. Stored(p, Initially(p))
      BY <3>1, <3>2 DEF CopyInv, LossInv
    <3> QED
      BY <1>3, <3>3 DEF Stored
  <2> QED BY <2>1, <2>2
<1>12. ScanPath' = j.path
  BY <1>3, <1>6 DEF ScanPath, Job
<1>13. PlaceInv'
  <2>1. Selected' <=> j.kind # "file"
    BY <1>2 DEF Selected
  <2> QED
    BY <1>3, <1>5, <1>6, <1>12, <2>1 DEF PlaceInv, Copying
<1>14. DescentInv'
  <2>1. Len(j.path) \in Nat /\ Len(j.path) # 0
    BY <1>6
  <2>2. PICK seen : seen = been'
    OBVIOUS
  <2>3. SeenAlong(been, ScanPath)' = SeenAlong(seen, j.path)
        /\ InitiallyAlong(ScanPath)' = InitiallyAlong(j.path)
    BY <1>12, <2>2 DEF SeenAlong, InitiallyAlong
  <2>4. SeenAlong(seen, j.path)[0] = {Root} /\ InitiallyAlong(j.path)[0] = Root
    BY <1>6, SeenDefined, InitiallyDefined
  <2>5. /\ Len(todo') = Descent' /\ Descent' - Len(todo') = 0 /\ Descent' \in Nat
        /\ \A n \in 1 .. Len(todo') : todo'[n] = j.path[0 + n]
    <3>1. CASE j.kind = "file"
      <4>1. goal' = j.path /\ todo' = Front(j.path)
        BY <1>3, <3>1
      <4>2. Descent' = Len(j.path) - 1
        BY <1>6, <1>12, <4>1 DEF Descent
      <4>3. /\ Len(Front(j.path)) = Len(j.path) - 1
            /\ \A n \in 1 .. Len(j.path) - 1 : Front(j.path)[n] = j.path[n]
        BY <1>6, FrontFacts
      <4> QED
        BY <2>1, <4>1, <4>2, <4>3
    <3>2. CASE j.kind # "file"
      <4>1. goal' = <<>> /\ todo' = j.path
        BY <1>3, <3>2
      <4>2. Descent' = Len(j.path)
        BY <1>12, <2>1, <4>1 DEF Descent
      <4> QED
        BY <2>1, <4>1, <4>2
    <3> QED BY <3>1, <3>2
  <2>6. Reached' = 0
    BY <2>5 DEF Reached
  <2>7. at' \in SeenAlong(been, ScanPath)'[Reached'] /\ at' = InitiallyAlong(ScanPath)'[Reached']
    BY <1>3, <2>3, <2>4, <2>6
  <2>8. Len(todo') <= Descent' /\ \A n \in 1 .. Len(todo') : todo'[n] = ScanPath'[Reached' + n]
    BY <1>12, <2>5, <2>6
  <2> QED
    BY <1>3, <2>7, <2>8 DEF DescentInv, Copying
<1>15. OpenedInv' /\ TroubleInv'
  <2>1. goal' # <<>> => j.kind = "file" /\ ~Selected'
    BY <1>2, <1>3 DEF Selected
  <2> QED
    BY <1>3, <1>6, <2>1 DEF OpenedInv, TroubleInv
<1> QED
  BY <1>4, <1>7, <1>8, <1>9, <1>10, <1>11, <1>13, <1>14, <1>15 DEF CopyInv

\* The collector ends in the middle of a file.
LEMMA ParentCloseFailsKeeps ==
  ASSUME CopyInv, ParentCloseFails
  PROVE  CopyInv'
<1>1. CopyStep
  BY DEF CopyStep
<1>2. /\ UNCHANGED <<job, frames, goal, at, todo, opened, chosen>>
      /\ pc' = "raised" /\ goal \in hurt'
      /\ said' = said \/ said' = said \cup {goal}
      /\ pc \in {"open"} \cup Copying
  BY DEF ParentCloseFails, Step, position, Fault, Copying
<1>3. goal # <<>>
  BY DEF ParentCloseFails, Step, CopyInv, PlaceInv, Copying
<1>4. /\ goal = ScanPath /\ goal \in Seq(Names) /\ job # 0
  BY <1>3, GoalFacts
<1>5. Grows /\ TypeInv' /\ HistoryInv'
  BY <1>1, StepFacts
<1>6. ~Undisturbed(goal)'
  <2>1. PICK h : h = goal
    OBVIOUS
  <2>2. ~Undisturbed(h)'
    BY <1>2, <1>3, <1>4, <2>1, HurtDisturbs
  <2>3. goal' = h
    BY <1>2, <2>1
  <2> QED
    BY <2>2, <2>3 DEF Undisturbed
<1>7. PlaceInv' /\ DescentInv'
  BY <1>2, <1>3, <1>5, SameGroundKept DEF Copying
<1>8. FramesInv' /\ ChosenInv'
  BY <1>2, <1>5, FramesKept, ChosenKept
<1>9. SaidInv'
  <2>1. PICK h : h = goal
    OBVIOUS
  <2>2. ~Undisturbed(h)'
    BY <1>2, <1>3, <1>4, <2>1, HurtDisturbs
  <2> QED
    BY <1>2, <1>4, <1>5, <2>1, <2>2, SaidKept
<1>10. StoredWasThere'
  <2>1. CASE stored' = stored
    BY <1>1, <1>2, <2>1, StepFacts
  <2>2. CASE stored' # stored
    <3>1. PICK w \in BOOLEAN :
             /\ pc = "copy" /\ (w \/ goal \in said')
             /\ stored' = stored \cup {[path |-> goal, inode |-> opened, whole |-> w]}
      BY <2>2 DEF ParentCloseFails
    <3> QED
      BY <1>1, <1>2, <3>1, CopiedWasThere
  <2> QED BY <2>1, <2>2
<1>11. LossInv'
  <2>1. \A p : InHand(p) => InHand(p)'
    BY <1>2 DEF InHand
  <2> QED
    BY <1>2, <1>5, <2>1, LossKept
<1>12. OpenedInv'
  BY <1>2 DEF OpenedInv
<1>13. TroubleInv'
  BY <1>2, <1>6 DEF TroubleInv
<1> QED
  BY <1>5, <1>7, <1>8, <1>9, <1>10, <1>11, <1>12, <1>13 DEF CopyInv

-----------------------------------------------------------------------------
(* The node's own steps. *)

LEMMA ChangeKeeps ==
  ASSUME CopyInv, Change \/ UNCHANGED vars
  PROVE  CopyInv'
<1>1. UNCHANGED <<job, pc, frames, goal, at, todo, opened, stored, said, chosen>>
  BY DEF Change, vars, position
<1>2. [Next]_vars
  BY DEF Next
<1>3. Grows /\ TypeInv' /\ HistoryInv'
  BY <1>2, HistoryOnlyGrows, TypeStep, HistoryStep
<1>4. job \in Nat
  BY DEF CopyInv, TypeInv
<1>5. FramesInv' /\ SaidInv' /\ StoredWasThere' /\ ChosenInv'
  BY <1>1, <1>3, <1>4, FramesKept, SaidKept, StoredKept, ChosenKept
<1>6. LossInv'
  <2>1. \A p : InHand(p) => InHand(p)'
    BY <1>1 DEF InHand
  <2> QED
    BY <1>1, <1>3, <2>1, LossKept
<1>7. Job' = Job /\ Top' = Top /\ (Selected' <=> Selected)
  BY <1>1 DEF Job, Top, Selected
<1>8. CASE pc = "walk"
  <2>1. goal = <<>>
    BY <1>8 DEF CopyInv, PlaceInv
  <2>2. PlaceInv'
    BY <1>1, <1>7, <1>8, <2>1 DEF CopyInv, PlaceInv, Copying
  <2>3. DescentInv' /\ OpenedInv' /\ TroubleInv'
    BY <1>1, <1>8, <2>1 DEF DescentInv, OpenedInv, TroubleInv
  <2> QED
    BY <1>3, <1>5, <1>6, <2>2, <2>3 DEF CopyInv
<1>9. CASE pc # "walk"
  <2>1. job # 0 /\ ScanPath \in Seq(Names)
    BY <1>9, AtHand
  <2>2. /\ ScanPath' = ScanPath /\ Initially(ScanPath)' = Initially(ScanPath)
        /\ Undisturbed(ScanPath)' => Undisturbed(ScanPath)
        /\ Undisturbed(goal)' => Undisturbed(goal)
        /\ EverAt(goal) \subseteq EverAt(goal)'
        /\ Initially(goal)' = Initially(goal)
    BY <1>1, <1>3, <2>1, HandKept DEF CopyInv
  <2>3. PlaceInv' /\ DescentInv'
    <3>1. CASE pc \in {"child", "childlook"}
      <4>1. PlaceInv'
        BY <1>1, <1>7, <2>2, <3>1 DEF CopyInv, PlaceInv
      <4> QED
        BY <1>1, <3>1, <4>1 DEF DescentInv
    <3>2. CASE pc \notin {"child", "childlook"}
      <4>1. (pc \in Copying => goal # <<>> /\ todo = <<>>) /\ (pc = "relook" => todo # <<>>)
        BY <1>9, <3>2 DEF CopyInv, PlaceInv, DescentInv
      <4> QED
        BY <1>1, <1>3, <1>9, <3>2, <4>1, SameGroundKept
    <3> QED BY <3>1, <3>2
  <2>4. OpenedInv'
    <3>1. Accepts(opened)' <=> Accepts(opened)
      BY <1>1 DEF Accepts
    <3> QED
      BY <1>1, <2>2, <3>1 DEF CopyInv, OpenedInv
  <2>5. TroubleInv'
    BY <1>1, <1>7, <2>2 DEF CopyInv, TroubleInv
  <2> QED
    BY <1>3, <1>5, <1>6, <2>3, <2>4, <2>5 DEF CopyInv
<1> QED
  BY <1>8, <1>9

-----------------------------------------------------------------------------
(* The theorems. *)

LEMMA CopyInvInitially ==
  ASSUME Init
  PROVE  CopyInv
<1>1. TypeInv
  <2>1. Root \in Directories
    BY FileSystem DEF Directories
  <2>2. Len(Jobs) \in Nat
    BY JobsShape
  <2> QED
    BY <2>1, <2>2, FileSystem DEF Init, TypeInv, Calls
<1>2. HistoryInv
  <2> SUFFICES ASSUME NEW e \in Entries
               PROVE  tree[e] # Absent => <<e[1], e[2], tree[e]>> \in been
    BY DEF Init, HistoryInv
  <2> QED
    BY DEF Init
<1>3. FramesInv /\ PlaceInv /\ DescentInv /\ OpenedInv /\ TroubleInv
  BY DEF Init, FramesInv, PlaceInv, DescentInv, OpenedInv, TroubleInv, Copying
<1>4. SaidInv /\ StoredWasThere /\ ChosenInv
  BY DEF Init, SaidInv, StoredWasThere, ChosenInv
<1>5. LossInv
  BY DEF Init, LossInv
<1> QED
  BY <1>1, <1>2, <1>3, <1>4, <1>5 DEF CopyInv

LEMMA CopyInvKept ==
  ASSUME CopyInv, [Next]_vars
  PROVE  CopyInv'
<1>1. CASE NextJob
  BY <1>1, NextJobKeeps
<1>2. CASE OpenComponent
  BY <1>2, DirectoryKeeps, NoDirectoryKeeps
<1>3. CASE OpenComponentFails \/ OpenSourceFails
  BY <1>3, FileCallsKeep DEF CopyStep
<1>4. CASE Relook
  BY <1>4, RelookKeeps
<1>5. CASE Scan
  BY <1>5, ScanKeeps
<1>6. CASE ScanFails \/ EntryFails \/ SourceCallFails
  BY <1>6, FailedCallsKeep
<1>7. CASE LeaveDirectory
  BY <1>7, LeaveDirectoryKeeps
<1>8. CASE Entry
  BY <1>8, EntryKeeps
<1>9. CASE OpenChild
  BY <1>9, ChildKeeps
<1>10. CASE OpenChildFails
  BY <1>10, ChildKeeps, FailedCallsKeep DEF OpenChildFails
<1>11. CASE ChildLook
  BY <1>11, ChildLookKeeps
<1>12. CASE StatSource
  <2>1. CopyStep /\ job' = job /\ chosen' = chosen /\ stored' = stored /\ pc = "open"
        /\ todo = <<>> /\ goal # <<>>
    BY <1>12 DEF CopyStep, StatSource, Step
  <2>2. CASE Found = Absent
    <3>1. Lose
      BY <1>12, <2>2 DEF StatSource
    <3> QED
      BY <2>1, <2>2, <3>1, LostSourceKeeps DEF Lose, Fail, Omit
  <2>3. CASE Found # Absent /\ Kind[Found] # "file"
    <3>1. Omit
      BY <1>12, <2>3 DEF StatSource
    <3> QED
      BY <2>1, <2>3, <3>1, LostSourceKeeps DEF Omit
  <2>4. CASE Found # Absent /\ Kind[Found] = "file"
    BY <1>12, <2>1, <2>4, FileCallsKeep DEF StatSource
  <2> QED BY <2>2, <2>3, <2>4
<1>13. CASE OpenSource
  <2>1. CopyStep /\ job' = job /\ chosen' = chosen /\ stored' = stored /\ pc = "source"
    BY <1>13 DEF CopyStep, OpenSource, Step
  <2>2. goal # <<>> /\ todo = <<>>
    BY <2>1 DEF CopyInv, PlaceInv, DescentInv, Copying
  <2>3. CASE Found = Absent /\ Fail(goal)
    BY <2>1, <2>2, <2>3, LostSourceKeeps DEF Fail
  <2>4. CASE Kind[Found] = "link" /\ Omit
    <3>1. Found # Absent
      BY <2>4, FileSystem
    <3> QED
      BY <2>1, <2>2, <2>4, <3>1, LostSourceKeeps DEF Omit
  <2>5. CASE pc' = "opened"
    BY <1>13, <2>1, <2>5, FileCallsKeep
  <2> QED
    BY <1>13, <2>3, <2>4, <2>5 DEF OpenSource
<1>14. CASE SourceLook
  BY <1>14, SourceLookKeeps
<1>15. CASE InspectOpened
  <2>1. CASE Accepts(opened)
    BY <1>15, <2>1, FileCallsKeep DEF InspectOpened, CopyStep
  <2>2. CASE ~Accepts(opened)
    BY <1>15, <2>2, NotAcceptedKeeps
  <2> QED BY <2>1, <2>2
<1>16. CASE Copy
  BY <1>16, CopyKeeps
<1>17. CASE CopyLeavesPart
  BY <1>17, CopyLeavesPartKeeps
<1>19. CASE ParentCloseFails
  BY <1>19, ParentCloseFailsKeeps
<1>18. CASE Change \/ UNCHANGED vars
  BY <1>18, ChangeKeeps
<1> QED
  BY <1>1, <1>2, <1>3, <1>4, <1>5, <1>6, <1>7, <1>8, <1>9, <1>10, <1>11, <1>12, <1>13, <1>14,
     <1>15, <1>16, <1>17, <1>18, <1>19 DEF Next, CopyStep

\* The inductive invariant: at every system call, what the program has open, read and
\* chosen is what was there, and nothing an undisturbed path led to has been lost.
THEOREM CopyInvariant == Spec => []CopyInv
<1>1. Init => CopyInv
  BY CopyInvInitially
<1>2. CopyInv /\ [Next]_vars => CopyInv'
  BY CopyInvKept
<1> QED
  BY <1>1, <1>2, PTL DEF Spec

\* Every destination file is a regular file that was at its path, reached through
\* directories only, wanted by a selection, and is whole or named on stderr.
THEOREM StoredFilesWereThere == Spec => []StoredWasThere
<1>1. CopyInv => StoredWasThere
  BY DEF CopyInv
<1> QED
  BY <1>1, CopyInvariant, PTL

\* stderr names nothing that nobody touched, and a wanted file that nothing disturbed
\* is stored whole when the copy ends.
THEOREM UndisturbedFilesArrive == Spec => []UndisturbedUnharmed
<1>1. ASSUME CopyInv PROVE UndisturbedUnharmed
  <2>1. \A p \in said : ~Undisturbed(p)
    BY <1>1 DEF CopyInv, SaidInv
  <2>2. ASSUME Ended, NEW p \in Wanted, Undisturbed(p) PROVE Stored(p, Initially(p))
    <3>1. PICK k \in DOMAIN Jobs : Covers(Jobs[k], p) /\ AcceptedBy(Jobs[k], p, Initially(p))
      BY DEF Wanted
    <3>2. p \in Paths /\ k \in 1 .. job
      BY <2>2, JobsShape DEF Wanted, Ended
    <3>3. ~InHand(p)
      BY <2>2 DEF Ended, InHand
    <3> QED
      BY <1>1, <2>2, <3>1, <3>2, <3>3 DEF CopyInv, LossInv
  <2> QED
    BY <2>1, <2>2 DEF UndisturbedUnharmed
<1> QED
  BY <1>1, CopyInvariant, PTL

\* When the copy ends, a chosen file of which nothing is said is stored whole, or its
\* path has been something that need not be copied.
THEOREM SilenceIsAccounted == Spec => []SilenceAccounts
<1>1. ASSUME CopyInv PROVE SilenceAccounts
  <2> SUFFICES ASSUME Ended, NEW p \in chosen \ said PROVE Excused(p)
    BY DEF SilenceAccounts, Excused
  <2>1. goal = <<>> /\ p # <<>>
    BY <1>1 DEF CopyInv, TypeInv, PlaceInv, Ended
  <2> QED
    BY <1>1, <2>1 DEF CopyInv, ChosenInv
<1> QED
  BY <1>1, CopyInvariant, PTL

=============================================================================
