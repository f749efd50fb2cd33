---------------------------- MODULE StartupProofs ----------------------------
(***************************************************************************)
(* What holds of any number of generate-inventory invocations with one     *)
(* --output, of what comes to that path between their steps, and of the    *)
(* collect that starts from it, whatever the hosts files say.              *)
(***************************************************************************)
EXTENDS Startup, PrefixRecursion

-----------------------------------------------------------------------------
(* The draft. *)

After(hs, line) ==
  IF Usable(line) /\ ~Contains(hs, line.host) THEN Append(hs, line.host) ELSE hs

\* The loop over the lines collects hostnames.
LEMMA HostnamesDefined ==
  ASSUME NEW lines \in Seq(Lines)
  PROVE  Hostnames(lines) \in Seq(IsHostname)
<1> DEFINE N    == Len(lines)
           S    == Seq(IsHostname)
           step == [x \in (1 .. N) \X S |-> After(x[2], lines[x[1]])]
           R(f) == f = [n \in 0 .. N |->
                          IF n = 0 THEN <<>>
                          ELSE IF Usable(lines[n]) /\ ~Contains(f[n - 1], lines[n].host)
                                 THEN Append(f[n - 1], lines[n].host)
                                 ELSE f[n - 1]]
           hs   == HostnamesAfter(lines)
<1>1. N \in Nat /\ <<>> \in S /\ \A n \in 1 .. N : lines[n] \in Lines
  OBVIOUS
<1>2. StaysIn(S, N, step)
  <2>1. ASSUME NEW n \in 1 .. N, NEW x \in S PROVE After(x, lines[n]) \in S
    BY DEF After, Usable
  <2>2. ASSUME NEW n \in 1 .. N, NEW x \in S PROVE step[<<n, x>>] = After(x, lines[n])
    <3> HIDE DEF N, S
    <3> QED OBVIOUS
  <2> HIDE DEF step, N, S
  <2> QED BY <2>1, <2>2 DEF StaysIn
<1>3. PICK g : Iterates(g, N, S, <<>>, step)
  <2> HIDE DEF step, N, S
  <2> QED BY <1>1, <1>2, IterationExists
<1>4. R(g)
  <2>1. ASSUME NEW n \in 0 .. N
        PROVE  g[n] = IF n = 0 THEN <<>>
                      ELSE IF Usable(lines[n]) /\ ~Contains(g[n - 1], lines[n].host)
                             THEN Append(g[n - 1], lines[n].host)
                             ELSE g[n - 1]
    <3> HIDE DEF N, S
    <3>1. CASE n = 0
      BY <3>1, <1>3 DEF Iterates
    <3>2. CASE n # 0
      <4>1. n \in 1 .. N /\ n - 1 \in 0 .. N /\ g[n - 1] \in S
        BY <3>2, <1>1, <1>3 DEF Iterates
      <4>2. g[n] = After(g[n - 1], lines[n])
        BY <4>1, <1>3 DEF Iterates
      <4> QED BY <3>2, <4>2 DEF After
    <3> QED BY <3>1, <3>2
  <2>2. g \in [0 .. N -> S]
    BY <1>3 DEF Iterates
  <2> HIDE DEF N, S
  <2> QED BY <2>1, <2>2
<1>5. R(hs)
  <2>1. hs = CHOOSE f : R(f)
    BY DEF HostnamesAfter
  <2> HIDE DEF R, hs
  <2> QED BY <1>4, <2>1, Zenon
<1>6. Iterates(hs, N, S, <<>>, step)
  <2> HIDE DEF hs
  <2>1. hs[0] = <<>> /\ hs = [n \in 0 .. N |-> hs[n]]
    <3> HIDE DEF N
    <3> QED BY <1>1, <1>5
  <2>2. ASSUME NEW n \in 1 .. N, hs[n - 1] \in S PROVE hs[n] = step[<<n, hs[n - 1]>>]
    <3> HIDE DEF N, S
    <3>1. n \in 0 .. N /\ n # 0
      BY <1>1
    <3>2. hs[n] = After(hs[n - 1], lines[n])
      BY <3>1, <1>5 DEF After
    <3> QED BY <2>2, <3>2
  <2> HIDE DEF step, N, S
  <2> QED BY <1>1, <1>2, <2>1, <2>2, IterationIsTyped
<1>7. hs[N] \in S
  <2> HIDE DEF step, N, S, hs
  <2> QED BY <1>1, <1>6 DEF Iterates
<1> QED
  BY <1>7 DEF Hostnames

\* A draft that has a node and no collision loads, whatever the hosts file says.
LEMMA DraftLoads ==
  ASSUME NEW lines \in HostsTexts, Entries(lines) # <<>>, ~Collides(Entries(lines))
  PROVE  Loads(Draft(lines))
<1> DEFINE hs      == Hostnames(lines)
           entries == Entries(lines)
           likely  == {i \in DOMAIN entries : entries[i].address \in CephLike}
<1>1. hs \in Seq(IsHostname)
  BY TextsAreLines, HostnamesDefined
<1>2. /\ DOMAIN entries = DOMAIN hs /\ DOMAIN hs \subseteq Nat
      /\ \A i \in DOMAIN entries : /\ entries[i].name = Label[hs[i]] /\ entries[i].address = hs[i]
                                   /\ hs[i] \in IsHostname
  <2> HIDE DEF hs
  <2>1. entries = [i \in DOMAIN hs |-> [name |-> Label[hs[i]], address |-> hs[i]]]
    BY DEF Entries, hs
  <2> HIDE DEF entries
  <2> QED BY <1>1, <2>1
<1> HIDE DEF hs, entries
<1>3. /\ Draft(lines).nodes = entries /\ ~Draft(lines).broken
      /\ Draft(lines).source = CephSourceOf(entries)
  BY DEF Draft, Text, entries
<1>4. CephSourceOf(entries) # Nobody =>
         \E i \in DOMAIN entries : entries[i].name = CephSourceOf(entries)
  <2> SUFFICES ASSUME likely # {} PROVE \E i \in DOMAIN entries : entries[i].name = CephSourceOf(entries)
    BY DEF CephSourceOf
  <2>1. Min(likely) \in likely
    <3>1. likely \subseteq Nat
      BY <1>2
    <3> HIDE DEF likely
    <3>2. \E x \in likely : \A y \in likely : x <= y
      BY <3>1, LeastElement
    <3> QED BY <3>2, Zenon DEF Min
  <2>2. CephSourceOf(entries) = entries[Min(likely)].name
    BY DEF CephSourceOf
  <2> HIDE DEF likely
  <2>3. Min(likely) \in DOMAIN entries
    BY <2>1 DEF likely
  <2> QED BY <2>2, <2>3
<1>5. \A i \in DOMAIN entries : entries[i].name \in NameOk /\ entries[i].address \in IsHostname
  BY <1>2, LabelsAreNames
<1>6. ~Collides(entries) /\ entries # <<>>
  BY DEF entries
<1> QED
  BY <1>3, <1>4, <1>5, <1>6 DEF Loads, Collides

-----------------------------------------------------------------------------
(* The generators. *)

Early  == {"check", "draft", "open"}
Labels == Early \cup {"write", "report", "exited"}

ShapeInv ==
  /\ gpc \in [Generators -> Labels]
  /\ handle \in [Generators -> BOOLEAN]
  /\ status \in [Generators -> {0, 1, 2}]
  /\ draft = [g \in Generators |-> draft[g]]

\* While g writes, what it has opened is not an Inventory, so that collect cannot
\* start from it; and the file is g's alone only while g holds it open.
KeepsDraft(g) ==
  /\ status[g] = 0 => gpc[g] = "exited"
  /\ gpc[g] \in Early => author # g
  /\ gpc[g] \in Early \cup {"write"} => source # g
  /\ gpc[g] = "write" /\ author = g => handle[g] /\ file = Broken
  /\ gpc[g] = "report" \/ status[g] = 0 =>
        (author = g => file = draft[g]) /\ (source = g => started = draft[g])

StartupInv == ShapeInv /\ \A g \in Generators : KeepsDraft(g)

LEMMA InitInv == Init => StartupInv
<1> SUFFICES ASSUME Init PROVE StartupInv
  OBVIOUS
<1>1. ShapeInv
  BY DEF Init, ShapeInv, Labels, Early
<1>2. ASSUME NEW g \in Generators PROVE KeepsDraft(g)
  BY GeneratorsShape DEF Init, KeepsDraft, Early
<1> QED
  BY <1>1, <1>2 DEF StartupInv

\* The steps of one generator.
Step(g) ==
  \/ Refuse(g) \/ CheckOutput(g) \/ CannotReadHosts(g) \/ DraftInventory(g)
  \/ Open(g) \/ CannotOpen(g) \/ Write(g) \/ CannotWrite(g) \/ Report(g) \/ Kill(g)

\* What a generator leaves alone: the others, and the file unless it becomes its
\* own or nobody's.
LEMMA OthersUntouched ==
  ASSUME ShapeInv, NEW g \in Generators, Step(g), NEW h \in Generators, h # g
  PROVE  /\ gpc'[h] = gpc[h] /\ handle'[h] = handle[h]
         /\ status'[h] = status[h] /\ draft'[h] = draft[h]
         /\ UNCHANGED collector
         /\ UNCHANGED output \/ author' # h
<1> USE DEF ShapeInv, Exit, Goto, Close, Put, output, collector
<1>1. CASE Refuse(g) \/ CheckOutput(g) \/ CannotReadHosts(g) \/ CannotOpen(g) \/ Report(g)
  BY <1>1 DEF Refuse, CheckOutput, CannotReadHosts, CannotOpen, Report
<1>2. CASE DraftInventory(g)
  BY <1>2 DEF DraftInventory
<1>3. CASE Open(g)
  BY <1>3 DEF Open
<1>4. CASE Write(g)
  BY <1>4, GeneratorsShape DEF Write
<1>5. CASE CannotWrite(g)
  BY <1>5 DEF CannotWrite
<1>6. CASE Kill(g)
  BY <1>6 DEF Kill
<1> QED
  BY <1>1, <1>2, <1>3, <1>4, <1>5, <1>6 DEF Step

LEMMA ShapeStep ==
  ASSUME ShapeInv, [Next]_vars
  PROVE  ShapeInv'
<1> USE DEF ShapeInv, Labels, Early, Exit, Goto, Close
<1>1. ASSUME NEW g \in Generators, Step(g) PROVE ShapeInv'
  <2>1. CASE Refuse(g) \/ CheckOutput(g) \/ CannotReadHosts(g) \/ CannotOpen(g)
    BY <2>1 DEF Refuse, CheckOutput, CannotReadHosts, CannotOpen
  <2>2. CASE DraftInventory(g)
    BY <2>2 DEF DraftInventory
  <2>3. CASE Open(g)
    BY <2>3 DEF Open
  <2>4. CASE Write(g)
    BY <2>4 DEF Write
  <2>5. CASE CannotWrite(g)
    BY <2>5 DEF CannotWrite
  <2>6. CASE Report(g)
    BY <2>6 DEF Report
  <2>7. CASE Kill(g)
    BY <2>7 DEF Kill
  <2> QED
    BY <1>1, <2>1, <2>2, <2>3, <2>4, <2>5, <2>6, <2>7 DEF Step
<1>2. CASE Edit
  BY <1>2 DEF Edit
<1>3. CASE StartCollect
  BY <1>3 DEF StartCollect, generator
<1>4. CASE UNCHANGED vars
  BY <1>4 DEF vars, generator
<1> QED
  BY <1>1, <1>2, <1>3, <1>4 DEF Next, Step

LEMMA OwnStep ==
  ASSUME ShapeInv, NEW g \in Generators, KeepsDraft(g), Step(g)
  PROVE  KeepsDraft(g)'
<1> USE DEF ShapeInv, KeepsDraft, Early, Exit, Goto, Close, Put, output, collector
<1>1. CASE Refuse(g) \/ CannotReadHosts(g) \/ CannotOpen(g)
  BY <1>1 DEF Refuse, CannotReadHosts, CannotOpen
<1>2. CASE CheckOutput(g)
  BY <1>2 DEF CheckOutput
<1>3. CASE DraftInventory(g)
  BY <1>3 DEF DraftInventory
<1>4. CASE Open(g)
  BY <1>4 DEF Open
<1>5. CASE Write(g)
  BY <1>5, GeneratorsShape DEF Write
<1>6. CASE CannotWrite(g)
  BY <1>6 DEF CannotWrite
<1>7. CASE Report(g)
  BY <1>7 DEF Report
<1>8. CASE Kill(g)
  BY <1>8 DEF Kill
<1> QED
  BY <1>1, <1>2, <1>3, <1>4, <1>5, <1>6, <1>7, <1>8 DEF Step

LEMMA DraftStep ==
  ASSUME StartupInv, [Next]_vars, NEW h \in Generators
  PROVE  KeepsDraft(h)'
<1>0. ShapeInv /\ KeepsDraft(h)
  BY DEF StartupInv
<1>1. ASSUME NEW g \in Generators, Step(g) PROVE KeepsDraft(h)'
  <2>1. CASE g = h
    BY <1>0, <1>1, <2>1, OwnStep
  <2>2. CASE g # h
    BY <1>0, <1>1, <2>2, OthersUntouched DEF KeepsDraft, output, collector
  <2> QED
    BY <2>1, <2>2
<1>2. CASE Edit
  BY <1>0, <1>2, GeneratorsShape DEF Edit, KeepsDraft, collector
<1>3. CASE StartCollect
  <2>1. ~Loads(Broken)
    BY DEF Loads, Broken
  <2>2. /\ UNCHANGED <<gpc, draft, status, handle, file, author>>
        /\ source' = author /\ started' = file /\ file # Broken
    BY <1>3, <2>1 DEF StartCollect, generator, output
  <2> QED
    BY <1>0, <2>2 DEF KeepsDraft, Early, ShapeInv
<1>4. CASE UNCHANGED vars
  BY <1>0, <1>4 DEF KeepsDraft, vars, generator, output, collector
<1> QED
  BY <1>1, <1>2, <1>3, <1>4 DEF Next, Step

\* What every moment knows of each generator, its file and the collect from it.
THEOREM StartupInvariant == Spec => []StartupInv
<1>1. StartupInv /\ [Next]_vars => StartupInv'
  BY ShapeStep, DraftStep DEF StartupInv
<1> QED
  BY InitInv, <1>1, PTL DEF Spec

-----------------------------------------------------------------------------
\* Exit status 0 of generate-inventory means that the file is the whole draft for as
\* long as it is that generator's, and that a collect started from it had it all,
\* even a collect that started while the generator still ran.
THEOREM ExitZeroKeepsDraft == Spec => []DraftKept
<1>1. StartupInv => DraftKept
  BY DEF StartupInv, KeepsDraft, DraftKept
<1> QED
  BY <1>1, StartupInvariant, PTL

\* A draft says what some hosts file said, and exit status 0 that it has no collision.
FoundFit(g) ==
  /\ draft[g] = NoText \/ \E lines \in HostsTexts : draft[g] = Draft(lines)
  /\ gpc[g] # "exited" => status[g] # 0
  /\ status[g] = 0 => ~Collides(draft[g].nodes)

LEMMA FitStep ==
  ASSUME ShapeInv, [Next]_vars, NEW h \in Generators, FoundFit(h)
  PROVE  FoundFit(h)'
<1> USE DEF ShapeInv, FoundFit, Exit, Goto
<1>1. ASSUME NEW g \in Generators, Step(g) PROVE FoundFit(h)'
  <2>1. CASE g # h
    BY <1>1, <2>1, OthersUntouched
  <2>2. CASE g = h /\ (Refuse(g) \/ CheckOutput(g) \/ CannotReadHosts(g) \/ CannotOpen(g))
    BY <2>2 DEF Refuse, CheckOutput, CannotReadHosts, CannotOpen
  <2>3. CASE g = h /\ DraftInventory(g)
    BY <2>3 DEF DraftInventory
  <2>4. CASE g = h /\ (Open(g) \/ Write(g) \/ CannotWrite(g))
    BY <2>4 DEF Open, Write, CannotWrite
  <2>5. CASE g = h /\ Report(g)
    BY <2>5 DEF Report
  <2>6. CASE g = h /\ Kill(g)
    BY <2>6 DEF Kill
  <2> QED
    BY <1>1, <2>1, <2>2, <2>3, <2>4, <2>5, <2>6 DEF Step
<1>2. CASE Edit \/ StartCollect \/ UNCHANGED vars
  BY <1>2 DEF Edit, StartCollect, vars, generator
<1> QED
  BY <1>1, <1>2 DEF Next, Step

\* Exit status 0 of generate-inventory promises a usable draft: the file holds the
\* whole of it, and if it has a node at all, load_inventory finds no problem in it,
\* whatever lines the hosts file had.
THEOREM ExitZeroPromise == Spec => []ExitZeroIsUsable
<1> DEFINE Fit == \A g \in Generators : FoundFit(g)
<1>1. Init => Fit
  BY DEF Init, FoundFit
<1>2. StartupInv /\ Fit /\ [Next]_vars => Fit'
  BY FitStep DEF StartupInv
<1>3. StartupInv /\ Fit => ExitZeroIsUsable
  <2> SUFFICES ASSUME StartupInv, Fit, NEW g \in Generators,
                      status[g] = 0, author = g, file.nodes # <<>>
               PROVE  Loads(file)
    BY DEF StartupInv, KeepsDraft, DraftKept, ExitZeroIsUsable
  <2>1. file = draft[g] /\ FoundFit(g)
    BY DEF StartupInv, KeepsDraft
  <2>2. NoText.nodes = <<>>
    BY DEF NoText, Broken
  <2>3. PICK lines \in HostsTexts : draft[g] = Draft(lines)
    BY <2>1, <2>2 DEF FoundFit
  <2>4. Draft(lines).nodes = Entries(lines)
    BY DEF Draft, Text
  <2> QED
    BY <2>1, <2>3, <2>4, DraftLoads DEF FoundFit
<1> QED
  BY <1>1, <1>2, <1>3, StartupInvariant, PTL DEF Spec

\* Without --force, what comes to the output path after the check is not written to.
THEOREM CheckedOutputIsSafe == Spec => NothingReplacedWithoutForce
<1>1. StartupInv /\ [Next]_vars =>
        [\A g \in Generators \ Forced :
            gpc'[g] # gpc[g] /\ file # Absent /\ ~handle[g] => file' = file]_vars
  <2> SUFFICES ASSUME ShapeInv, [Next]_vars, NEW g \in Generators \ Forced,
                      gpc'[g] # gpc[g], file # Absent, ~handle[g]
               PROVE  file' = file
    BY DEF StartupInv
  <2>1. Step(g)
    <3>1. CASE Edit \/ StartCollect \/ UNCHANGED vars
      BY <3>1 DEF Edit, StartCollect, vars, generator
    <3>2. ASSUME NEW h \in Generators, Step(h) PROVE Step(g)
      BY <3>2, OthersUntouched
    <3> QED
      BY <3>1, <3>2 DEF Next, Step
  <2>2. CASE Refuse(g) \/ CheckOutput(g) \/ CannotReadHosts(g) \/ DraftInventory(g)
               \/ CannotOpen(g) \/ Report(g)
    BY <2>2 DEF Refuse, CheckOutput, CannotReadHosts, DraftInventory, CannotOpen,
                Report, output
  <2>3. CASE Open(g) \/ Write(g) \/ CannotWrite(g) \/ Kill(g)
    BY <2>3 DEF Open, Write, CannotWrite, Kill, output
  <2> QED
    BY <2>1, <2>2, <2>3 DEF Step
<1> QED
  BY <1>1, StartupInvariant, PTL DEF Spec, NothingReplacedWithoutForce

=============================================================================
