--------------------------- MODULE CollectProofs ---------------------------
(***************************************************************************)
(* Theorems about "collect", for any number of invocations, any sources in *)
(* any order and any number of keystrokes: first about publish_bundle, in  *)
(* lemmas that speak of single steps and leave the set L of labels open,   *)
(* so that they serve whole invocations, which are the second part; last,  *)
(* that invocations implement BundleDelivery: every step fills the slot,   *)
(* makes a claim, disturbs a delivery, or changes nothing the promise      *)
(* speaks of.                                                              *)
(***************************************************************************)
EXTENDS CollectProperties, TLAPS

-----------------------------------------------------------------------------
(* Types. *)

LEMMA StepTypes ==
  ASSUME NEW L, PubLabels \subseteq L, PubTypes, pc \in [Collectors -> L],
         NEW c \in Collectors, PubStep(c)
  PROVE  PubTypes' /\ pc' \in [Collectors -> L]
<1> USE DEF PubTypes, PubLabels, TryLabels, HandlerLabels, ExitLabels, Goto,
            disk, inode, inputs, locals, answer, history
<1>1. CASE Pin(c) \/ Validate(c)
  BY <1>1 DEF Pin, Validate
<1>2. CASE CreateCandidate(c) \/ AssignCandidate(c)
  BY <1>2 DEF CreateCandidate, AssignCandidate
<1>3. CASE ArchiveEntry(c)
  BY <1>3 DEF ArchiveEntry
<1>4. CASE RemoveWorkspace(c) \/ HandlerCleansWorkspace(c)
  BY <1>4 DEF RemoveWorkspace, HandlerCleansWorkspace, CleanupOwnedWorkspace
<1>5. CASE MarkAttempted(c)
  BY <1>5 DEF MarkAttempted
<1>6. CASE Describe(c) \/ Seal(c) \/ Link(c)
  BY <1>6 DEF Describe, Seal, Link
<1>7. CASE RecordPublication(c)
  BY <1>7 DEF RecordPublication
<1>8. CASE DropCandidate(c)
  BY <1>8 DEF DropCandidate, RemoveCandidate, UncleanWorkspace, Object
<1>9. CASE HandlerDropsCandidate(c)
  <2>1. PICK left \in SUBSET {"candidate"} :
           /\ IF c \in known THEN RemoveCandidate(c, left)
                             ELSE left = {} /\ UNCHANGED candidates
           /\ residue' = [residue EXCEPT ![c] = @ \cup left \cup UncleanWorkspace(c)]
    BY <1>9 DEF HandlerDropsCandidate
  <2>2. residue' \in [Collectors -> SUBSET Object]
    <3>1. residue[c] \cup left \cup UncleanWorkspace(c) \in SUBSET Object
      BY DEF UncleanWorkspace, Object
    <3> QED
      BY <2>1, <3>1
  <2>3. candidates' \in SUBSET Collectors
    BY <2>1 DEF RemoveCandidate
  <2> QED
    BY <1>9, <2>2, <2>3 DEF HandlerDropsCandidate
<1>10. CASE ReturnDelivered(c) \/ ReturnInterrupted(c)
  BY <1>10 DEF ReturnDelivered, ReturnInterrupted, PublicationState
<1>11. CASE Raise(c) \/ RaisePublicationError(c)
  BY <1>11 DEF Raise, RaisePublicationError
<1> QED
  BY <1>1, <1>2, <1>3, <1>4, <1>5, <1>6, <1>7, <1>8, <1>9, <1>10, <1>11
     DEF PubStep

LEMMA InterruptTypes ==
  ASSUME NEW L, PubLabels \subseteq L, PubTypes, pc \in [Collectors -> L],
         NEW c \in Collectors, PubInterrupt(c)
  PROVE  PubTypes' /\ pc' \in [Collectors -> L]
<1>1. pc' \in [Collectors -> L]
  BY DEF PubInterrupt, PubLabels, TryLabels, HandlerLabels, ExitLabels
<1>2. interrupts' \in 0 .. MaxInterrupts
  BY InterruptBound DEF PubInterrupt, PubTypes
<1>3. WindowAt(pc[c]) \in SUBSET Windows
  BY DEF WindowAt, Windows
<1>4. window' \in [Collectors -> SUBSET Windows]
  BY <1>3 DEF PubInterrupt, PubTypes
<1> QED
  BY <1>1, <1>2, <1>4
     DEF PubInterrupt, PubTypes, disk, inode, inputs, locals, answer

LEMMA KillTypes ==
  ASSUME NEW L, PubLabels \subseteq L, PubTypes, pc \in [Collectors -> L],
         NEW c \in Collectors, PubKill(c)
  PROVE  PubTypes' /\ pc' \in [Collectors -> L]
BY DEF PubKill, PubTypes, PubLabels, disk, inode, inputs, locals, answer, history

LEMMA ForeignTypes ==
  ASSUME NEW L, PubTypes, pc \in [Collectors -> L], ForeignCreate
  PROVE  PubTypes' /\ pc' \in [Collectors -> L]
BY DEF ForeignCreate, PubTypes, disk, inode, inputs, locals, answer, history

-----------------------------------------------------------------------------
(* The four parts of the inductive invariant, step by step. *)

\* The candidate's contents grow in the order of the labels.
LEMMA StepContents ==
  ASSUME NEW L, PubTypes, pc \in [Collectors -> L],
         NEW c \in Collectors, PubStep(c),
         NEW d \in Collectors, ContentsInv(d)
  PROVE  ContentsInv(d)'
<1> USE DEF ContentsInv, PubTypes, BeforeMetadata, Goto,
            inode, inputs, locals, answer, history
<1>1. CASE Pin(c) \/ Validate(c) \/ CreateCandidate(c) \/ AssignCandidate(c)
  BY <1>1 DEF Pin, Validate, CreateCandidate, AssignCandidate
<1>2. CASE ArchiveEntry(c)
  BY <1>2 DEF ArchiveEntry
<1>3. CASE RemoveWorkspace(c) \/ MarkAttempted(c)
  BY <1>3 DEF RemoveWorkspace, MarkAttempted
<1>4. CASE Describe(c)
  BY <1>4 DEF Describe
<1>5. CASE Seal(c)
  BY <1>5 DEF Seal
<1>6. CASE Link(c) \/ RecordPublication(c)
  BY <1>6 DEF Link, RecordPublication
<1>7. CASE DropCandidate(c) \/ ReturnDelivered(c) \/ Raise(c)
  BY <1>7 DEF DropCandidate, ReturnDelivered, Raise
<1>8. CASE HandlerCleansWorkspace(c) \/ HandlerDropsCandidate(c)
  BY <1>8 DEF HandlerCleansWorkspace, HandlerDropsCandidate
<1>9. CASE ReturnInterrupted(c) \/ RaisePublicationError(c)
  BY <1>9 DEF ReturnInterrupted, RaisePublicationError
<1> QED
  BY <1>1, <1>2, <1>3, <1>4, <1>5, <1>6, <1>7, <1>8, <1>9 DEF PubStep

\* The workspace's fate is settled before the outcome is written.
LEMMA StepOutcome ==
  ASSUME NEW L, PubTypes, pc \in [Collectors -> L],
         NEW c \in Collectors, PubStep(c),
         NEW d \in Collectors, ContentsInv(d), OutcomeInv(d)
  PROVE  OutcomeInv(d)'
<1> USE DEF OutcomeInv, PubTypes, TryLabels, HandlerLabels, Goto,
            disk, inode, inputs, locals, answer, history
<1>1. CASE Pin(c) \/ Validate(c) \/ CreateCandidate(c) \/ AssignCandidate(c)
  BY <1>1 DEF Pin, Validate, CreateCandidate, AssignCandidate
<1>2. CASE ArchiveEntry(c)
  BY <1>2 DEF ArchiveEntry
<1>3. CASE RemoveWorkspace(c)
  BY <1>3 DEF RemoveWorkspace, CleanupOwnedWorkspace, ContentsInv, BeforeMetadata
<1>4. CASE MarkAttempted(c)
  BY <1>4 DEF MarkAttempted
<1>5. CASE Describe(c)
  BY <1>5 DEF Describe
<1>6. CASE Seal(c) \/ Link(c) \/ RecordPublication(c)
  BY <1>6 DEF Seal, Link, RecordPublication
<1>7. CASE DropCandidate(c) \/ ReturnDelivered(c) \/ Raise(c)
  BY <1>7 DEF DropCandidate, ReturnDelivered, Raise, Fallible
<1>8. CASE HandlerCleansWorkspace(c)
  BY <1>8 DEF HandlerCleansWorkspace, CleanupOwnedWorkspace
<1>9. CASE HandlerDropsCandidate(c)
  BY <1>9 DEF HandlerDropsCandidate
<1>10. CASE ReturnInterrupted(c) \/ RaisePublicationError(c)
  BY <1>10 DEF ReturnInterrupted, RaisePublicationError
<1> QED
  BY <1>1, <1>2, <1>3, <1>4, <1>5, <1>6, <1>7, <1>8, <1>9, <1>10 DEF PubStep

\* Only a sealed candidate is linked, and only over nothing.
LEMMA StepLink ==
  ASSUME NEW L, PubTypes, pc \in [Collectors -> L],
         NEW c \in Collectors, PubStep(c),
         NEW d \in Collectors, ContentsInv(d), LinkInv(d)
  PROVE  LinkInv(d)'
<1> USE OwnersDistinct
    DEF LinkInv, PubTypes, BeforeLink, BeforeMetadata, Failing, Interrupted,
        Late, LateWindows, TryLabels, Goto, disk, inode, inputs, locals, answer, history
<1>1. CASE Pin(c) \/ Validate(c) \/ CreateCandidate(c) \/ AssignCandidate(c)
  BY <1>1 DEF Pin, Validate, CreateCandidate, AssignCandidate
<1>2. CASE ArchiveEntry(c)
  BY <1>2 DEF ArchiveEntry
<1>3. CASE RemoveWorkspace(c) \/ MarkAttempted(c) \/ Describe(c)
  BY <1>3 DEF RemoveWorkspace, MarkAttempted, Describe
<1>4. CASE Seal(c)
  BY <1>4 DEF Seal
<1>5. CASE Link(c)
  BY <1>5 DEF Link, ContentsInv
<1>6. CASE RecordPublication(c)
  BY <1>6 DEF RecordPublication
<1>7. CASE DropCandidate(c) \/ ReturnDelivered(c)
  BY <1>7 DEF DropCandidate, ReturnDelivered
<1>8. CASE Raise(c)
  BY <1>8 DEF Raise, Fallible
<1>9. CASE HandlerCleansWorkspace(c) \/ HandlerDropsCandidate(c)
  BY <1>9 DEF HandlerCleansWorkspace, HandlerDropsCandidate
<1>10. CASE ReturnInterrupted(c) \/ RaisePublicationError(c)
  BY <1>10 DEF ReturnInterrupted, RaisePublicationError
<1> QED
  BY <1>1, <1>2, <1>3, <1>4, <1>5, <1>6, <1>7, <1>8, <1>9, <1>10 DEF PubStep

\* What a call leaves behind is what it knows of and names.
LEMMA StepResidue ==
  ASSUME NEW L, PubTypes, pc \in [Collectors -> L],
         NEW c \in Collectors, PubStep(c),
         NEW d \in Collectors,
         ContentsInv(d), OutcomeInv(d), LinkInv(d), ResidueInv(d)
  PROVE  ResidueInv(d)'
<1> USE DEF ResidueInv, PubTypes, BeforeLink, BeforeMetadata, TryLabels,
            HandlerLabels, Goto, Returned, Owned, Object,
            disk, inode, inputs, locals, answer, history
<1>1. CASE Pin(c) \/ Validate(c) \/ CreateCandidate(c) \/ AssignCandidate(c)
  BY <1>1 DEF Pin, Validate, CreateCandidate, AssignCandidate
<1>2. CASE ArchiveEntry(c)
  BY <1>2 DEF ArchiveEntry
<1>3. CASE RemoveWorkspace(c)
  BY <1>3 DEF RemoveWorkspace, CleanupOwnedWorkspace
<1>4. CASE MarkAttempted(c) \/ Describe(c) \/ Seal(c)
  BY <1>4 DEF MarkAttempted, Describe, Seal
<1>5. CASE Link(c) \/ RecordPublication(c)
  BY <1>5 DEF Link, RecordPublication
<1>6. CASE DropCandidate(c)
  <2>1. PICK left \in SUBSET {"candidate"} :
           /\ RemoveCandidate(c, left)
           /\ residue' = [residue EXCEPT ![c] = left \cup UncleanWorkspace(c)]
    BY <1>6 DEF DropCandidate
  <2>2. CASE d # c
    BY <1>6, <2>1, <2>2 DEF DropCandidate, RemoveCandidate
  <2>3. CASE d = c
    <3>1. d \in workspaces <=> d \in unclean
      BY <1>6, <2>3 DEF DropCandidate, OutcomeInv, ContentsInv, LinkInv
    <3>2. d \in candidates' <=> "candidate" \in left
      BY <2>1, <2>3 DEF RemoveCandidate
    <3>3. residue'[d] = left \cup UncleanWorkspace(d)
      BY <2>1, <2>3
    <3>4. pc'[d] = "return" /\ UNCHANGED <<workspaces, unclean, window, published>>
      BY <1>6, <2>3 DEF DropCandidate
    <3>5. residue'[d] \subseteq Owned(d)'
      <4>1. left \subseteq Owned(d)'
        BY <3>2
      <4>2. UncleanWorkspace(d) \subseteq Owned(d)'
        BY <3>1, <3>4 DEF UncleanWorkspace
      <4> QED
        BY <3>3, <4>1, <4>2
    <3>6. /\ d \in workspaces' => "workspace" \in residue'[d]
          /\ d \in candidates' => "candidate" \in residue'[d]
      BY <3>1, <3>2, <3>3, <3>4 DEF UncleanWorkspace
    <3>7. "workspace" \in residue'[d] => d \in unclean'
      BY <3>1, <3>3, <3>4 DEF UncleanWorkspace
    <3>8. d \in unclean' => d \in workspaces'
      BY <3>1, <3>4
    <3>9. d \in candidates' => d \in known' \/ "candidate_unassigned" \in window'[d]
      BY <1>6, <2>1, <2>3 DEF DropCandidate, RemoveCandidate
    <3> HIDE DEF Owned
    <3> QED
      BY <3>4, <3>5, <3>6, <3>7, <3>8, <3>9
  <2> QED
    BY <2>2, <2>3
<1>7. CASE ReturnDelivered(c) \/ Raise(c)
  BY <1>7 DEF ReturnDelivered, Raise, Fallible
<1>8. CASE HandlerCleansWorkspace(c)
  <2>1. d = c => residue[d] = {} \/ d \in attempted
    BY <1>8 DEF HandlerCleansWorkspace, OutcomeInv, ContentsInv, LinkInv
  <2> QED
    BY <1>8, <2>1 DEF HandlerCleansWorkspace, CleanupOwnedWorkspace, OutcomeInv
<1>9. CASE HandlerDropsCandidate(c)
  <2>1. PICK left \in SUBSET {"candidate"} :
           /\ IF c \in known THEN RemoveCandidate(c, left)
                             ELSE left = {} /\ UNCHANGED candidates
           /\ residue' = [residue EXCEPT ![c] = @ \cup left \cup UncleanWorkspace(c)]
    BY <1>9 DEF HandlerDropsCandidate
  <2>2. CASE d # c
    BY <1>9, <2>1, <2>2 DEF HandlerDropsCandidate, RemoveCandidate
  <2>3. CASE d = c
    <3>1. d \in workspaces <=> d \in unclean
      BY <1>9, <2>3 DEF HandlerDropsCandidate
    <3>2. /\ d \in candidates' =>
                left = {"candidate"} \/ "candidate_unassigned" \in window[d]
          /\ "candidate" \in left => d \in candidates'
          /\ d \in candidates' => d \in known \/ "candidate_unassigned" \in window[d]
      BY <1>9, <2>1, <2>3 DEF RemoveCandidate, HandlerDropsCandidate
    <3>3. residue'[d] = residue[d] \cup left \cup UncleanWorkspace(d)
      BY <2>1, <2>3
    <3>4. UNCHANGED <<workspaces, unclean, window, published, known, result>>
      BY <1>9 DEF HandlerDropsCandidate
    <3>5. /\ pc[d] = "ki_candidate" => pc'[d] = "ki_return"
          /\ pc[d] = "ex_candidate" => pc'[d] = "ex_raise"
          /\ pc[d] \in {"ki_candidate", "ex_candidate"}
      BY <1>9, <2>3 DEF HandlerDropsCandidate
    <3>6. pc[d] = "ex_candidate" \/ d \notin published =>
             residue'[d] \subseteq Owned(d)'
      BY <3>1, <3>2, <3>3, <3>4, <3>5 DEF UncleanWorkspace
    <3>7. d \in workspaces' => "workspace" \in residue'[d]
      BY <3>1, <3>3, <3>4 DEF UncleanWorkspace
    <3>8. d \in candidates' =>
             "candidate" \in residue'[d] \/ "candidate_unassigned" \in window'[d]
      BY <3>2, <3>3, <3>4
    <3>9. "workspace" \in residue'[d] => d \in unclean'
      BY <3>3, <3>4, <3>5 DEF UncleanWorkspace
    <3> HIDE DEF Owned
    <3> QED
      BY <3>1, <3>2, <3>4, <3>5, <3>6, <3>7, <3>8, <3>9
  <2> QED
    BY <2>2, <2>3
<1>10. CASE ReturnInterrupted(c) \/ RaisePublicationError(c)
  BY <1>10 DEF ReturnInterrupted, RaisePublicationError
<1> QED
  BY <1>1, <1>2, <1>3, <1>4, <1>5, <1>6, <1>7, <1>8, <1>9, <1>10 DEF PubStep

LEMMA StepInvariant ==
  ASSUME NEW L, PubTypes, pc \in [Collectors -> L], PubInv,
         NEW c \in Collectors, PubStep(c)
  PROVE  PubInv'
BY StepContents, StepOutcome, StepLink, StepResidue DEF PubInv

\* A keystroke changes the label and the window, in step with each other.
LEMMA InterruptInvariant ==
  ASSUME NEW L, PubTypes, pc \in [Collectors -> L], PubInv,
         NEW c \in Collectors, PubInterrupt(c)
  PROVE  PubInv'
<1> SUFFICES ASSUME NEW d \in Collectors,
                    ContentsInv(d), OutcomeInv(d), LinkInv(d), ResidueInv(d)
             PROVE  ContentsInv(d)' /\ OutcomeInv(d)' /\ LinkInv(d)' /\ ResidueInv(d)'
  BY DEF PubInv
<1> USE DEF PubInterrupt, PubTypes, TryLabels, HandlerLabels,
            disk, inode, inputs, locals, answer
<1>1. ContentsInv(d)'
  BY DEF ContentsInv, BeforeMetadata
<1>2. OutcomeInv(d)'
  BY DEF OutcomeInv
<1>3. LinkInv(d)'
  BY DEF LinkInv, BeforeLink, BeforeMetadata, Failing, Interrupted, Late,
         LateWindows, WindowAt
<1>4. ResidueInv(d)'
  BY DEF ResidueInv, LinkInv, BeforeLink, BeforeMetadata, Returned, Owned,
         WindowAt
<1> QED
  BY <1>1, <1>2, <1>3, <1>4

LEMMA KillInvariant ==
  ASSUME NEW L, pc \in [Collectors -> L], PubInv, NEW c \in Collectors, PubKill(c)
  PROVE  PubInv'
<1> SUFFICES ASSUME NEW d \in Collectors,
                    ContentsInv(d), OutcomeInv(d), LinkInv(d), ResidueInv(d)
             PROVE  ContentsInv(d)' /\ OutcomeInv(d)' /\ LinkInv(d)' /\ ResidueInv(d)'
  BY DEF PubInv
<1> QED
  BY DEF PubKill, disk, inode, inputs, locals, answer, history, ContentsInv,
         OutcomeInv, LinkInv, ResidueInv, BeforeMetadata, BeforeLink, TryLabels,
         HandlerLabels, Failing, Interrupted, Late, Returned, Owned

LEMMA ForeignInvariant ==
  ASSUME PubInv, ForeignCreate
  PROVE  PubInv'
<1> SUFFICES ASSUME NEW d \in Collectors,
                    ContentsInv(d), OutcomeInv(d), LinkInv(d), ResidueInv(d)
             PROVE  ContentsInv(d)' /\ OutcomeInv(d)' /\ LinkInv(d)' /\ ResidueInv(d)'
  BY DEF PubInv
<1> QED
  BY OwnersDistinct
     DEF ForeignCreate, disk, inode, inputs, locals, answer, history,
         ContentsInv, OutcomeInv, LinkInv, ResidueInv, Late, Returned, Owned

-----------------------------------------------------------------------------
(* Publication alone. *)

\* Every state of publication is well typed.
THEOREM PublicationTypes == PubSpec => []PubTypeOK
<1>1. PubInit => PubTypeOK
  BY InterruptBound
     DEF PubInit, PubLocalsInit, PubTypeOK, PubTypes, PubLabels, TryLabels
<1>2. PubTypeOK /\ [PubNext]_pubVars => PubTypeOK'
  <2> SUFFICES ASSUME PubTypeOK, [PubNext]_pubVars PROVE PubTypeOK'
    OBVIOUS
  <2>1. CASE UNCHANGED pubVars
    BY <2>1 DEF pubVars, disk, inode, inputs, locals, answer, history,
                PubTypeOK, PubTypes
  <2>2. ASSUME NEW c \in Collectors, PubStep(c) PROVE PubTypeOK'
    BY <2>2, StepTypes DEF PubTypeOK
  <2>3. ASSUME NEW c \in Collectors, PubInterrupt(c) PROVE PubTypeOK'
    BY <2>3, InterruptTypes DEF PubTypeOK
  <2>4. ASSUME NEW c \in Collectors, PubKill(c) PROVE PubTypeOK'
    BY <2>4, KillTypes DEF PubTypeOK
  <2>5. ASSUME ForeignCreate PROVE PubTypeOK'
    BY <2>5, ForeignTypes DEF PubTypeOK
  <2> QED
    BY <2>1, <2>2, <2>3, <2>4, <2>5 DEF PubNext
<1> QED
  BY <1>1, <1>2, PTL DEF PubSpec

\* The inductive invariant holds in every state of publication.
THEOREM PublicationInvariant == PubSpec => []PubInv
<1>1. ASSUME PubInit PROVE PubInv
  <2> SUFFICES ASSUME NEW d \in Collectors
               PROVE  ContentsInv(d) /\ OutcomeInv(d) /\ LinkInv(d) /\ ResidueInv(d)
    BY DEF PubInv
  <2> USE <1>1 DEF PubInit, PubLocalsInit
  <2>1. ContentsInv(d)
    BY DEF ContentsInv
  <2>2. OutcomeInv(d)
    BY DEF OutcomeInv
  <2>3. LinkInv(d)
    BY OwnersDistinct DEF LinkInv, Interrupted
  <2>4. ResidueInv(d)
    BY DEF ResidueInv, Returned
  <2> QED
    BY <2>1, <2>2, <2>3, <2>4
<1>2. PubTypeOK /\ PubInv /\ [PubNext]_pubVars => PubInv'
  <2> SUFFICES ASSUME PubTypeOK, PubInv, [PubNext]_pubVars PROVE PubInv'
    OBVIOUS
  <2> USE DEF PubTypeOK
  <2>1. CASE UNCHANGED pubVars
    BY <2>1 DEF pubVars, disk, inode, inputs, locals, answer, history, PubInv,
                ContentsInv, OutcomeInv, LinkInv, ResidueInv, Late, Returned, Owned
  <2>2. ASSUME NEW c \in Collectors, PubStep(c) PROVE PubInv'
    BY <2>2, StepInvariant
  <2>3. ASSUME NEW c \in Collectors, PubInterrupt(c) PROVE PubInv'
    BY <2>3, InterruptInvariant
  <2>4. ASSUME NEW c \in Collectors, PubKill(c) PROVE PubInv'
    BY <2>4, KillInvariant
  <2>5. ASSUME ForeignCreate PROVE PubInv'
    BY <2>5, ForeignInvariant
  <2> QED
    BY <2>1, <2>2, <2>3, <2>4, <2>5 DEF PubNext
<1> QED
  BY <1>1, <1>2, PublicationTypes, PTL DEF PubSpec

LEMMA WholenessFollows == PubInv => FinalIsWhole
BY DEF PubInv, FinalIsWhole, ContentsInv, LinkInv

LEMMA CompletenessFollows == PubInv => CompleteMeansComplete
BY DEF PubInv, CompleteMeansComplete, ContentsInv, OutcomeInv

LEMMA NamingFollows == PubInv => ResidueNamed
BY DEF PubInv, ResidueNamed, ResidueInv, Returned, Owned, Object

LEMMA ResultTruthFollows ==
  ASSUME PubTypes, PubInv
  PROVE  ResultTruthful
BY DEF PubTypes, PubInv, ResultTruthful, LinkInv, Failing, PublicationState

\* The final path, once it exists, is whole: for any number of competing
\* collectors, failures and keystrokes no reader sees a bundle in the making.
THEOREM PublishedBundleIsWhole == PubSpec => []FinalIsWhole
BY PublicationInvariant, WholenessFollows, PTL

\* A bundle that calls itself complete has every source's evidence and left no
\* workspace behind.
THEOREM CompleteBundleIsComplete == PubSpec => []CompleteMeansComplete
BY PublicationInvariant, CompletenessFollows, PTL

\* publish_bundle's answer is true, but for the one window it names.
THEOREM AnswerIsTruthful == PubSpec => []ResultTruthful
<1>1. PubTypeOK /\ PubInv => ResultTruthful
  BY ResultTruthFollows DEF PubTypeOK
<1> QED
  BY <1>1, PublicationTypes, PublicationInvariant, PTL

\* What is left behind is named and what is named is left behind, but for the
\* two cases the property states.
THEOREM ResidueIsNamed == PubSpec => []ResidueNamed
BY PublicationInvariant, NamingFollows, PTL

LEMMA StepKeepsFinal ==
  ASSUME NEW c \in Collectors, PubStep(c), final # Nobody
  PROVE  final' = final
BY DEF PubStep, Pin, Validate, CreateCandidate, AssignCandidate, ArchiveEntry,
       RemoveWorkspace, MarkAttempted, Describe, Seal, Link, RecordPublication,
       DropCandidate, ReturnDelivered, Raise, HandlerCleansWorkspace,
       HandlerDropsCandidate, ReturnInterrupted, RaisePublicationError

\* No step replaces or removes an existing final path.
THEOREM PublicationNeverReplaces == PubSpec => NoReplacement
<1>1. [PubNext]_pubVars => (final # Nobody => final' = final)
  BY StepKeepsFinal DEF PubNext, PubInterrupt, PubKill, ForeignCreate, pubVars
<1> QED
  BY <1>1, PTL DEF PubSpec, NoReplacement

-----------------------------------------------------------------------------
(* Whole invocations. *)

LEMMA OrderFacts ==
  /\ Len(Order) \in Nat
  /\ DOMAIN Order = 1 .. Len(Order)
  /\ \A i \in 1 .. Len(Order) : Order[i] \in Sources
BY OrderEnumeratesSources

LEMMA LabelFacts == PubLabels \subseteq Labels
BY DEF Labels

-----------------------------------------------------------------------------
(* Types. *)

LEMMA RunStepTypes ==
  ASSUME TypeOK, NEW c \in Collectors, RunStep(c)
  PROVE  TypeOK'
<1> USE DEF TypeOK, PubTypes, Labels, RunLabels, PubLabels, StartupLabels,
            RunTryLabels, RunHandlerLabels, ExitLabels, TryLabels, Status, Goto,
            Exit, disk, inode, inputs, locals, answer, history, runVars
<1>1. CASE Startup(c) \/ Inspect(c)
  BY <1>1 DEF Startup, Inspect
<1>2. CASE MakeWorkspace(c) \/ AssignWorkspace(c) \/ Layout(c)
  BY <1>2 DEF MakeWorkspace, AssignWorkspace, Layout
<1>3. CASE CollectSource(c)
  <2>1. turn[c] \in 1 .. Len(Order) /\ Order[turn[c]] \in Sources
    BY <1>3, OrderFacts DEF CollectSource
  <2>2. turn' \in [Collectors -> 1 .. Len(Order) + 1]
    <3>1. turn[c] + 1 \in 1 .. Len(Order) + 1
      BY <2>1, OrderFacts
    <3> QED
      BY <1>3, <3>1 DEF CollectSource
  <2>3. admitted' \in [Collectors -> SUBSET Sources]
    <3>1. admitted[c] \cup {Order[turn[c]]} \in SUBSET Sources
      BY <2>1
    <3> QED
      BY <1>3, <3>1 DEF CollectSource
  <2>4. flawed' \in SUBSET Collectors
    BY <1>3 DEF CollectSource
  <2> QED
    BY <1>3, <2>2, <2>3, <2>4 DEF CollectSource
<1>4. CASE Diagnose(c) \/ CallPublication(c) \/ RunRaise(c)
  BY <1>4 DEF Diagnose, CallPublication, RunRaise
<1>5. CASE ReportNondelivery(c) \/ ReportResidue(c)
  <2>1. reported' \in [Collectors -> SUBSET Object]
    <3>1. reported[c] \cup residue[c] \in SUBSET Object
      OBVIOUS
    <3>2. reported' = [reported EXCEPT ![c] = @ \cup residue[c]]
      BY <1>5 DEF ReportNondelivery, ReportResidue
    <3> QED
      BY <3>1, <3>2
  <2>2. CASE ReportNondelivery(c)
    BY <2>1, <2>2 DEF ReportNondelivery
  <2>3. CASE ReportResidue(c)
    BY <2>1, <2>3 DEF ReportResidue
  <2> QED
    BY <1>5, <2>2, <2>3
<1>6. CASE Announce(c) \/ Finish(c)
  BY <1>6 DEF Announce, Finish, Outcome
<1>7. CASE HandleAndExit(c)
  <2>1. PICK said \in SUBSET Object :
           reported' = [reported EXCEPT ![c] = @ \cup said]
    <3>1. {"workspace"} \in SUBSET Object /\ {} \in SUBSET Object
      BY DEF Object
    <3> QED
      BY <1>7, <3>1 DEF HandleAndExit
  <2>2. reported' \in [Collectors -> SUBSET Object]
    BY <2>1
  <2>3. workspaces' \in SUBSET Collectors /\ unclean' \in SUBSET Collectors
    BY <1>7 DEF HandleAndExit, CleanupOwnedWorkspace
  <2>4. pc' \in [Collectors -> Labels] /\ status' \in [Collectors -> Status]
    BY <1>7 DEF HandleAndExit
  <2> HIDE DEF Labels, Status
  <2> QED
    BY <1>7, <2>2, <2>3, <2>4 DEF HandleAndExit
<1>8. CASE HandlePublicationError(c)
  BY <1>8 DEF HandlePublicationError
<1> QED
  BY <1>1, <1>2, <1>3, <1>4, <1>5, <1>6, <1>7, <1>8 DEF RunStep

LEMMA RunInterruptTypes ==
  ASSUME TypeOK, NEW c \in Collectors, RunInterrupt(c)
  PROVE  TypeOK'
<1>1. pc' \in [Collectors -> Labels] /\ status' \in [Collectors -> Status]
  BY DEF TypeOK, RunInterrupt, Exit, Goto, Labels, RunLabels, RunHandlerLabels, Status
<1>2. interrupts' \in 0 .. MaxInterrupts
  BY InterruptBound DEF RunInterrupt, TypeOK, PubTypes
<1>3. RunWindowAt(pc[c]) \in SUBSET Windows
  BY DEF RunWindowAt, Windows
<1>4. window' \in [Collectors -> SUBSET Windows]
  BY <1>3 DEF RunInterrupt, TypeOK, PubTypes
<1> QED
  BY <1>1, <1>2, <1>4
     DEF RunInterrupt, TypeOK, PubTypes, disk, inode, inputs, locals, answer

LEMMA RunKillTypes ==
  ASSUME TypeOK, NEW c \in Collectors, RunKill(c)
  PROVE  TypeOK'
BY DEF RunKill, TypeOK, PubTypes, Labels, PubLabels, disk, inode, inputs, locals,
       answer, history, runVars

LEMMA StderrTypes ==
  ASSUME TypeOK, NEW c \in Collectors, StderrFails(c)
  PROVE  TypeOK'
<1>1. window' \in [Collectors -> SUBSET Windows]
  <2>1. window' = [window EXCEPT ![c] = @ \cup {"report_lost"}]
    BY DEF StderrFails, LoseResidueLine, LoseReport, LoseAnswer, LosesALine
  <2> QED
    BY <2>1 DEF TypeOK, PubTypes, Windows
<1>2. reported' \in [Collectors -> SUBSET Object]
  <2>1. \/ UNCHANGED reported
        \/ \E taken \in SUBSET residue[c] :
              reported' = [reported EXCEPT ![c] = @ \cup taken]
    BY DEF StderrFails, LoseResidueLine, LoseReport, LoseAnswer
  <2>2. ASSUME NEW taken \in SUBSET residue[c],
               reported' = [reported EXCEPT ![c] = @ \cup taken]
        PROVE  reported' \in [Collectors -> SUBSET Object]
    <3>1. reported[c] \cup taken \in SUBSET Object
      BY DEF TypeOK, PubTypes
    <3> QED
      BY <2>2, <3>1 DEF TypeOK
  <2> QED
    BY <2>1, <2>2 DEF TypeOK
<1>3. pc' \in [Collectors -> Labels] /\ status' \in [Collectors -> Status]
  BY DEF StderrFails, LoseResidueLine, LoseReport, LoseAnswer, Exit, Goto, TypeOK,
         Labels, RunLabels, RunTryLabels, RunHandlerLabels, Status
<1>4. workspaces' \in SUBSET Collectors /\ unclean' \in SUBSET Collectors
  BY DEF StderrFails, LoseResidueLine, LoseReport, LoseAnswer, CleanupOwnedWorkspace,
         TypeOK, PubTypes, disk, locals
<1>5. UNCHANGED <<final, candidates, inode, inputs, known, attempted, published,
                  answer, interrupts, turn, owned, announced>>
  BY DEF StderrFails, LoseResidueLine, LoseReport, LoseAnswer, disk, locals
<1> QED
  BY <1>1, <1>2, <1>3, <1>4, <1>5 DEF TypeOK, PubTypes, inode, inputs, answer

\* Every state of an invocation is well typed.
THEOREM CollectTypes == Spec => []TypeOK
<1>1. Init => TypeOK
  BY InterruptBound, OrderFacts
     DEF Init, PubLocalsInit, TypeOK, PubTypes, Labels, RunLabels, StartupLabels,
         Status, Outcome
<1>2. TypeOK /\ [Next]_vars => TypeOK'
  <2> SUFFICES ASSUME TypeOK, [Next]_vars PROVE TypeOK'
    OBVIOUS
  <2>1. CASE UNCHANGED vars
    BY <2>1 DEF vars, pubVars, runVars, disk, inode, inputs, locals, answer,
                history, TypeOK, PubTypes
  <2>2. ASSUME NEW c \in Collectors, RunStep(c) PROVE TypeOK'
    BY <2>2, RunStepTypes
  <2>3. ASSUME NEW c \in Collectors, PubStep(c), UNCHANGED runVars PROVE TypeOK'
    BY <2>3, StepTypes, LabelFacts DEF TypeOK, runVars
  <2>4. ASSUME NEW c \in Collectors, RunInterrupt(c) PROVE TypeOK'
    BY <2>4, RunInterruptTypes
  <2>5. ASSUME NEW c \in Collectors, RunKill(c) PROVE TypeOK'
    BY <2>5, RunKillTypes
  <2>6. ASSUME NEW c \in Collectors, PubInterrupt(c), UNCHANGED runVars PROVE TypeOK'
    BY <2>6, InterruptTypes, LabelFacts DEF TypeOK, runVars
  <2>7. ASSUME NEW c \in Collectors, PubKill(c), UNCHANGED runVars PROVE TypeOK'
    BY <2>7, KillTypes, LabelFacts DEF TypeOK, runVars
  <2>8. ASSUME ForeignCreate, UNCHANGED runVars PROVE TypeOK'
    BY <2>8, ForeignTypes DEF TypeOK, runVars
  <2>9. ASSUME NEW c \in Collectors, StderrFails(c) PROVE TypeOK'
    BY <2>9, StderrTypes
  <2> QED
    BY <2>1, <2>2, <2>3, <2>4, <2>5, <2>6, <2>7, <2>8, <2>9 DEF Next, Step
<1> QED
  BY <1>1, <1>2, PTL DEF Spec

-----------------------------------------------------------------------------
(* run()'s own steps keep publication's invariant. *)

LEMMA RunKeepsContents ==
  ASSUME TypeOK, NEW c \in Collectors, RunStep(c),
         NEW d \in Collectors, ContentsInv(d), RunInv(d)
  PROVE  ContentsInv(d)'
<1> USE DEF TypeOK, PubTypes, Goto, Exit, ContentsInv, BeforeMetadata,
            disk, inode, inputs, locals, answer, history, runVars
<1>1. CASE Startup(c) \/ Inspect(c)
  BY <1>1 DEF Startup, Inspect
<1>2. CASE MakeWorkspace(c) \/ AssignWorkspace(c) \/ Layout(c)
  BY <1>2 DEF MakeWorkspace, AssignWorkspace, Layout
<1>3. CASE CollectSource(c)
  BY <1>3 DEF CollectSource, RunInv, PreparingInv, BeforePublication, Preparing
<1>4. CASE Diagnose(c) \/ RunRaise(c)
  BY <1>4 DEF Diagnose, RunRaise
<1>5. CASE CallPublication(c)
  BY <1>5 DEF CallPublication, RunInv, PreparingInv, BeforePublication, Preparing
<1>6. CASE ReportNondelivery(c) \/ ReportResidue(c) \/ Announce(c) \/ Finish(c)
  BY <1>6 DEF ReportNondelivery, ReportResidue, Announce, Finish
<1>7. CASE HandleAndExit(c) \/ HandlePublicationError(c)
  BY <1>7 DEF HandleAndExit, HandlePublicationError
<1> QED
  BY <1>1, <1>2, <1>3, <1>4, <1>5, <1>6, <1>7 DEF RunStep

\* When every source was taken and none left a problem, all are admitted.
LEMMA AllAdmitted ==
  ASSUME TypeOK, NEW d \in Collectors, SourcesInv(d),
         turn[d] = Len(Order) + 1, d \notin flawed
  PROVE  admitted[d] = Sources
<1>1. ASSUME NEW s \in Sources PROVE s \in admitted[d]
  <2>1. PICK i \in DOMAIN Order : Order[i] = s
    BY OrderEnumeratesSources
  <2>2. i < turn[d]
    BY OrderFacts
  <2> QED
    BY <2>1, <2>2 DEF SourcesInv
<1> QED
  BY <1>1 DEF TypeOK, PubTypes

LEMMA RunKeepsOutcome ==
  ASSUME TypeOK, NEW c \in Collectors, RunStep(c),
         NEW d \in Collectors, ContentsInv(d), OutcomeInv(d), RunInv(d)
  PROVE  OutcomeInv(d)'
<1> USE DEF TypeOK, PubTypes, Goto, Exit, OutcomeInv, TryLabels, HandlerLabels,
            disk, inode, inputs, locals, answer, history, runVars
<1>1. CASE Startup(c) \/ Inspect(c)
  BY <1>1 DEF Startup, Inspect
<1>2. CASE MakeWorkspace(c)
  BY <1>2 DEF MakeWorkspace, RunInv, PreparingInv, BeforePublication, Preparing
<1>3. CASE AssignWorkspace(c) \/ Layout(c)
  BY <1>3 DEF AssignWorkspace, Layout
<1>4. CASE CollectSource(c)
  BY <1>4 DEF CollectSource, RunInv, PreparingInv, BeforePublication, Preparing
<1>5. CASE Diagnose(c) \/ RunRaise(c)
  BY <1>5 DEF Diagnose, RunRaise
<1>6. CASE CallPublication(c)
  <2>1. c \notin flawed /\ d = c => admitted[d] = Sources
    BY <1>6, AllAdmitted DEF CallPublication, RunInv, SourcesInv
  <2>2. d = c => outcome[d] = "unset"
    BY <1>6 DEF CallPublication, RunInv, PreparingInv, BeforePublication, Preparing
  <2> QED
    BY <1>6, <2>1, <2>2 DEF CallPublication
<1>7. CASE ReportNondelivery(c) \/ ReportResidue(c) \/ Announce(c) \/ Finish(c)
  BY <1>7 DEF ReportNondelivery, ReportResidue, Announce, Finish
<1>8. CASE HandleAndExit(c)
  BY <1>8 DEF HandleAndExit, CleanupOwnedWorkspace
<1>9. CASE HandlePublicationError(c)
  BY <1>9 DEF HandlePublicationError
<1> QED
  BY <1>1, <1>2, <1>3, <1>4, <1>5, <1>6, <1>7, <1>8, <1>9 DEF RunStep

LEMMA RunKeepsLink ==
  ASSUME TypeOK, NEW c \in Collectors, RunStep(c),
         NEW d \in Collectors, LinkInv(d), RunInv(d)
  PROVE  LinkInv(d)'
<1> USE DEF TypeOK, PubTypes, Goto, Exit, LinkInv, BeforeLink, BeforeMetadata,
            Failing, Interrupted, Late, LateWindows, TryLabels,
            disk, inode, inputs, locals, answer, history, runVars
<1>1. CASE Startup(c) \/ Inspect(c)
  BY <1>1 DEF Startup, Inspect
<1>2. CASE MakeWorkspace(c) \/ AssignWorkspace(c) \/ Layout(c)
  BY <1>2 DEF MakeWorkspace, AssignWorkspace, Layout
<1>3. CASE CollectSource(c) \/ Diagnose(c) \/ RunRaise(c)
  BY <1>3 DEF CollectSource, Diagnose, RunRaise
<1>4. CASE CallPublication(c)
  BY <1>4 DEF CallPublication, RunInv, PreparingInv, BeforePublication, Preparing
<1>5. CASE ReportNondelivery(c) \/ ReportResidue(c) \/ Announce(c) \/ Finish(c)
  BY <1>5 DEF ReportNondelivery, ReportResidue, Announce, Finish
<1>6. CASE HandleAndExit(c) \/ HandlePublicationError(c)
  BY <1>6 DEF HandleAndExit, HandlePublicationError
<1> QED
  BY <1>1, <1>2, <1>3, <1>4, <1>5, <1>6 DEF RunStep

LEMMA RunKeepsResidue ==
  ASSUME TypeOK, NEW c \in Collectors, RunStep(c),
         NEW d \in Collectors, ResidueInv(d), RunInv(d)
  PROVE  ResidueInv(d)'
<1> USE DEF TypeOK, PubTypes, Goto, Exit, ResidueInv, BeforeLink, BeforeMetadata,
            TryLabels, HandlerLabels, Returned, Owned, Object,
            disk, inode, inputs, locals, answer, history, runVars
<1>1. CASE Startup(c) \/ Inspect(c)
  BY <1>1 DEF Startup, Inspect
<1>2. CASE MakeWorkspace(c) \/ AssignWorkspace(c) \/ Layout(c)
  BY <1>2 DEF MakeWorkspace, AssignWorkspace, Layout
<1>3. CASE CollectSource(c) \/ Diagnose(c) \/ RunRaise(c)
  BY <1>3 DEF CollectSource, Diagnose, RunRaise
<1>4. CASE CallPublication(c)
  BY <1>4 DEF CallPublication, RunInv, PreparingInv, BeforePublication, Preparing
<1>5. CASE ReportNondelivery(c) \/ ReportResidue(c) \/ Announce(c) \/ Finish(c)
  BY <1>5 DEF ReportNondelivery, ReportResidue, Announce, Finish
<1>6. CASE HandleAndExit(c)
  BY <1>6 DEF HandleAndExit, CleanupOwnedWorkspace
<1>7. CASE HandlePublicationError(c)
  BY <1>7 DEF HandlePublicationError
<1> QED
  BY <1>1, <1>2, <1>3, <1>4, <1>5, <1>6, <1>7 DEF RunStep

-----------------------------------------------------------------------------
(* run()'s own steps keep its own invariant. *)

LEMMA RunKeepsPreparing ==
  ASSUME TypeOK, NEW c \in Collectors, RunStep(c),
         NEW d \in Collectors, PreparingInv(d)
  PROVE  PreparingInv(d)'
<1> USE DEF TypeOK, PubTypes, Goto, Exit, PreparingInv, BeforePublication, Preparing,
            StartupLabels,
            disk, inode, inputs, locals, answer, history, runVars
<1>1. CASE Startup(c) \/ Inspect(c)
  BY <1>1 DEF Startup, Inspect
<1>2. CASE MakeWorkspace(c) \/ AssignWorkspace(c) \/ Layout(c)
  BY <1>2 DEF MakeWorkspace, AssignWorkspace, Layout
<1>3. CASE CollectSource(c) \/ Diagnose(c) \/ CallPublication(c) \/ RunRaise(c)
  BY <1>3 DEF CollectSource, Diagnose, CallPublication, RunRaise
<1>4. CASE ReportNondelivery(c) \/ ReportResidue(c) \/ Announce(c) \/ Finish(c)
  BY <1>4 DEF ReportNondelivery, ReportResidue, Announce, Finish
<1>5. CASE HandleAndExit(c) \/ HandlePublicationError(c)
  BY <1>5 DEF HandleAndExit, HandlePublicationError
<1> QED
  BY <1>1, <1>2, <1>3, <1>4, <1>5 DEF RunStep

LEMMA RunKeepsSources ==
  ASSUME TypeOK, NEW c \in Collectors, RunStep(c),
         NEW d \in Collectors, PreparingInv(d), SourcesInv(d)
  PROVE  SourcesInv(d)'
<1> USE OrderFacts
    DEF TypeOK, PubTypes, Goto, Exit, SourcesInv, TryLabels,
        disk, inode, inputs, locals, answer, history, runVars
<1>1. CASE Startup(c) \/ Inspect(c)
  BY <1>1 DEF Startup, Inspect
<1>2. CASE MakeWorkspace(c) \/ AssignWorkspace(c) \/ Layout(c)
  BY <1>2 DEF MakeWorkspace, AssignWorkspace, Layout
<1>3. CASE CollectSource(c)
  BY <1>3 DEF CollectSource, PreparingInv, BeforePublication, Preparing
<1>4. CASE Diagnose(c) \/ CallPublication(c) \/ RunRaise(c)
  BY <1>4 DEF Diagnose, CallPublication, RunRaise
<1>5. CASE ReportNondelivery(c) \/ ReportResidue(c) \/ Announce(c) \/ Finish(c)
  BY <1>5 DEF ReportNondelivery, ReportResidue, Announce, Finish
<1>6. CASE HandleAndExit(c) \/ HandlePublicationError(c)
  BY <1>6 DEF HandleAndExit, HandlePublicationError
<1> QED
  BY <1>1, <1>2, <1>3, <1>4, <1>5, <1>6 DEF RunStep

\* The result a caller goes on with: the bundle stands at the final path.
LEMMA DeliveredResult ==
  ASSUME TypeOK, NEW d \in Collectors, LinkInv(d), ResidueInv(d), OutcomeInv(d),
         pc[d] = "handback", result[d] # "INTERRUPTED"
  PROVE  /\ final = d
         /\ Owned(d) \subseteq residue[d]
         /\ "workspace" \in residue[d] => d \in unclean
         /\ outcome[d] = "partial" => d \in flawed \cup unclean
<1>1. result[d] \in {"DELIVERED", "DELIVERED_INTERRUPTED"}
  BY DEF TypeOK, PubTypes, PublicationState, LinkInv
<1>2. final = d /\ "candidate_unassigned" \notin window[d]
  BY <1>1 DEF LinkInv
<1>3. Owned(d) \subseteq residue[d]
  BY <1>2 DEF ResidueInv, Returned, Owned, Object
<1> QED
  BY <1>2, <1>3 DEF ResidueInv, OutcomeInv

LEMMA RunKeepsClaim ==
  ASSUME TypeOK, NEW c \in Collectors, RunStep(c),
         NEW d \in Collectors, OutcomeInv(d), LinkInv(d), ResidueInv(d),
         PreparingInv(d), ClaimInv(d)
  PROVE  ClaimInv(d)'
<1> USE DEF TypeOK, PubTypes, Goto, Exit, ClaimInv, Late,
            disk, inode, inputs, locals, answer, history, runVars
<1>1. CASE Startup(c) \/ Inspect(c)
  BY <1>1 DEF Startup, Inspect, PreparingInv, BeforePublication, Preparing,
              StartupLabels
<1>2. CASE MakeWorkspace(c) \/ AssignWorkspace(c) \/ Layout(c)
  BY <1>2 DEF MakeWorkspace, AssignWorkspace, Layout
<1>3. CASE CollectSource(c) \/ Diagnose(c) \/ CallPublication(c) \/ RunRaise(c)
  BY <1>3 DEF CollectSource, Diagnose, CallPublication, RunRaise
<1>4. CASE ReportNondelivery(c)
  BY <1>4 DEF ReportNondelivery, LinkInv, LateWindows
<1>5. CASE ReportResidue(c)
  BY <1>5, DeliveredResult DEF ReportResidue
<1>6. CASE Announce(c) \/ Finish(c)
  BY <1>6 DEF Announce, Finish
<1>7. CASE HandleAndExit(c)
  BY <1>7 DEF HandleAndExit, LinkInv, LateWindows, PreparingInv, BeforePublication,
              Preparing
<1>8. CASE HandlePublicationError(c)
  BY <1>8 DEF HandlePublicationError, LinkInv, Failing
<1> QED
  BY <1>1, <1>2, <1>3, <1>4, <1>5, <1>6, <1>7, <1>8 DEF RunStep

LEMMA RunKeepsAnnounce ==
  ASSUME TypeOK, NEW c \in Collectors, RunStep(c),
         NEW d \in Collectors, ContentsInv(d), OutcomeInv(d), LinkInv(d),
         ResidueInv(d), RunInv(d)
  PROVE  AnnounceInv(d)'
<1> USE DEF TypeOK, PubTypes, Goto, Exit, AnnounceInv, Owned, Object,
            disk, inode, inputs, locals, answer, history, runVars
<1>1. CASE Startup(c) \/ Inspect(c)
  BY <1>1 DEF Startup, Inspect, RunInv
<1>2. CASE MakeWorkspace(c) \/ AssignWorkspace(c) \/ Layout(c)
  BY <1>2 DEF MakeWorkspace, AssignWorkspace, Layout, RunInv, PreparingInv,
              BeforePublication, Preparing
<1>3. CASE CollectSource(c) \/ Diagnose(c) \/ CallPublication(c) \/ RunRaise(c)
  BY <1>3 DEF CollectSource, Diagnose, CallPublication, RunRaise, RunInv
<1>4. CASE ReportNondelivery(c)
  BY <1>4 DEF ReportNondelivery, RunInv
<1>5. CASE ReportResidue(c)
  <2>1. CASE d # c
    BY <1>5, <2>1 DEF ReportResidue, RunInv
  <2>2. CASE d = c
    <3>1. /\ Owned(d) \subseteq residue[d]
          /\ "workspace" \in residue[d] => d \in unclean
          /\ outcome[d] = "partial" => d \in flawed \cup unclean
      BY <1>5, <2>2, DeliveredResult DEF ReportResidue
    <3>2. reported[d] \cup residue[d] = reported'[d]
      BY <1>5, <2>2 DEF ReportResidue
    <3> QED
      BY <1>5, <2>2, <3>1, <3>2 DEF ReportResidue, RunInv
  <2> QED
    BY <2>1, <2>2
<1>6. CASE Announce(c)
  <2>1. CASE d # c
    BY <1>6, <2>1 DEF Announce, RunInv
  <2>2. CASE d = c
    <3>1. /\ pc'[d] = "finish"
          /\ announced'[d] = IF d \in flawed \/ residue[d] # {}
                               THEN "partial" ELSE "complete"
          /\ UNCHANGED <<outcome, workspaces, candidates, reported, window>>
      BY <1>6, <2>2 DEF Announce
    <3>2. /\ residue[d] \subseteq reported[d] \/ "report_lost" \in window[d]
          /\ Owned(d) \subseteq residue[d]
          /\ outcome[d] = "partial" => d \in flawed \cup unclean
          /\ "workspace" \in residue[d] => d \in unclean
          /\ outcome[d] # "unset"
      BY <1>6, <2>2 DEF Announce, RunInv, ClaimInv, LinkInv, ContentsInv
    <3>3. d \in unclean => d \in workspaces /\ "workspace" \in residue[d]
      BY <3>2 DEF ResidueInv
    <3>4. CASE d \in flawed \/ residue[d] # {}
      <4>1. outcome[d] = "complete" => "candidate" \in residue[d]
        <5>1. outcome[d] = "complete" => d \notin flawed /\ d \notin workspaces
          BY DEF OutcomeInv
        <5>2. residue[d] \subseteq {"workspace", "candidate"}
          OBVIOUS
        <5>3. "workspace" \in residue[d] => d \in workspaces
          BY <3>2, <3>3
        <5> QED
          BY <3>4, <5>1, <5>2, <5>3
      <4> QED
        BY <3>1, <3>2, <3>4, <4>1
    <3>5. CASE ~(d \in flawed \/ residue[d] # {})
      <4>1. outcome[d] = "complete" /\ Owned(d) = {}
        BY <3>2, <3>3, <3>5
      <4> QED
        BY <3>1, <3>5, <4>1
    <3> QED
      BY <3>4, <3>5
  <2> QED
    BY <2>1, <2>2
<1>7. CASE Finish(c)
  BY <1>7 DEF Finish, RunInv
<1>8. CASE HandleAndExit(c)
  <2>1. /\ Owned(d)' \subseteq Owned(d)
        /\ reported[d] \subseteq reported'[d]
        /\ UNCHANGED <<announced, outcome, window>>
        /\ pc'[d] = "announce" => d # c
    BY <1>8 DEF HandleAndExit, CleanupOwnedWorkspace
  <2>2. d # c => /\ pc'[d] = pc[d] /\ reported'[d] = reported[d]
                 /\ d \in unclean' <=> d \in unclean
                 /\ UNCHANGED <<residue, flawed>>
    BY <1>8 DEF HandleAndExit, CleanupOwnedWorkspace
  <2> HIDE DEF Owned
  <2> QED
    BY <2>1, <2>2 DEF RunInv
<1>9. CASE HandlePublicationError(c)
  BY <1>9 DEF HandlePublicationError, RunInv
<1> QED
  BY <1>1, <1>2, <1>3, <1>4, <1>5, <1>6, <1>7, <1>8, <1>9 DEF RunStep

LEMMA RunKeepsOwnership ==
  ASSUME TypeOK, NEW c \in Collectors, RunStep(c),
         NEW d \in Collectors, LinkInv(d), OutcomeInv(d), ResidueInv(d), RunInv(d)
  PROVE  OwnershipInv(d)'
<1> USE DEF TypeOK, PubTypes, Goto, Exit, OwnershipInv, ForgetfulWindows,
            disk, inode, inputs, locals, answer, history, runVars
<1>1. CASE Startup(c) \/ Inspect(c)
  BY <1>1 DEF Startup, Inspect, RunInv, PreparingInv, BeforePublication, Preparing,
              StartupLabels
<1>2. CASE MakeWorkspace(c) \/ AssignWorkspace(c) \/ Layout(c)
  BY <1>2 DEF MakeWorkspace, AssignWorkspace, Layout, RunInv, ClaimInv
<1>3. CASE CollectSource(c) \/ Diagnose(c) \/ CallPublication(c) \/ RunRaise(c)
  BY <1>3 DEF CollectSource, Diagnose, CallPublication, RunRaise, RunInv,
              PreparingInv, BeforePublication, Preparing
<1>4. CASE ReportNondelivery(c) \/ ReportResidue(c)
  BY <1>4 DEF ReportNondelivery, ReportResidue, RunInv, ClaimInv, ResidueInv, Returned
<1>5. CASE Announce(c) \/ Finish(c)
  BY <1>5 DEF Announce, Finish, RunInv
<1>6. CASE HandleAndExit(c)
  BY <1>6 DEF HandleAndExit, CleanupOwnedWorkspace, RunInv, PreparingInv,
              BeforePublication, Preparing
<1>7. CASE HandlePublicationError(c)
  BY <1>7 DEF HandlePublicationError, RunInv, ResidueInv, Returned
<1> QED
  BY <1>1, <1>2, <1>3, <1>4, <1>5, <1>6, <1>7 DEF RunStep

LEMMA RunStepKeepsInvariant ==
  ASSUME TypeOK, CollectInv, NEW c \in Collectors, RunStep(c)
  PROVE  CollectInv'
<1> SUFFICES ASSUME NEW d \in Collectors
             PROVE  /\ ContentsInv(d)' /\ OutcomeInv(d)' /\ LinkInv(d)' /\ ResidueInv(d)'
                    /\ RunInv(d)'
  BY DEF CollectInv, PubInv
<1>1. /\ ContentsInv(d) /\ OutcomeInv(d) /\ LinkInv(d) /\ ResidueInv(d)
      /\ RunInv(d)
  BY DEF CollectInv, PubInv
<1>2. /\ PreparingInv(d) /\ SourcesInv(d) /\ ClaimInv(d)
      /\ AnnounceInv(d) /\ OwnershipInv(d)
  BY <1>1 DEF RunInv
<1>3. ContentsInv(d)' /\ OutcomeInv(d)' /\ LinkInv(d)' /\ ResidueInv(d)'
  BY <1>1, RunKeepsContents, RunKeepsOutcome, RunKeepsLink, RunKeepsResidue
<1>4. /\ PreparingInv(d)' /\ SourcesInv(d)' /\ ClaimInv(d)'
      /\ AnnounceInv(d)' /\ OwnershipInv(d)'
  BY <1>1, <1>2, RunKeepsPreparing, RunKeepsSources, RunKeepsClaim,
     RunKeepsAnnounce, RunKeepsOwnership
<1> QED
  BY <1>3, <1>4 DEF RunInv

-----------------------------------------------------------------------------
(* publish_bundle's steps keep run()'s invariant. *)

\* What such a step may change of call c, and that it changes no other's.
LEMMA PubStepFrame ==
  ASSUME TypeOK, NEW c \in Collectors, PubStep(c), NEW d \in Collectors
  PROVE  /\ UNCHANGED <<admitted, flawed, window>>
         /\ workspaces' \subseteq workspaces
         /\ d \in candidates' => d \in candidates \/ (d = c /\ pc[c] = "create")
         /\ outcome'[d] # outcome[d] => d = c /\ pc[c] = "describe"
         /\ packed'[d] # packed[d] => d = c
         /\ residue'[d] # residue[d] => d = c
         /\ result'[d] # result[d] => d = c
         /\ d \in attempted' => d \in attempted \/ d = c
         /\ d \in unclean /\ d \notin unclean' => d = c
         /\ final' = final \/ (final = Nobody /\ final' = c /\ pc[c] = "link")
<1> USE DEF TypeOK, PubTypes, Goto, disk, inode, inputs, locals, answer, history
<1>1. CASE Pin(c) \/ Validate(c) \/ CreateCandidate(c) \/ AssignCandidate(c)
  BY <1>1 DEF Pin, Validate, CreateCandidate, AssignCandidate
<1>2. CASE ArchiveEntry(c)
  BY <1>2 DEF ArchiveEntry
<1>3. CASE RemoveWorkspace(c) \/ HandlerCleansWorkspace(c)
  BY <1>3 DEF RemoveWorkspace, HandlerCleansWorkspace, CleanupOwnedWorkspace
<1>4. CASE MarkAttempted(c) \/ Describe(c) \/ Seal(c)
  BY <1>4 DEF MarkAttempted, Describe, Seal
<1>5. CASE Link(c) \/ RecordPublication(c)
  BY <1>5 DEF Link, RecordPublication
<1>6. CASE DropCandidate(c)
  <2>1. \E left : RemoveCandidate(c, left)
    BY <1>6 DEF DropCandidate
  <2>2. \E said : residue' = [residue EXCEPT ![c] = said]
    BY <1>6 DEF DropCandidate
  <2> QED
    BY <1>6, <2>1, <2>2 DEF DropCandidate, RemoveCandidate
<1>7. CASE HandlerDropsCandidate(c)
  <2>1. candidates' \subseteq candidates
    BY <1>7 DEF HandlerDropsCandidate, RemoveCandidate
  <2>2. \E said : residue' = [residue EXCEPT ![c] = said]
    BY <1>7 DEF HandlerDropsCandidate
  <2> QED
    BY <1>7, <2>1, <2>2 DEF HandlerDropsCandidate
<1>8. CASE ReturnDelivered(c) \/ ReturnInterrupted(c)
  BY <1>8 DEF ReturnDelivered, ReturnInterrupted
<1>9. CASE Raise(c) \/ RaisePublicationError(c)
  BY <1>9 DEF Raise, RaisePublicationError
<1> QED
  BY <1>1, <1>2, <1>3, <1>4, <1>5, <1>6, <1>7, <1>8, <1>9 DEF PubStep

\* Such a step starts inside publish_bundle and ends there or in the caller.
LEMMA PubStepControl ==
  ASSUME TypeOK, NEW c \in Collectors, PubStep(c), NEW d \in Collectors
  PROVE  /\ d # c => pc'[d] = pc[d]
         /\ pc[c] \in TryLabels \cup HandlerLabels
         /\ pc'[c] \in TryLabels \cup HandlerLabels
                       \cup {"handback", "on_publication_error"}
         /\ pc'[c] \in TryLabels => pc[c] \in TryLabels
BY DEF PubStep, TypeOK, PubTypes, Goto, TryLabels, HandlerLabels, Fallible, Pin,
       Validate, CreateCandidate, AssignCandidate, ArchiveEntry, RemoveWorkspace,
       MarkAttempted, Describe, Seal, Link, RecordPublication, DropCandidate,
       ReturnDelivered, Raise, HandlerCleansWorkspace, HandlerDropsCandidate,
       ReturnInterrupted, RaisePublicationError

LEMMA PubStepKeepsRun ==
  ASSUME TypeOK, NEW c \in Collectors, PubStep(c), UNCHANGED runVars,
         NEW d \in Collectors, ContentsInv(d), OutcomeInv(d), LinkInv(d),
         ResidueInv(d), RunInv(d)
  PROVE  RunInv(d)'
<1> USE PubStepFrame, PubStepControl DEF runVars
<1>1. PreparingInv(d)'
  BY OwnersDistinct
     DEF RunInv, PreparingInv, BeforePublication, Preparing, StartupLabels,
         TryLabels, HandlerLabels
<1>2. SourcesInv(d)'
  BY DEF RunInv, SourcesInv, TryLabels, HandlerLabels
<1>3. ClaimInv(d)'
  BY OwnersDistinct DEF RunInv, ClaimInv, TryLabels, HandlerLabels, Late
<1>4. AnnounceInv(d)'
  <2>1. CASE d # c
    BY <2>1 DEF RunInv, AnnounceInv, Owned
  <2>2. CASE d = c
    <3>1. pc'[d] # "announce"
      BY <2>2 DEF TryLabels, HandlerLabels
    <3>2. announced[d] # "nothing" => outcome'[d] = outcome[d] /\ Owned(d)' \subseteq Owned(d)
      BY <2>2 DEF RunInv, ClaimInv, LinkInv, BeforeLink, BeforeMetadata, Owned
    <3> HIDE DEF Owned
    <3>3. announced[d] # "nothing" =>
             /\ announced[d] = "complete" => outcome[d] = "complete" /\ Owned(d) = {}
             /\ announced[d] = "partial" /\ outcome[d] = "complete" =>
                   "candidate" \in reported[d] \/ "report_lost" \in window[d]
      BY DEF RunInv, AnnounceInv
    <3> QED
      BY <3>1, <3>2, <3>3 DEF AnnounceInv
  <2> QED
    BY <2>1, <2>2
<1>5. OwnershipInv(d)'
  BY DEF RunInv, OwnershipInv, ClaimInv, TryLabels, HandlerLabels
<1> QED
  BY <1>1, <1>2, <1>3, <1>4, <1>5 DEF RunInv

-----------------------------------------------------------------------------
(* What happens to an invocation keeps the invariant. *)

LEMMA PubInterruptKeepsRun ==
  ASSUME TypeOK, NEW c \in Collectors, PubInterrupt(c), UNCHANGED runVars,
         NEW d \in Collectors, ResidueInv(d), RunInv(d)
  PROVE  RunInv(d)'
<1> USE DEF PubInterrupt, TypeOK, PubTypes, TryLabels, HandlerLabels, RunInv,
            disk, inode, inputs, locals, answer, runVars
<1>1. PreparingInv(d)' /\ SourcesInv(d)'
  BY DEF PreparingInv, BeforePublication, Preparing, StartupLabels, SourcesInv
<1>2. ClaimInv(d)'
  BY DEF ClaimInv, Late
<1>3. AnnounceInv(d)'
  BY DEF AnnounceInv, Owned
<1>4. OwnershipInv(d)'
  BY DEF OwnershipInv, ClaimInv, ForgetfulWindows, WindowAt, ResidueInv
<1> QED
  BY <1>1, <1>2, <1>3, <1>4

LEMMA PubKillKeepsRun ==
  ASSUME TypeOK, NEW c \in Collectors, PubKill(c), UNCHANGED runVars,
         NEW d \in Collectors, RunInv(d)
  PROVE  RunInv(d)'
BY DEF PubKill, TypeOK, PubTypes, RunInv, PreparingInv, BeforePublication, Preparing,
       StartupLabels,
       SourcesInv, ClaimInv, AnnounceInv, OwnershipInv, Late, Owned, TryLabels,
       HandlerLabels, disk, inode, inputs, locals, answer, history, runVars

LEMMA RunInterruptKeepsInvariant ==
  ASSUME TypeOK, CollectInv, NEW c \in Collectors, RunInterrupt(c)
  PROVE  CollectInv'
<1> SUFFICES ASSUME NEW d \in Collectors
             PROVE  /\ ContentsInv(d)' /\ OutcomeInv(d)' /\ LinkInv(d)' /\ ResidueInv(d)'
                    /\ RunInv(d)'
  BY DEF CollectInv, PubInv
<1>1. /\ ContentsInv(d) /\ OutcomeInv(d) /\ LinkInv(d) /\ ResidueInv(d)
      /\ RunInv(d)
  BY DEF CollectInv, PubInv
<1> USE <1>1 DEF RunInterrupt, TypeOK, PubTypes, Exit, Goto, StartupLabels,
            RunTryLabels, RunHandlerLabels, TryLabels, HandlerLabels,
            disk, inode, inputs, locals, answer
<1>2. ContentsInv(d)' /\ OutcomeInv(d)'
  BY DEF ContentsInv, BeforeMetadata, OutcomeInv
<1>3. LinkInv(d)'
  <2>1. final = d /\ pc'[d] = "on_interrupt" => Late(d)'
    <3>1. CASE d = c /\ pc[c] \in {"handback", "announce", "finish"}
      BY <3>1 DEF RunWindowAt, Late, LateWindows
    <3>2. CASE d = c /\ pc[c] \in RunTryLabels \ {"handback", "announce", "finish"}
      BY <3>2 DEF RunInv, PreparingInv, BeforePublication, Preparing
    <3>3. CASE d # c
      BY <3>3 DEF LinkInv, Late
    <3> QED
      BY <3>1, <3>2, <3>3
  <2>2. "candidate_unassigned" \in window'[d] => "candidate_unassigned" \in window[d]
    BY DEF RunWindowAt
  <2>3. window[d] \subseteq window'[d] /\ (d # c => window'[d] = window[d])
    OBVIOUS
  <2> QED
    BY <2>1, <2>2, <2>3
       DEF LinkInv, BeforeLink, BeforeMetadata, Failing, Interrupted
<1>4. ResidueInv(d)'
  BY DEF ResidueInv, BeforeLink, BeforeMetadata, Returned, Owned, RunWindowAt
<1>5. PreparingInv(d)' /\ SourcesInv(d)'
  BY DEF RunInv, PreparingInv, BeforePublication, Preparing, SourcesInv
<1>6. ClaimInv(d)'
  BY DEF RunInv, ClaimInv, Late
<1>7. AnnounceInv(d)'
  BY DEF RunInv, AnnounceInv, Owned
<1>8. OwnershipInv(d)'
  BY DEF RunInv, OwnershipInv, ForgetfulWindows, RunWindowAt, PreparingInv,
         BeforePublication, Preparing, ClaimInv
<1> QED
  BY <1>2, <1>3, <1>4, <1>5, <1>6, <1>7, <1>8 DEF RunInv

LEMMA RunKillKeepsInvariant ==
  ASSUME TypeOK, CollectInv, NEW c \in Collectors, RunKill(c)
  PROVE  CollectInv'
<1> SUFFICES ASSUME NEW d \in Collectors,
                    ContentsInv(d), OutcomeInv(d), LinkInv(d), ResidueInv(d), RunInv(d)
             PROVE  /\ ContentsInv(d)' /\ OutcomeInv(d)' /\ LinkInv(d)' /\ ResidueInv(d)'
                    /\ RunInv(d)'
  BY DEF CollectInv, PubInv
<1> USE DEF RunKill, TypeOK, PubTypes, RunLabels, StartupLabels, RunTryLabels,
            RunHandlerLabels, TryLabels, HandlerLabels,
            disk, inode, inputs, locals, answer, history, runVars
<1>1. ContentsInv(d)' /\ OutcomeInv(d)' /\ LinkInv(d)' /\ ResidueInv(d)'
  BY DEF ContentsInv, BeforeMetadata, OutcomeInv, LinkInv, BeforeLink, Failing,
         Interrupted, Late, ResidueInv, Returned, Owned
<1>2. RunInv(d)'
  BY DEF RunInv, PreparingInv, BeforePublication, Preparing, SourcesInv, ClaimInv,
         AnnounceInv,
         OwnershipInv, Late, Owned
<1> QED
  BY <1>1, <1>2

LEMMA StderrKeepsInvariant ==
  ASSUME TypeOK, CollectInv, NEW c \in Collectors, StderrFails(c)
  PROVE  CollectInv'
<1> SUFFICES ASSUME NEW d \in Collectors
             PROVE  /\ ContentsInv(d)' /\ OutcomeInv(d)' /\ LinkInv(d)' /\ ResidueInv(d)'
                    /\ RunInv(d)'
  BY DEF CollectInv, PubInv
<1>1. /\ ContentsInv(d) /\ OutcomeInv(d) /\ LinkInv(d) /\ ResidueInv(d)
      /\ RunInv(d)
  BY DEF CollectInv, PubInv
<1> USE <1>1 DEF StderrFails, LoseResidueLine, LoseReport, LoseAnswer, LosesALine,
            CleanupOwnedWorkspace, TypeOK, PubTypes, Exit, Goto, StartupLabels,
            TryLabels, HandlerLabels, disk, inode, inputs, locals, answer
<1>2. ContentsInv(d)' /\ OutcomeInv(d)'
  BY DEF ContentsInv, BeforeMetadata, OutcomeInv
<1>3. LinkInv(d)'
  BY DEF LinkInv, BeforeLink, BeforeMetadata, Failing, Interrupted, Late, LateWindows
<1>4. ResidueInv(d)'
  BY DEF ResidueInv, BeforeLink, BeforeMetadata, Returned, Owned, Object
<1>5. PreparingInv(d)' /\ SourcesInv(d)'
  BY DEF RunInv, PreparingInv, BeforePublication, Preparing, SourcesInv
<1>6. ClaimInv(d)'
  <2>1. CASE d # c
    BY <2>1 DEF RunInv, ClaimInv, Late
  <2>2. CASE d = c
    BY <2>2, DeliveredResult DEF RunInv, ClaimInv, Late, LateWindows
  <2> QED
    BY <2>1, <2>2
<1>7. AnnounceInv(d)'
  <2>1. CASE d # c
    BY <2>1 DEF RunInv, AnnounceInv, Owned
  <2>2. CASE d = c
    <3>1. "report_lost" \in window'[d] /\ UNCHANGED <<announced, outcome>>
      BY <2>2
    <3>2. Owned(d)' \subseteq Owned(d)
      BY DEF Owned
    <3>3. pc'[d] = "announce" =>
             /\ pc[d] = "handback" /\ result[d] # "INTERRUPTED"
             /\ UNCHANGED <<residue, flawed, unclean>>
      BY <2>2
    <3>4. pc'[d] = "announce" =>
             /\ Owned(d) \subseteq residue[d]
             /\ "workspace" \in residue[d] => d \in unclean
             /\ outcome[d] = "partial" => d \in flawed \cup unclean
      BY <3>3, DeliveredResult
    <3>5. announced[d] = "complete" => outcome[d] = "complete" /\ Owned(d) = {}
      BY DEF RunInv, AnnounceInv
    <3> HIDE DEF StderrFails
    <3> QED
      BY <3>1, <3>2, <3>3, <3>4, <3>5 DEF AnnounceInv
  <2> QED
    BY <2>1, <2>2
<1>8. OwnershipInv(d)'
  <2>1. CASE d # c
    <3>1. /\ UNCHANGED <<pc[d], window[d], reported[d], status[d], owned, candidates>>
          /\ d \in workspaces' <=> d \in workspaces
      BY <2>1
    <3> QED
      BY <3>1 DEF RunInv, OwnershipInv
  <2>2. CASE d = c
    <3>1. /\ "report_lost" \in window'[d] /\ window[d] \subseteq window'[d]
          /\ workspaces' \subseteq workspaces /\ owned' = owned
      BY <2>2
    <3>2. /\ pc'[d] \notin {"startup", "inspect", "make_workspace"}
          /\ pc[d] # "assign_workspace" /\ pc[d] # "killed"
      BY <2>2
    <3> QED
      BY <3>1, <3>2 DEF RunInv, OwnershipInv, ForgetfulWindows
  <2> QED
    BY <2>1, <2>2
<1> QED
  BY <1>2, <1>3, <1>4, <1>5, <1>6, <1>7, <1>8 DEF RunInv

LEMMA ForeignKeepsRun ==
  ASSUME ForeignCreate, UNCHANGED runVars, NEW d \in Collectors, RunInv(d)
  PROVE  RunInv(d)'
BY OwnersDistinct
   DEF ForeignCreate, RunInv, PreparingInv, BeforePublication, SourcesInv, ClaimInv,
       AnnounceInv,
       OwnershipInv, Late, Owned, disk, inode, inputs, locals, answer, history,
       runVars

-----------------------------------------------------------------------------
(* Invocations. *)

LEMMA InitialInvariant == Init => CollectInv
<1> SUFFICES ASSUME Init, NEW d \in Collectors
             PROVE  /\ ContentsInv(d) /\ OutcomeInv(d) /\ LinkInv(d) /\ ResidueInv(d)
                    /\ RunInv(d)
  BY DEF CollectInv, PubInv
<1> USE DEF Init, PubLocalsInit
<1>1. ContentsInv(d) /\ OutcomeInv(d)
  BY DEF ContentsInv, BeforeMetadata, OutcomeInv, TryLabels
<1>2. LinkInv(d)
  BY OwnersDistinct DEF LinkInv, Interrupted, TryLabels
<1>3. ResidueInv(d)
  BY DEF ResidueInv, BeforeLink, BeforeMetadata, Returned, TryLabels, HandlerLabels
<1>4. PreparingInv(d) /\ SourcesInv(d)
  BY OwnersDistinct, OrderFacts DEF PreparingInv, BeforePublication, SourcesInv,
                                    TryLabels
<1>5. ClaimInv(d) /\ AnnounceInv(d) /\ OwnershipInv(d)
  BY DEF ClaimInv, AnnounceInv, OwnershipInv
<1> QED
  BY <1>1, <1>2, <1>3, <1>4, <1>5 DEF RunInv

\* The inductive invariant holds in every state of every invocation.
THEOREM CollectInvariant == Spec => []CollectInv
<1>1. TypeOK /\ CollectInv /\ [Next]_vars => CollectInv'
  <2> SUFFICES ASSUME TypeOK, CollectInv, [Next]_vars PROVE CollectInv'
    OBVIOUS
  <2>0. PubTypes /\ pc \in [Collectors -> Labels] /\ PubInv
    BY DEF TypeOK, CollectInv
  <2>1. CASE UNCHANGED vars
    BY <2>1 DEF vars, pubVars, runVars, disk, inode, inputs, locals, answer,
                history, CollectInv, PubInv, ContentsInv, OutcomeInv, LinkInv,
                ResidueInv, RunInv, PreparingInv, BeforePublication, SourcesInv,
                ClaimInv, AnnounceInv, OwnershipInv, Late, Owned, Returned
  <2>2. ASSUME NEW c \in Collectors, RunStep(c) PROVE CollectInv'
    BY <2>2, RunStepKeepsInvariant
  <2>3. ASSUME NEW c \in Collectors, PubStep(c), UNCHANGED runVars PROVE CollectInv'
    BY <2>0, <2>3, StepInvariant, PubStepKeepsRun DEF CollectInv, PubInv
  <2>4. ASSUME NEW c \in Collectors, RunInterrupt(c) PROVE CollectInv'
    BY <2>4, RunInterruptKeepsInvariant
  <2>5. ASSUME NEW c \in Collectors, RunKill(c) PROVE CollectInv'
    BY <2>5, RunKillKeepsInvariant
  <2>6. ASSUME NEW c \in Collectors, PubInterrupt(c), UNCHANGED runVars PROVE CollectInv'
    BY <2>0, <2>6, InterruptInvariant, PubInterruptKeepsRun DEF CollectInv, PubInv
  <2>7. ASSUME NEW c \in Collectors, PubKill(c), UNCHANGED runVars PROVE CollectInv'
    BY <2>0, <2>7, KillInvariant, PubKillKeepsRun DEF CollectInv, PubInv
  <2>8. ASSUME ForeignCreate, UNCHANGED runVars PROVE CollectInv'
    BY <2>0, <2>8, ForeignInvariant, ForeignKeepsRun DEF CollectInv, PubInv
  <2>9. ASSUME NEW c \in Collectors, StderrFails(c) PROVE CollectInv'
    BY <2>9, StderrKeepsInvariant
  <2> QED
    BY <2>1, <2>2, <2>3, <2>4, <2>5, <2>6, <2>7, <2>8, <2>9 DEF Next, Step
<1> QED
  BY <1>1, InitialInvariant, CollectTypes, PTL DEF Spec

\* No step of any invocation replaces or removes an existing final path.
THEOREM InvocationsNeverReplace == Spec => NoReplacement
<1>1. [Next]_vars => [final # Nobody => final' = final]_pubVars
  <2> SUFFICES ASSUME [Next]_vars, final # Nobody PROVE final' = final
    OBVIOUS
  <2>1. ASSUME NEW c \in Collectors, RunStep(c) PROVE final' = final
    BY <2>1 DEF RunStep, Startup, Inspect, MakeWorkspace, AssignWorkspace, Layout,
       CollectSource, Diagnose, CallPublication, RunRaise, ReportNondelivery,
       ReportResidue, Announce, Finish, HandleAndExit, HandlePublicationError
  <2>2. ASSUME NEW c \in Collectors, StderrFails(c) PROVE final' = final
    BY <2>2 DEF StderrFails, LoseResidueLine, LoseReport, LoseAnswer
  <2> QED
    BY <2>1, <2>2, StepKeepsFinal DEF Next, Step, RunInterrupt, RunKill, PubInterrupt,
       PubKill, ForeignCreate, vars, pubVars
<1> QED
  BY <1>1, PTL DEF Spec, NoReplacement

\* A bundle appears only after every configured source was attempted.
THEOREM PublishedAfterEverySource == Spec => []EverySourceAttempted
<1>1. CollectInv => EverySourceAttempted
  BY DEF CollectInv, PubInv, RunInv, SourcesInv, LinkInv, ContentsInv,
         EverySourceAttempted
<1> QED
  BY <1>1, CollectInvariant, PTL

\* The bundle of an invocation that says complete is complete.
THEOREM CompleteInvocationIsComplete == Spec => []CompleteMeansComplete
<1>1. CollectInv => CompleteMeansComplete
  BY CompletenessFollows DEF CollectInv
<1> QED
  BY <1>1, CollectInvariant, PTL

\* The exit status tells the truth about the final path, outside the windows.
THEOREM ExitStatusIsTruthful == Spec => []StatusTruthful
<1>1. CollectInv => StatusTruthful
  <2> SUFFICES ASSUME CollectInv, NEW c \in Collectors
               PROVE  /\ status[c] = "0" => final = c
                      /\ status[c] \in {"1", "130"} /\ ~Late(c) =>
                            final # c /\ announced[c] = "nothing"
    BY DEF StatusTruthful
  <2> QED
    BY DEF CollectInv, RunInv, ClaimInv
<1> QED
  BY <1>1, CollectInvariant, PTL

\* An invocation that ends by itself has named what it left, outside the windows.
THEOREM InvocationNamesResidue == Spec => []ResidueReported
<1>1. CollectInv => ResidueReported
  <2> SUFFICES ASSUME CollectInv, NEW c \in Collectors, status[c] \in {"0", "1", "130"}
               PROVE  /\ "workspace" \in Owned(c) \ reported[c] =>
                            window[c] \cap {"workspace_unassigned", "report_lost"} # {}
                      /\ "candidate" \in Owned(c) \ reported[c] =>
                            window[c] \cap ForgetfulWindows # {}
    BY DEF ResidueReported, ForgetfulWindows
  <2> QED
    BY DEF CollectInv, RunInv, OwnershipInv, Owned
<1> QED
  BY <1>1, CollectInvariant, PTL

\* The announced outcome and the bundle's own agree as the property states.
THEOREM AnnouncementIsTruthful == Spec => []AnnouncementAgrees
<1>1. CollectInv => AnnouncementAgrees
  BY DEF CollectInv, RunInv, AnnounceInv, AnnouncementAgrees
<1> QED
  BY <1>1, CollectInvariant, PTL

-----------------------------------------------------------------------------
(* The refinement of BundleDelivery. *)

claimBar     == [c \in Collectors |-> ClaimOf(status[c])]
disturbedBar == {c \in Collectors : final = c /\ Late(c)}

LEMMA ClaimCases ==
  /\ ClaimOf("0") = "delivered"
  /\ ClaimOf("1") = "not delivered" /\ ClaimOf("130") = "not delivered"
  /\ ClaimOf("running") = "none" /\ ClaimOf("uncaught") = "none"
BY DEF ClaimOf

\* A step of run() moves neither the final path nor the window, and gives at
\* most its own exit status, once.
LEMMA RunStepClaims ==
  ASSUME TypeOK, CollectInv, NEW c \in Collectors, RunStep(c)
  PROVE  /\ final' = final /\ window' = window
         /\ \/ status' = status
            \/ /\ status[c] = "running"
               /\ \E s \in {"0", "1", "130"} : status' = [status EXCEPT ![c] = s]
<1>1. pc[c] # "exited" => status[c] = "running"
  BY DEF CollectInv, RunInv, ClaimInv
<1> QED
  BY <1>1 DEF RunStep, Startup, Inspect, MakeWorkspace, AssignWorkspace, Layout,
     CollectSource, Diagnose, CallPublication, RunRaise, ReportNondelivery,
     ReportResidue, Announce, Finish, HandleAndExit, HandlePublicationError,
     Exit, Goto, history, runVars

\* An exit status given by a step is a claim BundleDelivery allows.
LEMMA ExitImplementsClaim ==
  ASSUME TypeOK, CollectInv, CollectInv', NEW c \in Collectors, RunStep(c)
  PROVE  [Delivery!Next]_(Delivery!vars)
<1>1. final' = final /\ disturbedBar' = disturbedBar
  BY RunStepClaims DEF disturbedBar, Late
<1>2. CASE status' = status
  <2>1. claimBar' = claimBar
    BY <1>2 DEF claimBar
  <2> QED
    BY <1>1, <2>1 DEF Delivery!vars, claimBar, disturbedBar
<1>3. ASSUME status[c] = "running", NEW s \in {"0", "1", "130"},
             status' = [status EXCEPT ![c] = s]
      PROVE  Delivery!ClaimDelivered(c) \/ Delivery!ClaimNotDelivered(c)
  <2>1. status'[c] = s
    BY <1>3 DEF TypeOK
  <2>2. claimBar[c] = "none"
    BY <1>3, ClaimCases DEF claimBar
  <2>3. claimBar' = [claimBar EXCEPT ![c] = ClaimOf(s)]
    BY <1>3 DEF claimBar, TypeOK
  <2>4. CASE s = "0"
    <3>1. final = c
      BY <1>1, <2>1, <2>4 DEF CollectInv, RunInv, ClaimInv
    <3> QED
      BY <1>1, <2>2, <2>3, <2>4, <3>1, ClaimCases
         DEF Delivery!ClaimDelivered, claimBar, disturbedBar
  <2>5. CASE s \in {"1", "130"}
    <3>1. final # c \/ c \in disturbedBar
      <4>1. final' = c => Late(c)'
        BY <2>1, <2>5 DEF CollectInv, RunInv, ClaimInv
      <4> QED
        BY <1>1, <4>1 DEF disturbedBar
    <3>2. ClaimOf(s) = "not delivered"
      BY <2>5, ClaimCases
    <3> QED
      BY <1>1, <2>2, <2>3, <3>1, <3>2
         DEF Delivery!ClaimNotDelivered, claimBar, disturbedBar
  <2> QED
    BY <2>4, <2>5
<1> QED
  BY <1>2, <1>3, RunStepClaims DEF Delivery!Next

\* Only the link writes the slot, and it finds it empty.
LEMMA LinkImplementsFill ==
  ASSUME TypeOK, CollectInv, NEW c \in Collectors, PubStep(c), UNCHANGED runVars
  PROVE  [Delivery!Next]_(Delivery!vars)
<1>1. claimBar' = claimBar
  BY DEF claimBar, runVars
<1>2. window' = window
  BY PubStepFrame
<1>3. CASE final' = final
  <2>1. disturbedBar' = disturbedBar
    BY <1>2, <1>3 DEF disturbedBar, Late
  <2> QED
    BY <1>1, <1>3, <2>1 DEF Delivery!vars, claimBar, disturbedBar
<1>4. CASE final = Nobody /\ final' = c /\ pc[c] = "link"
  <2>1. ~Late(c)
    BY <1>4 DEF CollectInv, PubInv, LinkInv, TryLabels, Late
  <2>2. disturbedBar' = {} /\ disturbedBar = {}
    BY <1>2, <1>4, <2>1, OwnersDistinct DEF disturbedBar, Late
  <2>3. Delivery!Fill(c)
    BY <1>1, <1>4, <2>2 DEF Delivery!Fill, claimBar, disturbedBar
  <2> QED
    BY <2>3 DEF Delivery!Next
<1> QED
  BY <1>3, <1>4, PubStepFrame

\* A keystroke or a lost line makes no claim; after delivery it may disturb one.
LEMMA KeystrokeImplementsDisturb ==
  ASSUME TypeOK, CollectInv, NEW c \in Collectors,
         final' = final, NEW W, window' = [window EXCEPT ![c] = @ \cup W],
         pc[c] # "exited",
         \/ status' = status
         \/ status' = [status EXCEPT ![c] = "uncaught"]
  PROVE  [Delivery!Next]_(Delivery!vars)
<1>1. status[c] = "running"
  BY DEF CollectInv, RunInv, ClaimInv
<1>2. claimBar' = claimBar
  <2>1. \A d \in Collectors : ClaimOf(status'[d]) = ClaimOf(status[d])
    BY <1>1, ClaimCases DEF TypeOK
  <2> QED
    BY <2>1 DEF claimBar
<1>3. claimBar[c] = "none"
  BY <1>1, ClaimCases DEF claimBar
<1>4. \A d \in Collectors : d # c => (Late(d)' <=> Late(d))
  BY DEF TypeOK, PubTypes, Late
<1>5. Late(c) => Late(c)'
  BY DEF TypeOK, PubTypes, Late
<1>6. CASE final = c /\ Late(c)' /\ ~Late(c)
  <2>1. disturbedBar' = disturbedBar \cup {c}
    BY <1>4, <1>6 DEF disturbedBar
  <2> QED
    BY <1>2, <1>3, <1>6, <2>1
       DEF Delivery!Next, Delivery!Disturb, claimBar, disturbedBar
<1>7. CASE ~(final = c /\ Late(c)' /\ ~Late(c))
  <2>1. disturbedBar' = disturbedBar
    BY <1>4, <1>5, <1>7 DEF disturbedBar
  <2> QED
    BY <1>2, <2>1 DEF Delivery!vars, claimBar, disturbedBar
<1> QED
  BY <1>6, <1>7

\* Any number of invocations of "collect" implement the promise.
THEOREM CollectImplementsDelivery == Spec => DeliverySpec
<1>1. Init => Delivery!Init
  <2> SUFFICES ASSUME Init PROVE Delivery!Init
    OBVIOUS
  <2>1. claimBar = [c \in Collectors |-> "none"]
    BY ClaimCases DEF Init, claimBar
  <2>2. disturbedBar = {}
    BY OwnersDistinct DEF Init, PubLocalsInit, disturbedBar
  <2> QED
    BY <2>1, <2>2 DEF Init, PubLocalsInit, Delivery!Init, claimBar, disturbedBar
<1>2. TypeOK /\ CollectInv /\ CollectInv' /\ [Next]_vars =>
         [Delivery!Next]_(Delivery!vars)
  <2> SUFFICES ASSUME TypeOK, CollectInv, CollectInv', [Next]_vars
               PROVE  [Delivery!Next]_(Delivery!vars)
    OBVIOUS
  <2>1. CASE final' = final /\ status' = status /\ window' = window
    <3>1. claimBar' = claimBar /\ disturbedBar' = disturbedBar
      BY <2>1 DEF claimBar, disturbedBar, Late
    <3> QED
      BY <2>1, <3>1 DEF Delivery!vars, claimBar, disturbedBar
  <2>2. CASE UNCHANGED vars
    BY <2>1, <2>2 DEF vars, pubVars, history, runVars
  <2>3. ASSUME NEW c \in Collectors, RunStep(c)
        PROVE  [Delivery!Next]_(Delivery!vars)
    BY <2>3, ExitImplementsClaim
  <2>4. ASSUME NEW c \in Collectors, PubStep(c), UNCHANGED runVars
        PROVE  [Delivery!Next]_(Delivery!vars)
    BY <2>4, LinkImplementsFill
  <2>5. ASSUME NEW c \in Collectors, RunInterrupt(c)
        PROVE  [Delivery!Next]_(Delivery!vars)
    <3>1. /\ final' = final
          /\ window' = [window EXCEPT ![c] = @ \cup RunWindowAt(pc[c])]
          /\ pc[c] # "exited"
          /\ status' = status \/ status' = [status EXCEPT ![c] = "uncaught"]
      BY <2>5 DEF RunInterrupt, Exit, Goto, StartupLabels, RunTryLabels,
                  RunHandlerLabels
    <3> QED
      BY <3>1, KeystrokeImplementsDisturb
  <2>6. ASSUME NEW c \in Collectors, PubInterrupt(c), UNCHANGED runVars
        PROVE  [Delivery!Next]_(Delivery!vars)
    <3>1. /\ final' = final
          /\ window' = [window EXCEPT ![c] = @ \cup WindowAt(pc[c])]
          /\ pc[c] # "exited"
          /\ status' = status
      BY <2>6 DEF PubInterrupt, TryLabels, HandlerLabels, runVars
    <3> QED
      BY <3>1, KeystrokeImplementsDisturb
  <2>7. ASSUME NEW c \in Collectors,
               RunKill(c) \/ (PubKill(c) /\ UNCHANGED runVars)
        PROVE  [Delivery!Next]_(Delivery!vars)
    BY <2>1, <2>7 DEF RunKill, PubKill, history, runVars
  <2>8. ASSUME ForeignCreate, UNCHANGED runVars
        PROVE  [Delivery!Next]_(Delivery!vars)
    <3>1. claimBar' = claimBar
      BY <2>8 DEF claimBar, runVars
    <3>2. disturbedBar' = {} /\ disturbedBar = {}
      BY <2>8, OwnersDistinct DEF ForeignCreate, disturbedBar
    <3>3. Delivery!Fill(Foreign)
      BY <2>8, <3>1, <3>2 DEF ForeignCreate, Delivery!Fill, claimBar, disturbedBar
    <3> QED
      BY <3>3 DEF Delivery!Next
  <2>9. ASSUME NEW c \in Collectors, StderrFails(c)
        PROVE  [Delivery!Next]_(Delivery!vars)
    <3>1. /\ final' = final
          /\ window' = [window EXCEPT ![c] = @ \cup {"report_lost"}]
          /\ pc[c] # "exited"
          /\ status' = status \/ status' = [status EXCEPT ![c] = "uncaught"]
      BY <2>9 DEF StderrFails, LoseResidueLine, LoseReport, LoseAnswer, LosesALine,
                  Exit, Goto, StartupLabels
    <3> QED
      BY <3>1, KeystrokeImplementsDisturb
  <2> QED
    BY <2>2, <2>3, <2>4, <2>5, <2>6, <2>7, <2>8, <2>9 DEF Next, Step
<1> QED
  BY <1>1, <1>2, CollectTypes, CollectInvariant, PTL DEF Spec, Delivery!Spec, DeliverySpec

=============================================================================
