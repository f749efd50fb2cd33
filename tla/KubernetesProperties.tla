----------------------- MODULE KubernetesProperties -----------------------
(***************************************************************************)
(* What run() and the operator may rely on when collect_kubernetes ends,   *)
(* and the inductive invariant from which it follows.                      *)
(***************************************************************************)
EXTENDS KubernetesCollection

\* The names of all capture directories scheduled so far.
Names == {Fixed(Catalog[i]) : i \in DOMAIN Catalog}
            \cup [name : {"log"}, number : 1 .. nextLog - 1]

\* Type invariant.
TypeOK ==
  /\ kpc \in WorkingLabels \cup {"returned", "interrupted"}
  /\ nextLog \in Nat \ {0}
  /\ pending \in Seq(Names) /\ done \subseteq Names
  /\ leader \in {"none", "running", "zero", "nonzero"}
  /\ cause \in {"none", "timeout", "interrupt"}
  /\ exit \in {"none", "succeeded", "failed"}
  /\ {others, residue, told, admitted, problems} \subseteq BOOLEAN
  /\ keystrokes \in 0 .. MaxKeystrokes
  /\ window \subseteq Unguarded

\* Whatever two controls name, and however the list grows, no probe's capture
\* directory exists before its turn: a second mkdir would end the collection.
NamesFresh ==
  /\ \A i, j \in DOMAIN pending : pending[i] = pending[j] => i = j
  /\ kpc \in {"prepare", "next"} => \A i \in DOMAIN pending : pending[i] \notin done

\* While a group that was to be terminated has a member left, nothing it may
\* still be writing to is promoted: neither now nor later.
SurvivorStopsPromotion ==
  admitted /\ cause # "none" => ~GroupAlive

\* A keystroke is never taken for an ordinary failure: whatever errors follow
\* it, the call does not return, so run() delivers nothing.
InterruptNotSwallowed == keystrokes > 0 => kpc # "returned"

\* An interrupt that leaves a probe or the group it was terminating alive says
\* so, unless a keystroke struck where no handler was listening.
InterruptLeavesNoGroup ==
  /\ kpc = "interrupted" /\ GroupAlive
  /\ leader = "running" \/ cause # "none"
  => told \/ window # {}

\* Without a problem, the whole list was worked off and promoted.
SilenceMeansComplete ==
  kpc = "returned" /\ ~problems => admitted /\ pending = <<>> /\ done = Names

\* The collection ends although no process need ever end.
CollectionEnds == <>(kpc \in {"returned", "interrupted"})

Source == INSTANCE EvidenceSource WITH
            phase <- IF kpc \in WorkingLabels THEN "working" ELSE kpc,
            contribution <- admitted,
            problem <- IF kpc = "returned" THEN problems ELSE FALSE

\* collect_kubernetes is an evidence source as run() takes it.
IsEvidenceSource == Source!Spec

-----------------------------------------------------------------------------
(* The inductive invariant. *)

WithProbe == Terminating \cup {"started", "wait", "close", "record"}

\* What is known of the current probe's group at each label.
GroupInv ==
  /\ kpc \in {"prepare", "next", "tidy"} => leader # "running"
  /\ kpc \in {"prepare", "next", "started", "wait", "tidy"} => ~residue
  /\ kpc \in {"started", "wait"} => cause = "none" /\ exit = "none"
  /\ kpc \in Terminating => cause # "none"
  /\ residue \/ kpc \in Terminating => exit # "succeeded"
  /\ exit = "succeeded" => cause = "none"
  /\ kpc \in {"close", "record"} /\ ~residue => leader # "running"
  /\ kpc \in {"prepare", "next", "close", "record", "tidy"} /\ cause # "none" /\ ~residue =>
        ~GroupAlive

\* An interrupt is on its way out from the first keystroke on.
KeystrokeInv ==
  /\ cause = "interrupt" => kpc \in Terminating \cup {"close", "interrupted"}
  /\ keystrokes > 0 => kpc = "interrupted" \/ cause = "interrupt"
  /\ InterruptLeavesNoGroup

\* The list holds every name that has no capture yet, each once.
ListInv ==
  /\ \A i, j \in DOMAIN pending : pending[i] = pending[j] => i = j
  /\ \A i \in DOMAIN pending :
        pending[i] \in done =>
           i = 1 /\ kpc \in WithProbe \cup {"returned", "interrupted"}
  /\ \A name \in Names :
        name \in done \/ \E i \in DOMAIN pending : pending[i] = name
  /\ kpc \in WithProbe => pending # <<>> /\ Probe \in done

\* What was promoted, and when.
PromotionInv ==
  /\ admitted => kpc \in {"tidy", "returned", "interrupted"} /\ pending = <<>>
  /\ kpc = "tidy" => admitted
  /\ kpc = "returned" /\ ~problems => admitted
  /\ SurvivorStopsPromotion

KubernetesInv == TypeOK /\ GroupInv /\ KeystrokeInv /\ ListInv /\ PromotionInv

=============================================================================
