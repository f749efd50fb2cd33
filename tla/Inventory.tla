------------------------------ MODULE Inventory ------------------------------
(***************************************************************************)
(* draft_inventory() and load_inventory() of inventory.py: which lines of  *)
(* a hosts file become Target Nodes, which names collide, and which        *)
(* Inventory collect starts with.  A hostname, a name and its portable     *)
(* form are values; what the code finds out about their spelling is given  *)
(* as constants.                                                           *)
(***************************************************************************)
EXTENDS Naturals, Sequences, SequencesExt, FiniteSetsExt

CONSTANTS
  Hosts,      \* second fields of hosts lines
  IsHostname, \* those _is_hostname accepts, which _is_ssh_address accepts too
  IsLocal,    \* those that conventionally name the machine itself
  CephLike,   \* those that hold "mon", "cp" or "cm"
  Label,      \* the part before the first dot
  Portable,   \* of a name: NFC, casefold, NFC
  NameOk,     \* the names _INVENTORY_NAME accepts
  Nobody      \* no name

ASSUME HostsShape ==
         /\ IsHostname \cup IsLocal \cup CephLike \subseteq Hosts
         /\ DOMAIN Label = Hosts /\ NameOk \subseteq DOMAIN Portable
         /\ Nobody \notin DOMAIN Portable
\* A label of a hostname is letters, digits and inner hyphens.
ASSUME LabelsAreNames == \A h \in IsHostname : Label[h] \in NameOk

\* A line: what its first field is, and its second field.
Lines == [address : {"ip", "loopback", "zoned", "none"}, host : Hosts]

Usable(line) == line.address = "ip" /\ line.host \in IsHostname \ IsLocal

\* hostnames after the first n lines: each host the first time it appears.
HostnamesAfter(lines) ==
  LET hs[n \in 0 .. Len(lines)] ==
        IF n = 0 THEN <<>>
        ELSE IF Usable(lines[n]) /\ ~Contains(hs[n - 1], lines[n].host)
               THEN Append(hs[n - 1], lines[n].host)
               ELSE hs[n - 1]
  IN  hs

Hostnames(lines) == HostnamesAfter(lines)[Len(lines)]

Entries(lines) ==
  LET hs == Hostnames(lines)
  IN  [i \in DOMAIN hs |-> [name |-> Label[hs[i]], address |-> hs[i]]]

\* Mutant: names are compared as they are spelt.
CollidesExactly(entries) ==
  \E i, j \in DOMAIN entries : i # j /\ entries[i].name = entries[j].name

\* There are problems to report: two names are one on some file system.
Collides(entries) ==
  \E i, j \in DOMAIN entries : i # j /\ Portable[entries[i].name] = Portable[entries[j].name]

\* The first entry whose hostname looks like a Ceph source.
CephSourceOf(entries) ==
  LET likely == {i \in DOMAIN entries : entries[i].address \in CephLike}
  IN  IF likely = {} THEN Nobody ELSE entries[Min(likely)].name

\* An Inventory file: its nodes, its Ceph source, whether anything else in it is
\* wrong, and whether it is all that was meant to be written.
Text(nodes, source) == [nodes |-> nodes, source |-> source, broken |-> FALSE, whole |-> TRUE]

Broken == [nodes |-> <<>>, source |-> Nobody, broken |-> TRUE, whole |-> FALSE]

Draft(lines) == Text(Entries(lines), CephSourceOf(Entries(lines)))

\* The first nodes, the last of them perhaps with only a part of its address,
\* which may be any value.
Cuts(nodes) ==
  {SubSeq(nodes, 1, n) : n \in 0 .. Len(nodes)} \cup
  {[SubSeq(nodes, 1, n) EXCEPT ![n].address = h] : n \in DOMAIN nodes, h \in Hosts}

\* What is there when the writing of a text breaks off: unreadable, only the first
\* nodes, or all of them and the Ceph source or a part of its name.
Parts(text) ==
  LET cut == [text EXCEPT !.whole = FALSE]
  IN  {Broken}
        \cup {[cut EXCEPT !.nodes = nodes, !.source = Nobody] : nodes \in Cuts(text.nodes)}
        \cup {[cut EXCEPT !.source = name] :
                 name \in IF text.source = Nobody THEN {} ELSE DOMAIN Portable}

\* load_inventory finds no problem.
Loads(text) ==
  /\ ~text.broken /\ text.nodes # <<>>
  /\ \A i \in DOMAIN text.nodes :
        text.nodes[i].name \in NameOk /\ text.nodes[i].address \in IsHostname
  /\ \A i, j \in DOMAIN text.nodes :
        Portable[text.nodes[i].name] = Portable[text.nodes[j].name] => i = j
  /\ text.source # Nobody => \E i \in DOMAIN text.nodes : text.nodes[i].name = text.source

=============================================================================
