---------------------------- MODULE MCAdmission ----------------------------
(* Archives for TLC: the required directories, one of them possibly missing, *)
(* with up to two of the members below in any order, before or after them;   *)
(* and a few archives whose file or tar stream does not end where it should. *)
EXTENDS ArchiveAdmission, TLC

Dir(p)   == [path |-> p, kind |-> "dir"]
File(p)  == [path |-> p, kind |-> "file"]
Other(p) == [path |-> p, kind |-> "other"]

MCNames == {"node", "ceph", "probes", "files", "nodes", "inventory.ini",
            "root", "Probes", "x", "..", "alpha", "beta"}

\* Probes and probes are one portable name.
MCFold == [s \in MCNames |-> IF s = "Probes" THEN "probes" ELSE s]
MCExact == [s \in MCNames |-> s]

Required == << Dir(<<"node">>), Dir(<<"node", "probes">>),
               Dir(<<"node", "files">>) >>

\* The required directories, all of them or all but one.
Bases == {Required} \cup
         { <<Required[2], Required[3]>>, <<Required[1], Required[3]>>,
           <<Required[1], Required[2]>> }

Extras == { Dir(<<"ceph">>), Dir(<<"ceph", "probes">>), File(<<"ceph">>),
            Dir(<<"ceph", "Probes">>), Dir(<<"x">>),
            Dir(<<"node", "x">>), File(<<"node", "x">>),
            File(<<"node", "x", "x">>), File(<<"node", "files", "..">>),
            File(<<"node", "Probes">>), Dir(<<"node", "probes">>),
            Other(<<"node", "files", "x">>) }

UpToTwo == {<<>>} \cup {<<a>> : a \in Extras} \cup (Extras \X Extras)

Zeros == <<"zero", "zero">>

Sound(ms) == [members |-> ms, size |-> 3, gzip |-> 3, readable |-> TRUE,
              aligned |-> TRUE, tail |-> Zeros]

\* Files cut short, or with bytes after the gzip member, at every position of
\* a chunk; streams that do not inflate; tar streams that end badly.
Frames ==
    LET whole == Sound(Required) IN
    {[whole EXCEPT !.size = s, !.gzip = g] : s \in 0 .. 5, g \in 1 .. 4}
    \cup {[whole EXCEPT !.readable = FALSE], [whole EXCEPT !.aligned = FALSE]}
    \cup {[whole EXCEPT !.tail = t] :
            t \in {<<>>, <<"zero">>, <<"data">>, <<"zero", "data">>,
                   <<"zero", "zero", "zero">>, <<"zero", "zero", "data">>}}

\* Whatever one Target Node may send, the Ceph source's or not.
AnyArchive == UNION {Frames,
              {Sound(e \o b) : e \in UpToTwo, b \in Bases},
              {Sound(b \o e) : e \in UpToTwo, b \in Bases}}

\* What the other may send in the same collection.
OneOfFew ==
    {Sound(Required \o e) :
       e \in { <<>>, <<Dir(<<"ceph">>), Dir(<<"ceph", "probes">>)>>,
               <<File(<<"node", "x">>)>>, <<File(<<"node", "Probes">>)>>}}

MCArchives == [n \in Nodes |-> IF n = "alpha" THEN AnyArchive ELSE OneOfFew]

=============================================================================
