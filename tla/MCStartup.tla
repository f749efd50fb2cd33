------------------------------ MODULE MCStartup ------------------------------
(***************************************************************************)
(* Four hosts, two of which have one portable name; drafts with and        *)
(* without a collision, without a node, and one from lines left out.       *)
(***************************************************************************)
EXTENDS Startup

MCHosts   == {"mon1.a", "osd1.a", "OSD1.b", "localhost"}
MCLabel   == [h \in MCHosts |-> CASE h = "mon1.a" -> "mon1" [] h = "osd1.a" -> "osd1"
                                  [] h = "OSD1.b" -> "OSD1" [] OTHER -> "localhost"]
MCPortable == [n \in {"mon1", "osd1", "OSD1", "localhost"} |-> IF n = "OSD1" THEN "osd1" ELSE n]

Line(address, host) == [address |-> address, host |-> host]
Good(host) == Line("ip", host)

MCHostsTexts ==
  {<<>>,
   <<Line("loopback", "localhost"), Good("osd1.a"), Good("mon1.a"), Good("osd1.a")>>,
   <<Good("osd1.a"), Good("OSD1.b")>>,
   <<Line("zoned", "osd1.a"), Good("localhost"), Good("OSD1.b")>>}
MCOwnTexts == {Text(<<[name |-> "mon1", address |-> "mon1.a"]>>, "mon1")}

\* What load_inventory accepts is what the other modules assume of the nodes of an
\* Inventory: names that differ on every file system, and a Ceph source among them.
ASSUME \A lines \in MCHostsTexts : \A text \in Parts(Draft(lines)) \cup {Draft(lines)} :
          Loads(text) =>
             /\ ~Collides(text.nodes)
             /\ text.source \in {text.nodes[i].name : i \in DOMAIN text.nodes} \cup {Nobody}

=============================================================================
