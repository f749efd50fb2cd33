\* Two generators, one of them with --force; two changes by the operator.
SPECIFICATION Spec
CONSTANTS
  Hosts <- MCHosts
  IsHostname <- MCHosts
  IsLocal = {"localhost"}
  CephLike = {"mon1.a"}
  Label <- MCLabel
  Portable <- MCPortable
  NameOk = {"mon1", "osd1", "OSD1", "localhost"}
  Nobody = ""
  Generators = {g1, g2}
  Forced = {g2}
  HostsTexts <- MCHostsTexts
  OwnTexts <- MCOwnTexts
  Units = {"s", "h", "d"}
  KubectlUnits = {"s", "m", "h"}
  Absent = Absent
  Operator = Operator
  MaxEdits = 2
\* Generators end.
CHECK_DEADLOCK FALSE
INVARIANTS
  ExitZeroIsUsable
PROPERTIES
  NothingReplacedWithoutForce
