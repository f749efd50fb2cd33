\* No generator: an Inventory of the operator's and any window.
SPECIFICATION Spec
CONSTANTS
  Hosts <- MCHosts
  IsHostname <- MCHosts
  IsLocal = {"localhost"}
  CephLike = {"mon1.a"}
  Label <- MCLabel
  Portable <- MCPortable
  NameOk = {"mon1", "osd1", "OSD1", "localhost"}
  Nobody = ""
  Generators = {}
  Forced = {}
  HostsTexts <- MCHostsTexts
  OwnTexts <- MCOwnTexts
  Units = {"m", "h", "d", "w"}
  KubectlUnits = {"s", "m", "h"}
  Absent = Absent
  Operator = Operator
  MaxEdits = 1
\* collect starts once.
CHECK_DEADLOCK FALSE
INVARIANTS
  WindowReachesPods
