SPECIFICATION CfgSpec
CONSTANTS
  n1 = n1
  n2 = n2
  warm = warm
  cool = cool
  odd = odd
  None = None
  Nodes = {n1, n2}
  Settings = {warm, cool, odd}
  Refused = {odd}
  RevMod = 8
  Slices = 2
  RingCap = 4
  MaxMisses = 2
  MaxLevel = 1
  Scenarios <- Scens
PROPERTIES Agree HandoverEnds
CHECK_DEADLOCK FALSE
