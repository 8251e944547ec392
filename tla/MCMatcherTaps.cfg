CONSTANTS
  d1 = d1
  k = k
  ralt = ralt
  caps = caps
  appA = appA
  RALT = RALT
  ALT = ALT
  SHIFT = SHIFT
  NoKey = NoKey
  NoApp = NoApp
  NoFsms = NoFsms
  Devices = {d1}
  Keys = {k, ralt, caps}
  ModKeys = {ralt, caps}
  Bits = {RALT, ALT, SHIFT}
  Apps = {appA}
  Foreign = {SHIFT}
  ModifierBit <- MCModifierBit
  GenericBit <- MCGenericBit
  EventMods <- MCEventMods
  RuleSets <- MCRuleSets
  MaxCount = 3
  MaxGeneration = 0
  MaxNow = 1
  MaxLog = 5
SPECIFICATION TapsSpec
INVARIANTS
  TapsMatchHistory
CHECK_DEADLOCK FALSE
