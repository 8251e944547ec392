CONSTANTS
  d1 = d1
  d2 = d2
  k = k
  alt = alt
  appA = appA
  RALT = RALT
  ALT = ALT
  NoKey = NoKey
  NoApp = NoApp
  NoFsms = NoFsms
  Devices = {d1, d2}
  Keys = {k, alt}
  ModKeys = {alt}
  Bits = {RALT, ALT}
  Apps = {appA}
  ModifierBit <- MCModifierBit
  GenericBit <- MCGenericBit
  EventMods <- MCEventMods
  RuleSets <- MCRuleSets
  MaxCount = 1
  MaxGeneration = 2
  MaxNow = 1
SPECIFICATION Spec
INVARIANT IInv
PROPERTIES
    ConsumedUntilRelease
    DeviceIsolation
SYMMETRY Symmetric
