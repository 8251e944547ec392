SPECIFICATION ProxySpec
CONSTANTS
  k1 = k1
  k2 = k2
  Keys = {k1, k2}
  NoKey = NoKey
  Packets <- MCPackets
  Capacity = 4
  Flushes = {FALSE}
INVARIANTS
    ProxyInv
    Converged
