SPECIFICATION Spec
CONSTANTS
  Requests = {r1, r2}
  Addrs = {a1, a2}
  NoAddr = noaddr
  Configured <- MCConfigured
  Window = 2
  Lag = 1
  MaxTime = 4
SYMMETRY Symmetry
INVARIANTS WarnSpacing DenialJustified AnonymousOnlyOnMCP
PROPERTY DemotedAfterWarn
