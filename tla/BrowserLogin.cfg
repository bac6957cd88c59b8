SPECIFICATION Spec
CONSTANTS
  Browsers = {b1, b2}
  NoBrowser = nobrowser
  Logins = {l1, l2}
  NoLogin = nologin
  Callbacks = {h1, h2}
  NonceTtl = 2
  Lag = 1
  SessionAge = 1
  MaxTime = 5
SYMMETRY Symmetry
INVARIANTS SessionOwned ReplaySpacing
CHECK_DEADLOCK FALSE
