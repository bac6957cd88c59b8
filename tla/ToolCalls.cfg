SPECIFICATION Spec
CONSTANTS
  Calls = {c1, c2}
  Users = {u1}
  plain = plain  big = big  secret = secret  huge = huge
  Args <- MCArgs
  NoteArgs <- MCNoteArgs
  Secret <- MCSecret
  Huge <- MCHuge
  NoArgs = noargs
  Decode <- MCDecode
  Message = message
  Redacted = redacted
  Null = null
  Notes = {n1, n2}
  MaxNotes = 1
  Burst = 1
  Capture = TRUE
SYMMETRY CallSymmetry
INVARIANTS TypeOK NoSecretStored ReplaySameArgs OneEventPerCall RowMatchesAnswer TablesAgree TokensForValidReplays
CHECK_DEADLOCK FALSE
