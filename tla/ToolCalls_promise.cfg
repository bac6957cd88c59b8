SPECIFICATION Spec
CONSTANTS
  Calls = {c1, c2}
  Users = {u1}
  plain = plain  big = big  secret = secret  huge = huge
  Args <- MCArgs
  NoteArgs <- MCNoteArgs
  Secret <- MCSecret
  Huge <- MCHuge
  NoArgs = noargs
  Decode <- MCDecode
  Message = message
  Redacted = redacted
  Null = null
  Notes = {}
  MaxNotes = 1
  Burst = 1
  Capture = TRUE
INVARIANT PromisedRowExists
CHECK_DEADLOCK FALSE
