----------------------------- MODULE MCToolCalls -----------------------------
(* Model-checking instance of ToolCalls: interchangeable calls and users.  *)
EXTENDS ToolCalls, TLC

CONSTANTS plain, big, secret, huge   \* the arguments that are not empty

MCArgs   == {plain, big, secret, huge, NoArgs}
MCDecode == [a \in MCArgs |-> IF a = big THEN plain ELSE a]   \* a number is rounded
MCSecret == {secret}
MCHuge   == {huge}
MCNoteArgs == {secret}   \* to be redacted

CallSymmetry == Permutations(Calls) \cup Permutations(Users) \cup Permutations(Notes)

=============================================================================
