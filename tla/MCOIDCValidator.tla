--------------------------- MODULE MCOIDCValidator ---------------------------
(* Model-checking instance of OIDCValidator.                               *)
EXTENDS OIDCValidator

=============================================================================
