------------------------------ MODULE MCKeyStore ------------------------------
(* Model-checking instances of KeyStore.                                   *)
EXTENDS KeyStore

=============================================================================
