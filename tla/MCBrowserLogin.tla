---------------------------- MODULE MCBrowserLogin ----------------------------
(* Model-checking instance of BrowserLogin.                                *)
EXTENDS BrowserLogin, TLC

\* Callbacks and browsers are interchangeable, and so are logins.
Symmetry == Permutations(Callbacks) \cup Permutations(Browsers) \cup Permutations(Logins)

===============================================================================
