------------------------------ MODULE MCSignIn ------------------------------
(* Two requests at a time, two tokens, a limit of two failures. *)
EXTENDS SignIn
=============================================================================
