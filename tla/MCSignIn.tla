------------------------------ MODULE MCSignIn ------------------------------
(* A small instance of SignIn for TLC: a program signs in an account that  *)
(* a tab's wallet may be about to use as well.                             *)
EXTENDS SignIn

CONSTANTS k1, k2, page, app

MCOwn == [c \in Programs |-> k1]
=============================================================================
