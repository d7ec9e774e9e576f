-------------------------- MODULE MCSignInThrottle --------------------------
(* Instances of SignInThrottle for TLC.                                     *)
EXTENDS SignInThrottle
==============================================================================
