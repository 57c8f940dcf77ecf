------------------------------- MODULE MCSession -------------------------------
(* Instances of Session for TLC. *)
EXTENDS Session

CONSTANTS s1, s2, s3
=============================================================================
