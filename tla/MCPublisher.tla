---------------------------- MODULE MCPublisher ----------------------------
(* The instance of Publisher for TLC, which needs no further definitions. *)
EXTENDS Publisher
=============================================================================
