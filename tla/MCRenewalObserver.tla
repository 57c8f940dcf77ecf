--------------------------- MODULE MCRenewalObserver ---------------------------
(* The instance of RenewalObserver for TLC, which needs no further definitions. *)
EXTENDS RenewalObserver
=============================================================================
