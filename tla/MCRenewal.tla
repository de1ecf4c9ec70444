----------------------------- MODULE MCRenewal -----------------------------
(* Renewal for TLC.  The boxes are not symmetric: one of them is the        *)
(* authority.                                                               *)
EXTENDS Renewal
=============================================================================
