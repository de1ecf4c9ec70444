------------------------------ MODULE MCFleet ------------------------------
(* Model-checking instances of Fleet.  Workers and names are interchangeable, *)
(* but no symmetry is declared: the run checks liveness.                      *)
EXTENDS Fleet
=============================================================================
