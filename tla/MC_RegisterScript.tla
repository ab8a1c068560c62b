------------------------- MODULE MC_RegisterScript -------------------------
(* TLC instance of RegisterScript; the model has no constants.             *)
EXTENDS RegisterScript

====
