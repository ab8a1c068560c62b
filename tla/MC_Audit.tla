------------------------------ MODULE MC_Audit ------------------------------
(* TLC instance of Audit: three test files.                                  *)
EXTENDS Audit

CONSTANTS n1, n2, n3

MCNames == {n1, n2, n3}
MCTestFiles == <<n1, n2, n3>>

====
