----------------------------- MODULE MCStorage ------------------------------
(* A bounded instance of Storage for TLC: two short lines and a long one.     *)
EXTENDS Storage

CONSTANTS e1, e2, e3
============================================================================
