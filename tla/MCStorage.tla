------------------------------- MODULE MCStorage -------------------------------
(* Finite instances of Storage. *)
EXTENDS Storage

CONSTANTS w, h

OrderWH == <<w, h>>
===============================================================================
