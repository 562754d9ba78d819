--------------------------- MODULE MCSpeculativeTurn ---------------------------
(* Finite instances of SpeculativeTurn: the words are interchangeable, the   *)
(* end of stream is not.                                                     *)
EXTENDS SpeculativeTurn, TLC

WordSymmetry == Permutations(Token \ {EOS})
===============================================================================
