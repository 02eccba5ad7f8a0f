------------------------------ MODULE MCQtShim ------------------------------
(* Instances of QtShim for TLC. *)
EXTENDS QtShim

(* Conversions that settle at once, at the limit of the pump and just      *)
(* beyond it, and one that never settles.                                  *)
Around == {0, 1, PumpMax, PumpMax + 1}
=============================================================================
