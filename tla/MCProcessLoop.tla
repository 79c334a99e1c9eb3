------------------------------ MODULE MCProcessLoop ------------------------------
(* Small instances of the main loop: a command register holds a negative       *)
(* value, NaN, zero, an admissible flow or one beyond the range.              *)
EXTENDS ProcessLoop

MCRaw == {-1, NotANumber, 0, 1, 2}
=============================================================================
