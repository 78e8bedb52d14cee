------------------------------ MODULE MCPymodbus ------------------------------
(* Pymodbus for TLC: the addresses of handles are interchangeable, and the checks *)
(* are invariants and properties of single steps.                                *)
EXTENDS Pymodbus, TLC

HandleSymmetry == Permutations(Handles)
==============================================================================
