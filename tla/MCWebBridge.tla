---------------------------- MODULE MCWebBridge ----------------------------
(* Symmetry for the TLC runs of WebBridge without temporal formulas.        *)
EXTENDS WebBridge

SymmetryAll == Permutations(Review) \cup Permutations(Thread)
=============================================================================
