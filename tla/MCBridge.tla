------------------------------ MODULE MCBridge -------------------------------
(* Small instances of Bridge for TLC.                                      *)
EXTENDS Bridge, TLC

(* Two shell inputs and two paths are interchangeable.                     *)
Interchangeable == Permutations(Texts) \cup Permutations(Paths)
==============================================================================
