---------------------------- MODULE MCBundleDirs ----------------------------
(* Instances of BundleDirs: b lies below a.                                  *)
EXTENDS BundleDirs

CONSTANTS a, b

Below == [d \in Dirs |-> IF d = a THEN {b} ELSE {}]
=============================================================================
