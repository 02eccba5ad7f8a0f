--------------------------- MODULE MCBundleCache ---------------------------
(* Instances of BundleCache for TLC. *)
EXTENDS BundleCache, TLC

CONSTANTS p1, p2, t1, t2

(* Two loaders that compute different names: another process, or another   *)
(* microsecond.                                                            *)
OwnName == p1 :> t1 @@ p2 :> t2

(* Two isolates of one process in the same microsecond. *)
SameName == p1 :> t1 @@ p2 :> t1

(* All integrity arguments. *)
AnyToken == Bodies \cup {NoIntegrity, BadToken}

Symmetry == Permutations(Files)
=============================================================================
