---------------------------- MODULE MCFfiRuntime ----------------------------
(* Instances of FfiRuntime for TLC. *)
EXTENDS FfiRuntime, TLC

CONSTANTS c1, c2, c3, i1, i2

(* Three callers of one isolate; two of one isolate and one of another. *)
OneIsolate == c1 :> i1 @@ c2 :> i1 @@ c3 :> i1
TwoIsolates == c1 :> i1 @@ c2 :> i1 @@ c3 :> i2
=============================================================================
