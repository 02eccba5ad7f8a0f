---------------------------- MODULE MCWebBundle ----------------------------
(* Instances of WebBundle for TLC. *)
EXTENDS WebBundle, TLC

CONSTANTS a1, a2, c1, c2, c3

(* Two activities of one program and one of another. *)
TwoApps == c1 :> a1 @@ c2 :> a1 @@ c3 :> a2
=============================================================================
