---------------------------- MODULE AtomicCache ----------------------------
(***************************************************************************)
(* What lib/src/ffi/native_bundle_cache.dart promises of the cached file   *)
(* of a URL: whoever looks sees no file, or one complete body the server   *)
(* has sent.  It is replaced and removed in one step.                      *)
(***************************************************************************)
CONSTANTS Bodies,  \* response bodies
          Absent   \* there is no file

VARIABLES cell,    \* the body in the cached file, or Absent
          served   \* the bodies the server has sent so far

Init == cell = Absent /\ served = {}

Serve == \E b \in Bodies : served' = served \cup {b} /\ UNCHANGED cell
Remove == cell' = Absent /\ UNCHANGED served
Replace == cell' \in served /\ UNCHANGED served

Next == Serve \/ Remove \/ Replace

Spec == Init /\ [][Next]_<<cell, served>>
=============================================================================
