--------------------------- MODULE SharedRuntime ---------------------------
(***************************************************************************)
(* What QtFfiRuntime.instance() (lib/src/ffi/ffi_runtime.dart) promises of *)
(* the shared runtime of an isolate: nobody has it, one invocation is      *)
(* making it, or everybody has the same one, which is in use nowhere else  *)
(* and is given up only by disposing it.                                   *)
(***************************************************************************)
CONSTANTS Isolates, Handles,
          NoHandle

VARIABLES making,   \* an invocation is making the isolate's runtime
          runtime,  \* [Isolates -> Handles or NoHandle]: the one it has
          gone      \* runtimes disposed or collected, shared or not

vars == <<making, runtime, gone>>

Init ==
  /\ making = [i \in Isolates |-> FALSE]
  /\ runtime = [i \in Isolates |-> NoHandle]
  /\ gone = {}

Nowhere(h) == \A i \in Isolates : runtime[i] # h

Begin(i) ==
  /\ ~making[i] /\ runtime[i] = NoHandle
  /\ making' = [making EXCEPT ![i] = TRUE]
  /\ UNCHANGED <<runtime, gone>>

Abort(i) ==
  /\ making[i]
  /\ making' = [making EXCEPT ![i] = FALSE]
  /\ UNCHANGED <<runtime, gone>>

Publish(i, h) ==
  /\ making[i] /\ h \notin gone /\ Nowhere(h)
  /\ making' = [making EXCEPT ![i] = FALSE]
  /\ runtime' = [runtime EXCEPT ![i] = h]
  /\ UNCHANGED gone

Dispose(i) ==
  /\ runtime[i] # NoHandle
  /\ runtime' = [runtime EXCEPT ![i] = NoHandle]
  /\ gone' = gone \cup {runtime[i]}
  /\ UNCHANGED making

(* A runtime that is not a shared one. *)
Retire(h) ==
  /\ Nowhere(h)
  /\ gone' = gone \cup {h}
  /\ UNCHANGED <<making, runtime>>

Next ==
  \/ \E i \in Isolates : Begin(i) \/ Abort(i) \/ Dispose(i)
  \/ \E i \in Isolates, h \in Handles : Publish(i, h)
  \/ \E h \in Handles : Retire(h)

Spec == Init /\ [][Next]_vars
=============================================================================
