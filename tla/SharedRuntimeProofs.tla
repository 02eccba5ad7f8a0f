------------------------ MODULE SharedRuntimeProofs ------------------------
(***************************************************************************)
(* What the abstract specification SharedRuntime promises, which FfiRuntime *)
(* implements (InstanceIsShared): for any isolates and handles.             *)
(***************************************************************************)
EXTENDS SharedRuntime, TLAPS

Typed ==
  /\ making \in [Isolates -> BOOLEAN]
  /\ runtime \in [Isolates -> Handles \cup {NoHandle}]

(* Nobody makes a runtime while there is one; no two isolates share one;    *)
(* and none that is shared has been given up.                               *)
Exclusive ==
  \A i \in Isolates :
    /\ making[i] => runtime[i] = NoHandle
    /\ runtime[i] # NoHandle =>
         /\ runtime[i] \notin gone
         /\ \A j \in Isolates : runtime[j] = runtime[i] => i = j

(* A runtime is given up only for good: it goes, and nobody has a new one   *)
(* in the same step.                                                        *)
GivenUpWhenGone ==
  /\ gone \subseteq gone'
  /\ \A i \in Isolates :
       runtime[i] # NoHandle /\ runtime'[i] # runtime[i] =>
         runtime'[i] = NoHandle /\ runtime[i] \in gone'

LEMMA InitInv == Init => Typed /\ Exclusive
  BY DEF Init, Typed, Exclusive

LEMMA StepInv == Typed /\ Exclusive /\ [Next]_vars => (Typed /\ Exclusive)'
<1> SUFFICES ASSUME Typed, Exclusive, [Next]_vars PROVE (Typed /\ Exclusive)'
  OBVIOUS
<1> USE DEF Typed, Exclusive
<1>1. ASSUME NEW i \in Isolates, Begin(i) \/ Abort(i) PROVE (Typed /\ Exclusive)'
  BY <1>1 DEF Begin, Abort
<1>2. ASSUME NEW i \in Isolates, Dispose(i) PROVE (Typed /\ Exclusive)'
  BY <1>2 DEF Dispose
<1>3. ASSUME NEW i \in Isolates, NEW h \in Handles, Publish(i, h)
      PROVE  (Typed /\ Exclusive)'
  BY <1>3 DEF Publish, Nowhere
<1>4. ASSUME NEW h \in Handles, Retire(h) PROVE (Typed /\ Exclusive)'
  BY <1>4 DEF Retire, Nowhere
<1>5. CASE UNCHANGED vars
  BY <1>5 DEF vars
<1> QED
  BY <1>1, <1>2, <1>3, <1>4, <1>5 DEF Next

(* The shared runtime of an isolate is made once, is that isolate's alone   *)
(* and is in use.                                                           *)
THEOREM ExclusiveCorrect == Spec => []Exclusive
  BY InitInv, StepInv, PTL DEF Spec

LEMMA GivenUpStep == Typed /\ Exclusive /\ [Next]_vars => [GivenUpWhenGone]_vars
<1> SUFFICES ASSUME Typed, Exclusive, Next PROVE GivenUpWhenGone
  OBVIOUS
<1> USE DEF Typed, GivenUpWhenGone
<1>1. ASSUME NEW i \in Isolates, Begin(i) \/ Abort(i) PROVE GivenUpWhenGone
  BY <1>1 DEF Begin, Abort
<1>2. ASSUME NEW i \in Isolates, Dispose(i) PROVE GivenUpWhenGone
  BY <1>2 DEF Dispose
<1>3. ASSUME NEW i \in Isolates, NEW h \in Handles, Publish(i, h)
      PROVE  GivenUpWhenGone
  BY <1>3 DEF Publish, Exclusive
<1>4. ASSUME NEW h \in Handles, Retire(h) PROVE GivenUpWhenGone
  BY <1>4 DEF Retire
<1> QED
  BY <1>1, <1>2, <1>3, <1>4 DEF Next

(* An isolate gives up its shared runtime only by disposing it.             *)
THEOREM GivenUpWhenGoneCorrect == Spec => [][GivenUpWhenGone]_vars
  BY InitInv, StepInv, GivenUpStep, PTL DEF Spec

(* What has been disposed or collected is never shared again.               *)
THEOREM GoneForGood ==
  ASSUME NEW h, h # NoHandle
  PROVE  Spec => [](h \in gone => [](h \in gone /\ Nowhere(h)))
<1> DEFINE Gone == h \in gone
           Apart == Nowhere(h)
<1>1. Exclusive /\ Gone => Apart
  BY DEF Exclusive, Nowhere
<1>2. Gone /\ [GivenUpWhenGone]_vars => Gone'
  BY DEF GivenUpWhenGone, vars
<1> HIDE DEF Gone, Apart
<1>3. Spec => [](Gone => [](Gone /\ Apart))
  BY ExclusiveCorrect, GivenUpWhenGoneCorrect, <1>1, <1>2, PTL
<1> QED
  BY <1>3 DEF Gone, Apart
=============================================================================
