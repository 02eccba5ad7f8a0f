-------------------------- MODULE WebBundleProofs --------------------------
(***************************************************************************)
(* Proofs about WebBundle, for any programs and callers of a page.         *)
(*                                                                         *)
(* The invariant says what the state of a load tells about the page: the   *)
(* listeners have heard what became of the script element, a load that     *)
(* ended well has seen qtConvert, and callers wait only for a load that is *)
(* under way.                                                              *)
(***************************************************************************)
EXTENDS WebBundle, TLAPS

(* A load waits as long as its future is pending. *)
LoadInv ==
  \A a \in Apps :
    /\ loadFuture[a] = "pending" <=> loader[a] # "none"
    /\ loadFuture[a] = "none" => completer[a] = "open"
    /\ loadFuture[a] = "loaded" => qtConvert

(* The script element is there from its injection on, and only once. *)
TagInv ==
  /\ tags \in {0, 1}
  /\ tags = 0 <=> tag = "absent"
  /\ \A a \in Apps : loader[a] # "none" => tag # "absent"

(* What a load that waits has heard is what became of the element. *)
HeardInv ==
  \A a \in Apps : loader[a] # "none" =>
    /\ completer[a] = "done" => tag = "loaded"
    /\ completer[a] = "error" => tag = "errored"
    /\ loader[a] = "injected" /\ completer[a] = "open" => tag = "loading"

CallInv ==
  \A c \in Callers :
    /\ call[c] = "loading" => loadFuture[AppOf[c]] = "pending"
    /\ call[c] = "converting" => qtConvert

IInv == TypeOK /\ LoadInv /\ TagInv /\ HeardInv /\ CallInv

LEMMA InitInv == Init => IInv
<1> SUFFICES ASSUME Init PROVE IInv
  OBVIOUS
<1>1. TypeOK
  BY DEF Init, TypeOK, Ended
<1>2. LoadInv /\ TagInv /\ HeardInv /\ CallInv
  BY DEF Init, LoadInv, TagInv, HeardInv, CallInv
<1> QED
  BY <1>1, <1>2 DEF IInv

(* A call changes nothing of a load, but may start the one of its program. *)
LEMMA GenerateStep ==
  ASSUME IInv, NEW c \in Callers, Generate(c) PROVE IInv'
<1> DEFINE a == AppOf[c]
<1> USE WebAssumption DEF IInv, page
<1>0. a \in Apps
  OBVIOUS
(* Only the call itself changes, and the load it refers to is as it says. *)
<1>1. ASSUME NEW v \in Ended \cup {"loading", "converting"},
             call' = [call EXCEPT ![c] = v],
             v = "loading" => loadFuture[a] = "pending",
             v = "converting" => qtConvert,
             UNCHANGED <<page, loadFuture, loader, completer>>
      PROVE  IInv'
  <2>1. TypeOK'
    BY <1>1 DEF TypeOK
  <2>2. LoadInv' /\ TagInv' /\ HeardInv'
    BY <1>1 DEF LoadInv, TagInv, HeardInv
  <2>3. CallInv'
    BY <1>1 DEF TypeOK, CallInv
  <2> QED
    BY <2>1, <2>2, <2>3
(* Its program's load ends at once. *)
<1>2. ASSUME NEW how \in {"loaded"} \cup LoadFailures, LoadNow(c, how),
             how = "loaded" => qtConvert
      PROVE  IInv'
  <2>1. TypeOK'
    BY <1>2 DEF LoadNow, TypeOK, Resumed, Ended
  <2>2. loadFuture[a] = "none" /\ loadFuture' = [loadFuture EXCEPT ![a] = how]
    BY <1>2 DEF LoadNow
  <2>3. how \notin {"none", "pending"}
    BY DEF LoadFailures
  <2>4. LoadInv' /\ TagInv' /\ HeardInv'
    BY <1>0, <1>2, <2>2, <2>3 DEF LoadNow, TypeOK, LoadInv, TagInv, HeardInv
  <2>5. CallInv'
    BY <1>0, <1>2, <2>2 DEF LoadNow, TypeOK, CallInv, Resumed
  <2> QED
    BY <2>1, <2>4, <2>5
(* It begins, and waits for the script element, which is there by then. *)
<1>3. ASSUME NEW where \in {"injected", "waiting"}, LoadLater(c, where),
             tags' = 1, tag' \in {"loading", "loaded", "errored"},
             where = "injected" => tag' = "loading",
             tag' # tag => tag = "absent"
      PROVE  IInv'
  <2>1. /\ loadFuture[a] = "none" /\ completer[a] = "open" /\ loader[a] = "none"
        /\ UNCHANGED <<qtConvert, completer>>
    BY <1>0, <1>3 DEF LoadLater, LoadInv, TypeOK
  <2>2. \A b \in Apps : /\ loadFuture'[b] = IF b = a THEN "pending" ELSE loadFuture[b]
                        /\ loader'[b] = IF b = a THEN where ELSE loader[b]
    BY <1>0, <1>3 DEF LoadLater, TypeOK
  <2>3. \A d \in Callers : call'[d] = IF d = c THEN "loading" ELSE call[d]
    BY <1>3 DEF LoadLater, TypeOK
  <2>4. TypeOK'
    <3>1. tags' \in Nat
      BY <1>3
    <3> QED
      BY <1>0, <1>3, <2>1, <3>1 DEF LoadLater, TypeOK
  <2>5. LoadInv'
    BY <2>1, <2>2 DEF LoadInv
  <2>6. TagInv'
    BY <1>3 DEF TagInv
  <2>7. ASSUME NEW b \in Apps, loader[b] # "none" PROVE tag' = tag
    BY <1>3, <2>7 DEF TagInv
  <2>8. HeardInv'
    BY <1>3, <2>1, <2>2, <2>7 DEF HeardInv
  <2>9. CallInv'
    BY <1>0, <2>1, <2>2, <2>3 DEF CallInv
  <2> QED
    BY <2>4, <2>5, <2>6, <2>8, <2>9
<1>4. CASE Unsupported(c)
  <2>1. "unsupported" \in Ended \cup {"loading", "converting"}
    BY DEF Ended
  <2>2. /\ call' = [call EXCEPT ![c] = "unsupported"]
        /\ UNCHANGED <<page, loadFuture, loader, completer>>
    BY <1>4 DEF Unsupported
  <2> HIDE DEF IInv, page
  <2> QED
    BY <1>1, <2>1, <2>2
<1>5. CASE Join(c)
  <2> DEFINE v == IF loadFuture[a] = "pending" THEN "loading" ELSE Resumed(loadFuture[a])
  <2>1. v \in Ended \cup {"loading", "converting"}
    BY DEF Resumed, Ended
  <2>2. v = "loading" => loadFuture[a] = "pending"
    BY DEF Resumed
  <2>3. v = "converting" => loadFuture[a] = "loaded"
    BY DEF Resumed
  <2>4. v = "converting" => qtConvert
    BY <1>0, <2>3 DEF LoadInv
  <2> QED
    BY <1>1, <1>5, <2>1, <2>2, <2>4 DEF Join
<1>6. CASE LoadDefined(c)
  BY <1>2, <1>6 DEF LoadDefined
<1>7. CASE InjectFails(c)
  BY <1>2, <1>7 DEF InjectFails, LoadFailures
<1>8. CASE Inject(c)
  <2>1. tag = "absent"
    BY <1>8 DEF Inject, TagInv
  <2> QED
    BY <1>3, <1>8, <2>1 DEF Inject
<1>9. CASE WaitForExisting(c)
  <2>1. tags = 1 /\ tag \in {"loading", "loaded", "errored"}
    BY <1>9 DEF WaitForExisting, TagInv, TypeOK
  <2> QED
    BY <1>3, <1>9, <2>1 DEF WaitForExisting
<1> QED
  BY <1>4, <1>5, <1>6, <1>7, <1>8, <1>9 DEF Generate

(* The end of a load resumes the callers of its program and no others. *)
LEMMA SettleStep ==
  ASSUME IInv, NEW a \in Apps, loader[a] # "none",
         NEW how \in {"loaded"} \cup LoadFailures,
         Settle(a, how), how = "loaded" => qtConvert
  PROVE  IInv'
<1> USE WebAssumption DEF IInv, TypeOK, Settle, page, Ended, LoadFailures
<1>1. \A c \in Callers :
        /\ call'[c] \in Ended \cup {"loading", "converting"}
        /\ call'[c] = "loading" => call[c] = "loading" /\ AppOf[c] # a
        /\ call'[c] = "converting" => call[c] = "converting" \/ how = "loaded"
  BY DEF End, Resumed
<1>2. TypeOK'
  BY <1>1 DEF End
<1>3. LoadInv' /\ TagInv' /\ HeardInv'
  BY DEF LoadInv, TagInv, HeardInv
<1>4. CallInv'
  BY <1>1 DEF CallInv
<1> QED
  BY <1>2, <1>3, <1>4

LEMMA StepInv == IInv /\ [Next]_vars => IInv'
<1> SUFFICES ASSUME IInv, [Next]_vars PROVE IInv'
  OBVIOUS
<1>1. ASSUME NEW c \in Callers, Generate(c) PROVE IInv'
  BY <1>1, GenerateStep
<1>2. ASSUME NEW c \in Callers, Convert(c) PROVE IInv'
  <2>1. PICK how \in {"code", "rejected"} : call' = [call EXCEPT ![c] = how]
    BY <1>2 DEF Convert
  <2>2. TypeOK' /\ LoadInv' /\ TagInv' /\ HeardInv'
    BY <1>2, <2>1 DEF IInv, TypeOK, LoadInv, TagInv, HeardInv, Convert, page, Ended
  <2>3. CallInv'
    BY <1>2, <2>1 DEF IInv, TypeOK, CallInv, Convert, page
  <2> QED
    BY <2>2, <2>3 DEF IInv
<1>3. ASSUME NEW a \in Apps, AdvanceLoader(a) PROVE IInv'
  <2>1. CASE ListenerSettles(a)
    BY <2>1, SettleStep DEF ListenerSettles, Verdict, LoadFailures
  <2>2. CASE InjectTimesOut(a)
    BY <2>2, SettleStep DEF InjectTimesOut, LoadFailures
  <2>3. CASE PollSeesQtConvert(a)
    BY <2>3, SettleStep DEF PollSeesQtConvert
  <2>4. CASE PollTimesOut(a)
    BY <2>4, SettleStep DEF PollTimesOut, LoadFailures
  <2> QED
    BY <1>3, <2>1, <2>2, <2>3, <2>4 DEF AdvanceLoader
<1>4. CASE ScriptLoads
  BY <1>4 DEF IInv, TypeOK, LoadInv, TagInv, HeardInv, CallInv, ScriptLoads, Notify
<1>5. CASE ScriptErrors
  BY <1>5 DEF IInv, TypeOK, LoadInv, TagInv, HeardInv, CallInv, ScriptErrors, Notify
<1>6. CASE OtherScriptDefines
  BY <1>6 DEF IInv, TypeOK, LoadInv, TagInv, HeardInv, CallInv, OtherScriptDefines
<1>7. CASE UNCHANGED vars
  BY <1>7 DEF IInv, TypeOK, LoadInv, TagInv, HeardInv, CallInv, vars
<1> QED
  BY <1>1, <1>2, <1>3, <1>4, <1>5, <1>6, <1>7 DEF Next

(* The invariant holds in every reachable state. *)
THEOREM InvariantCorrect == Spec => []IInv
  BY InitInv, StepInv, PTL DEF Spec

(* The variables of the web backend keep their types. *)
THEOREM TypeCorrect == Spec => []TypeOK
<1>1. IInv => TypeOK
  BY DEF IInv
<1> QED
  BY <1>1, InvariantCorrect, PTL

(* The programs of a page inject the script at most once between them. *)
THEOREM OneTagCorrect == Spec => []OneTag
<1>1. IInv => OneTag
  BY DEF IInv, TagInv, OneTag
<1> QED
  BY <1>1, InvariantCorrect, PTL

(* No call gets to the conversion without a function to call. *)
THEOREM ConvertsDefinedCorrect == Spec => []ConvertsDefined
<1>1. IInv => ConvertsDefined
  BY DEF IInv, CallInv, ConvertsDefined
<1> QED
  BY <1>1, InvariantCorrect, PTL

(* A call disturbs no load that is under way. *)
LEMMA GenerateKeepsLoad ==
  ASSUME TypeOK, NEW c \in Callers, Generate(c),
         NEW a \in Apps, loadFuture[a] = "pending"
  PROVE  loadFuture'[a] = "pending"
<1>1. CASE Unsupported(c) \/ Join(c)
  BY <1>1 DEF Unsupported, Join
<1>2. CASE LoadDefined(c) \/ InjectFails(c)
  BY <1>2, WebAssumption DEF LoadDefined, InjectFails, LoadNow, TypeOK
<1>3. CASE Inject(c) \/ WaitForExisting(c)
  BY <1>3, WebAssumption DEF Inject, WaitForExisting, LoadLater, TypeOK
<1> QED
  BY <1>1, <1>2, <1>3 DEF Generate

(* A pending load ends only by one of the ways of _loadBundle, *)
(* each of which has checked what its outcome says.            *)
LEMMA SettleReason == IInv /\ [Next]_vars => FailsForItsReason
<1> SUFFICES ASSUME IInv, [Next]_vars, NEW a \in Apps, loadFuture[a] = "pending"
             PROVE  CASE loadFuture'[a] = "corrupt" -> tag = "loaded" /\ ~qtConvert
                      [] loadFuture'[a] = "script error" -> tag = "errored"
                      [] loadFuture'[a] = "timeout" ->
                           IF loader[a] = "injected" THEN tag = "loading"
                                                     ELSE ~qtConvert
                      [] OTHER -> TRUE
  BY DEF FailsForItsReason
<1> USE DEF IInv, TypeOK, LoadInv, HeardInv
<1>1. CASE loadFuture'[a] = "pending"
  BY <1>1
<1>2. CASE loadFuture'[a] # "pending"
  <2>1. AdvanceLoader(a)
    <3>1. ASSUME NEW c \in Callers, Generate(c) PROVE FALSE
      BY <1>2, <3>1, GenerateKeepsLoad
    <3>2. ASSUME NEW b \in Apps, b # a, AdvanceLoader(b) PROVE FALSE
      BY <1>2, <3>2
      DEF AdvanceLoader, ListenerSettles, InjectTimesOut, PollSeesQtConvert,
          PollTimesOut, Settle
    <3> QED
      BY <1>2, <3>1, <3>2
      DEF Next, Convert, ScriptLoads, ScriptErrors, OtherScriptDefines, vars
  <2>2. CASE ListenerSettles(a)
    BY <2>2 DEF ListenerSettles, Settle, Verdict
  <2>3. CASE InjectTimesOut(a)
    BY <2>3 DEF InjectTimesOut, Settle
  <2>4. CASE PollSeesQtConvert(a)
    BY <2>4 DEF PollSeesQtConvert, Settle
  <2>5. CASE PollTimesOut(a)
    BY <2>5 DEF PollTimesOut, Settle
  <2> QED
    BY <2>1, <2>2, <2>3, <2>4, <2>5 DEF AdvanceLoader
<1> QED
  BY <1>1, <1>2

(* A load that fails names its cause. *)
THEOREM DiagnosisIsRightCorrect == Spec => DiagnosisIsRight
<1>1. IInv /\ [Next]_vars => [FailsForItsReason]_vars
  BY SettleReason
<1> QED
  BY <1>1, InvariantCorrect, PTL DEF Spec, DiagnosisIsRight

-----------------------------------------------------------------------------
(* A page where nothing but the bundle defines qtConvert. *)

OnlyBundleDefines == qtConvert => tag = "loaded"

LEMMA StepOnlyBundle ==
  ASSUME ~OtherScripts, IInv, OnlyBundleDefines, [Next]_vars
  PROVE  OnlyBundleDefines'
<1> USE DEF OnlyBundleDefines, page
<1>1. ASSUME NEW c \in Callers, Generate(c) PROVE OnlyBundleDefines'
  <2>1. CASE Inject(c)
    BY <2>1 DEF Inject, LoadLater
  <2>2. CASE WaitForExisting(c)
    BY <2>2 DEF WaitForExisting, LoadLater
  <2> QED
    BY <1>1, <2>1, <2>2
    DEF Generate, Unsupported, Join, LoadDefined, InjectFails, LoadNow
<1>2. ASSUME NEW a \in Apps, AdvanceLoader(a) PROVE OnlyBundleDefines'
  BY <1>2 DEF AdvanceLoader, ListenerSettles, InjectTimesOut, PollSeesQtConvert,
     PollTimesOut, Settle
<1>3. CASE ScriptLoads \/ ScriptErrors
  BY <1>3 DEF ScriptLoads, ScriptErrors
<1> QED
  BY <1>1, <1>2, <1>3 DEF Next, Convert, OtherScriptDefines, vars

(* A call that fails to load although qtConvert is defined has asked for a  *)
(* load that had already failed.                                            *)
FailsByMemory ==
  \A c \in Callers :
    call'[c] = "load failed" /\ call[c] # "load failed" /\ qtConvert
      => loadFuture[AppOf[c]] \in LoadFailures

LEMMA FailsByMemoryStep ==
  ASSUME IInv, OnlyBundleDefines, [Next]_vars PROVE FailsByMemory
<1> SUFFICES ASSUME NEW c \in Callers, call'[c] = "load failed",
                    call[c] # "load failed", qtConvert
             PROVE  loadFuture[AppOf[c]] \in LoadFailures
  BY DEF FailsByMemory
<1> USE WebAssumption
    DEF IInv, TypeOK, LoadInv, HeardInv, CallInv, OnlyBundleDefines, Resumed
<1>1. ASSUME NEW d \in Callers, Generate(d) PROVE loadFuture[AppOf[c]] \in LoadFailures
  <2>0. \A e \in Callers \ {d} : call'[e] = call[e]
    BY <1>1 DEF Generate, Unsupported, Join, LoadDefined, InjectFails, LoadNow,
       Inject, WaitForExisting, LoadLater
  <2>1. CASE Join(d)
    <3>1. d = c /\ AppOf[c] \in Apps
      BY <2>0
    <3>2. loadFuture[AppOf[c]] \notin {"none", "pending", "loaded"}
      BY <2>1, <3>1 DEF Join
    <3> QED
      BY <3>1, <3>2
  <2>2. CASE LoadDefined(d)
    BY <2>2 DEF LoadDefined, LoadNow
  <2>3. CASE Unsupported(d) \/ Inject(d) \/ InjectFails(d) \/ WaitForExisting(d)
    BY <2>3 DEF Unsupported, Inject, InjectFails, WaitForExisting, LoadLater
  <2> QED
    BY <1>1, <2>1, <2>2, <2>3 DEF Generate
<1>2. ASSUME NEW d \in Callers, Convert(d) PROVE FALSE
  BY <1>2 DEF Convert
<1>3. ASSUME NEW a \in Apps, AdvanceLoader(a) PROVE FALSE
  <2>1. CASE ListenerSettles(a)
    BY <2>1 DEF ListenerSettles, Settle, End, Verdict
  <2>2. CASE InjectTimesOut(a)
    BY <2>2 DEF InjectTimesOut
  <2>3. CASE PollSeesQtConvert(a)
    BY <2>3 DEF PollSeesQtConvert, Settle, End
  <2>4. CASE PollTimesOut(a)
    BY <2>4 DEF PollTimesOut
  <2> QED
    BY <1>3, <2>1, <2>2, <2>3, <2>4 DEF AdvanceLoader
<1> QED
  BY <1>1, <1>2, <1>3 DEF Next, ScriptLoads, ScriptErrors, OtherScriptDefines, vars

(* What breaks ResolvesWhenDefined is the failure a program remembers, and  *)
(* nothing else: a load under way never fails while qtConvert is defined,   *)
(* neither by a late timer nor by an event it heard before.                 *)
THEOREM OnlyMemoryFails ==
  ASSUME ~OtherScripts PROVE Spec => [][FailsByMemory]_vars
<1> DEFINE Inv == IInv /\ OnlyBundleDefines
<1>1. Init => Inv
  BY InitInv DEF Init, OnlyBundleDefines
<1>2. Inv /\ [Next]_vars => Inv'
  BY ~OtherScripts, StepInv, StepOnlyBundle
<1>3. Inv /\ [Next]_vars => [FailsByMemory]_vars
  BY FailsByMemoryStep
<1> QED
  BY <1>1, <1>2, <1>3, PTL DEF Spec

-----------------------------------------------------------------------------
(***************************************************************************)
(* Nobody is stuck.  MayAdvance and MayConvert are the disjunctions of the *)
(* guards of the two actions; GuardsEnable says that an action whose guard *)
(* holds is enabled.  It holds by the definition of ENABLED, about which   *)
(* the provers cannot reason.                                              *)
(***************************************************************************)
MayAdvance(a) ==
  \/ loader[a] # "none" /\ completer[a] # "open"
  \/ loader[a] = "injected" /\ completer[a] = "open"
  \/ loader[a] = "waiting" /\ completer[a] = "open" /\ qtConvert
  \/ loader[a] = "waiting" /\ completer[a] = "open" /\ ~qtConvert

MayConvert(c) == call[c] = "converting"

CanAdvanceLoader(a) == ENABLED <<AdvanceLoader(a)>>_vars
CanConvert(c) == ENABLED <<Convert(c)>>_vars
GuardsEnable ==
  TypeOK => /\ \A a \in Apps : MayAdvance(a) => CanAdvanceLoader(a)
            /\ \A c \in Callers : MayConvert(c) => CanConvert(c)

(* A call that awaits a load awaits one that can end without the browser,   *)
(* by a timer or by what its listeners have heard; one that converts can go *)
(* on.                                                                      *)
NobodyStuck ==
  \A c \in Callers :
    /\ call[c] = "loading" => CanAdvanceLoader(AppOf[c])
    /\ call[c] = "converting" => CanConvert(c)

LEMMA NeverStuck == Spec /\ []GuardsEnable => []NobodyStuck
<1>1. ASSUME IInv, NEW c \in Callers, call[c] = "loading" PROVE MayAdvance(AppOf[c])
  <2>1. AppOf[c] \in Apps /\ loader[AppOf[c]] # "none"
    BY <1>1, WebAssumption DEF IInv, CallInv, LoadInv
  <2> QED
    BY <1>1, <2>1 DEF IInv, TypeOK, MayAdvance
<1>2. IInv /\ GuardsEnable => NobodyStuck
  BY <1>1, WebAssumption DEF IInv, GuardsEnable, NobodyStuck, MayConvert
<1> QED
  BY InitInv, StepInv, <1>2, PTL DEF Spec

-----------------------------------------------------------------------------
(***************************************************************************)
(* Liveness.  The end of a load takes every caller that awaits it along;   *)
(* the timers and the promise of qtConvert are what fairness is about, and *)
(* they can always act (NeverStuck).                                       *)
(***************************************************************************)
Loading(c) == call[c] = "loading"
Converting(c) == call[c] = "converting"
Over(c) == call[c] \in Ended

LEMMA LoaderEnds ==
  ASSUME TypeOK, NEW a \in Apps, AdvanceLoader(a), NEW c \in Callers
  PROVE  IF AppOf[c] = a /\ Loading(c) THEN Converting(c)' \/ Over(c)'
                                       ELSE call'[c] = call[c]
<1>1. PICK how \in {"loaded"} \cup LoadFailures : Settle(a, how)
  BY DEF AdvanceLoader, ListenerSettles, InjectTimesOut, PollSeesQtConvert,
     PollTimesOut, Verdict, LoadFailures
<1> QED
  BY <1>1 DEF Settle, End, Resumed, TypeOK, Loading, Converting, Over, Ended

(* A call that loads goes on loading, or converts, or is over; one that     *)
(* converts goes on converting or is over.                                  *)
LEMMA CallStep ==
  ASSUME TypeOK, [Next]_vars, NEW c \in Callers
  PROVE  /\ Loading(c) => Loading(c)' \/ Converting(c)' \/ Over(c)'
         /\ Converting(c) => Converting(c)' \/ Over(c)'
<1> USE DEF TypeOK, Loading, Converting, Over, Ended
<1>1. ASSUME NEW d \in Callers, Generate(d), Loading(c) \/ Converting(c)
      PROVE  call'[c] = call[c]
  <2>1. d # c
    BY <1>1 DEF Generate, Unsupported, Join, LoadDefined, InjectFails, LoadNow,
       Inject, WaitForExisting, LoadLater
  <2>2. \E v : call' = [call EXCEPT ![d] = v]
    BY <1>1 DEF Generate, Unsupported, Join, LoadDefined, InjectFails, LoadNow,
       Inject, WaitForExisting, LoadLater
  <2> QED
    BY <2>1, <2>2
<1>2. ASSUME NEW d \in Callers, Convert(d), Loading(c) \/ Converting(c)
      PROVE  call'[c] = call[c] \/ (Converting(c) /\ Over(c)')
  BY <1>2 DEF Convert
<1>3. ASSUME NEW a \in Apps, AdvanceLoader(a)
      PROVE  call'[c] = call[c] \/ (Loading(c) /\ (Converting(c)' \/ Over(c)'))
  BY <1>3, LoaderEnds
<1>4. CASE UNCHANGED call
  BY <1>4
<1> QED
  BY <1>1, <1>2, <1>3, <1>4 DEF Next, ScriptLoads, ScriptErrors, OtherScriptDefines, vars

(* Every call ends, whatever the browser does or does not report, for any   *)
(* number of programs and callers on the page.                              *)
THEOREM CallsReturnCorrect == FairSpec /\ []GuardsEnable => CallsReturn
<1> SUFFICES ASSUME NEW c \in Callers
             PROVE  FairSpec /\ []GuardsEnable => (call[c] \notin Ended ~> call[c] \in Ended)
  BY DEF CallsReturn
<1> DEFINE a == AppOf[c]
<1>0. a \in Apps
  BY WebAssumption
<1>1. TypeOK /\ [Next]_vars =>
        /\ Loading(c) => Loading(c)' \/ Converting(c)' \/ Over(c)'
        /\ Converting(c) => Converting(c)' \/ Over(c)'
  BY CallStep
<1>2. TypeOK /\ <<AdvanceLoader(a)>>_vars /\ Loading(c) => Converting(c)' \/ Over(c)'
  BY <1>0, LoaderEnds
<1>3. TypeOK /\ <<Convert(c)>>_vars => Over(c)'
  BY DEF TypeOK, Convert, Over, Ended
<1>4. TypeOK => Loading(c) \/ Converting(c) \/ Over(c)
  BY DEF TypeOK, Loading, Converting, Over
<1>5. NobodyStuck => /\ Loading(c) => CanAdvanceLoader(a)
                     /\ Converting(c) => CanConvert(c)
  BY DEF NobodyStuck, Loading, Converting
<1>6. Over(c) <=> call[c] \in Ended
  BY DEF Over
<1>7. FairSpec => Spec /\ LoaderFairness(a) /\ ConvertFairness(c)
  BY <1>0 DEF FairSpec
<1> HIDE DEF a
<1> QED
  BY TypeCorrect, NeverStuck, <1>1, <1>2, <1>3, <1>4, <1>5, <1>6, <1>7, PTL
  DEF Spec, LoaderFairness, ConvertFairness, CanAdvanceLoader, CanConvert
=============================================================================
