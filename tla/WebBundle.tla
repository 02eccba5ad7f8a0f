----------------------------- MODULE WebBundle -----------------------------
(***************************************************************************)
(* Conversions in a browser: lib/src/backend_web.dart.  The Dart programs  *)
(* of one page (a page may embed several, and a hot restart leaves the     *)
(* page of the program before it) share the document and the global        *)
(* qtConvert; each has a _loadFuture of its own.                           *)
(*                                                                         *)
(* JavaScript runs one task at a time and drains the microtasks after it,  *)
(* so what follows an await on something already completed belongs to the  *)
(* same action.  Tasks are: a call, an event of the script element, a      *)
(* timer.  Only the step from a listener to the load that waits for it is  *)
(* an action of its own: a load that polls goes on at its next turn, and   *)
(* one that does not is allowed the same delay.                            *)
(***************************************************************************)
EXTENDS Naturals

CONSTANTS Apps,         \* Dart programs of the page
          Callers,      \* activities of all programs, one call at a time each
          AppOf,        \* the program an activity belongs to
          OtherScripts  \* the page has a script of its own that may define
                        \* qtConvert

ASSUME WebAssumption ==
  /\ AppOf \in [Callers -> Apps]
  /\ OtherScripts \in BOOLEAN

VARIABLES
  tags,        \* script elements marked data-quicktype-dart="bundle"
  tag,         \* what became of the first of them
  qtConvert,   \* globalThis.qtConvert is defined
  loadFuture,  \* [Apps -> STRING]: _loadFuture, with its outcome
  loader,      \* where _loadBundle waits: in _injectAndWait, or in
               \* _waitForExistingScript
  completer,   \* what the listeners of that wait have seen
  call         \* where a caller is in generateFromString

vars == <<tags, tag, qtConvert, loadFuture, loader, completer, call>>
page == <<tags, tag, qtConvert>>

LoadFailures == {"no parent", "script error", "timeout", "corrupt"}
Ended == {"none", "code", "rejected", "unsupported", "load failed"}

Init ==
  /\ tags = 0 /\ tag = "absent"
  /\ qtConvert = FALSE
  /\ loadFuture = [a \in Apps |-> "none"]
  /\ loader = [a \in Apps |-> "none"]
  /\ completer = [a \in Apps |-> "open"]
  /\ call = [c \in Callers |-> "none"]

-----------------------------------------------------------------------------
(* generateFromString, up to the first thing it has to wait for. *)

Unsupported(c) ==
  /\ call[c] \in Ended
  /\ call' = [call EXCEPT ![c] = "unsupported"]
  /\ UNCHANGED <<page, loadFuture, loader, completer>>

(* What becomes of a caller whose load has come to an end. *)
Resumed(how) == IF how = "loaded" THEN "converting" ELSE "load failed"

(* _loadFuture is set: its outcome, if it has one, or the wait for it. *)
Join(c) ==
  /\ call[c] \in Ended
  /\ loadFuture[AppOf[c]] # "none"
  /\ call' = [call EXCEPT ![c] =
       IF loadFuture[AppOf[c]] = "pending" THEN "loading"
       ELSE Resumed(loadFuture[AppOf[c]])]
  /\ UNCHANGED <<page, loadFuture, loader, completer>>

(* _loadFuture is null: the head of _loadBundle, which ends at once ... *)
LoadNow(c, how) ==
  /\ call[c] \in Ended
  /\ loadFuture[AppOf[c]] = "none"
  /\ loadFuture' = [loadFuture EXCEPT ![AppOf[c]] = how]
  /\ call' = [call EXCEPT ![c] = Resumed(how)]
  /\ UNCHANGED <<page, loader, completer>>

LoadDefined(c) == qtConvert /\ LoadNow(c, "loaded")

(* The document has no element to attach a script to. *)
InjectFails(c) == ~qtConvert /\ tags = 0 /\ LoadNow(c, "no parent")

(* ... or waits for a script element, a new one or one that is there. *)
LoadLater(c, where) ==
  /\ call[c] \in Ended
  /\ loadFuture[AppOf[c]] = "none"
  /\ ~qtConvert
  /\ loadFuture' = [loadFuture EXCEPT ![AppOf[c]] = "pending"]
  /\ loader' = [loader EXCEPT ![AppOf[c]] = where]
  /\ call' = [call EXCEPT ![c] = "loading"]
  /\ UNCHANGED <<qtConvert, completer>>

(* Mutant: no existing element is looked for. *)
InjectAnyway(c) ==
  /\ tags' = tags + 1 /\ tag' = "loading"
  /\ LoadLater(c, "injected")

Inject(c) ==
  /\ tags = 0
  /\ tags' = 1 /\ tag' = "loading"
  /\ LoadLater(c, "injected")

WaitForExisting(c) ==
  /\ tags # 0
  /\ LoadLater(c, "waiting")
  /\ UNCHANGED <<tags, tag>>

-----------------------------------------------------------------------------
(* The browser. *)

(* The listeners of every loader that waits; later ones hear nothing. *)
Notify(what) ==
  completer' = [a \in Apps |-> IF loader[a] # "none" /\ completer[a] = "open"
                                 THEN what ELSE completer[a]]

(* The bundle is fetched and run; a corrupt one does not define qtConvert. *)
ScriptLoads ==
  /\ tag = "loading"
  /\ tag' = "loaded"
  /\ qtConvert' \in {qtConvert, TRUE}
  /\ Notify("done")
  /\ UNCHANGED <<tags, loadFuture, loader, call>>

(* Not found, not reachable, or other bytes than integrity asks for. *)
ScriptErrors ==
  /\ tag = "loading"
  /\ tag' = "errored"
  /\ Notify("error")
  /\ UNCHANGED <<tags, qtConvert, loadFuture, loader, call>>

OtherScriptDefines ==
  /\ OtherScripts
  /\ qtConvert' = TRUE
  /\ UNCHANGED <<tags, tag, loadFuture, loader, completer, call>>

-----------------------------------------------------------------------------
(* The rest of _loadBundle. *)

(* Mutant: the callers end with whatever the load ended with. *)
EndForwarded(a, how) ==
  call' = [c \in Callers |->
             IF AppOf[c] = a /\ call[c] = "loading" THEN how ELSE call[c]]

(* All callers of the program that await the load resume. *)
End(a, how) ==
  call' = [c \in Callers |->
             IF AppOf[c] = a /\ call[c] = "loading" THEN Resumed(how) ELSE call[c]]

Settle(a, how) ==
  /\ loadFuture' = [loadFuture EXCEPT ![a] = how]
  /\ loader' = [loader EXCEPT ![a] = "none"]
  /\ End(a, how)
  /\ UNCHANGED <<page, completer>>

(* Mutant: that the wait is over is taken for a definition. *)
VerdictUnchecked == "loaded"

Verdict == IF qtConvert THEN "loaded" ELSE "corrupt"

(* A listener has completed the completer of either wait. *)
ListenerSettles(a) ==
  /\ loader[a] # "none" /\ completer[a] # "open"
  /\ Settle(a, IF completer[a] = "error" THEN "script error" ELSE Verdict)

(* Mutant: the event is awaited without a time limit. *)
InjectTimesOutNever(a) ==
  /\ loader[a] = "injected" /\ completer[a] = "done"
  /\ Settle(a, "timeout")

InjectTimesOut(a) ==
  /\ loader[a] = "injected" /\ completer[a] = "open"
  /\ Settle(a, "timeout")

(* A turn of _pollForQtConvert finds qtConvert, or is past the deadline. *)
PollSeesQtConvert(a) ==
  /\ loader[a] = "waiting" /\ completer[a] = "open"
  /\ qtConvert
  /\ Settle(a, "loaded")

(* Mutant: the deadline ends the wait, and the check after it decides. *)
PollTimesOutSilently(a) ==
  /\ loader[a] = "waiting" /\ completer[a] = "open"
  /\ ~qtConvert
  /\ Settle(a, Verdict)

PollTimesOut(a) ==
  /\ loader[a] = "waiting" /\ completer[a] = "open"
  /\ ~qtConvert
  /\ Settle(a, "timeout")

-----------------------------------------------------------------------------
(* The rest of generateFromString: the promise of qtConvert settles. *)
Convert(c) ==
  /\ call[c] = "converting"
  /\ \E how \in {"code", "rejected"} : call' = [call EXCEPT ![c] = how]
  /\ UNCHANGED <<page, loadFuture, loader, completer>>

-----------------------------------------------------------------------------
Generate(c) ==
  \/ Unsupported(c) \/ Join(c)
  \/ LoadDefined(c) \/ Inject(c) \/ InjectFails(c) \/ WaitForExisting(c)

AdvanceLoader(a) ==
  \/ ListenerSettles(a)
  \/ InjectTimesOut(a)
  \/ PollSeesQtConvert(a) \/ PollTimesOut(a)

Next ==
  \/ \E c \in Callers : Generate(c) \/ Convert(c)
  \/ \E a \in Apps : AdvanceLoader(a)
  \/ ScriptLoads \/ ScriptErrors \/ OtherScriptDefines

(***************************************************************************)
(* Timers fire and events and timers resume the loads that wait; the       *)
(* promise of qtConvert, which does no I/O, settles.  The browser may      *)
(* never load the script, nor report that it did not.                      *)
(***************************************************************************)
Spec == Init /\ [][Next]_vars
LoaderFairness(a) == WF_vars(AdvanceLoader(a))
ConvertFairness(c) == WF_vars(Convert(c))
FairSpec ==
  /\ Spec
  /\ \A a \in Apps : LoaderFairness(a)
  /\ \A c \in Callers : ConvertFairness(c)

-----------------------------------------------------------------------------
(* Properties. *)

TypeOK ==
  /\ tags \in Nat
  /\ tag \in {"absent", "loading", "loaded", "errored"}
  /\ qtConvert \in BOOLEAN
  /\ loadFuture \in [Apps -> {"none", "pending", "loaded"} \cup LoadFailures]
  /\ loader \in [Apps -> {"none", "injected", "waiting"}]
  /\ completer \in [Apps -> {"open", "done", "error"}]
  /\ call \in [Callers -> Ended \cup {"loading", "converting"}]

(* The comment on _ensureBundleLoaded: the script is injected once, by      *)
(* whichever program and call comes first, also after a failed load.        *)
OneTag == tags <= 1

(* A call gets past the load only when there is a function to call, however *)
(* its program learned that the wait was over.                              *)
ConvertsDefined == \A c \in Callers : call[c] = "converting" => qtConvert

(* The changelog on the loader: a time-out and a corrupt bundle are told    *)
(* apart.  A load that fails names its cause: corrupt, when the script ran  *)
(* and defined nothing; script error, when it did not run; timeout, when    *)
(* the program that injected the script has heard nothing of it, and one    *)
(* that found it there sees nothing defined.                                *)
FailsForItsReason ==
  \A a \in Apps :
    loadFuture[a] = "pending" =>
      CASE loadFuture'[a] = "corrupt" -> tag = "loaded" /\ ~qtConvert
        [] loadFuture'[a] = "script error" -> tag = "errored"
        [] loadFuture'[a] = "timeout" ->
             IF loader[a] = "injected" THEN tag = "loading" ELSE ~qtConvert
        [] OTHER -> TRUE

DiagnosisIsRight == [][FailsForItsReason]_vars

(* Every call ends, though the browser may never report on the script.      *)
CallsReturn == \A c \in Callers : call[c] \notin Ended ~> call[c] \in Ended

(* The comment on _ensureBundleLoaded: it "resolves when                    *)
(* globalThis.qtConvert becomes defined".  No call fails to load while      *)
(* qtConvert is defined.                                                    *)
FailsUndefined ==
  \A c \in Callers :
    call'[c] = "load failed" /\ call[c] # "load failed" => ~qtConvert

ResolvesWhenDefined == [][FailsUndefined]_vars
=============================================================================
