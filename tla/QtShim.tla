------------------------------- MODULE QtShim -------------------------------
(***************************************************************************)
(* The conversions of one QuickJS runtime: qt_runtime_convert and pump of  *)
(* native/shim/qt_shim.c, the invoker they run, and what generate() of     *)
(* lib/src/ffi/ffi_runtime.dart makes of the string it gets back.          *)
(*                                                                         *)
(* A call evaluates an async function that stores its outcome in one of    *)
(* two global variables of the runtime, then executes pending jobs, at     *)
(* most PumpMax of them, then reads the variables.  Variables and job      *)
(* queue outlive the call; what one call leaves there the next one finds.  *)
(* Conversions are numbered in the order they are made.                    *)
(***************************************************************************)
EXTENDS Naturals, Sequences

CONSTANTS PumpMax,    \* MAX in pump
          JobCounts,  \* how many jobs a conversion may need to settle;
                      \* 0: each queues another, it never does
          MaxCalls,   \* bound: conversions made in a behaviour
          Null        \* JS null, and the NULL pointer

ASSUME ShimAssumption ==
  /\ PumpMax \in Nat \ {0}
  /\ JobCounts \subseteq Nat
  /\ MaxCalls \in Nat
  /\ Null \notin Nat

Calls == 1..MaxCalls
Ends == {"code", "message"}   \* qtConvert resolves, or rejects

VARIABLES
  calls,     \* conversions made so far; the last one is the current one
  pc,        \* "idle", "pumping" or "reading"
  pumped,    \* jobs the current call of pump has executed
  queue,     \* QuickJS's job queue: the conversion each job belongs to
  left,      \* [Calls -> Nat]: jobs a conversion still needs
  ends,      \* [Calls -> Ends]: how its promise settles
  qtResult,  \* globalThis.__qtResult: whose code it holds, or Null
  qtError,   \* globalThis.__qtError: whose message it holds, or Null
  answer,    \* what qt_runtime_convert returned to each conversion
  outcome,   \* what generate() did with it
  short      \* auxiliary: no conversion so far needs more than PumpMax jobs,
             \* and none has lost one

vars == <<calls, pc, pumped, queue, left, ends, qtResult, qtError, answer,
          outcome, short>>

(* A returned string is somebody's code, somebody's message, or the text  *)
(* "null" that JS_ToCString makes of a result nobody stored.              *)
NoAnswer == [kind |-> "pending", of |-> 0]
NullPointer == [kind |-> "NULL", of |-> 0]
NullText == [kind |-> "null text", of |-> 0]
Code(k) == [kind |-> "code", of |-> k]
Message(k) == [kind |-> "message", of |-> k]

Init ==
  /\ calls = 0 /\ pc = "idle" /\ pumped = 0
  /\ queue = <<>>
  /\ left = [k \in Calls |-> 0]
  /\ ends = [k \in Calls |-> "code"]
  /\ qtResult = Null /\ qtError = Null
  /\ answer = [k \in Calls |-> NoAnswer]
  /\ outcome = [k \in Calls |-> "pending"]
  /\ short = TRUE

-----------------------------------------------------------------------------
(* generate() copies any string it is given and returns it; only the NULL *)
(* pointer is an error to it.                                             *)
Outcome(a) == IF a = NullPointer THEN "throws" ELSE "returns"

Return(k, a) ==
  /\ answer' = [answer EXCEPT ![k] = a]
  /\ outcome' = [outcome EXCEPT ![k] = Outcome(a)]

(* Mutant: what the previous call stored stays there. *)
EnterDirty ==
  /\ pc = "idle" /\ calls < MaxCalls
  /\ calls' = calls + 1
  /\ UNCHANGED <<qtResult, qtError>>

(* The head of qt_runtime_convert: a new call resets both variables. *)
Enter ==
  /\ pc = "idle" /\ calls < MaxCalls
  /\ calls' = calls + 1
  /\ qtResult' = Null /\ qtError' = Null

(* The invoker is evaluated up to its await; the rest is queued as jobs. *)
Convert(n, end) ==
  /\ Enter
  /\ pc' = "pumping" /\ pumped' = 0
  /\ queue' = Append(queue, calls + 1)
  /\ left' = [left EXCEPT ![calls + 1] = n]
  /\ ends' = [ends EXCEPT ![calls + 1] = end]
  /\ short' = (short /\ n \in 1..PumpMax)
  /\ UNCHANGED <<answer, outcome>>

(* The invoker does not evaluate: the exception's text is the answer. *)
EvalThrows ==
  /\ Enter
  /\ ends' = [ends EXCEPT ![calls + 1] = "message"]
  /\ Return(calls + 1, Message(calls + 1))
  /\ UNCHANGED <<pc, pumped, queue, left, short>>

(* asprintf, or strdup of the exception's text, is out of memory. *)
ConvertFails ==
  /\ Enter
  /\ Return(calls + 1, NullPointer)
  /\ UNCHANGED <<pc, pumped, queue, left, ends, short>>

-----------------------------------------------------------------------------
(***************************************************************************)
(* One turn of pump's loop.  A job either queues the next job of its       *)
(* promise chain or is the last one, which stores the outcome.             *)
(***************************************************************************)
RunJob(k) ==
  IF left[k] = 1
    THEN /\ queue' = Tail(queue)
         /\ qtResult' = IF ends[k] = "code" THEN k ELSE qtResult
         /\ qtError' = IF ends[k] = "message" THEN k ELSE qtError
         /\ UNCHANGED left
    ELSE /\ queue' = Append(Tail(queue), k)
         /\ left' = [left EXCEPT ![k] = IF left[k] = 0 THEN 0 ELSE left[k] - 1]
         /\ UNCHANGED <<qtResult, qtError>>

(* Mutant: the count never gets to the limit. *)
PumpJobUncounted ==
  /\ pc = "pumping" /\ queue # <<>>
  /\ pumped' = (pumped + 1) % PumpMax
  /\ RunJob(Head(queue))
  /\ UNCHANGED <<calls, pc, ends, answer, outcome, short>>

PumpJob ==
  /\ pc = "pumping" /\ pumped < PumpMax /\ queue # <<>>
  /\ pumped' = pumped + 1
  /\ RunJob(Head(queue))
  /\ UNCHANGED <<calls, pc, ends, answer, outcome, short>>

(* A job throws, being out of memory: pump stops and its conversion with it. *)
PumpJobThrows ==
  /\ pc = "pumping" /\ pumped < PumpMax /\ queue # <<>>
  /\ queue' = Tail(queue)
  /\ pc' = "reading"
  /\ short' = FALSE
  /\ UNCHANGED <<calls, pumped, left, ends, qtResult, qtError, answer, outcome>>

(* Mutant: pump stops one job before its limit. *)
PumpReturnsEarly ==
  /\ pc = "pumping"
  /\ queue = <<>> \/ pumped = PumpMax - 1
  /\ pc' = "reading"
  /\ UNCHANGED <<calls, pumped, queue, left, ends, qtResult, qtError, answer,
                 outcome, short>>

(* Mutant: reaching the limit is not a reason to return. *)
PumpReturnsDrained ==
  /\ pc = "pumping"
  /\ queue = <<>>
  /\ pc' = "reading"
  /\ UNCHANGED <<calls, pumped, queue, left, ends, qtResult, qtError, answer,
                 outcome, short>>

(* pump returns: no job is pending, or the limit is reached. *)
PumpReturns ==
  /\ pc = "pumping"
  /\ queue = <<>> \/ pumped = PumpMax
  /\ pc' = "reading"
  /\ UNCHANGED <<calls, pumped, queue, left, ends, qtResult, qtError, answer,
                 outcome, short>>

(* Mutant: the variable is read though it holds null. *)
StoredUnchecked == IF qtResult # Null THEN Code(qtResult) ELSE Message(qtError)

(* The tail of qt_runtime_convert: an error hides a result. *)
Stored == IF qtError # Null THEN Message(qtError)
          ELSE IF qtResult # Null THEN Code(qtResult) ELSE NullText

ReadOutcome ==
  /\ pc = "reading"
  /\ pc' = "idle"
  /\ Return(calls, Stored)
  /\ UNCHANGED <<calls, pumped, queue, left, ends, qtResult, qtError, short>>

(* JS_ToCString or strdup is out of memory. *)
ReadFails ==
  /\ pc = "reading"
  /\ pc' = "idle"
  /\ Return(calls, NullPointer)
  /\ UNCHANGED <<calls, pumped, queue, left, ends, qtResult, qtError, short>>

-----------------------------------------------------------------------------
Next ==
  \/ \E n \in JobCounts, end \in Ends : Convert(n, end)
  \/ EvalThrows \/ ConvertFails
  \/ PumpJob \/ PumpJobThrows \/ PumpReturns
  \/ ReadOutcome \/ ReadFails

(* qt_runtime_convert is one C call: once entered it runs on. *)
Spec == Init /\ [][Next]_vars
RunOn == PumpJob \/ PumpJobThrows \/ PumpReturns \/ ReadOutcome \/ ReadFails
Fairness == WF_vars(RunOn)
FairSpec == Spec /\ Fairness

-----------------------------------------------------------------------------
(* Properties. *)

Answers == {NoAnswer, NullPointer, NullText}
             \cup {Code(k) : k \in Calls} \cup {Message(k) : k \in Calls}

TypeOK ==
  /\ calls \in 0..MaxCalls
  /\ pc \in {"idle", "pumping", "reading"}
  /\ pumped \in 0..PumpMax
  /\ queue \in Seq(Calls)
  /\ left \in [Calls -> Nat]
  /\ ends \in [Calls -> Ends]
  /\ qtResult \in Calls \cup {Null}
  /\ qtError \in Calls \cup {Null}
  /\ answer \in [Calls -> Answers]
  /\ outcome \in [Calls -> {"pending", "returns", "throws"}]
  /\ short \in BOOLEAN

(* Calls on one runtime do not disturb one another: a conversion that       *)
(* returns a string returns its own code when it resolved and its own       *)
(* message when it rejected.  This is so as long as every conversion        *)
(* settles within one call of pump; jobs an earlier one left behind write   *)
(* the same two variables.                                                  *)
OwnAnswer ==
  short => \A k \in Calls :
    answer[k] \in {NoAnswer, NullPointer,
                   IF ends[k] = "code" THEN Code(k) ELSE Message(k)}

(* The comment on pump, "until drained", as far as it holds: a call that    *)
(* returned left no job behind for the next one to run.                     *)
NothingLeftBehind == short /\ pc = "idle" => queue = <<>>

(* A call that was entered has a next step, whatever jobs are queued: there *)
(* is nothing it waits for.                                                 *)
CanRunOn == ENABLED <<RunOn>>_vars
NobodyStuck == pc # "idle" => CanRunOn

(* qt_runtime_convert returns, also from a conversion that never settles:   *)
(* the limit of pump is what keeps the isolate from hanging.                *)
ConvertReturns == pc # "idle" ~> pc = "idle"

(* The comment on generate(): "Generates typed source code". What it      *)
(* returns to its caller is code.                                         *)
GenerateReturnsCode ==
  \A k \in Calls : outcome[k] = "returns" => answer[k].kind = "code"
=============================================================================
