---------------------------- MODULE QtShimProofs ----------------------------
(***************************************************************************)
(* Theorems about QtShim, for any number of conversions, any numbers of    *)
(* jobs and any limit of the pump.                                         *)
(***************************************************************************)
EXTENDS QtShim, TLAPS

(* The queue never holds more than the job of the current conversion, and   *)
(* the pump has enough turns left for it.                                   *)
QueueInv ==
  /\ pc # "pumping" => queue = <<>>
  /\ queue # <<>> => /\ calls \in Calls
                     /\ queue = <<calls>>
                     /\ left[calls] >= 1
                     /\ pumped + left[calls] <= PumpMax

(* The two variables belong to the current conversion: both are null until *)
(* it has settled, then one of them holds its outcome.                     *)
GlobalsInv ==
  pc # "idle" =>
    /\ calls \in Calls
    /\ queue # <<>> => qtResult = Null /\ qtError = Null
    /\ queue = <<>> => IF ends[calls] = "code"
                         THEN qtResult = calls /\ qtError = Null
                         ELSE qtError = calls

(* Conversions still to come have no answer, nor has the current one before *)
(* it returns.                                                              *)
AnswersInv ==
  /\ \A k \in Calls : answer[k] \in {NoAnswer, NullPointer,
       IF ends[k] = "code" THEN Code(k) ELSE Message(k)}
  /\ \A k \in Calls : k > calls => answer[k] = NoAnswer

ShortInv == QueueInv /\ GlobalsInv /\ AnswersInv

IInv == TypeOK /\ (short => ShortInv)

-----------------------------------------------------------------------------
LEMMA AnswerTypes ==
  /\ {NoAnswer, NullPointer, NullText} \subseteq Answers
  /\ \A k \in Calls : Code(k) \in Answers /\ Message(k) \in Answers
  BY DEF Answers

(* A call that enters is one of Calls; what it returns is an answer. *)
LEMMA EnterCalls == ASSUME TypeOK, Enter PROVE calls + 1 \in Calls
  BY ShimAssumption DEF TypeOK, Enter, Calls

LEMMA ReturnTypes ==
  ASSUME TypeOK, NEW k \in Calls, NEW a \in Answers, Return(k, a)
  PROVE  /\ answer' \in [Calls -> Answers]
         /\ outcome' \in [Calls -> {"pending", "returns", "throws"}]
  BY DEF TypeOK, Return, Outcome

LEMMA TypeStep == TypeOK /\ [Next]_vars => TypeOK'
<1> SUFFICES ASSUME TypeOK, [Next]_vars PROVE TypeOK'
  OBVIOUS
<1> USE ShimAssumption DEF TypeOK, Calls, Ends
<1>1. ASSUME NEW n \in JobCounts, NEW end \in Ends, Convert(n, end) PROVE TypeOK'
  BY <1>1 DEF Convert, Enter
<1>2. CASE EvalThrows
  BY <1>2, EnterCalls, AnswerTypes, ReturnTypes DEF EvalThrows, Enter
<1>3. CASE ConvertFails
  BY <1>3, EnterCalls, AnswerTypes, ReturnTypes DEF ConvertFails, Enter
<1>4. CASE PumpJob
  <2>1. Head(queue) \in Calls /\ Tail(queue) \in Seq(Calls)
    BY <1>4 DEF PumpJob
  <2>2. pumped' \in 0..PumpMax
    BY <1>4 DEF PumpJob
  <2>3. queue' \in Seq(Calls) /\ left' \in [Calls -> Nat]
    <3> HIDE DEF Calls
    <3>1. left[Head(queue)] \in Nat
      BY <2>1
    <3>2. CASE left[Head(queue)] # 1
      <4>1. (IF left[Head(queue)] = 0 THEN 0 ELSE left[Head(queue)] - 1) \in Nat
        BY <3>1
      <4>2. Append(Tail(queue), Head(queue)) \in Seq(Calls)
        BY <2>1
      <4> QED
        BY <1>4, <3>2, <4>1, <4>2 DEF PumpJob, RunJob
    <3>3. CASE left[Head(queue)] = 1
      BY <1>4, <2>1, <3>3 DEF PumpJob, RunJob
    <3> QED
      BY <3>2, <3>3
  <2>4. qtResult' \in Calls \cup {Null} /\ qtError' \in Calls \cup {Null}
    <3> HIDE DEF Calls
    <3> QED
      BY <1>4, <2>1 DEF PumpJob, RunJob
  <2> QED
    BY <1>4, <2>2, <2>3, <2>4 DEF PumpJob
<1>5. CASE PumpJobThrows
  <2> HIDE DEF Calls
  <2>1. Tail(queue) \in Seq(Calls)
    BY <1>5 DEF PumpJobThrows
  <2> QED
    BY <1>5, <2>1 DEF PumpJobThrows
<1>6. CASE PumpReturns
  BY <1>6 DEF PumpReturns
<1>7. CASE ReadOutcome
  <2>1. Stored \in Answers
    BY DEF Stored, Answers
  <2> QED
    BY <1>7, <2>1 DEF ReadOutcome, Return, Outcome
<1>8. CASE ReadFails
  BY <1>8 DEF ReadFails, Return, Outcome, Answers
<1>9. CASE UNCHANGED vars
  BY <1>9 DEF vars
<1> QED
  BY <1>1, <1>2, <1>3, <1>4, <1>5, <1>6, <1>7, <1>8, <1>9 DEF Next

(* Every variable keeps its type. *)
THEOREM TypeCorrect == Spec => []TypeOK
<1>1. Init => TypeOK
  BY ShimAssumption, AnswerTypes DEF Init, TypeOK, Ends
<1> QED
  BY <1>1, TypeStep, PTL DEF Spec

-----------------------------------------------------------------------------
LEMMA InitInv == Init => IInv
<1> SUFFICES ASSUME Init PROVE IInv
  OBVIOUS
<1>1. TypeOK
  BY ShimAssumption, AnswerTypes DEF Init, TypeOK, Ends
<1>2. ShortInv
  BY DEF Init, ShortInv, QueueInv, GlobalsInv, AnswersInv
<1> QED
  BY <1>1, <1>2 DEF IInv

(* A step keeps the invariant unless it starts a conversion that is not     *)
(* short, and a history that was not short never becomes it again.          *)
LEMMA StepShort ==
  ASSUME TypeOK, short, short', ShortInv, [Next]_vars
  PROVE  ShortInv'
<1> USE ShimAssumption DEF ShortInv
<1>1. ASSUME NEW n \in JobCounts, NEW end \in Ends, Convert(n, end) PROVE ShortInv'
  <2>1. calls + 1 \in Calls /\ calls \in Nat
    BY <1>1, EnterCalls DEF Convert, TypeOK
  <2>2. queue' = <<calls + 1>>
    BY <1>1, <2>1 DEF Convert, Enter, QueueInv
  <2>0. n <= PumpMax /\ n \in Nat /\ n >= 1
    <3>1. short' = (short /\ n \in 1..PumpMax)
      BY <1>1 DEF Convert
    <3>2. n \in 1..PumpMax
      BY <3>1, Zenon
    <3> QED
      BY <3>2
  <2>3. QueueInv'
    BY <1>1, <2>0, <2>1, <2>2 DEF Convert, Enter, QueueInv, TypeOK
  <2>4. GlobalsInv'
    BY <1>1, <2>1, <2>2 DEF Convert, Enter, GlobalsInv
  <2>5. AnswersInv'
    BY <1>1, <2>1 DEF Convert, Enter, AnswersInv, TypeOK, Calls
  <2> QED
    BY <2>3, <2>4, <2>5
<1>2. CASE EvalThrows
  <2>1. calls + 1 \in Calls /\ calls \in Nat
    BY <1>2, EnterCalls DEF EvalThrows, TypeOK
  <2>2. QueueInv' /\ GlobalsInv'
    BY <1>2 DEF EvalThrows, Enter, QueueInv, GlobalsInv
  <2>3. AnswersInv'
    BY <1>2, <2>1 DEF EvalThrows, Enter, Return, AnswersInv, TypeOK, Calls
  <2> QED
    BY <2>2, <2>3
<1>3. CASE ConvertFails
  <2>1. calls + 1 \in Calls /\ calls \in Nat
    BY <1>3, EnterCalls DEF ConvertFails, TypeOK
  <2>2. QueueInv' /\ GlobalsInv'
    BY <1>3 DEF ConvertFails, Enter, QueueInv, GlobalsInv
  <2>3. AnswersInv'
    BY <1>3, <2>1 DEF ConvertFails, Enter, Return, AnswersInv, TypeOK, Calls
  <2> QED
    BY <2>2, <2>3
<1>4. CASE PumpJob
  <2>0. queue = <<calls>> /\ calls \in Calls
    BY <1>4 DEF PumpJob, QueueInv
  <2>1. queue = <<calls>> /\ calls \in Calls /\ Head(queue) = calls /\ Tail(queue) = <<>>
    BY <2>0
  <2>2. CASE left[calls] # 1
    <3>1. queue' = <<calls>>
      BY <1>4, <2>1, <2>2 DEF PumpJob, RunJob
    <3>2. QueueInv'
      BY <1>4, <2>1, <2>2, <3>1 DEF PumpJob, RunJob, QueueInv, TypeOK
    <3>3. GlobalsInv' /\ AnswersInv'
      BY <1>4, <2>1, <2>2, <3>1 DEF PumpJob, RunJob, GlobalsInv, AnswersInv
    <3> QED
      BY <3>2, <3>3
  <2>3. CASE left[calls] = 1
    <3>1. QueueInv'
      BY <1>4, <2>1, <2>3 DEF PumpJob, RunJob, QueueInv
    <3>2. GlobalsInv'
      BY <1>4, <2>1, <2>3 DEF PumpJob, RunJob, GlobalsInv, TypeOK, Ends
    <3>3. AnswersInv'
      BY <1>4, <2>1, <2>3 DEF PumpJob, RunJob, AnswersInv
    <3> QED
      BY <3>1, <3>2, <3>3
  <2> QED
    BY <2>2, <2>3
<1>5. CASE PumpJobThrows
  BY <1>5 DEF PumpJobThrows
<1>6. CASE PumpReturns
  <2>1. queue = <<>>
    BY <1>6 DEF PumpReturns, QueueInv, TypeOK
  <2>2. QueueInv' /\ GlobalsInv' /\ AnswersInv'
    BY <1>6, <2>1 DEF PumpReturns, QueueInv, GlobalsInv, AnswersInv
  <2> QED
    BY <2>2
<1>7. CASE ReadOutcome
  <2>1. queue = <<>> /\ calls \in Calls
    BY <1>7 DEF ReadOutcome, QueueInv, GlobalsInv
  <2>2. Stored = IF ends[calls] = "code" THEN Code(calls) ELSE Message(calls)
    BY <1>7, <2>1 DEF ReadOutcome, GlobalsInv, Stored, Calls
  <2>3. QueueInv' /\ GlobalsInv'
    BY <1>7, <2>1 DEF ReadOutcome, QueueInv, GlobalsInv
  <2>4. AnswersInv'
    BY <1>7, <2>1, <2>2 DEF ReadOutcome, Return, AnswersInv, TypeOK, Calls
  <2> QED
    BY <2>3, <2>4
<1>8. CASE ReadFails
  <2>1. queue = <<>> /\ calls \in Calls
    BY <1>8 DEF ReadFails, QueueInv, GlobalsInv
  <2>2. QueueInv' /\ GlobalsInv'
    BY <1>8, <2>1 DEF ReadFails, QueueInv, GlobalsInv
  <2>3. AnswersInv'
    BY <1>8, <2>1 DEF ReadFails, Return, AnswersInv, TypeOK, Calls
  <2> QED
    BY <2>2, <2>3
<1>9. CASE UNCHANGED vars
  BY <1>9 DEF vars, QueueInv, GlobalsInv, AnswersInv
<1> QED
  BY <1>1, <1>2, <1>3, <1>4, <1>5, <1>6, <1>7, <1>8, <1>9 DEF Next

LEMMA StepInv == IInv /\ [Next]_vars => IInv'
<1> SUFFICES ASSUME IInv, [Next]_vars PROVE IInv'
  OBVIOUS
<1>1. TypeOK'
  BY TypeStep DEF IInv
<1>2. short' => short
  BY DEF Next, vars, IInv, TypeOK, Convert, EvalThrows, ConvertFails, PumpJob,
         PumpJobThrows, PumpReturns, ReadOutcome, ReadFails
<1> QED
  BY <1>1, <1>2, StepShort DEF IInv

(* The string a conversion returns is its own code or its own message.      *)
THEOREM OwnAnswerCorrect == Spec => []OwnAnswer
<1>1. IInv => OwnAnswer
  BY DEF IInv, ShortInv, AnswersInv, OwnAnswer
<1> QED
  BY InitInv, StepInv, <1>1, PTL DEF Spec

(* No call leaves a job to the next. *)
THEOREM NothingLeftBehindCorrect == Spec => []NothingLeftBehind
<1>1. IInv => NothingLeftBehind
  BY DEF IInv, ShortInv, QueueInv, NothingLeftBehind
<1> QED
  BY InitInv, StepInv, <1>1, PTL DEF Spec

-----------------------------------------------------------------------------
(* What generate() returns is what qt_runtime_convert has answered.         *)
OutcomeInv ==
  \A k \in Calls : outcome[k] = "returns" => answer[k] \notin {NoAnswer, NullPointer}

LEMMA OutcomeStep == TypeOK /\ OutcomeInv /\ [Next]_vars => OutcomeInv'
<1> SUFFICES ASSUME TypeOK, OutcomeInv, [Next]_vars PROVE OutcomeInv'
  OBVIOUS
<1>1. ASSUME NEW k \in Calls, NEW a, a # NoAnswer, Return(k, a) PROVE OutcomeInv'
  BY <1>1 DEF TypeOK, OutcomeInv, Return, Outcome
<1>2. CASE UNCHANGED <<answer, outcome>>
  BY <1>2 DEF OutcomeInv
<1>3. NullPointer # NoAnswer /\ Stored # NoAnswer /\ \A k : Message(k) # NoAnswer
  BY DEF NullPointer, NoAnswer, Stored, Message, Code, NullText
<1>4. CASE EvalThrows \/ ConvertFails
  BY <1>1, <1>3, <1>4, EnterCalls DEF EvalThrows, ConvertFails
<1>5. CASE ReadOutcome \/ ReadFails
  <2>1. CASE calls \in Calls
    BY <1>1, <1>3, <1>5, <2>1 DEF ReadOutcome, ReadFails
  <2>2. CASE calls \notin Calls
    BY <1>2, <1>5, <2>2 DEF ReadOutcome, ReadFails, Return, TypeOK
  <2> QED
    BY <2>1, <2>2
<1> QED
  BY <1>2, <1>4, <1>5
  DEF Next, vars, Convert, PumpJob, PumpJobThrows, PumpReturns

(* generate() returns code as long as every conversion resolves within one  *)
(* call of pump: what it takes for code beyond that is the message of one   *)
(* that rejected, or the trace of one that did not settle.                  *)
Resolving == \A k \in Calls : ends[k] = "code"

THEOREM ReturnsCodeWhenResolving == Spec => [](short /\ Resolving => GenerateReturnsCode)
<1>1. Init => OutcomeInv
  BY DEF Init, OutcomeInv
<1>2. IInv /\ OutcomeInv /\ short /\ Resolving => GenerateReturnsCode
  <2> SUFFICES ASSUME IInv, OutcomeInv, short, Resolving,
                      NEW k \in Calls, outcome[k] = "returns"
               PROVE  answer[k].kind = "code"
    BY DEF GenerateReturnsCode
  <2>1. answer[k] = Code(k)
    BY DEF IInv, ShortInv, AnswersInv, OutcomeInv, Resolving
  <2> QED
    BY <2>1 DEF Code
<1>3. IInv => TypeOK
  BY DEF IInv
<1> QED
  BY InitInv, StepInv, OutcomeStep, <1>1, <1>2, <1>3, PTL DEF Spec

-----------------------------------------------------------------------------
(***************************************************************************)
(* Nobody is stuck.  MayRunOn is the disjunction of the guards of the      *)
(* steps inside a call; GuardsEnable is what the definition of ENABLED     *)
(* says of them, and the one thing about ENABLED that is assumed, since    *)
(* the provers cannot reason about it.                                     *)
(***************************************************************************)
MayRunOn ==
  \/ pc = "pumping" /\ pumped < PumpMax /\ queue # <<>>
  \/ pc = "pumping" /\ (queue = <<>> \/ pumped = PumpMax)
  \/ pc = "reading"

GuardsEnable == TypeOK /\ MayRunOn => CanRunOn

(* A call that was entered can go on, whatever jobs are queued.             *)
THEOREM NobodyStuckCorrect == Spec /\ []GuardsEnable => []NobodyStuck
<1>1. TypeOK /\ pc # "idle" => MayRunOn
  BY ShimAssumption DEF TypeOK, MayRunOn
<1>2. TypeOK /\ GuardsEnable => NobodyStuck
  BY <1>1 DEF GuardsEnable, NobodyStuck
<1> QED
  BY TypeCorrect, <1>2, PTL

-----------------------------------------------------------------------------
(***************************************************************************)
(* Termination.  The turns the pump may still take bound the steps of a    *)
(* call, whatever its jobs do: they are finite, every step of the call     *)
(* uses one up, and the call is over when none is left.                    *)
(***************************************************************************)
StepsLeft ==
  CASE pc = "pumping" -> PumpMax - pumped + 2
    [] pc = "reading" -> 1
    [] OTHER          -> 0

BoundedSteps == StepsLeft \in 0..(PumpMax + 2) /\ (StepsLeft = 0 <=> pc = "idle")
StepsCountDown == pc # "idle" => StepsLeft' < StepsLeft

(* One call of qt_runtime_convert takes at most PumpMax + 2 steps: a        *)
(* conversion that never settles does not keep the isolate for ever.        *)
THEOREM CallIsBounded == Spec => []BoundedSteps /\ [][StepsCountDown]_vars
<1>1. TypeOK => BoundedSteps
  BY ShimAssumption DEF TypeOK, StepsLeft, BoundedSteps
<1>2. ASSUME TypeOK, TypeOK', Next PROVE StepsCountDown
  <2> SUFFICES ASSUME pc # "idle" PROVE StepsLeft' < StepsLeft
    BY DEF StepsCountDown
  <2> USE ShimAssumption DEF TypeOK, StepsLeft
  <2>1. CASE PumpJob
    BY <1>2, <2>1 DEF PumpJob
  <2>2. CASE PumpJobThrows
    BY <1>2, <2>2 DEF PumpJobThrows
  <2>3. CASE PumpReturns
    BY <1>2, <2>3 DEF PumpReturns
  <2>4. CASE ReadOutcome \/ ReadFails
    BY <2>4 DEF ReadOutcome, ReadFails
  <2> QED
    BY <1>2, <2>1, <2>2, <2>3, <2>4 DEF Next, Convert, EvalThrows, ConvertFails, Enter
<1>3. TypeOK /\ TypeOK' /\ [Next]_vars => [StepsCountDown]_vars
  BY <1>2
<1> QED
  BY TypeCorrect, <1>1, <1>3, PTL DEF Spec

(* And none of these steps hangs.                                           *)
THEOREM EachStepIsTaken ==
  FairSpec /\ []GuardsEnable =>
    \A n \in Nat \ {0} : (StepsLeft = n) ~> (StepsLeft < n)
<1> SUFFICES ASSUME NEW n \in Nat \ {0}
             PROVE  FairSpec /\ []GuardsEnable => ((StepsLeft = n) ~> (StepsLeft < n))
  OBVIOUS
<1> DEFINE Now == StepsLeft = n
           Then == StepsLeft < n
<1>1. BoundedSteps /\ Now /\ [StepsCountDown]_vars => Now' \/ Then'
  BY DEF BoundedSteps, StepsCountDown, vars, StepsLeft
<1>2. BoundedSteps /\ Now /\ [StepsCountDown]_vars /\ <<RunOn>>_vars => Then'
  BY DEF BoundedSteps, StepsCountDown
<1>3. NobodyStuck /\ BoundedSteps /\ Now => CanRunOn
  BY DEF NobodyStuck, BoundedSteps
<1> HIDE DEF Now, Then
<1>4. FairSpec /\ []GuardsEnable => (Now ~> Then)
  BY CallIsBounded, NobodyStuckCorrect, <1>1, <1>2, <1>3, PTL
  DEF FairSpec, Fairness, CanRunOn
<1> QED
  BY <1>4 DEF Now, Then
=============================================================================
