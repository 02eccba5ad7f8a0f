----------------------- MODULE ProcessTransportProofs -----------------------
(***************************************************************************)
(* Theorems about ProcessTransport, for any number of overlapping calls.   *)
(***************************************************************************)
EXTENDS ProcessTransport, TLAPS

Over(c) == pc[c] \in {"cleaning", "done"}

(* A directory is there from its creation to the end of its call, and then  *)
(* only as long as it is deferred.                                          *)
DirectoryInv ==
  \A c \in Calls :
    /\ pc[c] \notin {"idle", "done"} => dir[c] = "there"
    /\ pc[c] = "idle" => dir[c] = "none"
    /\ pc[c] = "done" /\ dir[c] = "there" => c \in deferred
    /\ c \in deferred => pc[c] = "done"

(* What a call has seen of its program is so.                               *)
ProgramInv ==
  \A c \in Calls :
    /\ cli[c] # "exited" => exit[c] = "none"
    /\ pc[c] \in {"idle", "writing", "launching"} => cli[c] = "none"
    /\ pc[c] \in {"draining", "checking", "returning"} => cli[c] = "exited"
    /\ pc[c] = "returning" => exit[c] = "zero" /\ output[c]

(* An outcome that blames the program is right about it, now and later.     *)
OutcomeInv ==
  \A c \in Calls : Over(c) =>
    /\ outcome[c] # "none"
    /\ outcome[c] \in {"io", "launch"} => cli[c] = "none"
    /\ outcome[c] = "exit code" => cli[c] = "exited" /\ exit[c] # "zero"
    /\ outcome[c] = "no output" => cli[c] = "exited" /\ ~output[c]

(* A program that is not behind a launcher does not survive its call.       *)
KilledInv ==
  \A c \in Calls : ~Wrapped /\ Over(c) => cli[c] # "running"

IInv == TypeOK /\ DirectoryInv /\ ProgramInv /\ OutcomeInv /\ KilledInv

-----------------------------------------------------------------------------
LEMMA InitInv == Init => IInv
  BY DEF Init, IInv, TypeOK, PCs, Outcomes, DirectoryInv, ProgramInv, OutcomeInv,
     KilledInv, Over

(* A call that goes on: only its place changes. *)
LEMMA GotoStep ==
  ASSUME IInv, NEW c \in Calls,
         NEW l \in {"launching", "draining", "checking", "returning"},
         Goto(c, l), UNCHANGED <<dir, processes, outcome, deferred>>,
         pc[c] \notin {"idle", "cleaning", "done"},
         l = "launching" => pc[c] = "writing",
         l \in {"draining", "checking", "returning"} => cli[c] = "exited",
         l = "returning" => exit[c] = "zero" /\ output[c]
  PROVE  IInv'
<1> USE DEF IInv, TypeOK, Goto, processes
<1>1. TypeOK'
  BY DEF PCs
<1>2. DirectoryInv'
  BY DEF DirectoryInv
<1>3. ProgramInv'
  BY DEF ProgramInv
<1>4. OutcomeInv' /\ KilledInv'
  BY DEF OutcomeInv, KilledInv, Over
<1> QED
  BY <1>1, <1>2, <1>3, <1>4

(* A call whose outcome is decided, with the program in a state that fits. *)
LEMMA FinishStep ==
  ASSUME IInv, NEW c \in Calls, NEW what \in Outcomes \ {"none"},
         Finish(c, what), UNCHANGED <<dir, exit, output, busy, pipes, deferred>>,
         pc[c] \notin {"idle", "done"},
         cli' = cli \/ (cli[c] = "running" /\ cli' = [cli EXCEPT ![c] = "killed"]),
         ~Wrapped => cli'[c] # "running",
         what \in {"io", "launch"} => cli'[c] = "none",
         what = "exit code" => cli'[c] = "exited" /\ exit[c] # "zero",
         what = "no output" => cli'[c] = "exited" /\ ~output[c]
  PROVE  IInv'
<1>1. cli' \in [Calls -> {"none", "running", "killed", "exited"}]
  <2>1. cli \in [Calls -> {"none", "running", "killed", "exited"}]
    BY DEF IInv, TypeOK
  <2> QED
    BY <2>1
<1> USE DEF IInv, TypeOK, Goto, Finish
<1>2. \A d \in Calls : d # c => cli'[d] = cli[d] /\ outcome'[d] = outcome[d] /\ pc'[d] = pc[d]
  OBVIOUS
<1>3. pc'[c] = "cleaning" /\ outcome'[c] = what
  OBVIOUS
<1>4. TypeOK'
  <2>1. pc' \in [Calls -> PCs] /\ outcome' \in [Calls -> Outcomes]
    BY DEF PCs
  <2> QED
    BY <1>1, <2>1
<1>5. DirectoryInv'
  BY DEF DirectoryInv
<1>6. ProgramInv'
  <2> SUFFICES ASSUME NEW d \in Calls
               PROVE  /\ cli'[d] # "exited" => exit'[d] = "none"
                      /\ pc'[d] \in {"idle", "writing", "launching"} => cli'[d] = "none"
                      /\ pc'[d] \in {"draining", "checking", "returning"}
                           => cli'[d] = "exited"
                      /\ pc'[d] = "returning" => exit'[d] = "zero" /\ output'[d]
    BY DEF ProgramInv
  <2>1. exit' = exit /\ output' = output
    OBVIOUS
  <2>2. CASE d = c
    BY <1>3, <2>1, <2>2 DEF ProgramInv
  <2>3. CASE d # c
    <3>1. ProgramInv /\ cli'[d] = cli[d] /\ pc'[d] = pc[d]
      BY <1>2, <2>3
    <3> HIDE DEF IInv, TypeOK
    <3> QED
      BY <2>1, <3>1 DEF ProgramInv
  <2> QED
    BY <2>2, <2>3
<1>7. OutcomeInv'
  <2> SUFFICES ASSUME NEW d \in Calls, Over(d)'
               PROVE  /\ outcome'[d] # "none"
                      /\ outcome'[d] \in {"io", "launch"} => cli'[d] = "none"
                      /\ outcome'[d] = "exit code" => cli'[d] = "exited" /\ exit[d] # "zero"
                      /\ outcome'[d] = "no output" => cli'[d] = "exited" /\ ~output[d]
    BY DEF OutcomeInv
  <2>1. CASE d = c
    BY <1>3, <2>1
  <2>2. CASE d # c
    <3>1. Over(d) /\ outcome'[d] = outcome[d] /\ cli'[d] = cli[d]
      BY <1>2, <2>2 DEF Over
    <3> QED
      BY <3>1 DEF OutcomeInv
  <2> QED
    BY <2>1, <2>2
<1>8. KilledInv'
  BY <1>2, <1>3 DEF KilledInv, Over
<1> QED
  BY <1>4, <1>5, <1>6, <1>7, <1>8

(* Starting a call: with a directory, or over at once. *)
LEMMA CreateStep ==
  ASSUME IInv, NEW c \in Calls, CreateTemp(c) \/ CreateTempFails(c)
  PROVE  IInv'
<1> USE DEF IInv, TypeOK, Goto, processes, CreateTemp, CreateTempFails
<1>1. TypeOK'
  <2>1. CASE CreateTemp(c)
    BY <2>1 DEF PCs
  <2>2. CASE CreateTempFails(c)
    BY <2>2 DEF PCs, Outcomes
  <2> QED
    BY <2>1, <2>2
<1>2. DirectoryInv' /\ ProgramInv'
  BY DEF DirectoryInv, ProgramInv
<1>3. OutcomeInv'
  <2> SUFFICES ASSUME NEW d \in Calls, Over(d)'
               PROVE  /\ outcome'[d] # "none"
                      /\ outcome'[d] \in {"io", "launch"} => cli'[d] = "none"
                      /\ outcome'[d] = "exit code" => cli'[d] = "exited" /\ exit'[d] # "zero"
                      /\ outcome'[d] = "no output" => cli'[d] = "exited" /\ ~output'[d]
    BY DEF OutcomeInv
  <2>1. CASE d = c
    <3>1. outcome'[c] = "io" /\ cli'[c] = "none"
      BY <2>1 DEF ProgramInv, Over
    <3> QED
      BY <2>1, <3>1
  <2>2. CASE d # c
    <3>1. Over(d) /\ outcome'[d] = outcome[d]
      BY <2>2 DEF Over
    <3>2. cli' = cli /\ exit' = exit /\ output' = output
      OBVIOUS
    <3> QED
      BY <3>1, <3>2 DEF OutcomeInv
  <2> QED
    BY <2>1, <2>2
<1>4. KilledInv'
  BY DEF ProgramInv, KilledInv, Over
<1> QED
  BY <1>1, <1>2, <1>3, <1>4

LEMMA StepInv == IInv /\ [Next]_vars => IInv'
<1> SUFFICES ASSUME IInv, [Next]_vars PROVE IInv'
  OBVIOUS
<1>1. ASSUME NEW c \in Calls, WriteSource(c) \/ ExitCode(c) \/ Drain(c) PROVE IInv'
  <2>1. CASE WriteSource(c)
    BY <2>1, GotoStep DEF WriteSource
  <2>2. CASE ExitCode(c)
    BY <2>2, GotoStep DEF ExitCode
  <2>3. CASE Drain(c)
    BY <2>3, GotoStep DEF Drain, IInv, ProgramInv
  <2> QED
    BY <1>1, <2>1, <2>2, <2>3
<1>2. ASSUME NEW c \in Calls, Launch(c) PROVE IInv'
  <2> USE <1>2 DEF IInv, TypeOK, Launch, Goto
  <2>1. TypeOK'
    BY DEF PCs
  <2>2. DirectoryInv' /\ ProgramInv'
    BY DEF DirectoryInv, ProgramInv
  <2>3. OutcomeInv' /\ KilledInv'
    BY DEF OutcomeInv, KilledInv, Over
  <2> QED
    BY <2>1, <2>2, <2>3
<1>3. ASSUME NEW c \in Calls,
             WriteSourceFails(c) \/ LaunchFails(c) \/ DrainFails(c) \/ ReadOutput(c)
      PROVE  IInv'
  <2> USE DEF IInv, processes, Outcomes
  <2>1. CASE WriteSourceFails(c)
    BY <2>1, FinishStep DEF WriteSourceFails, ProgramInv
  <2>2. CASE LaunchFails(c)
    BY <2>2, FinishStep DEF LaunchFails, ProgramInv
  <2>3. CASE DrainFails(c)
    BY <2>3, FinishStep DEF DrainFails, ProgramInv
  <2>4. CASE ReadOutput(c)
    <3>1. HasOutput(c)
      BY <2>4 DEF ReadOutput, HasOutput, ProgramInv, DirectoryInv
    <3> QED
      BY <2>4, <3>1, FinishStep DEF ReadOutput, ProgramInv
  <2> QED
    BY <1>3, <2>1, <2>2, <2>3, <2>4
<1>4. ASSUME NEW c \in Calls, CheckResult(c) PROVE IInv'
  <2> USE DEF IInv, Outcomes
  <2>0. pc[c] = "checking" /\ cli[c] = "exited" /\ dir[c] = "there"
    BY <1>4 DEF CheckResult, ProgramInv, DirectoryInv
  <2>1. CASE exit[c] # "zero" /\ Finish(c, "exit code")
    BY <1>4, <2>0, <2>1, FinishStep DEF CheckResult, processes
  <2>2. CASE exit[c] = "zero" /\ ~HasOutput(c) /\ Finish(c, "no output")
    BY <1>4, <2>0, <2>2, FinishStep DEF CheckResult, processes, HasOutput
  <2>3. CASE exit[c] = "zero" /\ HasOutput(c) /\ Goto(c, "returning") /\ UNCHANGED outcome
    BY <1>4, <2>0, <2>3, GotoStep DEF CheckResult, processes, HasOutput
  <2> QED
    BY <1>4, <2>1, <2>2, <2>3 DEF CheckResult
<1>5. ASSUME NEW c \in Calls, Timeout(c) PROVE IInv'
  <2>1. \/ cli' = cli /\ (~Wrapped => cli[c] # "running")
        \/ cli[c] = "running" /\ cli' = [cli EXCEPT ![c] = "killed"]
    BY <1>5 DEF Timeout
  <2>2. ~Wrapped => cli'[c] # "running"
    BY <2>1 DEF IInv, TypeOK
  <2> QED
    BY <1>5, <2>1, <2>2, FinishStep DEF Timeout, Outcomes
<1> USE DEF IInv, TypeOK, Goto, processes
<1>6. ASSUME NEW c \in Calls, Cleanup(c) PROVE IInv'
  <2> DEFINE swept == {d \in deferred \cup {c} : dir[d] = "there"}
  <2>1. PICK stuck \in SUBSET {d \in swept : busy[d]} :
          /\ dir' = [d \in Calls |-> IF d \in swept \ stuck THEN "gone" ELSE dir[d]]
          /\ deferred' = stuck
    BY <1>6 DEF Cleanup
  <2>2. TypeOK'
    BY <1>6, <2>1 DEF Cleanup, PCs
  <2>3. DirectoryInv'
    BY <1>6, <2>1 DEF Cleanup, DirectoryInv
  <2>4. /\ pc[c] = "cleaning" /\ pc' = [pc EXCEPT ![c] = "done"]
        /\ UNCHANGED <<cli, exit, output, busy, pipes, outcome>>
    BY <1>6 DEF Cleanup
  <2>5. ProgramInv'
    <3>1. ProgramInv /\ \A d \in Calls : pc'[d] = IF d = c THEN "done" ELSE pc[d]
      BY <2>4
    <3> HIDE DEF IInv, TypeOK
    <3> QED
      BY <2>4, <3>1 DEF ProgramInv
  <2>6. \A d \in Calls : Over(d)' => Over(d)
    BY <2>4 DEF Over
  <2>7. OutcomeInv' /\ KilledInv'
    <3>1. OutcomeInv /\ KilledInv
      OBVIOUS
    <3> HIDE DEF IInv, TypeOK
    <3> QED
      BY <2>4, <2>6, <3>1 DEF OutcomeInv, KilledInv
  <2> QED
    BY <2>2, <2>3, <2>5, <2>7
<1>7. ASSUME NEW c \in Calls, NEW how \in {"zero", "nonzero"}, NEW wrote \in BOOLEAN,
             CliExits(c, how, wrote)
      PROVE  IInv'
  <2>1. (wrote /\ dir[c] = "there") \in BOOLEAN
    OBVIOUS
  <2>2. TypeOK'
    BY <1>7, <2>1 DEF CliExits
  <2>3. DirectoryInv' /\ ProgramInv'
    <3>1. DirectoryInv'
      BY <1>7 DEF CliExits, DirectoryInv
    <3>2. ProgramInv'
      BY <1>7 DEF CliExits, ProgramInv
    <3> QED
      BY <3>1, <3>2
  <2>4. OutcomeInv'
    BY <1>7 DEF CliExits, OutcomeInv, Over
  <2>5. KilledInv'
    BY <1>7 DEF CliExits, KilledInv, Over
  <2> QED
    BY <2>2, <2>3, <2>4, <2>5
<1>8. ASSUME NEW c \in Calls, CloseFiles(c) PROVE IInv'
  BY <1>8 DEF CloseFiles, DirectoryInv, ProgramInv, OutcomeInv, KilledInv, Over
<1>9. ASSUME NEW c \in Calls, PipesEnd(c) PROVE IInv'
  BY <1>9 DEF PipesEnd, DirectoryInv, ProgramInv, OutcomeInv, KilledInv, Over
<1>10. CASE UNCHANGED vars
  BY <1>10 DEF vars, DirectoryInv, ProgramInv, OutcomeInv, KilledInv, Over
<1> QED
  BY <1>1, <1>2, <1>3, <1>4, <1>5, <1>6, <1>7, <1>8, <1>9, <1>10, CreateStep
  DEF Next, Advance, Environment

-----------------------------------------------------------------------------
(* Every variable keeps its type. *)
THEOREM TypeCorrect == Spec => []TypeOK
<1>1. IInv => TypeOK
  BY DEF IInv
<1> QED
  BY InitInv, StepInv, <1>1, PTL DEF Spec

(* No temporary directory is forgotten, however many calls overlap and      *)
(* whichever of their steps fail.                                           *)
THEOREM NoDirectoryLeakedCorrect == Spec => []NoDirectoryLeaked
<1>1. IInv => NoDirectoryLeaked
  BY DEF IInv, DirectoryInv, NoDirectoryLeaked
<1> QED
  BY InitInv, StepInv, <1>1, PTL DEF Spec

(* A program that ended well and wrote its output is not reported as one    *)
(* that did not.                                                            *)
THEOREM OutputIsReturnedCorrect == Spec => []OutputIsReturned
<1>1. IInv => OutputIsReturned
  BY DEF IInv, TypeOK, Outcomes, ProgramInv, OutcomeInv, OutputIsReturned, Over
<1> QED
  BY InitInv, StepInv, <1>1, PTL DEF Spec

(* No program outlives its call, provided the executable is no launcher.    *)
THEOREM TimeoutTerminatesCorrect == ASSUME ~Wrapped PROVE Spec => []TimeoutTerminates
<1>1. IInv => TimeoutTerminates
  BY ~Wrapped DEF IInv, KilledInv, TimeoutTerminates, Over
<1> QED
  BY InitInv, StepInv, <1>1, PTL DEF Spec

-----------------------------------------------------------------------------
(***************************************************************************)
(* Nobody is stuck.  MayAdvance is the disjunction of the guards of a      *)
(* call's steps; that an action whose guard holds is enabled, by the       *)
(* definition of ENABLED, is the one thing assumed (GuardsEnable), since   *)
(* the provers cannot reason about ENABLED.                                *)
(***************************************************************************)
MayAdvance(c) ==
  \/ pc[c] \in {"writing", "launching", "running", "checking", "returning", "cleaning"}
  \/ pc[c] = "draining" /\ pipes[c] \in {"ended", "malformed"}

CanAdvance(c) == ENABLED <<Advance(c)>>_vars
GuardsEnable == TypeOK => \A c \in Calls : MayAdvance(c) => CanAdvance(c)

(* A call that waits for its program's output has pipes to wait for. *)
PipesInv == \A c \in Calls : pc[c] \in {"running", "draining"} => pipes[c] # "none"

LEMMA PipesStep == TypeOK /\ PipesInv /\ [Next]_vars => PipesInv'
<1> SUFFICES ASSUME TypeOK, PipesInv, [Next]_vars PROVE PipesInv'
  OBVIOUS
<1> USE DEF TypeOK, PipesInv, Goto, Finish, processes
<1>1. ASSUME NEW c \in Calls, NEW l, l \notin {"running", "draining"}, Goto(c, l),
             UNCHANGED pipes
      PROVE  PipesInv'
  BY <1>1
<1>2. ASSUME NEW c \in Calls, CreateTemp(c) \/ CreateTempFails(c) PROVE PipesInv'
  BY <1>1, <1>2 DEF CreateTemp, CreateTempFails
<1>3. ASSUME NEW c \in Calls, Launch(c) PROVE PipesInv'
  BY <1>3 DEF Launch
<1>4. ASSUME NEW c \in Calls, ExitCode(c) PROVE PipesInv'
  BY <1>4 DEF ExitCode
<1>5. ASSUME NEW c \in Calls, Advance(c), ~Launch(c), ~ExitCode(c) PROVE PipesInv'
  <2>1. (\E l : l \notin {"running", "draining"} /\ Goto(c, l)) /\ UNCHANGED pipes
    <3>1. CASE WriteSource(c) \/ WriteSourceFails(c) \/ LaunchFails(c)
      BY <3>1 DEF WriteSource, WriteSourceFails, LaunchFails
    <3>2. CASE Timeout(c) \/ Drain(c) \/ DrainFails(c)
      BY <3>2 DEF Timeout, Drain, DrainFails
    <3>3. CASE CheckResult(c) \/ ReadOutput(c) \/ Cleanup(c)
      BY <3>3 DEF CheckResult, ReadOutput, Cleanup
    <3> QED
      BY <1>5, <3>1, <3>2, <3>3 DEF Advance
  <2> QED
    BY <1>1, <2>1
<1>6. ASSUME NEW c \in Calls, Environment(c) PROVE PipesInv'
  BY <1>6 DEF Environment, CliExits, CloseFiles, PipesEnd
<1>7. CASE UNCHANGED vars
  BY <1>7 DEF vars
<1> QED
  BY <1>2, <1>3, <1>4, <1>5, <1>6, <1>7 DEF Next

(* The wait for pipes that stay open is the only place where a call has     *)
(* nothing to do: wherever else its program hangs, dies or fails, a step's  *)
(* guard holds, and so the step is enabled.                                 *)
NobodyStuck ==
  \A c \in Calls : pc[c] \notin {"idle", "done"} /\ ~Held(c) => CanAdvance(c)

LEMMA NeverStuck == Spec /\ []GuardsEnable => []NobodyStuck
<1>1. Init => PipesInv
  BY DEF Init, PipesInv
<1>2. ASSUME TypeOK, PipesInv, NEW c \in Calls, pc[c] \notin {"idle", "done"}, ~Held(c)
      PROVE  MayAdvance(c)
  BY <1>2 DEF TypeOK, PCs, PipesInv, Held, MayAdvance
<1>3. TypeOK /\ PipesInv /\ GuardsEnable => NobodyStuck
  BY <1>2 DEF GuardsEnable, NobodyStuck
<1> QED
  BY TypeCorrect, PipesStep, <1>1, <1>3, PTL DEF Spec

-----------------------------------------------------------------------------
(***************************************************************************)
(* Liveness.  A call only moves on, and fairness makes it, except that it  *)
(* may be held up by pipes that never end.  That a call that is not held   *)
(* can move at all is NeverStuck.                                          *)
(***************************************************************************)
At(c, l) == pc[c] = l
Drained(c) == pc[c] = "draining" /\ pipes[c] # "open"

(* The places a call may go to from where it is. *)
Onward(l) ==
  CASE l = "writing"   -> {"launching", "cleaning"}
    [] l = "launching" -> {"running", "cleaning"}
    [] l = "running"   -> {"draining", "cleaning"}
    [] l = "draining"  -> {"checking", "cleaning"}
    [] l = "checking"  -> {"returning", "cleaning"}
    [] l = "returning" -> {"cleaning"}
    [] l = "cleaning"  -> {"done"}
    [] OTHER           -> {}

LEMMA AdvanceMoves ==
  ASSUME TypeOK, NEW c \in Calls, Advance(c)
  PROVE  /\ pc'[c] \in Onward(pc[c])
         /\ \A d \in Calls \ {c} : pc'[d] = pc[d]
         /\ \A d \in Calls \ {c} : pipes'[d] = pipes[d]
         /\ ~Held(c)
<1> USE DEF TypeOK, Goto, Finish, processes, Onward, Held
<1>1. CASE WriteSource(c) \/ WriteSourceFails(c) \/ LaunchFails(c)
  BY <1>1 DEF WriteSource, WriteSourceFails, LaunchFails
<1>2. CASE Launch(c)
  BY <1>2 DEF Launch
<1>3. CASE ExitCode(c) \/ Timeout(c)
  BY <1>3 DEF ExitCode, Timeout
<1>4. CASE Drain(c) \/ DrainFails(c)
  BY <1>4 DEF Drain, DrainFails
<1>5. CASE CheckResult(c) \/ ReadOutput(c)
  BY <1>5 DEF CheckResult, ReadOutput
<1>6. CASE Cleanup(c)
  BY <1>6 DEF Cleanup
<1> QED
  BY <1>1, <1>2, <1>3, <1>4, <1>5, <1>6 DEF Advance

(* A call under way stays where it is, its pipes no less ended, or moves on. *)
LEMMA CallStep ==
  ASSUME TypeOK, [Next]_vars, NEW c \in Calls, pc[c] # "idle"
  PROVE  \/ pc'[c] \in Onward(pc[c])
         \/ pc'[c] = pc[c] /\ (pipes[c] # "open" => pipes'[c] # "open")
<1>1. ASSUME NEW d \in Calls, CreateTemp(d) \/ CreateTempFails(d)
      PROVE  pc'[c] = pc[c] /\ pipes' = pipes
  BY <1>1 DEF CreateTemp, CreateTempFails, Goto, processes, TypeOK
<1>2. ASSUME NEW d \in Calls, Advance(d)
      PROVE  \/ pc'[c] \in Onward(pc[c])
             \/ pc'[c] = pc[c] /\ pipes'[c] = pipes[c]
  BY <1>2, AdvanceMoves
<1>3. ASSUME NEW d \in Calls, Environment(d)
      PROVE  pc' = pc /\ (pipes[c] # "open" => pipes'[c] # "open")
  BY <1>3 DEF Environment, CliExits, CloseFiles, PipesEnd, TypeOK
<1> QED
  BY <1>1, <1>2, <1>3 DEF Next, vars

(* Every call ends, unless something keeps the pipes of its program open    *)
(* for ever after the program has ended.                                    *)
THEOREM CallReturnsCorrect == FairSpec /\ []GuardsEnable => CallReturns
<1> SUFFICES ASSUME NEW c \in Calls
             PROVE  FairSpec /\ []GuardsEnable =>
                      (pc[c] # "idle" ~> (pc[c] = "done" \/ []Held(c)))
  BY DEF CallReturns
<1> DEFINE Writing   == At(c, "writing")
           Launching == At(c, "launching")
           Going     == At(c, "running")
           Checking  == At(c, "checking")
           Returning == At(c, "returning")
           Cleaning  == At(c, "cleaning")
           Done      == At(c, "done")
<1>1. TypeOK /\ [Next]_vars =>
        /\ Writing => Writing' \/ Launching' \/ Cleaning'
        /\ Launching => Launching' \/ Going' \/ Cleaning'
        /\ Going => Going' \/ Held(c)' \/ Drained(c)' \/ Cleaning'
        /\ Held(c) => Held(c)' \/ Drained(c)' \/ Checking' \/ Cleaning'
        /\ Drained(c) => Drained(c)' \/ Checking' \/ Cleaning'
        /\ Checking => Checking' \/ Returning' \/ Cleaning'
        /\ Returning => Returning' \/ Cleaning'
        /\ Cleaning => Cleaning' \/ Done'
  BY CallStep DEF At, Onward, Held, Drained
<1>2. TypeOK /\ <<Advance(c)>>_vars =>
        /\ Writing => Launching' \/ Cleaning'
        /\ Launching => Going' \/ Cleaning'
        /\ Going => Held(c)' \/ Drained(c)' \/ Cleaning'
        /\ Drained(c) => Checking' \/ Cleaning'
        /\ Checking => Returning' \/ Cleaning'
        /\ Returning => Cleaning'
        /\ Cleaning => Done'
  BY AdvanceMoves DEF At, Onward, Held, Drained
<1>3. TypeOK /\ pc[c] # "idle" =>
        \/ Writing \/ Launching \/ Going \/ Held(c) \/ Drained(c)
        \/ Checking \/ Returning \/ Cleaning \/ Done
  BY DEF TypeOK, PCs, At, Held, Drained
<1>4. NobodyStuck =>
        (Writing \/ Launching \/ Going \/ Drained(c) \/ Checking \/ Returning \/ Cleaning
           => CanAdvance(c))
  BY DEF NobodyStuck, At, Held, Drained
<1>5. Done <=> pc[c] = "done"
  BY DEF At
<1>6. FairSpec => Spec /\ Fairness(c)
  BY DEF FairSpec
<1> HIDE DEF Writing, Launching, Going, Checking, Returning, Cleaning, Done
<1> QED
  BY TypeCorrect, NeverStuck, <1>1, <1>2, <1>3, <1>4, <1>5, <1>6, PTL
  DEF Spec, Fairness, CanAdvance
=============================================================================
