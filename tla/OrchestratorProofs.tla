------------------------- MODULE OrchestratorProofs -------------------------
(***************************************************************************)
(* Theorems about Orchestrator, for any configurations, files and number   *)
(* of processes and runs.                                                  *)
(***************************************************************************)
EXTENDS Orchestrator, ExpansionProofs

(* What the tool awaits is the program of the command that is next.        *)
RunInv ==
  /\ phase = "running" <=> current # NoPid
  /\ phase = "running" =>
       /\ Len(results) < Len(commands)
       /\ program[current] \in Programs
       /\ program[current].cmd = commands[Len(results) + 1]
  /\ phase = "idle" => results = <<>>

(* A run that has ended well has ended every command well.                 *)
ExitInv ==
  phase = "exited" /\ exitCode = 0 =>
    /\ Len(results) = Len(commands)
    /\ \A k \in DOMAIN results : results[k] # "failed"

(* No file is ever removed.  Without feedback the declared sources are as   *)
(* they were, so every program reads an original and every run expands to   *)
(* the same commands.                                                       *)
SourceInv ==
  /\ \A f \in tree : content[f] # Absent
  /\ Valid(config) /\ NoFeedback =>
       /\ \A f \in Files :
            Declared(config, f) => content[f] = IF f \in tree THEN Original ELSE Absent
       /\ \A n \in Pids :
            n = current \/ program[n] # NoProgram => program[n].of = "original"

ListInv ==
  phase \in {"executing", "running"} \/ (phase = "exited" /\ exitCode = 0) =>
    /\ Expand(config, tree) \subseteq {commands[n] : n \in DOMAIN commands}
    /\ NoFeedback => {commands[n] : n \in DOMAIN commands} = Expand(config, tree)

(* What nobody awaits has been recorded; what is awaited and has written    *)
(* has not been interfered with unless that has been recorded.              *)
StrayInv ==
  \A n \in Pids \ {current} : program[n] # NoProgram => TargetFile(program[n].cmd) \in outlived

WroteInv ==
  phase = "running" /\ program[current].stage \in {"wrote", "written"} =>
    \/ TargetFile(program[current].cmd) \in outlived
    \/ content[TargetFile(program[current].cmd)] =
         Generated(program[current].cmd, program[current].of)

IInv ==
  /\ TypeOK /\ RunInv /\ ExitInv
  /\ SourceInv /\ ListInv
  /\ StrayInv /\ WroteInv /\ SuccessIsGenerated

-----------------------------------------------------------------------------
(* Expansion. *)

(* What can be said of a command of the configuration. *)
LEMMA CommandFacts ==
  ASSUME config \in Configs, NEW c \in AllCommands
  PROVE  /\ Valid(config)
         /\ SourceFile(c) \in Files /\ Declared(config, SourceFile(c))
         /\ TargetFile(c) \in Files
         /\ NoFeedback => ~Declared(config, TargetFile(c))
<1>1. Valid(config) /\ c \in Expand(config, Files)
  BY DEF AllCommands, CommandsOf
<1>2. SourceFile(c) \in Files /\ Declared(config, SourceFile(c))
  BY <1>1, ExpandMember
<1>3. TargetFile(c) \in Files
  BY <1>1, OrchestratorAssumption
<1>4. NoFeedback => ~Declared(config, TargetFile(c))
  BY DEF NoFeedback
<1> QED
  BY <1>1, <1>2, <1>3, <1>4

(* More files, more paths. *)
LEMMA MoreFound ==
  ASSUME NEW files, NEW more, files \subseteq more
  PROVE  \A i : SourcePaths(config, files, i) \subseteq SourcePaths(config, more, i)
<1> SUFFICES ASSUME NEW i, NEW p \in SourcePaths(config, files, i)
             PROVE  p \in SourcePaths(config, more, i)
  OBVIOUS
<1>1. FileAt(p) \in files /\ p \in SourcePaths(config, {FileAt(p)}, i)
  BY PathsFound
<1> QED
  BY <1>1, PathsFound

(* A run's list holds the commands its files call for. *)
LEMMA ListingFacts ==
  ASSUME config \in Configs, Valid(config), NEW files \in SUBSET Files,
         NEW list \in Listings(config, files)
  PROVE  /\ list \in Seq(AllCommands)
         /\ {list[n] : n \in DOMAIN list} = Expand(config, files)
<1> DEFINE C == Expand(config, files)
<1>1. C \subseteq AllCommands
  <2>1. \A i \in KeptSources(config) :
          SourcePaths(config, files, i) \subseteq SourcePaths(config, Files, i)
    BY MoreFound
  <2> QED
    BY <2>1, ExpandMonotone DEF AllCommands, CommandsOf
<1>2. Cardinality(C) \in Nat
  <2>1. IsFiniteSet(AllCommands)
    BY OrchestratorAssumption DEF AllCommands, CommandsOf
  <2> QED
    BY <1>1, <2>1, FS_Subset, FS_CardinalityType
<1>3. list \in [1..Cardinality(C) -> C] /\ {list[n] : n \in DOMAIN list} = C
  BY DEF Listings
<1>4. list \in Seq(C)
  BY <1>2, <1>3
<1> QED
  BY <1>1, <1>3, <1>4

(* Expansion depends on the declared files only. *)
LEMMA ExpandSame ==
  ASSUME NEW files \in SUBSET Files, NEW more \in SUBSET Files,
         \A f \in Files : Declared(config, f) => (f \in files <=> f \in more)
  PROVE  Expand(config, files) = Expand(config, more)
<1>1. \A i \in KeptSources(config) :
        SourcePaths(config, files, i) = SourcePaths(config, more, i)
  <2> SUFFICES ASSUME NEW i \in KeptSources(config), NEW p
               PROVE  p \in SourcePaths(config, files, i) <=> p \in SourcePaths(config, more, i)
    BY DEF SourcePaths
  <2>1. p \in SourcePaths(config, {FileAt(p)}, i) => Declared(config, FileAt(p))
    BY DEF Declared
  <2> QED
    BY <2>1, PathsFound
<1>2. Expand(config, files) \subseteq Expand(config, more)
  BY <1>1, ExpandMonotone
<1>3. Expand(config, more) \subseteq Expand(config, files)
  BY <1>1, ExpandMonotone
<1> QED
  BY <1>2, <1>3

-----------------------------------------------------------------------------
(* The invariant. *)

LEMMA InitInv == Init => IInv
<1> SUFFICES ASSUME Init PROVE IInv
  OBVIOUS
<1> USE DEF Init
<1>1. TypeOK
  BY OrchestratorAssumption DEF TypeOK, Contents
<1>2. RunInv /\ ExitInv /\ ListInv
  BY OrchestratorAssumption DEF RunInv, ExitInv, ListInv
<1>3. SourceInv /\ StrayInv /\ WroteInv /\ SuccessIsGenerated
  BY OrchestratorAssumption DEF SourceInv, StrayInv, WroteInv, SuccessIsGenerated
<1> QED
  BY <1>1, <1>2, <1>3 DEF IInv

(* The configuration never changes, nor what depends on it alone. *)
LEMMA GivenSame ==
  ASSUME UNCHANGED given
  PROVE  /\ AllCommands' = AllCommands /\ Programs' = Programs /\ Contents' = Contents
         /\ NoFeedback' = NoFeedback
         /\ \A f : Declared(config, f)' = Declared(config, f)
<1>1. config' = config
  BY DEF given
<1>2. AllCommands' = AllCommands
  BY <1>1 DEF AllCommands, CommandsOf
<1> QED
  BY <1>1, <1>2 DEF Programs, Contents, NoFeedback, Declared

(* A present file that is declared was there at first, without feedback. *)
LEMMA PresentDeclared ==
  ASSUME TypeOK, SourceInv, Valid(config), NoFeedback
  PROVE  Expand(config, Present) = Expand(config, tree)
<1>1. Present \in SUBSET Files /\ tree \in SUBSET Files
  BY OrchestratorAssumption DEF Present, TypeOK
<1>2. \A f \in Files : Declared(config, f) => (f \in Present <=> f \in tree)
  BY OrchestratorAssumption DEF Present, SourceInv
<1> QED
  BY <1>1, <1>2, ExpandSame

LEMMA RejectStep == IInv /\ Reject => IInv'
<1> SUFFICES ASSUME IInv, Reject PROVE IInv'
  OBVIOUS
<1> USE GivenSame DEF IInv, Reject, given
<1>1. TypeOK'
  BY DEF TypeOK
<1>2. RunInv' /\ ExitInv' /\ ListInv'
  BY DEF RunInv, ExitInv, ListInv
<1>3. SourceInv' /\ StrayInv' /\ WroteInv'
  BY DEF SourceInv, StrayInv, WroteInv
<1>4. SuccessIsGenerated'
  BY DEF RunInv, SuccessIsGenerated
<1> QED
  BY <1>1, <1>2, <1>3, <1>4

LEMMA BuildStep == IInv /\ Build => IInv'
<1> SUFFICES ASSUME IInv, Build PROVE IInv'
  OBVIOUS
<1> USE GivenSame DEF IInv, Build, given
<1>0. Present \in SUBSET Files
  BY DEF Present
<1>1. /\ commands' \in Seq(AllCommands)
      /\ {commands'[n] : n \in DOMAIN commands'} = Expand(config, Present)
  BY <1>0, ListingFacts DEF TypeOK
<1>2. outlived' \subseteq Files
  BY CommandFacts DEF TypeOK, Free, Programs
<1>3. TypeOK'
  BY <1>1, <1>2 DEF TypeOK
<1>4. RunInv' /\ ExitInv'
  BY DEF RunInv, ExitInv, TypeOK
<1>5. ListInv'
  <2>1. tree \subseteq Present
    BY OrchestratorAssumption DEF Present, SourceInv, TypeOK
  <2>2. Expand(config, tree) \subseteq Expand(config, Present)
    BY <2>1, MoreFound, ExpandMonotone
  <2> QED
    BY <1>1, <2>2, PresentDeclared DEF ListInv
<1>6. SourceInv' /\ StrayInv' /\ WroteInv' /\ SuccessIsGenerated'
  BY DEF SourceInv, StrayInv, WroteInv, SuccessIsGenerated, Free
<1> QED
  BY <1>3, <1>4, <1>5, <1>6

LEMMA LaunchStep == IInv /\ Launch => IInv'
<1> SUFFICES ASSUME IInv, Launch PROVE IInv'
  OBVIOUS
<1> USE GivenSame DEF IInv, given, Unfinished
<1> DEFINE cmd == commands[Len(results) + 1]
           new == [cmd |-> cmd, stage |-> "started", of |-> "original"]
<1>1. PICK n \in Free : /\ program' = [program EXCEPT ![n] = new]
                        /\ current' = n
  BY DEF Launch
<1>2. n \in Pids /\ program[n] = NoProgram /\ n # NoPid /\ current = NoPid
  BY OrchestratorAssumption DEF Free, Launch, RunInv
<1>3. UNCHANGED <<config, tree, content, commands, results, exitCode, runs, outlived>>
  BY DEF Launch
<1>4. phase = "executing" /\ phase' = "running" /\ Len(results) < Len(commands)
  BY DEF Launch
<1>5. cmd \in AllCommands
  BY <1>4 DEF TypeOK
<1>6. new \in Programs
  BY <1>5 DEF Programs, Running, Whether
<1>7. TypeOK'
  BY <1>1, <1>2, <1>3, <1>4, <1>6 DEF TypeOK
<1>8. program'[n] = new
  BY <1>1, <1>2 DEF TypeOK
<1>9. RunInv' /\ ExitInv'
  BY <1>1, <1>2, <1>3, <1>4, <1>6, <1>8 DEF RunInv, ExitInv
<1>10. ListInv'
  BY <1>3, <1>4 DEF ListInv
<1>11. SourceInv'
  <2>1. \A m \in Pids : m # n => program'[m] = program[m]
    BY <1>1, <1>2 DEF TypeOK
  <2>2. new.of = "original"
    OBVIOUS
  <2>3. \A m \in Pids : m = current' \/ program'[m] # NoProgram =>
          m = n \/ program[m] # NoProgram
    BY <1>1, <2>1
  <2> QED
    BY <1>3, <1>8, <2>1, <2>2, <2>3 DEF SourceInv
<1>12. StrayInv'
  <2>1. \A m \in Pids \ {n} : program'[m] = program[m] /\ m # current
    BY <1>1, <1>2, OrchestratorAssumption DEF TypeOK
  <2> QED
    BY <1>1, <1>3, <2>1 DEF StrayInv
<1>13. WroteInv'
  BY <1>1, <1>8 DEF WroteInv
<1>14. SuccessIsGenerated'
  BY <1>3, <1>4 DEF SuccessIsGenerated, Started, TypeOK
<1> QED
  BY <1>7, <1>9, <1>10, <1>11, <1>12, <1>13, <1>14

(* The process of a command that is over, when the tool lets go of it.     *)
LEMMA ReleaseFacts ==
  ASSUME IInv, phase = "running", NEW goesOn \in BOOLEAN, Release(goesOn),
         UNCHANGED <<given, content, exitCode, runs>>
  PROVE  /\ current' = NoPid
         /\ program' \in [Pids -> Programs \cup {NoProgram}]
         /\ outlived' \subseteq Files /\ outlived \subseteq outlived'
         /\ StrayInv' /\ SourceInv'
<1> USE GivenSame DEF IInv, given, Release
<1>1. current \in Pids /\ current # NoPid /\ program[current] \in Programs
  BY DEF RunInv, TypeOK
<1>2. program[current].cmd \in AllCommands
  BY <1>1 DEF Programs
<1>3. TargetFile(program[current].cmd) \in Files
  BY <1>2, CommandFacts DEF TypeOK
<1>4. /\ program' \in [Pids -> Programs \cup {NoProgram}]
      /\ outlived' \subseteq Files /\ outlived \subseteq outlived'
  BY <1>1, <1>3 DEF TypeOK
<1>5. \A n \in Pids : program'[n] # NoProgram =>
        program'[n] = program[n] /\ (n = current => TargetFile(program[n].cmd) \in outlived')
  BY <1>1 DEF TypeOK
<1>6. StrayInv'
  BY <1>4, <1>5 DEF StrayInv
<1>7. SourceInv'
  BY <1>1, <1>5, OrchestratorAssumption DEF SourceInv
<1> QED
  BY <1>4, <1>6, <1>7

(* A command is over.  When its result says that it has generated its file, *)
(* its program had written it and ended.                                    *)
LEMMA CollectStep ==
  ASSUME IInv, phase = "running", NEW goesOn \in BOOLEAN, Release(goesOn),
         NEW result \in {"generated", "silent", "failed"}, Collect(result),
         result = "generated" => program[current].stage = "written",
         UNCHANGED <<given, content, commands, exitCode, runs>>
  PROVE  IInv'
<1> USE GivenSame DEF IInv, given, Collect
<1> DEFINE k == Len(results) + 1
<1>1. /\ current' = NoPid
      /\ program' \in [Pids -> Programs \cup {NoProgram}]
      /\ outlived' \subseteq Files /\ outlived \subseteq outlived'
      /\ StrayInv' /\ SourceInv'
  BY ReleaseFacts
<1>2. /\ results' \in Seq({"generated", "silent", "failed"})
      /\ Len(results') = k /\ k <= Len(commands) /\ k \in Nat
      /\ results'[k] = result
      /\ \A j \in DOMAIN results' : j # k => j \in DOMAIN results /\ results'[j] = results[j]
  BY DEF TypeOK, RunInv
<1>3. TypeOK'
  BY <1>1, <1>2 DEF TypeOK
<1>4. RunInv' /\ ExitInv' /\ ListInv' /\ WroteInv'
  BY <1>1 DEF RunInv, ExitInv, ListInv, WroteInv
<1>5. SuccessIsGenerated'
  <2> SUFFICES ASSUME NEW j \in DOMAIN results', results'[j] = "generated"
               PROVE  \/ \E l \in (j + 1)..Started' : TargetFile(commands'[l]) = TargetFile(commands'[j])
                      \/ TargetFile(commands'[j]) \in outlived'
                      \/ \E of \in Whether :
                           /\ content'[TargetFile(commands'[j])] = Generated(commands'[j], of)
                           /\ NoFeedback' => of = "original"
    BY DEF SuccessIsGenerated, Generated
  <2>1. Started' = Started
    BY <1>2 DEF Started, TypeOK
  <2>2. CASE j # k
    BY <1>1, <1>2, <2>1, <2>2 DEF SuccessIsGenerated
  <2>3. CASE j = k
    <3> DEFINE p == program[current]
    <3>1. /\ current \in Pids /\ p \in Programs
          /\ p.cmd = commands[k] /\ p.stage = "written"
      BY <1>2, <2>3 DEF RunInv, TypeOK
    <3>2. \/ TargetFile(p.cmd) \in outlived
          \/ content[TargetFile(p.cmd)] = Generated(p.cmd, p.of)
      BY <3>1 DEF WroteInv
    <3>3. p.of \in Whether /\ p.cmd \in AllCommands
      BY <3>1 DEF Programs
    <3>4. NoFeedback => p.of = "original"
      <4>1. Valid(config)
        BY <3>3, CommandFacts DEF TypeOK
      <4> QED
        BY <3>1, <4>1 DEF SourceInv
    <3> QED
      BY <1>1, <2>3, <3>1, <3>2, <3>3, <3>4
  <2> QED
    BY <2>2, <2>3
<1> QED
  BY <1>1, <1>3, <1>4, <1>5

(* The tool stops: at its end, or killed, or to be run again. *)
LEMMA StopStep == IInv /\ (Finish \/ Crash \/ Rerun) => IInv'
<1> SUFFICES ASSUME IInv, Finish \/ Crash \/ Rerun PROVE IInv'
  OBVIOUS
<1> USE GivenSame DEF IInv, given
<1>1. CASE Finish
  <2> USE <1>1 DEF Finish
  <2>1. TypeOK'
    BY DEF TypeOK
  <2>2. RunInv' /\ ExitInv' /\ ListInv' /\ WroteInv'
    BY DEF RunInv, ExitInv, ListInv, WroteInv
  <2>3. SourceInv' /\ StrayInv'
    BY DEF SourceInv, StrayInv
  <2>4. SuccessIsGenerated'
    BY DEF SuccessIsGenerated, Started
  <2> QED
    BY <2>1, <2>2, <2>3, <2>4
<1>2. CASE Crash
  <2> USE <1>2 DEF Crash
  <2>1. /\ current' = NoPid
        /\ program' \in [Pids -> Programs \cup {NoProgram}]
        /\ outlived' \subseteq Files
        /\ StrayInv' /\ SourceInv'
    <3>1. CASE current = NoPid
      BY <3>1 DEF TypeOK, StrayInv, SourceInv
    <3>2. CASE current # NoPid
      <4>1. PICK goesOn \in BOOLEAN : Release(goesOn)
        BY <3>2
      <4> QED
        BY <3>2, <4>1, ReleaseFacts DEF RunInv
    <3> QED
      BY <3>1, <3>2
  <2>2. TypeOK'
    BY <2>1 DEF TypeOK
  <2>3. RunInv' /\ ExitInv' /\ ListInv' /\ WroteInv' /\ SuccessIsGenerated'
    BY <2>1 DEF RunInv, ExitInv, ListInv, WroteInv, SuccessIsGenerated
  <2> QED
    BY <2>1, <2>2, <2>3
<1>3. CASE Rerun
  <2> USE <1>3 DEF Rerun
  <2>1. TypeOK'
    BY DEF TypeOK
  <2>2. RunInv' /\ ExitInv' /\ ListInv' /\ WroteInv' /\ SuccessIsGenerated'
    BY DEF RunInv, ExitInv, ListInv, WroteInv, SuccessIsGenerated
  <2>3. SourceInv' /\ StrayInv'
    BY DEF SourceInv, StrayInv
  <2> QED
    BY <2>1, <2>2, <2>3
<1> QED
  BY <1>1, <1>2, <1>3

(* A command that cannot be started is over at once. *)
LEMMA LaunchFailsStep == IInv /\ LaunchFails => IInv'
<1> SUFFICES ASSUME IInv, LaunchFails PROVE IInv'
  OBVIOUS
<1> USE GivenSame DEF IInv, given, LaunchFails, Unfinished, Collect
<1> DEFINE k == Len(results) + 1
<1>1. /\ results' \in Seq({"generated", "silent", "failed"})
      /\ Len(results') = k /\ k <= Len(commands) /\ k \in Nat
      /\ results'[k] = "failed"
      /\ \A j \in DOMAIN results' : j # k => j \in DOMAIN results /\ results'[j] = results[j]
  BY DEF TypeOK
<1>2. TypeOK'
  BY <1>1 DEF TypeOK
<1>3. RunInv' /\ ExitInv' /\ ListInv' /\ WroteInv'
  BY DEF RunInv, ExitInv, ListInv, WroteInv
<1>4. SourceInv' /\ StrayInv'
  BY DEF SourceInv, StrayInv
<1>5. SuccessIsGenerated'
  <2> SUFFICES ASSUME NEW j \in DOMAIN results', results'[j] = "generated"
               PROVE  \/ \E l \in (j + 1)..Started' : TargetFile(commands'[l]) = TargetFile(commands'[j])
                      \/ TargetFile(commands'[j]) \in outlived'
                      \/ \E of \in Whether :
                           /\ content'[TargetFile(commands'[j])] = Generated(commands'[j], of)
                           /\ NoFeedback' => of = "original"
    BY DEF SuccessIsGenerated, Generated
  <2>1. j \in DOMAIN results /\ results[j] = "generated"
    BY <1>1
  <2>2. (j + 1)..Started \subseteq (j + 1)..Started'
    BY <1>1, <2>1 DEF Started, TypeOK
  <2> QED
    BY <2>1, <2>2 DEF SuccessIsGenerated
<1> QED
  BY <1>2, <1>3, <1>4, <1>5

-----------------------------------------------------------------------------
(* The programs. *)

(* A step of a program leaves the tool alone and its command as it was; it  *)
(* changes no file but its target, and has written that when it says so.    *)
Moves(n, q, new) ==
  /\ program[n] # NoProgram /\ q \in Programs
  /\ \/ program' = [program EXCEPT ![n] = q]
     \/ n # current /\ program' = [program EXCEPT ![n] = NoProgram]
  /\ q.cmd = program[n].cmd
  /\ NoFeedback /\ program[n].of = "original" => q.of = "original"
  /\ UNCHANGED <<given, tool, current>>
  /\ new \in Contents /\ content' = [content EXCEPT ![TargetFile(q.cmd)] = new]
  /\ new = Absent => content[TargetFile(q.cmd)] = Absent
  /\ q.stage = "wrote" => new = Generated(q.cmd, q.of)
  /\ q.stage = "written" => /\ program[n].stage = "wrote" /\ q.of = program[n].of
                            /\ new = content[TargetFile(q.cmd)]

LEMMA ProgramStep ==
  ASSUME IInv, NEW n \in Pids, NEW q, NEW new, Moves(n, q, new)
  PROVE  IInv'
<1> USE GivenSame DEF IInv, given, tool, Moves
<1> DEFINE p == program[n]
           f == TargetFile(p.cmd)
<1>1. p \in Programs /\ p.cmd \in AllCommands
  BY DEF TypeOK, Programs
<1>2. f \in Files /\ Valid(config) /\ (NoFeedback => ~Declared(config, f))
  BY <1>1, CommandFacts DEF TypeOK
<1>3. /\ program' \in [Pids -> Programs \cup {NoProgram}]
      /\ \A m \in Pids : m # n => program'[m] = program[m]
      /\ program'[n] = q \/ (n # current /\ program'[n] = NoProgram)
  BY DEF TypeOK
<1>4. /\ content' \in [Files -> Contents]
      /\ content'[f] = new
      /\ \A g \in Files : g # f => content'[g] = content[g]
  BY <1>2 DEF TypeOK
<1>5. TypeOK'
  BY <1>3, <1>4 DEF TypeOK
<1>6. RunInv' /\ ExitInv' /\ ListInv'
  <2>1. phase = "running" =>
          program'[current] \in Programs /\ program'[current].cmd = program[current].cmd
    BY <1>3 DEF RunInv, TypeOK
  <2>2. RunInv'
    BY <2>1 DEF RunInv
  <2> QED
    BY <2>2 DEF ExitInv, ListInv
<1>7. SourceInv'
  <2>1. NoFeedback => q.of = "original"
    BY <1>2 DEF SourceInv
  <2>2. \A m \in Pids : NoFeedback /\ (m = current \/ program'[m] # NoProgram) =>
          program'[m].of = "original"
    BY <1>2, <1>3, <2>1 DEF SourceInv
  <2>3. \A g \in Files : NoFeedback /\ Declared(config, g) => content'[g] = content[g]
    BY <1>2, <1>4
  <2>4. \A g \in tree : content'[g] # Absent
    BY <1>4, OrchestratorAssumption DEF TypeOK, SourceInv
  <2> QED
    BY <2>2, <2>3, <2>4 DEF SourceInv
<1>8. StrayInv'
  BY <1>3 DEF StrayInv
<1>9. n # current => f \in outlived
  BY DEF StrayInv
<1>10. WroteInv'
  <2> SUFFICES ASSUME phase = "running", program'[current].stage \in {"wrote", "written"},
                      TargetFile(program'[current].cmd) \notin outlived
               PROVE  content'[TargetFile(program'[current].cmd)] =
                        Generated(program'[current].cmd, program'[current].of)
    BY DEF WroteInv, Generated
  <2>1. CASE n = current
    <3>1. program'[current] = q
      BY <1>3, <2>1
    <3>2. CASE q.stage = "wrote"
      BY <1>4, <3>1, <3>2
    <3>3. CASE q.stage = "written"
      BY <1>4, <2>1, <3>1, <3>3 DEF WroteInv, Generated
    <3> QED
      BY <3>1, <3>2, <3>3
  <2>2. CASE n # current
    <3>1. /\ current \in Pids /\ program'[current] = program[current]
          /\ program[current].cmd \in AllCommands
      BY <1>3, <2>2 DEF RunInv, TypeOK, Programs
    <3>2. TargetFile(program[current].cmd) \in Files \ {f}
      BY <1>9, <2>2, <3>1, CommandFacts DEF TypeOK
    <3> QED
      BY <1>4, <3>1, <3>2 DEF WroteInv
  <2> QED
    BY <2>1, <2>2
<1>11. SuccessIsGenerated'
  <2> SUFFICES ASSUME NEW j \in DOMAIN results, results[j] = "generated",
                      TargetFile(commands[j]) \notin outlived,
                      ~ \E l \in (j + 1)..Started : TargetFile(commands[l]) = TargetFile(commands[j])
               PROVE  \E of \in Whether :
                        /\ content'[TargetFile(commands[j])] = Generated(commands[j], of)
                        /\ NoFeedback => of = "original"
    BY DEF SuccessIsGenerated, Started, Generated
  <2>1. TargetFile(commands[j]) \in Files
    BY CommandFacts DEF TypeOK
  <2>2. TargetFile(commands[j]) # f
    <3>1. CASE n # current
      BY <1>9, <3>1
    <3>2. CASE n = current
      <4>1. phase = "running" /\ p.cmd = commands[Len(results) + 1]
        BY <3>2, OrchestratorAssumption DEF RunInv
      <4>2. Started = Len(results) + 1 /\ Len(results) + 1 \in (j + 1)..Started
        BY <4>1 DEF Started, TypeOK
      <4> QED
        BY <4>1, <4>2
    <3> QED
      BY <3>1, <3>2
  <2> QED
    BY <1>4, <2>1, <2>2 DEF SuccessIsGenerated
<1> QED
  BY <1>5, <1>6, <1>7, <1>8, <1>10, <1>11

LEMMA WorkStep ==
  ASSUME IInv, NEW n \in Pids, Work(n)
  PROVE  IInv'
<1> DEFINE p == program[n]
           f == TargetFile(p.cmd)
<1>1. p # NoProgram /\ p \in Programs /\ p.cmd \in AllCommands
  BY DEF Work, ReadSource, StartWriting, WriteTarget, End, Become, IInv, TypeOK, Programs
<1>2. f \in Files /\ Valid(config) /\ SourceFile(p.cmd) \in Files /\ Declared(config, SourceFile(p.cmd))
  BY <1>1, CommandFacts DEF IInv, TypeOK
<1>3. /\ content \in [Files -> Contents] /\ content[f] \in Contents
      /\ content = [content EXCEPT ![f] = content[f]]
  BY <1>2 DEF IInv, TypeOK
<1>4. CASE ReadSource(n)
  <2>1. PICK of \in Whether :
          of = IF content[SourceFile(p.cmd)] = Original THEN "original" ELSE "changed"
    BY DEF Whether
  <2> DEFINE q == [p EXCEPT !.stage = "read", !.of = of]
  <2>2. program' = [program EXCEPT ![n] = q]
    BY <1>4, <2>1 DEF ReadSource, Become
  <2>3. q \in Programs /\ q.cmd = p.cmd /\ q.stage = "read" /\ q.of = of
    BY <1>1 DEF Programs, Running
  <2>4. NoFeedback => of = "original"
    <3>1. content[SourceFile(p.cmd)] # Absent
      BY <1>4 DEF ReadSource
    <3> QED
      BY <1>2, <2>1, <3>1 DEF IInv, SourceInv
  <2>5. UNCHANGED <<given, tool, current>> /\ content' = [content EXCEPT ![f] = content[f]]
    BY <1>3, <1>4 DEF ReadSource, Become
  <2>6. content' = [content EXCEPT ![TargetFile(q.cmd)] = content[TargetFile(q.cmd)]]
    BY <2>3, <2>5
  <2>7. content[TargetFile(q.cmd)] \in Contents
    BY <1>3, <2>3
  <2> HIDE DEF q
  <2>8. Moves(n, q, content[TargetFile(q.cmd)])
    BY <1>1, <2>2, <2>3, <2>4, <2>5, <2>6, <2>7 DEF Moves
  <2> QED
    BY <2>8, ProgramStep
<1>5. CASE StartWriting(n)
  <2> DEFINE q == [p EXCEPT !.stage = "writing", !.of = p.of]
  <2>1. program' = [program EXCEPT ![n] = q]
    BY <1>5 DEF StartWriting, Become
  <2>2. q \in Programs /\ q.cmd = p.cmd /\ q.stage = "writing" /\ q.of = p.of
    BY <1>1 DEF Programs, Running
  <2>3. UNCHANGED <<given, tool, current>> /\ content' = [content EXCEPT ![f] = Torn]
    BY <1>5 DEF StartWriting, Become
  <2>4. Torn \in Contents /\ Torn # Absent
    BY OrchestratorAssumption DEF Contents
  <2> HIDE DEF q
  <2> QED
    BY <1>1, <2>1, <2>2, <2>3, <2>4, ProgramStep DEF Moves
<1>6. CASE WriteTarget(n)
  <2> DEFINE q == [p EXCEPT !.stage = "wrote", !.of = p.of]
             new == Generated(p.cmd, p.of)
  <2>1. program' = [program EXCEPT ![n] = q]
    BY <1>6 DEF WriteTarget, Become
  <2>2. q \in Programs /\ q.cmd = p.cmd /\ q.stage = "wrote" /\ q.of = p.of
    BY <1>1 DEF Programs, Running
  <2>3. UNCHANGED <<given, tool, current>> /\ content' = [content EXCEPT ![f] = new]
    BY <1>6 DEF WriteTarget, Become
  <2>4. new \in Contents /\ new # Absent
    <3>1. p.of \in Whether /\ p.cmd \in AllCommands
      BY <1>1 DEF Programs
    <3>2. config \in Configs /\ Valid(config) /\ p.cmd \in Expand(config, Files)
      BY <1>2, <3>1 DEF AllCommands, CommandsOf, IInv, TypeOK
    <3>3. new # Absent
      BY <3>1, <3>2, OrchestratorAssumption
    <3> QED
      BY <3>1, <3>3 DEF Contents, Generated
  <2> HIDE DEF q, new
  <2>5. new = Generated(q.cmd, q.of)
    BY <2>2 DEF new
  <2> QED
    BY <1>1, <2>1, <2>2, <2>3, <2>4, <2>5, ProgramStep DEF Moves
<1>7. CASE End(n)
  <2>1. PICK stage \in {"error", "written", "silent"} :
          /\ stage = "written" => p.stage = "wrote"
          /\ program' = [program EXCEPT ![n] =
               IF n = current THEN [program[n] EXCEPT !.stage = stage] ELSE NoProgram]
    BY <1>7 DEF End
  <2> DEFINE r == [p EXCEPT !.stage = stage]
  <2>2. r \in Programs /\ r.cmd = p.cmd /\ r.stage = stage /\ r.of = p.of
    BY <1>1 DEF Programs, Ended
  <2>3. PICK q \in Programs :
          q = r /\ q.cmd = p.cmd /\ q.stage = stage /\ q.of = p.of
    BY <2>2
  <2>4. \/ program' = [program EXCEPT ![n] = q]
        \/ n # current /\ program' = [program EXCEPT ![n] = NoProgram]
    BY <2>1, <2>3
  <2>5. UNCHANGED <<given, tool, current>> /\ content' = content
    BY <1>7 DEF End
  <2>6. PICK new \in Contents :
          /\ new = content[TargetFile(q.cmd)]
          /\ content' = [content EXCEPT ![TargetFile(q.cmd)] = new]
    BY <1>3, <2>3, <2>5
  <2>7. Moves(n, q, new)
    BY <1>1, <2>1, <2>3, <2>4, <2>5, <2>6 DEF Moves
  <2> QED
    BY <2>7, ProgramStep
<1> QED
  BY <1>4, <1>5, <1>6, <1>7 DEF Work

-----------------------------------------------------------------------------
LEMMA StepInv == IInv /\ [Next]_vars => IInv'
<1> SUFFICES ASSUME IInv, [Next]_vars PROVE IInv'
  OBVIOUS
<1>1. ASSUME phase = "running", NEW result \in {"generated", "silent", "failed"},
             Collect(result), \E goesOn \in BOOLEAN : Release(goesOn),
             result = "generated" => program[current].stage = "written",
             UNCHANGED <<given, content, commands, exitCode, runs>>
      PROVE  IInv'
  BY <1>1, CollectStep
<1>2. CASE ExitCode
  <2>1. PICK result \in {"failed", CASE program[current].stage = "written" -> "generated"
                                   [] program[current].stage = "silent" -> "silent"
                                   [] OTHER -> "failed"} : Collect(result)
    BY <1>2 DEF ExitCode
  <2>2. /\ result \in {"generated", "silent", "failed"}
        /\ result = "generated" => program[current].stage = "written"
    BY <2>1
  <2> QED
    BY <1>1, <1>2, <2>1, <2>2 DEF ExitCode
<1>3. CASE Timeout
  BY <1>1, <1>3 DEF Timeout
<1>4. CASE UNCHANGED vars
  <2> USE <1>4, GivenSame DEF vars, given, IInv
  <2>1. TypeOK'
    BY DEF TypeOK
  <2>2. RunInv' /\ ExitInv' /\ ListInv' /\ WroteInv'
    BY DEF RunInv, ExitInv, ListInv, WroteInv
  <2>3. SourceInv' /\ StrayInv' /\ SuccessIsGenerated'
    BY DEF SourceInv, StrayInv, SuccessIsGenerated, Started
  <2> QED
    BY <2>1, <2>2, <2>3
<1> QED
  BY <1>2, <1>3, <1>4, RejectStep, BuildStep, LaunchStep, LaunchFailsStep, StopStep, WorkStep
  DEF Next, Advance

-----------------------------------------------------------------------------
(* Every variable keeps its type. *)
THEOREM TypeCorrect == Spec => []TypeOK
<1>1. IInv => TypeOK
  BY DEF IInv
<1> QED
  BY InitInv, StepInv, <1>1, PTL DEF Spec

(* Whatever earlier runs have left behind, a run executes the commands that *)
(* the files at first call for, without feedback.                           *)
THEOREM RunsAreAlikeCorrect == Spec => []RunsAreAlike
<1>1. IInv => RunsAreAlike
  BY DEF IInv, ListInv, RunsAreAlike
<1> QED
  BY InitInv, StepInv, <1>1, PTL DEF Spec

(* A target whose command has succeeded holds what that command generates,  *)
(* up to later commands and programs that nobody awaits.                    *)
THEOREM SuccessIsGeneratedCorrect == Spec => []SuccessIsGenerated
<1>1. IInv => SuccessIsGenerated
  BY DEF IInv
<1> QED
  BY InitInv, StepInv, <1>1, PTL DEF Spec

(* Exit code 0 means that every declared source has been converted for      *)
(* every declared target.                                                   *)
THEOREM ExitZeroMeansAllCorrect == Spec => []ExitZeroMeansAll
<1>1. IInv => ExitZeroMeansAll
  <2> SUFFICES ASSUME IInv, phase = "exited", exitCode = 0,
                      NEW c \in Expand(config, tree)
               PROVE  \E k \in DOMAIN results : commands[k] = c /\ results[k] # "failed"
    BY DEF ExitZeroMeansAll
  <2>1. PICK k \in DOMAIN commands : commands[k] = c
    BY DEF IInv, ListInv
  <2>2. k \in DOMAIN results /\ results[k] # "failed"
    BY DEF IInv, ExitInv, TypeOK
  <2> QED
    BY <2>1, <2>2
<1> QED
  BY InitInv, StepInv, <1>1, PTL DEF Spec

-----------------------------------------------------------------------------
(***************************************************************************)
(* The list of a run repeats no command and, without feedback, has only    *)
(* those the files at first call for, also when the run has failed.        *)
(***************************************************************************)
OnceInv ==
  /\ \A m, n \in DOMAIN commands :
       SameSource(commands[m], commands[n]) /\ commands[m].slot = commands[n].slot => m = n
  /\ NoFeedback => \A n \in DOMAIN commands : commands[n] \in Expand(config, tree)

LEMMA OnceStep == IInv /\ OnceInv /\ [Next]_vars => OnceInv'
<1> SUFFICES ASSUME IInv, OnceInv, [Next]_vars PROVE OnceInv'
  OBVIOUS
<1>1. UNCHANGED given
  BY DEF Next, vars, given, Advance, Reject, Build, Launch, LaunchFails, ExitCode, Timeout,
         Finish, Crash, Rerun, Work, ReadSource, StartWriting, WriteTarget, End, Become
<1>2. CASE Build
  <2>1. commands' \in Listings(config, Present)
    BY <1>2 DEF Build
  <2>2. IsFiniteSet(Expand(config, Present))
    <3>1. Expand(config, Present) \subseteq Expand(config, Files)
      BY MoreFound, ExpandMonotone DEF Present
    <3>2. IsFiniteSet(Expand(config, Files))
      BY <1>2, OrchestratorAssumption DEF Build, IInv, TypeOK
    <3> QED
      BY <3>1, <3>2, FS_Subset
  <2>3. \A n \in DOMAIN commands' : commands'[n] \in Expand(config, Present)
    BY <2>1 DEF Listings
  <2>4. NoFeedback => Expand(config, Present) = Expand(config, tree)
    BY <1>2, PresentDeclared DEF Build, IInv
  <2> QED
    BY <1>1, <2>1, <2>2, <2>3, <2>4, ListingDistinct, GivenSame DEF OnceInv, given
<1>3. CASE UNCHANGED commands
  BY <1>1, <1>3, GivenSame DEF OnceInv, given
<1>4. CASE commands' = <<>>
  BY <1>4 DEF OnceInv
<1> QED
  BY <1>2, <1>3, <1>4
  DEF Next, vars, tool, Advance, Reject, Launch, LaunchFails, Unfinished, ExitCode,
      Timeout, Finish, Crash, Rerun, Work, ReadSource, StartWriting, WriteTarget,
      End, Become

LEMMA OnceCorrect == Spec => [](IInv /\ OnceInv)
<1>1. Init => OnceInv
  BY DEF Init, OnceInv
<1> QED
  BY InitInv, StepInv, OnceStep, <1>1, PTL DEF Spec

-----------------------------------------------------------------------------
(***************************************************************************)
(* What a run leaves behind.  When targets are neither shared nor sources, *)
(* what a command has generated stays, to the end of the run and after it, *)
(* whether the run succeeds or not.                                        *)
(***************************************************************************)
Stays ==
  NoFeedback /\ TargetsApart(config, tree) =>
    \A k \in DOMAIN results : results[k] = "generated" =>
      \/ TargetFile(commands[k]) \in outlived
      \/ content[TargetFile(commands[k])] = Generated(commands[k], "original")

LEMMA StaysFollows == ASSUME IInv, OnceInv PROVE Stays
<1> SUFFICES ASSUME NoFeedback, TargetsApart(config, tree),
                    NEW k \in DOMAIN results, results[k] = "generated"
             PROVE  \/ TargetFile(commands[k]) \in outlived
                    \/ content[TargetFile(commands[k])] = Generated(commands[k], "original")
  BY DEF Stays
<1>1. /\ DOMAIN results = 1..Len(results) /\ DOMAIN commands = 1..Len(commands)
      /\ Len(results) \in Nat /\ Len(commands) \in Nat
      /\ Started \in Len(results)..Len(commands)
  BY DEF IInv, TypeOK, RunInv, Started
<1>2. ASSUME NEW l \in (k + 1)..Started, TargetFile(commands[l]) = TargetFile(commands[k]) PROVE FALSE
  <2>1. k \in DOMAIN commands /\ l \in DOMAIN commands /\ k # l
    BY <1>1
  <2>2. commands[l] = commands[k]
    BY <1>2, <2>1 DEF OnceInv, TargetsApart
  <2> QED
    BY <2>1, <2>2 DEF OnceInv, SameSource
<1> QED
  BY <1>2 DEF IInv, SuccessIsGenerated

(* A success stays.                                                         *)
THEOREM SuccessStays == Spec => []Stays
  BY OnceCorrect, StaysFollows, PTL

(* After an exit with code 0 every target holds what its source generates.  *)
THEOREM ExitZeroMeansGeneratedCorrect == Spec => []ExitZeroMeansGenerated
<1>1. ASSUME IInv, OnceInv PROVE ExitZeroMeansGenerated
  <2> SUFFICES ASSUME phase = "exited", exitCode = 0, NoFeedback,
                      TargetsApart(config, tree),
                      \A k \in DOMAIN results : results[k] # "silent",
                      NEW c \in Expand(config, tree)
               PROVE  TargetFile(c) \in outlived \/ content[TargetFile(c)] = Generated(c, "original")
    BY DEF ExitZeroMeansGenerated
  <2>1. PICK k \in DOMAIN commands : commands[k] = c
    BY <1>1 DEF IInv, ListInv
  <2>2. k \in DOMAIN results /\ results[k] = "generated"
    BY <1>1 DEF IInv, ExitInv, TypeOK
  <2> QED
    BY <1>1, <2>1, <2>2, StaysFollows DEF Stays
<1> QED
  BY OnceCorrect, <1>1, PTL

(* Feedback takes a target type whose extension ends a source's.  Without   *)
(* one, every run executes exactly the commands the files at first call     *)
(* for, whatever the directories are and whatever was left in them.         *)
THEOREM ForeignRunsAreAlike ==
  ASSUME NEW parts
  PROVE  Spec => [](/\ Lexical(config, Files, parts) /\ Foreign(config)
                    /\ phase \in {"executing", "running"}
                    => {commands[n] : n \in DOMAIN commands} = Expand(config, tree))
<1> DEFINE Alike ==
             /\ Lexical(config, Files, parts) /\ Foreign(config)
             /\ phase \in {"executing", "running"}
             => {commands[n] : n \in DOMAIN commands} = Expand(config, tree)
<1>1. ASSUME config \in Configs, Lexical(config, Files, parts), Foreign(config)
      PROVE  NoFeedback
  BY <1>1, TargetsAreNoSources DEF NoFeedback, AllCommands, CommandsOf
<1>2. IInv => Alike
  BY <1>1 DEF IInv, TypeOK, ListInv
<1> QED
  BY OnceCorrect, <1>2, PTL

-----------------------------------------------------------------------------
(***************************************************************************)
(* Nobody is stuck.  MayAdvance is the disjunction of the guards of the    *)
(* tool's steps; that an action whose guard holds is enabled, by the       *)
(* definition of ENABLED, is the one thing assumed (GuardsEnable), since   *)
(* the provers cannot reason about ENABLED.  To launch is not among them:  *)
(* the system may have no room for a program, and then LaunchFails.        *)
(***************************************************************************)
UnderWay == phase \in {"executing", "running"}

MayAdvance ==
  \/ phase = "executing" /\ Len(results) < Len(commands)
  \/ phase = "executing" /\ Len(results) = Len(commands)
  \/ phase = "running"

CanAdvance == ENABLED <<Advance>>_vars
GuardsEnable == TypeOK /\ MayAdvance => CanAdvance

(* While it is under way the tool can go on, whatever its programs do.      *)
LEMMA NeverStuck == Spec /\ []GuardsEnable => [](UnderWay => CanAdvance)
<1>1. TypeOK /\ UnderWay => MayAdvance
  BY DEF TypeOK, UnderWay, MayAdvance
<1>2. TypeOK /\ GuardsEnable => (UnderWay => CanAdvance)
  BY <1>1 DEF GuardsEnable
<1> QED
  BY TypeCorrect, <1>2, PTL

-----------------------------------------------------------------------------
(***************************************************************************)
(* Termination.  Each command left takes the tool two steps at most, to    *)
(* launch it and to collect its result, and ending the run takes one.      *)
(***************************************************************************)
CommandsLeft == Len(commands) - Len(results)
StepsLeft ==
  CASE phase = "executing" -> 2 * CommandsLeft + 1
    [] phase = "running"   -> 2 * CommandsLeft
    [] OTHER               -> 0

BoundedSteps == StepsLeft \in 0..(2 * Len(commands) + 1) /\ (StepsLeft = 0 <=> ~UnderWay)

(* The tool's own steps count down, and nobody else's count up again.       *)
StepsCountDown ==
  UnderWay => IF Advance THEN StepsLeft' < StepsLeft
                         ELSE StepsLeft' = StepsLeft \/ StepsLeft' = 0

LEMMA AdvanceCounts == ASSUME IInv, IInv', UnderWay, Advance PROVE StepsLeft' < StepsLeft
<1> USE DEF IInv, TypeOK, UnderWay, StepsLeft, CommandsLeft
<1>1. ASSUME NEW r \in {"generated", "silent", "failed"}, Collect(r), UNCHANGED commands,
             Len(results) < Len(commands)
      PROVE  StepsLeft' < StepsLeft
  <2>1. Len(results') = Len(results) + 1 /\ phase' = "executing"
    BY <1>1 DEF Collect
  <2> QED
    BY <1>1, <2>1
<1>2. CASE Launch
  <2>1. /\ phase = "executing" /\ phase' = "running"
        /\ UNCHANGED <<commands, results>>
    BY <1>2 DEF Launch, Unfinished
  <2> QED
    BY <2>1
<1>3. CASE LaunchFails
  BY <1>1, <1>3 DEF LaunchFails, Unfinished
<1>4. CASE ExitCode
  <2>1. \E r \in {"generated", "silent", "failed"} : Collect(r)
    BY <1>4 DEF ExitCode
  <2> QED
    BY <1>1, <1>4, <2>1 DEF ExitCode, RunInv
<1>5. CASE Timeout
  BY <1>1, <1>5 DEF Timeout, RunInv
<1>6. CASE Finish
  BY <1>6 DEF Finish
<1> QED
  BY <1>2, <1>3, <1>4, <1>5, <1>6 DEF Advance

(* A run takes at most 2n + 1 steps of the tool for n commands, with any    *)
(* number of steps of its programs and of older ones in between.            *)
THEOREM RunIsBounded == Spec => []BoundedSteps /\ [][StepsCountDown]_vars
<1>1. IInv => BoundedSteps
  BY DEF IInv, TypeOK, RunInv, UnderWay, CommandsLeft, StepsLeft, BoundedSteps
<1>2. ASSUME IInv, IInv', Next PROVE StepsCountDown
  <2>1. CASE Reject \/ Build \/ Rerun
    BY <2>1 DEF Reject, Build, Rerun, UnderWay, StepsCountDown
  <2>2. CASE Crash
    BY <2>2, AdvanceCounts, <1>2 DEF Crash, StepsLeft, StepsCountDown
  <2>3. ASSUME NEW n \in Pids, Work(n) PROVE StepsCountDown
    <3>1. UNCHANGED <<phase, commands, results>>
      BY <2>3 DEF Work, ReadSource, StartWriting, WriteTarget, End, Become, tool
    <3> QED
      BY <1>2, <3>1, AdvanceCounts DEF StepsCountDown, StepsLeft, CommandsLeft
  <2> QED
    BY <1>2, <2>1, <2>2, <2>3, AdvanceCounts DEF Next, StepsCountDown
<1>3. IInv /\ IInv' /\ [Next]_vars => [StepsCountDown]_vars
  BY <1>2
<1> QED
  BY InitInv, StepInv, <1>1, <1>3, PTL DEF Spec

(* And none of the tool's steps is put off for ever.                        *)
THEOREM EachStepIsTaken ==
  FairSpec /\ []GuardsEnable =>
    \A n \in Nat \ {0} : (StepsLeft = n) ~> (StepsLeft < n)
<1> SUFFICES ASSUME NEW n \in Nat \ {0}
             PROVE  FairSpec /\ []GuardsEnable => ((StepsLeft = n) ~> (StepsLeft < n))
  OBVIOUS
<1> DEFINE Now == StepsLeft = n
           Then == StepsLeft < n
<1>1. BoundedSteps /\ Now /\ [StepsCountDown]_vars => Now' \/ Then'
  BY DEF BoundedSteps, StepsCountDown, vars, StepsLeft, CommandsLeft
<1>2. BoundedSteps /\ Now /\ [StepsCountDown]_vars /\ <<Advance>>_vars => Then'
  BY DEF BoundedSteps, StepsCountDown
<1>3. (UnderWay => CanAdvance) /\ BoundedSteps /\ Now => CanAdvance
  BY DEF BoundedSteps, UnderWay
<1> HIDE DEF Now, Then
<1>4. FairSpec /\ []GuardsEnable => (Now ~> Then)
  BY RunIsBounded, NeverStuck, <1>1, <1>2, <1>3, PTL
  DEF FairSpec, Fairness, CanAdvance
<1> QED
  BY <1>4 DEF Now, Then
=============================================================================
