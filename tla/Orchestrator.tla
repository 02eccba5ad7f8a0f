---------------------------- MODULE Orchestrator ----------------------------
(***************************************************************************)
(* The command line tool: the commands of a configuration are executed one *)
(* after the other (lib/entrypoint_cli.dart, lib/src/quicktype.dart).      *)
(*                                                                         *)
(* Each command runs the quicktype program, which reads its source and     *)
(* writes its target in steps of its own.  The tool may be killed at any   *)
(* time and run again on what it has left behind.                          *)
(***************************************************************************)
EXTENDS Expansion

CONSTANTS
  Configs,   \* contents of quicktype.json
  Trees,     \* sets of files there may be at first
  Files,     \* all files there may ever be
  Absent,    \* content of a file that is not there
  Original,  \* content a file had before the tool was run
  Torn,      \* content of a file whose writing has begun
  Wrapped,   \* the executable is a launcher that a kill may end alone
  Pids, NoPid, NoProgram,  \* processes the system has room for
  MaxRuns    \* bound on how often the tool is run

(* What a program writes: of which command, and whether it had read its     *)
(* source as the user left it.                                              *)
Generated(cmd, of) == [by |-> cmd, of |-> of]
Whether == {"original", "changed"}

ASSUME OrchestratorAssumption ==
  /\ \A files \in Trees : files \subseteq Files
  /\ \A cfg \in Configs : Valid(cfg) =>
       /\ IsFiniteSet(Expand(cfg, Files))
       /\ \A c \in Expand(cfg, Files) :
            TargetFile(c) \in Files /\ \A of \in Whether : Generated(c, of) # Absent
  /\ Absent \notin {Original, Torn}
  /\ Wrapped \in BOOLEAN
  /\ NoPid \notin Pids
  /\ MaxRuns \in Nat

VARIABLES
  config, tree,  \* the configuration, and the files at first; never change
  content,       \* [Files -> Contents]: the file system
  phase,         \* where the tool is in _generateFromConfig
  commands,      \* what buildCommandsFromConfig returned
  results,       \* what executeAll has collected; "silent" is a success like
                 \* "generated", of a program that had written nothing
  program,       \* [Pids -> Programs or NoProgram]: quicktype processes
  current,       \* the process execute() awaits
  exitCode,      \* of the tool, when it has exited
  runs,          \* how often it has been started
  outlived       \* history: files that programs nobody awaits may have
                 \* written during this run

vars == <<config, tree, content, phase, commands, results, program, current,
          exitCode, runs, outlived>>
given == <<config, tree>>
tool == <<phase, commands, results, exitCode, runs, outlived>>

Running == {"started", "read", "writing", "wrote"}
Ended == {"written", "silent", "error"}

Init ==
  /\ config \in Configs
  /\ tree \in Trees
  /\ content = [f \in Files |-> IF f \in tree THEN Original ELSE Absent]
  /\ phase = "idle"
  /\ commands = <<>> /\ results = <<>>
  /\ program = [n \in Pids |-> NoProgram]
  /\ current = NoPid
  /\ exitCode = 0
  /\ runs = 0
  /\ outlived = {}

(* Processes are alike: a new one gets some number that is free. *)
Free == {n \in Pids : program[n] = NoProgram}
Present == {f \in Files : content[f] # Absent}

-----------------------------------------------------------------------------
(* The tool. *)

(* Reading the configuration or expanding it throws. *)
Reject ==
  /\ phase = "idle" /\ runs < MaxRuns
  /\ ~Valid(config)
  /\ phase' = "exited" /\ exitCode' = 1
  /\ runs' = runs + 1
  /\ UNCHANGED <<given, content, commands, results, program, current, outlived>>

(* Mutant: a run leaves out the targets that are there. *)
BuildMissing ==
  /\ phase = "idle" /\ runs < MaxRuns
  /\ Valid(config)
  /\ commands' \in {SelectSeq(list, LAMBDA c : content[TargetFile(c)] = Absent) :
                     list \in Listings(config, Present)}
  /\ results' = <<>>
  /\ phase' = "executing"
  /\ runs' = runs + 1
  /\ outlived' = {TargetFile(program[n].cmd) : n \in Pids \ Free}
  /\ UNCHANGED <<given, content, program, current, exitCode>>

(* Loading the configuration and expanding it, which nothing interrupts. *)
Build ==
  /\ phase = "idle" /\ runs < MaxRuns
  /\ Valid(config)
  /\ commands' \in Listings(config, Present)
  /\ results' = <<>>
  /\ phase' = "executing"
  /\ runs' = runs + 1
  /\ outlived' = {TargetFile(program[n].cmd) : n \in Pids \ Free}
  /\ UNCHANGED <<given, content, program, current, exitCode>>

(* execute() returns: the next round of the loop in executeAll. *)
Collect(result) ==
  /\ results' = Append(results, result)
  /\ phase' = "executing"

Unfinished == phase = "executing" /\ Len(results) < Len(commands)

Launch ==
  /\ Unfinished /\ Free # {}
  /\ LET n == CHOOSE m \in Free : TRUE IN
       /\ program' = [program EXCEPT ![n] =
            [cmd |-> commands[Len(results) + 1], stage |-> "started", of |-> "original"]]
       /\ current' = n
  /\ phase' = "running"
  /\ UNCHANGED <<given, content, commands, results, exitCode, runs, outlived>>

(* Mutant: a round after the last. *)
LaunchFailsAgain ==
  /\ phase = "executing"
  /\ Collect("failed")
  /\ UNCHANGED <<given, content, commands, program, current, exitCode, runs, outlived>>

(* The directory cannot be made, there is no executable, start() throws. *)
LaunchFails ==
  /\ Unfinished
  /\ Collect("failed")
  /\ UNCHANGED <<given, content, commands, program, current, exitCode, runs, outlived>>

(* The awaited process is gone, or goes on with nobody to wait for it. *)
Release(goesOn) ==
  /\ current' = NoPid
  /\ IF goesOn
       THEN outlived' = outlived \cup {TargetFile(program[current].cmd)} /\ UNCHANGED program
       ELSE program' = [program EXCEPT ![current] = NoProgram] /\ UNCHANGED outlived

(* Mutant: whatever the program exits with is a success. *)
ExitCodeIgnored ==
  /\ phase = "running" /\ program[current].stage \in Ended
  /\ Collect("generated")
  /\ Release(FALSE)
  /\ UNCHANGED <<given, content, commands, exitCode, runs>>

(* The program has ended, and so have its pipes (ProcessTransport has the  *)
(* case where they do not); what they brought may not decode.              *)
ExitCode ==
  /\ phase = "running" /\ program[current].stage \in Ended
  /\ \E result \in {"failed", CASE program[current].stage = "written" -> "generated"
                                [] program[current].stage = "silent" -> "silent"
                                [] OTHER -> "failed"} : Collect(result)
  /\ Release(FALSE)
  /\ UNCHANGED <<given, content, commands, exitCode, runs>>

(* Mutant: the exit code is awaited before the time limit is looked at. *)
TimeoutAfterExit ==
  /\ phase = "running" /\ program[current].stage \in Ended
  /\ Collect("failed")
  /\ Release(FALSE)
  /\ UNCHANGED <<given, content, commands, exitCode, runs>>

(* The time limit passes first.  A launcher's program may outlive the kill. *)
Timeout ==
  /\ phase = "running"
  /\ Collect("failed")
  /\ \E goesOn \in BOOLEAN :
       /\ goesOn => Wrapped /\ program[current].stage \in Running
       /\ Release(goesOn)
  /\ UNCHANGED <<given, content, commands, exitCode, runs>>

(* Mutant: the last result decides. *)
FinishLast ==
  /\ phase = "executing" /\ Len(results) = Len(commands)
  /\ exitCode' = IF results # <<>> /\ results[Len(results)] = "failed" THEN 1 ELSE 0
  /\ phase' = "exited"
  /\ UNCHANGED <<given, content, commands, results, program, current, runs, outlived>>

Finish ==
  /\ phase = "executing" /\ Len(results) = Len(commands)
  /\ exitCode' = IF \E n \in DOMAIN results : results[n] = "failed" THEN 1 ELSE 0
  /\ phase' = "exited"
  /\ UNCHANGED <<given, content, commands, results, program, current, runs, outlived>>

(* The tool is killed, perhaps without the program it waits for. *)
Crash ==
  /\ phase \in {"executing", "running"}
  /\ phase' = "idle"
  /\ commands' = <<>> /\ results' = <<>>
  /\ IF current = NoPid
       THEN UNCHANGED <<program, current, outlived>>
       ELSE \E goesOn \in BOOLEAN :
              /\ goesOn => program[current].stage \in Running
              /\ Release(goesOn)
  /\ UNCHANGED <<given, content, exitCode, runs>>

(* The user runs it again. *)
Rerun ==
  /\ phase = "exited"
  /\ phase' = "idle"
  /\ commands' = <<>> /\ results' = <<>>
  /\ UNCHANGED <<given, content, program, current, exitCode, runs, outlived>>

-----------------------------------------------------------------------------
(* The quicktype program. *)

Become(n, from, stage, of) ==
  /\ program[n] # NoProgram
  /\ program[n].stage = from
  /\ program' = [program EXCEPT ![n] = [@ EXCEPT !.stage = stage, !.of = of]]
  /\ UNCHANGED <<given, tool, current>>

ReadSource(n) ==
  /\ Become(n, "started", "read",
            IF content[SourceFile(program[n].cmd)] = Original THEN "original" ELSE "changed")
  /\ content[SourceFile(program[n].cmd)] # Absent
  /\ UNCHANGED content

StartWriting(n) ==
  /\ Become(n, "read", "writing", program[n].of)
  /\ content' = [content EXCEPT ![TargetFile(program[n].cmd)] = Torn]

WriteTarget(n) ==
  /\ Become(n, "writing", "wrote", program[n].of)
  /\ content' = [content EXCEPT ![TargetFile(program[n].cmd)] =
                   Generated(program[n].cmd, program[n].of)]

(* It ends, with an error at any time; a program nobody awaits is gone. *)
End(n) ==
  /\ program[n] # NoProgram /\ program[n].stage \in Running
  /\ \E stage \in {"error", CASE program[n].stage = "wrote" -> "written"
                              [] program[n].stage = "writing" -> "error"
                              [] OTHER -> "silent"} :
       program' = [program EXCEPT ![n] =
         IF n = current THEN [program[n] EXCEPT !.stage = stage] ELSE NoProgram]
  /\ UNCHANGED <<given, tool, content, current>>

-----------------------------------------------------------------------------
Advance == Launch \/ LaunchFails \/ ExitCode \/ Timeout \/ Finish

Work(n) == ReadSource(n) \/ StartWriting(n) \/ WriteTarget(n) \/ End(n)

Next ==
  \/ Reject \/ Build \/ Advance \/ Crash \/ Rerun
  \/ \E n \in Pids : Work(n)

(* The event loop runs what is ready and the timer of a process fires; the  *)
(* program may hang, and nobody has to run the tool.                        *)
Spec == Init /\ [][Next]_vars
Fairness == WF_vars(Advance)
FairSpec == Spec /\ Fairness

-----------------------------------------------------------------------------
(* Properties. *)

(* The commands an expansion of the configuration can give. *)
CommandsOf == [cfg \in Configs |-> IF Valid(cfg) THEN Expand(cfg, Files) ELSE {}]
AllCommands == CommandsOf[config]
Programs == [cmd : AllCommands, stage : Running \cup Ended, of : Whether]
Contents == {Absent, Original, Torn} \cup [by : AllCommands, of : Whether]

TypeOK ==
  /\ config \in Configs /\ tree \in Trees
  /\ content \in [Files -> Contents]
  /\ phase \in {"idle", "executing", "running", "exited"}
  /\ commands \in Seq(AllCommands)
  /\ results \in Seq({"generated", "silent", "failed"})
  /\ Len(results) <= Len(commands)
  /\ program \in [Pids -> Programs \cup {NoProgram}]
  /\ current \in Pids \cup {NoPid}
  /\ exitCode \in {0, 1}
  /\ runs \in Nat
  /\ outlived \subseteq Files

(* No command writes a file the configuration declares as a source. *)
NoFeedback ==
  \A c \in AllCommands : ~Declared(config, TargetFile(c))

(* Commands up to this one have been started. *)
Started == Len(results) + (IF phase = "running" THEN 1 ELSE 0)

(* The comment on buildCommandsFromConfig: each declared source file gets   *)
(* one command for each target.  Whatever earlier runs, killed or not, have *)
(* left behind, a run executes the commands the files at first call for,    *)
(* and no others unless the configuration feeds targets back as sources.    *)
RunsAreAlike ==
  phase \in {"executing", "running"} =>
    LET executed == {commands[n] : n \in DOMAIN commands} IN
      /\ Expand(config, tree) \subseteq executed
      /\ NoFeedback => executed = Expand(config, tree)

(* "Generated N/M files successfully": a target whose command has succeeded *)
(* holds what that command generates, and from the source as it was, while  *)
(* no later command has the same target and no program that has outlived    *)
(* its tool or its time limit writes it.  (A program that exits with 0      *)
(* without writing counts as a success.)                                    *)
SuccessIsGenerated ==
  \A k \in DOMAIN results : results[k] = "generated" =>
    \/ \E l \in (k + 1)..Started : TargetFile(commands[l]) = TargetFile(commands[k])
    \/ TargetFile(commands[k]) \in outlived
    \/ \E of \in Whether :
         /\ content[TargetFile(commands[k])] = Generated(commands[k], of)
         /\ NoFeedback => of = "original"

(* The comment on _generateFromConfig: exit code 0 only on full success.    *)
(* Then every declared source has been converted for every declared target. *)
ExitZeroMeansAll ==
  phase = "exited" /\ exitCode = 0 =>
    \A c \in Expand(config, tree) :
      \E k \in DOMAIN results : commands[k] = c /\ results[k] # "failed"

(* What the tool is run for.  When it exits with code 0 every target holds  *)
(* what its command generates from the source as the user left it, provided *)
(* that targets are neither sources nor shared, that every program that     *)
(* exits with 0 has written, and that none outlives its tool or time limit. *)
ExitZeroMeansGenerated ==
  /\ phase = "exited" /\ exitCode = 0
  /\ NoFeedback /\ TargetsApart(config, tree)
  /\ \A k \in DOMAIN results : results[k] # "silent"
  => \A c \in Expand(config, tree) :
       TargetFile(c) \in outlived \/ content[TargetFile(c)] = Generated(c, "original")

(* A hanging program does not keep the tool from ending, nor the commands   *)
(* after it from being executed.                                            *)
RunEnds == phase \in {"executing", "running"} ~> phase \in {"idle", "exited"}
=============================================================================
