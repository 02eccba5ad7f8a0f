-------------------------- MODULE ProcessTransport --------------------------
(***************************************************************************)
(* Conversions through the quicktype command line: _runViaProcess of       *)
(* lib/src/backend_io.dart with runQuicktypeProcess and TempDirSweeper of  *)
(* lib/src/internal.  Several calls of one isolate run at a time; each has *)
(* a temporary directory of its own, and all share one sweeper.            *)
(*                                                                         *)
(* An action of a call is the code between two awaits.  The command line   *)
(* program runs beside it and may hang, or leave a process behind that     *)
(* keeps its pipes open; the operating system may refuse to remove a       *)
(* directory whose files a process still has open (Windows).               *)
(***************************************************************************)
EXTENDS FiniteSets

CONSTANTS Calls,    \* the calls made, each with the directory it creates
          Wrapped   \* the executable is a launcher (quicktype.cmd): killing
                    \* it does not kill the program it runs

ASSUME TransportAssumption == Wrapped \in BOOLEAN

VARIABLES
  pc,       \* where a call is in _runViaProcess
  dir,      \* its temporary directory
  cli,      \* the command line program it started
  exit,     \* how that program ended
  output,   \* it wrote the target file
  busy,     \* the operating system has files of the directory open
  pipes,    \* its output: more may come, it has ended, it does not decode
  outcome,  \* what the call returned or threw
  deferred  \* TempDirSweeper._deferred

vars == <<pc, dir, cli, exit, output, busy, pipes, outcome, deferred>>

PCs == {"idle", "writing", "launching", "running", "draining", "checking",
        "returning", "cleaning", "done"}
Outcomes == {"none", "code", "io", "launch", "timeout", "decode", "exit code",
             "no output", "read"}

Init ==
  /\ pc = [c \in Calls |-> "idle"]
  /\ dir = [c \in Calls |-> "none"]
  /\ cli = [c \in Calls |-> "none"]
  /\ exit = [c \in Calls |-> "none"]
  /\ output = [c \in Calls |-> FALSE]
  /\ busy = [c \in Calls |-> FALSE]
  /\ pipes = [c \in Calls |-> "none"]
  /\ outcome = [c \in Calls |-> "none"]
  /\ deferred = {}

-----------------------------------------------------------------------------
Goto(c, l) == pc' = [pc EXCEPT ![c] = l]

(* The outcome is decided, in the try block; the finally block follows. *)
Finish(c, what) ==
  /\ outcome' = [outcome EXCEPT ![c] = what]
  /\ Goto(c, "cleaning")

processes == <<cli, exit, output, busy, pipes>>

CreateTemp(c) ==
  /\ pc[c] = "idle"
  /\ dir' = [dir EXCEPT ![c] = "there"]
  /\ Goto(c, "writing")
  /\ UNCHANGED <<processes, outcome, deferred>>

(* createTemp is outside the try block. *)
CreateTempFails(c) ==
  /\ pc[c] = "idle"
  /\ outcome' = [outcome EXCEPT ![c] = "io"]
  /\ Goto(c, "done")
  /\ UNCHANGED <<dir, processes, deferred>>

WriteSource(c) ==
  /\ pc[c] = "writing"
  /\ Goto(c, "launching")
  /\ UNCHANGED <<dir, processes, outcome, deferred>>

WriteSourceFails(c) ==
  /\ pc[c] = "writing"
  /\ Finish(c, "io")
  /\ UNCHANGED <<dir, processes, deferred>>

Launch(c) ==
  /\ pc[c] = "launching"
  /\ cli' = [cli EXCEPT ![c] = "running"]
  /\ busy' = [busy EXCEPT ![c] = TRUE]
  /\ pipes' = [pipes EXCEPT ![c] = "open"]
  /\ Goto(c, "running")
  /\ UNCHANGED <<dir, exit, output, outcome, deferred>>

(* No executable is found, or Process.start throws. *)
LaunchFails(c) ==
  /\ pc[c] = "launching"
  /\ Finish(c, "launch")
  /\ UNCHANGED <<dir, processes, deferred>>

(* proc.exitCode completes within the time limit. *)
ExitCode(c) ==
  /\ pc[c] = "running" /\ cli[c] = "exited"
  /\ Goto(c, "draining")
  /\ UNCHANGED <<dir, processes, outcome, deferred>>

(* Mutants: exitCode is awaited before its time limit is looked at; the     *)
(* future is given up but not the process, as Process.run().timeout() does. *)
TimeoutAfterExit(c) ==
  /\ pc[c] = "running" /\ cli[c] = "exited"
  /\ Finish(c, "timeout")
  /\ UNCHANGED <<dir, processes, deferred>>

TimeoutWithoutKill(c) ==
  /\ pc[c] = "running"
  /\ Finish(c, "timeout")
  /\ UNCHANGED <<dir, processes, deferred>>

(* The time limit passes first: SIGKILL to the process that was started, *)
(* which may just have exited.                                           *)
Timeout(c) ==
  /\ pc[c] = "running"
  /\ cli' = IF cli[c] = "running" /\ ~Wrapped
              THEN [cli EXCEPT ![c] = "killed"] ELSE cli
  /\ Finish(c, "timeout")
  /\ UNCHANGED <<dir, exit, output, busy, pipes, deferred>>

(* Both pipes are at their end, every process that held them being gone.   *)
(* There is no time limit on this.                                         *)
Drain(c) ==
  /\ pc[c] = "draining" /\ pipes[c] = "ended"
  /\ Goto(c, "checking")
  /\ UNCHANGED <<dir, processes, outcome, deferred>>

(* Mutant: the exception that ends the call is none a call may end with. *)
DrainFailsUntyped(c) ==
  /\ pc[c] = "draining"
  /\ Finish(c, "TypeError")
  /\ UNCHANGED <<dir, processes, deferred>>

(* What they brought is not text in the system's encoding. *)
DrainFails(c) ==
  /\ pc[c] = "draining" /\ pipes[c] = "malformed"
  /\ Finish(c, "decode")
  /\ UNCHANGED <<dir, processes, deferred>>

HasOutput(c) == output[c] /\ dir[c] = "there"

CheckResult(c) ==
  /\ pc[c] = "checking"
  /\ \/ /\ exit[c] # "zero"
        /\ Finish(c, "exit code")
     \/ /\ exit[c] = "zero" /\ ~HasOutput(c)
        /\ Finish(c, "no output")
     \/ /\ exit[c] = "zero" /\ HasOutput(c)
        /\ Goto(c, "returning")
        /\ UNCHANGED outcome
  /\ UNCHANGED <<dir, processes, deferred>>

(* return await targetFile.readAsString(), unless the file is not UTF-8 or  *)
(* its reading fails; without the file it always does.                      *)
ReadOutput(c) ==
  /\ pc[c] = "returning"
  /\ \E what \in IF HasOutput(c) THEN {"code", "decode", "read"} ELSE {"io"} :
       Finish(c, what)
  /\ UNCHANGED <<dir, processes, deferred>>

(* Mutants: clear() without addAll(still); all temporary directories are   *)
(* swept, not only the deferred ones.                                      *)
CleanupForgets(c) ==
  /\ pc[c] = "cleaning"
  /\ LET swept == {d \in deferred \cup {c} : dir[d] = "there"} IN
       \E stuck \in SUBSET {d \in swept : busy[d]} :
         /\ dir' = [d \in Calls |-> IF d \in swept \ stuck THEN "gone" ELSE dir[d]]
         /\ deferred' = stuck \cap {c}
  /\ Goto(c, "done")
  /\ UNCHANGED <<processes, outcome>>

CleanupAll(c) ==
  /\ pc[c] = "cleaning"
  /\ dir' = [d \in Calls |-> IF dir[d] = "there" THEN "gone" ELSE dir[d]]
  /\ deferred' = {}
  /\ Goto(c, "done")
  /\ UNCHANGED <<processes, outcome>>

(***************************************************************************)
(* The finally block: TempDirSweeper.cleanup retries every deferred        *)
(* directory, then removes the call's own.  What cannot be removed is      *)
(* (still) deferred.                                                       *)
(***************************************************************************)
Cleanup(c) ==
  /\ pc[c] = "cleaning"
  /\ LET swept == {d \in deferred \cup {c} : dir[d] = "there"} IN
       \E stuck \in SUBSET {d \in swept : busy[d]} :
         /\ dir' = [d \in Calls |-> IF d \in swept \ stuck THEN "gone" ELSE dir[d]]
         /\ deferred' = stuck
  /\ Goto(c, "done")
  /\ UNCHANGED <<processes, outcome>>

-----------------------------------------------------------------------------
(* The command line program, and the operating system. *)

CliExits(c, how, wrote) ==
  /\ cli[c] = "running"
  /\ cli' = [cli EXCEPT ![c] = "exited"]
  /\ exit' = [exit EXCEPT ![c] = how]
  /\ output' = [output EXCEPT ![c] = wrote /\ dir[c] = "there"]
  /\ UNCHANGED <<pc, dir, busy, pipes, outcome, deferred>>

(* The files of a program that has ended are closed, perhaps later. *)
CloseFiles(c) ==
  /\ busy[c] /\ cli[c] \in {"exited", "killed"}
  /\ busy' = [busy EXCEPT ![c] = FALSE]
  /\ UNCHANGED <<pc, dir, cli, exit, output, pipes, outcome, deferred>>

(* Bytes that do not decode may come at any time, and end the wait; the     *)
(* pipes end with the last process that has them open, which may be one     *)
(* that the program has started.                                            *)
PipesEnd(c) ==
  /\ pipes[c] = "open"
  /\ \/ pipes' = [pipes EXCEPT ![c] = "malformed"]
     \/ /\ cli[c] \in {"exited", "killed"}
        /\ pipes' = [pipes EXCEPT ![c] = "ended"]
  /\ UNCHANGED <<pc, dir, cli, exit, output, busy, outcome, deferred>>

-----------------------------------------------------------------------------
Advance(c) ==
  \/ WriteSource(c) \/ WriteSourceFails(c)
  \/ Launch(c) \/ LaunchFails(c)
  \/ ExitCode(c) \/ Timeout(c)
  \/ Drain(c) \/ DrainFails(c)
  \/ CheckResult(c) \/ ReadOutput(c)
  \/ Cleanup(c)

Environment(c) ==
  \/ \E how \in {"zero", "nonzero"}, wrote \in BOOLEAN : CliExits(c, how, wrote)
  \/ CloseFiles(c)
  \/ PipesEnd(c)

Next ==
  \E c \in Calls : CreateTemp(c) \/ CreateTempFails(c) \/ Advance(c) \/ Environment(c)

(* The event loop runs what is ready and a timer fires when it is due.  The *)
(* program may hang: nothing is assumed of it, nor of its pipes.            *)
Spec == Init /\ [][Next]_vars
Fairness(c) == WF_vars(Advance(c))
FairSpec == Spec /\ \A c \in Calls : Fairness(c)

-----------------------------------------------------------------------------
(* Properties. *)

TypeOK ==
  /\ pc \in [Calls -> PCs]
  /\ dir \in [Calls -> {"none", "there", "gone"}]
  /\ cli \in [Calls -> {"none", "running", "killed", "exited"}]
  /\ exit \in [Calls -> {"none", "zero", "nonzero"}]
  /\ output \in [Calls -> BOOLEAN]
  /\ busy \in [Calls -> BOOLEAN]
  /\ pipes \in [Calls -> {"none", "open", "ended", "malformed"}]
  /\ outcome \in [Calls -> Outcomes]
  /\ deferred \subseteq Calls

(* A temporary directory that exists is that of a call under way, or is     *)
(* queued for the next sweep, whichever step of the call failed.            *)
NoDirectoryLeaked ==
  \A c \in Calls : dir[c] = "there" =>
    pc[c] \notin {"idle", "done"} \/ c \in deferred

(* The comment above the read: the directory is not removed before the      *)
(* output has been read.  A program that ended well and wrote its output    *)
(* is not reported as one that did not, nor is its output gone when it is   *)
(* to be read, though other calls sweep meanwhile.                          *)
OutputIsReturned ==
  \A c \in Calls :
    pc[c] = "done" /\ exit[c] = "zero" /\ output[c] =>
      outcome[c] \in {"code", "timeout", "decode", "read"}

(* The comment in runQuicktypeProcess: "We want the timeout to actually     *)
(* terminate the subprocess".  No program outlives its call unharmed.       *)
TimeoutTerminates == \A c \in Calls : pc[c] = "done" => cli[c] # "running"

(* The comment on runQuicktypeProcess: it throws when the program exceeds   *)
(* the timeout.  Every call returns or throws, also when its program hangs, *)
(* unless the program has ended and something keeps its pipes open for ever *)
(* (the timeout is not one on the pipes).                                   *)
Held(c) == pc[c] = "draining" /\ pipes[c] = "open"

CallReturns == \A c \in Calls : pc[c] # "idle" ~> (pc[c] = "done" \/ []Held(c))
=============================================================================
