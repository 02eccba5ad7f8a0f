# TLA+ models of quicktype_dart

quicktype_dart generates typed source code from JSON. It hands the work to
quicktype-core in one of three ways: a QuickJS runtime reached over FFI, the
`quicktype` command line program in a subprocess, or, in a browser, a script
bundle called through JS interop. This directory holds the specifications of
the parts of it that keep state or run concurrently, the TLC configurations
that check them on small instances, and TLAPS proofs for every instance.

## 1. The system

| Component | Source | State | Operations |
|---|---|---|---|
| FFI runtime | `lib/src/ffi/ffi_runtime.dart` | per isolate: cached bindings, remembered resolve error, shared runtime, pending completer; per runtime: native handle, disposed flag, finalizer | `instance`, `create`, `probe`, `generate`, `dispose`, finalizer |
| Native shim | `native/shim/qt_shim.c`, `native/bundle/shim.mjs` | per runtime: two JS globals, the job queue | create, load, convert, destroy |
| Bundle cache | `lib/src/ffi/native_bundle_cache.dart` | files below the system temporary directory, shared by isolates and processes | `fetchAndCacheBundle` |
| Subprocess transport | `lib/src/backend_io.dart`, `lib/src/internal/quicktype_process.dart`, `lib/src/internal/temp_dir_sweeper.dart` | temporary directories, deferred directories, the child process | `_runViaProcess`, `runQuicktypeProcess`, `cleanup` |
| Web backend | `lib/src/backend_web.dart` | `_loadFuture`, the script tag in the document, `globalThis.qtConvert` | `_ensureBundleLoaded`, `generateFromString` |
| Orchestrator | `lib/src/quicktype.dart`, `config.dart`, `file_resolver.dart`, `models/command.dart` | a configuration, source and target files | `Config.loadOrDefaults`, `buildCommandsFromConfig`, `executeAll`, `execute` |
| Facade | `lib/src/facade.dart`, `lib/src/bundle_source.dart` | two static settings | `generate`, `generateFromString` |
| Options, argv, types | `lib/src/models/`, `lib/src/internal/argv.dart`, `shell.dart` | none | tables and conversions |
| Entry points | `bin/`, `lib/entrypoint_cli.dart`, `lib/entrypoint_runner.dart` | none | `_generateFromConfig` and its exit code, argument parsing, build_runner glue |

How they interact: the facade calls the backend of its platform. The IO backend
picks a transport (`auto` probes the library), awaits `QtFfiRuntime.instance()`
and calls `generate`, or runs the subprocess. `QtFfiRuntime.create` resolves the
library, creates a native runtime and loads the bundle into it, embedded or from
`fetchAndCacheBundle`. `generate` calls `qt_runtime_convert` of the shim, which
evaluates an async invoker and pumps the QuickJS job queue. The command line tool
builds commands from a configuration and runs each in a subprocess.

What is hard here:

* Dart code is interrupted only at an `await`, but there every other activity of
  the isolate may run: callers of `instance()` meet a creation under way, runtimes
  are disposed while others hold them.
* Statics are per isolate, native memory and files per process or machine.
* A native handle is freed by `dispose()`, by a finalizer or by an error path, and
  must be freed by exactly one of them.
* Conversions of one runtime share two JS variables and a job queue that outlive
  each call.
* The cache directory is shared with processes that may crash at any step.
* A child process may hang, or leave a descendant that holds its pipes, and a
  directory may refuse to be removed.
* The tool may be killed between or during commands and run again on what it left;
  programs it has given up on may write their targets later; several commands may
  have one target, and a target may be found as a source by the next run.
* Programs that share a web page share a script element and a global function,
  and the browser may report on the script early, late or never.

What makes each component correct, in a line: the FFI runtime frees every native
handle once and never uses it afterwards, shares one runtime among concurrent
callers, and answers every call. The shim keeps conversions apart. The cache
returns what was asked for and is never half-written. The subprocess transport
loses neither output nor directories nor time-outs. The web backend injects one
script, converts only when it can, and says why it failed. The orchestrator
converts what a configuration declares, all of it, however often it is killed, and
reports what happened.

## 2. Modules

Proof modules (`...Proofs`) extend the module they are about; `MC` modules give TLC finite
constants; every other module can be read on its own.

| Module | Models |
|---|---|
| `FfiRuntime` | `QtFfiRuntime`, with create and destroy of the shim |
| `SharedRuntime` | what `instance()` promises of an isolate's runtime |
| `QtShim` | `qt_runtime_convert`, `pump`, the invoker, and how `generate()` reads the answer |
| `BundleCache` | `fetchAndCacheBundle`, one action per file system or network call |
| `AtomicCache` | what the cache promises: one cell, replaced whole |
| `ProcessTransport` | `_runViaProcess`, `runQuicktypeProcess`, `TempDirSweeper`, the child process |
| `WebBundle` | `backend_web.dart`, the script element and the browser's events |
| `Expansion` | from a configuration and files to commands, as operators |
| `Orchestrator` | the tool executing the commands, the programs they start, the files |

### FfiRuntime and SharedRuntime

An isolate runs one stretch of code at a time, from one `await` to the next, so an
action is such a stretch. The statics `_cachedBindings`, `_resolveError`,
`_sharedInstance`, `_sharedInstancePending` are the functions `bindings`,
`resolveError`, `shared` and `pending` of the isolate. A *caller* is one chain of
un-awaited futures; `task[c]` is the `create()` or `probe()` it has started,
`waitOn[c]` the invocation it awaits (its own, or for a joined `instance()` that of
the caller who made the completer), `reply[c]` a completed future it has not resumed
from, `held[c]` its reference. `wrapper[h]` is the Dart object, `native[h]` the
memory behind a handle; use or destruction of destroyed memory makes it `corrupt`,
which stands for whatever the C program does then. Opening the library, creating
the runtime and loading the bundle may each fail. A handle identity is never
reused, so that a use after destruction cannot hide behind a new runtime at the same
address.

`SharedRuntime` knows of an isolate only whether an invocation is making its runtime
and which one it has, and of the runtimes which are gone. Its five actions say that one
invocation makes the runtime at a time, that what it publishes is in use nowhere else
and was never given up, and that the shared runtime goes by being disposed alone.
`FfiRuntime` implements it with `making` mapped to the completers and `gone` to the
wrappers that are disposed or collected.

Abstracted: which bundle is loaded (`LoadBundle` covers the embedded and the remote
one), the text of exceptions, the arguments of a conversion.

### QtShim

One runtime, a sequence of conversions. A job is a step of an async function; the
model keeps of the queue only which conversion each job belongs to, and of a
conversion how many jobs it still needs and how it ends. `qtResult` and `qtError`
are the two JS globals; they hold the number of the conversion whose code or message
was stored. `short` records whether so far no conversion needed more jobs than one
pump executes and none lost a job; the independence of conversions holds exactly as
long as that is true.

### BundleCache and AtomicCache

Loaders are isolates of one or several processes, so every file system call is an
action. A directory entry names a file, and an open or renamed file keeps its
identity, as POSIX has it; `content[f]` is `Partial` from the creation or truncation
of a file to its flush. `Crash(p)` ends a loader anywhere. `Publish(b)` changes what
the server sends. A body stands also for the integrity token that names it, which
abstracts hashing and the syntax of tokens; `BadToken` is one that fits no body, because
it does not parse or because its algorithm is in upper case, which parses and is then
compared as written. `TmpName[p]` is a constant: loaders with
different names model distinct clocks or pids, loaders with one name two isolates of
a process that read the same microsecond.

`AtomicCache` has one cell that holds a body the server has sent, or nothing.
`BundleCache` implements it with `cell` mapped to the content of the file at
`bundle.js`.

### ProcessTransport

Each call of `_runViaProcess` is an activity with a temporary directory of its own;
all share the sweeper. The child process runs beside them: it may exit with any
code, with or without output, or hang. `busy[c]` says that the operating system has
files of the directory open, so that it may refuse to remove it; `deferred` is the
sweeper's set. `pipes[c]` is the program's output: open until the last process that
has it is gone, perhaps a descendant of the program, or broken off by bytes that do not
decode. A read of an output that exists may fail. `Wrapped` says that the executable
is a launcher whose death does not end the program it runs.

### WebBundle

The programs of a page share `tags`, `tag` and `qtConvert`; `loadFuture[a]` is a
program's `_loadFuture` with its outcome, `loader[a]` tells in which of its two waits
`_loadBundle` is, `completer[a]` what the listeners of that wait have seen. A load
that ends resumes all callers that await it in the same action, since they resume in
the same microtask run.

### Expansion and Orchestrator

`Expansion` holds the decisions of `config.dart`, `file_resolver.dart` and
`buildCommandsFromConfig` as operators of a configuration and a set of files. A path is a
text, the name of a directory and that of a file in it; a file has a directory itself
(`FileAt`). The code compares texts and does not normalise them, so a file of a directory
with two names, a link or one with a `..` in it, is at two paths (`PathsTo`), and is
converted twice when patterns find it at both. A file's name
is the sequence of its parts between dots, so that `api.schema.json` is matched by two
source types and becomes `api.schema.dart`. `Valid` is what the tool accepts: known keys,
lists, no pattern with an extension of another type, and none below a directory that is
not there. `Kept` says that of two keys
for one type (`schema`, `jsonschema`) the later list replaces the earlier one. `Expand` is
the set of commands, one for each path of each source type and each target entry;
`Listings` are the orders in which the nested loops can produce them, the order inside a
directory being the file system's. A glob stands as the files it matches, the renderer
options of a target as its slot, and names which `File.absolute` makes equal count as one.
Which directories there are when files are looked for (`Directories`) is constant: a
missing one ends the run before any program could make it.

`Orchestrator` is `_generateFromConfig`: `Reject` and `Build` load and expand the
configuration, `Launch`, `LaunchFails`, `ExitCode` and `Timeout` are one round of
`executeAll`, `Finish` decides the exit code. The program of a command reads its source,
starts to write its target (`Torn`) and has written it, in steps of its own, and may end or
hang at each. It goes on with nobody waiting for it when the tool is killed (`Crash`), or
when the time limit ends only its launcher; `outlived` records the files such programs may
write. `Rerun` starts the tool on what is there. What a file holds is what generated
it: `Generated(command, of)`, where `of` tells whether the source was as the user left it.
`ExitZeroMeansGenerated` is what the tool is run for, from one end to the other: after exit
code 0 every target holds what its source generates, under four provisos that the code does
not ensure, each named in the property and each shown above or in section 5 to be real:
targets are no sources (`NoFeedback`), none is shared (`TargetsApart`), no program exits with
0 without writing, and none outlives its tool or time limit.

## 3. Runs

| Run | Question | Result |
|---|---|---|
| `ffi_runtime` | Do all interleavings of three callers on two handles keep handles owned and sound, share one runtime as `SharedRuntime` has it, and end? | holds |
| `ffi_per_process` | Is there one shared runtime per process? | no: one per isolate |
| `qt_shim` | Do three conversions of one runtime stay apart, and return? | holds |
| `qt_shim_error_as_code` | Is what `generate()` returns code? | no: also an error's message |
| `bundle_cache` | Does the cache return what was asked for and served, and replace its file whole? | holds |
| `bundle_cache_same_name` | The same for two isolates with one temporary name? | no: half-written file |
| `bundle_cache_vanished` | Does a loader that saw a cached file find it? | no: the read throws |
| `process_transport` | Do overlapping calls lose directories, output, programs or themselves? | they do not, but a call waits as long as something holds the pipes of a program that has exited |
| `process_wrapped` | Does the time-out end the program when it is started by a launcher? | no |
| `web_bundle` | One script, conversions only with `qtConvert`, right causes, an end to every call? | holds |
| `web_bundle_late` | Does a call succeed once `qtConvert` is defined? | no: a failed load is remembered |
| `orchestrator` | Do killed, repeated, failing and hanging runs execute the same commands, report only what was generated, exit with 0 only if every command succeeded and then leave every target generated, and end? | holds; a target that is a source again adds commands, and a shared one keeps the last |

### Bounds

* `FfiRuntime`: three callers of one isolate let one create, one join and one
  dispose or race; two handles let one be destroyed while another is created. Handles
  are not reused, so a behaviour creates two runtimes at most; no guard bounds
  anything else.
* `QtShim`: `PumpMax` is 3 for the code's 1000000; conversions need one job, exactly
  as many as the pump runs, one more, or never settle. `MaxCalls` is 3: one call that
  leaves jobs behind, one that runs them, one after.
* `BundleCache`: two loaders, two bodies of which one is not UTF-8, every token, a bad
  one and none; three files, as many as two loaders and the cache can hold at once.
* `ProcessTransport`: two calls, so that one sweeps what the other has deferred.
* `WebBundle`: two callers of one program, so that one joins the load of the other,
  and one of a second program, which finds the first one's script.
* `Orchestrator`: two runs, so that one starts on what another has left; two processes, so
  that one outlives the tool or its time limit while another runs. Of thirteen
  configurations six are invalid, each in another way, and one is missing; the others have,
  with three trees of files, one target for two sources, two keys for one type, one file of
  two types and of two patterns of one, two languages with one extension, one target with
  two directories, one file by two names, and a target that is a source of the next run.
  This last one makes the exception `NoFeedback` in `RunsAreAlike` and `SuccessIsGenerated`
  real: without it TLC finds both violated.

`qt_shim` also checks `NobodyStuck`: during a conversion the shim always has a next step.
Unlike `ConvertReturns` it needs no fairness.

The proofs below have none of these bounds.

### Fairness

* `FfiRuntime`: weak fairness of each caller's continuations. The event loop runs
  what is ready, opening a library returns, and a fetch ends by `_fetchTimeout`.
  Calls, disposal and the collector are not fair.
* `QtShim`: weak fairness of the steps inside `qt_runtime_convert`, one C call.
* `ProcessTransport`: weak fairness of each call's steps, timers among them; none of
  the child process, which may hang, nor of its pipes: `CallReturns` therefore excepts
  the call that waits for pipes nobody closes (`Held`), which has no time limit.
* `Orchestrator`: weak fairness of the tool's own steps, the timer of a process among
  them; none of the programs, of crashes or of being run. A program's pipes end with it
  there.
* `WebBundle`: weak fairness of the timers and continuations of a load and of the
  conversion's promise; none of the browser's events.
* `BundleCache` has no liveness property.

## 4. Proofs

Each proof module holds, for every value of the constants that satisfies the named
assumptions: type correctness, an inductive invariant, and the properties that
follow from it. `InitInv` and `StepInv` are the two halves of the induction; the last
step of each theorem is temporal.

* `FfiRuntimeProofs`. The properties are not inductive: a handle is destroyed once
  only because at each time at most one party may destroy it. The invariant says which
  `create()` owns a handle that is still loading, that an open wrapper is around a
  ready handle, that `pending` names the one caller of its isolate whose shared
  creation is under way and that no shared runtime is open meanwhile, and that callers
  wait only for invocations that exist. Proved: `NoUseAfterDestroy`,
  `LiveHandleIsOwned`, `OneSharedRuntime`, `HandedOutReady`, `SharedNeverReplaced`, and
  `InstanceIsShared`, the refinement: every step is one of `SharedRuntime` or leaves its
  variables alone (`PromiseStep`).
* `SharedRuntimeProofs` says what that abstract specification is worth: an isolate's
  runtime is its own and in use (`ExclusiveCorrect`), it is lost only by being given up
  (`GivenUpWhenGoneCorrect`), and then for good (`GoneForGood`). Being the promise of
  `SharedRuntime`, the last holds of `FfiRuntime` through the refinement, without another
  induction (`DisposedForGood`).
* `QtShimProofs`. While `short` holds, the queue is empty between calls, and during a
  call it holds just the one job of the current conversion until the variables hold
  its outcome. Proved: `OwnAnswer`, `NothingLeftBehind`.
* `BundleCacheProofs`. `ReturnsWhatWasAskedFor` needs only the loader's own state.
  The rest assumes `OwnNames` (no two loaders have the same temporary name), which the
  run `bundle_cache_same_name` shows to be necessary. Under it a file that is open or
  has a temporary name belongs to one loader, the cached file is complete, and complete
  files hold served bodies; so each step maps to a step of `AtomicCache` or stutters.
* `ProcessTransportProofs`. Ties each program counter to the state of directory, child
  and outcome. `TimeoutTerminates` assumes `~Wrapped`.
* `WebBundleProofs`. Ties what the listeners of a load have seen to the script
  element, and callers to loads. Proved: `OneTag`, `ConvertsDefined`,
  `DiagnosisIsRight`.
* `OrchestratorProofs`. Assumes that the targets of valid configurations are among
  `Paths`, that these give finitely many commands, and that no content is that of a file
  that is not there. `RunsAreAlike` is a fact about files: none is ever removed, and without
  feedback nobody writes a declared source (`SourceInv`), so every run finds the declared
  files of the first tree and lists their commands (`ListInv`). `SuccessIsGenerated` needs
  what happens before the success is reported: a program that nobody awaits has its
  target in `outlived` (`StrayInv`), so what the awaited program has written stays as it is
  until its exit code arrives (`WroteInv`), and afterwards until a later command has the
  same target. Proved too: `ExitZeroMeansAll`. A
  list has as many places as the set has commands and misses none, so it repeats none
  (`ListingDistinct`). From these follows `ExitZeroMeansGenerated`: every command is in the list, each once and
  none but them, so no later command has the same target, and what it has generated stays
  (`SuccessStays`, which holds of runs that fail, too). `ForeignRunsAreAlike` replaces the
  hypothesis `NoFeedback` by one on types alone.
* `ExpansionProofs` is about the operators, for all configurations and files.
  `CommandsOrdered`: where `CHOOSE` picks the place of a type or the first pattern that
  matches a file there is a least one, and the order of the nested loops that results is
  strict and leaves open only in which order one pattern lists its files.
  `TargetsApartExactly` answers when two commands write one file: a target keeps of its
  source the name without the last extension, not its directory and not the type that has
  read it, and of its entry the directory, by whatever name, and the first extension; so
  targets differ exactly if no two declared sources agree in the one and no two entries in
  the other. Two paths of one file agree, so a file found at both is written twice.
  `TargetsAreNoSources`: a target ends in its type's extension, so no type whose extensions
  end otherwise reads it, in whatever directory it lies and by whatever name; with dart targets for json sources
  the feedback of `RunsAreAlike` cannot occur. Both assume only that names and extensions
  are sequences of parts (`Lexical`).

### What breaks the promises that do not hold

Five of the six runs that find a violation have a theorem beside them which says under
what condition the promise does hold, and so what it overlooks:

| Violated | Holds when | Theorem |
|---|---|---|
| `OneRuntimePerProcess` | the process has one isolate | `OneRuntimePerProcessSingleIsolate` |
| `GenerateReturnsCode` | every conversion resolves, and within its pump | `ReturnsCodeWhenResolving` |
| `NeverHalfWritten` | temporary names differ | `NeverHalfWrittenCorrect` |
| `TimeoutTerminates` | the executable is no launcher | `TimeoutTerminatesCorrect` |
| `NeverThrowsOnRead` | temporary names differ, and all ask for the same integrity | `NeverThrowsOnReadOneToken` |

For the sixth, `ResolvesWhenDefined`, `OnlyMemoryFails` says what breaks it: where only the
bundle defines `qtConvert`, a call that fails to load while it is defined asked a program
that remembers a failure; a load under way never ends so.

### Liveness

A fair action that is never enabled promises nothing, and `ENABLED` is beyond the
provers. Each proof module therefore writes the guards of the fair actions out
(`MayAdvance`, `MayRunOn`, `MayConvert`) and has one hypothesis about `ENABLED`,
`GuardsEnable`: in a state of the right types an action whose guard holds is enabled. No
run checks it; it is true by the definition of `ENABLED`, as each of these actions assigns
every variable and changes one. Everything else is proved: that wherever somebody waits one
of the guards holds (`SomebodyMayAdvance` in `FfiRuntimeProofs`, which needs no hypothesis
and most of the invariant, since a caller may wait for another's invocation; likewise inside
the lemma `NeverStuck` of `ProcessTransportProofs`, `WebBundleProofs` and
`OrchestratorProofs` and the theorem `NobodyStuckCorrect` of `QtShimProofs`), and from it
and fairness that calls end, for any number of callers and whatever happens between their
steps:

* `CallsReturnCorrect` of `FfiRuntimeProofs`: an invocation advances through opening,
  creating and loading, and settling it answers everyone who waits for it, those who
  joined it too (`WaitAdvance`, `WaitEnds`); an answered caller resumes (`ReplyTaken`).
* `CallReturnsCorrect` of `ProcessTransportProofs`: each step of a call takes it onward
  through its stages (`Onward`) unless something holds its pipes.
* `CallsReturnCorrect` of `WebBundleProofs`: the end of a load takes along all who await
  it (`LoaderEnds`), and a conversion's promise settles.
* `CallIsBounded` of `QtShimProofs` and `RunIsBounded` of `OrchestratorProofs` need neither
  fairness nor the hypothesis: the steps a conversion, or a run, still takes are a number,
  at most `PumpMax + 2` and `2n + 1` for `n` commands, that its own steps lower and that
  nobody else's raise, and it is zero when it is over. `EachStepIsTaken` adds, under
  fairness, that the number does not stay the same. To add these up is an induction over
  temporal formulas, for which the provers have no rule; so `ConvertReturns` and `RunEnds`
  as formulas are checked by TLC alone.

Only model-checked, then: `ConvertReturns` and `RunEnds`. Neither checked nor proved:
`GuardsEnable`, of which TLC sees one consequence, the `NobodyStuck` of `qt_shim`.

## 5. Disagreements found

Each is shown by a run above and described with its lines in `PROJECT.json`.

1. `generate()` returns the message of a failed conversion as generated code.
2. `instance()` is per isolate; its comment says per process.
3. The temporary name of a cache write is not unique among the isolates of a process: one
   truncates the file the other is about to rename.
4. A cached file may vanish between the check and the read; the call throws.
5. Killing the executable does not end the program when the executable is a launcher.
6. A web load that failed stays failed after `qtConvert` has been defined.

Three more things the models show that no comment contradicts: a file that a configuration
names in two ways is converted once under each name, as the code collects path texts
(`quicktype.dart:99`, `file_resolver.dart:64`); of several commands with one
target each is reported as a success and only the last one's code remains
(`quicktype.dart:107`), and a program that exits with 0 without having written anything
counts as a success for `execute()` but not for the subprocess transport
(`quicktype.dart:155`, `backend_io.dart:115`).

## 6. Not modelled

* `native/bundle/quicktype_bundle.js` and `assets/quicktype_bundle.js`, which are most of
  the lines of this repository: quicktype-core, transpiled and bundled by a tool. They are
  generated from another project and have no state between calls; what they do to the shim
  is a promise chain that ends some way after some number of jobs, as in `QtShim`. The
  same goes for the vendored QuickJS and for `prelude.js` and `empty.cjs`, which define
  globals the bundle expects. The control this project wrote itself is in its Dart files,
  in `qt_shim.c` and in `shim.mjs`, and those the modules cover.
* The choice of a transport in `backend_io.dart`: one branch on `probe()`, which
  `FfiRuntime` has, and a hand-over to code that `FfiRuntime` and `ProcessTransport` have.
* The file name made from a label, argv and renderer options, type inference for
  build_runner, the facade's two settings, the flags of the command line and the
  pass-through of arguments to quicktype, the builder's hand-over: no state, no order, one
  outcome for each input.
* `Config.loadOrDefaults` without `strict` (an invalid file becomes the defaults, which
  `Expansion` has), `QuicktypeCommand.createCommandForFiles`, and globs.
* Package layout, logging, the declarations of the C functions, development tools.
* Finalizers at the exit of an isolate (the process frees the memory), memory
  exhaustion beyond the error returns of the shim, Dart's zone of uncaught errors (one
  that ends the tool is a `Crash` of `Orchestrator`).
* Two tools at work on one directory at a time. A program that outlived its tool is the
  part of that case the model has.
