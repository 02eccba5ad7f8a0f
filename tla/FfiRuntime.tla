----------------------------- MODULE FfiRuntime -----------------------------
(***************************************************************************)
(* The life of a QtFfiRuntime (lib/src/ffi/ffi_runtime.dart): how native   *)
(* QuickJS handles are created, shared, used and destroyed by the          *)
(* asynchronous callers of one process.                                    *)
(*                                                                         *)
(* Dart statics belong to an isolate, native handles to the process, so    *)
(* the statics are functions of the isolate and the handles are global.    *)
(* Inside an isolate code runs without preemption between two awaits; each *)
(* action below is one such stretch of code.  A caller is one asynchronous *)
(* activity (an un-awaited Future chain) of an isolate.                    *)
(***************************************************************************)
CONSTANTS Isolates,    \* Dart isolates of the process
          Callers,     \* asynchronous activities, over all isolates
          IsolateOf,   \* the isolate a caller runs in
          Handles,     \* identities qt_runtime_create may return, never reused
          NoHandle,    \* nullptr, or a null QtFfiRuntime reference
          NoCaller,    \* a null Completer, or a caller awaiting nothing
          NoIsolate    \* the runtime was not created by instance()

ASSUME RuntimeAssumption ==
  /\ IsolateOf \in [Callers -> Isolates]
  /\ NoHandle \notin Handles
  /\ NoCaller \notin Callers
  /\ NoIsolate \notin Isolates

VARIABLES
  bindings,      \* [Isolates -> BOOLEAN]: _cachedBindings is set
  resolveError,  \* [Isolates -> BOOLEAN]: _resolveError is set
  shared,        \* [Isolates -> Handles or NoHandle]: _sharedInstance
  pending,       \* [Isolates -> Callers or NoCaller]: _sharedInstancePending,
                 \* the completer named by the caller that made it
  task,          \* the create() or probe() invocation a caller has started
  waitOn,        \* the invocation whose outcome a caller awaits
  reply,         \* the runtime in a completed future whose caller has not
                 \* resumed from its await yet
  held,          \* the runtime a caller has a reference to
  wrapper,       \* the Dart object around a handle
  native,        \* the QuickJS runtime behind a handle
  sharedBy       \* auxiliary: the isolate whose instance() made the handle

vars == <<bindings, resolveError, shared, pending, task, waitOn, reply, held,
          wrapper, native, sharedBy>>

(***************************************************************************)
(* A wrapper holds exactly one handle, so both have the handle's name.     *)
(* "corrupt" stands for what a C program does after it used or destroyed   *)
(* memory that was already freed.                                          *)
(***************************************************************************)
NativeStates == {"free", "raw", "ready", "destroyed", "corrupt"}
WrapperStates == {"none", "open", "disposed", "collected"}
TaskKinds == {"shared", "fresh", "probe"}
TaskStates == {"none", "opening", "resolved", "loading", "created", "failed"}

NoTask == [pc |-> "none", kind |-> "fresh", handle |-> NoHandle]

Live(h) == native[h] \in {"raw", "ready"}

Waiters(c) == {d \in Callers : waitOn[d] = c}

(* qt_runtime_destroy: freeing freed memory is undefined behaviour. *)
Destroyed(h) == IF Live(h) THEN "destroyed" ELSE "corrupt"

(* qt_runtime_convert only reads the runtime it is given. *)
Converted(h) == IF Live(h) THEN native[h] ELSE "corrupt"

Init ==
  /\ bindings = [i \in Isolates |-> FALSE]
  /\ resolveError = [i \in Isolates |-> FALSE]
  /\ shared = [i \in Isolates |-> NoHandle]
  /\ pending = [i \in Isolates |-> NoCaller]
  /\ task = [c \in Callers |-> NoTask]
  /\ waitOn = [c \in Callers |-> NoCaller]
  /\ reply = [c \in Callers |-> NoHandle]
  /\ held = [c \in Callers |-> NoHandle]
  /\ wrapper = [h \in Handles |-> "none"]
  /\ native = [h \in Handles |-> "free"]
  /\ sharedBy = [h \in Handles |-> NoIsolate]

-----------------------------------------------------------------------------
(* Calls.  A caller makes one call at a time and keeps one reference. *)

MayCall(c) == waitOn[c] = NoCaller /\ reply[c] = NoHandle /\ held[c] = NoHandle

(***************************************************************************)
(* The synchronous head of _resolveBindings(): the cached bindings, the    *)
(* remembered error, or an await of _openLibrary().                        *)
(***************************************************************************)
ResolveBindings(i) ==
  IF bindings[i] THEN "resolved"
  ELSE IF resolveError[i] THEN "failed" ELSE "opening"

Start(c, kind) ==
  /\ task' = [task EXCEPT ![c] =
       [pc |-> ResolveBindings(IsolateOf[c]), kind |-> kind, handle |-> NoHandle]]
  /\ waitOn' = [waitOn EXCEPT ![c] = c]

(* instance(), first branch: the shared runtime exists and is not disposed. *)
HasShared(i) == shared[i] # NoHandle /\ wrapper[shared[i]] = "open"

InstanceExisting(c) ==
  /\ MayCall(c)
  /\ HasShared(IsolateOf[c])
  /\ reply' = [reply EXCEPT ![c] = shared[IsolateOf[c]]]
  /\ UNCHANGED <<bindings, resolveError, shared, pending, task, waitOn,
                 held, wrapper, native, sharedBy>>

(* instance(), second branch: join the creation that is under way. *)
InstanceJoin(c) ==
  /\ MayCall(c)
  /\ ~HasShared(IsolateOf[c])
  /\ pending[IsolateOf[c]] # NoCaller
  /\ waitOn' = [waitOn EXCEPT ![c] = pending[IsolateOf[c]]]
  /\ UNCHANGED <<bindings, resolveError, shared, pending, task, reply, held,
                 wrapper, native, sharedBy>>

(* Mutant: no completer is looked for, every caller starts its own create(). *)
InstanceCreateUnguarded(c) ==
  /\ MayCall(c)
  /\ ~HasShared(IsolateOf[c])
  /\ pending' = [pending EXCEPT ![IsolateOf[c]] = c]
  /\ Start(c, "shared")
  /\ UNCHANGED <<bindings, resolveError, shared, reply, held, wrapper, native,
                 sharedBy>>

(* instance(), last branch: publish a completer and start create(). *)
InstanceCreate(c) ==
  /\ MayCall(c)
  /\ ~HasShared(IsolateOf[c])
  /\ pending[IsolateOf[c]] = NoCaller
  /\ pending' = [pending EXCEPT ![IsolateOf[c]] = c]
  /\ Start(c, "shared")
  /\ UNCHANGED <<bindings, resolveError, shared, reply, held, wrapper, native,
                 sharedBy>>

(* create() called directly, and probe(), which only resolves the library. *)
CreateOrProbe(c, kind) ==
  /\ MayCall(c)
  /\ Start(c, kind)
  /\ UNCHANGED <<bindings, resolveError, shared, pending, reply, held, wrapper,
                 native, sharedBy>>

-----------------------------------------------------------------------------
(* The rest of create(), one stretch between two awaits after the other. *)

Become(c, pc, h) ==
  task' = [task EXCEPT ![c] = [pc |-> pc, kind |-> task[c].kind, handle |-> h]]

(* DynamicLibrary.open works or throws; both outcomes are remembered. *)
OpenLibrary(c) ==
  /\ task[c].pc = "opening"
  /\ bindings' = [bindings EXCEPT ![IsolateOf[c]] = TRUE]
  /\ Become(c, "resolved", NoHandle)
  /\ UNCHANGED <<resolveError, shared, pending, waitOn, reply, held, wrapper, native,
                 sharedBy>>

OpenLibraryFails(c) ==
  /\ task[c].pc = "opening"
  /\ resolveError' = [resolveError EXCEPT ![IsolateOf[c]] = TRUE]
  /\ Become(c, "failed", NoHandle)
  /\ UNCHANGED <<bindings, shared, pending, waitOn, reply, held, wrapper, native,
                 sharedBy>>

(* qt_runtime_create() returns a handle whose bundle is still to be loaded. *)
CreateNative(c, h) ==
  /\ task[c].pc = "resolved" /\ task[c].kind # "probe"
  /\ native[h] = "free"
  /\ native' = [native EXCEPT ![h] = "raw"]
  /\ sharedBy' = [sharedBy EXCEPT ![h] =
       IF task[c].kind = "shared" THEN IsolateOf[c] ELSE NoIsolate]
  /\ Become(c, "loading", h)
  /\ UNCHANGED <<bindings, resolveError, shared, pending, waitOn, reply, held, wrapper>>

(* qt_runtime_create() returns NULL: out of memory, or the prelude threw. *)
CreateNativeFails(c) ==
  /\ task[c].pc = "resolved" /\ task[c].kind # "probe"
  /\ Become(c, "failed", NoHandle)
  /\ UNCHANGED <<bindings, resolveError, shared, pending, waitOn, reply, held,
                 wrapper, native, sharedBy>>

(* _loadBundle() succeeds: the handle gets its wrapper and its finalizer. *)
LoadBundle(c) ==
  /\ task[c].pc = "loading"
  /\ native' = [native EXCEPT ![task[c].handle] = "ready"]
  /\ wrapper' = [wrapper EXCEPT ![task[c].handle] = "open"]
  /\ Become(c, "created", task[c].handle)
  /\ UNCHANGED <<bindings, resolveError, shared, pending, waitOn, reply, held,
                 sharedBy>>

(* Mutants: the handle is not destroyed; the exception is not rethrown. *)
LoadBundleFailsLeaking(c) ==
  /\ task[c].pc = "loading"
  /\ Become(c, "failed", NoHandle)
  /\ UNCHANGED <<bindings, resolveError, shared, pending, waitOn, reply, held,
                 wrapper, native, sharedBy>>

LoadBundleFailsSwallowed(c) ==
  /\ task[c].pc = "loading"
  /\ native' = [native EXCEPT ![task[c].handle] = Destroyed(task[c].handle)]
  /\ wrapper' = [wrapper EXCEPT ![task[c].handle] = "open"]
  /\ Become(c, "created", task[c].handle)
  /\ UNCHANGED <<bindings, resolveError, shared, pending, waitOn, reply, held,
                 sharedBy>>

(* _loadBundle() throws: fetch, integrity, a non-zero code of the shim. *)
LoadBundleFails(c) ==
  /\ task[c].pc = "loading"
  /\ native' = [native EXCEPT ![task[c].handle] = Destroyed(task[c].handle)]
  /\ Become(c, "failed", NoHandle)
  /\ UNCHANGED <<bindings, resolveError, shared, pending, waitOn, reply, held,
                 wrapper, sharedBy>>

(* The futures of the invocation are completed; whoever awaits one resumes *)
(* in a microtask of its own, after others may have run.                   *)
Complete(c) ==
  /\ waitOn' = [d \in Callers |-> IF d \in Waiters(c) THEN NoCaller ELSE waitOn[d]]
  /\ reply' = [d \in Callers |->
                 IF d \in Waiters(c) THEN task[c].handle ELSE reply[d]]
  /\ task' = [task EXCEPT ![c] = NoTask]

(* Mutants: the two statics are swapped; a failure is not passed on to the *)
(* completer, so that only pending is reset.                               *)
SettleSharedSwapped(c) ==
  /\ task[c].pc \in {"created", "failed"} /\ task[c].kind = "shared"
  /\ pending' = [pending EXCEPT ![IsolateOf[c]] = task[c].handle]
  /\ shared' = [shared EXCEPT ![IsolateOf[c]] = NoHandle]
  /\ Complete(c)
  /\ UNCHANGED <<bindings, resolveError, held, wrapper, native, sharedBy>>

SettleSharedSilent(c) ==
  /\ task[c].pc \in {"created", "failed"} /\ task[c].kind = "shared"
  /\ pending' = [pending EXCEPT ![IsolateOf[c]] = NoCaller]
  /\ IF task[c].pc = "created"
       THEN /\ shared' = [shared EXCEPT ![IsolateOf[c]] = task[c].handle]
            /\ Complete(c)
       ELSE /\ task' = [task EXCEPT ![c] = NoTask]
            /\ UNCHANGED <<shared, waitOn, reply>>
  /\ UNCHANGED <<bindings, resolveError, held, wrapper, native, sharedBy>>

(* The then callback of instance(). *)
SettleShared(c) ==
  /\ task[c].pc \in {"created", "failed"} /\ task[c].kind = "shared"
  /\ shared' = IF task[c].pc = "created"
                 THEN [shared EXCEPT ![IsolateOf[c]] = task[c].handle]
                 ELSE shared
  /\ pending' = [pending EXCEPT ![IsolateOf[c]] = NoCaller]
  /\ Complete(c)
  /\ UNCHANGED <<bindings, resolveError, held, wrapper, native, sharedBy>>

(* A direct create(), or a probe(), completes. *)
SettleOwn(c) ==
  /\ \/ task[c].pc \in {"created", "failed"} /\ task[c].kind = "fresh"
     \/ task[c].pc \in {"resolved", "failed"} /\ task[c].kind = "probe"
  /\ Complete(c)
  /\ UNCHANGED <<bindings, resolveError, shared, pending, held, wrapper, native,
                 sharedBy>>

(* The caller resumes; the runtime may have been disposed meanwhile. *)
Receive(c) ==
  /\ reply[c] # NoHandle
  /\ held' = [held EXCEPT ![c] = reply[c]]
  /\ reply' = [reply EXCEPT ![c] = NoHandle]
  /\ UNCHANGED <<bindings, resolveError, shared, pending, task, waitOn, wrapper,
                 native, sharedBy>>

-----------------------------------------------------------------------------
(* What a caller does with the runtime it got. *)

(* Mutant: generate() does not look at _disposed. *)
GenerateUnguarded(c) ==
  /\ held[c] # NoHandle
  /\ native' = [native EXCEPT ![held[c]] = Converted(held[c])]
  /\ UNCHANGED <<bindings, resolveError, shared, pending, task, waitOn, reply, held,
                 wrapper, sharedBy>>

(***************************************************************************)
(* generate() runs qt_runtime_convert unless the runtime is disposed.  A   *)
(* disposed one throws StateError and changes nothing.                     *)
(***************************************************************************)
Generate(c) ==
  /\ held[c] # NoHandle
  /\ wrapper[held[c]] # "disposed"
  /\ native' = [native EXCEPT ![held[c]] = Converted(held[c])]
  /\ UNCHANGED <<bindings, resolveError, shared, pending, task, waitOn, reply, held,
                 wrapper, sharedBy>>

(* Mutant: dispose() leaves _sharedInstance as it is. *)
DisposeKeepsShared(c) ==
  /\ held[c] # NoHandle
  /\ wrapper[held[c]] # "disposed"
  /\ wrapper' = [wrapper EXCEPT ![held[c]] = "disposed"]
  /\ native' = [native EXCEPT ![held[c]] = Destroyed(held[c])]
  /\ UNCHANGED <<bindings, resolveError, shared, pending, task, waitOn, reply,
                 held, sharedBy>>

(* dispose(); the second call on the same runtime returns at once. *)
Dispose(c) ==
  /\ held[c] # NoHandle
  /\ wrapper[held[c]] # "disposed"
  /\ wrapper' = [wrapper EXCEPT ![held[c]] = "disposed"]
  /\ native' = [native EXCEPT ![held[c]] = Destroyed(held[c])]
  /\ IF shared[IsolateOf[c]] = held[c]
       THEN /\ shared' = [shared EXCEPT ![IsolateOf[c]] = NoHandle]
            /\ pending' = [pending EXCEPT ![IsolateOf[c]] = NoCaller]
       ELSE UNCHANGED <<shared, pending>>
  /\ UNCHANGED <<bindings, resolveError, task, waitOn, reply, held, sharedBy>>

(* The reference goes out of scope. *)
Drop(c) ==
  /\ held[c] # NoHandle
  /\ held' = [held EXCEPT ![c] = NoHandle]
  /\ UNCHANGED <<bindings, resolveError, shared, pending, task, waitOn, reply,
                 wrapper, native, sharedBy>>

Reachable(h) ==
  \/ \E i \in Isolates : shared[i] = h
  \/ \E c \in Callers : h \in {held[c], reply[c], task[c].handle}

(* The collector finds the wrapper unreachable and runs its finalizer, *)
(* which dispose() would have detached.                                *)
Finalize(h) ==
  /\ wrapper[h] = "open"
  /\ ~Reachable(h)
  /\ wrapper' = [wrapper EXCEPT ![h] = "collected"]
  /\ native' = [native EXCEPT ![h] = Destroyed(h)]
  /\ UNCHANGED <<bindings, resolveError, shared, pending, task, waitOn, reply, held,
                 sharedBy>>

-----------------------------------------------------------------------------
Call(c) ==
  \/ InstanceExisting(c) \/ InstanceJoin(c) \/ InstanceCreate(c)
  \/ CreateOrProbe(c, "fresh") \/ CreateOrProbe(c, "probe")

Advance(c) ==
  \/ OpenLibrary(c) \/ OpenLibraryFails(c)
  \/ \E h \in Handles : CreateNative(c, h)
  \/ CreateNativeFails(c)
  \/ LoadBundle(c) \/ LoadBundleFails(c)
  \/ SettleShared(c) \/ SettleOwn(c)
  \/ Receive(c)

Use(c) == Generate(c) \/ Dispose(c) \/ Drop(c)

Next ==
  \/ \E c \in Callers : Call(c) \/ Advance(c) \/ Use(c)
  \/ \E h \in Handles : Finalize(h)

(***************************************************************************)
(* An isolate's event loop runs every continuation that is ready, opening  *)
(* a library returns, and a fetch is cut off after _fetchTimeout: what an  *)
(* invocation has begun goes on.  Callers and the collector promise        *)
(* nothing.                                                                *)
(***************************************************************************)
Spec == Init /\ [][Next]_vars
Fairness(c) == WF_vars(Advance(c))
FairSpec == Spec /\ \A c \in Callers : Fairness(c)

-----------------------------------------------------------------------------
(* Properties. *)

TypeOK ==
  /\ bindings \in [Isolates -> BOOLEAN]
  /\ resolveError \in [Isolates -> BOOLEAN]
  /\ shared \in [Isolates -> Handles \cup {NoHandle}]
  /\ pending \in [Isolates -> Callers \cup {NoCaller}]
  /\ task \in [Callers -> [pc : TaskStates, kind : TaskKinds,
                           handle : Handles \cup {NoHandle}]]
  /\ waitOn \in [Callers -> Callers \cup {NoCaller}]
  /\ reply \in [Callers -> Handles \cup {NoHandle}]
  /\ held \in [Callers -> Handles \cup {NoHandle}]
  /\ wrapper \in [Handles -> WrapperStates]
  /\ native \in [Handles -> NativeStates]
  /\ sharedBy \in [Handles -> Isolates \cup {NoIsolate}]

(* No interleaving of generate(), dispose() and the finalizer, on however  *)
(* many references, converts with or destroys a handle already destroyed.  *)
NoUseAfterDestroy == \A h \in Handles : native[h] # "corrupt"

(* A QuickJS runtime that exists has someone who will destroy it: a wrapper *)
(* whose finalizer is attached, or a create() that is still loading.        *)
LiveHandleIsOwned ==
  \A h \in Handles : Live(h) =>
    \/ wrapper[h] = "open"
    \/ \E c \in Callers : task[c].pc = "loading" /\ task[c].handle = h

(* The comment on _sharedInstancePending: concurrent callers of instance() *)
(* do not each allocate a runtime.  An isolate never has two live runtimes *)
(* that instance() made, whatever was disposed or failed in between.       *)
OneSharedRuntime ==
  \A h1, h2 \in Handles :
    /\ Live(h1) /\ Live(h2)
    /\ sharedBy[h1] = sharedBy[h2] /\ sharedBy[h1] # NoIsolate
    => h1 = h2

(* A call is answered only with a runtime that can convert: never one that  *)
(* was disposed before it was answered, never one whose bundle is missing.  *)
HandsOutReady ==
  \A c \in Callers :
    reply'[c] # reply[c] /\ reply'[c] # NoHandle => native'[reply'[c]] = "ready"

HandedOutReady == [][HandsOutReady]_vars

(* _sharedInstance changes from one runtime to another only by way of null: *)
(* nobody loses the shared runtime without its having been disposed.        *)
ReplacesNoShared ==
  \A i \in Isolates :
    shared[i] # NoHandle /\ shared'[i] # shared[i] =>
      shared'[i] = NoHandle /\ wrapper'[shared[i]] = "disposed"

SharedNeverReplaced == [][ReplacesNoShared]_vars

(* The comments on _sharedInstance and instance(): the runtime is made       *)
(* lazily, once, shared until it is disposed, and then made anew.  However  *)
(* calls, failures, disposals and collections interleave, the statics act   *)
(* as that promise.                                                         *)
Making == [i \in Isolates |-> pending[i] # NoCaller]
Gone == {h \in Handles : wrapper[h] \in {"disposed", "collected"}}
Promise == INSTANCE SharedRuntime WITH making <- Making, runtime <- shared, gone <- Gone
InstanceIsShared == Promise!Spec

(* Every call returns, also those that only joined a creation that failed. *)
Awaiting(c) == waitOn[c] # NoCaller \/ reply[c] # NoHandle
CallsReturn == \A c \in Callers : Awaiting(c) ~> ~Awaiting(c)

(* The comments on instance(): "one runtime per process". *)
OneRuntimePerProcess ==
  \A h1, h2 \in Handles :
    Live(h1) /\ Live(h2) /\ sharedBy[h1] # NoIsolate /\ sharedBy[h2] # NoIsolate
    => h1 = h2
=============================================================================
