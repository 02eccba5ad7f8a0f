-------------------------- MODULE FfiRuntimeProofs --------------------------
(***************************************************************************)
(* Theorems about FfiRuntime, for any isolates, callers and handles.       *)
(*                                                                         *)
(* None of the safety properties is inductive by itself: whether dispose() *)
(* may destroy a handle depends on who else can still reach it, which      *)
(* depends on the creations in flight and on the completer they share.     *)
(* IInv says how the four pieces of state (tasks and waiters, completers,  *)
(* wrappers, native handles) fit together.                                 *)
(***************************************************************************)
EXTENDS FfiRuntime, TLAPS

Running(c) == task[c].pc # "none"

(* A caller awaits its own invocation exactly while it runs, or the shared *)
(* creation of its isolate; it has no runtime meanwhile.                   *)
WaitsInv ==
  \A c \in Callers :
    /\ Running(c) <=> waitOn[c] = c
    /\ waitOn[c] \notin {NoCaller, c} => pending[IsolateOf[c]] = waitOn[c]
    /\ waitOn[c] # NoCaller => held[c] = NoHandle /\ reply[c] = NoHandle

(* The completer of an isolate is there exactly while an invocation of     *)
(* instance() is in flight, and then there is no shared runtime.           *)
PendingInv ==
  /\ \A i \in Isolates : pending[i] # NoCaller =>
       /\ IsolateOf[pending[i]] = i
       /\ Running(pending[i]) /\ task[pending[i]].kind = "shared"
       /\ shared[i] = NoHandle
  /\ \A c \in Callers :
       Running(c) /\ task[c].kind = "shared" => pending[IsolateOf[c]] = c

(* The handle of a creation in flight is known to that creation alone.     *)
TaskInv ==
  /\ \A c \in Callers :
       /\ task[c].handle # NoHandle <=> task[c].pc \in {"loading", "created"}
       /\ task[c].pc = "loading" => native[task[c].handle] = "raw"
       /\ task[c].pc = "created" => native[task[c].handle] = "ready"
       /\ task[c].handle # NoHandle =>
            /\ sharedBy[task[c].handle] =
                 IF task[c].kind = "shared" THEN IsolateOf[c] ELSE NoIsolate
            /\ \A d \in Callers :
                 /\ task[c].handle \notin {held[d], reply[d]}
                 /\ task[d].handle = task[c].handle => d = c
            /\ \A i \in Isolates : shared[i] # task[c].handle

(* A wrapper is open exactly while its handle is usable. *)
WrapperInv ==
  \A h \in Handles :
    /\ native[h] # "corrupt"
    /\ wrapper[h] = "open" <=> native[h] = "ready"
    /\ wrapper[h] \in {"disposed", "collected"} => native[h] = "destroyed"
    /\ native[h] = "raw" =>
         \E c \in Callers : task[c].pc = "loading" /\ task[c].handle = h

(* Whoever holds a runtime, or is about to, got it from its own isolate, and *)
(* it is not collected.                                                     *)
HeldInv ==
  \A c \in Callers : \A h \in {held[c], reply[c]} \ {NoHandle} :
    /\ wrapper[h] \in {"open", "disposed"}
    /\ sharedBy[h] \in {NoIsolate, IsolateOf[c]}

(* The shared runtime is open; a live runtime made by instance() is the    *)
(* shared one or still belongs to the creation in flight.                  *)
SharedInv ==
  /\ \A i \in Isolates : shared[i] # NoHandle =>
       wrapper[shared[i]] = "open" /\ sharedBy[shared[i]] = i
  /\ \A h \in Handles : Live(h) /\ sharedBy[h] # NoIsolate =>
       \/ shared[sharedBy[h]] = h
       \/ \E c \in Callers : task[c].handle = h

IInv == /\ TypeOK
        /\ WaitsInv /\ PendingInv /\ TaskInv
        /\ WrapperInv /\ HeldInv /\ SharedInv
-----------------------------------------------------------------------------
(* Type correctness. *)

LEMMA TypeStep == TypeOK /\ [Next]_vars => TypeOK'
<1> SUFFICES ASSUME TypeOK, [Next]_vars PROVE TypeOK'
  OBVIOUS
<1> USE RuntimeAssumption DEF TypeOK, TaskStates, TaskKinds, WrapperStates, NativeStates
<1>1. ASSUME NEW c \in Callers, InstanceExisting(c) PROVE TypeOK'
  BY <1>1 DEF InstanceExisting, HasShared, MayCall
<1>2. ASSUME NEW c \in Callers, InstanceJoin(c) PROVE TypeOK'
  BY <1>2 DEF InstanceJoin, HasShared, MayCall
<1>3. ASSUME NEW c \in Callers, InstanceCreate(c) PROVE TypeOK'
  BY <1>3 DEF InstanceCreate, HasShared, MayCall, Start, ResolveBindings
<1>4. ASSUME NEW c \in Callers, NEW kind \in {"fresh", "probe"}, CreateOrProbe(c, kind)
       PROVE  TypeOK'
  BY <1>4 DEF CreateOrProbe, MayCall, Start, ResolveBindings
<1>5. ASSUME NEW c \in Callers, OpenLibrary(c) PROVE TypeOK'
  BY <1>5 DEF OpenLibrary, Become
<1>6. ASSUME NEW c \in Callers, OpenLibraryFails(c) PROVE TypeOK'
  BY <1>6 DEF OpenLibraryFails, Become
<1>7. ASSUME NEW c \in Callers, NEW h \in Handles, CreateNative(c, h) PROVE TypeOK'
  BY <1>7 DEF CreateNative, Become
<1>8. ASSUME NEW c \in Callers, CreateNativeFails(c) PROVE TypeOK'
  BY <1>8 DEF CreateNativeFails, Become
<1>9. ASSUME NEW c \in Callers, LoadBundle(c) PROVE TypeOK'
  BY <1>9 DEF LoadBundle, Become
<1>10. ASSUME NEW c \in Callers, LoadBundleFails(c) PROVE TypeOK'
  BY <1>10 DEF LoadBundleFails, Become, Destroyed, Live
<1>11. ASSUME NEW c \in Callers, SettleShared(c) PROVE TypeOK'
  BY <1>11 DEF SettleShared, Complete, Waiters, NoTask
<1>12. ASSUME NEW c \in Callers, SettleOwn(c) PROVE TypeOK'
  BY <1>12 DEF SettleOwn, Complete, Waiters, NoTask
<1>13. ASSUME NEW c \in Callers, Receive(c) PROVE TypeOK'
  BY <1>13 DEF Receive
<1>14. ASSUME NEW c \in Callers, Generate(c) PROVE TypeOK'
  BY <1>14 DEF Generate, Converted, Live
<1>15. ASSUME NEW c \in Callers, Dispose(c) PROVE TypeOK'
  BY <1>15 DEF Dispose, Destroyed, Live
<1>16. ASSUME NEW c \in Callers, Drop(c) PROVE TypeOK'
  BY <1>16 DEF Drop
<1>17. ASSUME NEW h \in Handles, Finalize(h) PROVE TypeOK'
  BY <1>17 DEF Finalize, Destroyed, Live, Reachable
<1>18. CASE UNCHANGED vars
  BY <1>18 DEF vars
<1> QED
  BY <1>1, <1>2, <1>3, <1>4, <1>5, <1>6, <1>7, <1>8, <1>9, <1>10, <1>11, <1>12,
     <1>13, <1>14, <1>15, <1>16, <1>17, <1>18 DEF Next, Call, Advance, Use

(* Every variable keeps its type. *)
THEOREM TypeCorrect == Spec => []TypeOK
<1>1. Init => TypeOK
  BY RuntimeAssumption
  DEF Init, TypeOK, NoTask, TaskStates, TaskKinds, WrapperStates, NativeStates
<1> QED
  BY <1>1, TypeStep, PTL DEF Spec

-----------------------------------------------------------------------------
(* The inductive invariant. *)

LEMMA InitInv == Init => IInv
<1> SUFFICES ASSUME Init PROVE IInv
  OBVIOUS
<1> USE RuntimeAssumption
<1>1. TypeOK
  BY DEF Init, TypeOK, NoTask, TaskStates, TaskKinds, WrapperStates, NativeStates
<1>2. WaitsInv /\ PendingInv
  BY DEF Init, NoTask, WaitsInv, PendingInv, Running
<1>3. TaskInv /\ WrapperInv /\ HeldInv /\ SharedInv
  BY DEF Init, NoTask, TaskInv, WrapperInv, HeldInv, SharedInv, Live
<1> QED
  BY <1>1, <1>2, <1>3 DEF IInv

LEMMA StepInv == IInv /\ [Next]_vars => IInv'
<1> SUFFICES ASSUME IInv, [Next]_vars PROVE IInv'
  OBVIOUS
<1> USE RuntimeAssumption DEF IInv
<1>0. TypeOK'
  BY TypeStep
<1>1. ASSUME NEW c \in Callers, InstanceExisting(c) PROVE IInv'
  <2>1. WaitsInv'
    BY <1>1 DEF InstanceExisting, MayCall, WaitsInv, Running
  <2>2. PendingInv'
    BY <1>1 DEF InstanceExisting, PendingInv, Running
  <2>3. TaskInv'
    BY <1>1 DEF InstanceExisting, TaskInv
  <2>4. WrapperInv'
    BY <1>1 DEF InstanceExisting, WrapperInv
  <2>5. HeldInv'
    BY <1>1 DEF InstanceExisting, HeldInv, SharedInv
  <2>6. SharedInv'
    BY <1>1 DEF InstanceExisting, Live, SharedInv
  <2> QED
    BY <1>0, <2>1, <2>2, <2>3, <2>4, <2>5, <2>6
<1>2. ASSUME NEW c \in Callers, InstanceJoin(c) PROVE IInv'
  <2>1. WaitsInv'
    BY <1>2 DEF InstanceJoin, MayCall, WaitsInv, PendingInv, Running
  <2>2. PendingInv'
    BY <1>2 DEF InstanceJoin, PendingInv, Running
  <2>3. TaskInv'
    BY <1>2 DEF InstanceJoin, TaskInv
  <2>4. WrapperInv'
    BY <1>2 DEF InstanceJoin, WrapperInv
  <2>5. HeldInv'
    BY <1>2 DEF InstanceJoin, HeldInv
  <2>6. SharedInv'
    BY <1>2 DEF InstanceJoin, Live, SharedInv
  <2> QED
    BY <1>0, <2>1, <2>2, <2>3, <2>4, <2>5, <2>6
<1>3. ASSUME NEW c \in Callers, InstanceCreate(c) PROVE IInv'
  <2>1. WaitsInv'
    BY <1>3 DEF InstanceCreate, MayCall, Start, ResolveBindings, TypeOK, WaitsInv,
       Running
  <2>2. PendingInv'
    BY <1>3 DEF InstanceCreate, HasShared, Start, ResolveBindings, TypeOK, PendingInv,
       SharedInv, Running
  <2>3. TaskInv'
    BY <1>3 DEF InstanceCreate, Start, ResolveBindings, TaskInv
  <2>4. WrapperInv'
    BY <1>3 DEF InstanceCreate, MayCall, Start, WaitsInv, WrapperInv, Running
  <2>5. HeldInv'
    BY <1>3 DEF InstanceCreate, HeldInv
  <2>6. SharedInv'
    BY <1>3 DEF InstanceCreate, MayCall, Start, Live, WaitsInv, TaskInv, SharedInv,
       Running
  <2> QED
    BY <1>0, <2>1, <2>2, <2>3, <2>4, <2>5, <2>6
<1>4. ASSUME NEW c \in Callers, NEW kind \in {"fresh", "probe"}, CreateOrProbe(c, kind)
       PROVE  IInv'
  <2>1. WaitsInv'
    BY <1>4 DEF CreateOrProbe, MayCall, Start, ResolveBindings, TypeOK, WaitsInv,
       Running
  <2>2. PendingInv'
    BY <1>4 DEF CreateOrProbe, MayCall, Start, WaitsInv, PendingInv, Running
  <2>3. TaskInv'
    BY <1>4 DEF CreateOrProbe, Start, ResolveBindings, TaskInv
  <2>4. WrapperInv'
    BY <1>4 DEF CreateOrProbe, MayCall, Start, WaitsInv, WrapperInv, Running
  <2>5. HeldInv'
    BY <1>4 DEF CreateOrProbe, HeldInv
  <2>6. SharedInv'
    BY <1>4 DEF CreateOrProbe, MayCall, Start, Live, WaitsInv, TaskInv, SharedInv,
       Running
  <2> QED
    BY <1>0, <2>1, <2>2, <2>3, <2>4, <2>5, <2>6
<1>5. ASSUME NEW c \in Callers, OpenLibrary(c) PROVE IInv'
  <2>1. WaitsInv'
    BY <1>5 DEF OpenLibrary, Become, WaitsInv, Running
  <2>2. PendingInv'
    BY <1>5 DEF OpenLibrary, Become, PendingInv, Running
  <2>3. TaskInv'
    BY <1>5 DEF OpenLibrary, Become, TaskInv
  <2>4. WrapperInv'
    BY <1>5 DEF OpenLibrary, Become, WrapperInv
  <2>5. HeldInv'
    BY <1>5 DEF OpenLibrary, HeldInv
  <2>6. SharedInv'
    BY <1>5 DEF OpenLibrary, Become, Live, TaskInv, SharedInv
  <2> QED
    BY <1>0, <2>1, <2>2, <2>3, <2>4, <2>5, <2>6
<1>6. ASSUME NEW c \in Callers, OpenLibraryFails(c) PROVE IInv'
  <2>1. WaitsInv'
    BY <1>6 DEF OpenLibraryFails, Become, WaitsInv, Running
  <2>2. PendingInv'
    BY <1>6 DEF OpenLibraryFails, Become, PendingInv, Running
  <2>3. TaskInv'
    BY <1>6 DEF OpenLibraryFails, Become, TaskInv
  <2>4. WrapperInv'
    BY <1>6 DEF OpenLibraryFails, Become, WrapperInv
  <2>5. HeldInv'
    BY <1>6 DEF OpenLibraryFails, HeldInv
  <2>6. SharedInv'
    BY <1>6 DEF OpenLibraryFails, Become, Live, TaskInv, SharedInv
  <2> QED
    BY <1>0, <2>1, <2>2, <2>3, <2>4, <2>5, <2>6
<1>7. ASSUME NEW c \in Callers, NEW h \in Handles, CreateNative(c, h) PROVE IInv'
  <2>1. WaitsInv'
    BY <1>7 DEF CreateNative, Become, WaitsInv, Running
  <2>2. PendingInv'
    BY <1>7 DEF CreateNative, Become, PendingInv, Running
  <2>3. TaskInv'
    BY <1>7 DEF CreateNative, Become, TypeOK, TaskInv, WrapperInv, HeldInv, SharedInv
  <2>4. WrapperInv'
    BY <1>7 DEF CreateNative, Become, TypeOK, WrapperInv
  <2>5. HeldInv'
    BY <1>7 DEF CreateNative, WrapperInv, HeldInv
  <2>6. SharedInv'
    BY <1>7 DEF CreateNative, Become, Live, TypeOK, TaskInv, WrapperInv, SharedInv
  <2> QED
    BY <1>0, <2>1, <2>2, <2>3, <2>4, <2>5, <2>6
<1>8. ASSUME NEW c \in Callers, CreateNativeFails(c) PROVE IInv'
  <2>1. WaitsInv'
    BY <1>8 DEF CreateNativeFails, Become, WaitsInv, Running
  <2>2. PendingInv'
    BY <1>8 DEF CreateNativeFails, Become, PendingInv, Running
  <2>3. TaskInv'
    BY <1>8 DEF CreateNativeFails, Become, TaskInv
  <2>4. WrapperInv'
    BY <1>8 DEF CreateNativeFails, Become, WrapperInv
  <2>5. HeldInv'
    BY <1>8 DEF CreateNativeFails, HeldInv
  <2>6. SharedInv'
    BY <1>8 DEF CreateNativeFails, Become, Live, TaskInv, SharedInv
  <2> QED
    BY <1>0, <2>1, <2>2, <2>3, <2>4, <2>5, <2>6
<1>9. ASSUME NEW c \in Callers, LoadBundle(c) PROVE IInv'
  <2>1. WaitsInv'
    BY <1>9 DEF LoadBundle, Become, WaitsInv, Running
  <2>2. PendingInv'
    BY <1>9 DEF LoadBundle, Become, PendingInv, Running
  <2>3. TaskInv'
    BY <1>9 DEF LoadBundle, Become, TypeOK, TaskInv
  <2>4. WrapperInv'
    BY <1>9 DEF LoadBundle, Become, TypeOK, WrapperInv
  <2>5. HeldInv'
    BY <1>9 DEF LoadBundle, HeldInv
  <2>6. SharedInv'
    BY <1>9 DEF LoadBundle, Become, Live, SharedInv
  <2> QED
    BY <1>0, <2>1, <2>2, <2>3, <2>4, <2>5, <2>6
<1>10. ASSUME NEW c \in Callers, LoadBundleFails(c) PROVE IInv'
  <2>1. WaitsInv'
    BY <1>10 DEF LoadBundleFails, Become, WaitsInv, Running
  <2>2. PendingInv'
    BY <1>10 DEF LoadBundleFails, Become, PendingInv, Running
  <2>3. TaskInv'
    BY <1>10 DEF LoadBundleFails, Become, TypeOK, TaskInv
  <2>4. WrapperInv'
    BY <1>10 DEF LoadBundleFails, Become, Destroyed, Live, TypeOK, TaskInv, WrapperInv
  <2>5. HeldInv'
    BY <1>10 DEF LoadBundleFails, HeldInv
  <2>6. SharedInv'
    BY <1>10 DEF LoadBundleFails, Become, Destroyed, Live, TypeOK, SharedInv
  <2> QED
    BY <1>0, <2>1, <2>2, <2>3, <2>4, <2>5, <2>6
<1>11. ASSUME NEW c \in Callers, SettleShared(c) PROVE IInv'
  <2>1. WaitsInv'
    BY <1>11 DEF SettleShared, Complete, Waiters, NoTask, TypeOK, WaitsInv,
       PendingInv, Running
  <2>2. PendingInv'
    BY <1>11 DEF SettleShared, Complete, NoTask, TypeOK, PendingInv, Running
  <2>3. TaskInv'
    BY <1>11 DEF SettleShared, Complete, NoTask, TypeOK, TaskInv
  <2>4. WrapperInv'
    BY <1>11 DEF SettleShared, Complete, WrapperInv
  <2>5. HeldInv'
    <3>1. /\ UNCHANGED <<wrapper, sharedBy, held>>
          /\ \A d \in Callers :
               reply'[d] = IF waitOn[d] = c THEN task[c].handle ELSE reply[d]
      BY <1>11 DEF SettleShared, Complete, Waiters
    <3>2. \A d \in Callers : waitOn[d] = c => IsolateOf[d] = IsolateOf[c]
      BY <1>11 DEF SettleShared, TypeOK, WaitsInv, PendingInv, Running
    <3>3. task[c].handle # NoHandle =>
            /\ wrapper[task[c].handle] = "open"
            /\ sharedBy[task[c].handle] = IsolateOf[c]
      BY <1>11 DEF SettleShared, TypeOK, TaskInv, WrapperInv
    <3> QED
      BY <3>1, <3>2, <3>3 DEF HeldInv
  <2>6. SharedInv'
    BY <1>11 DEF SettleShared, Complete, Live, TypeOK, PendingInv, TaskInv,
       WrapperInv, SharedInv, Running
  <2> QED
    BY <1>0, <2>1, <2>2, <2>3, <2>4, <2>5, <2>6
<1>12. ASSUME NEW c \in Callers, SettleOwn(c) PROVE IInv'
  <2>1. WaitsInv'
    BY <1>12 DEF SettleOwn, Complete, Waiters, NoTask, TypeOK, WaitsInv, Running
  <2>2. PendingInv'
    BY <1>12 DEF SettleOwn, Complete, NoTask, PendingInv, Running
  <2>3. TaskInv'
    BY <1>12 DEF SettleOwn, Complete, NoTask, TypeOK, TaskInv
  <2>4. WrapperInv'
    BY <1>12 DEF SettleOwn, Complete, WrapperInv
  <2>5. HeldInv'
    BY <1>12 DEF SettleOwn, Complete, TypeOK, TaskInv, WrapperInv, HeldInv
  <2>6. SharedInv'
    BY <1>12 DEF SettleOwn, Complete, Live, TaskInv, SharedInv
  <2> QED
    BY <1>0, <2>1, <2>2, <2>3, <2>4, <2>5, <2>6
<1>13. ASSUME NEW c \in Callers, Receive(c) PROVE IInv'
  <2>1. WaitsInv'
    BY <1>13 DEF Receive, TypeOK, WaitsInv, Running
  <2>2. PendingInv'
    BY <1>13 DEF Receive, PendingInv, Running
  <2>3. TaskInv'
    BY <1>13 DEF Receive, TypeOK, TaskInv
  <2>4. WrapperInv'
    BY <1>13 DEF Receive, WrapperInv
  <2>5. HeldInv'
    BY <1>13 DEF Receive, TypeOK, HeldInv
  <2>6. SharedInv'
    BY <1>13 DEF Receive, Live, SharedInv
  <2> QED
    BY <1>0, <2>1, <2>2, <2>3, <2>4, <2>5, <2>6
<1>14. ASSUME NEW c \in Callers, Generate(c) PROVE IInv'
  <2>1. WaitsInv'
    BY <1>14 DEF Generate, WaitsInv, Running
  <2>2. PendingInv'
    BY <1>14 DEF Generate, PendingInv, Running
  <2>3. TaskInv'
    BY <1>14 DEF Generate, TaskInv
  <2>4. WrapperInv'
    BY <1>14 DEF Generate, Converted, Live, WrapperInv, HeldInv
  <2>5. HeldInv'
    BY <1>14 DEF Generate, HeldInv
  <2>6. SharedInv'
    BY <1>14 DEF Generate, Converted, Live, SharedInv
  <2> QED
    BY <1>0, <2>1, <2>2, <2>3, <2>4, <2>5, <2>6
<1>15. ASSUME NEW c \in Callers, Dispose(c) PROVE IInv'
  <2>1. WaitsInv'
    BY <1>15 DEF Dispose, TypeOK, WaitsInv, PendingInv, Running
  <2>2. PendingInv'
    BY <1>15 DEF Dispose, TypeOK, PendingInv, Running
  <2>3. TaskInv'
    BY <1>15 DEF Dispose, TypeOK, TaskInv
  <2>4. WrapperInv'
    BY <1>15 DEF Dispose, Destroyed, Live, TypeOK, WrapperInv, HeldInv
  <2>5. HeldInv'
    BY <1>15 DEF Dispose, HeldInv
  <2>6. SharedInv'
    BY <1>15 DEF Dispose, Destroyed, Live, TypeOK, PendingInv, HeldInv, SharedInv
  <2> QED
    BY <1>0, <2>1, <2>2, <2>3, <2>4, <2>5, <2>6
<1>16. ASSUME NEW c \in Callers, Drop(c) PROVE IInv'
  <2>1. WaitsInv'
    BY <1>16 DEF Drop, WaitsInv, Running
  <2>2. PendingInv'
    BY <1>16 DEF Drop, PendingInv, Running
  <2>3. TaskInv'
    BY <1>16 DEF Drop, TaskInv
  <2>4. WrapperInv'
    BY <1>16 DEF Drop, WrapperInv
  <2>5. HeldInv'
    BY <1>16 DEF Drop, HeldInv
  <2>6. SharedInv'
    BY <1>16 DEF Drop, Live, SharedInv
  <2> QED
    BY <1>0, <2>1, <2>2, <2>3, <2>4, <2>5, <2>6
<1>17. ASSUME NEW h \in Handles, Finalize(h) PROVE IInv'
  <2>1. WaitsInv'
    BY <1>17 DEF Finalize, WaitsInv, Running
  <2>2. PendingInv'
    BY <1>17 DEF Finalize, PendingInv, Running
  <2>3. TaskInv'
    BY <1>17 DEF Finalize, Reachable, TaskInv
  <2>4. WrapperInv'
    BY <1>17 DEF Finalize, Destroyed, Live, TypeOK, WrapperInv
  <2>5. HeldInv'
    BY <1>17 DEF Finalize, Reachable, HeldInv
  <2>6. SharedInv'
    BY <1>17 DEF Finalize, Destroyed, Live, Reachable, SharedInv
  <2> QED
    BY <1>0, <2>1, <2>2, <2>3, <2>4, <2>5, <2>6
<1>18. CASE UNCHANGED vars
  BY <1>18, <1>0 DEF vars, WaitsInv, PendingInv, TaskInv, WrapperInv, HeldInv,
     SharedInv, Running, Live
<1> QED
  BY <1>1, <1>2, <1>3, <1>4, <1>5, <1>6, <1>7, <1>8, <1>9, <1>10, <1>11, <1>12,
     <1>13, <1>14, <1>15, <1>16, <1>17, <1>18 DEF Next, Call, Advance, Use

THEOREM InvariantCorrect == Spec => []IInv
  BY InitInv, StepInv, PTL DEF Spec

-----------------------------------------------------------------------------
(* What follows from the invariant. *)

(* No handle is converted with or destroyed once it has been destroyed,    *)
(* whatever references exist and whoever disposes first.                   *)
THEOREM NoUseAfterDestroyCorrect == Spec => []NoUseAfterDestroy
<1>1. IInv => NoUseAfterDestroy
  BY DEF IInv, WrapperInv, NoUseAfterDestroy
<1> QED
  BY InvariantCorrect, <1>1, PTL

(* Every live handle has a wrapper with a finalizer, or a create() in       *)
(* flight that destroys it if it cannot load its bundle.                    *)
THEOREM LiveHandleIsOwnedCorrect == Spec => []LiveHandleIsOwned
<1>1. IInv => LiveHandleIsOwned
  BY DEF IInv, WrapperInv, LiveHandleIsOwned, Live
<1> QED
  BY InvariantCorrect, <1>1, PTL

(* instance() never leaves an isolate with two live runtimes of its own.    *)
THEOREM OneSharedRuntimeCorrect == Spec => []OneSharedRuntime
<1>1. ASSUME IInv PROVE OneSharedRuntime
  <2> SUFFICES ASSUME NEW h1 \in Handles, NEW h2 \in Handles,
                      Live(h1), Live(h2),
                      sharedBy[h1] = sharedBy[h2], sharedBy[h1] # NoIsolate
               PROVE  h1 = h2
    BY DEF OneSharedRuntime
  <2> DEFINE i == sharedBy[h1]
  <2> USE RuntimeAssumption, <1>1 DEF IInv
  <2>1. i \in Isolates
    BY DEF TypeOK
  <2>2. ASSUME NEW h \in {h1, h2}, shared[i] # h
        PROVE  pending[i] # NoCaller /\ task[pending[i]].handle = h
    <3>1. PICK c \in Callers : task[c].handle = h
      BY <2>2 DEF SharedInv
    <3>2. Running(c) /\ task[c].kind = "shared" /\ IsolateOf[c] = i
      BY <3>1, <2>1 DEF TaskInv, Running
    <3>3. pending[i] = c
      BY <3>2 DEF PendingInv
    <3> QED
      BY <3>1, <3>3
  <2>3. pending[i] # NoCaller => shared[i] = NoHandle
    BY <2>1 DEF PendingInv
  <2> QED
    BY <2>2, <2>3
<1> QED
  BY InvariantCorrect, <1>1, PTL

(* "One runtime per process" holds in a process with a single isolate: what  *)
(* the comment overlooks is that each isolate has statics of its own, and   *)
(* nothing else.                                                            *)
THEOREM OneRuntimePerProcessSingleIsolate ==
  ASSUME \A i, j \in Isolates : i = j PROVE Spec => []OneRuntimePerProcess
<1>1. TypeOK /\ OneSharedRuntime => OneRuntimePerProcess
  BY DEF TypeOK, OneSharedRuntime, OneRuntimePerProcess
<1> QED
  BY TypeCorrect, OneSharedRuntimeCorrect, <1>1, PTL

(* instance() and create() hand out runtimes that are ready to convert.     *)
THEOREM HandedOutReadyCorrect == Spec => HandedOutReady
<1>1. ASSUME IInv, [Next]_vars PROVE [HandsOutReady]_vars
  <2> USE RuntimeAssumption, <1>1 DEF IInv
  <2>1. ASSUME NEW c \in Callers, InstanceExisting(c) PROVE HandsOutReady
    BY <2>1 DEF InstanceExisting, HasShared, TypeOK, WrapperInv, HandsOutReady
  <2>2. ASSUME NEW c \in Callers, SettleShared(c) \/ SettleOwn(c) PROVE HandsOutReady
    BY <2>2 DEF SettleShared, SettleOwn, Complete, TypeOK, TaskInv, HandsOutReady
  <2>3. ASSUME NEW c \in Callers, Receive(c) PROVE HandsOutReady
    BY <2>3 DEF Receive, TypeOK, HandsOutReady
  <2>4. CASE UNCHANGED reply
    BY <2>4 DEF HandsOutReady
  <2> QED
    BY <2>1, <2>2, <2>3, <2>4
    DEF Next, vars, Call, Advance, Use, InstanceJoin, InstanceCreate,
        CreateOrProbe, OpenLibrary, OpenLibraryFails, CreateNative,
        CreateNativeFails, LoadBundle, LoadBundleFails, Generate, Dispose, Drop,
        Finalize
<1> QED
  BY InvariantCorrect, <1>1, PTL DEF Spec, HandedOutReady

(* The shared runtime is only ever replaced after it was disposed.          *)
THEOREM SharedNeverReplacedCorrect == Spec => SharedNeverReplaced
<1>1. ASSUME IInv, [Next]_vars PROVE [ReplacesNoShared]_vars
  <2> USE RuntimeAssumption, <1>1 DEF IInv
  <2>1. ASSUME NEW c \in Callers, SettleShared(c) PROVE ReplacesNoShared
    BY <2>1 DEF SettleShared, TypeOK, PendingInv, Running, ReplacesNoShared
  <2>2. ASSUME NEW c \in Callers, Dispose(c) PROVE ReplacesNoShared
    BY <2>2 DEF Dispose, TypeOK, ReplacesNoShared
  <2>3. CASE UNCHANGED shared
    BY <2>3 DEF ReplacesNoShared
  <2> QED
    BY <2>1, <2>2, <2>3
    DEF Next, vars, Call, Advance, Use, InstanceExisting, InstanceJoin,
        InstanceCreate, CreateOrProbe, OpenLibrary, OpenLibraryFails,
        CreateNative, CreateNativeFails, LoadBundle, LoadBundleFails,
        SettleOwn, Receive, Generate, Drop, Finalize
<1> QED
  BY InvariantCorrect, <1>1, PTL DEF Spec, SharedNeverReplaced

-----------------------------------------------------------------------------
(* The abstract specification. *)

LEMMA PromiseInit == Init => Promise!Init
  BY RuntimeAssumption DEF Init, Promise!Init, Making, Gone

LEMMA PromiseStep == IInv /\ [Next]_vars => [Promise!Next]_(Promise!vars)
<1> SUFFICES ASSUME IInv, [Next]_vars PROVE [Promise!Next]_(Promise!vars)
  OBVIOUS
<1> USE RuntimeAssumption DEF IInv
<1> DEFINE Stutter == UNCHANGED <<Making, shared, Gone>>
<1>1. ASSUME UNCHANGED <<pending, shared, wrapper>> PROVE Stutter
  BY <1>1 DEF Making, Gone
<1>2. ASSUME NEW c \in Callers, InstanceCreate(c) PROVE Promise!Begin(IsolateOf[c])
  <2> DEFINE i == IsolateOf[c]
  <2>1. i \in Isolates /\ shared[i] = NoHandle
    BY <1>2 DEF InstanceCreate, HasShared, SharedInv
  <2>2. ~Making[i] /\ Making' = [Making EXCEPT ![i] = TRUE]
    BY <1>2, <2>1 DEF InstanceCreate, TypeOK, Making
  <2>3. UNCHANGED <<shared, Gone>>
    BY <1>2 DEF InstanceCreate, Gone
  <2> QED
    BY <2>1, <2>2, <2>3 DEF Promise!Begin
<1>3. ASSUME NEW c \in Callers, LoadBundle(c) PROVE Stutter
  <2>1. /\ task[c].handle \in Handles
        /\ wrapper[task[c].handle] \notin {"disposed", "collected"}
    BY <1>3 DEF LoadBundle, TypeOK, TaskInv, WrapperInv
  <2>2. UNCHANGED Gone
    BY <1>3, <2>1 DEF LoadBundle, TypeOK, Gone
  <2>3. UNCHANGED <<Making, shared>>
    BY <1>3 DEF LoadBundle, Making
  <2> QED
    BY <2>2, <2>3
<1>4. ASSUME NEW c \in Callers, SettleShared(c)
      PROVE  \/ Promise!Abort(IsolateOf[c])
             \/ \E h \in Handles : Promise!Publish(IsolateOf[c], h)
  <2> DEFINE i == IsolateOf[c]
             h == task[c].handle
  <2>1. i \in Isolates /\ pending[i] = c
    BY <1>4 DEF SettleShared, PendingInv, Running
  <2>2. Making[i] /\ Making' = [Making EXCEPT ![i] = FALSE]
    BY <1>4, <2>1 DEF SettleShared, TypeOK, Making
  <2>3. UNCHANGED Gone
    BY <1>4 DEF SettleShared, Gone
  <2>4. CASE task[c].pc = "created"
    <3>1. h \in Handles /\ h \notin Gone
      BY <2>4 DEF TypeOK, TaskInv, WrapperInv, Gone
    <3>2. Promise!Nowhere(h)
      BY <3>1 DEF TaskInv, Promise!Nowhere
    <3>3. shared' = [shared EXCEPT ![i] = h]
      BY <1>4, <2>4 DEF SettleShared
    <3> QED
      BY <2>2, <2>3, <3>1, <3>2, <3>3 DEF Promise!Publish
  <2>5. CASE task[c].pc = "failed"
    <3>1. UNCHANGED shared
      BY <1>4, <2>5 DEF SettleShared
    <3> QED
      BY <2>2, <2>3, <3>1 DEF Promise!Abort
  <2> QED
    BY <1>4, <2>4, <2>5 DEF SettleShared
<1>5. ASSUME NEW c \in Callers, Dispose(c)
      PROVE  Promise!Dispose(IsolateOf[c]) \/ \E h \in Handles : Promise!Retire(h)
  <2> DEFINE i == IsolateOf[c]
             h == held[c]
  <2>1. i \in Isolates /\ h \in Handles /\ h # NoHandle
    BY <1>5 DEF Dispose, TypeOK
  <2>2. Gone' = Gone \cup {h}
    BY <1>5, <2>1 DEF Dispose, TypeOK, Gone
  <2>3. CASE shared[i] = h
    <3>1. shared' = [shared EXCEPT ![i] = NoHandle]
      BY <1>5, <2>3 DEF Dispose
    <3>2. pending[i] = NoCaller
      BY <2>1, <2>3 DEF PendingInv
    <3>3. UNCHANGED pending
      BY <1>5, <2>1, <2>3, <3>2 DEF Dispose, TypeOK
    <3> QED
      BY <2>1, <2>2, <2>3, <3>1, <3>3 DEF Making, Promise!Dispose
  <2>4. CASE shared[i] # h
    <3>1. UNCHANGED <<shared, pending>>
      BY <1>5, <2>4 DEF Dispose
    <3>2. Promise!Nowhere(h)
      BY <2>1, <2>4 DEF HeldInv, SharedInv, TypeOK, Promise!Nowhere
    <3> QED
      BY <2>1, <2>2, <3>1, <3>2 DEF Making, Promise!Retire
  <2> QED
    BY <2>3, <2>4
<1>6. ASSUME NEW h \in Handles, Finalize(h) PROVE Promise!Retire(h)
  <2>1. Gone' = Gone \cup {h}
    BY <1>6 DEF Finalize, TypeOK, Gone
  <2> QED
    BY <1>6, <2>1 DEF Finalize, Reachable, Making, Promise!Retire, Promise!Nowhere
<1>7. [Next]_vars => \/ \E c \in Callers : \/ InstanceCreate(c) \/ LoadBundle(c)
                                          \/ SettleShared(c) \/ Dispose(c)
                     \/ \E h \in Handles : Finalize(h)
                     \/ UNCHANGED <<pending, shared, wrapper>>
  BY DEF Next, vars, Call, Advance, Use, InstanceExisting, InstanceJoin,
         CreateOrProbe, OpenLibrary, OpenLibraryFails, CreateNative,
         CreateNativeFails, LoadBundleFails, SettleOwn, Receive, Generate, Drop
<1> QED
  BY <1>1, <1>2, <1>3, <1>4, <1>5, <1>6, <1>7 DEF Promise!Next, Promise!vars

(* instance() keeps the promise of SharedRuntime: an isolate's runtime is    *)
(* made by one invocation at a time, is nobody else's and was never disposed *)
(* when it is published, and goes only by being disposed.                   *)
THEOREM InstanceIsSharedCorrect == Spec => InstanceIsShared
  BY InvariantCorrect, PromiseInit, PromiseStep, PTL
  DEF Spec, InstanceIsShared, Promise!Spec

(* So it inherits what the promise implies: what has been disposed or       *)
(* collected is never shared again, on any isolate.                         *)
Kept == INSTANCE SharedRuntimeProofs
          WITH making <- Making, runtime <- shared, gone <- Gone

THEOREM DisposedForGood ==
  ASSUME NEW h, h # NoHandle
  PROVE  Spec => [](h \in Gone => [](h \in Gone /\ \A i \in Isolates : shared[i] # h))
<1>1. Kept!Spec => [](h \in Gone => [](h \in Gone /\ Kept!Nowhere(h)))
  BY Kept!GoneForGood
<1>2. Kept!Nowhere(h) <=> \A i \in Isolates : shared[i] # h
  BY DEF Kept!Nowhere
<1>3. InstanceIsShared => Kept!Spec
  <2>1. Promise!Init => Kept!Init
    BY DEF Promise!Init, Kept!Init
  <2>2. [Promise!Next]_Promise!vars => [Kept!Next]_Kept!vars
    <3>1. ASSUME NEW i \in Isolates
          PROVE  /\ Promise!Begin(i) => Kept!Begin(i)
                 /\ Promise!Abort(i) => Kept!Abort(i)
                 /\ Promise!Dispose(i) => Kept!Dispose(i)
      BY Zenon DEF Promise!Begin, Kept!Begin, Promise!Abort, Kept!Abort,
                   Promise!Dispose, Kept!Dispose
    <3>2. ASSUME NEW i \in Isolates, NEW g \in Handles
          PROVE  Promise!Publish(i, g) => Kept!Publish(i, g)
      BY Zenon DEF Promise!Publish, Kept!Publish, Promise!Nowhere, Kept!Nowhere
    <3>3. ASSUME NEW g \in Handles PROVE Promise!Retire(g) => Kept!Retire(g)
      BY Zenon DEF Promise!Retire, Kept!Retire, Promise!Nowhere, Kept!Nowhere
    <3> QED
      BY <3>1, <3>2, <3>3 DEF Promise!Next, Kept!Next, Promise!vars, Kept!vars
  <2> QED
    BY <2>1, <2>2, PTL DEF InstanceIsShared, Promise!Spec, Kept!Spec
<1> QED
  BY <1>1, <1>2, <1>3, InstanceIsSharedCorrect, PTL

-----------------------------------------------------------------------------
(***************************************************************************)
(* Nobody is stuck.  The provers cannot reason about ENABLED, but of these *)
(* actions it says no more than their guards: MayAdvance is the            *)
(* disjunction of the guards, and GuardsEnable, which holds by the         *)
(* definition of ENABLED, is all that the theorems take from it.  That the *)
(* guard of some action holds wherever somebody waits is proved.           *)
(***************************************************************************)
MayAdvance(c) ==
  \/ task[c].pc \in {"opening", "loading"}
  \/ task[c].pc = "resolved" /\ task[c].kind # "probe"
  \/ task[c].pc \in {"created", "failed"} /\ task[c].kind \in {"shared", "fresh"}
  \/ task[c].pc \in {"resolved", "failed"} /\ task[c].kind = "probe"
  \/ reply[c] # NoHandle

CanAdvance(c) == ENABLED <<Advance(c)>>_vars
GuardsEnable == TypeOK => \A c \in Callers : MayAdvance(c) => CanAdvance(c)

(* probe() creates no runtime. *)
ProbeInv ==
  \A c \in Callers : task[c].kind = "probe" => task[c].pc \notin {"loading", "created"}

LEMMA ProbeStep == TypeOK /\ ProbeInv /\ [Next]_vars => ProbeInv'
<1> SUFFICES ASSUME TypeOK, ProbeInv, [Next]_vars PROVE ProbeInv'
  OBVIOUS
<1> USE RuntimeAssumption DEF TypeOK, ProbeInv
<1>1. ASSUME NEW c \in Callers, NEW kind, Start(c, kind) PROVE ProbeInv'
  BY <1>1 DEF Start, ResolveBindings
<1>2. ASSUME NEW c \in Callers, NEW h,
             NEW pc, pc \in {"loading", "created"} => task[c].kind # "probe",
             Become(c, pc, h)
      PROVE  ProbeInv'
  BY <1>2 DEF Become
<1>3. ASSUME NEW c \in Callers, Complete(c) PROVE ProbeInv'
  BY <1>3 DEF Complete, NoTask
<1>4. ASSUME NEW c \in Callers, Call(c) PROVE ProbeInv'
  BY <1>1, <1>4 DEF Call, InstanceExisting, InstanceJoin, InstanceCreate, CreateOrProbe
<1>5. ASSUME NEW c \in Callers, Advance(c) PROVE ProbeInv'
  <2>1. CASE OpenLibrary(c) \/ OpenLibraryFails(c) \/ CreateNativeFails(c)
    BY <1>2, <2>1 DEF OpenLibrary, OpenLibraryFails, CreateNativeFails
  <2>2. ASSUME NEW h \in Handles, CreateNative(c, h) PROVE ProbeInv'
    BY <1>2, <2>2 DEF CreateNative
  <2>3. CASE LoadBundle(c) \/ LoadBundleFails(c)
    BY <1>2, <2>3 DEF LoadBundle, LoadBundleFails
  <2>4. CASE SettleShared(c) \/ SettleOwn(c)
    BY <1>3, <2>4 DEF SettleShared, SettleOwn
  <2>5. CASE Receive(c)
    BY <2>5 DEF Receive
  <2> QED
    BY <1>5, <2>1, <2>2, <2>3, <2>4, <2>5 DEF Advance
<1>6. CASE UNCHANGED task
  BY <1>6
<1> QED
  BY <1>4, <1>5, <1>6 DEF Next, vars, Use, Generate, Dispose, Drop, Finalize

(* Whoever waits, waits for an invocation of which some step's guard holds, *)
(* with no handle left to create and every load failing, too.               *)
THEOREM SomebodyMayAdvance ==
  Spec => [](\A c \in Callers : Waiters(c) # {} \/ reply[c] # NoHandle => MayAdvance(c))
<1>1. Init => ProbeInv
  BY DEF Init, NoTask, ProbeInv
<1>2. ASSUME IInv, ProbeInv, NEW c \in Callers, Waiters(c) # {} \/ reply[c] # NoHandle
      PROVE  MayAdvance(c)
  <2> USE RuntimeAssumption, <1>2 DEF IInv
  <2>1. CASE reply[c] # NoHandle
    BY <2>1 DEF MayAdvance
  <2>2. CASE Waiters(c) # {}
    <3>1. PICK d \in Callers : waitOn[d] = c
      BY <2>2 DEF Waiters
    <3>2. Running(c)
      BY <3>1 DEF WaitsInv, PendingInv
    <3> QED
      BY <3>2 DEF Running, TypeOK, TaskStates, TaskKinds, ProbeInv, MayAdvance
  <2> QED
    BY <1>2, <2>1, <2>2
<1>3. IInv => TypeOK
  BY DEF IInv
<1>4. IInv /\ ProbeInv =>
        \A c \in Callers : Waiters(c) # {} \/ reply[c] # NoHandle => MayAdvance(c)
  BY <1>2
<1> QED
  BY InvariantCorrect, ProbeStep, <1>1, <1>3, <1>4, PTL DEF Spec

(* An invocation that somebody awaits, and a caller that was answered, can  *)
(* go on: no failure, disposal or exhaustion of handles leaves a future     *)
(* that nothing can complete any more.                                      *)
NobodyStuck ==
  \A c \in Callers : Waiters(c) # {} \/ reply[c] # NoHandle => CanAdvance(c)

LEMMA NeverStuck == Spec /\ []GuardsEnable => []NobodyStuck
<1>1. /\ \A c \in Callers : Waiters(c) # {} \/ reply[c] # NoHandle => MayAdvance(c)
      /\ TypeOK /\ GuardsEnable
      => NobodyStuck
  BY DEF GuardsEnable, NobodyStuck
<1> QED
  BY SomebodyMayAdvance, TypeCorrect, <1>1, PTL

-----------------------------------------------------------------------------
(***************************************************************************)
(* Liveness.  Whoever waits, waits for an invocation that only moves on,   *)
(* and each move is possible (NeverStuck) and owed by the fairness         *)
(* of Advance.                                                             *)
(***************************************************************************)
Waits(c, d) == waitOn[c] = d /\ Running(d)
At(c, d, pcs) == Waits(c, d) /\ task[d].pc \in pcs
Answered(c) == waitOn[c] = NoCaller

After(pc) ==
  CASE pc = "opening"  -> {"resolved", "failed"}
    [] pc = "resolved" -> {"loading", "failed"}
    [] pc = "loading"  -> {"created", "failed"}
    [] OTHER           -> {}

(* While a caller waits, the invocation it waits for stays as it is, moves *)
(* on, or answers it.                                                      *)
LEMMA WaitStep ==
  ASSUME IInv, [Next]_vars, NEW c \in Callers, NEW d \in Callers, Waits(c, d)
  PROVE  \/ Waits(c, d)' /\ task'[d] = task[d]
         \/ Waits(c, d)' /\ task'[d].pc \in After(task[d].pc)
         \/ Answered(c)'
<1> USE RuntimeAssumption DEF IInv
<1>1. waitOn[c] = d /\ Running(d) /\ d # NoCaller /\ waitOn[d] = d
  BY DEF Waits, WaitsInv
<1>2. ASSUME UNCHANGED <<task, waitOn>> PROVE Waits(c, d)' /\ task'[d] = task[d]
  BY <1>1, <1>2 DEF Waits, Running
<1>3. ASSUME NEW e \in Callers, InstanceJoin(e) PROVE Waits(c, d)' /\ task'[d] = task[d]
  BY <1>1, <1>3 DEF InstanceJoin, MayCall, TypeOK, Waits, Running
<1>4. ASSUME NEW e \in Callers, NEW kind, MayCall(e), Start(e, kind)
      PROVE  Waits(c, d)' /\ task'[d] = task[d]
  BY <1>1, <1>4 DEF Start, MayCall, TypeOK, Waits, Running
<1>5. ASSUME NEW e \in Callers, NEW pc \in After(task[e].pc), NEW h, Become(e, pc, h),
             UNCHANGED waitOn
      PROVE  \/ Waits(c, d)' /\ task'[d] = task[d]
             \/ Waits(c, d)' /\ task'[d].pc \in After(task[d].pc)
  BY <1>1, <1>5 DEF Become, After, TypeOK, Waits, Running
<1>6. ASSUME NEW e \in Callers, Complete(e)
      PROVE  Answered(c)' \/ (Waits(c, d)' /\ task'[d] = task[d])
  BY <1>1, <1>6 DEF Complete, Waiters, TypeOK, Waits, Answered, Running
<1>7. ASSUME NEW e \in Callers, Advance(e)
      PROVE  \/ \E pc \in After(task[e].pc), h \in Handles \cup {NoHandle} :
                  Become(e, pc, h) /\ UNCHANGED waitOn
             \/ Complete(e)
             \/ UNCHANGED <<task, waitOn>>
  BY <1>7 DEF Advance, OpenLibrary, OpenLibraryFails, CreateNative, CreateNativeFails,
     LoadBundle, LoadBundleFails, SettleShared, SettleOwn, Receive, After, TypeOK
<1>8. ASSUME NEW e \in Callers, Call(e)
      PROVE  \/ InstanceJoin(e)
             \/ \E kind \in TaskKinds : MayCall(e) /\ Start(e, kind)
             \/ UNCHANGED <<task, waitOn>>
  BY <1>8 DEF Call, InstanceExisting, InstanceCreate, CreateOrProbe, TaskKinds
<1> QED
  BY <1>2, <1>3, <1>4, <1>5, <1>6, <1>7, <1>8
  DEF Next, vars, Use, Generate, Dispose, Drop, Finalize

(* A step of the invocation itself moves it on or answers.                 *)
LEMMA WaitAdvance ==
  ASSUME IInv, NEW c \in Callers, NEW d \in Callers, Waits(c, d), Advance(d)
  PROVE  \/ Waits(c, d)' /\ task'[d].pc \in After(task[d].pc)
         \/ Answered(c)'
<1> USE RuntimeAssumption DEF IInv
<1>1. waitOn[c] = d /\ Running(d) /\ d # NoCaller /\ reply[d] = NoHandle
  BY DEF Waits, WaitsInv
<1>2. ASSUME NEW pc \in After(task[d].pc), NEW h, Become(d, pc, h), UNCHANGED waitOn
      PROVE  Waits(c, d)' /\ task'[d].pc \in After(task[d].pc)
  BY <1>1, <1>2 DEF Become, After, TypeOK, Waits, Running
<1>3. ASSUME Complete(d) PROVE Answered(c)'
  BY <1>1, <1>3 DEF Complete, Waiters, Answered
<1>4. \/ \E pc \in After(task[d].pc), h \in Handles \cup {NoHandle} :
           Become(d, pc, h) /\ UNCHANGED waitOn
      \/ Complete(d)
  BY <1>1 DEF Advance, OpenLibrary, OpenLibraryFails, CreateNative, CreateNativeFails,
     LoadBundle, LoadBundleFails, SettleShared, SettleOwn, Receive, After, TypeOK
<1> QED
  BY <1>2, <1>3, <1>4

(* What a caller waits for ends.                                           *)
LEMMA WaitEnds ==
  ASSUME NEW c \in Callers, NEW d \in Callers
  PROVE  Spec /\ Fairness(d) /\ []NobodyStuck => [](Waits(c, d) => <>Answered(c))
<1> DEFINE Opening  == At(c, d, {"opening"})
           Resolved == At(c, d, {"resolved"})
           Loading  == At(c, d, {"loading"})
           Over     == At(c, d, {"created", "failed"})
           Out      == Answered(c)
<1>1. IInv /\ [Next]_vars /\ Opening =>
        Opening' \/ Resolved' \/ Over' \/ Out'
  BY WaitStep DEF At, Waits, After
<1>2. IInv /\ [Next]_vars /\ Resolved => Resolved' \/ Loading' \/ Over' \/ Out'
  BY WaitStep DEF At, Waits, After
<1>3. IInv /\ [Next]_vars /\ Loading => Loading' \/ Over' \/ Out'
  BY WaitStep DEF At, Waits, After
<1>4. IInv /\ [Next]_vars /\ Over => Over' \/ Out'
  BY WaitStep DEF At, Waits, After
<1>5. IInv /\ <<Advance(d)>>_vars /\ Opening => Resolved' \/ Over' \/ Out'
  BY WaitAdvance DEF At, Waits, After
<1>6. IInv /\ <<Advance(d)>>_vars /\ Resolved => Loading' \/ Over' \/ Out'
  BY WaitAdvance DEF At, Waits, After
<1>7. IInv /\ <<Advance(d)>>_vars /\ Loading => Over' \/ Out'
  BY WaitAdvance DEF At, Waits, After
<1>8. IInv /\ <<Advance(d)>>_vars /\ Over => Out'
  BY WaitAdvance DEF At, Waits, After
<1>9. IInv /\ Waits(c, d) => Opening \/ Resolved \/ Loading \/ Over
  BY DEF IInv, TypeOK, TaskStates, At, Waits, Running
<1>10. /\ Opening => Waits(c, d)
       /\ Resolved => Waits(c, d)
       /\ Loading => Waits(c, d)
       /\ Over => Waits(c, d)
  BY DEF At
<1>11. NobodyStuck /\ Waits(c, d) => CanAdvance(d)
  BY DEF NobodyStuck, Waiters, Waits
<1> HIDE DEF Opening, Resolved, Loading, Over, Out
<1> QED
  BY InvariantCorrect, <1>1, <1>2, <1>3, <1>4, <1>5, <1>6, <1>7, <1>8, <1>9,
     <1>10, <1>11, PTL DEF Spec, Fairness, CanAdvance, Out

(* An answered caller resumes.                                             *)
LEMMA ReplyTaken ==
  ASSUME NEW c \in Callers
  PROVE  Spec /\ Fairness(c) /\ []NobodyStuck =>
           [](reply[c] # NoHandle => <>~Awaiting(c))
<1> DEFINE Ready == reply[c] # NoHandle
<1>1. IInv /\ [Next]_vars /\ Ready => Ready' \/ ~Awaiting(c)'
  <2> SUFFICES ASSUME IInv, [Next]_vars, Ready PROVE Ready' \/ ~Awaiting(c)'
    OBVIOUS
  <2> USE RuntimeAssumption DEF IInv
  <2>1. waitOn[c] = NoCaller /\ ~Running(c)
    BY DEF WaitsInv, TypeOK
  <2>2. ASSUME NEW e \in Callers, InstanceExisting(e) PROVE Ready'
    BY <2>2 DEF InstanceExisting, MayCall, TypeOK
  <2>3. ASSUME NEW e \in Callers, Complete(e) PROVE Ready'
    BY <2>1, <2>3 DEF Complete, Waiters
  <2>4. ASSUME NEW e \in Callers, Receive(e) PROVE Ready' \/ ~Awaiting(c)'
    BY <2>1, <2>4 DEF Receive, TypeOK, Awaiting
  <2>5. CASE UNCHANGED reply
    BY <2>5
  <2> QED
    BY <2>2, <2>3, <2>4, <2>5
    DEF Next, vars, Call, Advance, Use, InstanceJoin, InstanceCreate,
        CreateOrProbe, OpenLibrary, OpenLibraryFails, CreateNative,
        CreateNativeFails, LoadBundle, LoadBundleFails, SettleShared, SettleOwn,
        Generate, Dispose, Drop, Finalize
<1>2. IInv /\ <<Advance(c)>>_vars /\ Ready => ~Awaiting(c)'
  <2> SUFFICES ASSUME IInv, Advance(c), Ready PROVE ~Awaiting(c)'
    OBVIOUS
  <2> USE RuntimeAssumption DEF IInv
  <2>1. waitOn[c] = NoCaller /\ task[c].pc = "none"
    BY DEF WaitsInv, TypeOK, Running
  <2>2. Receive(c)
    BY <2>1 DEF Advance, OpenLibrary, OpenLibraryFails, CreateNative,
       CreateNativeFails, LoadBundle, LoadBundleFails, SettleShared, SettleOwn
  <2> QED
    BY <2>1, <2>2 DEF Receive, TypeOK, Awaiting
<1>3. NobodyStuck /\ Ready => CanAdvance(c)
  BY DEF NobodyStuck
<1> QED
  BY InvariantCorrect, <1>1, <1>2, <1>3, PTL DEF Spec, Fairness, CanAdvance

(* Every call of instance(), create() and probe() returns, the ones that   *)
(* joined a creation included, for any number of callers and isolates.     *)
THEOREM CallsReturnCorrect == FairSpec /\ []GuardsEnable => CallsReturn
<1> SUFFICES ASSUME NEW c \in Callers
             PROVE  FairSpec /\ []GuardsEnable => (Awaiting(c) ~> ~Awaiting(c))
  BY DEF CallsReturn
<1>1. FairSpec /\ []NobodyStuck =>
        \A d \in Callers : [](Waits(c, d) => <>Answered(c))
  BY WaitEnds DEF FairSpec
<1>2. (\A d \in Callers : [](Waits(c, d) => <>Answered(c))) =>
        [](\A d \in Callers : Waits(c, d) => <>Answered(c))
  OBVIOUS
<1>3. (\A d \in Callers : Waits(c, d) => <>Answered(c)) =>
        ((\E d \in Callers : Waits(c, d)) => <>Answered(c))
  OBVIOUS
<1>4. IInv /\ Awaiting(c) => (\E d \in Callers : Waits(c, d)) \/ reply[c] # NoHandle
  BY RuntimeAssumption DEF IInv, TypeOK, Awaiting, WaitsInv, PendingInv, Waits
<1>5. Answered(c) => ~Awaiting(c) \/ reply[c] # NoHandle
  BY DEF Answered, Awaiting
<1>6. FairSpec /\ []NobodyStuck => [](reply[c] # NoHandle => <>~Awaiting(c))
  BY ReplyTaken DEF FairSpec
<1>7. FairSpec => Spec
  BY DEF FairSpec
<1> QED
  BY InvariantCorrect, NeverStuck, <1>1, <1>2, <1>3, <1>4, <1>5, <1>6, <1>7, PTL
=============================================================================
