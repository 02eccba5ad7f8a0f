------------------------- MODULE BundleCacheProofs -------------------------
(***************************************************************************)
(* Theorems about BundleCache, for any loaders, bodies and files.          *)
(*                                                                         *)
(* The integrity theorem needs nothing but the steps themselves.  That the *)
(* cached file is complete needs temporary names no two loaders share,     *)
(* OwnNames; the run BundleCacheSameName shows what happens without.       *)
(***************************************************************************)
EXTENDS BundleCache, TLAPS

OwnNames == \A p, q \in Loaders : TmpName[p] = TmpName[q] => p = q

(* What has been fetched was sent, and is what was asked for. *)
FetchedInv ==
  \A p \in Loaders :
    pc[p] \in {"open", "write", "rename"} =>
      body[p] \in served /\ Accepts(body[p], want[p])

ResultInv ==
  \A p \in Loaders :
    result[p].token # NoIntegrity => result[p].bytes = result[p].token

(* Temporary files have one name each, none of them bundle.js. *)
NamesInv ==
  \A n \in TmpNames : tmp[n] # NoFile =>
    /\ tmp[n] # cached
    /\ \A m \in TmpNames : tmp[m] = tmp[n] => m = n

(* A loader writes to the file at its own temporary name, and that file is *)
(* complete when the loader is about to rename it.                         *)
WriterInv ==
  \A p \in Loaders :
    /\ pc[p] = "write" => fd[p] \in Files /\ tmp[TmpName[p]] = fd[p]
    /\ pc[p] = "rename" /\ tmp[TmpName[p]] # NoFile =>
         content[tmp[TmpName[p]]] = body[p]

(* The cached file, and what a call returned, is a body that was sent. *)
CompleteInv ==
  /\ cached # NoFile => content[cached] \in served
  /\ \A p \in Loaders : result[p].end = "returns" => result[p].bytes \in served

IInv == TypeOK /\ FetchedInv /\ ResultInv
AtomicInv == NamesInv /\ WriterInv /\ CompleteInv

-----------------------------------------------------------------------------
(* Type correctness and integrity. *)

LEMMA InitInv == Init => IInv
<1> USE CacheAssumption
<1>1. NoResult \in [end : Ends, bytes : Bodies \cup {Partial, NoBody},
                    token : Tokens \cup {NoIntegrity}]
  BY DEF NoResult, Thrown, Ends
<1>2. Init => TypeOK
  BY <1>1 DEF Init, TypeOK, PCs
<1>3. Init => FetchedInv /\ ResultInv
  BY DEF Init, FetchedInv, ResultInv, NoResult, Thrown
<1> QED
  BY <1>2, <1>3 DEF IInv

(* The two ways a call ends keep the types of what Leave sets. *)
LEMMA LeaveTypes ==
  ASSUME TypeOK, NEW p \in Loaders,
         NEW res \in [end : Ends, bytes : Bodies \cup {Partial, NoBody},
                      token : Tokens \cup {NoIntegrity}],
         Leave(p, res)
  PROVE  /\ pc' \in [Loaders -> PCs]
         /\ want' \in [Loaders -> Tokens \cup {NoIntegrity}]
         /\ body' \in [Loaders -> Bodies \cup {NoBody}]
         /\ fd' \in [Loaders -> Files \cup {NoFile}]
         /\ result' \in [Loaders -> [end : Ends,
                                     bytes : Bodies \cup {Partial, NoBody},
                                     token : Tokens \cup {NoIntegrity}]]
  BY DEF Leave, Goto, TypeOK, PCs

LEMMA ThrownTypes ==
  \A why \in Ends :
    Thrown(why) \in [end : Ends, bytes : Bodies \cup {Partial, NoBody},
                     token : Tokens \cup {NoIntegrity}]
  BY DEF Thrown

LEMMA DecodedTypes ==
  \A bytes \in Bodies \cup {Partial} : \A token \in Tokens \cup {NoIntegrity} :
    Decoded(bytes, token) \in [end : Ends, bytes : Bodies \cup {Partial, NoBody},
                               token : Tokens \cup {NoIntegrity}]
  BY DEF Decoded, Thrown, Returned, Ends

LEMMA StepInv == IInv /\ [Next]_vars => IInv'
<1> SUFFICES ASSUME IInv, [Next]_vars PROVE IInv'
  OBVIOUS
<1> USE CacheAssumption DEF IInv, directory
<1>1. ASSUME NEW p \in Loaders, NEW token \in Tokens, Call(p, token) PROVE IInv'
  <2>1. TypeOK'
    BY <1>1, ThrownTypes DEF Call, Goto, TypeOK, PCs, NoResult, Ends
  <2>2. FetchedInv' /\ ResultInv'
    BY <1>1 DEF Call, Goto, TypeOK, FetchedInv, ResultInv, NoResult, Thrown
  <2> QED
    BY <2>1, <2>2
<1>2. ASSUME NEW p \in Loaders, Exists(p) \/ ReadMiss(p) \/ DeleteFails(p) PROVE IInv'
  <2>1. TypeOK'
    <3>1. pc' \in [Loaders -> PCs]
      BY <1>2 DEF Exists, ReadMiss, DeleteFails, Goto, TypeOK, PCs
    <3>2. UNCHANGED <<remote, served, cached, tmp, content, want, body, fd, result>>
      BY <1>2 DEF Exists, ReadMiss, DeleteFails
    <3> QED
      BY <3>1, <3>2 DEF TypeOK
  <2>2. /\ \A q \in Loaders : pc'[q] = pc[q] \/ pc'[q] \in {"fetch", "read", "delete"}
        /\ UNCHANGED <<served, want, body, result>>
    BY <1>2 DEF Exists, ReadMiss, DeleteFails, Goto, TypeOK
  <2>3. FetchedInv' /\ ResultInv'
    BY <2>2 DEF FetchedInv, ResultInv, Accepts, Matches
  <2> QED
    BY <2>1, <2>3
<1>3. ASSUME NEW p \in Loaders, ReadHit(p) PROVE IInv'
  <2>1. TypeOK'
    BY <1>3, DecodedTypes, LeaveTypes DEF ReadHit, TypeOK
  <2>2. FetchedInv' /\ ResultInv'
    BY <1>3 DEF ReadHit, Accepts, Matches, Decoded, Returned, Thrown, Leave, Goto,
       TypeOK, FetchedInv, ResultInv
  <2> QED
    BY <2>1, <2>2
<1>4. ASSUME NEW p \in Loaders, NEW why \in Ends,
             Leave(p, Thrown(why)), served \subseteq served', served' \subseteq Bodies,
             remote' \in Bodies, cached' \in Files \cup {NoFile},
             tmp' \in [TmpNames -> Files \cup {NoFile}], UNCHANGED content
      PROVE  IInv'
  <2>1. TypeOK'
    BY <1>4, ThrownTypes, LeaveTypes DEF TypeOK
  <2>2. FetchedInv' /\ ResultInv'
    BY <1>4 DEF Leave, Goto, Thrown, TypeOK, FetchedInv, ResultInv
  <2> QED
    BY <2>1, <2>2
<1>5. ASSUME NEW p \in Loaders, ReadVanished(p) \/ FetchMismatch(p) \/ FetchFails(p)
      PROVE  IInv'
  BY <1>4, <1>5 DEF ReadVanished, FetchMismatch, FetchFails, TypeOK, Ends
<1>6. ASSUME NEW p \in Loaders, Crash(p) PROVE IInv'
  BY <1>4, <1>6 DEF Crash, NoResult, TypeOK, Ends
<1>7. ASSUME NEW p \in Loaders, Cleanup(p) PROVE IInv'
  <2>1. tmp' \in [TmpNames -> Files \cup {NoFile}]
    BY <1>7 DEF Cleanup, TypeOK
  <2> QED
    BY <1>4, <1>7, <2>1 DEF Cleanup, TypeOK, Ends
<1>8. ASSUME NEW p \in Loaders, Delete(p) PROVE IInv'
  <2>1. TypeOK'
    BY <1>8 DEF Delete, Goto, TypeOK, PCs
  <2>2. FetchedInv' /\ ResultInv'
    BY <1>8 DEF Delete, Goto, TypeOK, FetchedInv, ResultInv
  <2> QED
    BY <2>1, <2>2
<1>9. ASSUME NEW p \in Loaders, Fetch(p) PROVE IInv'
  <2>1. TypeOK'
    BY <1>9 DEF Fetch, Goto, TypeOK, PCs
  <2>2. FetchedInv' /\ ResultInv'
    BY <1>9 DEF Fetch, Goto, TypeOK, FetchedInv, ResultInv
  <2> QED
    BY <2>1, <2>2
<1>10. ASSUME NEW p \in Loaders, NEW f \in Files, OpenTmp(p, f) PROVE IInv'
  <2>1. TypeOK'
    BY <1>10 DEF OpenTmp, Goto, TypeOK, PCs, TmpNames
  <2>2. FetchedInv' /\ ResultInv'
    BY <1>10 DEF OpenTmp, Goto, TypeOK, FetchedInv, ResultInv
  <2> QED
    BY <2>1, <2>2
<1>11. ASSUME NEW p \in Loaders, WriteTmp(p) PROVE IInv'
  <2>1. body[p] \in Bodies
    BY <1>11 DEF WriteTmp, TypeOK, FetchedInv
  <2>2. TypeOK'
    BY <1>11, <2>1 DEF WriteTmp, Goto, TypeOK, PCs
  <2>3. FetchedInv' /\ ResultInv'
    BY <1>11 DEF WriteTmp, Goto, TypeOK, FetchedInv, ResultInv
  <2> QED
    BY <2>2, <2>3
<1>12. ASSUME NEW p \in Loaders, Rename(p) PROVE IInv'
  <2>1. body[p] \in Bodies /\ Accepts(body[p], want[p])
    BY <1>12 DEF Rename, TypeOK, FetchedInv
  <2>2. TypeOK'
    BY <1>12, <2>1, DecodedTypes, LeaveTypes DEF Rename, TypeOK, TmpNames
  <2>3. FetchedInv' /\ ResultInv'
    BY <1>12, <2>1 DEF Rename, Accepts, Matches, Decoded, Returned, Thrown, Leave,
       Goto, TypeOK, FetchedInv, ResultInv
  <2> QED
    BY <2>2, <2>3
<1>13. ASSUME NEW p \in Loaders, WriteFails(p) PROVE IInv'
  <2>1. TypeOK'
    BY <1>13 DEF WriteFails, Goto, TypeOK, PCs
  <2>2. FetchedInv' /\ ResultInv'
    BY <1>13 DEF WriteFails, Goto, TypeOK, FetchedInv, ResultInv
  <2> QED
    BY <2>1, <2>2
<1>14. ASSUME NEW b \in Bodies, Publish(b) PROVE IInv'
  BY <1>14 DEF Publish, TypeOK, FetchedInv, ResultInv
<1>15. CASE UNCHANGED vars
  BY <1>15 DEF vars, TypeOK, FetchedInv, ResultInv
<1> QED
  BY <1>1, <1>2, <1>3, <1>5, <1>6, <1>7, <1>8, <1>9, <1>10, <1>11, <1>12, <1>13,
     <1>14, <1>15 DEF Next, Advance

(* Every variable keeps its type. *)
THEOREM TypeCorrect == Spec => []TypeOK
<1>1. IInv => TypeOK
  BY DEF IInv
<1> QED
  BY InitInv, StepInv, <1>1, PTL DEF Spec

(* No call returns bytes that do not match its integrity argument, whatever *)
(* other processes do to the directory and the server to the bundle.        *)
THEOREM ReturnsWhatWasAskedForCorrect == Spec => []ReturnsWhatWasAskedFor
<1>1. IInv => ReturnsWhatWasAskedFor
  BY DEF IInv, ResultInv, ReturnsWhatWasAskedFor
<1> QED
  BY InitInv, StepInv, <1>1, PTL DEF Spec

-----------------------------------------------------------------------------
(* Completeness, where no two loaders share a temporary name. *)

LEMMA InitAtomic == Init => AtomicInv
  BY DEF Init, AtomicInv, NamesInv, WriterInv, CompleteInv, NoResult, Thrown

LEMMA NamesTypes == \A p \in Loaders : TmpName[p] \in TmpNames
  BY DEF TmpNames

LEMMA StepAtomic ==
  ASSUME OwnNames, IInv, AtomicInv, [Next]_vars
  PROVE  AtomicInv'
<1> USE CacheAssumption, NamesTypes DEF IInv, AtomicInv, directory
<1>1. ASSUME NEW p \in Loaders, NEW l \in PCs \ {"write", "rename"}, Goto(p, l),
             UNCHANGED <<content, fd, body>>, served \subseteq served',
             UNCHANGED tmp, cached' \in {cached, NoFile},
             result' = result \/ result' = [result EXCEPT ![p] = NoResult]
      PROVE  AtomicInv'
  <2>1. NamesInv'
    BY <1>1 DEF NamesInv
  <2>2. WriterInv'
    BY <1>1 DEF Goto, TypeOK, WriterInv
  <2>3. CompleteInv'
    BY <1>1 DEF NoResult, Thrown, TypeOK, CompleteInv
  <2> QED
    BY <2>1, <2>2, <2>3
<1>2. ASSUME NEW p \in Loaders, NEW token \in Tokens, Call(p, token) PROVE AtomicInv'
  BY <1>1, <1>2 DEF Call, PCs
<1>3. ASSUME NEW p \in Loaders,
             Exists(p) \/ ReadMiss(p) \/ DeleteFails(p) \/ Delete(p) \/ WriteFails(p)
      PROVE  AtomicInv'
  BY <1>1, <1>3 DEF Exists, ReadMiss, DeleteFails, Delete, WriteFails, PCs
<1>4. ASSUME NEW p \in Loaders, ReadHit(p) PROVE AtomicInv'
  BY <1>4 DEF ReadHit, Leave, Goto, Decoded, Returned, Thrown, TypeOK, NamesInv,
     WriterInv, CompleteInv
<1>5. ASSUME NEW p \in Loaders, NEW why \in Ends \ {"returns"},
             Leave(p, Thrown(why)), served \subseteq served',
             UNCHANGED <<cached, content>>,
             tmp' \in {tmp, [tmp EXCEPT ![TmpName[p]] = NoFile]}
      PROVE  AtomicInv'
  <2>1. NamesInv'
    BY <1>5 DEF TypeOK, NamesInv
  <2>2. WriterInv'
    BY <1>5 DEF OwnNames, Leave, Goto, TypeOK, WriterInv
  <2>3. CompleteInv'
    BY <1>5 DEF Leave, Thrown, TypeOK, CompleteInv
  <2> QED
    BY <2>1, <2>2, <2>3
<1>6. ASSUME NEW p \in Loaders,
             \/ ReadVanished(p) \/ FetchMismatch(p) \/ FetchFails(p)
             \/ Cleanup(p) \/ Crash(p)
      PROVE  AtomicInv'
  BY <1>5, <1>6
  DEF ReadVanished, FetchMismatch, FetchFails, Cleanup, Crash, NoResult, Ends
<1>7. ASSUME NEW p \in Loaders, Fetch(p) PROVE AtomicInv'
  BY <1>7 DEF Fetch, Goto, TypeOK, NamesInv, WriterInv, CompleteInv
<1>8. ASSUME NEW p \in Loaders, NEW f \in Files, OpenTmp(p, f) PROVE AtomicInv'
  <2> DEFINE n == TmpName[p]
  <2>1. f # cached /\ \A m \in TmpNames \ {n} : tmp[m] # f
    BY <1>8 DEF OpenTmp, InUse, NamesInv
  <2>2. NamesInv'
    BY <1>8, <2>1 DEF OpenTmp, TypeOK, NamesInv
  <2>3. WriterInv'
    BY <1>8, <2>1 DEF OwnNames, OpenTmp, Goto, TypeOK, WriterInv
  <2>4. CompleteInv'
    BY <1>8, <2>1 DEF OpenTmp, TypeOK, CompleteInv
  <2> QED
    BY <2>2, <2>3, <2>4
<1>9. ASSUME NEW p \in Loaders, WriteTmp(p) PROVE AtomicInv'
  <2>1. fd[p] \in Files /\ tmp[TmpName[p]] = fd[p]
    BY <1>9 DEF WriteTmp, WriterInv
  <2>2. fd[p] # cached /\ \A q \in Loaders \ {p} : tmp[TmpName[q]] # fd[p]
    BY <2>1 DEF OwnNames, NamesInv
  <2>3. NamesInv'
    BY <1>9 DEF WriteTmp, NamesInv
  <2>4. WriterInv'
    BY <1>9, <2>1, <2>2 DEF WriteTmp, Goto, TypeOK, WriterInv
  <2>5. CompleteInv'
    BY <1>9, <2>1, <2>2 DEF WriteTmp, TypeOK, CompleteInv
  <2> QED
    BY <2>3, <2>4, <2>5
<1>10. ASSUME NEW p \in Loaders, Rename(p) PROVE AtomicInv'
  <2>1. content[tmp[TmpName[p]]] = body[p] /\ body[p] \in served
    BY <1>10 DEF Rename, WriterInv, FetchedInv
  <2>2. NamesInv'
    BY <1>10 DEF Rename, TypeOK, NamesInv
  <2>3. WriterInv'
    BY <1>10 DEF OwnNames, Rename, Leave, Goto, TypeOK, WriterInv
  <2>4. CompleteInv'
    BY <1>10, <2>1 DEF Rename, Leave, Decoded, Returned, Thrown, TypeOK, CompleteInv
  <2> QED
    BY <2>2, <2>3, <2>4
<1>11. ASSUME NEW b \in Bodies, Publish(b) PROVE AtomicInv'
  BY <1>11 DEF Publish, NamesInv, WriterInv, CompleteInv
<1>12. CASE UNCHANGED vars
  BY <1>12 DEF vars, NamesInv, WriterInv, CompleteInv
<1> QED
  BY <1>2, <1>3, <1>4, <1>6, <1>7, <1>8, <1>9, <1>10, <1>11, <1>12 DEF Next, Advance

THEOREM AtomicCorrect == ASSUME OwnNames PROVE Spec => [](IInv /\ AtomicInv)
<1>1. IInv /\ AtomicInv /\ [Next]_vars => (IInv /\ AtomicInv)'
  BY StepInv, StepAtomic, OwnNames
<1> QED
  BY InitInv, InitAtomic, <1>1, PTL DEF Spec

(* Without an integrity argument too, a call returns a body that was sent,  *)
(* complete, whoever crashed and whatever failed in between.                *)
THEOREM ReturnsWhatWasServedCorrect ==
  ASSUME OwnNames PROVE Spec => []ReturnsWhatWasServed
<1>1. AtomicInv => ReturnsWhatWasServed
  BY DEF AtomicInv, CompleteInv, ReturnsWhatWasServed
<1> QED
  BY OwnNames, AtomicCorrect, <1>1, PTL

(* Nobody finds a half-written file under the cached name.                  *)
THEOREM NeverHalfWrittenCorrect ==
  ASSUME OwnNames PROVE Spec => []NeverHalfWritten
<1>1. IInv /\ AtomicInv => NeverHalfWritten
  BY CacheAssumption
  DEF IInv, TypeOK, AtomicInv, CompleteInv, NeverHalfWritten, Cell
<1> QED
  BY OwnNames, AtomicCorrect, <1>1, PTL

-----------------------------------------------------------------------------
(* The implementation of AtomicCache. *)

(* A step that touches neither the cached file nor the server stutters.     *)
LEMMA StutterStep ==
  ASSUME UNCHANGED <<cached, content, served>>
  PROVE  UNCHANGED <<Cell, served>>
  BY DEF Cell

LEMMA PromiseStep ==
  ASSUME OwnNames, IInv, AtomicInv, [Next]_vars
  PROVE  [Promise!Next]_<<Cell, served>>
<1> USE CacheAssumption, NamesTypes DEF IInv, AtomicInv, directory
<1>1. ASSUME NEW p \in Loaders, Fetch(p) \/ FetchMismatch(p)
      PROVE  Promise!Serve
  BY <1>1 DEF Fetch, FetchMismatch, TypeOK, Cell, Promise!Serve
<1>2. ASSUME NEW p \in Loaders, Delete(p) PROVE Promise!Remove
  BY <1>2 DEF Delete, Cell, Promise!Remove
<1>3. ASSUME NEW p \in Loaders, NEW f \in Files, OpenTmp(p, f)
      PROVE  UNCHANGED <<Cell, served>>
  <2>1. f # cached
    BY <1>3 DEF OpenTmp, InUse, NamesInv
  <2> QED
    BY <1>3, <2>1 DEF OpenTmp, TypeOK, Cell
<1>4. ASSUME NEW p \in Loaders, WriteTmp(p) PROVE UNCHANGED <<Cell, served>>
  <2>1. fd[p] # cached
    BY <1>4 DEF WriteTmp, WriterInv, NamesInv
  <2> QED
    BY <1>4, <2>1 DEF WriteTmp, TypeOK, Cell
<1>5. ASSUME NEW p \in Loaders, Rename(p) PROVE Promise!Replace
  <2>1. content[tmp[TmpName[p]]] \in served
    BY <1>5 DEF Rename, WriterInv, FetchedInv
  <2> QED
    BY <1>5, <2>1 DEF Rename, TypeOK, Cell, Promise!Replace
<1>6. CASE UNCHANGED <<cached, content, served>>
  BY <1>6, StutterStep
<1> QED
  BY <1>1, <1>2, <1>3, <1>4, <1>5, <1>6
  DEF Next, Advance, Promise!Next, vars, Call, Exists, ReadHit, ReadMiss,
      ReadVanished, DeleteFails, FetchFails, WriteFails, Cleanup, Crash, Publish

(* The cached file changes in whole steps only: it implements AtomicCache.  *)
THEOREM CacheIsAtomicCorrect == ASSUME OwnNames PROVE Spec => CacheIsAtomic
<1>1. Init => Promise!Init
  BY DEF Init, Cell, Promise!Init
<1>2. IInv /\ AtomicInv /\ [Next]_vars => [Promise!Next]_<<Cell, served>>
  BY OwnNames, PromiseStep
<1> QED
  BY OwnNames, AtomicCorrect, <1>1, <1>2, PTL DEF Spec, CacheIsAtomic, Promise!Spec
-----------------------------------------------------------------------------
(* Where every loader asks for the same integrity. *)

OneToken == \A s, t \in Tokens : s = t

(* What is cached suits everybody, so nobody removes it. *)
SuitableInv ==
  /\ cached # NoFile => \A t \in Tokens : Accepts(content[cached], t)
  /\ \A p \in Loaders :
       /\ pc[p] # "idle" => want[p] \in Tokens
       /\ pc[p] # "delete"
       /\ pc[p] = "read" => cached # NoFile
       /\ result[p].end # "vanished"

LEMMA InitSuitable == Init => SuitableInv
  BY DEF Init, SuitableInv, NoResult, Thrown

LEMMA StepSuitable ==
  ASSUME OwnNames, OneToken, IInv, AtomicInv, SuitableInv, [Next]_vars
  PROVE  SuitableInv'
<1> USE CacheAssumption, NamesTypes DEF IInv, AtomicInv, directory
(* A step of one loader that leaves the cached file alone. *)
<1>1. ASSUME NEW p \in Loaders, NEW l \in PCs \ {"read", "delete"}, Goto(p, l),
             cached' = cached,
             cached # NoFile => content'[cached] = content[cached],
             \/ l = "idle"
             \/ UNCHANGED want /\ pc[p] # "idle"
             \/ \E t \in Tokens : want' = [want EXCEPT ![p] = t],
             \A q \in Loaders \ {p} : want'[q] = want[q],
             \/ UNCHANGED result
             \/ \E res : res.end # "vanished" /\ result' = [result EXCEPT ![p] = res]
      PROVE  SuitableInv'
  <2>1. cached' # NoFile => \A t \in Tokens : Accepts(content'[cached'], t)
    BY <1>1 DEF SuitableInv
  <2>2. ASSUME NEW q \in Loaders, q # p
        PROVE  /\ pc'[q] # "idle" => want'[q] \in Tokens
               /\ pc'[q] # "delete"
               /\ pc'[q] = "read" => cached' # NoFile
               /\ result'[q].end # "vanished"
    BY <1>1, <2>2 DEF Goto, TypeOK, SuitableInv
  <2>3. pc'[p] = l /\ (l # "idle" => want'[p] \in Tokens)
    BY <1>1 DEF Goto, TypeOK, SuitableInv
  <2>4. result'[p].end # "vanished"
    BY <1>1 DEF TypeOK, SuitableInv
  <2> QED
    BY <2>1, <2>2, <2>3, <2>4 DEF SuitableInv, Accepts, Matches
<1>2. ASSUME NEW p \in Loaders, NEW res, Leave(p, res), res.end # "vanished",
             cached' = cached, UNCHANGED content
      PROVE  SuitableInv'
  <2>1. \A q \in Loaders \ {p} : want'[q] = want[q]
    BY <1>2 DEF Leave, TypeOK
  <2> QED
    BY <1>1, <1>2, <2>1 DEF Leave, PCs
<1>3. ASSUME NEW p \in Loaders, NEW token \in Tokens, Call(p, token)
      PROVE  SuitableInv'
  <2>1. \A q \in Loaders \ {p} : want'[q] = want[q]
    BY <1>3 DEF Call, TypeOK
  <2>2. NoResult.end # "vanished"
    BY DEF NoResult, Thrown
  <2> QED
    BY <1>1, <1>3, <2>1, <2>2 DEF Call, PCs
<1>4. ASSUME NEW p \in Loaders, Exists(p) PROVE SuitableInv'
  BY <1>4 DEF Exists, Goto, TypeOK, SuitableInv
<1>5. ASSUME NEW p \in Loaders, ReadHit(p) PROVE SuitableInv'
  BY <1>2, <1>5 DEF ReadHit, Decoded, Returned, Thrown
<1>6. ASSUME NEW p \in Loaders,
             ReadMiss(p) \/ ReadVanished(p) \/ Delete(p) \/ DeleteFails(p)
      PROVE  FALSE
  BY <1>6 DEF ReadMiss, ReadVanished, Delete, DeleteFails, SuitableInv
<1>7. ASSUME NEW p \in Loaders, Fetch(p) \/ WriteFails(p) PROVE SuitableInv'
  BY <1>1, <1>7 DEF Fetch, WriteFails, PCs
<1>8. ASSUME NEW p \in Loaders,
             FetchMismatch(p) \/ FetchFails(p) \/ Cleanup(p) \/ Crash(p)
      PROVE  SuitableInv'
  BY <1>2, <1>8 DEF FetchMismatch, FetchFails, Cleanup, Crash, NoResult, Thrown
<1>9. ASSUME NEW p \in Loaders, NEW f \in Files, OpenTmp(p, f) PROVE SuitableInv'
  <2>1. f # cached
    BY <1>9 DEF OpenTmp, InUse, NamesInv
  <2>2. cached # NoFile => content'[cached] = content[cached]
    BY <1>9, <2>1 DEF OpenTmp, TypeOK
  <2> QED
    BY <1>1, <1>9, <2>2 DEF OpenTmp, PCs
<1>10. ASSUME NEW p \in Loaders, WriteTmp(p) PROVE SuitableInv'
  <2>1. fd[p] # cached
    BY <1>10 DEF WriteTmp, WriterInv, NamesInv
  <2>2. cached # NoFile => content'[cached] = content[cached]
    BY <1>10, <2>1 DEF WriteTmp, TypeOK
  <2> QED
    BY <1>1, <1>10, <2>2 DEF WriteTmp, PCs
<1>11. ASSUME NEW p \in Loaders, Rename(p) PROVE SuitableInv'
  <2>1. content[tmp[TmpName[p]]] = body[p] /\ Accepts(body[p], want[p])
    BY <1>11 DEF Rename, WriterInv, FetchedInv
  <2>2. want[p] \in Tokens
    BY <1>11 DEF Rename, SuitableInv
  <2>3. \A t \in Tokens : Accepts(content'[cached'], t)
    BY <1>11, <2>1, <2>2 DEF Rename, OneToken, Accepts
  <2>4. cached' # NoFile
    BY <1>11 DEF Rename
  <2>5. Decoded(body[p], want[p]).end # "vanished"
    BY DEF Decoded, Returned, Thrown
  <2> QED
    BY <1>11, <2>3, <2>4, <2>5
    DEF Rename, Leave, Goto, TypeOK, SuitableInv, Accepts, Matches
<1>12. ASSUME NEW b \in Bodies, Publish(b) PROVE SuitableInv'
  BY <1>12 DEF Publish, SuitableInv, Accepts, Matches
<1>13. CASE UNCHANGED vars
  BY <1>13 DEF vars, SuitableInv, Accepts, Matches
<1> QED
  BY <1>3, <1>4, <1>5, <1>6, <1>7, <1>8, <1>9, <1>10, <1>11, <1>12, <1>13
  DEF Next, Advance

(* Only loaders that ask for different integrities can pull a file from     *)
(* under each other: while all ask for the same, the read that follows a    *)
(* successful existsSync() finds the file, whoever crashes, whatever fails  *)
(* and whatever the server publishes.                                       *)
THEOREM NeverThrowsOnReadOneToken ==
  ASSUME OwnNames, OneToken PROVE Spec => []NeverThrowsOnRead
<1> DEFINE Inv == IInv /\ AtomicInv /\ SuitableInv
<1>1. Init => Inv
  BY InitInv, InitAtomic, InitSuitable
<1>2. Inv /\ [Next]_vars => Inv'
  BY OwnNames, OneToken, StepInv, StepAtomic, StepSuitable
<1>3. Inv => NeverThrowsOnRead
  BY DEF SuitableInv, NeverThrowsOnRead
<1> QED
  BY <1>1, <1>2, <1>3, PTL DEF Spec
=============================================================================
