---------------------------- MODULE BundleCache ----------------------------
(***************************************************************************)
(* fetchAndCacheBundle of lib/src/ffi/native_bundle_cache.dart, run for    *)
(* one URL by isolates of one or more processes over a shared directory.   *)
(*                                                                         *)
(* Each action is one call to the file system or the network: isolates run *)
(* in parallel, and other processes too, so anything can happen between    *)
(* two of them.  A directory maps names to files, and a file that is open  *)
(* or being read stays what it is when its name is removed or replaced.    *)
(***************************************************************************)
EXTENDS Naturals, FiniteSets

CONSTANTS Loaders,    \* isolates that load the bundle
          TmpName,    \* the temporary name a loader derives from pid and clock
          Bodies,     \* response bodies; a body also stands for its SRI token
          Undecodable,\* the bodies that are not UTF-8
          Tokens,     \* the integrity arguments in use
          Files,      \* identities of files (inodes)
          Partial,    \* the content of a file between its creation and its flush
          NoFile,     \* a name that is not in the directory, no open file
          NoBody,     \* a loader has fetched and returned nothing
          NoIntegrity,\* the integrity argument is null
          BadToken    \* an integrity argument that fits no body: _tryParseSri
                      \* rejects it, or its algorithm is in upper case

TmpNames == {TmpName[p] : p \in Loaders}

ASSUME CacheAssumption ==
  /\ DOMAIN TmpName = Loaders
  /\ Partial \notin Bodies \cup {BadToken} /\ NoBody \notin Bodies
  /\ Undecodable \subseteq Bodies
  /\ NoIntegrity \notin Bodies /\ BadToken \notin Bodies /\ NoIntegrity # BadToken
  /\ NoFile \notin Files \cup {Partial}
  /\ Tokens \subseteq Bodies \cup {NoIntegrity, BadToken}
  /\ IsFiniteSet(Files)

VARIABLES
  remote,   \* the body the server sends now
  served,   \* auxiliary: the bodies it has sent so far
  cached,   \* the file at bundle.js, or NoFile
  tmp,      \* [TmpNames -> Files or NoFile]: the file at a temporary name
  content,  \* [Files -> Bodies or Partial]
  pc,       \* where a loader is in fetchAndCacheBundle
  want,     \* its integrity argument
  body,     \* the bytes it has fetched
  fd,       \* the file it has open for writing
  result    \* how its last call ended: the bytes it returned and the
            \* integrity argument they answer, or why it threw

vars == <<remote, served, cached, tmp, content, pc, want, body, fd, result>>

directory == <<cached, tmp, content>>

Returned(bytes, token) == [end |-> "returns", bytes |-> bytes, token |-> token]
Thrown(why) == [end |-> why, bytes |-> NoBody, token |-> NoIntegrity]
NoResult == Thrown("none")

(* return utf8.decode(bytes) *)
Decoded(bytes, token) ==
  IF bytes \in Undecodable THEN Thrown("decode") ELSE Returned(bytes, token)

Ends == {"none", "returns", "vanished", "fetch", "integrity", "write", "decode"}
PCs == {"idle", "exists", "read", "delete", "fetch", "open", "write", "rename",
        "cleanup"}

Init ==
  /\ remote \in Bodies
  /\ served = {}
  /\ cached = NoFile
  /\ tmp = [n \in TmpNames |-> NoFile]
  /\ content = [f \in Files |-> Partial]
  /\ pc = [p \in Loaders |-> "idle"]
  /\ want = [p \in Loaders |-> NoIntegrity]
  /\ body = [p \in Loaders |-> NoBody]
  /\ fd = [p \in Loaders |-> NoFile]
  /\ result = [p \in Loaders |-> NoResult]

-----------------------------------------------------------------------------
Goto(p, l) == pc' = [pc EXCEPT ![p] = l]

(* The call ends: what it was working with is forgotten. *)
Leave(p, res) ==
  /\ Goto(p, "idle")
  /\ result' = [result EXCEPT ![p] = res]
  /\ want' = [want EXCEPT ![p] = NoIntegrity]
  /\ body' = [body EXCEPT ![p] = NoBody]
  /\ fd' = [fd EXCEPT ![p] = NoFile]

(* _matchesIntegrity: a token that does not parse matches nothing. *)
Matches(bytes, token) == token = bytes
Accepts(bytes, token) == token = NoIntegrity \/ Matches(bytes, token)

Call(p, token) ==
  /\ pc[p] = "idle"
  /\ Goto(p, "exists")
  /\ want' = [want EXCEPT ![p] = token]
  /\ result' = [result EXCEPT ![p] = NoResult]
  /\ UNCHANGED <<remote, served, directory, body, fd>>

(* cacheFile.existsSync() *)
Exists(p) ==
  /\ pc[p] = "exists"
  /\ Goto(p, IF cached = NoFile THEN "fetch" ELSE "read")
  /\ UNCHANGED <<remote, served, directory, want, body, fd, result>>

(* Mutant: a cached file is not verified. *)
ReadHitUnverified(p) ==
  /\ pc[p] = "read" /\ cached # NoFile
  /\ Leave(p, Decoded(content[cached], want[p]))
  /\ UNCHANGED <<remote, served, directory>>

(* cacheFile.readAsBytesSync(), and the file's bytes are acceptable. *)
ReadHit(p) ==
  /\ pc[p] = "read" /\ cached # NoFile
  /\ Accepts(content[cached], want[p])
  /\ Leave(p, Decoded(content[cached], want[p]))
  /\ UNCHANGED <<remote, served, directory>>

ReadMiss(p) ==
  /\ pc[p] = "read" /\ cached # NoFile
  /\ ~Accepts(content[cached], want[p])
  /\ Goto(p, "delete")
  /\ UNCHANGED <<remote, served, directory, want, body, fd, result>>

(* Somebody removed the file since existsSync(); the read throws. *)
ReadVanished(p) ==
  /\ pc[p] = "read" /\ cached = NoFile
  /\ Leave(p, Thrown("vanished"))
  /\ UNCHANGED <<remote, served, directory>>

(* cacheFile.deleteSync(): whatever file has the name by now. *)
Delete(p) ==
  /\ pc[p] = "delete"
  /\ cached' = NoFile
  /\ Goto(p, "fetch")
  /\ UNCHANGED <<remote, served, tmp, content, want, body, fd, result>>

(* It throws, and the exception is swallowed. *)
DeleteFails(p) ==
  /\ pc[p] = "delete"
  /\ Goto(p, "fetch")
  /\ UNCHANGED <<remote, served, directory, want, body, fd, result>>

(* Mutant: the fetched bytes are not there any more when they are written. *)
FetchForgets(p) ==
  /\ pc[p] = "fetch"
  /\ Accepts(remote, want[p])
  /\ served' = served \cup {remote}
  /\ Goto(p, "open")
  /\ UNCHANGED <<remote, directory, want, body, fd, result>>

(* _fetch returns the body the server sends at that time, ... *)
Fetch(p) ==
  /\ pc[p] = "fetch"
  /\ Accepts(remote, want[p])
  /\ served' = served \cup {remote}
  /\ body' = [body EXCEPT ![p] = remote]
  /\ Goto(p, "open")
  /\ UNCHANGED <<remote, directory, want, fd, result>>

(* ... which may not be the one asked for; ... *)
FetchMismatch(p) ==
  /\ pc[p] = "fetch"
  /\ ~Accepts(remote, want[p])
  /\ served' = served \cup {remote}
  /\ Leave(p, Thrown("integrity"))
  /\ UNCHANGED <<remote, directory>>

(* ... or throws: no connection, a status other than 200, _fetchTimeout. *)
FetchFails(p) ==
  /\ pc[p] = "fetch"
  /\ Leave(p, Thrown("fetch"))
  /\ UNCHANGED <<remote, served, directory>>

-----------------------------------------------------------------------------
InUse == {cached} \cup {tmp[n] : n \in TmpNames} \cup {fd[p] : p \in Loaders}

(* Mutant: no temporary file, writeAsBytesSync opens bundle.js itself. *)
OpenInPlace(p, f) ==
  /\ pc[p] = "open"
  /\ f \in IF cached = NoFile THEN Files \ InUse ELSE {cached}
  /\ cached' = f
  /\ content' = [content EXCEPT ![f] = Partial]
  /\ fd' = [fd EXCEPT ![p] = f]
  /\ Goto(p, "write")
  /\ UNCHANGED <<remote, served, tmp, want, body, result>>

(* writeAsBytesSync opens the temporary name, creating or truncating it, ... *)
OpenTmp(p, f) ==
  /\ pc[p] = "open"
  /\ f \in IF tmp[TmpName[p]] = NoFile THEN Files \ InUse ELSE {tmp[TmpName[p]]}
  /\ tmp' = [tmp EXCEPT ![TmpName[p]] = f]
  /\ content' = [content EXCEPT ![f] = Partial]
  /\ fd' = [fd EXCEPT ![p] = f]
  /\ Goto(p, "write")
  /\ UNCHANGED <<remote, served, cached, want, body, result>>

(* Mutant: the file is renamed before its bytes are written. *)
WriteTmpUnflushed(p) ==
  /\ pc[p] = "write"
  /\ Goto(p, "rename")
  /\ UNCHANGED <<remote, served, directory, want, body, fd, result>>

(* ... and writes and flushes the file it has opened. *)
WriteTmp(p) ==
  /\ pc[p] = "write"
  /\ content' = [content EXCEPT ![fd[p]] = body[p]]
  /\ Goto(p, "rename")
  /\ UNCHANGED <<remote, served, cached, tmp, want, body, fd, result>>

(* tmp.renameSync(cacheFile.path), and the call returns what it fetched if *)
(* it can.                                                                 *)
Rename(p) ==
  /\ pc[p] = "rename" /\ tmp[TmpName[p]] # NoFile
  /\ cached' = tmp[TmpName[p]]
  /\ tmp' = [tmp EXCEPT ![TmpName[p]] = NoFile]
  /\ Leave(p, Decoded(body[p], want[p]))
  /\ UNCHANGED <<remote, served, content>>

(* Opening, writing or renaming throws: no space, no permission, no file. *)
WriteFails(p) ==
  /\ pc[p] \in {"open", "write", "rename"}
  /\ Goto(p, "cleanup")
  /\ UNCHANGED <<remote, served, directory, want, body, fd, result>>

(* The temporary file is removed if it is there and can be; then rethrow. *)
Cleanup(p) ==
  /\ pc[p] = "cleanup"
  /\ tmp' \in {tmp, [tmp EXCEPT ![TmpName[p]] = NoFile]}
  /\ Leave(p, Thrown("write"))
  /\ UNCHANGED <<remote, served, cached, content>>

-----------------------------------------------------------------------------
(* The environment: the process dies, the server publishes another body. *)
Crash(p) ==
  /\ pc[p] # "idle"
  /\ Leave(p, NoResult)
  /\ UNCHANGED <<remote, served, directory>>

Publish(b) ==
  /\ b # remote
  /\ remote' = b
  /\ UNCHANGED <<served, directory, pc, want, body, fd, result>>

Advance(p) ==
  \/ Exists(p)
  \/ ReadHit(p) \/ ReadMiss(p) \/ ReadVanished(p)
  \/ Delete(p) \/ DeleteFails(p)
  \/ Fetch(p) \/ FetchMismatch(p) \/ FetchFails(p)
  \/ \E f \in Files : OpenTmp(p, f)
  \/ WriteTmp(p) \/ Rename(p)
  \/ WriteFails(p) \/ Cleanup(p)

Next ==
  \/ \E p \in Loaders :
       \/ \E token \in Tokens : Call(p, token)
       \/ Advance(p)
       \/ Crash(p)
  \/ \E b \in Bodies : Publish(b)

Spec == Init /\ [][Next]_vars

-----------------------------------------------------------------------------
(* Properties. *)

TypeOK ==
  /\ remote \in Bodies
  /\ served \in SUBSET Bodies
  /\ cached \in Files \cup {NoFile}
  /\ tmp \in [TmpNames -> Files \cup {NoFile}]
  /\ content \in [Files -> Bodies \cup {Partial}]
  /\ pc \in [Loaders -> PCs]
  /\ want \in [Loaders -> Tokens \cup {NoIntegrity}]
  /\ body \in [Loaders -> Bodies \cup {NoBody}]
  /\ fd \in [Loaders -> Files \cup {NoFile}]
  /\ result \in [Loaders -> [end : Ends, bytes : Bodies \cup {Partial, NoBody},
                              token : Tokens \cup {NoIntegrity}]]

(* A call with an integrity token never returns bytes that do not match it, *)
(* from the cache or from the network, whatever others do to the file.      *)
ReturnsWhatWasAskedFor ==
  \A p \in Loaders :
    result[p].token # NoIntegrity => result[p].bytes = result[p].token

(* Also without a token a call returns a complete body the server has sent, *)
(* never the beginning of one, whoever crashed while writing it.            *)
ReturnsWhatWasServed ==
  \A p \in Loaders : result[p].end = "returns" => result[p].bytes \in served

(* The cached file is always complete: the implementation of the promise. *)
Cell == IF cached = NoFile THEN NoFile ELSE content[cached]
Promise == INSTANCE AtomicCache WITH cell <- Cell, Absent <- NoFile
CacheIsAtomic == Promise!Spec

(* The comment on the atomic write: isolates and processes that look at the *)
(* cached file "either see the complete previous file or the complete new   *)
(* file - never a half-written blob".                                       *)
NeverHalfWritten == Cell # Partial

(* The same comment: they see the previous file or the new one, so a loader *)
(* that saw a cached file never finds neither and throws.                   *)
NeverThrowsOnRead == \A p \in Loaders : result[p].end # "vanished"
=============================================================================
