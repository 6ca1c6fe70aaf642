-------------------------------- MODULE MemfsVfs --------------------------------
(***************************************************************************)
(* memfs_vfs_Open, memfs_io_Close, memfs_vfs_Delete and the loop of        *)
(* memfs_destroy over the files: the life of the files of the VFS, of      *)
(* their place in its list and of the references to them, under calls of   *)
(* several threads.  xOpen creates a file under the list's mutex (found    *)
(* again there before it is made); the count nRef, the searches, xDelete   *)
(* and the unload take no mutex.                                           *)
(*                                                                         *)
(* A step is what a call does to shared memory between two points where    *)
(* another thread may come in: a search of the list, the mutex, a load or  *)
(* a store of nRef, a link made or taken out.  The search and the links    *)
(* are whole here; the pointers inside them are not modelled.              *)
(*                                                                         *)
(* A file freed while something still leads to it has no defined           *)
(* behaviour: the program is "undefined" from the first access on.  An     *)
(* assert that fails stops a debug build and is not there in a release     *)
(* build; both may happen.                                                 *)
(***************************************************************************)
EXTENDS Integers, SequencesExt

CONSTANTS
  Threads,
  Handles,        \* sqlite3_file objects
  Names,
  Files,          \* bound: the addresses malloc has for memfs_file_data (one
                  \*   that is freed but still linked is not used again)
  RefBound,       \* bound: no xOpen begins when a count is further from 0
  None            \* no file, no thread, no argument

ASSUME VfsAssumption ==
  /\ None \notin Threads \cup Handles \cup Names \cup Files
  /\ RefBound \in Nat

VARIABLES
  listed,     \* the files linked in pVfs->pAppData, in order
  mutex,      \* the thread that holds that list's critical section
  live,       \* the files allocated and not freed
  name,       \* memfs_file_data.zName
  nRef,       \* memfs_file_data.nRef
  refs,       \* memfs_file_data.pRefs: the handles linked in it
  pData,      \* file_object.pData
  handle,     \* "closed" (pMethods is NULL or the object is gone), "open",
              \*   or "failed": xOpen has failed and left pMethods set
  call,       \* of each thread: where it is in which call, and its locals
  status,     \* "running", "assert" or "undefined"
  lost,       \* history: the files that a store to nRef has overwritten an
              \*   update of
  unsafe      \* history: an xDelete or the unload met another call that
              \*   it can harm, a release build went past an assertion that
              \*   the file is unused, or did so by a count that had lost an
              \*   update, or xOpen destroyed a file because it had no
              \*   memory for the handle's link

fileVars == <<live, name, nRef, refs>>
vars     == <<listed, mutex, fileVars, pData, handle, call, status, lost, unsafe>>

Idle == [pc |-> "idle", h |-> None, n |-> None, f |-> None, tmp |-> 0]

OpenPcs   == {"Enter", "Recheck", "Create", "Init", "OpenRead", "OpenWrite",
              "Link", "Undo"}
ClosePcs  == {"CloseWrite", "Unlink"}
DeletePcs == {"Assert", "Unlist", "Destroy"}
UnloadPcs == {"Unload", "UnloadAssert", "UnloadDestroy"}

At(t, pc)   == status = "running" /\ call[t].pc = pc
Goto(t, pc) == call' = [call EXCEPT ![t].pc = pc]
Return(t)   == call' = [call EXCEPT ![t] = Idle]
InCall(h)   == \E t \in Threads : call[t].h = h

Init ==
  /\ listed = <<>>
  /\ mutex  = None
  /\ live   = {}
  /\ name   = [f \in Files |-> None]
  /\ nRef   = [f \in Files |-> 0]
  /\ refs   = [f \in Files |-> {}]
  /\ pData  = [h \in Handles |-> None]
  /\ handle = [h \in Handles |-> "closed"]
  /\ call   = [t \in Threads |-> Idle]
  /\ status = "running"
  /\ lost   = {}
  /\ unsafe = FALSE

Stop(how) ==
  /\ status' = how
  /\ UNCHANGED <<listed, mutex, fileVars, pData, handle, call, lost, unsafe>>

(* An access to a file that has been freed.                                *)
Undefined(f) == f \notin live /\ Stop("undefined")
-------------------------------------------------------------------------------
(* find_file_data: the first file of the list with the name.  It compares  *)
(* the name of every file it passes.                                       *)
Find(n) ==
  LET i == SelectInSeq(listed, LAMBDA f : name[f] = n)
  IN IF i = 0 THEN None ELSE listed[i]

FindUndefined(n) ==
  LET i == SelectInSeq(listed, LAMBDA f : f \notin live \/ name[f] = n)
  IN /\ i # 0 /\ listed[i] \notin live
     /\ Stop("undefined")

FindSafe(n) ==
  LET i == SelectInSeq(listed, LAMBDA f : f \notin live \/ name[f] = n)
  IN i # 0 => listed[i] \in live

(* destroy_file, with clear_file's assertion, which holds of a list of     *)
(* fewer than two items.                                                   *)
AssertsShort(f) == Cardinality(refs[f]) < 2

Destroy(f) ==
  /\ f \in live
  /\ live' = live \ {f}
  /\ name' = [name EXCEPT ![f] = None]
  /\ nRef' = [nRef EXCEPT ![f] = 0]
  /\ refs' = [refs EXCEPT ![f] = {}]
  /\ lost' = lost \ {f}

DestroyStops(f) ==
  \/ Undefined(f)
  \/ f \in live /\ ~AssertsShort(f) /\ Stop("assert")
-------------------------------------------------------------------------------
(* memfs_vfs_Open                                                          *)

MayOpen(t, h, n) ==
  /\ At(t, "idle")
  /\ handle[h] # "open" /\ ~InCall(h)
  /\ \A f \in live : nRef[f] \in -RefBound .. RefBound
  /\ \A u \in Threads : call[u].tmp \in -RefBound .. RefBound

(* The file of the name may be freed under a call that begins now.         *)
Unloading       == \E u \in Threads : call[u].pc \in UnloadPcs
BeingDeleted(n) ==
  Unloading \/ \E u \in Threads : call[u].pc \in DeletePcs /\ call[u].n = n

Start(t, h, n, pc) ==
  call' = [call EXCEPT ![t] = [Idle EXCEPT !.pc = pc, !.h = h, !.n = n]]

(* Neither found nor to be created: SQLITE_IOERR, the handle stays empty.  *)
OpenMissing(t, h, n) ==
  /\ MayOpen(t, h, n)
  /\ FindSafe(n) /\ Find(n) = None
  /\ pData'  = [pData EXCEPT ![h] = None]
  /\ handle' = [handle EXCEPT ![h] = "closed"]
  /\ UNCHANGED <<listed, mutex, fileVars, call, status, lost, unsafe>>

OpenSearch(t, h, n) ==
  /\ MayOpen(t, h, n)
  /\ \/ FindUndefined(n)
     \/ /\ FindSafe(n)
        /\ pData'  = [pData EXCEPT ![h] = Find(n)]
        /\ handle' = [handle EXCEPT ![h] = "closed"]
        /\ Start(t, h, n, IF Find(n) = None THEN "Enter" ELSE "OpenRead")
        /\ unsafe' = (unsafe \/ BeingDeleted(n))
        /\ UNCHANGED <<listed, mutex, fileVars, status, lost>>

OpenEnter(t) ==
  /\ At(t, "Enter")
  /\ mutex = None
  /\ mutex' = t
  /\ Goto(t, "Recheck")
  /\ UNCHANGED <<listed, fileVars, pData, handle, status, lost, unsafe>>

OpenNoRecheck(t) ==            \* mutant: the second search is left out
  /\ At(t, "Recheck")
  /\ Goto(t, "Create")
  /\ UNCHANGED <<listed, mutex, fileVars, pData, handle, status, lost, unsafe>>

OpenRecheck(t) ==
  /\ At(t, "Recheck")
  /\ LET f == Find(call[t].n)
     IN \/ FindUndefined(call[t].n)
        \/ /\ FindSafe(call[t].n)
           /\ IF f = None
              THEN Goto(t, "Create") /\ UNCHANGED <<mutex, pData>>
              ELSE /\ pData' = [pData EXCEPT ![call[t].h] = f]
                   /\ mutex' = None
                   /\ Goto(t, "OpenRead")
           /\ UNCHANGED <<listed, fileVars, handle, status, lost, unsafe>>

(* malloc, and the zeros that init_file_data begins with.                  *)
OpenAlloc(t) ==
  /\ At(t, "Create")
  /\ \E f \in Files \ (live \cup Range(listed)) :
       /\ live'  = live \cup {f}
       /\ name'  = [name EXCEPT ![f] = None]
       /\ nRef'  = [nRef EXCEPT ![f] = 0]
       /\ refs'  = [refs EXCEPT ![f] = {}]
       /\ pData' = [pData EXCEPT ![call[t].h] = f]
  /\ Goto(t, "Init")
  /\ UNCHANGED <<listed, mutex, handle, status, lost, unsafe>>

OpenAllocGoesOn(t) ==          \* mutant: the result is not looked at
  /\ At(t, "Create")
  /\ mutex' = None
  /\ Goto(t, "OpenRead")
  /\ UNCHANGED <<listed, fileVars, pData, handle, status, lost, unsafe>>

(* SQLITE_NOMEM, and there is nothing to free.                             *)
OpenAllocFails(t) ==
  /\ At(t, "Create")
  /\ mutex' = None
  /\ Return(t)
  /\ UNCHANGED <<listed, fileVars, pData, handle, status, lost, unsafe>>

(* init_file_data and add_link: the file is complete before it is linked.  *)
OpenInit(t) ==
  /\ At(t, "Init")
  /\ LET f == pData[call[t].h]
     IN \/ Undefined(f)
        \/ /\ f \in live
           /\ name'   = [name EXCEPT ![f] = call[t].n]
           /\ listed' = Append(listed, f)
           /\ mutex'  = None
           /\ Goto(t, "OpenRead")
           /\ UNCHANGED <<live, nRef, refs, pData, handle, status, lost, unsafe>>

OpenInitKeepsFile(t) ==        \* mutant: destroy_file is left out
  /\ At(t, "Init")
  /\ mutex' = None
  /\ Return(t)
  /\ UNCHANGED <<listed, fileVars, pData, handle, status, lost, unsafe>>

OpenInitKeepsMutex(t) ==       \* mutant: an early return skips the leave
  /\ At(t, "Init")
  /\ Destroy(pData[call[t].h])
  /\ Return(t)
  /\ UNCHANGED <<listed, mutex, pData, handle, status, unsafe>>

(* SQLITE_NOMEM in either: the file is freed, the handle's pData is left.  *)
OpenInitFails(t) ==
  /\ At(t, "Init")
  /\ LET f == pData[call[t].h]
     IN \/ DestroyStops(f)
        \/ /\ Destroy(f)
           /\ mutex' = None
           /\ Return(t)
           /\ UNCHANGED <<listed, pData, handle, status, unsafe>>

(* pData->nRef += 1: a load and a store.                                   *)
OpenReadRef(t) ==
  /\ At(t, "OpenRead")
  /\ LET f == pData[call[t].h]
     IN \/ Undefined(f)
        \/ /\ f \in live
           /\ call' = [call EXCEPT ![t].pc = "OpenWrite", ![t].tmp = nRef[f]]
           /\ UNCHANGED <<listed, mutex, fileVars, pData, handle, status, lost, unsafe>>

(* The store of the count that t loaded overwrites an update made since.   *)
Overwrites(t, f) ==
  lost' = IF nRef[f] # call[t].tmp THEN lost \cup {f} ELSE lost

OpenWriteRef(t) ==
  /\ At(t, "OpenWrite")
  /\ LET f == pData[call[t].h]
     IN \/ Undefined(f)
        \/ /\ f \in live
           /\ nRef' = [nRef EXCEPT ![f] = call[t].tmp + 1]
           /\ Overwrites(t, f)
           /\ call' = [call EXCEPT ![t].pc = "Link", ![t].tmp = 0]
           /\ UNCHANGED <<listed, mutex, live, name, refs, pData, handle, status, unsafe>>

OpenUnlinked(t) ==             \* mutant: add_link(pRefs, pObject) left out
  /\ At(t, "Link")
  /\ handle' = [handle EXCEPT ![call[t].h] = "open"]
  /\ Return(t)
  /\ UNCHANGED <<listed, mutex, fileVars, pData, status, lost, unsafe>>

OpenLink(t) ==
  /\ At(t, "Link")
  /\ LET h == call[t].h
         f == pData[h]
     IN \/ Undefined(f)
        \/ /\ f \in live
           /\ refs'   = [refs EXCEPT ![f] = @ \cup {h}]
           /\ handle' = [handle EXCEPT ![h] = "open"]
           /\ Return(t)
           /\ UNCHANGED <<listed, mutex, live, name, nRef, pData, status, lost, unsafe>>

(* No memory for the link.                                                 *)
OpenLinkFails(t) ==
  /\ At(t, "Link")
  /\ unsafe' = TRUE
  /\ Goto(t, "Undo")
  /\ UNCHANGED <<listed, mutex, fileVars, pData, handle, status, lost>>

(* The file is destroyed, although it is listed and others may have it     *)
(* open, and the call fails with the handle's pMethods set.                *)
OpenUndo(t) ==
  /\ At(t, "Undo")
  /\ LET h == call[t].h
     IN \/ DestroyStops(pData[h])
        \/ /\ Destroy(pData[h])
           /\ handle' = [handle EXCEPT ![h] = "failed"]
           /\ Return(t)
           /\ UNCHANGED <<listed, mutex, pData, status, unsafe>>
-------------------------------------------------------------------------------
(* memfs_io_Close: pData->nRef -= 1, then del_link(pData->pRefs, pFile).   *)
(* SQLite closes what xOpen opened, and what it failed to open when        *)
(* pMethods is set.                                                        *)
CloseReadRef(t, h) ==
  /\ At(t, "idle")
  /\ handle[h] # "closed" /\ ~InCall(h)
  /\ LET f == pData[h]
     IN \/ Undefined(f)
        \/ /\ f \in live
           /\ call' = [call EXCEPT ![t] = [Idle EXCEPT !.pc  = "CloseWrite",
                         !.h = h, !.n = name[f], !.tmp = nRef[f]]]
           /\ unsafe' = (unsafe \/ BeingDeleted(name[f]))
           /\ UNCHANGED <<listed, mutex, fileVars, pData, handle, status, lost>>

CloseKeepsRef(t) ==            \* mutant: the decrement is left out
  /\ At(t, "CloseWrite")
  /\ call' = [call EXCEPT ![t].pc = "Unlink", ![t].tmp = 0]
  /\ UNCHANGED <<listed, mutex, fileVars, pData, handle, status, lost, unsafe>>

CloseWriteRef(t) ==
  /\ At(t, "CloseWrite")
  /\ LET f == pData[call[t].h]
     IN \/ Undefined(f)
        \/ /\ f \in live
           /\ nRef' = [nRef EXCEPT ![f] = call[t].tmp - 1]
           /\ Overwrites(t, f)
           /\ call' = [call EXCEPT ![t].pc = "Unlink", ![t].tmp = 0]
           /\ UNCHANGED <<listed, mutex, live, name, refs, pData, handle, status, unsafe>>

CloseKeepsLink(t) ==           \* mutant: del_link is left out
  /\ At(t, "Unlink")
  /\ pData'  = [pData EXCEPT ![call[t].h] = None]
  /\ handle' = [handle EXCEPT ![call[t].h] = "closed"]
  /\ Return(t)
  /\ UNCHANGED <<listed, mutex, fileVars, status, lost, unsafe>>

CloseUnlink(t) ==
  /\ At(t, "Unlink")
  /\ LET h == call[t].h
         f == pData[h]
     IN \/ Undefined(f)
        \/ /\ f \in live
           /\ refs'   = [refs EXCEPT ![f] = @ \ {h}]
           /\ pData'  = [pData EXCEPT ![h] = None]
           /\ handle' = [handle EXCEPT ![h] = "closed"]
           /\ Return(t)
           /\ UNCHANGED <<listed, mutex, live, name, nRef, status, lost, unsafe>>
-------------------------------------------------------------------------------
(* memfs_vfs_Delete                                                        *)

(* assert(nRef == 0), before the file is taken out or freed: it stops a    *)
(* debug build, while a release build goes on and does not look.           *)
UnusedOrStop(t, f, pc) ==
  \/ Undefined(f)
  \/ f \in live /\ nRef[f] # 0 /\ Stop("assert")
  \/ /\ Goto(t, pc)
     /\ unsafe' = (unsafe \/ nRef[f] # 0 \/ f \in lost)
     /\ UNCHANGED <<listed, mutex, fileVars, pData, handle, status, lost>>

(* A name that is not found is SQLITE_OK, and nothing changes.             *)
DeleteSearch(t, n) ==
  /\ At(t, "idle")
  /\ \/ FindUndefined(n)
     \/ /\ FindSafe(n) /\ Find(n) # None
        /\ call' = [call EXCEPT ![t] =
                      [Idle EXCEPT !.pc = "Assert", !.n = n, !.f = Find(n)]]
        /\ unsafe' = (unsafe \/ Unloading \/ \E u \in Threads : call[u].n = n)
        /\ UNCHANGED <<listed, mutex, fileVars, pData, handle, status, lost>>

DeleteAssert(t) == At(t, "Assert") /\ UnusedOrStop(t, call[t].f, "Unlist")

DeleteKeepsLink(t) ==          \* mutant: del_link is left out
  /\ At(t, "Unlist")
  /\ Goto(t, "Destroy")
  /\ UNCHANGED <<listed, mutex, fileVars, pData, handle, status, lost, unsafe>>

(* del_link takes the list's mutex if the file is in the list (it is there *)
(* at most once).                                                          *)
DeleteUnlist(t) ==
  /\ At(t, "Unlist")
  /\ mutex = None \/ call[t].f \notin Range(listed)
  /\ listed' = RemoveFirst(listed, call[t].f)
  /\ Goto(t, "Destroy")
  /\ UNCHANGED <<mutex, fileVars, pData, handle, status, lost, unsafe>>

DeleteDestroy(t) ==
  /\ At(t, "Destroy")
  /\ \/ DestroyStops(call[t].f)
     \/ /\ Destroy(call[t].f)
        /\ Return(t)
        /\ UNCHANGED <<listed, mutex, pData, handle, status, unsafe>>
-------------------------------------------------------------------------------
(* memfs_destroy's loop (MemfsLifecycle has what comes before): it takes   *)
(* out and frees the link of the first file, without the list's mutex, and *)
(* then looks at the file's count and frees it, until none is left.        *)
UnloadBegin(t) ==
  /\ At(t, "idle") /\ ~Unloading
  /\ call' = [call EXCEPT ![t] = [Idle EXCEPT !.pc = "Unload"]]
  /\ unsafe' = (unsafe \/ \E u \in Threads : call[u].pc # "idle")
  /\ UNCHANGED <<listed, mutex, fileVars, pData, handle, status, lost>>

UnloadTake(t) ==
  /\ At(t, "Unload") /\ listed # <<>>
  /\ listed' = Tail(listed)
  /\ call' = [call EXCEPT ![t].pc = "UnloadAssert", ![t].f = Head(listed)]
  /\ UNCHANGED <<mutex, fileVars, pData, handle, status, lost, unsafe>>

UnloadAssert(t) ==
  At(t, "UnloadAssert") /\ UnusedOrStop(t, call[t].f, "UnloadDestroy")

UnloadDestroy(t) ==
  /\ At(t, "UnloadDestroy")
  /\ \/ DestroyStops(call[t].f)
     \/ /\ Destroy(call[t].f)
        /\ call' = [call EXCEPT ![t].pc = "Unload", ![t].f = None]
        /\ UNCHANGED <<listed, mutex, pData, handle, status, unsafe>>

UnloadEnd(t) ==
  /\ At(t, "Unload") /\ listed = <<>>
  /\ Return(t)
  /\ UNCHANGED <<listed, mutex, fileVars, pData, handle, status, lost, unsafe>>
-------------------------------------------------------------------------------
(* What a thread inside a call does next.                                  *)
Step(t) ==
  \/ OpenEnter(t) \/ OpenRecheck(t)
  \/ OpenAlloc(t) \/ OpenAllocFails(t) \/ OpenInit(t) \/ OpenInitFails(t)
  \/ OpenReadRef(t) \/ OpenWriteRef(t) \/ OpenLink(t) \/ OpenLinkFails(t)
  \/ OpenUndo(t)
  \/ CloseWriteRef(t) \/ CloseUnlink(t)
  \/ DeleteAssert(t) \/ DeleteUnlist(t) \/ DeleteDestroy(t)
  \/ UnloadTake(t) \/ UnloadAssert(t) \/ UnloadDestroy(t) \/ UnloadEnd(t)

Begin(t) ==
  \/ \E h \in Handles, n \in Names : OpenMissing(t, h, n) \/ OpenSearch(t, h, n)
  \/ \E h \in Handles : CloseReadRef(t, h)
  \/ \E n \in Names : DeleteSearch(t, n)
  \/ UnloadBegin(t)

Next == \E t \in Threads : Begin(t) \/ Step(t)

Spec == Init /\ [][Next]_vars
-------------------------------------------------------------------------------
(* Every variable keeps its type, and a call that has come to the          *)
(* references of a file has a file (memfs_vfs_Open returns before them     *)
(* when it could not make one).                                            *)
TypeOK ==
  /\ listed \in Seq(Files)
  /\ mutex  \in Threads \cup {None}
  /\ live   \in SUBSET Files
  /\ name   \in [Files -> Names \cup {None}]
  /\ nRef   \in [Files -> Int]
  /\ refs   \in [Files -> SUBSET Handles]
  /\ pData  \in [Handles -> Files \cup {None}]
  /\ handle \in [Handles -> {"closed", "open", "failed"}]
  /\ call   \in [Threads ->
                  [pc : {"idle"} \cup OpenPcs \cup ClosePcs \cup DeletePcs \cup UnloadPcs,
                   h : Handles \cup {None}, n : Names \cup {None},
                   f : Files \cup {None}, tmp : Int]]
  /\ status \in {"running", "assert", "undefined"}
  /\ lost   \in SUBSET Files
  /\ unsafe \in BOOLEAN
  /\ \A t \in Threads :
       call[t].pc \in {"Init", "OpenRead", "OpenWrite", "Link", "Undo"} \cup ClosePcs =>
         pData[call[t].h] \in Files

(* The critical section of the list is held by one thread, and only while  *)
(* it is between the enter and the leave of memfs_vfs_Open: it is left     *)
(* again on every way through, the failures included.                      *)
MutexOwner ==
  \A t \in Threads : call[t].pc \in {"Recheck", "Create", "Init"} <=> mutex = t

(* No two files of the list have one name, however the threads that open   *)
(* it for the first time interleave (the second search of memfs_vfs_Open,  *)
(* under the mutex, after the first one without it), and whatever is       *)
(* deleted when.                                                           *)
UniqueNames ==
  \A f, g \in Range(listed) \cap live : name[f] = name[g] => f = g

(* No memory is lost: a file that is allocated is in the list, where the   *)
(* VFS can find it, or in the hands of a call that frees it: the xOpen     *)
(* that is making it, whichever allocation fails (memfs_vfs.cpp:48), or    *)
(* the xDelete or unload that took it out.  This outlives even the         *)
(* deletion of files in use.                                               *)
Made    == {pData[call[t].h] : t \in {u \in Threads : call[u].pc = "Init"}}
Deleted ==
  {call[t].f : t \in {u \in Threads :
                        call[u].pc \in {"Destroy", "UnloadAssert", "UnloadDestroy"}}}
NoLeak  == live \subseteq Range(listed) \cup Made \cup Deleted

(* The other properties are of a program that stops at a failed assertion, *)
(* whose xDelete of a name and unload meet no call they could harm, and    *)
(* whose xOpen has memory for the link of the handle.  It may try to       *)
(* delete, or unload, what has open handles.                               *)

(* Two connections that have opened a name share its file, its contents    *)
(* and its lock: the file of an open handle is the one its name leads to,  *)
(* and its list of references has the handle (memfs_io_Lock looks there).  *)
(* An unload that is about to stop has taken the file out.                 *)
OpenIsListed ==
  ~unsafe =>
    \A h \in Handles :
      /\ handle[h] = "open" /\ ~InCall(h)
      /\ ~\E t \in Threads : call[t].pc = "UnloadAssert" /\ call[t].f = pData[h]
      =>
        /\ pData[h] \in live
        /\ Find(name[pData[h]]) = pData[h]
        /\ h \in refs[pData[h]]

(* No call reaches a freed file, nor leaves one in the list for the next   *)
(* search to reach.                                                        *)
NoUseAfterFree ==
  ~unsafe => status # "undefined" /\ Range(listed) \subseteq live

(* A handle is counted from xOpen's store to xClose's.                     *)
Counted(h, f) ==
  /\ pData[h] = f
  /\ \/ handle[h] = "open" /\ ~\E t \in Threads : call[t].h = h /\ call[t].pc = "Unlink"
     \/ \E t \in Threads : call[t].h = h /\ call[t].pc = "Link"

(* nRef counts the handles of a file, unless two threads have overwritten  *)
(* each other's update of it.                                              *)
RefsCounted ==
  ~unsafe =>
    \A f \in live \ lost : nRef[f] = Cardinality({h \in Handles : Counted(h, f)})

(* A file is destroyed only when no handle is in its list of references:   *)
(* clear_file's own assertion (memfs_file_data.cpp:81) lets a list of one  *)
(* handle through, and the link would be freed under it.                   *)
RefsDieEmpty ==
  [][~unsafe' => \A f \in live \ live' : refs[f] = {}]_vars

(* assert(pFile->nRef == 0), memfs_vfs.cpp:70: a file that is deleted when *)
(* no handle is open on it, and no other call is at work on the name, has  *)
(* no references.                                                          *)
UnusedHasNoRefs ==
  \A t \in Threads :
    /\ ~unsafe /\ call[t].pc = "Assert" /\ call[t].f \in live
    /\ \A h \in Handles : handle[h] = "open" => pData[h] # call[t].f
    => nRef[call[t].f] = 0

(* sqlite3.h:651: xClose may be invoked after an xOpen that failed with    *)
(* pMethods set.  The file it would close exists.                          *)
FailedOpenCloses ==
  \A h \in Handles : handle[h] = "failed" => pData[h] \in live

===============================================================================
