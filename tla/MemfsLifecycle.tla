----------------------------- MODULE MemfsLifecycle -----------------------------
(***************************************************************************)
(* memfs_init and memfs_destroy (memfs.cpp), and the facade Memfs that     *)
(* calls them once each (SQLiteMemfs.cpp): the count of users, the         *)
(* registration of the VFS, the list that is made on first use, and its    *)
(* teardown when the last user goes.  The global mutex of memfs_sync.cpp   *)
(* is held by init and destroy; the calls on files (FileList) do not know  *)
(* it, and the teardown does not know the mutex of the list.               *)
(***************************************************************************)
EXTENDS FileList

CONSTANTS
  Users,     \* the objects of the facade
  Lowest     \* bound: no destroy begins when refCount is as low as this

VARIABLES
  refCount,     \* the count of users
  registered,   \* whether sqlite3_vfs_register made it SQLite's VFS
  sync,         \* the thread that holds the global mutex
  users,        \* the objects constructed and not disposed of
  twice         \* history: an object was disposed of twice

lifeVars == <<refCount, registered, sync, users, twice>>
vars     == <<listVars, lifeVars>>

Init ==
  /\ ListInit
  /\ refCount   = 0
  /\ registered = FALSE
  /\ sync       = NULL
  /\ users      = {}
  /\ twice      = FALSE

Enter(t, op, m) ==
  /\ status = "running" /\ call[t].pc = "idle"
  /\ call' = [call EXCEPT ![t] = [Idle EXCEPT !.pc = "Sync", !.op = op, !.o = m]]

(* Where get_vfs_object leads to.                                          *)
VfsPc == IF pAppData = NULL THEN "Vfs" ELSE "Start"
-------------------------------------------------------------------------------
(* The constructor, memfs_init                                             *)

New(t, m) ==
  /\ m \notin users /\ \A u \in Threads : call[u].o # m
  /\ Enter(t, "init", m)
  /\ UNCHANGED <<pAppData, memory, files, owner, status, broken, lifeVars>>

(* mutant: users beyond the first are not counted                          *)
InitCountFirst(t) ==
  /\ At(t, "Sync") /\ call[t].op = "init" /\ sync = NULL
  /\ refCount' = IF refCount = 0 THEN 1 ELSE refCount
  /\ IF refCount = 0
     THEN sync' = t /\ Goto(t, VfsPc) /\ UNCHANGED users
     ELSE users' = users \cup {call[t].o} /\ Return(t) /\ UNCHANGED sync
  /\ UNCHANGED <<pAppData, memory, files, owner, status, broken, registered, twice>>

InitCount(t) ==
  /\ At(t, "Sync") /\ call[t].op = "init" /\ sync = NULL
  /\ refCount' = refCount + 1
  /\ IF refCount' = 1
     THEN sync' = t /\ Goto(t, VfsPc) /\ UNCHANGED users
     ELSE users' = users \cup {call[t].o} /\ Return(t) /\ UNCHANGED sync
  /\ UNCHANGED <<pAppData, memory, files, owner, status, broken, registered, twice>>

(* The VFS is registered even if no list could be made.                    *)
InitRegister(t) ==
  /\ At(t, "Start") /\ call[t].op = "init"
  /\ registered' = TRUE
  /\ sync'  = NULL
  /\ users' = users \cup {call[t].o}
  /\ Return(t)
  /\ UNCHANGED <<pAppData, memory, files, owner, status, broken, refCount, twice>>
-------------------------------------------------------------------------------
(* Destroy of an object (Dispose or the finalizer), memfs_destroy          *)

(* if (!disposed)                                                          *)
DisposeTest(t, m) ==
  /\ m \in users /\ refCount > Lowest
  /\ status = "running" /\ call[t].pc = "idle"
  /\ call' = [call EXCEPT ![t] = [Idle EXCEPT !.pc = "Dispose", !.op = "destroy", !.o = m]]
  /\ UNCHANGED <<pAppData, memory, files, owner, status, broken, lifeVars>>

(* disposed = true                                                         *)
DisposeSet(t) ==
  /\ At(t, "Dispose")
  /\ users' = users \ {call[t].o}
  /\ twice' = (twice \/ call[t].o \notin users)
  /\ Goto(t, "Sync")
  /\ UNCHANGED <<pAppData, memory, files, owner, status, broken, refCount, registered, sync>>

DestroyCountOneLeft(t) ==      \* mutant: unloads when one user is left
  /\ At(t, "Sync") /\ call[t].op = "destroy" /\ sync = NULL
  /\ refCount' = refCount - 1
  /\ IF refCount' <= 1
     THEN sync' = t /\ Goto(t, VfsPc)
     ELSE Return(t) /\ UNCHANGED sync
  /\ UNCHANGED <<pAppData, memory, files, owner, status, broken, registered, users, twice>>

DestroyCount(t) ==
  /\ At(t, "Sync") /\ call[t].op = "destroy" /\ sync = NULL
  /\ refCount' = refCount - 1
  /\ IF refCount' = 0
     THEN sync' = t /\ Goto(t, VfsPc)
     ELSE Return(t) /\ UNCHANGED sync
  /\ UNCHANGED <<pAppData, memory, files, owner, status, broken, registered, users, twice>>

Unregister(t) ==
  /\ At(t, "Start") /\ call[t].op = "destroy"
  /\ registered' = FALSE
  /\ call' = [call EXCEPT ![t].pc = "TearWalk", ![t].head = pAppData,
                          ![t].ptr = next[pAppData]]
  /\ UNCHANGED <<pAppData, memory, files, owner, status, broken,
                 refCount, sync, users, twice>>

(* Every link is taken out and freed as del_link does it, but without the  *)
(* list's critical section, and then its file, which pData points to.      *)
TearBegin(t) ==
  /\ At(t, "TearWalk") /\ call[t].ptr # call[t].head
  /\ call' = [call EXCEPT ![t].pc = "UnlinkNext", ![t].file = obj[call[t].ptr]]
  /\ UNCHANGED <<pAppData, memory, files, owner, status, broken, lifeVars>>

TearEnd(t) ==
  /\ At(t, "TearWalk") /\ call[t].ptr = call[t].head
  /\ sync' = NULL
  /\ Return(t)
  /\ UNCHANGED <<pAppData, memory, files, owner, status, broken,
                 refCount, registered, users, twice>>
-------------------------------------------------------------------------------
LifeStep(t) ==
  \/ InitCount(t) \/ InitRegister(t)
  \/ DisposeSet(t) \/ DestroyCount(t) \/ Unregister(t)
  \/ TearBegin(t) \/ TearEnd(t)

(* Files are used by anybody at any time: a stream may outlive the object  *)
(* it was asked of, and the native API is open to all.                     *)
ListNext ==
  /\ UNCHANGED lifeVars
  /\ \E t \in Threads :
       ListStep(t) \/ \E op \in Ops, o \in Names : Begin(t, op, o)

Next ==
  /\ \/ ListNext
     \/ \E t \in Threads :
          LifeStep(t) \/ \E m \in Users : New(t, m) \/ DisposeTest(t, m)
  /\ Observe

Spec == Init /\ [][Next]_vars
-------------------------------------------------------------------------------
(* The variables of this module and of the list keep their types, and the  *)
(* critical sections their occupants.                                      *)
TypeOK ==
  /\ ListTypeOK
  /\ call \in [Threads ->
               [pc   : Pcs \cup {"Sync", "Dispose"},
                op   : Ops \cup {"none", "init", "destroy"},
                o    : Names \cup Users \cup {NULL},
                head : Nodes \cup {NULL},
                root : Nodes \cup {NULL},
                ptr  : Nodes \cup {NULL, Freed},
                file : Files \cup {NULL}]]
  /\ refCount \in Int /\ registered \in BOOLEAN /\ twice \in BOOLEAN
  /\ sync \in Threads \cup {NULL}
  /\ users \subseteq Users

(* SQLiteMemfs.h:23 and :28.  Outside init and destroy the count is that   *)
(* of the objects that have not given theirs up, and the VFS is registered *)
(* while there is one, unless two threads have passed the test of one      *)
(* object's flag before either set it (SQLiteMemfs.cpp:39).                *)
CountsUsers ==
  sync = NULL /\ ~twice /\ status = "running" =>
    LET leaving == {t \in Threads : call[t].pc = "Sync" /\ call[t].op = "destroy"}
    IN /\ refCount = Cardinality(users) + Cardinality(leaving)
       /\ registered <=> refCount > 0

(* README.md:4: "the files stay in memory until explicitly deleted or the  *)
(* VFS is unloaded."  A file leaves the list when an xDelete of its name   *)
(* takes it out, or when nobody uses the VFS any more; nobody's addition,  *)
(* deletion or search takes another file along.                            *)
FilesStay ==
  [][~broken' =>
       \A o \in ToSet(Listing) \ ToSet(Listing') :
         \E t \in Threads :
           /\ call[t].pc = "UnlinkNext"
           /\ IF call[t].op = "delete" THEN call[t].o = o
                                       ELSE users = {} \/ twice]_vars

(* The last memfs_destroy leaves no file and no link behind, when no call  *)
(* that takes links out ever met another: the loop over the list           *)
(* (memfs.cpp), which steps back from each link it frees, comes by every   *)
(* link, and whatever file was allocated was listed.                       *)
UnloadEmpties ==
  [][\A t \in Threads :
       call[t].pc = "TearWalk" /\ call'[t].pc = "idle" /\ ~overlap =>
         alloc' = {pAppData} /\ files' = {}]_vars

===============================================================================
