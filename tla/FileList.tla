-------------------------------- MODULE FileList --------------------------------
(***************************************************************************)
(* The list of files, pointer by pointer (file_list_item.cpp): the calls   *)
(* of the VFS that walk it (find_file_data, del_link) take no mutex while  *)
(* links are put in and taken out under the critical section of the list's *)
(* head.  The callers are xAccess, a search; xOpen, which repeats its      *)
(* search in the critical section and adds the file; and xDelete, a search *)
(* and del_link.  What xOpen and xDelete do to the file itself is in       *)
(* MemfsVfs, with the references and the assertions about them: here a     *)
(* file is memory that an xOpen allocates and an xDelete, or the teardown  *)
(* of MemfsLifecycle, frees, and that the links point to.                  *)
(*                                                                         *)
(* A step is one access to memory that others may see, in the order of the *)
(* source; the visit of a link (its object and pNext) is one step.  When a *)
(* link is freed, every pointer to it becomes Freed.  A file's address is  *)
(* only compared by del_link, so that pointers to a file keep it when it   *)
(* is freed, and malloc may have it again.  The program is undefined when  *)
(* it goes through a pointer to memory that is not allocated.              *)
(***************************************************************************)
EXTENDS Integers, SequencesExt

CONSTANTS
  Threads,
  Names,     \* of files
  Nodes,     \* bound: the addresses malloc has for file_list_items
  Files,     \*   and for memfs_file_data
  zName,     \* bound: the name that the file at an address has, always
  NULL,
  Freed      \* a pointer to memory that has been freed

ASSUME ListAssumption ==
  /\ NULL # Freed
  /\ {NULL, Freed} \cap (Threads \cup Names \cup Nodes \cup Files) = {}
  /\ IsFiniteSet(Nodes)
  /\ zName \in [Files -> Names]

VARIABLES
  pAppData,   \* the head of the list of files, or NULL
  prev,       \* file_list_item.pPrev,
  next,       \*   pNext
  obj,        \*   and pObject, of a link
  alloc,      \* the file_list_items allocated and not freed
  files,      \* the memfs_file_data allocated and not freed
  owner,      \* of each head: the thread in its critical section
  call,       \* of each thread: where it is in which call, and its locals
  status,     \* "running" or "undefined"
  overlap,    \* history: a call that takes links out, or makes the list, ran
              \*   at the same time as another call
  broken,     \* history: memory was freed with a pointer of the list or of
              \*   another thread to it left, a link was taken out twice, the
              \*   teardown was changing links while another thread was, or the
              \*   list was replaced
  seen        \* history: of each search, whether its file has been in the
              \*   list since it began: "present", "absent" or both

memory  == <<prev, next, obj, alloc>>
listVars ==
  <<pAppData, memory, files, owner, call, status, overlap, broken, seen>>

Idle == [pc |-> "idle", op |-> "none", o |-> NULL, head |-> NULL,
         root |-> NULL, ptr |-> NULL, file |-> NULL]

Ops == {"access", "open", "delete"}

Pcs == {"idle", "Vfs", "Start", "Walk", "Enter", "Add", "LinkNext", "LinkPrev",
        "DelStart", "DelWalk", "DelEnter", "TearWalk", "UnlinkNext",
        "UnlinkPrev", "Free", "Destroy", "On"}

Goto(t, pc) == call' = [call EXCEPT ![t].pc = pc]
Return(t)   == call' = [call EXCEPT ![t] = Idle]

(* The links that following pNext from the head leads to, and the names of *)
(* their files.                                                            *)
Chain ==
  LET along[n \in 0 .. Cardinality(Nodes)] ==
        IF n = 0 THEN <<>>
        ELSE LET s == along[n - 1]
                 p == next[IF s = <<>> THEN pAppData ELSE Last(s)]
             IN IF p \in alloc \ {pAppData} THEN Append(s, p) ELSE s
  IN IF pAppData = NULL THEN <<>> ELSE along[Cardinality(Nodes)]

Listing == [i \in DOMAIN Chain |-> zName[obj[Chain[i]]]]

ListInit ==
  /\ pAppData = NULL
  /\ prev    = [n \in Nodes |-> NULL]
  /\ next    = [n \in Nodes |-> NULL]
  /\ obj     = [n \in Nodes |-> NULL]
  /\ alloc   = {}
  /\ files   = {}
  /\ owner   = [n \in Nodes |-> NULL]
  /\ call    = [t \in Threads |-> Idle]
  /\ status  = "running"
  /\ overlap = FALSE
  /\ broken  = FALSE
  /\ seen    = [t \in Threads |-> {}]
-------------------------------------------------------------------------------
(* Memory                                                                  *)

(* The links that the thread's next step goes through,                     *)
Needs(t) ==
  LET c == call[t]
  IN CASE c.pc \in {"Walk", "DelWalk", "TearWalk"} -> {c.ptr} \ {c.head}
       [] c.pc = "Start" /\ c.op = "init" -> {}
       [] c.pc \in {"Start", "Enter", "Add", "DelStart"} -> {pAppData}
       [] c.pc = "LinkNext"            -> {prev[c.head]}
       [] c.pc \in {"Free", "On"}      -> {c.ptr}
       [] c.pc = "UnlinkNext" ->
            {c.ptr} \cup IF c.ptr \in alloc THEN {prev[c.ptr]} ELSE {}
       [] c.pc = "UnlinkPrev" ->
            {c.ptr} \cup IF c.ptr \in alloc THEN {next[c.ptr]} ELSE {}
       [] OTHER -> {}

(* and the file: a search reads its name, xDelete and the teardown assert  *)
(* that it has no references, and destroy_file frees what it points to.    *)
NeedsFile(t) ==
  LET c == call[t]
  IN CASE c.pc = "Walk" /\ c.ptr # c.head /\ c.ptr \in alloc -> {obj[c.ptr]}
       [] c.pc \in {"DelStart", "Destroy"} -> {c.file}
       [] OTHER -> {}

Sound(t) == Needs(t) \subseteq alloc /\ NeedsFile(t) \subseteq files

At(t, pc) == status = "running" /\ call[t].pc = pc /\ Sound(t)

Fault(t) ==
  /\ status = "running" /\ ~Sound(t)
  /\ status' = "undefined"
  /\ UNCHANGED <<pAppData, memory, files, owner, call, broken>>

(* free(p) in thread t, whose own ptr becomes q.                           *)
FreeLink(t, p, q) ==
  LET After(r) == IF r = p THEN Freed ELSE r
  IN /\ alloc' = alloc \ {p}
     /\ prev'  = [n \in Nodes |-> IF n = p THEN NULL ELSE After(prev[n])]
     /\ next'  = [n \in Nodes |-> IF n = p THEN NULL ELSE After(next[n])]
     /\ obj'   = [obj EXCEPT ![p] = NULL]
     /\ call'  = [u \in Threads |->
                    IF u = t
                    THEN [call[t] EXCEPT !.ptr = q, !.pc =
                            IF call[t].op = "delete" THEN "On" ELSE "Destroy"]
                    ELSE [call[u] EXCEPT !.ptr = After(@)]]
     /\ broken' = (broken \/ \E u \in Threads \ {t} : call[u].ptr = p)

-------------------------------------------------------------------------------
(* get_vfs_object: whoever finds no list makes one.                        *)

Begin(t, op, o) ==
  /\ status = "running" /\ call[t].pc = "idle"
  /\ call' = [call EXCEPT ![t] =
       [Idle EXCEPT !.pc = IF pAppData = NULL THEN "Vfs" ELSE "Start",
                    !.op = op, !.o = o]]
  /\ UNCHANGED <<pAppData, memory, files, owner, status, broken>>

MakeList(t) ==
  /\ At(t, "Vfs")
  /\ \E h \in Nodes \ alloc :
       /\ pAppData' = h
       /\ alloc' = alloc \cup {h}
       /\ prev'  = [prev EXCEPT ![h] = h]
       /\ next'  = [next EXCEPT ![h] = h]
  /\ broken' = (broken \/ pAppData # NULL)
  /\ Goto(t, "Start")
  /\ UNCHANGED <<obj, files, owner, status>>

(* create_list has no memory: NULL is stored, whatever is there by now.    *)
MakeListFails(t) ==
  /\ At(t, "Vfs")
  /\ pAppData' = NULL
  /\ broken' = (broken \/ pAppData # NULL)
  /\ Goto(t, "Start")
  /\ UNCHANGED <<memory, files, owner, status>>
-------------------------------------------------------------------------------
(* find_file_data                                                          *)

WalkStartLate(t) ==            \* mutant: the first link is passed over
  /\ At(t, "Start") /\ call[t].op \in Ops
  /\ call' = [call EXCEPT ![t].pc = "Walk", ![t].head = pAppData,
                          ![t].ptr = next[next[pAppData]]]
  /\ UNCHANGED <<pAppData, memory, files, owner, status, broken>>

WalkStart(t) ==
  /\ At(t, "Start") /\ call[t].op \in Ops
  /\ call' = [call EXCEPT ![t].pc = "Walk", ![t].head = pAppData,
                          ![t].ptr = next[pAppData]]
  /\ UNCHANGED <<pAppData, memory, files, owner, status, broken>>

WalkOn(t) ==
  /\ At(t, "Walk")
  /\ call[t].ptr # call[t].head /\ zName[obj[call[t].ptr]] # call[t].o
  /\ call' = [call EXCEPT ![t].ptr = next[@]]
  /\ UNCHANGED <<pAppData, memory, files, owner, status, broken>>

(* xDelete goes on with the file that has been found.                      *)
Found(t) ==
  IF call[t].op # "delete" THEN Return(t)
  ELSE call' = [call EXCEPT ![t].pc = "DelStart", ![t].file = obj[call[t].ptr]]

WalkFoundInside(t) ==          \* mutant: the critical section is not left
  /\ At(t, "Walk")
  /\ call[t].ptr # call[t].head /\ zName[obj[call[t].ptr]] = call[t].o
  /\ Found(t)
  /\ UNCHANGED <<pAppData, memory, files, owner, status, broken>>

(* xOpen leaves the critical section if this was its second search.        *)
WalkFound(t) ==
  /\ At(t, "Walk")
  /\ call[t].ptr # call[t].head /\ zName[obj[call[t].ptr]] = call[t].o
  /\ Found(t)
  /\ owner' = [h \in Nodes |-> IF owner[h] = t THEN NULL ELSE owner[h]]
  /\ UNCHANGED <<pAppData, memory, files, status, broken>>

WalkMissed(t) ==
  /\ At(t, "Walk")
  /\ call[t].ptr = call[t].head
  /\ IF call[t].op # "open"      THEN Return(t)
     ELSE IF call[t].root = NULL THEN Goto(t, "Enter")
                                 ELSE Goto(t, "Add")
  /\ UNCHANGED <<pAppData, memory, files, owner, status, broken>>
-------------------------------------------------------------------------------
(* xOpen's second search, and add_link                                     *)

OpenEnterSure(t) ==            \* mutant: the second search is left out
  /\ At(t, "Enter")
  /\ owner[pAppData] = NULL
  /\ owner' = [owner EXCEPT ![pAppData] = t]
  /\ call'  = [call EXCEPT ![t].pc = "Add", ![t].root = pAppData]
  /\ UNCHANGED <<pAppData, memory, files, status, broken>>

OpenEnter(t) ==
  /\ At(t, "Enter")
  /\ owner[pAppData] = NULL
  /\ owner' = [owner EXCEPT ![pAppData] = t]
  /\ call'  = [call EXCEPT ![t].pc = "Walk", ![t].root = pAppData,
                           ![t].head = pAppData, ![t].ptr = next[pAppData]]
  /\ UNCHANGED <<pAppData, memory, files, status, broken>>

Changing == {"LinkNext", "LinkPrev", "UnlinkNext", "UnlinkPrev"}

(* Another thread is changing links too, and one of the two is the         *)
(* teardown, which takes no mutex.                                         *)
Meddles(t) ==
  broken' = (broken \/ \E u \in Threads \ {t} :
               call[u].pc \in Changing /\ "destroy" \in {call[t].op, call[u].op})

(* No memory, for the file or for its link.                                *)
AddFails(t) ==
  /\ At(t, "Add")
  /\ owner' = [owner EXCEPT ![call[t].root] = NULL]
  /\ Return(t)
  /\ UNCHANGED <<pAppData, memory, files, status, broken>>

(* The file is made, the critical section is entered again (it is          *)
(* recursive), and the link's own fields are set.                          *)
AddLink(t) ==
  /\ At(t, "Add")
  /\ owner[pAppData] \in {NULL, t}
  /\ \E p \in Nodes \ alloc, f \in Files \ files :
       /\ zName[f] = call[t].o
       /\ alloc' = alloc \cup {p}
       /\ files' = files \cup {f}
       /\ prev'  = [prev EXCEPT ![p] = prev[pAppData]]
       /\ next'  = [next EXCEPT ![p] = pAppData]
       /\ obj'   = [obj EXCEPT ![p] = f]
       /\ call'  = [call EXCEPT ![t].pc = "LinkNext", ![t].head = pAppData,
                                ![t].ptr = p]
  /\ owner' = [owner EXCEPT ![pAppData] = t]
  /\ UNCHANGED <<pAppData, status, broken>>

LinkNext(t) ==
  /\ At(t, "LinkNext")
  /\ next' = [next EXCEPT ![prev[call[t].head]] = call[t].ptr]
  /\ Goto(t, "LinkPrev")
  /\ Meddles(t)
  /\ UNCHANGED <<pAppData, prev, obj, alloc, files, owner, status>>

LinkPrev(t) ==
  /\ At(t, "LinkPrev")
  /\ prev'  = [prev EXCEPT ![call[t].head] = call[t].ptr]
  /\ owner' = [h \in Nodes |-> IF owner[h] = t THEN NULL ELSE owner[h]]
  /\ Return(t)
  /\ Meddles(t)
  /\ UNCHANGED <<pAppData, next, obj, alloc, files, status>>
-------------------------------------------------------------------------------
(* del_link                                                                *)

DelStart(t) ==
  /\ At(t, "DelStart")
  /\ call' = [call EXCEPT ![t].pc = "DelWalk", ![t].head = pAppData,
                          ![t].ptr = next[pAppData]]
  /\ UNCHANGED <<pAppData, memory, files, owner, status, broken>>

DelPasses(t) ==
  /\ At(t, "DelWalk")
  /\ call[t].ptr # call[t].head /\ obj[call[t].ptr] # call[t].file
  /\ call' = [call EXCEPT ![t].ptr = next[@]]
  /\ UNCHANGED <<pAppData, memory, files, owner, status, broken>>

DelFinds(t) ==
  /\ At(t, "DelWalk")
  /\ call[t].ptr # call[t].head /\ obj[call[t].ptr] = call[t].file
  /\ Goto(t, "DelEnter")
  /\ UNCHANGED <<pAppData, memory, files, owner, status, broken>>

DelEnd(t) ==
  /\ At(t, "DelWalk")
  /\ call[t].ptr = call[t].head
  /\ Goto(t, "Destroy")
  /\ UNCHANGED <<pAppData, memory, files, owner, status, broken>>

DelEnterNot(t) ==              \* mutant: the link is taken out without the mutex
  /\ At(t, "DelEnter")
  /\ Goto(t, "UnlinkNext")
  /\ UNCHANGED <<pAppData, memory, files, owner, status, broken>>

DelEnter(t) ==
  /\ At(t, "DelEnter")
  /\ owner[call[t].head] = NULL
  /\ owner' = [owner EXCEPT ![call[t].head] = t]
  /\ Goto(t, "UnlinkNext")
  /\ UNCHANGED <<pAppData, memory, files, status, broken>>

(* ptr->pPrev->pNext = ptr->pNext                                          *)
UnlinkNext(t) ==
  /\ At(t, "UnlinkNext")
  /\ next' = [next EXCEPT ![prev[call[t].ptr]] = next[call[t].ptr]]
  /\ LET p == call[t].ptr
     IN IF next[prev[p]] = p THEN Meddles(t) ELSE broken' = TRUE
  /\ Goto(t, "UnlinkPrev")
  /\ UNCHANGED <<pAppData, prev, obj, alloc, files, owner, status>>

(* ptr->pNext->pPrev = ptr->pPrev, and the critical section is left.       *)
UnlinkPrev(t) ==
  /\ At(t, "UnlinkPrev")
  /\ LET p == call[t].ptr IN prev' = [prev EXCEPT ![next[p]] = prev[p]]
  /\ owner' = [h \in Nodes |-> IF owner[h] = t THEN NULL ELSE owner[h]]
  /\ Goto(t, "Free")
  /\ Meddles(t)
  /\ UNCHANGED <<pAppData, next, obj, alloc, files, status>>

FreeInPlace(t) ==              \* mutant: the loop stays on the freed link
  /\ At(t, "Free")
  /\ FreeLink(t, call[t].ptr, Freed)
  /\ UNCHANGED <<pAppData, files, owner, status>>

Free(t) ==
  /\ At(t, "Free")
  /\ FreeLink(t, call[t].ptr, prev[call[t].ptr])
  /\ UNCHANGED <<pAppData, files, owner, status>>

DestroyLeaks(t) ==             \* mutant: the file is not freed
  /\ At(t, "Destroy")
  /\ IF call[t].op = "delete" THEN Return(t)
     ELSE call' = [call EXCEPT ![t].pc = "On", ![t].file = NULL]
  /\ UNCHANGED <<pAppData, memory, files, owner, status, broken>>

(* destroy_file, at the end of xDelete and after each link the teardown    *)
(* takes out.                                                              *)
Destroy(t) ==
  /\ At(t, "Destroy")
  /\ files' = files \ {call[t].file}
  /\ broken' = \/ broken
               \/ \E n \in alloc : obj[n] = call[t].file
               \/ \E u \in Threads \ {t} : call[u].file = call[t].file
  /\ IF call[t].op = "delete" THEN Return(t)
     ELSE call' = [call EXCEPT ![t].pc = "On", ![t].file = NULL]
  /\ UNCHANGED <<pAppData, memory, owner, status>>

(* The loop goes on from the link before the one that is gone, del_link's  *)
(* or that of the teardown (MemfsLifecycle), which is the same but for     *)
(* what it takes out.                                                      *)
GoOn(t) ==
  /\ At(t, "On")
  /\ call' = [call EXCEPT ![t].pc = IF call[t].op = "delete" THEN "DelWalk"
                                                            ELSE "TearWalk",
                          ![t].ptr = next[@]]
  /\ UNCHANGED <<pAppData, memory, files, owner, status, broken>>
-------------------------------------------------------------------------------
ListStep(t) ==
  \/ Fault(t)
  \/ MakeList(t) \/ MakeListFails(t)
  \/ WalkStart(t) \/ WalkOn(t) \/ WalkFound(t) \/ WalkMissed(t)
  \/ OpenEnter(t) \/ AddFails(t) \/ AddLink(t) \/ LinkNext(t) \/ LinkPrev(t)
  \/ DelStart(t) \/ DelPasses(t) \/ DelFinds(t) \/ DelEnd(t) \/ DelEnter(t)
  \/ UnlinkNext(t) \/ UnlinkPrev(t) \/ Free(t) \/ Destroy(t) \/ GoOn(t)

OnList(t) ==
  /\ call[t].pc \in Pcs \ {"idle"}
  /\ call[t].op \notin Ops =>
       call[t].pc \in {"Vfs", "TearWalk", "UnlinkNext", "UnlinkPrev", "Free",
                       "Destroy", "On"}

Disturbs(t) == OnList(t) /\ (call[t].op \notin {"access", "open"} \/ call[t].pc = "Vfs")

(* With every step: calls that overlap are noted, and the searches under   *)
(* way see the list as it is.                                              *)
Observe ==
  /\ overlap' = (overlap \/ \E t, u \in Threads : t # u /\ Disturbs(t)' /\ OnList(u)')
  /\ seen' = [t \in Threads |->
       IF call'[t].pc # "Walk" THEN {}
       ELSE (IF call[t].pc = "Walk" THEN seen[t] ELSE {})
              \cup {IF call'[t].o \in ToSet(Listing') THEN "present" ELSE "absent"}]
-------------------------------------------------------------------------------
(* Every variable keeps its type; whoever is in the critical section of a  *)
(* head is in a call that leaves it: no way through xOpen's second search, *)
(* its failures, add_link and del_link stays inside.                       *)
ListTypeOK ==
  /\ pAppData \in Nodes \cup {NULL}
  /\ prev   \in [Nodes -> Nodes \cup {NULL, Freed}]
  /\ next   \in [Nodes -> Nodes \cup {NULL, Freed}]
  /\ obj    \in [Nodes -> Files \cup {NULL}]
  /\ alloc  \subseteq Nodes
  /\ files  \subseteq Files
  /\ owner  \in [Nodes -> Threads \cup {NULL}]
  /\ status \in {"running", "undefined"}
  /\ seen   \in [Threads -> SUBSET {"present", "absent"}]
  /\ \A h \in Nodes : owner[h] # NULL =>
       LET c == call[owner[h]]
       IN \/ c.root = h
          \/ c.head = h /\ c.pc \in Changing

(* While no thread is between the two stores of a link or an unlinking,    *)
(* pPrev and pNext lead through the same links in opposite directions, and *)
(* the links of the list are allocated: the critical section of add_link   *)
(* and del_link is enough for the ones who write.                          *)
Ring == {pAppData} \cup ToSet(Chain)

RingWhole ==
  /\ ~broken /\ pAppData # NULL
  /\ \A t \in Threads : call[t].pc \notin {"LinkNext", "LinkPrev", "UnlinkPrev"}
  => \A n \in Ring :
       /\ next[n] \in alloc /\ prev[next[n]] = n
       /\ prev[n] \in alloc /\ next[prev[n]] = n

(* What the pointers amount to is the list ObjectList speaks of.           *)
Abstract == INSTANCE ObjectList WITH Objects <- Names, list <- Listing
ListSpec == Abstract!Spec

(* A search without the mutex (find_file_data) tells what was true at some *)
(* moment since it began, even when it stood on a link that was taken out: *)
(* it finds a file only if that has been in the list, and misses it only   *)
(* if it has not been there all the time.                                  *)
SearchIsHonest ==
  [][\A t \in Threads :
       call[t].pc = "Walk" /\ call'[t].pc # "Walk" /\ ~broken =>
         IF call[t].ptr = call[t].head THEN "absent" \in seen[t]
                                       ELSE "present" \in seen[t]]_listVars

(* Only a call that takes links out, or makes the list, beside another     *)
(* call can break the list or lead anybody to freed memory, a link's or a  *)
(* file's (del_link walks and frees without the mutex, xDelete and the     *)
(* teardown free the file).  Without one, no file is freed with a pointer  *)
(* to it left, and the program goes through a bad pointer only when there  *)
(* was no memory to make the list.                                         *)
OnlyOverlapBreaks ==
  ~overlap => ~broken /\ (status = "running" \/ pAppData = NULL)

===============================================================================
