-------------------------- MODULE MemfsLifecycleProofs --------------------------
(***************************************************************************)
(* Proofs about MemfsLifecycle for any number of threads, of objects and   *)
(* of addresses.                                                           *)
(*                                                                         *)
(* CountsUsers speaks of the moments at which nobody holds the global      *)
(* mutex.  The inductive invariant says what holds beside it while someone *)
(* does: an init that has counted but not yet constructed its object       *)
(* (Counted), who the holder is and what the count is then (HolderIs,      *)
(* HolderCount), and that no two constructors are at work on one object    *)
(* (InitsApart).  What a step does to the stage of a call is stated of the *)
(* record it stores in call (CallStep), so that the steps on the list,     *)
(* which do not know of the count, are one lemma (ListStepKeeps).          *)
(***************************************************************************)
EXTENDS MemfsLifecycle, FiniteSetTheorems, TLAPS

LifeOps == {"init", "destroy"}
HeldPcs == {"Vfs", "Start", "TearWalk", "UnlinkNext", "UnlinkPrev", "Free",
            "Destroy", "On"}

CallType ==
  [pc   : Pcs \cup {"Sync", "Dispose"},
   op   : Ops \cup {"none", "init", "destroy"},
   o    : Names \cup Users \cup {NULL},
   head : Nodes \cup {NULL},
   root : Nodes \cup {NULL},
   ptr  : Nodes \cup {NULL, Freed},
   file : Files \cup {NULL}]

(* Which calls are where.                                                  *)
PlaceOK(c) ==
  /\ c.pc \in {"Sync", "Dispose"} => c.op \in LifeOps
  /\ c.op \in LifeOps => c.pc \in {"Sync", "Dispose"} \cup HeldPcs
  /\ c.op = "init" => c.pc \in {"Sync", "Vfs", "Start"}
  /\ c.pc \in {"Enter", "Add"} => c.op = "open"
  /\ c.op \in Ops => c.o \in Names
  /\ c.op = "init" => c.o \in Users
  /\ c.pc = "TearWalk" => c.op = "destroy"
  /\ c.pc \in {"DelStart", "DelWalk", "DelEnter"} => c.op = "delete"
  /\ c.pc \in {"UnlinkNext", "UnlinkPrev", "Free", "Destroy", "On"} =>
       c.op \in {"delete", "destroy"}
  /\ c.file # NULL =>
       \/ c.pc \in {"DelStart", "DelWalk", "DelEnter", "UnlinkNext",
                    "UnlinkPrev", "Free", "Destroy"}
       \/ c.pc = "On" /\ c.op = "delete"
  /\ c.op = "none" <=> c.pc = "idle"

(* The second search of xOpen and what follows it, and nothing else, has   *)
(* the head whose critical section is to be left.                          *)
RootOK(c) ==
  c.root # NULL =>
    c.op = "open" /\ c.pc \in {"Walk", "Add", "LinkNext", "LinkPrev"}

Inside(c, h) == c.root = h \/ (c.head = h /\ c.pc \in Changing)

MemoryOK ==
  /\ pAppData \in Nodes \cup {NULL}
  /\ prev   \in [Nodes -> Nodes \cup {NULL, Freed}]
  /\ next   \in [Nodes -> Nodes \cup {NULL, Freed}]
  /\ obj    \in [Nodes -> Files \cup {NULL}]
  /\ alloc  \subseteq Nodes
  /\ files  \subseteq Files
  /\ status \in {"running", "undefined"}

CallOK   == call \in [Threads -> CallType]
PlacesOK == \A t \in Threads : PlaceOK(call[t]) /\ RootOK(call[t])
OwnerOK  == owner \in [Nodes -> Threads \cup {NULL}]
OwnersIn == \A h \in Nodes : owner[h] # NULL => Inside(call[owner[h]], h)

ListOK == MemoryOK /\ CallOK /\ PlacesOK /\ OwnerOK /\ OwnersIn

(* What the counting of users sees of a call.                              *)
Held(t)   == call[t].op \in LifeOps /\ call[t].pc \in HeldPcs
Inits(t)  == call[t].op = "init"
Leaves(t) == call[t].pc = "Sync" /\ call[t].op = "destroy"
Leaving   == {t \in Threads : Leaves(t)}

InitsApart ==
  \A t \in Threads : Inits(t) =>
    /\ call[t].o \notin users
    /\ \A u \in Threads \ {t} : Inits(u) => call[u].o # call[t].o

HolderIs == \A t \in Threads : sync = t <=> Held(t)

HolderCount ==
  \A t \in Threads : Held(t) =>
    /\ refCount = IF Inits(t) THEN 1 ELSE 0
    /\ call[t].op = "destroy" /\ call[t].pc \notin {"Vfs", "Start"} => ~registered

(* An init that holds the mutex has counted an object that is not there.   *)
Entered == IF sync # NULL /\ Inits(sync) THEN 1 ELSE 0

Counted ==
  /\ IsFiniteSet(users) /\ IsFiniteSet(Leaving)
  /\ ~twice => refCount = Cardinality(users) + Cardinality(Leaving) + Entered

Registered == sync = NULL /\ ~twice => (registered <=> refCount > 0)

SeenOK == seen \in [Threads -> SUBSET {"present", "absent"}]

LifeTypeOK ==
  /\ refCount \in Int /\ registered \in BOOLEAN /\ twice \in BOOLEAN
  /\ sync \in Threads \cup {NULL}
  /\ users \subseteq Users

CountOK ==
  /\ LifeTypeOK
  /\ InitsApart /\ HolderIs /\ HolderCount
  /\ Counted /\ Registered

IInv == ListOK /\ SeenOK /\ CountOK
-------------------------------------------------------------------------------
(* A step of a thread stores a new record in call and leaves the others    *)
(* as they are.                                                            *)
CallStep(t, c) ==
  /\ call' = [u \in Threads |-> call'[u]]
  /\ call'[t] = c
  /\ \A u \in Threads \ {t} : call'[u] = call[u]

(* The step keeps the call's stage, as far as the count is concerned.      *)
SameStage(c, d) ==
  /\ (c.op = d.op /\ c.o = d.o) \/ {c.op, d.op} \cap LifeOps = {}
  /\ c.op \in LifeOps =>
       /\ d.pc = "Sync" <=> c.pc = "Sync"
       /\ d.pc \in HeldPcs <=> c.pc \in HeldPcs
       /\ d.pc \in {"Vfs", "Start"} <=> c.pc \in {"Vfs", "Start"}

(* The critical sections that the thread is in after its step are those it *)
(* leaves again; the others' are as before.                                *)
OwnStep(t, c) ==
  \A h \in Nodes : owner'[h] # NULL =>
    IF owner'[h] = t THEN Inside(c, h) ELSE owner'[h] = owner[h]

LEMMA GotoStep ==
  ASSUME CallOK, NEW t \in Threads, NEW pc \in Pcs, Goto(t, pc)
  PROVE  CallStep(t, [call[t] EXCEPT !.pc = pc])
         /\ [call[t] EXCEPT !.pc = pc] \in CallType
  BY DEF CallOK, CallType, Goto, CallStep

LEMMA ReturnStep ==
  ASSUME CallOK, NEW t \in Threads, Return(t)
  PROVE  CallStep(t, Idle) /\ Idle \in CallType
  BY DEF CallOK, CallType, Return, CallStep, Idle, Pcs

LEMMA LocalStep ==
  ASSUME ListOK, NEW t \in Threads, NEW c \in CallType, CallStep(t, c),
         MemoryOK', OwnerOK', PlaceOK(c), RootOK(c), OwnStep(t, c)
  PROVE  ListOK'
  <1>1. CallOK'  BY DEF ListOK, CallOK, CallStep
  <1>2. PlacesOK'  BY DEF ListOK, PlacesOK, CallStep
  <1>3. OwnersIn'
    BY DEF ListOK, OwnersIn, OwnerOK, OwnStep, CallStep
  <1> QED BY <1>1, <1>2, <1>3 DEF ListOK

StagesKept == \A u \in Threads : SameStage(call[u], call'[u])

LEMMA StageStep ==
  ASSUME NEW t \in Threads, NEW c, CallStep(t, c), SameStage(call[t], c)
  PROVE  StagesKept
  BY DEF CallStep, SameStage, StagesKept
-------------------------------------------------------------------------------
(* The steps on the list, one by one                                       *)

LEMMA MakeListKeeps ==
  ASSUME ListOK, NEW t \in Threads, MakeList(t)
  PROVE  ListOK' /\ StagesKept
  <1> DEFINE c == [call[t] EXCEPT !.pc = "Start"]
  <1>0. call[t] \in CallType /\ PlaceOK(call[t]) /\ RootOK(call[t])
    BY DEF ListOK, CallOK, PlacesOK
  <1>1. CallStep(t, c)
    BY DEF ListOK, CallOK, CallStep, MakeList, Goto
  <1>2. c \in CallType
    BY <1>0 DEF CallType, Pcs
  <1>3. MemoryOK' /\ OwnerOK'
    BY DEF ListOK, MemoryOK, OwnerOK, MakeList
  <1>4. PlaceOK(c) /\ RootOK(c) /\ SameStage(call[t], c)
    BY <1>0 DEF MakeList, At, PlaceOK, RootOK, SameStage, HeldPcs
  <1>5. OwnStep(t, c)
    BY DEF ListOK, OwnStep, OwnersIn, MakeList, At, Inside, Changing
  <1> QED BY <1>1, <1>2, <1>3, <1>4, <1>5, LocalStep, StageStep

LEMMA MakeListFailsKeeps ==
  ASSUME ListOK, NEW t \in Threads, MakeListFails(t)
  PROVE  ListOK' /\ StagesKept
  <1> DEFINE c == [call[t] EXCEPT !.pc = "Start"]
  <1>0. call[t] \in CallType /\ PlaceOK(call[t]) /\ RootOK(call[t])
    BY DEF ListOK, CallOK, PlacesOK
  <1>1. CallStep(t, c)
    BY DEF ListOK, CallOK, CallStep, MakeListFails, Goto
  <1>2. c \in CallType
    BY <1>0 DEF CallType, Pcs
  <1>3. MemoryOK' /\ OwnerOK'
    BY DEF ListOK, MemoryOK, OwnerOK, MakeListFails, memory
  <1>4. PlaceOK(c) /\ RootOK(c) /\ SameStage(call[t], c)
    BY <1>0 DEF MakeListFails, At, PlaceOK, RootOK, SameStage, HeldPcs
  <1>5. OwnStep(t, c)
    BY DEF ListOK, OwnStep, OwnersIn, MakeListFails, At, Inside, Changing
  <1> QED BY <1>1, <1>2, <1>3, <1>4, <1>5, LocalStep, StageStep

LEMMA WalkStartKeeps ==
  ASSUME ListOK, NEW t \in Threads, WalkStart(t)
  PROVE  ListOK' /\ StagesKept
  <1> DEFINE c == [call[t] EXCEPT !.pc = "Walk", !.head = pAppData, !.ptr = next[pAppData]]
  <1>0. call[t] \in CallType /\ PlaceOK(call[t]) /\ RootOK(call[t])
    BY DEF ListOK, CallOK, PlacesOK
  <1>1. CallStep(t, c)
    BY DEF ListOK, CallOK, CallStep, WalkStart
  <1>2. c \in CallType
    BY <1>0 DEF ListOK, MemoryOK, CallType, Pcs, WalkStart, At, Sound, Needs, Ops
  <1>3. MemoryOK' /\ OwnerOK'
    BY DEF ListOK, MemoryOK, OwnerOK, WalkStart, memory
  <1>4. PlaceOK(c) /\ RootOK(c) /\ SameStage(call[t], c)
    BY <1>0 DEF WalkStart, At, PlaceOK, RootOK, SameStage, Ops, LifeOps
  <1>5. OwnStep(t, c)
    BY DEF ListOK, OwnStep, OwnersIn, WalkStart, At, Inside, Changing
  <1> QED BY <1>1, <1>2, <1>3, <1>4, <1>5, LocalStep, StageStep

LEMMA WalkOnKeeps ==
  ASSUME ListOK, NEW t \in Threads, WalkOn(t)
  PROVE  ListOK' /\ StagesKept
  <1> DEFINE c == [call[t] EXCEPT !.ptr = next[call[t].ptr]]
  <1>0. call[t] \in CallType /\ PlaceOK(call[t]) /\ RootOK(call[t])
    BY DEF ListOK, CallOK, PlacesOK
  <1>1. CallStep(t, c)
    BY DEF ListOK, CallOK, CallStep, WalkOn
  <1>2. c \in CallType
    BY <1>0 DEF ListOK, MemoryOK, CallType, WalkOn, At, Sound, Needs
  <1>3. MemoryOK' /\ OwnerOK'
    BY DEF ListOK, MemoryOK, OwnerOK, WalkOn, memory
  <1>4. PlaceOK(c) /\ RootOK(c) /\ SameStage(call[t], c)
    BY <1>0 DEF PlaceOK, RootOK, SameStage
  <1>5. OwnStep(t, c)
    BY DEF ListOK, OwnStep, OwnersIn, WalkOn, Inside
  <1> QED BY <1>1, <1>2, <1>3, <1>4, <1>5, LocalStep, StageStep

LEMMA WalkFoundKeeps ==
  ASSUME ListOK, NEW t \in Threads, WalkFound(t)
  PROVE  ListOK' /\ StagesKept
  <1> DEFINE c == IF call[t].op = "delete"
                  THEN [call[t] EXCEPT !.pc = "DelStart", !.file = obj[call[t].ptr]]
                  ELSE Idle
  <1>0. call[t] \in CallType /\ PlaceOK(call[t]) /\ RootOK(call[t])
    BY DEF ListOK, CallOK, PlacesOK
  <1>1. CallStep(t, c)
    BY DEF ListOK, CallOK, CallStep, WalkFound, Found, Return
  <1>2. c \in CallType
    BY <1>0, ListAssumption
       DEF ListOK, MemoryOK, CallType, Pcs, Idle, WalkFound, At, Sound, Needs
  <1>3. MemoryOK' /\ OwnerOK'
    BY DEF ListOK, MemoryOK, OwnerOK, WalkFound, memory
  <1>4. PlaceOK(c) /\ RootOK(c) /\ SameStage(call[t], c)
    BY <1>0
       DEF WalkFound, At, PlaceOK, RootOK, SameStage, Ops, LifeOps, HeldPcs,
           Idle
  <1>5. OwnStep(t, c)
    BY DEF OwnStep, WalkFound
  <1> QED BY <1>1, <1>2, <1>3, <1>4, <1>5, LocalStep, StageStep

LEMMA WalkMissedKeeps ==
  ASSUME ListOK, NEW t \in Threads, WalkMissed(t)
  PROVE  ListOK' /\ StagesKept
  <1> DEFINE c == IF call[t].op # "open" THEN Idle
                  ELSE [call[t] EXCEPT !.pc = IF call[t].root = NULL THEN "Enter" ELSE "Add"]
  <1>0. call[t] \in CallType /\ PlaceOK(call[t]) /\ RootOK(call[t])
    BY DEF ListOK, CallOK, PlacesOK
  <1>1. CallStep(t, c)
    BY DEF ListOK, CallOK, CallStep, WalkMissed, Goto, Return
  <1>2. c \in CallType
    BY <1>0 DEF CallType, Pcs, Idle
  <1>3. MemoryOK' /\ OwnerOK'
    BY DEF ListOK, MemoryOK, OwnerOK, WalkMissed, memory
  <1>4. PlaceOK(c) /\ RootOK(c) /\ SameStage(call[t], c)
    BY <1>0
       DEF WalkMissed, At, PlaceOK, RootOK, SameStage, Ops, LifeOps, HeldPcs,
           Idle
  <1>5. OwnStep(t, c)
    BY <1>0
       DEF ListOK, OwnStep, OwnersIn, WalkMissed, At, Inside, Changing, RootOK,
           Idle
  <1> QED BY <1>1, <1>2, <1>3, <1>4, <1>5, LocalStep, StageStep

LEMMA OpenEnterKeeps ==
  ASSUME ListOK, NEW t \in Threads, OpenEnter(t)
  PROVE  ListOK' /\ StagesKept
  <1> DEFINE c == [call[t] EXCEPT !.pc = "Walk", !.head = pAppData, !.root = pAppData, !.ptr = next[pAppData]]
  <1>0. call[t] \in CallType /\ PlaceOK(call[t]) /\ RootOK(call[t])
    BY DEF ListOK, CallOK, PlacesOK
  <1>1. CallStep(t, c)
    BY DEF ListOK, CallOK, CallStep, OpenEnter
  <1>2. c \in CallType
    BY <1>0 DEF ListOK, MemoryOK, CallType, Pcs, OpenEnter, At, Sound, Needs
  <1>3. MemoryOK' /\ OwnerOK'
    BY DEF ListOK, MemoryOK, OwnerOK, OpenEnter, memory
  <1>4. PlaceOK(c) /\ RootOK(c) /\ SameStage(call[t], c)
    BY <1>0 DEF OpenEnter, At, PlaceOK, RootOK, SameStage, HeldPcs
  <1>5. OwnStep(t, c)
    BY <1>0, ListAssumption
       DEF ListOK, OwnStep, OwnersIn, OpenEnter, At, Inside, Changing, RootOK
  <1> QED BY <1>1, <1>2, <1>3, <1>4, <1>5, LocalStep, StageStep

LEMMA AddFailsKeeps ==
  ASSUME ListOK, NEW t \in Threads, AddFails(t)
  PROVE  ListOK' /\ StagesKept
  <1> DEFINE c == Idle
  <1>1. CallStep(t, c)
    BY DEF ListOK, CallOK, CallStep, AddFails, Return
  <1>2. c \in CallType
    BY DEF CallType, Pcs, Idle
  <1>3. MemoryOK' /\ OwnerOK'
    BY DEF ListOK, MemoryOK, OwnerOK, AddFails, memory
  <1>4. PlaceOK(c) /\ RootOK(c) /\ SameStage(call[t], c)
    BY DEF AddFails, At, PlaceOK, RootOK, SameStage, Ops, LifeOps, HeldPcs,
           Idle
  <1>5. OwnStep(t, c)
    BY DEF ListOK, OwnStep, OwnerOK, OwnersIn, AddFails, At, Inside, Changing
  <1> QED BY <1>1, <1>2, <1>3, <1>4, <1>5, LocalStep, StageStep

LEMMA AddLinkKeeps ==
  ASSUME ListOK, NEW t \in Threads, AddLink(t)
  PROVE  ListOK' /\ StagesKept
  <1>p. PICK p \in Nodes \ alloc, f \in Files \ files :
          /\ alloc' = alloc \cup {p}
          /\ files' = files \cup {f}
          /\ prev'  = [prev EXCEPT ![p] = prev[pAppData]]
          /\ next'  = [next EXCEPT ![p] = pAppData]
          /\ obj'   = [obj EXCEPT ![p] = f]
          /\ call'  = [call EXCEPT ![t].pc = "LinkNext", ![t].head = pAppData,
                                   ![t].ptr = p]
    BY DEF AddLink
  <1> DEFINE c == [call[t] EXCEPT !.pc = "LinkNext", !.head = pAppData, !.ptr = p]
  <1>0. call[t] \in CallType /\ PlaceOK(call[t]) /\ RootOK(call[t])
    BY DEF ListOK, CallOK, PlacesOK
  <1>1. CallStep(t, c)
    BY <1>p DEF ListOK, CallOK, CallStep
  <1>2. pAppData \in Nodes /\ c \in CallType
    BY <1>0 DEF ListOK, MemoryOK, CallType, Pcs, AddLink, At, Sound, Needs, PlaceOK
  <1>3. MemoryOK' /\ OwnerOK'
    <2>1. prev' \in [Nodes -> Nodes \cup {NULL, Freed}]
      BY <1>2, <1>p DEF ListOK, MemoryOK
    <2>3. obj' \in [Nodes -> Files \cup {NULL}]
      BY <1>2, <1>p DEF ListOK, MemoryOK
    <2> QED BY <2>1, <2>3, <1>p DEF ListOK, MemoryOK, OwnerOK, AddLink
  <1>4. PlaceOK(c) /\ RootOK(c) /\ SameStage(call[t], c)
    BY <1>0 DEF AddLink, At, PlaceOK, RootOK, SameStage, HeldPcs
  <1>5. OwnStep(t, c)
    BY DEF ListOK, OwnStep, OwnersIn, AddLink, At, Inside, Changing
  <1> QED BY <1>1, <1>2, <1>3, <1>4, <1>5, LocalStep, StageStep

LEMMA LinkNextKeeps ==
  ASSUME ListOK, NEW t \in Threads, LinkNext(t)
  PROVE  ListOK' /\ StagesKept
  <1> DEFINE c == [call[t] EXCEPT !.pc = "LinkPrev"]
  <1>0. call[t] \in CallType /\ PlaceOK(call[t]) /\ RootOK(call[t])
    BY DEF ListOK, CallOK, PlacesOK
  <1>1. CallStep(t, c)
    BY DEF ListOK, CallOK, CallStep, LinkNext, Goto
  <1>2. c \in CallType
    BY <1>0 DEF CallType, Pcs
  <1>3. MemoryOK' /\ OwnerOK'
    BY <1>0 DEF ListOK, MemoryOK, OwnerOK, CallType, LinkNext
  <1>4. PlaceOK(c) /\ RootOK(c) /\ SameStage(call[t], c)
    BY <1>0 DEF LinkNext, At, PlaceOK, RootOK, SameStage, HeldPcs
  <1>5. OwnStep(t, c)
    BY DEF ListOK, OwnStep, OwnersIn, LinkNext, Inside, Changing
  <1> QED BY <1>1, <1>2, <1>3, <1>4, <1>5, LocalStep, StageStep

LEMMA LinkPrevKeeps ==
  ASSUME ListOK, NEW t \in Threads, LinkPrev(t)
  PROVE  ListOK' /\ StagesKept
  <1> DEFINE c == Idle
  <1>0. call[t] \in CallType /\ PlaceOK(call[t]) /\ RootOK(call[t])
    BY DEF ListOK, CallOK, PlacesOK
  <1>1. CallStep(t, c)
    BY DEF ListOK, CallOK, CallStep, LinkPrev, Return
  <1>2. c \in CallType
    BY DEF CallType, Pcs, Idle
  <1>3. MemoryOK' /\ OwnerOK'
    BY <1>0 DEF ListOK, MemoryOK, OwnerOK, CallType, LinkPrev
  <1>4. PlaceOK(c) /\ RootOK(c) /\ SameStage(call[t], c)
    BY DEF LinkPrev, At, PlaceOK, RootOK, SameStage, Ops, LifeOps, HeldPcs,
           Idle
  <1>5. OwnStep(t, c)
    BY DEF OwnStep, LinkPrev
  <1> QED BY <1>1, <1>2, <1>3, <1>4, <1>5, LocalStep, StageStep

LEMMA DelStartKeeps ==
  ASSUME ListOK, NEW t \in Threads, DelStart(t)
  PROVE  ListOK' /\ StagesKept
  <1> DEFINE c == [call[t] EXCEPT !.pc = "DelWalk", !.head = pAppData, !.ptr = next[pAppData]]
  <1>0. call[t] \in CallType /\ PlaceOK(call[t]) /\ RootOK(call[t])
    BY DEF ListOK, CallOK, PlacesOK
  <1>1. CallStep(t, c)
    BY DEF ListOK, CallOK, CallStep, DelStart
  <1>2. c \in CallType
    BY <1>0 DEF ListOK, MemoryOK, CallType, Pcs, DelStart, At, Sound, Needs
  <1>3. MemoryOK' /\ OwnerOK'
    BY DEF ListOK, MemoryOK, OwnerOK, DelStart, memory
  <1>4. PlaceOK(c) /\ RootOK(c) /\ SameStage(call[t], c)
    BY <1>0 DEF DelStart, At, PlaceOK, RootOK, SameStage, HeldPcs
  <1>5. OwnStep(t, c)
    BY DEF ListOK, OwnStep, OwnersIn, DelStart, At, Inside, Changing
  <1> QED BY <1>1, <1>2, <1>3, <1>4, <1>5, LocalStep, StageStep

LEMMA DelPassesKeeps ==
  ASSUME ListOK, NEW t \in Threads, DelPasses(t)
  PROVE  ListOK' /\ StagesKept
  <1> DEFINE c == [call[t] EXCEPT !.ptr = next[call[t].ptr]]
  <1>0. call[t] \in CallType /\ PlaceOK(call[t]) /\ RootOK(call[t])
    BY DEF ListOK, CallOK, PlacesOK
  <1>1. CallStep(t, c)
    BY DEF ListOK, CallOK, CallStep, DelPasses
  <1>2. c \in CallType
    BY <1>0 DEF ListOK, MemoryOK, CallType, DelPasses, At, Sound, Needs
  <1>3. MemoryOK' /\ OwnerOK'
    BY DEF ListOK, MemoryOK, OwnerOK, DelPasses, memory
  <1>4. PlaceOK(c) /\ RootOK(c) /\ SameStage(call[t], c)
    BY <1>0 DEF PlaceOK, RootOK, SameStage
  <1>5. OwnStep(t, c)
    BY DEF ListOK, OwnStep, OwnersIn, DelPasses, Inside
  <1> QED BY <1>1, <1>2, <1>3, <1>4, <1>5, LocalStep, StageStep

LEMMA DelFindsKeeps ==
  ASSUME ListOK, NEW t \in Threads, DelFinds(t)
  PROVE  ListOK' /\ StagesKept
  <1> DEFINE c == [call[t] EXCEPT !.pc = "DelEnter"]
  <1>0. call[t] \in CallType /\ PlaceOK(call[t]) /\ RootOK(call[t])
    BY DEF ListOK, CallOK, PlacesOK
  <1>1. CallStep(t, c)
    BY DEF ListOK, CallOK, CallStep, DelFinds, Goto
  <1>2. c \in CallType
    BY <1>0 DEF CallType, Pcs
  <1>3. MemoryOK' /\ OwnerOK'
    BY DEF ListOK, MemoryOK, OwnerOK, DelFinds, memory
  <1>4. PlaceOK(c) /\ RootOK(c) /\ SameStage(call[t], c)
    BY <1>0 DEF DelFinds, At, PlaceOK, RootOK, SameStage, HeldPcs
  <1>5. OwnStep(t, c)
    BY DEF ListOK, OwnStep, OwnersIn, DelFinds, At, Inside, Changing
  <1> QED BY <1>1, <1>2, <1>3, <1>4, <1>5, LocalStep, StageStep

LEMMA DelEndKeeps ==
  ASSUME ListOK, NEW t \in Threads, DelEnd(t)
  PROVE  ListOK' /\ StagesKept
  <1> DEFINE c == [call[t] EXCEPT !.pc = "Destroy"]
  <1>0. call[t] \in CallType /\ PlaceOK(call[t]) /\ RootOK(call[t])
    BY DEF ListOK, CallOK, PlacesOK
  <1>1. CallStep(t, c)
    BY DEF ListOK, CallOK, CallStep, DelEnd, Goto
  <1>2. c \in CallType
    BY <1>0 DEF CallType, Pcs
  <1>3. MemoryOK' /\ OwnerOK'
    BY DEF ListOK, MemoryOK, OwnerOK, DelEnd, memory
  <1>4. PlaceOK(c) /\ RootOK(c) /\ SameStage(call[t], c)
    BY <1>0 DEF DelEnd, At, PlaceOK, RootOK, SameStage, HeldPcs
  <1>5. OwnStep(t, c)
    BY DEF ListOK, OwnStep, OwnersIn, DelEnd, At, Inside, Changing
  <1> QED BY <1>1, <1>2, <1>3, <1>4, <1>5, LocalStep, StageStep

LEMMA DestroyKeeps ==
  ASSUME ListOK, NEW t \in Threads, Destroy(t)
  PROVE  ListOK' /\ StagesKept
  <1> DEFINE c == IF call[t].op = "delete" THEN Idle
                  ELSE [call[t] EXCEPT !.pc = "On", !.file = NULL]
  <1>0. call[t] \in CallType /\ PlaceOK(call[t]) /\ RootOK(call[t])
    BY DEF ListOK, CallOK, PlacesOK
  <1>1. CallStep(t, c)
    BY DEF ListOK, CallOK, CallStep, Destroy, Return
  <1>2. c \in CallType
    BY <1>0 DEF CallType, Pcs, Idle
  <1>3. MemoryOK' /\ OwnerOK'
    BY DEF ListOK, MemoryOK, OwnerOK, Destroy, memory
  <1>4. PlaceOK(c) /\ RootOK(c) /\ SameStage(call[t], c)
    BY <1>0
       DEF Destroy, At, PlaceOK, RootOK, SameStage, Ops, LifeOps, HeldPcs, Idle
  <1>5. OwnStep(t, c)
    BY <1>0
       DEF ListOK, OwnStep, OwnersIn, Destroy, At, Inside, Changing, RootOK,
           Idle
  <1> QED BY <1>1, <1>2, <1>3, <1>4, <1>5, LocalStep, StageStep

LEMMA DelEnterKeeps ==
  ASSUME ListOK, NEW t \in Threads, DelEnter(t)
  PROVE  ListOK' /\ StagesKept
  <1> DEFINE c == [call[t] EXCEPT !.pc = "UnlinkNext"]
  <1>0. call[t] \in CallType /\ PlaceOK(call[t]) /\ RootOK(call[t])
    BY DEF ListOK, CallOK, PlacesOK
  <1>1. CallStep(t, c)
    BY DEF ListOK, CallOK, CallStep, DelEnter, Goto
  <1>2. c \in CallType
    BY <1>0 DEF CallType, Pcs
  <1>3. MemoryOK' /\ OwnerOK'
    BY DEF ListOK, MemoryOK, OwnerOK, DelEnter, memory
  <1>4. PlaceOK(c) /\ RootOK(c) /\ SameStage(call[t], c)
    BY <1>0 DEF DelEnter, At, PlaceOK, RootOK, SameStage, HeldPcs
  <1>5. OwnStep(t, c)
    BY DEF ListOK, OwnStep, OwnersIn, DelEnter, Inside, Changing
  <1> QED BY <1>1, <1>2, <1>3, <1>4, <1>5, LocalStep, StageStep

LEMMA UnlinkNextKeeps ==
  ASSUME ListOK, NEW t \in Threads, UnlinkNext(t)
  PROVE  ListOK' /\ StagesKept
  <1> DEFINE c == [call[t] EXCEPT !.pc = "UnlinkPrev"]
  <1>0. call[t] \in CallType /\ PlaceOK(call[t]) /\ RootOK(call[t])
    BY DEF ListOK, CallOK, PlacesOK
  <1>1. CallStep(t, c)
    BY DEF ListOK, CallOK, CallStep, UnlinkNext, Goto
  <1>2. c \in CallType
    BY <1>0 DEF CallType, Pcs
  <1>3. MemoryOK' /\ OwnerOK'
    BY DEF ListOK, MemoryOK, OwnerOK, UnlinkNext, At, Sound, Needs
  <1>4. PlaceOK(c) /\ RootOK(c) /\ SameStage(call[t], c)
    BY <1>0 DEF UnlinkNext, At, PlaceOK, RootOK, SameStage, HeldPcs
  <1>5. OwnStep(t, c)
    BY DEF ListOK, OwnStep, OwnersIn, UnlinkNext, Inside, Changing
  <1> QED BY <1>1, <1>2, <1>3, <1>4, <1>5, LocalStep, StageStep

LEMMA UnlinkPrevKeeps ==
  ASSUME ListOK, NEW t \in Threads, UnlinkPrev(t)
  PROVE  ListOK' /\ StagesKept
  <1> DEFINE c == [call[t] EXCEPT !.pc = "Free"]
  <1>0. call[t] \in CallType /\ PlaceOK(call[t]) /\ RootOK(call[t])
    BY DEF ListOK, CallOK, PlacesOK
  <1>1. CallStep(t, c)
    BY DEF ListOK, CallOK, CallStep, UnlinkPrev, Goto
  <1>2. c \in CallType
    BY <1>0 DEF CallType, Pcs
  <1>3. MemoryOK' /\ OwnerOK'
    BY DEF ListOK, MemoryOK, OwnerOK, UnlinkPrev, At, Sound, Needs
  <1>4. PlaceOK(c) /\ RootOK(c) /\ SameStage(call[t], c)
    BY <1>0 DEF UnlinkPrev, At, PlaceOK, RootOK, SameStage, HeldPcs
  <1>5. OwnStep(t, c)
    BY DEF OwnStep, UnlinkPrev
  <1> QED BY <1>1, <1>2, <1>3, <1>4, <1>5, LocalStep, StageStep

LEMMA GoOnKeeps ==
  ASSUME ListOK, NEW t \in Threads, GoOn(t)
  PROVE  ListOK' /\ StagesKept
  <1> DEFINE c == [call[t] EXCEPT !.pc = IF call[t].op = "delete" THEN "DelWalk" ELSE "TearWalk",
                                !.ptr = next[call[t].ptr]]
  <1>0. call[t] \in CallType /\ PlaceOK(call[t]) /\ RootOK(call[t])
    BY DEF ListOK, CallOK, PlacesOK
  <1>1. CallStep(t, c)
    BY DEF ListOK, CallOK, CallStep, GoOn
  <1>2. c \in CallType
    BY <1>0 DEF ListOK, MemoryOK, CallType, Pcs, GoOn, At, Sound, Needs
  <1>3. MemoryOK' /\ OwnerOK'
    BY DEF ListOK, MemoryOK, OwnerOK, GoOn, memory
  <1>4. PlaceOK(c) /\ RootOK(c) /\ SameStage(call[t], c)
    BY <1>0 DEF GoOn, At, PlaceOK, RootOK, SameStage, LifeOps, HeldPcs
  <1>5. OwnStep(t, c)
    BY DEF ListOK, OwnStep, OwnersIn, GoOn, At, Inside, Changing
  <1> QED BY <1>1, <1>2, <1>3, <1>4, <1>5, LocalStep, StageStep


(* free() may also turn the pointer of another thread into Freed.          *)
LEMMA FreeKeeps ==
  ASSUME ListOK, NEW t \in Threads, Free(t)
  PROVE  ListOK' /\ StagesKept
  <1> DEFINE p == call[t].ptr
             After(r) == IF r = p THEN Freed ELSE r
             pc == IF call[t].op = "delete" THEN "On" ELSE "Destroy"
             c(u) == IF u = t THEN [call[t] EXCEPT !.ptr = prev[p], !.pc = pc]
                     ELSE [call[u] EXCEPT !.ptr = After(call[u].ptr)]
  <1>0. \A u \in Threads :
          call[u] \in CallType /\ PlaceOK(call[u]) /\ RootOK(call[u])
    BY DEF ListOK, CallOK, PlacesOK
  <1>1. call[t].pc = "Free" /\ p \in Nodes
    BY DEF Free, At, Sound, Needs, ListOK, MemoryOK
  <1>2. call' = [u \in Threads |-> c(u)]
    BY DEF Free, FreeLink
  <1> HIDE DEF c
  <1>3. CallOK'
    <2>1. prev[p] \in Nodes \cup {NULL, Freed}
      BY <1>1 DEF ListOK, MemoryOK
    <2>2. c(t) \in CallType
      BY <1>0, <2>1 DEF c, CallType, Pcs
    <2>3. \A u \in Threads \ {t} : c(u) \in CallType
      BY <1>0 DEF c, CallType
    <2> QED BY <2>2, <2>3, <1>2 DEF CallOK
  <1>4. \A u \in Threads :
          /\ c(u).op = call[u].op /\ c(u).o = call[u].o
          /\ c(u).head = call[u].head /\ c(u).root = call[u].root
          /\ c(u).file = call[u].file
          /\ c(u).pc = IF u = t THEN pc ELSE call[u].pc
    BY DEF c
  <1>5. PlacesOK'
    <2>1. \A u \in Threads : PlaceOK(c(u)) /\ RootOK(c(u))
      BY <1>0, <1>1, <1>4 DEF PlaceOK, RootOK, HeldPcs
    <2> QED BY <2>1, <1>2 DEF PlacesOK
  <1>6. MemoryOK'
    <2> QED BY DEF Free, FreeLink, ListOK, MemoryOK
  <1>7. OwnerOK'  BY DEF Free, ListOK, OwnerOK
  <1>8. OwnersIn'
    <2>1. \A u \in Threads, h \in Nodes :
            Inside(call[u], h) => Inside(c(u), h)
      BY <1>1, <1>4 DEF Inside, Changing
    <2> QED BY <2>1, <1>2 DEF Free, ListOK, OwnersIn, OwnerOK
  <1>9. StagesKept
    <2>1. \A u \in Threads : SameStage(call[u], c(u))
      BY <1>1, <1>4 DEF SameStage, HeldPcs
    <2> QED BY <2>1, <1>2 DEF StagesKept
  <1> QED BY <1>3, <1>5, <1>6, <1>7, <1>8, <1>9 DEF ListOK

LEMMA FaultKeeps ==
  ASSUME ListOK, NEW t \in Threads, Fault(t)
  PROVE  ListOK' /\ StagesKept
  <1>1. MemoryOK'  BY DEF ListOK, MemoryOK, Fault, memory
  <1>2. UNCHANGED <<call, owner>>  BY DEF Fault
  <1>3. StagesKept  BY <1>2 DEF StagesKept, SameStage
  <1> QED BY <1>1, <1>2, <1>3 DEF ListOK, CallOK, PlacesOK, OwnerOK, OwnersIn

LEMMA BeginKeeps ==
  ASSUME ListOK, NEW t \in Threads, NEW op \in Ops, NEW o \in Names,
         Begin(t, op, o)
  PROVE  ListOK' /\ StagesKept
  <1> DEFINE c == [Idle EXCEPT !.pc = IF pAppData = NULL THEN "Vfs" ELSE "Start",
                               !.op = op, !.o = o]
  <1>0. call[t] \in CallType /\ PlaceOK(call[t]) /\ RootOK(call[t])
    BY DEF ListOK, CallOK, PlacesOK
  <1>1. CallStep(t, c)
    BY DEF ListOK, CallOK, CallStep, Begin
  <1>2. c \in CallType
    BY DEF CallType, Pcs, Idle
  <1>3. MemoryOK' /\ OwnerOK'
    BY DEF ListOK, MemoryOK, OwnerOK, Begin, memory
  <1>4. PlaceOK(c) /\ RootOK(c) /\ SameStage(call[t], c)
    BY <1>0 DEF Begin, PlaceOK, RootOK, SameStage, Ops, LifeOps, Idle
  <1>5. OwnStep(t, c)
    BY <1>0, ListAssumption
       DEF ListOK, OwnStep, OwnersIn, Begin, Inside, Changing, RootOK
  <1> QED BY <1>1, <1>2, <1>3, <1>4, <1>5, LocalStep, StageStep

LEMMA ListStepKeeps ==
  ASSUME ListOK, NEW t \in Threads, ListStep(t)
  PROVE  ListOK' /\ StagesKept
  BY FaultKeeps, MakeListKeeps, MakeListFailsKeeps, WalkStartKeeps, WalkOnKeeps,
     WalkFoundKeeps, WalkMissedKeeps, OpenEnterKeeps, AddFailsKeeps,
     AddLinkKeeps, LinkNextKeeps, LinkPrevKeeps, DelStartKeeps, DelPassesKeeps,
     DelFindsKeeps, DelEndKeeps, DelEnterKeeps, UnlinkNextKeeps,
     UnlinkPrevKeeps, FreeKeeps, DestroyKeeps, GoOnKeeps
  DEF ListStep

(* No step of the list has any part in the count of users.                 *)
LEMMA StagesKeepCount ==
  ASSUME CountOK, StagesKept, UNCHANGED lifeVars
  PROVE  CountOK'
  <1>1. UNCHANGED <<refCount, registered, sync, users, twice>>
    BY DEF lifeVars
  <1>2. \A u \in Threads :
          /\ Inits(u)' <=> Inits(u)
          /\ Inits(u) => call'[u].o = call[u].o
          /\ Leaves(u)' <=> Leaves(u)
          /\ Held(u)' <=> Held(u)
          /\ Held(u) => /\ call'[u].op = call[u].op
                        /\ call'[u].pc \in {"Vfs", "Start"}
                             <=> call[u].pc \in {"Vfs", "Start"}
    BY DEF StagesKept, SameStage, Inits, Leaves, Held, LifeOps
  <1>3. Leaving' = Leaving  BY <1>2 DEF Leaving
  <1>4. LifeTypeOK'  BY <1>1 DEF CountOK, LifeTypeOK
  <1>5. InitsApart'  BY <1>1, <1>2 DEF CountOK, InitsApart
  <1>6. HolderIs'  BY <1>1, <1>2 DEF CountOK, HolderIs
  <1>7. HolderCount'  BY <1>1, <1>2 DEF CountOK, HolderCount
  <1>8. Entered' = Entered
    BY <1>1, <1>2 DEF Entered, CountOK, LifeTypeOK
  <1>9. Counted'  BY <1>1, <1>3, <1>8 DEF CountOK, Counted
  <1>10. Registered'  BY <1>1 DEF CountOK, Registered
  <1> QED BY <1>4, <1>5, <1>6, <1>7, <1>9, <1>10 DEF CountOK

-------------------------------------------------------------------------------
(* The steps of memfs_init and memfs_destroy                               *)

LEMMA LeavingStep ==
  ASSUME NEW t \in Threads, NEW c, CallStep(t, c)
  PROVE  Leaving' = IF c.pc = "Sync" /\ c.op = "destroy" THEN Leaving \cup {t}
                                                         ELSE Leaving \ {t}
  BY DEF CallStep, Leaving, Leaves

(* The mutex goes to t, or t gives it up, as its new record says.          *)
LEMMA HolderStep ==
  ASSUME HolderIs, NEW t \in Threads, NEW c, CallStep(t, c),
         sync' = t <=> c.op \in LifeOps /\ c.pc \in HeldPcs,
         \A u \in Threads \ {t} : sync' = u <=> sync = u
  PROVE  HolderIs'
  BY DEF HolderIs, Held, CallStep

LEMMA NewKeeps ==
  ASSUME ListOK, CountOK, NEW t \in Threads, NEW m \in Users, New(t, m)
  PROVE  ListOK' /\ CountOK'
  <1> DEFINE c == [Idle EXCEPT !.pc = "Sync", !.op = "init", !.o = m]
  <1>0. call[t] \in CallType /\ PlaceOK(call[t]) /\ RootOK(call[t])
    BY DEF ListOK, CallOK, PlacesOK
  <1>1. CallStep(t, c)
    BY DEF ListOK, CallOK, CallStep, New, Enter
  <1>2. c \in CallType
    BY DEF CallType, Idle
  <1>3. MemoryOK' /\ OwnerOK'
    BY DEF ListOK, MemoryOK, OwnerOK, New, memory
  <1>4. PlaceOK(c) /\ RootOK(c)
    BY DEF PlaceOK, RootOK, Ops, LifeOps, Idle
  <1>5. OwnStep(t, c)
    BY <1>0, ListAssumption
       DEF ListOK, OwnStep, OwnersIn, New, Enter, Inside, Changing, RootOK
  <1>6. ListOK'
    BY <1>1, <1>2, <1>3, <1>4, <1>5, LocalStep
  <1>7. UNCHANGED <<refCount, registered, sync, users, twice>>
    BY DEF New, lifeVars
  <1>8. call[t].pc = "idle" /\ ~Held(t) /\ ~Leaves(t)
    BY DEF New, Enter, Held, HeldPcs, Leaves
  <1>9. c.pc = "Sync" /\ c.op = "init" /\ c.o = m
    OBVIOUS
  <1>10. InitsApart'
    <2>1. m \notin users /\ \A u \in Threads : call[u].o # m
      BY DEF New
    <2>2. \A u \in Threads \ {t} : call'[u] = call[u]
      BY <1>1 DEF CallStep
    <2>3. call'[t].o = m
      BY <1>1 DEF CallStep
    <2> QED BY <1>7, <2>1, <2>2, <2>3 DEF CountOK, InitsApart, Inits
  <1>11. sync # t /\ HolderIs'
    BY <1>1, <1>7, <1>8, <1>9, HolderStep DEF CountOK, HolderIs, HeldPcs
  <1>12. HolderCount'
    BY <1>1, <1>7, <1>9 DEF CountOK, HolderCount, Held, Inits, CallStep, HeldPcs
  <1>13. Leaving' = Leaving
    BY <1>1, <1>8, <1>9, LeavingStep DEF Leaving
  <1>14. Entered' = Entered
    BY <1>1, <1>7, <1>11 DEF Entered, Inits, CallStep, CountOK, LifeTypeOK
  <1>15. Counted' /\ Registered' /\ LifeTypeOK'
    BY <1>7, <1>13, <1>14 DEF CountOK, Counted, Registered, LifeTypeOK
  <1> QED BY <1>6, <1>10, <1>11, <1>12, <1>15 DEF CountOK

LEMMA DisposeTestKeeps ==
  ASSUME ListOK, CountOK, NEW t \in Threads, NEW m \in Users, DisposeTest(t, m)
  PROVE  ListOK' /\ CountOK'
  <1> DEFINE c == [Idle EXCEPT !.pc = "Dispose", !.op = "destroy", !.o = m]
  <1>0. call[t] \in CallType /\ PlaceOK(call[t]) /\ RootOK(call[t])
    BY DEF ListOK, CallOK, PlacesOK
  <1>1. CallStep(t, c)
    BY DEF ListOK, CallOK, CallStep, DisposeTest
  <1>2. c \in CallType
    BY DEF CallType, Idle
  <1>3. MemoryOK' /\ OwnerOK'
    BY DEF ListOK, MemoryOK, OwnerOK, DisposeTest, memory
  <1>4. PlaceOK(c) /\ RootOK(c)
    BY DEF PlaceOK, RootOK, Ops, LifeOps, Idle
  <1>5. OwnStep(t, c)
    BY <1>0, ListAssumption
       DEF ListOK, OwnStep, OwnersIn, DisposeTest, Inside, Changing, RootOK
  <1>6. ListOK'
    BY <1>1, <1>2, <1>3, <1>4, <1>5, LocalStep
  <1>7. UNCHANGED <<refCount, registered, sync, users, twice>>
    BY DEF DisposeTest, lifeVars
  <1>8. call[t].pc = "idle" /\ ~Held(t) /\ ~Leaves(t)
    BY DEF DisposeTest, Held, HeldPcs, Leaves
  <1>9. c.pc = "Dispose" /\ c.op = "destroy"
    OBVIOUS
  <1>10. InitsApart'
    BY <1>1, <1>7, <1>9 DEF CountOK, InitsApart, Inits, CallStep
  <1>11. sync # t /\ HolderIs'
    BY <1>1, <1>7, <1>8, <1>9, HolderStep DEF CountOK, HolderIs, HeldPcs
  <1>12. HolderCount'
    BY <1>1, <1>7, <1>9 DEF CountOK, HolderCount, Held, Inits, CallStep, HeldPcs
  <1>13. Leaving' = Leaving
    BY <1>1, <1>8, <1>9, LeavingStep DEF Leaving
  <1>14. Entered' = Entered
    BY <1>1, <1>7, <1>11 DEF Entered, Inits, CallStep, CountOK, LifeTypeOK
  <1>15. Counted' /\ Registered' /\ LifeTypeOK'
    BY <1>7, <1>13, <1>14 DEF CountOK, Counted, Registered, LifeTypeOK
  <1> QED BY <1>6, <1>10, <1>11, <1>12, <1>15 DEF CountOK

LEMMA TearBeginKeeps ==
  ASSUME ListOK, CountOK, NEW t \in Threads, TearBegin(t)
  PROVE  ListOK' /\ CountOK'
  <1> DEFINE c == [call[t] EXCEPT !.pc = "UnlinkNext", !.file = obj[call[t].ptr]]
  <1>0. call[t] \in CallType /\ PlaceOK(call[t]) /\ RootOK(call[t])
    BY DEF ListOK, CallOK, PlacesOK
  <1>1. CallStep(t, c)
    BY DEF ListOK, CallOK, CallStep, TearBegin
  <1>2. c \in CallType
    BY <1>0 DEF ListOK, MemoryOK, CallType, Pcs, TearBegin, At, Sound, Needs
  <1>3. MemoryOK' /\ OwnerOK'
    BY DEF ListOK, MemoryOK, OwnerOK, TearBegin, memory
  <1>4. PlaceOK(c) /\ RootOK(c)
    BY <1>0 DEF TearBegin, At, PlaceOK, RootOK, HeldPcs
  <1>5. OwnStep(t, c)
    BY DEF ListOK, OwnStep, OwnersIn, TearBegin, Inside, Changing
  <1>6. ListOK'
    BY <1>1, <1>2, <1>3, <1>4, <1>5, LocalStep
  <1>7. SameStage(call[t], c)
    BY DEF TearBegin, At, SameStage, HeldPcs
  <1>8. CountOK'
    BY <1>1, <1>7, StageStep, StagesKeepCount DEF TearBegin
  <1> QED BY <1>6, <1>8

LEMMA DisposeSetKeeps ==
  ASSUME ListOK, CountOK, NEW t \in Threads, DisposeSet(t)
  PROVE  ListOK' /\ CountOK'
  <1> DEFINE c == [call[t] EXCEPT !.pc = "Sync"]
  <1>0. call[t] \in CallType /\ PlaceOK(call[t]) /\ RootOK(call[t])
    BY DEF ListOK, CallOK, PlacesOK
  <1>1. CallStep(t, c)
    BY DEF ListOK, CallOK, CallStep, DisposeSet, Goto
  <1>2. c \in CallType
    BY <1>0 DEF CallType
  <1>3. MemoryOK' /\ OwnerOK'
    BY DEF ListOK, MemoryOK, OwnerOK, DisposeSet, memory
  <1>4. PlaceOK(c) /\ RootOK(c)
    BY <1>0 DEF DisposeSet, At, PlaceOK, RootOK
  <1>5. OwnStep(t, c)
    BY DEF ListOK, OwnStep, OwnersIn, DisposeSet, At, Inside, Changing
  <1>6. ListOK'
    BY <1>1, <1>2, <1>3, <1>4, <1>5, LocalStep
  <1>7. /\ UNCHANGED <<refCount, registered, sync>>
        /\ users' = users \ {call[t].o}
        /\ twice' = (twice \/ call[t].o \notin users)
    BY DEF DisposeSet
  <1>8. call[t].pc = "Dispose" /\ ~Held(t) /\ ~Leaves(t)
    BY DEF DisposeSet, At, Held, HeldPcs, Leaves
  <1>9. call[t].op = "destroy" /\ c.pc = "Sync" /\ c.op = "destroy"
    BY <1>0, <1>8 DEF PlaceOK, LifeOps
  <1>10. InitsApart'
    BY <1>1, <1>7, <1>9 DEF CountOK, InitsApart, Inits, CallStep
  <1>11. sync # t /\ HolderIs'
    BY <1>1, <1>7, <1>8, <1>9, HolderStep DEF CountOK, HolderIs, HeldPcs
  <1>12. HolderCount'
    BY <1>1, <1>7, <1>9 DEF CountOK, HolderCount, Held, Inits, CallStep, HeldPcs
  <1>13. Leaving' = Leaving \cup {t} /\ t \notin Leaving
    BY <1>1, <1>8, <1>9, LeavingStep DEF Leaving
  <1>14. Entered' = Entered
    BY <1>1, <1>7, <1>11 DEF Entered, Inits, CallStep, CountOK, LifeTypeOK
  <1>15. LifeTypeOK' /\ Registered'
    BY <1>7 DEF CountOK, LifeTypeOK, Registered
  <1>16. Counted'
    <2>1. /\ IsFiniteSet(users') /\ IsFiniteSet(Leaving')
          /\ Cardinality(Leaving') = Cardinality(Leaving) + 1
          /\ call[t].o \in users => Cardinality(users') = Cardinality(users) - 1
      BY <1>7, <1>13, FS_AddElement, FS_RemoveElement DEF CountOK, Counted
    <2>2. Cardinality(users) \in Nat /\ Cardinality(Leaving) \in Nat
      BY FS_CardinalityType DEF CountOK, Counted
    <2>4. ~twice => refCount = Cardinality(users) + Cardinality(Leaving) + Entered
      BY DEF CountOK, Counted
    <2>5. ~twice' => ~twice /\ call[t].o \in users
      BY <1>7
    <2>6. ~twice' =>
            refCount' = Cardinality(users') + Cardinality(Leaving') + Entered'
      BY <1>7, <1>14, <2>1, <2>2, <2>4, <2>5
    <2> QED BY <2>1, <2>6 DEF Counted
  <1> QED BY <1>6, <1>10, <1>11, <1>12, <1>15, <1>16 DEF CountOK

LEMMA UnregisterKeeps ==
  ASSUME ListOK, CountOK, NEW t \in Threads, Unregister(t)
  PROVE  ListOK' /\ CountOK'
  <1> DEFINE c == [call[t] EXCEPT !.pc = "TearWalk", !.head = pAppData,
                                !.ptr = next[pAppData]]
  <1>0. call[t] \in CallType /\ PlaceOK(call[t]) /\ RootOK(call[t])
    BY DEF ListOK, CallOK, PlacesOK
  <1>1. CallStep(t, c)
    BY DEF ListOK, CallOK, CallStep, Unregister
  <1>2. c \in CallType
    BY <1>0 DEF ListOK, MemoryOK, CallType, Pcs, Unregister, At, Sound, Needs
  <1>3. MemoryOK' /\ OwnerOK'
    BY DEF ListOK, MemoryOK, OwnerOK, Unregister, memory
  <1>4. PlaceOK(c) /\ RootOK(c)
    BY <1>0 DEF Unregister, At, PlaceOK, RootOK, HeldPcs
  <1>5. OwnStep(t, c)
    BY DEF ListOK, OwnStep, OwnersIn, Unregister, At, Inside, Changing
  <1>6. ListOK'
    BY <1>1, <1>2, <1>3, <1>4, <1>5, LocalStep
  <1>7. UNCHANGED <<refCount, sync, users, twice>> /\ registered' = FALSE
    BY DEF Unregister
  <1>8. call[t].pc = "Start" /\ call[t].op = "destroy" /\ Held(t) /\ ~Leaves(t)
    BY DEF Unregister, At, Held, HeldPcs, LifeOps, Leaves
  <1>9. c.pc = "TearWalk" /\ c.op = "destroy"
    BY <1>8
  <1>10. InitsApart'
    BY <1>1, <1>7, <1>9 DEF CountOK, InitsApart, Inits, CallStep
  <1>11. sync = t /\ HolderIs'
    BY <1>1, <1>7, <1>8, <1>9, HolderStep DEF CountOK, HolderIs, HeldPcs, LifeOps
  <1>12. HolderCount'
    BY <1>1, <1>7, <1>8, <1>9 DEF CountOK, HolderCount, Held, Inits, CallStep
  <1>13. Leaving' = Leaving
    BY <1>1, <1>8, <1>9, LeavingStep DEF Leaving
  <1>14. Entered' = Entered
    BY <1>1, <1>7, <1>8, <1>9, <1>11 DEF Entered, Inits, CallStep
  <1>15. Counted' /\ Registered' /\ LifeTypeOK'
    BY <1>7, <1>11, <1>13, <1>14, ListAssumption
       DEF CountOK, Counted, Registered, LifeTypeOK
  <1> QED BY <1>6, <1>10, <1>11, <1>12, <1>15 DEF CountOK

LEMMA TearEndKeeps ==
  ASSUME ListOK, CountOK, NEW t \in Threads, TearEnd(t)
  PROVE  ListOK' /\ CountOK'
  <1> DEFINE c == Idle
  <1>0. call[t] \in CallType /\ PlaceOK(call[t]) /\ RootOK(call[t])
    BY DEF ListOK, CallOK, PlacesOK
  <1>1. CallStep(t, c)
    BY DEF ListOK, CallOK, CallStep, TearEnd, Return
  <1>2. c \in CallType
    BY DEF CallType, Pcs, Idle
  <1>3. MemoryOK' /\ OwnerOK'
    BY DEF ListOK, MemoryOK, OwnerOK, TearEnd, memory
  <1>4. PlaceOK(c) /\ RootOK(c)
    BY DEF PlaceOK, RootOK, Ops, LifeOps, Idle
  <1>5. OwnStep(t, c)
    BY <1>0, ListAssumption
       DEF ListOK, OwnStep, OwnersIn, TearEnd, At, Inside, Changing, RootOK
  <1>6. ListOK'
    BY <1>1, <1>2, <1>3, <1>4, <1>5, LocalStep
  <1>7. UNCHANGED <<refCount, registered, users, twice>> /\ sync' = NULL
    BY DEF TearEnd
  <1>8. call[t].pc = "TearWalk" /\ call[t].op = "destroy" /\ Held(t) /\ ~Leaves(t)
    BY <1>0 DEF TearEnd, At, Held, LifeOps, Leaves, PlaceOK
  <1>9. c.pc = "idle" /\ c.op = "none"
    BY DEF Idle
  <1>10. InitsApart'
    BY <1>1, <1>7, <1>9 DEF CountOK, InitsApart, Inits, CallStep
  <1>11. sync = t
    BY <1>8 DEF CountOK, HolderIs
  <1>12. HolderIs'
    BY <1>1, <1>7, <1>9, <1>11, HolderStep, ListAssumption DEF CountOK, LifeOps
  <1>13. HolderCount'
    BY <1>1, <1>7, <1>9
       DEF CountOK, HolderCount, Held, Inits, CallStep, LifeOps
  <1>14. Leaving' = Leaving
    BY <1>1, <1>8, <1>9, LeavingStep DEF Leaving
  <1>15. Entered = 0 /\ Entered' = 0
    BY <1>7, <1>8, <1>11 DEF Entered, Inits
  <1>16. refCount = 0 /\ ~registered
    BY <1>8 DEF CountOK, HolderCount, Inits
  <1>17. Counted' /\ Registered' /\ LifeTypeOK'
    BY <1>7, <1>14, <1>15, <1>16
       DEF CountOK, Counted, Registered, LifeTypeOK
  <1> QED BY <1>6, <1>10, <1>12, <1>13, <1>17 DEF CountOK

LEMMA InitRegisterKeeps ==
  ASSUME ListOK, CountOK, NEW t \in Threads, InitRegister(t)
  PROVE  ListOK' /\ CountOK'
  <1> DEFINE c == Idle
  <1>0. call[t] \in CallType /\ PlaceOK(call[t]) /\ RootOK(call[t])
    BY DEF ListOK, CallOK, PlacesOK
  <1>1. CallStep(t, c)
    BY DEF ListOK, CallOK, CallStep, InitRegister, Return
  <1>2. c \in CallType
    BY DEF CallType, Pcs, Idle
  <1>3. MemoryOK' /\ OwnerOK'
    BY DEF ListOK, MemoryOK, OwnerOK, InitRegister, memory
  <1>4. PlaceOK(c) /\ RootOK(c)
    BY DEF PlaceOK, RootOK, Ops, LifeOps, Idle
  <1>5. OwnStep(t, c)
    BY <1>0, ListAssumption
       DEF ListOK, OwnStep, OwnersIn, InitRegister, At, Inside, Changing, RootOK
  <1>6. ListOK'
    BY <1>1, <1>2, <1>3, <1>4, <1>5, LocalStep
  <1>7. /\ UNCHANGED <<refCount, twice>>
        /\ registered' = TRUE /\ sync' = NULL
        /\ users' = users \cup {call[t].o}
    BY DEF InitRegister
  <1>8. call[t].pc = "Start" /\ Inits(t) /\ Held(t) /\ ~Leaves(t)
    BY DEF InitRegister, At, Inits, Held, HeldPcs, LifeOps, Leaves
  <1>9. c.pc = "idle" /\ c.op = "none"
    BY DEF Idle
  <1>10. InitsApart'
    BY <1>1, <1>7, <1>8, <1>9 DEF CountOK, InitsApart, Inits, CallStep
  <1>11. sync = t /\ refCount = 1 /\ call[t].o \notin users
    BY <1>8 DEF CountOK, HolderIs, HolderCount, InitsApart
  <1>12. HolderIs'
    BY <1>1, <1>7, <1>9, <1>11, HolderStep, ListAssumption DEF CountOK, LifeOps
  <1>13. HolderCount'
    <2>1. \A u \in Threads : ~Held(u)'
      BY <1>7, <1>12, ListAssumption DEF HolderIs
    <2> QED BY <2>1 DEF HolderCount
  <1>14. Leaving' = Leaving
    BY <1>1, <1>8, <1>9, LeavingStep DEF Leaving
  <1>15. Entered = 1 /\ Entered' = 0
    BY <1>7, <1>8, <1>11, ListAssumption DEF Entered
  <1>16. LifeTypeOK' /\ Registered'
    <2>1. call[t].o \in Users
      BY <1>0, <1>8 DEF PlaceOK, Inits
    <2> QED BY <1>7, <1>11, <2>1 DEF CountOK, LifeTypeOK, Registered
  <1>17. Counted'
    <2>1. IsFiniteSet(users') /\ Cardinality(users') = Cardinality(users) + 1
      BY <1>7, <1>11, FS_AddElement DEF CountOK, Counted
    <2>2. Cardinality(users) \in Nat /\ Cardinality(Leaving) \in Nat
      BY FS_CardinalityType DEF CountOK, Counted
    <2>3. ~twice => refCount = Cardinality(users) + Cardinality(Leaving) + 1
      BY <1>15 DEF CountOK, Counted
    <2>4. IsFiniteSet(Leaving)  BY DEF CountOK, Counted
    <2>5. ~twice' =>
            refCount' = Cardinality(users') + Cardinality(Leaving') + Entered'
      BY <1>7, <1>14, <1>15, <2>1, <2>2, <2>3
    <2> QED BY <1>14, <2>1, <2>4, <2>5 DEF Counted
  <1> QED BY <1>6, <1>10, <1>12, <1>13, <1>16, <1>17 DEF CountOK

LEMMA InitCountKeeps ==
  ASSUME ListOK, CountOK, NEW t \in Threads, InitCount(t)
  PROVE  ListOK' /\ CountOK'
  <1> DEFINE c == IF refCount' = 1 THEN [call[t] EXCEPT !.pc = VfsPc] ELSE Idle
  <1>0. call[t] \in CallType /\ PlaceOK(call[t]) /\ RootOK(call[t])
    BY DEF ListOK, CallOK, PlacesOK
  <1>1. CallStep(t, c)
    BY DEF ListOK, CallOK, CallStep, InitCount, Goto, Return
  <1>2. c \in CallType
    BY <1>0 DEF CallType, Pcs, Idle, VfsPc
  <1>3. MemoryOK' /\ OwnerOK'
    BY DEF ListOK, MemoryOK, OwnerOK, InitCount, memory
  <1>4. PlaceOK(c) /\ RootOK(c)
    BY <1>0 DEF InitCount, PlaceOK, RootOK, Ops, LifeOps, HeldPcs, Idle, VfsPc
  <1>5. OwnStep(t, c)
    BY <1>0, ListAssumption
       DEF ListOK, OwnStep, OwnersIn, InitCount, Inside, Changing, RootOK,
           PlaceOK
  <1>6. ListOK'
    BY <1>1, <1>2, <1>3, <1>4, <1>5, LocalStep
  <1>7. /\ UNCHANGED <<registered, twice>>
        /\ sync = NULL /\ refCount' = refCount + 1
        /\ IF refCount' = 1 THEN sync' = t /\ users' = users
           ELSE sync' = NULL /\ users' = users \cup {call[t].o}
    BY DEF InitCount
  <1>8. call[t].pc = "Sync" /\ Inits(t) /\ ~Leaves(t) /\ call[t].o \in Users
    BY <1>0 DEF InitCount, At, Inits, Leaves, PlaceOK
  <1>9. IF refCount' = 1 THEN c.pc \in {"Vfs", "Start"} /\ c.op = "init" /\ c.o = call[t].o
        ELSE c.pc = "idle" /\ c.op = "none"
    BY <1>8 DEF Idle, VfsPc, Inits
  <1>10. InitsApart'
    <2>1. \A u \in Threads \ {t} : call'[u] = call[u]
      BY <1>1 DEF CallStep
    <2>2. Inits(t)' => users' = users /\ call'[t].o = call[t].o
      BY <1>1, <1>7, <1>9 DEF Inits, CallStep
    <2>3. users' \subseteq users \cup {call[t].o}
      BY <1>7
    <2> QED BY <1>8, <2>1, <2>2, <2>3 DEF CountOK, InitsApart, Inits
  <1>11. HolderIs'
    BY <1>1, <1>7, <1>9, HolderStep, ListAssumption
       DEF CountOK, HeldPcs, LifeOps
  <1>12. HolderCount'
    <2>1. \A u \in Threads : Held(u)' => u = t /\ refCount' = 1
      BY <1>7, <1>11, ListAssumption DEF HolderIs
    <2> QED BY <1>1, <1>9, <2>1 DEF HolderCount, Inits, CallStep
  <1>13. Leaving' = Leaving
    BY <1>1, <1>8, <1>9, LeavingStep DEF Leaving
  <1>14. Entered = 0 /\ Entered' = IF refCount' = 1 THEN 1 ELSE 0
    BY <1>1, <1>7, <1>9, ListAssumption DEF Entered, Inits, CallStep
  <1>15. Cardinality(users) \in Nat /\ Cardinality(Leaving) \in Nat
    BY FS_CardinalityType DEF CountOK, Counted
  <1>16. ~twice => refCount = Cardinality(users) + Cardinality(Leaving)
    BY <1>14, <1>15 DEF CountOK, Counted
  <1>17. LifeTypeOK'
    BY <1>7, <1>8 DEF CountOK, LifeTypeOK
  <1>18. Registered'
    BY <1>7, <1>15, <1>16, ListAssumption DEF CountOK, Registered
  <1>19. Counted'
    <2>1. call[t].o \notin users
      BY <1>8 DEF CountOK, InitsApart
    <2>2. /\ IsFiniteSet(users')
          /\ Cardinality(users') = Cardinality(users)
                                     + (IF refCount' = 1 THEN 0 ELSE 1)
      <3>1. IsFiniteSet(users)  BY DEF CountOK, Counted
      <3>2. CASE refCount' = 1  BY <1>7, <1>15, <3>1, <3>2
      <3>3. CASE refCount' # 1
        <4>1. users' = users \cup {call[t].o}  BY <1>7, <3>3
        <4> QED BY <2>1, <3>1, <3>3, <4>1, FS_AddElement
      <3> QED BY <3>2, <3>3
    <2>3. IsFiniteSet(Leaving)  BY DEF CountOK, Counted
    <2>4. ~twice' =>
            refCount' = Cardinality(users') + Cardinality(Leaving') + Entered'
      BY <1>7, <1>13, <1>14, <1>15, <1>16, <2>2
    <2> QED BY <1>13, <2>2, <2>3, <2>4 DEF Counted
  <1> QED BY <1>6, <1>10, <1>11, <1>12, <1>17, <1>18, <1>19 DEF CountOK

LEMMA DestroyCountKeeps ==
  ASSUME ListOK, CountOK, NEW t \in Threads, DestroyCount(t)
  PROVE  ListOK' /\ CountOK'
  <1> DEFINE c == IF refCount' = 0 THEN [call[t] EXCEPT !.pc = VfsPc] ELSE Idle
  <1>0. call[t] \in CallType /\ PlaceOK(call[t]) /\ RootOK(call[t])
    BY DEF ListOK, CallOK, PlacesOK
  <1>1. CallStep(t, c)
    BY DEF ListOK, CallOK, CallStep, DestroyCount, Goto, Return
  <1>2. c \in CallType
    BY <1>0 DEF CallType, Pcs, Idle, VfsPc
  <1>3. MemoryOK' /\ OwnerOK'
    BY DEF ListOK, MemoryOK, OwnerOK, DestroyCount, memory
  <1>4. PlaceOK(c) /\ RootOK(c)
    BY <1>0
       DEF DestroyCount, At, PlaceOK, RootOK, Ops, LifeOps, HeldPcs, Idle, VfsPc
  <1>5. OwnStep(t, c)
    BY <1>0, ListAssumption
       DEF ListOK, OwnStep, OwnersIn, DestroyCount, At, Inside, Changing,
           RootOK
  <1>6. ListOK'
    BY <1>1, <1>2, <1>3, <1>4, <1>5, LocalStep
  <1>7. /\ UNCHANGED <<registered, users, twice>>
        /\ sync = NULL /\ refCount' = refCount - 1
        /\ sync' = IF refCount' = 0 THEN t ELSE NULL
    BY DEF DestroyCount
  <1>8. call[t].pc = "Sync" /\ call[t].op = "destroy" /\ Leaves(t)
    BY DEF DestroyCount, At, Leaves
  <1>9. IF refCount' = 0 THEN c.pc \in {"Vfs", "Start"} /\ c.op = "destroy"
        ELSE c.pc = "idle" /\ c.op = "none"
    BY <1>8 DEF Idle, VfsPc
  <1>10. InitsApart'
    BY <1>1, <1>7, <1>9 DEF CountOK, InitsApart, Inits, CallStep
  <1>11. HolderIs'
    BY <1>1, <1>7, <1>9, HolderStep, ListAssumption
       DEF CountOK, HeldPcs, LifeOps
  <1>12. HolderCount'
    <2>1. \A u \in Threads : Held(u)' => u = t /\ refCount' = 0
      BY <1>7, <1>11, ListAssumption DEF HolderIs
    <2> QED BY <1>1, <1>9, <2>1 DEF HolderCount, Inits, CallStep
  <1>13. Leaving' = Leaving \ {t} /\ t \in Leaving
    BY <1>1, <1>8, <1>9, LeavingStep DEF Leaving
  <1>14. Entered = 0 /\ Entered' = 0
    BY <1>1, <1>7, <1>9 DEF Entered, Inits, CallStep
  <1>15. /\ Cardinality(users) \in Nat /\ Cardinality(Leaving') \in Nat
         /\ IsFiniteSet(Leaving')
         /\ Cardinality(Leaving) = Cardinality(Leaving') + 1
    <2>1. /\ IsFiniteSet(Leaving')
          /\ Cardinality(Leaving') = Cardinality(Leaving) - 1
      BY <1>13, FS_RemoveElement DEF CountOK, Counted
    <2>2. /\ Cardinality(users) \in Nat /\ Cardinality(Leaving) \in Nat
          /\ Cardinality(Leaving') \in Nat
      BY <2>1, FS_CardinalityType DEF CountOK, Counted
    <2> QED BY <2>1, <2>2
  <1>16. ~twice => refCount = Cardinality(users) + Cardinality(Leaving') + 1
    BY <1>14, <1>15 DEF CountOK, Counted
  <1>17. LifeTypeOK'
    BY <1>7 DEF CountOK, LifeTypeOK
  <1>18. Registered'
    BY <1>7, <1>15, <1>16, ListAssumption DEF CountOK, Registered
  <1>19. Counted'
    <2>1. ~twice' =>
            refCount' = Cardinality(users') + Cardinality(Leaving') + Entered'
      BY <1>7, <1>14, <1>15, <1>16
    <2> QED BY <1>7, <1>15, <2>1 DEF CountOK, Counted
  <1> QED BY <1>6, <1>10, <1>11, <1>12, <1>17, <1>18, <1>19 DEF CountOK
-------------------------------------------------------------------------------
LEMMA TypesOfParts == TypeOK <=>
    /\ MemoryOK /\ CallOK /\ OwnerOK /\ OwnersIn
    /\ SeenOK /\ LifeTypeOK
  BY DEF TypeOK, ListTypeOK, MemoryOK, CallOK, CallType, OwnerOK, OwnersIn,
         Inside, SeenOK, LifeTypeOK

LEMMA InitIInv == Init => IInv
  <1> SUFFICES ASSUME Init  PROVE IInv
    OBVIOUS
  <1>1. /\ \A t \in Threads : call[t] = Idle
        /\ \A t \in Threads : ~Held(t) /\ ~Inits(t) /\ ~Leaves(t)
    BY DEF Init, ListInit, Idle, Held, Inits, Leaves, LifeOps
  <1>2. MemoryOK /\ OwnerOK /\ OwnersIn
    BY DEF Init, ListInit, MemoryOK, OwnerOK, OwnersIn
  <1>3. CallOK
    BY DEF Init, ListInit, CallOK, CallType, Idle, Pcs
  <1>4. PlacesOK
    BY <1>1 DEF PlacesOK, PlaceOK, RootOK, Idle, LifeOps, Ops
  <1>5. SeenOK
    BY DEF Init, ListInit, SeenOK
  <1>6. Leaving = {} /\ users = {} /\ Cardinality({}) = 0 /\ IsFiniteSet({})
    BY <1>1, FS_EmptySet DEF Init, Leaving
  <1>7. CountOK
    <2>1. LifeTypeOK
      <3>1. refCount = 0 /\ registered = FALSE /\ sync = NULL /\ users = {}
            /\ twice = FALSE
        BY DEF Init
      <3>2. users \subseteq Users  BY ONLY <3>1
      <3>3. registered \in BOOLEAN /\ twice \in BOOLEAN  BY ONLY <3>1
      <3>4. refCount \in Int /\ sync \in Threads \cup {NULL}  BY ONLY <3>1
      <3> QED BY <3>2, <3>3, <3>4 DEF LifeTypeOK
    <2>2. InitsApart /\ HolderCount  BY <1>1 DEF InitsApart, HolderCount
    <2>3. HolderIs  BY <1>1, ListAssumption DEF Init, HolderIs
    <2>4. Counted  BY <1>6 DEF Init, Counted, Entered
    <2>5. Registered  BY DEF Init, Registered
    <2> QED BY <2>1, <2>2, <2>3, <2>4, <2>5 DEF CountOK
  <1> QED BY <1>2, <1>3, <1>4, <1>5, <1>7 DEF IInv, ListOK

LEMMA ObserveKeeps ==
  ASSUME SeenOK, Observe
  PROVE  SeenOK'
  BY DEF SeenOK, Observe

LEMMA NextIInv == IInv /\ [Next]_vars => IInv'
  <1> SUFFICES ASSUME IInv, [Next]_vars  PROVE IInv'
    OBVIOUS
  <1> USE DEF IInv
  <1>1. CASE ListNext /\ Observe
    <2>1. ListOK' /\ StagesKept
      <3>1. PICK t \in Threads :
              ListStep(t) \/ \E op \in Ops, o \in Names : Begin(t, op, o)
        BY <1>1 DEF ListNext
      <3> QED BY <3>1, ListStepKeeps, BeginKeeps
    <2>2. CountOK'
      BY <1>1, <2>1, StagesKeepCount DEF ListNext
    <2> QED BY <1>1, <2>1, <2>2, ObserveKeeps
  <1>2. ASSUME NEW t \in Threads, LifeStep(t), Observe  PROVE IInv'
    <2>1. ListOK' /\ CountOK'
      BY <1>2, InitCountKeeps, InitRegisterKeeps, DisposeSetKeeps,
         DestroyCountKeeps, UnregisterKeeps, TearBeginKeeps, TearEndKeeps
      DEF LifeStep
    <2> QED BY <1>2, <2>1, ObserveKeeps
  <1>3. ASSUME NEW t \in Threads, NEW m \in Users, New(t, m) \/ DisposeTest(t, m),
               Observe
        PROVE IInv'
    <2>1. ListOK' /\ CountOK'
      BY <1>3, NewKeeps, DisposeTestKeeps
    <2> QED BY <1>3, <2>1, ObserveKeeps
  <1>4. CASE UNCHANGED vars
    <2>1. ListOK' /\ SeenOK' /\ StagesKept
      BY <1>4 DEF vars, listVars, memory, ListOK, MemoryOK, CallOK, PlacesOK,
                  OwnerOK, OwnersIn, SeenOK, StagesKept, SameStage
    <2>2. CountOK'
      BY <1>4, <2>1, StagesKeepCount DEF vars
    <2> QED BY <2>1, <2>2
  <1> QED BY <1>1, <1>2, <1>3, <1>4 DEF Next

LEMMA SpecIInv == Spec => []IInv
  BY InitIInv, NextIInv, PTL DEF Spec

(* TypeOK: every variable keeps its type, and a thread that is in the      *)
(* critical section of a list is in a call that leaves it (xOpen's early   *)
(* returns, add_link, del_link).                                           *)
THEOREM TypeCorrect == Spec => []TypeOK
  <1>1. IInv => TypeOK
    BY TypesOfParts DEF IInv, ListOK, CountOK
  <1> QED BY <1>1, SpecIInv, PTL

(* CountsUsers: while nobody is inside memfs_init or memfs_destroy, the    *)
(* count is that of the objects which have not given theirs up, and the    *)
(* VFS is registered exactly while there is one, unless an object was      *)
(* disposed of twice.                                                      *)
THEOREM CountsUsersTheorem == Spec => []CountsUsers
  <1>1. IInv => CountsUsers
    <2> SUFFICES ASSUME IInv, sync = NULL, ~twice  PROVE CountsUsers
      BY DEF CountsUsers
    <2>1. Entered = 0  BY DEF Entered
    <2>2. Leaving = {t \in Threads : call[t].pc = "Sync" /\ call[t].op = "destroy"}
      BY DEF Leaving, Leaves
    <2>3. Cardinality(users) \in Nat /\ Cardinality(Leaving) \in Nat
      BY FS_CardinalityType DEF IInv, CountOK, Counted
    <2>4. refCount = Cardinality(users) + Cardinality(Leaving)
      BY <2>1, <2>3 DEF IInv, CountOK, Counted
    <2>5. registered <=> refCount > 0
      BY DEF IInv, CountOK, Registered
    <2> QED BY <2>2, <2>4, <2>5 DEF CountsUsers
  <1> QED BY <1>1, SpecIInv, PTL

===============================================================================
