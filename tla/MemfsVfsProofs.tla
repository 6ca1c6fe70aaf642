----------------------------- MODULE MemfsVfsProofs -----------------------------
(***************************************************************************)
(* Proofs about MemfsVfs for any number of threads, handles, names and     *)
(* addresses, and any way in which SQLite opens, closes and deletes.       *)
(*                                                                         *)
(* UniqueNames speaks of files that are listed.  Between its second search *)
(* and the link of the new file xOpen knows that its name is not there:    *)
(* the inductive invariant keeps that (NameIsFree) for the thread in the   *)
(* critical section, and that there is one such thread (MutexOwner).       *)
(* NameIsFree survives the others because nobody else can link a file and  *)
(* nobody renames one.                                                     *)
(*                                                                         *)
(* The second half is about programs whose deletions meet no call they     *)
(* could harm: Safe, who has which file in hand, and Count, that nRef is   *)
(* the number of the handles that have counted themselves, each of which   *)
(* needs the other.                                                        *)
(***************************************************************************)
EXTENDS MemfsVfs, MemfsLemmas, FiniteSetTheorems

(* The inductive invariant                                                 *)

(* Where a call is that has its handle at the references of a file, that   *)
(* has a file in the handle's pData, and that has one in its own hands.    *)
Pcs     == {"idle"} \cup OpenPcs \cup ClosePcs \cup DeletePcs \cup UnloadPcs
RefPcs  == {"OpenRead", "OpenWrite", "Link", "Undo"} \cup ClosePcs
FilePcs == {"Init"} \cup RefPcs
HandPcs == {"Destroy", "UnloadAssert", "UnloadDestroy"}

CallType ==
  [pc : Pcs, h : Handles \cup {None}, n : Names \cup {None},
   f : Files \cup {None}, tmp : Int]

ListedOK == listed \in Seq(Files)
MutexOK  == mutex \in Threads \cup {None}
FilesOK ==
  /\ live \in SUBSET Files
  /\ name \in [Files -> Names \cup {None}]
  /\ nRef \in [Files -> Int]
  /\ refs \in [Files -> SUBSET Handles]
HandlesOK ==
  /\ pData  \in [Handles -> Files \cup {None}]
  /\ handle \in [Handles -> {"closed", "open", "failed"}]
CallOK   == call \in [Threads -> CallType]
StatusOK == status \in {"running", "assert", "undefined"}
HistoryOK == lost \in SUBSET Files /\ unsafe \in BOOLEAN

(* A call on a handle has one, and a call that may make a file a name.     *)
PlaceOK(c) ==
  /\ c.pc \in OpenPcs \cup ClosePcs => c.h \in Handles
  /\ c.pc \in OpenPcs => c.n \in Names

PlacesOK == \A t \in Threads : PlaceOK(call[t])

(* SQLite makes one call at a time on a handle.                            *)
HandlesApart ==
  \A t, u \in Threads : t # u /\ call[t].h = call[u].h => call[t].h = None

HasFile ==
  \A t \in Threads : call[t].pc \in FilePcs => pData[call[t].h] \in Files

NameIsFree ==
  \A t \in Threads : call[t].pc \in {"Create", "Init"} =>
    \A f \in Range(listed) \cap live : name[f] # call[t].n

IInv ==
  /\ ListedOK /\ MutexOK /\ FilesOK /\ HandlesOK /\ CallOK /\ StatusOK
  /\ HistoryOK
  /\ PlacesOK /\ HandlesApart /\ HasFile
  /\ MutexOwner /\ NameIsFree /\ UniqueNames /\ NoLeak
-------------------------------------------------------------------------------
(* What most steps have in common                                          *)

CallStep(t, c) ==
  /\ call' = [u \in Threads |-> call'[u]]
  /\ call'[t] = c
  /\ \A u \in Threads \ {t} : call'[u] = call[u]

(* No file is added to the list or renamed.                                *)
NoNewFile ==
  /\ Range(listed') \subseteq Range(listed) /\ live' \subseteq live
  /\ \A f \in live' : name'[f] = name[f]

LEMMA GotoStep ==
  ASSUME CallOK, NEW t \in Threads, NEW pc, Goto(t, pc)
  PROVE  CallStep(t, [call[t] EXCEPT !.pc = pc])
  BY DEF CallOK, Goto, CallStep

LEMMA ReturnStep ==
  ASSUME CallOK, NEW t \in Threads, Return(t)
  PROVE  CallStep(t, Idle)
  BY DEF CallOK, Return, CallStep

LEMMA IdleOK ==
  /\ Idle \in CallType /\ PlaceOK(Idle)
  /\ Idle.pc = "idle" /\ Idle.h = None /\ Idle.n = None
  BY DEF Idle, CallType, PlaceOK, Pcs, OpenPcs, ClosePcs

(* The call of t alone moves on; its handle is its own.                    *)
LEMMA CallsKeep ==
  ASSUME IInv, NEW t \in Threads, NEW c \in CallType, CallStep(t, c), PlaceOK(c),
         c.h \in {None, call[t].h} \/ ~InCall(c.h),
         \A h \in Handles : pData'[h] = pData[h] \/ h = call[t].h \/ ~InCall(h),
         c.pc \in FilePcs => pData'[c.h] \in Files
  PROVE  CallOK' /\ PlacesOK' /\ HandlesApart' /\ HasFile'
  <1>1. CallOK'  BY DEF CallStep, CallOK, IInv
  <1>2. PlacesOK'  BY DEF CallStep, PlacesOK, IInv
  <1>3. HandlesApart'
    BY DEF CallStep, HandlesApart, IInv, InCall
  <1>4. HasFile'
    <2>1. ASSUME NEW u \in Threads \ {t}, call[u].pc \in FilePcs
          PROVE  pData'[call[u].h] \in Files
      <3>1. call[u].h \in Handles
        BY <2>1 DEF IInv, PlacesOK, PlaceOK, FilePcs, RefPcs, OpenPcs
      <3>2. call[u].h # call[t].h
        BY <3>1, VfsAssumption DEF IInv, HandlesApart
      <3>3. pData'[call[u].h] = pData[call[u].h]
        BY <3>1, <3>2 DEF InCall
      <3> QED BY <2>1, <3>3 DEF IInv, HasFile
    <2> QED BY <2>1 DEF HasFile, CallStep
  <1> QED BY <1>1, <1>2, <1>3, <1>4

LEMMA MutexKeeps ==
  ASSUME IInv, NEW t \in Threads, NEW c, CallStep(t, c),
         c.pc \in {"Recheck", "Create", "Init"} <=> mutex' = t,
         \A u \in Threads \ {t} : mutex' = u <=> mutex = u
  PROVE  MutexOwner'
  BY DEF IInv, MutexOwner, CallStep

LEMMA NamesKeep ==
  ASSUME IInv, NEW t \in Threads, NEW c, CallStep(t, c), NoNewFile,
         c.pc \in {"Create", "Init"} =>
           \A f \in Range(listed) \cap live : name[f] # c.n
  PROVE  NameIsFree' /\ UniqueNames'
  <1>2. UniqueNames'
    BY DEF IInv, UniqueNames, NoNewFile
  <1>3. NameIsFree'
    BY DEF IInv, NameIsFree, NoNewFile, CallStep
  <1> QED BY <1>2, <1>3

(* Who has a file in hand gives it back to the list, frees it or keeps it. *)
LEMMA LeakKeeps ==
  ASSUME IInv, NEW t \in Threads, NEW c, CallStep(t, c), live' \subseteq live,
         \A h \in Handles : pData'[h] = pData[h] \/ h = call[t].h \/ ~InCall(h),
         Range(listed) \subseteq Range(listed') \cup {f \in {c.f} : c.pc \in HandPcs},
         call[t].pc \in HandPcs =>
           call[t].f \notin live' \/ (c.pc \in HandPcs /\ c.f = call[t].f),
         call[t].pc = "Init" => pData[call[t].h] \notin live' \ Range(listed')
  PROVE  NoLeak'
  <1> SUFFICES ASSUME NEW f \in live', f \notin Range(listed')
               PROVE  f \in (Made \cup Deleted)'
    BY DEF NoLeak
  <1>1. CASE f \in Range(listed)
    BY <1>1 DEF Deleted, CallStep, HandPcs
  <1>2. CASE f \in Deleted
    <2>1. PICK u \in Threads : call[u].pc \in HandPcs /\ call[u].f = f
      BY <1>2 DEF Deleted, HandPcs
    <2> QED BY <2>1 DEF Deleted, CallStep, HandPcs
  <1>3. CASE f \in Made
    <2>1. PICK u \in Threads : call[u].pc = "Init" /\ pData[call[u].h] = f
      BY <1>3 DEF Made
    <2>2. u # t
      BY <2>1
    <2>3. call[u].h \in Handles /\ call[u].h # call[t].h
      BY <2>1, <2>2, VfsAssumption
         DEF IInv, PlacesOK, PlaceOK, OpenPcs, HandlesApart
    <2>4. pData'[call[u].h] = f /\ call'[u] = call[u]
      BY <2>1, <2>2, <2>3 DEF InCall, CallStep
    <2> QED BY <2>1, <2>4 DEF Made
  <1> QED BY <1>1, <1>2, <1>3 DEF IInv, NoLeak

LEMMA StopKeeps ==
  ASSUME IInv, NEW how \in {"assert", "undefined"}, Stop(how)
  PROVE  IInv'
  <1>1. UNCHANGED <<listed, mutex, live, name, nRef, refs, pData, handle, call,
                    lost, unsafe>>
        /\ StatusOK'
    BY DEF Stop, fileVars, StatusOK
  <1> QED
    BY <1>1 DEF IInv, ListedOK, MutexOK, FilesOK, HandlesOK, CallOK, HistoryOK,
                PlacesOK, HandlesApart, HasFile, MutexOwner, NameIsFree,
                UniqueNames, NoLeak, Made, Deleted

(* What a search finds.                                                    *)
LEMMA FindType ==
  ASSUME ListedOK, NEW n
  PROVE  Find(n) \in Files \cup {None}
  <1> DEFINE I == {i \in 1 .. Len(listed) : name[listed[i]] = n}
             k == IF I # {} THEN Min(I) ELSE 0
  <1>1. Find(n) = IF k = 0 THEN None ELSE listed[k]
    BY DEF Find, SelectInSeq
  <1>2. I \subseteq 1 .. Len(listed)  OBVIOUS
  <1> HIDE DEF I
  <1>3. k = 0 \/ (k # 0 /\ listed[k] \in Files)
    BY <1>2, FirstFound DEF ListedOK
  <1> QED BY <1>1, <1>3

LEMMA NothingFound ==
  ASSUME ListedOK, NEW n, Find(n) = None
  PROVE  \A f \in Range(listed) : name[f] # n
  <1> DEFINE I == {i \in 1 .. Len(listed) : name[listed[i]] = n}
             k == IF I # {} THEN Min(I) ELSE 0
  <1>1. Find(n) = IF k = 0 THEN None ELSE listed[k]
    BY DEF Find, SelectInSeq
  <1>2. I \subseteq 1 .. Len(listed)  OBVIOUS
  <1>3. k = 0 /\ I = {}
    <2> HIDE DEF I
    <2>1. (k = 0 /\ I = {}) \/ (k # 0 /\ listed[k] \in Files)
      BY <1>2, FirstFound DEF ListedOK
    <2>2. None \notin Files  BY VfsAssumption
    <2> QED BY <1>1, <2>1, <2>2
  <1> QED BY <1>3 DEF Range

-------------------------------------------------------------------------------
(* The steps, one by one                                                   *)

LEMMA OpenEnterKeeps ==
  ASSUME IInv, NEW t \in Threads, OpenEnter(t)
  PROVE  IInv'
  <1> DEFINE c == [call[t] EXCEPT !.pc = "Recheck"]
  <1>0. call[t] \in CallType /\ PlaceOK(call[t])
    BY DEF IInv, CallOK, PlacesOK
  <1>1. CallStep(t, c)
    BY DEF IInv, CallOK, CallStep, OpenEnter, Goto
  <1>2. c \in CallType /\ PlaceOK(c)
    BY <1>0 DEF OpenEnter, At, CallType, PlaceOK, Pcs, OpenPcs
  <1>3. ListedOK' /\ MutexOK' /\ FilesOK' /\ HandlesOK' /\ StatusOK' /\ HistoryOK'
    BY DEF OpenEnter, IInv, ListedOK, MutexOK, FilesOK, HandlesOK, StatusOK,
           HistoryOK, fileVars
  <1>4. CallOK' /\ PlacesOK' /\ HandlesApart' /\ HasFile'
    BY <1>1, <1>2, CallsKeep DEF OpenEnter, CallType, FilePcs, RefPcs, ClosePcs
  <1>5. MutexOwner'
    BY <1>0, <1>1, MutexKeeps, VfsAssumption DEF OpenEnter, CallType
  <1>6. NameIsFree' /\ UniqueNames'
    BY <1>0, <1>1, NamesKeep DEF OpenEnter, fileVars, CallType, NoNewFile
  <1>7. NoLeak'
    BY <1>1, LeakKeeps DEF HandPcs, OpenEnter, At, fileVars
  <1> QED BY <1>3, <1>4, <1>5, <1>6, <1>7 DEF IInv

LEMMA OpenAllocFailsKeeps ==
  ASSUME IInv, NEW t \in Threads, OpenAllocFails(t)
  PROVE  IInv'
  <1> DEFINE c == Idle
  <1>1. CallStep(t, c)
    BY DEF IInv, CallOK, CallStep, OpenAllocFails, Return
  <1>3. ListedOK' /\ MutexOK' /\ FilesOK' /\ HandlesOK' /\ StatusOK' /\ HistoryOK'
    BY DEF OpenAllocFails, IInv, ListedOK, MutexOK, FilesOK, HandlesOK,
           StatusOK, HistoryOK, fileVars
  <1>4. CallOK' /\ PlacesOK' /\ HandlesApart' /\ HasFile'
    BY <1>1, IdleOK, CallsKeep DEF OpenAllocFails, FilePcs, RefPcs, ClosePcs
  <1>5. MutexOwner'
    BY <1>1, IdleOK, MutexKeeps, VfsAssumption
       DEF OpenAllocFails, At, IInv, MutexOwner
  <1>6. NameIsFree' /\ UniqueNames'
    BY <1>1, IdleOK, NamesKeep DEF OpenAllocFails, fileVars, NoNewFile
  <1>7. NoLeak'
    BY <1>1, LeakKeeps DEF HandPcs, OpenAllocFails, At, fileVars
  <1> QED BY <1>3, <1>4, <1>5, <1>6, <1>7 DEF IInv

LEMMA OpenLinkFailsKeeps ==
  ASSUME IInv, NEW t \in Threads, OpenLinkFails(t)
  PROVE  IInv'
  <1> DEFINE c == [call[t] EXCEPT !.pc = "Undo"]
  <1>0. call[t] \in CallType /\ PlaceOK(call[t])
    BY DEF IInv, CallOK, PlacesOK
  <1>1. CallStep(t, c)
    BY DEF IInv, CallOK, CallStep, OpenLinkFails, Goto
  <1>2. c \in CallType /\ PlaceOK(c)
    BY <1>0 DEF OpenLinkFails, At, CallType, PlaceOK, Pcs, OpenPcs
  <1>3. ListedOK' /\ MutexOK' /\ FilesOK' /\ HandlesOK' /\ StatusOK' /\ HistoryOK'
    BY DEF OpenLinkFails, IInv, ListedOK, MutexOK, FilesOK, HandlesOK,
           StatusOK, HistoryOK, fileVars
  <1>4. CallOK' /\ PlacesOK' /\ HandlesApart' /\ HasFile'
    BY <1>1, <1>2, CallsKeep
       DEF OpenLinkFails, At, CallType, FilePcs, RefPcs, IInv, HasFile
  <1>5. MutexOwner'
    BY <1>0, <1>1, MutexKeeps DEF OpenLinkFails, At, CallType, IInv, MutexOwner
  <1>6. NameIsFree' /\ UniqueNames'
    BY <1>0, <1>1, NamesKeep DEF OpenLinkFails, fileVars, CallType, NoNewFile
  <1>7. NoLeak'
    BY <1>1, LeakKeeps DEF HandPcs, OpenLinkFails, At, fileVars
  <1> QED BY <1>3, <1>4, <1>5, <1>6, <1>7 DEF IInv

LEMMA OpenReadRefKeeps ==
  ASSUME IInv, NEW t \in Threads, OpenReadRef(t)
  PROVE  IInv'
  <1> DEFINE c == [call[t] EXCEPT !.pc = "OpenWrite", !.tmp = nRef[pData[call[t].h]]]
             Effect ==
               /\ pData[call[t].h] \in live
               /\ call' = [call EXCEPT ![t].pc = "OpenWrite", ![t].tmp = nRef[pData[call[t].h]]]
               /\ UNCHANGED <<listed, mutex, fileVars, pData, handle, status, lost, unsafe>>
  <1>0. call[t] \in CallType /\ PlaceOK(call[t])
    BY DEF IInv, CallOK, PlacesOK
  <1>s. CASE \E how \in {"assert", "undefined"} : Stop(how)
    BY <1>s, StopKeeps
  <1>g. CASE Effect
    <2>1. CallStep(t, c)
      BY <1>g DEF IInv, CallOK, CallStep
    <2>2. c \in CallType /\ PlaceOK(c)
      BY <1>0, <1>g
         DEF OpenReadRef, At, IInv, FilesOK, CallType, PlaceOK, Pcs, OpenPcs
    <2>3. ListedOK' /\ MutexOK' /\ FilesOK' /\ HandlesOK' /\ StatusOK' /\ HistoryOK'
      BY <1>g
         DEF IInv, ListedOK, MutexOK, FilesOK, HandlesOK, StatusOK, HistoryOK,
             fileVars
    <2>4. CallOK' /\ PlacesOK' /\ HandlesApart' /\ HasFile'
      BY <1>g, <2>1, <2>2, CallsKeep DEF CallType, IInv, FilesOK
    <2>5. MutexOwner'
      BY <1>0, <1>g, <2>1, MutexKeeps
         DEF OpenReadRef, At, CallType, IInv, MutexOwner
    <2>6. NameIsFree' /\ UniqueNames'
      BY <1>0, <1>g, <2>1, NamesKeep DEF fileVars, CallType, NoNewFile
    <2>7. NoLeak'
      BY <1>g, <2>1, LeakKeeps DEF HandPcs, OpenReadRef, At, fileVars
    <2> QED BY <2>3, <2>4, <2>5, <2>6, <2>7 DEF IInv
  <1> QED BY <1>s, <1>g DEF OpenReadRef, Undefined

LEMMA OpenWriteRefKeeps ==
  ASSUME IInv, NEW t \in Threads, OpenWriteRef(t)
  PROVE  IInv'
  <1> DEFINE c == [call[t] EXCEPT !.pc = "Link", !.tmp = 0]
             Effect ==
               /\ pData[call[t].h] \in live
               /\ nRef' = [nRef EXCEPT ![pData[call[t].h]] = call[t].tmp + 1]
               /\ Overwrites(t, pData[call[t].h])
               /\ call' = [call EXCEPT ![t].pc = "Link", ![t].tmp = 0]
               /\ UNCHANGED <<listed, mutex, live, name, refs, pData, handle, status, unsafe>>
  <1>0. call[t] \in CallType /\ PlaceOK(call[t])
    BY DEF IInv, CallOK, PlacesOK
  <1>s. CASE \E how \in {"assert", "undefined"} : Stop(how)
    BY <1>s, StopKeeps
  <1>g. CASE Effect
    <2>1. CallStep(t, c)
      BY <1>g DEF IInv, CallOK, CallStep
    <2>2. c \in CallType /\ PlaceOK(c)
      BY <1>0, IdleOK
         DEF OpenWriteRef, At, CallType, PlaceOK, Pcs, OpenPcs, Idle
    <2>3. ListedOK' /\ MutexOK' /\ FilesOK' /\ HandlesOK' /\ StatusOK' /\ HistoryOK'
      BY <1>0, <1>g
         DEF IInv, ListedOK, MutexOK, FilesOK, HandlesOK, StatusOK, HistoryOK,
             CallType, Overwrites
    <2>4. CallOK' /\ PlacesOK' /\ HandlesApart' /\ HasFile'
      BY <1>g, <2>1, <2>2, CallsKeep DEF CallType, IInv, FilesOK
    <2>5. MutexOwner'
      BY <1>0, <1>g, <2>1, MutexKeeps
         DEF OpenWriteRef, At, CallType, IInv, MutexOwner
    <2>6. NameIsFree' /\ UniqueNames'
      BY <1>0, <1>g, <2>1, NamesKeep DEF CallType, NoNewFile
    <2>7. NoLeak'
      BY <1>g, <2>1, LeakKeeps DEF HandPcs, OpenWriteRef, At
    <2> QED BY <2>3, <2>4, <2>5, <2>6, <2>7 DEF IInv
  <1> QED BY <1>s, <1>g DEF OpenWriteRef, Undefined

LEMMA OpenLinkKeeps ==
  ASSUME IInv, NEW t \in Threads, OpenLink(t)
  PROVE  IInv'
  <1> DEFINE c == Idle
             Effect ==
               /\ pData[call[t].h] \in live
               /\ refs' = [refs EXCEPT ![pData[call[t].h]] = @ \cup {call[t].h}]
               /\ handle' = [handle EXCEPT ![call[t].h] = "open"]
               /\ Return(t)
               /\ UNCHANGED <<listed, mutex, live, name, nRef, pData, status, lost, unsafe>>
  <1>0. call[t] \in CallType /\ PlaceOK(call[t])
    BY DEF IInv, CallOK, PlacesOK
  <1>s. CASE \E how \in {"assert", "undefined"} : Stop(how)
    BY <1>s, StopKeeps
  <1>g. CASE Effect
    <2>1. CallStep(t, c)
      BY <1>g DEF IInv, CallOK, CallStep, Return
    <2>3. ListedOK' /\ MutexOK' /\ FilesOK' /\ HandlesOK' /\ StatusOK' /\ HistoryOK'
      BY <1>0, <1>g
         DEF OpenLink, At, IInv, ListedOK, MutexOK, FilesOK, HandlesOK,
             StatusOK, HistoryOK, PlaceOK, OpenPcs
    <2>4. CallOK' /\ PlacesOK' /\ HandlesApart' /\ HasFile'
      BY <1>g, <2>1, IdleOK, CallsKeep DEF FilePcs, RefPcs, ClosePcs
    <2>5. MutexOwner'
      BY <1>g, <2>1, MutexKeeps DEF OpenLink, At, IInv, MutexOwner, Idle
    <2>6. NameIsFree' /\ UniqueNames'
      BY <1>g, <2>1, NamesKeep DEF NoNewFile, Idle
    <2>7. NoLeak'
      BY <1>g, <2>1, LeakKeeps DEF HandPcs, OpenLink, At
    <2> QED BY <2>3, <2>4, <2>5, <2>6, <2>7 DEF IInv
  <1> QED BY <1>s, <1>g DEF OpenLink, Undefined

LEMMA OpenUndoKeeps ==
  ASSUME IInv, NEW t \in Threads, OpenUndo(t)
  PROVE  IInv'
  <1> DEFINE c == Idle
             Effect ==
               /\ Destroy(pData[call[t].h])
               /\ handle' = [handle EXCEPT ![call[t].h] = "failed"]
               /\ Return(t)
               /\ UNCHANGED <<listed, mutex, pData, status, unsafe>>
  <1>0. call[t] \in CallType /\ PlaceOK(call[t])
    BY DEF IInv, CallOK, PlacesOK
  <1>s. CASE \E how \in {"assert", "undefined"} : Stop(how)
    BY <1>s, StopKeeps
  <1>g. CASE Effect
    <2>1. CallStep(t, c)
      BY <1>g DEF IInv, CallOK, CallStep, Return
    <2>3. ListedOK' /\ MutexOK' /\ FilesOK' /\ HandlesOK' /\ StatusOK' /\ HistoryOK'
      BY <1>0, <1>g
         DEF OpenUndo, At, IInv, ListedOK, MutexOK, FilesOK, HandlesOK,
             StatusOK, HistoryOK, PlaceOK, OpenPcs, Destroy
    <2>4. CallOK' /\ PlacesOK' /\ HandlesApart' /\ HasFile'
      BY <1>g, <2>1, IdleOK, CallsKeep DEF FilePcs, RefPcs, ClosePcs
    <2>5. MutexOwner'
      BY <1>g, <2>1, MutexKeeps DEF OpenUndo, At, IInv, MutexOwner, Idle
    <2>6. NameIsFree' /\ UniqueNames'
      BY <1>g, <2>1, NamesKeep DEF NoNewFile, Destroy, Idle
    <2>7. NoLeak'
      BY <1>g, <2>1, LeakKeeps DEF HandPcs, OpenUndo, At, Destroy
    <2> QED BY <2>3, <2>4, <2>5, <2>6, <2>7 DEF IInv
  <1> QED BY <1>s, <1>g DEF OpenUndo, Undefined, DestroyStops

LEMMA CloseWriteRefKeeps ==
  ASSUME IInv, NEW t \in Threads, CloseWriteRef(t)
  PROVE  IInv'
  <1> DEFINE c == [call[t] EXCEPT !.pc = "Unlink", !.tmp = 0]
             Effect ==
               /\ pData[call[t].h] \in live
               /\ nRef' = [nRef EXCEPT ![pData[call[t].h]] = call[t].tmp - 1]
               /\ Overwrites(t, pData[call[t].h])
               /\ call' = [call EXCEPT ![t].pc = "Unlink", ![t].tmp = 0]
               /\ UNCHANGED <<listed, mutex, live, name, refs, pData, handle, status, unsafe>>
  <1>0. call[t] \in CallType /\ PlaceOK(call[t])
    BY DEF IInv, CallOK, PlacesOK
  <1>s. CASE \E how \in {"assert", "undefined"} : Stop(how)
    BY <1>s, StopKeeps
  <1>g. CASE Effect
    <2>1. CallStep(t, c)
      BY <1>g DEF IInv, CallOK, CallStep
    <2>2. c \in CallType /\ PlaceOK(c)
      BY <1>0, IdleOK
         DEF CloseWriteRef, At, CallType, PlaceOK, Pcs, OpenPcs, ClosePcs, Idle
    <2>3. ListedOK' /\ MutexOK' /\ FilesOK' /\ HandlesOK' /\ StatusOK' /\ HistoryOK'
      BY <1>0, <1>g
         DEF IInv, ListedOK, MutexOK, FilesOK, HandlesOK, StatusOK, HistoryOK,
             CallType, Overwrites
    <2>4. CallOK' /\ PlacesOK' /\ HandlesApart' /\ HasFile'
      BY <1>g, <2>1, <2>2, CallsKeep DEF CallType, IInv, FilesOK
    <2>5. MutexOwner'
      BY <1>0, <1>g, <2>1, MutexKeeps
         DEF CloseWriteRef, At, CallType, IInv, MutexOwner
    <2>6. NameIsFree' /\ UniqueNames'
      BY <1>0, <1>g, <2>1, NamesKeep DEF CallType, NoNewFile
    <2>7. NoLeak'
      BY <1>g, <2>1, LeakKeeps DEF HandPcs, CloseWriteRef, At
    <2> QED BY <2>3, <2>4, <2>5, <2>6, <2>7 DEF IInv
  <1> QED BY <1>s, <1>g DEF CloseWriteRef, Undefined

LEMMA CloseUnlinkKeeps ==
  ASSUME IInv, NEW t \in Threads, CloseUnlink(t)
  PROVE  IInv'
  <1> DEFINE c == Idle
             Effect ==
               /\ pData[call[t].h] \in live
               /\ refs' = [refs EXCEPT ![pData[call[t].h]] = @ \ {call[t].h}]
               /\ pData' = [pData EXCEPT ![call[t].h] = None]
               /\ handle' = [handle EXCEPT ![call[t].h] = "closed"]
               /\ Return(t)
               /\ UNCHANGED <<listed, mutex, live, name, nRef, status, lost, unsafe>>
  <1>s. CASE \E how \in {"assert", "undefined"} : Stop(how)
    BY <1>s, StopKeeps
  <1>g. CASE Effect
    <2>1. CallStep(t, c)
      BY <1>g DEF IInv, CallOK, CallStep, Return
    <2>3. ListedOK' /\ MutexOK' /\ FilesOK' /\ HandlesOK' /\ StatusOK' /\ HistoryOK'
      BY <1>g
         DEF IInv, ListedOK, MutexOK, FilesOK, HandlesOK, StatusOK, HistoryOK
    <2>4. CallOK' /\ PlacesOK' /\ HandlesApart' /\ HasFile'
      BY <1>g, <2>1, IdleOK, CallsKeep DEF FilePcs, RefPcs, ClosePcs
    <2>5. MutexOwner'
      BY <1>g, <2>1, MutexKeeps DEF CloseUnlink, At, IInv, MutexOwner, Idle
    <2>6. NameIsFree' /\ UniqueNames'
      BY <1>g, <2>1, NamesKeep DEF NoNewFile, Idle
    <2>7. NoLeak'
      BY <1>g, <2>1, LeakKeeps DEF HandPcs, CloseUnlink, At
    <2> QED BY <2>3, <2>4, <2>5, <2>6, <2>7 DEF IInv
  <1> QED BY <1>s, <1>g DEF CloseUnlink, Undefined

LEMMA UnusedOrStopKeeps ==
  ASSUME IInv, NEW t \in Threads, NEW pc, UnusedOrStop(t, call[t].f, pc),
         \/ call[t].pc = "Assert" /\ pc = "Unlist"
         \/ call[t].pc = "UnloadAssert" /\ pc = "UnloadDestroy"
  PROVE  IInv'
  <1> DEFINE c == [call[t] EXCEPT !.pc = pc]
             f == call[t].f
             Effect ==
               /\ Goto(t, pc)
               /\ unsafe' = (unsafe \/ nRef[f] # 0 \/ f \in lost)
               /\ UNCHANGED <<listed, mutex, fileVars, pData, handle, status, lost>>
  <1>0. call[t] \in CallType /\ PlaceOK(call[t])
    BY DEF IInv, CallOK, PlacesOK
  <1>s. CASE \E how \in {"assert", "undefined"} : Stop(how)
    BY <1>s, StopKeeps
  <1>g. CASE Effect
    <2>1. CallStep(t, c)
      BY <1>g DEF IInv, CallOK, CallStep, Goto
    <2>2. c \in CallType /\ PlaceOK(c)
      BY <1>0 DEF CallType, PlaceOK, Pcs, OpenPcs, ClosePcs, DeletePcs, UnloadPcs
    <2>3. c.pc = pc /\ c.h = call[t].h /\ c.f = call[t].f
      BY <1>0 DEF CallType
    <2> HIDE DEF c
    <2>4. ListedOK' /\ MutexOK' /\ FilesOK' /\ HandlesOK' /\ StatusOK' /\ HistoryOK'
      BY <1>g
         DEF IInv, ListedOK, MutexOK, FilesOK, HandlesOK, StatusOK, HistoryOK,
             fileVars
    <2>5. CallOK' /\ PlacesOK' /\ HandlesApart' /\ HasFile'
      BY <1>g, <2>1, <2>2, <2>3, CallsKeep DEF FilePcs, RefPcs, ClosePcs
    <2>6. MutexOwner'
      BY <1>g, <2>1, <2>3, MutexKeeps DEF IInv, MutexOwner
    <2>7. NameIsFree' /\ UniqueNames'
      BY <1>g, <2>1, <2>3, NamesKeep DEF fileVars, NoNewFile
    <2>8. NoLeak'
      BY <1>g, <2>1, <2>3, LeakKeeps DEF HandPcs, fileVars
    <2> QED BY <2>4, <2>5, <2>6, <2>7, <2>8 DEF IInv
  <1> QED BY <1>s, <1>g DEF UnusedOrStop, Undefined

LEMMA AssertKeeps ==
  ASSUME IInv, NEW t \in Threads, DeleteAssert(t) \/ UnloadAssert(t)
  PROVE  IInv'
  BY UnusedOrStopKeeps DEF DeleteAssert, UnloadAssert, At

LEMMA UnloadDestroyKeeps ==
  ASSUME IInv, NEW t \in Threads, UnloadDestroy(t)
  PROVE  IInv'
  <1> DEFINE c == [call[t] EXCEPT !.pc = "Unload", !.f = None]
             Effect ==
               /\ Destroy(call[t].f)
               /\ call' = [call EXCEPT ![t].pc = "Unload", ![t].f = None]
               /\ UNCHANGED <<listed, mutex, pData, handle, status, unsafe>>
  <1>0. call[t] \in CallType /\ PlaceOK(call[t])
    BY DEF IInv, CallOK, PlacesOK
  <1>s. CASE \E how \in {"assert", "undefined"} : Stop(how)
    BY <1>s, StopKeeps
  <1>g. CASE Effect
    <2>1. CallStep(t, c)
      BY <1>g DEF IInv, CallOK, CallStep
    <2>2. c \in CallType /\ PlaceOK(c)
      BY <1>0 DEF CallType, PlaceOK, Pcs, OpenPcs, ClosePcs, DeletePcs, UnloadPcs
    <2>3. c.pc = "Unload" /\ c.h = call[t].h
      BY <1>0 DEF CallType
    <2> HIDE DEF c
    <2>4. ListedOK' /\ MutexOK' /\ FilesOK' /\ HandlesOK' /\ StatusOK' /\ HistoryOK'
      BY <1>g
         DEF IInv, ListedOK, MutexOK, FilesOK, HandlesOK, StatusOK, HistoryOK,
             Destroy
    <2>5. CallOK' /\ PlacesOK' /\ HandlesApart' /\ HasFile'
      BY <1>g, <2>1, <2>2, <2>3, CallsKeep DEF FilePcs, RefPcs, ClosePcs
    <2>6. MutexOwner'
      BY <1>g, <2>1, <2>3, MutexKeeps DEF UnloadDestroy, At, IInv, MutexOwner
    <2>7. NameIsFree' /\ UniqueNames'
      BY <1>g, <2>1, <2>3, NamesKeep DEF NoNewFile, Destroy
    <2>8. NoLeak'
      BY <1>g, <2>1, LeakKeeps DEF HandPcs, Destroy, UnloadDestroy, At
    <2> QED BY <2>4, <2>5, <2>6, <2>7, <2>8 DEF IInv
  <1> QED BY <1>s, <1>g DEF UnloadDestroy, Undefined, DestroyStops

LEMMA UnloadBeginKeeps ==
  ASSUME IInv, NEW t \in Threads, UnloadBegin(t)
  PROVE  IInv'
  <1> DEFINE c == [Idle EXCEPT !.pc = "Unload"]
  <1>1. CallStep(t, c)
    BY DEF IInv, CallOK, CallStep, UnloadBegin
  <1>2. c \in CallType /\ PlaceOK(c) /\ c.pc = "Unload" /\ c.h = None
    BY DEF Idle, CallType, PlaceOK, Pcs, OpenPcs, ClosePcs, UnloadPcs
  <1> HIDE DEF c
  <1>3. ListedOK' /\ MutexOK' /\ FilesOK' /\ HandlesOK' /\ StatusOK' /\ HistoryOK'
    BY DEF UnloadBegin, IInv, ListedOK, MutexOK, FilesOK, HandlesOK, StatusOK,
           HistoryOK, fileVars
  <1>4. CallOK' /\ PlacesOK' /\ HandlesApart' /\ HasFile'
    BY <1>1, <1>2, CallsKeep DEF UnloadBegin, FilePcs, RefPcs, ClosePcs
  <1>5. MutexOwner'
    BY <1>1, <1>2, MutexKeeps DEF UnloadBegin, At, IInv, MutexOwner
  <1>6. NameIsFree' /\ UniqueNames'
    BY <1>1, <1>2, NamesKeep DEF UnloadBegin, fileVars, NoNewFile
  <1>7. NoLeak'
    BY <1>1, LeakKeeps DEF UnloadBegin, At, fileVars, HandPcs
  <1> QED BY <1>3, <1>4, <1>5, <1>6, <1>7 DEF IInv

LEMMA UnloadEndKeeps ==
  ASSUME IInv, NEW t \in Threads, UnloadEnd(t)
  PROVE  IInv'
  <1> DEFINE c == Idle
  <1>1. CallStep(t, c)
    BY DEF IInv, CallOK, CallStep, UnloadEnd, Return
  <1>3. ListedOK' /\ MutexOK' /\ FilesOK' /\ HandlesOK' /\ StatusOK' /\ HistoryOK'
    BY DEF UnloadEnd, IInv, ListedOK, MutexOK, FilesOK, HandlesOK, StatusOK,
           HistoryOK, fileVars
  <1>4. CallOK' /\ PlacesOK' /\ HandlesApart' /\ HasFile'
    BY <1>1, IdleOK, CallsKeep DEF UnloadEnd, FilePcs, RefPcs, ClosePcs
  <1>5. MutexOwner'
    BY <1>1, IdleOK, MutexKeeps DEF UnloadEnd, At, IInv, MutexOwner
  <1>6. NameIsFree' /\ UniqueNames'
    BY <1>1, IdleOK, NamesKeep DEF UnloadEnd, fileVars, NoNewFile
  <1>7. NoLeak'
    BY <1>1, LeakKeeps DEF UnloadEnd, At, fileVars, HandPcs
  <1> QED BY <1>3, <1>4, <1>5, <1>6, <1>7 DEF IInv

(* The first file is in the hands of the unload when it is no longer       *)
(* listed.                                                                 *)
LEMMA UnloadTakeKeeps ==
  ASSUME IInv, NEW t \in Threads, UnloadTake(t)
  PROVE  IInv'
  <1> DEFINE c == [call[t] EXCEPT !.pc = "UnloadAssert", !.f = Head(listed)]
  <1>0. call[t] \in CallType /\ PlaceOK(call[t]) /\ call[t].pc = "Unload"
    BY DEF IInv, CallOK, PlacesOK, UnloadTake, At
  <1>1. /\ Head(listed) \in Files /\ Tail(listed) \in Seq(Files)
        /\ Range(listed) = Range(Tail(listed)) \cup {Head(listed)}
    BY RangeTail DEF UnloadTake, IInv, ListedOK
  <1>2. /\ CallStep(t, c) /\ c \in CallType /\ PlaceOK(c)
        /\ c.pc = "UnloadAssert" /\ c.h = call[t].h /\ c.f = Head(listed)
    BY <1>0, <1>1
       DEF UnloadTake, IInv, CallOK, CallType, CallStep, PlaceOK, Pcs, OpenPcs,
           ClosePcs, DeletePcs, UnloadPcs
  <1>3. /\ listed' = Tail(listed)
        /\ UNCHANGED <<mutex, live, name, nRef, refs, pData, handle, status, lost,
                       unsafe>>
    BY DEF UnloadTake, fileVars
  <1> HIDE DEF c
  <1>4. ListedOK' /\ MutexOK' /\ FilesOK' /\ HandlesOK' /\ StatusOK' /\ HistoryOK'
    BY <1>1, <1>3 DEF IInv, ListedOK, MutexOK, FilesOK, HandlesOK, StatusOK,
                      HistoryOK
  <1>5. CallOK' /\ PlacesOK' /\ HandlesApart' /\ HasFile'
    BY <1>2, <1>3, CallsKeep DEF FilePcs, RefPcs, ClosePcs
  <1>6. MutexOwner'
    BY <1>0, <1>2, <1>3, MutexKeeps DEF IInv, MutexOwner
  <1>7. NameIsFree' /\ UniqueNames'
    BY <1>1, <1>2, <1>3, NamesKeep DEF NoNewFile
  <1>8. NoLeak'
    BY <1>0, <1>1, <1>2, <1>3, LeakKeeps DEF HandPcs
  <1> QED BY <1>4, <1>5, <1>6, <1>7, <1>8 DEF IInv

LEMMA DeleteDestroyKeeps ==
  ASSUME IInv, NEW t \in Threads, DeleteDestroy(t)
  PROVE  IInv'
  <1> DEFINE c == Idle
             Effect ==
               /\ Destroy(call[t].f)
               /\ Return(t)
               /\ UNCHANGED <<listed, mutex, pData, handle, status, unsafe>>
  <1>s. CASE \E how \in {"assert", "undefined"} : Stop(how)
    BY <1>s, StopKeeps
  <1>g. CASE Effect
    <2>1. CallStep(t, c)
      BY <1>g DEF IInv, CallOK, CallStep, Return
    <2>3. ListedOK' /\ MutexOK' /\ FilesOK' /\ HandlesOK' /\ StatusOK' /\ HistoryOK'
      BY <1>g
         DEF IInv, ListedOK, MutexOK, FilesOK, HandlesOK, StatusOK, HistoryOK,
             Destroy
    <2>4. CallOK' /\ PlacesOK' /\ HandlesApart' /\ HasFile'
      BY <1>g, <2>1, IdleOK, CallsKeep DEF FilePcs, RefPcs, ClosePcs
    <2>5. MutexOwner'
      BY <1>g, <2>1, MutexKeeps DEF DeleteDestroy, At, IInv, MutexOwner, Idle
    <2>6. NameIsFree' /\ UniqueNames'
      BY <1>g, <2>1, NamesKeep DEF NoNewFile, Destroy, Idle
    <2>7. NoLeak'
      BY <1>g, <2>1, LeakKeeps DEF HandPcs, Destroy, DeleteDestroy, At
    <2> QED BY <2>3, <2>4, <2>5, <2>6, <2>7 DEF IInv
  <1> QED BY <1>s, <1>g DEF DeleteDestroy, Undefined, DestroyStops

LEMMA CloseReadRefKeeps ==
  ASSUME IInv, NEW t \in Threads, NEW h \in Handles, CloseReadRef(t, h)
  PROVE  IInv'
  <1> DEFINE c == [Idle EXCEPT !.pc = "CloseWrite", !.h = h, !.n = name[pData[h]],
                                !.tmp = nRef[pData[h]]]
             Effect ==
               /\ pData[h] \in live
               /\ call' = [call EXCEPT ![t] = [Idle EXCEPT !.pc = "CloseWrite", !.h = h,
                                       !.n = name[pData[h]], !.tmp = nRef[pData[h]]]]
               /\ unsafe' \in BOOLEAN
               /\ UNCHANGED <<listed, mutex, fileVars, pData, handle, status, lost>>
  <1>s. CASE \E how \in {"assert", "undefined"} : Stop(how)
    BY <1>s, StopKeeps
  <1>g. CASE Effect
    <2>1. CallStep(t, c)
      BY <1>g DEF IInv, CallOK, CallStep
    <2>2. c \in CallType /\ PlaceOK(c)
      BY <1>g
         DEF IInv, FilesOK, CallType, PlaceOK, Pcs, OpenPcs, ClosePcs, Idle
    <2>3. ListedOK' /\ MutexOK' /\ FilesOK' /\ HandlesOK' /\ StatusOK' /\ HistoryOK'
      BY <1>g
         DEF IInv, ListedOK, MutexOK, FilesOK, HandlesOK, StatusOK, HistoryOK,
             fileVars
    <2>4. CallOK' /\ PlacesOK' /\ HandlesApart' /\ HasFile'
      BY <1>g, <2>1, <2>2, CallsKeep DEF CloseReadRef, IInv, FilesOK, Idle
    <2>5. MutexOwner'
      BY <1>g DEF CloseReadRef, At, IInv, MutexOwner
    <2>6. NameIsFree' /\ UniqueNames'
      BY <1>g, <2>1, NamesKeep DEF fileVars, NoNewFile, Idle
    <2>7. NoLeak'
      BY <1>g, <2>1, LeakKeeps DEF HandPcs, CloseReadRef, At, fileVars
    <2> QED BY <2>3, <2>4, <2>5, <2>6, <2>7 DEF IInv
  <1> QED BY <1>s, <1>g DEF CloseReadRef, Undefined

LEMMA DeleteSearchKeeps ==
  ASSUME IInv, NEW t \in Threads, NEW n \in Names, DeleteSearch(t, n)
  PROVE  IInv'
  <1> DEFINE c == [Idle EXCEPT !.pc = "Assert", !.n = n, !.f = Find(n)]
             Effect ==
               /\ Find(n) # None
               /\ call' = [call EXCEPT ![t] = [Idle EXCEPT !.pc = "Assert", !.n = n, !.f = Find(n)]]
               /\ unsafe' \in BOOLEAN
               /\ UNCHANGED <<listed, mutex, fileVars, pData, handle, status, lost>>
  <1>s. CASE \E how \in {"assert", "undefined"} : Stop(how)
    BY <1>s, StopKeeps
  <1>g. CASE Effect
    <2>1. CallStep(t, c)
      BY <1>g DEF IInv, CallOK, CallStep
    <2>2. c \in CallType /\ PlaceOK(c)
      BY IdleOK, FindType
         DEF IInv, CallType, PlaceOK, Pcs, OpenPcs, ClosePcs, DeletePcs
    <2>3. ListedOK' /\ MutexOK' /\ FilesOK' /\ HandlesOK' /\ StatusOK' /\ HistoryOK'
      BY <1>g
         DEF IInv, ListedOK, MutexOK, FilesOK, HandlesOK, StatusOK, HistoryOK,
             fileVars
    <2>4. CallOK' /\ PlacesOK' /\ HandlesApart' /\ HasFile'
      BY <1>g, <2>1, <2>2, CallsKeep DEF FilePcs, RefPcs, ClosePcs, Idle
    <2>5. MutexOwner'
      BY <1>g DEF DeleteSearch, At, IInv, MutexOwner
    <2>6. NameIsFree' /\ UniqueNames'
      BY <1>g, <2>1, NamesKeep DEF fileVars, NoNewFile, Idle
    <2>7. NoLeak'
      BY <1>g, <2>1, LeakKeeps DEF HandPcs, DeleteSearch, At, fileVars
    <2> QED BY <2>3, <2>4, <2>5, <2>6, <2>7 DEF IInv
  <1> QED BY <1>s, <1>g DEF DeleteSearch, FindUndefined

LEMMA OpenSearchKeeps ==
  ASSUME IInv, NEW t \in Threads, NEW h \in Handles,
         NEW n \in Names, OpenSearch(t, h, n)
  PROVE  IInv'
  <1> DEFINE c == [Idle EXCEPT !.pc = IF Find(n) = None THEN "Enter" ELSE "OpenRead",
                                !.h = h, !.n = n]
             Effect ==
               /\ pData' = [pData EXCEPT ![h] = Find(n)]
               /\ handle' = [handle EXCEPT ![h] = "closed"]
               /\ Start(t, h, n, IF Find(n) = None THEN "Enter" ELSE "OpenRead")
               /\ unsafe' = (unsafe \/ BeingDeleted(n))
               /\ UNCHANGED <<listed, mutex, fileVars, status, lost>>
  <1>0. call[t] \in CallType /\ PlaceOK(call[t])
    BY DEF IInv, CallOK, PlacesOK
  <1>s. CASE \E how \in {"assert", "undefined"} : Stop(how)
    BY <1>s, StopKeeps
  <1>g. CASE Effect
    <2>1. CallStep(t, c)
      BY <1>g DEF IInv, CallOK, CallStep, Start
    <2>2. c \in CallType /\ PlaceOK(c)
      BY IdleOK DEF CallType, PlaceOK, Pcs, OpenPcs
    <2>3. ListedOK' /\ MutexOK' /\ FilesOK' /\ HandlesOK' /\ StatusOK' /\ HistoryOK'
      BY <1>g, FindType
         DEF IInv, ListedOK, MutexOK, FilesOK, HandlesOK, StatusOK, HistoryOK,
             fileVars
    <2>4. CallOK' /\ PlacesOK' /\ HandlesApart' /\ HasFile'
      BY <1>0, <1>g, <2>1, <2>2, IdleOK, CallsKeep, FindType
         DEF OpenSearch, At, MayOpen, FilePcs, RefPcs, ClosePcs, IInv, HandlesOK, Idle
    <2>5. MutexOwner'
      BY <1>g, <2>1, MutexKeeps
         DEF OpenSearch, At, MayOpen, IInv, MutexOwner, Idle
    <2>6. NameIsFree' /\ UniqueNames'
      BY <1>g, <2>1, NamesKeep DEF fileVars, NoNewFile, Idle
    <2>7. NoLeak'
      BY <1>g, <2>1, LeakKeeps DEF HandPcs, OpenSearch, At, MayOpen, fileVars
    <2> QED BY <2>3, <2>4, <2>5, <2>6, <2>7 DEF IInv
  <1> QED BY <1>s, <1>g DEF OpenSearch, FindUndefined

LEMMA OpenMissingKeeps ==
  ASSUME IInv, NEW t \in Threads, NEW h \in Handles, NEW n \in Names,
         OpenMissing(t, h, n)
  PROVE  IInv'
  <1> DEFINE c == call[t]
  <1>0. c \in CallType /\ PlaceOK(c)
    BY DEF IInv, CallOK, PlacesOK
  <1>1. CallStep(t, c) /\ c.pc = "idle"
    BY DEF IInv, CallOK, CallStep, OpenMissing, MayOpen, At
  <1>2. ListedOK' /\ MutexOK' /\ FilesOK' /\ HandlesOK' /\ StatusOK' /\ HistoryOK'
    BY DEF OpenMissing, IInv, ListedOK, MutexOK, FilesOK, HandlesOK, StatusOK,
           HistoryOK, fileVars
  <1>3. CallOK' /\ PlacesOK' /\ HandlesApart' /\ HasFile'
    BY <1>0, <1>1, CallsKeep DEF OpenMissing, MayOpen, FilePcs, RefPcs, ClosePcs
  <1>4. MutexOwner'
    BY DEF OpenMissing, IInv, MutexOwner
  <1>5. NameIsFree' /\ UniqueNames'
    BY <1>1, NamesKeep DEF OpenMissing, fileVars, NoNewFile
  <1>6. NoLeak'
    BY <1>1, LeakKeeps DEF HandPcs, OpenMissing, MayOpen, fileVars
  <1> QED BY <1>2, <1>3, <1>4, <1>5, <1>6 DEF IInv

LEMMA OpenRecheckKeeps ==
  ASSUME IInv, NEW t \in Threads, OpenRecheck(t)
  PROVE  IInv'
  <1> DEFINE f == Find(call[t].n)
             c == [call[t] EXCEPT !.pc = IF f = None THEN "Create" ELSE "OpenRead"]
             Effect ==
               /\ IF f = None
                  THEN Goto(t, "Create") /\ UNCHANGED <<mutex, pData>>
                  ELSE /\ pData' = [pData EXCEPT ![call[t].h] = f]
                       /\ mutex' = None
                       /\ Goto(t, "OpenRead")
               /\ UNCHANGED <<listed, fileVars, handle, status, lost, unsafe>>
  <1>0. call[t] \in CallType /\ PlaceOK(call[t]) /\ call[t].pc = "Recheck"
    BY DEF IInv, CallOK, PlacesOK, OpenRecheck, At
  <1>s. CASE \E how \in {"assert", "undefined"} : Stop(how)
    BY <1>s, StopKeeps
  <1>g. CASE Effect
    <2>1. CallStep(t, c)
      BY <1>g DEF IInv, CallOK, CallStep, Goto
    <2>2. c \in CallType /\ PlaceOK(c) /\ c.h = call[t].h /\ c.n = call[t].n
          /\ c.f = call[t].f
      BY <1>0 DEF CallType, PlaceOK, Pcs, OpenPcs
    <2>3. c.pc = IF f = None THEN "Create" ELSE "OpenRead"
      OBVIOUS
    <2>4. mutex = t /\ call[t].h \in Handles /\ f \in Files \cup {None}
      BY <1>0, FindType DEF IInv, MutexOwner, PlaceOK, OpenPcs
    <2> HIDE DEF c, f
    <2>5. ListedOK' /\ MutexOK' /\ FilesOK' /\ HandlesOK' /\ StatusOK' /\ HistoryOK'
      BY <1>g, <2>4
         DEF IInv, ListedOK, MutexOK, FilesOK, HandlesOK, StatusOK, HistoryOK,
             fileVars
    <2>6. CallOK' /\ PlacesOK' /\ HandlesApart' /\ HasFile'
      <3>1. \A h \in Handles : pData'[h] = pData[h] \/ h = call[t].h
        BY <1>g DEF IInv, HandlesOK
      <3>2. c.pc \in FilePcs => pData'[c.h] \in Files
        BY <1>g, <2>2, <2>3, <2>4 DEF FilePcs, RefPcs, ClosePcs, IInv, HandlesOK
      <3> QED BY <2>1, <2>2, <3>1, <3>2, CallsKeep
    <2>7. MutexOwner'
      <3>1. c.pc \in {"Recheck", "Create", "Init"} <=> mutex' = t
        BY <1>g, <2>3, <2>4, VfsAssumption
      <3>2. \A u \in Threads \ {t} : mutex' = u <=> mutex = u
        BY <1>g, <2>4, VfsAssumption
      <3> QED BY <2>1, <3>1, <3>2, MutexKeeps
    <2>8. NameIsFree' /\ UniqueNames'
      <3>1. NoNewFile  BY <1>g DEF fileVars, NoNewFile
      <3>2. c.pc \in {"Create", "Init"} =>
              \A g \in Range(listed) \cap live : name[g] # c.n
        BY <2>2, <2>3, NothingFound DEF f, IInv
      <3> QED BY <2>1, <3>1, <3>2, NamesKeep
    <2>9. NoLeak'
      <3>1. \A h \in Handles : pData'[h] = pData[h] \/ h = call[t].h
        BY <1>g DEF IInv, HandlesOK
      <3> QED BY <1>0, <1>g, <2>1, <3>1, LeakKeeps DEF HandPcs, fileVars
    <2> QED BY <2>5, <2>6, <2>7, <2>8, <2>9 DEF IInv
  <1> QED BY <1>s, <1>g DEF OpenRecheck, FindUndefined

LEMMA OpenAllocKeeps ==
  ASSUME IInv, NEW t \in Threads, OpenAlloc(t)
  PROVE  IInv'
  <1> DEFINE c == [call[t] EXCEPT !.pc = "Init"]
             h == call[t].h
  <1>0. call[t] \in CallType /\ PlaceOK(call[t]) /\ call[t].pc = "Create"
    BY DEF IInv, CallOK, PlacesOK, OpenAlloc, At
  <1>1. h \in Handles /\ mutex = t
    BY <1>0 DEF PlaceOK, OpenPcs, IInv, MutexOwner
  <1>2. PICK f \in Files \ (live \cup Range(listed)) :
          /\ live'   = live \cup {f}
          /\ name'   = [name EXCEPT ![f] = None]
          /\ nRef'   = [nRef EXCEPT ![f] = 0]
          /\ refs'   = [refs EXCEPT ![f] = {}]
          /\ pData'  = [pData EXCEPT ![h] = f]
    BY DEF OpenAlloc
  <1>3. /\ CallStep(t, c) /\ c.pc = "Init" /\ c.h = h /\ c.n = call[t].n
        /\ UNCHANGED <<listed, mutex, handle, status, lost, unsafe>>
    BY <1>0 DEF OpenAlloc, IInv, CallOK, CallType, CallStep, Goto
  <1>5. c \in CallType /\ PlaceOK(c)
    BY <1>0 DEF CallType, PlaceOK, Pcs, OpenPcs
  <1> HIDE DEF c, h
  <1>6. ListedOK' /\ MutexOK' /\ HandlesOK' /\ StatusOK' /\ HistoryOK'
    BY <1>2, <1>3
       DEF IInv, ListedOK, MutexOK, HandlesOK, StatusOK, HistoryOK
  <1>7. FilesOK'
    <2>1. live' \in SUBSET Files  BY <1>2 DEF IInv, FilesOK
    <2>2. name' \in [Files -> Names \cup {None}]  BY <1>2 DEF IInv, FilesOK
    <2>3. nRef' \in [Files -> Int]  BY <1>2 DEF IInv, FilesOK
    <2>4. refs' \in [Files -> SUBSET Handles]  BY <1>2 DEF IInv, FilesOK
    <2> QED BY <2>1, <2>2, <2>3, <2>4 DEF FilesOK
  <1>8. \A g \in Handles : pData'[g] = pData[g] \/ g = call[t].h
    BY <1>2 DEF h
  <1>9. pData'[h] = f
    BY <1>1, <1>2 DEF IInv, HandlesOK
  <1>10. CallOK' /\ PlacesOK' /\ HandlesApart' /\ HasFile'
    BY <1>3, <1>5, <1>8, <1>9, CallsKeep DEF h
  <1>11. MutexOwner'
    BY <1>1, <1>3, MutexKeeps
  <1>12. /\ Range(listed') \cap live' = Range(listed) \cap live
         /\ \A g \in Range(listed) : name'[g] = name[g]
    BY <1>2, <1>3 DEF IInv, FilesOK
  <1>13. UniqueNames'
    BY <1>12 DEF IInv, UniqueNames
  <1>14. NameIsFree'
    BY <1>0, <1>3, <1>12 DEF IInv, NameIsFree, CallStep
  <1>15. NoLeak'
    <2>1. Deleted \subseteq Deleted'
      BY <1>0, <1>3 DEF Deleted, CallStep
    <2>2. f \in Made'
      BY <1>3, <1>9 DEF Made, CallStep
    <2>3. ASSUME NEW u \in Threads, call[u].pc = "Init"
          PROVE  pData[call[u].h] \in Made'
      <3>1. mutex = u
        BY <2>3 DEF IInv, MutexOwner
      <3> QED BY <1>0, <1>1, <2>3, <3>1
    <2>4. Made \subseteq Made'
      BY <2>3 DEF Made
    <2> QED BY <1>2, <1>3, <2>1, <2>2, <2>4 DEF IInv, NoLeak
  <1> QED BY <1>6, <1>7, <1>10, <1>11, <1>13, <1>14, <1>15 DEF IInv

(* The one step that links a file: nobody else is between the second       *)
(* search and the link, and the name was free when the thread looked.      *)
LEMMA OpenInitKeeps ==
  ASSUME IInv, NEW t \in Threads, OpenInit(t)
  PROVE  IInv'
  <1> DEFINE c == [call[t] EXCEPT !.pc = "OpenRead"]
             n == call[t].n
             f == pData[call[t].h]
             Effect ==
               /\ name'   = [name EXCEPT ![f] = n]
               /\ listed' = Append(listed, f)
               /\ mutex'  = None
               /\ Goto(t, "OpenRead")
               /\ UNCHANGED <<live, nRef, refs, pData, handle, status, lost, unsafe>>
  <1>0. call[t] \in CallType /\ PlaceOK(call[t]) /\ call[t].pc = "Init"
    BY DEF IInv, CallOK, PlacesOK, OpenInit, At
  <1>1. n \in Names /\ mutex = t /\ f \in Files
    BY <1>0 DEF PlaceOK, OpenPcs, IInv, MutexOwner, HasFile, FilePcs
  <1>s. CASE \E how \in {"assert", "undefined"} : Stop(how)
    BY <1>s, StopKeeps
  <1>g. CASE Effect
    <2>1. /\ CallStep(t, c) /\ c.pc = "OpenRead" /\ c.h = call[t].h
          /\ c \in CallType /\ PlaceOK(c)
      BY <1>0, <1>g DEF IInv, CallOK, CallType, CallStep, Goto, PlaceOK, Pcs,
                        OpenPcs
    <2>2. listed' \in Seq(Files) /\ Range(listed') = Range(listed) \cup {f}
      BY <1>1, <1>g, RangeAppend DEF IInv, ListedOK
    <2>a. /\ name' = [name EXCEPT ![f] = n] /\ mutex' = None
          /\ UNCHANGED <<live, nRef, refs, pData, handle, status, lost, unsafe>>
      BY <1>g
    <2> HIDE DEF c, Effect
    <2>3. ListedOK' /\ MutexOK' /\ HandlesOK' /\ StatusOK' /\ HistoryOK'
      BY <2>a, <2>2
         DEF IInv, ListedOK, MutexOK, HandlesOK, StatusOK, HistoryOK
    <2>4. FilesOK'
      BY <1>1, <2>a DEF IInv, FilesOK
    <2>5. CallOK' /\ PlacesOK' /\ HandlesApart' /\ HasFile'
      BY <1>1, <2>a, <2>1, CallsKeep
    <2>6. MutexOwner'
      BY <1>1, <2>a, <2>1, MutexKeeps, VfsAssumption
    <2>7. \A g \in Range(listed) \cap live : name[g] # n
      BY <1>0 DEF IInv, NameIsFree
    <2>8. \A g \in Files : name'[g] = IF g = f THEN n ELSE name[g]
      BY <1>1, <2>a DEF IInv, FilesOK
    <2>9. UniqueNames'
      <3>1. Range(listed) \subseteq Files
        BY DEF IInv, ListedOK, Range
      <3> QED BY <1>1, <2>a, <2>2, <2>7, <2>8, <3>1 DEF IInv, UniqueNames
    <2>10. NameIsFree'
      <3>1. \A u \in Threads : call'[u].pc \notin {"Create", "Init"}
        BY <1>1, <2>1 DEF IInv, MutexOwner, CallStep
      <3> QED BY <3>1 DEF NameIsFree
    <2>11. NoLeak'
      BY <1>0, <2>a, <2>1, <2>2, LeakKeeps DEF HandPcs
    <2> QED BY <2>3, <2>4, <2>5, <2>6, <2>9, <2>10, <2>11 DEF IInv
  <1> QED BY <1>s, <1>g DEF OpenInit, Undefined

LEMMA OpenInitFailsKeeps ==
  ASSUME IInv, NEW t \in Threads, OpenInitFails(t)
  PROVE  IInv'
  <1> DEFINE c == Idle
             f == pData[call[t].h]
             Effect ==
               /\ Destroy(f)
               /\ mutex' = None
               /\ Return(t)
               /\ UNCHANGED <<listed, pData, handle, status, unsafe>>
  <1>0. call[t].pc = "Init" /\ mutex = t
    BY DEF OpenInitFails, At, IInv, MutexOwner
  <1>s. CASE \E how \in {"assert", "undefined"} : Stop(how)
    BY <1>s, StopKeeps
  <1>g. CASE Effect
    <2>1. CallStep(t, c)
      BY <1>g DEF IInv, CallOK, CallStep, Return
    <2>3. ListedOK' /\ MutexOK' /\ FilesOK' /\ HandlesOK' /\ StatusOK' /\ HistoryOK'
      BY <1>g
         DEF IInv, ListedOK, MutexOK, FilesOK, HandlesOK, StatusOK, HistoryOK,
             Destroy
    <2>4. CallOK' /\ PlacesOK' /\ HandlesApart' /\ HasFile'
      BY <1>g, <2>1, IdleOK, CallsKeep DEF FilePcs, RefPcs, ClosePcs
    <2>5. MutexOwner'
      BY <1>0, <1>g, <2>1, MutexKeeps, VfsAssumption DEF Idle
    <2>6. NameIsFree' /\ UniqueNames'
      BY <1>g, <2>1, NamesKeep DEF NoNewFile, Destroy, Idle
    <2>7. NoLeak'
      BY <1>0, <1>g, <2>1, LeakKeeps DEF Destroy, HandPcs
    <2> QED BY <2>3, <2>4, <2>5, <2>6, <2>7 DEF IInv
  <1> QED BY <1>s, <1>g DEF OpenInitFails, Undefined, DestroyStops

LEMMA DeleteUnlistKeeps ==
  ASSUME IInv, NEW t \in Threads, DeleteUnlist(t)
  PROVE  IInv'
  <1> DEFINE c == [call[t] EXCEPT !.pc = "Destroy"]
  <1>0. call[t] \in CallType /\ PlaceOK(call[t]) /\ call[t].pc = "Unlist"
    BY DEF IInv, CallOK, PlacesOK, DeleteUnlist, At
  <1>1. /\ CallStep(t, c) /\ c \in CallType /\ PlaceOK(c)
        /\ c.pc = "Destroy" /\ c.h = call[t].h /\ c.f = call[t].f
    BY DEF DeleteUnlist, IInv, CallOK, CallType, CallStep, Goto, PlaceOK, Pcs,
           OpenPcs, ClosePcs, DeletePcs
  <1>2. /\ listed' \in Seq(Files) /\ Range(listed') \subseteq Range(listed)
        /\ Range(listed) \subseteq Range(listed') \cup {c.f}
    BY RangeRemove DEF DeleteUnlist, IInv, ListedOK
  <1>3. UNCHANGED <<mutex, live, name, nRef, refs, pData, handle, status, lost,
                    unsafe>>
    BY DEF DeleteUnlist, fileVars
  <1> HIDE DEF c
  <1>4. ListedOK' /\ MutexOK' /\ FilesOK' /\ HandlesOK' /\ StatusOK' /\ HistoryOK'
    BY <1>2, <1>3 DEF IInv, ListedOK, MutexOK, FilesOK, HandlesOK, StatusOK,
                      HistoryOK
  <1>5. CallOK' /\ PlacesOK' /\ HandlesApart' /\ HasFile'
    BY <1>1, <1>3, CallsKeep DEF FilePcs, RefPcs, ClosePcs
  <1>6. MutexOwner'
    BY <1>0, <1>1, <1>3, MutexKeeps DEF IInv, MutexOwner
  <1>7. NameIsFree' /\ UniqueNames'
    BY <1>1, <1>2, <1>3, NamesKeep DEF NoNewFile
  <1>8. NoLeak'
    BY <1>0, <1>1, <1>2, <1>3, LeakKeeps DEF HandPcs
  <1> QED BY <1>4, <1>5, <1>6, <1>7, <1>8 DEF IInv
-------------------------------------------------------------------------------
LEMMA InitIInv == Init => IInv
  <1> SUFFICES ASSUME Init  PROVE IInv
    OBVIOUS
  <1>1. \A t \in Threads : call[t] = Idle
    BY DEF Init
  <1>2. listed = <<>> /\ Range(listed) = {} /\ ListedOK
    BY DEF Init, ListedOK, Range
  <1>3. FilesOK
    BY DEF Init, FilesOK
  <1>4. MutexOK /\ HandlesOK /\ StatusOK
    BY DEF Init, MutexOK, HandlesOK, StatusOK
  <1>5. HistoryOK
    <2>1. lost = {} /\ unsafe = FALSE  BY DEF Init
    <2>2. lost \in SUBSET Files  BY ONLY <2>1
    <2>3. unsafe \in BOOLEAN  BY ONLY <2>1
    <2> QED BY <2>2, <2>3 DEF HistoryOK
  <1>6. CallOK
    BY IdleOK DEF Init, CallOK
  <1>7. PlacesOK /\ HandlesApart /\ HasFile /\ NameIsFree
    BY <1>1, IdleOK
       DEF PlacesOK, HandlesApart, HasFile, FilePcs, RefPcs, ClosePcs, NameIsFree
  <1>8. MutexOwner
    BY IdleOK, VfsAssumption DEF Init, MutexOwner
  <1>9. UniqueNames /\ NoLeak
    BY DEF Init, UniqueNames, NoLeak
  <1> QED BY <1>2, <1>3, <1>4, <1>5, <1>6, <1>7, <1>8, <1>9 DEF IInv

LEMMA NextIInv == IInv /\ [Next]_vars => IInv'
  <1> SUFFICES ASSUME IInv, [Next]_vars  PROVE IInv'
    OBVIOUS
  <1>1. ASSUME NEW t \in Threads, Begin(t)  PROVE IInv'
    BY <1>1, OpenMissingKeeps, OpenSearchKeeps, CloseReadRefKeeps,
       DeleteSearchKeeps, UnloadBeginKeeps
    DEF Begin
  <1>2. ASSUME NEW t \in Threads, Step(t)  PROVE IInv'
    BY <1>2, OpenEnterKeeps, OpenRecheckKeeps, OpenAllocKeeps,
       OpenAllocFailsKeeps, OpenInitKeeps, OpenInitFailsKeeps, OpenReadRefKeeps, OpenWriteRefKeeps, OpenLinkKeeps,
       OpenLinkFailsKeeps, OpenUndoKeeps, CloseWriteRefKeeps, CloseUnlinkKeeps,
       AssertKeeps, DeleteUnlistKeeps, DeleteDestroyKeeps, UnloadTakeKeeps,
       UnloadDestroyKeeps, UnloadEndKeeps
    DEF Step
  <1>3. CASE UNCHANGED vars
    <2>1. /\ UNCHANGED <<listed, mutex, live, name, nRef, refs, pData, handle>>
          /\ UNCHANGED <<call, status, lost, unsafe>>
      BY <1>3 DEF vars, fileVars
    <2>2. ListedOK' /\ MutexOK' /\ FilesOK' /\ HandlesOK' /\ CallOK' /\ StatusOK'
          /\ HistoryOK'
      BY <2>1 DEF IInv, ListedOK, MutexOK, FilesOK, HandlesOK, CallOK, StatusOK,
                  HistoryOK
    <2>3. PlacesOK' /\ HandlesApart' /\ HasFile' /\ MutexOwner'
      BY <2>1 DEF IInv, PlacesOK, HandlesApart, HasFile, MutexOwner
    <2>4. NameIsFree' /\ UniqueNames' /\ NoLeak'
      BY <2>1 DEF IInv, NameIsFree, UniqueNames, NoLeak, Made, Deleted
    <2> QED BY <2>2, <2>3, <2>4 DEF IInv
  <1> QED BY <1>1, <1>2, <1>3 DEF Next

LEMMA SpecIInv == Spec => []IInv
  BY InitIInv, NextIInv, PTL DEF Spec

(* TypeOK: every variable keeps its type, and a call that has come to the  *)
(* references of a file has a file, however many threads open and close.   *)
THEOREM TypeCorrect == Spec => []TypeOK
  <1>1. IInv => TypeOK
    BY DEF IInv, ListedOK, MutexOK, FilesOK, HandlesOK, CallOK, CallType, Pcs,
           StatusOK, HistoryOK, HasFile, FilePcs, RefPcs, TypeOK
  <1> QED BY <1>1, SpecIInv, PTL

(* MutexOwner: one thread is in the critical section of the list, and on   *)
(* every way through memfs_vfs_Open it is left again.                      *)
THEOREM MutexOwnerTheorem == Spec => []MutexOwner
  <1>1. IInv => MutexOwner  BY DEF IInv
  <1> QED BY <1>1, SpecIInv, PTL

(* UniqueNames: the second search of memfs_vfs_Open, under the mutex, is   *)
(* enough for any number of threads to make one file of a name.            *)
THEOREM UniqueNamesTheorem == Spec => []UniqueNames
  <1>1. IInv => UniqueNames  BY DEF IInv
  <1> QED BY <1>1, SpecIInv, PTL

(* NoLeak: a file that is allocated is in the list, or in the hands of an  *)
(* xOpen, an xDelete or an unload that frees it, whatever fails.           *)
THEOREM NoLeakTheorem == Spec => []NoLeak
  <1>1. IInv => NoLeak  BY DEF IInv
  <1> QED BY <1>1, SpecIInv, PTL
-------------------------------------------------------------------------------
(* Names that are deleted when nobody uses them                            *)

(* With memory for the link of the handle, and where no deletion meets a   *)
(* call it can harm (~unsafe), no file is used after it is freed.          *)
(* NoUseAfterFree is not inductive: whether a search, a store of nRef or a *)
(* deletion reaches a freed file depends on what every other call has in   *)
(* its hands.  Safe says it for each kind of holder: a handle, a call on a *)
(* handle, an xDelete, whose name no other call has, and the unload, which *)
(* is alone.  That a file past the assertion of its deletion is not open   *)
(* follows from Count, that nRef is the number of its handles; and Count   *)
(* survives the deletions because of Safe: they are proved together.       *)
NotOpen(f) == \A h \in Handles : handle[h] = "open" => pData[h] # f

(* The unload has the file in hand and has not looked at its count.        *)
Taken(f) == \E t \in Threads : call[t].pc = "UnloadAssert" /\ call[t].f = f

ListSafe ==
  /\ status # "undefined"
  /\ IsInjective(listed)
  /\ Range(listed) \subseteq live

HandleIsSafe(h) ==
  /\ handle[h] # "failed"
  /\ handle[h] = "open" => /\ pData[h] \in live /\ name[pData[h]] \in Names
                           /\ h \in refs[pData[h]]
                           /\ pData[h] \in Range(listed) \/ Taken(pData[h])

CallIsSafe(c) ==
  /\ c.pc \in OpenPcs => handle[c.h] = "closed"
  /\ c.pc \in RefPcs => /\ c.pc # "Undo"
                        /\ pData[c.h] \in Range(listed) /\ name[pData[c.h]] = c.n
  /\ c.pc = "Init" => pData[c.h] \in live \ Range(listed) /\ name[pData[c.h]] = None

DeleteIsSafe(t) ==
  call[t].pc \in DeletePcs =>
    /\ call[t].f \in live /\ name[call[t].f] = call[t].n /\ call[t].n \in Names
    /\ call[t].pc = "Destroy" => call[t].f \notin Range(listed)
    /\ call[t].pc # "Assert" => NotOpen(call[t].f)
    /\ \A u \in Threads \ {t} : call[u].n # call[t].n

UnloadIsSafe(t) ==
  call[t].pc \in UnloadPcs =>
    /\ \A u \in Threads \ {t} : call[u].pc = "idle"
    /\ call[t].pc # "Unload" => call[t].f \in live \ Range(listed)
    /\ call[t].pc = "UnloadDestroy" => NotOpen(call[t].f)

OpenSafe   == \A h \in Handles : HandleIsSafe(h)
CallSafe   == \A t \in Threads : CallIsSafe(call[t])
DeleteSafe == \A t \in Threads : DeleteIsSafe(t)
UnloadSafe == \A t \in Threads : UnloadIsSafe(t)

SafeParts == ListSafe /\ OpenSafe /\ CallSafe /\ DeleteSafe /\ UnloadSafe

Safe == ~unsafe => SafeParts

(* The count of references, and that the references are open handles.      *)
CountedIn(f) == {h \in Handles : Counted(h, f)}

CountOK ==
  \A f \in live :
    /\ IsFiniteSet(CountedIn(f))
    /\ f \notin lost => nRef[f] = Cardinality(CountedIn(f))

RefsOpen ==
  \A f \in live : \A h \in refs[f] : handle[h] = "open" /\ pData[h] = f

CloseOpen ==
  \A t \in Threads : call[t].pc \in ClosePcs => handle[call[t].h] = "open"

CountParts == CountOK /\ RefsOpen /\ CloseOpen

Count == ~unsafe => CountParts
-------------------------------------------------------------------------------
(* A search passes files that are there, and finds what has the name.      *)
LEMMA SearchSafe ==
  ASSUME IInv, ListSafe, NEW n
  PROVE  /\ ~FindUndefined(n)
         /\ Find(n) # None => Find(n) \in Range(listed) /\ name[Find(n)] = n
  <1> DEFINE I == {i \in 1 .. Len(listed) : listed[i] \notin live \/ name[listed[i]] = n}
             k == IF I # {} THEN Min(I) ELSE 0
             J == {i \in 1 .. Len(listed) : name[listed[i]] = n}
             m == IF J # {} THEN Min(J) ELSE 0
  <1>0. listed \in Seq(Files) /\ DOMAIN listed = 1 .. Len(listed)
    BY DEF IInv, ListedOK
  <1>1. ~FindUndefined(n)
    <2>1. SelectInSeq(listed, LAMBDA f : f \notin live \/ name[f] = n) = k
      BY DEF SelectInSeq
    <2>2. k # 0 => k \in 1 .. Len(listed)
      <3>1. I \subseteq 1 .. Len(listed)  OBVIOUS
      <3> HIDE DEF I
      <3> QED BY <1>0, <3>1, FirstFound
    <2>3. k # 0 => listed[k] \in live
      BY <2>2 DEF ListSafe, Range
    <2> HIDE DEF k
    <2> QED BY <2>1, <2>3 DEF FindUndefined
  <1>2. ASSUME Find(n) # None
        PROVE  Find(n) \in Range(listed) /\ name[Find(n)] = n
    <2>1. Find(n) = IF m = 0 THEN None ELSE listed[m]
      BY DEF Find, SelectInSeq
    <2>2. m # 0 /\ Find(n) = listed[m]
      BY <1>2, <2>1
    <2>3. m \in J
      <3>1. J \subseteq 1 .. Len(listed)  OBVIOUS
      <3> HIDE DEF J
      <3> QED BY <1>0, <2>2, <3>1, FirstFound
    <2> QED BY <1>0, <2>2, <2>3 DEF Range
  <1> QED BY <1>1, <1>2

LEMMA StopSafe ==
  ASSUME SafeParts, Stop("assert")
  PROVE  SafeParts'
  <1>1. UNCHANGED <<listed, live, name, refs, pData, handle, call>>
        /\ status' = "assert"
    BY DEF Stop, fileVars
  <1> QED
    BY <1>1 DEF SafeParts, ListSafe, OpenSafe, HandleIsSafe, Taken, CallSafe,
                CallIsSafe, DeleteSafe, DeleteIsSafe, UnloadSafe, UnloadIsSafe,
                NotOpen

(* The handles of the other calls.                                         *)
LEMMA OthersApart ==
  ASSUME IInv, NEW t \in Threads, NEW u \in Threads \ {t},
         call[u].pc \in OpenPcs \cup ClosePcs
  PROVE  call[u].h \in Handles /\ call[u].h # call[t].h
  <1>1. call[u].h \in Handles
    BY DEF IInv, PlacesOK, PlaceOK
  <1> QED BY <1>1, VfsAssumption DEF IInv, HandlesApart

(* Where a call stands, whose step is done by t.                           *)
LEMMA PlaceSets ==
  /\ FilePcs \subseteq OpenPcs \cup ClosePcs
  /\ RefPcs \subseteq FilePcs /\ "Init" \in OpenPcs \ RefPcs
  /\ OpenPcs \cap DeletePcs = {} /\ ClosePcs \cap DeletePcs = {}
  /\ OpenPcs \cap UnloadPcs = {} /\ ClosePcs \cap UnloadPcs = {}
  /\ DeletePcs \cap UnloadPcs = {}
  /\ "idle" \notin OpenPcs \cup ClosePcs \cup DeletePcs \cup UnloadPcs
  BY DEF FilePcs, RefPcs, OpenPcs, ClosePcs, DeletePcs, UnloadPcs

Others(t) == \A u \in Threads \ {t} : call'[u] = call[u]

(* The step of a call that changes no file and no list, nor deletes: what  *)
(* it does to its own handle, or to a handle no call has, is all that is   *)
(* to be looked at.                                                        *)
LEMMA QuietSafe ==
  ASSUME IInv, SafeParts, NEW t \in Threads, Others(t),
         UNCHANGED <<listed, live, name, status>>,
         \A h \in Handles :
           \/ handle'[h] = handle[h] /\ pData'[h] = pData[h]
           \/ h = call[t].h \/ ~InCall(h),
         \A h \in Handles :
           /\ handle'[h] # "failed"
           /\ handle'[h] = "open" =>
                /\ pData'[h] = pData[h]
                /\ \/ handle[h] = "open"
                   \/ h = call[t].h /\ call[t].pc = "Link"
                /\ h \in refs[pData[h]] \/ h = call[t].h
                /\ h \in refs[pData[h]] \/ h = call[t].h => h \in refs'[pData[h]],
         CallIsSafe(call[t])',
         call[t].pc # "UnloadAssert", call'[t].pc \notin DeletePcs \cup UnloadPcs,
         \/ call'[t].n = call[t].n
         \/ call'[t].n = None
         \/ ~BeingDeleted(call'[t].n),
         call'[t].pc = "idle" \/ call[t].pc # "idle" \/ ~Unloading
  PROVE  SafeParts'
  <1>1. ListSafe'
    BY DEF SafeParts, ListSafe
  <1>2. ASSUME NEW f, Taken(f)  PROVE Taken(f)'
    BY <1>2 DEF Taken, Others
  <1>3. ASSUME NEW h \in Handles, handle'[h] = "open"
        PROVE  /\ pData'[h] = pData[h] /\ pData[h] \in live
               /\ name[pData[h]] \in Names
               /\ pData[h] \in Range(listed) \/ Taken(pData[h])
    <2>1. CASE handle[h] = "open"
      BY <1>3, <2>1 DEF SafeParts, OpenSafe, HandleIsSafe
    <2>2. CASE h = call[t].h /\ call[t].pc = "Link"
      BY <1>3, <2>2
         DEF SafeParts, CallSafe, CallIsSafe, ListSafe, RefPcs, IInv, PlacesOK,
             PlaceOK, OpenPcs
    <2> QED BY <1>3, <2>1, <2>2
  <1>4. OpenSafe'
    BY <1>2, <1>3 DEF OpenSafe, HandleIsSafe
  <1>5. CallSafe'
    <2>1. ASSUME NEW u \in Threads \ {t}
          PROVE  CallIsSafe(call[u])'
      <3>1. call[u].pc \in OpenPcs \cup ClosePcs =>
              /\ handle'[call[u].h] = handle[call[u].h]
              /\ pData'[call[u].h] = pData[call[u].h]
        BY OthersApart DEF InCall
      <3> QED BY <3>1, PlaceSets DEF SafeParts, CallSafe, CallIsSafe, Others
    <2> QED BY <2>1 DEF CallSafe
  <1>6. DeleteSafe'
    <2> SUFFICES ASSUME NEW u \in Threads \ {t}, call[u].pc \in DeletePcs
                 PROVE  DeleteIsSafe(u)'
      BY DEF DeleteSafe, DeleteIsSafe, Others
    <2>1. /\ call[u].f \in live /\ name[call[u].f] = call[u].n /\ call[u].n \in Names
          /\ call[u].pc = "Destroy" => call[u].f \notin Range(listed)
          /\ call[u].pc # "Assert" => NotOpen(call[u].f)
          /\ \A v \in Threads \ {u} : call[v].n # call[u].n
      BY DEF SafeParts, DeleteSafe, DeleteIsSafe
    <2>2. call'[t].n # call[u].n
      BY <2>1, VfsAssumption DEF BeingDeleted
    <2>3. NotOpen(call[u].f) => NotOpen(call[u].f)'
      <3> SUFFICES ASSUME NotOpen(call[u].f), NEW h \in Handles, handle'[h] = "open"
                   PROVE  pData'[h] # call[u].f
        BY DEF NotOpen, Others
      <3>1. CASE h = call[t].h /\ call[t].pc = "Link"
        BY <2>1, <3>1 DEF SafeParts, CallSafe, CallIsSafe, RefPcs
      <3> QED BY <3>1 DEF NotOpen
    <2> QED BY <2>1, <2>2, <2>3 DEF DeleteIsSafe, Others
  <1>7. UnloadSafe'
    <2> SUFFICES ASSUME NEW u \in Threads \ {t}, call[u].pc \in UnloadPcs
                 PROVE  UnloadIsSafe(u)'
      BY DEF UnloadSafe, UnloadIsSafe, Others
    <2>1. /\ \A v \in Threads \ {u} : call[v].pc = "idle"
          /\ call[u].pc # "Unload" => call[u].f \in live \ Range(listed)
          /\ call[u].pc = "UnloadDestroy" => NotOpen(call[u].f)
      BY DEF SafeParts, UnloadSafe, UnloadIsSafe
    <2>2. call'[t].pc = "idle"
      BY <2>1 DEF Unloading
    <2>3. NotOpen(call[u].f) => NotOpen(call[u].f)'
      BY <2>1 DEF NotOpen, Others
    <2> QED BY <2>1, <2>2, <2>3 DEF UnloadIsSafe, Others
  <1> QED BY <1>1, <1>4, <1>5, <1>6, <1>7 DEF SafeParts
-------------------------------------------------------------------------------
(* The steps that change no file and no list                               *)

LEMMA QuietOpenSafe ==
  ASSUME IInv, SafeParts, NEW t \in Threads,
         \/ OpenEnter(t) \/ OpenRecheck(t) \/ OpenAllocFails(t)
         \/ OpenReadRef(t) \/ OpenWriteRef(t) \/ OpenLink(t)
  PROVE  SafeParts'
  <1> DEFINE h == call[t].h
             f == pData[h]
  <1>0. /\ h \in Handles /\ handle[h] = "closed" /\ call[t].n \in Names
        /\ call[t].pc \in OpenPcs /\ call[t] \in CallType
    BY DEF OpenEnter, OpenRecheck, OpenAllocFails, OpenReadRef, OpenWriteRef,
           OpenLink, At, OpenPcs, IInv, CallOK, PlacesOK, PlaceOK, SafeParts,
           CallSafe, CallIsSafe
  <1>r. ASSUME call[t].pc \in {"OpenRead", "OpenWrite", "Link"}
        PROVE  f \in Range(listed) /\ f \in live /\ name[f] = call[t].n /\ f \in Files
    BY <1>r DEF SafeParts, ListSafe, CallSafe, CallIsSafe, RefPcs, IInv, FilesOK
  <1>c. SafeParts /\ \A g \in Handles : handle[g] # "failed" /\
          (handle[g] = "open" => g \in refs[pData[g]])
    BY DEF SafeParts, OpenSafe, HandleIsSafe
  <1>1. CASE OpenEnter(t)
    <2>1. /\ Others(t) /\ call'[t].pc = "Recheck"
          /\ call'[t].h = h /\ call'[t].n = call[t].n
      BY <1>0, <1>1 DEF OpenEnter, Goto, Others, IInv, CallOK, CallType
    <2> QED
      BY <1>0, <1>1, <1>c, <2>1, QuietSafe
         DEF OpenEnter, At, fileVars, CallIsSafe, RefPcs, OpenPcs, ClosePcs,
             DeletePcs, UnloadPcs
  <1>2. CASE OpenRecheck(t)
    <2>1. /\ ~FindUndefined(call[t].n)
          /\ Find(call[t].n) # None => /\ Find(call[t].n) \in Range(listed)
                                       /\ name[Find(call[t].n)] = call[t].n
      BY SearchSafe DEF SafeParts
    <2>2. /\ Others(t) /\ call'[t].h = h /\ call'[t].n = call[t].n
          /\ \/ call'[t].pc = "Create" /\ pData' = pData
             \/ /\ call'[t].pc = "OpenRead" /\ Find(call[t].n) # None
                /\ pData'[h] = Find(call[t].n)
                /\ \A g \in Handles : g # h => pData'[g] = pData[g]
          /\ UNCHANGED <<listed, fileVars, handle, status, lost, unsafe>>
      BY <1>0, <1>2, <2>1
         DEF OpenRecheck, Goto, Others, IInv, CallOK, CallType, HandlesOK
    <2> QED
      BY <1>0, <1>2, <1>c, <2>1, <2>2, QuietSafe
         DEF At, OpenRecheck, fileVars, CallIsSafe, RefPcs, OpenPcs, ClosePcs,
             DeletePcs, UnloadPcs
  <1>3. CASE OpenAllocFails(t)
    <2>1. Others(t) /\ call'[t] = Idle
      BY <1>3 DEF OpenAllocFails, Return, Others, IInv, CallOK
    <2> QED
      BY <1>0, <1>3, <1>c, <2>1, IdleOK, PlaceSets, QuietSafe
         DEF OpenAllocFails, At, fileVars, CallIsSafe
  <1>4. CASE OpenReadRef(t)
    <2>1. /\ Others(t) /\ call'[t].pc = "OpenWrite"
          /\ call'[t].h = h /\ call'[t].n = call[t].n
          /\ UNCHANGED <<listed, live, name, refs, pData, handle, status>>
      BY <1>r, <1>4
         DEF OpenReadRef, At, Undefined, Others, IInv, CallOK, CallType, fileVars
    <2> QED
      BY <1>0, <1>r, <1>4, <1>c, <2>1, QuietSafe
         DEF OpenReadRef, At, CallIsSafe, RefPcs, OpenPcs, DeletePcs, UnloadPcs
  <1>5. CASE OpenWriteRef(t)
    <2>1. /\ Others(t) /\ call'[t].pc = "Link"
          /\ call'[t].h = h /\ call'[t].n = call[t].n
          /\ UNCHANGED <<listed, live, name, refs, pData, handle, status>>
      BY <1>r, <1>5
         DEF OpenWriteRef, At, Undefined, Others, IInv, CallOK, CallType
    <2> QED
      BY <1>0, <1>r, <1>5, <1>c, <2>1, QuietSafe
         DEF OpenWriteRef, At, CallIsSafe, RefPcs, OpenPcs, DeletePcs, UnloadPcs
  <1>6. CASE OpenLink(t)
    <2>1. /\ Others(t) /\ call'[t] = Idle
          /\ UNCHANGED <<listed, live, name, pData, status>>
          /\ \A g \in Handles : g # h => handle'[g] = handle[g]
          /\ handle'[h] = "open"
          /\ \A e \in Files : refs[e] \subseteq refs'[e]
          /\ h \in refs'[f]
      BY <1>0, <1>r, <1>6
         DEF OpenLink, At, Undefined, Return, Others, IInv, CallOK, FilesOK,
             HandlesOK
    <2>2. \A g \in Handles : handle[g] = "open" => pData[g] \in Files
      BY DEF SafeParts, OpenSafe, HandleIsSafe, IInv, FilesOK
    <2> QED
      BY <1>0, <1>r, <1>6, <1>c, <2>1, <2>2, IdleOK, PlaceSets, QuietSafe
         DEF OpenLink, At, CallIsSafe
  <1> QED BY <1>1, <1>2, <1>3, <1>4, <1>5, <1>6

LEMMA QuietCloseSafe ==
  ASSUME IInv, SafeParts, NEW t \in Threads,
         CloseWriteRef(t) \/ CloseUnlink(t)
  PROVE  SafeParts'
  <1> DEFINE h == call[t].h
             f == pData[h]
  <1>0. /\ h \in Handles /\ call[t] \in CallType
        /\ call[t].pc \in {"CloseWrite", "Unlink"}
    BY DEF CloseWriteRef, CloseUnlink, At, ClosePcs, IInv, CallOK, PlacesOK, PlaceOK
  <1>r. f \in Range(listed) /\ f \in live /\ name[f] = call[t].n /\ f \in Files
    BY <1>0 DEF SafeParts, ListSafe, CallSafe, CallIsSafe, RefPcs, ClosePcs,
                IInv, FilesOK
  <1>c. \A g \in Handles : /\ handle[g] # "failed"
                           /\ handle[g] = "open" => /\ g \in refs[pData[g]]
                                                    /\ pData[g] \in Files
    BY DEF SafeParts, OpenSafe, HandleIsSafe, IInv, FilesOK
  <1>1. CASE CloseWriteRef(t)
    <2>1. /\ Others(t) /\ call'[t].pc = "Unlink"
          /\ call'[t].h = h /\ call'[t].n = call[t].n
          /\ UNCHANGED <<listed, live, name, refs, pData, handle, status>>
      BY <1>0, <1>r, <1>1
         DEF CloseWriteRef, At, Undefined, Others, IInv, CallOK, CallType
    <2> QED
      BY <1>0, <1>r, <1>1, <1>c, <2>1, QuietSafe
         DEF CloseWriteRef, At, CallIsSafe, RefPcs, OpenPcs, DeletePcs, UnloadPcs
  <1>2. CASE CloseUnlink(t)
    <2>1. /\ Others(t) /\ call'[t] = Idle
          /\ UNCHANGED <<listed, live, name, status>>
          /\ \A g \in Handles : g # h => handle'[g] = handle[g] /\ pData'[g] = pData[g]
          /\ handle'[h] = "closed"
          /\ \A e \in Files : refs[e] \ {h} \subseteq refs'[e]
      BY <1>0, <1>r, <1>2
         DEF CloseUnlink, At, Undefined, Return, Others, IInv, CallOK, FilesOK,
             HandlesOK
    <2> QED
      BY <1>0, <1>2, <1>c, <2>1, IdleOK, PlaceSets, QuietSafe
         DEF CloseUnlink, At, CallIsSafe
  <1> QED BY <1>1, <1>2

LEMMA QuietBeginSafe ==
  ASSUME IInv, SafeParts, ~unsafe', NEW t \in Threads, NEW h \in Handles,
         \/ \E n \in Names : OpenMissing(t, h, n) \/ OpenSearch(t, h, n)
         \/ CloseReadRef(t, h)
  PROVE  SafeParts'
  <1>0. call[t].pc = "idle" /\ ~InCall(h)
    BY DEF OpenMissing, OpenSearch, MayOpen, CloseReadRef, At
  <1>c. \A g \in Handles : /\ handle[g] # "failed"
                           /\ handle[g] = "open" => g \in refs[pData[g]]
    BY DEF SafeParts, OpenSafe, HandleIsSafe
  <1>1. ASSUME NEW n \in Names, OpenMissing(t, h, n)  PROVE SafeParts'
    <2>1. /\ Others(t) /\ call' = call
          /\ UNCHANGED <<listed, live, name, refs, status>>
          /\ \A g \in Handles : g # h => handle'[g] = handle[g] /\ pData'[g] = pData[g]
          /\ handle'[h] = "closed"
      BY <1>1 DEF OpenMissing, Others, IInv, HandlesOK, fileVars
    <2> QED BY <1>0, <1>c, <2>1, PlaceSets, QuietSafe DEF CallIsSafe
  <1>2. ASSUME NEW n \in Names, OpenSearch(t, h, n)  PROVE SafeParts'
    <2>1. /\ ~FindUndefined(n)
          /\ Find(n) # None => Find(n) \in Range(listed) /\ name[Find(n)] = n
      BY SearchSafe DEF SafeParts
    <2>2. /\ Others(t) /\ call'[t].h = h /\ call'[t].n = n
          /\ call'[t].pc = IF Find(n) = None THEN "Enter" ELSE "OpenRead"
          /\ UNCHANGED <<listed, live, name, refs, status>>
          /\ \A g \in Handles : g # h => handle'[g] = handle[g] /\ pData'[g] = pData[g]
          /\ handle'[h] = "closed" /\ pData'[h] = Find(n)
          /\ ~BeingDeleted(n)
      <3>1. /\ pData' = [pData EXCEPT ![h] = Find(n)]
            /\ handle' = [handle EXCEPT ![h] = "closed"]
            /\ Start(t, h, n, IF Find(n) = None THEN "Enter" ELSE "OpenRead")
            /\ unsafe' = (unsafe \/ BeingDeleted(n))
            /\ UNCHANGED <<listed, live, name, refs, status>>
        BY <1>2, <2>1 DEF OpenSearch, fileVars
      <3>2. /\ Others(t) /\ call'[t].h = h /\ call'[t].n = n
            /\ call'[t].pc = IF Find(n) = None THEN "Enter" ELSE "OpenRead"
        BY <3>1 DEF Start, Others, IInv, CallOK, Idle
      <3> QED BY <3>1, <3>2 DEF IInv, HandlesOK
    <2>3. CallIsSafe(call[t])'
      BY <2>1, <2>2 DEF CallIsSafe, OpenPcs, RefPcs, ClosePcs
    <2>4. ~Unloading
      BY <2>2 DEF BeingDeleted
    <2>5. call'[t].pc \notin DeletePcs \cup UnloadPcs
      BY <2>2 DEF DeletePcs, UnloadPcs
    <2> QED BY <1>0, <1>c, <2>2, <2>3, <2>4, <2>5, QuietSafe
  <1>3. ASSUME CloseReadRef(t, h)  PROVE SafeParts'
    <2>1. /\ handle[h] = "open" /\ pData[h] \in live /\ name[pData[h]] \in Names
          /\ pData[h] \in Range(listed) \/ Taken(pData[h])
      BY <1>3 DEF CloseReadRef, SafeParts, OpenSafe, HandleIsSafe, IInv, HandlesOK
    <2>2. /\ Others(t) /\ call'[t].h = h /\ call'[t].n = name[pData[h]]
          /\ call'[t].pc = "CloseWrite"
          /\ UNCHANGED <<listed, live, name, refs, pData, handle, status>>
          /\ ~BeingDeleted(name[pData[h]])
      BY <1>3, <2>1 DEF CloseReadRef, Undefined, Others, IInv, CallOK, fileVars, Idle
    <2>3. ~Unloading /\ pData[h] \in Range(listed)
      BY <2>1, <2>2 DEF BeingDeleted, Unloading, Taken, UnloadPcs
    <2>4. CallIsSafe(call[t])'
      BY <2>2, <2>3 DEF CallIsSafe, OpenPcs
    <2>5. call'[t].pc \notin DeletePcs \cup UnloadPcs
      BY <2>2 DEF DeletePcs, UnloadPcs
    <2> QED BY <1>0, <1>c, <2>2, <2>3, <2>4, <2>5, QuietSafe
  <1> QED BY <1>1, <1>2, <1>3

(* The unload is over.                                                     *)
LEMMA UnloadEndSafe ==
  ASSUME IInv, SafeParts, NEW t \in Threads, UnloadEnd(t)
  PROVE  SafeParts'
  <1>c. \A g \in Handles : /\ handle[g] # "failed"
                           /\ handle[g] = "open" => g \in refs[pData[g]]
    BY DEF SafeParts, OpenSafe, HandleIsSafe
  <1>1. /\ Others(t) /\ call'[t] = Idle /\ call[t].pc = "Unload"
        /\ UNCHANGED <<listed, live, name, refs, pData, handle, status>>
    BY DEF UnloadEnd, At, Return, Others, IInv, CallOK, fileVars
  <1> QED BY <1>c, <1>1, IdleOK, PlaceSets, QuietSafe DEF CallIsSafe
-------------------------------------------------------------------------------
(* The making of a file                                                    *)

(* What t does to a file that no handle, no list and no deletion has.      *)
LEMMA PrivateSafe ==
  ASSUME IInv, SafeParts, NEW t \in Threads, Others(t), NEW f \in Files,
         call[t].h \in Handles, call[t].n \in Names, handle[call[t].h] = "closed",
         call[t].pc \in OpenPcs,
         f \notin live \/ name[f] = None, f \notin Range(listed),
         \A e \in Files : e # f => /\ e \in live' <=> e \in live
                                   /\ name'[e] = name[e] /\ refs'[e] = refs[e],
         Range(listed') \subseteq Range(listed) \cup {f},
         Range(listed) \subseteq Range(listed'), IsInjective(listed'),
         f \in Range(listed') => f \in live',
         status' = status, handle' = handle,
         \A h \in Handles : h # call[t].h => pData'[h] = pData[h],
         \A u \in Threads \ {t} : call[u].pc = "Init" => pData[call[u].h] # f,
         CallIsSafe(call[t])',
         call'[t].pc \notin DeletePcs \cup UnloadPcs,
         call'[t].n \in {call[t].n, None}
  PROVE  SafeParts'
  <1>0. live \subseteq Files /\ Range(listed) \subseteq live
    BY DEF IInv, FilesOK, SafeParts, ListSafe
  <1>1. ListSafe'
    BY <1>0 DEF SafeParts, ListSafe
  <1>2. ASSUME NEW u \in Threads  PROVE ~(call[u].pc \in UnloadPcs)
    BY PlaceSets DEF SafeParts, UnloadSafe, UnloadIsSafe
  <1>3. ASSUME NEW h \in Handles, handle[h] = "open"
        PROVE  /\ pData'[h] = pData[h] /\ pData[h] \in live /\ pData[h] # f
               /\ name[pData[h]] \in Names /\ h \in refs[pData[h]]
               /\ pData[h] \in Range(listed)
    BY <1>2, <1>3, VfsAssumption
       DEF SafeParts, OpenSafe, HandleIsSafe, Taken, UnloadPcs
  <1>4. OpenSafe'
    <2>1. \A h \in Handles : handle[h] # "failed"
      BY DEF SafeParts, OpenSafe, HandleIsSafe
    <2> QED BY <1>0, <1>3, <2>1 DEF OpenSafe, HandleIsSafe
  <1>5. CallSafe'
    <2>1. ASSUME NEW u \in Threads \ {t}
          PROVE  CallIsSafe(call[u])'
      <3>1. call[u].pc \in OpenPcs \cup ClosePcs =>
              call[u].h \in Handles /\ pData'[call[u].h] = pData[call[u].h]
        BY OthersApart
      <3>2. CallIsSafe(call[u])
        BY DEF SafeParts, CallSafe
      <3>3. call[u].pc = "Init" => pData[call[u].h] \in live \ {f}
        BY <3>2 DEF CallIsSafe
      <3>4. call[u].pc \in RefPcs => pData[call[u].h] \in Range(listed) \ {f}
        BY <3>2 DEF CallIsSafe
      <3> QED BY <1>0, <3>1, <3>2, <3>3, <3>4, PlaceSets DEF CallIsSafe, Others
    <2> QED BY <2>1 DEF CallSafe
  <1>6. DeleteSafe'
    <2> SUFFICES ASSUME NEW u \in Threads \ {t}, call[u].pc \in DeletePcs
                 PROVE  DeleteIsSafe(u)'
      BY DEF DeleteSafe, DeleteIsSafe, Others
    <2>1. /\ call[u].f \in live /\ name[call[u].f] = call[u].n /\ call[u].n \in Names
          /\ call[u].pc = "Destroy" => call[u].f \notin Range(listed)
          /\ call[u].pc # "Assert" => NotOpen(call[u].f)
          /\ \A v \in Threads \ {u} : call[v].n # call[u].n
      BY DEF SafeParts, DeleteSafe, DeleteIsSafe
    <2>2. call[u].f # f
      BY <2>1, VfsAssumption
    <2>3. call'[t].n # call[u].n
      BY <2>1, VfsAssumption
    <2>4. NotOpen(call[u].f) => NotOpen(call[u].f)'
      BY <1>3 DEF NotOpen, Others
    <2> QED BY <1>0, <2>1, <2>2, <2>3, <2>4 DEF DeleteIsSafe, Others
  <1>7. UnloadSafe'
    BY <1>2 DEF UnloadSafe, UnloadIsSafe, Others
  <1> QED BY <1>1, <1>4, <1>5, <1>6, <1>7 DEF SafeParts

LEMMA MakeSafe ==
  ASSUME IInv, SafeParts, NEW t \in Threads,
         OpenAlloc(t) \/ OpenInit(t) \/ OpenInitFails(t)
  PROVE  SafeParts'
  <1> DEFINE h == call[t].h
             n == call[t].n
  <1>0. /\ h \in Handles /\ handle[h] = "closed" /\ n \in Names
        /\ call[t].pc \in OpenPcs /\ call[t] \in CallType
        /\ call[t].pc \in {"Create", "Init"}
    BY DEF OpenAlloc, OpenInit, OpenInitFails, At, OpenPcs, IInv, CallOK,
           PlacesOK, PlaceOK, SafeParts, CallSafe, CallIsSafe
  <1>m. \A u \in Threads \ {t} : call[u].pc # "Init"
    BY <1>0 DEF IInv, MutexOwner
  <1>1. CASE OpenAlloc(t)
    <2>1. PICK f \in Files \ (live \cup Range(listed)) :
            /\ live'  = live \cup {f}
            /\ name'  = [name EXCEPT ![f] = None]
            /\ refs'  = [refs EXCEPT ![f] = {}]
            /\ pData' = [pData EXCEPT ![h] = f]
      BY <1>1 DEF OpenAlloc
    <2>2. /\ Others(t) /\ call'[t].pc = "Init" /\ call'[t].h = h /\ call'[t].n = n
          /\ UNCHANGED <<listed, handle, status>>
      BY <1>0, <1>1 DEF OpenAlloc, Goto, Others, IInv, CallOK, CallType
    <2>3. CallIsSafe(call[t])'
      BY <1>0, <2>1, <2>2
         DEF CallIsSafe, RefPcs, ClosePcs, IInv, FilesOK, HandlesOK
    <2>4. /\ \A e \in Files : e # f => /\ e \in live' <=> e \in live
                                       /\ name'[e] = name[e] /\ refs'[e] = refs[e]
          /\ \A g \in Handles : g # h => pData'[g] = pData[g]
      BY <2>1 DEF IInv, FilesOK, HandlesOK
    <2>5. IsInjective(listed)
      BY DEF SafeParts, ListSafe
    <2>6. call'[t].pc \notin DeletePcs \cup UnloadPcs
      BY <2>2 DEF DeletePcs, UnloadPcs
    <2> QED BY <1>0, <1>m, <2>1, <2>2, <2>3, <2>4, <2>5, <2>6, PrivateSafe
  <1>2. CASE OpenInit(t)
    <2> DEFINE f == pData[h]
    <2>1. f \in live /\ f \notin Range(listed) /\ name[f] = None /\ f \in Files
      BY <1>2 DEF OpenInit, At, SafeParts, CallSafe, CallIsSafe, IInv, FilesOK
    <2>2. /\ Others(t) /\ call'[t].pc = "OpenRead" /\ call'[t].h = h /\ call'[t].n = n
          /\ listed' = Append(listed, f) /\ name' = [name EXCEPT ![f] = n]
          /\ UNCHANGED <<live, refs, pData, handle, status>>
      BY <1>0, <1>2, <2>1
         DEF OpenInit, Undefined, Goto, Others, IInv, CallOK, CallType
    <2>3. Range(listed') = Range(listed) \cup {f} /\ IsInjective(listed')
      BY <2>1, <2>2, RangeAppend DEF IInv, ListedOK, SafeParts, ListSafe
    <2>4. name'[f] = n /\ \A e \in Files : e # f => name'[e] = name[e]
      BY <2>1, <2>2 DEF IInv, FilesOK
    <2>5. CallIsSafe(call[t])'
      BY <1>0, <2>2, <2>3, <2>4 DEF CallIsSafe
    <2>6. call'[t].pc \notin DeletePcs \cup UnloadPcs
      BY <2>2 DEF DeletePcs, UnloadPcs
    <2> HIDE DEF f
    <2> QED BY <1>0, <1>m, <2>1, <2>2, <2>3, <2>4, <2>5, <2>6, PrivateSafe
  <1>3. CASE OpenInitFails(t)
    <2> DEFINE f == pData[h]
    <2>1. f \in live /\ f \notin Range(listed) /\ name[f] = None /\ f \in Files
      BY <1>3 DEF OpenInitFails, At, SafeParts, CallSafe, CallIsSafe, IInv, FilesOK
    <2>2. CASE Stop("assert")
      BY <2>2, StopSafe
    <2>3. CASE /\ Destroy(f) /\ Return(t)
               /\ UNCHANGED <<listed, pData, handle, status>>
      <3>1. /\ Others(t) /\ call'[t] = Idle
            /\ \A e \in Files : e # f => /\ e \in live' <=> e \in live
                                         /\ name'[e] = name[e] /\ refs'[e] = refs[e]
        BY <2>3 DEF Destroy, Return, Others, IInv, CallOK, FilesOK
      <3>2. IsInjective(listed)
        BY DEF SafeParts, ListSafe
      <3>3. CallIsSafe(call[t])' /\ call'[t].pc \notin DeletePcs \cup UnloadPcs
        BY <3>1, IdleOK, PlaceSets DEF CallIsSafe
      <3> HIDE DEF f
      <3> QED BY <1>0, <1>m, <2>1, <2>3, <3>1, <3>2, <3>3, IdleOK, PrivateSafe
    <2> QED BY <1>3, <2>1, <2>2, <2>3 DEF OpenInitFails, DestroyStops, Undefined
  <1> QED BY <1>1, <1>2, <1>3
-------------------------------------------------------------------------------
(* The deletions                                                           *)

(* A count of 0 that has lost no update: nobody has the file open, when    *)
(* no call is about to take out its handle.                                *)
LEMMA CountIsRight ==
  ASSUME CountParts, NEW f \in live, f \notin lost, nRef[f] = 0,
         \A u \in Threads : call[u].pc = "Unlink" => pData[call[u].h] # f
  PROVE  NotOpen(f)
  <1>1. CountedIn(f) = {}
    BY FS_EmptySet DEF CountParts, CountOK
  <1> SUFFICES ASSUME NEW h \in Handles, handle[h] = "open", pData[h] = f
               PROVE  FALSE
    BY DEF NotOpen
  <1>2. h \in CountedIn(f)
    BY DEF CountedIn, Counted
  <1> QED BY <1>1, <1>2

(* The step of a deletion that frees nothing.                              *)
LEMMA DeletionSafe ==
  ASSUME IInv, SafeParts, NEW t \in Threads, Others(t),
         call'[t].pc \in DeletePcs \cup UnloadPcs,
         DeleteIsSafe(t)', UnloadIsSafe(t)',
         UNCHANGED <<live, name, refs, pData, handle, status>>,
         Range(listed') \subseteq Range(listed), IsInjective(listed'),
         \A u \in Threads \ {t} : call[u].pc \in RefPcs =>
           pData[call[u].h] \in Range(listed'),
         \A h \in Handles :
           handle[h] = "open" => pData[h] \in Range(listed') \/ Taken(pData[h])',
         \A u \in Threads \ {t} :
           call[u].pc \in DeletePcs => call'[t].n # call[u].n,
         \A u \in Threads \ {t} : call[u].pc \notin UnloadPcs
  PROVE  SafeParts'
  <1>1. ListSafe' /\ OpenSafe'
    BY DEF SafeParts, ListSafe, OpenSafe, HandleIsSafe
  <1>2. CallSafe'
    <2>1. CallIsSafe(call[t])'
      BY PlaceSets DEF CallIsSafe, FilePcs
    <2>2. ASSUME NEW u \in Threads \ {t}  PROVE CallIsSafe(call[u])'
      BY DEF SafeParts, CallSafe, CallIsSafe, Others
    <2> QED BY <2>1, <2>2 DEF CallSafe
  <1>3. ASSUME NEW u \in Threads \ {t}
        PROVE  DeleteIsSafe(u)' /\ UnloadIsSafe(u)'
    BY DEF SafeParts, DeleteSafe, DeleteIsSafe, UnloadIsSafe, NotOpen, Others
  <1> QED BY <1>1, <1>2, <1>3 DEF SafeParts, DeleteSafe, UnloadSafe

(* A name that no call is at work on gets one xDelete, or it is unsafe.    *)
LEMMA DeleteSearchSafe ==
  ASSUME IInv, SafeParts, ~unsafe', NEW t \in Threads, NEW n \in Names,
         DeleteSearch(t, n)
  PROVE  SafeParts'
  <1>1. /\ Find(n) # None /\ call[t].pc = "idle"
        /\ ~Unloading /\ \A u \in Threads : call[u].n # n
        /\ Others(t) /\ call'[t] = [Idle EXCEPT !.pc = "Assert", !.n = n, !.f = Find(n)]
        /\ UNCHANGED <<listed, live, name, refs, pData, handle, status>>
    BY SearchSafe DEF DeleteSearch, At, SafeParts, fileVars, Others, IInv, CallOK
  <1>2. Find(n) \in Range(listed) /\ name[Find(n)] = n /\ Find(n) \in live
    BY <1>1, SearchSafe DEF SafeParts, ListSafe
  <1>3. call'[t].pc = "Assert" /\ call'[t].n = n /\ call'[t].f = Find(n)
    BY <1>1 DEF Idle
  <1>4. \A u \in Threads : call[u].pc \notin UnloadPcs
    BY <1>1 DEF Unloading
  <1>5. DeleteIsSafe(t)' /\ UnloadIsSafe(t)'
    BY <1>1, <1>2, <1>3 DEF DeleteIsSafe, UnloadIsSafe, UnloadPcs, Others
  <1>6. \A h \in Handles : handle[h] = "open" => pData[h] \in Range(listed)
    BY <1>4 DEF SafeParts, OpenSafe, HandleIsSafe, Taken, UnloadPcs
  <1> QED
    BY <1>1, <1>3, <1>4, <1>5, <1>6, DeletionSafe
       DEF SafeParts, ListSafe, CallSafe, CallIsSafe, DeletePcs

LEMMA DeleteMovesSafe ==
  ASSUME IInv, SafeParts, CountParts, ~unsafe', NEW t \in Threads,
         DeleteAssert(t) \/ DeleteUnlist(t)
  PROVE  SafeParts'
  <1> DEFINE f == call[t].f
             n == call[t].n
  <1>0. /\ call[t].pc \in DeletePcs /\ call[t] \in CallType
        /\ call[t].pc \in {"Assert", "Unlist"}
    BY DEF DeleteAssert, DeleteUnlist, At, DeletePcs, IInv, CallOK
  <1>1. /\ f \in live /\ name[f] = n /\ n \in Names
        /\ call[t].pc # "Assert" => NotOpen(f)
        /\ \A u \in Threads \ {t} : call[u].n # n
    BY <1>0 DEF SafeParts, DeleteSafe, DeleteIsSafe
  <1>2. \A u \in Threads : call[u].pc \notin UnloadPcs
    BY <1>0, PlaceSets DEF SafeParts, UnloadSafe, UnloadIsSafe
  <1>3. \A u \in Threads \ {t} : call[u].pc \in RefPcs =>
          pData[call[u].h] \in Range(listed) /\ pData[call[u].h] # f
    BY <1>1 DEF SafeParts, CallSafe, CallIsSafe
  <1>4. \A h \in Handles : handle[h] = "open" => pData[h] \in Range(listed)
    BY <1>2 DEF SafeParts, OpenSafe, HandleIsSafe, Taken, UnloadPcs
  <1>5. \A u \in Threads : call[u].pc \in DeletePcs /\ u # t => n # call[u].n
    BY <1>1
  <1>6. CASE DeleteAssert(t)
    <2>1. CASE Stop("assert")
      BY <2>1, StopSafe
    <2>2. CASE /\ Goto(t, "Unlist")
               /\ unsafe' = (unsafe \/ nRef[f] # 0 \/ f \in lost)
               /\ UNCHANGED <<listed, fileVars, pData, handle, status>>
      <3>1. /\ Others(t) /\ call'[t].pc = "Unlist"
            /\ call'[t].n = n /\ call'[t].f = f
            /\ UNCHANGED <<listed, live, name, refs, pData, handle, status>>
        BY <1>0, <2>2 DEF Goto, Others, IInv, CallOK, CallType, fileVars
      <3>2. NotOpen(f)
        <4>1. \A u \in Threads : call[u].pc = "Unlink" => pData[call[u].h] # f
          BY <1>0, <1>3 DEF RefPcs, ClosePcs
        <4> QED BY <1>1, <2>2, <4>1, CountIsRight
      <3>3. DeleteIsSafe(t)' /\ UnloadIsSafe(t)'
        BY <1>1, <3>1, <3>2 DEF DeleteIsSafe, UnloadIsSafe, UnloadPcs, Others, NotOpen
      <3>4. call'[t].pc \in DeletePcs /\ IsInjective(listed)
        BY <3>1 DEF DeletePcs, SafeParts, ListSafe
      <3> QED BY <1>2, <1>3, <1>4, <1>5, <3>1, <3>3, <3>4, DeletionSafe
    <2> QED BY <1>1, <1>6, <2>1, <2>2 DEF DeleteAssert, UnusedOrStop, Undefined
  <1>7. CASE DeleteUnlist(t)
    <2>1. /\ Others(t) /\ call'[t].pc = "Destroy"
          /\ call'[t].n = n /\ call'[t].f = f
          /\ UNCHANGED <<live, name, refs, pData, handle, status>>
      BY <1>0, <1>7 DEF DeleteUnlist, Goto, Others, IInv, CallOK, CallType, fileVars
    <2>2. /\ Range(listed') \subseteq Range(listed) /\ IsInjective(listed')
          /\ Range(listed) \subseteq Range(listed') \cup {f}
          /\ f \notin Range(listed')
      BY <1>7, RangeRemove DEF DeleteUnlist, IInv, ListedOK, SafeParts, ListSafe
    <2>3. NotOpen(f)
      BY <1>1, <1>7 DEF DeleteUnlist, At
    <2>4. DeleteIsSafe(t)' /\ UnloadIsSafe(t)'
      BY <1>1, <2>1, <2>2, <2>3
         DEF DeleteIsSafe, UnloadIsSafe, UnloadPcs, Others, NotOpen
    <2>5. call'[t].pc \in DeletePcs
      BY <2>1 DEF DeletePcs
    <2>6. \A h \in Handles : handle[h] = "open" => pData[h] \in Range(listed')
      BY <1>4, <2>2, <2>3 DEF NotOpen
    <2>7. \A u \in Threads \ {t} : call[u].pc \in RefPcs =>
            pData[call[u].h] \in Range(listed')
      BY <1>3, <2>2
    <2> QED BY <1>2, <1>5, <2>1, <2>2, <2>4, <2>5, <2>6, <2>7, DeletionSafe
  <1> QED BY <1>6, <1>7

LEMMA UnloadMovesSafe ==
  ASSUME IInv, SafeParts, CountParts, ~unsafe', NEW t \in Threads,
         UnloadBegin(t) \/ UnloadTake(t) \/ UnloadAssert(t)
  PROVE  SafeParts'
  <1>0. \A u \in Threads \ {t} : call[u].pc = "idle"
    BY DEF UnloadBegin, UnloadTake, UnloadAssert, At, UnloadPcs, SafeParts,
           UnloadSafe, UnloadIsSafe
  <1>1. \A u \in Threads \ {t} : /\ call[u].pc \notin DeletePcs \cup UnloadPcs
                                 /\ call[u].pc \notin RefPcs
    BY <1>0, PlaceSets
  <1>2. call[t] \in CallType /\ IsInjective(listed) /\ Range(listed) \subseteq live
    BY DEF IInv, CallOK, SafeParts, ListSafe
  <1>3. CASE UnloadBegin(t)
    <2>1. /\ Others(t) /\ call'[t].pc = "Unload" /\ call[t].pc = "idle"
          /\ UNCHANGED <<listed, live, name, refs, pData, handle, status>>
      BY <1>3 DEF UnloadBegin, At, Others, IInv, CallOK, fileVars, Idle
    <2>2. DeleteIsSafe(t)' /\ UnloadIsSafe(t)' /\ call'[t].pc \in UnloadPcs
      BY <1>0, <2>1 DEF DeleteIsSafe, UnloadIsSafe, DeletePcs, UnloadPcs, Others
    <2>3. \A h \in Handles : handle[h] = "open" => pData[h] \in Range(listed)
      BY <1>0, <2>1 DEF SafeParts, OpenSafe, HandleIsSafe, Taken
    <2> QED BY <1>1, <1>2, <2>1, <2>2, <2>3, DeletionSafe
  <1>4. CASE UnloadTake(t)
    <2>1. /\ Others(t) /\ call'[t].pc = "UnloadAssert" /\ call'[t].f = Head(listed)
          /\ call[t].pc = "Unload" /\ listed # <<>> /\ listed' = Tail(listed)
          /\ UNCHANGED <<live, name, refs, pData, handle, status>>
      BY <1>2, <1>4 DEF UnloadTake, At, Others, IInv, CallOK, CallType, fileVars
    <2>2. /\ Range(listed) = Range(listed') \cup {Head(listed)}
          /\ IsInjective(listed') /\ Head(listed) \notin Range(listed')
      BY <1>2, <2>1, RangeTail DEF IInv, ListedOK
    <2>3. DeleteIsSafe(t)' /\ UnloadIsSafe(t)' /\ call'[t].pc \in UnloadPcs
      BY <1>0, <1>2, <2>1, <2>2
         DEF DeleteIsSafe, UnloadIsSafe, DeletePcs, UnloadPcs, Others
    <2>4. ASSUME NEW h \in Handles, handle[h] = "open"
          PROVE  pData[h] \in Range(listed') \/ Taken(pData[h])'
      <3>1. pData[h] \in Range(listed)
        BY <1>0, <2>1, <2>4 DEF SafeParts, OpenSafe, HandleIsSafe, Taken
      <3> QED BY <2>1, <2>2, <3>1 DEF Taken
    <2> QED BY <1>1, <2>1, <2>2, <2>3, <2>4, DeletionSafe
  <1>5. CASE UnloadAssert(t)
    <2> DEFINE f == call[t].f
    <2>0. /\ call[t].pc = "UnloadAssert" /\ f \in live \ Range(listed)
      BY <1>5 DEF UnloadAssert, At, SafeParts, UnloadSafe, UnloadIsSafe, UnloadPcs
    <2>1. CASE Stop("assert")
      BY <2>1, StopSafe
    <2>2. CASE /\ Goto(t, "UnloadDestroy")
               /\ unsafe' = (unsafe \/ nRef[f] # 0 \/ f \in lost)
               /\ UNCHANGED <<listed, fileVars, pData, handle, status>>
      <3>1. /\ Others(t) /\ call'[t].pc = "UnloadDestroy" /\ call'[t].f = f
            /\ UNCHANGED <<listed, live, name, refs, pData, handle, status>>
        BY <1>2, <2>2 DEF Goto, Others, IInv, CallOK, CallType, fileVars
      <3>2. NotOpen(f)
        BY <1>0, <2>0, <2>2, CountIsRight
      <3>3. DeleteIsSafe(t)' /\ UnloadIsSafe(t)' /\ call'[t].pc \in UnloadPcs
        BY <1>0, <2>0, <3>1, <3>2
           DEF DeleteIsSafe, UnloadIsSafe, DeletePcs, UnloadPcs, Others, NotOpen
      <3>4. \A h \in Handles : handle[h] = "open" => pData[h] \in Range(listed)
        BY <1>0, <2>0, <3>2
           DEF SafeParts, OpenSafe, HandleIsSafe, Taken, NotOpen
      <3> QED BY <1>1, <1>2, <3>1, <3>3, <3>4, DeletionSafe
    <2> QED BY <1>5, <2>0, <2>1, <2>2 DEF UnloadAssert, UnusedOrStop, Undefined
  <1> QED BY <1>3, <1>4, <1>5

(* The file that is freed is one that nobody else has in hand.             *)
LEMMA FreeSafe ==
  ASSUME IInv, SafeParts, NEW t \in Threads, DeleteDestroy(t) \/ UnloadDestroy(t)
  PROVE  SafeParts'
  <1> DEFINE f == call[t].f
  <1>0. /\ call[t] \in CallType
        /\ \/ call[t].pc \in DeletePcs /\ call[t].pc = "Destroy"
           \/ call[t].pc \in UnloadPcs /\ call[t].pc = "UnloadDestroy"
    BY DEF DeleteDestroy, UnloadDestroy, At, IInv, CallOK, DeletePcs, UnloadPcs
  <1>1. f \in live /\ f \notin Range(listed) /\ NotOpen(f)
    BY <1>0 DEF SafeParts, DeleteSafe, DeleteIsSafe, UnloadSafe, UnloadIsSafe
  <1>2. ASSUME NEW u \in Threads \ {t}
        PROVE  /\ call[u].pc \in RefPcs => pData[call[u].h] # f
               /\ call[u].pc = "Init" => pData[call[u].h] # f
               /\ call[u].pc \in DeletePcs => call[u].f # f
               /\ call[u].pc \notin UnloadPcs
    <2>1. CASE call[t].pc \in UnloadPcs
      <3>1. call[u].pc = "idle"
        BY <2>1 DEF SafeParts, UnloadSafe, UnloadIsSafe
      <3> QED BY <3>1, PlaceSets
    <2>2. CASE call[t].pc \in DeletePcs
      <3>1. /\ name[f] = call[t].n /\ call[t].n \in Names /\ call[u].n # call[t].n
        BY <2>2 DEF SafeParts, DeleteSafe, DeleteIsSafe
      <3>2. call[u].pc \notin UnloadPcs
        BY <2>2, PlaceSets DEF SafeParts, UnloadSafe, UnloadIsSafe
      <3>3. call[u].pc \in RefPcs => name[pData[call[u].h]] = call[u].n
        BY DEF SafeParts, CallSafe, CallIsSafe
      <3>4. call[u].pc = "Init" => name[pData[call[u].h]] = None
        BY DEF SafeParts, CallSafe, CallIsSafe
      <3>5. call[u].pc \in DeletePcs => name[call[u].f] = call[u].n
        BY DEF SafeParts, DeleteSafe, DeleteIsSafe
      <3> QED BY <3>1, <3>2, <3>3, <3>4, <3>5, VfsAssumption
    <2> QED BY <1>0, <2>1, <2>2
  <1>3. CASE Stop("assert")
    BY <1>3, StopSafe
  <1>4. CASE /\ Destroy(f)
             /\ UNCHANGED <<listed, pData, handle, status>>
             /\ \/ DeleteDestroy(t) /\ Return(t)
                \/ /\ UnloadDestroy(t)
                   /\ call' = [call EXCEPT ![t].pc = "Unload", ![t].f = None]
    <2>1. /\ live' = live \ {f}
          /\ \A e \in Files : e # f => name'[e] = name[e] /\ refs'[e] = refs[e]
      BY <1>4 DEF Destroy, IInv, FilesOK
    <2>2. /\ Others(t)
          /\ \/ call'[t] = Idle
             \/ call'[t].pc = "Unload" /\ call[t].pc = "UnloadDestroy"
      BY <1>0, <1>4 DEF UnloadDestroy, At, Return, Others, IInv, CallOK, CallType
    <2>3. live \subseteq Files /\ Range(listed) \subseteq live
      BY DEF IInv, FilesOK, SafeParts, ListSafe
    <2>4. call'[t].pc \in {"idle", "Unload"}
      BY <2>2, IdleOK
    <2> HIDE DEF f
    <2>5. ListSafe'
      BY <1>1, <1>4, <2>1 DEF SafeParts, ListSafe
    <2>6. OpenSafe'
      <3>1. ASSUME NEW h \in Handles, handle[h] = "open", pData[h] \notin Range(listed)
            PROVE  FALSE
        BY <1>0, <1>2, <3>1 DEF SafeParts, OpenSafe, HandleIsSafe, Taken, UnloadPcs
      <3> QED BY <1>1, <1>4, <2>1, <2>3, <3>1
              DEF SafeParts, OpenSafe, HandleIsSafe, NotOpen
    <2>7. CallSafe'
      <3>1. CallIsSafe(call[t])'
        BY <2>4 DEF CallIsSafe, OpenPcs, RefPcs, ClosePcs
      <3>2. ASSUME NEW u \in Threads \ {t}  PROVE CallIsSafe(call[u])'
        BY <1>2, <1>4, <2>1, <2>2, <2>3 DEF SafeParts, CallSafe, CallIsSafe, Others
      <3> QED BY <3>1, <3>2 DEF CallSafe
    <2>8. DeleteSafe'
      <3> SUFFICES ASSUME NEW u \in Threads \ {t}, call[u].pc \in DeletePcs
                   PROVE  DeleteIsSafe(u)'
        BY <2>2, <2>4 DEF DeleteSafe, DeleteIsSafe, DeletePcs, Others
      <3>1. /\ call[u].f \in live /\ name[call[u].f] = call[u].n /\ call[u].n \in Names
            /\ call[u].pc = "Destroy" => call[u].f \notin Range(listed)
            /\ call[u].pc # "Assert" => NotOpen(call[u].f)
            /\ \A v \in Threads \ {u} : call[v].n # call[u].n
        BY DEF SafeParts, DeleteSafe, DeleteIsSafe
      <3>2. call'[t] = Idle
        <4>1. call[t].pc # "UnloadDestroy"
          BY PlaceSets DEF SafeParts, UnloadSafe, UnloadIsSafe, UnloadPcs
        <4> QED BY <2>2, <4>1
      <3> QED BY <1>2, <1>4, <2>1, <2>2, <2>3, <3>1, <3>2, IdleOK, VfsAssumption
              DEF DeleteIsSafe, NotOpen, Others
    <2>9. UnloadSafe'
      <3>1. UnloadIsSafe(t)'
        BY <1>0, <2>2, <2>4, IdleOK, PlaceSets
           DEF SafeParts, UnloadSafe, UnloadIsSafe, Others, UnloadPcs
      <3> QED BY <1>2, <2>2, <3>1 DEF UnloadSafe, UnloadIsSafe, Others
    <2> QED BY <2>5, <2>6, <2>7, <2>8, <2>9 DEF SafeParts
  <1> QED
    BY <1>1, <1>3, <1>4 DEF DeleteDestroy, UnloadDestroy, DestroyStops, Undefined
-------------------------------------------------------------------------------
(* The count of references                                                 *)

(* No link to or from the file of h is made or taken out now.              *)
Linking(h) == \E u \in Threads : call[u].h = h /\ call[u].pc = "Link"

(* A step that begins or ends no count of a handle.                        *)
LEMMA QuietCount ==
  ASSUME IInv, CountParts, NEW t \in Threads, NEW c, CallStep(t, c),
         call[t].pc \notin {"Link", "Unlink"}, c.pc \notin {"Link", "Unlink"},
         c.pc \in ClosePcs => c.h \in Handles /\ handle[c.h] = "open",
         \A h \in Handles : /\ handle'[h] = "open" <=> handle[h] = "open"
                            /\ \/ pData'[h] = pData[h]
                               \/ handle[h] # "open" /\ ~Linking(h),
         live' \subseteq live,
         \A f \in live' : /\ nRef'[f] = nRef[f] /\ refs'[f] = refs[f]
                          /\ f \in lost => f \in lost'
  PROVE  CountParts'
  <1>1. ASSUME NEW h \in Handles, NEW f
        PROVE  Counted(h, f)' <=> Counted(h, f)
    <2>1. \A u \in Threads : /\ call'[u].pc = "Unlink" /\ call'[u].h = h
                                  <=> call[u].pc = "Unlink" /\ call[u].h = h
                             /\ call'[u].pc = "Link" /\ call'[u].h = h
                                  <=> call[u].pc = "Link" /\ call[u].h = h
      BY DEF CallStep
    <2> QED BY <2>1 DEF Counted, Linking
  <1>2. \A f : CountedIn(f)' = CountedIn(f)
    BY <1>1 DEF CountedIn
  <1>3. CountOK'
    BY <1>2 DEF CountParts, CountOK
  <1>4. RefsOpen'
    BY DEF CountParts, RefsOpen, IInv, FilesOK
  <1>5. CloseOpen'
    <2>1. ASSUME NEW u \in Threads \ {t}, call[u].pc \in ClosePcs
          PROVE  handle'[call[u].h] = "open"
      BY <2>1, OthersApart DEF CountParts, CloseOpen
    <2> QED BY <2>1 DEF CloseOpen, CallStep
  <1> QED BY <1>3, <1>4, <1>5 DEF CountParts

(* Only the call of t, if any, has its handle in hand.                     *)
LEMMA HandleIsOwn ==
  ASSUME IInv, NEW t \in Threads, call[t].h \in Handles
  PROVE  \A u \in Threads : call[u].h = call[t].h => u = t
  BY VfsAssumption DEF IInv, HandlesApart

LEMMA BeginCount ==
  ASSUME IInv, SafeParts, CountParts, ~unsafe', NEW t \in Threads, Begin(t)
  PROVE  CountParts'
  <1>1. ASSUME NEW h \in Handles, NEW n \in Names, OpenMissing(t, h, n)
        PROVE  CountParts'
    <2>1. CallStep(t, call[t]) /\ call[t].pc = "idle"
      BY <1>1 DEF OpenMissing, MayOpen, At, IInv, CallOK, CallStep
    <2>2. handle[h] # "open" /\ ~Linking(h)
      BY <1>1 DEF OpenMissing, MayOpen, InCall, Linking
    <2> QED BY <1>1, <2>1, <2>2, QuietCount
            DEF OpenMissing, fileVars, IInv, HandlesOK, ClosePcs
  <1>2. ASSUME NEW h \in Handles, NEW n \in Names, OpenSearch(t, h, n)
        PROVE  CountParts'
    <2> DEFINE pc == IF Find(n) = None THEN "Enter" ELSE "OpenRead"
               c  == [Idle EXCEPT !.pc = pc, !.h = h, !.n = n]
    <2>1. /\ call[t].pc = "idle" /\ handle[h] # "open" /\ ~Linking(h)
      BY <1>2 DEF OpenSearch, MayOpen, At, InCall, Linking
    <2>2. ~FindUndefined(n)
      BY SearchSafe DEF SafeParts
    <2>3. /\ pData'  = [pData EXCEPT ![h] = Find(n)]
          /\ handle' = [handle EXCEPT ![h] = "closed"]
          /\ call' = [call EXCEPT ![t] = c]
          /\ UNCHANGED <<fileVars, lost>>
      BY <1>2, <2>2 DEF OpenSearch, Start
    <2>4. c.pc \in {"Enter", "OpenRead"}
      BY DEF Idle
    <2> HIDE DEF c
    <2>5. CallStep(t, c)
      BY <2>3 DEF IInv, CallOK, CallStep
    <2> QED BY <2>1, <2>3, <2>4, <2>5, QuietCount
            DEF fileVars, IInv, HandlesOK, ClosePcs
  <1>3. ASSUME NEW h \in Handles, CloseReadRef(t, h)
        PROVE  CountParts'
    <2> DEFINE c == [Idle EXCEPT !.pc = "CloseWrite", !.h = h,
                       !.n = name[pData[h]], !.tmp = nRef[pData[h]]]
    <2>1. handle[h] = "open" /\ pData[h] \in live /\ call[t].pc = "idle"
      BY <1>3 DEF CloseReadRef, At, SafeParts, OpenSafe, HandleIsSafe, IInv, HandlesOK
    <2>2. /\ call' = [call EXCEPT ![t] = c]
          /\ UNCHANGED <<fileVars, pData, handle, lost>>
      BY <1>3, <2>1 DEF CloseReadRef, Undefined
    <2>3. c.pc = "CloseWrite" /\ c.h = h
      BY DEF Idle
    <2> HIDE DEF c
    <2>4. CallStep(t, c)
      BY <2>2 DEF IInv, CallOK, CallStep
    <2> QED BY <2>1, <2>2, <2>3, <2>4, QuietCount DEF fileVars
  <1>4. ASSUME NEW n \in Names, DeleteSearch(t, n)
        PROVE  CountParts'
    <2> DEFINE c == [Idle EXCEPT !.pc = "Assert", !.n = n, !.f = Find(n)]
    <2>1. call[t].pc = "idle" /\ ~FindUndefined(n)
      BY <1>4, SearchSafe DEF DeleteSearch, At, SafeParts
    <2>2. /\ call' = [call EXCEPT ![t] = c]
          /\ UNCHANGED <<fileVars, pData, handle, lost>>
      BY <1>4, <2>1 DEF DeleteSearch
    <2>3. c.pc = "Assert"
      BY DEF Idle
    <2> HIDE DEF c
    <2>4. CallStep(t, c)
      BY <2>2 DEF IInv, CallOK, CallStep
    <2> QED BY <2>1, <2>2, <2>3, <2>4, QuietCount DEF fileVars, ClosePcs
  <1>5. CASE UnloadBegin(t)
    <2>1. /\ call[t].pc = "idle"
          /\ call' = [call EXCEPT ![t] = [Idle EXCEPT !.pc = "Unload"]]
          /\ UNCHANGED <<fileVars, pData, handle, lost>>
      BY <1>5 DEF UnloadBegin, At
    <2> DEFINE c == [Idle EXCEPT !.pc = "Unload"]
    <2>2. CallStep(t, c) /\ c.pc = "Unload"
      BY <2>1 DEF IInv, CallOK, CallStep, Idle
    <2> HIDE DEF c
    <2> QED BY <2>1, <2>2, QuietCount DEF fileVars, ClosePcs
  <1> QED BY <1>1, <1>2, <1>3, <1>4, <1>5 DEF Begin

LEMMA CountStops ==
  ASSUME CountParts, NEW how, Stop(how)
  PROVE  CountParts'
  <1>1. UNCHANGED <<live, nRef, refs, pData, handle, call, lost>>
    BY DEF Stop, fileVars
  <1>2. \A f : CountedIn(f)' = CountedIn(f)
    BY <1>1 DEF CountedIn, Counted
  <1> QED BY <1>1, <1>2 DEF CountParts, CountOK, RefsOpen, CloseOpen

LEMMA MutexCount ==
  ASSUME IInv, SafeParts, CountParts, NEW t \in Threads,
         OpenEnter(t) \/ OpenRecheck(t) \/ OpenAllocFails(t)
  PROVE  CountParts'
  <1>0. call[t] \in CallType /\ call[t].pc \in {"Enter", "Recheck", "Create"}
    BY DEF IInv, CallOK, OpenEnter, OpenRecheck, OpenAllocFails, At
  <1>1. call[t].h \in Handles /\ handle[call[t].h] = "closed" /\ ~Linking(call[t].h)
    <2>1. call[t].h \in Handles /\ handle[call[t].h] = "closed"
      BY <1>0 DEF IInv, PlacesOK, PlaceOK, OpenPcs, SafeParts, CallSafe, CallIsSafe
    <2> QED BY <1>0, <2>1, HandleIsOwn DEF Linking
  <1>2. PICK c : CallStep(t, c) /\ c.pc \in {"Recheck", "Create", "OpenRead", "idle"}
    <2>0. ASSUME NEW pc, Goto(t, pc)
          PROVE  \E c : CallStep(t, c) /\ c.pc = pc
      <3>1. CallStep(t, [call[t] EXCEPT !.pc = pc])
        BY <2>0, GotoStep DEF IInv
      <3>2. [call[t] EXCEPT !.pc = pc].pc = pc
        BY <1>0 DEF CallType
      <3> QED BY <3>1, <3>2
    <2>1. CASE OpenEnter(t)
      BY <2>0, <2>1 DEF OpenEnter
    <2>2. CASE OpenRecheck(t)
      <3>1. ~FindUndefined(call[t].n)
        BY SearchSafe DEF SafeParts
      <3>2. Goto(t, "Create") \/ Goto(t, "OpenRead")
        BY <2>2, <3>1 DEF OpenRecheck
      <3> QED BY <2>0, <3>2
    <2>3. CASE OpenAllocFails(t)
      BY <2>3, ReturnStep, IdleOK DEF OpenAllocFails, IInv
    <2> QED BY <2>1, <2>2, <2>3
  <1>3. /\ UNCHANGED <<fileVars, handle, lost>>
        /\ \A h \in Handles : h # call[t].h => pData'[h] = pData[h]
    <2>1. ~FindUndefined(call[t].n)
      BY SearchSafe DEF SafeParts
    <2> QED BY <2>1 DEF OpenEnter, OpenRecheck, OpenAllocFails, IInv, HandlesOK
  <1> QED BY <1>0, <1>1, <1>2, <1>3, QuietCount DEF fileVars, ClosePcs

LEMMA OpenReadRefCount ==
  ASSUME IInv, SafeParts, CountParts, NEW t \in Threads, OpenReadRef(t)
  PROVE  CountParts'
  <1> DEFINE f == pData[call[t].h]
             c == [call[t] EXCEPT !.pc = "OpenWrite", !.tmp = nRef[f]]
  <1>1. CASE Stop("undefined")
    BY <1>1, CountStops
  <1>2. CASE /\ call' = [call EXCEPT ![t].pc = "OpenWrite", ![t].tmp = nRef[f]]
             /\ UNCHANGED <<fileVars, pData, handle, lost>>
    <2>1. CallStep(t, c) /\ c.pc = "OpenWrite"
      BY <1>2 DEF IInv, CallOK, CallType, CallStep
    <2>2. call[t].pc = "OpenRead"
      BY DEF OpenReadRef, At
    <2> HIDE DEF c
    <2> QED BY <1>2, <2>1, <2>2, QuietCount DEF fileVars, ClosePcs
  <1> QED BY <1>1, <1>2 DEF OpenReadRef, Undefined

(* A file that is freed takes no handle with it.                           *)
LEMMA FreeCount ==
  ASSUME IInv, CountParts, NEW t \in Threads, NEW c, CallStep(t, c),
         call[t].pc \notin {"Link", "Unlink"}, c.pc \in {"idle", "Unload"},
         NEW f, Destroy(f), UNCHANGED <<pData, handle>>
  PROVE  CountParts'
  <1>1. live' = live \ {f} /\ live \subseteq Files
    BY DEF Destroy, IInv, FilesOK
  <1>2. \A e \in live' : /\ nRef'[e] = nRef[e] /\ refs'[e] = refs[e]
                         /\ e \in lost => e \in lost'
    BY <1>1 DEF Destroy, IInv, FilesOK
  <1> QED BY <1>1, <1>2, QuietCount DEF ClosePcs

(* The new file is one nobody has.                                         *)
LEMMA OpenAllocCount ==
  ASSUME IInv, SafeParts, CountParts, NEW t \in Threads, OpenAlloc(t)
  PROVE  CountParts'
  <1> DEFINE h == call[t].h
             c == [call[t] EXCEPT !.pc = "Init"]
  <1>0. call[t].pc = "Create" /\ h \in Handles /\ handle[h] = "closed"
    BY DEF OpenAlloc, At, IInv, PlacesOK, PlaceOK, OpenPcs, SafeParts, CallSafe, CallIsSafe
  <1>1. PICK f \in Files \ (live \cup Range(listed)) :
          /\ live' = live \cup {f}
          /\ nRef' = [nRef EXCEPT ![f] = 0]
          /\ refs' = [refs EXCEPT ![f] = {}]
          /\ pData' = [pData EXCEPT ![h] = f]
    BY DEF OpenAlloc
  <1>2. /\ CallStep(t, c) /\ c.pc = "Init" /\ c.h = h
        /\ UNCHANGED <<handle, lost>>
    BY DEF OpenAlloc, IInv, CallOK, CallType, CallStep, Goto
  <1>3. \A u \in Threads : call[u].h = h => u = t
    BY <1>0, HandleIsOwn
  <1> HIDE DEF c
  <1>4. ASSUME NEW g \in Handles, NEW e
        PROVE  Counted(g, e)' <=> Counted(g, e)
    <2>1. \A u \in Threads : /\ call'[u].pc = "Unlink" /\ call'[u].h = g
                                  <=> call[u].pc = "Unlink" /\ call[u].h = g
                             /\ call'[u].pc = "Link" /\ call'[u].h = g
                                  <=> call[u].pc = "Link" /\ call[u].h = g
      BY <1>0, <1>2 DEF CallStep
    <2>2. CASE g = h
      BY <1>0, <1>2, <1>3, <2>1, <2>2 DEF Counted
    <2>3. CASE g # h
      <3>1. pData'[g] = pData[g]
        BY <1>1, <2>3 DEF IInv, HandlesOK
      <3> QED BY <1>2, <2>1, <3>1 DEF Counted
    <2> QED BY <2>2, <2>3
  <1>5. \A e : CountedIn(e)' = CountedIn(e)
    BY <1>4 DEF CountedIn
  <1>6. CountedIn(f) = {}
    <2> SUFFICES ASSUME NEW g \in Handles, Counted(g, f)
                 PROVE  FALSE
      BY DEF CountedIn
    <2>1. pData[g] \in live
      BY DEF Counted, SafeParts, ListSafe, OpenSafe, HandleIsSafe, CallSafe,
             CallIsSafe, RefPcs
    <2> QED BY <1>1, <2>1 DEF Counted
  <1>7. CountOK'
    <2>1. nRef'[f] = 0 /\ \A e \in live : nRef'[e] = nRef[e]
      BY <1>1 DEF IInv, FilesOK
    <2> QED BY <1>1, <1>2, <1>5, <1>6, <2>1, FS_EmptySet DEF CountParts, CountOK
  <1>8. RefsOpen'
    <2>1. refs'[f] = {} /\ \A e \in live : refs'[e] = refs[e]
      BY <1>1 DEF IInv, FilesOK
    <2>2. \A g \in Handles : handle[g] = "open" => pData'[g] = pData[g]
      BY <1>0, <1>1 DEF IInv, HandlesOK
    <2>3. \A e \in live : refs[e] \subseteq Handles
      BY DEF IInv, FilesOK
    <2> QED BY <1>1, <1>2, <2>1, <2>2, <2>3 DEF CountParts, RefsOpen
  <1>9. CloseOpen'
    BY <1>2 DEF CountParts, CloseOpen, CallStep, ClosePcs
  <1> QED BY <1>7, <1>8, <1>9 DEF CountParts

(* Its initialisation, and its end when that fails, have no handle.        *)
LEMMA OpenInitCount ==
  ASSUME IInv, SafeParts, CountParts, NEW t \in Threads,
         OpenInit(t) \/ OpenInitFails(t)
  PROVE  CountParts'
  <1> DEFINE f == pData[call[t].h]
  <1>0. call[t].pc = "Init"
    BY DEF OpenInit, OpenInitFails, At
  <1>1. CASE Stop("assert") \/ Stop("undefined")
    BY <1>1, CountStops
  <1>2. CASE /\ Goto(t, "OpenRead")
             /\ UNCHANGED <<live, nRef, refs, pData, handle, lost>>
    <2> DEFINE c == [call[t] EXCEPT !.pc = "OpenRead"]
    <2>1. CallStep(t, c) /\ c.pc = "OpenRead"
      BY <1>2, GotoStep DEF IInv, CallOK, CallType
    <2> HIDE DEF c
    <2> QED BY <1>0, <1>2, <2>1, QuietCount DEF ClosePcs
  <1>3. CASE Destroy(f) /\ Return(t) /\ UNCHANGED <<pData, handle>>
    BY <1>0, <1>3, IdleOK, ReturnStep, FreeCount DEF IInv
  <1> QED BY <1>1, <1>2, <1>3
          DEF OpenInit, OpenInitFails, DestroyStops, Undefined
(* A step of t that begins or ends the count of its own handle only.       *)
LEMMA OthersCount ==
  ASSUME IInv, NEW t \in Threads, NEW c, CallStep(t, c), call[t].h \in Handles,
         c.h \in {None, call[t].h},
         NEW h \in Handles, h # call[t].h,
         pData'[h] = pData[h], handle'[h] = handle[h], NEW f
  PROVE  Counted(h, f)' <=> Counted(h, f)
  <1>1. \A u \in Threads : /\ call'[u].pc = "Unlink" /\ call'[u].h = h
                                <=> call[u].pc = "Unlink" /\ call[u].h = h
                           /\ call'[u].pc = "Link" /\ call'[u].h = h
                                <=> call[u].pc = "Link" /\ call[u].h = h
    BY VfsAssumption DEF CallStep
  <1> QED BY <1>1 DEF Counted

(* The store of the count of the file of the call's handle: the handle     *)
(* begins or ends to be counted with it.                                   *)
LEMMA StoreCount ==
  ASSUME IInv, SafeParts, CountParts, NEW t \in Threads, NEW c, CallStep(t, c),
         NEW h \in Handles, call[t].h = h, c.h = h, NEW f \in live, NEW n \in Int,
         pData[h] = f, nRef' = [nRef EXCEPT ![f] = n], Overwrites(t, f),
         UNCHANGED <<live, refs, pData, handle>>,
         c.pc \in ClosePcs => handle[c.h] = "open",
         \/ /\ n = call[t].tmp + 1
            /\ ~Counted(h, f) /\ Counted(h, f)'
         \/ /\ n = call[t].tmp - 1
            /\ Counted(h, f) /\ ~Counted(h, f)'
  PROVE  CountParts'
  <1>1. ASSUME NEW g \in Handles, g # h, NEW e
        PROVE  Counted(g, e)' <=> Counted(g, e)
    BY <1>1, OthersCount
  <1>2. ASSUME NEW e \in live, e # f
        PROVE  CountedIn(e)' = CountedIn(e)
    BY <1>1, <1>2 DEF CountedIn, Counted
  <1>3. \/ /\ n = call[t].tmp + 1
           /\ h \notin CountedIn(f) /\ CountedIn(f)' = CountedIn(f) \cup {h}
        \/ /\ n = call[t].tmp - 1
           /\ h \in CountedIn(f) /\ CountedIn(f)' = CountedIn(f) \ {h}
    <2>1. \A g \in Handles : g # h => (g \in CountedIn(f)' <=> g \in CountedIn(f))
      BY <1>1 DEF CountedIn
    <2>2. CountedIn(f) \subseteq Handles /\ CountedIn(f)' \subseteq Handles
      BY DEF CountedIn
    <2>3. (h \in CountedIn(f) <=> Counted(h, f)) /\ (h \in CountedIn(f)' <=> Counted(h, f)')
      BY DEF CountedIn
    <2> QED BY <2>1, <2>2, <2>3
  <1>4. /\ nRef'[f] = n /\ lost \subseteq lost'
        /\ \A e \in live : e # f => nRef'[e] = nRef[e]
        /\ f \notin lost' => f \notin lost /\ nRef[f] = call[t].tmp
    BY DEF Overwrites, IInv, FilesOK
  <1>5. IsFiniteSet(CountedIn(f)) /\ Cardinality(CountedIn(f)) \in Nat
    BY FS_CardinalityType DEF CountParts, CountOK
  <1>6. f \notin lost' => Cardinality(CountedIn(f)) = call[t].tmp
    BY <1>4 DEF CountParts, CountOK
  <1>7. IsFiniteSet(CountedIn(f)') /\ (f \notin lost' => n = Cardinality(CountedIn(f)'))
    BY <1>3, <1>5, <1>6, FS_AddElement, FS_RemoveElement
  <1>8. CountOK'
    <2>1. ASSUME NEW e \in live, e # f
          PROVE  /\ IsFiniteSet(CountedIn(e)')
                 /\ e \notin lost' => nRef'[e] = Cardinality(CountedIn(e)')
      BY <1>2, <1>4, <2>1 DEF CountParts, CountOK
    <2>2. ASSUME NEW e \in live'
          PROVE  /\ IsFiniteSet(CountedIn(e)')
                 /\ e \notin lost' => nRef'[e] = Cardinality(CountedIn(e)')
      BY <1>4, <1>7, <2>1
    <2> QED BY <2>2 DEF CountOK
  <1>9. RefsOpen'
    BY DEF CountParts, RefsOpen
  <1>10. CloseOpen'
    BY DEF CountParts, CloseOpen, CallStep
  <1> QED BY <1>8, <1>9, <1>10 DEF CountParts

LEMMA OpenWriteRefCount ==
  ASSUME IInv, SafeParts, CountParts, NEW t \in Threads, OpenWriteRef(t)
  PROVE  CountParts'
  <1>h. PICK h, f : call[t].h = h /\ pData[h] = f
    OBVIOUS
  <1> DEFINE c == [call[t] EXCEPT !.pc = "Link", !.tmp = 0]
  <1>0. /\ call[t].pc = "OpenWrite" /\ h \in Handles /\ handle[h] = "closed"
        /\ call[t].tmp \in Int
    BY <1>h DEF OpenWriteRef, At, IInv, PlacesOK, PlaceOK, OpenPcs, SafeParts,
       CallSafe, CallIsSafe, CallOK, CallType
  <1>1. CASE Stop("undefined")
    BY <1>1, CountStops
  <1>2. CASE /\ f \in live
             /\ nRef' = [nRef EXCEPT ![f] = call[t].tmp + 1]
             /\ Overwrites(t, f)
             /\ call' = [call EXCEPT ![t].pc = "Link", ![t].tmp = 0]
             /\ UNCHANGED <<live, refs, pData, handle>>
    <2>1. CallStep(t, c) /\ c.pc = "Link" /\ c.h = h
      BY <1>h, <1>2 DEF IInv, CallOK, CallType, CallStep
    <2> HIDE DEF c
    <2>2. ~Counted(h, f)
      BY <1>h, <1>0, HandleIsOwn DEF Counted
    <2>3. Counted(h, f)'
      BY <1>h, <1>2, <2>1 DEF Counted, CallStep
    <2>4. call[t].tmp + 1 \in Int /\ c.pc \notin ClosePcs
      BY <1>0, <2>1 DEF ClosePcs
    <2> QED BY <1>h, <1>0, <1>2, <2>1, <2>2, <2>3, <2>4, StoreCount
  <1> QED BY <1>h, <1>1, <1>2 DEF OpenWriteRef, Undefined

LEMMA CloseWriteRefCount ==
  ASSUME IInv, SafeParts, CountParts, NEW t \in Threads, CloseWriteRef(t)
  PROVE  CountParts'
  <1>h. PICK h, f : call[t].h = h /\ pData[h] = f
    OBVIOUS
  <1> DEFINE c == [call[t] EXCEPT !.pc = "Unlink", !.tmp = 0]
  <1>0. /\ call[t].pc = "CloseWrite" /\ h \in Handles /\ handle[h] = "open"
        /\ call[t].tmp \in Int
    BY <1>h DEF CloseWriteRef, At, IInv, PlacesOK, PlaceOK, ClosePcs, CountParts,
       CloseOpen, CallOK, CallType
  <1>1. CASE Stop("undefined")
    BY <1>1, CountStops
  <1>2. CASE /\ f \in live
             /\ nRef' = [nRef EXCEPT ![f] = call[t].tmp - 1]
             /\ Overwrites(t, f)
             /\ call' = [call EXCEPT ![t].pc = "Unlink", ![t].tmp = 0]
             /\ UNCHANGED <<live, refs, pData, handle>>
    <2>1. CallStep(t, c) /\ c.pc = "Unlink" /\ c.h = h
      BY <1>h, <1>2 DEF IInv, CallOK, CallType, CallStep
    <2> HIDE DEF c
    <2>2. Counted(h, f)
      BY <1>h, <1>0, HandleIsOwn DEF Counted
    <2>3. ~Counted(h, f)'
      <3>1. \A u \in Threads : call'[u].h = h => u = t
        BY <1>h, <1>0, <2>1, HandleIsOwn DEF CallStep
      <3> QED BY <1>h, <1>2, <2>1, <3>1 DEF Counted, CallStep
    <2>4. call[t].tmp - 1 \in Int
      BY <1>0
    <2> QED BY <1>h, <1>0, <1>2, <2>1, <2>2, <2>3, <2>4, StoreCount
  <1> QED BY <1>h, <1>1, <1>2 DEF CloseWriteRef, Undefined

(* The link of the handle is made after the count and taken out after it.  *)
LEMMA OpenLinkCount ==
  ASSUME IInv, SafeParts, CountParts, NEW t \in Threads, OpenLink(t)
  PROVE  CountParts'
  <1> DEFINE h == call[t].h
             f == pData[h]
  <1>0. call[t].pc = "Link" /\ h \in Handles /\ handle[h] = "closed"
    BY DEF OpenLink, At, IInv, PlacesOK, PlaceOK, OpenPcs, SafeParts, CallSafe, CallIsSafe
  <1>1. CASE Stop("undefined")
    BY <1>1, CountStops
  <1>2. CASE /\ f \in live
             /\ refs' = [refs EXCEPT ![f] = @ \cup {h}]
             /\ handle' = [handle EXCEPT ![h] = "open"]
             /\ Return(t)
             /\ UNCHANGED <<live, nRef, pData, lost>>
    <2>1. CallStep(t, Idle)
      BY <1>2, ReturnStep DEF IInv
    <2>2. \A g \in Handles : g # h => handle'[g] = handle[g]
      BY <1>2 DEF IInv, HandlesOK
    <2>3. handle'[h] = "open"
      BY <1>0, <1>2 DEF IInv, HandlesOK
    <2>4. ASSUME NEW g \in Handles, NEW e \in live
          PROVE  Counted(g, e)' <=> Counted(g, e)
      <3>1. CASE g # h
        BY <1>0, <1>2, <2>1, <2>2, <3>1, IdleOK, OthersCount
      <3>2. CASE g = h
        <4>1. \A u \in Threads : call'[u].h # h
          BY <1>0, <2>1, HandleIsOwn, IdleOK, VfsAssumption DEF CallStep
        <4> QED BY <1>0, <1>2, <2>3, <3>2, <4>1 DEF Counted
      <3> QED BY <3>1, <3>2
    <2>5. \A e \in live : CountedIn(e)' = CountedIn(e)
      BY <2>4 DEF CountedIn
    <2>6. CountOK'
      BY <1>2, <2>5 DEF CountParts, CountOK
    <2>7. RefsOpen'
      <3>1. \A e \in live : refs[e] \subseteq Handles
        BY DEF IInv, FilesOK
      <3>2. refs'[f] = refs[f] \cup {h} /\ \A e \in live : e # f => refs'[e] = refs[e]
        BY <1>2 DEF IInv, FilesOK
      <3> QED BY <1>0, <1>2, <2>2, <2>3, <3>1, <3>2 DEF CountParts, RefsOpen
    <2>8. CloseOpen'
      <3>1. ASSUME NEW u \in Threads \ {t}, call[u].pc \in ClosePcs
            PROVE  handle'[call[u].h] = "open"
        BY <2>2, <3>1, OthersApart DEF CountParts, CloseOpen
      <3> QED BY <2>1, <3>1, IdleOK, PlaceSets DEF CloseOpen, CallStep
    <2> QED BY <2>6, <2>7, <2>8 DEF CountParts
  <1> QED BY <1>1, <1>2 DEF OpenLink, Undefined

LEMMA CloseUnlinkCount ==
  ASSUME IInv, SafeParts, CountParts, NEW t \in Threads, CloseUnlink(t)
  PROVE  CountParts'
  <1> DEFINE h == call[t].h
             f == pData[h]
  <1>0. call[t].pc = "Unlink" /\ h \in Handles
    BY DEF CloseUnlink, At, IInv, PlacesOK, PlaceOK, ClosePcs
  <1>1. CASE Stop("undefined")
    BY <1>1, CountStops
  <1>2. CASE /\ f \in live
             /\ refs' = [refs EXCEPT ![f] = @ \ {h}]
             /\ pData' = [pData EXCEPT ![h] = None]
             /\ handle' = [handle EXCEPT ![h] = "closed"]
             /\ Return(t)
             /\ UNCHANGED <<live, nRef, lost>>
    <2>1. CallStep(t, Idle)
      BY <1>2, ReturnStep DEF IInv
    <2>2. \A g \in Handles : g # h => handle'[g] = handle[g] /\ pData'[g] = pData[g]
      BY <1>2 DEF IInv, HandlesOK
    <2>3. handle'[h] = "closed" /\ pData'[h] = None
      BY <1>0, <1>2 DEF IInv, HandlesOK
    <2>4. ASSUME NEW g \in Handles, NEW e \in live
          PROVE  Counted(g, e)' <=> Counted(g, e)
      <3>1. CASE g # h
        BY <1>0, <2>1, <2>2, <3>1, IdleOK, OthersCount
      <3>2. CASE g = h
        <4>1. e # None
          BY VfsAssumption DEF IInv, FilesOK
        <4>2. \A u \in Threads : call[u].h = h => call[u].pc # "Link"
          BY <1>0, HandleIsOwn
        <4> QED BY <1>0, <2>3, <3>2, <4>1, <4>2 DEF Counted
      <3> QED BY <3>1, <3>2
    <2>5. \A e \in live : CountedIn(e)' = CountedIn(e)
      BY <2>4 DEF CountedIn
    <2>6. CountOK'
      BY <1>2, <2>5 DEF CountParts, CountOK
    <2>7. RefsOpen'
      <3> SUFFICES ASSUME NEW e \in live, NEW g \in refs'[e]
                   PROVE  handle'[g] = "open" /\ pData'[g] = e
        BY <1>2 DEF RefsOpen
      <3>1. refs'[e] = IF e = f THEN refs[e] \ {h} ELSE refs[e]
        BY <1>2 DEF IInv, FilesOK
      <3>2. g \in Handles /\ handle[g] = "open" /\ pData[g] = e
        BY <3>1 DEF IInv, FilesOK, CountParts, RefsOpen
      <3>3. g # h
        BY <3>1, <3>2
      <3> QED BY <2>2, <3>2, <3>3
    <2>8. CloseOpen'
      <3>1. ASSUME NEW u \in Threads \ {t}, call[u].pc \in ClosePcs
            PROVE  handle'[call[u].h] = "open"
        BY <2>2, <3>1, OthersApart DEF CountParts, CloseOpen
      <3> QED BY <2>1, <3>1, IdleOK, PlaceSets DEF CloseOpen, CallStep
    <2> QED BY <2>6, <2>7, <2>8 DEF CountParts
  <1> QED BY <1>1, <1>2 DEF CloseUnlink, Undefined

LEMMA DeletionCount ==
  ASSUME IInv, CountParts, NEW t \in Threads,
         \/ DeleteAssert(t) \/ DeleteUnlist(t) \/ DeleteDestroy(t)
         \/ UnloadTake(t) \/ UnloadAssert(t) \/ UnloadDestroy(t) \/ UnloadEnd(t)
  PROVE  CountParts'
  <1> DEFINE f == call[t].f
  <1>0. /\ call[t] \in CallType
        /\ call[t].pc \notin {"Link", "Unlink"}
    BY DEF IInv, CallOK, DeleteAssert, DeleteUnlist, DeleteDestroy, UnloadTake,
           UnloadAssert, UnloadDestroy, UnloadEnd, At
  <1>1. CASE Stop("assert") \/ Stop("undefined")
    BY <1>1, CountStops
  <1>2. ASSUME NEW c, CallStep(t, c), UNCHANGED <<fileVars, pData, handle, lost>>,
               c.pc \in {"idle", "Unlist", "Destroy", "UnloadAssert", "UnloadDestroy"}
        PROVE  CountParts'
    BY <1>0, <1>2, QuietCount DEF fileVars, ClosePcs
  <1>3. ASSUME NEW pc \in {"Unlist", "Destroy", "UnloadDestroy"}, Goto(t, pc),
               UNCHANGED <<fileVars, pData, handle, lost>>
        PROVE  CountParts'
    <2> DEFINE c == [call[t] EXCEPT !.pc = pc]
    <2>1. CallStep(t, c) /\ c.pc = pc
      BY <1>0, <1>3, GotoStep DEF IInv, CallType
    <2> HIDE DEF c
    <2> QED BY <1>2, <1>3, <2>1
  <1>4. CASE DeleteAssert(t) \/ DeleteUnlist(t) \/ UnloadAssert(t)
    BY <1>1, <1>3, <1>4
       DEF DeleteAssert, DeleteUnlist, UnloadAssert, UnusedOrStop, Undefined
  <1>5. CASE UnloadTake(t)
    <2> DEFINE c == [call[t] EXCEPT !.pc = "UnloadAssert", !.f = Head(listed)]
    <2>1. CallStep(t, c) /\ c.pc = "UnloadAssert"
      BY <1>0, <1>5 DEF UnloadTake, IInv, CallOK, CallType, CallStep
    <2> HIDE DEF c
    <2> QED BY <1>2, <1>5, <2>1 DEF UnloadTake
  <1>6. CASE UnloadEnd(t)
    BY <1>2, <1>6, IdleOK, ReturnStep DEF UnloadEnd, IInv
  <1>7. CASE /\ Destroy(f) /\ UNCHANGED <<pData, handle>>
             /\ \/ Return(t)
                \/ call' = [call EXCEPT ![t].pc = "Unload", ![t].f = None]
    <2>1. PICK c : CallStep(t, c) /\ c.pc \in {"idle", "Unload"}
      <3>1. CASE Return(t)
        BY <3>1, IdleOK, ReturnStep DEF IInv
      <3>2. CASE call' = [call EXCEPT ![t].pc = "Unload", ![t].f = None]
        <4> DEFINE c == [call[t] EXCEPT !.pc = "Unload", !.f = None]
        <4>1. CallStep(t, c) /\ c.pc = "Unload"
          BY <1>0, <3>2 DEF IInv, CallOK, CallType, CallStep
        <4> QED BY <4>1
      <3> QED BY <1>7, <3>1, <3>2
    <2> QED BY <1>0, <1>7, <2>1, FreeCount
  <1>8. CASE DeleteDestroy(t) \/ UnloadDestroy(t)
    BY <1>1, <1>7, <1>8 DEF DeleteDestroy, UnloadDestroy, DestroyStops, Undefined
  <1> QED BY <1>4, <1>5, <1>6, <1>8
-------------------------------------------------------------------------------
LEMMA InitSafe == Init => Safe /\ Count
  <1> SUFFICES ASSUME Init  PROVE SafeParts /\ CountParts
    BY DEF Safe, Count
  <1>1. /\ \A t \in Threads : call[t] = Idle
        /\ listed = <<>> /\ live = {} /\ status = "running"
        /\ \A h \in Handles : handle[h] = "closed"
    BY DEF Init
  <1>2. ListSafe
    BY <1>1 DEF ListSafe, IsInjective, Range
  <1>3. OpenSafe
    BY <1>1 DEF OpenSafe, HandleIsSafe
  <1>4. CallSafe
    BY <1>1, IdleOK, PlaceSets DEF CallSafe, CallIsSafe
  <1>5. DeleteSafe /\ UnloadSafe
    BY <1>1, IdleOK, PlaceSets
       DEF DeleteSafe, DeleteIsSafe, UnloadSafe, UnloadIsSafe
  <1>6. CountParts
    BY <1>1, IdleOK, PlaceSets DEF CountParts, CountOK, RefsOpen, CloseOpen
  <1> QED BY <1>2, <1>3, <1>4, <1>5, <1>6 DEF SafeParts

(* A history that is unsafe stays so.                                      *)
LEMMA UnsafeStays ==
  ASSUME [Next]_vars, ~unsafe'
  PROVE  ~unsafe
  <1>1. CASE UNCHANGED vars  BY <1>1 DEF vars
  <1>2. ASSUME NEW t \in Threads, Begin(t)  PROVE ~unsafe
    <2>1. UnloadBegin(t) => ~unsafe
      BY DEF UnloadBegin
    <2>2. ASSUME NEW h \in Handles, NEW n \in Names
          PROVE  OpenMissing(t, h, n) \/ OpenSearch(t, h, n) => ~unsafe
      BY DEF OpenMissing, OpenSearch, FindUndefined, Stop
    <2>3. ASSUME NEW h \in Handles, CloseReadRef(t, h)  PROVE ~unsafe
      BY <2>3 DEF CloseReadRef, Undefined, Stop
    <2>4. ASSUME NEW n \in Names, DeleteSearch(t, n)  PROVE ~unsafe
      BY <2>4 DEF DeleteSearch, FindUndefined, Stop
    <2> QED BY <1>2, <2>1, <2>2, <2>3, <2>4 DEF Begin
  <1>3. ASSUME NEW t \in Threads, Step(t)  PROVE ~unsafe
    BY <1>3 DEF Step, OpenEnter, OpenRecheck, OpenAlloc, OpenAllocFails,
                OpenInit, OpenInitFails, OpenReadRef, OpenWriteRef, OpenLink,
                OpenLinkFails, OpenUndo, CloseWriteRef, CloseUnlink,
                DeleteAssert, DeleteUnlist, DeleteDestroy, UnloadTake,
                UnloadAssert, UnloadDestroy, UnloadEnd, UnusedOrStop,
                DestroyStops, FindUndefined, Undefined, Stop
  <1> QED BY <1>1, <1>2, <1>3 DEF Next

(* A call does not come to undo what it began to open.                     *)
LEMMA NoUndo ==
  ASSUME SafeParts, ~unsafe', NEW t \in Threads
  PROVE  ~OpenLinkFails(t) /\ ~OpenUndo(t)
  BY DEF OpenLinkFails, OpenUndo, At, SafeParts, CallSafe, CallIsSafe, RefPcs

LEMMA NextSafe == IInv /\ Safe /\ Count /\ [Next]_vars => Safe' /\ Count'
  <1> SUFFICES ASSUME IInv, Safe, Count, [Next]_vars, ~unsafe'
               PROVE  SafeParts' /\ CountParts'
    BY DEF Safe, Count
  <1>1. SafeParts /\ CountParts
    BY UnsafeStays DEF Safe, Count
  <1>2. ASSUME NEW t \in Threads, Begin(t)  PROVE SafeParts' /\ CountParts'
    BY <1>1, <1>2, QuietBeginSafe, DeleteSearchSafe, UnloadMovesSafe, BeginCount
    DEF Begin
  <1>3. ASSUME NEW t \in Threads, Step(t)  PROVE SafeParts'
    BY <1>1, <1>3, NoUndo, QuietOpenSafe, QuietCloseSafe, UnloadEndSafe,
       MakeSafe, DeleteMovesSafe, UnloadMovesSafe, FreeSafe
    DEF Step
  <1>4. ASSUME NEW t \in Threads, Step(t)  PROVE CountParts'
    BY <1>1, <1>4, NoUndo, MutexCount, OpenAllocCount, OpenInitCount,
       OpenReadRefCount, OpenWriteRefCount, OpenLinkCount, CloseWriteRefCount,
       CloseUnlinkCount, DeletionCount
    DEF Step
  <1>5. CASE UNCHANGED vars
    <2>1. SafeParts'
      BY <1>1, <1>5
         DEF vars, fileVars, SafeParts, ListSafe, OpenSafe, HandleIsSafe, Taken,
             CallSafe, CallIsSafe, DeleteSafe, DeleteIsSafe, UnloadSafe,
             UnloadIsSafe, NotOpen
    <2>2. \A f : CountedIn(f)' = CountedIn(f)
      BY <1>5 DEF vars, fileVars, CountedIn, Counted
    <2>3. CountParts'
      BY <1>1, <1>5, <2>2
         DEF vars, fileVars, CountParts, CountOK, RefsOpen, CloseOpen
    <2> QED BY <2>1, <2>3
  <1> QED BY <1>2, <1>3, <1>4, <1>5 DEF Next

LEMMA SpecSafe == Spec => [](IInv /\ Safe /\ Count)
  <1>1. Init => IInv /\ Safe /\ Count
    BY InitIInv, InitSafe
  <1>2. IInv /\ Safe /\ Count /\ [Next]_vars => (IInv /\ Safe /\ Count)'
    BY NextIInv, NextSafe
  <1> QED BY <1>1, <1>2, PTL DEF Spec

(* NoUseAfterFree: no call of any number of threads reaches a freed file,  *)
(* and the list has none, as long as deletions and the unload meet no call *)
(* they could harm; open handles they may meet, and stop at the assertion  *)
(* (memfs_vfs_Open, memfs_io_Close, memfs_vfs_Delete, memfs_destroy).      *)
THEOREM NoUseAfterFreeTheorem == Spec => []NoUseAfterFree
  <1>1. Safe => NoUseAfterFree
    BY DEF Safe, SafeParts, ListSafe, NoUseAfterFree
  <1> QED BY <1>1, SpecSafe, PTL

(* OpenIsListed: whoever has a name open shares the file the name leads    *)
(* to, and is in its list of references.                                   *)
THEOREM OpenIsListedTheorem == Spec => []OpenIsListed
  <1>1. IInv /\ Safe => OpenIsListed
    <2> SUFFICES ASSUME IInv, SafeParts, NEW h \in Handles, handle[h] = "open",
                        ~Taken(pData[h])
                 PROVE  /\ pData[h] \in live
                        /\ Find(name[pData[h]]) = pData[h]
                        /\ h \in refs[pData[h]]
      BY DEF Safe, OpenIsListed, Taken
    <2> DEFINE n == name[pData[h]]
    <2>1. pData[h] \in Range(listed) /\ h \in refs[pData[h]]
      BY DEF SafeParts, OpenSafe, HandleIsSafe
    <2>2. Range(listed) \subseteq live
      BY DEF SafeParts, ListSafe
    <2>3. Find(n) # None
      BY <2>1, NothingFound DEF IInv
    <2>4. Find(n) \in Range(listed) /\ name[Find(n)] = n
      BY <2>3, SearchSafe DEF SafeParts
    <2>5. Find(n) = pData[h]
      BY <2>1, <2>2, <2>4 DEF IInv, UniqueNames
    <2> QED BY <2>1, <2>2, <2>5
  <1> QED BY <1>1, SpecSafe, PTL

(* RefsCounted: nRef is the number of handles that have added themselves   *)
(* to it and not yet taken themselves off, for any number of threads and   *)
(* handles, as long as no store of it overwrites another's (the two lines  *)
(* of memfs_vfs_Open and memfs_io_Close that change it).                   *)
THEOREM RefsCountedTheorem == Spec => []RefsCounted
  <1>1. Count => RefsCounted
    BY DEF Count, CountParts, CountOK, CountedIn, RefsCounted
  <1> QED BY <1>1, SpecSafe, PTL

(* Which steps free a file, and which one.                                 *)
LEMMA WhoFrees ==
  ASSUME IInv, SafeParts, Next, ~unsafe', NEW f \in live \ live'
  PROVE  \E t \in Threads :
           \/ call[t].pc = "Init" /\ f = pData[call[t].h]
           \/ call[t].pc \in {"Destroy", "UnloadDestroy"} /\ f = call[t].f
  <1>1. ASSUME NEW t \in Threads, Begin(t)  PROVE live' = live
    <2>1. UnloadBegin(t) => live' = live
      BY DEF UnloadBegin, fileVars
    <2>2. ASSUME NEW h \in Handles, NEW n \in Names
          PROVE  OpenMissing(t, h, n) \/ OpenSearch(t, h, n) => live' = live
      BY DEF OpenMissing, OpenSearch, FindUndefined, Stop, fileVars
    <2>3. ASSUME NEW h \in Handles, CloseReadRef(t, h)  PROVE live' = live
      BY <2>3 DEF CloseReadRef, Undefined, Stop, fileVars
    <2>4. ASSUME NEW n \in Names, DeleteSearch(t, n)  PROVE live' = live
      BY <2>4 DEF DeleteSearch, FindUndefined, Stop, fileVars
    <2> QED BY <1>1, <2>1, <2>2, <2>3, <2>4 DEF Begin
  <1>2. PICK t \in Threads : Step(t)
    BY <1>1 DEF Next
  <1>3. OpenInitFails(t) \/ DeleteDestroy(t) \/ UnloadDestroy(t)
    BY <1>2, NoUndo
       DEF Step, OpenEnter, OpenRecheck, OpenAlloc, OpenAllocFails, OpenInit,
           OpenReadRef, OpenWriteRef, OpenLink, CloseWriteRef, CloseUnlink,
           DeleteAssert, DeleteUnlist, UnloadTake, UnloadAssert, UnloadEnd,
           UnusedOrStop, FindUndefined, Undefined, Stop, fileVars
  <1> QED BY <1>3 DEF OpenInitFails, DeleteDestroy, UnloadDestroy, At, Destroy,
                      DestroyStops, Undefined, Stop, fileVars

(* RefsDieEmpty: whatever frees a file (xOpen's cleanup, xDelete and       *)
(* memfs_destroy), no handle is in its list of references then, although   *)
(* only the assertions that precede it look at whether it is in use.       *)
THEOREM RefsDieEmptyTheorem == Spec => RefsDieEmpty
  <1>1. IInv /\ Safe /\ Count /\ [Next]_vars =>
          [~unsafe' => \A f \in live \ live' : refs[f] = {}]_vars
    <2> SUFFICES ASSUME IInv, Safe, Count, Next, ~unsafe',
                        NEW f \in live \ live', NEW h \in refs[f]
                 PROVE  FALSE
      OBVIOUS
    <2>1. SafeParts /\ CountParts
      BY UnsafeStays DEF Safe, Count
    <2>2. h \in Handles /\ handle[h] = "open" /\ pData[h] = f
      BY <2>1 DEF CountParts, RefsOpen, IInv, FilesOK
    <2>3. name[f] \in Names
      BY <2>1, <2>2 DEF SafeParts, OpenSafe, HandleIsSafe
    <2>4. PICK t \in Threads :
            \/ call[t].pc = "Init" /\ f = pData[call[t].h]
            \/ call[t].pc \in {"Destroy", "UnloadDestroy"} /\ f = call[t].f
      BY <2>1, WhoFrees
    <2>5. CASE call[t].pc = "Init" /\ f = pData[call[t].h]
      BY <2>1, <2>3, <2>5, VfsAssumption DEF SafeParts, CallSafe, CallIsSafe
    <2>6. CASE call[t].pc \in {"Destroy", "UnloadDestroy"} /\ f = call[t].f
      BY <2>1, <2>2, <2>6
         DEF SafeParts, DeleteSafe, DeleteIsSafe, UnloadSafe, UnloadIsSafe,
             NotOpen, DeletePcs, UnloadPcs
    <2> QED BY <2>4, <2>5, <2>6
  <1> QED BY <1>1, SpecSafe, PTL DEF Spec, RefsDieEmpty
===============================================================================
