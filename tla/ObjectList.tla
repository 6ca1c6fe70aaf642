------------------------------- MODULE ObjectList -------------------------------
(***************************************************************************)
(* What the callers of add_link, del_link and find_file_data take their    *)
(* list for: a sequence of objects, each of them there once, that is       *)
(* lengthened at the end and has objects taken out, in one step each.      *)
(* Once the list is broken nothing is promised.                            *)
(***************************************************************************)
EXTENDS SequencesExt

CONSTANT Objects

VARIABLES list, broken

Init == list = <<>> /\ broken = FALSE

Add(o) ==
  /\ o \notin ToSet(list)
  /\ list' = Append(list, o)
  /\ UNCHANGED broken

Take(o) ==
  /\ o \in ToSet(list)
  /\ list' = RemoveFirst(list, o)
  /\ UNCHANGED broken

Next == broken' \/ \E o \in Objects : Add(o) \/ Take(o)

Spec == Init /\ [][Next]_<<list, broken>>

===============================================================================
