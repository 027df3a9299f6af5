----------------------------- MODULE RelayContract -----------------------------
(***************************************************************************)
(* What the relay promises of a project's deltas: a log with a floor.      *)
(* Entries come in with their stamps in any order, keep them, and leave    *)
(* once, for good.  A delivered entry raises the floor in the step in      *)
(* which it leaves, so that no reader whose cursor is below can miss that; *)
(* for one that is dropped the floor may follow later or never.  The floor *)
(* is the stamp of an entry that left and does not go back while the log   *)
(* is open.  A closed log is empty and takes nothing in.                   *)
(***************************************************************************)
EXTENDS Naturals

CONSTANT Entries

VARIABLES
  open,       \* the project exists
  kept,       \* the entries that readers can have
  delivered,  \* those that left because as many acknowledged as could receive
  dropped,    \* those that left otherwise
  stamp,      \* the stamps that cursors and the floor are compared with
  floor       \* a reader with a cursor below learns of a gap

logVars == <<open, kept, delivered, dropped, stamp, floor>>

LogInit ==
  /\ open = TRUE
  /\ kept = {} /\ delivered = {} /\ dropped = {}
  /\ stamp = [e \in Entries |-> 0]
  /\ floor = 0

Append(e) ==
  /\ open
  /\ e \notin kept \cup delivered \cup dropped
  /\ kept' = kept \cup {e}
  /\ stamp'[e] \in Nat
  /\ stamp' = [stamp EXCEPT ![e] = stamp'[e]]
  /\ UNCHANGED <<open, delivered, dropped, floor>>

Deliver(e) ==
  /\ open
  /\ e \in kept
  /\ kept' = kept \ {e}
  /\ delivered' = delivered \cup {e}
  /\ floor' \in {floor, stamp[e]} /\ floor <= floor' /\ stamp[e] <= floor'
  /\ UNCHANGED <<open, dropped, stamp>>

Drop ==
  /\ open
  /\ kept' \subseteq kept
  /\ dropped' = dropped \cup (kept \ kept')
  /\ UNCHANGED <<open, delivered, stamp, floor>>

Raise ==
  /\ open
  /\ \E e \in delivered \cup dropped : floor < stamp[e] /\ floor' = stamp[e]
  /\ UNCHANGED <<open, kept, delivered, dropped, stamp>>

Close ==
  /\ open
  /\ ~open'
  /\ kept' = {} /\ dropped' = dropped \cup kept
  /\ floor' = 0
  /\ UNCHANGED <<delivered, stamp>>

LogNext == (\E e \in Entries : Append(e) \/ Deliver(e)) \/ Drop \/ Raise \/ Close

Spec == LogInit /\ [][LogNext]_logVars
=============================================================================
