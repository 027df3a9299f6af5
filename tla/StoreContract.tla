----------------------------- MODULE StoreContract -----------------------------
(***************************************************************************)
(* What the file store promises: changes are written down for good, and a  *)
(* caller is told of success only about a change that is.  Crashes,        *)
(* failed writes, restarts and shutdowns are not seen here: they may not   *)
(* undo anything.                                                          *)
(***************************************************************************)
EXTENDS Naturals

VARIABLES
  durable,  \* the changes that are on disk
  promised  \* the changes whose caller was told of success

contractVars == <<durable, promised>>

ContractInit == durable = {} /\ promised = {}

\* A save takes more changes to the disk, and may answer one of them.
Save ==
  /\ durable \subseteq durable'
  /\ durable' \subseteq Nat
  /\ \/ promised' = promised
     \/ \E c \in durable' : promised' = promised \cup {c}

Spec == ContractInit /\ [][Save]_contractVars
=============================================================================
