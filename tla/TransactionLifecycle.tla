--------------------------- MODULE TransactionLifecycle ---------------------------
(***************************************************************************)
(* What a transaction's persisted row promises, spec section 4.2: its      *)
(* status moves along PENDING -> RESERVING -> {RESERVED, REJECTED} and     *)
(* RESERVED -> COMMITTING -> {COMMITTED, REJECTED}; reject() also takes   *)
(* PENDING and RESERVED to REJECTED; COMMITTED and REJECTED are terminal. *)
(* Its event_offset, stamped from the repository's offset, never goes     *)
(* back.  One transaction's row changes at a time.  (Save states what a  *)
(* step may do; the module serves as a property, not as a model to run.) *)
(***************************************************************************)
EXTENDS Naturals

CONSTANTS Tx

VARIABLES status, eventOffset

\* The statuses a row may move to from each status.
Succ == [pending    |-> {"reserving", "rejected"},
         reserving  |-> {"reserved", "rejected"},
         reserved   |-> {"committing", "rejected"},
         committing |-> {"committed", "rejected"},
         committed  |-> {},
         rejected   |-> {}]

Init ==
  /\ status = [t \in Tx |-> "pending"]
  /\ eventOffset = [t \in Tx |-> 0]

\* save(): one row is written with a status its current one may move to (or
\* the same), and an offset no smaller than the one it held; the other
\* rows are left alone.
Save(t) ==
  /\ status'[t] \in Succ[status[t]] \cup {status[t]}
  /\ eventOffset'[t] >= eventOffset[t]
  /\ \A u \in Tx \ {t} : status'[u] = status[u] /\ eventOffset'[u] = eventOffset[u]

Next == \E t \in Tx : Save(t)

Spec == Init /\ [][Next]_<<status, eventOffset>>
=============================================================================
