---------------------------- MODULE DurableTable ----------------------------
(***************************************************************************)
(* What a bypass-db table promises about the batches appended to it.       *)
(* A batch becomes recoverable when it is logged and visible to scans when *)
(* append returns; nothing else the table does on its own (sealing,        *)
(* compacting, removing files) changes what is recoverable or visible, and *)
(* a reopened table shows exactly what was recoverable.                    *)
(*                                                                         *)
(* Abstract specification: TableStore implements it as long as no I/O call *)
(* fails, whatever the moment of a crash.                                  *)
(***************************************************************************)
CONSTANT Batches

VARIABLES
  rows,   \* the batches a reopen would bring back
  view,   \* the batches a scan returns
  open    \* a process has the table open

vars == <<rows, view, open>>

Init ==
  /\ rows = {}
  /\ view = {}
  /\ open = FALSE

Log(b) ==
  /\ open
  /\ b \notin rows
  /\ rows' = rows \cup {b}
  /\ UNCHANGED <<view, open>>

Show(b) ==
  /\ open
  /\ b \in rows
  /\ view' = view \cup {b}
  /\ UNCHANGED <<rows, open>>

Crash ==
  /\ open
  /\ open' = FALSE
  /\ view' = {}
  /\ UNCHANGED rows

Reopen ==
  /\ ~ open
  /\ open' = TRUE
  /\ view' = rows
  /\ UNCHANGED rows

Next ==
  \/ \E b \in Batches : Log(b) \/ Show(b)
  \/ Crash
  \/ Reopen

Spec == Init /\ [][Next]_vars
=============================================================================
