--------------------------- MODULE EditOperations ---------------------------
(***************************************************************************)
(* The durable record of prompted edits (EditOperation of                  *)
(* src/src/model.rs): what a project remembers of an edit that published   *)
(* at least one step, under the operation id its client chose.             *)
(***************************************************************************)
EXTENDS Naturals

CONSTANT Ops    \* the operation ids clients send

OperationStatus == {"absent", "running", "completed", "failed", "interrupted"}

Operation == [status: OperationStatus, applied_steps: Nat]

\* A project has no entry for an operation that published nothing.
NoOperation == [status |-> "absent", applied_steps |-> 0]
=============================================================================
