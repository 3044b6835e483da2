---------------------------- MODULE ProjectLedger ----------------------------
(***************************************************************************)
(* What a project promises its readers, whatever goes on around it: it     *)
(* changes one whole step at a time, every step that changes the graph     *)
(* takes the next version, graphs are added to the history and never       *)
(* dropped from it, the graph on show is the one the history points at,    *)
(* and an edit's record goes from running to one outcome that is final.    *)
(*                                                                         *)
(* EditService implements this with threads, failing saves and restarts,   *)
(* ProjectHistory with a tree of deltas: a step of either, a restart       *)
(* included, is a step of this specification or no step at all.            *)
(***************************************************************************)
EXTENDS EditOperations, Sequences

CONSTANT FirstGraph     \* the graph of a new project

VARIABLES
    version,
    operations,     \* the record of every edit
    graphs,         \* the history: every graph the project has had
    parents,        \* where each of them was derived from
    current         \* the one on show

ledger == <<version, operations, graphs, parents, current>>

Init ==
    /\ version = 1
    /\ operations = [op \in Ops |-> NoOperation]
    /\ graphs = <<FirstGraph>>
    /\ parents = <<0>>
    /\ current = 1

RecordStep(op) ==
    /\ operations[op].status \in {"absent", "running"}
    /\ operations' = [operations EXCEPT ![op] =
            [status |-> "running", applied_steps |-> @.applied_steps + 1]]

\* A new graph, by hand or as one step of one edit.
Change ==
    /\ version' = version + 1
    /\ Len(graphs') = Len(graphs) + 1
    /\ SubSeq(graphs', 1, Len(graphs)) = graphs
    /\ parents' = Append(parents, current)
    /\ current' = Len(graphs) + 1
    /\ UNCHANGED operations \/ \E op \in Ops : RecordStep(op)

\* Undo, redo, or a jump to any graph of the history.
Visit ==
    /\ version' = version + 1
    /\ current' \in 1..Len(graphs)
    /\ UNCHANGED <<operations, graphs, parents>>

Conclude(op, outcome) ==
    /\ operations[op].status = "running"
    /\ operations' = [operations EXCEPT ![op].status = outcome]
    /\ UNCHANGED <<graphs, parents, current>>

Complete == version' = version + 1 /\ \E op \in Ops : Conclude(op, "completed")

Fail ==
    /\ version' = version
    /\ \E op \in Ops, outcome \in {"failed", "interrupted"} : Conclude(op, outcome)

Next == Change \/ Visit \/ Complete \/ Fail

Spec == Init /\ [][Next]_ledger
=============================================================================
