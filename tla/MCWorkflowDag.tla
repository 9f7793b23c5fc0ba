--------------------------- MODULE MCWorkflowDag ---------------------------
(* Instances of WorkflowDag for TLC: the workflows the .cfg files choose from. *)
EXTENDS WorkflowDag, TLC

CONSTANTS first, second, last

TwoConditions == {first, second}
Arrow(a, b, port) == [source |-> a, target |-> b, port |-> port]

\* A branch, and a node behind it that the condition also reaches directly.
Detour == {Arrow(first, second, "if_true"), Arrow(second, last, "default"),
           Arrow(first, last, "default")}
\* Two branches into one node, which repeats itself.
Repeat == {Arrow(first, last, "if_false"), Arrow(second, last, "if_true"),
           Arrow(last, last, "default")}

TwoFlows == {Detour, Repeat}

MaybeReset == {{}, {first}}
=============================================================================
