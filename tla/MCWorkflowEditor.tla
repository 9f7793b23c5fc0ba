-------------------------- MODULE MCWorkflowEditor --------------------------
EXTENDS WorkflowEditor, TLC

\* The two nodes are interchangeable; no property is a liveness property.
NodeSymmetry == Permutations(Nodes)
=============================================================================
