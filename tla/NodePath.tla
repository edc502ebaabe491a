------------------------------ MODULE NodePath ------------------------------
(***************************************************************************)
(* What a legacy Run promises about its path through the graph, whatever   *)
(* calls, deaths and retries made it: every step leaves a node by one of   *)
(* its edges with one answer that is kept for good, or is a choice of the  *)
(* Owner at product.decision; and no answer leads past a node that is      *)
(* blocked by what an earlier one said last.                               *)
(***************************************************************************)
EXTENDS Naturals, Sequences

CONSTANTS
    Nodes, Edges, Answers, Decision, Start,
    Blocks      \* <<node, earlier, answer>>: see Blocked

VARIABLES
    node,       \* where the Run is
    path        \* the nodes that were answered, in order, with their answers

\* The newest answer of an earlier node is one that holds the Run here.
Blocked == \E b \in Blocks :
    /\ b[1] = node
    /\ \E i \in 1 .. Len(path) :
        /\ path[i] = [node |-> b[2], answer |-> b[3]]
        /\ \A j \in 1 .. Len(path) : path[j].node = b[2] => j <= i

Init == node = Start /\ path = <<>>

Answer(answer) ==
    /\ node # Decision /\ ~Blocked
    /\ <<node, node'>> \in Edges
    /\ path' = Append(path, [node |-> node, answer |-> answer])

\* The Owner's choice, or the evidence the Owner waits for.
Choose ==
    /\ node = Decision
    /\ <<node, node'>> \in Edges
    /\ UNCHANGED path

Next == (\E answer \in Answers : Answer(answer)) \/ Choose

Spec == Init /\ [][Next]_<<node, path>>

====
