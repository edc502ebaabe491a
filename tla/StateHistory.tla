---------------------------- MODULE StateHistory ----------------------------
(***************************************************************************)
(* What the state of a Run promises: it grows by one mutation at a time,   *)
(* a caller is only told of a state that is in effect, and what a caller   *)
(* was told of stays in effect.                                            *)
(***************************************************************************)
EXTENDS Sequences

CONSTANTS Mutations

VARIABLES
    content,    \* the mutations in effect, in their order
    answered    \* the contents callers were told of

vars == <<content, answered>>

Init == content = <<>> /\ answered = {}

Mutate(m) == content' = Append(content, m) /\ UNCHANGED answered

Answer == answered' = answered \cup {content} /\ UNCHANGED content

Next == (\E m \in Mutations : Mutate(m)) \/ Answer

Spec == Init /\ [][Next]_vars
====
