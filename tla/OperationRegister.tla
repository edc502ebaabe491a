------------------------- MODULE OperationRegister -------------------------
(***************************************************************************)
(* What the public contract of a BPG 2.0 Run promises its Hosts            *)
(* (host-adapters/*/public-skill/better-product-graph/SKILL.md): each      *)
(* operation id takes effect at most once, on the state its Host had seen, *)
(* and an operation that was answered has taken effect.                    *)
(***************************************************************************)
EXTENDS Naturals, Sequences

CONSTANTS Calls     \* operation id, payload and the version the Host saw

VARIABLES
    log,            \* the calls that took effect, in their order
    acknowledged    \* the <<id, payload>> answered as applied

Identity(call) == <<call.id, call.payload>>

Init == log = <<>> /\ acknowledged = {}

\* Version n is the state after n - 1 effects.
Perform(call) ==
    /\ \A i \in 1 .. Len(log) : log[i].id # call.id
    /\ call.expected = Len(log) + 1
    /\ log' = Append(log, call)
    /\ UNCHANGED acknowledged

Acknowledge(call) ==
    /\ \E i \in 1 .. Len(log) : Identity(log[i]) = Identity(call)
    /\ acknowledged' = acknowledged \cup {Identity(call)}
    /\ UNCHANGED log

Next == \E call \in Calls : Perform(call) \/ Acknowledge(call)

Spec == Init /\ [][Next]_<<log, acknowledged>>
====
