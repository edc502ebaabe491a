------------------------- MODULE MCStateTransaction -------------------------
(* Two Hosts that may create one Run in two ways and mutate it in two. *)
EXTENDS StateTransaction

CONSTANTS h1, h2, c1, c2, a1, a2
====
