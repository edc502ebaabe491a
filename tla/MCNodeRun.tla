----------------------------- MODULE MCNodeRun -----------------------------
(* Two Hosts from the Owner's decision on, back to the research and to the review. *)
EXTENDS NodeRun

CONSTANTS h1, h2
====
