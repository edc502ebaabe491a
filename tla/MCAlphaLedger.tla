--------------------------- MODULE MCAlphaLedger ---------------------------
(* Two Hosts that may use the same operation ids and payloads. *)
EXTENDS AlphaLedger

CONSTANTS h1, h2, o1, o2, p1, p2
====
