------------------------- MODULE MCCandidateReview -------------------------
EXTENDS CandidateReview

CONSTANTS h1, h2, w1, w2, p1

Least == [docs |-> 1, packs |-> 0, crashes |-> 0, pauses |-> 0, dispatches |-> 0,
          others |-> FALSE, plans |-> {}]

\* The whole life of a PRD, without a fan-out: one version, with a crash, or with
\* a pause and two attempts at the Ready gate, or with another Run that writes the
\* changelog, or with two Packs; two versions, a Pack and a crash; and fan-outs
\* beside the publication of a version and its review, or of two that no process
\* dies in.
MCBounds ==
    {[Least EXCEPT !.packs = 1, !.crashes = 1, !.dispatches = 1],
     [Least EXCEPT !.packs = 1, !.pauses = 1, !.dispatches = 2],
     [Least EXCEPT !.packs = 1, !.dispatches = 1, !.others = TRUE],
     [Least EXCEPT !.packs = 2],
     [Least EXCEPT !.docs = 2, !.packs = 1, !.crashes = 1],
     [Least EXCEPT !.crashes = 1, !.plans = {p1}],
     [Least EXCEPT !.docs = 2, !.plans = {p1}]}
====
