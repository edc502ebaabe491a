-------------------------- MODULE CandidateHistory --------------------------
(***************************************************************************)
(* What a Run promises about its PRD: there is one current Candidate, the  *)
(* ones before it are kept as they were, and what is released is a current *)
(* Candidate whose review is finished, after which nothing changes.        *)
(***************************************************************************)
CONSTANTS Trees, EvalsRequired, None

VARIABLES
    current,    \* the Candidate's tree
    kept,       \* the trees it replaced
    released    \* the released tree

vars == <<current, kept, released>>

Init == current = None /\ kept = {} /\ released = None

\* A new version of the document, never reviewed and without Evals; or the
\* same one with its review finished, or with Evals and a review to come.
Replace(tree) ==
    /\ released = None /\ tree \notin kept \cup {current}
    /\ \/ /\ tree.review = "NOT_RUN" /\ tree.evals = 0
          /\ current = None \/ current.doc # tree.doc
       \/ /\ current # None /\ tree.doc = current.doc
          /\ IF tree.review = "FINALIZED"
             THEN tree.evals = current.evals /\ current.review = "NOT_RUN"
             ELSE tree.evals \notin {0, current.evals}
    /\ current' = tree
    /\ kept' = kept \cup ({current} \ {None})
    /\ UNCHANGED released

Release ==
    /\ released = None /\ current # None
    /\ current.review = "FINALIZED" /\ (EvalsRequired => current.evals # 0)
    /\ released' = current
    /\ UNCHANGED <<current, kept>>

Next == (\E tree \in Trees : Replace(tree)) \/ Release

Spec == Init /\ [][Next]_vars

====
