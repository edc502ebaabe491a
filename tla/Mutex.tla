------------------------------- MODULE Mutex -------------------------------
(***************************************************************************)
(* What a lock promises: one holder at a time.  A holder that dies gives   *)
(* the lock back.                                                          *)
(***************************************************************************)
CONSTANTS Threads, None

VARIABLE holder

Init == holder = None

Take(t) == holder = None /\ holder' = t

Release(t) == holder = t /\ holder' = None

Next == \E t \in Threads : Take(t) \/ Release(t)

Spec == Init /\ [][Next]_holder
====
