----------------------------- MODULE MCFileLock -----------------------------
(* Two threads of one process and a thread of another. *)
EXTENDS FileLock

CONSTANTS t1, t2, t3, p1, p2

MCProcessOf == [t \in {t1, t2, t3} |-> IF t = t3 THEN p2 ELSE p1]
====
