------------------------ MODULE MCSessionWriteLock --------------------------
(* Small instances of SessionWriteLock.                                    *)
EXTENDS SessionWriteLock

CONSTANTS t1, t2, t3, p1, p2, p3

(* Two callers in one process, the third in another.                       *)
TwoAndOne == [t \in Tasks |-> IF t = t3 THEN p2 ELSE p1]

(* The third process may get the pid of the first when that is gone.       *)
PidUsedAgain == [p \in Processes |-> IF p = p3 THEN p1 ELSE p]
=============================================================================
