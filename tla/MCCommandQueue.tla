-------------------------- MODULE MCCommandQueue --------------------------
(* Small instances of CommandQueue: three entries in one lane or two, or   *)
(* two entries and a waiter.                                               *)
EXTENDS CommandQueue

CONSTANTS main, cron, e1, e2, e3, w1

(* Entries and lanes are interchangeable: the first entry that comes is    *)
(* e1, and its lane main.                                                  *)
Named == laneOf[e1] = main
InTurn == (phase[e2] # "new" => phase[e1] # "new") /\ (phase[e3] # "new" => phase[e2] # "new")

NobodyWaits == \A w \in Waiters : waiterPhase[w] = "idle"
Small == InTurn /\ (phase[e3] = "new" \/ NobodyWaits)

SmallInit == Init /\ Named
SmallSpec == SmallInit /\ [][Next /\ Small']_vars /\ Fairness
=============================================================================
