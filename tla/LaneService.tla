---------------------------- MODULE LaneService ----------------------------
(***************************************************************************)
(* What src/src/process/command-queue.ts promises its callers: each lane   *)
(* is a first-in first-out line in front of a bounded number of places.    *)
(* A task starts as soon as there is a place for the head of the line; a   *)
(* restart empties the places without waiting for those in them.  There    *)
(* are no turns, no pumps and no draining flag here.                       *)
(***************************************************************************)
EXTENDS Naturals, Sequences, FiniteSets

CONSTANTS Lanes, Tasks, LimitBound

VARIABLES
  line,     \* the tasks waiting, lane by lane
  places,   \* the tasks that run and count against the limit
  given_up, \* the tasks that still run from before a restart
  limit,    \* how many places each lane has
  closed    \* new tasks are turned away

vars == <<line, places, given_up, limit, closed>>

Init ==
  /\ line = [l \in Lanes |-> <<>>]
  /\ places = [l \in Lanes |-> {}]
  /\ given_up = {}
  /\ limit = [l \in Lanes |-> 1]
  /\ closed = FALSE

Submit(t, l) ==
  /\ ~closed
  /\ line' = [line EXCEPT ![l] = Append(@, t)]
  /\ UNCHANGED <<places, given_up, limit, closed>>

Start(l) ==
  /\ line[l] # <<>>
  /\ Cardinality(places[l]) < limit[l]
  /\ line' = [line EXCEPT ![l] = Tail(@)]
  /\ places' = [places EXCEPT ![l] = @ \cup {Head(line[l])}]
  /\ UNCHANGED <<given_up, limit, closed>>

Finish(t, l) ==
  /\ t \in places[l]
  /\ places' = [places EXCEPT ![l] = @ \ {t}]
  /\ UNCHANGED <<line, given_up, limit, closed>>

FinishLate(t) ==
  /\ t \in given_up
  /\ given_up' = given_up \ {t}
  /\ UNCHANGED <<line, places, limit, closed>>

SetLimit(l, n) ==
  /\ n > 0
  /\ limit' = [limit EXCEPT ![l] = n]
  /\ UNCHANGED <<line, places, given_up, closed>>

Clear(l) ==
  /\ line' = [line EXCEPT ![l] = <<>>]
  /\ UNCHANGED <<places, given_up, limit, closed>>

Close ==
  /\ closed' = TRUE
  /\ UNCHANGED <<line, places, given_up, limit>>

Restart ==
  /\ closed' = FALSE
  /\ given_up' = given_up \cup UNION {places[l] : l \in Lanes}
  /\ places' = [l \in Lanes |-> {}]
  /\ UNCHANGED <<line, limit>>

Next ==
  \/ \E t \in Tasks, l \in Lanes : Submit(t, l) \/ Finish(t, l)
  \/ \E t \in Tasks : FinishLate(t)
  \/ \E l \in Lanes : Start(l) \/ Clear(l)
  \/ \E l \in Lanes, n \in 1..LimitBound : SetLimit(l, n)
  \/ Close
  \/ Restart

(* No task is kept waiting while there is a place for it.                  *)
WorkConserving == \A l \in Lanes : WF_vars(Start(l))

SafeSpec == Init /\ [][Next]_vars
Spec == SafeSpec /\ WorkConserving
=============================================================================
