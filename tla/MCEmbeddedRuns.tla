-------------------------- MODULE MCEmbeddedRuns --------------------------
(* Instances of EmbeddedRuns: two sessions and three runs.                 *)
EXTENDS EmbeddedRuns, TLC

CONSTANTS a, b, c, s1, s2, main, cron, nested, x

Per(ra, rb, rc) == (a :> ra @@ b :> rb @@ c :> rc)

Case(session, lane, manual, senders, faults) ==
  [session |-> session, lane |-> lane, manual |-> manual, senders |-> senders, faults |-> faults]

(* Two messages to one session; c is sent by nobody.                       *)
Chat == Case(Per(s1, s1, s2), Per(main, main, main), {}, Per({}, {}, {c}),
             {"failure", "timeout", "restart", "reset"})

(* A turn that sends to another session, whose turn sends back.            *)
Circle == Case(Per(s1, s2, s1), Per(main, nested, nested), {}, Per({}, {a}, {b}),
               {"reset", "timeout"})

(* A job by hand, a scheduled job, a message to the session of the first.  *)
Jobs == Case(Per(s1, s2, s1), Per(cron, cron, main), {a}, Per({}, {}, {}), {"setup", "restart"})

(* Two jobs by hand.                                                       *)
TwoJobs == Case(Per(s1, s2, s2), Per(cron, cron, main), {a, b}, Per({}, {}, {c}), {})

MCCases == {Chat, Circle, Jobs}
MCTwoJobs == {TwoJobs}
MCLimits == [l \in Sessions \cup GlobalLanes |-> IF l = main THEN 2 ELSE 1]
MCResetOf == (x :> s1)
=============================================================================
