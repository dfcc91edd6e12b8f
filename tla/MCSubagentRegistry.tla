------------------------ MODULE MCSubagentRegistry ------------------------
(* Small instances of SubagentRegistry: an orchestrator with a run below   *)
(* it, two runs side by side, and single runs that are steered, killed,    *)
(* swept and restored.                                                     *)
EXTENDS SubagentRegistry, TLC

CONSTANTS main, a, b, s1, s2

Below1 == [s \in Sessions |-> IF s = b THEN a ELSE main]
Beside == [s \in Sessions |-> main]
Alone == [s \in Sessions |-> IF s = b THEN b ELSE main]  \* nobody spawns b

Accidents == {"answer", "silence", "failure", "still active", "hook failure", "error", "timeout",
              "kill", "sweep", "crash"}

Case(n, tree, completion, delete, happens) ==
  [runs |-> n, requester |-> tree, completion |-> completion, delete |-> delete, happens |-> happens]

TestedCases ==
  {(* an orchestrator that reports after the run below it, and is woken for it *)
   Case(3, Below1, {a, b}, {}, {"failure", "hook failure"}),
   Case(3, Below1, {a}, {}, {"failure", "crash"}),
   Case(3, Below1, {a}, {}, {"sweep"}),
   Case(2, Below1, {a}, {}, {"answer"}),
   (* two runs side by side whose announcements fail *)
   Case(2, Beside, {}, {b}, {"failure"}),
   (* a run that is steered, or whose steer fails *)
   Case(2, Alone, {}, {}, {"answer", "steer", "crash"}),
   Case(2, Alone, {}, {a}, {"steer", "kill", "failure"}),
   (* everything else that can happen to a single run *)
   Case(1, Alone, {}, {}, Accidents), Case(1, Alone, {a}, {}, Accidents)}
=============================================================================
