---------------------------- MODULE MCCronService ----------------------------
(***************************************************************************)
(* Two jobs, in four cases: crashes while they run; a reload of the        *)
(* configuration; edits and calls of cron.run; and deliveries that write   *)
(* the file.                                                               *)
(***************************************************************************)
EXTENDS CronService, TLC

CONSTANTS a, b, caller1

MCJobs == {a, b}
MCCallers == {caller1}
MCBackoff == <<1, 2>>

Case(ka, pa, kb, pb, keep, present, faults, maxEdits) ==
  [kind |-> (a :> ka @@ b :> kb), period |-> (a :> pa @@ b :> pb), at |-> (a :> 1 @@ b :> 2),
   keep |-> keep, present |-> present, faults |-> faults, maxEdits |-> maxEdits]

Crashes == Case("cron", 1, "at", 1, {b}, {a, b}, {"crash", "error"}, 0)
Reloads == Case("every", 2, "at", 1, {}, {a}, {"reload"}, 0)
Edited == Case("every", 2, "at", 1, {b}, {a}, {"edit", "add", "run", "due"}, 2)
Delivers == Case("every", 1, "at", 1, {b}, {a}, {"writeback", "run"}, 1)
MCCases == {Crashes, Reloads, Edited, Delivers}
=============================================================================
