-------------------------- MODULE MCFollowupQueue --------------------------
(* Small instances of FollowupQueue.                                       *)
EXTENDS FollowupQueue

CONSTANTS m1, m2, m3, here, there

(* m3 is m1 delivered twice by the channel.                                *)
WithDuplicate == [m \in Messages |-> IF m = m3 THEN m1 ELSE m]
AllDifferent == [m \in Messages |-> m]
OneRoute == [m \in Messages |-> here]
TwoRoutes == [m \in Messages |-> IF m = m2 THEN there ELSE here]

Collect(n, policy) == [mode |-> "collect", cap |-> n, dropPolicy |-> policy]
Followup(n, policy) == [mode |-> "followup", cap |-> n, dropPolicy |-> policy]

(* An execution passes summarize with itself only: what a summary is after *)
(* the policy has changed is up to queue-helpers.                          *)
MixedConfigs == {{Collect(2, "old"), Followup(1, "old")},
                 {Followup(1, "new")},
                 {Collect(1, "summarize"), Followup(1, "summarize")}}
CollectOldConfigs == {{Collect(2, "old")}}
=============================================================================
