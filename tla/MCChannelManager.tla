-------------------------- MODULE MCChannelManager --------------------------
(* A small instance of ChannelManager.                                     *)
EXTENDS ChannelManager

CONSTANTS c1, c2

Case(asks, hook, refuses, fails, one, other) ==
  [asks |-> asks, hook |-> hook, refuses |-> refuses, fails |-> fails,
   calls |-> [c \in Callers |-> IF c = c1 THEN one ELSE other]]

(* Most plugins; those whose isConfigured looks into files, as WhatsApp's; *)
(* those with a stopAccount, as Twitch.                                    *)
Plain == Case(FALSE, FALSE, TRUE, TRUE, {"start", "stop", "restart"}, {"logout", "start"})
Asks == Case(TRUE, FALSE, TRUE, TRUE, {"start", "stop", "restart", "logout"}, {})
Hook == Case(FALSE, TRUE, FALSE, TRUE, {"start", "stop", "restart", "logout"}, {})
AsksOne == Case(TRUE, FALSE, FALSE, FALSE, {"start", "stop"}, {})
MCCases == {Plain, Asks, Hook}
MCAsks == {AsksOne}
=============================================================================
