-------------------------- MODULE ReplyDelivery --------------------------
(***************************************************************************)
(* A reply on its way from the model to the channel, and the restart of    *)
(* the gateway that waits for it:                                          *)
(*   src/src/agents/pi-embedded-subscribe.ts and its handlers              *)
(*                                what the model says, block by block      *)
(*   src/src/auto-reply/reply/reply-delivery.ts, block-reply-pipeline.ts,  *)
(*   block-reply-coalescer.ts     the blocks, streamed                     *)
(*   src/src/auto-reply/reply/agent-runner*.ts, dispatch-from-config.ts    *)
(*                                the end of the run, what is left to say  *)
(*   src/src/auto-reply/reply/reply-dispatcher.ts, dispatcher-registry.ts, *)
(*   src/src/auto-reply/dispatch.ts   the sends, counted                   *)
(*   src/src/gateway/server-reload-handlers.ts   requestGatewayRestart     *)
(*                                                                         *)
(* What is said is a piece; a payload is the sequence of pieces in it, and *)
(* is its own key.  A step is what runs between two awaits that take time; *)
(* the microtasks between run with it.  How long a text is only decides    *)
(* what the coalescer does with it (Hows).  Speech made of a text changes  *)
(* no piece, it takes time.                                                *)
(*                                                                         *)
(* A definition X_Y just before X is X with a plausible mistake in it, of  *)
(* which Y says what it is; nothing refers to it.                          *)
(***************************************************************************)
EXTENDS Integers, Sequences, FiniteSets

CONSTANTS
  Replies,   \* inbound messages, each with a dispatcher of its own
  Pieces,    \* what a model may say, and the results of its tools
  Trouble,   \* the text that tells the user that the run failed
  Cases      \* what is said, how it is coalesced, and what may happen

(* What the coalescer does with a text: keeps it, sends the buffer with it, *)
(* sends the buffer and keeps the text, or sends both, one after the other. *)
Hows == {"fits", "fills", "overflows", "alone"}

ASSUME DeliveryAssumption ==
  /\ Trouble \notin Pieces
  /\ \A c \in Cases : c \in [
       script : [Replies -> Seq(Pieces)],
       kind : [Pieces -> {"text", "image", "audio", "tool"}],
       streaming : BOOLEAN,       \* blockStreamingEnabled
       coalescing : SUBSET Hows,  \* {"alone"}: none, or a paragraph at a time
       unreadable : SUBSET Pieces,  \* media outside the sandbox
       happens : SUBSET {"retry", "error", "timeout", "rejection", "failure", "restart", "impatience"}]
  /\ \A c \in Cases : \A p \in c.unreadable : c.kind[p] \in {"image", "audio"}

VARIABLES
  arranged,  \* the case chosen
  run,       \* the turn, and the handlers of what it says
  pipe,      \* createBlockReplyPipeline with its coalescer
  out,       \* createReplyDispatcher, and whether the registry has it
  heard,     \* the pieces delivered
  restart    \* of the gateway

vars == <<arranged, run, pipe, out, heard, restart>>

Elements(s) == {s[i] : i \in DOMAIN s}
Payloads == Seq(Pieces \cup {Trouble})
Kind(p) == IF p = Trouble THEN "text" ELSE arranged.kind[p]
May(event) == event \in arranged.happens
Up == restart \in {"none", "waiting"}

Stages == {"none", "arrived", "talking", "tool", "ending", "flushing", "settling", "answering", "complete"}

(* Types, and what must hold of a single record: the idle timer has a      *)
(* buffer to flush, a flush waits for what is in the chain, and a          *)
(* dispatcher in the registry has something pending.                       *)
TypeOK ==
  /\ arranged \in Cases
  /\ run \in [Replies -> [stage : Stages, at : Nat, final : Payloads, said : Payloads,
                           staging : SUBSET Pieces, tools : Payloads, finals : Seq(Payloads),
                           retried : BOOLEAN, failed : BOOLEAN, late : BOOLEAN,
                           lost : SUBSET {"block", "tool"}]]
  /\ pipe \in [Replies -> [buffer : Payloads, armed : BOOLEAN, held : Payloads, seen : SUBSET Pieces,
                            chain : Seq(Payloads), sent : SUBSET Payloads, overdue : SUBSET Payloads,
                            aborted : BOOLEAN, streamed : BOOLEAN, awaited : Nat]]
  /\ out \in [Replies -> [chain : Seq(Payloads), pending : Int, complete : BOOLEAN, clearing : BOOLEAN,
                           registered : BOOLEAN, failed : BOOLEAN]]
  /\ heard \in [Replies -> Payloads]
  /\ restart \in {"none", "waiting", "emitted", "forced"}
  /\ \A d \in Replies : /\ pipe[d].armed => pipe[d].buffer # <<>>
                        /\ pipe[d].awaited <= Len(pipe[d].chain)
                        /\ out[d].registered => out[d].pending > 0

Init ==
  /\ arranged \in Cases
  /\ run = [d \in Replies |-> [stage |-> "none", at |-> 0, final |-> <<>>, said |-> <<>>, staging |-> {},
                               tools |-> <<>>, finals |-> <<>>, retried |-> FALSE, failed |-> FALSE,
                               late |-> FALSE, lost |-> {}]]
  /\ pipe = [d \in Replies |-> [buffer |-> <<>>, armed |-> FALSE, held |-> <<>>, seen |-> {}, chain |-> <<>>,
                                sent |-> {}, overdue |-> {}, aborted |-> FALSE, streamed |-> FALSE,
                                awaited |-> 0]]
  /\ out = [d \in Replies |-> [chain |-> <<>>, pending |-> 0, complete |-> FALSE, clearing |-> FALSE,
                               registered |-> FALSE, failed |-> FALSE]]
  /\ heard = [d \in Replies |-> <<>>]
  /\ restart = "none"

-----------------------------------------------------------------------------
(* The dispatcher: a chain of sends, and the count that a restart looks at *)

(* One is pending from the start, for the replies that are still to come.  *)
Reservation_None == 0
Reservation == 1

Enqueued(o, payload) == [o EXCEPT !.chain = Append(@, payload), !.pending = @ + 1]

(* What is pending when only the reservation may be left.                  *)
Cleared_Never(n, complete) == n
Cleared(n, complete) == IF n = 1 /\ complete THEN 0 ELSE n

Counted(o, n) == [o EXCEPT !.pending = n, !.registered = @ /\ n # 0]

Arrive(d) ==
  /\ run[d].stage = "none" /\ arranged.script[d] # <<>>
  /\ run' = [run EXCEPT ![d].stage = "arrived"]
  /\ out' = [out EXCEPT ![d] = [@ EXCEPT !.pending = Reservation, !.registered = TRUE]]
  /\ UNCHANGED <<arranged, pipe, heard, restart>>

(* The head of the chain is delivered, or its delivery fails and onError   *)
(* is told: it is gone either way.                                         *)
SendEnds(d) == Counted([out[d] EXCEPT !.chain = Tail(@)], Cleared(out[d].pending - 1, out[d].complete))

Deliver(d) ==
  /\ out[d].chain # <<>>
  /\ out' = [out EXCEPT ![d] = SendEnds(d)]
  /\ heard' = [heard EXCEPT ![d] = @ \o Head(out[d].chain)]
  /\ UNCHANGED <<arranged, run, pipe, restart>>

DeliverFails(d) ==
  /\ May("failure") /\ out[d].chain # <<>>
  /\ out' = [out EXCEPT ![d] = [SendEnds(d) EXCEPT !.failed = TRUE]]
  /\ UNCHANGED <<arranged, run, pipe, heard, restart>>

(* withReplyDispatcher: the turn is over, whatever became of it.           *)
MarkComplete(d) ==
  /\ run[d].stage = "answering" /\ run[d].finals = <<>>
  /\ run' = [run EXCEPT ![d].stage = "complete"]
  /\ out' = [out EXCEPT ![d] = [@ EXCEPT !.complete = TRUE, !.clearing = TRUE]]
  /\ UNCHANGED <<arranged, pipe, heard, restart>>

ClearReservation(d) ==
  /\ out[d].clearing
  /\ out' = [out EXCEPT ![d] = Counted([@ EXCEPT !.clearing = FALSE], Cleared(@.pending, TRUE))]
  /\ UNCHANGED <<arranged, run, pipe, heard, restart>>

-----------------------------------------------------------------------------
(* The pipeline of blocks.  Its operators take its record q.               *)

SendPayload(q, payload) ==
  IF q.aborted \/ payload \in q.sent \/ payload \in Elements(q.chain) THEN q
  ELSE [q EXCEPT !.chain = Append(@, payload)]

(* The coalescer, made to flush.                                           *)
Emptied_TimerLeft(q) == [q EXCEPT !.buffer = <<>>]
Emptied(q) == [q EXCEPT !.buffer = <<>>, !.armed = FALSE]
FlushText(q) == IF q.buffer = <<>> THEN Emptied(q) ELSE SendPayload(Emptied(q), q.buffer)

Keep(q, p) == [q EXCEPT !.buffer = Append(@, p), !.armed = TRUE]
Coalesce(q, p, how) ==
  CASE how = "fits" -> Keep(q, p)
    [] how = "fills" -> FlushText(Keep(q, p))
    [] how = "overflows" -> Keep(FlushText(q), p)
    [] how = "alone" -> SendPayload(FlushText(q), <<p>>)

(* enqueue: what was seen is not sent again, audio is held until a flush,  *)
(* other media pushes the text before it out.                              *)
Known(q, p) == p \in q.seen
Seen(q, p) == [q EXCEPT !.seen = @ \cup {p}]
EnqueueText(q, p, how) == IF q.aborted \/ Known(q, p) THEN q ELSE Coalesce(Seen(q, p), p, how)
EnqueueMedia(q, p) ==
  CASE q.aborted -> q
    [] ~q.aborted /\ Kind(p) = "audio" -> IF Known(q, p) THEN q ELSE [Seen(q, p) EXCEPT !.held = Append(@, p)]
    [] OTHER -> IF Known(q, p) THEN FlushText(q) ELSE SendPayload(Seen(FlushText(q), p), <<p>>)

(* flush: the coalescer first, then what was held; then it waits for the   *)
(* chain as it is now.                                                     *)
SendHeld(q) ==
  IF q.aborted THEN [q EXCEPT !.held = <<>>]
  ELSE [q EXCEPT !.chain = @ \o [i \in DOMAIN q.held |-> <<q.held[i]>>], !.held = <<>>]
Flush(q) == LET f == SendHeld(FlushText(q)) IN [f EXCEPT !.awaited = Len(f.chain)]

(* The pipeline is there only if block streaming is enabled.               *)
Flushed(q) == IF arranged.streaming THEN Flush(q) ELSE q

(* The idle timer: too short a text is left for a later time.              *)
IdleFlush(d) ==
  /\ Up /\ pipe[d].armed
  /\ pipe' = [pipe EXCEPT ![d] = FlushText(@)]
  /\ UNCHANGED <<arranged, run, out, heard, restart>>

Left(q) == [q EXCEPT !.chain = Tail(@), !.awaited = IF @ = 0 THEN 0 ELSE @ - 1]

(* onBlockReply comes back: the block has been spoken and is with the      *)
(* dispatcher.                                                             *)
BlockReplied(d) ==
  /\ pipe[d].chain # <<>>
  /\ LET payload == Head(pipe[d].chain) IN
     /\ pipe' = [pipe EXCEPT ![d] = [Left(pipe[d]) EXCEPT !.sent = @ \cup {payload}, !.streamed = TRUE]]
     /\ out' = [out EXCEPT ![d] = Enqueued(@, payload)]
  /\ UNCHANGED <<arranged, run, heard, restart>>

(* It does not come back in time: the rest of the chain is skipped, but    *)
(* the block is still being spoken.                                        *)
BlockTimesOut(d) ==
  /\ May("timeout") /\ pipe[d].chain # <<>>
  /\ pipe' = [pipe EXCEPT ![d] = [pipe[d] EXCEPT !.aborted = TRUE,
                                                 !.overdue = @ \cup {Head(pipe[d].chain)},
                                                 !.chain = <<>>, !.awaited = 0]]
  /\ UNCHANGED <<arranged, run, out, heard, restart>>

OverdueBlock(d) ==
  \E payload \in pipe[d].overdue :
    /\ pipe' = [pipe EXCEPT ![d].overdue = @ \ {payload}]
    /\ out' = [out EXCEPT ![d] = Enqueued(@, payload)]
    /\ UNCHANGED <<arranged, run, heard, restart>>

(* It rejects, in time or not: the block never gets to the dispatcher, and *)
(* the chain goes on.  "lost" is for the reader.                           *)
BlockFails(d) ==
  /\ May("rejection") /\ pipe[d].chain # <<>>
  /\ run' = [run EXCEPT ![d].lost = @ \cup {"block"}]
  /\ pipe' = [pipe EXCEPT ![d] = Left(@)]
  /\ UNCHANGED <<arranged, out, heard, restart>>

OverdueFails(d) ==
  /\ May("rejection")
  /\ \E payload \in pipe[d].overdue : pipe' = [pipe EXCEPT ![d].overdue = @ \ {payload}]
  /\ UNCHANGED <<arranged, run, out, heard, restart>>

-----------------------------------------------------------------------------
(* The turn: the model goes on in its script, leaving out what it likes.   *)

BeginRun(d) ==
  /\ run[d].stage = "arrived"
  /\ run' = [run EXCEPT ![d].stage = "talking"]
  /\ UNCHANGED <<arranged, pipe, out, heard, restart>>

(* A duplicate, or a policy, that ends the turn before the run.            *)
NoRun(d) ==
  /\ run[d].stage = "arrived"
  /\ run' = [run EXCEPT ![d].stage = "answering"]
  /\ UNCHANGED <<arranged, pipe, out, heard, restart>>

Script(d) == arranged.script[d]
Ahead(d) == {i \in DOMAIN Script(d) : i > run[d].at}
FirstSaid(r, p) == IF p \in Elements(r.said) THEN r.said ELSE Append(r.said, p)

Said(r, i, p) == [r EXCEPT !.at = i, !.final = Append(@, p), !.said = FirstSaid(r, p)]

SayText(d) ==
  /\ run[d].stage = "talking"
  /\ \E i \in Ahead(d) :
       LET p == Script(d)[i] IN
       /\ Kind(p) = "text"
       /\ run' = [run EXCEPT ![d] = Said(@, i, p)]
       /\ IF arranged.streaming
          THEN \E how \in arranged.coalescing : pipe' = [pipe EXCEPT ![d] = EnqueueText(@, p, how)]
          ELSE pipe' = pipe
  /\ UNCHANGED <<arranged, out, heard, restart>>

(* The handler of a block with media looks its file up in the sandbox.     *)
SayMedia(d) ==
  /\ run[d].stage = "talking"
  /\ \E i \in Ahead(d) :
       LET p == Script(d)[i] IN
       /\ Kind(p) \in {"image", "audio"}
       /\ run' = [run EXCEPT ![d] = [Said(run[d], i, p) EXCEPT
                    !.staging = IF arranged.streaming THEN @ \cup {p} ELSE @]]
  /\ UNCHANGED <<arranged, pipe, out, heard, restart>>

(* normalizeMediaPaths: the block goes on into the pipeline, or is lost    *)
(* with a warning.                                                         *)
MediaStaged(d) ==
  \E p \in run[d].staging :
    /\ run' = [run EXCEPT ![d].staging = @ \ {p}]
    /\ pipe' = IF p \in arranged.unreadable THEN pipe ELSE [pipe EXCEPT ![d] = EnqueueMedia(@, p)]
    /\ UNCHANGED <<arranged, out, heard, restart>>

(* A tool starts once the pipeline is flushed.  A text that the same event *)
(* pushes out is a microtask away: the flush begins without it.            *)
ToolStarts(d) ==
  /\ run[d].stage = "talking"
  /\ \E i \in Ahead(d) :
       /\ Kind(Script(d)[i]) = "tool"
       /\ run' = [run EXCEPT ![d].stage = "tool", ![d].at = i]
       /\ pipe' = [pipe EXCEPT ![d] = Flushed(@)]
  /\ UNCHANGED <<arranged, out, heard, restart>>

SayBeforeTool(d) ==
  /\ run[d].stage = "talking" /\ arranged.streaming
  /\ \E i \in Ahead(d), how \in arranged.coalescing :
       LET p == Script(d)[i] IN
       /\ i + 1 \in Ahead(d) /\ Kind(p) = "text" /\ Kind(Script(d)[i + 1]) = "tool"
       /\ run' = [run EXCEPT ![d] = [Said(@, i + 1, p) EXCEPT !.stage = "tool"]]
       /\ pipe' = [pipe EXCEPT ![d] = EnqueueText(Flush(@), p, how)]
  /\ UNCHANGED <<arranged, out, heard, restart>>

(* Its result joins the chain of tool results.                             *)
ToolEnds(d) ==
  /\ run[d].stage = "tool" /\ pipe[d].awaited = 0
  /\ LET p == Script(d)[run[d].at] IN
     run' = [run EXCEPT ![d].stage = "talking", ![d].tools = Append(@, p), ![d].said = Append(@, p)]
  /\ UNCHANGED <<arranged, pipe, out, heard, restart>>

ToolReplied(d) ==
  /\ run[d].tools # <<>>
  /\ run' = [run EXCEPT ![d].tools = Tail(@)]
  /\ out' = [out EXCEPT ![d] = Enqueued(@, <<Head(run[d].tools)>>)]
  /\ UNCHANGED <<arranged, pipe, heard, restart>>

(* onToolResult rejects: the chain goes on without this result.            *)
ToolFails(d) ==
  /\ May("rejection") /\ run[d].tools # <<>>
  /\ run' = [run EXCEPT ![d].tools = Tail(@), ![d].lost = @ \cup {"tool"}]
  /\ UNCHANGED <<arranged, pipe, out, heard, restart>>

(* Another model, or the same after an error of the connection, starts     *)
(* over; the pipeline stays.                                               *)
Retry(d) ==
  /\ May("retry") /\ run[d].stage = "talking" /\ ~run[d].retried
  /\ run' = [run EXCEPT ![d].retried = TRUE, ![d].at = 0, ![d].final = <<>>]
  /\ UNCHANGED <<arranged, pipe, out, heard, restart>>

(* The model has finished: flushed before the run ends, and by the agent   *)
(* runner after.  "late" is for the reader: the media of a block is still  *)
(* being looked up at this last flush.                                     *)
ModelEnds(d) ==
  /\ run[d].stage = "talking"
  /\ run' = [run EXCEPT ![d].stage = "ending"]
  /\ pipe' = [pipe EXCEPT ![d] = Flushed(@)]
  /\ UNCHANGED <<arranged, out, heard, restart>>

RunEnds(d) ==
  /\ run[d].stage = "ending" /\ pipe[d].awaited = 0
  /\ run' = [run EXCEPT ![d].stage = "flushing", ![d].late = run[d].staging # {}]
  /\ pipe' = [pipe EXCEPT ![d] = Flushed(@)]
  /\ UNCHANGED <<arranged, out, heard, restart>>

(* blockReplyPipeline.stop() clears the timer.                             *)
Stopped(q) == [q EXCEPT !.armed = FALSE]

PipelineStops(d) ==
  /\ run[d].stage = "flushing" /\ pipe[d].awaited = 0
  /\ run' = [run EXCEPT ![d].stage = "settling"]
  /\ pipe' = [pipe EXCEPT ![d] = Stopped(@)]
  /\ UNCHANGED <<arranged, out, heard, restart>>

(* The run fails: its error is all that is said, what is streaming is left *)
(* to itself.                                                              *)
RunFails(d) ==
  /\ May("error") /\ run[d].stage \in {"talking", "tool"}
  /\ run' = [run EXCEPT ![d].stage = "answering", ![d].finals = <<<<Trouble>>>>, ![d].failed = TRUE]
  /\ pipe' = [pipe EXCEPT ![d] = Stopped(@)]
  /\ UNCHANGED <<arranged, out, heard, restart>>

(* What is left of a sequence, a set taken out of it.                      *)
Without(s, T) ==
  LET rest[i \in 0..Len(s)] == IF i = 0 THEN <<>>
                               ELSE IF s[i] \in T THEN rest[i - 1]
                               ELSE Append(rest[i - 1], s[i])
  IN  rest[Len(s)]

(* buildReplyPayloads, when the tool results have gone: nothing if blocks  *)
(* were streamed and none timed out, otherwise what was not sent as it is. *)
(* A payload whose file cannot be read is stripped of it, and has nothing  *)
(* else to show; the others are not concerned.                             *)
StreamedWhole_IfAny(q) == q.streamed
StreamedWhole(q) == q.streamed /\ ~q.aborted

FinalPayloads(d) ==
  LET final == run[d].final
      payloads == [i \in DOMAIN final |-> <<final[i]>>] IN
  IF StreamedWhole(pipe[d]) THEN <<>>
  ELSE Without(payloads, pipe[d].sent \cup {<<p>> : p \in arranged.unreadable})

BuildReplyPayloads(d) ==
  /\ run[d].stage = "settling" /\ run[d].tools = <<>>
  /\ run' = [run EXCEPT ![d].stage = "answering", ![d].finals = FinalPayloads(d)]
  /\ UNCHANGED <<arranged, pipe, out, heard, restart>>

SendFinalReply(d) ==
  /\ run[d].stage = "answering" /\ run[d].finals # <<>>
  /\ run' = [run EXCEPT ![d].finals = Tail(@)]
  /\ out' = [out EXCEPT ![d] = Enqueued(@, Head(run[d].finals))]
  /\ UNCHANGED <<arranged, pipe, heard, restart>>

(* One of them cannot be made ready: dispatchReplyFromConfig throws, which *)
(* ends the turn and leaves the others out.                                *)
AnswerFails(d) ==
  /\ May("rejection") /\ run[d].stage = "answering" /\ run[d].finals # <<>>
  /\ run' = [run EXCEPT ![d].finals = <<>>, ![d].failed = TRUE]
  /\ UNCHANGED <<arranged, pipe, out, heard, restart>>

-----------------------------------------------------------------------------
(* requestGatewayRestart                                                   *)

(* getTotalQueueSize and getActiveEmbeddedRunCount see the run, not what   *)
(* becomes of its words; getTotalPendingReplies is a sum over the registry *)
(* of numbers above 0.                                                     *)
Running(d) == run[d].stage \in {"talking", "tool", "ending"}
Idle == \A d \in Replies : ~Running(d) /\ (out[d].registered => out[d].pending = 0)

RequestGatewayRestart ==
  /\ May("restart") /\ restart = "none"
  /\ restart' = IF Idle THEN "emitted" ELSE "waiting"
  /\ UNCHANGED <<arranged, run, pipe, out, heard>>

RestartReady ==
  /\ restart = "waiting" /\ Idle
  /\ restart' = "emitted"
  /\ UNCHANGED <<arranged, run, pipe, out, heard>>

RestartAnyway ==
  /\ May("impatience") /\ restart = "waiting" /\ ~Idle
  /\ restart' = "forced"
  /\ UNCHANGED <<arranged, run, pipe, out, heard>>

Speaks(d) == SayText(d) \/ SayMedia(d) \/ SayBeforeTool(d) \/ ToolStarts(d) \/ Retry(d) \/ RunFails(d)
Advances(d) == \/ BeginRun(d) \/ NoRun(d) \/ ModelEnds(d) \/ RunEnds(d) \/ PipelineStops(d)
               \/ BuildReplyPayloads(d) \/ SendFinalReply(d) \/ MarkComplete(d) \/ ToolEnds(d)
Delivers(d) == \/ MediaStaged(d) \/ BlockReplied(d) \/ OverdueBlock(d) \/ ToolReplied(d) \/ IdleFlush(d)
               \/ Deliver(d) \/ ClearReservation(d)
Hinders(d) == \/ BlockTimesOut(d) \/ BlockFails(d) \/ OverdueFails(d) \/ ToolFails(d)
              \/ AnswerFails(d) \/ DeliverFails(d)

Next ==
  \/ \E d \in Replies : Up /\ (Arrive(d) \/ Speaks(d) \/ Advances(d) \/ Delivers(d) \/ Hinders(d))
  \/ RequestGatewayRestart \/ RestartReady \/ RestartAnyway

Spec == Init /\ [][Next]_vars

(* What is begun goes on; nobody has to write, speak or fail, and nothing  *)
(* forces the restart.                                                     *)
Goes == (\E d \in Replies : Up /\ (Advances(d) \/ Delivers(d))) \/ RestartReady
FairSpec == Spec /\ WF_vars(Goes)

-----------------------------------------------------------------------------
(* The reply is as good as over: nothing more will be heard of it.         *)
Quiet(d) ==
  /\ run[d].stage = "complete" /\ run[d].staging = {} /\ run[d].tools = <<>>
  /\ pipe[d].chain = <<>> /\ pipe[d].overdue = {} /\ ~pipe[d].armed /\ out[d].chain = <<>>

(* No block timed out or came after the last flush, and neither the run    *)
(* nor the making of its answer failed.                                    *)
Orderly(d) == ~pipe[d].aborted /\ ~run[d].late /\ ~run[d].failed
Delivered(d) == ~out[d].failed

Of(kinds, s) == Without(s, {p \in Pieces \cup {Trouble} : Kind(p) \notin kinds})
Once(s) == \A i, j \in DOMAIN s : s[i] = s[j] => i = j

(* An orderly reply is heard as it was said, but for the files that cannot *)
(* be read.  Streamed, over several attempts, flushes and buffers: the     *)
(* texts in their order and once, the media once; unless a block was lost. *)
(* Otherwise, exactly as the last attempt put it.                          *)
StreamedAsSaid(d) ==
  /\ Of({"text"}, heard[d]) = Of({"text"}, run[d].said)
  /\ Once(Of({"image", "audio"}, heard[d]))
  /\ Elements(Of({"image", "audio"}, heard[d]))
       = Elements(Of({"image", "audio"}, run[d].said)) \ arranged.unreadable
AnsweredAsSaid(d) == Of({"text", "image", "audio"}, heard[d]) = Without(run[d].final, arranged.unreadable)

(* A block was lost while another was streamed, and none timed out: then   *)
(* the final answer is left out, the lost block with it.                   *)
BlockMissed(d) == "block" \in run[d].lost /\ pipe[d].streamed /\ ~pipe[d].aborted

(* Every reply has its tool results in their order, unless one of them was *)
(* lost.  And even if blocks time out or are lost, all of the final answer *)
(* that can be read is heard, since what was not streamed is sent after;   *)
(* unless a lost block is missed, or media is still looked up after the    *)
(* last flush: audio then stays held, and what follows a block that times  *)
(* out is lost.                                                            *)
HeardAsSaid ==
  \A d \in Replies : Quiet(d) /\ Delivered(d) =>
    /\ Orderly(d) => IF arranged.streaming THEN "block" \in run[d].lost \/ StreamedAsSaid(d)
                     ELSE AnsweredAsSaid(d)
    /\ "tool" \in run[d].lost \/ Of({"tool"}, heard[d]) = Of({"tool"}, run[d].said)
    /\ /\ ~run[d].failed /\ ~BlockMissed(d)
       /\ run[d].late => ~pipe[d].aborted /\ \A p \in Elements(run[d].final) : Kind(p) # "audio"
       => Elements(run[d].final) \ arranged.unreadable \subseteq Elements(heard[d])

(* A restart that was not forced cuts no orderly reply short: none is      *)
(* between the dispatcher's creation and its last delivery.                *)
RestartWaits ==
  restart = "emitted" =>
    \A d \in Replies : Orderly(d) => run[d].stage = "none" \/ Quiet(d)

(* A restart that waits comes: every dispatcher that was created leaves    *)
(* the registry in the end, whatever happened to its reply.                *)
RestartHappens == restart = "waiting" ~> restart \in {"emitted", "forced"}
=============================================================================
