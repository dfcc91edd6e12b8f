------------------------- MODULE ReplyDelivery_proofs -------------------------
(***************************************************************************)
(* Proofs about ReplyDelivery, for every number of replies, every script   *)
(* and everything that may happen to a reply: the types with the facts     *)
(* about each record, the restart that waits for orderly replies, and that *)
(* what is said is heard.                                                  *)
(***************************************************************************)
EXTENDS ReplyDelivery, SequenceTheorems, WellFoundedInduction, TLAPS

(* A set of numbers with 0 in it and with every successor of a number in   *)
(* it holds them all: a number it misses would have a least one before it. *)
LEMMA SetInduction ==
  ASSUME NEW X, X \subseteq Nat, 0 \in X, \A n \in X : n + 1 \in X
  PROVE  X = Nat
<1>. SUFFICES ASSUME Nat \ X # {} PROVE FALSE
  OBVIOUS
<1>1. PICK n \in Nat \ X : \A m \in Nat \ X : ~ (<<m, n>> \in OpToRel(<, Nat))
  BY NatLessThanWellFounded, WFMin
<1>2. \A m \in Nat \ X : ~ (m < n)
  BY <1>1 DEF OpToRel
<1>3. n # 0 /\ n - 1 \in Nat
  OBVIOUS
<1>. QED
  BY <1>2, <1>3

-----------------------------------------------------------------------------

(* The types again, record by record.                                      *)
RunRec == [stage : Stages, at : Nat, final : Payloads, said : Payloads,
           staging : SUBSET Pieces, tools : Payloads, finals : Seq(Payloads),
           retried : BOOLEAN, failed : BOOLEAN, late : BOOLEAN,
           lost : SUBSET {"block", "tool"}]
PipeRec == [buffer : Payloads, armed : BOOLEAN, held : Payloads, seen : SUBSET Pieces,
            chain : Seq(Payloads), sent : SUBSET Payloads, overdue : SUBSET Payloads,
            aborted : BOOLEAN, streamed : BOOLEAN, awaited : Nat]
OutRec == [chain : Seq(Payloads), pending : Int, complete : BOOLEAN, clearing : BOOLEAN,
           registered : BOOLEAN, failed : BOOLEAN]

GoodPipe(q) == /\ q \in PipeRec
               /\ q.armed => q.buffer # <<>>
               /\ q.awaited <= Len(q.chain)
GoodOut(o) == /\ o \in OutRec
              /\ o.registered => o.pending > 0

InOrder(r, q) == ~q.aborted /\ ~r.late /\ ~r.failed

(* The dispatcher counts the sends under way and one for the replies to    *)
(* come; an orderly reply gives that one back at its end and is then out   *)
(* of the registry as soon as nothing is being sent.                       *)
Counts(r, q, o) ==
  /\ r.stage = "none" => o.chain = <<>> /\ ~o.registered /\ ~o.complete /\ ~o.clearing
  /\ r.stage \notin {"none", "complete"} =>
       o.registered /\ ~o.complete /\ ~o.clearing /\ o.pending = Len(o.chain) + 1
  /\ InOrder(r, q) /\ r.stage = "complete" =>
       /\ o.complete
       /\ \/ /\ o.registered /\ o.pending = Len(o.chain) + 1
             /\ o.clearing \/ o.chain # <<>>
          \/ ~o.registered /\ o.pending = 0 /\ o.chain = <<>>

(* Nothing streams before the run; and what an orderly reply has left in   *)
(* its pipeline and its tool results after it, stage by stage: after the   *)
(* last flush nothing is added, and when that flush is over nothing is     *)
(* there.                                                                  *)
Streams(r, q) ==
  /\ r.stage \in {"none", "arrived", "talking", "tool", "ending"} => ~r.late
  /\ r.stage \in {"none", "arrived"} =>
       /\ r.staging = {} /\ r.tools = <<>> /\ ~r.failed
       /\ ~q.armed /\ q.chain = <<>> /\ q.overdue = {} /\ ~q.aborted
  /\ InOrder(r, q) =>
       /\ q.overdue = {}
       /\ ~arranged.streaming => r.staging = {} /\ ~q.armed /\ q.chain = <<>>
       /\ r.stage = "flushing" => r.staging = {} /\ ~q.armed /\ q.awaited = Len(q.chain)
       /\ r.stage \in {"settling", "answering", "complete"} =>
            r.staging = {} /\ ~q.armed /\ q.chain = <<>>
       /\ r.stage \in {"answering", "complete"} => r.tools = <<>>

(* The result of a tool is in the script.                                  *)
InScript(d, r) == r.stage = "tool" => r.at \in 1..Len(Script(d))

Good(d, r, q, o, h) ==
  /\ r \in RunRec /\ GoodPipe(q) /\ GoodOut(o) /\ h \in Payloads
  /\ Counts(r, q, o) /\ Streams(r, q) /\ InScript(d, r)

Shape ==
  /\ arranged \in Cases
  /\ run = [d \in Replies |-> run[d]] /\ pipe = [d \in Replies |-> pipe[d]]
  /\ out = [d \in Replies |-> out[d]] /\ heard = [d \in Replies |-> heard[d]]
  /\ restart \in {"none", "waiting", "emitted", "forced"}

(* The inductive invariant.                                                *)
ReplyInv ==
  /\ Shape
  /\ \A d \in Replies : Good(d, run[d], pipe[d], out[d], heard[d])
  /\ RestartWaits

-----------------------------------------------------------------------------
(* What is left of a sequence is a sequence of the same elements.          *)

(* g is the function that Without builds, up to k.                         *)
WithoutIs(s, T, k, g) ==
  g = [i \in 0..k |-> IF i = 0 THEN <<>>
                      ELSE IF s[i] \in T THEN g[i - 1]
                      ELSE Append(g[i - 1], s[i])]

(* Without takes the function's last value.                                *)
LEMMA WithoutDef ==
  ASSUME NEW s, NEW T
  PROVE  Without(s, T) = (CHOOSE g : WithoutIs(s, T, Len(s), g))[Len(s)]
BY DEF Without, WithoutIs

(* The function up to k extends to k + 1.                                  *)
LEMMA WithoutStep ==
  ASSUME NEW S, NEW s \in Seq(S), NEW T, NEW k \in Nat, NEW g, WithoutIs(s, T, k, g)
  PROVE  \E h : WithoutIs(s, T, k+1, h)
<1>. DEFINE h == [i \in 0..(k+1) |-> IF i = k+1 THEN IF s[i] \in T THEN g[k] ELSE Append(g[k], s[i]) ELSE g[i]]
<1>1. \A i \in 0..k : h[i] = g[i] 
  OBVIOUS
<1>2. \A i \in 0..k : g[i] = IF i = 0 THEN <<>>
                      ELSE IF s[i] \in T THEN g[i - 1]
                      ELSE Append(g[i - 1], s[i])
  <2>. DEFINE G(i) == IF i = 0 THEN <<>>
                      ELSE IF s[i] \in T THEN g[i - 1]
                      ELSE Append(g[i - 1], s[i])
  <2>1. g = [i \in 0..k |-> G(i)] BY DEF WithoutIs
  <2>. HIDE DEF G
  <2>2. \A i \in 0..k : g[i] = G(i) BY <2>1
  <2>. QED BY <2>2 DEF G
<1>3. \A i \in 0..(k+1) : h[i] = IF i = 0 THEN <<>>
                      ELSE IF s[i] \in T THEN h[i - 1]
                      ELSE Append(h[i - 1], s[i])
  <2>. TAKE i \in 0..(k+1)
  <2>1. CASE i = k+1
    BY <2>1, <1>1
  <2>2. CASE i # k+1
    <3>1. h[i] = g[i] /\ i \in 0..k BY <2>2
    <3>2. i # 0 => h[i-1] = g[i-1]  BY <2>2, <1>1
    <3>. HIDE DEF h
    <3>. QED BY <3>1, <3>2, <1>2
  <2>. QED BY <2>1, <2>2
<1>4. h = [i \in 0..(k+1) |-> IF i = 0 THEN <<>>
                      ELSE IF s[i] \in T THEN h[i - 1]
                      ELSE Append(h[i - 1], s[i])]
  <2>. DEFINE H(i) == IF i = 0 THEN <<>>
                      ELSE IF s[i] \in T THEN h[i - 1]
                      ELSE Append(h[i - 1], s[i])
  <2>1. \A i \in 0..(k+1) : h[i] = H(i) BY <1>3
  <2>2. h = [i \in 0..(k+1) |-> h[i]] OBVIOUS
  <2>. HIDE DEF H, h
  <2>3. h = [i \in 0..(k+1) |-> H(i)] BY <2>1, <2>2
  <2>. QED BY <2>3 DEF H
<1>. QED BY <1>4 DEF WithoutIs

(* Such a function exists, and what it gives is a sequence over S.         *)
LEMMA WithoutType ==
  ASSUME NEW S, NEW s \in Seq(S), NEW T
  PROVE  Without(s, T) \in Seq(S)
<1>. DEFINE n == Len(s)
            X == {k \in Nat : \E g : WithoutIs(s, T, k, g)}
<1>1. n \in Nat /\ \A i \in 1..n : s[i] \in S
  BY LenProperties, ElementOfSeq
<1>2. 0 \in X
  <2>. DEFINE g == [i \in 0..0 |-> <<>>]
  <2>1. g = [i \in 0..0 |-> IF i = 0 THEN <<>>
                      ELSE IF s[i] \in T THEN g[i - 1]
                      ELSE Append(g[i - 1], s[i])]
    OBVIOUS
  <2>. QED
    BY <2>1 DEF WithoutIs
<1>3. \A k \in X : k + 1 \in X
  BY WithoutStep
<1>4. X = Nat
  <2>. HIDE DEF X
  <2>1. X \subseteq Nat BY DEF X
  <2>. QED
  BY <2>1, <1>2, <1>3, SetInduction
<1>5. PICK g : WithoutIs(s, T, n, g) /\ Without(s, T) = g[n]
  BY <1>1, <1>4, WithoutDef
<1>. DEFINE Y == {k \in Nat : k <= n => g[k] \in Seq(S)}
<1>. HIDE DEF n, X
<1>6. \A i \in 0..n : g[i] = IF i = 0 THEN <<>>
                      ELSE IF s[i] \in T THEN g[i - 1]
                      ELSE Append(g[i - 1], s[i])
  <2>. DEFINE G(i) == IF i = 0 THEN <<>>
                      ELSE IF s[i] \in T THEN g[i - 1]
                      ELSE Append(g[i - 1], s[i])
  <2>1. g = [i \in 0..n |-> G(i)] BY <1>5 DEF WithoutIs
  <2>. HIDE DEF G
  <2>2. \A i \in 0..n : g[i] = G(i) BY <2>1
  <2>. QED BY <2>2 DEF G
<1>7. 0 \in Y
  <2>1. g[0] = <<>>
    BY <1>1, <1>6
  <2>. QED
    BY <2>1, EmptySeq
<1>8. ASSUME NEW k \in Y PROVE k + 1 \in Y
  <2>. SUFFICES ASSUME k + 1 <= n PROVE g[k + 1] \in Seq(S)
    OBVIOUS
  <2>1. g[k] \in Seq(S) /\ s[k + 1] \in S
    BY <1>1
  <2>2. g[k + 1] = IF s[k + 1] \in T THEN g[k] ELSE Append(g[k], s[k + 1])
    BY <1>6, <1>1
  <2>. QED
    BY <2>1, <2>2
<1>9. Y = Nat
  <2>. HIDE DEF Y
  <2>1. Y \subseteq Nat BY DEF Y
  <2>. QED
    BY <2>1, <1>7, <1>8, SetInduction
<1>. QED
  BY <1>5, <1>9, <1>1

-----------------------------------------------------------------------------
(* What a case is, of which a model takes a piece.                         *)
LEMMA CaseFacts ==
  ASSUME arranged \in Cases
  PROVE  /\ arranged.script \in [Replies -> Seq(Pieces)]
         /\ arranged.streaming \in BOOLEAN
         /\ arranged.coalescing \subseteq Hows
         /\ \A d \in Replies : \A j \in 1..Len(Script(d)) : Script(d)[j] \in Pieces
         /\ \A d \in Replies : \A j \in Ahead(d) :
              j \in Nat /\ j \in 1..Len(Script(d)) /\ Script(d)[j] \in Pieces
<1>1. /\ arranged.script \in [Replies -> Seq(Pieces)]
      /\ arranged.streaming \in BOOLEAN
      /\ arranged.coalescing \subseteq Hows
  BY DeliveryAssumption
<1>2. \A d \in Replies : DOMAIN Script(d) = 1..Len(Script(d)) /\ Len(Script(d)) \in Nat
  BY <1>1, LenProperties DEF Script
<1>3. \A d \in Replies : \A j \in 1..Len(Script(d)) : Script(d)[j] \in Pieces
  BY <1>1, ElementOfSeq DEF Script
<1>. QED
  BY <1>1, <1>2, <1>3 DEF Ahead

(* A piece alone is a payload, and payloads grow by a piece.               *)
LEMMA PayloadFacts ==
  /\ <<>> \in Payloads
  /\ \A p \in Pieces : <<p>> \in Payloads
  /\ \A s \in Payloads, p \in Pieces : Append(s, p) \in Payloads /\ Append(s, p) # <<>>
  /\ <<<<Trouble>>>> \in Seq(Payloads)
BY EmptySeq, AppendProperties DEF Payloads

(* A chain grows at its end.                                               *)
LEMMA ChainFacts ==
  /\ <<>> \in Seq(Payloads) /\ Len(<<>>) = 0
  /\ \A c \in Seq(Payloads) :
       /\ Len(c) \in Nat
       /\ c # <<>> <=> Len(c) > 0
       /\ c # <<>> => Head(c) \in Payloads /\ Tail(c) \in Seq(Payloads) /\ Len(Tail(c)) = Len(c) - 1
  /\ \A c \in Seq(Payloads), s \in Payloads :
       Append(c, s) \in Seq(Payloads) /\ Len(Append(c, s)) = Len(c) + 1
<1>1. \A c \in Seq(Payloads), s \in Payloads :
        Append(c, s) \in Seq(Payloads) /\ Len(Append(c, s)) = Len(c) + 1
  BY AppendProperties
<1>2. <<>> \in Seq(Payloads) /\ Len(<<>>) = 0
  BY EmptySeq
<1>3. ASSUME NEW c \in Seq(Payloads)
      PROVE  /\ Len(c) \in Nat
             /\ c # <<>> <=> Len(c) > 0
             /\ c # <<>> => /\ Head(c) \in Payloads /\ Tail(c) \in Seq(Payloads)
                            /\ Len(Tail(c)) = Len(c) - 1
  <2>1. Len(c) \in Nat /\ (c # <<>> => Len(c) > 0)
    BY EmptySeq, LenProperties
  <2>2. c = <<>> => Len(c) = 0
    BY <1>2, Zenon
  <2>3. c # <<>> => /\ Head(c) \in Payloads /\ Tail(c) \in Seq(Payloads)
                    /\ Len(Tail(c)) = Len(c) - 1
    BY HeadTailProperties
  <2>. QED
    BY <2>1, <2>2, <2>3
<1>. QED
  BY <1>1, <1>2, <1>3

-----------------------------------------------------------------------------
(* The operators of the pipeline keep its record good, and leave alone     *)
(* whether a block has timed out and which.                                *)
Alike(q, r) == r.aborted = q.aborted /\ r.overdue = q.overdue

(* A payload that is sent keeps the pipeline's shape and its timer,        *)
LEMMA SendsPayload ==
  ASSUME NEW q, GoodPipe(q), NEW s \in Payloads
  PROVE  /\ GoodPipe(SendPayload(q, s)) /\ Alike(q, SendPayload(q, s))
         /\ SendPayload(q, s).armed = q.armed
<1>1. CASE q.aborted \/ s \in q.sent \/ s \in Elements(q.chain)
  BY <1>1 DEF SendPayload, Alike
<1>2. CASE ~(q.aborted \/ s \in q.sent \/ s \in Elements(q.chain))
  <2>1. SendPayload(q, s) = [q EXCEPT !.chain = Append(@, s)]
    BY <1>2 DEF SendPayload
  <2>2. Append(q.chain, s) \in Seq(Payloads) /\ Len(Append(q.chain, s)) = Len(q.chain) + 1
        /\ Len(q.chain) \in Nat
    BY ChainFacts DEF GoodPipe, PipeRec
  <2>. HIDE DEF SendPayload
  <2>3. q \in PipeRec
    BY DEF GoodPipe
  <2>4. /\ SendPayload(q, s) \in PipeRec /\ Alike(q, SendPayload(q, s))
        /\ SendPayload(q, s).chain = Append(q.chain, s)
        /\ SendPayload(q, s).armed = q.armed /\ SendPayload(q, s).buffer = q.buffer
        /\ SendPayload(q, s).awaited = q.awaited
    BY <2>1, <2>2, <2>3 DEF PipeRec, Alike
  <2>5. q.awaited \in Nat
    BY <2>3 DEF PipeRec
  <2>. QED
    BY <2>2, <2>4, <2>5 DEF GoodPipe
<1>. QED
  BY <1>1, <1>2

(* an emptied coalescer has no timer,                                      *)
LEMMA IsEmptied ==
  ASSUME NEW q, GoodPipe(q)
  PROVE  /\ GoodPipe(Emptied(q)) /\ Alike(q, Emptied(q))
         /\ ~Emptied(q).armed
BY PayloadFacts DEF Emptied, GoodPipe, PipeRec, Alike

(* nor has a flushed one;                                                  *)
LEMMA FlushesText ==
  ASSUME NEW q, GoodPipe(q)
  PROVE  /\ GoodPipe(FlushText(q)) /\ Alike(q, FlushText(q))
         /\ ~FlushText(q).armed
<1>1. q.buffer \in Payloads
  BY DEF GoodPipe, PipeRec
<1>. QED
  BY <1>1, IsEmptied, SendsPayload DEF FlushText, Alike

(* a text that is kept,                                                    *)
LEMMA Keeps ==
  ASSUME NEW q, GoodPipe(q), NEW p \in Pieces
  PROVE  GoodPipe(Keep(q, p)) /\ Alike(q, Keep(q, p))
<1>1. Append(q.buffer, p) \in Payloads /\ Append(q.buffer, p) # <<>>
  BY PayloadFacts DEF GoodPipe, PipeRec
<1>. QED
  BY <1>1 DEF Keep, GoodPipe, PipeRec, Alike

(* coalesced,                                                              *)
LEMMA Coalesces ==
  ASSUME NEW q, GoodPipe(q), NEW p \in Pieces, NEW how \in Hows
  PROVE  GoodPipe(Coalesce(q, p, how)) /\ Alike(q, Coalesce(q, p, how))
<1>0. <<p>> \in Payloads
  BY PayloadFacts
<1>1. CASE how = "fits"
  BY <1>1, Keeps DEF Coalesce
<1>2. CASE how = "fills"
  BY <1>2, Keeps, FlushesText DEF Coalesce, Alike
<1>3. CASE how = "overflows"
  BY <1>3, Keeps, FlushesText DEF Coalesce, Alike
<1>4. CASE how = "alone"
  BY <1>0, <1>4, SendsPayload, FlushesText DEF Coalesce, Alike
<1>. QED
  BY <1>1, <1>2, <1>3, <1>4 DEF Hows

(* seen,                                                                   *)
LEMMA IsSeen ==
  ASSUME NEW q, GoodPipe(q), NEW p \in Pieces
  PROVE  GoodPipe(Seen(q, p)) /\ Alike(q, Seen(q, p))
BY DEF Seen, GoodPipe, PipeRec, Alike

(* or enqueued leaves the shape as it was,                                 *)
LEMMA EnqueuesText ==
  ASSUME NEW q, GoodPipe(q), NEW p \in Pieces, NEW how \in Hows
  PROVE  GoodPipe(EnqueueText(q, p, how)) /\ Alike(q, EnqueueText(q, p, how))
BY IsSeen, Coalesces DEF EnqueueText, Alike

(* so does media,                                                          *)
LEMMA EnqueuesMedia ==
  ASSUME NEW q, GoodPipe(q), NEW p \in Pieces
  PROVE  GoodPipe(EnqueueMedia(q, p)) /\ Alike(q, EnqueueMedia(q, p))
<1>. DEFINE s == Seen(q, p)
            h == [s EXCEPT !.held = Append(@, p)]
            f == SendPayload(Seen(FlushText(q), p), <<p>>)
<1>1. GoodPipe(s) /\ Alike(q, s)
  BY IsSeen
<1>2. GoodPipe(h) /\ Alike(q, h)
  <2>. HIDE DEF s
  <2>1. Append(s.held, p) \in Payloads
    BY <1>1, PayloadFacts DEF GoodPipe, PipeRec
  <2>. QED
    BY <1>1, <2>1 DEF GoodPipe, PipeRec, Alike
<1>3. GoodPipe(f) /\ Alike(q, f)
  <2>1. GoodPipe(FlushText(q)) /\ Alike(q, FlushText(q))
    BY FlushesText
  <2>2. GoodPipe(Seen(FlushText(q), p)) /\ Alike(FlushText(q), Seen(FlushText(q), p))
    BY <2>1, IsSeen
  <2>3. <<p>> \in Payloads
    BY PayloadFacts
  <2>4. GoodPipe(f) /\ Alike(Seen(FlushText(q), p), f)
    BY <2>2, <2>3, SendsPayload
  <2>. HIDE DEF f
  <2>. QED
    BY <2>1, <2>2, <2>4 DEF Alike
<1>4. EnqueueMedia(q, p) \in {q, h, f, FlushText(q)}
  <2>. HIDE DEF f
  <2>. QED
    BY DEF EnqueueMedia, f
<1>5. Alike(q, q)
  BY DEF Alike
<1>. HIDE DEF s, h, f
<1>. QED
  BY <1>2, <1>3, <1>4, <1>5, FlushesText

(* and what a flush sends of the audio that was held.                      *)
LEMMA SendsHeld ==
  ASSUME NEW q, GoodPipe(q)
  PROVE  GoodPipe(SendHeld(q)) /\ Alike(q, SendHeld(q)) /\ SendHeld(q).armed = q.armed
<1>. DEFINE h == [j \in DOMAIN q.held |-> <<q.held[j]>>]
            c == q.chain \o h
<1>1. h \in Seq(Payloads)
  <2>1. /\ Len(q.held) \in Nat /\ DOMAIN q.held = 1..Len(q.held)
        /\ \A j \in 1..Len(q.held) : q.held[j] \in Pieces \cup {Trouble}
    BY LenProperties, ElementOfSeq DEF GoodPipe, PipeRec, Payloads
  <2>2. \A j \in 1..Len(q.held) : <<q.held[j]>> \in Payloads
    BY <2>1 DEF Payloads
  <2>. QED
    BY <2>1, <2>2, IsASeq
<1>2. /\ c \in Seq(Payloads) /\ Len(c) = Len(q.chain) + Len(h)
      /\ Len(h) \in Nat /\ Len(q.chain) \in Nat
  BY <1>1, ConcatProperties, ChainFacts DEF GoodPipe, PipeRec
<1>3. SendHeld(q) = IF q.aborted THEN [q EXCEPT !.held = <<>>]
                    ELSE [q EXCEPT !.chain = c, !.held = <<>>]
  BY DEF SendHeld
<1>. HIDE DEF h, c
<1>4. q \in PipeRec /\ q.awaited \in Nat /\ q.awaited <= Len(q.chain) /\ (q.armed => q.buffer # <<>>)
  BY DEF GoodPipe, PipeRec
<1>5. /\ SendHeld(q) \in PipeRec /\ Alike(q, SendHeld(q))
      /\ SendHeld(q).chain = IF q.aborted THEN q.chain ELSE c
      /\ SendHeld(q).armed = q.armed /\ SendHeld(q).buffer = q.buffer
      /\ SendHeld(q).awaited = q.awaited
  <2>1. CASE q.aborted
    BY <1>2, <1>3, <1>4, <2>1, PayloadFacts DEF PipeRec, Alike
  <2>2. CASE ~q.aborted
    BY <1>2, <1>3, <1>4, <2>2, PayloadFacts DEF PipeRec, Alike
  <2>. QED
    BY <2>1, <2>2
<1>. QED
  BY <1>2, <1>4, <1>5 DEF GoodPipe

(* A flush leaves nothing in the coalescer and waits for all of the chain. *)
LEMMA Flushes ==
  ASSUME NEW q, GoodPipe(q)
  PROVE  /\ GoodPipe(Flush(q)) /\ Alike(q, Flush(q))
         /\ ~Flush(q).armed /\ Flush(q).awaited = Len(Flush(q).chain)
<1>. DEFINE f == SendHeld(FlushText(q))
<1>1. GoodPipe(f) /\ Alike(q, f) /\ ~f.armed
  BY FlushesText, SendsHeld DEF Alike
<1>2. Flush(q) = [f EXCEPT !.awaited = Len(f.chain)]
  BY DEF Flush
<1>. HIDE DEF f
<1>3. f \in PipeRec /\ Len(f.chain) \in Nat
  BY <1>1, ChainFacts DEF GoodPipe, PipeRec
<1>4. /\ Flush(q) \in PipeRec /\ Alike(q, Flush(q)) /\ ~Flush(q).armed
      /\ Flush(q).chain = f.chain /\ Flush(q).awaited = Len(f.chain)
  BY <1>1, <1>2, <1>3 DEF PipeRec, Alike
<1>. QED
  BY <1>3, <1>4 DEF GoodPipe

-----------------------------------------------------------------------------
(* A step of one reply replaces its records by good ones.                  *)
After(d, r, q, o, h) ==
  /\ run' = [run EXCEPT ![d] = r] /\ pipe' = [pipe EXCEPT ![d] = q]
  /\ out' = [out EXCEPT ![d] = o] /\ heard' = [heard EXCEPT ![d] = h]
  /\ UNCHANGED <<arranged, restart>>

GoodStep(d) == \E r, q, o, h : After(d, r, q, o, h) /\ Good(d, r, q, o, h)

Fit(d) == Shape /\ Good(d, run[d], pipe[d], out[d], heard[d])

(* What is not replaced is replaced by itself.                             *)
LEMMA Untouched ==
  ASSUME NEW d \in Replies, Shape
  PROVE  /\ run = [run EXCEPT ![d] = run[d]] /\ pipe = [pipe EXCEPT ![d] = pipe[d]]
         /\ out = [out EXCEPT ![d] = out[d]] /\ heard = [heard EXCEPT ![d] = heard[d]]
BY DEF Shape

(* A dispatcher with one more send, and one whose sends have ended.        *)
LEMMA IsEnqueued ==
  ASSUME NEW o, GoodOut(o), NEW s \in Payloads
  PROVE  /\ GoodOut(Enqueued(o, s))
         /\ Enqueued(o, s) = [o EXCEPT !.chain = Append(o.chain, s), !.pending = o.pending + 1]
         /\ Enqueued(o, s).pending = o.pending + 1
         /\ Enqueued(o, s).chain \in Seq(Payloads) /\ Enqueued(o, s).chain # <<>>
         /\ Len(Enqueued(o, s).chain) = Len(o.chain) + 1
         /\ Enqueued(o, s).registered = o.registered /\ Enqueued(o, s).complete = o.complete
         /\ Enqueued(o, s).clearing = o.clearing
<1>1. o \in OutRec /\ o.chain \in Seq(Payloads) /\ o.pending \in Int /\ (o.registered => o.pending > 0)
  BY DEF GoodOut, OutRec
<1>2. /\ Append(o.chain, s) \in Seq(Payloads) /\ Len(Append(o.chain, s)) = Len(o.chain) + 1
      /\ Append(o.chain, s) # <<>>
  <2>1. Append(o.chain, s) \in Seq(Payloads) /\ Len(Append(o.chain, s)) = Len(o.chain) + 1 /\ Len(o.chain) \in Nat
    BY <1>1, ChainFacts
  <2>. QED
    BY <2>1, ChainFacts
<1>3. Enqueued(o, s) = [o EXCEPT !.chain = Append(o.chain, s), !.pending = o.pending + 1]
  BY DEF Enqueued
<1>4. /\ Enqueued(o, s) \in OutRec /\ Enqueued(o, s).pending = o.pending + 1
      /\ Enqueued(o, s).chain = Append(o.chain, s)
      /\ Enqueued(o, s).registered = o.registered /\ Enqueued(o, s).complete = o.complete
      /\ Enqueued(o, s).clearing = o.clearing
  <2>. DEFINE c == Append(o.chain, s)
              n == o.pending + 1
  <2>1. c \in Seq(Payloads) /\ n \in Int /\ Enqueued(o, s) = [o EXCEPT !.chain = c, !.pending = n]
    BY <1>1, <1>2, <1>3
  <2>. HIDE DEF c, n
  <2>2. /\ Enqueued(o, s) \in OutRec /\ Enqueued(o, s).pending = n
        /\ Enqueued(o, s).chain = c
        /\ Enqueued(o, s).registered = o.registered /\ Enqueued(o, s).complete = o.complete
        /\ Enqueued(o, s).clearing = o.clearing
    BY <1>1, <2>1 DEF OutRec
  <2>. QED
    BY <2>2 DEF c, n
<1>. QED
  BY <1>1, <1>2, <1>3, <1>4 DEF GoodOut

(* The steps of a reply, one by one: the run begins,                       *)
LEMMA BeginsRun ==
  ASSUME NEW d \in Replies, Fit(d), BeginRun(d)
  PROVE  GoodStep(d)
<1>. DEFINE r == [run[d] EXCEPT !.stage = "talking"]
<1>1. After(d, r, pipe[d], out[d], heard[d])
  BY Untouched DEF Fit, After, BeginRun
<1>2. /\ run[d] \in RunRec /\ GoodPipe(pipe[d]) /\ GoodOut(out[d]) /\ heard[d] \in Payloads
      /\ Counts(run[d], pipe[d], out[d]) /\ Streams(run[d], pipe[d]) /\ InScript(d, run[d])
      /\ arranged \in Cases
  BY DEF Fit, Good, Shape
<1>3. /\ r \in RunRec /\ r.stage = "talking" /\ r.staging = run[d].staging
      /\ r.late = run[d].late /\ r.failed = run[d].failed
  BY <1>2 DEF RunRec, Stages
<1>4. Good(d, r, pipe[d], out[d], heard[d])
  <2>. HIDE DEF r
  <2>. QED
    BY <1>2, <1>3 DEF BeginRun, Good, Counts, Streams, InOrder, InScript
<1>. QED
  BY <1>1, <1>4 DEF GoodStep

(* or does not,                                                            *)
LEMMA DoesNotRun ==
  ASSUME NEW d \in Replies, Fit(d), NoRun(d)
  PROVE  GoodStep(d)
<1>. DEFINE r == [run[d] EXCEPT !.stage = "answering"]
<1>1. After(d, r, pipe[d], out[d], heard[d])
  BY Untouched DEF Fit, After, NoRun
<1>2. /\ run[d] \in RunRec /\ GoodPipe(pipe[d]) /\ GoodOut(out[d]) /\ heard[d] \in Payloads
      /\ Counts(run[d], pipe[d], out[d]) /\ Streams(run[d], pipe[d]) /\ InScript(d, run[d])
      /\ arranged \in Cases
  BY DEF Fit, Good, Shape
<1>3. /\ r \in RunRec /\ r.stage = "answering" /\ r.staging = run[d].staging
      /\ r.tools = run[d].tools /\ r.late = run[d].late
      /\ r.failed = run[d].failed
  BY <1>2 DEF RunRec, Stages
<1>4. Good(d, r, pipe[d], out[d], heard[d])
  <2>. HIDE DEF r
  <2>. QED
    BY <1>2, <1>3 DEF NoRun, Good, Counts, Streams, InOrder, InScript
<1>. QED
  BY <1>1, <1>4 DEF GoodStep

(* it is tried again,                                                      *)
LEMMA Retries ==
  ASSUME NEW d \in Replies, Fit(d), Retry(d)
  PROVE  GoodStep(d)
<1>. DEFINE r == [run[d] EXCEPT !.retried = TRUE, !.at = 0, !.final = <<>>]
<1>1. After(d, r, pipe[d], out[d], heard[d])
  BY Untouched DEF Fit, After, Retry
<1>2. /\ run[d] \in RunRec /\ GoodPipe(pipe[d]) /\ GoodOut(out[d]) /\ heard[d] \in Payloads
      /\ Counts(run[d], pipe[d], out[d]) /\ Streams(run[d], pipe[d]) /\ InScript(d, run[d])
      /\ arranged \in Cases
  BY DEF Fit, Good, Shape
<1>3. /\ r \in RunRec /\ r.stage = run[d].stage /\ r.staging = run[d].staging
      /\ r.tools = run[d].tools /\ r.late = run[d].late
      /\ r.failed = run[d].failed
  BY <1>2, PayloadFacts DEF RunRec, Stages
<1>4. Good(d, r, pipe[d], out[d], heard[d])
  <2>. HIDE DEF r
  <2>. QED
    BY <1>2, <1>3 DEF Retry, Good, Counts, Streams, InOrder, InScript
<1>. QED
  BY <1>1, <1>4 DEF GoodStep

(* the reservation is a number,                                            *)
LEMMA Reserves == Reservation \in Int
BY DEF Reservation

(* a dispatcher is registered with it,                                     *)
LEMMA Arrives ==
  ASSUME NEW d \in Replies, Fit(d), Arrive(d)
  PROVE  GoodStep(d)
<1>. DEFINE r == [run[d] EXCEPT !.stage = "arrived"]
            o == [out[d] EXCEPT !.pending = Reservation, !.registered = TRUE]
<1>1. After(d, r, pipe[d], o, heard[d])
  BY Untouched DEF Fit, After, Arrive
<1>2. /\ run[d] \in RunRec /\ GoodPipe(pipe[d]) /\ GoodOut(out[d]) /\ heard[d] \in Payloads
      /\ Counts(run[d], pipe[d], out[d]) /\ Streams(run[d], pipe[d]) /\ InScript(d, run[d])
      /\ arranged \in Cases
  BY DEF Fit, Good, Shape
<1>3. /\ r \in RunRec /\ r.stage = "arrived" /\ r.staging = run[d].staging
      /\ r.tools = run[d].tools /\ r.late = run[d].late
      /\ r.failed = run[d].failed
  BY <1>2 DEF RunRec, Stages
<1>4. /\ o \in OutRec /\ o.pending = Reservation /\ o.registered = TRUE
      /\ o.chain = out[d].chain /\ o.complete = out[d].complete
      /\ o.clearing = out[d].clearing
  BY <1>2, Reserves DEF GoodOut, OutRec
<1>5. Good(d, r, pipe[d], o, heard[d])
  <2>. HIDE DEF r, o
  <2>. QED
    BY <1>2, <1>3, <1>4, ChainFacts DEF Arrive, Reservation, GoodOut, Good, Counts, Streams, InOrder, InScript
<1>. QED
  BY <1>1, <1>5 DEF GoodStep

(* The count is replaced, and at 0 the dispatcher leaves the registry.      *)
LEMMA IsCounted ==
  ASSUME NEW o \in OutRec, NEW n \in Int
  PROVE  /\ Counted(o, n) \in OutRec /\ Counted(o, n).pending = n
         /\ Counted(o, n).registered = (o.registered /\ n # 0)
         /\ Counted(o, n).chain = o.chain /\ Counted(o, n).complete = o.complete
         /\ Counted(o, n).clearing = o.clearing
<1>. DEFINE g == (o.registered /\ n # 0)
<1>1. Counted(o, n) = [o EXCEPT !.pending = n, !.registered = g]
  BY DEF Counted
<1>2. g \in BOOLEAN
  OBVIOUS
<1>. HIDE DEF g
<1>3. /\ Counted(o, n) \in OutRec /\ Counted(o, n).pending = n
      /\ Counted(o, n).registered = g
      /\ Counted(o, n).chain = o.chain /\ Counted(o, n).complete = o.complete
      /\ Counted(o, n).clearing = o.clearing
  BY <1>1, <1>2 DEF OutRec
<1>. QED
  BY <1>3 DEF g

(* a send ends, and is counted down,                                       *)
LEMMA SendsEnd ==
  ASSUME NEW d \in Replies, GoodOut(out[d]), out[d].chain # <<>>
  PROVE  /\ GoodOut(SendEnds(d))
         /\ SendEnds(d).chain \in Seq(Payloads) /\ Len(SendEnds(d).chain) = Len(out[d].chain) - 1
         /\ Len(out[d].chain) \in Nat
         /\ SendEnds(d).pending = Cleared(out[d].pending - 1, out[d].complete)
         /\ SendEnds(d).registered = (out[d].registered /\ SendEnds(d).pending # 0)
         /\ SendEnds(d).complete = out[d].complete /\ SendEnds(d).clearing = out[d].clearing
<1>. DEFINE o == out[d]
            c == Tail(o.chain)
            n == Cleared(o.pending - 1, o.complete)
            g == (o.registered /\ n # 0)
<1>1. /\ o \in OutRec /\ o.chain \in Seq(Payloads) /\ o.pending \in Int
      /\ o.registered \in BOOLEAN /\ (o.registered => o.pending > 0)
  BY DEF GoodOut, OutRec
<1>2. c \in Seq(Payloads) /\ Len(c) = Len(o.chain) - 1 /\ Len(o.chain) \in Nat
  BY <1>1, ChainFacts
<1>3. n \in Int /\ (o.registered => n >= 0) /\ g \in BOOLEAN
  BY <1>1 DEF Cleared
<1>4. SendEnds(d) = Counted([o EXCEPT !.chain = c], n)
  BY DEF SendEnds
<1>. HIDE DEF o, c, n
<1>5. /\ SendEnds(d) \in OutRec /\ SendEnds(d).chain = c /\ SendEnds(d).pending = n
      /\ SendEnds(d).registered = g
      /\ SendEnds(d).complete = o.complete /\ SendEnds(d).clearing = o.clearing
  <2>. DEFINE e == [o EXCEPT !.chain = c]
  <2>1. /\ e \in OutRec /\ e.chain = c /\ e.registered = o.registered
        /\ e.complete = o.complete /\ e.clearing = o.clearing
    BY <1>1, <1>2 DEF OutRec
  <2>2. SendEnds(d) = Counted(e, n)
    BY <1>4
  <2>. HIDE DEF e
  <2>. QED
    BY <1>3, <2>1, <2>2, IsCounted
<1>6. GoodOut(SendEnds(d))
  <2>1. SendEnds(d).registered => o.registered /\ n # 0
    BY <1>5
  <2>. QED
    BY <1>3, <1>5, <2>1 DEF GoodOut
<1>. QED
  BY <1>2, <1>5, <1>6 DEF o, n

(* a delivery succeeds,                                                    *)
LEMMA IsDelivered ==
  ASSUME NEW d \in Replies, Fit(d), Deliver(d)
  PROVE  GoodStep(d)
<1>. DEFINE o == SendEnds(d)
            h == heard[d] \o Head(out[d].chain)
<1>1. After(d, run[d], pipe[d], o, h)
  BY Untouched DEF Fit, After, Deliver
<1>2. /\ run[d] \in RunRec /\ GoodPipe(pipe[d]) /\ GoodOut(out[d]) /\ heard[d] \in Payloads
      /\ Counts(run[d], pipe[d], out[d]) /\ Streams(run[d], pipe[d]) /\ InScript(d, run[d])
      /\ arranged \in Cases
  BY DEF Fit, Good, Shape
<1>3. /\ GoodOut(o) /\ o.chain \in Seq(Payloads)
      /\ Len(o.chain) = Len(out[d].chain) - 1 /\ Len(out[d].chain) \in Nat
      /\ o.pending = Cleared(out[d].pending - 1, out[d].complete)
      /\ o.registered = (out[d].registered /\ o.pending # 0)
      /\ o.complete = out[d].complete /\ o.clearing = out[d].clearing
  BY <1>2, SendsEnd DEF Deliver
<1>4. /\ h \in Payloads
  BY <1>2, ChainFacts, ConcatProperties DEF Deliver, GoodOut, OutRec, Payloads
<1>5. Good(d, run[d], pipe[d], o, h)
  <2>. HIDE DEF o, h
  <2>. QED
    BY <1>2, <1>3, <1>4, ChainFacts DEF Cleared, GoodOut, OutRec, Good, Counts, Streams, InOrder, InScript
<1>. QED
  BY <1>1, <1>5 DEF GoodStep

(* or fails,                                                               *)
LEMMA DeliveryFails ==
  ASSUME NEW d \in Replies, Fit(d), DeliverFails(d)
  PROVE  GoodStep(d)
<1>. DEFINE o == [SendEnds(d) EXCEPT !.failed = TRUE]
<1>1. After(d, run[d], pipe[d], o, heard[d])
  BY Untouched DEF Fit, After, DeliverFails
<1>2. /\ run[d] \in RunRec /\ GoodPipe(pipe[d]) /\ GoodOut(out[d]) /\ heard[d] \in Payloads
      /\ Counts(run[d], pipe[d], out[d]) /\ Streams(run[d], pipe[d]) /\ InScript(d, run[d])
      /\ arranged \in Cases
  BY DEF Fit, Good, Shape
<1>3. /\ o \in OutRec /\ o.chain \in Seq(Payloads)
      /\ Len(o.chain) = Len(out[d].chain) - 1 /\ Len(out[d].chain) \in Nat
      /\ o.pending = Cleared(out[d].pending - 1, out[d].complete)
      /\ o.registered = (out[d].registered /\ o.pending # 0)
      /\ o.complete = out[d].complete /\ o.clearing = out[d].clearing
  BY <1>2, SendsEnd DEF DeliverFails, GoodOut, OutRec
<1>4. Good(d, run[d], pipe[d], o, heard[d])
  <2>. HIDE DEF o
  <2>. QED
    BY <1>2, <1>3, ChainFacts DEF Cleared, GoodOut, OutRec, Good, Counts, Streams, InOrder, InScript
<1>. QED
  BY <1>1, <1>4 DEF GoodStep

(* the dispatcher is marked complete,                                      *)
LEMMA MarksComplete ==
  ASSUME NEW d \in Replies, Fit(d), MarkComplete(d)
  PROVE  GoodStep(d)
<1>. DEFINE r == [run[d] EXCEPT !.stage = "complete"]
            o == [out[d] EXCEPT !.complete = TRUE, !.clearing = TRUE]
<1>1. After(d, r, pipe[d], o, heard[d])
  BY Untouched DEF Fit, After, MarkComplete
<1>2. /\ run[d] \in RunRec /\ GoodPipe(pipe[d]) /\ GoodOut(out[d]) /\ heard[d] \in Payloads
      /\ Counts(run[d], pipe[d], out[d]) /\ Streams(run[d], pipe[d]) /\ InScript(d, run[d])
      /\ arranged \in Cases
  BY DEF Fit, Good, Shape
<1>3. /\ r \in RunRec /\ r.stage = "complete" /\ r.staging = run[d].staging
      /\ r.tools = run[d].tools /\ r.late = run[d].late
      /\ r.failed = run[d].failed
  BY <1>2 DEF RunRec, Stages
<1>4. /\ o \in OutRec /\ o.complete = TRUE /\ o.clearing = TRUE
      /\ o.chain = out[d].chain /\ o.pending = out[d].pending
      /\ o.registered = out[d].registered
  BY <1>2 DEF GoodOut, OutRec
<1>5. Good(d, r, pipe[d], o, heard[d])
  <2>. HIDE DEF r, o
  <2>. QED
    BY <1>2, <1>3, <1>4 DEF MarkComplete, GoodOut, Good, Counts, Streams, InOrder, InScript
<1>. QED
  BY <1>1, <1>5 DEF GoodStep

(* and its reservation is cleared,                                         *)
LEMMA ClearsReservation ==
  ASSUME NEW d \in Replies, Fit(d), ClearReservation(d)
  PROVE  GoodStep(d)
<1>. DEFINE e == [out[d] EXCEPT !.clearing = FALSE]
            n == Cleared(out[d].pending, TRUE)
<1>0. out[d] \in OutRec
  BY DEF Fit, Good, GoodOut
<1>a. /\ e \in OutRec /\ e.registered = out[d].registered /\ e.chain = out[d].chain
      /\ e.complete = out[d].complete /\ e.clearing = FALSE
  BY <1>0 DEF OutRec
<1>b. n \in Int
  BY <1>0 DEF OutRec, Cleared
<1>. DEFINE o == Counted(e, n)
<1>1. After(d, run[d], pipe[d], o, heard[d])
  BY Untouched DEF Fit, After, ClearReservation
<1>2. /\ run[d] \in RunRec /\ GoodPipe(pipe[d]) /\ GoodOut(out[d]) /\ heard[d] \in Payloads
      /\ Counts(run[d], pipe[d], out[d]) /\ Streams(run[d], pipe[d]) /\ InScript(d, run[d])
      /\ arranged \in Cases
  BY DEF Fit, Good, Shape
<1>3. /\ o \in OutRec /\ o.pending = n
      /\ o.registered = (out[d].registered /\ o.pending # 0)
      /\ o.clearing = FALSE /\ o.chain = out[d].chain
      /\ o.complete = out[d].complete
  <2>. HIDE DEF e, n
  <2>. QED
    BY <1>a, <1>b, IsCounted
<1>4. Good(d, run[d], pipe[d], o, heard[d])
  <2>. HIDE DEF o
  <2>. QED
    BY <1>2, <1>3, ChainFacts DEF ClearReservation, GoodOut, OutRec, Cleared, Good, Counts, Streams, InOrder, InScript
<1>. QED
  BY <1>1, <1>4 DEF GoodStep

(* the idle timer rings,                                                   *)
LEMMA FlushesIdly ==
  ASSUME NEW d \in Replies, Fit(d), IdleFlush(d)
  PROVE  GoodStep(d)
<1>. DEFINE q == FlushText(pipe[d])
<1>1. After(d, run[d], q, out[d], heard[d])
  BY Untouched DEF Fit, After, IdleFlush
<1>2. /\ run[d] \in RunRec /\ GoodPipe(pipe[d]) /\ GoodOut(out[d]) /\ heard[d] \in Payloads
      /\ Counts(run[d], pipe[d], out[d]) /\ Streams(run[d], pipe[d]) /\ InScript(d, run[d])
      /\ arranged \in Cases
  BY DEF Fit, Good, Shape
<1>3. /\ GoodPipe(q) /\ Alike(pipe[d], q) /\ q.armed = FALSE
  BY <1>2, FlushesText
<1>4. Good(d, run[d], q, out[d], heard[d])
  <2>. HIDE DEF q
  <2>. QED
    BY <1>2, <1>3 DEF IdleFlush, Alike, Good, Counts, Streams, InOrder, InScript
<1>. QED
  BY <1>1, <1>4 DEF GoodStep

(* The head of the chain leaves it.                                        *)
LEMMA Leaves ==
  ASSUME NEW q, GoodPipe(q), q.chain # <<>>
  PROVE  /\ Left(q) \in PipeRec /\ Alike(q, Left(q)) /\ Head(q.chain) \in Payloads
         /\ Left(q).armed = q.armed /\ Left(q).buffer = q.buffer
         /\ Len(Left(q).chain) = Len(q.chain) - 1 /\ Len(q.chain) \in Nat
         /\ Left(q).chain \in Seq(Payloads)
         /\ Left(q).awaited \in Nat /\ Left(q).awaited <= Len(Left(q).chain)
         /\ q.awaited = Len(q.chain) => Left(q).awaited = Len(Left(q).chain)
<1>. DEFINE c == Tail(q.chain)
            n == IF q.awaited = 0 THEN 0 ELSE q.awaited - 1
<1>1. q \in PipeRec /\ q.chain \in Seq(Payloads) /\ q.awaited \in Nat /\ q.awaited <= Len(q.chain)
  BY DEF GoodPipe, PipeRec
<1>2. /\ c \in Seq(Payloads) /\ Len(c) = Len(q.chain) - 1 /\ Len(q.chain) \in Nat
      /\ Head(q.chain) \in Payloads /\ Len(q.chain) > 0
  BY <1>1, ChainFacts
<1>3. n \in Nat /\ n <= Len(c) /\ (q.awaited = Len(q.chain) => n = Len(c))
  <2>. HIDE DEF c
  <2>. QED
    BY <1>1, <1>2
<1>4. Left(q) = [q EXCEPT !.chain = c, !.awaited = n]
  BY DEF Left
<1>. HIDE DEF c, n
<1>5. /\ Left(q) \in PipeRec /\ Alike(q, Left(q)) /\ Left(q).chain = c /\ Left(q).awaited = n
      /\ Left(q).armed = q.armed /\ Left(q).buffer = q.buffer
  BY <1>1, <1>2, <1>3, <1>4 DEF PipeRec, Alike
<1>. QED
  BY <1>2, <1>3, <1>5

(* a block is spoken and reaches the dispatcher,                           *)
LEMMA ABlockReplied ==
  ASSUME NEW d \in Replies, Fit(d), BlockReplied(d)
  PROVE  GoodStep(d)
<1>. DEFINE l == Left(pipe[d])
            p == Head(pipe[d].chain)
<1>0. /\ l \in PipeRec /\ Alike(pipe[d], l) /\ p \in Payloads
      /\ l.armed = pipe[d].armed /\ l.buffer = pipe[d].buffer
      /\ Len(l.chain) = Len(pipe[d].chain) - 1 /\ Len(pipe[d].chain) \in Nat
      /\ l.chain \in Seq(Payloads) /\ l.awaited \in Nat /\ l.awaited <= Len(l.chain)
      /\ pipe[d].awaited = Len(pipe[d].chain) => l.awaited = Len(l.chain)
  BY Leaves DEF BlockReplied, Fit, Good
<1>. DEFINE q == [l EXCEPT !.sent = l.sent \cup {p}, !.streamed = TRUE]
            o == Enqueued(out[d], p)
<1>1. After(d, run[d], q, o, heard[d])
  <2>1. pipe' = [pipe EXCEPT ![d] = q]
    BY DEF BlockReplied
  <2>2. out' = [out EXCEPT ![d] = o] /\ UNCHANGED <<arranged, run, heard, restart>>
    BY DEF BlockReplied
  <2>. HIDE DEF q, o
  <2>. QED
    BY <2>1, <2>2, Untouched DEF Fit, After
<1>2. /\ run[d] \in RunRec /\ GoodPipe(pipe[d]) /\ GoodOut(out[d]) /\ heard[d] \in Payloads
      /\ Counts(run[d], pipe[d], out[d]) /\ Streams(run[d], pipe[d]) /\ InScript(d, run[d])
      /\ arranged \in Cases
  BY DEF Fit, Good, Shape
<1>3. /\ q \in PipeRec /\ Alike(pipe[d], q) /\ q.armed = l.armed
      /\ q.buffer = l.buffer /\ q.chain = l.chain /\ q.awaited = l.awaited
  <2>. HIDE DEF l, p
  <2>. QED
    BY <1>0 DEF PipeRec, Alike
<1>4. /\ GoodOut(o) /\ o.pending = out[d].pending + 1 /\ o.chain # <<>>
      /\ Len(o.chain) = Len(out[d].chain) + 1
      /\ o.registered = out[d].registered /\ o.complete = out[d].complete
      /\ o.clearing = out[d].clearing
  BY <1>2, <1>0, IsEnqueued
<1>5. Good(d, run[d], q, o, heard[d])
  <2>. HIDE DEF q, o, l, p
  <2>. QED
    BY <1>2, <1>3, <1>4, <1>0, ChainFacts DEF BlockReplied, GoodOut, OutRec, GoodPipe, Alike, Good, Counts, Streams, InOrder, InScript
<1>. QED
  BY <1>1, <1>5 DEF GoodStep

(* or is given up,                                                         *)
LEMMA ABlockTimesOut ==
  ASSUME NEW d \in Replies, Fit(d), BlockTimesOut(d)
  PROVE  GoodStep(d)
<1>. DEFINE p == Head(pipe[d].chain)
<1>0. p \in Payloads
  BY ChainFacts DEF BlockTimesOut, Fit, Good, GoodPipe, PipeRec
<1>. DEFINE q == [pipe[d] EXCEPT !.aborted = TRUE, !.overdue = pipe[d].overdue \cup {p}, !.chain = <<>>, !.awaited = 0]
<1>1. After(d, run[d], q, out[d], heard[d])
  <2>1. pipe' = [pipe EXCEPT ![d] = q] /\ UNCHANGED <<arranged, run, out, heard, restart>>
    BY DEF BlockTimesOut
  <2>. HIDE DEF q
  <2>. QED
    BY <2>1, Untouched DEF Fit, After
<1>2. /\ run[d] \in RunRec /\ GoodPipe(pipe[d]) /\ GoodOut(out[d]) /\ heard[d] \in Payloads
      /\ Counts(run[d], pipe[d], out[d]) /\ Streams(run[d], pipe[d]) /\ InScript(d, run[d])
      /\ arranged \in Cases
  BY DEF Fit, Good, Shape
<1>3. /\ q \in PipeRec /\ q.aborted = TRUE /\ q.chain = <<>> /\ q.awaited = 0
      /\ q.armed = pipe[d].armed /\ q.buffer = pipe[d].buffer
  <2>. HIDE DEF p
  <2>. QED
    BY <1>0, <1>2, ChainFacts DEF GoodPipe, PipeRec
<1>4. Good(d, run[d], q, out[d], heard[d])
  <2>. HIDE DEF q
  <2>. QED
    BY <1>2, <1>3, ChainFacts DEF BlockTimesOut, GoodPipe, PipeRec, Good, Counts, Streams, InOrder, InScript
<1>. QED
  BY <1>1, <1>4 DEF GoodStep

(* or is lost,                                                             *)
LEMMA ABlockFails ==
  ASSUME NEW d \in Replies, Fit(d), BlockFails(d)
  PROVE  GoodStep(d)
<1>. DEFINE r == [run[d] EXCEPT !.lost = @ \cup {"block"}]
            q == Left(pipe[d])
<1>1. After(d, r, q, out[d], heard[d])
  BY Untouched DEF Fit, After, BlockFails
<1>2. /\ run[d] \in RunRec /\ GoodPipe(pipe[d]) /\ GoodOut(out[d]) /\ heard[d] \in Payloads
      /\ Counts(run[d], pipe[d], out[d]) /\ Streams(run[d], pipe[d]) /\ InScript(d, run[d])
      /\ arranged \in Cases
  BY DEF Fit, Good, Shape
<1>3. /\ r \in RunRec /\ r.stage = run[d].stage /\ r.at = run[d].at
      /\ r.staging = run[d].staging /\ r.tools = run[d].tools /\ r.late = run[d].late
      /\ r.failed = run[d].failed
  BY <1>2 DEF RunRec
<1>4. /\ q \in PipeRec /\ Alike(pipe[d], q) /\ q.armed = pipe[d].armed
      /\ q.buffer = pipe[d].buffer /\ q.chain \in Seq(Payloads)
      /\ Len(q.chain) = Len(pipe[d].chain) - 1 /\ Len(pipe[d].chain) \in Nat
      /\ q.awaited <= Len(q.chain)
      /\ pipe[d].awaited = Len(pipe[d].chain) => q.awaited = Len(q.chain)
  BY <1>2, Leaves DEF BlockFails
<1>5. Good(d, r, q, out[d], heard[d])
  <2>. HIDE DEF r, q
  <2>. QED
    BY <1>2, <1>3, <1>4, ChainFacts DEF BlockFails, GoodPipe, Alike, Good, Counts, Streams, InOrder, InScript
<1>. QED
  BY <1>1, <1>5 DEF GoodStep

(* a block given up is lost,                                               *)
LEMMA AnOverdueFails ==
  ASSUME NEW d \in Replies, Fit(d), OverdueFails(d)
  PROVE  GoodStep(d)
<1>0. PICK p \in pipe[d].overdue : /\ pipe' = [pipe EXCEPT ![d].overdue = @ \ {p}]
                                  /\ UNCHANGED <<arranged, run, out, heard, restart>>
  BY DEF OverdueFails
<1>. DEFINE q == [pipe[d] EXCEPT !.overdue = @ \ {p}]
<1>1. After(d, run[d], q, out[d], heard[d])
  BY <1>0, Untouched DEF Fit, After
<1>2. /\ run[d] \in RunRec /\ GoodPipe(pipe[d]) /\ GoodOut(out[d]) /\ heard[d] \in Payloads
      /\ Counts(run[d], pipe[d], out[d]) /\ Streams(run[d], pipe[d]) /\ InScript(d, run[d])
      /\ arranged \in Cases
  BY DEF Fit, Good, Shape
<1>3. /\ q \in PipeRec /\ q.overdue = pipe[d].overdue \ {p}
      /\ q.aborted = pipe[d].aborted /\ q.armed = pipe[d].armed
      /\ q.buffer = pipe[d].buffer /\ q.chain = pipe[d].chain
      /\ q.awaited = pipe[d].awaited
  BY <1>2 DEF GoodPipe, PipeRec
<1>4. Good(d, run[d], q, out[d], heard[d])
  <2>. HIDE DEF q
  <2>. QED
    BY <1>2, <1>3, <1>0 DEF GoodPipe, Good, Counts, Streams, InOrder, InScript
<1>. QED
  BY <1>1, <1>4 DEF GoodStep

(* or reaches the dispatcher nevertheless,                                 *)
LEMMA AnOverdueBlock ==
  ASSUME NEW d \in Replies, Fit(d), OverdueBlock(d)
  PROVE  GoodStep(d)
<1>0. PICK p \in pipe[d].overdue : /\ pipe' = [pipe EXCEPT ![d].overdue = @ \ {p}]
                                  /\ out' = [out EXCEPT ![d] = Enqueued(@, p)]
                                  /\ UNCHANGED <<arranged, run, heard, restart>>
  BY DEF OverdueBlock
<1>a. p \in Payloads
  BY DEF Fit, Good, GoodPipe, PipeRec
<1>. DEFINE q == [pipe[d] EXCEPT !.overdue = @ \ {p}]
            o == Enqueued(out[d], p)
<1>1. After(d, run[d], q, o, heard[d])
  BY <1>0, Untouched DEF Fit, After
<1>2. /\ run[d] \in RunRec /\ GoodPipe(pipe[d]) /\ GoodOut(out[d]) /\ heard[d] \in Payloads
      /\ Counts(run[d], pipe[d], out[d]) /\ Streams(run[d], pipe[d]) /\ InScript(d, run[d])
      /\ arranged \in Cases
  BY DEF Fit, Good, Shape
<1>3. /\ q \in PipeRec /\ q.overdue = pipe[d].overdue \ {p}
      /\ q.aborted = pipe[d].aborted /\ q.armed = pipe[d].armed
      /\ q.buffer = pipe[d].buffer /\ q.chain = pipe[d].chain
      /\ q.awaited = pipe[d].awaited
  BY <1>2 DEF GoodPipe, PipeRec
<1>4. /\ GoodOut(o) /\ o.pending = out[d].pending + 1 /\ o.chain # <<>>
      /\ Len(o.chain) = Len(out[d].chain) + 1
      /\ o.registered = out[d].registered /\ o.complete = out[d].complete
      /\ o.clearing = out[d].clearing
  BY <1>2, <1>a, IsEnqueued
<1>5. Good(d, run[d], q, o, heard[d])
  <2>. HIDE DEF q, o
  <2>. QED
    BY <1>2, <1>3, <1>4, <1>0, ChainFacts DEF GoodOut, OutRec, GoodPipe, Alike, Good, Counts, Streams, InOrder, InScript
<1>. QED
  BY <1>1, <1>5 DEF GoodStep

(* a tool result reaches it,                                               *)
LEMMA AToolReplied ==
  ASSUME NEW d \in Replies, Fit(d), ToolReplied(d)
  PROVE  GoodStep(d)
<1>a. run[d].tools \in Payloads /\ <<Head(run[d].tools)>> \in Payloads /\ Tail(run[d].tools) \in Payloads
  BY HeadTailProperties DEF ToolReplied, Fit, Good, RunRec, Payloads
<1>. DEFINE r == [run[d] EXCEPT !.tools = Tail(@)]
            o == Enqueued(out[d], <<Head(run[d].tools)>>)
<1>1. After(d, r, pipe[d], o, heard[d])
  BY Untouched DEF Fit, After, ToolReplied
<1>2. /\ run[d] \in RunRec /\ GoodPipe(pipe[d]) /\ GoodOut(out[d]) /\ heard[d] \in Payloads
      /\ Counts(run[d], pipe[d], out[d]) /\ Streams(run[d], pipe[d]) /\ InScript(d, run[d])
      /\ arranged \in Cases
  BY DEF Fit, Good, Shape
<1>3. /\ r \in RunRec /\ r.stage = run[d].stage /\ r.at = run[d].at
      /\ r.staging = run[d].staging /\ r.late = run[d].late
      /\ r.failed = run[d].failed
  BY <1>2, <1>a DEF RunRec
<1>4. /\ GoodOut(o) /\ o.pending = out[d].pending + 1 /\ o.chain # <<>>
      /\ Len(o.chain) = Len(out[d].chain) + 1
      /\ o.registered = out[d].registered /\ o.complete = out[d].complete
      /\ o.clearing = out[d].clearing
  <2>1. GoodOut(out[d]) /\ <<Head(run[d].tools)>> \in Payloads
    BY <1>2, <1>a
  <2>. QED
    BY ONLY <2>1, IsEnqueued, ZenonT(30)
<1>5. Good(d, r, pipe[d], o, heard[d])
  <2>. HIDE DEF r, o
  <2>. QED
    BY <1>2, <1>3, <1>4, ChainFacts DEF ToolReplied, GoodOut, OutRec, GoodPipe, Alike, Good, Counts, Streams, InOrder, InScript
<1>. QED
  BY <1>1, <1>5 DEF GoodStep

(* or is lost,                                                             *)
LEMMA AToolFails ==
  ASSUME NEW d \in Replies, Fit(d), ToolFails(d)
  PROVE  GoodStep(d)
<1>a. Tail(run[d].tools) \in Payloads
  BY HeadTailProperties DEF ToolFails, Fit, Good, RunRec, Payloads
<1>. DEFINE r == [run[d] EXCEPT !.tools = Tail(@), !.lost = @ \cup {"tool"}]
<1>1. After(d, r, pipe[d], out[d], heard[d])
  BY Untouched DEF Fit, After, ToolFails
<1>2. /\ run[d] \in RunRec /\ GoodPipe(pipe[d]) /\ GoodOut(out[d]) /\ heard[d] \in Payloads
      /\ Counts(run[d], pipe[d], out[d]) /\ Streams(run[d], pipe[d]) /\ InScript(d, run[d])
      /\ arranged \in Cases
  BY DEF Fit, Good, Shape
<1>3. /\ r \in RunRec /\ r.stage = run[d].stage /\ r.at = run[d].at
      /\ r.staging = run[d].staging /\ r.late = run[d].late
      /\ r.failed = run[d].failed
  BY <1>2, <1>a DEF RunRec
<1>4. Good(d, r, pipe[d], out[d], heard[d])
  <2>. HIDE DEF r
  <2>. QED
    BY <1>2, <1>3 DEF ToolFails, Good, Counts, Streams, InOrder, InScript
<1>. QED
  BY <1>1, <1>4 DEF GoodStep

(* the making of the answer fails,                                         *)
LEMMA TheAnswerFails ==
  ASSUME NEW d \in Replies, Fit(d), AnswerFails(d)
  PROVE  GoodStep(d)
<1>. DEFINE r == [run[d] EXCEPT !.finals = <<>>, !.failed = TRUE]
<1>1. After(d, r, pipe[d], out[d], heard[d])
  BY Untouched DEF Fit, After, AnswerFails
<1>2. /\ run[d] \in RunRec /\ GoodPipe(pipe[d]) /\ GoodOut(out[d]) /\ heard[d] \in Payloads
      /\ Counts(run[d], pipe[d], out[d]) /\ Streams(run[d], pipe[d]) /\ InScript(d, run[d])
      /\ arranged \in Cases
  BY DEF Fit, Good, Shape
<1>3. /\ r \in RunRec /\ r.stage = run[d].stage /\ r.staging = run[d].staging
      /\ r.tools = run[d].tools /\ r.late = run[d].late
      /\ r.failed = TRUE
  BY <1>2, ChainFacts DEF RunRec
<1>4. Good(d, r, pipe[d], out[d], heard[d])
  <2>. HIDE DEF r
  <2>. QED
    BY <1>2, <1>3 DEF AnswerFails, Good, Counts, Streams, InOrder, InScript
<1>. QED
  BY <1>1, <1>4 DEF GoodStep

(* and what is left of the answer,                                         *)
LEMMA SendsFinal ==
  ASSUME NEW d \in Replies, Fit(d), SendFinalReply(d)
  PROVE  GoodStep(d)
<1>a. Head(run[d].finals) \in Payloads /\ Tail(run[d].finals) \in Seq(Payloads)
  BY HeadTailProperties DEF SendFinalReply, Fit, Good, RunRec
<1>. DEFINE r == [run[d] EXCEPT !.finals = Tail(@)]
            o == Enqueued(out[d], Head(run[d].finals))
<1>1. After(d, r, pipe[d], o, heard[d])
  BY Untouched DEF Fit, After, SendFinalReply
<1>2. /\ run[d] \in RunRec /\ GoodPipe(pipe[d]) /\ GoodOut(out[d]) /\ heard[d] \in Payloads
      /\ Counts(run[d], pipe[d], out[d]) /\ Streams(run[d], pipe[d]) /\ InScript(d, run[d])
      /\ arranged \in Cases
  BY DEF Fit, Good, Shape
<1>3. /\ r \in RunRec /\ r.stage = run[d].stage /\ r.staging = run[d].staging
      /\ r.tools = run[d].tools /\ r.late = run[d].late
      /\ r.failed = run[d].failed
  BY <1>2, <1>a DEF RunRec
<1>4. /\ GoodOut(o) /\ o.pending = out[d].pending + 1 /\ o.chain # <<>>
      /\ Len(o.chain) = Len(out[d].chain) + 1
      /\ o.registered = out[d].registered /\ o.complete = out[d].complete
      /\ o.clearing = out[d].clearing
  <2>1. GoodOut(out[d]) /\ Head(run[d].finals) \in Payloads
    BY <1>2, <1>a
  <2>. QED
    BY ONLY <2>1, IsEnqueued, ZenonT(30)
<1>5. Good(d, r, pipe[d], o, heard[d])
  <2>. HIDE DEF r, o
  <2>. QED
    BY <1>2, <1>3, <1>4, ChainFacts DEF SendFinalReply, GoodOut, OutRec, GoodPipe, Alike, Good, Counts, Streams, InOrder, InScript
<1>. QED
  BY <1>1, <1>5 DEF GoodStep

(* What is said is recorded, and nothing else about the run.               *)
LEMMA Says ==
  ASSUME NEW r \in RunRec, NEW j \in Nat, NEW p \in Pieces
  PROVE  /\ Said(r, j, p) \in RunRec /\ Said(r, j, p).at = j
         /\ Said(r, j, p).stage = r.stage /\ Said(r, j, p).staging = r.staging
         /\ Said(r, j, p).tools = r.tools
         /\ Said(r, j, p).late = r.late /\ Said(r, j, p).failed = r.failed /\ Said(r, j, p).lost = r.lost
<1>. DEFINE f == Append(r.final, p)
            s == FirstSaid(r, p)
<1>1. f \in Payloads /\ s \in Payloads
  BY PayloadFacts DEF FirstSaid, RunRec
<1>2. Said(r, j, p) = [r EXCEPT !.at = j, !.final = f, !.said = s]
  BY DEF Said
<1>. HIDE DEF f, s
<1>. QED
  BY <1>1, <1>2 DEF RunRec

(* With a pipeline the flush leaves nothing in the coalescer.              *)
LEMMA FlushedIs ==
  ASSUME NEW q, GoodPipe(q)
  PROVE  /\ GoodPipe(Flushed(q)) /\ Alike(q, Flushed(q))
         /\ arranged.streaming => ~Flushed(q).armed /\ Flushed(q).awaited = Len(Flushed(q).chain)
         /\ ~arranged.streaming => Flushed(q) = q
BY Flushes DEF Flushed, Alike

(* the model says a text,                                                  *)
LEMMA SaysText ==
  ASSUME NEW d \in Replies, Fit(d), SayText(d)
  PROVE  GoodStep(d)
<1>1. /\ run[d] \in RunRec /\ GoodPipe(pipe[d]) /\ GoodOut(out[d]) /\ heard[d] \in Payloads
      /\ Counts(run[d], pipe[d], out[d]) /\ Streams(run[d], pipe[d]) /\ InScript(d, run[d])
      /\ arranged \in Cases
  BY DEF Fit, Good, Shape
<1>2. PICK j \in Ahead(d) :
        /\ run' = [run EXCEPT ![d] = Said(run[d], j, Script(d)[j])]
        /\ IF arranged.streaming
           THEN \E how \in arranged.coalescing :
                  pipe' = [pipe EXCEPT ![d] = EnqueueText(pipe[d], Script(d)[j], how)]
           ELSE pipe' = pipe
  BY DEF SayText
<1>. DEFINE p == Script(d)[j]
            r == Said(run[d], j, p)
<1>3. p \in Pieces /\ j \in Nat
  BY <1>1, CaseFacts
<1>4. PICK q : /\ pipe' = [pipe EXCEPT ![d] = q]
               /\ GoodPipe(q) /\ Alike(pipe[d], q)
               /\ ~arranged.streaming => q = pipe[d]
  <2>1. CASE arranged.streaming
    <3>1. PICK how \in arranged.coalescing : pipe' = [pipe EXCEPT ![d] = EnqueueText(pipe[d], p, how)]
      BY <1>2, <2>1
    <3>2. how \in Hows
      BY <1>1, CaseFacts
    <3>. QED
      BY <1>1, <1>3, <2>1, <3>1, <3>2, EnqueuesText
  <2>2. CASE ~arranged.streaming
    BY <1>1, <1>2, <2>2, Untouched DEF Fit, Alike
  <2>. QED
    BY <2>1, <2>2
<1>5. /\ r \in RunRec /\ r.stage = "talking" /\ r.staging = run[d].staging
      /\ r.tools = run[d].tools /\ r.late = run[d].late /\ r.failed = run[d].failed
  BY <1>1, <1>3, Says DEF SayText
<1>6. After(d, r, q, out[d], heard[d])
  BY <1>2, <1>4, Untouched DEF Fit, After, SayText
<1>7. Good(d, r, q, out[d], heard[d])
  <2>. HIDE DEF r
  <2>. QED
    BY <1>1, <1>4, <1>5 DEF SayText, Alike, Good, Counts, Streams, InOrder, InScript
<1>. QED
  BY <1>6, <1>7 DEF GoodStep

(* which a tool pushes out,                                                *)
LEMMA SaysBeforeTool ==
  ASSUME NEW d \in Replies, Fit(d), SayBeforeTool(d)
  PROVE  GoodStep(d)
<1>1. /\ run[d] \in RunRec /\ GoodPipe(pipe[d]) /\ GoodOut(out[d]) /\ heard[d] \in Payloads
      /\ Counts(run[d], pipe[d], out[d]) /\ Streams(run[d], pipe[d]) /\ InScript(d, run[d])
      /\ arranged \in Cases
  BY DEF Fit, Good, Shape
<1>2. PICK j \in Ahead(d), how \in arranged.coalescing :
        /\ j + 1 \in Ahead(d)
        /\ run' = [run EXCEPT ![d] = [Said(run[d], j + 1, Script(d)[j]) EXCEPT !.stage = "tool"]]
        /\ pipe' = [pipe EXCEPT ![d] = EnqueueText(Flush(pipe[d]), Script(d)[j], how)]
  BY DEF SayBeforeTool
<1>. DEFINE p == Script(d)[j]
            s == Said(run[d], j + 1, p)
            r == [s EXCEPT !.stage = "tool"]
            q == EnqueueText(Flush(pipe[d]), p, how)
<1>3. p \in Pieces /\ j + 1 \in Nat /\ j + 1 \in 1..Len(Script(d)) /\ how \in Hows
  BY <1>1, <1>2, CaseFacts
<1>4. /\ s \in RunRec /\ s.at = j + 1 /\ s.staging = run[d].staging
      /\ s.tools = run[d].tools /\ s.late = run[d].late /\ s.failed = run[d].failed
  BY <1>1, <1>3, Says
<1>5. /\ r \in RunRec /\ r.stage = "tool" /\ r.at = j + 1 /\ r.staging = run[d].staging
      /\ r.tools = run[d].tools /\ r.late = run[d].late /\ r.failed = run[d].failed
  <2>. HIDE DEF s
  <2>. QED
    BY <1>4 DEF RunRec, Stages
<1>6. GoodPipe(q) /\ Alike(pipe[d], q)
  BY <1>1, <1>3, Flushes, EnqueuesText DEF Alike
<1>7. After(d, r, q, out[d], heard[d])
  BY <1>2, Untouched DEF Fit, After, SayBeforeTool
<1>8. Good(d, r, q, out[d], heard[d])
  <2>1. arranged.streaming /\ run[d].stage = "talking"
    BY DEF SayBeforeTool
  <2>. HIDE DEF r, q
  <2>. QED
    BY <1>1, <1>3, <1>5, <1>6, <2>1 DEF Alike, Good, Counts, Streams, InOrder, InScript
<1>. QED
  BY <1>7, <1>8 DEF GoodStep

(* or media,                                                               *)
LEMMA SaysMedia ==
  ASSUME NEW d \in Replies, Fit(d), SayMedia(d)
  PROVE  GoodStep(d)
<1>0. PICK j \in Ahead(d) :
        run' = [run EXCEPT ![d] = [Said(run[d], j, Script(d)[j]) EXCEPT
                  !.staging = IF arranged.streaming THEN @ \cup {Script(d)[j]} ELSE @]]
  BY DEF SayMedia
<1>. DEFINE p == Script(d)[j]
            s == Said(run[d], j, p)
            m == IF arranged.streaming THEN s.staging \cup {p} ELSE s.staging
<1>a. p \in Pieces /\ j \in Nat
  BY CaseFacts DEF Fit, Shape
<1>b. /\ s \in RunRec /\ s.stage = run[d].stage /\ s.tools = run[d].tools /\ s.staging = run[d].staging
      /\ s.late = run[d].late /\ s.failed = run[d].failed
  BY <1>a, Says DEF Fit, Good
<1>. DEFINE r == [s EXCEPT !.staging = m]
<1>1. After(d, r, pipe[d], out[d], heard[d])
  BY <1>0, Untouched DEF Fit, After, SayMedia
<1>2. /\ run[d] \in RunRec /\ GoodPipe(pipe[d]) /\ GoodOut(out[d]) /\ heard[d] \in Payloads
      /\ Counts(run[d], pipe[d], out[d]) /\ Streams(run[d], pipe[d]) /\ InScript(d, run[d])
      /\ arranged \in Cases
  BY DEF Fit, Good, Shape
<1>3. /\ r \in RunRec /\ r.staging = m /\ r.stage = run[d].stage
      /\ r.tools = run[d].tools /\ r.late = run[d].late
      /\ r.failed = run[d].failed
  <2>1. m \in SUBSET Pieces
    BY <1>a, <1>b DEF RunRec
  <2>. HIDE DEF s, m
  <2>. QED
    BY <1>b, <2>1 DEF RunRec
<1>4. Good(d, r, pipe[d], out[d], heard[d])
  <2>. HIDE DEF r, s
  <2>. QED
    BY <1>2, <1>3, <1>b DEF SayMedia, Good, Counts, Streams, InOrder, InScript
<1>. QED
  BY <1>1, <1>4 DEF GoodStep

(* a tool begins,                                                          *)
LEMMA ToolBegins ==
  ASSUME NEW d \in Replies, Fit(d), ToolStarts(d)
  PROVE  GoodStep(d)
<1>0. PICK j \in Ahead(d) : /\ run' = [run EXCEPT ![d].stage = "tool", ![d].at = j]
                            /\ pipe' = [pipe EXCEPT ![d] = Flushed(@)]
  BY DEF ToolStarts
<1>a. j \in Nat /\ j \in 1..Len(Script(d))
  BY CaseFacts DEF Fit, Shape
<1>. DEFINE r == [run[d] EXCEPT !.stage = "tool", !.at = j]
            q == Flushed(pipe[d])
<1>1. After(d, r, q, out[d], heard[d])
  <2>1. run' = [run EXCEPT ![d] = r] /\ pipe' = [pipe EXCEPT ![d] = q]
    BY <1>0
  <2>. HIDE DEF r, q
  <2>. QED
    BY <2>1, Untouched DEF Fit, After, ToolStarts
<1>2. /\ run[d] \in RunRec /\ GoodPipe(pipe[d]) /\ GoodOut(out[d]) /\ heard[d] \in Payloads
      /\ Counts(run[d], pipe[d], out[d]) /\ Streams(run[d], pipe[d]) /\ InScript(d, run[d])
      /\ arranged \in Cases
  BY DEF Fit, Good, Shape
<1>3. /\ r \in RunRec /\ r.stage = "tool" /\ r.at = j
      /\ r.staging = run[d].staging /\ r.tools = run[d].tools
      /\ r.late = run[d].late /\ r.failed = run[d].failed
  BY <1>2, <1>a DEF RunRec, Stages
<1>4. /\ GoodPipe(q) /\ Alike(pipe[d], q)
      /\ ~arranged.streaming => q = pipe[d]
  BY <1>2, FlushedIs
<1>5. Good(d, r, q, out[d], heard[d])
  <2>. HIDE DEF r, q
  <2>. QED
    BY <1>2, <1>3, <1>4, <1>a DEF ToolStarts, Alike, Good, Counts, Streams, InOrder, InScript
<1>. QED
  BY <1>1, <1>5 DEF GoodStep

(* the model ends,                                                         *)
LEMMA TheModelEnds ==
  ASSUME NEW d \in Replies, Fit(d), ModelEnds(d)
  PROVE  GoodStep(d)
<1>. DEFINE r == [run[d] EXCEPT !.stage = "ending"]
            q == Flushed(pipe[d])
<1>1. After(d, r, q, out[d], heard[d])
  BY Untouched DEF Fit, After, ModelEnds
<1>2. /\ run[d] \in RunRec /\ GoodPipe(pipe[d]) /\ GoodOut(out[d]) /\ heard[d] \in Payloads
      /\ Counts(run[d], pipe[d], out[d]) /\ Streams(run[d], pipe[d]) /\ InScript(d, run[d])
      /\ arranged \in Cases
  BY DEF Fit, Good, Shape
<1>3. /\ r \in RunRec /\ r.stage = "ending" /\ r.staging = run[d].staging
      /\ r.tools = run[d].tools /\ r.late = run[d].late
      /\ r.failed = run[d].failed
  BY <1>2 DEF RunRec, Stages
<1>4. /\ GoodPipe(q) /\ Alike(pipe[d], q)
      /\ ~arranged.streaming => q = pipe[d]
      /\ arranged.streaming => ~q.armed /\ q.awaited = Len(q.chain)
  BY <1>2, FlushedIs
<1>5. Good(d, r, q, out[d], heard[d])
  <2>. HIDE DEF r, q
  <2>. QED
    BY <1>2, <1>3, <1>4 DEF ModelEnds, Alike, Good, Counts, Streams, InOrder, InScript
<1>. QED
  BY <1>1, <1>5 DEF GoodStep

(* the run ends,                                                           *)
LEMMA TheRunEnds ==
  ASSUME NEW d \in Replies, Fit(d), RunEnds(d)
  PROVE  GoodStep(d)
<1>. DEFINE r == [run[d] EXCEPT !.stage = "flushing", !.late = run[d].staging # {}]
            q == Flushed(pipe[d])
<1>1. After(d, r, q, out[d], heard[d])
  BY Untouched DEF Fit, After, RunEnds
<1>2. /\ run[d] \in RunRec /\ GoodPipe(pipe[d]) /\ GoodOut(out[d]) /\ heard[d] \in Payloads
      /\ Counts(run[d], pipe[d], out[d]) /\ Streams(run[d], pipe[d]) /\ InScript(d, run[d])
      /\ arranged \in Cases
  BY DEF Fit, Good, Shape
<1>3. /\ r \in RunRec /\ r.stage = "flushing" /\ r.late = (run[d].staging # {})
      /\ r.staging = run[d].staging /\ r.tools = run[d].tools
      /\ r.failed = run[d].failed
  BY <1>2 DEF RunRec, Stages
<1>4. /\ GoodPipe(q) /\ Alike(pipe[d], q)
      /\ ~arranged.streaming => q = pipe[d]
      /\ arranged.streaming => ~q.armed /\ q.awaited = Len(q.chain)
  BY <1>2, FlushedIs
<1>5. Good(d, r, q, out[d], heard[d])
  <2>. HIDE DEF r, q
  <2>. QED
    BY <1>2, <1>3, <1>4, ChainFacts DEF RunEnds, Alike, GoodPipe, PipeRec, Good, Counts, Streams, InOrder, InScript
<1>. QED
  BY <1>1, <1>5 DEF GoodStep

(* its pipeline stops,                                                     *)
LEMMA ThePipelineStops ==
  ASSUME NEW d \in Replies, Fit(d), PipelineStops(d)
  PROVE  GoodStep(d)
<1>. DEFINE r == [run[d] EXCEPT !.stage = "settling"]
            q == Stopped(pipe[d])
<1>1. After(d, r, q, out[d], heard[d])
  BY Untouched DEF Fit, After, PipelineStops
<1>2. /\ run[d] \in RunRec /\ GoodPipe(pipe[d]) /\ GoodOut(out[d]) /\ heard[d] \in Payloads
      /\ Counts(run[d], pipe[d], out[d]) /\ Streams(run[d], pipe[d]) /\ InScript(d, run[d])
      /\ arranged \in Cases
  BY DEF Fit, Good, Shape
<1>3. /\ r \in RunRec /\ r.stage = "settling" /\ r.staging = run[d].staging
      /\ r.tools = run[d].tools /\ r.late = run[d].late
      /\ r.failed = run[d].failed
  BY <1>2 DEF RunRec, Stages
<1>4. /\ q \in PipeRec /\ q.armed = FALSE /\ q.buffer = pipe[d].buffer
      /\ q.chain = pipe[d].chain /\ q.awaited = pipe[d].awaited
      /\ q.aborted = pipe[d].aborted /\ q.overdue = pipe[d].overdue
  BY <1>2 DEF GoodPipe, PipeRec, Stopped
<1>5. Good(d, r, q, out[d], heard[d])
  <2>. HIDE DEF r, q
  <2>. QED
    BY <1>2, <1>3, <1>4, ChainFacts DEF PipelineStops, GoodPipe, PipeRec, Good, Counts, Streams, InOrder, InScript
<1>. QED
  BY <1>1, <1>5 DEF GoodStep

(* the run fails,                                                          *)
LEMMA TheRunFails ==
  ASSUME NEW d \in Replies, Fit(d), RunFails(d)
  PROVE  GoodStep(d)
<1>. DEFINE r == [run[d] EXCEPT !.stage = "answering", !.finals = <<<<Trouble>>>>, !.failed = TRUE]
            q == Stopped(pipe[d])
<1>1. After(d, r, q, out[d], heard[d])
  BY Untouched DEF Fit, After, RunFails
<1>2. /\ run[d] \in RunRec /\ GoodPipe(pipe[d]) /\ GoodOut(out[d]) /\ heard[d] \in Payloads
      /\ Counts(run[d], pipe[d], out[d]) /\ Streams(run[d], pipe[d]) /\ InScript(d, run[d])
      /\ arranged \in Cases
  BY DEF Fit, Good, Shape
<1>3. /\ r \in RunRec /\ r.stage = "answering" /\ r.failed = TRUE
      /\ r.staging = run[d].staging /\ r.tools = run[d].tools
      /\ r.late = run[d].late
  BY <1>2, PayloadFacts DEF RunRec, Stages
<1>4. /\ q \in PipeRec /\ q.armed = FALSE /\ q.buffer = pipe[d].buffer
      /\ q.chain = pipe[d].chain /\ q.awaited = pipe[d].awaited
      /\ q.aborted = pipe[d].aborted /\ q.overdue = pipe[d].overdue
  BY <1>2 DEF GoodPipe, PipeRec, Stopped
<1>5. Good(d, r, q, out[d], heard[d])
  <2>. HIDE DEF r, q
  <2>. QED
    BY <1>2, <1>3, <1>4, ChainFacts DEF RunFails, GoodPipe, Good, Counts, Streams, InOrder, InScript
<1>. QED
  BY <1>1, <1>5 DEF GoodStep

(* a tool ends,                                                            *)
LEMMA ToolFinishes ==
  ASSUME NEW d \in Replies, Fit(d), ToolEnds(d)
  PROVE  GoodStep(d)
<1>. DEFINE p == Script(d)[run[d].at]
            u == Append(run[d].tools, p)
            w == Append(run[d].said, p)
<1>a. p \in Pieces
  BY CaseFacts DEF ToolEnds, Fit, Shape, Good, InScript
<1>b. u \in Payloads /\ w \in Payloads
  BY <1>a, PayloadFacts DEF Fit, Good, RunRec
<1>. DEFINE r == [run[d] EXCEPT !.stage = "talking", !.tools = u, !.said = w]
<1>1. After(d, r, pipe[d], out[d], heard[d])
  BY Untouched DEF Fit, After, ToolEnds
<1>2. /\ run[d] \in RunRec /\ GoodPipe(pipe[d]) /\ GoodOut(out[d]) /\ heard[d] \in Payloads
      /\ Counts(run[d], pipe[d], out[d]) /\ Streams(run[d], pipe[d]) /\ InScript(d, run[d])
      /\ arranged \in Cases
  BY DEF Fit, Good, Shape
<1>3. /\ r \in RunRec /\ r.stage = "talking" /\ r.staging = run[d].staging
      /\ r.late = run[d].late /\ r.failed = run[d].failed
  <2>. HIDE DEF u, w
  <2>. QED
    BY <1>b, <1>2 DEF RunRec, Stages
<1>4. Good(d, r, pipe[d], out[d], heard[d])
  <2>. HIDE DEF r
  <2>. QED
    BY <1>2, <1>3 DEF ToolEnds, Good, Counts, Streams, InOrder, InScript
<1>. QED
  BY <1>1, <1>4 DEF GoodStep

(* What is left to say is a sequence of payloads.                          *)
LEMMA FinalPayloadsAre ==
  ASSUME NEW d \in Replies, run[d] \in RunRec
  PROVE  FinalPayloads(d) \in Seq(Payloads)
<1>. DEFINE s == run[d].final
            w == [j \in DOMAIN s |-> <<s[j]>>]
<1>1. w \in Seq(Payloads)
  <2>1. /\ Len(s) \in Nat /\ DOMAIN s = 1..Len(s)
        /\ \A j \in 1..Len(s) : s[j] \in Pieces \cup {Trouble}
    BY LenProperties, ElementOfSeq DEF RunRec, Payloads
  <2>2. \A j \in 1..Len(s) : <<s[j]>> \in Payloads
    BY <2>1 DEF Payloads
  <2>. QED
    BY <2>1, <2>2, IsASeq
<1>. DEFINE T == pipe[d].sent \cup {<<p>> : p \in arranged.unreadable}
<1>2. Without(w, T) \in Seq(Payloads)
  <2>. HIDE DEF w, T
  <2>. QED
    BY <1>1, WithoutType
<1>3. FinalPayloads(d) \in {<<>>, Without(w, T)}
  BY DEF FinalPayloads
<1>. QED
  BY <1>2, <1>3, ChainFacts

(* the final payloads are built,                                           *)
LEMMA BuildsPayloads ==
  ASSUME NEW d \in Replies, Fit(d), BuildReplyPayloads(d)
  PROVE  GoodStep(d)
<1>. DEFINE f == FinalPayloads(d)
<1>. DEFINE r == [run[d] EXCEPT !.stage = "answering", !.finals = f]
<1>1. After(d, r, pipe[d], out[d], heard[d])
  BY Untouched DEF Fit, After, BuildReplyPayloads
<1>2. /\ run[d] \in RunRec /\ GoodPipe(pipe[d]) /\ GoodOut(out[d]) /\ heard[d] \in Payloads
      /\ Counts(run[d], pipe[d], out[d]) /\ Streams(run[d], pipe[d]) /\ InScript(d, run[d])
      /\ arranged \in Cases
  BY DEF Fit, Good, Shape
<1>3. /\ r \in RunRec /\ r.stage = "answering" /\ r.staging = run[d].staging
      /\ r.tools = run[d].tools /\ r.late = run[d].late
      /\ r.failed = run[d].failed
  <2>1. f \in Seq(Payloads)
    BY <1>2, FinalPayloadsAre
  <2>. HIDE DEF f
  <2>. QED
    BY <1>2, <2>1 DEF RunRec, Stages
<1>4. Good(d, r, pipe[d], out[d], heard[d])
  <2>. HIDE DEF r
  <2>. QED
    BY <1>2, <1>3 DEF BuildReplyPayloads, Good, Counts, Streams, InOrder, InScript
<1>. QED
  BY <1>1, <1>4 DEF GoodStep

(* and media has been looked up.                                           *)
LEMMA MediaIsStaged ==
  ASSUME NEW d \in Replies, Fit(d), MediaStaged(d)
  PROVE  GoodStep(d)
<1>1. /\ run[d] \in RunRec /\ GoodPipe(pipe[d]) /\ GoodOut(out[d]) /\ heard[d] \in Payloads
      /\ Counts(run[d], pipe[d], out[d]) /\ Streams(run[d], pipe[d]) /\ InScript(d, run[d])
      /\ arranged \in Cases
  BY DEF Fit, Good, Shape
<1>2. PICK p \in run[d].staging :
        /\ run' = [run EXCEPT ![d].staging = @ \ {p}]
        /\ pipe' = IF p \in arranged.unreadable THEN pipe
                   ELSE [pipe EXCEPT ![d] = EnqueueMedia(pipe[d], p)]
        /\ UNCHANGED <<arranged, out, heard, restart>>
  BY DEF MediaStaged
<1>. DEFINE r == [run[d] EXCEPT !.staging = @ \ {p}]
<1>3. p \in Pieces
  BY <1>1 DEF RunRec
<1>4. PICK q : pipe' = [pipe EXCEPT ![d] = q] /\ GoodPipe(q) /\ Alike(pipe[d], q)
  <2>1. CASE p \in arranged.unreadable
    BY <1>1, <1>2, <2>1, Untouched DEF Fit, Alike
  <2>2. CASE p \notin arranged.unreadable
    BY <1>1, <1>2, <1>3, <2>2, EnqueuesMedia
  <2>. QED
    BY <2>1, <2>2
<1>5. /\ r \in RunRec /\ r.staging = run[d].staging \ {p} /\ r.stage = run[d].stage
      /\ r.at = run[d].at /\ r.tools = run[d].tools /\ r.late = run[d].late /\ r.failed = run[d].failed
  BY <1>1 DEF RunRec
<1>6. After(d, r, q, out[d], heard[d])
  BY <1>2, <1>4, Untouched DEF Fit, After
<1>7. Good(d, r, q, out[d], heard[d])
  <2>1. run[d].staging # {}
    BY <1>2
  <2>. HIDE DEF r
  <2>. QED
    BY <1>1, <1>4, <1>5, <2>1 DEF Alike, Good, Counts, Streams, InOrder, InScript
<1>. QED
  BY <1>6, <1>7 DEF GoodStep

-----------------------------------------------------------------------------
(* Every step of a reply is a good one.                                    *)
LEMMA StepsAreGood ==
  ASSUME NEW d \in Replies, Fit(d),
         Arrive(d) \/ Speaks(d) \/ Advances(d) \/ Delivers(d) \/ Hinders(d)
  PROVE  GoodStep(d)
<1>1. CASE Arrive(d)
  BY <1>1, Arrives
<1>2. CASE Speaks(d)
  BY <1>2, SaysText, SaysMedia, SaysBeforeTool, ToolBegins, Retries, TheRunFails DEF Speaks
<1>3. CASE Advances(d)
  BY <1>3, BeginsRun, DoesNotRun, TheModelEnds, TheRunEnds, ThePipelineStops, BuildsPayloads,
     SendsFinal, MarksComplete, ToolFinishes DEF Advances
<1>4. CASE Delivers(d)
  BY <1>4, MediaIsStaged, ABlockReplied, AnOverdueBlock, AToolReplied, FlushesIdly, IsDelivered,
     ClearsReservation DEF Delivers
<1>5. CASE Hinders(d)
  BY <1>5, ABlockTimesOut, ABlockFails, AnOverdueFails, AToolFails, TheAnswerFails, DeliveryFails DEF Hinders
<1>. QED
  BY <1>1, <1>2, <1>3, <1>4, <1>5

(* When nothing runs and nothing is pending, an orderly reply that has     *)
(* begun is over.                                                          *)
LEMMA IdleIsQuiet ==
  ASSUME ReplyInv, Idle
  PROVE  \A d \in Replies : Orderly(d) => run[d].stage = "none" \/ Quiet(d)
<1>. SUFFICES ASSUME NEW d \in Replies, Orderly(d), run[d].stage # "none" PROVE Quiet(d)
  OBVIOUS
<1>1. /\ Counts(run[d], pipe[d], out[d]) /\ Streams(run[d], pipe[d])
      /\ GoodOut(out[d]) /\ InOrder(run[d], pipe[d])
  BY DEF ReplyInv, Good, Orderly, InOrder
<1>2. ~out[d].registered
  BY <1>1 DEF Idle, GoodOut
<1>3. run[d].stage = "complete"
  BY <1>1, <1>2 DEF Counts
<1>4. out[d].chain = <<>>
  BY <1>1, <1>2, <1>3 DEF Counts
<1>. QED
  BY <1>1, <1>3, <1>4 DEF Streams, Quiet

(* The invariant holds before any reply has arrived,                       *)
LEMMA ReplyInvInit == Init => ReplyInv
<1>. SUFFICES ASSUME Init PROVE ReplyInv
  OBVIOUS
<1>1. Shape /\ RestartWaits
  BY DEF Init, Shape, RestartWaits
<1>2. ASSUME NEW d \in Replies
      PROVE  Good(d, run[d], pipe[d], out[d], heard[d])
  <2>1. run[d] \in RunRec /\ run[d].stage = "none" /\ run[d].staging = {} /\ run[d].tools = <<>>
        /\ run[d].failed = FALSE /\ run[d].late = FALSE
    BY PayloadFacts, ChainFacts DEF Init, RunRec, Stages
  <2>2. pipe[d] \in PipeRec /\ pipe[d].armed = FALSE /\ pipe[d].chain = <<>> /\ pipe[d].overdue = {}
        /\ pipe[d].aborted = FALSE /\ pipe[d].awaited = 0
    BY PayloadFacts, ChainFacts DEF Init, PipeRec
  <2>3. out[d] \in OutRec /\ out[d].chain = <<>> /\ out[d].registered = FALSE
        /\ out[d].complete = FALSE /\ out[d].clearing = FALSE
    BY ChainFacts DEF Init, OutRec
  <2>4. heard[d] \in Payloads
    BY PayloadFacts DEF Init
  <2>. QED
    BY <2>1, <2>2, <2>3, <2>4, ChainFacts DEF Good, GoodPipe, GoodOut, Counts, Streams, InOrder, InScript
<1>. QED
  BY <1>1, <1>2 DEF ReplyInv

(* and every step keeps it.                                                *)
LEMMA ReplyInvStep == ReplyInv /\ [Next]_vars => ReplyInv'
<1>. SUFFICES ASSUME ReplyInv, [Next]_vars PROVE ReplyInv'
  OBVIOUS
<1>1. ASSUME NEW d \in Replies, Up,
             Arrive(d) \/ Speaks(d) \/ Advances(d) \/ Delivers(d) \/ Hinders(d)
      PROVE  ReplyInv'
  <2>1. PICK r, q, o, h : After(d, r, q, o, h) /\ Good(d, r, q, o, h)
    BY <1>1, StepsAreGood DEF ReplyInv, Fit, GoodStep
  <2>2. Shape'
    BY <2>1 DEF ReplyInv, Shape, After
  <2>3. ASSUME NEW e \in Replies
        PROVE  Good(e, run[e], pipe[e], out[e], heard[e])'
    <3>1. CASE e = d
      <4>1. run'[e] = r /\ pipe'[e] = q /\ out'[e] = o /\ heard'[e] = h /\ arranged' = arranged
        BY <2>1, <3>1 DEF ReplyInv, Shape, After
      <4>. QED
        BY <2>1, <3>1, <4>1 DEF Good, Counts, Streams, InOrder, InScript, Script, GoodPipe, GoodOut
    <3>2. CASE e # d
      <4>1. /\ run'[e] = run[e] /\ pipe'[e] = pipe[e] /\ out'[e] = out[e] /\ heard'[e] = heard[e]
            /\ arranged' = arranged
        BY <2>1, <3>2 DEF ReplyInv, Shape, After
      <4>2. Good(e, run[e], pipe[e], out[e], heard[e])
        BY DEF ReplyInv
      <4>. QED
        BY <4>1, <4>2 DEF Good, Counts, Streams, InOrder, InScript, Script, GoodPipe, GoodOut
    <3>. QED
      BY <3>1, <3>2
  <2>4. RestartWaits'
    BY <1>1, <2>1 DEF Up, After, RestartWaits
  <2>. QED
    BY <2>2, <2>3, <2>4 DEF ReplyInv
<1>2. ASSUME UNCHANGED <<arranged, run, pipe, out, heard>>,
             restart' \in {"none", "waiting", "emitted", "forced"},
             restart' = "emitted" => Idle \/ restart = "emitted"
      PROVE  ReplyInv'
  <2>1. Shape'
    BY <1>2 DEF ReplyInv, Shape
  <2>2. ASSUME NEW e \in Replies
        PROVE  Good(e, run[e], pipe[e], out[e], heard[e])'
    BY <1>2 DEF ReplyInv, Good, Counts, Streams, InOrder, InScript, Script, GoodPipe, GoodOut
  <2>3. RestartWaits'
    BY <1>2, IdleIsQuiet DEF ReplyInv, RestartWaits, Orderly, Quiet
  <2>. QED
    BY <2>1, <2>2, <2>3 DEF ReplyInv
<1>3. CASE RequestGatewayRestart
  BY <1>2, <1>3 DEF RequestGatewayRestart
<1>4. CASE RestartReady
  BY <1>2, <1>4 DEF RestartReady
<1>5. CASE RestartAnyway
  BY <1>2, <1>5 DEF RestartAnyway
<1>6. CASE UNCHANGED vars
  <2>1. UNCHANGED <<arranged, run, pipe, out, heard, restart>>
    BY <1>6 DEF vars
  <2>2. restart' \in {"none", "waiting", "emitted", "forced"}
    BY <2>1 DEF ReplyInv, Shape
  <2>. QED
    BY <1>2, <2>1, <2>2
<1>. QED
  BY <1>1, <1>3, <1>4, <1>5, <1>6 DEF Next

-----------------------------------------------------------------------------
(* ReplyInv holds in every state of every execution.                       *)
THEOREM ReplyInvariant == Spec => []ReplyInv
<1>. QED
  BY ReplyInvInit, ReplyInvStep, PTL DEF Spec

(* The records have their types; the idle timer always has a buffer to     *)
(* flush, a flush never waits for more than the chain holds, and a         *)
(* dispatcher in the registry always has something pending (the sum that   *)
(* getTotalPendingReplies takes is 0 only if the registry is empty).       *)
THEOREM TypeCorrect == Spec => []TypeOK
<1>1. ReplyInv => TypeOK
  <2>. SUFFICES ASSUME ReplyInv PROVE TypeOK
    OBVIOUS
  <2>1. \A d \in Replies : run[d] \in RunRec /\ pipe[d] \in PipeRec /\ out[d] \in OutRec /\ heard[d] \in Payloads
    BY DEF ReplyInv, Good, GoodPipe, GoodOut
  <2>2. /\ run \in [Replies -> RunRec] /\ pipe \in [Replies -> PipeRec]
        /\ out \in [Replies -> OutRec] /\ heard \in [Replies -> Payloads]
    BY <2>1 DEF ReplyInv, Shape
  <2>3. \A d \in Replies : /\ pipe[d].armed => pipe[d].buffer # <<>>
                           /\ pipe[d].awaited <= Len(pipe[d].chain)
                           /\ out[d].registered => out[d].pending > 0
    BY DEF ReplyInv, Good, GoodPipe, GoodOut
  <2>. QED
    BY <2>2, <2>3 DEF TypeOK, ReplyInv, Shape, RunRec, PipeRec, OutRec
<1>. QED
  BY <1>1, ReplyInvariant, PTL

(* A restart that was not forced comes when no orderly reply is on its way:*)
(* each has either not begun or has nothing left to say (deferred restart, *)
(* requestGatewayRestart).                                                 *)
THEOREM RestartIsOrderly == Spec => []RestartWaits
<1>1. ReplyInv => RestartWaits
  BY DEF ReplyInv
<1>. QED
  BY <1>1, ReplyInvariant, PTL

-----------------------------------------------------------------------------
(* What is said is heard.  The rest of the module is about HeardAsSaid: what *)
(* a sequence keeps when it is filtered, joined and extended; the          *)
(* operators of the pipeline, which lose nothing; HearInv, which follows   *)
(* what was said from the run through the pipeline and the dispatcher to   *)
(* the channel; and the steps, which keep it.                              *)

(* A set of sequences with the empty one in it, and closed under           *)
(* appending, holds them all.                                              *)
LEMMA SeqInduction ==
  ASSUME NEW S, NEW X, X \subseteq Seq(S), <<>> \in X, \A s \in X, e \in S : Append(s, e) \in X
  PROVE  X = Seq(S)
<1>. DEFINE N == {n \in Nat : \A s \in Seq(S) : Len(s) = n => s \in X}
<1>1. 0 \in N
  <2>1. \A s \in Seq(S) : Len(s) = 0 => s = <<>>
    BY EmptySeq
  <2>. QED
    BY <2>1
<1>2. ASSUME NEW n \in N PROVE n + 1 \in N
  <2>. SUFFICES ASSUME NEW s \in Seq(S), Len(s) = n + 1 PROVE s \in X
    OBVIOUS
  <2>0. n \in Nat /\ s # <<>>
    BY EmptySeq
  <2>1. PICK t \in Seq(S), e \in S : s = Append(t, e)
    BY <2>0, SequenceEmptyOrAppend
  <2>2. Len(t) = n
    BY <2>0, <2>1, AppendProperties, LenProperties
  <2>. QED
    BY <2>1, <2>2
<1>3. N = Nat
  <2>. HIDE DEF N
  <2>1. N \subseteq Nat
    BY DEF N
  <2>. QED
    BY <1>1, <1>2, <2>1, SetInduction
<1>. QED
  BY <1>3, LenProperties

(* The elements of sequences.                                              *)
LEMMA ElementsOf ==
  ASSUME NEW S
  PROVE  /\ Elements(<<>>) = {}
         /\ \A s \in Seq(S) : Elements(s) \subseteq S
         /\ \A s \in Seq(S) : s # <<>> => Elements(s) # {}
         /\ \A e \in S : <<e>> \in Seq(S) /\ Elements(<<e>>) = {e}
         /\ \A s \in Seq(S), e \in S : Elements(Append(s, e)) = Elements(s) \cup {e}
         /\ \A s, t \in Seq(S) : Elements(s \o t) = Elements(s) \cup Elements(t)
<1>1. Elements(<<>>) = {}
  BY DEF Elements
<1>2. \A s \in Seq(S) : Elements(s) \subseteq S
  BY LenProperties, ElementOfSeq DEF Elements
<1>3. ASSUME NEW s \in Seq(S), s # <<>> PROVE Elements(s) # {}
  <2>1. 1 \in DOMAIN s
    BY <1>3, EmptySeq, LenProperties
  <2>. QED
    BY <2>1 DEF Elements
<1>4. ASSUME NEW e \in S PROVE <<e>> \in Seq(S) /\ Elements(<<e>>) = {e}
  BY DEF Elements
<1>5. ASSUME NEW s \in Seq(S), NEW e \in S PROVE Elements(Append(s, e)) = Elements(s) \cup {e}
  <2>1. /\ Append(s, e) \in Seq(S) /\ Len(Append(s, e)) = Len(s) + 1
        /\ \A i \in 1..Len(s) : Append(s, e)[i] = s[i]
        /\ Append(s, e)[Len(s) + 1] = e
    BY AppendProperties
  <2>2. Len(s) \in Nat /\ DOMAIN s = 1..Len(s) /\ DOMAIN Append(s, e) = 1..(Len(s) + 1)
    BY <2>1, LenProperties
  <2>3. 1..(Len(s) + 1) = (1..Len(s)) \cup {Len(s) + 1}
    BY <2>2
  <2>. QED
    BY <2>1, <2>2, <2>3 DEF Elements
<1>6. ASSUME NEW s \in Seq(S), NEW t \in Seq(S) PROVE Elements(s \o t) = Elements(s) \cup Elements(t)
  <2>1. /\ s \o t \in Seq(S) /\ Len(s \o t) = Len(s) + Len(t)
        /\ \A i \in 1..Len(s) + Len(t) : (s \o t)[i] = IF i <= Len(s) THEN s[i] ELSE t[i - Len(s)]
    BY ConcatProperties
  <2>2. /\ Len(s) \in Nat /\ DOMAIN s = 1..Len(s) /\ Len(t) \in Nat /\ DOMAIN t = 1..Len(t)
        /\ DOMAIN (s \o t) = 1..(Len(s) + Len(t))
    BY <2>1, LenProperties
  <2>3. ASSUME NEW i \in DOMAIN (s \o t) PROVE (s \o t)[i] \in Elements(s) \cup Elements(t)
    <3>1. CASE i <= Len(s)
      BY <2>1, <2>2, <3>1 DEF Elements
    <3>2. CASE ~(i <= Len(s))
      <4>1. i - Len(s) \in DOMAIN t /\ (s \o t)[i] = t[i - Len(s)]
        BY <2>1, <2>2, <3>2
      <4>. QED
        BY <4>1 DEF Elements
    <3>. QED
      BY <3>1, <3>2
  <2>4. ASSUME NEW i \in DOMAIN s PROVE s[i] \in Elements(s \o t)
    <3>1. i \in DOMAIN (s \o t) /\ (s \o t)[i] = s[i]
      BY <2>1, <2>2
    <3>. QED
      BY <3>1 DEF Elements
  <2>5. ASSUME NEW i \in DOMAIN t PROVE t[i] \in Elements(s \o t)
    <3>1. i + Len(s) \in DOMAIN (s \o t) /\ (s \o t)[i + Len(s)] = t[i]
      BY <2>1, <2>2
    <3>. QED
      BY <3>1 DEF Elements
  <2>6. Elements(s \o t) \subseteq Elements(s) \cup Elements(t)
    BY <2>3 DEF Elements
  <2>7. Elements(s) \subseteq Elements(s \o t) /\ Elements(t) \subseteq Elements(s \o t)
    <3>1. \A x \in Elements(s) : \E i \in DOMAIN s : x = s[i]
      BY DEF Elements
    <3>2. \A x \in Elements(t) : \E i \in DOMAIN t : x = t[i]
      BY DEF Elements
    <3>. QED
      BY <2>4, <2>5, <3>1, <3>2
  <2>. QED
    BY <2>6, <2>7
<1>. QED
  BY <1>1, <1>2, <1>3, <1>4, <1>5, <1>6

-----------------------------------------------------------------------------
(* Without takes away some elements and keeps the others, in their order.  *)

(* The function exists up to any k,                                        *)
LEMMA WithoutExists ==
  ASSUME NEW S, NEW s \in Seq(S), NEW T, NEW k \in Nat
  PROVE  \E g : WithoutIs(s, T, k, g)
<1>. DEFINE X == {n \in Nat : \E g : WithoutIs(s, T, n, g)}
<1>1. 0 \in X
  <2>. DEFINE g == [i \in 0..0 |-> <<>>]
  <2>1. g = [i \in 0..0 |-> IF i = 0 THEN <<>>
                      ELSE IF s[i] \in T THEN g[i - 1]
                      ELSE Append(g[i - 1], s[i])]
    OBVIOUS
  <2>. QED
    BY <2>1 DEF WithoutIs
<1>2. \A n \in X : n + 1 \in X
  BY WithoutStep
<1>3. X = Nat
  <2>. HIDE DEF X
  <2>1. X \subseteq Nat
    BY DEF X
  <2>. QED
    BY <2>1, <1>1, <1>2, SetInduction
<1>. QED
  BY <1>3

WithoutGives(s, T, k, g) ==
  /\ g[0] = <<>>
  /\ \A i \in 1..k : g[i] = IF s[i] \in T THEN g[i - 1] ELSE Append(g[i - 1], s[i])

(* its values are determined one by one,                                   *)
LEMMA WithoutValues ==
  ASSUME NEW s, NEW T, NEW k \in Nat, NEW g, WithoutIs(s, T, k, g)
  PROVE  WithoutGives(s, T, k, g)
<1>. DEFINE G(i) == IF i = 0 THEN <<>>
                    ELSE IF s[i] \in T THEN g[i - 1]
                    ELSE Append(g[i - 1], s[i])
<1>1. g = [i \in 0..k |-> G(i)]
  BY DEF WithoutIs
<1>. HIDE DEF G
<1>2. \A i \in 0..k : g[i] = G(i)
  BY <1>1
<1>3. 0 \in 0..k /\ \A i \in 1..k : i \in 0..k /\ i # 0
  OBVIOUS
<1>4. g[0] = G(0) /\ \A i \in 1..k : g[i] = G(i) /\ i # 0
  BY <1>2, <1>3
<1>. QED
  BY <1>4 DEF G, WithoutGives

(* and by what comes before them in the sequence.                          *)
LEMMA WithoutAgrees ==
  ASSUME NEW s, NEW t, NEW T, NEW k \in Nat, NEW m \in Nat, k <= m, NEW g, NEW h,
         WithoutIs(s, T, k, g), WithoutIs(t, T, m, h), \A i \in 1..k : s[i] = t[i]
  PROVE  g[k] = h[k]
<1>a. WithoutGives(s, T, k, g) /\ WithoutGives(t, T, m, h)
  BY WithoutValues
<1>0. /\ g[0] = <<>>
      /\ \A i \in 1..k : g[i] = IF s[i] \in T THEN g[i - 1] ELSE Append(g[i - 1], s[i])
  BY <1>a DEF WithoutGives
<1>1. /\ h[0] = <<>>
      /\ \A i \in 1..m : h[i] = IF t[i] \in T THEN h[i - 1] ELSE Append(h[i - 1], t[i])
  BY <1>a DEF WithoutGives
<1>. DEFINE X == {n \in Nat : n <= k => g[n] = h[n]}
<1>2. 0 \in X
  BY <1>0, <1>1
<1>3. ASSUME NEW n \in X PROVE n + 1 \in X
  <2>. SUFFICES ASSUME n + 1 <= k PROVE g[n + 1] = h[n + 1]
    OBVIOUS
  <2>1. n \in Nat /\ n + 1 \in 1..k /\ n + 1 \in 1..m /\ (n + 1) - 1 = n /\ g[n] = h[n]
    OBVIOUS
  <2>2. g[n + 1] = IF s[n + 1] \in T THEN g[n] ELSE Append(g[n], s[n + 1])
    BY <1>0, <2>1
  <2>3. h[n + 1] = IF t[n + 1] \in T THEN h[n] ELSE Append(h[n], t[n + 1])
    BY <1>1, <2>1
  <2>. QED
    BY <2>1, <2>2, <2>3
<1>4. X = Nat
  <2>. HIDE DEF X
  <2>1. X \subseteq Nat
    BY DEF X
  <2>. QED
    BY <2>1, <1>2, <1>3, SetInduction
<1>. QED
  BY <1>4

(* So it goes on element by element,                                       *)
LEMMA WithoutNone == \A T : Without(<<>>, T) = <<>>
<1>. TAKE T
<1>1. Without(<<>>, T) = <<>>
  <2>1. <<>> \in Seq({}) /\ Len(<<>>) = 0
    BY EmptySeq
  <2>2. PICK g : WithoutIs(<<>>, T, 0, g) /\ Without(<<>>, T) = g[0]
    BY <2>1, WithoutExists, WithoutDef
  <2>. QED
    BY <2>2, WithoutValues DEF WithoutGives
<1>. QED
  BY <1>1

(* and an element at the end stays or goes.                                *)
LEMMA WithoutAppend ==
  ASSUME NEW S, NEW T, NEW s \in Seq(S), NEW e \in S
  PROVE  /\ e \in T => Without(Append(s, e), T) = Without(s, T)
         /\ e \notin T => Without(Append(s, e), T) = Append(Without(s, T), e)
<1>2. Without(Append(s, e), T) = IF e \in T THEN Without(s, T) ELSE Append(Without(s, T), e)
  <2>. DEFINE a == Append(s, e)
  <2>1. /\ a \in Seq(S) /\ Len(a) = Len(s) + 1
        /\ \A i \in 1..Len(s) : a[i] = s[i]
        /\ a[Len(s) + 1] = e /\ Len(s) \in Nat
    BY AppendProperties, LenProperties
  <2>. HIDE DEF a
  <2>2. PICK g : WithoutIs(s, T, Len(s), g) /\ Without(s, T) = g[Len(s)]
    BY <2>1, WithoutExists, WithoutDef
  <2>3. PICK h : WithoutIs(a, T, Len(s) + 1, h) /\ Without(a, T) = h[Len(s) + 1]
    <3>1. PICK h : WithoutIs(a, T, Len(a), h) /\ Without(a, T) = h[Len(a)]
      <4>1. a \in Seq(S) /\ Len(a) \in Nat
        BY <2>1, LenProperties
      <4>2. \E h : WithoutIs(a, T, Len(a), h)
        BY <4>1, WithoutExists
      <4>. QED
        BY <4>2, WithoutDef
    <3>. QED
      BY <2>1, <3>1
  <2>4. g[Len(s)] = h[Len(s)]
    <3>1. Len(s) <= Len(s) + 1 /\ Len(s) + 1 \in Nat /\ \A i \in 1..Len(s) : s[i] = a[i]
      BY <2>1
    <3>. QED
      BY <2>1, <2>2, <2>3, <3>1, WithoutAgrees
  <2>5. h[Len(s) + 1] = IF a[Len(s) + 1] \in T THEN h[(Len(s) + 1) - 1]
                        ELSE Append(h[(Len(s) + 1) - 1], a[Len(s) + 1])
    <3>1. Len(s) + 1 \in Nat /\ Len(s) + 1 \in 1..(Len(s) + 1)
      BY <2>1
    <3>2. WithoutGives(a, T, Len(s) + 1, h)
      BY <2>3, <3>1, WithoutValues
    <3>. QED
      BY <3>1, <3>2 DEF WithoutGives
  <2>6. (Len(s) + 1) - 1 = Len(s)
    BY <2>1
  <2>. QED
    BY <2>1, <2>2, <2>3, <2>4, <2>5, <2>6 DEF a
<1>. QED
  BY <1>2

(* over what is joined,                                                    *)
LEMMA WithoutConcat ==
  ASSUME NEW S, NEW T
  PROVE  \A s, t \in Seq(S) : Without(s \o t, T) = Without(s, T) \o Without(t, T)
<1>. SUFFICES ASSUME NEW s \in Seq(S)
              PROVE  \A t \in Seq(S) : Without(s \o t, T) = Without(s, T) \o Without(t, T)
  OBVIOUS
<1>. DEFINE X == {t \in Seq(S) : Without(s \o t, T) = Without(s, T) \o Without(t, T)}
<1>1. <<>> \in X
  <2>1. Without(s, T) \in Seq(S) /\ Without(<<>>, T) = <<>> /\ <<>> \in Seq(S)
    BY WithoutType, WithoutNone, EmptySeq
  <2>2. s \o <<>> = s /\ Without(s, T) \o <<>> = Without(s, T)
    BY <2>1, ConcatEmptySeq
  <2>. QED
    BY <2>1, <2>2
<1>2. ASSUME NEW t \in X, NEW e \in S PROVE Append(t, e) \in X
  <2>1. /\ t \in Seq(S) /\ Without(s \o t, T) = Without(s, T) \o Without(t, T)
        /\ s \o t \in Seq(S) /\ Append(t, e) \in Seq(S) /\ <<e>> \in Seq(S)
        /\ Without(s, T) \in Seq(S) /\ Without(t, T) \in Seq(S)
        /\ Without(s, T) \o Without(t, T) \in Seq(S)
    BY ConcatProperties, AppendProperties, WithoutType
  <2>2. s \o Append(t, e) = Append(s \o t, e)
    <3>1. Append(t, e) = t \o <<e>> /\ Append(s \o t, e) = (s \o t) \o <<e>>
      BY <2>1, AppendIsConcat
    <3>. QED
      BY <2>1, <3>1, ConcatAssociative
  <2>3. CASE e \in T
    <3>1. Without(Append(s \o t, e), T) = Without(s \o t, T)
      BY <2>1, <2>3, WithoutAppend
    <3>2. Without(Append(t, e), T) = Without(t, T)
      BY <2>1, <2>3, WithoutAppend
    <3>. QED
      BY <2>1, <2>2, <3>1, <3>2
  <2>4. CASE e \notin T
    <3>1. Without(Append(s \o t, e), T) = Append(Without(s \o t, T), e)
      BY <2>1, <2>4, WithoutAppend
    <3>5. Without(Append(t, e), T) = Append(Without(t, T), e)
      BY <2>1, <2>4, WithoutAppend
    <3>2. Append(Without(s, T) \o Without(t, T), e) = (Without(s, T) \o Without(t, T)) \o <<e>>
      BY <2>1, AppendIsConcat
    <3>3. Append(Without(t, T), e) = Without(t, T) \o <<e>>
      BY <2>1, AppendIsConcat
    <3>4. (Without(s, T) \o Without(t, T)) \o <<e>> = Without(s, T) \o (Without(t, T) \o <<e>>)
      BY <2>1, ConcatAssociative
    <3>. QED
      BY <2>1, <2>2, <3>1, <3>2, <3>3, <3>4, <3>5
  <2>. QED
    BY <2>3, <2>4
<1>3. X = Seq(S)
  <2>. HIDE DEF X
  <2>1. X \subseteq Seq(S)
    BY DEF X
  <2>. QED
    BY <1>1, <1>2, <2>1, SeqInduction
<1>. QED
  BY <1>3

(* of some elements, of all or of none.                                    *)
LEMMA WithoutElements ==
  ASSUME NEW S, NEW T, NEW s \in Seq(S)
  PROVE  /\ Without(s, T) \in Seq(S)
         /\ Elements(Without(s, T)) = Elements(s) \ T
         /\ Elements(s) \cap T = {} => Without(s, T) = s
         /\ Elements(s) \subseteq T => Without(s, T) = <<>>
<1>. DEFINE X == {t \in Seq(S) : /\ Elements(Without(t, T)) = Elements(t) \ T
                                 /\ Elements(t) \cap T = {} => Without(t, T) = t
                                 /\ Elements(t) \subseteq T => Without(t, T) = <<>>}
<1>1. <<>> \in X
  BY WithoutNone, ElementsOf, EmptySeq
<1>2. ASSUME NEW t \in X, NEW e \in S PROVE Append(t, e) \in X
  <2>1. /\ t \in Seq(S) /\ Without(t, T) \in Seq(S) /\ Append(t, e) \in Seq(S)
        /\ Elements(Without(t, T)) = Elements(t) \ T
        /\ Elements(t) \cap T = {} => Without(t, T) = t
        /\ Elements(t) \subseteq T => Without(t, T) = <<>>
    BY WithoutType, AppendProperties
  <2>2. /\ Elements(Append(t, e)) = Elements(t) \cup {e}
        /\ Elements(Append(Without(t, T), e)) = Elements(Without(t, T)) \cup {e}
    BY <2>1, ElementsOf
  <2>3. /\ e \in T => Without(Append(t, e), T) = Without(t, T)
        /\ e \notin T => Without(Append(t, e), T) = Append(Without(t, T), e)
    BY <2>1, WithoutAppend
  <2>. QED
    BY <2>1, <2>2, <2>3
<1>3. X = Seq(S)
  <2>. HIDE DEF X
  <2>1. X \subseteq Seq(S)
    BY DEF X
  <2>. QED
    BY <1>1, <1>2, <2>1, SeqInduction
<1>. QED
  BY <1>3, WithoutType

-----------------------------------------------------------------------------
(* The pieces in a sequence of payloads, one after the other.              *)
Flat(c) ==
  LET flat[i \in 0..Len(c)] == IF i = 0 THEN <<>> ELSE flat[i - 1] \o c[i] IN flat[Len(c)]

(* g is the function that Flat builds, up to k.                            *)
FlatIs(c, k, g) == g = [i \in 0..k |-> IF i = 0 THEN <<>> ELSE g[i - 1] \o c[i]]
FlatGives(c, k, g) ==
  /\ g[0] = <<>>
  /\ \A i \in 1..k : g[i] = g[i - 1] \o c[i]

(* Flat takes the function's last value,                                   *)
LEMMA FlatDef ==
  ASSUME NEW c
  PROVE  Flat(c) = (CHOOSE g : FlatIs(c, Len(c), g))[Len(c)]
BY DEF Flat, FlatIs

(* which is determined by the one before.                                  *)
LEMMA FlatValues ==
  ASSUME NEW c, NEW k \in Nat, NEW g, FlatIs(c, k, g)
  PROVE  FlatGives(c, k, g)
<1>. DEFINE G(i) == IF i = 0 THEN <<>> ELSE g[i - 1] \o c[i]
<1>1. g = [i \in 0..k |-> G(i)]
  BY DEF FlatIs
<1>. HIDE DEF G
<1>2. \A i \in 0..k : g[i] = G(i)
  BY <1>1
<1>3. 0 \in 0..k /\ \A i \in 1..k : i \in 0..k /\ i # 0
  OBVIOUS
<1>4. g[0] = G(0) /\ \A i \in 1..k : g[i] = G(i) /\ i # 0
  BY <1>2, <1>3
<1>. QED
  BY <1>4 DEF G, FlatGives

(* The function exists,                                                    *)
LEMMA FlatExists ==
  ASSUME NEW c, NEW k \in Nat
  PROVE  \E g : FlatIs(c, k, g)
<1>. DEFINE X == {n \in Nat : \E g : FlatIs(c, n, g)}
<1>1. 0 \in X
  <2>. DEFINE g == [i \in 0..0 |-> <<>>]
  <2>1. g = [i \in 0..0 |-> IF i = 0 THEN <<>> ELSE g[i - 1] \o c[i]]
    OBVIOUS
  <2>. QED
    BY <2>1 DEF FlatIs
<1>2. ASSUME NEW n \in X PROVE n + 1 \in X
  <2>. n \in Nat
    OBVIOUS
  <2>1. PICK g : FlatIs(c, n, g)
    OBVIOUS
  <2>2. FlatGives(c, n, g)
    BY <2>1, FlatValues
  <2>. DEFINE h == [i \in 0..(n + 1) |-> IF i = n + 1 THEN g[n] \o c[n + 1] ELSE g[i]]
              H(i) == IF i = 0 THEN <<>> ELSE h[i - 1] \o c[i]
  <2>3. ASSUME NEW i \in 0..(n + 1) PROVE h[i] = H(i)
    <3>1. CASE i = 0
      BY <2>2, <3>1 DEF FlatGives
    <3>2. CASE i = n + 1
      <4>1. h[i] = g[n] \o c[i] /\ i # 0 /\ i - 1 = n /\ h[n] = g[n]
        BY <3>2
      <4>. QED
        BY <4>1
    <3>3. CASE i \in 1..n
      <4>1. g[i] = g[i - 1] \o c[i]
        BY <2>2, <3>3 DEF FlatGives
      <4>2. h[i] = g[i] /\ h[i - 1] = g[i - 1] /\ i # 0
        BY <3>3
      <4>. QED
        BY <4>1, <4>2
    <3>. QED
      BY <3>1, <3>2, <3>3
  <2>4. h = [i \in 0..(n + 1) |-> h[i]]
    OBVIOUS
  <2>. HIDE DEF h, H
  <2>5. h = [i \in 0..(n + 1) |-> H(i)]
    BY <2>3, <2>4
  <2>6. FlatIs(c, n + 1, h)
    BY <2>5 DEF H, FlatIs
  <2>. QED
    BY <2>6
<1>3. X = Nat
  <2>. HIDE DEF X
  <2>1. X \subseteq Nat
    BY DEF X
  <2>. QED
    BY <2>1, <1>1, <1>2, SetInduction
<1>. QED
  BY <1>3

Agree(c, e, k) == \A i \in 1..k : c[i] = e[i]

(* and depends on the payloads before only.                                *)
LEMMA FlatAgrees ==
  ASSUME NEW c, NEW e, NEW k \in Nat, NEW m \in Nat, k <= m, NEW g, NEW h,
         FlatGives(c, k, g), FlatGives(e, m, h), Agree(c, e, k)
  PROVE  g[k] = h[k]
<1>. DEFINE X == {n \in Nat : n <= k => g[n] = h[n]}
<1>1. 0 \in X
  BY DEF FlatGives
<1>2. ASSUME NEW n \in X PROVE n + 1 \in X
  <2>. SUFFICES ASSUME n + 1 <= k PROVE g[n + 1] = h[n + 1]
    OBVIOUS
  <2>1. n \in Nat /\ n + 1 \in 1..k /\ n + 1 \in 1..m /\ (n + 1) - 1 = n /\ g[n] = h[n]
    OBVIOUS
  <2>2. g[n + 1] = g[n] \o c[n + 1] /\ h[n + 1] = h[n] \o e[n + 1] /\ c[n + 1] = e[n + 1]
    BY <2>1 DEF FlatGives, Agree
  <2>. QED
    BY <2>1, <2>2
<1>3. X = Nat
  <2>. HIDE DEF X
  <2>1. X \subseteq Nat
    BY DEF X
  <2>. QED
    BY <2>1, <1>1, <1>2, SetInduction
<1>. QED
  BY <1>3

(* What a payload adds at the end,                                         *)
LEMMA FlatAppend ==
  ASSUME NEW S
  PROVE  /\ Flat(<<>>) = <<>>
         /\ \A c \in Seq(Seq(S)), s \in Seq(S) : Flat(Append(c, s)) = Flat(c) \o s
<1>1. Flat(<<>>) = <<>>
  <2>1. Len(<<>>) = 0
    BY EmptySeq
  <2>2. PICK g : FlatIs(<<>>, 0, g) /\ Flat(<<>>) = g[0]
    BY <2>1, FlatExists, FlatDef
  <2>. QED
    BY <2>2, FlatValues DEF FlatGives
<1>2. ASSUME NEW c \in Seq(Seq(S)), NEW s \in Seq(S) PROVE Flat(Append(c, s)) = Flat(c) \o s
  <2>. DEFINE a == Append(c, s)
  <2>1. /\ a \in Seq(Seq(S)) /\ Len(a) = Len(c) + 1
        /\ \A i \in 1..Len(c) : a[i] = c[i]
        /\ a[Len(c) + 1] = s /\ Len(c) \in Nat
    BY AppendProperties, LenProperties
  <2>. HIDE DEF a
  <2>2. PICK g : FlatIs(c, Len(c), g) /\ Flat(c) = g[Len(c)]
    BY <2>1, FlatExists, FlatDef
  <2>3. PICK h : FlatIs(a, Len(a), h) /\ Flat(a) = h[Len(a)]
    <3>1. Len(a) \in Nat
      BY <2>1
    <3>. QED
      BY <3>1, FlatExists, FlatDef
  <2>4. FlatGives(c, Len(c), g) /\ FlatGives(a, Len(a), h)
    <3>1. Len(a) \in Nat
      BY <2>1
    <3>. QED
      BY <2>1, <2>2, <2>3, <3>1, FlatValues
  <2>5. g[Len(c)] = h[Len(c)]
    <3>1. Len(c) <= Len(a) /\ Len(a) \in Nat /\ Agree(c, a, Len(c))
      BY <2>1 DEF Agree
    <3>. QED
      BY <2>1, <2>4, <3>1, FlatAgrees
  <2>6. h[Len(c) + 1] = h[(Len(c) + 1) - 1] \o a[Len(c) + 1]
    <3>1. Len(c) + 1 \in 1..Len(a)
      BY <2>1
    <3>. QED
      BY <2>4, <3>1 DEF FlatGives
  <2>7. (Len(c) + 1) - 1 = Len(c)
    BY <2>1
  <2>. QED
    BY <2>1, <2>2, <2>3, <2>5, <2>6, <2>7 DEF a
<1>. QED
  BY <1>1, <1>2

(* How sequences are joined.                                               *)
LEMMA Joins ==
  ASSUME NEW S
  PROVE  /\ \A x, y \in Seq(S) : x \o y \in Seq(S)
         /\ \A x, y, z \in Seq(S) : (x \o y) \o z = x \o (y \o z)
         /\ \A x \in Seq(S) : <<>> \o x = x /\ x \o <<>> = x
         /\ <<>> \in Seq(S)
<1>1. ASSUME NEW x \in Seq(S), NEW y \in Seq(S), NEW z \in Seq(S)
      PROVE  (x \o y) \o z = x \o (y \o z)
  BY ConcatAssociative
<1>2. \A x, y \in Seq(S) : x \o y \in Seq(S)
  BY ConcatProperties
<1>3. \A x \in Seq(S) : <<>> \o x = x /\ x \o <<>> = x
  BY ConcatEmptySeq
<1>. QED
  BY <1>1, <1>2, <1>3, EmptySeq

(* a sequence over the same pieces,                                        *)
LEMMA FlatType ==
  ASSUME NEW S, NEW c \in Seq(Seq(S))
  PROVE  Flat(c) \in Seq(S)
<1>. DEFINE X == {e \in Seq(Seq(S)) : Flat(e) \in Seq(S)}
<1>1. <<>> \in X
  BY FlatAppend, EmptySeq
<1>2. ASSUME NEW e \in X, NEW s \in Seq(S) PROVE Append(e, s) \in X
  <2>1. Append(e, s) \in Seq(Seq(S)) /\ Flat(Append(e, s)) = Flat(e) \o s /\ Flat(e) \in Seq(S)
    BY AppendProperties, FlatAppend
  <2>. QED
    BY <2>1, ConcatProperties
<1>3. X = Seq(Seq(S))
  <2>. HIDE DEF X
  <2>1. X \subseteq Seq(Seq(S))
    BY DEF X
  <2>. QED
    BY <1>1, <1>2, <2>1, SeqInduction
<1>. QED
  BY <1>3

(* what the first of them is,                                              *)
LEMMA FlatHead ==
  ASSUME NEW S, NEW c \in Seq(Seq(S)), c # <<>>
  PROVE  /\ Head(c) \in Seq(S) /\ Tail(c) \in Seq(Seq(S))
         /\ Flat(c) = Head(c) \o Flat(Tail(c))
<1>0. \A x, y, z \in Seq(S) : (x \o y) \o z = x \o (y \o z)
  BY ONLY Joins
<1>. DEFINE X == {e \in Seq(Seq(S)) : e # <<>> => Flat(e) = Head(e) \o Flat(Tail(e))}
<1>1. <<>> \in X
  BY EmptySeq
<1>2. ASSUME NEW e \in X, NEW s \in Seq(S) PROVE Append(e, s) \in X
  <2>. e \in Seq(Seq(S))
    OBVIOUS
  <2>1. Append(e, s) \in Seq(Seq(S)) /\ Flat(Append(e, s)) = Flat(e) \o s /\ Flat(e) \in Seq(S)
    BY AppendProperties, FlatAppend, FlatType
  <2>2. /\ Head(Append(e, s)) = IF e = <<>> THEN s ELSE Head(e)
        /\ Tail(Append(e, s)) = IF e = <<>> THEN <<>> ELSE Append(Tail(e), s)
    BY HeadTailAppend
  <2>3. CASE e = <<>>
    <3>1. Flat(e) = <<>> /\ Flat(<<>>) = <<>> /\ <<>> \o s = s /\ s \o <<>> = s
      BY <2>3, FlatAppend, ConcatEmptySeq
    <3>. QED
      BY <2>1, <2>2, <2>3, <3>1
  <2>4. CASE e # <<>>
    <3>1. Head(e) \in Seq(S) /\ Tail(e) \in Seq(Seq(S)) /\ Flat(e) = Head(e) \o Flat(Tail(e))
      BY <2>4, HeadTailProperties
    <3>2. Flat(Append(Tail(e), s)) = Flat(Tail(e)) \o s /\ Flat(Tail(e)) \in Seq(S)
      BY <3>1, FlatAppend, FlatType
    <3>3. (Head(e) \o Flat(Tail(e))) \o s = Head(e) \o (Flat(Tail(e)) \o s)
      BY <1>0, <3>1, <3>2
    <3>. QED
      BY <2>1, <2>2, <2>4, <3>1, <3>2, <3>3
  <2>. QED
    BY <2>3, <2>4
<1>3. X = Seq(Seq(S))
  <2>. HIDE DEF X
  <2>1. X \subseteq Seq(Seq(S))
    BY DEF X
  <2>. QED
    BY <1>1, <1>2, <2>1, SeqInduction
<1>4. Flat(c) = Head(c) \o Flat(Tail(c))
  BY <1>3
<1>. QED
  BY <1>4, HeadTailProperties

(* whose pieces they are,                                                  *)
LEMMA FlatElements ==
  ASSUME NEW S, NEW c \in Seq(Seq(S))
  PROVE  Elements(Flat(c)) = UNION {Elements(s) : s \in Elements(c)}
<1>. DEFINE X == {e \in Seq(Seq(S)) : Elements(Flat(e)) = UNION {Elements(s) : s \in Elements(e)}}
<1>1. <<>> \in X
  <2>1. Flat(<<>>) = <<>> /\ Elements(<<>>) = {} /\ <<>> \in Seq(Seq(S))
    BY FlatAppend, ElementsOf, EmptySeq
  <2>. QED
    BY <2>1
<1>2. ASSUME NEW e \in X, NEW s \in Seq(S) PROVE Append(e, s) \in X
  <2>1. /\ Append(e, s) \in Seq(Seq(S)) /\ Flat(Append(e, s)) = Flat(e) \o s /\ Flat(e) \in Seq(S)
        /\ Elements(Append(e, s)) = Elements(e) \cup {s}
    BY AppendProperties, FlatAppend, FlatType, ElementsOf
  <2>2. Elements(Flat(e) \o s) = Elements(Flat(e)) \cup Elements(s)
    BY <2>1, ElementsOf
  <2>3. UNION {Elements(t) : t \in Elements(e) \cup {s}}
        = (UNION {Elements(t) : t \in Elements(e)}) \cup Elements(s)
    OBVIOUS
  <2>. QED
    BY <2>1, <2>2, <2>3
<1>3. X = Seq(Seq(S))
  <2>. HIDE DEF X
  <2>1. X \subseteq Seq(Seq(S))
    BY DEF X
  <2>. QED
    BY <1>1, <1>2, <2>1, SeqInduction
<1>. QED
  BY <1>3

(* Payloads of one piece each,                                             *)
Singles(s) == [i \in DOMAIN s |-> <<s[i]>>]

(* one for each element of a sequence,                                     *)
LEMMA SinglesIs ==
  ASSUME NEW S, NEW s \in Seq(S)
  PROVE  /\ Singles(s) \in Seq(Seq(S)) /\ DOMAIN Singles(s) = DOMAIN s
         /\ Len(Singles(s)) = Len(s)
         /\ Elements(Singles(s)) = {<<e>> : e \in Elements(s)}
<1>1. Len(s) \in Nat /\ DOMAIN s = 1..Len(s) /\ \A i \in 1..Len(s) : s[i] \in S
  BY LenProperties, ElementOfSeq
<1>2. Singles(s) = [i \in 1..Len(s) |-> <<s[i]>>]
  BY <1>1 DEF Singles
<1>3. \A i \in 1..Len(s) : <<s[i]>> \in Seq(S)
  BY <1>1
<1>4. Singles(s) \in Seq(Seq(S))
  BY <1>1, <1>2, <1>3, IsASeq
<1>5. DOMAIN Singles(s) = 1..Len(s)
  BY <1>2
<1>6. Len(Singles(s)) = Len(s)
  BY <1>1, <1>2
<1>7. Elements(Singles(s)) = {<<e>> : e \in Elements(s)}
  BY <1>1, <1>2 DEF Elements
<1>. QED
  BY <1>1, <1>4, <1>5, <1>6, <1>7

(* and one more for one more,                                              *)
LEMMA SinglesAppend ==
  ASSUME NEW S, NEW s \in Seq(S), NEW e \in S
  PROVE  /\ Singles(Append(s, e)) = Append(Singles(s), <<e>>) /\ Append(s, e) = s \o <<e>>
         /\ Append(s, e) \in Seq(S) /\ Singles(s) \in Seq(Seq(S)) /\ <<e>> \in Seq(S)
<1>. DEFINE a == Append(s, e)
<1>1. /\ a \in Seq(S) /\ Len(a) = Len(s) + 1 /\ a[Len(s) + 1] = e
      /\ \A i \in 1..Len(s) : a[i] = s[i]
  BY AppendProperties
<1>2. /\ Singles(s) \in Seq(Seq(S)) /\ <<e>> \in Seq(S) /\ Singles(a) \in Seq(Seq(S))
      /\ Len(Singles(s)) = Len(s) /\ Len(Singles(a)) = Len(a)
      /\ Len(s) \in Nat /\ DOMAIN s = 1..Len(s) /\ DOMAIN a = 1..Len(a)
  BY <1>1, SinglesIs, LenProperties, ElementsOf
<1>3. /\ Append(Singles(s), <<e>>) \in Seq(Seq(S))
      /\ Len(Append(Singles(s), <<e>>)) = Len(s) + 1
      /\ \A i \in 1..Len(s) : Append(Singles(s), <<e>>)[i] = Singles(s)[i]
      /\ Append(Singles(s), <<e>>)[Len(s) + 1] = <<e>>
  BY <1>2, AppendProperties
<1>4. a = s \o <<e>>
  BY AppendIsConcat
<1>. HIDE DEF a
<1>5. ASSUME NEW i \in 1..(Len(s) + 1) PROVE Singles(a)[i] = Append(Singles(s), <<e>>)[i]
  <2>1. Singles(a)[i] = <<a[i]>>
    BY <1>1, <1>2 DEF Singles
  <2>2. CASE i \in 1..Len(s)
    BY <1>1, <1>2, <1>3, <2>1, <2>2 DEF Singles
  <2>3. CASE i = Len(s) + 1
    BY <1>1, <1>3, <2>1, <2>3
  <2>. QED
    BY <1>2, <2>2, <2>3
<1>6. Singles(a) = Append(Singles(s), <<e>>)
  BY <1>1, <1>2, <1>3, <1>5, SeqEqual
<1>. QED
  BY <1>1, <1>2, <1>4, <1>6 DEF a

(* none for none,                                                          *)
LEMMA SinglesNone == Singles(<<>>) = <<>>
<1>1. Singles(<<>>) \in Seq(Seq({})) /\ Len(Singles(<<>>)) = 0
  BY SinglesIs, EmptySeq
<1>. QED
  BY <1>1, EmptySeq

(* make that sequence when joined, and what is left of it when those of    *)
(* the elements in U are taken out.                                        *)
LEMMA FlatSingles ==
  ASSUME NEW S, NEW U, NEW T, \A e \in S : <<e>> \in T <=> e \in U
  PROVE  \A s \in Seq(S) : Flat(Singles(s)) = s /\ Flat(Without(Singles(s), T)) = Without(s, U)
<1>. DEFINE X == {s \in Seq(S) : Flat(Singles(s)) = s /\ Flat(Without(Singles(s), T)) = Without(s, U)}
<1>1. <<>> \in X
  <2>1. Flat(<<>>) = <<>> /\ <<>> \in Seq(S)
    BY FlatAppend, EmptySeq
  <2>. QED
    BY <2>1, SinglesNone, WithoutNone
<1>2. ASSUME NEW s \in X, NEW e \in S PROVE Append(s, e) \in X
  <2>1. s \in Seq(S) /\ Flat(Singles(s)) = s /\ Flat(Without(Singles(s), T)) = Without(s, U)
    OBVIOUS
  <2>2. /\ Singles(Append(s, e)) = Append(Singles(s), <<e>>) /\ Append(s, e) = s \o <<e>>
        /\ Append(s, e) \in Seq(S) /\ Singles(s) \in Seq(Seq(S)) /\ <<e>> \in Seq(S)
    BY <2>1, SinglesAppend
  <2>3. Flat(Singles(Append(s, e))) = Append(s, e)
    BY <2>1, <2>2, FlatAppend
  <2>. DEFINE u == Singles(s)
              v == <<e>>
  <2>4. u \in Seq(Seq(S)) /\ v \in Seq(S)
    BY <2>2
  <2>5. v \in T <=> e \in U
    OBVIOUS
  <2>6. Flat(Without(u, T)) = Without(s, U) /\ Singles(Append(s, e)) = Append(u, v)
    BY <2>1, <2>2
  <2>7. Without(s, U) \in Seq(S) /\ Without(u, T) \in Seq(Seq(S))
    BY <2>1, <2>4, WithoutType
  <2>8. Append(Without(s, U), e) = Without(s, U) \o v
    BY <2>7, AppendIsConcat
  <2>. HIDE DEF u, v
  <2>9. Flat(Without(Append(u, v), T)) = Without(Append(s, e), U)
    <3>1. CASE e \in U
      <4>1. Without(Append(u, v), T) = Without(u, T)
        BY <2>4, <2>5, <3>1, WithoutAppend
      <4>2. Without(Append(s, e), U) = Without(s, U)
        BY <2>1, <3>1, WithoutAppend
      <4>. QED
        BY <2>6, <4>1, <4>2
    <3>2. CASE e \notin U
      <4>1. Without(Append(u, v), T) = Append(Without(u, T), v)
        BY <2>4, <2>5, <3>2, WithoutAppend
      <4>2. Without(Append(s, e), U) = Append(Without(s, U), e)
        BY <2>1, <3>2, WithoutAppend
      <4>3. Flat(Append(Without(u, T), v)) = Flat(Without(u, T)) \o v
        BY <2>4, <2>7, FlatAppend
      <4>. QED
        BY <2>6, <2>8, <4>1, <4>2, <4>3
    <3>. QED
      BY <3>1, <3>2
  <2>10. Flat(Without(Singles(Append(s, e)), T)) = Without(Append(s, e), U)
    BY <2>6, <2>9
  <2>. QED
    BY <2>2, <2>3, <2>10
<1>3. X = Seq(S)
  <2>. HIDE DEF X
  <2>1. X \subseteq Seq(S)
    BY DEF X
  <2>. QED
    BY <1>1, <1>2, <2>1, SeqInduction
<1>. QED
  BY <1>3

(* Two chains in one.                                                      *)
LEMMA FlatConcat ==
  ASSUME NEW S, NEW c \in Seq(Seq(S))
  PROVE  \A e \in Seq(Seq(S)) : Flat(c \o e) = Flat(c) \o Flat(e)
<1>. DEFINE X == {e \in Seq(Seq(S)) : Flat(c \o e) = Flat(c) \o Flat(e)}
<1>1. <<>> \in X
  <2>1. Flat(c) \in Seq(S) /\ Flat(<<>>) = <<>> /\ c \o <<>> = c /\ <<>> \in Seq(Seq(S))
    BY FlatType, FlatAppend, ConcatEmptySeq, EmptySeq
  <2>2. Flat(c) \o <<>> = Flat(c)
    BY <2>1, ConcatEmptySeq
  <2>. QED
    BY <2>1, <2>2
<1>2. ASSUME NEW e \in X, NEW s \in Seq(S) PROVE Append(e, s) \in X
  <2>1. /\ e \in Seq(Seq(S)) /\ Flat(c \o e) = Flat(c) \o Flat(e)
        /\ Append(e, s) \in Seq(Seq(S)) /\ c \o e \in Seq(Seq(S)) /\ <<s>> \in Seq(Seq(S))
    BY AppendProperties, ConcatProperties
  <2>2. Flat(c) \in Seq(S) /\ Flat(e) \in Seq(S) /\ Flat(Append(e, s)) = Flat(e) \o s
        /\ Flat(Append(c \o e, s)) = Flat(c \o e) \o s
    BY <2>1, FlatType, FlatAppend
  <2>3. c \o Append(e, s) = Append(c \o e, s)
    <3>1. Append(e, s) = e \o <<s>> /\ Append(c \o e, s) = (c \o e) \o <<s>>
      BY <2>1, AppendIsConcat
    <3>. QED
      BY <2>1, <3>1, ConcatAssociative
  <2>4. (Flat(c) \o Flat(e)) \o s = Flat(c) \o (Flat(e) \o s)
    BY <2>2, ConcatAssociative
  <2>. QED
    BY <2>1, <2>2, <2>3, <2>4
<1>3. X = Seq(Seq(S))
  <2>. HIDE DEF X
  <2>1. X \subseteq Seq(Seq(S))
    BY DEF X
  <2>. QED
    BY <1>1, <1>2, <2>1, SeqInduction
<1>. QED
  BY <1>3

-----------------------------------------------------------------------------
(* Sequences without repetition.                                           *)
LEMMA OnceConcat ==
  ASSUME NEW S, NEW s \in Seq(S), NEW t \in Seq(S), Once(s), Once(t), Elements(s) \cap Elements(t) = {}
  PROVE  Once(s \o t)
<1>1. /\ s \o t \in Seq(S) /\ Len(s \o t) = Len(s) + Len(t)
      /\ \A i \in 1..Len(s) + Len(t) : (s \o t)[i] = IF i <= Len(s) THEN s[i] ELSE t[i - Len(s)]
      /\ Len(s) \in Nat /\ DOMAIN s = 1..Len(s) /\ Len(t) \in Nat /\ DOMAIN t = 1..Len(t)
  BY ConcatProperties, LenProperties
<1>2. DOMAIN (s \o t) = 1..(Len(s) + Len(t))
  BY <1>1, LenProperties
<1>. SUFFICES ASSUME NEW i \in 1..(Len(s) + Len(t)), NEW j \in 1..(Len(s) + Len(t)),
                     (s \o t)[i] = (s \o t)[j]
              PROVE  i = j
  BY <1>2 DEF Once
<1>3. CASE i <= Len(s) /\ j <= Len(s)
  BY <1>1, <1>3 DEF Once
<1>4. CASE ~(i <= Len(s)) /\ ~(j <= Len(s))
  <2>1. i - Len(s) \in DOMAIN t /\ j - Len(s) \in DOMAIN t /\ t[i - Len(s)] = t[j - Len(s)]
    BY <1>1, <1>4
  <2>2. i - Len(s) = j - Len(s)
    BY <2>1 DEF Once
  <2>. QED
    BY <1>1, <2>2
<1>5. CASE i <= Len(s) /\ ~(j <= Len(s))
  <2>1. i \in DOMAIN s /\ j - Len(s) \in DOMAIN t /\ s[i] = t[j - Len(s)]
    BY <1>1, <1>5
  <2>. QED
    BY <2>1 DEF Elements
<1>6. CASE ~(i <= Len(s)) /\ j <= Len(s)
  <2>1. j \in DOMAIN s /\ i - Len(s) \in DOMAIN t /\ s[j] = t[i - Len(s)]
    BY <1>1, <1>6
  <2>. QED
    BY <2>1 DEF Elements
<1>. QED
  BY <1>3, <1>4, <1>5, <1>6

(* Nothing, or one element, has no repetition.                             *)
LEMMA OnceFew ==
  ASSUME NEW e
  PROVE  Once(<<>>) /\ Once(<<e>>)
BY DEF Once

(* The kinds of pieces.                                                    *)
Texts == {p \in Pieces : Kind(p) = "text"}
Audio == {p \in Pieces : Kind(p) = "audio"}
Media == {p \in Pieces : Kind(p) \in {"image", "audio"}}
Tools == {p \in Pieces : Kind(p) = "tool"}
Talk == Pieces \ Tools

TextsOf(s) == Of({"text"}, s)
MediaOf(s) == Of({"image", "audio"}, s)
ToolsOf(s) == Of({"tool"}, s)
TalkOf(s) == Of({"text", "image", "audio"}, s)

(* Every piece is of one kind; the message about a failure is a text.      *)
LEMMA KindsAre ==
  ASSUME arranged \in Cases
  PROVE  /\ Talk = Texts \cup Media /\ Audio \subseteq Media
         /\ Texts \cap Media = {} /\ Texts \cap Tools = {} /\ Media \cap Tools = {}
         /\ Texts \cup Media \cup Tools = Pieces
         /\ Trouble \notin Pieces /\ Kind(Trouble) = "text"
<1>1. Trouble \notin Pieces /\ arranged.kind \in [Pieces -> {"text", "image", "audio", "tool"}]
  BY DeliveryAssumption
<1>2. \A p \in Pieces : Kind(p) = arranged.kind[p] /\ Kind(p) \in {"text", "image", "audio", "tool"}
  BY <1>1 DEF Kind
<1>. QED
  BY <1>1, <1>2 DEF Texts, Audio, Media, Tools, Talk, Kind

(* Only media can be unreadable.                                           *)
LEMMA UnreadableAre ==
  ASSUME arranged \in Cases
  PROVE  arranged.unreadable \subseteq Media /\ Texts \cap arranged.unreadable = {}
<1>1. /\ arranged.unreadable \subseteq Pieces /\ Trouble \notin Pieces
      /\ \A p \in arranged.unreadable : arranged.kind[p] \in {"image", "audio"}
  BY DeliveryAssumption
<1>2. arranged.unreadable \subseteq Media
  BY <1>1 DEF Media, Kind
<1>. QED
  BY <1>2, KindsAre

(* One filter of sequences keeps the pieces in K.                          *)
Filters(kinds, K) ==
  /\ \A s \in Payloads :
       /\ Of(kinds, s) \in Payloads
       /\ Elements(Of(kinds, s)) = Elements(s) \cap K
       /\ Elements(s) \cap K = {} => Of(kinds, s) = <<>>
       /\ Elements(s) \subseteq K => Of(kinds, s) = s
  /\ \A s, t \in Payloads : Of(kinds, s \o t) = Of(kinds, s) \o Of(kinds, t)

(* Of is a filter, whichever the kinds,                                    *)
LEMMA FilterIs ==
  ASSUME NEW kinds, NEW K, K = {p \in Pieces \cup {Trouble} : Kind(p) \in kinds}
  PROVE  Filters(kinds, K)
<1>. DEFINE T == {p \in Pieces \cup {Trouble} : Kind(p) \notin kinds}
<1>1. \A s : Of(kinds, s) = Without(s, T)
  BY DEF Of
<1>2. T = (Pieces \cup {Trouble}) \ K
  OBVIOUS
<1>. HIDE DEF T
<1>3. ASSUME NEW s \in Payloads
      PROVE  /\ Of(kinds, s) \in Payloads
             /\ Elements(Of(kinds, s)) = Elements(s) \cap K
             /\ Elements(s) \cap K = {} => Of(kinds, s) = <<>>
             /\ Elements(s) \subseteq K => Of(kinds, s) = s
  <2>1. s \in Seq(Pieces \cup {Trouble})
    BY DEF Payloads
  <2>2. /\ Without(s, T) \in Seq(Pieces \cup {Trouble})
        /\ Elements(Without(s, T)) = Elements(s) \ T
        /\ Elements(s) \cap T = {} => Without(s, T) = s
        /\ Elements(s) \subseteq T => Without(s, T) = <<>>
    BY <2>1, WithoutElements
  <2>3. Elements(s) \subseteq Pieces \cup {Trouble}
    BY <2>1, ElementsOf
  <2>. QED
    BY <1>1, <1>2, <2>2, <2>3 DEF Payloads
<1>4. ASSUME NEW s \in Payloads, NEW t \in Payloads
      PROVE  Of(kinds, s \o t) = Of(kinds, s) \o Of(kinds, t)
  <2>1. Without(s \o t, T) = Without(s, T) \o Without(t, T)
    <3>1. s \in Seq(Pieces \cup {Trouble}) /\ t \in Seq(Pieces \cup {Trouble})
      BY DEF Payloads
    <3>. QED
      BY ONLY <3>1, WithoutConcat
  <2>2. /\ Of(kinds, s \o t) = Without(s \o t, T)
        /\ Of(kinds, s) = Without(s, T) /\ Of(kinds, t) = Without(t, T)
    BY <1>1, Zenon
  <2>. QED
    BY ONLY <2>1, <2>2
<1>. QED
  BY <1>3, <1>4 DEF Filters

(* four of which are used.                                                 *)
LEMMA TheFilters ==
  ASSUME arranged \in Cases
  PROVE  /\ Filters({"text"}, Texts \cup {Trouble}) /\ Filters({"image", "audio"}, Media)
         /\ Filters({"tool"}, Tools) /\ Filters({"text", "image", "audio"}, Talk \cup {Trouble})
<1>1. /\ Texts \cup {Trouble} = {p \in Pieces \cup {Trouble} : Kind(p) \in {"text"}}
      /\ Media = {p \in Pieces \cup {Trouble} : Kind(p) \in {"image", "audio"}}
      /\ Tools = {p \in Pieces \cup {Trouble} : Kind(p) \in {"tool"}}
  BY KindsAre DEF Texts, Media, Tools
<1>2. Talk \cup {Trouble} = {p \in Pieces \cup {Trouble} : Kind(p) \in {"text", "image", "audio"}}
  BY KindsAre DEF Texts, Media, Tools
<1>. QED
  BY <1>1, <1>2, FilterIs

(* What they do: with texts,                                               *)
LEMMA TextsOfIs ==
  ASSUME arranged \in Cases, NEW s \in Payloads
  PROVE  /\ TextsOf(s) \in Payloads /\ Elements(TextsOf(s)) = Elements(s) \cap (Texts \cup {Trouble})
         /\ Elements(s) \cap (Texts \cup {Trouble}) = {} => TextsOf(s) = <<>>
         /\ Elements(s) \subseteq Texts \cup {Trouble} => TextsOf(s) = s
         /\ \A t \in Payloads : TextsOf(s \o t) = TextsOf(s) \o TextsOf(t)
BY TheFilters DEF Filters, TextsOf

(* with media,                                                             *)
LEMMA MediaOfIs ==
  ASSUME arranged \in Cases, NEW s \in Payloads
  PROVE  /\ MediaOf(s) \in Payloads /\ Elements(MediaOf(s)) = Elements(s) \cap Media
         /\ Elements(s) \cap Media = {} => MediaOf(s) = <<>>
         /\ Elements(s) \subseteq Media => MediaOf(s) = s
         /\ \A t \in Payloads : MediaOf(s \o t) = MediaOf(s) \o MediaOf(t)
BY TheFilters DEF Filters, MediaOf

(* with the results of tools,                                              *)
LEMMA ToolsOfIs ==
  ASSUME arranged \in Cases, NEW s \in Payloads
  PROVE  /\ ToolsOf(s) \in Payloads /\ Elements(ToolsOf(s)) = Elements(s) \cap Tools
         /\ Elements(s) \cap Tools = {} => ToolsOf(s) = <<>>
         /\ Elements(s) \subseteq Tools => ToolsOf(s) = s
         /\ \A t \in Payloads : ToolsOf(s \o t) = ToolsOf(s) \o ToolsOf(t)
BY TheFilters DEF Filters, ToolsOf

(* and with all but those.                                                 *)
LEMMA TalkOfIs ==
  ASSUME arranged \in Cases, NEW s \in Payloads
  PROVE  /\ TalkOf(s) \in Payloads /\ Elements(TalkOf(s)) = Elements(s) \cap (Talk \cup {Trouble})
         /\ Elements(s) \cap (Talk \cup {Trouble}) = {} => TalkOf(s) = <<>>
         /\ Elements(s) \subseteq Talk \cup {Trouble} => TalkOf(s) = s
         /\ \A t \in Payloads : TalkOf(s \o t) = TalkOf(s) \o TalkOf(t)
BY TheFilters DEF Filters, TalkOf

-----------------------------------------------------------------------------
(* Facts of sequences, for payloads and chains.                            *)
LEMMA PayloadJoins ==
  /\ \A x, y \in Payloads : x \o y \in Payloads
  /\ \A x, y, z \in Payloads : (x \o y) \o z = x \o (y \o z)
  /\ \A x \in Payloads : <<>> \o x = x /\ x \o <<>> = x
  /\ <<>> \in Payloads /\ Elements(<<>>) = {}
  /\ \A x \in Payloads : Elements(x) \subseteq Pieces \cup {Trouble} /\ (x # <<>> => Elements(x) # {})
  /\ \A x, y \in Payloads : Elements(x \o y) = Elements(x) \cup Elements(y)
BY Joins, ElementsOf DEF Payloads

(* A piece put last is a payload of one joined on.                         *)
LEMMA PieceJoins ==
  ASSUME NEW p \in Pieces \cup {Trouble}
  PROVE  /\ <<p>> \in Payloads /\ Elements(<<p>>) = {p} /\ <<p>> # <<>>
         /\ \A x \in Payloads : Append(x, p) \in Payloads /\ Append(x, p) = x \o <<p>>
                                /\ Elements(Append(x, p)) = Elements(x) \cup {p}
<1>1. /\ <<p>> \in Payloads /\ Elements(<<p>>) = {p} /\ <<p>> # <<>>
      /\ \A x \in Payloads : Elements(Append(x, p)) = Elements(x) \cup {p}
  BY ElementsOf DEF Payloads
<1>2. ASSUME NEW x \in Payloads
      PROVE  Append(x, p) \in Payloads /\ Append(x, p) = x \o <<p>>
  <2>1. x \in Seq(Pieces \cup {Trouble})
    BY DEF Payloads
  <2>2. Append(x, p) \in Seq(Pieces \cup {Trouble}) /\ Append(x, p) = x \o <<p>>
    BY <2>1, AppendProperties, AppendIsConcat
  <2>. QED
    BY <2>2 DEF Payloads
<1>. QED
  BY <1>1, <1>2

(* A chain of payloads, joined.                                            *)
LEMMA ChainJoins ==
  /\ Flat(<<>>) = <<>>
  /\ \A c \in Seq(Payloads) : /\ Flat(c) \in Payloads
                              /\ \A s \in Elements(c) : Elements(s) \subseteq Elements(Flat(c))
                              /\ c # <<>> => Flat(c) = Head(c) \o Flat(Tail(c))
  /\ \A c \in Seq(Payloads), s \in Payloads : Flat(Append(c, s)) = Flat(c) \o s
  /\ \A c, e \in Seq(Payloads) : Flat(c \o e) = Flat(c) \o Flat(e)
  /\ \A s \in Payloads : Singles(s) \in Seq(Payloads) /\ Flat(Singles(s)) = s
<1>1. Flat(<<>>) = <<>>
  BY FlatAppend
<1>2. ASSUME NEW c \in Seq(Payloads)
      PROVE  /\ Flat(c) \in Payloads
             /\ \A s \in Elements(c) : Elements(s) \subseteq Elements(Flat(c))
             /\ c # <<>> => Flat(c) = Head(c) \o Flat(Tail(c))
  <2>1. Elements(Flat(c)) = UNION {Elements(s) : s \in Elements(c)}
    BY FlatElements DEF Payloads
  <2>2. Flat(c) \in Payloads /\ (c # <<>> => Flat(c) = Head(c) \o Flat(Tail(c)))
    BY FlatType, FlatHead DEF Payloads
  <2>. QED
    BY <2>1, <2>2
<1>3. \A c \in Seq(Payloads), s \in Payloads : Flat(Append(c, s)) = Flat(c) \o s
  BY FlatAppend DEF Payloads
<1>4. \A c, e \in Seq(Payloads) : Flat(c \o e) = Flat(c) \o Flat(e)
  BY FlatConcat DEF Payloads
<1>5. \A s \in Payloads : Singles(s) \in Seq(Payloads) /\ Flat(Singles(s)) = s
  <2>. DEFINE S == Pieces \cup {Trouble}
              U == {}
  <2>1. \A e \in S : <<e>> \in U <=> e \in U
    OBVIOUS
  <2>. HIDE DEF S, U
  <2>2. \A s \in Seq(S) : Flat(Singles(s)) = s
    BY ONLY <2>1, FlatSingles
  <2>. QED
    BY <2>2, SinglesIs DEF Payloads, S
<1>. QED
  BY <1>1, <1>2, <1>3, <1>4, <1>5

Sent(q) == UNION {Elements(s) : s \in q.sent}
Spread(q) == Sent(q) \cup Elements(Flat(q.chain))
Line(q) == Flat(q.chain) \o q.buffer

(* What is in the pipeline: texts are coalesced, audio is held; and until  *)
(* a block times out every piece that was seen is in one place, X being    *)
(* those that an operator has in its hands, or is one of L, which a block  *)
(* that was lost may have taken with it.                                   *)
Placed(q, X, L) ==
  /\ Spread(q) \cup Elements(q.buffer) \cup Elements(q.held) \cup X \subseteq q.seen
  /\ q.seen \subseteq Spread(q) \cup Elements(q.buffer) \cup Elements(q.held) \cup X \cup L
  /\ Elements(q.buffer) \cap Spread(q) = {}
  /\ Elements(q.held) \cap Spread(q) = {}
  /\ X \cap (Spread(q) \cup Elements(q.buffer) \cup Elements(q.held)) = {}
  /\ Once(q.held)
  /\ q.streamed <=> q.sent # {}
Sifted(q, X, L) ==
  /\ GoodPipe(q)
  /\ Elements(q.buffer) \subseteq Texts /\ Elements(q.held) \subseteq Audio
  /\ Elements(Flat(q.chain)) \subseteq Talk /\ q.seen \subseteq Talk /\ X \subseteq Talk
  /\ \A s \in q.overdue : Elements(s) \subseteq Talk
  /\ q.overdue # {} => q.aborted
  /\ q.aborted => q.chain = <<>>
  /\ ~q.aborted => Placed(q, X, L)

(* An operator makes a of q: it adds x to the texts and m to the media on  *)
(* their way, and has seen N.                                              *)
Extends(q, a, x, m, N) ==
  /\ a.seen = q.seen \cup N
  /\ TextsOf(Line(a)) = TextsOf(Line(q)) \o x
  /\ MediaOf(Flat(a.chain)) = MediaOf(Flat(q.chain)) \o m
  /\ Once(m) /\ Elements(m) \cap Spread(q) = {}
Moves(q, a, x, m, N) ==
  /\ x \in Payloads /\ m \in Payloads
  /\ a.aborted = q.aborted /\ a.overdue = q.overdue /\ a.sent = q.sent /\ a.streamed = q.streamed
  /\ a.seen \subseteq q.seen \cup N
  /\ Elements(Flat(q.chain)) \subseteq Elements(Flat(a.chain))
  /\ ~q.aborted => Extends(q, a, x, m, N)

(* The fields of a pipeline.                                               *)
LEMMA PipeFields ==
  ASSUME NEW q, GoodPipe(q)
  PROVE  /\ q \in PipeRec /\ q.buffer \in Payloads /\ q.held \in Payloads /\ q.chain \in Seq(Payloads)
         /\ q.sent \subseteq Payloads /\ Flat(q.chain) \in Payloads /\ Line(q) \in Payloads
         /\ q.aborted \in BOOLEAN /\ q.streamed \in BOOLEAN
<1>1. /\ q \in PipeRec /\ q.buffer \in Payloads /\ q.held \in Payloads /\ q.chain \in Seq(Payloads)
      /\ q.sent \subseteq Payloads /\ q.aborted \in BOOLEAN /\ q.streamed \in BOOLEAN
  BY DEF GoodPipe, PipeRec
<1>2. Flat(q.chain) \in Payloads
  BY <1>1, ChainJoins
<1>. QED
  BY <1>1, <1>2, PayloadJoins DEF Line

(* Joining payloads is associative.                                        *)
LEMMA PayloadAssoc ==
  ASSUME NEW x \in Payloads, NEW y \in Payloads, NEW z \in Payloads
  PROVE  (x \o y) \o z = x \o (y \o z)
BY ConcatAssociative DEF Payloads

(* The pieces of two payloads joined are those of each.                    *)
LEMMA PayloadUnion ==
  ASSUME NEW x \in Payloads, NEW y \in Payloads
  PROVE  Elements(x \o y) = Elements(x) \cup Elements(y)
BY ElementsOf DEF Payloads

(* Moving twice is moving.                                                 *)
LEMMA MovesOn ==
  ASSUME arranged \in Cases, NEW q, NEW a, NEW b, GoodPipe(q), GoodPipe(a), GoodPipe(b),
         NEW x, NEW y, NEW m, NEW n, NEW N, NEW M,
         Moves(q, a, x, m, N), Moves(a, b, y, n, M)
  PROVE  Moves(q, b, x \o y, m \o n, N \cup M)
<1>1. x \in Payloads /\ y \in Payloads /\ m \in Payloads /\ n \in Payloads
  BY DEF Moves
<1>3. x \o y \in Payloads /\ m \o n \in Payloads
  BY <1>1, PayloadJoins
<1>2. ASSUME ~q.aborted PROVE Extends(q, b, x \o y, m \o n, N \cup M)
  <2>1. Extends(q, a, x, m, N) /\ Extends(a, b, y, n, M)
    BY <1>2 DEF Moves
  <2>2. /\ TextsOf(Line(q)) \in Payloads /\ MediaOf(Flat(q.chain)) \in Payloads
        /\ Flat(a.chain) \in Payloads
    BY PipeFields, TextsOfIs, MediaOfIs
  <2>3. TextsOf(Line(b)) = TextsOf(Line(q)) \o (x \o y)
    <3>1. TextsOf(Line(b)) = (TextsOf(Line(q)) \o x) \o y
      BY <2>1 DEF Extends
    <3>2. TextsOf(Line(q)) \in Payloads /\ x \in Payloads /\ y \in Payloads
      BY <1>1, <2>2
    <3>3. (TextsOf(Line(q)) \o x) \o y = TextsOf(Line(q)) \o (x \o y)
      BY <3>2, PayloadAssoc
    <3>. QED
      BY <3>1, <3>3
  <2>4. MediaOf(Flat(b.chain)) = MediaOf(Flat(q.chain)) \o (m \o n)
    <3>1. MediaOf(Flat(b.chain)) = (MediaOf(Flat(q.chain)) \o m) \o n
      BY <2>1 DEF Extends
    <3>2. MediaOf(Flat(q.chain)) \in Payloads /\ m \in Payloads /\ n \in Payloads
      BY <1>1, <2>2
    <3>3. (MediaOf(Flat(q.chain)) \o m) \o n = MediaOf(Flat(q.chain)) \o (m \o n)
      BY <3>2, PayloadAssoc
    <3>. QED
      BY <3>1, <3>3
  <2>5. Elements(m) \subseteq Elements(Flat(a.chain))
    <3>1. MediaOf(Flat(a.chain)) = MediaOf(Flat(q.chain)) \o m
      BY <2>1 DEF Extends
    <3>2. Elements(MediaOf(Flat(a.chain))) = Elements(MediaOf(Flat(q.chain))) \cup Elements(m)
      BY <1>1, <2>2, <3>1, PayloadJoins
    <3>3. Elements(MediaOf(Flat(a.chain))) \subseteq Elements(Flat(a.chain))
      BY <2>2, MediaOfIs
    <3>. QED
      BY <3>2, <3>3
  <2>6. Spread(q) \subseteq Spread(a)
    BY DEF Moves, Spread, Sent
  <2>7. Elements(m) \cap Elements(n) = {} /\ Elements(n) \cap Spread(q) = {}
    BY <2>1, <2>5, <2>6 DEF Extends, Spread
  <2>8. Once(m \o n)
    <3>1. /\ m \in Seq(Pieces \cup {Trouble}) /\ n \in Seq(Pieces \cup {Trouble}) /\ Once(m) /\ Once(n)
      BY <1>1, <2>1 DEF Extends, Payloads
    <3>. QED
      BY <2>7, <3>1, OnceConcat
  <2>9. Elements(m \o n) \cap Spread(q) = {}
    <3>1. Elements(m \o n) = Elements(m) \cup Elements(n)
      BY <1>1, PayloadJoins
    <3>. QED
      BY <2>1, <2>7, <3>1 DEF Extends
  <2>10. b.seen = q.seen \cup (N \cup M)
    BY <2>1 DEF Extends
  <2>. QED
    BY <2>3, <2>4, <2>8, <2>9, <2>10 DEF Extends
<1>. QED
  BY <1>2, <1>3 DEF Moves

(* What makes an operator's result a of q, if it sends s: the chain grows, *)
(* unless a block has timed out.                                           *)
Sends(q, a, s) ==
  /\ a.chain = IF q.aborted THEN q.chain ELSE Append(q.chain, s)
  /\ a.buffer = q.buffer /\ a.held = q.held /\ a.seen = q.seen /\ a.sent = q.sent
  /\ a.overdue = q.overdue /\ a.aborted = q.aborted /\ a.streamed = q.streamed

(* Pieces that are nowhere yet make a payload that is new.                 *)
LEMMA SendsNew ==
  ASSUME NEW q, GoodPipe(q), NEW s \in Payloads, s # <<>>,
         ~q.aborted => Elements(s) \cap Spread(q) = {}
  PROVE  Sends(q, SendPayload(q, s), s) /\ GoodPipe(SendPayload(q, s))
<1>1. GoodPipe(SendPayload(q, s))
  BY SendsPayload
<1>2. CASE q.aborted
  BY <1>1, <1>2 DEF Sends, SendPayload
<1>3. CASE ~q.aborted
  <2>1. Elements(s) # {}
    BY PayloadJoins
  <2>2. s \notin q.sent
    BY <1>3, <2>1 DEF Spread, Sent
  <2>3. s \notin Elements(q.chain)
    <3>1. \A t \in Elements(q.chain) : Elements(t) \subseteq Elements(Flat(q.chain))
      BY PipeFields, ChainJoins
    <3>. QED
      BY <1>3, <2>1, <3>1 DEF Spread
  <2>4. SendPayload(q, s) = [q EXCEPT !.chain = Append(q.chain, s)]
    BY <1>3, <2>2, <2>3 DEF SendPayload
  <2>. DEFINE c == Append(q.chain, s)
  <2>5. SendPayload(q, s) = [q EXCEPT !.chain = c] /\ q \in PipeRec
    BY <2>4, PipeFields
  <2>. HIDE DEF c
  <2>6. Sends(q, [q EXCEPT !.chain = c], s) <=> c = Append(q.chain, s)
    BY <1>3, <2>5 DEF PipeRec, Sends
  <2>. QED
    BY <1>1, <2>5, <2>6 DEF c
<1>. QED
  BY <1>2, <1>3

(* They are then on the chain,                                             *)
LEMMA SentOn ==
  ASSUME NEW q, GoodPipe(q), NEW s \in Payloads, NEW a, Sends(q, a, s), ~q.aborted
  PROVE  /\ Flat(a.chain) = Flat(q.chain) \o s
         /\ Elements(Flat(a.chain)) = Elements(Flat(q.chain)) \cup Elements(s)
         /\ Spread(a) = Spread(q) \cup Elements(s)
<1>1. q.chain \in Seq(Payloads) /\ Flat(q.chain) \in Payloads /\ a.chain = Append(q.chain, s)
  BY PipeFields DEF Sends
<1>2. Flat(a.chain) = Flat(q.chain) \o s
  BY <1>1, ChainJoins
<1>3. Elements(Flat(a.chain)) = Elements(Flat(q.chain)) \cup Elements(s)
  BY <1>1, <1>2, PayloadJoins
<1>. QED
  BY <1>2, <1>3 DEF Spread, Sent, Sends

(* and in no hands any more.                                               *)
LEMMA SendsSifted ==
  ASSUME NEW L, NEW q, NEW X, Sifted(q, X, L), NEW s \in Payloads, NEW a, Sends(q, a, s), GoodPipe(a),
         Elements(s) \subseteq X
  PROVE  Sifted(a, X \ Elements(s), L)
<1>1. ~q.aborted => /\ Elements(Flat(a.chain)) = Elements(Flat(q.chain)) \cup Elements(s)
                    /\ Spread(a) = Spread(q) \cup Elements(s)
  BY SentOn DEF Sifted
<1>2. CASE q.aborted
  BY <1>2 DEF Sifted, Sends
<1>3. CASE ~q.aborted
  <2>1. Placed(a, X \ Elements(s), L)
    BY <1>1, <1>3 DEF Sifted, Placed, Sends
  <2>. QED
    BY <1>1, <1>3, <2>1 DEF Sifted, Sends
<1>. QED
  BY <1>2, <1>3 DEF Sifted, GoodPipe, PipeRec

(* After an empty coalescer they are the last on their way.                *)
LEMMA SendsMove ==
  ASSUME arranged \in Cases, NEW q, GoodPipe(q), NEW s \in Payloads, NEW a, Sends(q, a, s), GoodPipe(a),
         q.buffer = <<>>, Once(MediaOf(s)), ~q.aborted => Elements(s) \cap Spread(q) = {}
  PROVE  Moves(q, a, TextsOf(s), MediaOf(s), {})
<1>1. /\ TextsOf(s) \in Payloads /\ MediaOf(s) \in Payloads
      /\ Elements(MediaOf(s)) \subseteq Elements(s)
  BY TextsOfIs, MediaOfIs
<1>2. ASSUME ~q.aborted
      PROVE  Extends(q, a, TextsOf(s), MediaOf(s), {}) /\ Elements(Flat(q.chain)) \subseteq Elements(Flat(a.chain))
  <2>1. /\ Flat(a.chain) = Flat(q.chain) \o s
        /\ Elements(Flat(a.chain)) = Elements(Flat(q.chain)) \cup Elements(s)
    BY <1>2, SentOn
  <2>2. Flat(q.chain) \in Payloads /\ Flat(a.chain) \in Payloads
    BY PipeFields
  <2>3. Line(a) = Flat(a.chain) /\ Line(q) = Flat(q.chain)
    BY <2>2, PayloadJoins DEF Line, Sends
  <2>4. TextsOf(Flat(q.chain) \o s) = TextsOf(Flat(q.chain)) \o TextsOf(s)
    BY <2>2, TextsOfIs
  <2>5. MediaOf(Flat(q.chain) \o s) = MediaOf(Flat(q.chain)) \o MediaOf(s)
    BY <2>2, MediaOfIs
  <2>. QED
    BY <1>1, <1>2, <2>1, <2>3, <2>4, <2>5 DEF Extends, Sends
<1>3. q.aborted => a.chain = q.chain
  BY DEF Sends
<1>. QED
  BY <1>1, <1>2, <1>3 DEF Moves, Sends

-----------------------------------------------------------------------------
(* The coalescer, emptied, has its texts in hand,                          *)
LEMMA EmptiedIs ==
  ASSUME NEW q, GoodPipe(q)
  PROVE  /\ GoodPipe(Emptied(q)) /\ Emptied(q).buffer = <<>> /\ ~Emptied(q).armed
         /\ Emptied(q).chain = q.chain /\ Emptied(q).held = q.held /\ Emptied(q).seen = q.seen
         /\ Emptied(q).sent = q.sent /\ Emptied(q).overdue = q.overdue
         /\ Emptied(q).aborted = q.aborted /\ Emptied(q).streamed = q.streamed
<1>1. q \in PipeRec /\ GoodPipe(Emptied(q)) /\ <<>> \in Payloads
  BY PipeFields, IsEmptied, PayloadFacts
<1>. QED
  BY <1>1 DEF PipeRec, Emptied

(* What was in its buffer is then in hand.                                 *)
LEMMA EmptiedSifted ==
  ASSUME arranged \in Cases, NEW L, NEW q, NEW X, Sifted(q, X, L)
  PROVE  Sifted(Emptied(q), X \cup Elements(q.buffer), L)
<1>. DEFINE a == Emptied(q)
<1>0. GoodPipe(q)
  BY DEF Sifted
<1>1. /\ GoodPipe(a) /\ a.buffer = <<>> /\ ~a.armed
      /\ a.chain = q.chain /\ a.held = q.held /\ a.seen = q.seen
      /\ a.sent = q.sent /\ a.overdue = q.overdue
      /\ a.aborted = q.aborted /\ a.streamed = q.streamed
  BY <1>0, EmptiedIs
<1>. HIDE DEF a
<1>2. Elements(<<>>) = {} /\ Texts \subseteq Talk /\ Audio \cap Texts = {}
  BY PayloadJoins, KindsAre
<1>3. Spread(a) = Spread(q)
  BY <1>1 DEF Spread, Sent
<1>4. ~a.aborted => Placed(a, X \cup Elements(q.buffer), L)
  BY <1>1, <1>2, <1>3 DEF Sifted, Placed
<1>5. Sifted(a, X \cup Elements(q.buffer), L)
  BY <1>1, <1>2, <1>4 DEF Sifted
<1>. QED
  BY <1>5 DEF a

(* Nothing is added to what stays where it is.                             *)
LEMMA Stays ==
  ASSUME arranged \in Cases, NEW q, NEW a, GoodPipe(q), GoodPipe(a),
         a.aborted = q.aborted, a.overdue = q.overdue, a.sent = q.sent, a.streamed = q.streamed,
         NEW N, a.seen = q.seen \cup N, Flat(a.chain) = Flat(q.chain), Line(a) = Line(q)
  PROVE  Moves(q, a, <<>>, <<>>, N)
<1>1. <<>> \in Payloads /\ Elements(<<>>) = {} /\ Once(<<>>)
  BY PayloadJoins, OnceFew
<1>2. TextsOf(Line(q)) \in Payloads /\ MediaOf(Flat(q.chain)) \in Payloads
  BY PipeFields, TextsOfIs, MediaOfIs
<1>3. TextsOf(Line(q)) \o <<>> = TextsOf(Line(q)) /\ MediaOf(Flat(q.chain)) \o <<>> = MediaOf(Flat(q.chain))
  BY <1>2, PayloadJoins
<1>. QED
  BY <1>1, <1>3 DEF Moves, Extends

(* Flushed, the coalescer sends its texts in their place.                  *)
LEMMA FlushTextMoves ==
  ASSUME arranged \in Cases, NEW L, NEW q, NEW X, Sifted(q, X, L), NEW a, a = FlushText(q)
  PROVE  /\ Sifted(a, X, L) /\ Moves(q, a, <<>>, <<>>, {})
         /\ a.buffer = <<>> /\ a.held = q.held
<1>. DEFINE b == Emptied(q)
<1>0. GoodPipe(q) /\ q.buffer \in Payloads /\ Elements(q.buffer) \subseteq Texts
  BY PipeFields DEF Sifted
<1>1. /\ GoodPipe(b) /\ b.buffer = <<>> /\ b.chain = q.chain /\ b.held = q.held /\ b.seen = q.seen
      /\ b.sent = q.sent /\ b.overdue = q.overdue /\ b.aborted = q.aborted /\ b.streamed = q.streamed
  BY <1>0, EmptiedIs
<1>2. Sifted(b, X \cup Elements(q.buffer), L)
  BY EmptiedSifted
<1>3. a = IF q.buffer = <<>> THEN b ELSE SendPayload(b, q.buffer)
  BY DEF FlushText
<1>4. GoodPipe(a)
  BY <1>0, FlushesText
<1>. HIDE DEF b
<1>5. CASE q.buffer = <<>>
  <2>1. a = b /\ Elements(q.buffer) = {}
    BY <1>3, <1>5, PayloadJoins
  <2>2. Line(a) = Line(q)
    BY <1>1, <1>5, <2>1 DEF Line
  <2>3. Moves(q, a, <<>>, <<>>, {})
    BY <1>0, <1>1, <1>4, <2>1, <2>2, Stays
  <2>. QED
    BY <1>1, <1>2, <2>1, <2>3
<1>6. CASE q.buffer # <<>>
  <2>0. Spread(b) = Spread(q)
    BY <1>1 DEF Spread, Sent
  <2>1. ~b.aborted => Elements(q.buffer) \cap Spread(b) = {} /\ X \cap Elements(q.buffer) = {}
    BY <1>1, <2>0 DEF Sifted, Placed
  <2>2. Sends(b, a, q.buffer)
    BY <1>0, <1>1, <1>3, <1>6, <2>1, SendsNew
  <2>3. Sifted(a, (X \cup Elements(q.buffer)) \ Elements(q.buffer), L)
    BY <1>0, <1>2, <1>4, <2>2, SendsSifted
  <2>4. a.buffer = <<>> /\ a.held = q.held /\ a.aborted = q.aborted
    BY <1>1, <2>2 DEF Sends
  <2>5. Sifted(a, X, L)
    <3>1. CASE q.aborted
      BY <2>3, <2>4, <3>1 DEF Sifted
    <3>2. CASE ~q.aborted
      <4>1. (X \cup Elements(q.buffer)) \ Elements(q.buffer) = X
        BY <1>1, <2>1, <3>2
      <4>. QED
        BY <2>3, <4>1
    <3>. QED
      BY <3>1, <3>2
  <2>6. ASSUME ~q.aborted
        PROVE  /\ Extends(q, a, <<>>, <<>>, {})
               /\ Elements(Flat(q.chain)) \subseteq Elements(Flat(a.chain))
    <3>1. /\ Flat(a.chain) = Flat(q.chain) \o q.buffer
          /\ Elements(Flat(a.chain)) = Elements(Flat(q.chain)) \cup Elements(q.buffer)
      <4>1. /\ Flat(a.chain) = Flat(b.chain) \o q.buffer
            /\ Elements(Flat(a.chain)) = Elements(Flat(b.chain)) \cup Elements(q.buffer)
        BY <1>0, <1>1, <2>2, <2>6, SentOn
      <4>. QED
        BY <1>1, <4>1
    <3>2. Flat(q.chain) \in Payloads /\ Flat(a.chain) \in Payloads /\ Line(q) \in Payloads
      BY <1>0, <1>4, PipeFields
    <3>3. Line(a) = Line(q)
      <4>1. Flat(a.chain) \o <<>> = Flat(a.chain)
        BY <3>2, PayloadJoins
      <4>. QED
        BY <2>4, <3>1, <4>1 DEF Line
    <3>4. MediaOf(Flat(a.chain)) = MediaOf(Flat(q.chain)) \o MediaOf(q.buffer)
      BY <1>0, <3>1, <3>2, MediaOfIs
    <3>5. MediaOf(q.buffer) = <<>>
      BY <1>0, MediaOfIs, KindsAre
    <3>6. TextsOf(Line(q)) \o <<>> = TextsOf(Line(q))
      BY <3>2, TextsOfIs, PayloadJoins
    <3>7. Once(<<>>) /\ Elements(<<>>) = {} /\ a.seen = q.seen
      BY <1>1, <2>2, OnceFew, PayloadJoins DEF Sends
    <3>. QED
      BY <3>1, <3>3, <3>4, <3>5, <3>6, <3>7 DEF Extends
  <2>7. Moves(q, a, <<>>, <<>>, {})
    BY <1>1, <2>2, <2>6, PayloadJoins DEF Moves, Sends
  <2>. QED
    BY <2>4, <2>5, <2>7
<1>. QED
  BY <1>5, <1>6

(* A text in hand is kept,                                                 *)
LEMMA KeepMoves ==
  ASSUME arranged \in Cases, NEW L, NEW q, NEW X, Sifted(q, X, L), NEW p \in Texts \cap X, ~q.aborted,
         NEW a, a = Keep(q, p)
  PROVE  Sifted(a, X \ {p}, L) /\ Moves(q, a, <<p>>, <<>>, {}) /\ a.held = q.held
<1>0. GoodPipe(q) /\ q \in PipeRec /\ q.buffer \in Payloads /\ p \in Pieces /\ Flat(q.chain) \in Payloads
      /\ q.chain \in Seq(Payloads)
  BY PipeFields DEF Sifted, Texts
<1>1. /\ Append(q.buffer, p) \in Payloads /\ Append(q.buffer, p) = q.buffer \o <<p>>
      /\ Elements(Append(q.buffer, p)) = Elements(q.buffer) \cup {p} /\ <<p>> \in Payloads
      /\ Elements(<<p>>) = {p}
  BY <1>0, PieceJoins
<1>2. GoodPipe(a)
  BY <1>0, Keeps
<1>3. /\ a.buffer = Append(q.buffer, p) /\ a.chain = q.chain /\ a.held = q.held /\ a.seen = q.seen
      /\ a.sent = q.sent /\ a.overdue = q.overdue /\ a.aborted = q.aborted /\ a.streamed = q.streamed
  BY <1>0, <1>1 DEF Keep, PipeRec
<1>4. Spread(a) = Spread(q)
  BY <1>3 DEF Spread, Sent
<1>5. Sifted(a, X \ {p}, L)
  <2>1. Placed(a, X \ {p}, L)
    BY <1>1, <1>3, <1>4 DEF Sifted, Placed
  <2>. QED
    BY <1>1, <1>2, <1>3, <2>1 DEF Sifted
<1>6. Extends(q, a, <<p>>, <<>>, {})
  <2>1. Line(a) = Flat(q.chain) \o (q.buffer \o <<p>>)
    BY <1>1, <1>3 DEF Line
  <2>2. (Flat(q.chain) \o q.buffer) \o <<p>> = Flat(q.chain) \o (q.buffer \o <<p>>)
    <3>1. Flat(q.chain) \in Payloads /\ q.buffer \in Payloads /\ <<p>> \in Payloads
      BY <1>0, <1>1
    <3>. QED
      BY <3>1, PayloadAssoc
  <2>3. Line(a) = Line(q) \o <<p>>
    BY <2>1, <2>2 DEF Line
  <2>4. TextsOf(Line(q) \o <<p>>) = TextsOf(Line(q)) \o TextsOf(<<p>>) /\ TextsOf(<<p>>) = <<p>>
    BY <1>0, <1>1, PipeFields, TextsOfIs
  <2>5. MediaOf(Flat(q.chain)) \o <<>> = MediaOf(Flat(q.chain))
    BY <1>0, MediaOfIs, PayloadJoins
  <2>6. Once(<<>>) /\ Elements(<<>>) = {}
    BY OnceFew, PayloadJoins
  <2>. QED
    BY <1>3, <2>3, <2>4, <2>5, <2>6 DEF Extends
<1>. QED
  BY <1>1, <1>3, <1>5, <1>6, PayloadJoins DEF Moves

(* seen, and then in the hands of an operator,                             *)
TakenUp(q, a, p, L) ==
  Sifted(a, {p}, L) /\ Moves(q, a, <<>>, <<>>, {p}) /\ a.buffer = q.buffer /\ a.held = q.held

LEMMA SeenMoves ==
  ASSUME arranged \in Cases, NEW L, NEW q, Sifted(q, {}, L), NEW p \in Talk, ~q.aborted => p \notin q.seen,
         NEW a, a = Seen(q, p)
  PROVE  TakenUp(q, a, p, L)
<1>0. GoodPipe(q) /\ q \in PipeRec /\ p \in Pieces
  BY PipeFields DEF Sifted, Talk
<1>1. GoodPipe(a)
  BY <1>0, IsSeen
<1>2. /\ a.buffer = q.buffer /\ a.chain = q.chain /\ a.held = q.held /\ a.seen = q.seen \cup {p}
      /\ a.sent = q.sent /\ a.overdue = q.overdue /\ a.aborted = q.aborted /\ a.streamed = q.streamed
  BY <1>0 DEF Seen, PipeRec
<1>3. Spread(a) = Spread(q) /\ Line(a) = Line(q)
  BY <1>2 DEF Spread, Sent, Line
<1>4. ~q.aborted => Placed(a, {p}, L)
  BY <1>2, <1>3 DEF Sifted, Placed
<1>5. Sifted(a, {p}, L)
  BY <1>1, <1>2, <1>4 DEF Sifted
<1>6. Moves(q, a, <<>>, <<>>, {p})
  BY <1>0, <1>1, <1>2, <1>3, Stays
<1>. QED
  BY <1>2, <1>5, <1>6 DEF TakenUp

(* or sent alone.                                                          *)
LEMMA SendMoves ==
  ASSUME arranged \in Cases, NEW L, NEW q, NEW X, Sifted(q, X, L), q.buffer = <<>>, NEW p \in X,
         NEW a, a = SendPayload(q, <<p>>)
  PROVE  /\ Sifted(a, X \ {p}, L) /\ Moves(q, a, TextsOf(<<p>>), MediaOf(<<p>>), {})
         /\ a.buffer = <<>> /\ a.held = q.held
<1>0. GoodPipe(q) /\ p \in Pieces
  BY DEF Sifted, Talk
<1>1. <<p>> \in Payloads /\ Elements(<<p>>) = {p} /\ <<p>> # <<>>
  BY <1>0, PieceJoins
<1>2. ~q.aborted => Elements(<<p>>) \cap Spread(q) = {}
  BY <1>1 DEF Sifted, Placed
<1>3. Sends(q, a, <<p>>) /\ GoodPipe(a)
  BY <1>0, <1>1, <1>2, SendsNew
<1>4. Sifted(a, X \ {p}, L)
  BY <1>1, <1>3, SendsSifted
<1>5. Once(MediaOf(<<p>>))
  <2>1. CASE p \in Media
    <3>1. Elements(<<p>>) \subseteq Media
      BY <1>1, <2>1
    <3>2. MediaOf(<<p>>) = <<p>>
      BY <1>1, <3>1, MediaOfIs
    <3>3. Once(<<p>>)
      BY OnceFew
    <3>. QED
      BY <3>2, <3>3
  <2>2. CASE p \notin Media
    <3>1. Elements(<<p>>) \cap Media = {}
      BY <1>1, <2>2
    <3>2. MediaOf(<<p>>) = <<>>
      BY <1>1, <3>1, MediaOfIs
    <3>3. Once(<<>>)
      BY OnceFew
    <3>. QED
      BY <3>2, <3>3
  <2>. QED
    BY <2>1, <2>2
<1>6. Moves(q, a, TextsOf(<<p>>), MediaOf(<<p>>), {})
  BY <1>0, <1>1, <1>2, <1>3, <1>5, SendsMove
<1>. QED
  BY <1>3, <1>4, <1>6 DEF Sends

(* Flushing the coalescer before or after makes no difference.             *)
LEMMA MovesPast ==
  ASSUME arranged \in Cases, NEW q, NEW a, NEW b, GoodPipe(q), GoodPipe(a), GoodPipe(b),
         NEW x, NEW m, NEW N, NEW M,
         \/ Moves(q, a, <<>>, <<>>, N) /\ Moves(a, b, x, m, M)
         \/ Moves(q, a, x, m, N) /\ Moves(a, b, <<>>, <<>>, M)
  PROVE  Moves(q, b, x, m, N \cup M)
<1>1. x \in Payloads /\ m \in Payloads
  BY DEF Moves
<1>2. <<>> \o x = x /\ x \o <<>> = x /\ <<>> \o m = m /\ m \o <<>> = m
  BY <1>1, PayloadJoins
<1>3. CASE Moves(q, a, <<>>, <<>>, N) /\ Moves(a, b, x, m, M)
  <2>1. Moves(q, b, <<>> \o x, <<>> \o m, N \cup M)
    BY <1>3, MovesOn
  <2>. QED
    BY <1>2, <2>1
<1>4. CASE Moves(q, a, x, m, N) /\ Moves(a, b, <<>>, <<>>, M)
  <2>1. Moves(q, b, x \o <<>>, m \o <<>>, N \cup M)
    BY <1>4, MovesOn
  <2>. QED
    BY <1>2, <2>1
<1>. QED
  BY <1>3, <1>4

(* A text alone.                                                           *)
LEMMA TextAlone ==
  ASSUME arranged \in Cases, NEW p \in Texts
  PROVE  <<p>> \in Payloads /\ Elements(<<p>>) = {p} /\ TextsOf(<<p>>) = <<p>> /\ MediaOf(<<p>>) = <<>> /\ ToolsOf(<<p>>) = <<>>
<1>1. <<p>> \in Payloads /\ Elements(<<p>>) = {p} /\ p \notin Media /\ p \notin Tools
  BY PieceJoins, KindsAre DEF Texts
<1>2. Elements(<<p>>) \subseteq Texts \cup {Trouble} /\ Elements(<<p>>) \cap Media = {} /\ Elements(<<p>>) \cap Tools = {}
  BY <1>1
<1>. QED
  BY <1>1, <1>2, TextsOfIs, MediaOfIs, ToolsOfIs

(* Coalesced, a text in hand comes last.                                   *)
LEMMA CoalesceMoves ==
  ASSUME arranged \in Cases, NEW L, NEW q, NEW p \in Texts, Sifted(q, {p}, L), ~q.aborted, NEW how \in Hows,
         NEW a, a = Coalesce(q, p, how)
  PROVE  Sifted(a, {}, L) /\ Moves(q, a, <<p>>, <<>>, {}) /\ a.held = q.held
<1>0. /\ TextsOf(<<p>>) = <<p>> /\ MediaOf(<<p>>) = <<>> /\ {p} \ {p} = {}
      /\ p \in Texts \cap {p} /\ {} \cup {} = {}
  BY TextAlone
<1>1. CASE how = "fits"
  <2>1. a = Keep(q, p)
    BY <1>1 DEF Coalesce
  <2>2. Sifted(a, {p} \ {p}, L) /\ Moves(q, a, <<p>>, <<>>, {}) /\ a.held = q.held
    BY <1>0, <2>1, KeepMoves
  <2>. QED
    BY <1>0, <2>2
<1>2. CASE how = "fills"
  <2>. DEFINE k == Keep(q, p)
  <2>1. a = FlushText(k)
    BY <1>2 DEF Coalesce
  <2>2. Sifted(k, {p} \ {p}, L) /\ Moves(q, k, <<p>>, <<>>, {}) /\ k.held = q.held
    BY <1>0, KeepMoves
  <2>. HIDE DEF k
  <2>3. Sifted(k, {}, L)
    BY <1>0, <2>2
  <2>4. Sifted(a, {}, L) /\ Moves(k, a, <<>>, <<>>, {}) /\ a.held = k.held
    BY <2>1, <2>3, FlushTextMoves
  <2>5. Moves(q, a, <<p>>, <<>>, {} \cup {})
    BY <2>2, <2>4, MovesPast DEF Sifted
  <2>. QED
    BY <1>0, <2>2, <2>4, <2>5
<1>3. CASE how = "overflows"
  <2>. DEFINE f == FlushText(q)
  <2>1. a = Keep(f, p)
    BY <1>3 DEF Coalesce
  <2>2. Sifted(f, {p}, L) /\ Moves(q, f, <<>>, <<>>, {}) /\ f.held = q.held
    BY FlushTextMoves
  <2>. HIDE DEF f
  <2>3. ~f.aborted
    BY <2>2 DEF Moves
  <2>4. Sifted(a, {p} \ {p}, L) /\ Moves(f, a, <<p>>, <<>>, {}) /\ a.held = f.held
    BY <1>0, <2>1, <2>2, <2>3, KeepMoves
  <2>5. Moves(q, a, <<p>>, <<>>, {} \cup {})
    BY <2>2, <2>4, MovesPast DEF Sifted
  <2>. QED
    BY <1>0, <2>2, <2>4, <2>5
<1>4. CASE how = "alone"
  <2>. DEFINE f == FlushText(q)
  <2>1. a = SendPayload(f, <<p>>)
    BY <1>4 DEF Coalesce
  <2>2. Sifted(f, {p}, L) /\ Moves(q, f, <<>>, <<>>, {}) /\ f.held = q.held /\ f.buffer = <<>>
    BY FlushTextMoves
  <2>. HIDE DEF f
  <2>3. Sifted(a, {p} \ {p}, L) /\ Moves(f, a, TextsOf(<<p>>), MediaOf(<<p>>), {}) /\ a.held = f.held
    BY <1>0, <2>1, <2>2, SendMoves
  <2>4. Moves(f, a, <<p>>, <<>>, {})
    BY <1>0, <2>3
  <2>5. Moves(q, a, <<p>>, <<>>, {} \cup {})
    BY <2>2, <2>3, <2>4, MovesPast DEF Sifted
  <2>. QED
    BY <1>0, <2>2, <2>3, <2>5
<1>. QED
  BY <1>1, <1>2, <1>3, <1>4 DEF Hows

(* A text is enqueued unless it was seen.                                  *)
LEMMA EnqueueTextMoves ==
  ASSUME arranged \in Cases, NEW L, NEW q, Sifted(q, {}, L), NEW p \in Texts, NEW how \in Hows,
         NEW a, a = EnqueueText(q, p, how)
  PROVE  /\ Sifted(a, {}, L) /\ Moves(q, a, IF p \in q.seen THEN <<>> ELSE <<p>>, <<>>, {p})
         /\ a.held = q.held
<1>0. GoodPipe(q) /\ <<p>> \in Payloads /\ <<>> \in Payloads /\ p \in Talk
  BY TextAlone, PayloadJoins, KindsAre DEF Sifted
<1>1. CASE q.aborted
  <2>1. a = q
    BY <1>1 DEF EnqueueText
  <2>. QED
    BY <1>0, <1>1, <2>1 DEF Moves
<1>2. CASE ~q.aborted /\ p \in q.seen
  <2>1. a = q
    BY <1>2 DEF EnqueueText, Known
  <2>2. q.seen = q.seen \cup {p}
    BY <1>2
  <2>3. Moves(q, a, <<>>, <<>>, {p})
    BY <1>0, <2>1, <2>2, Stays
  <2>. QED
    BY <1>2, <2>1, <2>3
<1>3. CASE ~q.aborted /\ p \notin q.seen
  <2>. DEFINE s == Seen(q, p)
  <2>0. s = Seen(q, p)
    OBVIOUS
  <2>1. a = Coalesce(s, p, how)
    BY <1>3 DEF EnqueueText, Known
  <2>. HIDE DEF s
  <2>a. TakenUp(q, s, p, L)
    BY <1>0, <1>3, <2>0, SeenMoves
  <2>2. Sifted(s, {p}, L) /\ Moves(q, s, <<>>, <<>>, {p}) /\ s.held = q.held
    BY <2>a DEF TakenUp
  <2>3. Sifted(s, {p}, L) /\ ~s.aborted /\ {p} \cup {} = {p}
    BY <1>3, <2>2 DEF Moves
  <2>4. Sifted(a, {}, L) /\ Moves(s, a, <<p>>, <<>>, {}) /\ a.held = s.held
    BY <2>1, <2>3, CoalesceMoves
  <2>5. Moves(q, a, <<p>>, <<>>, {p} \cup {})
    BY <2>2, <2>4, MovesPast DEF Sifted
  <2>. QED
    BY <1>3, <2>2, <2>3, <2>4, <2>5
<1>. QED
  BY <1>1, <1>2, <1>3

(* Media is held, or sent after the texts before it.                       *)
LEMMA EnqueueMediaMoves ==
  ASSUME arranged \in Cases, NEW L, NEW q, Sifted(q, {}, L), NEW p \in Media, NEW a, a = EnqueueMedia(q, p)
  PROVE  /\ Sifted(a, {}, L) /\ a.buffer \in {q.buffer, <<>>}
         /\ \E m : Moves(q, a, <<>>, m, {p})
<1>0. /\ GoodPipe(q) /\ <<p>> \in Payloads /\ Elements(<<p>>) = {p} /\ <<>> \in Payloads /\ p \in Talk
      /\ p \in Pieces /\ p \notin Texts
  BY PieceJoins, PayloadJoins, KindsAre DEF Sifted, Media
<1>a. {p} \cup {} = {p} /\ {} \cup {p} = {p} /\ {p} \ {p} = {}
  OBVIOUS
<1>b. \A f : f = FlushText(q) => /\ Sifted(f, {}, L) /\ Moves(q, f, <<>>, <<>>, {})
                                 /\ f.buffer = <<>> /\ f.held = q.held
  BY FlushTextMoves
<1>c. GoodPipe(a)
  BY <1>0, EnqueuesMedia
<1>1. CASE q.aborted
  <2>1. a = q
    BY <1>1 DEF EnqueueMedia
  <2>2. Moves(q, a, <<>>, <<>>, {p})
    BY <1>0, <1>1, <2>1 DEF Moves
  <2>. QED
    BY <2>1, <2>2
<1>2. CASE ~q.aborted /\ Kind(p) = "audio" /\ p \in q.seen
  <2>1. a = q /\ q.seen = q.seen \cup {p}
    BY <1>2 DEF EnqueueMedia, Known
  <2>2. Moves(q, a, <<>>, <<>>, {p})
    BY <1>0, <2>1, Stays
  <2>. QED
    BY <2>1, <2>2
<1>3. CASE ~q.aborted /\ Kind(p) = "audio" /\ p \notin q.seen
  <2>. DEFINE s == Seen(q, p)
              h == Append(s.held, p)
  <2>1. a = [s EXCEPT !.held = h]
    BY <1>3 DEF EnqueueMedia, Known
  <2>0. s = Seen(q, p)
    OBVIOUS
  <2>. HIDE DEF s
  <2>a. TakenUp(q, s, p, L)
    BY <1>0, <1>3, <2>0, SeenMoves
  <2>2. Sifted(s, {p}, L) /\ Moves(q, s, <<>>, <<>>, {p}) /\ s.buffer = q.buffer
    BY <2>a DEF TakenUp
  <2>3. Sifted(s, {p}, L)
    BY <2>2
  <2>4. s \in PipeRec /\ s.held \in Payloads /\ GoodPipe(s) /\ ~s.aborted
    BY <1>3, <2>2, PipeFields DEF Sifted, Moves
  <2>5. h \in Payloads /\ h = s.held \o <<p>> /\ Elements(h) = Elements(s.held) \cup {p}
    BY <1>0, <2>4, PieceJoins
  <2>6. /\ a.buffer = s.buffer /\ a.chain = s.chain /\ a.held = h /\ a.seen = s.seen
        /\ a.sent = s.sent /\ a.overdue = s.overdue /\ a.aborted = s.aborted /\ a.streamed = s.streamed
    <3>. HIDE DEF h
    <3>. QED
      BY <2>1, <2>4 DEF PipeRec
  <2>7. Once(h)
    <3>1. s.held \in Seq(Pieces \cup {Trouble}) /\ <<p>> \in Seq(Pieces \cup {Trouble})
      BY <1>0, <2>4 DEF Payloads
    <3>2. Once(s.held) /\ Elements(s.held) \cap Elements(<<p>>) = {}
      BY <1>0, <2>3, <2>4 DEF Sifted, Placed
    <3>3. Once(<<p>>)
      BY OnceFew
    <3>4. Once(s.held \o <<p>>)
      BY <3>1, <3>2, <3>3, OnceConcat
    <3>. QED
      BY <2>5, <3>4
  <2>. HIDE DEF h
  <2>8. Spread(a) = Spread(s) /\ Line(a) = Line(s) /\ Flat(a.chain) = Flat(s.chain)
    BY <2>6 DEF Spread, Sent, Line
  <2>9. p \in Audio
    BY <1>0, <1>3 DEF Audio
  <2>10. Placed(a, {}, L)
    BY <2>3, <2>4, <2>5, <2>6, <2>7, <2>8 DEF Sifted, Placed
  <2>11. Sifted(a, {}, L)
    BY <1>c, <2>3, <2>5, <2>6, <2>9, <2>10 DEF Sifted
  <2>12. a.seen = s.seen \cup {}
    BY <2>6
  <2>13. Moves(s, a, <<>>, <<>>, {})
    BY <1>c, <2>4, <2>6, <2>8, <2>12, Stays
  <2>14. Moves(q, a, <<>>, <<>>, {p} \cup {})
    BY <1>0, <1>c, <2>2, <2>4, <2>13, MovesPast
  <2>. QED
    BY <1>a, <2>2, <2>6, <2>11, <2>14
<1>4. CASE ~q.aborted /\ Kind(p) # "audio" /\ p \in q.seen
  <2>1. a = FlushText(q)
    BY <1>4 DEF EnqueueMedia, Known
  <2>2. Sifted(a, {}, L) /\ Moves(q, a, <<>>, <<>>, {}) /\ a.buffer = <<>>
    BY <1>b, <2>1
  <2>3. Moves(q, a, <<>>, <<>>, {p})
    <3>1. q.seen \cup {p} = q.seen /\ q.seen \cup {} = q.seen
      BY <1>4
    <3>. QED
      BY <2>2, <3>1 DEF Moves, Extends
  <2>. QED
    BY <2>2, <2>3
<1>5. CASE ~q.aborted /\ Kind(p) # "audio" /\ p \notin q.seen
  <2>. DEFINE f == FlushText(q)
              s == Seen(f, p)
  <2>1. a = SendPayload(s, <<p>>)
    BY <1>5 DEF EnqueueMedia, Known
  <2>2. Sifted(f, {}, L) /\ Moves(q, f, <<>>, <<>>, {}) /\ f.buffer = <<>>
    BY <1>b
  <2>a. s = Seen(f, p)
    OBVIOUS
  <2>. HIDE DEF s, f
  <2>b. p \notin f.seen
    BY <1>5, <2>2 DEF Moves
  <2>c. TakenUp(f, s, p, L)
    BY <1>0, <2>2, <2>a, <2>b, SeenMoves
  <2>3. Sifted(s, {p}, L) /\ Moves(f, s, <<>>, <<>>, {p}) /\ s.buffer = f.buffer
    BY <2>c DEF TakenUp
  <2>4. Sifted(s, {p}, L) /\ p \in {p} /\ s.buffer = <<>>
    BY <1>a, <2>2, <2>3
  <2>5. Sifted(a, {p} \ {p}, L) /\ Moves(s, a, TextsOf(<<p>>), MediaOf(<<p>>), {}) /\ a.buffer = <<>>
    BY <2>1, <2>4, SendMoves
  <2>6. TextsOf(<<p>>) = <<>>
    <3>1. Elements(<<p>>) \cap (Texts \cup {Trouble}) = {}
      BY <1>0, KindsAre
    <3>. QED
      BY <1>0, <3>1, TextsOfIs
  <2>7. GoodPipe(f) /\ GoodPipe(s)
    BY <2>2, <2>3 DEF Sifted
  <2>8. Moves(q, s, <<>>, <<>>, {} \cup {p})
    BY <1>0, <2>2, <2>3, <2>7, MovesPast
  <2>9. Moves(s, a, <<>>, MediaOf(<<p>>), {})
    BY <2>5, <2>6
  <2>10. Moves(q, a, <<>>, MediaOf(<<p>>), ({} \cup {p}) \cup {})
    BY <1>0, <1>c, <2>7, <2>8, <2>9, MovesPast
  <2>. QED
    BY <1>a, <2>5, <2>10
<1>. QED
  BY <1>1, <1>2, <1>3, <1>4, <1>5

(* What was held goes out, a payload a piece,                              *)
LEMMA SendHeldMoves ==
  ASSUME arranged \in Cases, NEW L, NEW q, Sifted(q, {}, L), q.buffer = <<>>, NEW a, a = SendHeld(q)
  PROVE  /\ Sifted(a, {}, L) /\ a.buffer = <<>> /\ a.held = <<>>
         /\ \E m : Moves(q, a, <<>>, m, {})
<1>. DEFINE c == IF q.aborted THEN q.chain ELSE q.chain \o Singles(q.held)
<1>0. /\ GoodPipe(q) /\ q \in PipeRec /\ q.chain \in Seq(Payloads) /\ q.held \in Payloads
      /\ Flat(q.chain) \in Payloads
  BY PipeFields DEF Sifted
<1>1. GoodPipe(a)
  BY <1>0, SendsHeld
<1>2. /\ a.chain = c /\ a.held = <<>> /\ a.buffer = q.buffer /\ a.seen = q.seen
      /\ a.sent = q.sent /\ a.overdue = q.overdue /\ a.aborted = q.aborted /\ a.streamed = q.streamed
  <2>1. Singles(q.held) = [i \in DOMAIN q.held |-> <<q.held[i]>>]
    BY DEF Singles
  <2>2. a = IF q.aborted THEN [q EXCEPT !.held = <<>>] ELSE [q EXCEPT !.chain = c, !.held = <<>>]
    BY <2>1 DEF SendHeld
  <2>. HIDE DEF c
  <2>3. q.aborted => c = q.chain
    BY DEF c
  <2>4. CASE q.aborted
    BY <1>0, <2>2, <2>3, <2>4 DEF PipeRec
  <2>5. CASE ~q.aborted
    BY <1>0, <2>2, <2>5 DEF PipeRec
  <2>. QED
    BY <2>4, <2>5
<1>3. <<>> \in Payloads /\ Elements(<<>>) = {} /\ Once(<<>>)
  BY PayloadJoins, OnceFew
<1>4. CASE q.aborted
  <2>1. Sifted(a, {}, L)
    BY <1>1, <1>2, <1>3, <1>4 DEF Sifted
  <2>2. Moves(q, a, <<>>, <<>>, {})
    BY <1>2, <1>3, <1>4 DEF Moves
  <2>. QED
    BY <1>2, <2>1, <2>2
<1>5. CASE ~q.aborted
  <2>1. Flat(c) = Flat(q.chain) \o q.held
    <3>1. Singles(q.held) \in Seq(Payloads) /\ Flat(Singles(q.held)) = q.held
      BY <1>0, ChainJoins
    <3>2. Flat(q.chain \o Singles(q.held)) = Flat(q.chain) \o Flat(Singles(q.held))
      BY <1>0, <3>1, ChainJoins
    <3>. QED
      BY <1>5, <3>1, <3>2
  <2>2. Elements(Flat(c)) = Elements(Flat(q.chain)) \cup Elements(q.held)
    <3>1. Flat(q.chain) \in Payloads /\ q.held \in Payloads
      BY <1>0
    <3>. QED
      BY <2>1, <3>1, PayloadUnion
  <2>. HIDE DEF c
  <2>3. Spread(a) = Spread(q) \cup Elements(q.held)
    BY <1>2, <2>2 DEF Spread, Sent
  <2>4. Placed(a, {}, L)
    BY <1>2, <1>3, <1>5, <2>3 DEF Sifted, Placed
  <2>5. Audio \subseteq Talk /\ Audio \subseteq Media /\ Media \cap (Texts \cup {Trouble}) = {}
    BY KindsAre DEF Media
  <2>6. Sifted(a, {}, L)
    BY <1>1, <1>2, <1>3, <1>5, <2>2, <2>4, <2>5 DEF Sifted
  <2>7. TextsOf(q.held) = <<>> /\ MediaOf(q.held) = q.held
    <3>1. Elements(q.held) \subseteq Media /\ Elements(q.held) \cap (Texts \cup {Trouble}) = {}
      BY <2>5 DEF Sifted
    <3>. QED
      BY <1>0, <3>1, TextsOfIs, MediaOfIs
  <2>8. MediaOf(Flat(a.chain)) = MediaOf(Flat(q.chain)) \o q.held
    <3>1. MediaOf(Flat(q.chain) \o q.held) = MediaOf(Flat(q.chain)) \o MediaOf(q.held)
      BY <1>0, MediaOfIs
    <3>. QED
      BY <1>2, <2>1, <2>7, <3>1
  <2>9. TextsOf(Line(a)) = TextsOf(Line(q)) \o <<>>
    <3>1. TextsOf(Flat(q.chain) \o q.held) = TextsOf(Flat(q.chain)) \o TextsOf(q.held)
      BY <1>0, TextsOfIs
    <3>2. Line(a) = Flat(a.chain) /\ Line(q) = Flat(q.chain)
      <4>1. Flat(a.chain) \in Payloads
        BY <1>1, PipeFields
      <4>. QED
        BY <1>0, <1>2, <4>1, PayloadJoins DEF Line
    <3>. QED
      BY <1>2, <2>1, <2>7, <3>1, <3>2
  <2>10. Once(q.held) /\ Elements(q.held) \cap Spread(q) = {}
    BY <1>5 DEF Sifted, Placed
  <2>11. a.seen = q.seen \cup {}
    BY <1>2
  <2>12. Moves(q, a, <<>>, q.held, {})
    BY <1>0, <1>2, <1>3, <2>2, <2>8, <2>9, <2>10, <2>11 DEF Moves, Extends
  <2>. QED
    BY <1>2, <2>6, <2>12
<1>. QED
  BY <1>4, <1>5

(* and a flush leaves nothing behind.                                      *)
LEMMA FlushMoves ==
  ASSUME arranged \in Cases, NEW L, NEW q, Sifted(q, {}, L), NEW a, a = Flush(q)
  PROVE  /\ Sifted(a, {}, L) /\ a.buffer = <<>> /\ a.held = <<>>
         /\ \E m : Moves(q, a, <<>>, m, {})
<1>. DEFINE f == FlushText(q)
            h == SendHeld(f)
<1>1. Sifted(f, {}, L) /\ Moves(q, f, <<>>, <<>>, {}) /\ f.buffer = <<>>
  BY FlushTextMoves
<1>2. Sifted(h, {}, L) /\ h.buffer = <<>> /\ h.held = <<>> /\ \E m : Moves(f, h, <<>>, m, {})
  <2>. HIDE DEF f
  <2>. QED
    BY <1>1, SendHeldMoves
<1>3. a = [h EXCEPT !.awaited = Len(h.chain)]
  BY DEF Flush
<1>4. GoodPipe(a)
  BY Flushes DEF Sifted
<1>. HIDE DEF f, h
<1>5. PICK m : Moves(f, h, <<>>, m, {})
  BY <1>2
<1>6. {} \cup {} = {} /\ GoodPipe(q) /\ GoodPipe(f) /\ GoodPipe(h)
  BY <1>1, <1>2 DEF Sifted
<1>7. Moves(q, h, <<>>, m, {} \cup {})
  BY <1>1, <1>5, <1>6, MovesPast
<1>8. /\ a.chain = h.chain /\ a.held = h.held /\ a.buffer = h.buffer /\ a.seen = h.seen
      /\ a.sent = h.sent /\ a.overdue = h.overdue /\ a.aborted = h.aborted /\ a.streamed = h.streamed
  BY <1>3, <1>6 DEF GoodPipe, PipeRec
<1>9. Spread(a) = Spread(h) /\ Line(a) = Line(h)
  BY <1>8 DEF Spread, Sent, Line
<1>10. Sifted(a, {}, L)
  BY <1>2, <1>4, <1>8, <1>9 DEF Sifted, Placed
<1>11. Moves(q, a, <<>>, m, {})
  BY <1>6, <1>7, <1>8, <1>9 DEF Moves, Extends
<1>. QED
  BY <1>2, <1>8, <1>10, <1>11

(* What the channel is given: heard, or on the dispatcher's chain.         *)
Given(o, h) == h \o Flat(o.chain)
Answered(r) == r.stage \in {"answering", "complete"}
Gone(r) == IF "block" \in r.lost THEN Pieces ELSE {}
Spoken(r) == r.stage \in {"flushing", "settling", "answering", "complete"}

(* Kinds, and what was said; the result of a tool is a tool's.             *)
Sorted(d, r, q) ==
  /\ Elements(r.final) \subseteq Talk /\ Elements(r.tools) \subseteq Tools /\ r.staging \subseteq Media
  /\ Elements(Flat(r.finals)) \subseteq Talk \cup {Trouble}
  /\ Elements(r.final) \subseteq Elements(r.said)
  /\ q.seen \subseteq Elements(r.said) /\ r.staging \subseteq Elements(r.said)
  /\ q.seen \cap arranged.unreadable = {}
  /\ r.stage = "tool" => Script(d)[r.at] \in Tools

(* Nothing was said before the run.                                        *)
Fresh(r, q, o, h) ==
  r.stage \in {"none", "arrived"} =>
    /\ r.final = <<>> /\ r.said = <<>> /\ r.tools = <<>> /\ r.staging = {} /\ ~r.failed
    /\ q.buffer = <<>> /\ q.held = <<>> /\ q.seen = {} /\ q.sent = {} /\ ~q.streamed

(* The last flush leaves nothing behind, but what comes late.              *)
Over(r, q) ==
  /\ r.stage # "answering" => r.finals = <<>>
  /\ ~r.failed /\ Spoken(r) => q.buffer = <<>> /\ (~r.late => q.held = <<>> /\ r.staging = {})

(* Without block streaming there is no pipeline.                           *)
Idles(r, q) ==
  ~arranged.streaming =>
    /\ q.buffer = <<>> /\ q.held = <<>> /\ q.chain = <<>> /\ q.sent = {}
    /\ ~q.streamed /\ ~q.aborted /\ r.staging = {}

(* As long as the stream goes on and nothing of it was lost, the texts are *)
(* on their way as they were said, the media once.                         *)
InStream(r, q) ==
  arranged.streaming /\ ~q.aborted /\ ~r.failed /\ (r.late => ~Answered(r)) /\ "block" \notin r.lost
TextsFlow(r, q, o, h) == TextsOf(Given(o, h) \o Line(q)) = TextsOf(r.said)
MediaFlow(q, o, h) == Once(MediaOf(Given(o, h) \o Flat(q.chain)))
Reached(r, q, o, h) ==
  /\ Elements(r.said) \cap Texts \subseteq q.seen
  /\ (Elements(r.said) \cap Talk) \ arranged.unreadable \subseteq q.seen \cup r.staging
  /\ Elements(Given(o, h)) \cap Talk = Sent(q)
  /\ r.finals = <<>>
Streaming(r, q, o, h) ==
  InStream(r, q) => TextsFlow(r, q, o, h) /\ MediaFlow(q, o, h) /\ Reached(r, q, o, h)

(* The results of tools come as they ended,                                *)
ToolsKept(r, o, h) == "tool" \in r.lost \/ ToolsOf(Given(o, h) \o r.tools) = ToolsOf(r.said)

(* without streaming only the final answer is said,                        *)
AnswerKept(r, o, h) ==
  ~arranged.streaming /\ ~r.failed =>
    TalkOf(Given(o, h) \o Flat(r.finals)) = IF Answered(r) THEN Without(r.final, arranged.unreadable) ELSE <<>>

(* and with it what was not streamed of it; all of it, if nothing was,     *)
(* whatever becomes of the blocks that come late.                          *)
Readable(r) == Elements(r.final) \ arranged.unreadable
Missed(r, q) == "block" \in r.lost /\ q.streamed /\ ~q.aborted
FinalKept(r, q, o, h) ==
  /\ Sent(q) \subseteq Elements(Given(o, h))
  /\ Answered(r) /\ ~r.failed /\ ~q.streamed /\ ~q.aborted =>
       Readable(r) \subseteq Elements(Given(o, h)) \cup Elements(Flat(r.finals))
  /\ Answered(r) /\ ~r.failed /\ ~Missed(r, q) /\ (r.late => ~q.aborted /\ Elements(r.final) \cap Audio = {}) =>
       Readable(r) \subseteq Elements(Given(o, h)) \cup Elements(Flat(r.finals))
                               \cup Elements(Flat(q.chain)) \cup r.staging

Told(d, r, q, o, h) ==
  /\ Sifted(q, {}, Gone(r)) /\ Sorted(d, r, q) /\ Fresh(r, q, o, h) /\ Over(r, q) /\ Idles(r, q)
  /\ ~o.failed =>
       /\ Streaming(r, q, o, h) /\ ToolsKept(r, o, h)
       /\ AnswerKept(r, o, h) /\ FinalKept(r, q, o, h)

HearInv == \A d \in Replies : Told(d, run[d], pipe[d], out[d], heard[d])

(* The fields of a run,                                                    *)
LEMMA RunFields ==
  ASSUME NEW r \in RunRec
  PROVE  /\ r.final \in Payloads /\ r.said \in Payloads /\ r.tools \in Payloads
         /\ r.finals \in Seq(Payloads) /\ Flat(r.finals) \in Payloads /\ r.stage \in Stages
         /\ r.failed \in BOOLEAN /\ r.late \in BOOLEAN
<1>1. /\ r.final \in Payloads /\ r.said \in Payloads /\ r.tools \in Payloads /\ r.finals \in Seq(Payloads)
      /\ r.stage \in Stages /\ r.failed \in BOOLEAN /\ r.late \in BOOLEAN
  BY DEF RunRec
<1>. QED
  BY <1>1, ChainJoins

(* and what is given, and given next.                                      *)
LEMMA GivenIs ==
  ASSUME NEW o, GoodOut(o), NEW h \in Payloads
  PROVE  /\ Given(o, h) \in Payloads /\ o.chain \in Seq(Payloads) /\ Flat(o.chain) \in Payloads
         /\ o \in OutRec
<1>1. o.chain \in Seq(Payloads) /\ o \in OutRec
  BY DEF GoodOut, OutRec
<1>2. Flat(o.chain) \in Payloads
  BY <1>1, ChainJoins
<1>. QED
  BY <1>1, <1>2, PayloadJoins DEF Given

(* What is enqueued with the dispatcher is given, last.                    *)
LEMMA Gives ==
  ASSUME NEW o, GoodOut(o), NEW h \in Payloads, NEW s \in Payloads
  PROVE  /\ GoodOut(Enqueued(o, s)) /\ Given(Enqueued(o, s), h) = Given(o, h) \o s
         /\ Given(Enqueued(o, s), h) \in Payloads
         /\ Elements(Given(Enqueued(o, s), h)) = Elements(Given(o, h)) \cup Elements(s)
         /\ Enqueued(o, s).failed = o.failed
<1>1. GoodOut(Enqueued(o, s))
  BY IsEnqueued
<1>2. o.chain \in Seq(Payloads) /\ Flat(o.chain) \in Payloads /\ Given(o, h) \in Payloads /\ o \in OutRec
  BY GivenIs
<1>3. Enqueued(o, s).chain = Append(o.chain, s) /\ Enqueued(o, s).failed = o.failed
  BY <1>2 DEF Enqueued, OutRec
<1>4. Flat(Append(o.chain, s)) = Flat(o.chain) \o s
  BY <1>2, ChainJoins
<1>5. (h \o Flat(o.chain)) \o s = h \o (Flat(o.chain) \o s)
  <2>1. h \in Payloads /\ Flat(o.chain) \in Payloads /\ s \in Payloads
    BY <1>2
  <2>. QED
    BY <2>1, PayloadAssoc
<1>6. Given(Enqueued(o, s), h) = Given(o, h) \o s
  BY <1>3, <1>4, <1>5 DEF Given
<1>. QED
  BY <1>1, <1>2, <1>3, <1>6, PayloadJoins

(* The dispatcher matters only for its chain, and whether a send failed.   *)
LEMMA ToldOut ==
  ASSUME NEW d, NEW r, NEW q, NEW o, NEW h, Told(d, r, q, o, h),
         NEW a, a.chain = o.chain, a.failed = o.failed
  PROVE  Told(d, r, q, a, h)
<1>1. Given(a, h) = Given(o, h)
  BY DEF Given
<1>. QED
  BY <1>1 DEF Told, Fresh, Streaming, TextsFlow, MediaFlow, Reached, ToolsKept, AnswerKept, FinalKept

(* When the pipeline moves, so do the texts and the media on their way.    *)
LEMMA FlowMoves ==
  ASSUME arranged \in Cases, NEW q, NEW a, GoodPipe(q), GoodPipe(a), ~q.aborted,
         NEW x, NEW m, NEW N, Moves(q, a, x, m, N),
         NEW g \in Payloads, Elements(g) \cap Talk \subseteq Sent(q), Once(MediaOf(g \o Flat(q.chain)))
  PROVE  /\ TextsOf(g \o Line(a)) = TextsOf(g \o Line(q)) \o x
         /\ Once(MediaOf(g \o Flat(a.chain)))
<1>1. /\ Line(q) \in Payloads /\ Line(a) \in Payloads /\ Flat(q.chain) \in Payloads /\ Flat(a.chain) \in Payloads
  BY PipeFields
<1>2. /\ TextsOf(g) \in Payloads /\ TextsOf(Line(q)) \in Payloads /\ x \in Payloads
      /\ MediaOf(g) \in Payloads /\ MediaOf(Flat(q.chain)) \in Payloads /\ m \in Payloads
  BY <1>1, TextsOfIs, MediaOfIs DEF Moves
<1>3. /\ TextsOf(Line(a)) = TextsOf(Line(q)) \o x
      /\ MediaOf(Flat(a.chain)) = MediaOf(Flat(q.chain)) \o m
      /\ Once(m) /\ Elements(m) \cap Spread(q) = {}
  BY DEF Moves, Extends
<1>4. TextsOf(g \o Line(a)) = TextsOf(g \o Line(q)) \o x
  <2>1. /\ TextsOf(g \o Line(a)) = TextsOf(g) \o TextsOf(Line(a))
        /\ TextsOf(g \o Line(q)) = TextsOf(g) \o TextsOf(Line(q))
    BY <1>1, TextsOfIs
  <2>2. TextsOf(g) \in Payloads /\ TextsOf(Line(q)) \in Payloads /\ x \in Payloads
    BY <1>2
  <2>3. (TextsOf(g) \o TextsOf(Line(q))) \o x = TextsOf(g) \o (TextsOf(Line(q)) \o x)
    BY <2>2, PayloadAssoc
  <2>. QED
    BY <1>3, <2>1, <2>3
<1>5. Once(MediaOf(g \o Flat(a.chain)))
  <2>1. /\ MediaOf(g \o Flat(a.chain)) = MediaOf(g) \o MediaOf(Flat(a.chain))
        /\ MediaOf(g \o Flat(q.chain)) = MediaOf(g) \o MediaOf(Flat(q.chain))
    BY <1>1, MediaOfIs
  <2>2. MediaOf(g) \in Payloads /\ MediaOf(Flat(q.chain)) \in Payloads /\ m \in Payloads
    BY <1>2
  <2>3. (MediaOf(g) \o MediaOf(Flat(q.chain))) \o m = MediaOf(g) \o (MediaOf(Flat(q.chain)) \o m)
    BY <2>2, PayloadAssoc
  <2>4. MediaOf(g \o Flat(a.chain)) = MediaOf(g \o Flat(q.chain)) \o m
    BY <1>3, <2>1, <2>3
  <2>5. Elements(MediaOf(g \o Flat(q.chain))) \subseteq Spread(q)
    <3>1. /\ Elements(MediaOf(g \o Flat(q.chain))) = Elements(MediaOf(g)) \cup Elements(MediaOf(Flat(q.chain)))
      BY <2>1, <2>2, PayloadJoins
    <3>2. Elements(MediaOf(g)) = Elements(g) \cap Media /\ Elements(MediaOf(Flat(q.chain))) \subseteq Elements(Flat(q.chain))
      BY <1>1, MediaOfIs
    <3>3. Media \subseteq Talk
      BY KindsAre
    <3>. QED
      BY <3>1, <3>2, <3>3 DEF Spread
  <2>6. MediaOf(g \o Flat(q.chain)) \in Payloads
    <3>1. g \o Flat(q.chain) \in Payloads
      BY <1>1, PayloadJoins
    <3>. QED
      BY <3>1, MediaOfIs
  <2>7. Elements(MediaOf(g \o Flat(q.chain))) \cap Elements(m) = {}
    BY <1>3, <2>5
  <2>8. MediaOf(g \o Flat(q.chain)) \in Seq(Pieces \cup {Trouble}) /\ m \in Seq(Pieces \cup {Trouble})
    BY <1>2, <2>6 DEF Payloads
  <2>9. Once(MediaOf(g \o Flat(q.chain)) \o m)
    BY <1>3, <2>7, <2>8, OnceConcat
  <2>. QED
    BY <2>4, <2>9
<1>. QED
  BY <1>4, <1>5

(* and so what was said, texts and media, stays on its way.                *)
LEMMA StreamMoves ==
  ASSUME arranged \in Cases, NEW o, GoodOut(o), NEW h \in Payloads, NEW q, NEW a, GoodPipe(q), GoodPipe(a),
         NEW x, NEW m, NEW N, Moves(q, a, x, m, N), NEW r, NEW s, Streaming(r, q, o, h),
         InStream(s, a) =>
           /\ InStream(r, q) /\ TextsOf(s.said) = TextsOf(r.said) \o x
           /\ Elements(s.said) \cap Texts \subseteq a.seen
           /\ (Elements(s.said) \cap Talk) \ arranged.unreadable \subseteq a.seen \cup s.staging
           /\ s.finals = <<>>
  PROVE  Streaming(s, a, o, h)
<1>. SUFFICES ASSUME InStream(s, a)
              PROVE  TextsFlow(s, a, o, h) /\ MediaFlow(a, o, h) /\ Reached(s, a, o, h)
  BY DEF Streaming
<1>1. InStream(r, q) /\ TextsOf(s.said) = TextsOf(r.said) \o x /\ ~q.aborted
  BY DEF InStream
<1>2. TextsFlow(r, q, o, h) /\ MediaFlow(q, o, h) /\ Reached(r, q, o, h)
  BY <1>1 DEF Streaming
<1>3. Given(o, h) \in Payloads
  BY GivenIs
<1>4. Elements(Given(o, h)) \cap Talk = Sent(q) /\ Sent(a) = Sent(q)
  BY <1>2 DEF Reached, Sent, Moves
<1>5. /\ TextsOf(Given(o, h) \o Line(a)) = TextsOf(Given(o, h) \o Line(q)) \o x
      /\ Once(MediaOf(Given(o, h) \o Flat(a.chain)))
  <2>1. Elements(Given(o, h)) \cap Talk \subseteq Sent(q) /\ Once(MediaOf(Given(o, h) \o Flat(q.chain)))
    BY <1>2, <1>4 DEF MediaFlow
  <2>. QED
    BY <1>1, <1>3, <2>1, FlowMoves
<1>. QED
  BY <1>1, <1>2, <1>4, <1>5 DEF TextsFlow, MediaFlow, Reached

(* A step of a reply keeps what holds of what it has said.                 *)
Telling(d) == Fit(d) /\ Told(d, run[d], pipe[d], out[d], heard[d])
ToldStep(d) == \E r, q, o, h : After(d, r, q, o, h) /\ Told(d, r, q, o, h)

(* What is known of a reply before its step.                               *)
LEMMA Knowing ==
  ASSUME NEW d \in Replies, Telling(d)
  PROVE  /\ run[d] \in RunRec /\ GoodPipe(pipe[d]) /\ GoodOut(out[d]) /\ heard[d] \in Payloads
         /\ Streams(run[d], pipe[d]) /\ InScript(d, run[d])
         /\ arranged \in Cases /\ Shape
         /\ Told(d, run[d], pipe[d], out[d], heard[d])
BY DEF Telling, Fit, Good, Shape

(* The steps again, one by one: the run begins,                            *)
LEMMA BeginTold ==
  ASSUME NEW d \in Replies, Telling(d), BeginRun(d)
  PROVE  ToldStep(d)
<1>. DEFINE r == [run[d] EXCEPT !.stage = "talking"]
<1>1. After(d, r, pipe[d], out[d], heard[d])
  BY Knowing, Untouched DEF After, BeginRun
<1>2. /\ r.stage = "talking" /\ r.final = run[d].final /\ r.said = run[d].said
      /\ r.tools = run[d].tools /\ r.finals = run[d].finals /\ r.staging = run[d].staging
      /\ r.failed = run[d].failed /\ r.late = run[d].late /\ r.lost = run[d].lost
  BY Knowing DEF RunRec
<1>3. Told(d, r, pipe[d], out[d], heard[d])
  <2>. HIDE DEF r
  <2>. QED
    BY Knowing, <1>2 DEF BeginRun, Told, Sorted, Fresh, Over, Idles, Streaming, InStream, TextsFlow,
       Reached, ToolsKept, AnswerKept, FinalKept, Answered, Spoken, Gone, Readable, Missed
<1>. QED
  BY <1>1, <1>3 DEF ToldStep

(* or does not,                                                            *)
LEMMA NoRunTold ==
  ASSUME NEW d \in Replies, Telling(d), NoRun(d)
  PROVE  ToldStep(d)
<1>. DEFINE r == [run[d] EXCEPT !.stage = "answering"]
<1>1. After(d, r, pipe[d], out[d], heard[d])
  BY Knowing, Untouched DEF After, NoRun
<1>2. /\ r.stage = "answering" /\ r.final = run[d].final /\ r.said = run[d].said
      /\ r.tools = run[d].tools /\ r.finals = run[d].finals /\ r.staging = run[d].staging
      /\ r.failed = run[d].failed /\ r.late = run[d].late /\ r.lost = run[d].lost
  BY Knowing DEF RunRec
<1>3. Told(d, r, pipe[d], out[d], heard[d])
  <2>1. ~run[d].late /\ Elements(<<>>) = {}
    BY Knowing, PayloadJoins DEF NoRun, Streams
  <2>2. Without(<<>>, arranged.unreadable) = <<>>
    BY WithoutNone
  <2>. HIDE DEF r
  <2>. QED
    BY Knowing, <1>2, <2>1, <2>2 DEF NoRun, Told, Sorted, Fresh, Over, Idles, Streaming, InStream, TextsFlow,
       Reached, ToolsKept, AnswerKept, FinalKept, Answered, Spoken, Gone, Readable, Missed
<1>. QED
  BY <1>1, <1>3 DEF ToldStep

(* it is tried again,                                                      *)
LEMMA RetryTold ==
  ASSUME NEW d \in Replies, Telling(d), Retry(d)
  PROVE  ToldStep(d)
<1>. DEFINE r == [run[d] EXCEPT !.retried = TRUE, !.at = 0, !.final = <<>>]
<1>1. After(d, r, pipe[d], out[d], heard[d])
  BY Knowing, Untouched DEF After, Retry
<1>2. /\ r.stage = run[d].stage /\ r.final = <<>> /\ r.said = run[d].said
      /\ r.tools = run[d].tools /\ r.finals = run[d].finals /\ r.staging = run[d].staging
      /\ r.failed = run[d].failed /\ r.late = run[d].late /\ r.lost = run[d].lost
  BY Knowing DEF RunRec
<1>3. Told(d, r, pipe[d], out[d], heard[d])
  <2>1. Elements(<<>>) = {}
    BY PayloadJoins
  <2>. HIDE DEF r
  <2>. QED
    BY Knowing, <1>2, <2>1 DEF Retry, Told, Sorted, Fresh, Over, Idles, Streaming, InStream, TextsFlow,
       Reached, ToolsKept, AnswerKept, FinalKept, Answered, Spoken, Gone, Readable, Missed
<1>. QED
  BY <1>1, <1>3 DEF ToldStep

(* a dispatcher is made,                                                   *)
LEMMA ArriveTold ==
  ASSUME NEW d \in Replies, Telling(d), Arrive(d)
  PROVE  ToldStep(d)
<1>. DEFINE r == [run[d] EXCEPT !.stage = "arrived"]
            o == [out[d] EXCEPT !.pending = Reservation, !.registered = TRUE]
<1>1. After(d, r, pipe[d], o, heard[d])
  BY Knowing, Untouched DEF After, Arrive
<1>2. /\ r.stage = "arrived" /\ r.final = run[d].final /\ r.said = run[d].said
      /\ r.tools = run[d].tools /\ r.finals = run[d].finals /\ r.staging = run[d].staging
      /\ r.failed = run[d].failed /\ r.late = run[d].late /\ r.lost = run[d].lost
  BY Knowing DEF RunRec
<1>3. Told(d, r, pipe[d], out[d], heard[d])
  <2>. HIDE DEF r
  <2>. QED
    BY Knowing, <1>2, SMTT(40) DEF Arrive, Told, Sorted, Fresh, Over, Idles, Streaming, InStream, TextsFlow,
       Reached, ToolsKept, AnswerKept, FinalKept, Answered, Spoken, Gone, Readable, Missed
<1>4. o.chain = out[d].chain /\ o.failed = out[d].failed
  BY Knowing, GivenIs DEF OutRec
<1>5. Told(d, r, pipe[d], o, heard[d])
  <2>. HIDE DEF r, o
  <2>. QED
    BY <1>3, <1>4, ToldOut
<1>. QED
  BY <1>1, <1>5 DEF ToldStep

(* marked complete,                                                        *)
LEMMA CompleteTold ==
  ASSUME NEW d \in Replies, Telling(d), MarkComplete(d)
  PROVE  ToldStep(d)
<1>. DEFINE r == [run[d] EXCEPT !.stage = "complete"]
            o == [out[d] EXCEPT !.complete = TRUE, !.clearing = TRUE]
<1>1. After(d, r, pipe[d], o, heard[d])
  BY Knowing, Untouched DEF After, MarkComplete
<1>2. /\ r.stage = "complete" /\ r.final = run[d].final /\ r.said = run[d].said
      /\ r.tools = run[d].tools /\ r.finals = run[d].finals /\ r.staging = run[d].staging
      /\ r.failed = run[d].failed /\ r.late = run[d].late /\ r.lost = run[d].lost
  BY Knowing DEF RunRec
<1>3. Told(d, r, pipe[d], out[d], heard[d])
  <2>. HIDE DEF r
  <2>. QED
    BY Knowing, <1>2, SMTT(40) DEF MarkComplete, Told, Sorted, Fresh, Over, Idles, Streaming, InStream, TextsFlow,
       Reached, ToolsKept, AnswerKept, FinalKept, Answered, Spoken, Gone, Readable, Missed
<1>4. o.chain = out[d].chain /\ o.failed = out[d].failed
  BY Knowing, GivenIs DEF OutRec
<1>5. Told(d, r, pipe[d], o, heard[d])
  <2>. HIDE DEF r, o
  <2>. QED
    BY <1>3, <1>4, ToldOut
<1>. QED
  BY <1>1, <1>5 DEF ToldStep

(* and its reservation is cleared,                                         *)
LEMMA ClearTold ==
  ASSUME NEW d \in Replies, Telling(d), ClearReservation(d)
  PROVE  ToldStep(d)
<1>. DEFINE o == Counted([out[d] EXCEPT !.clearing = FALSE], Cleared(out[d].pending, TRUE))
<1>1. After(d, run[d], pipe[d], o, heard[d])
  BY Knowing, Untouched DEF After, ClearReservation
<1>2. o.chain = out[d].chain /\ o.failed = out[d].failed
  BY Knowing, GivenIs DEF OutRec, Counted
<1>3. Told(d, run[d], pipe[d], o, heard[d])
  <2>. HIDE DEF o
  <2>. QED
    BY Knowing, <1>2, ToldOut
<1>. QED
  BY <1>1, <1>3 DEF ToldStep

(* A send that ends gives what was given, or has failed.                   *)
LEMMA ToldGiven ==
  ASSUME NEW d, NEW r, NEW q, NEW o, NEW h, Told(d, r, q, o, h),
         NEW a, NEW k, a.failed \/ (Given(a, k) = Given(o, h) /\ a.failed = o.failed)
  PROVE  Told(d, r, q, a, k)
<1>1. CASE a.failed
  BY <1>1 DEF Told, Fresh
<1>2. CASE Given(a, k) = Given(o, h) /\ a.failed = o.failed
  BY <1>2 DEF Told, Fresh, Streaming, TextsFlow, MediaFlow, Reached, ToolsKept, AnswerKept, FinalKept
<1>. QED
  BY <1>1, <1>2

(* a delivery succeeds,                                                    *)
LEMMA DeliverTold ==
  ASSUME NEW d \in Replies, Telling(d), Deliver(d)
  PROVE  ToldStep(d)
<1>. DEFINE o == SendEnds(d)
            h == heard[d] \o Head(out[d].chain)
<1>1. After(d, run[d], pipe[d], o, h)
  BY Knowing, Untouched DEF After, Deliver
<1>2. /\ out[d].chain \in Seq(Payloads) /\ out[d].chain # <<>> /\ out[d] \in OutRec /\ heard[d] \in Payloads
  BY Knowing, GivenIs DEF Deliver
<1>3. /\ Head(out[d].chain) \in Payloads /\ Tail(out[d].chain) \in Seq(Payloads)
      /\ Flat(out[d].chain) = Head(out[d].chain) \o Flat(Tail(out[d].chain))
      /\ Flat(Tail(out[d].chain)) \in Payloads
  <2>1. Head(out[d].chain) \in Payloads /\ Tail(out[d].chain) \in Seq(Payloads)
    BY <1>2, ChainFacts
  <2>. QED
    BY <1>2, <2>1, ChainJoins
<1>4. o.chain = Tail(out[d].chain) /\ o.failed = out[d].failed
  BY <1>2 DEF SendEnds, Counted, OutRec
<1>5. (heard[d] \o Head(out[d].chain)) \o Flat(Tail(out[d].chain))
      = heard[d] \o (Head(out[d].chain) \o Flat(Tail(out[d].chain)))
  <2>1. heard[d] \in Payloads /\ Head(out[d].chain) \in Payloads /\ Flat(Tail(out[d].chain)) \in Payloads
    BY <1>2, <1>3
  <2>. QED
    BY <2>1, PayloadAssoc
<1>6. Given(o, h) = Given(out[d], heard[d])
  BY <1>3, <1>4, <1>5 DEF Given
<1>7. Told(d, run[d], pipe[d], o, h)
  <2>. HIDE DEF o, h
  <2>. QED
    BY Knowing, <1>4, <1>6, ToldGiven
<1>. QED
  BY <1>1, <1>7 DEF ToldStep

(* or fails,                                                               *)
LEMMA FailTold ==
  ASSUME NEW d \in Replies, Telling(d), DeliverFails(d)
  PROVE  ToldStep(d)
<1>. DEFINE o == [SendEnds(d) EXCEPT !.failed = TRUE]
<1>1. After(d, run[d], pipe[d], o, heard[d])
  BY Knowing, Untouched DEF After, DeliverFails
<1>2. out[d] \in OutRec
  BY Knowing, GivenIs
<1>3. o.failed
  BY <1>2 DEF SendEnds, Counted, OutRec
<1>4. Told(d, run[d], pipe[d], o, heard[d])
  <2>. HIDE DEF o
  <2>. QED
    BY Knowing, <1>3, ToldGiven
<1>. QED
  BY <1>1, <1>4 DEF ToldStep

(* A payload without pieces of a kind passes unnoticed.                    *)
LEMMA Passes ==
  ASSUME arranged \in Cases, NEW g \in Payloads, NEW s \in Payloads
  PROVE  /\ Elements(s) \cap (Texts \cup {Trouble}) = {} =>
              \A x \in Payloads : TextsOf((g \o s) \o x) = TextsOf(g \o x)
         /\ Elements(s) \cap Media = {} =>
              \A x \in Payloads : MediaOf((g \o s) \o x) = MediaOf(g \o x)
         /\ Elements(s) \cap Tools = {} =>
              \A x \in Payloads : ToolsOf((g \o s) \o x) = ToolsOf(g \o x)
         /\ Elements(s) \cap (Talk \cup {Trouble}) = {} =>
              \A x \in Payloads : TalkOf((g \o s) \o x) = TalkOf(g \o x)
<1>0. g \o s \in Payloads
  BY PayloadJoins
<1>1. ASSUME Elements(s) \cap (Texts \cup {Trouble}) = {}, NEW x \in Payloads
      PROVE  TextsOf((g \o s) \o x) = TextsOf(g \o x)
  <2>1. TextsOf(g) \in Payloads /\ TextsOf(s) = <<>>
    BY <1>1, TextsOfIs
  <2>2. TextsOf(g \o s) = TextsOf(g) \o TextsOf(s) /\ TextsOf(g) \o <<>> = TextsOf(g)
    BY <2>1, TextsOfIs, PayloadJoins
  <2>3. TextsOf((g \o s) \o x) = TextsOf(g \o s) \o TextsOf(x) /\ TextsOf(g \o x) = TextsOf(g) \o TextsOf(x)
    BY <1>0, <1>1, TextsOfIs
  <2>. QED
    BY <2>1, <2>2, <2>3
<1>2. ASSUME Elements(s) \cap Media = {}, NEW x \in Payloads
      PROVE  MediaOf((g \o s) \o x) = MediaOf(g \o x)
  <2>1. MediaOf(g) \in Payloads /\ MediaOf(s) = <<>>
    BY <1>2, MediaOfIs
  <2>2. MediaOf(g \o s) = MediaOf(g) \o MediaOf(s) /\ MediaOf(g) \o <<>> = MediaOf(g)
    BY <2>1, MediaOfIs, PayloadJoins
  <2>3. MediaOf((g \o s) \o x) = MediaOf(g \o s) \o MediaOf(x) /\ MediaOf(g \o x) = MediaOf(g) \o MediaOf(x)
    BY <1>0, <1>2, MediaOfIs
  <2>. QED
    BY <2>1, <2>2, <2>3
<1>3. ASSUME Elements(s) \cap Tools = {}, NEW x \in Payloads
      PROVE  ToolsOf((g \o s) \o x) = ToolsOf(g \o x)
  <2>1. ToolsOf(g) \in Payloads /\ ToolsOf(s) = <<>>
    BY <1>3, ToolsOfIs
  <2>2. ToolsOf(g \o s) = ToolsOf(g) \o ToolsOf(s) /\ ToolsOf(g) \o <<>> = ToolsOf(g)
    BY <2>1, ToolsOfIs, PayloadJoins
  <2>3. ToolsOf((g \o s) \o x) = ToolsOf(g \o s) \o ToolsOf(x) /\ ToolsOf(g \o x) = ToolsOf(g) \o ToolsOf(x)
    BY <1>0, <1>3, ToolsOfIs
  <2>. QED
    BY <2>1, <2>2, <2>3
<1>4. ASSUME Elements(s) \cap (Talk \cup {Trouble}) = {}, NEW x \in Payloads
      PROVE  TalkOf((g \o s) \o x) = TalkOf(g \o x)
  <2>1. TalkOf(g) \in Payloads /\ TalkOf(s) = <<>>
    BY <1>4, TalkOfIs
  <2>2. TalkOf(g \o s) = TalkOf(g) \o TalkOf(s) /\ TalkOf(g) \o <<>> = TalkOf(g)
    BY <2>1, TalkOfIs, PayloadJoins
  <2>3. TalkOf((g \o s) \o x) = TalkOf(g \o s) \o TalkOf(x) /\ TalkOf(g \o x) = TalkOf(g) \o TalkOf(x)
    BY <1>0, <1>4, TalkOfIs
  <2>. QED
    BY <2>1, <2>2, <2>3
<1>. QED
  BY <1>1, <1>2, <1>3, <1>4

(* the result of a tool is given,                                          *)
LEMMA ToolReplyTold ==
  ASSUME NEW d \in Replies, Telling(d), ToolReplied(d)
  PROVE  ToldStep(d)
<1>. DEFINE t == run[d].tools
            s == <<Head(t)>>
            r == [run[d] EXCEPT !.tools = Tail(t)]
            o == Enqueued(out[d], s)
<1>1. After(d, r, pipe[d], o, heard[d])
  BY Knowing, Untouched DEF After, ToolReplied
<1>2. /\ r.stage = run[d].stage /\ r.at = run[d].at /\ r.final = run[d].final /\ r.said = run[d].said
      /\ r.tools = Tail(t) /\ r.finals = run[d].finals /\ r.staging = run[d].staging
      /\ r.failed = run[d].failed /\ r.late = run[d].late /\ r.lost = run[d].lost
  BY Knowing DEF RunRec
<1>3. t \in Payloads /\ t # <<>> /\ Elements(t) \subseteq Tools
  BY Knowing, RunFields DEF ToolReplied, Told, Sorted
<1>. HIDE DEF t
<1>4. /\ s \in Payloads /\ Tail(t) \in Payloads /\ t = s \o Tail(t)
      /\ Elements(s) \subseteq Tools /\ Elements(Tail(t)) \subseteq Tools
  <2>1. t \in Seq(Pieces \cup {Trouble})
    BY <1>3 DEF Payloads
  <2>2. Head(t) \in Pieces \cup {Trouble} /\ Tail(t) \in Seq(Pieces \cup {Trouble})
    BY <1>3, <2>1, HeadTailProperties
  <2>3. t = <<Head(t)>> \o Tail(t)
    BY <1>3, <2>1, HeadTailProperties
  <2>4. s \in Payloads /\ Tail(t) \in Payloads
    BY <2>2, PieceJoins DEF Payloads
  <2>5. Elements(t) = Elements(s) \cup Elements(Tail(t))
    BY <2>3, <2>4, PayloadJoins
  <2>. QED
    BY <1>3, <2>3, <2>4, <2>5
<1>. DEFINE g == Given(out[d], heard[d])
<1>5. g \in Payloads
  BY Knowing, GivenIs
<1>6. /\ Given(o, heard[d]) = g \o s /\ o.failed = out[d].failed
      /\ Elements(Given(o, heard[d])) = Elements(g) \cup Elements(s)
  <2>. HIDE DEF s
  <2>1. GoodOut(out[d]) /\ heard[d] \in Payloads /\ s \in Payloads
    BY Knowing, <1>4
  <2>2. Given(o, heard[d]) = g \o s /\ o.failed = out[d].failed
    BY <2>1, Gives
  <2>3. Elements(g \o s) = Elements(g) \cup Elements(s)
    BY <1>4, <1>5, PayloadJoins
  <2>. QED
    BY <2>2, <2>3
<1>7. (g \o s) \o Tail(t) = g \o t
  <2>1. g \in Payloads /\ s \in Payloads /\ Tail(t) \in Payloads
    BY <1>4, <1>5
  <2>2. (g \o s) \o Tail(t) = g \o (s \o Tail(t))
    BY <2>1, PayloadAssoc
  <2>. QED
    BY <1>4, <2>2
<1>8. Elements(s) \cap Talk = {} /\ Elements(s) \cap (Texts \cup {Trouble}) = {} /\ Elements(s) \cap Media = {}
      /\ Elements(s) \cap (Talk \cup {Trouble}) = {}
  BY Knowing, <1>4, KindsAre DEF Tools
<1>. HIDE DEF s
<1>10. ASSUME NEW x \in Payloads
       PROVE  /\ TextsOf((g \o s) \o x) = TextsOf(g \o x)
              /\ MediaOf((g \o s) \o x) = MediaOf(g \o x)
              /\ TalkOf((g \o s) \o x) = TalkOf(g \o x)
  <2>1. arranged \in Cases
    BY Knowing
  <2>. HIDE DEF g
  <2>. QED
    BY <1>4, <1>5, <1>8, <2>1, Passes
<1>11. Flat(pipe[d].chain) \in Payloads /\ Line(pipe[d]) \in Payloads /\ Flat(run[d].finals) \in Payloads
  BY Knowing, PipeFields, RunFields
<1>12. Told(d, r, pipe[d], o, heard[d])
  <2>. HIDE DEF r, o, g
  <2>1. Sifted(pipe[d], {}, Gone(r)) /\ Sorted(d, r, pipe[d]) /\ Fresh(r, pipe[d], o, heard[d]) /\ Over(r, pipe[d])
        /\ Idles(r, pipe[d])
    BY Knowing, <1>2, <1>3, <1>4 DEF Gone, t, Told, Sorted, Fresh, Over, Idles, Spoken
  <2>2. ASSUME ~o.failed
        PROVE  Streaming(r, pipe[d], o, heard[d]) /\ ToolsKept(r, o, heard[d])
               /\ AnswerKept(r, o, heard[d]) /\ FinalKept(r, pipe[d], o, heard[d])
    <3>0. /\ Streaming(run[d], pipe[d], out[d], heard[d]) /\ ToolsKept(run[d], out[d], heard[d])
          /\ AnswerKept(run[d], out[d], heard[d]) /\ FinalKept(run[d], pipe[d], out[d], heard[d])
      BY Knowing, <1>6, <2>2 DEF Told
    <3>1. Streaming(r, pipe[d], o, heard[d])
      BY <3>0, <1>2, <1>6, <1>8, <1>10, <1>11 DEF Streaming, InStream, Answered, TextsFlow, MediaFlow, Reached, g
    <3>2. ToolsKept(r, o, heard[d])
      BY <3>0, <1>2, <1>6, <1>7 DEF ToolsKept, t, g
    <3>3. AnswerKept(r, o, heard[d])
      BY <3>0, <1>2, <1>6, <1>10, <1>11 DEF AnswerKept, Answered, g
    <3>4. FinalKept(r, pipe[d], o, heard[d])
      BY <3>0, <1>2, <1>6 DEF FinalKept, Answered, Readable, Missed, g
    <3>. QED
      BY <3>1, <3>2, <3>3, <3>4
  <2>. QED
    BY <2>1, <2>2 DEF Told
<1>. QED
  BY <1>1, <1>12 DEF ToldStep

(* What is given is longer by what is enqueued.                            *)
LEMMA GivesTo ==
  ASSUME NEW d \in Replies, Telling(d), NEW s \in Payloads, NEW a, a = Enqueued(out[d], s)
  PROVE  /\ a.failed = out[d].failed /\ Given(out[d], heard[d]) \in Payloads
         /\ Given(a, heard[d]) = Given(out[d], heard[d]) \o s
         /\ Elements(Given(out[d], heard[d]) \o s) = Elements(Given(out[d], heard[d])) \cup Elements(s)
<1>1. GoodOut(out[d]) /\ heard[d] \in Payloads
  BY Knowing
<1>2. Given(out[d], heard[d]) \in Payloads
  BY <1>1, GivenIs
<1>3. Given(a, heard[d]) = Given(out[d], heard[d]) \o s /\ a.failed = out[d].failed
  BY <1>1, Gives
<1>4. Elements(Given(out[d], heard[d]) \o s) = Elements(Given(out[d], heard[d])) \cup Elements(s)
  BY <1>2, PayloadJoins
<1>. QED
  BY <1>2, <1>3, <1>4

(* a final payload is sent,                                                *)
LEMMA FinalTold ==
  ASSUME NEW d \in Replies, Telling(d), SendFinalReply(d)
  PROVE  ToldStep(d)
<1>. DEFINE f == run[d].finals
            s == Head(f)
            r == [run[d] EXCEPT !.finals = Tail(f)]
            o == Enqueued(out[d], s)
            g == Given(out[d], heard[d])
<1>1. After(d, r, pipe[d], o, heard[d])
  BY Knowing, Untouched DEF After, SendFinalReply
<1>2. /\ r.stage = run[d].stage /\ r.at = run[d].at /\ r.final = run[d].final /\ r.said = run[d].said
      /\ r.tools = run[d].tools /\ r.finals = Tail(f) /\ r.staging = run[d].staging
      /\ r.failed = run[d].failed /\ r.late = run[d].late /\ r.stage = "answering"
      /\ r.lost = run[d].lost
  BY Knowing DEF RunRec, SendFinalReply
<1>3. f \in Seq(Payloads) /\ f # <<>> /\ Elements(Flat(f)) \subseteq Talk \cup {Trouble}
  BY Knowing, RunFields DEF SendFinalReply, Told, Sorted
<1>. HIDE DEF f
<1>4. /\ s \in Payloads /\ Tail(f) \in Seq(Payloads) /\ Flat(Tail(f)) \in Payloads
      /\ Flat(f) = s \o Flat(Tail(f))
  <2>1. s \in Payloads /\ Tail(f) \in Seq(Payloads)
    BY <1>3, ChainFacts
  <2>. QED
    BY <1>3, <2>1, ChainJoins
<1>. HIDE DEF s
<1>5. Elements(Flat(f)) = Elements(s) \cup Elements(Flat(Tail(f)))
  BY <1>4, PayloadJoins
<1>6. /\ o.failed = out[d].failed /\ g \in Payloads /\ Given(o, heard[d]) = g \o s
      /\ Elements(g \o s) = Elements(g) \cup Elements(s)
  BY <1>4, GivesTo
<1>7. (g \o s) \o Flat(Tail(f)) = g \o Flat(f)
  <2>1. g \in Payloads /\ s \in Payloads /\ Flat(Tail(f)) \in Payloads
    BY <1>4, <1>6
  <2>2. (g \o s) \o Flat(Tail(f)) = g \o (s \o Flat(Tail(f)))
    BY <2>1, PayloadAssoc
  <2>. QED
    BY <1>4, <2>2
<1>8. ToolsOf((g \o s) \o run[d].tools) = ToolsOf(g \o run[d].tools)
  <2>1. arranged \in Cases /\ run[d].tools \in Payloads
    BY Knowing, RunFields
  <2>2. Elements(s) \cap Tools = {}
    BY <1>3, <1>5, <2>1, KindsAre DEF Talk, Tools
  <2>. HIDE DEF g
  <2>. QED
    BY <1>4, <1>6, <2>1, <2>2, Passes
<1>9. Told(d, r, pipe[d], o, heard[d])
  <2>. HIDE DEF r, o, g
  <2>1. Sifted(pipe[d], {}, Gone(r)) /\ Sorted(d, r, pipe[d]) /\ Fresh(r, pipe[d], o, heard[d]) /\ Over(r, pipe[d])
        /\ Idles(r, pipe[d])
    BY Knowing, <1>2, <1>3, <1>5 DEF Gone, Told, Sorted, Fresh, Over, Idles, Spoken
  <2>2. ASSUME ~o.failed
        PROVE  Streaming(r, pipe[d], o, heard[d]) /\ ToolsKept(r, o, heard[d])
               /\ AnswerKept(r, o, heard[d]) /\ FinalKept(r, pipe[d], o, heard[d])
    <3>0. /\ Streaming(run[d], pipe[d], out[d], heard[d]) /\ ToolsKept(run[d], out[d], heard[d])
          /\ AnswerKept(run[d], out[d], heard[d]) /\ FinalKept(run[d], pipe[d], out[d], heard[d])
      BY Knowing, <1>6, <2>2 DEF Told
    <3>1. Streaming(r, pipe[d], o, heard[d])
      BY <3>0, <1>2, <1>3 DEF Streaming, InStream, Answered, Reached, f
    <3>2. ToolsKept(r, o, heard[d])
      BY <3>0, <1>2, <1>6, <1>8 DEF ToolsKept, g
    <3>3. AnswerKept(r, o, heard[d])
      BY <3>0, <1>2, <1>6, <1>7 DEF AnswerKept, Answered, f, g
    <3>4. FinalKept(r, pipe[d], o, heard[d])
      BY <3>0, <1>2, <1>5, <1>6 DEF FinalKept, Answered, Readable, Missed, f, g
    <3>. QED
      BY <3>1, <3>2, <3>3, <3>4
  <2>. QED
    BY <2>1, <2>2 DEF Told
<1>. QED
  BY <1>1, <1>9 DEF ToldStep

(* a block comes late,                                                     *)
LEMMA OverdueTold ==
  ASSUME NEW d \in Replies, Telling(d), OverdueBlock(d)
  PROVE  ToldStep(d)
<1>1. PICK s \in pipe[d].overdue :
        /\ pipe' = [pipe EXCEPT ![d].overdue = @ \ {s}]
        /\ out' = [out EXCEPT ![d] = Enqueued(@, s)]
        /\ UNCHANGED <<arranged, run, heard, restart>>
  BY DEF OverdueBlock
<1>. DEFINE q == [pipe[d] EXCEPT !.overdue = @ \ {s}]
            o == Enqueued(out[d], s)
            g == Given(out[d], heard[d])
<1>2. After(d, run[d], q, o, heard[d])
  BY <1>1, Knowing, Untouched DEF After
<1>3. /\ pipe[d] \in PipeRec /\ s \in Payloads /\ pipe[d].aborted /\ Elements(s) \subseteq Talk
      /\ Sifted(pipe[d], {}, Gone(run[d])) /\ GoodPipe(pipe[d])
  BY Knowing, PipeFields DEF Told, Sifted, PipeRec
<1>4. /\ q \in PipeRec /\ q.overdue = pipe[d].overdue \ {s} /\ q.armed = pipe[d].armed /\ q.awaited = pipe[d].awaited
      /\ q.buffer = pipe[d].buffer /\ q.chain = pipe[d].chain /\ q.held = pipe[d].held /\ q.seen = pipe[d].seen
      /\ q.sent = pipe[d].sent /\ q.aborted = pipe[d].aborted /\ q.streamed = pipe[d].streamed
  BY <1>3 DEF PipeRec
<1>5. /\ o.failed = out[d].failed /\ g \in Payloads /\ Given(o, heard[d]) = g \o s
      /\ Elements(g \o s) = Elements(g) \cup Elements(s)
  BY <1>3, GivesTo
<1>6. ToolsOf((g \o s) \o run[d].tools) = ToolsOf(g \o run[d].tools)
  <2>1. arranged \in Cases /\ run[d].tools \in Payloads
    BY Knowing, RunFields
  <2>2. Elements(s) \cap Tools = {}
    BY <1>3 DEF Talk
  <2>. HIDE DEF g
  <2>. QED
    BY <1>3, <1>5, <2>1, <2>2, Passes
<1>7. Told(d, run[d], q, o, heard[d])
  <2>. HIDE DEF q, o, g
  <2>1. Sifted(q, {}, Gone(run[d])) /\ Sent(q) = Sent(pipe[d])
    BY <1>3, <1>4 DEF Sifted, GoodPipe, Sent
  <2>2. Sorted(d, run[d], q) /\ Fresh(run[d], q, o, heard[d]) /\ Over(run[d], q) /\ Idles(run[d], q)
    BY Knowing, <1>4 DEF Told, Sorted, Fresh, Over, Idles, Spoken
  <2>3. ASSUME ~o.failed
        PROVE  Streaming(run[d], q, o, heard[d]) /\ ToolsKept(run[d], o, heard[d])
               /\ AnswerKept(run[d], o, heard[d]) /\ FinalKept(run[d], q, o, heard[d])
    <3>0. /\ ToolsKept(run[d], out[d], heard[d]) /\ FinalKept(run[d], pipe[d], out[d], heard[d])
          /\ Idles(run[d], pipe[d])
      BY Knowing, <1>5, <2>3 DEF Told
    <3>1. Streaming(run[d], q, o, heard[d])
      BY <1>3, <1>4 DEF Streaming, InStream
    <3>2. ToolsKept(run[d], o, heard[d])
      BY <3>0, <1>5, <1>6 DEF ToolsKept, g
    <3>3. AnswerKept(run[d], o, heard[d])
      BY <3>0, <1>3 DEF AnswerKept, Idles
    <3>4. FinalKept(run[d], q, o, heard[d])
      BY <3>0, <1>4, <1>5, <2>1 DEF FinalKept, Readable, Missed, g
    <3>. QED
      BY <3>1, <3>2, <3>3, <3>4
  <2>. QED
    BY <2>1, <2>2, <2>3 DEF Told
<1>. QED
  BY <1>2, <1>7 DEF ToldStep

(* The pipeline when its block has come back.                              *)
Back(q) == [Left(q) EXCEPT !.sent = @ \cup {Head(q.chain)}, !.streamed = TRUE]

(* A block s has left the chain of q, and a is what remains.               *)
Shorter(q, a, s) ==
  /\ ~q.aborted /\ ~a.aborted /\ a.overdue = q.overdue
  /\ a.buffer = q.buffer /\ a.held = q.held /\ a.seen = q.seen
  /\ s \in Payloads /\ Elements(s) \subseteq Talk /\ Flat(a.chain) \in Payloads
  /\ a.chain = Tail(q.chain) /\ Flat(q.chain) = s \o Flat(a.chain)
  /\ Elements(Flat(q.chain)) = Elements(s) \cup Elements(Flat(a.chain))

(* The chain without its head.                                             *)
LEMMA LeftIs ==
  ASSUME arranged \in Cases, NEW L, NEW q, Sifted(q, {}, L), q.chain # <<>>, NEW s, s = Head(q.chain),
         NEW a, a = Left(q)
  PROVE  /\ GoodPipe(a) /\ Shorter(q, a, s)
         /\ a.sent = q.sent /\ a.streamed = q.streamed /\ a.armed = q.armed /\ a.awaited \in Nat
<1>1. GoodPipe(q) /\ q \in PipeRec /\ ~q.aborted /\ q.chain \in Seq(Payloads)
  BY PipeFields DEF Sifted
<1>2. /\ a \in PipeRec /\ Alike(q, a) /\ s \in Payloads
      /\ a.armed = q.armed /\ a.buffer = q.buffer
      /\ a.chain \in Seq(Payloads) /\ a.awaited \in Nat /\ a.awaited <= Len(a.chain)
  BY <1>1, Leaves
<1>3. /\ a.chain = Tail(q.chain) /\ a.held = q.held /\ a.seen = q.seen /\ a.sent = q.sent
      /\ a.streamed = q.streamed
  <2>. DEFINE c == Tail(q.chain)
              n == IF q.awaited = 0 THEN 0 ELSE q.awaited - 1
  <2>1. a = [q EXCEPT !.chain = c, !.awaited = n]
    BY DEF Left
  <2>. HIDE DEF c, n
  <2>2. /\ a.chain = c /\ a.held = q.held /\ a.seen = q.seen /\ a.sent = q.sent
        /\ a.streamed = q.streamed
    BY <1>1, <2>1 DEF PipeRec
  <2>. QED
    BY <2>2 DEF c
<1>4. GoodPipe(a)
  BY <1>1, <1>2 DEF GoodPipe
<1>5. Flat(q.chain) = s \o Flat(a.chain) /\ Flat(a.chain) \in Payloads
  BY <1>1, <1>2, <1>3, ChainJoins
<1>6. Elements(Flat(q.chain)) = Elements(s) \cup Elements(Flat(a.chain))
  BY <1>2, <1>5, PayloadUnion
<1>7. Elements(s) \subseteq Talk
  BY <1>6 DEF Sifted
<1>8. a.aborted = q.aborted /\ a.overdue = q.overdue
  BY <1>2 DEF Alike
<1>9. Shorter(q, a, s)
  BY ONLY <1>1, <1>2, <1>3, <1>5, <1>6, <1>7, <1>8 DEF Shorter
<1>. QED
  BY ONLY <1>2, <1>3, <1>4, <1>8, <1>9

(* A block that leaves the chain is where it was, having been sent,        *)
LEMMA LeavesSifted ==
  ASSUME arranged \in Cases, NEW L, NEW q, Sifted(q, {}, L), q.chain # <<>>, NEW s, s = Head(q.chain),
         NEW a, a = Back(q)
  PROVE  /\ Sifted(a, {}, L) /\ Shorter(q, a, s) /\ a.streamed
         /\ Sent(a) = Sent(q) \cup Elements(s)
<1>. DEFINE l == Left(q)
            v == q.sent \cup {s}
<1>1. l = Left(q) /\ a = [l EXCEPT !.sent = l.sent \cup {s}, !.streamed = TRUE]
  BY DEF Back
<1>. HIDE DEF l
<1>2. /\ GoodPipe(l) /\ Shorter(q, l, s)
      /\ l.sent = q.sent /\ l.streamed = q.streamed /\ l.armed = q.armed /\ l.awaited \in Nat
  BY <1>1, LeftIs
<1>3. GoodPipe(q) /\ q.sent \subseteq Payloads /\ s \in Payloads /\ l \in PipeRec
  BY <1>2, PipeFields DEF Sifted, Shorter
<1>4. a = [l EXCEPT !.sent = v, !.streamed = TRUE] /\ v \subseteq Payloads
  BY <1>1, <1>2, <1>3
<1>. HIDE DEF v
<1>5. /\ a \in PipeRec /\ a.armed = l.armed /\ a.awaited = l.awaited /\ a.aborted = l.aborted
      /\ a.buffer = l.buffer /\ a.held = l.held /\ a.seen = l.seen /\ a.overdue = l.overdue
      /\ a.chain = l.chain /\ a.sent = v /\ a.streamed = TRUE
  BY <1>3, <1>4 DEF PipeRec
<1>6. GoodPipe(a)
  BY <1>2, <1>5 DEF GoodPipe
<1>7. Shorter(q, a, s)
  BY <1>2, <1>5 DEF Shorter
<1>8. Sent(a) = Sent(q) \cup Elements(s) /\ Spread(a) = Spread(q)
  BY <1>5, <1>7 DEF Sent, Spread, Shorter, v
<1>9. Sifted(a, {}, L)
  BY <1>5, <1>6, <1>7, <1>8 DEF Sifted, Placed, Shorter, v
<1>. QED
  BY <1>5, <1>7, <1>8, <1>9

(* or is lost.                                                             *)
LEMMA LosesSifted ==
  ASSUME arranged \in Cases, NEW L, NEW q, Sifted(q, {}, L), q.chain # <<>>, NEW s, s = Head(q.chain),
         NEW a, a = Left(q)
  PROVE  /\ Sifted(a, {}, Pieces) /\ Shorter(q, a, s)
         /\ a.streamed = q.streamed /\ Sent(a) = Sent(q)
<1>1. /\ GoodPipe(a) /\ Shorter(q, a, s)
      /\ a.sent = q.sent /\ a.streamed = q.streamed
  BY LeftIs
<1>2. Sent(a) = Sent(q) /\ Spread(a) \subseteq Spread(q)
  BY <1>1 DEF Sent, Spread, Shorter
<1>3. q.seen \subseteq Pieces
  BY DEF Sifted, Talk
<1>4. Sifted(a, {}, Pieces)
  BY <1>1, <1>2, <1>3 DEF Sifted, Placed, Shorter
<1>. QED
  BY <1>1, <1>2, <1>4

(* a block is spoken and given to the dispatcher,                          *)
LEMMA BlockTold ==
  ASSUME NEW d \in Replies, Telling(d), BlockReplied(d)
  PROVE  ToldStep(d)
<1>. DEFINE s == Head(pipe[d].chain)
            q == Back(pipe[d])
            o == Enqueued(out[d], s)
            g == Given(out[d], heard[d])
<1>1. After(d, run[d], q, o, heard[d])
  <2>1. pipe' = [pipe EXCEPT ![d] = q]
    BY DEF BlockReplied, Back
  <2>2. out' = [out EXCEPT ![d] = o] /\ UNCHANGED <<arranged, run, heard, restart>>
    BY DEF BlockReplied
  <2>. HIDE DEF q, o
  <2>. QED
    BY <2>1, <2>2, Knowing, Untouched DEF After
<1>2. pipe[d].chain # <<>> /\ arranged \in Cases /\ Sifted(pipe[d], {}, Gone(run[d])) /\ GoodPipe(pipe[d])
  BY Knowing DEF BlockReplied, Told
<1>3. /\ Sifted(q, {}, Gone(run[d])) /\ ~pipe[d].aborted /\ ~q.aborted /\ q.streamed
      /\ q.buffer = pipe[d].buffer /\ q.held = pipe[d].held /\ q.seen = pipe[d].seen /\ q.overdue = pipe[d].overdue
      /\ q.chain = Tail(pipe[d].chain) /\ Sent(q) = Sent(pipe[d]) \cup Elements(s)
      /\ s \in Payloads /\ Elements(s) \subseteq Talk
      /\ Flat(q.chain) \in Payloads /\ Flat(pipe[d].chain) = s \o Flat(q.chain)
  <2>1. q = Back(pipe[d]) /\ s = Head(pipe[d].chain)
    OBVIOUS
  <2>. DEFINE x == pipe[d]
              l == Gone(run[d])
  <2>2. arranged \in Cases /\ Sifted(x, {}, l) /\ x.chain # <<>> /\ s = Head(x.chain) /\ q = Back(x)
    BY <1>2, <2>1
  <2>. HIDE DEF q, s, x, l
  <2>3. Sifted(q, {}, l) /\ Shorter(x, q, s) /\ q.streamed /\ Sent(q) = Sent(x) \cup Elements(s)
    BY ONLY <2>2, LeavesSifted, SMTT(30)
  <2>. QED
    BY <2>3 DEF x, l, Shorter
<1>. HIDE DEF q, s
<1>4. /\ o.failed = out[d].failed /\ g \in Payloads /\ Given(o, heard[d]) = g \o s
      /\ Elements(g \o s) = Elements(g) \cup Elements(s)
  BY <1>3, GivesTo
<1>5. Elements(Flat(pipe[d].chain)) = Elements(s) \cup Elements(Flat(q.chain))
  <2>1. s \in Payloads /\ Flat(q.chain) \in Payloads
    BY <1>3
  <2>. QED
    BY <1>3, <2>1, PayloadUnion
<1>6. ToolsOf((g \o s) \o run[d].tools) = ToolsOf(g \o run[d].tools)
  <2>1. run[d].tools \in Payloads
    BY Knowing, RunFields
  <2>2. Elements(s) \cap Tools = {}
    BY <1>3 DEF Talk
  <2>. HIDE DEF g
  <2>. QED
    BY <1>2, <1>3, <1>4, <2>1, <2>2, Passes
<1>7. (g \o s) \o Flat(q.chain) = g \o Flat(pipe[d].chain)
  <2>1. g \in Payloads /\ s \in Payloads /\ Flat(q.chain) \in Payloads
    BY <1>3, <1>4
  <2>. HIDE DEF g
  <2>2. (g \o s) \o Flat(q.chain) = g \o (s \o Flat(q.chain))
    BY <2>1, PayloadAssoc
  <2>. QED
    BY <1>3, <2>2
<1>8. (g \o s) \o Line(q) = g \o Line(pipe[d])
  <2>0. g \o s \in Payloads /\ Flat(q.chain) \in Payloads /\ pipe[d].buffer \in Payloads
    BY <1>2, <1>3, <1>4, PayloadJoins, PipeFields
  <2>1. ((g \o s) \o Flat(q.chain)) \o pipe[d].buffer = (g \o s) \o (Flat(q.chain) \o pipe[d].buffer)
    BY <2>0, PayloadAssoc
  <2>2. g \in Payloads /\ Flat(pipe[d].chain) \in Payloads /\ pipe[d].buffer \in Payloads
    BY <1>2, <1>4, PipeFields
  <2>3. (g \o Flat(pipe[d].chain)) \o pipe[d].buffer = g \o (Flat(pipe[d].chain) \o pipe[d].buffer)
    BY <2>2, PayloadAssoc
  <2>. QED
    BY <1>3, <1>7, <2>1, <2>3 DEF Line
<1>9. run[d].stage \notin {"none", "arrived"} /\ arranged.streaming
  BY Knowing, <1>2 DEF Streams, Told, Idles
<1>10. Told(d, run[d], q, o, heard[d])
  <2>. HIDE DEF o, g
  <2>1. Sorted(d, run[d], q) /\ Fresh(run[d], q, o, heard[d]) /\ Over(run[d], q) /\ Idles(run[d], q)
    BY Knowing, <1>3, <1>9 DEF Told, Sorted, Fresh, Over, Idles, Spoken
  <2>2. ASSUME ~o.failed
        PROVE  Streaming(run[d], q, o, heard[d]) /\ ToolsKept(run[d], o, heard[d])
               /\ AnswerKept(run[d], o, heard[d]) /\ FinalKept(run[d], q, o, heard[d])
    <3>0. /\ Streaming(run[d], pipe[d], out[d], heard[d]) /\ ToolsKept(run[d], out[d], heard[d])
          /\ FinalKept(run[d], pipe[d], out[d], heard[d])
      BY Knowing, <1>4, <2>2 DEF Told
    <3>1. Streaming(run[d], q, o, heard[d])
      BY <3>0, <1>3, <1>4, <1>7, <1>8 DEF Streaming, InStream, TextsFlow, MediaFlow, Reached, g
    <3>2. ToolsKept(run[d], o, heard[d])
      BY <3>0, <1>4, <1>6 DEF ToolsKept, g
    <3>3. AnswerKept(run[d], o, heard[d])
      BY <1>9 DEF AnswerKept
    <3>4. FinalKept(run[d], q, o, heard[d])
      BY <3>0, <1>3, <1>4, <1>5 DEF FinalKept, Readable, Missed, g
    <3>. QED
      BY <3>1, <3>2, <3>3, <3>4
  <2>. QED
    BY <1>3, <2>1, <2>2 DEF Told
<1>. QED
  BY <1>1, <1>10 DEF ToldStep

(* or times out,                                                           *)
LEMMA TimeoutTold ==
  ASSUME NEW d \in Replies, Telling(d), BlockTimesOut(d)
  PROVE  ToldStep(d)
<1>. DEFINE s == Head(pipe[d].chain)
            v == pipe[d].overdue \cup {s}
            q == [pipe[d] EXCEPT !.aborted = TRUE, !.overdue = v, !.chain = <<>>, !.awaited = 0]
<1>1. After(d, run[d], q, out[d], heard[d])
  <2>1. pipe' = [pipe EXCEPT ![d] = q] /\ UNCHANGED <<arranged, run, out, heard, restart>>
    BY DEF BlockTimesOut
  <2>. HIDE DEF q
  <2>. QED
    BY <2>1, Knowing, Untouched DEF After
<1>2. /\ pipe[d].chain # <<>> /\ arranged \in Cases /\ Sifted(pipe[d], {}, Gone(run[d])) /\ GoodPipe(pipe[d])
      /\ pipe[d] \in PipeRec /\ pipe[d].chain \in Seq(Payloads)
  BY Knowing, PipeFields DEF BlockTimesOut, Told
<1>3. s \in Payloads /\ Elements(s) \subseteq Talk
  <2>1. s \in Payloads /\ Tail(pipe[d].chain) \in Seq(Payloads)
    BY <1>2, ChainFacts
  <2>2. Flat(pipe[d].chain) = s \o Flat(Tail(pipe[d].chain)) /\ Flat(Tail(pipe[d].chain)) \in Payloads
    BY <1>2, <2>1, ChainJoins
  <2>3. Elements(Flat(pipe[d].chain)) = Elements(s) \cup Elements(Flat(Tail(pipe[d].chain)))
    BY <2>1, <2>2, PayloadJoins
  <2>. QED
    BY <1>2, <2>1, <2>3 DEF Sifted
<1>4. /\ q \in PipeRec /\ q.overdue = v /\ q.armed = pipe[d].armed /\ q.awaited = 0 /\ q.chain = <<>>
      /\ q.buffer = pipe[d].buffer /\ q.held = pipe[d].held /\ q.seen = pipe[d].seen
      /\ q.sent = pipe[d].sent /\ q.aborted = TRUE /\ q.streamed = pipe[d].streamed
  <2>1. v \subseteq Payloads /\ <<>> \in Seq(Payloads)
    BY <1>2, <1>3, ChainFacts DEF PipeRec
  <2>. HIDE DEF v
  <2>. QED
    BY <1>2, <2>1 DEF PipeRec
<1>5. GoodPipe(q) /\ Flat(<<>>) = <<>> /\ Elements(<<>>) = {}
  <2>. HIDE DEF q
  <2>. QED
    BY <1>2, <1>4, ChainFacts, ChainJoins, PayloadJoins DEF GoodPipe
<1>6. run[d].stage \notin {"none", "arrived"} /\ arranged.streaming
      /\ (Answered(run[d]) /\ ~run[d].failed => run[d].late)
  BY Knowing, <1>2 DEF Streams, Told, Idles, Sifted, InOrder, Answered
<1>7. Told(d, run[d], q, out[d], heard[d])
  <2>. HIDE DEF q, s
  <2>1. Sifted(q, {}, Gone(run[d]))
    BY <1>2, <1>3, <1>4, <1>5 DEF Sifted
  <2>2. Sorted(d, run[d], q) /\ Fresh(run[d], q, out[d], heard[d]) /\ Over(run[d], q) /\ Idles(run[d], q)
    BY Knowing, <1>4, <1>6 DEF Told, Sorted, Fresh, Over, Idles, Spoken
  <2>3. ASSUME ~out[d].failed
        PROVE  Streaming(run[d], q, out[d], heard[d]) /\ ToolsKept(run[d], out[d], heard[d])
               /\ AnswerKept(run[d], out[d], heard[d]) /\ FinalKept(run[d], q, out[d], heard[d])
    <3>0. /\ ToolsKept(run[d], out[d], heard[d]) /\ FinalKept(run[d], pipe[d], out[d], heard[d])
      BY Knowing, <2>3 DEF Told
    <3>1. Streaming(run[d], q, out[d], heard[d])
      BY <1>4 DEF Streaming, InStream
    <3>3. AnswerKept(run[d], out[d], heard[d])
      BY <1>6 DEF AnswerKept
    <3>4. FinalKept(run[d], q, out[d], heard[d])
      BY <3>0, <1>4, <1>6 DEF FinalKept, Readable, Missed, Sent
    <3>. QED
      BY <3>0, <3>1, <3>3, <3>4
  <2>. QED
    BY <2>1, <2>2, <2>3 DEF Told
<1>. QED
  BY <1>1, <1>7 DEF ToldStep

(* A pipeline that is left alone has not moved;                            *)
LEMMA StaysPut ==
  ASSUME arranged \in Cases, NEW q, GoodPipe(q)
  PROVE  Moves(q, q, <<>>, <<>>, {})
<1>1. q.seen = q.seen \cup {}
  OBVIOUS
<1>. QED
  BY <1>1, Stays

(* nor has one that is stopped;                                            *)
LEMMA StoppedMoves ==
  ASSUME arranged \in Cases, NEW L, NEW q, Sifted(q, {}, L), NEW a, a = Stopped(q)
  PROVE  /\ Sifted(a, {}, L) /\ Moves(q, a, <<>>, <<>>, {})
         /\ a.buffer = q.buffer /\ a.held = q.held /\ a.chain = q.chain /\ a.sent = q.sent /\ a.seen = q.seen
         /\ a.streamed = q.streamed /\ a.aborted = q.aborted
<1>1. GoodPipe(q) /\ q \in PipeRec
  BY PipeFields DEF Sifted
<1>2. /\ a \in PipeRec /\ a.armed = FALSE /\ a.buffer = q.buffer /\ a.held = q.held /\ a.chain = q.chain
      /\ a.sent = q.sent /\ a.seen = q.seen /\ a.streamed = q.streamed /\ a.aborted = q.aborted
      /\ a.overdue = q.overdue /\ a.awaited = q.awaited
  BY <1>1 DEF PipeRec, Stopped
<1>3. GoodPipe(a)
  BY <1>1, <1>2 DEF GoodPipe
<1>4. Spread(a) = Spread(q) /\ Line(a) = Line(q) /\ a.seen = q.seen \cup {} /\ Flat(a.chain) = Flat(q.chain)
  BY <1>2 DEF Spread, Sent, Line
<1>5. Moves(q, a, <<>>, <<>>, {})
  BY <1>1, <1>2, <1>3, <1>4, Stays
<1>6. Sifted(a, {}, L)
  BY <1>2, <1>3, <1>4 DEF Sifted, Placed
<1>. QED
  BY <1>2, <1>5, <1>6

(* nor, but for the audio it held, one that is flushed.                    *)
LEMMA FlushedMoves ==
  ASSUME arranged \in Cases, NEW L, NEW q, Sifted(q, {}, L), NEW a, a = Flushed(q)
  PROVE  /\ Sifted(a, {}, L) /\ \E m : Moves(q, a, <<>>, m, {})
         /\ arranged.streaming => a.buffer = <<>> /\ a.held = <<>>
         /\ ~arranged.streaming => a = q
<1>1. CASE arranged.streaming
  <2>1. a = Flush(q)
    BY <1>1 DEF Flushed
  <2>. QED
    BY <1>1, <2>1, FlushMoves
<1>2. CASE ~arranged.streaming
  <2>1. a = q /\ GoodPipe(q)
    BY <1>2 DEF Flushed, Sifted
  <2>2. Moves(q, q, <<>>, <<>>, {})
    BY <2>1, StaysPut
  <2>. QED
    BY <1>2, <2>1, <2>2
<1>. QED
  BY <1>1, <1>2

(* A step of the run, before there is an answer.                           *)
LEMMA BusyTold ==
  ASSUME arranged \in Cases, NEW d, NEW r, NEW q, NEW o, GoodOut(o), NEW h \in Payloads,
         Told(d, r, q, o, h),
         NEW s, NEW a, Sifted(a, {}, Gone(r)), NEW x, NEW m, NEW N, Moves(q, a, x, m, N),
         Sorted(d, s, a), Over(s, a), Idles(s, a), s.stage \notin {"none", "arrived"},
         ~Answered(r), ~Answered(s), s.tools = r.tools, s.finals = r.finals, s.failed = r.failed,
         s.lost = r.lost,
         ToolsOf(s.said) = ToolsOf(r.said),
         InStream(s, a) /\ Streaming(r, q, o, h) =>
           /\ TextsOf(s.said) = TextsOf(r.said) \o x
           /\ Elements(s.said) \cap Texts \subseteq a.seen
           /\ (Elements(s.said) \cap Talk) \ arranged.unreadable \subseteq a.seen \cup s.staging
  PROVE  Told(d, s, a, o, h)
<1>1. /\ GoodPipe(q) /\ GoodPipe(a) /\ s.finals = <<>> /\ a.aborted = q.aborted /\ Sent(a) = Sent(q)
      /\ Sifted(a, {}, Gone(s))
  BY DEF Told, Sifted, Over, Moves, Answered, Sent, Gone
<1>2. Fresh(s, a, o, h)
  BY DEF Fresh
<1>3. ASSUME ~o.failed
      PROVE  Streaming(s, a, o, h) /\ ToolsKept(s, o, h) /\ AnswerKept(s, o, h) /\ FinalKept(s, a, o, h)
  <2>0. Streaming(r, q, o, h) /\ ToolsKept(r, o, h) /\ AnswerKept(r, o, h) /\ FinalKept(r, q, o, h)
    BY <1>3 DEF Told
  <2>1. InStream(s, a) =>
          /\ InStream(r, q) /\ TextsOf(s.said) = TextsOf(r.said) \o x
          /\ Elements(s.said) \cap Texts \subseteq a.seen
          /\ (Elements(s.said) \cap Talk) \ arranged.unreadable \subseteq a.seen \cup s.staging
          /\ s.finals = <<>>
    BY <1>1, <2>0 DEF InStream
  <2>2. Streaming(s, a, o, h)
    BY <1>1, <2>0, <2>1, StreamMoves
  <2>3. ToolsKept(s, o, h)
    BY <2>0 DEF ToolsKept
  <2>4. AnswerKept(s, o, h)
    BY <2>0 DEF AnswerKept
  <2>5. FinalKept(s, a, o, h)
    BY <1>1, <2>0 DEF FinalKept, Readable, Missed
  <2>. QED
    BY <2>2, <2>3, <2>4, <2>5
<1>. QED
  BY <1>1, <1>2, <1>3 DEF Told

(* A run adds a piece to what it has said: last to the final answer, and   *)
(* to what was said unless it was said before.                             *)
Adds(r, s, p) ==
  /\ s.tools = r.tools /\ s.finals = r.finals /\ s.failed = r.failed /\ s.late = r.late /\ s.lost = r.lost
  /\ Elements(s.final) = Elements(r.final) \cup {p} /\ Elements(s.said) = Elements(r.said) \cup {p}
  /\ p \in Talk => ToolsOf(s.said) = ToolsOf(r.said)
  /\ p \in Media \/ p \in Elements(r.said) => TextsOf(s.said) = TextsOf(r.said)
  /\ p \in Texts /\ p \notin Elements(r.said) => TextsOf(s.said) = TextsOf(r.said) \o <<p>>

(* Saying is adding.                                                       *)
LEMMA SaidIs ==
  ASSUME arranged \in Cases, NEW r \in RunRec, NEW j \in Nat, NEW p \in Pieces, NEW s, s = Said(r, j, p)
  PROVE  s \in RunRec /\ s.at = j /\ s.stage = r.stage /\ s.staging = r.staging /\ Adds(r, s, p)
<1>0. r.said \in Payloads /\ r.final \in Payloads
  BY RunFields
<1>1. /\ s \in RunRec /\ s.at = j /\ s.stage = r.stage /\ s.staging = r.staging /\ s.tools = r.tools
      /\ s.late = r.late /\ s.failed = r.failed /\ s.lost = r.lost
  BY Says
<1>2. s.final = Append(r.final, p) /\ s.said = FirstSaid(r, p) /\ s.finals = r.finals
  <2>. DEFINE f == Append(r.final, p)
              w == FirstSaid(r, p)
  <2>1. s = [r EXCEPT !.at = j, !.final = f, !.said = w]
    BY DEF Said
  <2>. HIDE DEF f, w
  <2>2. s.final = f /\ s.said = w /\ s.finals = r.finals
    BY <2>1 DEF RunRec
  <2>. QED
    BY <2>2 DEF f, w
<1>3. /\ <<p>> \in Payloads /\ Elements(<<p>>) = {p}
      /\ Append(r.said, p) = r.said \o <<p>>
      /\ Elements(Append(r.said, p)) = Elements(r.said) \cup {p}
      /\ Elements(Append(r.final, p)) = Elements(r.final) \cup {p}
  BY <1>0, PieceJoins
<1>4. CASE p \in Elements(r.said)
  <2>1. s.said = r.said
    BY <1>2, <1>4 DEF FirstSaid
  <2>. QED
    BY <1>1, <1>2, <1>3, <1>4, <2>1 DEF Adds
<1>5. CASE p \notin Elements(r.said)
  <2>1. s.said = r.said \o <<p>>
    BY <1>2, <1>3, <1>5 DEF FirstSaid
  <2>2. TextsOf(r.said \o <<p>>) = TextsOf(r.said) \o TextsOf(<<p>>) /\ TextsOf(r.said) \in Payloads
    BY <1>0, <1>3, TextsOfIs
  <2>3. ToolsOf(r.said \o <<p>>) = ToolsOf(r.said) \o ToolsOf(<<p>>) /\ ToolsOf(r.said) \in Payloads
    BY <1>0, <1>3, ToolsOfIs
  <2>4. ASSUME p \in Talk PROVE ToolsOf(<<p>>) = <<>>
    <3>1. Elements(<<p>>) \cap Tools = {}
      BY <1>3, <2>4 DEF Talk
    <3>. QED
      BY <1>3, <3>1, ToolsOfIs
  <2>5. ASSUME p \in Media PROVE TextsOf(<<p>>) = <<>>
    <3>1. p \notin Texts /\ p # Trouble
      BY <2>5, KindsAre
    <3>2. Elements(<<p>>) \cap (Texts \cup {Trouble}) = {}
      BY <1>3, <3>1
    <3>. QED
      BY <1>3, <3>2, TextsOfIs
  <2>6. ASSUME p \in Texts PROVE TextsOf(<<p>>) = <<p>>
    BY <1>3, <2>6, TextsOfIs
  <2>7. TextsOf(r.said) \o <<>> = TextsOf(r.said) /\ ToolsOf(r.said) \o <<>> = ToolsOf(r.said)
    BY <2>2, <2>3, PayloadJoins
  <2>. QED
    BY <1>1, <1>2, <1>3, <1>5, <2>1, <2>2, <2>3, <2>4, <2>5, <2>6, <2>7 DEF Adds
<1>. QED
  BY <1>4, <1>5

(* A step on which nothing is said.                                        *)
LEMMA SilentlyTold ==
  ASSUME arranged \in Cases, NEW d, NEW r \in RunRec, NEW q, NEW o, GoodOut(o), NEW h \in Payloads,
         Told(d, r, q, o, h),
         NEW s, NEW a, Sifted(a, {}, Gone(r)), NEW m, Moves(q, a, <<>>, m, {}),
         Over(s, a), Idles(s, a), s.stage \notin {"none", "arrived"},
         s.stage = "tool" => Script(d)[s.at] \in Tools,
         ~Answered(r), ~Answered(s), s.tools = r.tools, s.finals = r.finals, s.failed = r.failed,
         s.lost = r.lost,
         s.said = r.said, s.final = r.final, s.staging = r.staging
  PROVE  Told(d, s, a, o, h)
<1>1. a.seen \subseteq q.seen /\ a.aborted = q.aborted /\ (~q.aborted => a.seen = q.seen)
  BY DEF Moves, Extends
<1>2. Sorted(d, s, a)
  BY <1>1 DEF Told, Sorted
<1>3. TextsOf(s.said) = TextsOf(r.said) \o <<>>
  <2>1. TextsOf(r.said) \in Payloads
    BY RunFields, TextsOfIs
  <2>. QED
    BY <2>1, PayloadJoins
<1>4. InStream(s, a) /\ Streaming(r, q, o, h) =>
        /\ TextsOf(s.said) = TextsOf(r.said) \o <<>>
        /\ Elements(s.said) \cap Texts \subseteq a.seen
        /\ (Elements(s.said) \cap Talk) \ arranged.unreadable \subseteq a.seen \cup s.staging
  <2>1. InStream(s, a) => InStream(r, q) /\ ~q.aborted
    BY <1>1 DEF InStream
  <2>. QED
    BY <1>1, <1>3, <2>1 DEF Streaming, Reached
<1>. QED
  BY <1>2, <1>4, BusyTold

(* a tool starts,                                                          *)
LEMMA ToolStartsTold ==
  ASSUME NEW d \in Replies, Telling(d), ToolStarts(d)
  PROVE  ToldStep(d)
<1>0. PICK j \in Ahead(d) : /\ Kind(Script(d)[j]) = "tool"
                            /\ run' = [run EXCEPT ![d].stage = "tool", ![d].at = j]
                            /\ pipe' = [pipe EXCEPT ![d] = Flushed(@)]
  BY DEF ToolStarts
<1>a. j \in Nat /\ Script(d)[j] \in Tools
  BY <1>0, Knowing, CaseFacts DEF Tools
<1>. DEFINE r == [run[d] EXCEPT !.stage = "tool", !.at = j]
            q == Flushed(pipe[d])
<1>1. After(d, r, q, out[d], heard[d])
  <2>1. run' = [run EXCEPT ![d] = r] /\ pipe' = [pipe EXCEPT ![d] = q]
    BY <1>0
  <2>. HIDE DEF r, q
  <2>. QED
    BY <2>1, Knowing, Untouched DEF After, ToolStarts
<1>2. /\ r.stage = "tool" /\ r.final = run[d].final /\ r.said = run[d].said
      /\ r.tools = run[d].tools /\ r.finals = run[d].finals /\ r.staging = run[d].staging
      /\ r.failed = run[d].failed /\ r.late = run[d].late /\ r.at = j /\ r.lost = run[d].lost
  BY Knowing DEF RunRec
<1>3. /\ arranged \in Cases /\ Sifted(pipe[d], {}, Gone(run[d])) /\ run[d].stage = "talking" /\ run[d] \in RunRec
      /\ Over(run[d], pipe[d]) /\ Idles(run[d], pipe[d])
  BY Knowing DEF Told, ToolStarts
<1>4. /\ Sifted(q, {}, Gone(run[d]))
      /\ ~arranged.streaming => q = pipe[d]
      /\ arranged.streaming => q.buffer = <<>> /\ q.held = <<>>
  BY <1>3, FlushedMoves
<1>5. PICK m : Moves(pipe[d], q, <<>>, m, {})
  BY <1>3, FlushedMoves
<1>6. Told(d, r, q, out[d], heard[d])
  <2>. HIDE DEF r, q
  <2>1. Over(r, q)
    BY <1>2, <1>3, <1>4 DEF Over, Idles, Spoken
  <2>2. Idles(r, q)
    BY <1>2, <1>3, <1>4 DEF Idles
  <2>3. ~Answered(run[d]) /\ ~Answered(r) /\ r.stage \notin {"none", "arrived"}
    BY <1>2, <1>3 DEF Answered
  <2>4. GoodOut(out[d]) /\ heard[d] \in Payloads /\ Told(d, run[d], pipe[d], out[d], heard[d])
    BY Knowing
  <2>5. r.stage = "tool" => Script(d)[r.at] \in Tools
    BY <1>2, <1>a
  <2>. QED
    BY <1>2, <1>3, <1>4, <1>5, <2>1, <2>2, <2>3, <2>4, <2>5, SilentlyTold
<1>. QED
  BY <1>1, <1>6 DEF ToldStep

(* the model ends,                                                         *)
LEMMA ModelEndsTold ==
  ASSUME NEW d \in Replies, Telling(d), ModelEnds(d)
  PROVE  ToldStep(d)
<1>. DEFINE r == [run[d] EXCEPT !.stage = "ending"]
            q == Flushed(pipe[d])
<1>1. After(d, r, q, out[d], heard[d])
  BY Knowing, Untouched DEF After, ModelEnds
<1>2. /\ r.stage = "ending" /\ r.final = run[d].final /\ r.said = run[d].said
      /\ r.tools = run[d].tools /\ r.finals = run[d].finals /\ r.staging = run[d].staging
      /\ r.failed = run[d].failed /\ r.late = run[d].late /\ r.lost = run[d].lost
  BY Knowing DEF RunRec
<1>3. /\ arranged \in Cases /\ Sifted(pipe[d], {}, Gone(run[d])) /\ run[d].stage = "talking" /\ run[d] \in RunRec
      /\ Over(run[d], pipe[d]) /\ Idles(run[d], pipe[d])
  BY Knowing DEF Told, ModelEnds
<1>4. /\ Sifted(q, {}, Gone(run[d]))
      /\ ~arranged.streaming => q = pipe[d]
      /\ arranged.streaming => q.buffer = <<>> /\ q.held = <<>>
  BY <1>3, FlushedMoves
<1>5. PICK m : Moves(pipe[d], q, <<>>, m, {})
  BY <1>3, FlushedMoves
<1>6. Told(d, r, q, out[d], heard[d])
  <2>. HIDE DEF r, q
  <2>1. Over(r, q)
    BY <1>2, <1>3, <1>4 DEF Over, Idles, Spoken
  <2>2. Idles(r, q)
    BY <1>2, <1>3, <1>4 DEF Idles
  <2>3. ~Answered(run[d]) /\ ~Answered(r) /\ r.stage \notin {"none", "arrived"}
    BY <1>2, <1>3 DEF Answered
  <2>4. GoodOut(out[d]) /\ heard[d] \in Payloads /\ Told(d, run[d], pipe[d], out[d], heard[d])
    BY Knowing
  <2>5. r.stage = "tool" => Script(d)[r.at] \in Tools
    BY <1>2
  <2>. QED
    BY <1>2, <1>3, <1>4, <1>5, <2>1, <2>2, <2>3, <2>4, <2>5, SilentlyTold
<1>. QED
  BY <1>1, <1>6 DEF ToldStep

(* the run ends,                                                           *)
LEMMA RunEndsTold ==
  ASSUME NEW d \in Replies, Telling(d), RunEnds(d)
  PROVE  ToldStep(d)
<1>. DEFINE r == [run[d] EXCEPT !.stage = "flushing", !.late = run[d].staging # {}]
            q == Flushed(pipe[d])
<1>1. After(d, r, q, out[d], heard[d])
  BY Knowing, Untouched DEF After, RunEnds
<1>2. /\ r.stage = "flushing" /\ r.final = run[d].final /\ r.said = run[d].said
      /\ r.tools = run[d].tools /\ r.finals = run[d].finals /\ r.staging = run[d].staging
      /\ r.failed = run[d].failed /\ r.late = (run[d].staging # {}) /\ r.lost = run[d].lost
  BY Knowing DEF RunRec
<1>3. /\ arranged \in Cases /\ Sifted(pipe[d], {}, Gone(run[d])) /\ run[d].stage = "ending" /\ run[d] \in RunRec
      /\ Over(run[d], pipe[d]) /\ Idles(run[d], pipe[d])
  BY Knowing DEF Told, RunEnds
<1>4. /\ Sifted(q, {}, Gone(run[d]))
      /\ ~arranged.streaming => q = pipe[d]
      /\ arranged.streaming => q.buffer = <<>> /\ q.held = <<>>
  BY <1>3, FlushedMoves
<1>5. PICK m : Moves(pipe[d], q, <<>>, m, {})
  BY <1>3, FlushedMoves
<1>6. Told(d, r, q, out[d], heard[d])
  <2>. HIDE DEF r, q
  <2>1. Over(r, q)
    BY <1>2, <1>3, <1>4 DEF Over, Idles, Spoken
  <2>2. Idles(r, q)
    BY <1>2, <1>3, <1>4 DEF Idles
  <2>3. ~Answered(run[d]) /\ ~Answered(r) /\ r.stage \notin {"none", "arrived"}
    BY <1>2, <1>3 DEF Answered
  <2>4. GoodOut(out[d]) /\ heard[d] \in Payloads /\ Told(d, run[d], pipe[d], out[d], heard[d])
    BY Knowing
  <2>5. r.stage = "tool" => Script(d)[r.at] \in Tools
    BY <1>2
  <2>. QED
    BY <1>2, <1>3, <1>4, <1>5, <2>1, <2>2, <2>3, <2>4, <2>5, SilentlyTold
<1>. QED
  BY <1>1, <1>6 DEF ToldStep

(* its pipeline stops,                                                     *)
LEMMA StopsTold ==
  ASSUME NEW d \in Replies, Telling(d), PipelineStops(d)
  PROVE  ToldStep(d)
<1>. DEFINE r == [run[d] EXCEPT !.stage = "settling"]
            q == Stopped(pipe[d])
<1>1. After(d, r, q, out[d], heard[d])
  BY Knowing, Untouched DEF After, PipelineStops
<1>2. /\ r.stage = "settling" /\ r.final = run[d].final /\ r.said = run[d].said
      /\ r.tools = run[d].tools /\ r.finals = run[d].finals /\ r.staging = run[d].staging
      /\ r.failed = run[d].failed /\ r.late = run[d].late /\ r.lost = run[d].lost
  BY Knowing DEF RunRec
<1>3. /\ arranged \in Cases /\ Sifted(pipe[d], {}, Gone(run[d])) /\ run[d].stage = "flushing" /\ run[d] \in RunRec
      /\ Over(run[d], pipe[d]) /\ Idles(run[d], pipe[d])
  BY Knowing DEF Told, PipelineStops
<1>4. /\ Sifted(q, {}, Gone(run[d])) /\ q.buffer = pipe[d].buffer /\ q.held = pipe[d].held /\ q.chain = pipe[d].chain
      /\ q.sent = pipe[d].sent /\ q.streamed = pipe[d].streamed /\ q.aborted = pipe[d].aborted
  BY <1>3, StoppedMoves
<1>5. Moves(pipe[d], q, <<>>, <<>>, {})
  BY <1>3, StoppedMoves
<1>6. Told(d, r, q, out[d], heard[d])
  <2>. HIDE DEF r, q
  <2>1. Over(r, q)
    BY <1>2, <1>3, <1>4 DEF Over, Idles, Spoken
  <2>2. Idles(r, q)
    BY <1>2, <1>3, <1>4 DEF Idles
  <2>3. ~Answered(run[d]) /\ ~Answered(r) /\ r.stage \notin {"none", "arrived"}
    BY <1>2, <1>3 DEF Answered
  <2>4. GoodOut(out[d]) /\ heard[d] \in Payloads /\ Told(d, run[d], pipe[d], out[d], heard[d])
    BY Knowing
  <2>5. r.stage = "tool" => Script(d)[r.at] \in Tools
    BY <1>2
  <2>. QED
    BY <1>2, <1>3, <1>4, <1>5, <2>1, <2>2, <2>3, <2>4, <2>5, SilentlyTold
<1>. QED
  BY <1>1, <1>6 DEF ToldStep

(* A text that is said and enqueued, maybe behind a flush that made b of   *)
(* the pipeline q.                                                         *)
TakesText(d, r, s, p, q, b, m, how, a) ==
  /\ arranged.streaming /\ r.stage = "talking" /\ s.stage \in {"talking", "tool"}
  /\ s.stage = "tool" => Script(d)[s.at] \in Tools
  /\ p \in Texts /\ s.staging = r.staging /\ Adds(r, s, p)
  /\ Sifted(b, {}, Gone(r)) /\ Moves(q, b, <<>>, m, {})
  /\ how \in Hows /\ a = EnqueueText(b, p, how)

(* It is then on its way, unless it was before.                            *)
LEMMA TextTold ==
  ASSUME arranged \in Cases, NEW d, NEW r \in RunRec, NEW q, NEW o, GoodOut(o), NEW h \in Payloads,
         Told(d, r, q, o, h), NEW s, NEW p, NEW b, NEW m, NEW how, NEW a, TakesText(d, r, s, p, q, b, m, how, a)
  PROVE  Told(d, s, a, o, h)
<1>0. /\ arranged.streaming /\ r.stage = "talking" /\ s.stage \in {"talking", "tool"}
      /\ s.stage = "tool" => Script(d)[s.at] \in Tools
      /\ p \in Texts /\ s.staging = r.staging /\ Adds(r, s, p)
      /\ Sifted(b, {}, Gone(r)) /\ Moves(q, b, <<>>, m, {})
      /\ how \in Hows /\ a = EnqueueText(b, p, how)
  BY DEF TakesText
<1>. DEFINE x == IF p \in b.seen THEN <<>> ELSE <<p>>
<1>1. GoodPipe(q) /\ GoodPipe(b) /\ m \in Payloads
  BY <1>0 DEF Told, Sifted, Moves
<1>2. Sifted(a, {}, Gone(r)) /\ Moves(b, a, x, <<>>, {p}) /\ GoodPipe(a)
  BY <1>0, EnqueueTextMoves DEF Sifted
<1>. HIDE DEF x
<1>3. Moves(q, a, x, m, {p})
  <2>1. Moves(q, a, <<>> \o x, m \o <<>>, {} \cup {p})
    BY <1>0, <1>1, <1>2, MovesOn
  <2>2. x \in Payloads
    BY <1>0, <1>2 DEF Moves
  <2>3. <<>> \o x = x /\ m \o <<>> = m /\ {} \cup {p} = {p}
    BY <1>0, <1>1, <2>2, PayloadJoins
  <2>. QED
    BY <1>0, <2>1, <2>3
<1>4. /\ a.aborted = q.aborted /\ a.seen \subseteq q.seen \cup {p}
      /\ ~q.aborted => a.seen = q.seen \cup {p} /\ b.seen = q.seen
  BY <1>0, <1>3 DEF Moves, Extends
<1>5. Sorted(d, r, q) /\ Over(r, q) /\ p \in Talk /\ p \notin arranged.unreadable
  BY <1>0, KindsAre, UnreadableAre DEF Told
<1>6. Sorted(d, s, a)
  BY <1>0, <1>4, <1>5 DEF Sorted, Adds
<1>7. Over(s, a) /\ Idles(s, a) /\ ~Answered(r) /\ ~Answered(s) /\ s.stage \notin {"none", "arrived"}
  BY <1>0, <1>5 DEF Over, Idles, Spoken, Answered, Adds
<1>8. InStream(s, a) /\ Streaming(r, q, o, h) =>
        /\ TextsOf(s.said) = TextsOf(r.said) \o x
        /\ Elements(s.said) \cap Texts \subseteq a.seen
        /\ (Elements(s.said) \cap Talk) \ arranged.unreadable \subseteq a.seen \cup s.staging
  <2>. SUFFICES ASSUME InStream(s, a), Streaming(r, q, o, h)
                PROVE  /\ TextsOf(s.said) = TextsOf(r.said) \o x
                       /\ Elements(s.said) \cap Texts \subseteq a.seen
                       /\ (Elements(s.said) \cap Talk) \ arranged.unreadable \subseteq a.seen \cup s.staging
    OBVIOUS
  <2>1. ~q.aborted /\ InStream(r, q)
    BY <1>0, <1>4, <1>7 DEF InStream, Adds
  <2>2. Reached(r, q, o, h)
    BY <1>0, <2>1 DEF Streaming
  <2>3. p \in Elements(r.said) <=> p \in b.seen
    BY <1>0, <1>4, <1>5, <2>1, <2>2 DEF Reached, Sorted
  <2>4. TextsOf(r.said) \in Payloads
    BY <1>0, RunFields, TextsOfIs
  <2>5. TextsOf(r.said) \o <<>> = TextsOf(r.said)
    BY <1>0, <2>4, PayloadJoins
  <2>. QED
    BY <1>0, <1>4, <2>1, <2>2, <2>3, <2>5 DEF Reached, x, Adds
<1>9. /\ s.tools = r.tools /\ s.finals = r.finals /\ s.failed = r.failed /\ s.lost = r.lost
      /\ ToolsOf(s.said) = ToolsOf(r.said)
  BY <1>0, <1>5 DEF Adds
<1>. QED
  BY <1>0, <1>1, <1>2, <1>3, <1>6, <1>7, <1>8, <1>9, BusyTold

(* a text is said,                                                         *)
LEMMA SayTextTold ==
  ASSUME NEW d \in Replies, Telling(d), SayText(d)
  PROVE  ToldStep(d)
<1>1. PICK j \in Ahead(d) :
        /\ Kind(Script(d)[j]) = "text"
        /\ run' = [run EXCEPT ![d] = Said(run[d], j, Script(d)[j])]
        /\ IF arranged.streaming
           THEN \E how \in arranged.coalescing :
                  pipe' = [pipe EXCEPT ![d] = EnqueueText(pipe[d], Script(d)[j], how)]
           ELSE pipe' = pipe
  BY DEF SayText
<1>. DEFINE p == Script(d)[j]
            r == Said(run[d], j, p)
<1>2. /\ arranged \in Cases /\ GoodOut(out[d]) /\ heard[d] \in Payloads /\ run[d] \in RunRec
      /\ Told(d, run[d], pipe[d], out[d], heard[d]) /\ Sifted(pipe[d], {}, Gone(run[d])) /\ GoodPipe(pipe[d])
      /\ run[d].stage = "talking"
  BY Knowing DEF SayText, Told
<1>3. j \in Nat /\ p \in Pieces /\ p \in Texts /\ p \in Talk
  BY <1>1, <1>2, CaseFacts, KindsAre DEF Texts
<1>. HIDE DEF p
<1>4. r.stage = run[d].stage /\ r.staging = run[d].staging /\ Adds(run[d], r, p)
  BY <1>2, <1>3, SaidIs
<1>. HIDE DEF r
<1>5. Moves(pipe[d], pipe[d], <<>>, <<>>, {})
  BY <1>2, StaysPut
<1>6. CASE arranged.streaming
  <2>1. PICK how \in arranged.coalescing : pipe' = [pipe EXCEPT ![d] = EnqueueText(pipe[d], p, how)]
    BY <1>1, <1>6 DEF p
  <2>. DEFINE q == EnqueueText(pipe[d], p, how)
  <2>2. how \in Hows
    BY <1>2, CaseFacts
  <2>3. After(d, r, q, out[d], heard[d])
    BY <1>1, <2>1, Knowing, Untouched DEF After, SayText, r, p
  <2>4. TakesText(d, run[d], r, p, pipe[d], pipe[d], <<>>, how, q)
    BY <1>2, <1>3, <1>4, <1>5, <1>6, <2>2 DEF TakesText
  <2>5. Told(d, r, q, out[d], heard[d])
    <3>. HIDE DEF q
    <3>. QED
      BY <1>2, <2>4, TextTold
  <2>. QED
    BY <2>3, <2>5 DEF ToldStep
<1>7. CASE ~arranged.streaming
  <2>1. After(d, r, pipe[d], out[d], heard[d])
    BY <1>1, <1>7, Knowing, Untouched DEF After, SayText, r, p
  <2>2. Sorted(d, r, pipe[d])
    BY <1>2, <1>3, <1>4 DEF Told, Sorted, Adds
  <2>3. Over(r, pipe[d]) /\ Idles(r, pipe[d]) /\ r.stage \notin {"none", "arrived"}
    BY <1>2, <1>4 DEF Told, Over, Idles, Spoken, Adds
  <2>4. ~InStream(r, pipe[d]) /\ ~Answered(run[d]) /\ ~Answered(r)
    BY <1>2, <1>4, <1>7 DEF InStream, Answered
  <2>5. /\ r.tools = run[d].tools /\ r.finals = run[d].finals /\ r.failed = run[d].failed /\ r.lost = run[d].lost
        /\ ToolsOf(r.said) = ToolsOf(run[d].said)
    BY <1>3, <1>4 DEF Adds
  <2>6. Told(d, r, pipe[d], out[d], heard[d])
    BY <1>2, <1>5, <2>2, <2>3, <2>4, <2>5, BusyTold
  <2>. QED
    BY <2>1, <2>6 DEF ToldStep
<1>. QED
  BY <1>6, <1>7

(* or one that a tool pushes out,                                          *)
LEMMA SayBeforeToolTold ==
  ASSUME NEW d \in Replies, Telling(d), SayBeforeTool(d)
  PROVE  ToldStep(d)
<1>1. PICK j \in Ahead(d), how \in arranged.coalescing :
        /\ j + 1 \in Ahead(d) /\ Kind(Script(d)[j]) = "text" /\ Kind(Script(d)[j + 1]) = "tool"
        /\ run' = [run EXCEPT ![d] = [Said(run[d], j + 1, Script(d)[j]) EXCEPT !.stage = "tool"]]
        /\ pipe' = [pipe EXCEPT ![d] = EnqueueText(Flush(pipe[d]), Script(d)[j], how)]
  BY DEF SayBeforeTool
<1>. DEFINE p == Script(d)[j]
            s == Said(run[d], j + 1, p)
            r == [s EXCEPT !.stage = "tool"]
            b == Flush(pipe[d])
            q == EnqueueText(b, p, how)
<1>2. /\ arranged \in Cases /\ GoodOut(out[d]) /\ heard[d] \in Payloads /\ run[d] \in RunRec
      /\ Told(d, run[d], pipe[d], out[d], heard[d]) /\ Sifted(pipe[d], {}, Gone(run[d])) /\ GoodPipe(pipe[d])
      /\ run[d].stage = "talking" /\ arranged.streaming
  BY Knowing DEF SayBeforeTool, Told
<1>3. j + 1 \in Nat /\ p \in Pieces /\ p \in Texts /\ p \in Talk /\ Script(d)[j + 1] \in Tools /\ how \in Hows
  BY <1>1, <1>2, CaseFacts, KindsAre DEF Texts, Tools
<1>4. After(d, r, q, out[d], heard[d])
  BY <1>1, Knowing, Untouched DEF After, SayBeforeTool
<1>. HIDE DEF p
<1>5. s \in RunRec /\ s.at = j + 1 /\ s.staging = run[d].staging /\ Adds(run[d], s, p)
  BY <1>2, <1>3, SaidIs
<1>. HIDE DEF s
<1>6. /\ r.stage = "tool" /\ r.at = s.at /\ r.staging = s.staging /\ r.tools = s.tools
      /\ r.late = s.late /\ r.lost = s.lost
      /\ r.failed = s.failed /\ r.finals = s.finals /\ r.final = s.final /\ r.said = s.said
  BY <1>5 DEF RunRec
<1>. HIDE DEF r, b
<1>7. Sifted(b, {}, Gone(run[d])) /\ \E m : Moves(pipe[d], b, <<>>, m, {})
  BY <1>2, FlushMoves DEF b
<1>8. PICK m : Moves(pipe[d], b, <<>>, m, {})
  BY <1>7
<1>9. Told(d, r, q, out[d], heard[d])
  <2>1. Adds(run[d], r, p) /\ r.stage = "tool" /\ r.staging = run[d].staging /\ Script(d)[r.at] \in Tools
    BY <1>3, <1>5, <1>6 DEF Adds
  <2>2. TakesText(d, run[d], r, p, pipe[d], b, m, how, q)
    BY <1>2, <1>3, <1>7, <1>8, <2>1 DEF TakesText
  <2>. HIDE DEF q
  <2>. QED
    BY <1>2, <2>2, TextTold
<1>. QED
  BY <1>4, <1>9 DEF ToldStep

(* or media, which is looked up first,                                     *)
LEMMA SayMediaTold ==
  ASSUME NEW d \in Replies, Telling(d), SayMedia(d)
  PROVE  ToldStep(d)
<1>1. PICK j \in Ahead(d) :
        /\ Kind(Script(d)[j]) \in {"image", "audio"}
        /\ run' = [run EXCEPT ![d] = [Said(run[d], j, Script(d)[j]) EXCEPT
                     !.staging = IF arranged.streaming THEN @ \cup {Script(d)[j]} ELSE @]]
  BY DEF SayMedia
<1>. DEFINE p == Script(d)[j]
            s == Said(run[d], j, p)
            w == IF arranged.streaming THEN s.staging \cup {p} ELSE s.staging
            r == [s EXCEPT !.staging = w]
<1>2. /\ arranged \in Cases /\ GoodOut(out[d]) /\ heard[d] \in Payloads /\ run[d] \in RunRec
      /\ Told(d, run[d], pipe[d], out[d], heard[d]) /\ Sifted(pipe[d], {}, Gone(run[d])) /\ GoodPipe(pipe[d])
      /\ run[d].stage = "talking"
  BY Knowing DEF SayMedia, Told
<1>3. j \in Nat /\ p \in Pieces /\ p \in Media /\ p \in Talk /\ p \notin Texts
  BY <1>1, <1>2, CaseFacts, KindsAre DEF Media
<1>4. After(d, r, pipe[d], out[d], heard[d])
  BY <1>1, Knowing, Untouched DEF After, SayMedia
<1>. HIDE DEF p
<1>a. s \in RunRec /\ s.stage = run[d].stage /\ s.staging = run[d].staging /\ Adds(run[d], s, p)
  BY <1>2, <1>3, SaidIs
<1>5. /\ s \in RunRec /\ s.stage = run[d].stage /\ s.staging = run[d].staging /\ s.tools = run[d].tools
      /\ s.failed = run[d].failed /\ s.finals = run[d].finals /\ s.lost = run[d].lost
      /\ Elements(s.final) = Elements(run[d].final) \cup {p}
      /\ Elements(s.said) = Elements(run[d].said) \cup {p}
      /\ ToolsOf(s.said) = ToolsOf(run[d].said) /\ TextsOf(s.said) = TextsOf(run[d].said)
  BY <1>3, <1>a DEF Adds
<1>. HIDE DEF s, w
<1>6. /\ r.stage = "talking" /\ r.staging = w /\ r.tools = s.tools /\ r.lost = s.lost
      /\ r.failed = s.failed /\ r.finals = s.finals /\ r.final = s.final /\ r.said = s.said
  BY <1>2, <1>5 DEF RunRec
<1>. HIDE DEF r
<1>7. Moves(pipe[d], pipe[d], <<>>, <<>>, {})
  BY <1>2, StaysPut
<1>8. Told(d, r, pipe[d], out[d], heard[d])
  <2>1. w \subseteq run[d].staging \cup {p}
    BY <1>5 DEF w
  <2>2. Sorted(d, r, pipe[d])
    BY <1>2, <1>3, <1>5, <1>6, <2>1 DEF Told, Sorted
  <2>3. Over(r, pipe[d]) /\ Idles(r, pipe[d]) /\ r.stage \notin {"none", "arrived"}
    BY <1>2, <1>5, <1>6 DEF Told, Over, Idles, Spoken, w
  <2>4. ~Answered(run[d]) /\ ~Answered(r)
    BY <1>2, <1>6 DEF Answered
  <2>5. InStream(r, pipe[d]) /\ Streaming(run[d], pipe[d], out[d], heard[d]) =>
          /\ TextsOf(r.said) = TextsOf(run[d].said) \o <<>>
          /\ Elements(r.said) \cap Texts \subseteq pipe[d].seen
          /\ (Elements(r.said) \cap Talk) \ arranged.unreadable \subseteq pipe[d].seen \cup r.staging
    <3>. SUFFICES ASSUME InStream(r, pipe[d]), Streaming(run[d], pipe[d], out[d], heard[d])
                  PROVE  /\ TextsOf(r.said) = TextsOf(run[d].said) \o <<>>
                         /\ Elements(r.said) \cap Texts \subseteq pipe[d].seen
                         /\ (Elements(r.said) \cap Talk) \ arranged.unreadable \subseteq pipe[d].seen \cup r.staging
      OBVIOUS
    <3>1. InStream(run[d], pipe[d]) /\ r.staging = run[d].staging \cup {p}
      BY <1>5, <1>6, <2>4 DEF InStream, w
    <3>2. TextsOf(run[d].said) \in Payloads
      BY <1>2, RunFields, TextsOfIs
    <3>3. TextsOf(run[d].said) \o <<>> = TextsOf(run[d].said)
      BY <3>2, PayloadJoins
    <3>. QED
      BY <1>3, <1>5, <1>6, <3>1, <3>3 DEF Streaming, Reached
  <2>. QED
    BY <1>2, <1>5, <1>6, <1>7, <2>2, <2>3, <2>4, <2>5, BusyTold
<1>. QED
  BY <1>4, <1>8 DEF ToldStep

(* the idle timer rings,                                                   *)
LEMMA IdleTold ==
  ASSUME NEW d \in Replies, Telling(d), IdleFlush(d)
  PROVE  ToldStep(d)
<1>. DEFINE q == FlushText(pipe[d])
<1>1. After(d, run[d], q, out[d], heard[d])
  BY Knowing, Untouched DEF After, IdleFlush
<1>2. /\ arranged \in Cases /\ Sifted(pipe[d], {}, Gone(run[d])) /\ GoodPipe(pipe[d]) /\ pipe[d].buffer # <<>>
      /\ GoodOut(out[d]) /\ heard[d] \in Payloads /\ run[d] \in RunRec
      /\ Told(d, run[d], pipe[d], out[d], heard[d]) /\ run[d].stage \notin {"none", "arrived"}
  BY Knowing DEF Told, IdleFlush, GoodPipe, Streams
<1>a. q = FlushText(pipe[d])
  OBVIOUS
<1>. HIDE DEF q
<1>3. Sifted(q, {}, Gone(run[d])) /\ Moves(pipe[d], q, <<>>, <<>>, {}) /\ q.buffer = <<>> /\ q.held = pipe[d].held
  <2>. DEFINE x == pipe[d]
              l == Gone(run[d])
              X == {}
  <2>1. arranged \in Cases /\ Sifted(x, X, l) /\ q = FlushText(x)
    BY <1>2, <1>a
  <2>. HIDE DEF x, l, X
  <2>2. Sifted(q, X, l) /\ Moves(x, q, <<>>, <<>>, {}) /\ q.buffer = <<>> /\ q.held = x.held
    BY ONLY <2>1, FlushTextMoves, ZenonT(40)
  <2>. QED
    BY <2>2 DEF x, l, X
<1>4. /\ q.aborted = pipe[d].aborted /\ q.streamed = pipe[d].streamed /\ Sent(q) = Sent(pipe[d])
      /\ q.seen \subseteq pipe[d].seen /\ (~q.aborted => q.seen = pipe[d].seen)
      /\ Elements(Flat(pipe[d].chain)) \subseteq Elements(Flat(q.chain)) /\ GoodPipe(q)
  BY <1>3 DEF Moves, Extends, Sent, Sifted
<1>5. arranged.streaming
  BY <1>2 DEF Told, Idles
<1>6. Told(d, run[d], q, out[d], heard[d])
  <2>1. Sorted(d, run[d], q) /\ Fresh(run[d], q, out[d], heard[d]) /\ Over(run[d], q) /\ Idles(run[d], q)
    BY <1>2, <1>3, <1>4, <1>5 DEF Told, Sorted, Fresh, Over, Idles
  <2>2. ASSUME ~out[d].failed
        PROVE  Streaming(run[d], q, out[d], heard[d]) /\ ToolsKept(run[d], out[d], heard[d])
               /\ AnswerKept(run[d], out[d], heard[d]) /\ FinalKept(run[d], q, out[d], heard[d])
    <3>0. /\ Streaming(run[d], pipe[d], out[d], heard[d]) /\ ToolsKept(run[d], out[d], heard[d])
          /\ AnswerKept(run[d], out[d], heard[d]) /\ FinalKept(run[d], pipe[d], out[d], heard[d])
      BY <1>2, <2>2 DEF Told
    <3>1. InStream(run[d], q) =>
            /\ InStream(run[d], pipe[d]) /\ TextsOf(run[d].said) = TextsOf(run[d].said) \o <<>>
            /\ Elements(run[d].said) \cap Texts \subseteq q.seen
            /\ (Elements(run[d].said) \cap Talk) \ arranged.unreadable \subseteq q.seen \cup run[d].staging
            /\ run[d].finals = <<>>
      <4>1. TextsOf(run[d].said) \in Payloads
        BY <1>2, RunFields, TextsOfIs
      <4>2. TextsOf(run[d].said) = TextsOf(run[d].said) \o <<>>
        BY <4>1, PayloadJoins
      <4>3. InStream(run[d], q) => InStream(run[d], pipe[d]) /\ ~q.aborted
        BY <1>4 DEF InStream
      <4>. QED
        BY <1>4, <3>0, <4>2, <4>3 DEF Streaming, Reached
    <3>2. Streaming(run[d], q, out[d], heard[d])
      BY <1>2, <1>3, <1>4, <3>0, <3>1, StreamMoves
    <3>3. FinalKept(run[d], q, out[d], heard[d])
      BY <1>4, <3>0 DEF FinalKept, Readable, Missed
    <3>. QED
      BY <3>0, <3>2, <3>3
  <2>. QED
    BY <1>3, <2>1, <2>2 DEF Told
<1>. QED
  BY <1>1, <1>6 DEF ToldStep

(* the media of a block has been looked up,                                *)
LEMMA StagedTold ==
  ASSUME NEW d \in Replies, Telling(d), MediaStaged(d)
  PROVE  ToldStep(d)
<1>1. PICK p \in run[d].staging :
        /\ run' = [run EXCEPT ![d].staging = @ \ {p}]
        /\ pipe' = IF p \in arranged.unreadable THEN pipe ELSE [pipe EXCEPT ![d] = EnqueueMedia(@, p)]
        /\ UNCHANGED <<arranged, out, heard, restart>>
  BY DEF MediaStaged
<1>. DEFINE r == [run[d] EXCEPT !.staging = @ \ {p}]
            q == EnqueueMedia(pipe[d], p)
<1>2. /\ arranged \in Cases /\ Sifted(pipe[d], {}, Gone(run[d])) /\ GoodPipe(pipe[d])
      /\ GoodOut(out[d]) /\ heard[d] \in Payloads /\ run[d] \in RunRec
      /\ Told(d, run[d], pipe[d], out[d], heard[d]) /\ run[d].stage \notin {"none", "arrived"}
      /\ Sorted(d, run[d], pipe[d]) /\ Over(run[d], pipe[d]) /\ Idles(run[d], pipe[d])
  BY <1>1, Knowing DEF Told, Streams
<1>3. /\ r.stage = run[d].stage /\ r.at = run[d].at /\ r.final = run[d].final /\ r.said = run[d].said
      /\ r.tools = run[d].tools /\ r.finals = run[d].finals /\ r.staging = run[d].staging \ {p}
      /\ r.failed = run[d].failed /\ r.late = run[d].late /\ r.lost = run[d].lost
  BY <1>2 DEF RunRec
<1>4. p \in Media /\ p \in Talk /\ arranged.streaming
  BY <1>1, <1>2, KindsAre DEF Sorted, Idles
<1>5. CASE p \in arranged.unreadable
  <2>1. After(d, r, pipe[d], out[d], heard[d])
    BY <1>1, <1>5, Knowing, Untouched DEF After
  <2>2. Told(d, r, pipe[d], out[d], heard[d])
    <3>. HIDE DEF r
    <3>1. Sorted(d, r, pipe[d]) /\ Fresh(r, pipe[d], out[d], heard[d]) /\ Over(r, pipe[d]) /\ Idles(r, pipe[d])
      BY <1>2, <1>3, <1>4 DEF Sorted, Fresh, Over, Idles, Spoken
    <3>2. ASSUME ~out[d].failed
          PROVE  Streaming(r, pipe[d], out[d], heard[d]) /\ ToolsKept(r, out[d], heard[d])
                 /\ AnswerKept(r, out[d], heard[d]) /\ FinalKept(r, pipe[d], out[d], heard[d])
      <4>0. /\ Streaming(run[d], pipe[d], out[d], heard[d]) /\ ToolsKept(run[d], out[d], heard[d])
            /\ AnswerKept(run[d], out[d], heard[d]) /\ FinalKept(run[d], pipe[d], out[d], heard[d])
        BY <1>2, <3>2 DEF Told
      <4>1. Streaming(r, pipe[d], out[d], heard[d])
        BY <1>3, <1>5, <4>0 DEF Streaming, InStream, Answered, TextsFlow, Reached
      <4>2. ToolsKept(r, out[d], heard[d]) /\ AnswerKept(r, out[d], heard[d])
        BY <1>3, <1>4, <4>0 DEF ToolsKept, AnswerKept
      <4>3. Readable(r) = Readable(run[d]) /\ p \notin Readable(r)
        BY <1>3, <1>5 DEF Readable
      <4>4. FinalKept(r, pipe[d], out[d], heard[d])
        BY <1>3, <4>0, <4>3 DEF FinalKept, Missed, Answered
      <4>. QED
        BY <4>1, <4>2, <4>4
    <3>3. Sifted(pipe[d], {}, Gone(r))
      BY <1>2, <1>3 DEF Gone
    <3>. QED
      BY <3>1, <3>2, <3>3 DEF Told
  <2>. QED
    BY <2>1, <2>2 DEF ToldStep
<1>6. CASE p \notin arranged.unreadable
  <2>1. After(d, r, q, out[d], heard[d])
    BY <1>1, <1>6, Knowing, Untouched DEF After
  <2>. HIDE DEF r
  <2>2. /\ Sifted(q, {}, Gone(run[d])) /\ q.buffer \in {pipe[d].buffer, <<>>}
        /\ \E m : Moves(pipe[d], q, <<>>, m, {p})
    BY <1>2, <1>4, EnqueueMediaMoves
  <2>. HIDE DEF q
  <2>3. PICK m : Moves(pipe[d], q, <<>>, m, {p})
    BY <2>2
  <2>4. /\ q.aborted = pipe[d].aborted /\ Sent(q) = Sent(pipe[d])
        /\ q.streamed = pipe[d].streamed
        /\ q.seen \subseteq pipe[d].seen \cup {p} /\ (~q.aborted => q.seen = pipe[d].seen \cup {p})
        /\ Elements(Flat(pipe[d].chain)) \subseteq Elements(Flat(q.chain)) /\ GoodPipe(q)
    BY <2>2, <2>3 DEF Moves, Extends, Sent, Sifted
  <2>5. Sorted(d, r, q) /\ Fresh(r, q, out[d], heard[d]) /\ Over(r, q) /\ Idles(r, q)
    <3>1. Sorted(d, r, q)
      BY <1>1, <1>2, <1>3, <1>6, <2>4 DEF Sorted
    <3>2. Over(r, q)
      BY <1>1, <1>2, <1>3, <2>2 DEF Over, Spoken
    <3>. QED
      BY <1>2, <1>3, <1>4, <3>1, <3>2 DEF Fresh, Idles
  <2>6. ASSUME ~out[d].failed
        PROVE  Streaming(r, q, out[d], heard[d]) /\ ToolsKept(r, out[d], heard[d])
               /\ AnswerKept(r, out[d], heard[d]) /\ FinalKept(r, q, out[d], heard[d])
    <3>0. /\ Streaming(run[d], pipe[d], out[d], heard[d]) /\ ToolsKept(run[d], out[d], heard[d])
          /\ AnswerKept(run[d], out[d], heard[d]) /\ FinalKept(run[d], pipe[d], out[d], heard[d])
      BY <1>2, <2>6 DEF Told
    <3>1. InStream(r, q) =>
            /\ InStream(run[d], pipe[d]) /\ TextsOf(r.said) = TextsOf(run[d].said) \o <<>>
            /\ Elements(r.said) \cap Texts \subseteq q.seen
            /\ (Elements(r.said) \cap Talk) \ arranged.unreadable \subseteq q.seen \cup r.staging
            /\ r.finals = <<>>
      <4>1. TextsOf(run[d].said) \in Payloads
        BY <1>2, RunFields, TextsOfIs
      <4>2. TextsOf(run[d].said) = TextsOf(run[d].said) \o <<>>
        BY <4>1, PayloadJoins
      <4>3. InStream(r, q) => InStream(run[d], pipe[d]) /\ ~q.aborted
        BY <1>3, <2>4 DEF InStream, Answered
      <4>. QED
        BY <1>3, <2>4, <3>0, <4>2, <4>3 DEF Streaming, Reached
    <3>2. Streaming(r, q, out[d], heard[d])
      BY <1>2, <2>3, <2>4, <3>0, <3>1, StreamMoves
    <3>3. ToolsKept(r, out[d], heard[d]) /\ AnswerKept(r, out[d], heard[d])
      BY <1>3, <1>4, <3>0 DEF ToolsKept, AnswerKept
    <3>4. FinalKept(r, q, out[d], heard[d])
      <4>1. /\ Sent(q) \subseteq Elements(Given(out[d], heard[d])) /\ Readable(r) = Readable(run[d])
            /\ Missed(r, q) = Missed(run[d], pipe[d]) /\ Answered(r) = Answered(run[d])
        BY <1>3, <2>4, <3>0 DEF FinalKept, Readable, Missed, Answered
      <4>2. Answered(r) /\ ~r.failed /\ ~q.streamed /\ ~q.aborted =>
              Readable(r) \subseteq Elements(Given(out[d], heard[d])) \cup Elements(Flat(r.finals))
        BY <1>3, <2>4, <3>0, <4>1 DEF FinalKept
      <4>3. ASSUME Answered(r), ~r.failed, ~Missed(r, q),
                   r.late => ~q.aborted /\ Elements(r.final) \cap Audio = {}
            PROVE  Readable(r) \subseteq Elements(Given(out[d], heard[d])) \cup Elements(Flat(r.finals))
                                 \cup Elements(Flat(q.chain)) \cup r.staging
        <5>1. Answered(run[d]) /\ Spoken(run[d])
          BY <1>3, <4>3 DEF Answered, Spoken
        <5>2. run[d].late /\ pipe[d].buffer = <<>>
          BY <1>1, <1>2, <1>3, <4>3, <5>1 DEF Over
        <5>3. ~q.aborted /\ Elements(r.final) \cap Audio = {}
          BY <1>3, <4>3, <5>2
        <5>4. CASE "block" \in run[d].lost
          BY <1>3, <4>2, <4>3, <5>3, <5>4 DEF Missed
        <5>5. CASE "block" \notin run[d].lost
          <6>1. Readable(r) \subseteq Elements(Given(out[d], heard[d])) \cup Elements(Flat(r.finals))
                                 \cup Elements(Flat(pipe[d].chain)) \cup run[d].staging
            BY <1>3, <2>4, <3>0, <4>1, <4>3, <5>1, <5>3 DEF FinalKept
          <6>2. Placed(q, {}, {}) /\ Elements(q.held) \subseteq Audio /\ Elements(q.buffer) = {}
            BY <2>2, <5>2, <5>3, <5>5, PayloadJoins DEF Sifted, Gone
          <6>3. p \in Elements(r.final) => p \in Sent(q) \cup Elements(Flat(q.chain))
            BY <2>4, <5>3, <6>2 DEF Placed, Spread
          <6>. QED
            BY <1>3, <2>4, <4>1, <6>1, <6>3 DEF Readable
        <5>. QED
          BY <5>4, <5>5
      <4>. QED
        BY <4>1, <4>2, <4>3 DEF FinalKept
    <3>. QED
      BY <3>2, <3>3, <3>4
  <2>7. Told(d, r, q, out[d], heard[d])
    BY <1>3, <2>2, <2>5, <2>6 DEF Told, Gone
  <2>. QED
    BY <2>1, <2>7 DEF ToldStep
<1>. QED
  BY <1>5, <1>6

(* a tool ends, and its result waits to be given,                          *)
LEMMA ToolEndsTold ==
  ASSUME NEW d \in Replies, Telling(d), ToolEnds(d)
  PROVE  ToldStep(d)
<1>. DEFINE p == Script(d)[run[d].at]
            t == Append(run[d].tools, p)
            w == Append(run[d].said, p)
            r == [run[d] EXCEPT !.stage = "talking", !.tools = t, !.said = w]
            g == Given(out[d], heard[d])
<1>1. After(d, r, pipe[d], out[d], heard[d])
  BY Knowing, Untouched DEF After, ToolEnds
<1>2. /\ arranged \in Cases /\ Sifted(pipe[d], {}, Gone(run[d])) /\ GoodPipe(pipe[d]) /\ run[d].stage = "tool"
      /\ GoodOut(out[d]) /\ heard[d] \in Payloads /\ run[d] \in RunRec
      /\ Told(d, run[d], pipe[d], out[d], heard[d]) /\ Sorted(d, run[d], pipe[d])
      /\ Over(run[d], pipe[d]) /\ Idles(run[d], pipe[d])
  BY Knowing DEF Told, ToolEnds
<1>3. p \in Tools /\ p \in Pieces /\ p \notin Talk /\ p \notin Texts /\ p # Trouble
  BY <1>2, KindsAre DEF Sorted, Tools, Talk
<1>. HIDE DEF p
<1>4. /\ run[d].tools \in Payloads /\ run[d].said \in Payloads /\ <<p>> \in Payloads /\ g \in Payloads
      /\ Elements(<<p>>) = {p}
      /\ t = run[d].tools \o <<p>> /\ Elements(t) = Elements(run[d].tools) \cup {p}
      /\ w = run[d].said \o <<p>> /\ Elements(w) = Elements(run[d].said) \cup {p}
  BY <1>2, <1>3, RunFields, PieceJoins, GivenIs
<1>. HIDE DEF t, w
<1>5. /\ r.stage = "talking" /\ r.final = run[d].final /\ r.said = w
      /\ r.tools = t /\ r.finals = run[d].finals /\ r.staging = run[d].staging
      /\ r.failed = run[d].failed /\ r.late = run[d].late /\ r.lost = run[d].lost
  BY <1>2 DEF RunRec
<1>. HIDE DEF r, g
<1>6. TextsOf(w) = TextsOf(run[d].said)
  <2>1. Elements(<<p>>) \cap (Texts \cup {Trouble}) = {}
    BY <1>3, <1>4
  <2>2. TextsOf(<<p>>) = <<>> /\ TextsOf(run[d].said) \in Payloads
    BY <1>2, <1>4, <2>1, TextsOfIs
  <2>3. TextsOf(run[d].said \o <<p>>) = TextsOf(run[d].said) \o TextsOf(<<p>>)
    BY <1>2, <1>4, TextsOfIs
  <2>4. TextsOf(run[d].said) \o <<>> = TextsOf(run[d].said)
    BY <2>2, PayloadJoins
  <2>. QED
    BY <1>4, <2>2, <2>3, <2>4
<1>7. ToolsOf(g \o run[d].tools) = ToolsOf(run[d].said) => ToolsOf(g \o t) = ToolsOf(w)
  <2>1. g \o run[d].tools \in Payloads
    BY <1>4, PayloadJoins
  <2>2. ToolsOf((g \o run[d].tools) \o <<p>>) = ToolsOf(g \o run[d].tools) \o ToolsOf(<<p>>)
    BY <1>2, <1>4, <2>1, ToolsOfIs
  <2>3. ToolsOf(run[d].said \o <<p>>) = ToolsOf(run[d].said) \o ToolsOf(<<p>>)
    BY <1>2, <1>4, ToolsOfIs
  <2>4. g \in Payloads /\ run[d].tools \in Payloads /\ <<p>> \in Payloads
    BY <1>4
  <2>5. (g \o run[d].tools) \o <<p>> = g \o (run[d].tools \o <<p>>)
    BY <2>4, PayloadAssoc
  <2>. QED
    BY <1>4, <2>2, <2>3, <2>5
<1>8. Told(d, r, pipe[d], out[d], heard[d])
  <2>1. Sorted(d, r, pipe[d]) /\ Fresh(r, pipe[d], out[d], heard[d]) /\ Over(r, pipe[d]) /\ Idles(r, pipe[d])
    BY <1>2, <1>3, <1>4, <1>5 DEF Sorted, Fresh, Over, Idles, Spoken
  <2>2. ASSUME ~out[d].failed
        PROVE  Streaming(r, pipe[d], out[d], heard[d]) /\ ToolsKept(r, out[d], heard[d])
               /\ AnswerKept(r, out[d], heard[d]) /\ FinalKept(r, pipe[d], out[d], heard[d])
    <3>0. /\ Streaming(run[d], pipe[d], out[d], heard[d]) /\ ToolsKept(run[d], out[d], heard[d])
          /\ AnswerKept(run[d], out[d], heard[d]) /\ FinalKept(run[d], pipe[d], out[d], heard[d])
      BY <1>2, <2>2 DEF Told
    <3>1. InStream(r, pipe[d]) => InStream(run[d], pipe[d])
      BY <1>2, <1>5 DEF InStream, Answered
    <3>2. Streaming(r, pipe[d], out[d], heard[d])
      BY <1>3, <1>4, <1>5, <1>6, <3>0, <3>1 DEF Streaming, TextsFlow, Reached
    <3>3. ToolsKept(r, out[d], heard[d])
      BY <1>5, <1>7, <3>0 DEF ToolsKept, g
    <3>4. AnswerKept(r, out[d], heard[d]) /\ FinalKept(r, pipe[d], out[d], heard[d])
      BY <1>2, <1>5, <3>0 DEF AnswerKept, FinalKept, Answered, Readable, Missed
    <3>. QED
      BY <3>2, <3>3, <3>4
  <2>. QED
    BY <1>2, <1>5, <2>1, <2>2 DEF Told, Gone
<1>. QED
  BY <1>1, <1>8 DEF ToldStep

(* the run fails,                                                          *)
LEMMA FailsTold ==
  ASSUME NEW d \in Replies, Telling(d), RunFails(d)
  PROVE  ToldStep(d)
<1>. DEFINE c == <<<<Trouble>>>>
            r == [run[d] EXCEPT !.stage = "answering", !.finals = c, !.failed = TRUE]
            q == Stopped(pipe[d])
<1>1. After(d, r, q, out[d], heard[d])
  BY Knowing, Untouched DEF After, RunFails
<1>2. /\ arranged \in Cases /\ Sifted(pipe[d], {}, Gone(run[d])) /\ run[d].stage \in {"talking", "tool"}
      /\ run[d] \in RunRec /\ Told(d, run[d], pipe[d], out[d], heard[d]) /\ Sorted(d, run[d], pipe[d])
      /\ Over(run[d], pipe[d]) /\ Idles(run[d], pipe[d])
  BY Knowing DEF Told, RunFails
<1>3. Elements(Flat(c)) = {Trouble} /\ c # <<>>
  <2>1. <<Trouble>> \in Payloads /\ Elements(<<Trouble>>) = {Trouble}
    BY PieceJoins
  <2>2. c = Singles(<<Trouble>>) /\ c # <<>>
    BY DEF Singles
  <2>3. Flat(Singles(<<Trouble>>)) = <<Trouble>>
    <3>. DEFINE u == <<Trouble>>
    <3>1. u \in Payloads
      BY <2>1
    <3>. HIDE DEF u
    <3>2. Flat(Singles(u)) = u
      BY <3>1, ChainJoins
    <3>. QED
      BY <3>2 DEF u
  <2>. HIDE DEF c
  <2>. QED
    BY <2>1, <2>2, <2>3
<1>. HIDE DEF c
<1>4. /\ r.stage = "answering" /\ r.final = run[d].final /\ r.said = run[d].said
      /\ r.tools = run[d].tools /\ r.finals = c /\ r.staging = run[d].staging
      /\ r.failed = TRUE /\ r.late = run[d].late /\ r.lost = run[d].lost
  BY <1>2 DEF RunRec
<1>a. q = Stopped(pipe[d])
  OBVIOUS
<1>. HIDE DEF q
<1>5. /\ Sifted(q, {}, Gone(run[d])) /\ q.buffer = pipe[d].buffer /\ q.held = pipe[d].held /\ q.chain = pipe[d].chain
      /\ q.sent = pipe[d].sent /\ q.seen = pipe[d].seen
      /\ q.streamed = pipe[d].streamed /\ q.aborted = pipe[d].aborted
  <2>. DEFINE x == pipe[d]
              l == Gone(run[d])
  <2>1. arranged \in Cases /\ Sifted(x, {}, l) /\ q = Stopped(x)
    BY <1>2, <1>a
  <2>. HIDE DEF x, l
  <2>2. /\ Sifted(q, {}, l) /\ q.buffer = x.buffer /\ q.held = x.held /\ q.chain = x.chain
        /\ q.sent = x.sent /\ q.seen = x.seen /\ q.streamed = x.streamed /\ q.aborted = x.aborted
    BY ONLY <2>1, StoppedMoves, ZenonT(40)
  <2>. QED
    BY <2>2 DEF x, l
<1>6. Told(d, r, q, out[d], heard[d])
  <2>. HIDE DEF r, q
  <2>1. Sorted(d, r, q) /\ Fresh(r, q, out[d], heard[d]) /\ Over(r, q) /\ Idles(r, q)
    BY <1>2, <1>3, <1>4, <1>5 DEF Sorted, Fresh, Over, Idles, Spoken
  <2>2. ASSUME ~out[d].failed
        PROVE  Streaming(r, q, out[d], heard[d]) /\ ToolsKept(r, out[d], heard[d])
               /\ AnswerKept(r, out[d], heard[d]) /\ FinalKept(r, q, out[d], heard[d])
    <3>0. ToolsKept(run[d], out[d], heard[d]) /\ FinalKept(run[d], pipe[d], out[d], heard[d])
      BY <1>2, <2>2 DEF Told
    <3>. QED
      BY <1>4, <1>5, <3>0 DEF Streaming, InStream, ToolsKept, AnswerKept, FinalKept, Sent
  <2>. QED
    BY <1>4, <1>5, <2>1, <2>2 DEF Told, Gone
<1>. QED
  BY <1>1, <1>6 DEF ToldStep

(* and its answer c is made of what s says, but for what is in U, and was  *)
(* not sent yet.                                                           *)
Remaining(c, s, U, V) ==
  /\ c \in Seq(Payloads)
  /\ \A e : e \in Elements(Flat(c)) <=> e \in Elements(s) /\ e \notin U /\ <<e>> \notin V
  /\ V = {} => Flat(c) = Without(s, U)
  /\ Elements(s) \subseteq U => c = <<>>

LEMMA LeftToSay ==
  ASSUME NEW s \in Payloads, NEW U, NEW V, NEW c, c = Without(Singles(s), V \cup {<<p>> : p \in U})
  PROVE  Remaining(c, s, U, V)
<1>. DEFINE u == Singles(s)
            T == V \cup {<<p>> : p \in U}
<1>1. u \in Seq(Payloads) /\ Elements(u) = {<<e>> : e \in Elements(s)}
  BY ChainJoins, SinglesIs DEF Payloads
<1>2. \A e : <<e>> \in T <=> e \in U \/ <<e>> \in V
  OBVIOUS
<1>3. V = {} => Flat(c) = Without(s, U)
  <2>. SUFFICES ASSUME V = {} PROVE Flat(c) = Without(s, U)
    OBVIOUS
  <2>1. \A e \in Pieces \cup {Trouble} : <<e>> \in T <=> e \in U
    BY <1>2
  <2>. HIDE DEF T, u
  <2>2. \A x \in Seq(Pieces \cup {Trouble}) : Flat(Without(Singles(x), T)) = Without(x, U)
    BY <2>1, FlatSingles
  <2>. QED
    BY <2>2 DEF T, u, Payloads
<1>a. c = Without(u, T)
  OBVIOUS
<1>. HIDE DEF u, T
<1>4. c \in Seq(Payloads) /\ Elements(c) = Elements(u) \ T /\ (Elements(u) \subseteq T => c = <<>>)
  <2>1. u \in Seq(Payloads)
    BY <1>1
  <2>2. c \in Seq(Payloads) /\ Elements(c) = Elements(u) \ T
    BY ONLY <1>a, <2>1, WithoutElements
  <2>3. Elements(u) \subseteq T => c = <<>>
    BY ONLY <1>a, <2>1, WithoutElements
  <2>. QED
    BY <2>2, <2>3
<1>5. Elements(Flat(c)) = UNION {Elements(x) : x \in Elements(c)}
  BY <1>4, FlatElements DEF Payloads
<1>6. \A e \in Elements(s) : Elements(<<e>>) = {e}
  <2>1. Elements(s) \subseteq Pieces \cup {Trouble}
    BY PayloadJoins
  <2>. QED
    BY <2>1, PieceJoins
<1>7. ASSUME NEW e, e \in Elements(Flat(c))
      PROVE  e \in Elements(s) /\ e \notin U /\ <<e>> \notin V
  <2>1. PICK x \in Elements(c) : e \in Elements(x)
    BY <1>5, <1>7
  <2>2. PICK a \in Elements(s) : x = <<a>>
    BY <1>1, <1>4, <2>1
  <2>3. a = e
    BY <1>6, <2>1, <2>2
  <2>4. <<e>> \notin T
    BY <1>4, <2>1, <2>2, <2>3
  <2>. QED
    BY <1>2, <2>2, <2>3, <2>4
<1>8. ASSUME NEW e, e \in Elements(s), e \notin U, <<e>> \notin V
      PROVE  e \in Elements(Flat(c))
  <2>1. <<e>> \in Elements(c)
    BY <1>1, <1>2, <1>4, <1>8
  <2>. QED
    BY <1>5, <1>6, <1>8, <2>1
<1>9. Elements(s) \subseteq U => c = <<>>
  BY <1>1, <1>2, <1>4
<1>. QED
  BY <1>3, <1>4, <1>7, <1>8, <1>9 DEF Remaining

(* What FinalPayloads is.                                                  *)
LEMMA FinalsAre ==
  ASSUME NEW d, run[d].final \in Payloads
  PROVE  /\ StreamedWhole(pipe[d]) => FinalPayloads(d) = <<>>
         /\ ~StreamedWhole(pipe[d]) =>
              Remaining(FinalPayloads(d), run[d].final, arranged.unreadable, pipe[d].sent)
<1>. DEFINE w == Without(Singles(run[d].final), pipe[d].sent \cup {<<p>> : p \in arranged.unreadable})
<1>1. FinalPayloads(d) = IF StreamedWhole(pipe[d]) THEN <<>> ELSE w
  BY DEF FinalPayloads, Singles
<1>2. Remaining(w, run[d].final, arranged.unreadable, pipe[d].sent)
  BY LeftToSay
<1>. QED
  BY <1>1, <1>2

(* the reply payloads are built,                                           *)
LEMMA BuildTold ==
  ASSUME NEW d \in Replies, Telling(d), BuildReplyPayloads(d)
  PROVE  ToldStep(d)
<1>. DEFINE c == FinalPayloads(d)
            f == run[d].final
            r == [run[d] EXCEPT !.stage = "answering", !.finals = c]
            g == Given(out[d], heard[d])
            w == Without(f, arranged.unreadable)
<1>1. After(d, r, pipe[d], out[d], heard[d])
  BY Knowing, Untouched DEF After, BuildReplyPayloads
<1>2. /\ arranged \in Cases /\ Sifted(pipe[d], {}, Gone(run[d])) /\ GoodPipe(pipe[d]) /\ run[d].stage = "settling"
      /\ GoodOut(out[d]) /\ heard[d] \in Payloads /\ run[d] \in RunRec /\ g \in Payloads /\ f \in Payloads
      /\ Told(d, run[d], pipe[d], out[d], heard[d]) /\ Sorted(d, run[d], pipe[d])
      /\ Over(run[d], pipe[d]) /\ Idles(run[d], pipe[d]) /\ Streams(run[d], pipe[d])
  BY Knowing, GivenIs, RunFields DEF Told, BuildReplyPayloads
<1>3. /\ StreamedWhole(pipe[d]) => c = <<>>
      /\ ~StreamedWhole(pipe[d]) => Remaining(c, f, arranged.unreadable, pipe[d].sent)
  BY <1>2, FinalsAre
<1>. HIDE DEF c
<1>a. c \in Seq(Payloads) /\ Elements(Flat(c)) \subseteq Elements(f)
  <2>1. CASE StreamedWhole(pipe[d])
    BY <1>3, <2>1, ChainFacts, ChainJoins, PayloadJoins
  <2>2. CASE ~StreamedWhole(pipe[d])
    BY <1>3, <2>2 DEF Remaining
  <2>. QED
    BY <2>1, <2>2
<1>4. /\ r.stage = "answering" /\ r.final = f /\ r.said = run[d].said
      /\ r.tools = run[d].tools /\ r.finals = c /\ r.staging = run[d].staging
      /\ r.failed = run[d].failed /\ r.late = run[d].late /\ r.lost = run[d].lost
  BY <1>2 DEF RunRec
<1>. HIDE DEF r, g, f, w
<1>5. f = run[d].final
  BY DEF f
<1>6. Elements(f) \subseteq Elements(run[d].said) \cap Talk
  BY <1>2, <1>5 DEF Sorted
<1>7. Told(d, r, pipe[d], out[d], heard[d])
  <2>1. Sorted(d, r, pipe[d]) /\ Fresh(r, pipe[d], out[d], heard[d]) /\ Over(r, pipe[d]) /\ Idles(r, pipe[d])
    BY <1>2, <1>a, <1>4, <1>5 DEF Sorted, Fresh, Over, Idles, Spoken
  <2>2. ASSUME ~out[d].failed
        PROVE  Streaming(r, pipe[d], out[d], heard[d]) /\ ToolsKept(r, out[d], heard[d])
               /\ AnswerKept(r, out[d], heard[d]) /\ FinalKept(r, pipe[d], out[d], heard[d])
    <3>0. /\ Streaming(run[d], pipe[d], out[d], heard[d]) /\ ToolsKept(run[d], out[d], heard[d])
          /\ AnswerKept(run[d], out[d], heard[d]) /\ FinalKept(run[d], pipe[d], out[d], heard[d])
      BY <1>2, <2>2 DEF Told
    <3>1. Sent(pipe[d]) \subseteq Elements(g)
      BY <3>0 DEF FinalKept, Readable, Missed, g
    <3>2. Streaming(r, pipe[d], out[d], heard[d])
      <4>. SUFFICES ASSUME InStream(r, pipe[d])
                    PROVE  /\ TextsFlow(r, pipe[d], out[d], heard[d]) /\ MediaFlow(pipe[d], out[d], heard[d])
                           /\ Reached(r, pipe[d], out[d], heard[d])
        BY DEF Streaming
      <4>1. InStream(run[d], pipe[d]) /\ ~run[d].late /\ InOrder(run[d], pipe[d])
        BY <1>4 DEF InStream, InOrder, Answered
      <4>2. /\ TextsFlow(run[d], pipe[d], out[d], heard[d]) /\ MediaFlow(pipe[d], out[d], heard[d])
            /\ Reached(run[d], pipe[d], out[d], heard[d])
        BY <3>0, <4>1 DEF Streaming
      <4>3. c = <<>>
        <5>1. CASE StreamedWhole(pipe[d])
          BY <1>3, <5>1
        <5>2. CASE ~StreamedWhole(pipe[d])
          <6>1. Placed(pipe[d], {}, {}) /\ pipe[d].sent = {}
            BY <1>2, <4>1, <5>2 DEF Sifted, Placed, StreamedWhole, InOrder, InStream, Gone
          <6>2. /\ pipe[d].chain = <<>> /\ pipe[d].buffer = <<>> /\ pipe[d].held = <<>> /\ run[d].staging = {}
            BY <1>2, <4>1 DEF Streams, Over, Spoken, InOrder
          <6>3. Elements(<<>>) = {} /\ Flat(<<>>) = <<>>
            BY ChainJoins, PayloadJoins
          <6>4. Sent(pipe[d]) = {} /\ Spread(pipe[d]) = {}
            BY <6>1, <6>2, <6>3 DEF Sent, Spread
          <6>5. pipe[d].seen = {}
            BY <6>1, <6>2, <6>3, <6>4 DEF Placed
          <6>6. Elements(f) \subseteq arranged.unreadable
            BY <1>6, <4>2, <6>2, <6>5 DEF Reached
          <6>. QED
            BY <1>3, <5>2, <6>6 DEF Remaining
        <5>. QED
          BY <5>1, <5>2
      <4>. QED
        BY <1>4, <4>2, <4>3 DEF TextsFlow, Reached
    <3>3. ToolsKept(r, out[d], heard[d])
      BY <1>4, <3>0 DEF ToolsKept
    <3>4. AnswerKept(r, out[d], heard[d])
      <4>. SUFFICES ASSUME ~arranged.streaming, ~r.failed
                    PROVE  TalkOf(g \o Flat(c)) = w
        BY <1>4 DEF AnswerKept, Answered, g, w
      <4>1. pipe[d].sent = {} /\ ~StreamedWhole(pipe[d])
        BY <1>2 DEF Idles, StreamedWhole
      <4>2. Flat(c) = w
        BY <1>3, <4>1 DEF Remaining, w
      <4>3. TalkOf(g) = <<>>
        <5>1. TalkOf(g \o Flat(run[d].finals)) = <<>> /\ run[d].finals = <<>>
          BY <1>2, <1>4, <3>0 DEF AnswerKept, Answered, g, Over
        <5>2. g \o Flat(<<>>) = g
          BY <1>2, ChainJoins, PayloadJoins
        <5>. QED
          BY <5>1, <5>2
      <4>4. w \in Payloads /\ Elements(w) \subseteq Elements(f)
        <5>1. w \in Seq(Pieces \cup {Trouble}) /\ Elements(w) = Elements(f) \ arranged.unreadable
          BY <1>2, WithoutElements DEF Payloads, w
        <5>. QED
          BY <5>1 DEF Payloads
      <4>5. TalkOf(g \o w) = TalkOf(g) \o TalkOf(w)
        BY <1>2, <4>4, TalkOfIs
      <4>6. TalkOf(w) = w
        <5>1. Elements(w) \subseteq Talk \cup {Trouble}
          BY <1>6, <4>4
        <5>. QED
          BY <1>2, <4>4, <5>1, TalkOfIs
      <4>7. <<>> \o w = w
        BY <4>4, PayloadJoins
      <4>. QED
        BY <4>2, <4>3, <4>5, <4>6, <4>7
    <3>5. FinalKept(r, pipe[d], out[d], heard[d])
      <4>1. ASSUME ~StreamedWhole(pipe[d])
            PROVE  Readable(r) \subseteq Elements(g) \cup Elements(Flat(c))
        <5>1. \A e \in Elements(f) : Elements(<<e>>) = {e}
          <6>1. Elements(f) \subseteq Pieces \cup {Trouble}
            BY <1>2, PayloadJoins
          <6>. QED
            BY <6>1, PieceJoins
        <5>2. \A e \in Elements(f) : <<e>> \in pipe[d].sent => e \in Sent(pipe[d])
          BY <5>1 DEF Sent
        <5>3. \A e \in Readable(r) : e \in Elements(f) /\ e \notin arranged.unreadable
          BY <1>4 DEF Readable
        <5>. QED
          BY <1>3, <3>1, <4>1, <5>2, <5>3 DEF Remaining
      <4>2. ASSUME StreamedWhole(pipe[d]), ~r.failed, ~Missed(r, pipe[d]), r.late => Elements(f) \cap Audio = {}
            PROVE  Readable(r) \subseteq Elements(g) \cup Elements(Flat(pipe[d].chain)) \cup run[d].staging
        <5>1. InStream(run[d], pipe[d])
          BY <1>2, <1>4, <4>2 DEF InStream, StreamedWhole, Idles, Answered, Missed
        <5>2. Readable(r) \subseteq pipe[d].seen \cup run[d].staging
          BY <1>4, <1>6, <3>0, <5>1 DEF Streaming, Reached, Readable
        <5>3. Placed(pipe[d], {}, {}) /\ Elements(pipe[d].held) \subseteq Audio
          BY <1>2, <4>2, <5>1 DEF Sifted, StreamedWhole, InStream, Gone
        <5>4. pipe[d].buffer = <<>> /\ (~run[d].late => pipe[d].held = <<>>)
          BY <1>2, <1>4, <4>2 DEF Over, Spoken
        <5>5. Elements(<<>>) = {}
          BY PayloadJoins
        <5>6. Readable(r) \cap Elements(pipe[d].held) = {}
          BY <1>4, <4>2, <5>3, <5>4, <5>5 DEF Readable
        <5>. QED
          BY <3>1, <5>2, <5>3, <5>4, <5>5, <5>6 DEF Placed, Spread
      <4>3. ~pipe[d].streamed => ~StreamedWhole(pipe[d])
        BY DEF StreamedWhole
      <4>. QED
        BY <1>4, <3>1, <4>1, <4>2, <4>3 DEF FinalKept, g
    <3>. QED
      BY <3>2, <3>3, <3>4, <3>5
  <2>. QED
    BY <1>2, <1>4, <2>1, <2>2 DEF Told, Gone
<1>. QED
  BY <1>1, <1>7 DEF ToldStep

(* or is lost, its delivery having been rejected: what is left of the      *)
(* answer is said after, unless another block was streamed.                *)
LEMMA BlockLostTold ==
  ASSUME NEW d \in Replies, Telling(d), BlockFails(d)
  PROVE  ToldStep(d)
<1>. DEFINE r == [run[d] EXCEPT !.lost = @ \cup {"block"}]
            q == Left(pipe[d])
            s == Head(pipe[d].chain)
<1>1. After(d, r, q, out[d], heard[d])
  BY Knowing, Untouched DEF After, BlockFails
<1>2. /\ pipe[d].chain # <<>> /\ arranged \in Cases /\ Sifted(pipe[d], {}, Gone(run[d])) /\ run[d] \in RunRec
      /\ Told(d, run[d], pipe[d], out[d], heard[d]) /\ Streams(run[d], pipe[d])
  BY Knowing DEF BlockFails, Told
<1>3. /\ r.stage = run[d].stage /\ r.at = run[d].at /\ r.final = run[d].final /\ r.said = run[d].said
      /\ r.tools = run[d].tools /\ r.finals = run[d].finals /\ r.staging = run[d].staging
      /\ r.failed = run[d].failed /\ r.late = run[d].late /\ r.lost = run[d].lost \cup {"block"}
  BY <1>2 DEF RunRec
<1>4. q = Left(pipe[d]) /\ s = Head(pipe[d].chain)
  OBVIOUS
<1>. HIDE DEF r, q, s
<1>5. /\ Sifted(q, {}, Pieces) /\ Shorter(pipe[d], q, s)
      /\ q.streamed = pipe[d].streamed /\ Sent(q) = Sent(pipe[d])
  <2>. DEFINE x == pipe[d]
              l == Gone(run[d])
  <2>1. arranged \in Cases /\ Sifted(x, {}, l) /\ x.chain # <<>> /\ s = Head(x.chain) /\ q = Left(x)
    BY <1>2, <1>4
  <2>. HIDE DEF x, l
  <2>2. Sifted(q, {}, Pieces) /\ Shorter(x, q, s) /\ q.streamed = x.streamed /\ Sent(q) = Sent(x)
    BY ONLY <2>1, LosesSifted, SMTT(30)
  <2>. QED
    BY <2>2 DEF x
<1>6. /\ ~pipe[d].aborted /\ ~q.aborted /\ q.overdue = pipe[d].overdue
      /\ q.buffer = pipe[d].buffer /\ q.held = pipe[d].held /\ q.seen = pipe[d].seen
  BY <1>5 DEF Shorter
<1>7. run[d].stage \notin {"none", "arrived"} /\ arranged.streaming
  BY <1>2 DEF Streams, Told, Idles
<1>8. Gone(r) = Pieces /\ "block" \in r.lost /\ ("tool" \in r.lost <=> "tool" \in run[d].lost)
  BY <1>3 DEF Gone
<1>9. Told(d, r, q, out[d], heard[d])
  <2>1. Sorted(d, r, q) /\ Fresh(r, q, out[d], heard[d]) /\ Over(r, q) /\ Idles(r, q)
    BY <1>2, <1>3, <1>6, <1>7 DEF Told, Sorted, Fresh, Over, Idles, Spoken
  <2>2. ASSUME ~out[d].failed
        PROVE  Streaming(r, q, out[d], heard[d]) /\ ToolsKept(r, out[d], heard[d])
               /\ AnswerKept(r, out[d], heard[d]) /\ FinalKept(r, q, out[d], heard[d])
    <3>0. ToolsKept(run[d], out[d], heard[d]) /\ FinalKept(run[d], pipe[d], out[d], heard[d])
      BY <1>2, <2>2 DEF Told
    <3>1. Streaming(r, q, out[d], heard[d])
      BY <1>8 DEF Streaming, InStream
    <3>2. ToolsKept(r, out[d], heard[d])
      BY <3>0, <1>3, <1>8 DEF ToolsKept
    <3>3. AnswerKept(r, out[d], heard[d])
      BY <1>7 DEF AnswerKept
    <3>4. FinalKept(r, q, out[d], heard[d])
      BY <3>0, <1>3, <1>5, <1>6, <1>8 DEF FinalKept, Answered, Readable, Missed
    <3>. QED
      BY <3>1, <3>2, <3>3, <3>4
  <2>. QED
    BY <1>5, <1>8, <2>1, <2>2 DEF Told
<1>. QED
  BY <1>1, <1>9 DEF ToldStep

(* late or in time;                                                        *)
LEMMA OverdueLostTold ==
  ASSUME NEW d \in Replies, Telling(d), OverdueFails(d)
  PROVE  ToldStep(d)
<1>1. PICK s \in pipe[d].overdue :
        /\ pipe' = [pipe EXCEPT ![d].overdue = @ \ {s}]
        /\ UNCHANGED <<arranged, run, out, heard, restart>>
  BY DEF OverdueFails
<1>. DEFINE q == [pipe[d] EXCEPT !.overdue = @ \ {s}]
<1>2. After(d, run[d], q, out[d], heard[d])
  BY <1>1, Knowing, Untouched DEF After
<1>3. /\ pipe[d] \in PipeRec /\ pipe[d].aborted /\ Sifted(pipe[d], {}, Gone(run[d])) /\ GoodPipe(pipe[d])
  BY Knowing, PipeFields DEF Told, Sifted
<1>4. /\ q \in PipeRec /\ q.overdue = pipe[d].overdue \ {s} /\ q.armed = pipe[d].armed /\ q.awaited = pipe[d].awaited
      /\ q.buffer = pipe[d].buffer /\ q.chain = pipe[d].chain /\ q.held = pipe[d].held /\ q.seen = pipe[d].seen
      /\ q.sent = pipe[d].sent /\ q.aborted = pipe[d].aborted /\ q.streamed = pipe[d].streamed
  BY <1>3 DEF PipeRec
<1>5. Told(d, run[d], q, out[d], heard[d])
  <2>. HIDE DEF q
  <2>1. Sifted(q, {}, Gone(run[d])) /\ Sent(q) = Sent(pipe[d])
    BY <1>3, <1>4 DEF Sifted, GoodPipe, Sent
  <2>2. Sorted(d, run[d], q) /\ Fresh(run[d], q, out[d], heard[d]) /\ Over(run[d], q) /\ Idles(run[d], q)
    BY Knowing, <1>4 DEF Told, Sorted, Fresh, Over, Idles, Spoken
  <2>3. ASSUME ~out[d].failed
        PROVE  Streaming(run[d], q, out[d], heard[d]) /\ ToolsKept(run[d], out[d], heard[d])
               /\ AnswerKept(run[d], out[d], heard[d]) /\ FinalKept(run[d], q, out[d], heard[d])
    <3>0. /\ ToolsKept(run[d], out[d], heard[d]) /\ FinalKept(run[d], pipe[d], out[d], heard[d])
          /\ AnswerKept(run[d], out[d], heard[d])
      BY Knowing, <2>3 DEF Told
    <3>1. Streaming(run[d], q, out[d], heard[d])
      BY <1>3, <1>4 DEF Streaming, InStream
    <3>2. FinalKept(run[d], q, out[d], heard[d])
      BY <3>0, <1>4, <2>1 DEF FinalKept, Readable, Missed
    <3>. QED
      BY <3>0, <3>1, <3>2
  <2>. QED
    BY <2>1, <2>2, <2>3 DEF Told
<1>. QED
  BY <1>2, <1>5 DEF ToldStep

(* the result of a tool is lost,                                           *)
LEMMA ToolLostTold ==
  ASSUME NEW d \in Replies, Telling(d), ToolFails(d)
  PROVE  ToldStep(d)
<1>. DEFINE r == [run[d] EXCEPT !.tools = Tail(@), !.lost = @ \cup {"tool"}]
<1>1. After(d, r, pipe[d], out[d], heard[d])
  BY Knowing, Untouched DEF After, ToolFails
<1>2. /\ r.stage = run[d].stage /\ r.at = run[d].at /\ r.final = run[d].final /\ r.said = run[d].said
      /\ r.tools = Tail(run[d].tools) /\ r.finals = run[d].finals /\ r.staging = run[d].staging
      /\ r.failed = run[d].failed /\ r.late = run[d].late /\ r.lost = run[d].lost \cup {"tool"}
  BY Knowing DEF RunRec
<1>3. Elements(r.tools) \subseteq Tools /\ run[d].tools # <<>>
  <2>. DEFINE t == run[d].tools
  <2>1. t \in Payloads /\ t # <<>> /\ Elements(t) \subseteq Tools
    BY Knowing, RunFields DEF ToolFails, Told, Sorted
  <2>. HIDE DEF t
  <2>2. t \in Seq(Pieces \cup {Trouble})
    BY <2>1 DEF Payloads
  <2>3. Head(t) \in Pieces \cup {Trouble} /\ Tail(t) \in Seq(Pieces \cup {Trouble}) /\ t = <<Head(t)>> \o Tail(t)
    BY <2>1, <2>2, HeadTailProperties
  <2>4. <<Head(t)>> \in Payloads /\ Tail(t) \in Payloads
    BY <2>3, PieceJoins DEF Payloads
  <2>5. Elements(t) = Elements(<<Head(t)>>) \cup Elements(Tail(t))
    BY <2>3, <2>4, PayloadJoins
  <2>. QED
    BY <1>2, <2>1, <2>5 DEF t
<1>4. "tool" \in r.lost /\ ("block" \in r.lost <=> "block" \in run[d].lost)
  BY <1>2
<1>5. Told(d, r, pipe[d], out[d], heard[d])
  <2>. HIDE DEF r
  <2>1. /\ Sifted(pipe[d], {}, Gone(r)) /\ Sorted(d, r, pipe[d]) /\ Fresh(r, pipe[d], out[d], heard[d])
        /\ Over(r, pipe[d]) /\ Idles(r, pipe[d])
    BY Knowing, <1>2, <1>3, <1>4 DEF Gone, Told, Sorted, Fresh, Over, Idles, Spoken
  <2>2. ASSUME ~out[d].failed
        PROVE  Streaming(r, pipe[d], out[d], heard[d]) /\ ToolsKept(r, out[d], heard[d])
               /\ AnswerKept(r, out[d], heard[d]) /\ FinalKept(r, pipe[d], out[d], heard[d])
    <3>0. /\ Streaming(run[d], pipe[d], out[d], heard[d]) /\ AnswerKept(run[d], out[d], heard[d])
          /\ FinalKept(run[d], pipe[d], out[d], heard[d])
      BY Knowing, <2>2 DEF Told
    <3>. QED
      BY <3>0, <1>2, <1>4 DEF Streaming, InStream, Answered, TextsFlow, Reached, ToolsKept, AnswerKept,
         FinalKept, Readable, Missed
  <2>. QED
    BY <2>1, <2>2 DEF Told
<1>. QED
  BY <1>1, <1>5 DEF ToldStep

(* and so is what is left of an answer that cannot be made ready.          *)
LEMMA AnswerLostTold ==
  ASSUME NEW d \in Replies, Telling(d), AnswerFails(d)
  PROVE  ToldStep(d)
<1>. DEFINE r == [run[d] EXCEPT !.finals = <<>>, !.failed = TRUE]
<1>1. After(d, r, pipe[d], out[d], heard[d])
  BY Knowing, Untouched DEF After, AnswerFails
<1>2. /\ r.stage = "answering" /\ run[d].stage = "answering" /\ r.at = run[d].at /\ r.final = run[d].final
      /\ r.said = run[d].said /\ r.tools = run[d].tools /\ r.finals = <<>> /\ r.staging = run[d].staging
      /\ r.failed = TRUE /\ r.late = run[d].late /\ r.lost = run[d].lost
  BY Knowing DEF RunRec, AnswerFails
<1>3. Elements(Flat(<<>>)) = {}
  BY ChainJoins, PayloadJoins
<1>4. Told(d, r, pipe[d], out[d], heard[d])
  <2>. HIDE DEF r
  <2>1. /\ Sifted(pipe[d], {}, Gone(r)) /\ Sorted(d, r, pipe[d]) /\ Fresh(r, pipe[d], out[d], heard[d])
        /\ Over(r, pipe[d]) /\ Idles(r, pipe[d])
    BY Knowing, <1>2, <1>3 DEF Gone, Told, Sorted, Fresh, Over, Idles, Spoken
  <2>2. ASSUME ~out[d].failed
        PROVE  Streaming(r, pipe[d], out[d], heard[d]) /\ ToolsKept(r, out[d], heard[d])
               /\ AnswerKept(r, out[d], heard[d]) /\ FinalKept(r, pipe[d], out[d], heard[d])
    <3>0. ToolsKept(run[d], out[d], heard[d]) /\ FinalKept(run[d], pipe[d], out[d], heard[d])
      BY Knowing, <2>2 DEF Told
    <3>. QED
      BY <3>0, <1>2 DEF Streaming, InStream, ToolsKept, AnswerKept, FinalKept
  <2>. QED
    BY <2>1, <2>2 DEF Told
<1>. QED
  BY <1>1, <1>4 DEF ToldStep

-----------------------------------------------------------------------------
(* Every step of a reply keeps what holds of what it has said.             *)
LEMMA AllTold ==
  ASSUME NEW d \in Replies, Telling(d), Up,
         Arrive(d) \/ Speaks(d) \/ Advances(d) \/ Delivers(d) \/ Hinders(d)
  PROVE  ToldStep(d)
<1>1. CASE Arrive(d)
  BY <1>1, ArriveTold
<1>2. CASE Speaks(d)
  BY <1>2, SayTextTold, SayMediaTold, SayBeforeToolTold, ToolStartsTold, RetryTold, FailsTold DEF Speaks
<1>3. CASE Advances(d)
  BY <1>3, BeginTold, NoRunTold, ModelEndsTold, RunEndsTold, StopsTold, BuildTold, FinalTold,
     CompleteTold, ToolEndsTold DEF Advances
<1>4. CASE Delivers(d)
  BY <1>4, StagedTold, BlockTold, OverdueTold, ToolReplyTold, IdleTold, DeliverTold, ClearTold DEF Delivers
<1>5. CASE Hinders(d)
  BY <1>5, TimeoutTold, FailTold, BlockLostTold, OverdueLostTold, ToolLostTold, AnswerLostTold DEF Hinders
<1>. QED
  BY <1>1, <1>2, <1>3, <1>4, <1>5

(* What holds of the records of a reply holds after a step that leads to   *)
(* them.                                                                   *)
LEMMA ToldAfter ==
  ASSUME NEW d, NEW r, NEW q, NEW o, NEW h, Told(d, r, q, o, h), arranged' = arranged,
         run'[d] = r, pipe'[d] = q, out'[d] = o, heard'[d] = h
  PROVE  Told(d, run[d], pipe[d], out[d], heard[d])'
<1>1. /\ Texts' = Texts /\ Audio' = Audio /\ Media' = Media /\ Tools' = Tools /\ Talk' = Talk
      /\ Script(d)' = Script(d)
  BY DEF Texts, Audio, Media, Tools, Talk, Kind, Script
<1>2. ASSUME NEW K, NEW s PROVE Of(K, s)' = Of(K, s)
  BY DEF Of, Kind
<1>3. /\ Sifted(pipe[d], {}, Gone(run[d]))' /\ Sorted(d, run[d], pipe[d])'
      /\ Fresh(run[d], pipe[d], out[d], heard[d])' /\ Over(run[d], pipe[d])' /\ Idles(run[d], pipe[d])'
  BY <1>1 DEF Told, Sifted, Placed, GoodPipe, Sorted, Fresh, Over, Spoken, Idles, Sent, Spread, Gone
<1>4. Streaming(r, q, o, h) => Streaming(run[d], pipe[d], out[d], heard[d])'
  BY <1>1 DEF Streaming, InStream, TextsFlow, MediaFlow, Reached, Answered, TextsOf, MediaOf, Of, Kind,
     Given, Line, Sent
<1>5. /\ ToolsKept(r, o, h) => ToolsKept(run[d], out[d], heard[d])'
      /\ AnswerKept(r, o, h) => AnswerKept(run[d], out[d], heard[d])'
      /\ FinalKept(r, q, o, h) => FinalKept(run[d], pipe[d], out[d], heard[d])'
  BY <1>1 DEF ToolsKept, AnswerKept, FinalKept, Answered, Readable, Missed, ToolsOf, TalkOf, Of, Kind, Given, Sent
<1>. QED
  BY <1>3, <1>4, <1>5 DEF Told

(* HearInv holds before any reply has arrived,                             *)
LEMMA HearInvInit == Init => HearInv
<1>. SUFFICES ASSUME Init, NEW d \in Replies PROVE Told(d, run[d], pipe[d], out[d], heard[d])
  BY DEF HearInv
<1>1. Good(d, run[d], pipe[d], out[d], heard[d])
  BY ReplyInvInit DEF ReplyInv
<1>2. /\ run[d].stage = "none" /\ run[d].final = <<>> /\ run[d].said = <<>> /\ run[d].staging = {}
      /\ run[d].tools = <<>> /\ run[d].finals = <<>> /\ run[d].failed = FALSE /\ run[d].late = FALSE
      /\ pipe[d].buffer = <<>> /\ pipe[d].held = <<>> /\ pipe[d].seen = {} /\ pipe[d].chain = <<>>
      /\ pipe[d].sent = {} /\ pipe[d].overdue = {} /\ pipe[d].aborted = FALSE /\ pipe[d].streamed = FALSE
      /\ out[d].chain = <<>> /\ heard[d] = <<>>
      /\ run[d].lost = {} /\ arranged \in Cases
  BY DEF Init
<1>3. /\ Flat(<<>>) = <<>> /\ <<>> \in Payloads /\ Elements(<<>>) = {} /\ <<>> \o <<>> = <<>>
  BY PayloadJoins, ChainJoins
<1>4. TextsOf(<<>>) = <<>> /\ MediaOf(<<>>) = <<>> /\ ToolsOf(<<>>) = <<>> /\ TalkOf(<<>>) = <<>>
  BY <1>2, <1>3, TextsOfIs, MediaOfIs, ToolsOfIs, TalkOfIs
<1>5. Once(<<>>)
  BY OnceFew
<1>6. Given(out[d], heard[d]) = <<>> /\ Line(pipe[d]) = <<>> /\ Sent(pipe[d]) = {} /\ Spread(pipe[d]) = {}
  BY <1>2, <1>3 DEF Given, Line, Sent, Spread
<1>7. Sifted(pipe[d], {}, Gone(run[d]))
  BY <1>1, <1>2, <1>3, <1>5, <1>6 DEF Good, Sifted, Placed, Gone
<1>8. Sorted(d, run[d], pipe[d]) /\ Fresh(run[d], pipe[d], out[d], heard[d]) /\ Over(run[d], pipe[d])
      /\ Idles(run[d], pipe[d])
  BY <1>2, <1>3 DEF Sorted, Fresh, Over, Idles, Spoken
<1>9. Streaming(run[d], pipe[d], out[d], heard[d])
  BY <1>2, <1>3, <1>4, <1>5, <1>6 DEF Streaming, TextsFlow, MediaFlow, Reached
<1>10. ToolsKept(run[d], out[d], heard[d]) /\ AnswerKept(run[d], out[d], heard[d])
       /\ FinalKept(run[d], pipe[d], out[d], heard[d])
  BY <1>2, <1>3, <1>4, <1>6 DEF ToolsKept, AnswerKept, FinalKept, Answered
<1>. QED
  BY <1>7, <1>8, <1>9, <1>10 DEF Told

(* and every step keeps it.                                                *)
LEMMA HearInvStep == ReplyInv /\ HearInv /\ [Next]_vars => HearInv'
<1>. SUFFICES ASSUME ReplyInv, HearInv, [Next]_vars, NEW e \in Replies
              PROVE  Told(e, run[e], pipe[e], out[e], heard[e])'
  BY DEF HearInv
<1>1. ASSUME NEW d \in Replies, Up,
             Arrive(d) \/ Speaks(d) \/ Advances(d) \/ Delivers(d) \/ Hinders(d)
      PROVE  Told(e, run[e], pipe[e], out[e], heard[e])'
  <2>1. PICK r, q, o, h : After(d, r, q, o, h) /\ Told(d, r, q, o, h)
    BY <1>1, AllTold DEF ReplyInv, Fit, HearInv, Telling, ToldStep
  <2>2. CASE e = d
    <3>1. run'[e] = r /\ pipe'[e] = q /\ out'[e] = o /\ heard'[e] = h /\ arranged' = arranged
      BY <2>1, <2>2 DEF ReplyInv, Shape, After
    <3>. QED
      BY <2>1, <2>2, <3>1, ToldAfter
  <2>3. CASE e # d
    <3>1. /\ run'[e] = run[e] /\ pipe'[e] = pipe[e] /\ out'[e] = out[e] /\ heard'[e] = heard[e]
          /\ arranged' = arranged
      BY <2>1, <2>3 DEF ReplyInv, Shape, After
    <3>. QED
      BY <3>1, ToldAfter DEF HearInv
  <2>. QED
    BY <2>2, <2>3
<1>2. ASSUME UNCHANGED <<arranged, run, pipe, out, heard>>
      PROVE  Told(e, run[e], pipe[e], out[e], heard[e])'
  BY <1>2, ToldAfter DEF HearInv
<1>3. CASE RequestGatewayRestart \/ RestartReady \/ RestartAnyway \/ UNCHANGED vars
  BY <1>2, <1>3 DEF RequestGatewayRestart, RestartReady, RestartAnyway, vars
<1>. QED
  BY <1>1, <1>3 DEF Next

(* When nothing more will be heard of it, a reply has been heard.          *)
LEMMA ToldIsHeard ==
  ASSUME ReplyInv, HearInv
  PROVE  HeardAsSaid
<1>. SUFFICES ASSUME NEW d \in Replies, Quiet(d), Delivered(d)
              PROVE  /\ Orderly(d) => IF arranged.streaming THEN "block" \in run[d].lost \/ StreamedAsSaid(d)
                                      ELSE AnsweredAsSaid(d)
                     /\ "tool" \in run[d].lost \/ Of({"tool"}, heard[d]) = Of({"tool"}, run[d].said)
                     /\ /\ ~run[d].failed /\ ~BlockMissed(d)
                        /\ run[d].late => ~pipe[d].aborted
                                          /\ \A p \in Elements(run[d].final) : Kind(p) # "audio"
                        => Elements(run[d].final) \ arranged.unreadable \subseteq Elements(heard[d])
  BY DEF HeardAsSaid
<1>1. /\ run[d] \in RunRec /\ GoodPipe(pipe[d]) /\ heard[d] \in Payloads /\ arranged \in Cases
      /\ Told(d, run[d], pipe[d], out[d], heard[d])
  BY DEF ReplyInv, Good, Shape, HearInv
<1>2. /\ run[d].stage = "complete" /\ run[d].staging = {} /\ run[d].tools = <<>>
      /\ pipe[d].chain = <<>> /\ out[d].chain = <<>> /\ ~out[d].failed
  BY DEF Quiet, Delivered
<1>3. run[d].finals = <<>> /\ Answered(run[d]) /\ Spoken(run[d])
  BY <1>1, <1>2 DEF Told, Over, Answered, Spoken
<1>4. /\ Flat(<<>>) = <<>> /\ Elements(<<>>) = {} /\ heard[d] \o <<>> = heard[d] /\ <<>> \o <<>> = <<>>
  BY <1>1, PayloadJoins, ChainJoins
<1>5. Given(out[d], heard[d]) = heard[d]
  BY <1>2, <1>4 DEF Given
<1>6. /\ Streaming(run[d], pipe[d], out[d], heard[d]) /\ ToolsKept(run[d], out[d], heard[d])
      /\ AnswerKept(run[d], out[d], heard[d]) /\ FinalKept(run[d], pipe[d], out[d], heard[d])
  BY <1>1, <1>2 DEF Told
<1>7. ASSUME Orderly(d), arranged.streaming, "block" \notin run[d].lost
      PROVE  StreamedAsSaid(d)
  <2>1. /\ pipe[d].buffer = <<>> /\ pipe[d].held = <<>> /\ InStream(run[d], pipe[d])
    BY <1>1, <1>3, <1>7 DEF Orderly, Told, Over, InStream
  <2>2. Line(pipe[d]) = <<>>
    BY <1>2, <1>4, <2>1 DEF Line
  <2>3. TextsOf(heard[d]) = TextsOf(run[d].said) /\ Once(MediaOf(heard[d]))
    BY <1>2, <1>4, <1>5, <1>6, <2>1, <2>2 DEF Streaming, TextsFlow, MediaFlow
  <2>4. pipe[d].seen = Sent(pipe[d])
    BY <1>1, <1>2, <1>4, <1>7, <2>1 DEF Orderly, Told, Sifted, Placed, Spread, Gone
  <2>5. (Elements(run[d].said) \cap Media) \ arranged.unreadable = Elements(heard[d]) \cap Media
    <3>1. (Elements(run[d].said) \cap Talk) \ arranged.unreadable \subseteq Sent(pipe[d])
          /\ Elements(heard[d]) \cap Talk = Sent(pipe[d])
      BY <1>2, <1>5, <1>6, <2>1, <2>4 DEF Streaming, Reached
    <3>2. /\ pipe[d].seen \subseteq Elements(run[d].said) /\ pipe[d].seen \cap arranged.unreadable = {}
          /\ Media \subseteq Talk
      BY <1>1, KindsAre DEF Told, Sorted
    <3>. QED
      BY <2>4, <3>1, <3>2
  <2>6. Elements(MediaOf(heard[d])) = Elements(MediaOf(run[d].said)) \ arranged.unreadable
    BY <1>1, <2>5, MediaOfIs DEF RunRec
  <2>. QED
    BY <2>3, <2>6 DEF StreamedAsSaid, TextsOf, MediaOf
<1>8. ASSUME Orderly(d), ~arranged.streaming
      PROVE  AnsweredAsSaid(d)
  BY <1>3, <1>4, <1>5, <1>6, <1>8 DEF Orderly, AnswerKept, AnsweredAsSaid, TalkOf
<1>9. "tool" \in run[d].lost \/ Of({"tool"}, heard[d]) = Of({"tool"}, run[d].said)
  BY <1>2, <1>4, <1>5, <1>6 DEF ToolsKept, ToolsOf
<1>10. ASSUME ~run[d].failed, ~BlockMissed(d),
              run[d].late => ~pipe[d].aborted /\ \A p \in Elements(run[d].final) : Kind(p) # "audio"
       PROVE  Elements(run[d].final) \ arranged.unreadable \subseteq Elements(heard[d])
  <2>1. run[d].late => ~pipe[d].aborted /\ Elements(run[d].final) \cap Audio = {}
    BY <1>10 DEF Audio
  <2>2. ~Missed(run[d], pipe[d])
    BY <1>10 DEF BlockMissed, Missed
  <2>. QED
    BY <1>2, <1>3, <1>4, <1>5, <1>6, <1>10, <2>1, <2>2 DEF FinalKept, Readable
<1>. QED
  BY <1>7, <1>8, <1>9, <1>10

-----------------------------------------------------------------------------
(* In every state a piece seen by the pipeline is in one place, unless a   *)
(* block was lost; what the channel was given and what is on its way are   *)
(* the texts said so far in their order and the media once; and what was   *)
(* neither sent nor lost is in the final payloads, the readable ones only  *)
(* (buildReplyPayloads, createBlockReplyPipeline).                         *)
THEOREM HearInvariant == Spec => []HearInv
<1>1. ReplyInv /\ HearInv /\ [Next]_vars => HearInv'
  BY HearInvStep
<1>. QED
  BY <1>1, HearInvInit, ReplyInvariant, PTL DEF Spec

(* What is said is heard, but for the files that cannot be read: streamed, *)
(* if no block was lost, the texts in their order and each once and the    *)
(* media once, whatever the coalescer does with them; otherwise the answer *)
(* of the last attempt; the results of the tools in theirs, if none was    *)
(* lost; and after a block that timed out, or if blocks were lost and none *)
(* came through, all of the final answer.                                  *)
THEOREM SaidIsHeard == Spec => []HeardAsSaid
<1>1. ReplyInv /\ HearInv => HeardAsSaid
  BY ToldIsHeard
<1>. QED
  BY <1>1, ReplyInvariant, HearInvariant, PTL

=============================================================================
