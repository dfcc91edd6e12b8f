------------------------- MODULE MCReplyDelivery -------------------------
(* Small instances of ReplyDelivery: one reply with texts, media and a     *)
(* tool, under everything that can happen to it, and two at once with a    *)
(* restart.                                                                *)
EXTENDS ReplyDelivery

CONSTANTS d1, d2, a, b, c, image, picture, audio, tool

Kinds == [p \in Pieces |-> CASE p \in {a, b, c} -> "text" [] p \in {image, picture} -> "image"
                             [] p = audio -> "audio" [] p = tool -> "tool"]

Case(one, two, streaming, coalescing, unreadable, happens) ==
  [script |-> [d \in Replies |-> IF d = d1 THEN one ELSE two], kind |-> Kinds, streaming |-> streaming,
   coalescing |-> coalescing, unreadable |-> unreadable, happens |-> happens]

TestedCases ==
  {(* texts, coalesced in every way, that may time out, or be said again *)
   Case(<<a, b, c>>, <<>>, TRUE, Hows, {}, {"timeout", "retry"}),
   Case(<<a, b, tool, c>>, <<>>, TRUE, {"fits", "overflows"}, {}, {"timeout", "error", "restart"}),
   (* media and texts *)
   Case(<<a, image, b>>, <<>>, TRUE, Hows, {}, {"timeout", "restart"}),
   Case(<<image, audio, tool>>, <<>>, TRUE, {"fits"}, {}, {"retry"}),
   Case(<<audio, a>>, <<>>, TRUE, {"fits"}, {}, {"timeout", "retry", "restart"}),
   (* media that comes late, after a block, or before one, that times out *)
   Case(<<a, image, picture>>, <<>>, TRUE, {"alone"}, {}, {"timeout"}),
   (* media that cannot be read, between what can be *)
   Case(<<a, image, b>>, <<>>, TRUE, {"alone"}, {image}, {"timeout", "failure", "restart", "impatience"}),
   Case(<<image, a, audio>>, <<>>, FALSE, {"alone"}, {image}, {"retry", "rejection"}),
   (* blocks, results and answers whose hand-over rejects *)
   Case(<<a, b, tool>>, <<>>, TRUE, {"fits", "alone"}, {}, {"timeout", "rejection", "retry", "restart"}),
   Case(<<a, image, b>>, <<>>, TRUE, {"fits", "alone"}, {}, {"rejection", "timeout"}),
   (* no streaming; texts and media repeated *)
   Case(<<a, image, tool, image, a>>, <<>>, FALSE, {"alone"}, {}, {"retry"}),
   Case(<<a, tool, image>>, <<>>, FALSE, {"alone"}, {}, {"rejection", "failure", "error", "restart"}),
   (* two replies at once *)
   Case(<<a>>, <<b, tool>>, TRUE, {"fits"}, {}, {"restart"}),
   Case(<<a>>, <<b>>, TRUE, {"alone"}, {}, {"timeout", "error", "restart"})}
=============================================================================
