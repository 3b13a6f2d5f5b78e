--------------------------- MODULE MCReplyRouting ---------------------------
(* Two requests, under one message id or two, each with two subscribers.    *)
EXTENDS ReplyRouting
=============================================================================
