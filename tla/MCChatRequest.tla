--------------------------- MODULE MCChatRequest ---------------------------
(* ChatRequest for TLC: a request with every combination of reporters. *)
EXTENDS ChatRequest
=============================================================================
