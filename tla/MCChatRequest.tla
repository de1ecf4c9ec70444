--------------------------- MODULE MCChatRequest ---------------------------
(* Model-checking instances of ChatRequest.                                *)
EXTENDS ChatRequest
=============================================================================
