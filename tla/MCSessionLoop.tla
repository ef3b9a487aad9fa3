--------------------------- MODULE MCSessionLoop ---------------------------
(* TLC instances of SessionLoop. *)
EXTENDS SessionLoop

CONSTANTS plain, export, job

MCKindOf ==
  [r \in Requests |-> CASE r = plain -> "plain" [] r = export -> "export" [] r = job -> "job"]
=============================================================================
