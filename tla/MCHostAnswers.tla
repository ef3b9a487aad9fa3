---------------------------- MODULE MCHostAnswers ----------------------------
(* The instance of MCHostWork, with the history of HostAnswers.            *)
EXTENDS MCHostWork, HostAnswers
=============================================================================
