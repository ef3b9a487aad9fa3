----------------------------- MODULE HostAnswers -----------------------------
(***************************************************************************)
(* What the steps of a handler have done to its destination, kept beside   *)
(* HostWork in a history variable, and what its answer says of it.         *)
(***************************************************************************)
EXTENDS HostWork

VARIABLE effect   \* of each handler: <<>>, or whose content was at its
                  \* destination before its own steps and whose is after them

historyVars == <<vars, effect>>

(* A reservation holds no content yet.                                     *)
Whose(e) == IF e = Absent \/ e.data[2] = "empty" THEN 0 ELSE e.data[1]

Noted(e, was, is) ==
    CASE was = is -> e
      [] was # is /\ e = <<>> -> <<was, is>>
      [] was # is /\ e # <<>> -> IF e[1] = is THEN <<>> ELSE <<e[1], is>>

HistoryInit == Init /\ effect = [h \in Handlers |-> <<>>]

HistoryNext ==
    /\ Next
    /\ effect' = [h \in Handlers |->
                    IF w[h].pc # "idle" /\ w'[h] # w[h]
                    THEN Noted(effect[h], Whose(fs[Dst(h)]), Whose(fs'[Dst(h)]))
                    ELSE effect[h]]

HistorySpec == HistoryInit /\ [][HistoryNext]_historyVars

(* An error without a mark means that the handler has left its destination *)
(* with the content it had, as far as its own steps go: what was set aside *)
(* is back, what was half installed is gone. The marks are the answers     *)
(* that say otherwise: a failed sync, a helper that timed out after its    *)
(* effect, a rollback or a recovery that failed, an in-place write undone  *)
(* from the backup. Two operations do not keep this and are left out: a    *)
(* clone that fails removes the directory it finds at its destination,     *)
(* another request's too, and git apply has removed the old text when it   *)
(* finds the path taken. A delete that fails may have emptied a directory  *)
(* in part, and a creation without hard links may leave its empty          *)
(* reservation: neither brings in another's content.                       *)
ErrorsLeaveItAlone ==
    \A h \in Handlers :
        /\ w[h].result = "error" /\ w[h].op \notin {"clone", "patch"}
        /\ w[h].notes \cap {"sync", "timeout", "reported", "restored"} = {}
        => effect[h] = <<>>

(* An answer ok means that the handler's own step has put its content at   *)
(* the destination, or removed what was there, whatever others did before  *)
(* or after. A privileged mv takes the file into a directory that has come *)
(* up at the path, and says ok.                                            *)
OkMeansDone ==
    \A h \in Handlers :
        w[h].result = "ok" =>
            /\ w[h].op \in {"edit", "clone", "patch"} /\ ~Asked(h, "dry_run")
                  /\ "inside" \notin w[h].notes
               => effect[h] # <<>> /\ effect[h][2] = h
            /\ w[h].op = "delete" /\ host.links => effect[h] # <<>> /\ effect[h][2] = 0

AnswerTellsTruth == ErrorsLeaveItAlone /\ OkMeansDone
=============================================================================
