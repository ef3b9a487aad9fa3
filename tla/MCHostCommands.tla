---------------------------- MODULE MCHostCommands ----------------------------
EXTENDS HostCommands

Shell == [killer |-> "direct", priv |-> FALSE, input |-> "none", use |-> "shell", cleanup |-> TRUE,
          quiet |-> FALSE]
MCKinds == {Shell, [Shell EXCEPT !.input = "small"],
            [Shell EXCEPT !.input = "large", !.priv = TRUE],
            [Shell EXCEPT !.use = "script", !.cleanup = FALSE],
            [Shell EXCEPT !.use = "script", !.killer = "sudo", !.priv = TRUE],
            [Shell EXCEPT !.use = "stdio"]}
MCTrees == {[Shell EXCEPT !.killer = "sudo", !.priv = TRUE, !.quiet = TRUE]}
MCCommands == MCKinds \cup MCTrees
(* What the checks of the configuration leave alone is of no account.      *)
MCEndpoints ==
    {e \in Endpoint : e.transport # "stdio" => e.handshake = "none" /\ ~e.env}
MCWindows == (0..2) \X (0..2) \X (0..4)
MCAlphabets == {Bytes, Words16}
MCLimits == 0..4

Words(n) == BoundedSeq({"a", "b"}, n)
MCRequests ==
    ({"replace", "regex"} \X Words(4) \X Words(2) \X {<<>>} \X Words(1) \X (0..2) \X {FALSE})
    \cup ({"replace-block"} \X Words(4) \X Words(1) \X Words(1) \X {<<>>, <<"b">>} \X {0} \X {FALSE})
    \cup ({"write", "append", "prepend"} \X {<<"a">>} \X {<<>>} \X {<<>>}
            \X BoundedSeq({"a", "\\", "n"}, 3) \X {0} \X BOOLEAN)
=============================================================================
