----------------------------- MODULE MCHostWork -----------------------------
(* Two handlers on two paths, one of them in a directory that may be       *)
(* missing; a directed choice of requests keeps the instance small.        *)
EXTENDS HostWork, TLC

CONSTANTS a, b

Req(op, s, d, f) == [op |-> op, src |-> s, dst |-> d, flags |-> f]
Changes ==
    {Req(o, a, b, f) : o \in {"move", "copy"}, f \in {{}, {"overwrite"}}}
    \cup {Req("delete", b, b, {"recursive"}), Req("delete", a, a, {}),
          Req("delete", b, b, {"own"})}
    \cup {Req(o, a, a, {}) : o \in {"chmod", "chown"}}
    \cup {Req("edit", b, b, f) : f \in {{"create"}, {"create", "sudo"}, {"no_backup"},
                                        {"sudo"}, {"dry_run"}, {"upload"}}}
    \cup {Req("edit", a, a, f) : f \in {{}, {"sudo"}}}
    \cup {Req("role", a, a, {}), Req("move", b, a, {"overwrite"}),
          Req("move", a, a, {})}
Git ==
    {Req("clone", b, b, {}), Req("copy", a, b, {}), Req("edit", a, a, {}),
     Req("patch", a, a, {}), Req("patch", a, a, {"dry_run"})}
    \cup {Req("push", a, a, f) : f \in {{}, {"force"}, {"force", "expected"}}}
Exports ==
    {Req("export", a, a, {}), Req("export", a, b, {}), Req("move", b, a, {"overwrite"})}
Walks ==
    {Req("list", a, a, {}), Req("search", a, a, {}), Req("move", b, a, {"overwrite"})}
MCHosts ==
    [cross : BOOLEAN, links : BOOLEAN, root : BOOLEAN, mix : {Changes}]
    \cup [cross : BOOLEAN, links : {TRUE}, root : {FALSE}, mix : {Git}]
    \cup [cross : {FALSE}, links : {TRUE}, root : {FALSE}, mix : {Exports, Walks}]
Symmetric == Permutations(Handlers)
=============================================================================
