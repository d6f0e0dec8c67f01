-------------------------- MODULE MCGuardInspection --------------------------
(* Every flag of the verdict, and every mark that some branch tells apart.   *)
EXTENDS GuardInspection

MCSettings == [auditOnly : BOOLEAN, phrases : {"monitor", "named", "all"},
              optedOut : {{}, {"ansi"}, {"secret-echo"}},
              redactSecrets : BOOLEAN, secretEchoApplies : BOOLEAN, binaryOk : BOOLEAN]

Seen(match, block, in) == [match |-> match, block |-> block, in |-> in]

MCMarks == {Seen(x, "text", "both") : x \in {"entropy", "vendor", "ip", "dns", "named"}}
           \cup {Seen("ansi", block, "sent") : block \in Blocks}
           \cup {Seen("domain", "text", "sent")}
           \cup {Seen(x, "text", "stripped") : x \in {"vendor", "named"}}
=============================================================================
