---------------------------- MODULE GuardVerdict ----------------------------
(* What the guard does with one tools/call result: which findings the        *)
(* inspection catalogue reports, which of them block under the resolved      *)
(* configuration (guard_loop.GuardConfig), whether the answer goes through,  *)
(* is redacted in place or replaced by an error (guard_result), and what the *)
(* redaction of wire_block leaves of the content.                            *)
(*                                                                           *)
(* A result is the set of marks the catalogue can find in it: a mark names   *)
(* what is matched, the kind of content block it stands in, and whether it   *)
(* is matched in the text as sent, in the text once its control characters   *)
(* are gone, or in both.  Pattern matching is outside the model.             *)
EXTENDS Naturals

\* What can be matched.  "vendor" and "entropy" are the two halves of
\* scan_field, "named" is a phrase on the operator's own list, "curated" one
\* that is not, "url" stands for the rules that only ever make a note.
Matches == {"ansi", "vendor", "entropy", "domain", "ip", "dns",
            "named", "curated", "url"}

\* Inspectable blocks: embedded text, and a resource that only has a uri.
Blocks == {"text", "uri"}

\* strip_ansi joins what control characters kept apart and runs together what
\* they separated.  A control character is itself there only as sent, and a
\* block with a uri alone is never stripped.
Texts == {"both", "sent", "stripped"}
Mark == {m \in [match : Matches, block : Blocks, in : Texts] :
           /\ m.match = "ansi" => m.in = "sent"
           /\ m.block = "uri" => m.in # "stripped"}

\* The WRD-RES-* rule a match is reported under.
Rule(m) == IF m.match \in {"vendor", "entropy"} THEN "secret-echo"
           ELSE IF m.match \in {"named", "curated"} THEN "inject-phrase"
           ELSE m.match

Deterministic == {"ansi", "secret-echo", "domain", "ip", "dns"}

\* The fields of GuardConfig the verdict depends on (a session's configuration
\* record has these and more), and of the lock's inspection policy for the tool:
\* whether its secrets block and whether control characters are its business.
VerdictConfig == [auditOnly : BOOLEAN, optedOut : SUBSET Deterministic,
                  phrases : {"monitor", "named", "all"}, redactSecrets : BOOLEAN,
                  secretEchoApplies : BOOLEAN, binaryOk : BOOLEAN]

-----------------------------------------------------------------------------
\* Mutant: the opt-out flag read as an opt-in.
CategoryOptedIn(c, r) ==
    /\ ~c.auditOnly
    /\ r \in Deterministic \cap c.optedOut

\* GuardConfig.category_enabled.
CategoryEnabled(c, r) ==
    /\ ~c.auditOnly
    /\ r \in Deterministic \ c.optedOut

\* The text that is inspected, and forwarded where nothing is redacted.
AsSent(content) == {m \in content : m.in # "stripped"}

\* inspect_result, then the DNS pass that runs only while its rule is enabled.
Findings(c, content) ==
    {m \in AsSent(content) : /\ m.match = "ansi" => ~c.binaryOk
                             /\ m.match = "dns" => CategoryEnabled(c, "dns")}

\* A secret of a tool whose lock says so is a note, whatever the flags.
Enforced(c, m) ==
    /\ CategoryEnabled(c, Rule(m))
    /\ Rule(m) = "secret-echo" => c.secretEchoApplies

\* Monitor-tier findings an operator promoted to blocking.
Promoted(c, m) ==
    /\ ~c.auditOnly
    /\ \/ c.phrases = "all" /\ m.match \in {"named", "curated"}
       \/ c.phrases = "named" /\ m.match = "named"

\* block_findings of _apply_result_findings.
BlockFindings(c, content) ==
    {m \in Findings(c, content) : Enforced(c, m) \/ Promoted(c, m)}

ErrorRules(c) == {"domain", "inject-phrase", "dns"}
                 \cup (IF c.redactSecrets THEN {} ELSE {"secret-echo"})
RedactRules(c) == {"ansi"} \cup (IF c.redactSecrets THEN {"secret-echo"} ELSE {})

ErrorMatch(c, content) == {m \in BlockFindings(c, content) : Rule(m) \in ErrorRules(c)}
RedactMatch(c, content) == {m \in BlockFindings(c, content) : Rule(m) \in RedactRules(c)}

\* Mutant: redaction decided before error replacement.
RedactFirst(c, content) ==
    IF RedactMatch(c, content) # {} THEN "redacted"
    ELSE IF ErrorMatch(c, content) # {} THEN "blocked"
    ELSE "raw"

\* The answer handed to the client: error replacement wins over redaction.
Treatment(c, content) ==
    IF ErrorMatch(c, content) # {} THEN "blocked"
    ELSE IF RedactMatch(c, content) # {} THEN "redacted"
    ELSE "raw"

\* The rules that drive a redaction; each is applied to every block that
\* _block_text reads.
Driving(c, content) == {Rule(m) : m \in RedactMatch(c, content)}

StripAnsi(content) == {m \in content : m.block = "text" => m.in # "sent"}

RedactSecrets(content) == {m \in content : m.block = "text" => m.match # "vendor"}

\* Mutant: secrets are replaced first, in the text as sent.
SecretsFirst(c, content) ==
    LET sent == AsSent(content)
        replaced == IF "secret-echo" \in Driving(c, content) THEN RedactSecrets(sent) ELSE sent
    IN  IF "ansi" \in Driving(c, content)
        THEN StripAnsi(replaced \cup (content \ sent)) ELSE replaced

\* redacted_result: control characters are deleted, then vendor-pattern secrets
\* are replaced in what that leaves.  Nothing inspects the joined text again.
Redacted(c, content) ==
    LET text == IF "ansi" \in Driving(c, content) THEN StripAnsi(content)
                ELSE AsSent(content)
    IN  IF "secret-echo" \in Driving(c, content) THEN RedactSecrets(text) ELSE text

\* The marks of the answer the client receives.
Delivered(c, content) ==
    CASE Treatment(c, content) = "blocked" -> {}
      [] Treatment(c, content) = "redacted" -> Redacted(c, content)
      [] OTHER -> AsSent(content)

Strength(t) == IF t = "blocked" THEN 2 ELSE IF t = "redacted" THEN 1 ELSE 0
=============================================================================
