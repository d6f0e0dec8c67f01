--------------------------- MODULE GuardInspection ---------------------------
(* One tools/call answer through handle_s2c's inspection, over every         *)
(* configuration and every content of the given sets: the pure decision of   *)
(* GuardVerdict as a one-step machine, so that its laws can be checked.      *)
EXTENDS GuardVerdict

CONSTANTS Settings,   \* the resolved configurations considered
          Marks       \* the marks an answer may carry

ASSUME InspectionConstants == Settings \subseteq VerdictConfig /\ Marks \subseteq Mark

VARIABLES setting,    \* what the verdict depends on of the GuardConfig of this run
          content,    \* the marks of the answer under inspection
          answer      \* what was handed to the client: [form, marks], or none yet
inspectionVars == <<setting, content, answer>>

NotYet == [form |-> "none", marks |-> {}]

\* Only control characters make the text as sent differ from the stripped one.
Possible(marks) ==
    (\E m \in marks : m.block = "text" /\ m.in # "both") =>
        \E m \in marks : m.block = "text" /\ m.match = "ansi"

InitInspection ==
    /\ setting \in Settings
    /\ content \in SUBSET Marks /\ Possible(content)
    /\ answer = NotYet

\* _apply_result_findings, and the frame it returns.
Inspect ==
    /\ answer = NotYet
    /\ answer' = [form |-> Treatment(setting, content), marks |-> Delivered(setting, content)]
    /\ UNCHANGED <<setting, content>>

NextInspection == Inspect
SpecInspection == InitInspection /\ [][NextInspection]_inspectionVars

-----------------------------------------------------------------------------
\* An answer with one more finding is treated at least as severely: no result
\* can buy itself a milder treatment by containing something else as well.
AddedFindingsNeverWeaken ==
    \A m \in Marks : Strength(Treatment(setting, content \cup {m}))
                       >= Strength(Treatment(setting, content))

\* Each --no-block flag only ever relaxes: opting a rule out never makes the
\* guard treat an answer more severely than before.
OptOutsOnlyRelax ==
    \A r \in Deterministic :
        Strength(Treatment([setting EXCEPT !.optedOut = @ \cup {r}], content))
          <= Strength(Treatment(setting, content))

\* What a mark of the answer would be acted upon for, had it been looked for in
\* the text the client receives.
ActsOn(m) ==
    \/ Enforced(setting, m) /\ (m.match = "ansi" => ~setting.binaryOk)
    \/ Promoted(setting, m)

\* What an enabled or promoted rule matches in the answer the client receives
\* is of four kinds: raw IP literals, matches in a block that has only a uri,
\* secrets found by entropy while secrets are redacted in place, and what was
\* joined by deleting control characters.  Of the last, no vendor secret if a
\* secret was found as well: secrets are replaced after the deletion.
OnlyKnownResidue ==
    \A m \in answer.marks :
        ActsOn(m) =>
            \/ m.match = "ip"
            \/ m.block = "uri" /\ answer.form = "redacted"
            \/ m.match = "entropy" /\ setting.redactSecrets
            \/ /\ m.in = "stripped" /\ answer.form = "redacted"
               /\ m.match = "vendor" => "secret-echo" \notin Driving(setting, content)

\* Documented: every rule of the deterministic tier blocks by default, so an
\* answer in which an enabled one fired is not forwarded as it came
\* (docs/RESULT_INSPECTION.md:364 to :367, the catalogue at a glance).
EnabledRulesAct ==
    answer.form = "raw" => \A m \in Findings(setting, content) : ~Enforced(setting, m)

\* Documented: in redacted-content mode the matched secret is replaced in place
\* (docs/GUARD_PROXY.md:361).
SecretsAreReplaced ==
    answer.form = "redacted" =>
        \A m \in answer.marks \cap RedactMatch(setting, content) : Rule(m) # "secret-echo"
=============================================================================
