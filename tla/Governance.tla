----------------------------- MODULE Governance -----------------------------
(***************************************************************************)
(* What stands between a decision and its evidence: the signer             *)
(* authorization (signer_authorization.py), the strengthening rules        *)
(* (rule_engine.py, rule_models.py), the finite overrides and the governor *)
(* (decision_governor.py), and the decision it publishes                   *)
(* (governed_decision.py).  All of it is pure: protected floors and the    *)
(* time are arguments.                                                     *)
(*                                                                         *)
(* A refusal is a code; Nothing stands for none.                           *)
(***************************************************************************)
EXTENDS PolicyDecision, Refusals      \* Nothing: no refusal, no override

-----------------------------------------------------------------------------
(* Protected floors: a function from artifact kinds to [generation, digest]. *)

\* validate_floor: a missing floor admits nothing, and no floor admits what is no generation.
UnderFloor(floors, kind, generation, digest) ==
    \/ kind \notin DOMAIN floors \/ generation \notin Nat
    \/ BelowFloor(generation, digest, floors[kind])

StateError == "STATE"     \* a StateError: the enforcement point reports it as recovery-only

\* What the governor refuses with, itself and through the authorization, the rules and the override.
GovernorCodes == {"RCT-STALE", "RCT-SIGNER-UNAUTHORIZED", "RCT-INTEGRITY", "RULE-POLICY-MISMATCH",
                  "RULE-OVERRIDE-INVALID", StateError}
ASSUME NothingAssumption == Nothing \notin GovernorCodes

-----------------------------------------------------------------------------
(* Signer authorization: who may sign what, under which trust root.        *)

AuthorizationDigest(a) == Digest("authorization", a)
Current(x, now) == x.from <= now /\ now < x.until

\* check_authorization: live authority against time and floors.
AuthorizationRefusals(a, floors, now) ==
    <<<<~Current(a, now), "RCT-STALE">>,
      <<UnderFloor(floors, "signer-authorization", a.generation, AuthorizationDigest(a)), StateError>>,
      <<UnderFloor(floors, "trust-root", a.rootGeneration, a.root), StateError>>>>

\* activate_signer_authorization: the root's signature, then the same.
MayActivateAuthorization(a, floors, now) ==
    a.rootSigned /\ FirstRefusal(AuthorizationRefusals(a, floors, now)) = Nothing

\* verify_authorized_artifact: a signature counts for the role and kind the grant names, under
\* the very authorization it was made for.
AuthorizedBy(evidence, a, kind, role) ==
    /\ evidence.kind = kind /\ evidence.role = role /\ evidence.valid
    /\ evidence.authorization = AuthorizationDigest(a)
    /\ [signer |-> evidence.signer, role |-> role, kind |-> kind] \in a.grants

-----------------------------------------------------------------------------
(* Rules.                                                                  *)

Precedence == [allow |-> 0, deny |-> 1, quarantine |-> 2]
Effects == {"deny", "quarantine"}

\* RuleConditionV1: the operator goes with the field's type.
IntFields == {"trusted_time", "policy_generation", "revocation_generation", "rule_generation"}
ConditionOk(c) ==
    CASE c.field \in IntFields -> c.operator = "integer-range" /\ 0 <= c.minimum /\ c.minimum <= c.maximum
      [] c.field = "envelope.taints" -> c.operator = "contains-taint"
      [] OTHER -> c.operator \in {"equals", "not-equals", "in"}

\* RuleV1, RuleGroupV1, RuleBundleV1.
RuleOk(r) == /\ r.mode \in {"all", "any"} /\ r.effect \in Effects
             /\ r.conditions # {} /\ \A c \in r.conditions : ConditionOk(c)
BundleOk(b) == b.from < b.until /\ \A i \in DOMAIN b.rules : RuleOk(b.rules[i])

\* matches: a field that is not there matches nothing, not even not-equals.
Matches(c, fields) ==
    /\ c.field \in DOMAIN fields
    /\ LET value == fields[c.field] IN
       CASE c.operator = "integer-range"  -> c.minimum <= value /\ value <= c.maximum
         [] c.operator = "contains-taint" -> c.value \in value
         [] c.operator = "equals"         -> value = c.value
         [] c.operator = "not-equals"     -> value # c.value
         [] c.operator = "in"             -> value \in c.values

Fires(rule, fields) ==
    IF rule.mode = "all" THEN \A c \in rule.conditions : Matches(c, fields)
                         ELSE \E c \in rule.conditions : Matches(c, fields)

\* evaluate_rules, rule by rule in the order of the bundle.
EvaluateRules(rules, fields, base) ==
    LET verdict[i \in 0..Len(rules)] ==
            IF i = 0 THEN base
            ELSE IF /\ Fires(rules[i], fields)
                    /\ Precedence[rules[i].effect] > Precedence[verdict[i - 1]]
            THEN rules[i].effect
            ELSE verdict[i - 1]
    IN  verdict[Len(rules)]

RuleDigest(b) == Digest("rule", b)

\* The fixed negative corpus every bundle must leave at least as severe.
Corpus == {"deny", "quarantine"} \X {"PDP-CRITICAL-TAINT", "PDP-LEASE-REVOKED", "PDP-POLICY-ROLLBACK"}
CorpusField(case, name) == IF name = "base.verdict" THEN case[1] ELSE case[2]
CorpusFields(case) == [name \in {"base.verdict", "base.reason"} |-> CorpusField(case, name)]
KeepsCorpus(b) ==
    \A case \in Corpus :
        Precedence[EvaluateRules(b.rules, CorpusFields(case), case[1])] >= Precedence[case[1]]

\* activate_rule_bundle.
MayActivateRules(b, a, floors, now, policyRules) ==
    /\ BundleOk(b)
    /\ RuleDigest(b) = policyRules
    /\ Current(b, now)
    /\ ~UnderFloor(floors, "rule", b.generation, RuleDigest(b))
    /\ FirstRefusal(AuthorizationRefusals(a, floors, now)) = Nothing
    /\ AuthorizedBy(b.evidence, a, "rule", "rule-publisher")
    /\ KeepsCorpus(b)

\* check_rules.
RuleRefusals(b, policyRules, floors, now) ==
    <<<<RuleDigest(b) # policyRules, "RULE-POLICY-MISMATCH">>,
      <<~Current(b, now), "RCT-STALE">>,
      <<UnderFloor(floors, "rule", b.generation, RuleDigest(b)), StateError>>>>

-----------------------------------------------------------------------------
(* Overrides.                                                              *)

OverrideDigest(o) == Digest("override", o)
MaxOverrideSpan == 3600
OverridableReasons == {"PDP-DENY-DEFAULT"}

\* OverrideAuthorizationV1: finite.
OverrideOk(o) == o.from < o.until /\ o.until - o.from <= MaxOverrideSpan

\* activate_override.
MayActivateOverride(o, a, floors, now) ==
    /\ OverrideOk(o)
    /\ Current(o, now)
    /\ ~UnderFloor(floors, "override", o.generation, OverrideDigest(o))
    /\ FirstRefusal(AuthorizationRefusals(a, floors, now)) = Nothing
    /\ AuthorizedBy(o.evidence, a, "override", "override-authorizer")

\* The digest of the trusted time under which a request is decided.
TimeDigest(runtime) == <<"time", runtime.digest, runtime.runtime.time, runtime.runtime.until>>

\* _check_override: exact binding to request, decision, policy, rules, actor, scope and time.
\* Its floor is looked at last.
Bound(o, base, request, governor, runtime) ==
    /\ base.verdict = "deny" /\ base.reason \in OverridableReasons /\ o.reason = base.reason
    /\ o.request = request.digest /\ o.base = Digest("decision", base)
    /\ o.policy = base.policy
    /\ o.rules = RuleDigest(governor.rules)
    /\ o.actor = request.identity /\ o.scope = request.scope
    /\ o.time = TimeDigest(runtime)
    /\ Current(o, runtime.runtime.time)

OverrideRefusals(active, base, request, governor, runtime, floors) ==
    LET o == active.authorization IN
    <<<<\/ ~Bound(o, base, request, governor, runtime)
        \/ active.signedUnder # AuthorizationDigest(governor.authorization), "RULE-OVERRIDE-INVALID">>,
      <<UnderFloor(floors, "override", o.generation, OverrideDigest(o)), StateError>>>>

-----------------------------------------------------------------------------
(* The governor: a policy, a rule bundle and a signer authorization.       *)

\* DecisionGovernorV1.__init__, with what it was given.
GovernorOk(g) == g.active.policy.root = g.authorization.root

\* The fields rules may name, those that are absent left out.
RuleFields(base, request, now, governor) ==
    LET operation == request.operation
        named == {"base.verdict", "base.reason", "envelope.taints", "trusted_time",
                  "policy_generation", "revocation_generation", "rule_generation",
                  "capability", "purpose_digest"}
                 \cup (IF operation.bundle # "none" THEN {"bundle_manifest_digest"} ELSE {})
    IN  [name \in named |->
            CASE name = "base.verdict"           -> base.verdict
              [] name = "base.reason"            -> base.reason
              [] name = "envelope.taints"        -> request.envelope.taints
              [] name = "trusted_time"           -> now
              [] name = "policy_generation"      -> governor.active.policy.generation
              [] name = "revocation_generation"  -> governor.active.policy.revocation
              [] name = "rule_generation"        -> governor.rules.generation
              [] name = "capability"             -> operation.capability
              [] name = "purpose_digest"         -> request.purpose
              [] name = "bundle_manifest_digest" -> operation.bundle]

\* govern: the refusals, in the order of the code, then the verdict.
GovernRefusals(g, base, request, floors, now) ==
    AuthorizationRefusals(g.authorization, floors, now)
    \o RuleRefusals(g.rules, g.active.policy.rules, floors, now)
    \o <<<<g.rulesSignedUnder # AuthorizationDigest(g.authorization), "RCT-SIGNER-UNAUTHORIZED">>,
         <<UnderFloor(floors, "policy", g.active.policy.generation, g.active.digest), StateError>>,
         <<UnderFloor(floors, "revocation", g.active.policy.revocation, g.active.revocationDigest),
           StateError>>,
         <<base.request # request.digest \/ base.policy # g.active.digest, "RCT-INTEGRITY">>>>

RuleReason(verdict) == IF verdict = "quarantine" THEN "RULE-QUARANTINED" ELSE "RULE-BLOCKED"

\* EnforcementDecisionV2, as far as later steps look at it.
Governed(base, verdict, reason, recovery, override) ==
    [base |-> base.verdict, baseReason |-> base.reason, verdict |-> verdict, reason |-> reason,
     recovery |-> IF verdict = "allow" THEN "none" ELSE recovery, override |-> override]

\* A rule that strengthened the decision stands above any override.
NeverStrengthened(verdict, base) == FALSE                          \* mutant: rules outvoted
Strengthened(verdict, base) == verdict # base.verdict

Refused(code) == [refusal |-> code, decision |-> Nothing]
Granted(decision) == [refusal |-> Nothing, decision |-> decision]

Govern(g, base, request, runtime, floors, override) ==
    LET now     == runtime.runtime.time
        refusal == FirstRefusal(GovernRefusals(g, base, request, floors, now))
        verdict == EvaluateRules(g.rules.rules, RuleFields(base, request, now, g), base.verdict)
        reason  == IF verdict = base.verdict THEN base.reason ELSE RuleReason(verdict)
        invalid == FirstRefusal(OverrideRefusals(override, base, request, g, runtime, floors))
    IN  CASE refusal # Nothing      -> Refused(refusal)
          [] refusal = Nothing /\ override = Nothing ->
                 Granted(Governed(base, verdict, reason, base.recovery, Nothing))
          [] OTHER ->
                 IF invalid # Nothing THEN Refused(invalid)
                 ELSE IF Strengthened(verdict, base) THEN Refused("RULE-OVERRIDE-INVALID")
                 ELSE Granted(Governed(base, "allow", "RULE-OVERRIDE", base.recovery, override))

\* convert_failed_allow: what becomes of an allow whose evidence failed.
Converted(d) == [d EXCEPT !.verdict = "deny", !.reason = "PEP-EVIDENCE-UNAVAILABLE",
                          !.recovery = "recovery-only", !.override = Nothing]
=============================================================================
