------------------------------ MODULE Authority ------------------------------
(***************************************************************************)
(* Authority that changes while requests run.  Enforcement points hold     *)
(* policies, rules and signer authorizations that others may supersede;    *)
(* the protected state keeps the highest generation and digest accepted of *)
(* each kind.  A request is decided on floors read at one moment, its      *)
(* receipt is committed at another, and the handler runs at a third        *)
(* (policy_enforcement_v2.py, with decision_governor.py, the floors of     *)
(* evidence_helpers.py and the commit of evidence_coordinator.py, which is *)
(* one step here: its own steps are EvidenceCoordinator's).                *)
(***************************************************************************)
EXTENDS Governance, FiniteSets, Functions, TLC

CONSTANTS Points,          \* enforcement points
          Governors,       \* name -> the governor and adapter an enforcement point can be built from
          Requests,        \* name -> request
          Runtimes,        \* name -> activated runtime snapshot
          Overrides,       \* name -> override
          Genesis,         \* the floors the host enrolled
          Kinds,           \* the kinds of floor
          MaxCalls,        \* bound: requests executed
          MaxActivations   \* bound: overrides activated

ASSUME AuthorityBounds == MaxCalls \in Nat /\ MaxActivations \in Nat

\* What the host enrols has a floor of every kind.
ASSUME GenesisAssumption ==
    DOMAIN Genesis = Kinds /\ \A kind \in Kinds : Genesis[kind].generation \in Nat

\* A bundle's rules are in order.
ASSUME RulesAssumption ==
    \A name \in DOMAIN Governors :
        LET rules == Governors[name].rules.rules IN rules \in Seq(Range(rules))

VARIABLES floors,       \* the protected floors
          seq,          \* primary_sequence
          healthy,      \* operationally_healthy
          built,        \* the governor each enforcement point was built from, by name
          activeOverrides,   \* overrides activated, with the authorization they were signed under
          pc,           \* where each point stands in _execute
          call,         \* the request it executes, its runtime and override, by name
          decision,     \* its governed decision
          evidence,     \* the sequence number of its receipt
          calls,
          effects       \* history: the handler calls

vars == <<floors, seq, healthy, built, activeOverrides, pc, call, decision, evidence, calls, effects>>
shared == <<floors, seq, healthy, built, activeOverrides>>

NoCall == [request |-> Nothing, runtime |-> Nothing, override |-> Nothing]
Idle(c) == pc[c] = "idle"

Init ==
    /\ floors = Genesis /\ seq = 0 /\ healthy = TRUE /\ activeOverrides = {}
    /\ built = [c \in Points |-> Nothing]
    /\ pc = [c \in Points |-> "idle"]
    /\ call = [c \in Points |-> NoCall]
    /\ decision = [c \in Points |-> Nothing]
    /\ evidence = [c \in Points |-> 0]
    /\ calls = 0 /\ effects = {}

-----------------------------------------------------------------------------
(* What a point works with, on the call it is given.                       *)

OverrideOf(x) == IF x.override = Nothing THEN Nothing
                 ELSE CHOOSE a \in activeOverrides : a.name = x.override
Base == [g \in DOMAIN Governors |-> [r \in DOMAIN Requests |-> [t \in DOMAIN Runtimes |->
            Evaluate(Governors[g].active, Requests[r], Runtimes[t])]]]
BaseOf(name, x) == Base[name][x.request][x.runtime]

\* The runtime snapshot is sealed, whole and not past its own end.
TimeValid(x) ==
    LET r == Runtimes[x.runtime] IN
    r.sealed /\ r.digest = Digest("runtime", r.runtime) /\ r.runtime.time < r.runtime.until

\* The codes of an enforcement point itself.
PreflightCodes == {"PEP-REQUEST-MALFORMED", "PEP-EFFECT-MALFORMED", "PEP-EFFECT-DIGEST-MISMATCH",
                   "PEP-ADAPTER-MISMATCH", "PEP-BUNDLE-UNAVAILABLE", "PEP-BUNDLE-MISMATCH",
                   "PEP-OPERATION-UNKNOWN"}
ASSUME EnforcementAssumption ==
    Nothing \notin PreflightCodes \cup {"PEP-RECOVERY-ONLY", "PEP-EVIDENCE-UNAVAILABLE"}

\* preflight: shape, effect, its arguments, adapter, bundle, operation.  An effect whose digest is
\* not that of its own arguments, or that is no effect, is "malformed".
Preflight(g, r) ==
    LET bundle == r.operation.bundle IN
    FirstRefusal(
      <<<<r.shape # "exact", "PEP-REQUEST-MALFORMED">>,
        <<r.effect = "malformed", "PEP-EFFECT-MALFORMED">>,
        <<r.effect # r.operation.arguments, "PEP-EFFECT-DIGEST-MISMATCH">>,
        <<r.operation.adapter # g.adapter, "PEP-ADAPTER-MISMATCH">>,
        <<bundle # "none" /\ bundle \notin DOMAIN g.bundles, "PEP-BUNDLE-UNAVAILABLE">>,
        <<bundle \in DOMAIN g.bundles /\ r.envelope.bundle # g.bundles[bundle], "PEP-BUNDLE-MISMATCH">>,
        <<[id |-> r.operation.id, capability |-> r.operation.capability] \notin g.operations,
          "PEP-OPERATION-UNKNOWN">>>>)

\* Adapter and bundle have no generation: their digests are the enrolled ones.
AuthorityReady(g, r) ==
    /\ healthy
    /\ ~UnderFloor(floors, "adapter", 0, g.adapter)
    /\ r.operation.bundle # "none" => ~UnderFloor(floors, "executable-bundle", 0, r.operation.bundle)

\* What is published when no governed decision was reached.
Ungoverned(base, code) ==
    LET quarantined == base.verdict = "quarantine" IN
    [base |-> base.verdict, baseReason |-> base.reason,
     verdict  |-> IF quarantined THEN "quarantine" ELSE "deny",
     reason   |-> IF quarantined \/ code = Nothing THEN base.reason ELSE code,
     recovery |-> IF code = "PEP-RECOVERY-ONLY" THEN "recovery-only" ELSE base.recovery,
     override |-> Nothing]

PublicCode(refusal) == IF refusal = StateError THEN "PEP-RECOVERY-ONLY" ELSE refusal

\* The governed decision; a rejected override leaves the decision without it, as a deny unless it
\* is a quarantine.
Judged(name, x, override) ==
    LET g       == Governors[name]
        request == Requests[x.request]
        runtime == Runtimes[x.runtime]
        base    == BaseOf(name, x)
        governs == Govern(g, base, request, runtime, floors, override)
        without == Govern(g, base, request, runtime, floors, Nothing).decision
    IN  CASE governs.refusal = Nothing -> governs.decision
          [] governs.refusal = "RULE-OVERRIDE-INVALID" ->
               IF without.verdict = "quarantine" THEN without
               ELSE [without EXCEPT !.verdict = "deny", !.reason = "RULE-OVERRIDE-INVALID"]
          [] OTHER -> Ungoverned(base, PublicCode(governs.refusal))

\* What a point decides, given whether the protected state bears its authority.
DecidedWhen(ready, name, x, override) ==
    LET code == Preflight(Governors[name], Requests[x.request])
    IN  CASE code # Nothing \/ ~TimeValid(x) -> Ungoverned(BaseOf(name, x), code)
          [] code = Nothing /\ TimeValid(x) /\ ~ready -> Ungoverned(BaseOf(name, x), "PEP-RECOVERY-ONLY")
          [] OTHER -> Judged(name, x, override)
Decided(name, x, override) ==
    DecidedWhen(AuthorityReady(Governors[name], Requests[x.request]), name, x, override)

-----------------------------------------------------------------------------
Times == {r.runtime.time : r \in Range(Runtimes)}

\* The decision point takes only a policy that activate_policy sealed. The signer authorization and
\* the rules of a governor are activated against the floors of that moment; later ones may leave it
\* behind.
Build(c, name) ==
    LET g == Governors[name] IN
    /\ built[c] = Nothing
    /\ PolicyOk(g.active.policy) /\ g.active = ActivatePolicy(g.active.policy) /\ GovernorOk(g)
    /\ \E now \in Times :
           /\ MayActivateAuthorization(g.authorization, floors, now)
           /\ MayActivateRules(g.rules, g.authorization, floors, now, g.active.policy.rules)
    /\ built' = [built EXCEPT ![c] = name]
    /\ UNCHANGED <<floors, seq, healthy, activeOverrides, pc, call, decision, evidence, calls, effects>>

\* An override is verified and activated once, against the floors of that moment.
Activate(name, a) ==
    LET o == Overrides[name] IN
        /\ Cardinality(activeOverrides) < MaxActivations
        /\ \A known \in activeOverrides : known.name # name
        /\ \E now \in Times : MayActivateOverride(o, a, floors, now)
        /\ activeOverrides' = activeOverrides
                 \cup {[name |-> name, authorization |-> o, signedUnder |-> AuthorizationDigest(a)]}
        /\ UNCHANGED <<floors, seq, healthy, built, pc, call, decision, evidence, calls, effects>>

Return(c) ==
    /\ pc' = [pc EXCEPT ![c] = "idle"]
    /\ call' = [call EXCEPT ![c] = NoCall]
    /\ decision' = [decision EXCEPT ![c] = Nothing]
    /\ evidence' = [evidence EXCEPT ![c] = 0]

\* A request arrives, is evaluated, and is governed on the floors read now.
MayDecide(c) == Idle(c) /\ built[c] # Nothing /\ calls < MaxCalls
Decides(c, x) ==
    /\ MayDecide(c)
    /\ x.override = Nothing \/ \E a \in activeOverrides : a.name = x.override
    /\ call' = [call EXCEPT ![c] = x]
    /\ decision' = [decision EXCEPT ![c] = Decided(built[c], x, OverrideOf(x))]
    /\ pc' = [pc EXCEPT ![c] = "record"]
    /\ calls' = calls + 1
    /\ UNCHANGED <<shared, evidence, effects>>

(* record_decision: the floors are checked again on the state of that      *)
(* moment, and rise with the receipt.                                      *)

\* protected_floors: what a receipt of this decision claims.
Claim(generation, digest) == [generation |-> generation, digest |-> digest]
GovernorKinds == {"policy", "rule", "revocation", "signer-authorization", "trust-root"}
ClaimedBy ==
    [name \in DOMAIN Governors |->
        LET g == Governors[name]
            p == g.active.policy
            a == g.authorization
        IN  [kind \in GovernorKinds |->
                CASE kind = "policy"               -> Claim(p.generation, g.active.digest)
                  [] kind = "rule"                 -> Claim(g.rules.generation, RuleDigest(g.rules))
                  [] kind = "revocation"           -> Claim(p.revocation, g.active.revocationDigest)
                  [] kind = "signer-authorization" -> Claim(a.generation, AuthorizationDigest(a))
                  [] kind = "trust-root"           -> Claim(a.rootGeneration, a.root)]]
ClaimsOf(name, o) ==
    IF o = Nothing THEN ClaimedBy[name]
    ELSE [kind \in GovernorKinds \cup {"override"} |->
            IF kind = "override"
            THEN Claim(o.authorization.generation, OverrideDigest(o.authorization))
            ELSE ClaimedBy[name][kind]]
Claims(c) == ClaimsOf(built[c], decision[c].override)

\* validate_floor, for everything claimed.
Admits(claims) ==
    \A kind \in DOMAIN claims : ~UnderFloor(floors, kind, claims[kind].generation, claims[kind].digest)

CommittableAnyFloor(c) ==                                          \* mutant: floors not re-read
    /\ healthy /\ TimeValid(call[c])
    /\ Current(Governors[built[c]].authorization, Runtimes[call[c].runtime].runtime.time)
Committable(c) ==
    /\ healthy /\ TimeValid(call[c])
    /\ Current(Governors[built[c]].authorization, Runtimes[call[c].runtime].runtime.time)
    /\ Admits(Claims(c))

Raised(claims) ==
    [kind \in DOMAIN floors |-> IF kind \in DOMAIN claims THEN claims[kind] ELSE floors[kind]]
Commit(c) ==
    /\ pc[c] = "record" /\ Committable(c)
    /\ floors' = Raised(Claims(c))
    /\ seq' = seq + 1
    /\ UNCHANGED <<healthy, built, activeOverrides, calls, effects>>

RecordAllow(c) ==
    /\ Commit(c) /\ decision[c].verdict = "allow"
    /\ evidence' = [evidence EXCEPT ![c] = seq + 1]
    /\ pc' = [pc EXCEPT ![c] = "look"]
    /\ UNCHANGED <<call, decision>>

RecordNegative(c) == Commit(c) /\ decision[c].verdict # "allow" /\ Return(c)

\* An allow without evidence becomes a deny, and is recorded as one.
RecordAllowFails(c) ==
    /\ pc[c] = "record" /\ ~Committable(c) /\ decision[c].verdict = "allow"
    /\ decision' = [decision EXCEPT ![c] = Converted(@)]
    /\ UNCHANGED <<shared, pc, call, evidence, calls, effects>>

\* A negative without evidence degrades the system (the fallback of the coordinator), unless the
\* fallback and the latch fail too.
RecordNegativeFails(c) ==
    /\ pc[c] = "record" /\ ~Committable(c) /\ decision[c].verdict # "allow"
    /\ healthy' \in {FALSE, healthy}
    /\ Return(c)
    /\ UNCHANGED <<floors, seq, built, activeOverrides, calls, effects>>

\* The last look before the sink.
Healthy(c) == healthy                                              \* mutant: sequence not compared
Unmoved(c) == healthy /\ seq = evidence[c]
Look(c) ==
    /\ pc[c] = "look" /\ Unmoved(c)
    /\ pc' = [pc EXCEPT ![c] = "sink"]
    /\ UNCHANGED <<shared, call, decision, evidence, calls, effects>>

LookFails(c) ==
    /\ pc[c] = "look" /\ ~Unmoved(c)
    /\ decision' = [decision EXCEPT ![c] = Converted(@)]
    /\ pc' = [pc EXCEPT ![c] = "record"]
    /\ UNCHANGED <<shared, call, evidence, calls, effects>>

Sink(c) ==
    /\ pc[c] = "sink"
    /\ effects' = effects \cup {[governor |-> built[c], call |-> call[c],
                                 overridden |-> decision[c].override # Nothing]}
    /\ Return(c)
    /\ UNCHANGED <<shared, calls>>

Calls == [request : DOMAIN Requests, runtime : DOMAIN Runtimes,
          override : DOMAIN Overrides \cup {Nothing}]

Next ==
    \/ \E name \in DOMAIN Overrides, a \in {g.authorization : g \in Range(Governors)} : Activate(name, a)
    \/ \E c \in Points :
           \/ \E name \in DOMAIN Governors : Build(c, name)
           \/ MayDecide(c) /\ \E x \in Calls : Decides(c, x)
           \/ RecordAllow(c) \/ RecordNegative(c) \/ RecordAllowFails(c) \/ RecordNegativeFails(c)
           \/ Look(c) \/ LookFails(c) \/ Sink(c)

Spec == Init /\ [][Next]_vars

-----------------------------------------------------------------------------
(* Properties.                                                             *)

\* The state of the points: evidence is a receipt that exists, and nothing outlives its call.
TypeOK ==
    /\ DOMAIN floors = Kinds /\ \A kind \in Kinds : floors[kind].generation \in Nat
    /\ seq \in 0..(2 * MaxCalls) /\ healthy \in BOOLEAN
    /\ built \in [Points -> DOMAIN Governors \cup {Nothing}]
    /\ pc \in [Points -> {"idle", "record", "look", "sink"}]
    /\ \A c \in Points : evidence[c] \in 0..seq /\ (Idle(c) \/ call[c] \in Calls)
    /\ calls \in 0..MaxCalls /\ Cardinality(activeOverrides) <= MaxActivations

\* No floor ever falls, and one generation never changes its digest: whoever loses the race to
\* commit, however old the enforcement point, and whatever override a receipt carries.
FloorsOnlyRise ==
    [][\A kind \in Kinds : ~BelowFloor(floors'[kind].generation, floors'[kind].digest, floors[kind])]_vars

\* At the last look before an effect the lease is one the protected policy admits: its generation
\* is the protected one, and the protected policy grants it and does not list it as revoked.
\* Another enforcement point may have superseded the policy at any moment since the decision.
ProtectedPolicy == floors["policy"].digest[2]
LeaseStillAdmitted(c) ==
    LET l == Requests[call[c].request].lease IN
    /\ l.generation = floors["policy"].generation
    /\ l.digest \notin floors["revocation"].digest[2][2]
    /\ l.digest \in ProtectedPolicy.grants \/ decision[c].override # Nothing
RevokedStaysRevoked ==
    [][\A c \in Points : (pc[c] = "look" /\ pc'[c] = "sink") => LeaseStillAdmitted(c)]_vars

\* What runs was allowed: by the policy, with no rule against it, or by an override of the one
\* reason that can be overridden, with no rule against it.  Nothing quarantined ever runs.
RulesAgainst(name, x) ==
    LET g == Governors[name]
        base == BaseOf(name, x)
        fields == RuleFields(base, Requests[x.request], Runtimes[x.runtime].runtime.time, g)
    IN  \E i \in DOMAIN g.rules.rules :
            /\ Fires(g.rules.rules[i], fields)
            /\ Precedence[g.rules.rules[i].effect] > Precedence[base.verdict]
NothingOutvotesARule ==
    \A e \in effects :
        LET base == BaseOf(e.governor, e.call) IN
        /\ ~RulesAgainst(e.governor, e.call)
        /\ base.verdict = "allow" \/ (e.overridden /\ base.reason \in OverridableReasons)

\* A lease serves one request only: two calls allowed under it, in hand or done, at one point or at
\* two, are of the same caller, content, scope, operation and purpose.  (With the types.)
AllowedByLease ==
    {e.call : e \in {done \in effects : ~done.overridden}}
    \cup {call[c] : c \in {p \in Points : /\ decision[p] # Nothing
                                         /\ decision[p].verdict = "allow" /\ decision[p].override = Nothing}}
NoLeaseTransfer ==
    /\ TypeOK
    /\ \A one, two \in AllowedByLease :
           Requests[one.request].lease = Requests[two.request].lease =>
               RequestBinding(Requests[one.request]) = RequestBinding(Requests[two.request])

\* What the documents say of a rejected override: it leaves a quarantine what it was.
RejectedOverrideKeepsQuarantine ==
    [][\A c \in Points :
           (Idle(c) /\ pc'[c] = "record"
            /\ Decided(built[c], call'[c], Nothing).verdict = "quarantine")
               => decision'[c].verdict = "quarantine"]_vars
=============================================================================
