--------------------------- MODULE PolicyDecision ---------------------------
(***************************************************************************)
(* The policy decision point (policy_decision.py over decision_models.py): *)
(* a pure function of an activated policy, an activated runtime snapshot   *)
(* and a request.                                                          *)
(*                                                                         *)
(* Digests.  The digest of a document under its domain is injective, so a  *)
(* document stands for its own digest: Digest pairs the domain with the    *)
(* document.  An object that carries its own digest has a field `digest`,  *)
(* which an altered object need not match.                                 *)
(***************************************************************************)
EXTENDS Naturals, Sequences

Digest(domain, body) == <<domain, body>>

PrivilegedCapabilities == {"administer-policy", "repair-recovery"}
Capabilities == {"read", "disclose", "transform", "communicate", "execute"} \cup PrivilegedCapabilities
Verdicts == {"allow", "deny", "quarantine"}

-----------------------------------------------------------------------------
(* Documents.                                                              *)

\* PolicyBundleV1: the fields decisions look at; grants and revocations are lease digests.
PolicyOk(p) ==
    /\ p.generation \in Nat /\ p.revocation \in Nat /\ p.from \in Nat
    /\ p.from < p.until

PolicyDigest(p) == Digest("policy", p)
RevocationDigest(p) == Digest("revocation", <<p.revocation, p.revoked>>)

\* activate_policy: what the verifier accepts is sealed with the digests of what it says.
ActivatePolicy(p) ==
    [policy |-> p, digest |-> PolicyDigest(p), revocationDigest |-> RevocationDigest(p)]

\* RuntimeSnapshotV1, and activate_runtime.
RuntimeOk(r) == r.health \in {"healthy", "recovery-only"} /\ r.time \in Nat /\ r.until \in Nat
ActivateRuntime(r) == [runtime |-> r, digest |-> Digest("runtime", r), sealed |-> TRUE]

\* CapabilityLeaseV1 and create_capability_lease.
LeaseBody(l) == <<l.id, l.binding, l.policy, l.generation, l.from, l.until, l.revocation>>
LeaseDigest(l) == Digest("lease", LeaseBody(l))
CreateLease(id, binding, policy, from, until) ==
    LET l == [id |-> id, binding |-> binding, policy |-> policy.id, generation |-> policy.generation,
              from |-> from, until |-> until, revocation |-> policy.revocation, digest |-> <<>>]
    IN  [l EXCEPT !.digest = LeaseDigest(l)]

\* OperationBindingV1: a bundle is named exactly when something is executed.
OperationOk(o) == o.capability \in Capabilities /\ (o.capability = "execute") = (o.bundle # "none")

\* compute_request_binding_digest: everything but the lease.
RequestBinding(r) ==
    Digest("request-binding", <<r.identity, r.envelope, r.scope, r.operation, r.purpose>>)
RequestDigest(r) ==
    Digest("request", <<r.identity, r.envelope, r.scope, r.operation, r.purpose, r.lease>>)

\* create_decision_request; it refuses a lease for another request.
CreateRequest(identity, envelope, scope, operation, purpose, lease) ==
    LET r == [shape |-> "exact", identity |-> identity, envelope |-> envelope, scope |-> scope,
              operation |-> operation, purpose |-> purpose, lease |-> lease, digest |-> <<>>]
    IN  [r EXCEPT !.digest = RequestDigest(r)]
MayCreate(r) == r.lease.binding = RequestBinding(r)

InvalidRequest == Digest("invalid-input", "invalid")
InvalidRuntime == Digest("invalid-input", "invalid-runtime")

-----------------------------------------------------------------------------
(* The checks, in the order of the code.  A check that applies decides.    *)

Check(applies, verdict, reason, recovery) ==
    [applies |-> applies, answer |-> [verdict |-> verdict, reason |-> reason, recovery |-> recovery]]
Deny(applies, reason, recovery) == Check(applies, "deny", reason, recovery)
Quarantine(applies, reason) == Check(applies, "quarantine", reason, "quarantine-input")
Always(verdict, reason, recovery) == <<Check(TRUE, verdict, reason, recovery)>>

Decide(checks) ==
    LET first == CHOOSE i \in DOMAIN checks :
                     checks[i].applies /\ \A j \in 1..(i - 1) : ~checks[j].applies
    IN  checks[first].answer

\* evaluate: a request of another type or shape, a runtime nobody activated.
ShapeChecks(request, runtime) ==
    <<Deny(request.shape = "foreign", "PDP-INPUT-MALFORMED", "reauthenticate"),
      Deny(~runtime.sealed, "PDP-AUTHORITY-UNAVAILABLE", "refresh-authority")>>

\* Integrity of what was activated (an exception, which evaluate answers), of the envelope and
\* of the request.
IntegrityChecks(active, request, runtime) ==
    <<Deny(\/ ~PolicyOk(active.policy) \/ ~RuntimeOk(runtime.runtime)
           \/ active.digest # PolicyDigest(active.policy)
           \/ runtime.digest # Digest("runtime", runtime.runtime),
           "PDP-INTERNAL-ERROR", "recovery-only"),
      Quarantine(~request.envelope.intact, "PDP-ENVELOPE-INVALID"),
      Deny(request.shape = "broken", "PDP-INPUT-MALFORMED", "reauthenticate"),
      Deny(request.digest # RequestDigest(request), "PDP-REQUEST-INTEGRITY", "reauthenticate")>>

\* At the floor the digest must be the floor's, below it nothing passes.
BelowFloor(generation, digest, floor) ==
    generation < floor.generation \/ (generation = floor.generation /\ digest # floor.digest)

FreshnessChecks(active, rt) ==
    LET p == active.policy IN
    <<Deny(rt.health = "recovery-only", "PDP-RECOVERY-ONLY", "recovery-only"),
      Deny(rt.time >= rt.until, "PDP-TRUSTED-TIME-STALE", "refresh-authority"),
      Deny(rt.time < p.from \/ rt.time >= p.until, "PDP-POLICY-STALE", "refresh-authority"),
      Deny(BelowFloor(p.generation, active.digest, rt.policyFloor), "PDP-POLICY-ROLLBACK", "recovery-only"),
      Deny(BelowFloor(p.revocation, active.revocationDigest, rt.revocationFloor),
           "PDP-POLICY-ROLLBACK", "recovery-only")>>

\* The mandatory critical floor.
ContentChecks(request) ==
    LET taints == request.envelope.taints IN
    <<Quarantine(taints \cap {"critical", "authority-injection"} # {}, "PDP-CRITICAL-TAINT"),
      Quarantine(taints \cap {"malformed", "uninspectable"} # {}, "PDP-UNINSPECTABLE-DATA"),
      Deny(request.operation.capability \in PrivilegedCapabilities,
           "PDP-PRIVILEGED-PATH-REQUIRED", "reauthenticate"),
      Quarantine(request.operation.capability = "execute" /\ "executable" \in taints,
                 "PDP-EXECUTABLE-CONTENT")>>

\* A lease is for one request.
ForAnyRequest(l, request) == TRUE                                  \* mutant: binding not compared
ForThisRequest(l, request) == RequestBinding(request) = l.binding

LeaseChecks(p, request, now) ==
    LET l == request.lease IN
    <<Deny(l.digest # LeaseDigest(l), "PDP-LEASE-BINDING", "obtain-new-lease"),
      Deny(l.policy # p.id \/ l.generation # p.generation, "PDP-POLICY-BINDING", "obtain-new-lease"),
      Deny(l.revocation > p.revocation, "PDP-POLICY-BINDING", "refresh-authority"),
      Deny(now < l.from, "PDP-LEASE-NOT-YET-VALID", "obtain-new-lease"),
      Deny(now >= l.until, "PDP-LEASE-EXPIRED", "obtain-new-lease"),
      Deny(l.digest \in p.revoked, "PDP-LEASE-REVOKED", "obtain-new-lease"),
      Deny(~ForThisRequest(l, request), "PDP-LEASE-BINDING", "reauthenticate"),
      Deny(l.digest \notin p.grants, "PDP-DENY-DEFAULT", "obtain-new-lease")>>

\* The checks that do not apply are not evaluated further: a foreign request has no fields.
Checks(shape, active, request, runtime) ==
    IF \E i \in DOMAIN shape : shape[i].applies THEN shape
    ELSE IntegrityChecks(active, request, runtime)
         \o FreshnessChecks(active, runtime.runtime)
         \o ContentChecks(request)
         \o LeaseChecks(active.policy, request, runtime.runtime.time)
         \o Always("allow", "PDP-ALLOW-EXACT-GRANT", "none")

\* The DecisionV1 that is sealed.
SealedDecision(answer, active, request, runtime) ==
    [verdict  |-> answer.verdict,
     reason   |-> answer.reason,
     recovery |-> answer.recovery,
     request  |-> IF answer.reason = "PDP-INPUT-MALFORMED" THEN InvalidRequest ELSE request.digest,
     policy   |-> active.digest,
     runtime  |-> IF runtime.sealed /\ request.shape # "foreign" THEN runtime.digest ELSE InvalidRuntime]

\* PolicyDecisionPointV1.evaluate.
Evaluate(active, request, runtime) ==
    SealedDecision(Decide(Checks(ShapeChecks(request, runtime), active, request, runtime)),
                   active, request, runtime)
=============================================================================
