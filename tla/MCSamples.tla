------------------------------ MODULE MCSamples ------------------------------
(* Documents the instances for TLC are built from: policies, rules, signer  *)
(* authorizations, leases, requests and overrides of one small deployment.  *)
EXTENDS Governance, TLC

\* Signer authorizations.
Signs(role, kind) == [signer |-> "signer", role |-> role, kind |-> kind]
Authorization(generation) ==
    [generation |-> generation, root |-> "root", rootGeneration |-> 0, from |-> 0, until |-> 9,
     rootSigned |-> TRUE,
     grants |-> {Signs("rule-publisher", "rule"), Signs("override-authorizer", "override"),
                Signs("receipt-signer", "receipt")}]
Signed(kind, role, a) ==
    [kind |-> kind, role |-> role, valid |-> TRUE, signer |-> "signer",
     authorization |-> AuthorizationDigest(a)]

\* Rules: content marked pii is quarantined.
PiiRule == [mode |-> "all", effect |-> "quarantine",
            conditions |-> {[field |-> "envelope.taints", operator |-> "contains-taint", value |-> "pii"]}]
Rules(generation, a) ==
    [generation |-> generation, from |-> 0, until |-> 9, rules |-> <<PiiRule>>,
     evidence |-> Signed("rule", "rule-publisher", a)]

\* Requests.
Envelope(taints) == [taints |-> taints, intact |-> TRUE, bundle |-> "none"]
Read == [adapter |-> "adapter", id |-> "fetch", capability |-> "read", arguments |-> "args", bundle |-> "none"]
Run  == [adapter |-> "adapter", id |-> "run", capability |-> "execute", arguments |-> "args", bundle |-> "bundle"]
Sketch(envelope, operation, purpose) ==
    [identity |-> "alice", envelope |-> envelope, scope |-> "scope", operation |-> operation, purpose |-> purpose]
Terms(generation) == [id |-> "policy", generation |-> generation, revocation |-> generation]
LeaseFor(id, sketch, generation) == CreateLease(id, RequestBinding(sketch), Terms(generation), 0, 5)
RequestOn(sketch, lease) ==
    CreateRequest(sketch.identity, sketch.envelope, sketch.scope, sketch.operation, sketch.purpose, lease)
        @@ [effect |-> "args"]

Clean == Sketch(Envelope({}), Read, "work")
Toxic == Sketch(Envelope({"critical"}), Read, "work")
First      == LeaseFor("first", Clean, 1)
Second     == LeaseFor("second", Clean, 2)
Ungranted  == LeaseFor("ungranted", Clean, 1)
ToxicLease == LeaseFor("toxic", Toxic, 1)

\* Policies, and what enforcement points are built from.
Policy(generation, grants, revoked, a) ==
    [id |-> "policy", generation |-> generation, from |-> 0, until |-> 9, root |-> "root",
     rules |-> RuleDigest(Rules(generation, a)), revocation |-> generation,
     grants |-> {l.digest : l \in grants}, revoked |-> {l.digest : l \in revoked}]
Governor(policy, a) ==
    [active |-> ActivatePolicy(policy), rules |-> Rules(policy.generation, a), authorization |-> a,
     rulesSignedUnder |-> AuthorizationDigest(a), adapter |-> "adapter",
     operations |-> {[id |-> "fetch", capability |-> "read"], [id |-> "run", capability |-> "execute"]},
     bundles |-> [bundle |-> "evidence"]]

\* What the host enrolled: an adapter, a bundle and a trust root.
Floor(generation, digest) == [generation |-> generation, digest |-> digest]
Unset(kind) == Floor(0, <<kind, "genesis">>)
FloorKinds == {"policy", "rule", "revocation", "signer-authorization", "trust-root", "override",
              "adapter", "executable-bundle"}
Enrolled ==
    [kind \in FloorKinds |-> CASE kind = "trust-root"        -> Floor(0, "root")
                            [] kind = "adapter"           -> Floor(0, "adapter")
                            [] kind = "executable-bundle" -> Floor(0, "bundle")
                            [] OTHER                      -> Unset(kind)]

Runtime(time, policyFloor) ==
    ActivateRuntime([health |-> "healthy", time |-> time, until |-> 8, policyFloor |-> policyFloor,
                     revocationFloor |-> Unset("revocation")])
Override(generation, policy, request, runtime, a) ==
    LET base == Evaluate(ActivatePolicy(policy), request, runtime) IN
    [generation |-> generation, from |-> 0, until |-> 5, reason |-> "PDP-DENY-DEFAULT",
     request |-> request.digest, base |-> Digest("decision", base), policy |-> base.policy,
     rules |-> policy.rules, actor |-> "alice", scope |-> "scope", time |-> TimeDigest(runtime),
     evidence |-> Signed("override", "override-authorizer", a)]
=============================================================================
