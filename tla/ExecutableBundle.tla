-------------------------- MODULE ExecutableBundle --------------------------
(***************************************************************************)
(* Activation of signed executable bundles (executable_bundle.py): what    *)
(* may be loaded, by whom published, for which policy and which adapter.   *)
(***************************************************************************)
EXTENDS PolicyDecision, Refusals

\* The codes of the checks of this module and of policy_enforcement.py.
EnforcementCodes ==
    {"PEP-BUNDLE-INTEGRITY", "PEP-BUNDLE-PUBLISHER", "PEP-BUNDLE-POLICY-BINDING", "PEP-BUNDLE-VERIFICATION",
     "PEP-ADAPTER-INTEGRITY", "PEP-POLICY-BINDING", "PEP-REGISTRY-FROZEN", "PEP-MANIFEST-REGISTRY-MISMATCH",
     "PEP-EFFECT-MALFORMED", "PEP-DECISION-BLOCKED", "PEP-EFFECT-DIGEST-MISMATCH", "PEP-ADAPTER-MISMATCH",
     "PEP-BUNDLE-UNAVAILABLE", "PEP-BUNDLE-MISMATCH", "PEP-OPERATION-UNKNOWN"}
ASSUME NoCodeIsNothing == Nothing \notin EnforcementCodes

\* bundle_evidence_from_input
BundleEvidence(input) ==
    [artifact     |-> Digest("bundle-artifact", input.artifact),
     signature    |-> IF input.signature = Nothing THEN Nothing ELSE Digest("bundle-signature", input.signature),
     dependencies |-> {Digest("bundle-dependency", d) : d \in input.dependencies},
     claims       |-> Digest("bundle-claims", input.claims)]

BundleDigest(manifest) == Digest("bundle-manifest", manifest)

\* activate_executable_bundle; `adapter` is the digest its caller names.
BundleIsFor(manifest, active, adapter) ==
    /\ manifest.policy = active.policy.id /\ manifest.generation = active.policy.generation
    /\ manifest.adapter = adapter

BundleRefusals(candidate, active, adapter) ==
    <<<<~candidate.input.canonical, "PEP-BUNDLE-INTEGRITY">>,
      <<candidate.manifest.evidence # BundleEvidence(candidate.input), "PEP-BUNDLE-INTEGRITY">>,
      <<candidate.manifest.publisher # candidate.signer, "PEP-BUNDLE-PUBLISHER">>,
      <<~BundleIsFor(candidate.manifest, active, adapter), "PEP-BUNDLE-POLICY-BINDING">>,
      <<~candidate.valid, "PEP-BUNDLE-VERIFICATION">>>>

MayActivateBundle(candidate, active, adapter) ==
    FirstRefusal(BundleRefusals(candidate, active, adapter)) = Nothing

ActivateBundle(candidate, active) ==
    [manifest |-> candidate.manifest, digest |-> BundleDigest(candidate.manifest),
     evidence |-> BundleEvidence(candidate.input), policy |-> active.digest]
=============================================================================
