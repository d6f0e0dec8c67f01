------------------------- MODULE MCPolicyEnforcement -------------------------
(* Instances of PolicyEnforcement for TLC: an adapter with two operations,   *)
(* in two signed versions, its author's three functions, and one bundle.     *)
EXTENDS AdapterConformance

CONSTANTS a1, a2, x1, x2

Alike == Permutations({a1, a2}) \cup Permutations({x1, x2})

\* The author's module: fetch calls help and reads a constant; run uses a name nobody defines.
SampleFunctions == {"fetch", "run", "help"}
CodeOf(text, names) == [text |-> text, names |-> names, clean |-> TRUE]
Plain(code) == [plain |-> TRUE, code |-> code]
SampleWorld ==
    [functions |-> [fetch |-> Plain(CodeOf("fetch", {"help", "limit"})),
                    run   |-> Plain(CodeOf("run", {"extra"})),
                    help  |-> Plain(CodeOf("help", {}))],
     globals   |-> [help |-> FunctionNamed("help"), limit |-> Data("one"), cache |-> Mutable],
     builtins  |-> {}]

\* Its functions may be given other code, its constants other values, the interpreter a builtin.
MCChanges(w) ==
    {[w EXCEPT !.functions["help"].code = CodeOf("recursive", {"help", "cache"})],
     [w EXCEPT !.globals["limit"] = Data("two")],
     [w EXCEPT !.builtins = {"extra"}]}
SampleOffers == {<<"fetch", "fetch">>, <<"run", "run">>, <<"drop", "help">>}

\* Policies, adapters and a bundle.
Terms == [id |-> "policy", generation |-> 1, from |-> 0, until |-> 9, revocation |-> 0]
HandlerDigest(f) == Digest("handler", CanonicalHandler(SampleWorld, f))
AdapterOf(version) ==
    [id |-> "adapter", version |-> version, implementation |-> Digest("adapter-implementation", "binary"),
     dependencies |-> {Digest("adapter-dependency", "library")}, policy |-> "policy", generation |-> 1,
     operations |-> [fetch |-> [capability |-> "read", handler |-> HandlerDigest("fetch")],
                     run   |-> [capability |-> "execute", handler |-> HandlerDigest("run")]]]
CandidateOf(manifest) ==
    [manifest |-> manifest, implementation |-> "binary", dependencies |-> {"library"}, valid |-> TRUE]
SampleCandidates ==
    [one |-> CandidateOf(AdapterOf(1)),
     two |-> CandidateOf(AdapterOf(2)),
     tampered |-> [CandidateOf(AdapterOf(1)) EXCEPT !.implementation = "other"],
     later    |-> CandidateOf([AdapterOf(1) EXCEPT !.generation = 2])]
One == ManifestDigest(AdapterOf(1))
Two == ManifestDigest(AdapterOf(2))

Input(artifact) == [canonical |-> TRUE, artifact |-> artifact, signature |-> Nothing,
                    dependencies |-> {"library"}, claims |-> "claims"]
BundleOf(artifact, adapter) ==
    [manifest |-> [evidence |-> BundleEvidence(Input(artifact)), publisher |-> "publisher",
                   policy |-> "policy", generation |-> 1, adapter |-> adapter],
     input |-> Input(artifact), signer |-> "publisher", valid |-> TRUE]
SampleBundles == {BundleOf("tool", One), BundleOf("tool", Two),
              [BundleOf("tool", One) EXCEPT !.input.artifact = "other"],
              [BundleOf("other", One) EXCEPT !.valid = FALSE]}

\* Requests.
Envelope(bundle) == [taints |-> {"untrusted"}, intact |-> TRUE, bundle |-> bundle]
OperationOn(adapter, id, capability, bundle) ==
    [adapter |-> adapter, id |-> id, capability |-> capability,
     arguments |-> ArgumentsDigest("args"), bundle |-> bundle]
Fetch(adapter) == OperationOn(adapter, "fetch", "read", "none")
Tool == BundleDigest(BundleOf("tool", One).manifest)
Run == OperationOn(One, "run", "execute", Tool)
Sketch(envelope, operation) ==
    [identity |-> "alice", envelope |-> envelope, scope |-> "scope", operation |-> operation, purpose |-> "work"]
LeaseFor(id, sketch) == CreateLease(id, RequestBinding(sketch), Terms, 0, 5)
RequestOn(sketch, lease) ==
    CreateRequest(sketch.identity, sketch.envelope, sketch.scope, sketch.operation, sketch.purpose, lease)
Asked(id, sketch) == RequestOn(sketch, LeaseFor(id, sketch))

Reading  == Asked("reading", Sketch(Envelope(Nothing), Fetch(One)))
Reading2 == Asked("reading2", Sketch(Envelope(Nothing), Fetch(Two)))
Running  == Asked("running", Sketch(Envelope(BundleEvidence(Input("tool"))), Run))
Mixed    == Asked("mixed", Sketch(Envelope(BundleEvidence(Input("other"))), Run))
Unknown  == Asked("unknown", Sketch(Envelope(Nothing), OperationOn(One, "drop", "read", "none")))
Unleased == Asked("unleased", Sketch(Envelope(Nothing), Fetch(One)))
SampleRequests ==
    [reading |-> Reading, reading2 |-> Reading2, running |-> Running, mixed |-> Mixed,
     unknown |-> Unknown, unleased |-> Unleased, broken |-> [Reading EXCEPT !.shape = "broken"],
     object |-> [Reading EXCEPT !.shape = "foreign"]]

PolicyFor(grants) ==
    ActivatePolicy(Terms @@ [root |-> "root", rules |-> "rules", revoked |-> {},
                             grants |-> {r.lease.digest : r \in grants}])
SamplePolicies == [active |-> PolicyFor({Reading, Reading2, Running, Mixed, Unknown}), rival |-> PolicyFor({})]

Floor(kind) == [generation |-> 0, digest |-> kind]
SampleRuntimes ==
    [now |-> ActivateRuntime([health |-> "healthy", time |-> 1, until |-> 8,
                              policyFloor |-> Floor("policy"), revocationFloor |-> [generation |-> 0, digest |->
                                  SamplePolicies["active"].revocationDigest]]),
     object |-> [sealed |-> FALSE]]
Effect(arguments) == [form |-> "canonical", arguments |-> arguments, digest |-> ArgumentsDigest(arguments)]
SampleEffects == [args |-> Effect("args"), other |-> Effect("other"),
              forged |-> [Effect("other") EXCEPT !.digest = ArgumentsDigest("args")],
              object |-> [Effect("args") EXCEPT !.form = "foreign"]]
SampleSubmissions ==
    {<<q, "now", "args">> : q \in DOMAIN SampleRequests}
    \cup {<<"reading", "now", e>> : e \in DOMAIN SampleEffects} \cup {<<"reading", "object", "args">>}

\* Suites: a whole one; without one of the operations; with an allowed case after a refused one;
\* with a case that plants what a result says; and without a case to lend its parts.
Case(q, e, code) ==
    [request |-> q, runtime |-> "now", effect |-> e, code |-> code, invoked |-> code = "PEP-EXECUTED",
     planted |-> {}]
Reads == Case("reading", "args", "PEP-EXECUTED")
Executes == Case("running", "args", "PEP-EXECUTED")
Drops == Case("unknown", "args", "PEP-OPERATION-UNKNOWN")
SampleSuites ==
    [whole |-> <<Reads, Executes, Drops, Case("reading", "other", "PEP-EFFECT-DIGEST-MISMATCH")>>,
     half  |-> <<Reads, Case("unleased", "args", "PEP-DECISION-BLOCKED")>>,
     backwards |-> <<Drops, Executes, Reads>>,
     planted   |-> <<Executes, [Reads EXCEPT !.planted = {"PEP-EXECUTED"}]>>,
     unseeded  |-> <<Case("object", "args", "PEP-DECISION-BLOCKED")>>]

\* TLC evaluates a definition once, but what replaces a constant at every use: hence the aliases.
MCFunctions == SampleFunctions
MCWorld == SampleWorld
MCOffers == SampleOffers
MCCandidates == SampleCandidates
MCPolicies == SamplePolicies
MCBundles == SampleBundles
MCRequests == SampleRequests
MCRuntimes == SampleRuntimes
MCEffects == SampleEffects
MCSubmissions == SampleSubmissions
MCSuites == SampleSuites
=============================================================================
