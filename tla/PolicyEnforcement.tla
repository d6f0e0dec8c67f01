-------------------------- MODULE PolicyEnforcement --------------------------
(***************************************************************************)
(* The enforcement point of the first version (policy_enforcement.py) and  *)
(* the activation of the adapters it calls.                                *)
(*                                                                         *)
(* Calls run on threads of their own.  A call is atomic except where it    *)
(* leaves the module: the verifier, the evidence gate, the handler, and    *)
(* between the last look at a handler and its call.  A call that raises    *)
(* changes nothing and is no step.                                         *)
(***************************************************************************)
EXTENDS HandlerIdentity, ExecutableBundle

CONSTANTS World,         \* the interpreter before anything happens
          Changes(_),    \* what the author's program may make of a world
          MaxChanges,    \* bound: changes
          Offers,        \* <<operation, function>>: what may be registered
          Candidates,    \* signed adapter candidates, by name
          Policies,      \* activated policies, by name
          BundleCandidates,   \* signed executable bundles
          Requests, Runtimes, Effects,   \* arguments of execute, by name
          Submissions,   \* <<request, runtime, effect>>: which of them are submitted together
          Activators,    \* threads that activate an adapter and build a point
          Executions     \* calls of execute

VARIABLES world, changes,
          registry,      \* one AdapterRegistryV1
          activation,    \* each activator's call, and the adapter and point it led to
          execution,     \* each call of execute
          recorded,      \* history: what the gate recorded
          calls          \* history: what ran

ASSUME MaxChangesAssumption == MaxChanges \in Nat

vars == <<world, changes, registry, activation, execution, recorded, calls>>

ManifestDigest(manifest) == Digest("adapter-manifest", manifest)
ArgumentsDigest(arguments) == Digest("effect-arguments", arguments)

-----------------------------------------------------------------------------
(* Registration and activation.                                            *)

Change ==
    /\ changes < MaxChanges
    /\ world' \in Changes(world)
    /\ changes' = changes + 1
    /\ UNCHANGED <<registry, activation, execution, recorded, calls>>

\* register: a clone of the handler and the digest of the clone, where both can be had.
Registered(entries, operation, entry) ==
    [o \in DOMAIN entries \cup {operation} |-> IF o = operation THEN entry ELSE entries[o]]
Register(operation, f) ==
    LET clone == FreezeHandler(world, f)  digest == DigestHandler(world, clone) IN
    /\ ~registry.frozen /\ operation \notin DOMAIN registry.entries
    /\ clone # Unsupported /\ digest # Digest("handler", Unsupported)
    /\ registry' = [registry EXCEPT !.entries =
                        Registered(@, operation, [function |-> f, code |-> clone, digest |-> digest])]
    /\ UNCHANGED <<world, changes, activation, execution, recorded, calls>>

\* What the manifest names and what is registered, one to one.
OneToOne(entries, operations) ==
    /\ DOMAIN entries = DOMAIN operations
    /\ \A o \in DOMAIN operations : entries[o].digest = operations[o].handler

ActivationRefusals(c, policy) ==
    <<<<\/ c.manifest.implementation # Digest("adapter-implementation", c.implementation)
        \/ c.manifest.dependencies # {Digest("adapter-dependency", d) : d \in c.dependencies},
        "PEP-ADAPTER-INTEGRITY">>,
      <<c.manifest.policy # policy.id \/ c.manifest.generation # policy.generation, "PEP-POLICY-BINDING">>,
      <<registry.frozen, "PEP-REGISTRY-FROZEN">>,
      <<~OneToOne(registry.entries, c.manifest.operations), "PEP-MANIFEST-REGISTRY-MISMATCH">>>>

\* activate_adapter up to the verifier: the registrations are copied, the registry stays open.
BeginActivation(a, c, p) ==
    /\ FirstRefusal(ActivationRefusals(Candidates[c], Policies[p].policy)) = Nothing
    /\ activation' = [activation EXCEPT ![a] = [phase |-> "verifying", candidate |-> c, policy |-> p,
                                                handlers |-> registry.entries, bundles |-> {}]]
    /\ UNCHANGED <<world, changes, registry, execution, recorded, calls>>

Copied(a) == activation[a].handlers
Enter(a, phase, handlers, bundles) ==
    activation' = [activation EXCEPT ![a] =
        [phase |-> phase, candidate |-> @.candidate, policy |-> @.policy,
         handlers |-> handlers, bundles |-> bundles]]

\* The verifier answers; only its True freezes the registry and makes the adapter.
Verified(a) ==
    /\ activation[a].phase = "verifying" /\ Candidates[activation[a].candidate].valid
    /\ registry' = [registry EXCEPT !.frozen = TRUE]
    /\ Enter(a, "adapter", Copied(a), {})
    /\ UNCHANGED <<world, changes, execution, recorded, calls>>
NotVerified(a) ==
    /\ activation[a].phase = "verifying"
    /\ activation' = [activation EXCEPT ![a] = [phase |-> "idle"]]
    /\ UNCHANGED <<world, changes, registry, execution, recorded, calls>>

Manifest(a) == Candidates[activation[a].candidate].manifest

\* Bundles its author may have activated, for whatever adapter he named.
ActivatedBundles ==
    UNION {{[for |-> m, bundle |-> ActivateBundle(c, Policies[p])] :
               c \in {b \in BundleCandidates : MayActivateBundle(b, Policies[p], m)}} :
           m \in {ManifestDigest(Candidates[c].manifest) : c \in DOMAIN Candidates}, p \in DOMAIN Policies}

\* PolicyEnforcementPointV1.__init__: one policy for the decisions, the adapter and the bundles.
MayServe(a, p, bundles) ==
    /\ Policies[p].digest = Policies[activation[a].policy].digest
    /\ \A b \in bundles : /\ b.policy = Policies[p].digest
                          /\ b.manifest.adapter = ManifestDigest(Manifest(a))
    /\ Cardinality({b.digest : b \in bundles}) = Cardinality(bundles)
BuildPoint(a, p, bundles) ==
    /\ MayServe(a, p, bundles)
    /\ Enter(a, "point", activation[a].handlers, bundles)
    /\ UNCHANGED <<world, changes, registry, execution, recorded, calls>>

-----------------------------------------------------------------------------
(* execute.                                                                *)

\* create_effect_input, and its check in execute.
EffectOk(e) == e.form = "canonical" /\ e.digest = ArgumentsDigest(e.arguments)

Answers == [p \in DOMAIN Policies |-> [q \in DOMAIN Requests |-> [r \in DOMAIN Runtimes |->
                Evaluate(Policies[p], Requests[q], Runtimes[r])]]]
Named(bundles, digest) == {b \in bundles : b.digest = digest}
Carries(request, b) == request.envelope.bundle = b.evidence

BundleChecks(bundles, request) ==
    IF request.operation.capability # "execute" THEN <<>>
    ELSE <<<<Named(bundles, request.operation.bundle) = {}, "PEP-BUNDLE-UNAVAILABLE">>,
           <<\E b \in Named(bundles, request.operation.bundle) : ~Carries(request, b),
             "PEP-BUNDLE-MISMATCH">>>>

\* Everything before the evidence gate, with the policy, the manifest and the bundles of the point.
RefusalOf(point, request, effect, allowed) ==
    IF ~EffectOk(effect) THEN "PEP-EFFECT-MALFORMED"
    ELSE IF request.shape # "exact" THEN "PEP-DECISION-BLOCKED"
    ELSE FirstRefusal(
        <<<<effect.digest # request.operation.arguments, "PEP-EFFECT-DIGEST-MISMATCH">>,
          <<request.operation.adapter # ManifestDigest(point.manifest), "PEP-ADAPTER-MISMATCH">>>>
        \o BundleChecks(point.bundles, request)
        \o <<<<\/ request.operation.id \notin DOMAIN point.manifest.operations
               \/ point.manifest.operations[request.operation.id].capability # request.operation.capability,
               "PEP-OPERATION-UNKNOWN">>,
             <<~allowed, "PEP-DECISION-BLOCKED">>>>)
SubmitRefusal(point, q, r, e) ==
    RefusalOf(point, Requests[q], Effects[e], Answers[point.policy][q][r].verdict = "allow")

Point(a) == [policy |-> activation[a].policy, manifest |-> Manifest(a), bundles |-> activation[a].bundles]

\* EnforcementResultV1
Blocked(code) == [invoked |-> FALSE, outcome |-> "blocked", code |-> code]
Indeterminate(code) == [invoked |-> TRUE, outcome |-> "indeterminate", code |-> code]
Executed == [invoked |-> TRUE, outcome |-> "completed", code |-> "PEP-EXECUTED"]

Move(x, phase, result) ==
    execution' = [execution EXCEPT ![x] =
        [phase |-> phase, point |-> @.point, request |-> @.request, runtime |-> @.runtime,
         effect |-> @.effect, result |-> result]]
Return(x, result) == Move(x, "returned", result)

Admitted(refusal, admitted) ==
    IF refusal = Nothing THEN admitted ELSE [phase |-> "returned", result |-> Blocked(refusal)]
Submit(x, a, q, r, e) ==
    /\ activation[a].phase = "point"
    /\ execution' = [execution EXCEPT ![x] =
           Admitted(SubmitRefusal(Point(a), q, r, e),
                    [phase |-> "recording", point |-> a, request |-> q, runtime |-> r, effect |-> e,
                     result |-> Nothing])]
    /\ UNCHANGED <<world, changes, registry, activation, recorded, calls>>

Decision(x) == Answers[activation[execution[x].point].policy][execution[x].request][execution[x].runtime]

\* create_evidence_result
Evidence(decision, manifest) ==
    [request |-> decision.request, decision |-> Digest("decision", decision),
     manifest |-> manifest, policy |-> decision.policy]
Sealed(body) == [body |-> body, digest |-> Digest("evidence", body)]

\* What execute asks of the gate's answer.
AnySeal(x, answer) == answer.digest = Digest("evidence", answer.body)      \* mutant: evidence of anything
Matches(x, answer) ==
    /\ answer.body = Evidence(Decision(x), ManifestDigest(Manifest(execution[x].point)))
    /\ answer.digest = Digest("evidence", answer.body)

\* The gate is external: it records and answers, answers with evidence of another call or with
\* evidence altered on the way, or raises, before or after it recorded.
GateAnswers(x) ==
    LET own == Evidence(Decision(x), ManifestDigest(Manifest(execution[x].point))) IN
    {[records |-> {own}, answer |-> Sealed(own)],
     [records |-> {own}, answer |-> [Sealed(own) EXCEPT !.body.manifest = Nothing]],
     [records |-> {own}, answer |-> Nothing],
     [records |-> {}, answer |-> Nothing]}
    \cup {[records |-> {}, answer |-> Sealed(other)] : other \in recorded \ {own}}

Record(x) ==
    /\ execution[x].phase = "recording"
    /\ \E gate \in GateAnswers(x) :
        /\ recorded' = recorded \cup gate.records
        /\ IF gate.answer = Nothing THEN Return(x, Blocked("PEP-EVIDENCE-UNAVAILABLE"))
           ELSE IF ~Matches(x, gate.answer) THEN Return(x, Blocked("PEP-EVIDENCE-MISMATCH"))
           ELSE Move(x, "looking", Nothing)
    /\ UNCHANGED <<world, changes, registry, activation, calls>>

Operation(x) == Requests[execution[x].request].operation
Handler(x) == activation[execution[x].point].handlers[Operation(x).id]

LiveCode(handler) == CanonicalHandler(world, handler.function)       \* mutant: the caller's object kept
Code(handler) == handler.code

\* ActivatedAdapterV1._handler
LookUp(x) ==
    /\ execution[x].phase = "looking"
    /\ IF DigestHandler(world, Code(Handler(x))) # Handler(x).digest
       THEN Return(x, Blocked("PEP-ADAPTER-MISMATCH"))
       ELSE Move(x, "calling", Nothing)
    /\ UNCHANGED <<world, changes, registry, activation, recorded, calls>>

\* How a handler may end, and what is made of it.
Endings == {"nothing", "envelope", "raises", "raw", "unverifiable"}
ForgetsTheCall(ending) ==                                          \* mutant: a failed call reported as none
    IF ending = "raises" THEN Blocked("PEP-SINK-FAILED") ELSE Executed
SinkResult(ending) ==
    CASE ending = "raises"                   -> Indeterminate("PEP-SINK-FAILED")
      [] ending \in {"raw", "unverifiable"}  -> Indeterminate("PEP-OUTPUT-INVALID")
      [] OTHER                               -> Executed

CallSink(x, ending) ==
    /\ execution[x].phase = "calling"
    /\ calls' = calls \cup {[execution |-> x, code |-> Code(Handler(x)),
                             arguments |-> Effects[execution[x].effect].arguments, ending |-> ending]}
    /\ Return(x, SinkResult(ending))
    /\ UNCHANGED <<world, changes, registry, activation, recorded>>

-----------------------------------------------------------------------------
Init ==
    /\ world = World /\ changes = 0
    /\ registry = [entries |-> <<>>, frozen |-> FALSE]
    /\ activation = [a \in Activators |-> [phase |-> "idle"]]
    /\ execution = [x \in Executions |-> [phase |-> "idle"]]
    /\ recorded = {} /\ calls = {}

Next ==
    \/ Change
    \/ \E offer \in Offers : Register(offer[1], offer[2])
    \/ \E a \in Activators :
        \/ activation[a].phase = "idle"
           /\ \E c \in DOMAIN Candidates, p \in DOMAIN Policies : BeginActivation(a, c, p)
        \/ Verified(a) \/ NotVerified(a)
        \/ activation[a].phase = "adapter"
           /\ \E p \in DOMAIN Policies : \E bundles \in SUBSET {b.bundle : b \in ActivatedBundles} :
                  BuildPoint(a, p, bundles)
    \/ \E x \in Executions :
        \/ execution[x].phase = "idle"
           /\ \E a \in Activators, s \in Submissions : Submit(x, a, s[1], s[2], s[3])
        \/ Record(x) \/ LookUp(x)
        \/ \E ending \in Endings : CallSink(x, ending)

Spec == Init /\ [][Next]_vars

-----------------------------------------------------------------------------
Adapters == {a \in Activators : activation[a].phase \in {"adapter", "point"}}

\* An execution is where the results and the calls it made say it is.
TypeOK ==
    /\ changes \in 0..MaxChanges /\ registry.frozen \in BOOLEAN
    /\ \A a \in Activators : activation[a].phase \in {"idle", "verifying", "adapter", "point"}
    /\ \A x \in Executions :
        /\ execution[x].phase \in {"idle", "recording", "looking", "calling", "returned"}
        /\ Cardinality({c \in calls : c.execution = x}) <= 1
    /\ \A c \in calls : execution[c.execution].phase = "returned"

\* Only signed code runs: what a call ran, with all it calls in turn, is what the verified manifest
\* named by the request signed for that operation, whatever became of the author's functions since.
SignedCodeRuns ==
    \A c \in calls :
        LET x == execution[c.execution] IN
        LET manifest == Manifest(x.point)  operation == Requests[x.request].operation IN
        /\ Candidates[activation[x.point].candidate].valid
        /\ operation.adapter = ManifestDigest(manifest)
        /\ Digest("handler", c.code) = manifest.operations[operation.id].handler

\* An adapter serves exactly the operations of its manifest, whatever was registered while the
\* verifier was at work.
AdaptersAreTheirManifests ==
    /\ Adapters # {} => registry.frozen
    /\ \A a \in Adapters :
        LET handlers == activation[a].handlers  operations == Manifest(a).operations IN
        /\ DOMAIN handlers = DOMAIN operations
        /\ \A o \in DOMAIN operations : Digest("handler", handlers[o].code) = operations[o].handler

\* No effect without its own evidence: whatever ran was allowed for this request and recorded with
\* this decision and this manifest, whatever the gate answered to others.
EffectsAreRecorded ==
    \A c \in calls :
        /\ Decision(c.execution).verdict = "allow"
        /\ Evidence(Decision(c.execution), ManifestDigest(Manifest(execution[c.execution].point))) \in recorded
        /\ ArgumentsDigest(c.arguments) = Operation(c.execution).arguments

\* What is executed is a bundle its publisher signed for this adapter and this policy, and what the
\* request's envelope carries is that bundle.
ExecutesAreBundled ==
    \A c \in calls : Operation(c.execution).capability = "execute" =>
        \E b \in BundleCandidates :
            /\ BundleDigest(b.manifest) = Operation(c.execution).bundle
            /\ b.valid /\ b.manifest.publisher = b.signer
            /\ b.manifest.adapter = ManifestDigest(Manifest(execution[c.execution].point))
            /\ b.manifest.evidence = BundleEvidence(b.input)
            /\ b.manifest.evidence = Requests[execution[c.execution].request].envelope.bundle

\* No call ever reaches code, a registration or a bundle that nobody signed.
OnlySignedRuns == SignedCodeRuns /\ AdaptersAreTheirManifests /\ ExecutesAreBundled

\* A result says blocked exactly when nothing ran, and completed exactly when what ran ended well:
\* the caller of a failed effect learns that it may have happened.  (With the types.)
ResultsTellTheTruth ==
    /\ TypeOK
    /\ \A x \in Executions : execution[x].phase = "returned" =>
           LET ran == {c \in calls : c.execution = x}  result == execution[x].result IN
           /\ result.invoked = (ran # {}) /\ (result.outcome = "blocked") = (ran = {})
           /\ (result.outcome = "completed") = (\E c \in ran : c.ending \in {"nothing", "envelope"})

\* "One-shot finite registration builder consumed by adapter activation" (policy_enforcement.py:476).
RegistryIsConsumedOnce == Cardinality(Adapters) <= 1
=============================================================================
