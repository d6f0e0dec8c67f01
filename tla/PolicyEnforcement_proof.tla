---------------------- MODULE PolicyEnforcement_proof ----------------------
(***************************************************************************)
(* Proofs about the enforcement point of the first version: only signed    *)
(* code runs, behind evidence of that very call, and results say what      *)
(* happened.                                                               *)
(*                                                                         *)
(* The invariant follows a handler from its registration to its call.  A   *)
(* registered clone carries the digest of its own code; an activation      *)
(* copies clones whose digests the manifest names; a point adds bundles    *)
(* that were published for it; an execution that passed every check stays  *)
(* admitted, since a point never changes; and a call is made once, from    *)
(* an admitted execution with its evidence on record.                      *)
(***************************************************************************)
EXTENDS AdapterConformance, Induction_proof, SequenceTheorems, FiniteSetTheorems

-----------------------------------------------------------------------------
(* The invariant.                                                          *)

(* A registered handler is a clone with the digest of its own code. *)
EntryOk(entry) == entry.digest = Digest("handler", entry.code)
RegistryOk ==
  /\ registry = [entries |-> registry.entries, frozen |-> registry.frozen]
  /\ registry.frozen \in BOOLEAN
  /\ \A o \in DOMAIN registry.entries : EntryOk(registry.entries[o])

ActivationPhases == {"idle", "verifying", "adapter", "point"}
ActivationForm(r) ==
  \/ r = [phase |-> "idle"]
  \/ /\ r = [phase |-> r.phase, candidate |-> r.candidate, policy |-> r.policy,
             handlers |-> r.handlers, bundles |-> r.bundles]
     /\ r.phase \in ActivationPhases \ {"idle"}
     /\ r.candidate \in DOMAIN Candidates /\ r.policy \in DOMAIN Policies

(* What an activation holds are the handlers its manifest names. *)
HandlersOk(handlers, operations) ==
  /\ DOMAIN handlers = DOMAIN operations
  /\ \A o \in DOMAIN operations :
       EntryOk(handlers[o]) /\ handlers[o].digest = operations[o].handler

(* A bundle its publisher signed for this manifest. *)
BundleOk(b, manifest) ==
  \E c \in BundleCandidates :
    /\ b.digest = BundleDigest(c.manifest) /\ b.evidence = c.manifest.evidence
    /\ c.manifest.evidence = BundleEvidence(c.input)
    /\ c.valid /\ c.manifest.publisher = c.signer
    /\ c.manifest.adapter = ManifestDigest(manifest)

ActivationOk(a) ==
  LET r == activation[a] IN
  /\ ActivationForm(r)
  /\ r.phase # "idle" => HandlersOk(r.handlers, Manifest(a).operations)
  /\ r.phase \in {"adapter", "point"} => registry.frozen /\ Candidates[r.candidate].valid
  /\ r.phase = "point" => \A b \in r.bundles : BundleOk(b, Manifest(a))

(* What the checks of execute established before the gate is asked. *)
AdmittedOk(a, q, r, e) ==
  /\ a \in Activators /\ activation[a].phase = "point"
  /\ Answers[activation[a].policy][q][r].verdict = "allow"
  /\ Requests[q].operation.adapter = ManifestDigest(Manifest(a))
  /\ Requests[q].operation.id \in DOMAIN Manifest(a).operations
  /\ ArgumentsDigest(Effects[e].arguments) = Requests[q].operation.arguments
  /\ Requests[q].operation.capability = "execute" =>
       \E b \in activation[a].bundles :
         b.digest = Requests[q].operation.bundle /\ Requests[q].envelope.bundle = b.evidence

Own(x) == Evidence(Decision(x), ManifestDigest(Manifest(execution[x].point)))
CallsOf(x) == {c \in calls : c.execution = x}

InFlight(x) ==
  LET r == execution[x] IN
  /\ r = [phase |-> r.phase, point |-> r.point, request |-> r.request, runtime |-> r.runtime,
          effect |-> r.effect, result |-> r.result]
  /\ AdmittedOk(r.point, r.request, r.runtime, r.effect)

(* What ran is what the point holds for the operation, with its evidence on record. *)
CallOk(c) ==
  /\ c.execution \in Executions /\ execution[c.execution].phase = "returned"
  /\ InFlight(c.execution)
  /\ Own(c.execution) \in recorded
  /\ c.code = Code(Handler(c.execution))
  /\ c.arguments = Effects[execution[c.execution].effect].arguments
  /\ c.ending \in Endings
  /\ execution[c.execution].result = SinkResult(c.ending)
  /\ CallsOf(c.execution) = {c}

ExecutionOk(x) ==
  /\ execution[x].phase \in {"idle", "recording", "looking", "calling", "returned"}
  /\ execution[x].phase \in {"recording", "looking", "calling"} => InFlight(x)
  /\ execution[x].phase \in {"looking", "calling"} => Own(x) \in recorded
  /\ execution[x].phase = "returned" =>
       \/ \E code \in EnforcementCodes \cup {"PEP-EVIDENCE-UNAVAILABLE", "PEP-EVIDENCE-MISMATCH"} :
            execution[x].result = Blocked(code) /\ CallsOf(x) = {}
       \/ \E c \in calls : c.execution = x

EnforcementInv ==
  /\ changes \in 0..MaxChanges
  /\ RegistryOk
  /\ DOMAIN activation = Activators /\ DOMAIN execution = Executions
  /\ \A a \in Activators : ActivationOk(a)
  /\ \A x \in Executions : ExecutionOk(x)
  /\ \A c \in calls : CallOk(c)

-----------------------------------------------------------------------------
(* The validators: what Nothing says of what was checked.                  *)

Refusable == Seq(BOOLEAN \X EnforcementCodes)

LEMMA OneCheck ==
  ASSUME NEW p \in BOOLEAN, NEW c \in EnforcementCodes
  PROVE  <<<<p, c>>>> \in Refusable
<1>1. <<p, c>> \in BOOLEAN \X EnforcementCodes
  OBVIOUS
<1> QED BY <1>1 DEF Refusable

LEMMA TwoChecks ==
  ASSUME NEW p \in BOOLEAN, NEW q \in BOOLEAN, NEW c \in EnforcementCodes, NEW d \in EnforcementCodes
  PROVE  <<<<p, c>>, <<q, d>>>> \in Refusable
<1>1. <<p, c>> \in BOOLEAN \X EnforcementCodes /\ <<q, d>> \in BOOLEAN \X EnforcementCodes
  OBVIOUS
<1> QED BY <1>1 DEF Refusable

LEMMA Joined ==
  ASSUME NEW s \in Refusable, NEW t \in Refusable
  PROVE  s \o t \in Refusable
BY DEF Refusable

(* Of two lists of checks of which none applies, none applies in either. *)
LEMMA NoneOfBoth ==
  ASSUME NEW s \in Refusable, NEW t \in Refusable,
         \A i \in 1..Len(s \o t) : ~(s \o t)[i][1]
  PROVE  /\ \A i \in 1..Len(s) : ~s[i][1]
         /\ \A i \in 1..Len(t) : ~t[i][1]
<1>1. /\ Len(s) \in Nat /\ Len(t) \in Nat /\ Len(s \o t) = Len(s) + Len(t)
      /\ \A i \in 1..Len(s) : (s \o t)[i] = s[i]
  BY DEF Refusable
<1>2. ASSUME NEW i \in 1..Len(t) PROVE (s \o t)[Len(s) + i] = t[i] /\ Len(s) + i \in 1..Len(s \o t)
  BY <1>1 DEF Refusable
<1>3. ASSUME NEW i \in 1..Len(t) PROVE ~t[i][1]
  BY <1>2
<1> QED BY <1>1, <1>3

(* activate_adapter: what the manifest names is registered, one to one. *)
LEMMA ActivationAdmits ==
  ASSUME NEW c, NEW policy, registry.frozen \in BOOLEAN,
         FirstRefusal(ActivationRefusals(c, policy)) = Nothing
  PROVE  OneToOne(registry.entries, c.manifest.operations)
<1> DEFINE p1 == \/ c.manifest.implementation # Digest("adapter-implementation", c.implementation)
                 \/ c.manifest.dependencies # {Digest("adapter-dependency", d) : d \in c.dependencies}
           p2 == c.manifest.policy # policy.id \/ c.manifest.generation # policy.generation
           p3 == registry.frozen
           p4 == ~OneToOne(registry.entries, c.manifest.operations)
           s  == <<<<p1, "PEP-ADAPTER-INTEGRITY">>, <<p2, "PEP-POLICY-BINDING">>,
                   <<p3, "PEP-REGISTRY-FROZEN">>, <<p4, "PEP-MANIFEST-REGISTRY-MISMATCH">>>>
<1>1. FirstRefusal(s) = Nothing
  BY DEF ActivationRefusals
<1>2. p1 \in BOOLEAN /\ p2 \in BOOLEAN /\ p3 \in BOOLEAN /\ p4 \in BOOLEAN
  OBVIOUS
<1> SUFFICES ~p4
  OBVIOUS
<1> HIDE DEF p1, p2, p3, p4
<1>3. /\ <<p1, "PEP-ADAPTER-INTEGRITY">> \in BOOLEAN \X EnforcementCodes
      /\ <<p2, "PEP-POLICY-BINDING">> \in BOOLEAN \X EnforcementCodes
      /\ <<p3, "PEP-REGISTRY-FROZEN">> \in BOOLEAN \X EnforcementCodes
      /\ <<p4, "PEP-MANIFEST-REGISTRY-MISMATCH">> \in BOOLEAN \X EnforcementCodes
  BY <1>2 DEF EnforcementCodes
<1>4. s \in Seq(BOOLEAN \X EnforcementCodes)
  BY <1>3
<1>5. Len(s) = 4 /\ s[4][1] = p4
  OBVIOUS
<1> HIDE DEF s
<1> QED BY <1>1, <1>4, <1>5, NothingApplies, NoCodeIsNothing

(* activate_executable_bundle: what may be activated is what its publisher *)
(* signed, for the adapter its caller named.                               *)
LEMMA PublishedBundles ==
  ASSUME NEW c, NEW active, NEW m, MayActivateBundle(c, active, m)
  PROVE  /\ c.manifest.evidence = BundleEvidence(c.input)
         /\ c.manifest.publisher = c.signer /\ c.manifest.adapter = m
         /\ c.valid
<1> DEFINE p1 == ~c.input.canonical
           p2 == c.manifest.evidence # BundleEvidence(c.input)
           p3 == c.manifest.publisher # c.signer
           p4 == ~BundleIsFor(c.manifest, active, m)
           p5 == ~c.valid
           s  == <<<<p1, "PEP-BUNDLE-INTEGRITY">>, <<p2, "PEP-BUNDLE-INTEGRITY">>,
                   <<p3, "PEP-BUNDLE-PUBLISHER">>, <<p4, "PEP-BUNDLE-POLICY-BINDING">>,
                   <<p5, "PEP-BUNDLE-VERIFICATION">>>>
<1>1. FirstRefusal(s) = Nothing
  BY DEF MayActivateBundle, BundleRefusals
<1>2. p1 \in BOOLEAN /\ p2 \in BOOLEAN /\ p3 \in BOOLEAN /\ p4 \in BOOLEAN /\ p5 \in BOOLEAN
  OBVIOUS
<1> SUFFICES ~p2 /\ ~p3 /\ ~p4 /\ ~p5
  BY DEF BundleIsFor
<1> HIDE DEF p1, p2, p3, p4, p5
<1>3. /\ <<p1, "PEP-BUNDLE-INTEGRITY">> \in BOOLEAN \X EnforcementCodes
      /\ <<p2, "PEP-BUNDLE-INTEGRITY">> \in BOOLEAN \X EnforcementCodes
      /\ <<p3, "PEP-BUNDLE-PUBLISHER">> \in BOOLEAN \X EnforcementCodes
      /\ <<p4, "PEP-BUNDLE-POLICY-BINDING">> \in BOOLEAN \X EnforcementCodes
      /\ <<p5, "PEP-BUNDLE-VERIFICATION">> \in BOOLEAN \X EnforcementCodes
  BY <1>2 DEF EnforcementCodes
<1>4. s \in Seq(BOOLEAN \X EnforcementCodes)
  BY <1>3
<1>5. Len(s) = 5 /\ s[2][1] = p2 /\ s[3][1] = p3 /\ s[4][1] = p4 /\ s[5][1] = p5
  OBVIOUS
<1> HIDE DEF s
<1>6. \A i \in 1..5 : ~s[i][1]
  BY <1>1, <1>4, <1>5, NothingApplies, NoCodeIsNothing
<1> QED BY <1>5, <1>6

(* The bundles a point is given were published for its manifest. *)
LEMMA ServedBundles ==
  ASSUME NEW b \in {x.bundle : x \in ActivatedBundles}, NEW manifest,
         b.manifest.adapter = ManifestDigest(manifest)
  PROVE  BundleOk(b, manifest)
<1>1. PICK x \in ActivatedBundles : b = x.bundle
  OBVIOUS
<1> DEFINE OfWhom(m, p) == {[for |-> m, bundle |-> ActivateBundle(c, Policies[p])] :
                               c \in {d \in BundleCandidates : MayActivateBundle(d, Policies[p], m)}}
           Digests == {ManifestDigest(Candidates[c].manifest) : c \in DOMAIN Candidates}
<1>6. PICK m \in Digests, p \in DOMAIN Policies : x \in OfWhom(m, p)
  <2>1. ActivatedBundles = UNION {OfWhom(m, p) : m \in Digests, p \in DOMAIN Policies}
    BY DEF ActivatedBundles
  <2> HIDE DEF OfWhom, Digests
  <2> QED BY <2>1
<1>2. PICK c \in BundleCandidates :
         MayActivateBundle(c, Policies[p], m) /\ x = [for |-> m, bundle |-> ActivateBundle(c, Policies[p])]
  BY <1>6
<1>3. b = ActivateBundle(c, Policies[p])
  BY <1>1, <1>2
<1>4. /\ b.manifest = c.manifest /\ b.digest = BundleDigest(c.manifest)
      /\ b.evidence = BundleEvidence(c.input)
  BY <1>3 DEF ActivateBundle
<1> QED BY <1>2, <1>4, PublishedBundles DEF BundleOk

(* execute, before the gate: whoever is refused is refused with a code. *)
LEMMA BundleChecksAreChecks ==
  ASSUME NEW bundles, NEW request
  PROVE  BundleChecks(bundles, request) \in Refusable
<1> DEFINE p1 == Named(bundles, request.operation.bundle) = {}
           p2 == \E b \in Named(bundles, request.operation.bundle) : ~Carries(request, b)
<1>1. p1 \in BOOLEAN /\ p2 \in BOOLEAN
  OBVIOUS
<1>2. BundleChecks(bundles, request) = IF request.operation.capability # "execute" THEN <<>>
        ELSE <<<<p1, "PEP-BUNDLE-UNAVAILABLE">>, <<p2, "PEP-BUNDLE-MISMATCH">>>>
  BY DEF BundleChecks
<1> HIDE DEF p1, p2
<1>3. <<<<p1, "PEP-BUNDLE-UNAVAILABLE">>, <<p2, "PEP-BUNDLE-MISMATCH">>>> \in Refusable
  BY <1>1, TwoChecks DEF EnforcementCodes
<1>4. <<>> \in Refusable
  BY DEF Refusable
<1> QED BY <1>2, <1>3, <1>4

(* Where they do not apply, what is executed is a bundle of the point's,   *)
(* and the request carries its evidence.                                   *)
LEMMA BundleIsCarried ==
  ASSUME NEW bundles, NEW request, request.operation.capability = "execute",
         \A i \in 1..Len(BundleChecks(bundles, request)) : ~BundleChecks(bundles, request)[i][1]
  PROVE  \E b \in bundles : b.digest = request.operation.bundle /\ request.envelope.bundle = b.evidence
<1> DEFINE named == Named(bundles, request.operation.bundle)
           p1 == named = {}
           p2 == \E b \in named : ~Carries(request, b)
           s  == <<<<p1, "PEP-BUNDLE-UNAVAILABLE">>, <<p2, "PEP-BUNDLE-MISMATCH">>>>
<1>1. BundleChecks(bundles, request) = s
  BY DEF BundleChecks
<1>2. ~p1 /\ ~p2
  <2> HIDE DEF p1, p2
  <2>1. Len(s) = 2 /\ s[1][1] = p1 /\ s[2][1] = p2
    OBVIOUS
  <2> HIDE DEF s
  <2>2. 1 \in 1..Len(s) /\ 2 \in 1..Len(s)
    BY <2>1
  <2> QED BY <1>1, <2>1, <2>2
<1>3. PICK b \in named : Carries(request, b)
  BY <1>2
<1> QED BY <1>3 DEF Named, Carries

Checked(point, request, effect, allowed) ==
  <<<<effect.digest # request.operation.arguments, "PEP-EFFECT-DIGEST-MISMATCH">>,
    <<request.operation.adapter # ManifestDigest(point.manifest), "PEP-ADAPTER-MISMATCH">>>>
  \o BundleChecks(point.bundles, request)
  \o <<<<\/ request.operation.id \notin DOMAIN point.manifest.operations
         \/ point.manifest.operations[request.operation.id].capability # request.operation.capability,
         "PEP-OPERATION-UNKNOWN">>,
       <<~allowed, "PEP-DECISION-BLOCKED">>>>

LEMMA ChecksOfExecute ==
  ASSUME NEW point, NEW request, NEW effect, NEW allowed \in BOOLEAN
  PROVE  /\ Checked(point, request, effect, allowed) \in Refusable
         /\ FirstRefusal(Checked(point, request, effect, allowed)) = Nothing =>
              /\ effect.digest = request.operation.arguments
              /\ request.operation.adapter = ManifestDigest(point.manifest)
              /\ request.operation.id \in DOMAIN point.manifest.operations
              /\ allowed
              /\ request.operation.capability = "execute" =>
                   \E b \in point.bundles :
                     b.digest = request.operation.bundle /\ request.envelope.bundle = b.evidence
<1> DEFINE p1 == effect.digest # request.operation.arguments
           p2 == request.operation.adapter # ManifestDigest(point.manifest)
           p3 == \/ request.operation.id \notin DOMAIN point.manifest.operations
                 \/ point.manifest.operations[request.operation.id].capability # request.operation.capability
           p4 == ~allowed
           s  == <<<<p1, "PEP-EFFECT-DIGEST-MISMATCH">>, <<p2, "PEP-ADAPTER-MISMATCH">>>>
           t  == BundleChecks(point.bundles, request)
           u  == <<<<p3, "PEP-OPERATION-UNKNOWN">>, <<p4, "PEP-DECISION-BLOCKED">>>>
           good == /\ ~p1 /\ ~p2 /\ ~p3 /\ ~p4
                   /\ \A i \in 1..Len(t) : ~t[i][1]
<1>1. Checked(point, request, effect, allowed) = (s \o t) \o u
  BY DEF Checked
<1>2. p1 \in BOOLEAN /\ p2 \in BOOLEAN /\ p3 \in BOOLEAN /\ p4 \in BOOLEAN
  OBVIOUS
<1>3. good => /\ effect.digest = request.operation.arguments
              /\ request.operation.adapter = ManifestDigest(point.manifest)
              /\ request.operation.id \in DOMAIN point.manifest.operations
              /\ allowed
              /\ request.operation.capability = "execute" =>
                   \E b \in point.bundles :
                     b.digest = request.operation.bundle /\ request.envelope.bundle = b.evidence
  BY BundleIsCarried
<1>4. (s \o t) \o u \in Refusable /\ (FirstRefusal((s \o t) \o u) = Nothing => good)
  <2> HIDE DEF p1, p2, p3, p4
  <2>1. s \in Refusable /\ u \in Refusable
    BY <1>2, TwoChecks DEF EnforcementCodes
  <2>2. t \in Refusable
    BY BundleChecksAreChecks
  <2>3. Len(s) = 2 /\ s[1][1] = p1 /\ s[2][1] = p2 /\ Len(u) = 2 /\ u[1][1] = p3 /\ u[2][1] = p4
    OBVIOUS
  <2>4. 1 \in 1..2 /\ 2 \in 1..2
    OBVIOUS
  <2> HIDE DEF s, t, u
  <2>5. s \o t \in Refusable /\ (s \o t) \o u \in Refusable
    BY <2>1, <2>2, Joined
  <2>6. ASSUME FirstRefusal((s \o t) \o u) = Nothing PROVE good
    <3>1. \A i \in 1..Len((s \o t) \o u) : ~((s \o t) \o u)[i][1]
      BY <2>5, <2>6, NothingApplies, NoCodeIsNothing DEF Refusable
    <3>2. /\ \A i \in 1..Len(s \o t) : ~(s \o t)[i][1]
          /\ \A i \in 1..Len(u) : ~u[i][1]
      BY <2>1, <2>5, <3>1, NoneOfBoth
    <3>3. /\ \A i \in 1..Len(s) : ~s[i][1]
          /\ \A i \in 1..Len(t) : ~t[i][1]
      BY <2>1, <2>2, <3>2, NoneOfBoth
    <3> QED BY <2>3, <2>4, <3>2, <3>3
  <2> QED BY <2>5, <2>6
<1> HIDE DEF s, t, u, good
<1> QED BY <1>1, <1>3, <1>4

(* Whom no check refuses is admitted. *)
LEMMA SubmitAdmits ==
  ASSUME NEW a \in Activators, NEW q, NEW r, NEW e, activation[a].phase = "point",
         SubmitRefusal(Point(a), q, r, e) = Nothing
  PROVE  AdmittedOk(a, q, r, e)
<1> DEFINE point == Point(a)
           request == Requests[q]
           effect == Effects[e]
           allowed == Answers[point.policy][q][r].verdict = "allow"
<1>1. /\ point.policy = activation[a].policy /\ point.manifest = Manifest(a)
      /\ point.bundles = activation[a].bundles
  BY DEF Point
<1>2. allowed \in BOOLEAN
  OBVIOUS
<1>3. RefusalOf(point, request, effect, allowed) = Nothing
  BY DEF SubmitRefusal
<1>4. allowed => Answers[point.policy][q][r].verdict = "allow"
  OBVIOUS
<1> HIDE DEF allowed, point
<1>5. /\ EffectOk(effect)
      /\ FirstRefusal(Checked(point, request, effect, allowed)) = Nothing
  <2>1. Nothing # "PEP-EFFECT-MALFORMED" /\ Nothing # "PEP-DECISION-BLOCKED"
    BY NoCodeIsNothing DEF EnforcementCodes
  <2>2. EffectOk(effect)
    BY <1>3, <2>1 DEF RefusalOf
  <2>3. request.shape = "exact"
    BY <1>3, <2>1, <2>2 DEF RefusalOf
  <2> QED BY <1>3, <2>2, <2>3 DEF RefusalOf, Checked
<1>6. /\ effect.digest = request.operation.arguments
      /\ request.operation.adapter = ManifestDigest(point.manifest)
      /\ request.operation.id \in DOMAIN point.manifest.operations
      /\ allowed
      /\ request.operation.capability = "execute" =>
           \E b \in point.bundles :
             b.digest = request.operation.bundle /\ request.envelope.bundle = b.evidence
  BY <1>2, <1>5, ChecksOfExecute
<1>7. ArgumentsDigest(effect.arguments) = request.operation.arguments
  BY <1>5, <1>6 DEF EffectOk
<1> QED BY <1>1, <1>4, <1>6, <1>7 DEF AdmittedOk

LEMMA SubmitAnswers ==
  ASSUME NEW point, NEW q, NEW r, NEW e
  PROVE  SubmitRefusal(point, q, r, e) \in EnforcementCodes \cup {Nothing}
<1> DEFINE allowed == Answers[point.policy][q][r].verdict = "allow"
<1>1. allowed \in BOOLEAN
  OBVIOUS
<1>2. SubmitRefusal(point, q, r, e) = RefusalOf(point, Requests[q], Effects[e], allowed)
  BY DEF SubmitRefusal
<1> HIDE DEF allowed
<1>3. FirstRefusal(Checked(point, Requests[q], Effects[e], allowed)) \in EnforcementCodes \cup {Nothing}
  BY <1>1, ChecksOfExecute, RefusalIsACode DEF Refusable
<1>4. RefusalOf(point, Requests[q], Effects[e], allowed) =
        IF ~EffectOk(Effects[e]) THEN "PEP-EFFECT-MALFORMED"
        ELSE IF Requests[q].shape # "exact" THEN "PEP-DECISION-BLOCKED"
        ELSE FirstRefusal(Checked(point, Requests[q], Effects[e], allowed))
  BY DEF RefusalOf, Checked
<1>5. "PEP-EFFECT-MALFORMED" \in EnforcementCodes /\ "PEP-DECISION-BLOCKED" \in EnforcementCodes
  BY DEF EnforcementCodes
<1> QED BY <1>2, <1>3, <1>4, <1>5

-----------------------------------------------------------------------------
(* The invariant is inductive.  What a step leaves alone stays as it was.  *)

(* A point never changes. *)
PointsStay ==
  \A a \in Activators : activation[a].phase = "point" => activation'[a] = activation[a]

LEMMA AdmittedStable ==
  ASSUME PointsStay, NEW a, NEW q, NEW r, NEW e, AdmittedOk(a, q, r, e)
  PROVE  AdmittedOk(a, q, r, e)' /\ activation'[a] = activation[a]
<1>1. activation'[a] = activation[a]
  BY DEF PointsStay, AdmittedOk
<1>2. Manifest(a)' = Manifest(a)
  BY <1>1 DEF Manifest
<1> QED BY <1>1, <1>2 DEF AdmittedOk

LEMMA FlightStable ==
  ASSUME PointsStay, NEW x, InFlight(x), execution'[x] = execution[x]
  PROVE  InFlight(x)' /\ Own(x)' = Own(x) /\ Handler(x)' = Handler(x)
<1> DEFINE r == execution[x]
<1>1. /\ AdmittedOk(r.point, r.request, r.runtime, r.effect)'
      /\ activation'[r.point] = activation[r.point]
  BY AdmittedStable DEF InFlight
<1>2. /\ execution'[x].point = r.point /\ execution'[x].request = r.request
      /\ execution'[x].runtime = r.runtime /\ execution'[x].effect = r.effect
  OBVIOUS
<1>3. InFlight(x)'
  BY <1>1, <1>2 DEF InFlight
<1>4. Manifest(r.point)' = Manifest(r.point)
  BY <1>1 DEF Manifest
<1>5. Decision(x)' = Decision(x)
  BY <1>1, <1>2 DEF Decision
<1>6. Own(x)' = Own(x)
  BY <1>2, <1>4, <1>5 DEF Own, Manifest, Evidence
<1>7. Handler(x)' = Handler(x)
  BY <1>1, <1>2 DEF Handler, Operation
<1> QED BY <1>3, <1>6, <1>7

(* An execution that did not move, and the calls it made. *)
LEMMA ExecutionStable ==
  ASSUME PointsStay, NEW x \in Executions, ExecutionOk(x), execution'[x] = execution[x],
         recorded \subseteq recorded', CallsOf(x)' = CallsOf(x)
  PROVE  ExecutionOk(x)'
<1>1. InFlight(x) => InFlight(x)' /\ Own(x)' = Own(x)
  BY FlightStable
<1>2. (\E c \in calls : c.execution = x) => \E c \in calls' : c.execution = x
  BY DEF CallsOf
<1> QED BY <1>1, <1>2 DEF ExecutionOk

LEMMA CallStable ==
  ASSUME PointsStay, NEW c \in calls, CallOk(c), execution'[c.execution] = execution[c.execution],
         recorded \subseteq recorded', CallsOf(c.execution)' = CallsOf(c.execution)
  PROVE  CallOk(c)'
<1> DEFINE x == c.execution
<1>1. InFlight(x)' /\ Own(x)' = Own(x) /\ Handler(x)' = Handler(x)
  BY FlightStable DEF CallOk
<1> HIDE DEF x
<1>2. Code(Handler(x))' = Code(Handler(x))
  BY <1>1 DEF Code
<1> QED BY <1>1, <1>2 DEF CallOk, x

(* The steps of registration and activation leave the executions alone. *)
LEMMA ExecutionsStay ==
  ASSUME EnforcementInv, PointsStay, UNCHANGED <<execution, recorded, calls>>
  PROVE  /\ \A x \in Executions : ExecutionOk(x)'
         /\ \A c \in calls' : CallOk(c)'
<1>1. ASSUME NEW x \in Executions PROVE ExecutionOk(x)'
  <2>1. CallsOf(x)' = CallsOf(x)
    BY DEF CallsOf
  <2> QED BY <2>1, ExecutionStable DEF EnforcementInv
<1>2. ASSUME NEW c \in calls PROVE CallOk(c)'
  <2>1. CallsOf(c.execution)' = CallsOf(c.execution)
    BY DEF CallsOf
  <2> QED BY <2>1, CallStable DEF EnforcementInv
<1> QED BY <1>1, <1>2

LEMMA ActivationStable ==
  ASSUME NEW a \in Activators, ActivationOk(a), activation'[a] = activation[a],
         registry.frozen => registry'.frozen
  PROVE  ActivationOk(a)'
<1>1. Manifest(a)' = Manifest(a)
  BY DEF Manifest
<1> QED BY <1>1 DEF ActivationOk, ActivationForm

(* The steps of an execution leave the activations alone. *)
LEMMA ActivationsStay ==
  ASSUME EnforcementInv, UNCHANGED <<changes, registry, activation>>
  PROVE  /\ changes' \in 0..MaxChanges /\ RegistryOk' /\ DOMAIN activation' = Activators
         /\ PointsStay
         /\ \A a \in Activators : ActivationOk(a)'
BY ActivationStable DEF EnforcementInv, PointsStay, RegistryOk

LEMMA ChangePreserves ==
  ASSUME EnforcementInv, Change
  PROVE  EnforcementInv'
<1>1. PointsStay /\ \A a \in Activators : ActivationOk(a)'
  BY ActivationStable DEF EnforcementInv, Change, PointsStay
<1>2. changes' \in 0..MaxChanges
  BY MaxChangesAssumption DEF EnforcementInv, Change
<1>3. UNCHANGED <<execution, recorded, calls>>
  BY DEF Change
<1> QED BY <1>1, <1>2, <1>3, ExecutionsStay DEF EnforcementInv, Change, RegistryOk

LEMMA RegisterPreserves ==
  ASSUME EnforcementInv, NEW operation, NEW f, Register(operation, f)
  PROVE  EnforcementInv'
<1> DEFINE clone == FreezeHandler(world, f)
           digest == DigestHandler(world, clone)
           entry == [function |-> f, code |-> clone, digest |-> digest]
<1>1. registry' = [registry EXCEPT !.entries = Registered(@, operation, entry)]
  BY DEF Register
<1>2. EntryOk(entry)
  <2>1. digest # Digest("handler", Unsupported)
    BY DEF Register
  <2>2. digest = Digest("handler", clone)
    BY <2>1 DEF DigestHandler
  <2> HIDE DEF clone, digest
  <2> QED BY <2>2 DEF EntryOk
<1> HIDE DEF entry
<1>3. /\ registry'.entries = Registered(registry.entries, operation, entry)
      /\ registry'.frozen = registry.frozen
      /\ registry' = [entries |-> registry'.entries, frozen |-> registry'.frozen]
  BY <1>1 DEF EnforcementInv, RegistryOk
<1>4. RegistryOk'
  <2>1. \A o \in DOMAIN registry'.entries : EntryOk(registry'.entries[o])
    BY <1>2, <1>3 DEF EnforcementInv, RegistryOk, Registered
  <2> QED BY <1>3, <2>1 DEF EnforcementInv, RegistryOk, EntryOk
<1>5. UNCHANGED <<changes, activation, execution, recorded, calls>>
  BY DEF Register
<1>6. PointsStay /\ \A a \in Activators : ActivationOk(a)'
  BY <1>3, <1>5, ActivationStable DEF EnforcementInv, PointsStay
<1> QED BY <1>4, <1>5, <1>6, ExecutionsStay DEF EnforcementInv

(* A step of one activation that is not a point yet. *)
LEMMA ActivationStep ==
  ASSUME EnforcementInv, NEW a \in Activators, activation[a].phase # "point",
         NEW r, activation' = [activation EXCEPT ![a] = r],
         ActivationOk(a)', RegistryOk', registry.frozen => registry'.frozen,
         UNCHANGED <<changes, execution, recorded, calls>>
  PROVE  EnforcementInv'
<1>1. \A b \in Activators : b # a => activation'[b] = activation[b]
  BY DEF EnforcementInv
<1>2. PointsStay
  BY <1>1 DEF PointsStay
<1>3. \A b \in Activators : ActivationOk(b)'
  BY <1>1, ActivationStable DEF EnforcementInv
<1> QED BY <1>2, <1>3, ExecutionsStay DEF EnforcementInv

LEMMA BeginPreserves ==
  ASSUME EnforcementInv, NEW a \in Activators, NEW c \in DOMAIN Candidates, NEW p \in DOMAIN Policies,
         activation[a].phase = "idle", BeginActivation(a, c, p)
  PROVE  EnforcementInv'
<1> DEFINE r == [phase |-> "verifying", candidate |-> c, policy |-> p,
                 handlers |-> registry.entries, bundles |-> {}]
<1>1. activation' = [activation EXCEPT ![a] = r]
  BY DEF BeginActivation
<1>2. activation'[a] = r /\ UNCHANGED <<changes, registry, execution, recorded, calls>>
  BY <1>1 DEF EnforcementInv, BeginActivation
<1>3. OneToOne(registry.entries, Candidates[c].manifest.operations)
  BY ActivationAdmits DEF BeginActivation, EnforcementInv, RegistryOk
<1>4. HandlersOk(registry.entries, Candidates[c].manifest.operations)
  BY <1>3 DEF OneToOne, HandlersOk, EnforcementInv, RegistryOk
<1>5. Manifest(a)' = Candidates[c].manifest
  BY <1>2 DEF Manifest
<1>6. ActivationOk(a)'
  <2>1. ActivationForm(activation'[a])
    BY <1>2 DEF ActivationForm, ActivationPhases
  <2>2. activation'[a].phase = "verifying" /\ activation'[a].handlers = registry.entries
    BY <1>2
  <2> QED BY <1>4, <1>5, <2>1, <2>2 DEF ActivationOk, ActivationForm
<1> HIDE DEF r
<1> QED BY <1>1, <1>2, <1>6, ActivationStep DEF EnforcementInv, RegistryOk

(* What Verified and BuildPoint do to an activation that began. *)
LEMMA EnterForm ==
  ASSUME EnforcementInv, NEW a \in Activators, activation[a].phase # "idle",
         NEW phase \in ActivationPhases \ {"idle"}, NEW handlers, NEW bundles,
         Enter(a, phase, handlers, bundles)
  PROVE  /\ ActivationForm(activation'[a])
         /\ activation'[a].phase = phase /\ activation'[a].handlers = handlers
         /\ activation'[a].bundles = bundles /\ activation'[a].candidate = activation[a].candidate
         /\ Manifest(a)' = Manifest(a)
         /\ \E r : activation' = [activation EXCEPT ![a] = r]
<1> DEFINE r == [phase |-> phase, candidate |-> activation[a].candidate, policy |-> activation[a].policy,
                 handlers |-> handlers, bundles |-> bundles]
<1>1. activation' = [activation EXCEPT ![a] = r]
  BY DEF Enter
<1>4. activation[a].candidate \in DOMAIN Candidates /\ activation[a].policy \in DOMAIN Policies
  BY DEF EnforcementInv, ActivationOk, ActivationForm
<1>2. ActivationForm(r) /\ r.phase = phase /\ r.handlers = handlers /\ r.bundles = bundles
      /\ r.candidate = activation[a].candidate
  BY <1>4 DEF ActivationForm
<1> HIDE DEF r
<1>3. activation'[a] = r /\ \E q : activation' = [activation EXCEPT ![a] = q]
  BY <1>1 DEF EnforcementInv
<1> QED BY <1>2, <1>3 DEF Manifest

LEMMA VerifiedPreserves ==
  ASSUME EnforcementInv, NEW a \in Activators, Verified(a)
  PROVE  EnforcementInv'
<1>1. /\ activation[a].phase = "verifying" /\ Candidates[activation[a].candidate].valid
      /\ UNCHANGED <<changes, execution, recorded, calls>>
      /\ Enter(a, "adapter", activation[a].handlers, {})
  BY DEF Verified, Copied
<1>2. /\ ActivationForm(activation'[a])
      /\ activation'[a].phase = "adapter" /\ activation'[a].handlers = activation[a].handlers
      /\ activation'[a].candidate = activation[a].candidate
      /\ Manifest(a)' = Manifest(a)
      /\ \E r : activation' = [activation EXCEPT ![a] = r]
  BY <1>1, EnterForm DEF ActivationPhases
<1>3. registry' = [registry EXCEPT !.frozen = TRUE]
  BY DEF Verified
<1>4. RegistryOk' /\ registry'.frozen
  BY <1>3 DEF EnforcementInv, RegistryOk, EntryOk
<1>5. HandlersOk(activation[a].handlers, Manifest(a).operations)
  BY <1>1 DEF EnforcementInv, ActivationOk
<1>6. ActivationOk(a)'
  BY <1>1, <1>2, <1>4, <1>5 DEF ActivationOk
<1> QED BY <1>1, <1>2, <1>4, <1>6, ActivationStep

LEMMA NotVerifiedPreserves ==
  ASSUME EnforcementInv, NEW a \in Activators, NotVerified(a)
  PROVE  EnforcementInv'
<1> DEFINE r == [phase |-> "idle"]
<1>1. activation' = [activation EXCEPT ![a] = r] /\ activation[a].phase = "verifying"
  BY DEF NotVerified
<1>2. activation'[a] = r /\ UNCHANGED <<changes, registry, execution, recorded, calls>>
  BY <1>1 DEF EnforcementInv, NotVerified
<1>3. ActivationOk(a)'
  BY <1>2 DEF ActivationOk, ActivationForm
<1> HIDE DEF r
<1> QED BY <1>1, <1>2, <1>3, ActivationStep DEF EnforcementInv, RegistryOk

LEMMA BuildPointPreserves ==
  ASSUME EnforcementInv, NEW a \in Activators, NEW p,
         NEW bundles \in SUBSET {b.bundle : b \in ActivatedBundles},
         activation[a].phase = "adapter", BuildPoint(a, p, bundles)
  PROVE  EnforcementInv'
<1>1. /\ UNCHANGED <<changes, registry, execution, recorded, calls>>
      /\ Enter(a, "point", activation[a].handlers, bundles)
  BY DEF BuildPoint
<1>2. /\ ActivationForm(activation'[a])
      /\ activation'[a].phase = "point" /\ activation'[a].handlers = activation[a].handlers
      /\ activation'[a].candidate = activation[a].candidate /\ activation'[a].bundles = bundles
      /\ Manifest(a)' = Manifest(a)
      /\ \E r : activation' = [activation EXCEPT ![a] = r]
  BY <1>1, EnterForm DEF ActivationPhases
<1>3. /\ HandlersOk(activation[a].handlers, Manifest(a).operations)
      /\ registry.frozen /\ Candidates[activation[a].candidate].valid
  BY DEF EnforcementInv, ActivationOk
<1>4. ASSUME NEW b \in bundles PROVE BundleOk(b, Manifest(a))
  <2>1. b.manifest.adapter = ManifestDigest(Manifest(a))
    BY DEF BuildPoint, MayServe
  <2> QED BY <2>1, ServedBundles
<1>5. ActivationOk(a)'
  BY <1>1, <1>2, <1>3, <1>4 DEF ActivationOk
<1>6. RegistryOk'
  BY <1>1 DEF EnforcementInv, RegistryOk
<1> QED BY <1>1, <1>2, <1>5, <1>6, ActivationStep

-----------------------------------------------------------------------------
(* The steps of an execution.                                              *)

Refused ==
  EnforcementCodes \cup {"PEP-EVIDENCE-UNAVAILABLE", "PEP-EVIDENCE-MISMATCH"}

(* Before it returned, an execution made no call. *)
LEMMA NoCallsYet ==
  ASSUME EnforcementInv, NEW x \in Executions, execution[x].phase # "returned"
  PROVE  CallsOf(x) = {}
BY DEF EnforcementInv, CallOk, CallsOf

(* A step of one execution that did not return yet. *)
LEMMA ExecutionStep ==
  ASSUME EnforcementInv, NEW x \in Executions, execution[x].phase # "returned",
         NEW r, execution' = [execution EXCEPT ![x] = r],
         UNCHANGED <<changes, registry, activation>>,
         recorded \subseteq recorded', calls \subseteq calls',
         \A c \in calls' : c \in calls \/ (c.execution = x /\ CallOk(c)'),
         ExecutionOk(x)'
  PROVE  EnforcementInv'
<1>1. PointsStay /\ \A y \in Executions : y # x => execution'[y] = execution[y]
  BY ActivationsStay DEF EnforcementInv
<1>2. ASSUME NEW y \in Executions, y # x PROVE CallsOf(y)' = CallsOf(y)
  BY <1>2 DEF CallsOf
<1>3. \A y \in Executions : ExecutionOk(y)'
  BY <1>1, <1>2, ExecutionStable DEF EnforcementInv
<1>4. ASSUME NEW c \in calls' PROVE CallOk(c)'
  <2>1. CASE c \in calls
    <3>1. c.execution \in Executions /\ c.execution # x /\ CallOk(c)
      BY <2>1 DEF EnforcementInv, CallOk
    <3> QED BY <2>1, <3>1, <1>1, <1>2, CallStable
  <2> QED BY <2>1
<1>5. DOMAIN execution' = Executions
  BY DEF EnforcementInv
<1> QED BY <1>3, <1>4, <1>5, ActivationsStay DEF EnforcementInv

LEMMA SubmitPreserves ==
  ASSUME EnforcementInv, NEW x \in Executions, NEW a \in Activators, NEW q, NEW r, NEW e,
         execution[x].phase = "idle", Submit(x, a, q, r, e)
  PROVE  EnforcementInv'
<1> DEFINE refusal == SubmitRefusal(Point(a), q, r, e)
           admitted == [phase |-> "recording", point |-> a, request |-> q, runtime |-> r, effect |-> e,
                        result |-> Nothing]
           rec == Admitted(refusal, admitted)
<1>1. /\ execution' = [execution EXCEPT ![x] = rec] /\ activation[a].phase = "point"
      /\ UNCHANGED <<world, changes, registry, activation, recorded, calls>>
  BY DEF Submit
<1>2. execution'[x] = rec
  BY <1>1 DEF EnforcementInv
<1>3. CallsOf(x)' = {}
  BY <1>1, NoCallsYet DEF CallsOf
<1>4. refusal \in EnforcementCodes \cup {Nothing}
  BY SubmitAnswers
<1>5. ExecutionOk(x)'
  <2>1. CASE refusal = Nothing
    <3>1. AdmittedOk(a, q, r, e)
      BY <1>1, <2>1, SubmitAdmits
    <3> HIDE DEF refusal
    <3>2. execution'[x] = admitted
      BY <1>2, <2>1 DEF Admitted
    <3>3. PointsStay
      BY <1>1 DEF PointsStay
    <3>4. AdmittedOk(a, q, r, e)'
      BY <3>1, <3>3, AdmittedStable
    <3>5. InFlight(x)'
      BY <3>2, <3>4 DEF InFlight
    <3> QED BY <3>2, <3>5 DEF ExecutionOk
  <2>2. CASE refusal # Nothing
    <3> HIDE DEF refusal
    <3>1. execution'[x] = [phase |-> "returned", result |-> Blocked(refusal)]
      BY <1>2, <2>2 DEF Admitted
    <3>2. refusal \in EnforcementCodes
      BY <1>4, <2>2
    <3> QED BY <1>3, <3>1, <3>2 DEF ExecutionOk
  <2> QED BY <2>1, <2>2
<1> HIDE DEF rec
<1> QED BY <1>1, <1>5, ExecutionStep

(* What Move does to an execution in flight. *)
LEMMA MoveForm ==
  ASSUME EnforcementInv, NEW x \in Executions, InFlight(x), NEW phase, NEW result,
         Move(x, phase, result), UNCHANGED <<changes, registry, activation>>
  PROVE  /\ InFlight(x)' /\ Own(x)' = Own(x) /\ Handler(x)' = Handler(x)
         /\ execution'[x].phase = phase /\ execution'[x].result = result
         /\ execution'[x].effect = execution[x].effect
         /\ \E r : execution' = [execution EXCEPT ![x] = r]
<1> DEFINE old == execution[x]
           r == [phase |-> phase, point |-> old.point, request |-> old.request,
                 runtime |-> old.runtime, effect |-> old.effect, result |-> result]
<1>1. execution' = [execution EXCEPT ![x] = r]
  BY DEF Move
<1>2. /\ r.phase = phase /\ r.point = old.point /\ r.request = old.request
      /\ r.runtime = old.runtime /\ r.effect = old.effect /\ r.result = result
      /\ r = [phase |-> r.phase, point |-> r.point, request |-> r.request, runtime |-> r.runtime,
              effect |-> r.effect, result |-> r.result]
  OBVIOUS
<1> HIDE DEF r
<1>3. execution'[x] = r
  BY <1>1 DEF EnforcementInv
<1>4. InFlight(x)'
  <2>1. PICK p, q, u, e : /\ p = execution[x].point /\ q = execution[x].request
                          /\ u = execution[x].runtime /\ e = execution[x].effect
    OBVIOUS
  <2>2. AdmittedOk(p, q, u, e)
    BY <2>1 DEF InFlight
  <2>3. AdmittedOk(p, q, u, e)'
    BY <2>2, AdmittedStable DEF PointsStay
  <2>4. /\ execution'[x].point = p /\ execution'[x].request = q
        /\ execution'[x].runtime = u /\ execution'[x].effect = e
    BY <2>1, <1>2, <1>3
  <2> QED BY <1>2, <1>3, <2>3, <2>4 DEF InFlight
<1>6. Own(x)' = Own(x) /\ Handler(x)' = Handler(x)
  BY <1>2, <1>3 DEF Own, Evidence, Decision, Manifest, Handler, Operation
<1> QED BY <1>1, <1>2, <1>3, <1>4, <1>6

LEMMA RecordPreserves ==
  ASSUME EnforcementInv, NEW x \in Executions, Record(x)
  PROVE  EnforcementInv'
<1>1. PICK gate \in GateAnswers(x) :
        /\ recorded' = recorded \cup gate.records
        /\ IF gate.answer = Nothing THEN Return(x, Blocked("PEP-EVIDENCE-UNAVAILABLE"))
           ELSE IF ~Matches(x, gate.answer) THEN Return(x, Blocked("PEP-EVIDENCE-MISMATCH"))
           ELSE Move(x, "looking", Nothing)
  BY DEF Record
<1>2. /\ execution[x].phase = "recording" /\ InFlight(x)
      /\ UNCHANGED <<world, changes, registry, activation, calls>>
  BY DEF Record, EnforcementInv, ExecutionOk
<1>3. CallsOf(x)' = {}
  BY <1>2, NoCallsYet DEF CallsOf
<1>4. recorded \subseteq recorded'
  BY <1>1
<1>5. ASSUME NEW code \in Refused, Return(x, Blocked(code)) PROVE EnforcementInv'
  <2>1. /\ execution'[x].phase = "returned" /\ execution'[x].result = Blocked(code)
        /\ \E r : execution' = [execution EXCEPT ![x] = r]
    BY <1>2, <1>5, MoveForm DEF Return
  <2>2. ExecutionOk(x)'
    BY <1>3, <2>1 DEF ExecutionOk, Refused
  <2> QED BY <1>2, <1>4, <2>1, <2>2, ExecutionStep
<1>6. ASSUME gate.answer # Nothing, Matches(x, gate.answer), Move(x, "looking", Nothing)
      PROVE  EnforcementInv'
  <2>1. /\ InFlight(x)' /\ Own(x)' = Own(x) /\ execution'[x].phase = "looking"
        /\ \E r : execution' = [execution EXCEPT ![x] = r]
    BY <1>2, <1>6, MoveForm
  (* An answer that matches is that of a gate that recorded this evidence. *)
  <2>2. Own(x) \in recorded'
    <3>1. gate.answer.body = Own(x)
      BY <1>6 DEF Matches, Own
    <3>2. GateAnswers(x) =
            {[records |-> {Own(x)}, answer |-> Sealed(Own(x))],
             [records |-> {Own(x)}, answer |-> [Sealed(Own(x)) EXCEPT !.body.manifest = Nothing]],
             [records |-> {Own(x)}, answer |-> Nothing],
             [records |-> {}, answer |-> Nothing]}
            \cup {[records |-> {}, answer |-> Sealed(other)] : other \in recorded \ {Own(x)}}
      BY DEF GateAnswers, Own
    <3>3. Own(x) \in gate.records \/ gate.answer = Nothing
            \/ \E other \in recorded \ {Own(x)} : gate.answer = Sealed(other)
      <4> DEFINE own == Own(x)
                 altered == [Sealed(own) EXCEPT !.body.manifest = Nothing]
      <4> HIDE DEF own, altered
      <4>1. gate \in {[records |-> {own}, answer |-> Sealed(own)],
             [records |-> {own}, answer |-> altered],
             [records |-> {own}, answer |-> Nothing],
             [records |-> {}, answer |-> Nothing]}
            \cup {[records |-> {}, answer |-> Sealed(other)] : other \in recorded \ {own}}
        BY <3>2 DEF own, altered
      <4> QED BY <4>1 DEF own
    <3>4. ASSUME NEW other \in recorded, gate.answer = Sealed(other) PROVE Own(x) \in recorded
      <4>1. gate.answer.body = other
        BY <3>4 DEF Sealed
      <4> QED BY <3>1, <4>1
    <3>5. Own(x) \in gate.records \/ Own(x) \in recorded
      BY <1>6, <3>3, <3>4
    <3> QED BY <1>1, <3>5
  <2>3. ExecutionOk(x)'
    BY <2>1, <2>2 DEF ExecutionOk
  <2> QED BY <1>2, <1>4, <2>1, <2>3, ExecutionStep
<1> QED BY <1>1, <1>5, <1>6 DEF Refused

LEMMA LookUpPreserves ==
  ASSUME EnforcementInv, NEW x \in Executions, LookUp(x)
  PROVE  EnforcementInv'
<1>1. /\ execution[x].phase = "looking" /\ InFlight(x) /\ Own(x) \in recorded
      /\ UNCHANGED <<world, changes, registry, activation, recorded, calls>>
  BY DEF LookUp, EnforcementInv, ExecutionOk
<1>2. CallsOf(x)' = {}
  BY <1>1, NoCallsYet DEF CallsOf
<1>3. CASE Return(x, Blocked("PEP-ADAPTER-MISMATCH"))
  <2>1. /\ execution'[x].phase = "returned" /\ execution'[x].result = Blocked("PEP-ADAPTER-MISMATCH")
        /\ \E r : execution' = [execution EXCEPT ![x] = r]
    BY <1>1, <1>3, MoveForm DEF Return
  <2>2. ExecutionOk(x)'
    BY <1>2, <2>1 DEF ExecutionOk, EnforcementCodes
  <2> QED BY <1>1, <2>1, <2>2, ExecutionStep
<1>4. CASE Move(x, "calling", Nothing)
  <2>1. /\ InFlight(x)' /\ Own(x)' = Own(x) /\ execution'[x].phase = "calling"
        /\ \E r : execution' = [execution EXCEPT ![x] = r]
    BY <1>1, <1>4, MoveForm
  <2>2. ExecutionOk(x)'
    BY <1>1, <2>1 DEF ExecutionOk
  <2> QED BY <1>1, <2>1, <2>2, ExecutionStep
<1> QED BY <1>3, <1>4 DEF LookUp

LEMMA CallSinkPreserves ==
  ASSUME EnforcementInv, NEW x \in Executions, NEW ending \in Endings, CallSink(x, ending)
  PROVE  EnforcementInv'
<1> DEFINE call == [execution |-> x, code |-> Code(Handler(x)),
                    arguments |-> Effects[execution[x].effect].arguments, ending |-> ending]
<1>1. /\ execution[x].phase = "calling" /\ InFlight(x) /\ Own(x) \in recorded
      /\ UNCHANGED <<world, changes, registry, activation, recorded>>
      /\ Move(x, "returned", SinkResult(ending))
  BY DEF CallSink, Return, EnforcementInv, ExecutionOk
<1>2. PICK c : c = call /\ calls' = calls \cup {c}
  BY DEF CallSink
<1>3. /\ c.execution = x /\ c.code = Code(Handler(x)) /\ c.ending = ending
      /\ c.arguments = Effects[execution[x].effect].arguments
  BY <1>2
<1> HIDE DEF call
<1>4. CallsOf(x)' = {c}
  <2>1. CallsOf(x) = {}
    BY <1>1, NoCallsYet
  <2> QED BY <1>2, <1>3, <2>1 DEF CallsOf
<1>5. /\ InFlight(x)' /\ Own(x)' = Own(x) /\ Handler(x)' = Handler(x)
      /\ execution'[x].phase = "returned" /\ execution'[x].result = SinkResult(ending)
      /\ execution'[x].effect = execution[x].effect
      /\ \E r : execution' = [execution EXCEPT ![x] = r]
  BY <1>1, MoveForm
<1>6. Code(Handler(x))' = Code(Handler(x))
  BY <1>5 DEF Code
<1>7. CallOk(c)'
  BY <1>1, <1>3, <1>4, <1>5, <1>6 DEF CallOk
<1>8. ExecutionOk(x)'
  BY <1>2, <1>3, <1>5 DEF ExecutionOk
<1>9. PICK r : execution' = [execution EXCEPT ![x] = r]
  BY <1>5
<1>10. /\ calls \subseteq calls' /\ recorded \subseteq recorded'
       /\ \A d \in calls' : d \in calls \/ (d.execution = x /\ CallOk(d)')
  BY <1>1, <1>2, <1>3, <1>7
<1> QED BY <1>1, <1>8, <1>9, <1>10, ExecutionStep

(* A handler stays what it was frozen as, from registration to call        *)
(* (policy_enforcement.py: register, activate, execute).                   *)
THEOREM EnforcementInvariant == Spec => []EnforcementInv
<1>1. Init => EnforcementInv
  <2> SUFFICES ASSUME Init PROVE EnforcementInv
    OBVIOUS
  <2>1. RegistryOk
    BY DEF Init, RegistryOk
  <2>2. DOMAIN activation = Activators /\ \A a \in Activators : ActivationOk(a)
    BY DEF Init, ActivationOk, ActivationForm
  <2>3. DOMAIN execution = Executions /\ \A x \in Executions : ExecutionOk(x)
    BY DEF Init, ExecutionOk
  <2> QED BY <2>1, <2>2, <2>3, MaxChangesAssumption DEF Init, EnforcementInv
<1>2. EnforcementInv /\ [Next]_vars => EnforcementInv'
  <2> SUFFICES ASSUME EnforcementInv, [Next]_vars PROVE EnforcementInv'
    OBVIOUS
  <2>1. ASSUME NEW a \in Activators, activation[a].phase = "idle",
               NEW c \in DOMAIN Candidates, NEW p \in DOMAIN Policies, BeginActivation(a, c, p)
        PROVE  EnforcementInv'
    BY <2>1, BeginPreserves
  <2>2. ASSUME NEW a \in Activators, activation[a].phase = "adapter", NEW p \in DOMAIN Policies,
               NEW bundles \in SUBSET {b.bundle : b \in ActivatedBundles}, BuildPoint(a, p, bundles)
        PROVE  EnforcementInv'
    BY <2>2, BuildPointPreserves
  <2>3. ASSUME NEW x \in Executions, execution[x].phase = "idle",
               NEW a \in Activators, NEW s \in Submissions, Submit(x, a, s[1], s[2], s[3])
        PROVE  EnforcementInv'
    BY <2>3, SubmitPreserves
  <2>4. CASE UNCHANGED vars
    <3>1. PointsStay /\ \A a \in Activators : ActivationOk(a)'
      BY <2>4, ActivationsStay DEF vars
    <3> QED BY <2>4, <3>1, ExecutionsStay DEF vars, EnforcementInv, RegistryOk
  <2> QED BY <2>1, <2>2, <2>3, <2>4, ChangePreserves, RegisterPreserves, VerifiedPreserves,
             NotVerifiedPreserves, RecordPreserves, LookUpPreserves, CallSinkPreserves DEF Next
<1> QED BY <1>1, <1>2, PTL DEF Spec

-----------------------------------------------------------------------------
(* What the invariant says.                                                *)

(* What ran is the signed handler of the operation. *)
LEMMA CallsAreSigned ==
  ASSUME EnforcementInv, NEW c \in calls
  PROVE  LET x == execution[c.execution] IN
         /\ AdmittedOk(x.point, x.request, x.runtime, x.effect)
         /\ ActivationOk(x.point) /\ activation[x.point].phase = "point"
         /\ Digest("handler", c.code) = Manifest(x.point).operations[Requests[x.request].operation.id].handler
<1> DEFINE x == execution[c.execution]
           id == Requests[x.request].operation.id
<1>1. CallOk(c)
  BY DEF EnforcementInv
<1>2. AdmittedOk(x.point, x.request, x.runtime, x.effect)
  BY <1>1 DEF CallOk, InFlight
<1>3. ActivationOk(x.point) /\ activation[x.point].phase = "point" /\ id \in DOMAIN Manifest(x.point).operations
  BY <1>2 DEF AdmittedOk, EnforcementInv
<1>4. c.code = activation[x.point].handlers[id].code
  BY <1>1 DEF CallOk, Code, Handler, Operation
<1>5. Digest("handler", c.code) = Manifest(x.point).operations[id].handler
  BY <1>3, <1>4 DEF ActivationOk, HandlersOk, EntryOk
<1> QED BY <1>2, <1>3, <1>5

(* No call ever reaches code, a registration or a bundle that nobody       *)
(* signed: what runs is the clone taken when the handler was registered,   *)
(* with the digest the verified manifest names, whatever its author        *)
(* redefined since.                                                        *)
THEOREM SignedCodeOnly == Spec => []OnlySignedRuns
<1>1. EnforcementInv => OnlySignedRuns
  <2> SUFFICES ASSUME EnforcementInv PROVE OnlySignedRuns
    OBVIOUS
  <2>1. SignedCodeRuns
    BY CallsAreSigned DEF SignedCodeRuns, ActivationOk, AdmittedOk
  <2>2. AdaptersAreTheirManifests
    BY DEF AdaptersAreTheirManifests, Adapters, EnforcementInv, ActivationOk, HandlersOk, EntryOk
  <2>3. ExecutesAreBundled
    <3> SUFFICES ASSUME NEW c \in calls, Operation(c.execution).capability = "execute"
                 PROVE  \E b \in BundleCandidates :
                          /\ BundleDigest(b.manifest) = Operation(c.execution).bundle
                          /\ b.valid /\ b.manifest.publisher = b.signer
                          /\ b.manifest.adapter = ManifestDigest(Manifest(execution[c.execution].point))
                          /\ b.manifest.evidence = BundleEvidence(b.input)
                          /\ b.manifest.evidence = Requests[execution[c.execution].request].envelope.bundle
      BY DEF ExecutesAreBundled
    <3> DEFINE x == execution[c.execution]
    <3>1. /\ AdmittedOk(x.point, x.request, x.runtime, x.effect)
          /\ ActivationOk(x.point) /\ activation[x.point].phase = "point"
      BY CallsAreSigned
    <3>2. Requests[x.request].operation = Operation(c.execution)
      BY DEF Operation
    <3>3. PICK b \in activation[x.point].bundles :
             b.digest = Operation(c.execution).bundle /\ Requests[x.request].envelope.bundle = b.evidence
      BY <3>1, <3>2 DEF AdmittedOk
    <3>4. BundleOk(b, Manifest(x.point))
      BY <3>1, <3>3 DEF ActivationOk
    <3> QED BY <3>3, <3>4 DEF BundleOk
  <2> QED BY <2>1, <2>2, <2>3 DEF OnlySignedRuns
<1> QED BY <1>1, EnforcementInvariant, PTL

(* No effect without its own evidence: whatever ran was allowed for this   *)
(* request, with these arguments, and was on record before the handler was *)
(* looked up, whatever the gate answered to others.                        *)
THEOREM RecordedBeforeRun == Spec => []EffectsAreRecorded
<1>1. EnforcementInv => EffectsAreRecorded
  <2> SUFFICES ASSUME EnforcementInv, NEW c \in calls
               PROVE  /\ Decision(c.execution).verdict = "allow"
                      /\ Own(c.execution) \in recorded
                      /\ ArgumentsDigest(c.arguments) = Operation(c.execution).arguments
    BY DEF EffectsAreRecorded, Own
  <2>1. CallOk(c)
    BY DEF EnforcementInv
  <2>2. AdmittedOk(execution[c.execution].point, execution[c.execution].request,
                   execution[c.execution].runtime, execution[c.execution].effect)
    BY <2>1 DEF CallOk, InFlight
  <2> QED BY <2>1, <2>2 DEF CallOk, AdmittedOk, Decision, Operation
<1> QED BY <1>1, EnforcementInvariant, PTL

(* A result says blocked exactly when nothing ran, and completed exactly   *)
(* when what ran, once, ended well.                                        *)
THEOREM TruthfulResults == Spec => []ResultsTellTheTruth
<1>1. EnforcementInv => ResultsTellTheTruth
  <2> SUFFICES ASSUME EnforcementInv PROVE ResultsTellTheTruth
    OBVIOUS
  <2>1. ASSUME NEW x \in Executions PROVE CallsOf(x) = {} \/ \E c \in calls : CallsOf(x) = {c}
    BY DEF EnforcementInv, CallOk, CallsOf
  <2>2. ASSUME NEW x \in Executions PROVE Cardinality(CallsOf(x)) <= 1
    <3>1. CASE CallsOf(x) = {}
      BY <3>1, FS_EmptySet
    <3>2. CASE CallsOf(x) # {}
      <4>1. PICK c \in calls : CallsOf(x) = {c}
        BY <2>1, <3>2
      <4> QED BY <4>1, FS_Singleton
    <3> QED BY <3>1, <3>2
  <2>3. TypeOK
    <3>1. \A a \in Activators : activation[a].phase \in {"idle", "verifying", "adapter", "point"}
      BY DEF EnforcementInv, ActivationOk, ActivationForm, ActivationPhases
    <3> QED BY <2>2, <3>1 DEF TypeOK, CallsOf, EnforcementInv, RegistryOk, ExecutionOk, CallOk
  <2>4. ASSUME NEW x \in Executions, execution[x].phase = "returned"
        PROVE  LET ran == CallsOf(x)  result == execution[x].result IN
               /\ result.invoked = (ran # {}) /\ (result.outcome = "blocked") = (ran = {})
               /\ (result.outcome = "completed") = (\E c \in ran : c.ending \in {"nothing", "envelope"})
    <3>1. CASE CallsOf(x) = {}
      <4>1. PICK code : execution[x].result = Blocked(code)
        BY <2>4, <3>1 DEF EnforcementInv, ExecutionOk, CallsOf
      <4>2. execution[x].result.invoked = FALSE /\ execution[x].result.outcome = "blocked"
        BY <4>1 DEF Blocked
      <4>3. ~\E c \in CallsOf(x) : c.ending \in {"nothing", "envelope"}
        BY <3>1
      <4> QED BY <3>1, <4>2, <4>3
    <3>2. ASSUME NEW c \in calls, c.execution = x
          PROVE  LET ran == CallsOf(x)  result == execution[x].result IN
                 /\ result.invoked = (ran # {}) /\ (result.outcome = "blocked") = (ran = {})
                 /\ (result.outcome = "completed") = (\E d \in ran : d.ending \in {"nothing", "envelope"})
      <4>1. CallsOf(x) = {c} /\ execution[x].result = SinkResult(c.ending) /\ c.ending \in Endings
        BY <3>2 DEF EnforcementInv, CallOk
      <4>2. /\ SinkResult(c.ending).invoked = TRUE
            /\ SinkResult(c.ending).outcome # "blocked"
            /\ (SinkResult(c.ending).outcome = "completed") = (c.ending \in {"nothing", "envelope"})
        BY <4>1 DEF SinkResult, Endings, Executed, Indeterminate
      <4> QED BY <4>1, <4>2
    <3> QED BY <3>1, <3>2 DEF CallsOf
  <2> QED BY <2>3, <2>4 DEF ResultsTellTheTruth, CallsOf
<1> QED BY <1>1, EnforcementInvariant, PTL
-----------------------------------------------------------------------------
(* The harness: what a report says of the point it was made of.            *)

(* The codes of execute before the gate, and those before the decision. *)
UndecidedCodes ==
  {"PEP-EFFECT-DIGEST-MISMATCH", "PEP-ADAPTER-MISMATCH", "PEP-BUNDLE-UNAVAILABLE",
   "PEP-BUNDLE-MISMATCH", "PEP-OPERATION-UNKNOWN"}
ExecuteCodes == UndecidedCodes \cup {"PEP-EFFECT-MALFORMED", "PEP-DECISION-BLOCKED"}

LEMMA PartsOfChecked ==
  ASSUME NEW s \in Refusable, NEW t \in Refusable, NEW u \in Refusable, Len(s) = 2, Len(u) = 2
  PROVE  LET w == (s \o t) \o u IN
         /\ w \in Refusable /\ Len(w) = Len(t) + 4 /\ Len(t) \in Nat
         /\ w[1] = s[1] /\ w[2] = s[2]
         /\ \A i \in 1..Len(t) : w[i + 2] = t[i]
         /\ w[Len(t) + 3] = u[1] /\ w[Len(t) + 4] = u[2]
<1> DEFINE v == s \o t
           x == v \o u
<1>0. PICK S : Refusable = Seq(S)
  BY DEF Refusable
<1>1. /\ Len(t) \in Nat /\ Len(s) \in Nat
      /\ s \in Seq(S) /\ t \in Seq(S) /\ u \in Seq(S)
  BY <1>0
<1>2. v \in Seq(S) /\ Len(v) = Len(s) + Len(t) /\ Len(t) \in Nat /\ Len(s) \in Nat
  BY <1>1, ConcatProperties
<1>3. v \in Seq(S) /\ Len(v) = 2 + Len(t) /\ Len(t) \in Nat
  BY <1>2
<1>4. \A i \in 1..(Len(s) + Len(t)) : v[i] = IF i <= Len(s) THEN s[i] ELSE t[i - Len(s)]
  BY <1>1, ConcatProperties
<1> HIDE DEF v
<1>5. x \in Seq(S) /\ Len(x) = Len(v) + Len(u)
  BY <1>3, <1>1, ConcatProperties
<1>6. x \in Seq(S) /\ Len(x) = Len(v) + 2
  BY <1>5
<1>7. \A i \in 1..(Len(v) + Len(u)) : x[i] = IF i <= Len(v) THEN v[i] ELSE u[i - Len(v)]
  BY <1>3, <1>1, ConcatProperties
<1> HIDE DEF x
<1>8. \A i \in 1..(2 + Len(t)) : x[i] = v[i]
  BY <1>3, <1>7
<1>9. x[1] = s[1] /\ x[2] = s[2]
  BY <1>3, <1>4, <1>8
<1>10. ASSUME NEW i \in 1..Len(t) PROVE x[i + 2] = t[i]
  <2>1. i + 2 \in 1..(2 + Len(t)) /\ ~(i + 2 <= 2) /\ (i + 2) - 2 = i
    BY <1>3
  <2> QED BY <1>4, <1>8, <2>1
<1>11. x[Len(t) + 3] = u[1] /\ x[Len(t) + 4] = u[2]
  <2>1. /\ Len(t) + 3 \in 1..(Len(v) + Len(u)) /\ ~(Len(t) + 3 <= Len(v)) /\ (Len(t) + 3) - Len(v) = 1
        /\ Len(t) + 4 \in 1..(Len(v) + Len(u)) /\ ~(Len(t) + 4 <= Len(v)) /\ (Len(t) + 4) - Len(v) = 2
    BY <1>3
  <2> QED BY <1>7, <2>1
<1> QED BY <1>3, <1>0, <1>6, <1>9, <1>10, <1>11 DEF v, x

(* The decision is the last check, and the only one that asks it. *)
LEMMA CheckedAre ==
  ASSUME NEW point, NEW request, NEW effect, NEW allowed \in BOOLEAN
  PROVE  LET w == Checked(point, request, effect, allowed)
             n == Len(BundleChecks(point.bundles, request)) + 4 IN
         /\ w \in Refusable /\ Len(w) = n /\ n \in Nat /\ n >= 4
         /\ w[1][1] = (effect.digest # request.operation.arguments)
         /\ w[1][2] = "PEP-EFFECT-DIGEST-MISMATCH"
         /\ w[n][1] = ~allowed /\ w[n][2] = "PEP-DECISION-BLOCKED"
         /\ \A i \in 1..(n - 1) :
              /\ w[i][2] \in UndecidedCodes
              /\ \A other \in BOOLEAN : w[i] = Checked(point, request, effect, other)[i]
<1> DEFINE p1 == effect.digest # request.operation.arguments
           p2 == request.operation.adapter # ManifestDigest(point.manifest)
           p3 == \/ request.operation.id \notin DOMAIN point.manifest.operations
                 \/ point.manifest.operations[request.operation.id].capability # request.operation.capability
           s  == <<<<p1, "PEP-EFFECT-DIGEST-MISMATCH">>, <<p2, "PEP-ADAPTER-MISMATCH">>>>
           t  == BundleChecks(point.bundles, request)
           n == Len(t) + 4
<1>1. p1 \in BOOLEAN /\ p2 \in BOOLEAN /\ p3 \in BOOLEAN
  OBVIOUS
<1>2. t \in Refusable /\ \A i \in 1..Len(t) : t[i][2] \in UndecidedCodes
  <2> DEFINE b1 == Named(point.bundles, request.operation.bundle) = {}
             b2 == \E b \in Named(point.bundles, request.operation.bundle) : ~Carries(request, b)
  <2>1. t = IF request.operation.capability # "execute" THEN <<>>
            ELSE <<<<b1, "PEP-BUNDLE-UNAVAILABLE">>, <<b2, "PEP-BUNDLE-MISMATCH">>>>
    BY DEF BundleChecks
  <2> HIDE DEF b1, b2
  <2>2. t \in Refusable
    BY BundleChecksAreChecks
  <2> HIDE DEF t
  <2>3. CASE t = <<>>
    BY <2>2, <2>3
  <2>4. CASE t = <<<<b1, "PEP-BUNDLE-UNAVAILABLE">>, <<b2, "PEP-BUNDLE-MISMATCH">>>>
    <3>1. Len(t) = 2 /\ t[1][2] = "PEP-BUNDLE-UNAVAILABLE" /\ t[2][2] = "PEP-BUNDLE-MISMATCH"
      BY <2>4
    <3> QED BY <2>2, <3>1 DEF UndecidedCodes
  <2> QED BY <2>1, <2>3, <2>4
<1>3. s \in Refusable /\ Len(s) = 2 /\ s[1][1] = p1 /\ s[1][2] = "PEP-EFFECT-DIGEST-MISMATCH"
      /\ s[2][2] = "PEP-ADAPTER-MISMATCH"
  <2> HIDE DEF p1, p2
  <2> QED BY <1>1, TwoChecks DEF EnforcementCodes
<1>4. ASSUME NEW al \in BOOLEAN
      PROVE  LET w == Checked(point, request, effect, al) IN
             /\ w \in Refusable /\ Len(w) = n /\ Len(t) \in Nat
             /\ w[1] = s[1] /\ w[2] = s[2]
             /\ \A i \in 1..Len(t) : w[i + 2] = t[i]
             /\ w[Len(t) + 3] = <<p3, "PEP-OPERATION-UNKNOWN">>
             /\ w[Len(t) + 4][1] = ~al /\ w[Len(t) + 4][2] = "PEP-DECISION-BLOCKED"
  <2> DEFINE p4 == ~al
             u == <<<<p3, "PEP-OPERATION-UNKNOWN">>, <<p4, "PEP-DECISION-BLOCKED">>>>
             w == Checked(point, request, effect, al)
  <2>1. w = (s \o t) \o u
    BY DEF Checked
  <2>2. p4 \in BOOLEAN
    OBVIOUS
  <2> HIDE DEF p3
  <2>3. p4 = ~al
    OBVIOUS
  <2> HIDE DEF p4
  <2>4. u \in Refusable
    BY <1>1, <2>2, TwoChecks DEF EnforcementCodes
  <2>5. Len(u) = 2 /\ u[1] = <<p3, "PEP-OPERATION-UNKNOWN">> /\ u[2][1] = p4 /\ u[2][2] = "PEP-DECISION-BLOCKED"
    OBVIOUS
  <2> HIDE DEF s, t, u, w
  <2>6. LET x == (s \o t) \o u IN
        /\ x \in Refusable /\ Len(x) = Len(t) + 4 /\ Len(t) \in Nat
        /\ x[1] = s[1] /\ x[2] = s[2]
        /\ \A i \in 1..Len(t) : x[i + 2] = t[i]
        /\ x[Len(t) + 3] = u[1] /\ x[Len(t) + 4] = u[2]
    BY <1>2, <1>3, <2>4, <2>5, PartsOfChecked, Zenon
  <2> QED BY <2>1, <2>3, <2>5, <2>6 DEF w
<1> HIDE DEF p1, p2, p3, s, t
<1> DEFINE w(al) == Checked(point, request, effect, al)
<1>5. \A al \in BOOLEAN :
        /\ w(al) \in Refusable /\ Len(w(al)) = n /\ Len(t) \in Nat
        /\ w(al)[1] = s[1] /\ w(al)[2] = s[2]
        /\ \A i \in 1..Len(t) : w(al)[i + 2] = t[i]
        /\ w(al)[Len(t) + 3] = <<p3, "PEP-OPERATION-UNKNOWN">>
        /\ w(al)[Len(t) + 4][1] = ~al /\ w(al)[Len(t) + 4][2] = "PEP-DECISION-BLOCKED"
  BY <1>4
<1>6. ASSUME NEW i \in 1..(n - 1), NEW other \in BOOLEAN
      PROVE  w(allowed)[i][2] \in UndecidedCodes /\ w(allowed)[i] = w(other)[i]
  <2> HIDE DEF w
  <2>1. i = 1 \/ i = 2 \/ (i - 2 \in 1..Len(t) /\ i = (i - 2) + 2) \/ i = Len(t) + 3
    BY <1>5
  <2>2. CASE i - 2 \in 1..Len(t) /\ i = (i - 2) + 2
    <3>1. w(allowed)[i] = t[i - 2] /\ w(other)[i] = t[i - 2]
      BY <1>5, <2>2
    <3> QED BY <1>2, <2>2, <3>1
  <2>3. CASE i = Len(t) + 3
    <3>1. w(allowed)[i] = <<p3, "PEP-OPERATION-UNKNOWN">> /\ w(other)[i] = <<p3, "PEP-OPERATION-UNKNOWN">>
      BY <1>5, <2>3
    <3> QED BY <3>1 DEF UndecidedCodes
  <2>4. CASE i \in {1, 2}
    <3>1. w(allowed)[i] = s[i] /\ w(other)[i] = s[i]
      BY <1>5, <2>4
    <3> QED BY <1>3, <2>4, <3>1 DEF UndecidedCodes
  <2> QED BY <2>1, <2>2, <2>3, <2>4
<1>7. n \in Nat /\ n >= 4 /\ n = Len(t) + 4
  BY <1>5
<1>8. w(allowed)[1][1] = p1 /\ w(allowed)[1][2] = "PEP-EFFECT-DIGEST-MISMATCH"
  BY <1>3, <1>5
<1>9. /\ w(allowed) \in Refusable /\ Len(w(allowed)) = n
       /\ w(allowed)[n][1] = ~allowed /\ w(allowed)[n][2] = "PEP-DECISION-BLOCKED"
  BY <1>5
<1>10. \A i \in 1..(n - 1) :
         w(allowed)[i][2] \in UndecidedCodes /\ \A other \in BOOLEAN : w(allowed)[i] = w(other)[i]
  <2> HIDE DEF w
  <2>1. FALSE \in BOOLEAN
    OBVIOUS
  <2> QED BY <1>6, <2>1
<1> QED BY <1>7, <1>8, <1>9, <1>10 DEF t, p1

(* Who is refused by the decision or not at all would be refused by a      *)
(* decision that does not allow.                                           *)
LEMMA ReachesDecision ==
  ASSUME NEW point, NEW request, NEW effect, NEW allowed \in BOOLEAN, NEW denied \in BOOLEAN, ~denied,
         FirstRefusal(Checked(point, request, effect, allowed)) \in {Nothing, "PEP-DECISION-BLOCKED"}
  PROVE  /\ effect.digest = request.operation.arguments
         /\ FirstRefusal(Checked(point, request, effect, denied)) = "PEP-DECISION-BLOCKED"
<1> DEFINE v == Checked(point, request, effect, allowed)
           w == Checked(point, request, effect, denied)
           n == Len(BundleChecks(point.bundles, request)) + 4
           p1 == effect.digest # request.operation.arguments
<1>1. /\ v \in Refusable /\ Len(v) = n /\ n \in Nat /\ n >= 4 /\ v[1][1] = p1
      /\ \A i \in 1..(n - 1) : v[i][2] \in UndecidedCodes /\ v[i] = w[i]
  BY CheckedAre
<1>2. w \in Refusable /\ Len(w) = n /\ w[n][1] = ~denied /\ w[n][2] = "PEP-DECISION-BLOCKED"
  BY CheckedAre
<1>3. FirstRefusal(v) \in {Nothing, "PEP-DECISION-BLOCKED"}
  OBVIOUS
<1>4. ~p1 => effect.digest = request.operation.arguments
  OBVIOUS
<1> HIDE DEF v, w, n, p1
<1>5. \A i \in 1..(n - 1) : ~v[i][1]
  <2>1. CASE FirstRefusal(v) = Nothing
    <3>1. \A i \in 1..n : ~v[i][1]
      BY <1>1, <2>1, NothingApplies, NoCodeIsNothing DEF Refusable
    <3> QED BY <1>1, <3>1
  <2>2. CASE FirstRefusal(v) = "PEP-DECISION-BLOCKED"
    <3>1. FirstRefusal(v) # Nothing
      BY <2>2, NoCodeIsNothing DEF EnforcementCodes
    <3>2. PICK i \in 1..n : /\ FirstRefusal(v) = v[i][2]
                            /\ \A j \in 1..(i - 1) : ~v[j][1]
      BY <1>1, <3>1, AnswerIsFirst DEF Refusable
    <3>3. ~(i \in 1..(n - 1))
      BY <1>1, <2>2, <3>2 DEF UndecidedCodes
    <3>4. i = n
      BY <1>1, <3>3
    <3> QED BY <3>2, <3>4
  <2> QED BY <1>3, <2>1, <2>2
<1>6. ~p1
  <2>1. 1 \in 1..(n - 1)
    BY <1>1
  <2> QED BY <1>1, <1>5, <2>1
<1>7. n \in 1..Len(w) /\ w[n][1] /\ \A j \in 1..(n - 1) : ~w[j][1]
  <2>1. n \in 1..Len(w)
    BY <1>1, <1>2
  <2>2. w[n][1]
    BY <1>2
  <2>3. ASSUME NEW j \in 1..(n - 1) PROVE ~w[j][1]
    BY <1>1, <1>5
  <2> QED BY <2>1, <2>2, <2>3
<1>8. FirstRefusal(w) = w[n][2]
  BY <1>2, <1>7, FirstAnswers DEF Refusable
<1> QED BY <1>2, <1>4, <1>6, <1>8 DEF w

(* Arguments that are not the ones of the request are refused first. *)
LEMMA OtherArguments ==
  ASSUME NEW point, NEW request, NEW effect, NEW allowed \in BOOLEAN,
         effect.digest # request.operation.arguments
  PROVE  FirstRefusal(Checked(point, request, effect, allowed)) = "PEP-EFFECT-DIGEST-MISMATCH"
<1> DEFINE w == Checked(point, request, effect, allowed)
           p1 == effect.digest # request.operation.arguments
<1>1. /\ w \in Refusable /\ Len(w) >= 4 /\ Len(w) \in Nat
      /\ w[1][1] = p1 /\ w[1][2] = "PEP-EFFECT-DIGEST-MISMATCH"
  BY CheckedAre
<1>4. p1
  OBVIOUS
<1> HIDE DEF w, p1
<1>2. 1 \in 1..Len(w) /\ w[1][1] /\ w[1][2] = "PEP-EFFECT-DIGEST-MISMATCH" /\ \A j \in 1..(1 - 1) : ~w[j][1]
  BY <1>1, <1>4
<1>3. FirstRefusal(w) = w[1][2]
  BY <1>1, <1>2, FirstAnswers DEF Refusable
<1> QED BY <1>2, <1>3 DEF w

(* What execute refuses with. *)
LEMMA SubmitIs ==
  ASSUME NEW point, NEW q, NEW r, NEW e
  PROVE  /\ ~EffectOk(Effects[e]) => SubmitRefusal(point, q, r, e) = "PEP-EFFECT-MALFORMED"
         /\ EffectOk(Effects[e]) /\ Requests[q].shape # "exact" =>
              SubmitRefusal(point, q, r, e) = "PEP-DECISION-BLOCKED"
         /\ EffectOk(Effects[e]) /\ Requests[q].shape = "exact" =>
              SubmitRefusal(point, q, r, e) =
                FirstRefusal(Checked(point, Requests[q], Effects[e], Answers[point.policy][q][r].verdict = "allow"))
         /\ SubmitRefusal(point, q, r, e) \in ExecuteCodes \cup {Nothing}
<1> DEFINE allowed == Answers[point.policy][q][r].verdict = "allow"
           checks == Checked(point, Requests[q], Effects[e], allowed)
<1>1. allowed \in BOOLEAN
  OBVIOUS
<1>2. SubmitRefusal(point, q, r, e) = RefusalOf(point, Requests[q], Effects[e], allowed)
  BY DEF SubmitRefusal
<1> HIDE DEF allowed
<1>3. RefusalOf(point, Requests[q], Effects[e], allowed) =
        IF ~EffectOk(Effects[e]) THEN "PEP-EFFECT-MALFORMED"
        ELSE IF Requests[q].shape # "exact" THEN "PEP-DECISION-BLOCKED"
        ELSE FirstRefusal(checks)
  BY DEF RefusalOf, Checked
<1>4. FirstRefusal(checks) \in ExecuteCodes \cup {Nothing}
  <2> DEFINE n == Len(checks)
  <2>1. /\ checks \in Refusable /\ n \in Nat /\ checks[n][2] = "PEP-DECISION-BLOCKED"
        /\ \A i \in 1..(n - 1) : checks[i][2] \in UndecidedCodes
    <3>1. /\ checks \in Refusable /\ Len(checks) = Len(BundleChecks(point.bundles, Requests[q])) + 4
          /\ Len(BundleChecks(point.bundles, Requests[q])) + 4 \in Nat
      BY <1>1, CheckedAre
    <3>2. /\ checks[Len(BundleChecks(point.bundles, Requests[q])) + 4][2] = "PEP-DECISION-BLOCKED"
          /\ \A i \in 1..(Len(BundleChecks(point.bundles, Requests[q])) + 4 - 1) : checks[i][2] \in UndecidedCodes
      BY <1>1, CheckedAre
    <3> HIDE DEF checks
    <3> QED BY <3>1, <3>2
  <2> HIDE DEF checks
  <2> SUFFICES ASSUME FirstRefusal(checks) # Nothing PROVE FirstRefusal(checks) \in ExecuteCodes
    OBVIOUS
  <2>2. PICK i \in 1..n : FirstRefusal(checks) = checks[i][2]
    BY <2>1, AnswerIsFirst DEF Refusable
  <2>3. i = n \/ i \in 1..(n - 1)
    BY <2>1
  <2> QED BY <2>1, <2>2, <2>3 DEF ExecuteCodes
<1> HIDE DEF checks
<1> QED BY <1>2, <1>3, <1>4 DEF ExecuteCodes, checks, allowed

(* A runtime nobody activated is denied. *)
LEMMA UnsealedIsDenied ==
  ASSUME NEW p \in DOMAIN Policies, NEW q \in DOMAIN Requests, NEW r \in DOMAIN Runtimes,
         ~Runtimes[r].sealed
  PROVE  (Answers[p][q][r].verdict = "allow") = FALSE
<1> DEFINE request == Requests[q]
           runtime == Runtimes[r]
           c1 == Deny(request.shape = "foreign", "PDP-INPUT-MALFORMED", "reauthenticate")
           c2 == Deny(~runtime.sealed, "PDP-AUTHORITY-UNAVAILABLE", "refresh-authority")
           shape == <<c1, c2>>
           First(i) == shape[i].applies /\ \A j \in 1..(i - 1) : ~shape[j].applies
           first == CHOOSE i \in DOMAIN shape : First(i)
<1>1. c2.applies = TRUE /\ c1.applies \in BOOLEAN /\ c1.answer.verdict = "deny" /\ c2.answer.verdict = "deny"
  BY DEF Deny, Check
<1>2. ShapeChecks(request, runtime) = shape
  BY DEF ShapeChecks
<1> HIDE DEF c1, c2
<1>3. DOMAIN shape = {1, 2} /\ shape[1] = c1 /\ shape[2] = c2
  OBVIOUS
<1>4. Checks(shape, Policies[p], request, runtime) = shape
  <2>1. \E i \in DOMAIN shape : shape[i].applies
    BY <1>1, <1>3
  <2> HIDE DEF shape
  <2> QED BY <2>1 DEF Checks
<1>5. Decide(shape) = shape[first].answer
  BY DEF Decide
<1> HIDE DEF shape
<1>6. \E i \in DOMAIN shape : First(i)
  <2>1. CASE c1.applies
    BY <1>3, <2>1
  <2>2. CASE ~c1.applies
    <3>1. 1..(2 - 1) = {1}
      OBVIOUS
    <3> QED BY <1>1, <1>3, <2>2, <3>1
  <2> QED BY <2>1, <2>2
<1> HIDE DEF First
<1>7. first \in {1, 2}
  BY <1>3, <1>6
<1> HIDE DEF first
<1>8. Decide(shape).verdict = "deny"
  BY <1>1, <1>3, <1>5, <1>7
<1>9. Answers[p][q][r].verdict = Decide(shape).verdict
  <2>1. Answers[p][q][r] = Evaluate(Policies[p], request, runtime)
    BY DEF Answers
  <2> HIDE DEF request, runtime
  <2> QED BY <1>2, <1>4, <2>1 DEF Evaluate, SealedDecision
<1> QED BY <1>8, <1>9

(* One run of the harness, by what it came to. *)
RefusalIn(a, case) == SubmitRefusal(Point(a), case.request, case.runtime, case.effect)
HandlerIn(a, case) == activation[a].handlers[Requests[case.request].operation.id]
StagesIn(a, case) == Stages(Requests[case.request], RefusalIn(a, case))

LEMMA RunIs ==
  ASSUME NEW a, NEW case, NEW gate, NEW ending
  PROVE  LET refusal == RefusalIn(a, case)
             stages == StagesIn(a, case)
             run == Instrumented(a, case, gate, ending) IN
         /\ refusal # Nothing => run = Ended(Blocked(refusal), stages)
         /\ refusal = Nothing =>
              \/ \E code \in {"PEP-EVIDENCE-UNAVAILABLE", "PEP-EVIDENCE-MISMATCH"} :
                   run = Ended(Blocked(code), stages)
              \/ run = Ended(Blocked("PEP-ADAPTER-MISMATCH"), Append(stages, "evidence"))
              \/ /\ gate \notin {"raises", "forges"} /\ ~Drifted(HandlerIn(a, case))
                 /\ run = Ended(SinkResult(ending),
                                stages \o <<"evidence", "sink">>
                                \o (IF ending = "raises" THEN <<>> ELSE <<"output">>))
<1> DEFINE refusal == RefusalIn(a, case)
           stages == StagesIn(a, case)
           drifted == Drifted(HandlerIn(a, case))
<1>1. Instrumented(a, case, gate, ending) = Outcome(refusal, stages, gate, drifted, ending)
  BY DEF Instrumented, After, RefusalIn, StagesIn, HandlerIn
<1>2. drifted <=> Drifted(HandlerIn(a, case))
  OBVIOUS
<1> HIDE DEF refusal, stages, drifted
<1>3. CASE refusal # Nothing
  BY <1>1, <1>3 DEF Outcome, refusal, stages
<1>4. CASE refusal = Nothing
  <2>1. CASE gate = "raises"
    BY <1>1, <1>4, <2>1 DEF Outcome, refusal, stages
  <2>2. CASE gate = "forges"
    BY <1>1, <1>4, <2>2 DEF Outcome, refusal, stages
  <2>3. CASE gate \notin {"raises", "forges"}
    <3>1. CASE drifted
      BY <1>1, <1>4, <2>3, <3>1 DEF Outcome, refusal, stages
    <3>2. CASE ~drifted
      BY <1>1, <1>2, <1>4, <2>3, <3>2 DEF Outcome, refusal, stages
    <3> QED BY <3>1, <3>2
  <2> QED BY <2>1, <2>2, <2>3
<1> QED BY <1>3, <1>4

LEMMA SinkResults ==
  ASSUME NEW ending \in Endings
  PROVE  /\ SinkResult(ending).invoked = TRUE
         /\ SinkResult(ending).code \in {"PEP-EXECUTED", "PEP-SINK-FAILED", "PEP-OUTPUT-INVALID"}
         /\ SinkResult(ending).code = "PEP-EXECUTED" => ending \in {"nothing", "envelope"}
         /\ ending = "raises" => SinkResult(ending).code # "PEP-EXECUTED"
BY DEF Endings, SinkResult, Indeterminate, Executed

(* Who entered the handler met no refusal, a gate that answered and the    *)
(* handler that was signed.                                                *)
LEMMA InvokedMeans ==
  ASSUME NEW a, NEW case, NEW gate, NEW ending \in Endings,
         Instrumented(a, case, gate, ending).result.invoked
  PROVE  /\ gate \notin {"raises", "forges"} /\ ~Drifted(HandlerIn(a, case))
         /\ Instrumented(a, case, gate, ending).result = SinkResult(ending)
<1> DEFINE run == Instrumented(a, case, gate, ending)
<1>1. ASSUME NEW code, NEW stages, run = Ended(Blocked(code), stages) PROVE FALSE
  BY <1>1 DEF Ended, Blocked
<1>2. ASSUME NEW stages, run = Ended(SinkResult(ending), stages) PROVE run.result = SinkResult(ending)
  BY <1>2 DEF Ended
<1>3. run.result.invoked
  OBVIOUS
<1>4. LET refusal == RefusalIn(a, case)
          stages == StagesIn(a, case) IN
      /\ refusal # Nothing => run = Ended(Blocked(refusal), stages)
      /\ refusal = Nothing =>
           \/ \E code \in {"PEP-EVIDENCE-UNAVAILABLE", "PEP-EVIDENCE-MISMATCH"} :
                run = Ended(Blocked(code), stages)
           \/ run = Ended(Blocked("PEP-ADAPTER-MISMATCH"), Append(stages, "evidence"))
           \/ /\ gate \notin {"raises", "forges"} /\ ~Drifted(HandlerIn(a, case))
              /\ run = Ended(SinkResult(ending),
                             stages \o <<"evidence", "sink">>
                             \o (IF ending = "raises" THEN <<>> ELSE <<"output">>))
  BY RunIs
<1> HIDE DEF run
<1> QED BY <1>1, <1>2, <1>4 DEF run

(* What was gone through on the way. *)
StageNames == {"effect", "decision", "request", "adapter", "bundle"}
ResultCodes == ExecuteCodes \cup {"PEP-EVIDENCE-UNAVAILABLE", "PEP-EVIDENCE-MISMATCH", "PEP-EXECUTED",
                                  "PEP-SINK-FAILED", "PEP-OUTPUT-INVALID"}
EventNames == StageNames \cup {"evidence", "sink", "output"} \cup ResultCodes

LEMMA BothOf ==
  ASSUME NEW S, NEW s \in Seq(S), NEW t \in Seq(S)
  PROVE  /\ s \o t \in Seq(S) /\ Len(s \o t) = Len(s) + Len(t) /\ Len(s) \in Nat /\ Len(t) \in Nat
         /\ ToSet(s \o t) = ToSet(s) \cup ToSet(t)
         /\ \A i \in 1..Len(s) : (s \o t)[i] = s[i]
         /\ \A i \in 1..Len(t) : (s \o t)[Len(s) + i] = t[i]
<1> DEFINE v == s \o t
<1>1. Len(s) \in Nat /\ Len(t) \in Nat /\ DOMAIN s = 1..Len(s) /\ DOMAIN t = 1..Len(t)
  OBVIOUS
<1>2. /\ v \in Seq(S) /\ Len(v) = Len(s) + Len(t) /\ DOMAIN v = 1..Len(v)
      /\ \A i \in 1..(Len(s) + Len(t)) : v[i] = IF i <= Len(s) THEN s[i] ELSE t[i - Len(s)]
  <2>1. v \in Seq(S)
    OBVIOUS
  <2> QED BY <2>1, ConcatProperties
<1> HIDE DEF v
<1>3. \A i \in 1..Len(s) : v[i] = s[i] /\ i \in 1..Len(v)
  BY <1>1, <1>2
<1>4. ASSUME NEW i \in 1..Len(t) PROVE v[Len(s) + i] = t[i] /\ Len(s) + i \in 1..Len(v)
  <2>1. Len(s) + i \in 1..(Len(s) + Len(t)) /\ ~(Len(s) + i <= Len(s)) /\ (Len(s) + i) - Len(s) = i
    BY <1>1
  <2> QED BY <1>2, <2>1
<1>5. \A i \in 1..Len(v) : i \in 1..Len(s) \/ (i - Len(s) \in 1..Len(t) /\ i = Len(s) + (i - Len(s)))
  BY <1>1, <1>2
<1>6. ToSet(v) = {v[i] : i \in 1..Len(v)} /\ ToSet(s) = {s[i] : i \in 1..Len(s)}
      /\ ToSet(t) = {t[i] : i \in 1..Len(t)}
  BY <1>1, <1>2 DEF ToSet
<1>7. ASSUME NEW e \in ToSet(v) PROVE e \in ToSet(s) \cup ToSet(t)
  <2>1. PICK i \in 1..Len(v) : e = v[i]
    BY <1>6
  <2>2. CASE i \in 1..Len(s)
    BY <1>3, <1>6, <2>1, <2>2
  <2>3. CASE i - Len(s) \in 1..Len(t) /\ i = Len(s) + (i - Len(s))
    BY <1>4, <1>6, <2>1, <2>3
  <2> QED BY <1>5, <2>2, <2>3
<1>8. ASSUME NEW e \in ToSet(s) \cup ToSet(t) PROVE e \in ToSet(v)
  <2>1. CASE e \in ToSet(s)
    BY <1>3, <1>6, <2>1
  <2>2. CASE e \in ToSet(t)
    <3>1. PICK i \in 1..Len(t) : e = t[i]
      BY <1>6, <2>2
    <3>2. v[Len(s) + i] = e /\ Len(s) + i \in 1..Len(v)
      BY <1>4, <3>1
    <3> QED BY <1>6, <3>2
  <2> QED BY <2>1, <2>2
<1> QED BY <1>1, <1>2, <1>3, <1>4, <1>7, <1>8 DEF v

LEMMA WithOneMore ==
  ASSUME NEW S, NEW s \in Seq(S), NEW e \in S
  PROVE  /\ Append(s, e) \in Seq(S) /\ Len(Append(s, e)) = Len(s) + 1 /\ Len(s) \in Nat
         /\ Append(s, e)[Len(Append(s, e))] = e
         /\ \A i \in 1..Len(s) : Append(s, e)[i] = s[i]
         /\ ToSet(Append(s, e)) = ToSet(s) \cup {e}
<1> DEFINE v == Append(s, e)
<1>1. Len(s) \in Nat /\ DOMAIN s = 1..Len(s)
  OBVIOUS
<1>2. v \in Seq(S) /\ Len(v) = Len(s) + 1 /\ DOMAIN v = 1..Len(v)
      /\ v[Len(s) + 1] = e /\ \A i \in 1..Len(s) : v[i] = s[i]
  OBVIOUS
<1> HIDE DEF v
<1>3. ToSet(v) = {v[i] : i \in 1..Len(v)} /\ ToSet(s) = {s[i] : i \in 1..Len(s)}
  BY <1>1, <1>2 DEF ToSet
<1>4. 1..Len(v) = 1..Len(s) \cup {Len(s) + 1}
  BY <1>1, <1>2
<1>5. ToSet(v) = ToSet(s) \cup {e}
  BY <1>2, <1>3, <1>4
<1> QED BY <1>1, <1>2, <1>5 DEF v

LEMMA None ==
  ASSUME NEW S
  PROVE  <<>> \in Seq(S) /\ ToSet(<<>>) = {}
<1>1. DOMAIN <<>> = {}
  OBVIOUS
<1> QED BY <1>1 DEF ToSet

LEMMA Single ==
  ASSUME NEW S, NEW a \in S
  PROVE  <<a>> \in Seq(S) /\ ToSet(<<a>>) = {a} /\ Len(<<a>>) = 1 /\ <<a>>[1] = a
<1> DEFINE s == <<a>>
<1>1. s \in Seq(S) /\ Len(s) = 1 /\ DOMAIN s = {1} /\ s[1] = a
  OBVIOUS
<1> HIDE DEF s
<1>2. ToSet(s) = {a}
  BY <1>1 DEF ToSet
<1> QED BY <1>1, <1>2 DEF s

LEMMA Couple ==
  ASSUME NEW S, NEW a \in S, NEW b \in S
  PROVE  <<a, b>> \in Seq(S) /\ ToSet(<<a, b>>) = {a, b} /\ Len(<<a, b>>) = 2
         /\ <<a, b>>[1] = a /\ <<a, b>>[2] = b
<1> DEFINE s == <<a, b>>
<1>1. s \in Seq(S) /\ Len(s) = 2 /\ DOMAIN s = {1, 2} /\ s[1] = a /\ s[2] = b
  OBVIOUS
<1> HIDE DEF s
<1>2. ToSet(s) = {a, b}
  BY <1>1 DEF ToSet
<1> QED BY <1>1, <1>2 DEF s

LEMMA Triple ==
  ASSUME NEW S, NEW a \in S, NEW b \in S, NEW c \in S
  PROVE  <<a, b, c>> \in Seq(S) /\ ToSet(<<a, b, c>>) = {a, b, c}
<1> DEFINE s == <<a, b, c>>
<1>1. s \in Seq(S) /\ DOMAIN s = {1, 2, 3} /\ s[1] = a /\ s[2] = b /\ s[3] = c
  OBVIOUS
<1> HIDE DEF s
<1>2. ToSet(s) = {a, b, c}
  BY <1>1 DEF ToSet
<1> QED BY <1>1, <1>2 DEF s

LEMMA StagesAre ==
  ASSUME NEW request, NEW refusal \in ExecuteCodes \cup {Nothing}
  PROVE  LET stages == Stages(request, refusal) IN
         /\ stages \in Seq(EventNames) /\ ToSet(stages) \subseteq StageNames
         /\ request.shape = "exact" /\ refusal = Nothing =>
              Len(stages) \in Nat /\ Len(stages) > 0 /\ stages[Len(stages)] = "decision"
         /\ request.shape = "exact" /\ "decision" \in ToSet(stages) =>
              refusal \in {Nothing, "PEP-DECISION-BLOCKED"}
<1> DEFINE stages == Stages(request, refusal)
           early   == {"PEP-EFFECT-DIGEST-MISMATCH", "PEP-ADAPTER-MISMATCH"}
           unfound == {"PEP-BUNDLE-UNAVAILABLE", "PEP-BUNDLE-MISMATCH"}
           bundled == request.operation.capability = "execute" /\ refusal \notin unfound
           undecided == unfound \cup {"PEP-OPERATION-UNKNOWN"}
           x == <<"effect", "request", "adapter">>
           b == IF bundled THEN <<"bundle">> ELSE <<>>
           d == IF refusal \in undecided THEN <<>> ELSE <<"decision">>
           full == (x \o b) \o d
<1>0. {"effect", "decision", "request", "adapter", "bundle"} \subseteq EventNames
  BY DEF EventNames, StageNames
<1>1. stages = IF refusal = "PEP-EFFECT-MALFORMED" THEN <<>>
               ELSE IF request.shape # "exact" THEN <<"effect", "decision">>
               ELSE IF refusal \in early THEN <<"effect", "request">>
               ELSE full
  BY DEF Stages
<1>2. /\ <<>> \in Seq(EventNames) /\ ToSet(<<>>) = {}
      /\ <<"bundle">> \in Seq(EventNames) /\ ToSet(<<"bundle">>) = {"bundle"}
      /\ <<"decision">> \in Seq(EventNames) /\ ToSet(<<"decision">>) = {"decision"}
      /\ Len(<<"decision">>) = 1 /\ <<"decision">>[1] = "decision"
  BY <1>0, None, Single
<1>3. /\ <<"effect", "decision">> \in Seq(EventNames) /\ ToSet(<<"effect", "decision">>) = {"effect", "decision"}
      /\ <<"effect", "request">> \in Seq(EventNames) /\ ToSet(<<"effect", "request">>) = {"effect", "request"}
  BY <1>0, Couple
<1>4. x \in Seq(EventNames) /\ ToSet(x) = {"effect", "request", "adapter"}
  BY <1>0, Triple
<1>5. b \in {<<>>, <<"bundle">>}
  OBVIOUS
<1>6. \/ refusal \in undecided /\ d = <<>>
      \/ refusal \notin undecided /\ d = <<"decision">>
  OBVIOUS
<1>7. Nothing \notin early /\ Nothing \notin undecided /\ Nothing # "PEP-EFFECT-MALFORMED"
  BY NoCodeIsNothing DEF EnforcementCodes
<1>8. refusal \in early \cup undecided \cup {"PEP-EFFECT-MALFORMED", "PEP-DECISION-BLOCKED", Nothing}
  BY DEF ExecuteCodes, UndecidedCodes
<1> HIDE DEF x, b, d, undecided, early
<1>9. b \in Seq(EventNames) /\ ToSet(b) \subseteq {"bundle"}
  BY <1>2, <1>5
<1>10. x \o b \in Seq(EventNames) /\ ToSet(x \o b) = ToSet(x) \cup ToSet(b) /\ Len(x \o b) \in Nat
  BY <1>4, <1>9, BothOf
<1>11. d \in Seq(EventNames) /\ ToSet(d) \subseteq {"decision"}
       /\ (refusal \in undecided => ToSet(d) = {})
       /\ (refusal \notin undecided => Len(d) = 1 /\ d[1] = "decision")
  BY <1>2, <1>6
<1>12. /\ full \in Seq(EventNames) /\ ToSet(full) = ToSet(x \o b) \cup ToSet(d)
       /\ Len(full) = Len(x \o b) + Len(d)
       /\ \A i \in 1..Len(d) : full[Len(x \o b) + i] = d[i]
  <2> DEFINE y == x \o b
  <2> HIDE DEF y
  <2>1. y \in Seq(EventNames)
    BY <1>10 DEF y
  <2>2. y \o d \in Seq(EventNames) /\ ToSet(y \o d) = ToSet(y) \cup ToSet(d) /\ Len(y \o d) = Len(y) + Len(d)
        /\ \A i \in 1..Len(d) : (y \o d)[Len(y) + i] = d[i]
    BY <1>11, <2>1, BothOf
  <2> QED BY <2>2 DEF y
<1> HIDE DEF full, stages
<1>13. ToSet(full) \subseteq StageNames
       /\ (refusal \in undecided => "decision" \notin ToSet(full))
  BY <1>4, <1>9, <1>10, <1>11, <1>12 DEF StageNames
<1>14. refusal = Nothing => Len(full) \in Nat /\ Len(full) > 0 /\ full[Len(full)] = "decision"
  <2> SUFFICES ASSUME refusal = Nothing
               PROVE  Len(full) \in Nat /\ Len(full) > 0 /\ full[Len(full)] = "decision"
    OBVIOUS
  <2>1. Len(d) = 1 /\ d[1] = "decision" /\ 1 \in 1..Len(d)
    BY <1>7, <1>11
  <2> QED BY <1>10, <1>12, <2>1
<1>15. stages \in Seq(EventNames) /\ ToSet(stages) \subseteq StageNames
  <2>1. CASE stages = <<>>
    BY <1>2, <2>1
  <2>2. CASE stages = <<"effect", "decision">> \/ stages = <<"effect", "request">>
    BY <1>3, <2>2 DEF StageNames
  <2>3. CASE stages = full
    BY <1>12, <1>13, <2>3
  <2> QED BY <1>1, <2>1, <2>2, <2>3
<1>16. ASSUME request.shape = "exact", "decision" \in ToSet(stages)
       PROVE  refusal \in {Nothing, "PEP-DECISION-BLOCKED"}
  <2>1. refusal # "PEP-EFFECT-MALFORMED"
    BY <1>1, <1>2, <1>16
  <2>2. refusal \notin early
    <3> SUFFICES ASSUME refusal \in early PROVE FALSE
      OBVIOUS
    <3>1. stages = <<"effect", "request">>
      BY <1>1, <1>16, <2>1
    <3>2. ToSet(stages) = {"effect", "request"}
      BY <1>3, <3>1
    <3> QED BY <1>16, <3>2
  <2>3. refusal \notin undecided
    <3>1. stages = full
      BY <1>1, <1>16, <2>1, <2>2
    <3> QED BY <1>13, <1>16, <3>1
  <2> QED BY <1>8, <2>1, <2>2, <2>3
<1>17. request.shape = "exact" /\ refusal = Nothing => stages = full
  BY <1>1, <1>7
<1> QED BY <1>14, <1>15, <1>16, <1>17 DEF stages

LEMMA RefusalsAre ==
  ASSUME NEW a, NEW case
  PROVE  /\ RefusalIn(a, case) \in ExecuteCodes \cup {Nothing}
         /\ RefusalIn(a, case) = Nothing => Requests[case.request].shape = "exact"
<1> DEFINE refusal == RefusalIn(a, case)
           request == Requests[case.request]
           effect == Effects[case.effect]
<1>1. /\ ~EffectOk(effect) => refusal = "PEP-EFFECT-MALFORMED"
      /\ EffectOk(effect) /\ request.shape # "exact" => refusal = "PEP-DECISION-BLOCKED"
      /\ refusal \in ExecuteCodes \cup {Nothing}
  BY SubmitIs DEF RefusalIn
<1>2. Nothing # "PEP-EFFECT-MALFORMED" /\ Nothing # "PEP-DECISION-BLOCKED"
  BY NoCodeIsNothing DEF EnforcementCodes
<1> HIDE DEF refusal, request
<1> QED BY <1>1, <1>2 DEF refusal, request

(* The stages of a case, whatever refused it. *)
LEMMA StagesInAre ==
  ASSUME NEW a, NEW case
  PROVE  LET stages == StagesIn(a, case) IN
         /\ stages \in Seq(EventNames) /\ ToSet(stages) \subseteq StageNames
         /\ RefusalIn(a, case) = Nothing =>
              Len(stages) \in Nat /\ Len(stages) > 0 /\ stages[Len(stages)] = "decision"
         /\ Requests[case.request].shape = "exact" /\ "decision" \in ToSet(stages) =>
              RefusalIn(a, case) \in {Nothing, "PEP-DECISION-BLOCKED"}
<1> DEFINE refusal == RefusalIn(a, case)
           request == Requests[case.request]
<1>1. refusal \in ExecuteCodes \cup {Nothing} /\ (refusal = Nothing => request.shape = "exact")
  BY RefusalsAre
<1>2. StagesIn(a, case) = Stages(request, refusal)
  BY DEF StagesIn
<1> HIDE DEF refusal, request
<1>3. LET stages == Stages(request, refusal) IN
      /\ stages \in Seq(EventNames) /\ ToSet(stages) \subseteq StageNames
      /\ request.shape = "exact" /\ refusal = Nothing =>
           Len(stages) \in Nat /\ Len(stages) > 0 /\ stages[Len(stages)] = "decision"
      /\ request.shape = "exact" /\ "decision" \in ToSet(stages) =>
           refusal \in {Nothing, "PEP-DECISION-BLOCKED"}
  BY <1>1, StagesAre
<1> QED BY <1>1, <1>2, <1>3 DEF refusal, request

(* A run that came to a result before the handler. *)
LEMMA BlockedIsInstrumented ==
  ASSUME NEW stages \in Seq(EventNames), "sink" \notin ToSet(stages), NEW code \in ResultCodes
  PROVE  /\ Instruments(Ended(Blocked(code), stages))
         /\ ToSet(Ended(Blocked(code), stages).events) = ToSet(stages) \cup {code}
<1> DEFINE run == Ended(Blocked(code), stages)
<1>1. run.events = Append(stages, code) /\ run.result.code = code /\ run.result.invoked = FALSE
  BY DEF Ended, Blocked
<1>2. code \in EventNames /\ code # "sink"
  BY DEF EventNames, ResultCodes, ExecuteCodes, UndecidedCodes
<1>3. LET v == Append(stages, code) IN v[Len(v)] = code /\ ToSet(v) = ToSet(stages) \cup {code}
  BY <1>2, WithOneMore
<1> HIDE DEF run
<1> QED BY <1>1, <1>2, <1>3 DEF Instruments, run

(* A run that entered the handler: the decision, the evidence and the call *)
(* in this order, then the output if there is any, then the result.        *)
LEMMA SinkIsInstrumented ==
  ASSUME NEW stages \in Seq(EventNames), Len(stages) \in Nat, Len(stages) > 0,
         stages[Len(stages)] = "decision", NEW ending \in Endings
  PROVE  LET tail == IF ending = "raises" THEN <<>> ELSE <<"output">>
             run == Ended(SinkResult(ending), (stages \o <<"evidence", "sink">>) \o tail) IN
         /\ Instruments(run)
         /\ ToSet(run.events) \subseteq ToSet(stages) \cup {"evidence", "sink", "output"} \cup ResultCodes
<1> DEFINE tail == IF ending = "raises" THEN <<>> ELSE <<"output">>
           two == <<"evidence", "sink">>
           s == stages \o two
           t == s \o tail
           code == SinkResult(ending).code
           v == Append(t, code)
           n == Len(stages)
           run == Ended(SinkResult(ending), t)
<1>1. SinkResult(ending).invoked = TRUE
      /\ code \in {"PEP-EXECUTED", "PEP-SINK-FAILED", "PEP-OUTPUT-INVALID"}
      /\ (ending = "raises" => code # "PEP-EXECUTED")
  BY SinkResults
<1>2. run.events = v /\ run.result.code = code /\ run.result.invoked = TRUE
  BY <1>1 DEF Ended
<1>3. {"evidence", "sink", "output"} \subseteq EventNames
  BY DEF EventNames
<1>4. two \in Seq(EventNames) /\ Len(two) = 2 /\ two[1] = "evidence" /\ two[2] = "sink"
      /\ ToSet(two) = {"evidence", "sink"}
  BY <1>3, Couple
<1>5. /\ tail \in Seq(EventNames) /\ ToSet(tail) \subseteq {"output"}
      /\ ending # "raises" => Len(tail) = 1 /\ tail[1] = "output"
  <2>1. CASE ending = "raises"
    BY <2>1, None
  <2>2. CASE ending # "raises"
    BY <1>3, <2>2, Single
  <2> QED BY <2>1, <2>2
<1> HIDE DEF tail, two, code
<1>6. /\ s \in Seq(EventNames) /\ Len(s) = n + 2 /\ ToSet(s) = ToSet(stages) \cup ToSet(two)
      /\ \A i \in 1..n : s[i] = stages[i]
      /\ \A i \in 1..2 : s[n + i] = two[i]
  BY <1>4, BothOf
<1> HIDE DEF s
<1>7. s[n] = "decision" /\ s[n + 1] = "evidence" /\ s[n + 2] = "sink" /\ n \in Nat /\ n > 0
  <2>1. n \in 1..n /\ 1 \in 1..2 /\ 2 \in 1..2
    OBVIOUS
  <2> QED BY <1>4, <1>6, <2>1
<1> HIDE DEF n
<1>8. /\ t \in Seq(EventNames) /\ Len(t) = n + 2 + Len(tail) /\ ToSet(t) = ToSet(s) \cup ToSet(tail)
      /\ \A i \in 1..(n + 2) : t[i] = s[i]
      /\ \A i \in 1..Len(tail) : t[n + 2 + i] = tail[i]
      /\ Len(tail) \in Nat
  <2>1. /\ t \in Seq(EventNames) /\ Len(t) = Len(s) + Len(tail) /\ ToSet(t) = ToSet(s) \cup ToSet(tail)
        /\ \A i \in 1..Len(s) : t[i] = s[i]
        /\ \A i \in 1..Len(tail) : t[Len(s) + i] = tail[i]
        /\ Len(tail) \in Nat
    <3>1. s \in Seq(EventNames) /\ tail \in Seq(EventNames)
      BY <1>5, <1>6
    <3> QED BY <3>1, BothOf
  <2> HIDE DEF t
  <2> QED BY <1>6, <2>1
<1> HIDE DEF t
<1>9. code \in EventNames /\ code \in ResultCodes
  BY <1>1 DEF EventNames, ResultCodes
<1>10. /\ v \in Seq(EventNames) /\ Len(v) = n + 2 + Len(tail) + 1 /\ v[Len(v)] = code
       /\ \A i \in 1..Len(t) : v[i] = t[i]
       /\ ToSet(v) = ToSet(t) \cup {code}
  BY <1>8, <1>9, WithOneMore
<1> HIDE DEF v
<1>11. DOMAIN v = 1..Len(v)
  BY <1>10
<1>12. /\ v[n] = "decision" /\ v[n + 1] = "evidence" /\ v[n + 2] = "sink"
       /\ n \in DOMAIN v /\ n + 1 \in DOMAIN v /\ n + 2 \in DOMAIN v
  <2>1. /\ n \in 1..(n + 2) /\ n + 1 \in 1..(n + 2) /\ n + 2 \in 1..(n + 2)
        /\ n \in 1..Len(t) /\ n + 1 \in 1..Len(t) /\ n + 2 \in 1..Len(t)
        /\ n \in DOMAIN v /\ n + 1 \in DOMAIN v /\ n + 2 \in DOMAIN v
    BY <1>7, <1>8, <1>10, <1>11
  <2> QED BY <1>7, <1>8, <1>10, <2>1
<1>13. code = "PEP-EXECUTED" => v[n + 3] = "output" /\ n + 3 \in DOMAIN v
  <2> SUFFICES ASSUME code = "PEP-EXECUTED" PROVE v[n + 3] = "output" /\ n + 3 \in DOMAIN v
    OBVIOUS
  <2>1. Len(tail) = 1 /\ tail[1] = "output"
    BY <1>1, <1>5
  <2>2. n + 3 \in DOMAIN v /\ n + 3 \in 1..Len(t) /\ n + 3 = n + 2 + 1 /\ 1 \in 1..Len(tail)
    BY <1>7, <1>8, <1>10, <1>11, <2>1
  <2> QED BY <1>8, <1>10, <2>1, <2>2
<1>14. Ordered(v, code)
  <2>1. Before(v, "decision", "evidence")
    BY <1>7, <1>12 DEF Before
  <2>2. Before(v, "evidence", "sink")
    <3>1. n + 1 < n + 2
      BY <1>7
    <3> QED BY <1>12, <3>1 DEF Before
  <2>3. code = "PEP-EXECUTED" => Before(v, "sink", "output")
    <3>1. n + 2 < n + 3
      BY <1>7
    <3> QED BY <1>12, <1>13, <3>1 DEF Before
  <2> QED BY <2>1, <2>2, <2>3 DEF Ordered
<1>15. ToSet(v) \subseteq ToSet(stages) \cup {"evidence", "sink", "output"} \cup ResultCodes
  BY <1>4, <1>5, <1>6, <1>8, <1>9, <1>10
<1> HIDE DEF run
<1>16. Instruments(run)
  BY <1>2, <1>10, <1>14 DEF Instruments
<1> QED BY <1>2, <1>15, <1>16 DEF run, t, s, tail, two

(* Every run is instrumented as the harness asks, and goes through the     *)
(* decision only where the decision was asked.                             *)
LEMMA RunsAreInstrumented ==
  ASSUME NEW a, NEW case, NEW gate, NEW ending \in Endings
  PROVE  LET run == Instrumented(a, case, gate, ending) IN
         /\ Instruments(run)
         /\ Requests[case.request].shape = "exact" /\ "decision" \in ToSet(run.events) =>
              RefusalIn(a, case) \in {Nothing, "PEP-DECISION-BLOCKED"}
<1> DEFINE refusal == RefusalIn(a, case)
           stages == StagesIn(a, case)
           run == Instrumented(a, case, gate, ending)
           tail == IF ending = "raises" THEN <<>> ELSE <<"output">>
           exact == Requests[case.request].shape = "exact"
<1>1. /\ refusal # Nothing => run = Ended(Blocked(refusal), stages)
      /\ refusal = Nothing =>
           \/ \E code \in {"PEP-EVIDENCE-UNAVAILABLE", "PEP-EVIDENCE-MISMATCH"} :
                run = Ended(Blocked(code), stages)
           \/ run = Ended(Blocked("PEP-ADAPTER-MISMATCH"), Append(stages, "evidence"))
           \/ run = Ended(SinkResult(ending), (stages \o <<"evidence", "sink">>) \o tail)
  BY RunIs
<1>2. /\ stages \in Seq(EventNames) /\ ToSet(stages) \subseteq StageNames
      /\ refusal = Nothing => Len(stages) \in Nat /\ Len(stages) > 0 /\ stages[Len(stages)] = "decision"
      /\ exact /\ "decision" \in ToSet(stages) => refusal \in {Nothing, "PEP-DECISION-BLOCKED"}
  BY StagesInAre
<1>3. refusal \in ExecuteCodes \cup {Nothing}
  BY RefusalsAre
<1> HIDE DEF refusal, stages, run, exact
<1>4. "sink" \notin ToSet(stages) /\ "sink" \notin ToSet(stages) \cup {"evidence"}
  BY <1>2 DEF StageNames
<1>5. ASSUME NEW code \in ResultCodes, run = Ended(Blocked(code), stages)
      PROVE  Instruments(run) /\ ToSet(run.events) = ToSet(stages) \cup {code} /\ code # "decision"
  <2>1. code # "decision"
    BY DEF ResultCodes, ExecuteCodes, UndecidedCodes
  <2> QED BY <1>2, <1>4, <1>5, <2>1, BlockedIsInstrumented
<1>6. CASE refusal # Nothing
  <2>1. refusal \in ResultCodes
    BY <1>3, <1>6 DEF ResultCodes
  <2>2. Instruments(run) /\ ToSet(run.events) = ToSet(stages) \cup {refusal} /\ refusal # "decision"
    BY <1>1, <1>5, <1>6, <2>1
  <2> QED BY <1>2, <2>2 DEF refusal, run, exact
<1>7. CASE refusal = Nothing
  <2>1. Instruments(run)
    <3>1. ASSUME NEW code \in {"PEP-EVIDENCE-UNAVAILABLE", "PEP-EVIDENCE-MISMATCH"},
                 run = Ended(Blocked(code), stages)
          PROVE  Instruments(run)
      <4>1. code \in ResultCodes
        BY DEF ResultCodes
      <4> QED BY <1>5, <3>1, <4>1
    <3>2. CASE run = Ended(Blocked("PEP-ADAPTER-MISMATCH"), Append(stages, "evidence"))
      <4> DEFINE more == Append(stages, "evidence")
      <4>1. "PEP-ADAPTER-MISMATCH" \in ResultCodes /\ "evidence" \in EventNames
        BY DEF ResultCodes, ExecuteCodes, UndecidedCodes, EventNames
      <4>2. more \in Seq(EventNames) /\ ToSet(more) = ToSet(stages) \cup {"evidence"}
        BY <1>2, <4>1, WithOneMore
      <4>3. "sink" \notin ToSet(more)
        BY <1>4, <4>2
      <4> HIDE DEF more
      <4>4. Instruments(Ended(Blocked("PEP-ADAPTER-MISMATCH"), more))
        BY <4>1, <4>2, <4>3, BlockedIsInstrumented
      <4> QED BY <3>2, <4>4 DEF more
    <3>3. CASE run = Ended(SinkResult(ending), (stages \o <<"evidence", "sink">>) \o tail)
      BY <1>2, <1>7, <3>3, SinkIsInstrumented
    <3> QED BY <1>1, <1>7, <3>1, <3>2, <3>3
  <2> QED BY <1>7, <2>1 DEF refusal, run
<1> QED BY <1>6, <1>7

(* The five cases of the harness, for a seed that is whole, exact and      *)
(* comes as far as the decision: each is refused as it expects.            *)
LEMMA RefusedAsTold ==
  ASSUME NEW a, NEW case, NEW gate, NEW ending,
         RefusalIn(a, case) = case.code, case.code \in ExecuteCodes, case.invoked = FALSE
  PROVE  AsTold(case, Instrumented(a, case, gate, ending))
<1> DEFINE refusal == RefusalIn(a, case)
           run == Instrumented(a, case, gate, ending)
<1>1. refusal # Nothing => run = Ended(Blocked(refusal), StagesIn(a, case))
  BY RunIs
<1>2. Nothing \notin ExecuteCodes
  BY NoCodeIsNothing DEF EnforcementCodes, ExecuteCodes, UndecidedCodes
<1> HIDE DEF refusal, run
<1>3. run = Ended(Blocked(case.code), StagesIn(a, case))
  BY <1>1, <1>2 DEF refusal
<1>4. run.result.code = case.code /\ run.result.invoked = FALSE
  BY <1>3 DEF Ended, Blocked
<1> QED BY <1>4 DEF AsTold, run

LEMMA FixedAsTold ==
  ASSUME NEW a, NEW seed, NEW gate, NEW ending,
         activation[a].policy \in DOMAIN Policies, seed.request \in DOMAIN Requests,
         Requests[seed.request].shape = "exact",
         RefusalIn(a, seed) \in {Nothing, "PEP-DECISION-BLOCKED"}
  PROVE  \A case \in ToSet(FixedCases(seed)) :
           /\ AsTold(case, Instrumented(a, case, gate, ending))
           /\ case.planted = {} /\ case.invoked = FALSE
<1> DEFINE q == seed.request  r == seed.runtime  e == seed.effect
           point == Point(a)
           Case(x, y, z, code) == [request |-> x, runtime |-> y, effect |-> z, code |-> code,
                                   invoked |-> FALSE, planted |-> {}]
           c1 == Case("object", r, e, "PEP-DECISION-BLOCKED")
           c2 == Case(q, "object", e, "PEP-DECISION-BLOCKED")
           c3 == Case(q, r, "object", "PEP-EFFECT-MALFORMED")
           c4 == Case("broken", r, e, "PEP-DECISION-BLOCKED")
           c5 == Case(q, r, Substituted(e), "PEP-EFFECT-DIGEST-MISMATCH")
           Told(c) == /\ AsTold(c, Instrumented(a, c, gate, ending))
                      /\ c.planted = {} /\ c.invoked = FALSE
           Allowed(y) == Answers[point.policy][q][y].verdict = "allow"
<1>1. /\ Nothing # "PEP-EFFECT-MALFORMED"
      /\ {"PEP-DECISION-BLOCKED", "PEP-EFFECT-MALFORMED", "PEP-EFFECT-DIGEST-MISMATCH"} \subseteq ExecuteCodes
  BY NoCodeIsNothing DEF EnforcementCodes, ExecuteCodes, UndecidedCodes
<1>2. /\ Allowed(r) \in BOOLEAN /\ Allowed("object") \in BOOLEAN /\ point.policy = activation[a].policy
  BY DEF Point
<1>3. /\ SubmitRefusal(point, q, r, e) \in {Nothing, "PEP-DECISION-BLOCKED"}
      /\ Requests[q].shape = "exact"
  BY DEF RefusalIn
<1>4. ~Allowed("object")
  <2>1. (Answers[activation[a].policy][q]["object"].verdict = "allow") = FALSE
    BY HarnessInputs, UnsealedIsDenied
  <2> QED BY <1>2, <2>1
<1>5. ASSUME NEW x, NEW y, NEW z, NEW code \in ExecuteCodes,
             SubmitRefusal(point, x, y, z) = code
      PROVE  Told(Case(x, y, z, code))
  <2> DEFINE c == Case(x, y, z, code)
  <2>1. /\ c.request = x /\ c.runtime = y /\ c.effect = z /\ c.code = code
        /\ c.planted = {} /\ c.invoked = FALSE
    OBVIOUS
  <2> HIDE DEF c
  <2>2. RefusalIn(a, c) = c.code
    BY <1>5, <2>1 DEF RefusalIn
  <2>3. AsTold(c, Instrumented(a, c, gate, ending))
    BY <2>1, <2>2, RefusedAsTold
  <2> QED BY <2>1, <2>3 DEF c
<1> HIDE DEF point, q, r, e, Case, Told
<1>6. /\ EffectOk(Effects[e])
      /\ FirstRefusal(Checked(point, Requests[q], Effects[e], Allowed(r))) \in {Nothing, "PEP-DECISION-BLOCKED"}
  <2>1. EffectOk(Effects[e])
    BY <1>1, <1>3, SubmitIs
  <2>2. SubmitRefusal(point, q, r, e) = FirstRefusal(Checked(point, Requests[q], Effects[e], Allowed(r)))
    BY <1>3, <2>1, SubmitIs
  <2> QED BY <1>3, <2>1, <2>2
<1>7. /\ Effects[e].digest = Requests[q].operation.arguments
      /\ FirstRefusal(Checked(point, Requests[q], Effects[e], Allowed("object"))) = "PEP-DECISION-BLOCKED"
  <2> HIDE DEF Allowed
  <2> QED BY <1>2, <1>4, <1>6, ReachesDecision
<1>8. SubmitRefusal(point, "object", r, e) = "PEP-DECISION-BLOCKED"
      /\ SubmitRefusal(point, "broken", r, e) = "PEP-DECISION-BLOCKED"
  <2>1. Requests["object"].shape # "exact" /\ Requests["broken"].shape # "exact"
    BY HarnessInputs
  <2> QED BY <1>6, <2>1, SubmitIs
<1>9. SubmitRefusal(point, q, "object", e) = "PEP-DECISION-BLOCKED"
  BY <1>3, <1>6, <1>7, SubmitIs
<1>10. SubmitRefusal(point, q, r, "object") = "PEP-EFFECT-MALFORMED"
  <2>1. ~EffectOk(Effects["object"])
    BY HarnessInputs DEF EffectOk
  <2> QED BY <2>1, SubmitIs
<1>11. SubmitRefusal(point, q, r, Substituted(e)) = "PEP-EFFECT-DIGEST-MISMATCH"
  <2> DEFINE other == Effects[Substituted(e)]
  <2>1. Effects["other"].digest # Effects["args"].digest /\ EffectOk(Effects["args"]) /\ EffectOk(Effects["other"])
    BY HarnessInputs DEF EffectOk, ArgumentsDigest, Digest
  <2>2. EffectOk(other) /\ other.digest # Effects[e].digest
    BY <2>1 DEF Substituted
  <2> HIDE DEF other
  <2>3. other.digest # Requests[q].operation.arguments
    BY <1>7, <2>2
  <2>4. FirstRefusal(Checked(point, Requests[q], other, Allowed(r))) = "PEP-EFFECT-DIGEST-MISMATCH"
    <3> HIDE DEF Allowed
    <3> QED BY <1>2, <2>3, OtherArguments
  <2> QED BY <1>3, <2>2, <2>4, SubmitIs DEF other
<1>12. \A c \in {c1, c2, c3, c4, c5} : Told(c)
  <2>1. Told(c1) /\ Told(c4)
    BY <1>1, <1>5, <1>8
  <2>2. Told(c2)
    BY <1>1, <1>5, <1>9
  <2>3. Told(c3)
    BY <1>1, <1>5, <1>10
  <2>4. Told(c5)
    BY <1>1, <1>5, <1>11
  <2> HIDE DEF c1, c2, c3, c4, c5
  <2> QED BY <2>1, <2>2, <2>3, <2>4
<1>13. ToSet(FixedCases(seed)) = {c1, c2, c3, c4, c5}
  <2>1. FixedCases(seed) = <<c1, c2, c3, c4, c5>>
    BY DEF FixedCases, q, r, e, Case
  <2> HIDE DEF c1, c2, c3, c4, c5
  <2>2. DOMAIN <<c1, c2, c3, c4, c5>> = {1, 2, 3, 4, 5}
    OBVIOUS
  <2>3. ToSet(<<c1, c2, c3, c4, c5>>) = {c1, c2, c3, c4, c5}
    BY <2>2 DEF ToSet
  <2> QED BY <2>1, <2>3
<1> QED BY <1>12, <1>13 DEF Told

(* A report passes if none of the five failures holds. *)
LEMMA NoFailure ==
  ASSUME NEW a, NEW runs
  PROVE  (Failures(a, runs) = {}) <=>
           /\ \A r \in runs : AsTold(r[1], r[2])
           /\ \A r \in runs : r[1].planted \cap ToSet(r[2].events) = {}
           /\ \A r \in runs : Instruments(r[2])
           /\ DOMAIN activation[a].handlers = DOMAIN Manifest(a).operations
           /\ {Requests[r[1].request].operation.id : r \in {s \in runs : Covers(a, s[1], s[2])}}
                = DOMAIN Manifest(a).operations
           /\ \E r \in runs : ~r[1].invoked
<1> DEFINE operations == DOMAIN Manifest(a).operations
           covered == {Requests[r[1].request].operation.id : r \in {s \in runs : Covers(a, s[1], s[2])}}
           f1 == \E r \in runs : ~AsTold(r[1], r[2])
           f2 == \E r \in runs : r[1].planted \cap ToSet(r[2].events) # {}
           f3 == \/ \E r \in runs : ~Instruments(r[2])
                 \/ DOMAIN activation[a].handlers # operations
           f4 == covered # operations
           f5 == \A r \in runs : r[1].invoked
           failing == [mismatch |-> f1, leak |-> f2, instrumentation |-> f3, uncovered |-> f4,
                       noNegative |-> f5]
<1>1. Failures(a, runs) = {f \in DOMAIN failing : failing[f]}
  BY DEF Failures
<1>2. ~f1 /\ ~f2 /\ ~f3 /\ ~f4 /\ ~f5 <=>
           /\ \A r \in runs : AsTold(r[1], r[2])
           /\ \A r \in runs : r[1].planted \cap ToSet(r[2].events) = {}
           /\ \A r \in runs : Instruments(r[2])
           /\ DOMAIN activation[a].handlers = operations
           /\ covered = operations
           /\ \E r \in runs : ~r[1].invoked
  OBVIOUS
<1> HIDE DEF f1, f2, f3, f4, f5
<1>3. DOMAIN failing = {"mismatch", "leak", "instrumentation", "uncovered", "noNegative"}
      /\ failing["mismatch"] = f1 /\ failing["leak"] = f2 /\ failing["instrumentation"] = f3
      /\ failing["uncovered"] = f4 /\ failing["noNegative"] = f5
  OBVIOUS
<1> HIDE DEF failing
<1>4. (Failures(a, runs) = {}) <=> ~f1 /\ ~f2 /\ ~f3 /\ ~f4 /\ ~f5
  BY <1>1, <1>3
<1> QED BY <1>2, <1>4

(* What passes is what is signed. *)
LEMMA PassesIsConformant ==
  ASSUME EnforcementInv, NEW a \in Points, NEW cases, NEW gate \in Gates, NEW ending \in Endings,
         Passes(a, cases, gate, ending)
  PROVE  /\ gate = "answers" /\ ending \in {"nothing", "envelope"}
         /\ \A o \in DOMAIN Manifest(a).operations :
              DigestHandler(world, activation[a].handlers[o].code) = Manifest(a).operations[o].handler
<1> DEFINE runs == Runs(a, cases \o FixedCases(Seed(cases)), gate, ending)
           operations == Manifest(a).operations
<1>1. a \in Activators /\ activation[a].phase = "point"
  BY DEF Points
<1>2. HandlersOk(activation[a].handlers, operations) /\ activation[a].candidate \in DOMAIN Candidates
  <2>1. ActivationOk(a)
    BY <1>1 DEF EnforcementInv
  <2>2. activation[a].phase # "idle"
    BY <1>1
  <2>3. HandlersOk(activation[a].handlers, operations)
    BY <2>1, <2>2 DEF ActivationOk
  <2>4. activation[a].candidate \in DOMAIN Candidates
    BY <2>1, <2>2 DEF ActivationOk, ActivationForm
  <2> QED BY <2>3, <2>4
<1>3. DOMAIN operations # {}
  BY <1>2, HarnessAssumption DEF Manifest
<1>4. Failures(a, runs) = {}
  BY DEF Passes
<1>5. \A r \in runs : r[2] = Instrumented(a, r[1], gate, ending)
  BY DEF Runs
<1> HIDE DEF runs
<1>6. {Requests[r[1].request].operation.id : r \in {s \in runs : Covers(a, s[1], s[2])}} = DOMAIN operations
  BY <1>4, NoFailure
<1>7. ASSUME NEW o \in DOMAIN operations
      PROVE  \E r \in runs : Covers(a, r[1], r[2]) /\ Requests[r[1].request].operation.id = o
  BY <1>6
<1> HIDE DEF operations
<1>8. ASSUME NEW o \in DOMAIN operations
      PROVE  /\ gate = "answers" /\ ending \in {"nothing", "envelope"}
             /\ DigestHandler(world, activation[a].handlers[o].code) = operations[o].handler
  <2>1. PICK r \in runs : Covers(a, r[1], r[2]) /\ Requests[r[1].request].operation.id = o
    BY <1>7
  <2> DEFINE case == r[1]
  <2> HIDE DEF case
  <2>2. r[2] = Instrumented(a, case, gate, ending) /\ Requests[case.request].operation.id = o
    BY <1>5, <2>1 DEF case
  <2>3. r[2].result.invoked /\ r[2].result.code = "PEP-EXECUTED"
    BY <2>1 DEF Covers
  <2>4. /\ gate \notin {"raises", "forges"} /\ ~Drifted(HandlerIn(a, case))
        /\ r[2].result = SinkResult(ending)
    BY <2>2, <2>3, InvokedMeans
  <2>5. gate = "answers"
    BY <2>4, HarnessAssumption
  <2>6. ending \in {"nothing", "envelope"}
    BY <2>3, <2>4, SinkResults
  <2>7. HandlerIn(a, case) = activation[a].handlers[o]
    BY <2>2 DEF HandlerIn
  <2>8. DigestHandler(world, activation[a].handlers[o].code) = activation[a].handlers[o].digest
    BY <2>4, <2>7 DEF Drifted, Code
  <2> QED BY <1>2, <2>5, <2>6, <2>8 DEF HandlersOk
<1> QED BY <1>3, <1>8 DEF operations

(* And a point that does what a suite expects passes it. *)
LEMMA FulfilledPasses ==
  ASSUME EnforcementInv, NEW a \in Points, NEW cases \in Seq(SuiteCase), NEW gate \in Gates,
         NEW ending \in Endings, Fulfilled(a, cases[1], Runs(a, cases, gate, ending))
  PROVE  Passes(a, cases, gate, ending)
<1> DEFINE first == cases[1]
           own == Runs(a, cases, gate, ending)
           fixed == FixedCases(first)
           runs == Runs(a, cases \o fixed, gate, ending)
           operations == DOMAIN Manifest(a).operations
<1>1. a \in Activators /\ activation[a].phase = "point"
  BY DEF Points
<1>2. DOMAIN activation[a].handlers = operations /\ activation[a].policy \in DOMAIN Policies
  <2>1. ActivationOk(a)
    BY <1>1 DEF EnforcementInv
  <2>2. activation[a].phase # "idle"
    BY <1>1
  <2>3. HandlersOk(activation[a].handlers, Manifest(a).operations)
    BY <2>1, <2>2 DEF ActivationOk
  <2>4. activation[a].policy \in DOMAIN Policies
    BY <2>1, <2>2 DEF ActivationOk, ActivationForm
  <2> QED BY <2>3, <2>4 DEF HandlersOk
<1>3. /\ \A r \in own : AsTold(r[1], r[2]) /\ r[1].planted = {}
      /\ \A o \in operations : \E r \in own : Requests[r[1].request].operation.id = o /\ r[2].result = Executed
      /\ Whole(first) /\ Requests[first.request].shape = "exact"
      /\ \E r \in own : r[1] = first /\ "decision" \in ToSet(r[2].events)
  BY DEF Fulfilled
<1>4. own = {<<case, Instrumented(a, case, gate, ending)>> : case \in ToSet(cases)}
      /\ runs = {<<case, Instrumented(a, case, gate, ending)>> : case \in ToSet(cases \o fixed)}
  BY DEF Runs
<1> HIDE DEF own, runs, fixed
<1>5. PICK r \in own : r[1] = first /\ "decision" \in ToSet(r[2].events)
  BY <1>3
<1>6. first \in ToSet(cases) /\ r[2] = Instrumented(a, first, gate, ending)
  BY <1>4, <1>5
<1>7. 1 \in DOMAIN cases /\ first \in SuiteCase
  <2>1. PICK i \in DOMAIN cases : first = cases[i]
    BY <1>6 DEF ToSet
  <2>2. DOMAIN cases = 1..Len(cases) /\ Len(cases) \in Nat
    OBVIOUS
  <2>3. 1 \in 1..Len(cases)
    BY <2>1, <2>2
  <2>4. cases[1] \in SuiteCase
    BY <2>2, <2>3
  <2> QED BY <2>2, <2>3, <2>4
<1>8. Seed(cases) = first /\ HasSeed(cases)
  <2> DEFINE IsFirst(i) == Whole(cases[i]) /\ \A j \in 1..(i - 1) : ~Whole(cases[j])
             i == CHOOSE k \in DOMAIN cases : IsFirst(k)
  <2>1. IsFirst(1)
    BY <1>3
  <2>2. DOMAIN cases \subseteq Nat \ {0}
    OBVIOUS
  <2>3. \A k \in DOMAIN cases : IsFirst(k) => k = 1
    <3> SUFFICES ASSUME NEW k \in DOMAIN cases, IsFirst(k), k # 1 PROVE FALSE
      OBVIOUS
    <3>1. 1 \in 1..(k - 1)
      BY <2>2
    <3> QED BY <1>3, <3>1
  <2>4. Seed(cases) = cases[i]
    BY DEF Seed
  <2> HIDE DEF IsFirst
  <2>5. i = 1
    BY <1>7, <2>1, <2>3
  <2>6. HasSeed(cases)
    BY <1>3, <1>7 DEF HasSeed
  <2> QED BY <2>4, <2>5, <2>6
<1>9. RefusalIn(a, first) \in {Nothing, "PEP-DECISION-BLOCKED"} /\ first.request \in DOMAIN Requests
  <2>1. "decision" \in ToSet(Instrumented(a, first, gate, ending).events)
    BY <1>5, <1>6
  <2>2. first.request \in DOMAIN Requests
    BY <1>7 DEF SuiteCase
  <2> HIDE DEF first
  <2>3. RefusalIn(a, first) \in {Nothing, "PEP-DECISION-BLOCKED"}
    BY <1>3, <2>1, RunsAreInstrumented
  <2> QED BY <2>2, <2>3
<1>10. \A case \in ToSet(fixed) :
         AsTold(case, Instrumented(a, case, gate, ending)) /\ case.planted = {} /\ case.invoked = FALSE
  <2> HIDE DEF first
  <2> QED BY <1>2, <1>3, <1>9, FixedAsTold DEF fixed
<1>11. ToSet(cases \o fixed) = ToSet(cases) \cup ToSet(fixed) /\ \E case : case \in ToSet(fixed)
  <2> DEFINE Case(x, y, z, code) == [request |-> x, runtime |-> y, effect |-> z, code |-> code,
                                     invoked |-> FALSE, planted |-> {}]
             c1 == Case("object", first.runtime, first.effect, "PEP-DECISION-BLOCKED")
             c2 == Case(first.request, "object", first.effect, "PEP-DECISION-BLOCKED")
             c3 == Case(first.request, first.runtime, "object", "PEP-EFFECT-MALFORMED")
             c4 == Case("broken", first.runtime, first.effect, "PEP-DECISION-BLOCKED")
             c5 == Case(first.request, first.runtime, Substituted(first.effect), "PEP-EFFECT-DIGEST-MISMATCH")
             S == SuiteCase \cup {c1, c2, c3, c4, c5}
  <2>1. fixed = <<c1, c2, c3, c4, c5>>
    BY DEF fixed, FixedCases
  <2> HIDE DEF c1, c2, c3, c4, c5
  <2>2. fixed \in Seq(S) /\ 1 \in DOMAIN fixed
    BY <2>1
  <2>3. cases \in Seq(S)
    <3>1. \A i \in 1..Len(cases) : cases[i] \in S
      OBVIOUS
    <3> QED BY <3>1
  <2> HIDE DEF S
  <2>4. ToSet(cases \o fixed) = ToSet(cases) \cup ToSet(fixed)
    BY <2>2, <2>3, BothOf
  <2>5. fixed[1] \in ToSet(fixed)
    BY <2>2 DEF ToSet
  <2> QED BY <2>4, <2>5
<1>12. ASSUME NEW s \in runs
       PROVE  /\ AsTold(s[1], s[2]) /\ s[1].planted = {}
              /\ s[2] = Instrumented(a, s[1], gate, ending)
  <2>1. PICK case \in ToSet(cases) \cup ToSet(fixed) : s = <<case, Instrumented(a, case, gate, ending)>>
    BY <1>4, <1>11
  <2>2. CASE case \in ToSet(cases)
    <3>1. s \in own
      BY <1>4, <2>1, <2>2
    <3> QED BY <1>3, <2>1, <3>1
  <2>3. CASE case \in ToSet(fixed)
    BY <1>10, <2>1, <2>3
  <2> QED BY <2>2, <2>3
<1>13. own \subseteq runs
  BY <1>4, <1>11
<1>14. \A s \in runs : Instruments(s[2])
  <2> SUFFICES ASSUME NEW s \in runs PROVE Instruments(s[2])
    OBVIOUS
  <2> DEFINE case == s[1]
  <2> HIDE DEF case
  <2>1. s[2] = Instrumented(a, case, gate, ending)
    BY <1>12 DEF case
  <2> QED BY <2>1, RunsAreInstrumented
<1>15. {Requests[s[1].request].operation.id : s \in {t \in runs : Covers(a, t[1], t[2])}} = operations
  <2>1. ASSUME NEW o \in operations
        PROVE  \E s \in runs : Covers(a, s[1], s[2]) /\ Requests[s[1].request].operation.id = o
    <3>1. PICK s \in own : Requests[s[1].request].operation.id = o /\ s[2].result = Executed
      BY <1>3
    <3>2. s[2].result.code = "PEP-EXECUTED" /\ s[2].result.invoked
      BY <3>1 DEF Executed
    <3> QED BY <1>13, <3>1, <3>2 DEF Covers
  <2>2. ASSUME NEW s \in runs, Covers(a, s[1], s[2]) PROVE Requests[s[1].request].operation.id \in operations
    BY <2>2 DEF Covers
  <2> HIDE DEF operations
  <2> QED BY <2>1, <2>2
<1>16. \E s \in runs : ~s[1].invoked
  <2>1. PICK case \in ToSet(fixed) : case.invoked = FALSE
    BY <1>10, <1>11
  <2>2. <<case, Instrumented(a, case, gate, ending)>> \in runs
    BY <1>4, <1>11
  <2> QED BY <2>1, <2>2
<1>17. Failures(a, runs) = {}
  BY <1>2, <1>12, <1>14, <1>15, <1>16, NoFailure
<1> QED BY <1>8, <1>17 DEF Passes, runs, fixed

(* A conformance report passes for points that would call exactly what     *)
(* their manifest signed, behind a gate that answers, and a point that     *)
(* does what its suite expects passes (run_adapter_conformance).           *)
THEOREM ReportsAreSound == Spec => []ReportsAreRight
<1>1. ASSUME EnforcementInv PROVE ReportsAreRight
  <2>1. PassingMeansConformant
    BY <1>1, PassesIsConformant DEF PassingMeansConformant
  <2>2. ConformantPasses
    <3> SUFFICES ASSUME NEW a \in Points, NEW s \in DOMAIN Suites, NEW gate \in Gates, NEW ending \in Endings,
                        Fulfilled(a, Suites[s][1], Runs(a, Suites[s], gate, ending))
                 PROVE  Passes(a, Suites[s], gate, ending)
      BY DEF ConformantPasses
    <3>1. Suites[s] \in Seq(SuiteCase)
      BY HarnessAssumption
    <3> QED BY <1>1, <3>1, FulfilledPasses
  <2> QED BY <2>1, <2>2 DEF ReportsAreRight
<1> QED BY <1>1, EnforcementInvariant, PTL

=============================================================================
