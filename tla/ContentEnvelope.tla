--------------------------- MODULE ContentEnvelope ---------------------------
(***************************************************************************)
(* Envelopes of untrusted content (content_envelope.py, content_models.py): *)
(* constructors, the verifiers of an envelope and of its lineage, and the  *)
(* public codec.  All of it is pure.                                       *)
(*                                                                         *)
(* Hash is injective, so a payload under its domain is its own digest.     *)
(* A tuple that the code keeps sorted and without repetition is a set; an  *)
(* envelope object says in `form` whether its tuples are, and whether it   *)
(* has all its fields: objects may be copied with other fields, or         *)
(* constructed without validation.                                         *)
(***************************************************************************)
EXTENDS Refusals, FiniteSets, SequencesExt

CONSTANTS MaxContent,        \* MAX_CONTENT_BYTES
          MaxMetadata,       \* the caps of structured metadata
          MaxParents,        \* MAX_PARENTS
          MaxTaints,         \* MAX_TAINTS
          MaxDependencies    \* MAX_DEPENDENCIES

ASSUME Caps == {MaxContent, MaxMetadata, MaxParents, MaxTaints, MaxDependencies} \subseteq Nat

\* EnvelopeError's codes.
EnvelopeCodes == {"ENV-OVER-CAP", "ENV-MALFORMED", "ENV-NONCANONICAL", "ENV-BUNDLE-INVALID",
                  "ENV-SCHEMA-UNKNOWN", "ENV-TRUST-INVALID", "ENV-TAINT-UNKNOWN", "ENV-TAINT-MISSING",
                  "ENV-LINEAGE-INVALID", "ENV-DIGEST-MISMATCH", "ENV-UNKNOWN-FIELD"}

ASSUME NoEnvelopeCodeIsNothing == Nothing \notin EnvelopeCodes

TaintRegistry == {"untrusted", "malformed", "uninspectable", "sensitive", "executable",
                  "authority-injection", "secret", "private-network", "critical"}
IngressKinds == {"tool_result", "web", "document", "email", "database_text", "mcp_prompt",
                 "mcp_resource", "bundle_metadata", "agent_message"}
MediaTypes == {"text/plain", "application/json"}

\* A kind of transform stands for its registered identity and version.
TransformKinds == {"ingress_capture", "deterministic"}

Hash(domain, payload) == <<domain, payload>>

-----------------------------------------------------------------------------
(* Inputs.                                                                 *)

\* _canonical_metadata: [value, size, form].
MetadataRefusals(data) ==
    <<<<data.size > MaxMetadata, "ENV-OVER-CAP">>,
      <<data.form = "malformed", "ENV-MALFORMED">>,
      <<data.form = "deep", "ENV-OVER-CAP">>,
      <<data.form # "canonical", "ENV-NONCANONICAL">>>>

Refuses(data) == FirstRefusal(MetadataRefusals(data)) # Nothing
AnyRefusal(set) == IF \E d \in set : Refuses(d)
                   THEN FirstRefusal(MetadataRefusals(CHOOSE d \in set : Refuses(d))) ELSE Nothing

\* _hash_bundle: every part hashed in a domain of its own.
BundleRefusals(b) ==
    IF b = Nothing THEN <<>>
    ELSE <<<<Cardinality(b.dependencies) > MaxDependencies, "ENV-OVER-CAP">>>>
         \o MetadataRefusals(b.artifact)
         \o <<<<\E d \in b.dependencies : Refuses(d), AnyRefusal(b.dependencies)>>>>
         \o MetadataRefusals(b.claims)
HashBundle(b) ==
    IF b = Nothing THEN Nothing
    ELSE [artifact     |-> Hash("bundle-artifact", b.artifact.value),
          dependencies |-> {Hash("bundle-dependency", d.value) : d \in b.dependencies},
          claims       |-> Hash("bundle-claims", b.claims.value)]

\* _taints: what the caller adds, as a list.
Tainted(added) == ToSet(added) \cup {"untrusted"}
TaintRefusals(added) ==
    <<<<Len(added) > MaxTaints, "ENV-OVER-CAP">>,
      <<~(ToSet(added) \subseteq TaintRegistry), "ENV-TAINT-UNKNOWN">>,
      <<Cardinality(Tainted(added)) > MaxTaints, "ENV-OVER-CAP">>>>

-----------------------------------------------------------------------------
(* Envelopes.                                                              *)

\* _computed_envelope_digest: the digest of everything else.
BodyWithoutTaints(e) == [e EXCEPT !.digest = Nothing, !.taints = {}]   \* mutant: a field left out
Body(e) == [e EXCEPT !.digest = Nothing]
EnvelopeDigest(e) == Hash("envelope", Body(e))
Sealed(e) == [e EXCEPT !.digest = EnvelopeDigest(e)]

\* _make_envelope
MakeEnvelope(content, media, source, parents, transform, taints, bundle) ==
    Sealed([schema |-> 1, trust |-> "untrusted", form |-> "whole",
            content |-> [digest |-> Hash("content", content.bytes), length |-> content.size, media |-> media],
            source |-> source, parents |-> parents, transform |-> transform, taints |-> taints,
            bundle |-> bundle, digest |-> Nothing])

Transform(kind, in) ==
    [kind |-> kind,
     implementation |-> Hash("transform-implementation", in.implementation.value),
     parameters |-> Hash("transform-parameters", in.parameters.value)]

Answer(refusals, e) == [refusal |-> FirstRefusal(refusals), envelope |-> e]

\* create_ingress: a root.
CreateIngress(in) ==
    Answer(<<<<in.media \notin MediaTypes \/ in.kind \notin IngressKinds, "ENV-MALFORMED">>,
             <<in.transform # "ingress_capture", "ENV-MALFORMED">>,
             <<in.content.size > MaxContent, "ENV-OVER-CAP">>,
             <<in.kind = "bundle_metadata" /\ in.bundle = Nothing, "ENV-BUNDLE-INVALID">>>>
           \o MetadataRefusals(in.identity) \o MetadataRefusals(in.claims)
           \o MetadataRefusals(in.implementation) \o MetadataRefusals(in.parameters)
           \o TaintRefusals(in.taints) \o BundleRefusals(in.bundle),
           MakeEnvelope(in.content, in.media,
                        [kind |-> in.kind, identity |-> Hash("source-identity", in.identity.value),
                         claims |-> Hash("source-claims", in.claims.value)],
                        {}, Transform(in.transform, in), Tainted(in.taints), HashBundle(in.bundle)))

\* _derived_source: who derived it is the parents and the transform.
DerivedSource(parents, transform) ==
    [kind |-> "derived", identity |-> Hash("derived-source-identity", parents),
     claims |-> Hash("derived-source-claims", <<parents, transform>>)]

RefOf(p) == [envelope |-> p.digest, content |-> p.content.digest]
RefsOf(parents) == {RefOf(p) : p \in ToSet(parents)}
Distinct(refs) == Cardinality({r.envelope : r \in refs}) = Cardinality(refs)

Derived(e) == e.source.kind = "derived"

\* _validate_envelope_shape with the validators of the models: preflight, versions, the parts, the
\* lists, the lineage's form, and the transform that goes with the source.
PartRefusals(e) ==
    <<<<e.form = "incomplete", "ENV-MALFORMED">>,
      <<e.schema # 1, "ENV-SCHEMA-UNKNOWN">>,
      <<e.trust # "untrusted", "ENV-TRUST-INVALID">>,
      <<e.content.media \notin MediaTypes \/ e.content.length > MaxContent, "ENV-MALFORMED">>,
      <<e.source.kind \notin IngressKinds \cup {"derived"}, "ENV-MALFORMED">>,
      <<e.transform.kind \notin TransformKinds, "ENV-MALFORMED">>>>
ListRefusals(e) ==
    <<<<Cardinality(e.parents) > MaxParents, "ENV-LINEAGE-INVALID">>,
      <<e.form = "unsorted" \/ ~Distinct(e.parents), "ENV-LINEAGE-INVALID">>,
      <<Cardinality(e.taints) > MaxTaints, "ENV-LINEAGE-INVALID">>,
      <<"untrusted" \notin e.taints, "ENV-TAINT-MISSING">>,
      <<~(e.taints \subseteq TaintRegistry), "ENV-TAINT-UNKNOWN">>,
      <<e.bundle # Nothing /\ Cardinality(e.bundle.dependencies) > MaxDependencies, "ENV-BUNDLE-INVALID">>>>
LineageRefusals(e) ==
    <<<<Derived(e) # (e.parents # {}), "ENV-LINEAGE-INVALID">>,
      <<Derived(e) /\ e.source # DerivedSource(e.parents, e.transform), "ENV-LINEAGE-INVALID">>,
      <<e.source.kind = "bundle_metadata" /\ e.bundle = Nothing, "ENV-BUNDLE-INVALID">>,
      <<Derived(e) /\ e.transform.kind # "deterministic", "ENV-LINEAGE-INVALID">>,
      <<~Derived(e) /\ e.transform.kind # "ingress_capture", "ENV-MALFORMED">>>>
ShapeRefusals(e) == PartRefusals(e) \o ListRefusals(e) \o LineageRefusals(e)
DigestRefusals(e) == <<<<EnvelopeDigest(e) # e.digest, "ENV-DIGEST-MISMATCH">>>>

ShapeRefusal(e) == FirstRefusal(ShapeRefusals(e))
PassedOn(refusal) == <<refusal # Nothing, refusal>>

\* _verified_parents: every self-digest before any shape.
SelfRefusal(p) == FirstRefusal(<<<<p.form = "incomplete", "ENV-MALFORMED">>>> \o DigestRefusals(p))
ParentRefusals(parents, mayBeEmpty) ==
    <<<<Len(parents) > MaxParents, "ENV-OVER-CAP">>,
      <<parents = <<>> /\ ~mayBeEmpty, "ENV-LINEAGE-INVALID">>>>
    \o [i \in DOMAIN parents |-> PassedOn(SelfRefusal(parents[i]))]
    \o [i \in DOMAIN parents |-> PassedOn(ShapeRefusal(parents[i]))]
    \o <<<<Cardinality({p.digest : p \in ToSet(parents)}) # Len(parents), "ENV-LINEAGE-INVALID">>>>

Inherited(parents) == UNION {p.taints : p \in ToSet(parents)}

\* derive_envelope
Derive(in, parents) ==
    LET transform == Transform(in.transform, in)
        refs      == RefsOf(parents)
    IN  Answer(ParentRefusals(parents, FALSE)
               \o <<<<in.media \notin MediaTypes, "ENV-MALFORMED">>,
                    <<in.transform # "deterministic", "ENV-MALFORMED">>,
                    <<in.content.size > MaxContent, "ENV-OVER-CAP">>>>
               \o TaintRefusals(in.taints)
               \o <<<<Cardinality(Inherited(parents) \cup Tainted(in.taints)) > MaxTaints, "ENV-OVER-CAP">>>>
               \o MetadataRefusals(in.implementation) \o MetadataRefusals(in.parameters)
               \o BundleRefusals(in.bundle),
               MakeEnvelope(in.content, in.media, DerivedSource(refs, transform), refs, transform,
                            Inherited(parents) \cup Tainted(in.taints), HashBundle(in.bundle)))

-----------------------------------------------------------------------------
(* Verifiers.                                                              *)

\* What verify_lineage asks of the parents it is given: all of them, and their taints.
TheParents(e, parents) == RefsOf(parents) = e.parents
AnyTaints(e, parents) == TRUE                                      \* mutant: taints not compared
KeepsTaints(e, parents) == Inherited(parents) \subseteq e.taints

VerifyLineage(e, parents) ==
    FirstRefusal(
        ShapeRefusals(e) \o DigestRefusals(e) \o ParentRefusals(parents, ~Derived(e))
        \o <<<<~Derived(e) /\ parents # <<>>, "ENV-LINEAGE-INVALID">>,
             <<Derived(e) /\ ~TheParents(e, parents), "ENV-LINEAGE-INVALID">>,
             <<\E r \in e.parents : r.envelope = e.digest, "ENV-LINEAGE-INVALID">>,
             <<Derived(e) /\ ~KeepsTaints(e, parents), "ENV-TAINT-MISSING">>>>)

HasContent(e, content) ==
    e.content.length = content.size /\ e.content.digest = Hash("content", content.bytes)

VerifyEnvelope(e, content) ==
    FirstRefusal(ShapeRefusals(e)
                 \o <<<<content.size > MaxContent, "ENV-OVER-CAP">>>> \o DigestRefusals(e)
                 \o <<<<~HasContent(e, content), "ENV-DIGEST-MISMATCH">>>>)

-----------------------------------------------------------------------------
(* The wire: a JSON document [form, lists, fields].                        *)

WireFields == {"schema", "trust", "content", "source", "parents", "transform", "taints", "bundle", "digest"}

\* to_public_dict, and what anybody may write of an envelope.
PublicRefusal(e) == FirstRefusal(ShapeRefusals(e) \o DigestRefusals(e))
Document(e) ==
    [form |-> "canonical", lists |-> IF e.form = "unsorted" THEN "unsorted" ELSE "sorted",
     fields |-> [f \in (IF e.form = "incomplete" THEN WireFields \ {"transform"} ELSE WireFields) |-> e[f]]]

\* _parse_wire_json and _object_with_fields.
FieldRefusals(d) ==
    LET fields == DOMAIN d.fields IN
    <<<<d.form = "malformed", "ENV-MALFORMED">>,
      <<d.form # "canonical", "ENV-NONCANONICAL">>,
      <<"schema" \notin fields, "ENV-SCHEMA-UNKNOWN">>,
      <<"trust" \notin fields, "ENV-TRUST-INVALID">>,
      <<"taints" \notin fields, "ENV-TAINT-MISSING">>,
      <<"bundle" \notin fields, "ENV-BUNDLE-INVALID">>,
      <<~(fields \subseteq WireFields), "ENV-UNKNOWN-FIELD">>,
      <<~(WireFields \subseteq fields), "ENV-MALFORMED">>>>

TooManyOrFull(n, cap) == n >= cap                                  \* mutant: off by one
TooMany(n, cap) == n > cap

\* parse_envelope, on a document that has its fields: versions and lists, then parts, then self.
WireListRefusals(d) ==
    LET e == d.fields IN
    <<<<e.schema # 1, "ENV-SCHEMA-UNKNOWN">>,
      <<e.trust # "untrusted", "ENV-TRUST-INVALID">>,
      <<TooMany(Cardinality(e.parents), MaxParents) \/ TooMany(Cardinality(e.taints), MaxTaints),
        "ENV-OVER-CAP">>,
      <<d.lists = "unsorted" \/ ~Distinct(e.parents), "ENV-LINEAGE-INVALID">>,
      <<e.bundle # Nothing /\ TooMany(Cardinality(e.bundle.dependencies), MaxDependencies), "ENV-OVER-CAP">>,
      <<~(e.taints \subseteq TaintRegistry), "ENV-TAINT-UNKNOWN">>,
      <<"untrusted" \notin e.taints, "ENV-TAINT-MISSING">>>>

Parsed(d) == [f \in WireFields \cup {"form"} |-> IF f = "form" THEN "whole" ELSE d.fields[f]]

WireSelfRefusals(e) ==
    <<<<\E r \in e.parents : r.envelope = e.digest, "ENV-LINEAGE-INVALID">>>>
    \o DigestRefusals(e) \o ShapeRefusals(e)

ParseRefusal(d) ==
    OrElse(FirstRefusal(FieldRefusals(d)),
           FirstRefusal(WireListRefusals(d) \o LineageRefusals(Parsed(d)) \o WireSelfRefusals(Parsed(d))))
=============================================================================
