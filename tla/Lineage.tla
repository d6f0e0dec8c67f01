------------------------------- MODULE Lineage -------------------------------
(***************************************************************************)
(* Envelopes in circulation (content_envelope.py).  The constructors need  *)
(* no key and neither does the self-digest, so whoever carries an envelope *)
(* may alter it and seal it again; the verifiers look at one hop.  What    *)
(* they establish about a whole ancestry is stated here.                   *)
(***************************************************************************)
EXTENDS ContentEnvelope

CONSTANTS IngressInputs,     \* arguments of create_ingress
          DeriveInputs,      \* arguments of derive_envelope, but for the parents
          Contents,          \* contents verify_envelope may be given
          MaxEnvelopes,      \* bound: envelopes in circulation
          MaxForgeries       \* bound: alterations made by carriers

ASSUME CirculationIsBounded == MaxEnvelopes \in Nat /\ MaxForgeries \in Nat
ASSUME ContentsAreBytes == \A c \in Contents : c = [bytes |-> c.bytes, size |-> c.size]
\* The dependencies of a bundle are a tuple, hence finitely many, and its digests are an object.
ASSUME BundlesAreWhole ==
    \A in \in IngressInputs \cup DeriveInputs :
        in.bundle # Nothing => IsFiniteSet(in.bundle.dependencies) /\ HashBundle(in.bundle) # Nothing

VARIABLES around,      \* envelopes in circulation, genuine and altered
          made,        \* history: what constructors made, with the content and the set of parents given
          forgeries

vars == <<around, made, forgeries>>

Init == around = {} /\ made = {} /\ forgeries = 0

Room == Cardinality(around) < MaxEnvelopes

Made(answer, content, parents) ==
    /\ answer.refusal = Nothing
    /\ around' = around \cup {answer.envelope}
    /\ made' = made \cup {[envelope |-> answer.envelope, content |-> content, parents |-> ToSet(parents)]}
    /\ UNCHANGED forgeries

Ingress(in) == Room /\ Made(CreateIngress(in), in.content, <<>>)

\* The lists of parents a caller may pass.
ParentLists(set) == {<<p>> : p \in set} \cup {<<p, q>> : p \in set, q \in set}

DeriveFrom(in, parents) == Room /\ Made(Derive(in, parents), in.content, parents)

\* What a carrier may make of an envelope: other taints, other content, other parents, another
\* source or transform, lists out of order, a version of its own, an object half built.
Alterations(e) ==
    {[e EXCEPT !.taints = @ \ {t}] : t \in e.taints}
    \cup {[e EXCEPT !.content.digest = Hash("content", c.bytes)] : c \in Contents}
    \cup {[e EXCEPT !.parents = @ \ {r}] : r \in e.parents}
    \cup {[e EXCEPT !.parents = {[r EXCEPT !.content = Nothing] : r \in @}],
          [e EXCEPT !.taints = @ \cup {"harmless"}],
          [e EXCEPT !.source.kind = "web"],
          [e EXCEPT !.transform.kind = "deterministic"],
          [e EXCEPT !.transform.parameters = Nothing],
          [e EXCEPT !.bundle = Nothing],
          [e EXCEPT !.schema = 2],
          [e EXCEPT !.form = "unsorted"],
          [e EXCEPT !.form = "incomplete"]}

\* Neither the self-digest nor the source of a derived envelope needs a secret: the carrier may
\* leave them as they are, compute the one, or both.
Carried(e) ==
    {e, Sealed(e)} \cup (IF Derived(e) THEN {Sealed([e EXCEPT !.source = DerivedSource(e.parents, e.transform)])}
                         ELSE {})
Alter(e) ==
    /\ Room /\ forgeries < MaxForgeries
    /\ \E altered \in Alterations(e) : \E carried \in Carried(altered) : around' = around \cup {carried}
    /\ forgeries' = forgeries + 1
    /\ UNCHANGED made

Next ==
    \/ \E in \in IngressInputs : Ingress(in)
    \/ \E in \in DeriveInputs : \E parents \in ParentLists(around) : DeriveFrom(in, parents)
    \/ \E e \in around : Alter(e)

Spec == Init /\ [][Next]_vars

-----------------------------------------------------------------------------
\* Circulation is bounded, and what a constructor made is whole, marked untrusted and among it.
TypeOK ==
    /\ Cardinality(around) <= MaxEnvelopes /\ forgeries \in 0..MaxForgeries
    /\ \A m \in made : /\ m.envelope \in around /\ m.parents \subseteq around
                       /\ m.envelope.form = "whole" /\ "untrusted" \in m.envelope.taints

\* The envelopes that verify by themselves, the hops verify_lineage accepts (among those: it refuses
\* an envelope or a parent that does not), and who comes from whom by such hops (four hops reach
\* everything that circulates).
Verifiable == {e \in around : PublicRefusal(e) = Nothing}
Hops ==
    LET verifiable == Verifiable IN
    {h \in verifiable \X ({<<>>} \cup ParentLists(verifiable)) : VerifyLineage(h[1], h[2]) = Nothing}
Then(R, S) == {<<pair[1][1], pair[2][2]>> : pair \in {p \in R \X S : p[1][2] = p[2][1]}}
ComesFrom(hops) ==
    LET parent == UNION {{<<h[1], p>> : p \in ToSet(h[2])} : h \in hops}
        grand  == parent \cup Then(parent, parent)
    IN  grand \cup Then(grand, grand)

\* An envelope that verifies has one lineage: no two sets of parents are both accepted as its own.
OneLineage(hops) == \A one, two \in hops : one[1] = two[1] => ToSet(one[2]) = ToSet(two[2])

\* Taint is never washed off on the way: along hops that verify one by one, an envelope carries
\* every taint of every envelope it comes from, whatever carriers did to the ones in between; and
\* where it comes from is not a matter of who asks.  (With the types.)
TaintsReachDown ==
    /\ TypeOK
    /\ LET hops == Hops IN
       OneLineage(hops) /\ \A pair \in ComesFrom(hops) : pair[2].taints \subseteq pair[1].taints

\* An envelope that verifies is for one content only, and its digest names it: no other verifiable
\* envelope has the same.
OneContent ==
    \A e \in around : \A one, two \in Contents :
        VerifyEnvelope(e, one) = Nothing /\ VerifyEnvelope(e, two) = Nothing => one = two
DigestNames ==
    \A one, two \in Verifiable : one.digest = two.digest => one = two

\* What a digest binds: one content and one envelope.
DigestsBind == OneContent /\ DigestNames

\* What the constructors make is accepted by every verifier: with its content, with the parents it
\* was made from in whatever order, and after a journey over the wire.
MadeVerifies ==
    \A m \in made :
        /\ VerifyEnvelope(m.envelope, m.content) = Nothing
        /\ \A parents \in {<<>>} \cup ParentLists(m.parents) :
               ToSet(parents) = m.parents /\ Len(parents) = Cardinality(m.parents) =>
               VerifyLineage(m.envelope, parents) = Nothing
        /\ PublicRefusal(m.envelope) = Nothing
        /\ ParseRefusal(Document(m.envelope)) = Nothing /\ Parsed(Document(m.envelope)) = m.envelope

\* The parser and the verifier are two programs for one question: an envelope written to the wire
\* is accepted there exactly if the object is accepted as it is.
ParserAgrees ==
    \A e \in around : (ParseRefusal(Document(e)) = Nothing) = (PublicRefusal(e) = Nothing)

\* The constructors, the verifiers and the parser are of one mind about every envelope, made or
\* forged.
VerifiersAgree == MadeVerifies /\ ParserAgrees
=============================================================================
