--------------------------- MODULE Lineage_proof ---------------------------
(***************************************************************************)
(* What the constructors, the verifiers and the parser of envelopes        *)
(* establish, for any contents, any number of envelopes in circulation and *)
(* any number of alterations.                                              *)
(*                                                                         *)
(* Each is a list of checks, and it answers Nothing exactly if none of     *)
(* them applies (NothingIsRefused), once every list is shown to be one of  *)
(* checks whose answer is a code when they apply: what a verifier asks is  *)
(* then a predicate (ShapeFits, IsSealed, ParentsFit, WireFits).  The      *)
(* digest check makes an envelope a function of its digest; the reference  *)
(* check makes the set of parents one of their digests; and the taint      *)
(* check passes from hop to hop because inclusion does.                    *)
(*                                                                         *)
(* That verifiers and parser agree needs that no envelope refers to        *)
(* itself, for the parser asks and the verifier of one envelope does not.  *)
(* The reason is not in the hash alone: whoever puts a reference in an     *)
(* envelope took it from one that was sealed and in circulation, and two   *)
(* sealed envelopes of one digest have the same parents (NoCycle).         *)
(***************************************************************************)
EXTENDS Lineage, Induction_proof, FiniteSetTheorems

(* A check, in a list whose codes are the envelope's own: an answer that    *)
(* another validator gave is passed on only if it gave one.                *)
Check == {c \in BOOLEAN \X (EnvelopeCodes \cup {Nothing}) : c[1] => c[2] # Nothing}
Checks == Seq(Check)
NoneApplies(s) == \A i \in 1..Len(s) : ~s[i][1]

LEMMA ACheck ==
  ASSUME NEW p \in BOOLEAN, NEW c \in EnvelopeCodes
  PROVE  <<p, c>> \in Check
BY NoEnvelopeCodeIsNothing DEF Check

LEMMA APassedOn ==
  ASSUME NEW r \in EnvelopeCodes \cup {Nothing}
  PROVE  PassedOn(r) \in Check /\ PassedOn(r)[1] = (r # Nothing)
BY DEF Check, PassedOn

LEMMA ChecksJoin ==
  ASSUME NEW s \in Checks, NEW t \in Checks
  PROVE  /\ s \o t \in Checks
         /\ NoneApplies(s \o t) <=> NoneApplies(s) /\ NoneApplies(t)
<1>1. /\ Len(s) \in Nat /\ Len(t) \in Nat /\ Len(s \o t) = Len(s) + Len(t)
      /\ \A i \in 1..Len(s) : (s \o t)[i] = s[i]
      /\ s \o t \in Checks
  BY DEF Checks
<1>2. ASSUME NEW i \in 1..Len(t) PROVE (s \o t)[Len(s) + i] = t[i] /\ Len(s) + i \in 1..Len(s \o t)
  BY <1>1 DEF Checks
<1>3. ASSUME NEW i \in 1..Len(s) PROVE (s \o t)[i] = s[i] /\ i \in 1..Len(s \o t)
  BY <1>1
<1> DEFINE st == s \o t
<1> HIDE DEF st
<1>4. ASSUME NoneApplies(st), st = s \o t PROVE NoneApplies(s) /\ NoneApplies(t)
  BY <1>2, <1>3, <1>4 DEF NoneApplies
<1>5. ASSUME NoneApplies(s), NoneApplies(t), st = s \o t PROVE NoneApplies(st)
  <2>1. ASSUME NEW i \in 1..Len(st) PROVE ~st[i][1]
    <3>1. CASE i \in 1..Len(s)
      BY <1>3, <1>5, <3>1 DEF NoneApplies
    <3>2. CASE i \notin 1..Len(s)
      <4>1. i - Len(s) \in 1..Len(t) /\ Len(s) + (i - Len(s)) = i
        BY <1>1, <1>5, <3>2
      <4> QED BY <1>2, <1>5, <4>1 DEF NoneApplies
    <3> QED BY <3>1, <3>2
  <2> QED BY <2>1 DEF NoneApplies
<1> QED BY <1>1, <1>4, <1>5 DEF st

LEMMA NothingIsRefused ==
  ASSUME NEW s \in Checks
  PROVE  /\ FirstRefusal(s) \in EnvelopeCodes \cup {Nothing}
         /\ FirstRefusal(s) = Nothing <=> NoneApplies(s)
<1> DEFINE A == Applying(s)
           i == CHOOSE k \in A : \A j \in A : k <= j
<1>0. A = {k \in 1..Len(s) : s[k][1]}
  BY DEF Applying, Checks
<1>1. CASE A = {}
  BY <1>0, <1>1 DEF FirstRefusal, NoneApplies
<1>2. CASE A # {}
  <2>1. A \subseteq Nat /\ A \subseteq 1..Len(s) /\ \A k \in A : s[k][1]
    BY <1>0 DEF Checks
  <2>2. FirstRefusal(s) = s[i][2]
    BY <1>2 DEF FirstRefusal
  <2> HIDE DEF A
  <2>3. \E k \in A : \A j \in A : k <= j
    BY <1>2, <2>1, Least
  <2>4. i \in A
    BY <2>3
  <2> HIDE DEF i
  <2>5. s[i] \in Check /\ s[i][1] /\ ~NoneApplies(s)
    BY <2>1, <2>4 DEF Checks, NoneApplies
  <2>6. s[i][2] \in EnvelopeCodes /\ s[i][2] # Nothing
    BY <2>5 DEF Check
  <2> QED BY <2>2, <2>5, <2>6
<1> QED BY <1>1, <1>2

(* Lists of checks, as the validators write them: none applies if no condition holds. *)
LEMMA OneChecks ==
  ASSUME NEW c1 \in Check
  PROVE  /\ <<c1>> \in Checks
         /\ NoneApplies(<<c1>>) <=> ~c1[1]
<1> DEFINE s == <<c1>>
<1>1. s \in Checks /\ Len(s) = 1 /\ s[1] = c1
  BY DEF Checks
<1> HIDE DEF s
<1>2. NoneApplies(s) <=> ~c1[1]
  BY <1>1 DEF NoneApplies
<1> QED BY <1>1, <1>2 DEF s

LEMMA TwoChecks ==
  ASSUME NEW c1 \in Check, NEW c2 \in Check
  PROVE  /\ <<c1, c2>> \in Checks
         /\ NoneApplies(<<c1, c2>>) <=> ~c1[1] /\ ~c2[1]
<1> DEFINE s == <<c1, c2>>
<1>1. s \in Checks /\ Len(s) = 2 /\ s[1] = c1 /\ s[2] = c2
  BY DEF Checks
<1> HIDE DEF s
<1>2. NoneApplies(s) <=> ~c1[1] /\ ~c2[1]
  BY <1>1 DEF NoneApplies
<1> QED BY <1>1, <1>2 DEF s

LEMMA ThreeChecks ==
  ASSUME NEW c1 \in Check, NEW c2 \in Check, NEW c3 \in Check
  PROVE  /\ <<c1, c2, c3>> \in Checks
         /\ NoneApplies(<<c1, c2, c3>>) <=> ~c1[1] /\ ~c2[1] /\ ~c3[1]
<1> DEFINE s == <<c1, c2, c3>>
<1>1. s \in Checks /\ Len(s) = 3 /\ s[1] = c1 /\ s[2] = c2 /\ s[3] = c3
  BY DEF Checks
<1> HIDE DEF s
<1>2. NoneApplies(s) <=> ~c1[1] /\ ~c2[1] /\ ~c3[1]
  BY <1>1 DEF NoneApplies
<1> QED BY <1>1, <1>2 DEF s

LEMMA FourChecks ==
  ASSUME NEW c1 \in Check, NEW c2 \in Check, NEW c3 \in Check, NEW c4 \in Check
  PROVE  /\ <<c1, c2, c3, c4>> \in Checks
         /\ NoneApplies(<<c1, c2, c3, c4>>) <=> ~c1[1] /\ ~c2[1] /\ ~c3[1] /\ ~c4[1]
<1> DEFINE s == <<c1, c2, c3, c4>>
<1>1. s \in Checks /\ Len(s) = 4 /\ s[1] = c1 /\ s[2] = c2 /\ s[3] = c3 /\ s[4] = c4
  BY DEF Checks
<1> HIDE DEF s
<1>2. NoneApplies(s) <=> ~c1[1] /\ ~c2[1] /\ ~c3[1] /\ ~c4[1]
  BY <1>1 DEF NoneApplies
<1> QED BY <1>1, <1>2 DEF s

LEMMA FiveChecks ==
  ASSUME NEW c1 \in Check, NEW c2 \in Check, NEW c3 \in Check, NEW c4 \in Check,
         NEW c5 \in Check
  PROVE  /\ <<c1, c2, c3, c4, c5>> \in Checks
         /\ NoneApplies(<<c1, c2, c3, c4, c5>>) <=> ~c1[1] /\ ~c2[1] /\ ~c3[1] /\ ~c4[1] /\ ~c5[1]
<1> DEFINE s == <<c1, c2, c3, c4, c5>>
<1>1. s \in Checks /\ Len(s) = 5 /\ s[1] = c1 /\ s[2] = c2 /\ s[3] = c3 /\ s[4] = c4 /\ s[5] = c5
  BY DEF Checks
<1> HIDE DEF s
<1>2. NoneApplies(s) <=> ~c1[1] /\ ~c2[1] /\ ~c3[1] /\ ~c4[1] /\ ~c5[1]
  BY <1>1 DEF NoneApplies
<1> QED BY <1>1, <1>2 DEF s

LEMMA SixChecks ==
  ASSUME NEW c1 \in Check, NEW c2 \in Check, NEW c3 \in Check, NEW c4 \in Check,
         NEW c5 \in Check, NEW c6 \in Check
  PROVE  /\ <<c1, c2, c3, c4, c5, c6>> \in Checks
         /\ NoneApplies(<<c1, c2, c3, c4, c5, c6>>) <=> ~c1[1] /\ ~c2[1] /\ ~c3[1] /\ ~c4[1] /\ ~c5[1] /\ ~c6[1]
<1> DEFINE s == <<c1, c2, c3, c4, c5, c6>>
<1>1. s \in Checks /\ Len(s) = 6 /\ s[1] = c1 /\ s[2] = c2 /\ s[3] = c3 /\ s[4] = c4 /\ s[5] = c5 /\ s[6] = c6
  BY DEF Checks
<1> HIDE DEF s
<1>2. NoneApplies(s) <=> ~c1[1] /\ ~c2[1] /\ ~c3[1] /\ ~c4[1] /\ ~c5[1] /\ ~c6[1]
  BY <1>1 DEF NoneApplies
<1> QED BY <1>1, <1>2 DEF s

LEMMA SevenChecks ==
  ASSUME NEW c1 \in Check, NEW c2 \in Check, NEW c3 \in Check, NEW c4 \in Check,
         NEW c5 \in Check, NEW c6 \in Check, NEW c7 \in Check
  PROVE  /\ <<c1, c2, c3, c4, c5, c6, c7>> \in Checks
         /\ NoneApplies(<<c1, c2, c3, c4, c5, c6, c7>>) <=> ~c1[1] /\ ~c2[1] /\ ~c3[1] /\ ~c4[1] /\ ~c5[1] /\ ~c6[1] /\ ~c7[1]
<1> DEFINE s == <<c1, c2, c3, c4, c5, c6, c7>>
<1>1. s \in Checks /\ Len(s) = 7 /\ s[1] = c1 /\ s[2] = c2 /\ s[3] = c3 /\ s[4] = c4 /\ s[5] = c5 /\ s[6] = c6 /\ s[7] = c7
  BY DEF Checks
<1> HIDE DEF s
<1>2. NoneApplies(s) <=> ~c1[1] /\ ~c2[1] /\ ~c3[1] /\ ~c4[1] /\ ~c5[1] /\ ~c6[1] /\ ~c7[1]
  BY <1>1 DEF NoneApplies
<1> QED BY <1>1, <1>2 DEF s

LEMMA EightChecks ==
  ASSUME NEW c1 \in Check, NEW c2 \in Check, NEW c3 \in Check, NEW c4 \in Check,
         NEW c5 \in Check, NEW c6 \in Check, NEW c7 \in Check, NEW c8 \in Check
  PROVE  /\ <<c1, c2, c3, c4, c5, c6, c7, c8>> \in Checks
         /\ NoneApplies(<<c1, c2, c3, c4, c5, c6, c7, c8>>) <=> ~c1[1] /\ ~c2[1] /\ ~c3[1] /\ ~c4[1] /\ ~c5[1] /\ ~c6[1] /\ ~c7[1] /\ ~c8[1]
<1> DEFINE s == <<c1, c2, c3, c4, c5, c6, c7, c8>>
<1>1. s \in Checks /\ Len(s) = 8 /\ s[1] = c1 /\ s[2] = c2 /\ s[3] = c3 /\ s[4] = c4 /\ s[5] = c5 /\ s[6] = c6 /\ s[7] = c7 /\ s[8] = c8
  BY DEF Checks
<1> HIDE DEF s
<1>2. NoneApplies(s) <=> ~c1[1] /\ ~c2[1] /\ ~c3[1] /\ ~c4[1] /\ ~c5[1] /\ ~c6[1] /\ ~c7[1] /\ ~c8[1]
  BY <1>1 DEF NoneApplies
<1> QED BY <1>1, <1>2 DEF s

-----------------------------------------------------------------------------
(* What the verifiers ask, as predicates.                                  *)

PartsFit(e) ==
  /\ e.form # "incomplete" /\ e.schema = 1 /\ e.trust = "untrusted"
  /\ e.content.media \in MediaTypes /\ ~(e.content.length > MaxContent)
  /\ e.source.kind \in IngressKinds \cup {"derived"} /\ e.transform.kind \in TransformKinds
ListsFit(e) ==
  /\ ~(Cardinality(e.parents) > MaxParents) /\ e.form # "unsorted" /\ Distinct(e.parents)
  /\ ~(Cardinality(e.taints) > MaxTaints) /\ "untrusted" \in e.taints /\ e.taints \subseteq TaintRegistry
  /\ ~(e.bundle # Nothing /\ Cardinality(e.bundle.dependencies) > MaxDependencies)
LineageFits(e) ==
  /\ Derived(e) = (e.parents # {})
  /\ Derived(e) => e.source = DerivedSource(e.parents, e.transform) /\ e.transform.kind = "deterministic"
  /\ ~(e.source.kind = "bundle_metadata" /\ e.bundle = Nothing)
  /\ ~Derived(e) => e.transform.kind = "ingress_capture"
ShapeFits(e) == PartsFit(e) /\ ListsFit(e) /\ LineageFits(e)
IsSealed(e) == EnvelopeDigest(e) = e.digest

LEMMA PartsAreChecked ==
  ASSUME NEW e
  PROVE  PartRefusals(e) \in Checks /\ (NoneApplies(PartRefusals(e)) <=> PartsFit(e))
<1> DEFINE p1 == e.form = "incomplete"
           p2 == e.schema # 1
           p3 == e.trust # "untrusted"
           p4 == e.content.media \notin MediaTypes \/ e.content.length > MaxContent
           p5 == e.source.kind \notin IngressKinds \cup {"derived"}
           p6 == e.transform.kind \notin TransformKinds
           c1 == <<p1, "ENV-MALFORMED">>
           c2 == <<p2, "ENV-SCHEMA-UNKNOWN">>
           c3 == <<p3, "ENV-TRUST-INVALID">>
           c4 == <<p4, "ENV-MALFORMED">>
           c5 == <<p5, "ENV-MALFORMED">>
           c6 == <<p6, "ENV-MALFORMED">>
           s  == <<c1, c2, c3, c4, c5, c6>>
<1>1. PartRefusals(e) = s
  BY DEF PartRefusals
<1>2. /\ p1 \in BOOLEAN /\ p2 \in BOOLEAN /\ p3 \in BOOLEAN
      /\ p4 \in BOOLEAN /\ p5 \in BOOLEAN /\ p6 \in BOOLEAN
  BY DEF Derived
<1>3. /\ "ENV-MALFORMED" \in EnvelopeCodes /\ "ENV-SCHEMA-UNKNOWN" \in EnvelopeCodes
      /\ "ENV-TRUST-INVALID" \in EnvelopeCodes
  BY DEF EnvelopeCodes
<1>4. PartsFit(e) <=> ~p1 /\ ~p2 /\ ~p3 /\ ~p4 /\ ~p5 /\ ~p6
  BY DEF PartsFit
<1> HIDE DEF p1, p2, p3, p4, p5, p6
<1>5. /\ c1 \in Check /\ c2 \in Check /\ c3 \in Check
      /\ c4 \in Check /\ c5 \in Check /\ c6 \in Check
  BY <1>2, <1>3, ACheck
<1>6. c1[1] = p1 /\ c2[1] = p2 /\ c3[1] = p3 /\ c4[1] = p4 /\ c5[1] = p5 /\ c6[1] = p6
  OBVIOUS
<1> HIDE DEF c1, c2, c3, c4, c5, c6
<1>7. s \in Checks /\ (NoneApplies(s) <=> ~p1 /\ ~p2 /\ ~p3 /\ ~p4 /\ ~p5 /\ ~p6)
  BY <1>5, <1>6, SixChecks
<1> QED BY <1>1, <1>4, <1>7

LEMMA ListsAreChecked ==
  ASSUME NEW e
  PROVE  ListRefusals(e) \in Checks /\ (NoneApplies(ListRefusals(e)) <=> ListsFit(e))
<1> DEFINE p1 == Cardinality(e.parents) > MaxParents
           p2 == e.form = "unsorted" \/ ~Distinct(e.parents)
           p3 == Cardinality(e.taints) > MaxTaints
           p4 == "untrusted" \notin e.taints
           p5 == ~(e.taints \subseteq TaintRegistry)
           p6 == e.bundle # Nothing /\ Cardinality(e.bundle.dependencies) > MaxDependencies
           c1 == <<p1, "ENV-LINEAGE-INVALID">>
           c2 == <<p2, "ENV-LINEAGE-INVALID">>
           c3 == <<p3, "ENV-LINEAGE-INVALID">>
           c4 == <<p4, "ENV-TAINT-MISSING">>
           c5 == <<p5, "ENV-TAINT-UNKNOWN">>
           c6 == <<p6, "ENV-BUNDLE-INVALID">>
           s  == <<c1, c2, c3, c4, c5, c6>>
<1>1. ListRefusals(e) = s
  BY DEF ListRefusals
<1>2. /\ p1 \in BOOLEAN /\ p2 \in BOOLEAN /\ p3 \in BOOLEAN
      /\ p4 \in BOOLEAN /\ p5 \in BOOLEAN /\ p6 \in BOOLEAN
  BY DEF Derived
<1>3. /\ "ENV-BUNDLE-INVALID" \in EnvelopeCodes /\ "ENV-LINEAGE-INVALID" \in EnvelopeCodes
      /\ "ENV-TAINT-MISSING" \in EnvelopeCodes /\ "ENV-TAINT-UNKNOWN" \in EnvelopeCodes
  BY DEF EnvelopeCodes
<1>4. ListsFit(e) <=> ~p1 /\ ~p2 /\ ~p3 /\ ~p4 /\ ~p5 /\ ~p6
  BY DEF ListsFit, Distinct
<1> HIDE DEF p1, p2, p3, p4, p5, p6
<1>5. /\ c1 \in Check /\ c2 \in Check /\ c3 \in Check
      /\ c4 \in Check /\ c5 \in Check /\ c6 \in Check
  BY <1>2, <1>3, ACheck
<1>6. c1[1] = p1 /\ c2[1] = p2 /\ c3[1] = p3 /\ c4[1] = p4 /\ c5[1] = p5 /\ c6[1] = p6
  OBVIOUS
<1> HIDE DEF c1, c2, c3, c4, c5, c6
<1>7. s \in Checks /\ (NoneApplies(s) <=> ~p1 /\ ~p2 /\ ~p3 /\ ~p4 /\ ~p5 /\ ~p6)
  BY <1>5, <1>6, SixChecks
<1> QED BY <1>1, <1>4, <1>7

LEMMA LineageIsChecked ==
  ASSUME NEW e
  PROVE  LineageRefusals(e) \in Checks /\ (NoneApplies(LineageRefusals(e)) <=> LineageFits(e))
<1> DEFINE p1 == Derived(e) # (e.parents # {})
           p2 == Derived(e) /\ e.source # DerivedSource(e.parents, e.transform)
           p3 == e.source.kind = "bundle_metadata" /\ e.bundle = Nothing
           p4 == Derived(e) /\ e.transform.kind # "deterministic"
           p5 == ~Derived(e) /\ e.transform.kind # "ingress_capture"
           c1 == <<p1, "ENV-LINEAGE-INVALID">>
           c2 == <<p2, "ENV-LINEAGE-INVALID">>
           c3 == <<p3, "ENV-BUNDLE-INVALID">>
           c4 == <<p4, "ENV-LINEAGE-INVALID">>
           c5 == <<p5, "ENV-MALFORMED">>
           s  == <<c1, c2, c3, c4, c5>>
<1>1. LineageRefusals(e) = s
  BY DEF LineageRefusals
<1>2. p1 \in BOOLEAN /\ p2 \in BOOLEAN /\ p3 \in BOOLEAN /\ p4 \in BOOLEAN /\ p5 \in BOOLEAN
  BY DEF Derived
<1>3. /\ "ENV-BUNDLE-INVALID" \in EnvelopeCodes /\ "ENV-LINEAGE-INVALID" \in EnvelopeCodes
      /\ "ENV-MALFORMED" \in EnvelopeCodes
  BY DEF EnvelopeCodes
<1>4. LineageFits(e) <=> ~p1 /\ ~p2 /\ ~p3 /\ ~p4 /\ ~p5
  BY DEF LineageFits
<1> HIDE DEF p1, p2, p3, p4, p5
<1>5. c1 \in Check /\ c2 \in Check /\ c3 \in Check /\ c4 \in Check /\ c5 \in Check
  BY <1>2, <1>3, ACheck
<1>6. c1[1] = p1 /\ c2[1] = p2 /\ c3[1] = p3 /\ c4[1] = p4 /\ c5[1] = p5
  OBVIOUS
<1> HIDE DEF c1, c2, c3, c4, c5
<1>7. s \in Checks /\ (NoneApplies(s) <=> ~p1 /\ ~p2 /\ ~p3 /\ ~p4 /\ ~p5)
  BY <1>5, <1>6, FiveChecks
<1> QED BY <1>1, <1>4, <1>7

LEMMA DigestIsChecked ==
  ASSUME NEW e
  PROVE  DigestRefusals(e) \in Checks /\ (NoneApplies(DigestRefusals(e)) <=> IsSealed(e))
<1> DEFINE p1 == EnvelopeDigest(e) # e.digest
           c1 == <<p1, "ENV-DIGEST-MISMATCH">>
           s  == <<c1>>
<1>1. DigestRefusals(e) = s
  BY DEF DigestRefusals
<1>2. p1 \in BOOLEAN
  BY DEF Derived
<1>3. "ENV-DIGEST-MISMATCH" \in EnvelopeCodes
  BY DEF EnvelopeCodes
<1>4. IsSealed(e) <=> ~p1
  BY DEF IsSealed
<1> HIDE DEF p1
<1>5. c1 \in Check
  BY <1>2, <1>3, ACheck
<1>6. c1[1] = p1
  OBVIOUS
<1> HIDE DEF c1
<1>7. s \in Checks /\ (NoneApplies(s) <=> ~p1)
  BY <1>5, <1>6, OneChecks
<1> QED BY <1>1, <1>4, <1>7

LEMMA ShapeIsChecked ==
  ASSUME NEW e
  PROVE  ShapeRefusals(e) \in Checks /\ (NoneApplies(ShapeRefusals(e)) <=> ShapeFits(e))
<1>1. /\ PartRefusals(e) \o ListRefusals(e) \in Checks
      /\ NoneApplies(PartRefusals(e) \o ListRefusals(e)) <=> PartsFit(e) /\ ListsFit(e)
  BY PartsAreChecked, ListsAreChecked, ChecksJoin
<1> DEFINE s == PartRefusals(e) \o ListRefusals(e)
<1>2. ShapeRefusals(e) = s \o LineageRefusals(e)
  BY DEF ShapeRefusals
<1> HIDE DEF s
<1>3. s \in Checks /\ (NoneApplies(s) <=> PartsFit(e) /\ ListsFit(e))
  BY <1>1 DEF s
<1>4. s \o LineageRefusals(e) \in Checks /\ (NoneApplies(s \o LineageRefusals(e)) <=> ShapeFits(e))
  BY <1>3, LineageIsChecked, ChecksJoin DEF ShapeFits
<1> QED BY <1>2, <1>4

(* to_public_dict: the shape and the digest. *)
LEMMA PublicIs ==
  ASSUME NEW e
  PROVE  /\ ShapeRefusals(e) \o DigestRefusals(e) \in Checks
         /\ NoneApplies(ShapeRefusals(e) \o DigestRefusals(e)) <=> ShapeFits(e) /\ IsSealed(e)
         /\ PublicRefusal(e) = Nothing <=> ShapeFits(e) /\ IsSealed(e)
<1> DEFINE s == ShapeRefusals(e) \o DigestRefusals(e)
<1>1. s \in Checks /\ (NoneApplies(s) <=> ShapeFits(e) /\ IsSealed(e))
  BY ShapeIsChecked, DigestIsChecked, ChecksJoin
<1>2. PublicRefusal(e) = FirstRefusal(s)
  BY DEF PublicRefusal
<1> HIDE DEF s
<1>3. PublicRefusal(e) = Nothing <=> NoneApplies(s)
  BY <1>1, <1>2, NothingIsRefused
<1> QED BY <1>1, <1>3 DEF s

LEMMA SelfIsRefusedWithACode ==
  ASSUME NEW e
  PROVE  /\ SelfRefusal(e) \in EnvelopeCodes \cup {Nothing} /\ ShapeRefusal(e) \in EnvelopeCodes \cup {Nothing}
         /\ SelfRefusal(e) = Nothing <=> e.form # "incomplete" /\ IsSealed(e)
         /\ ShapeRefusal(e) = Nothing <=> ShapeFits(e)
<1> DEFINE p == e.form = "incomplete"
           c == <<p, "ENV-MALFORMED">>
           s == <<c>>
<1>1. SelfRefusal(e) = FirstRefusal(s \o DigestRefusals(e)) /\ ShapeRefusal(e) = FirstRefusal(ShapeRefusals(e))
  BY DEF SelfRefusal, ShapeRefusal
<1>2. p \in BOOLEAN /\ "ENV-MALFORMED" \in EnvelopeCodes
  BY DEF EnvelopeCodes
<1>3. ~p <=> e.form # "incomplete"
  OBVIOUS
<1> HIDE DEF p
<1>4. c \in Check /\ c[1] = p
  BY <1>2, ACheck
<1> HIDE DEF c
<1>5. s \in Checks /\ (NoneApplies(s) <=> ~p)
  BY <1>4, OneChecks
<1> HIDE DEF s
<1>6. /\ s \o DigestRefusals(e) \in Checks
      /\ NoneApplies(s \o DigestRefusals(e)) <=> ~p /\ IsSealed(e)
  BY <1>5, DigestIsChecked, ChecksJoin
<1> QED BY <1>1, <1>3, <1>6, ShapeIsChecked, NothingIsRefused

(* _verified_parents *)
ParentsFit(parents, mayBeEmpty) ==
  /\ ~(Len(parents) > MaxParents) /\ (parents = <<>> => mayBeEmpty)
  /\ \A i \in 1..Len(parents) : IsSealed(parents[i]) /\ ShapeFits(parents[i])
  /\ Cardinality({p.digest : p \in ToSet(parents)}) = Len(parents)

LEMMA ParentsAreChecked ==
  ASSUME NEW V, NEW parents \in Seq(V), NEW b \in BOOLEAN
  PROVE  ParentRefusals(parents, b) \in Checks /\ (NoneApplies(ParentRefusals(parents, b)) <=> ParentsFit(parents, b))
<1> DEFINE p1 == Len(parents) > MaxParents
           p2 == parents = <<>> /\ ~b
           p3 == Cardinality({p.digest : p \in ToSet(parents)}) # Len(parents)
           c1 == <<p1, "ENV-OVER-CAP">>
           c2 == <<p2, "ENV-LINEAGE-INVALID">>
           c3 == <<p3, "ENV-LINEAGE-INVALID">>
           s  == <<c1, c2>>
           t  == [i \in DOMAIN parents |-> PassedOn(SelfRefusal(parents[i]))]
           u  == [i \in DOMAIN parents |-> PassedOn(ShapeRefusal(parents[i]))]
           w  == <<c3>>
<1>1. ParentRefusals(parents, b) = ((s \o t) \o u) \o w
  BY DEF ParentRefusals
<1>2. p1 \in BOOLEAN /\ p2 \in BOOLEAN /\ p3 \in BOOLEAN
  OBVIOUS
<1>3. "ENV-OVER-CAP" \in EnvelopeCodes /\ "ENV-LINEAGE-INVALID" \in EnvelopeCodes
  BY DEF EnvelopeCodes
<1>4. DOMAIN parents = 1..Len(parents) /\ Len(parents) \in Nat
  OBVIOUS
<1>5. t \in Checks /\ Len(t) = Len(parents) /\ \A i \in 1..Len(t) : t[i][1] = (SelfRefusal(parents[i]) # Nothing)
  <2>1. \A i \in 1..Len(parents) : /\ PassedOn(SelfRefusal(parents[i])) \in Check
                                   /\ PassedOn(SelfRefusal(parents[i]))[1] = (SelfRefusal(parents[i]) # Nothing)
    BY SelfIsRefusedWithACode, APassedOn
  <2> QED BY <1>4, <2>1 DEF Checks
<1>6. u \in Checks /\ Len(u) = Len(parents) /\ \A i \in 1..Len(u) : u[i][1] = (ShapeRefusal(parents[i]) # Nothing)
  <2>1. \A i \in 1..Len(parents) : /\ PassedOn(ShapeRefusal(parents[i])) \in Check
                                   /\ PassedOn(ShapeRefusal(parents[i]))[1] = (ShapeRefusal(parents[i]) # Nothing)
    BY SelfIsRefusedWithACode, APassedOn
  <2> QED BY <1>4, <2>1 DEF Checks
<1> HIDE DEF t, u
<1>7. NoneApplies(t) /\ NoneApplies(u) <=> \A i \in 1..Len(parents) : IsSealed(parents[i]) /\ ShapeFits(parents[i])
  <2>1. \A i \in 1..Len(parents) : /\ SelfRefusal(parents[i]) = Nothing <=> parents[i].form # "incomplete" /\ IsSealed(parents[i])
                                   /\ ShapeRefusal(parents[i]) = Nothing <=> ShapeFits(parents[i])
                                   /\ ShapeFits(parents[i]) => parents[i].form # "incomplete"
    BY SelfIsRefusedWithACode DEF ShapeFits, PartsFit
  <2> QED BY <1>5, <1>6, <2>1 DEF NoneApplies
<1>8. ParentsFit(parents, b) <=> ~p1 /\ ~p2 /\ (NoneApplies(t) /\ NoneApplies(u)) /\ ~p3
  BY <1>7 DEF ParentsFit
<1> HIDE DEF p1, p2, p3
<1>9. c1 \in Check /\ c2 \in Check /\ c3 \in Check /\ c1[1] = p1 /\ c2[1] = p2 /\ c3[1] = p3
  BY <1>2, <1>3, ACheck
<1> HIDE DEF c1, c2, c3
<1>10. s \in Checks /\ w \in Checks /\ (NoneApplies(s) <=> ~p1 /\ ~p2) /\ (NoneApplies(w) <=> ~p3)
  BY <1>9, OneChecks, TwoChecks
<1> HIDE DEF s, w
<1>11. s \o t \in Checks /\ (NoneApplies(s \o t) <=> NoneApplies(s) /\ NoneApplies(t))
  BY <1>5, <1>10, ChecksJoin
<1>12. (s \o t) \o u \in Checks /\ (NoneApplies((s \o t) \o u) <=> NoneApplies(s \o t) /\ NoneApplies(u))
  BY <1>6, <1>11, ChecksJoin
<1>13. /\ ((s \o t) \o u) \o w \in Checks
       /\ NoneApplies(((s \o t) \o u) \o w) <=> NoneApplies((s \o t) \o u) /\ NoneApplies(w)
  BY <1>10, <1>12, ChecksJoin
<1> QED BY <1>1, <1>8, <1>10, <1>11, <1>12, <1>13

(* verify_lineage *)
LineageVerifies(e, parents) ==
  /\ ShapeFits(e) /\ IsSealed(e) /\ ParentsFit(parents, ~Derived(e))
  /\ ~Derived(e) => parents = <<>>
  /\ Derived(e) => TheParents(e, parents) /\ KeepsTaints(e, parents)
  /\ \A r \in e.parents : r.envelope # e.digest

LEMMA LineageIs ==
  ASSUME NEW V, NEW e, NEW parents \in Seq(V)
  PROVE  VerifyLineage(e, parents) = Nothing <=> LineageVerifies(e, parents)
<1> DEFINE b  == ~Derived(e)
           p1 == ~Derived(e) /\ parents # <<>>
           p2 == Derived(e) /\ ~TheParents(e, parents)
           p3 == \E r \in e.parents : r.envelope = e.digest
           p4 == Derived(e) /\ ~KeepsTaints(e, parents)
           c1 == <<p1, "ENV-LINEAGE-INVALID">>
           c2 == <<p2, "ENV-LINEAGE-INVALID">>
           c3 == <<p3, "ENV-LINEAGE-INVALID">>
           c4 == <<p4, "ENV-TAINT-MISSING">>
           s  == ShapeRefusals(e) \o DigestRefusals(e)
           t  == ParentRefusals(parents, b)
           u  == <<c1, c2, c3, c4>>
<1>1. VerifyLineage(e, parents) = FirstRefusal((s \o t) \o u)
  BY DEF VerifyLineage
<1>2. p1 \in BOOLEAN /\ p2 \in BOOLEAN /\ p3 \in BOOLEAN /\ p4 \in BOOLEAN /\ b \in BOOLEAN
  BY DEF Derived
<1>3. "ENV-TAINT-MISSING" \in EnvelopeCodes /\ "ENV-LINEAGE-INVALID" \in EnvelopeCodes
  BY DEF EnvelopeCodes
<1>4. LineageVerifies(e, parents)
        <=> (ShapeFits(e) /\ IsSealed(e)) /\ ParentsFit(parents, b) /\ (~p1 /\ ~p2 /\ ~p3 /\ ~p4)
  BY DEF LineageVerifies
<1>5. s \in Checks /\ (NoneApplies(s) <=> ShapeFits(e) /\ IsSealed(e))
  BY PublicIs
<1> HIDE DEF p1, p2, p3, p4, s, b
<1>6. t \in Checks /\ (NoneApplies(t) <=> ParentsFit(parents, b))
  BY <1>2, ParentsAreChecked
<1> HIDE DEF t
<1>7. /\ c1 \in Check /\ c2 \in Check /\ c3 \in Check /\ c4 \in Check
      /\ c1[1] = p1 /\ c2[1] = p2 /\ c3[1] = p3 /\ c4[1] = p4
  BY <1>2, <1>3, ACheck
<1> HIDE DEF c1, c2, c3, c4
<1>8. u \in Checks /\ (NoneApplies(u) <=> ~p1 /\ ~p2 /\ ~p3 /\ ~p4)
  BY <1>7, FourChecks
<1> HIDE DEF u
<1>9. s \o t \in Checks /\ (NoneApplies(s \o t) <=> NoneApplies(s) /\ NoneApplies(t))
  BY <1>5, <1>6, ChecksJoin
<1>10. (s \o t) \o u \in Checks /\ (NoneApplies((s \o t) \o u) <=> NoneApplies(s \o t) /\ NoneApplies(u))
  BY <1>8, <1>9, ChecksJoin
<1>11. FirstRefusal((s \o t) \o u) = Nothing <=> NoneApplies((s \o t) \o u)
  BY <1>10, NothingIsRefused
<1> QED BY <1>1, <1>4, <1>5, <1>6, <1>8, <1>9, <1>10, <1>11

(* verify_envelope *)
LEMMA ContentIs ==
  ASSUME NEW e, NEW c
  PROVE  VerifyEnvelope(e, c) = Nothing <=> ShapeFits(e) /\ ~(c.size > MaxContent) /\ IsSealed(e) /\ HasContent(e, c)
<1> DEFINE p1 == c.size > MaxContent
           p2 == ~HasContent(e, c)
           c1 == <<p1, "ENV-OVER-CAP">>
           c2 == <<p2, "ENV-DIGEST-MISMATCH">>
           s  == ShapeRefusals(e)
           t  == <<c1>>
           u  == DigestRefusals(e)
           w  == <<c2>>
<1>1. VerifyEnvelope(e, c) = FirstRefusal(((s \o t) \o u) \o w)
  BY DEF VerifyEnvelope
<1>2. p1 \in BOOLEAN /\ p2 \in BOOLEAN
  OBVIOUS
<1>3. "ENV-OVER-CAP" \in EnvelopeCodes /\ "ENV-DIGEST-MISMATCH" \in EnvelopeCodes
  BY DEF EnvelopeCodes
<1>4. s \in Checks /\ u \in Checks /\ (NoneApplies(s) <=> ShapeFits(e)) /\ (NoneApplies(u) <=> IsSealed(e))
  BY ShapeIsChecked, DigestIsChecked
<1>5. (~p1 <=> ~(c.size > MaxContent)) /\ (~p2 <=> HasContent(e, c))
  BY DEF HasContent
<1> HIDE DEF p1, p2, s, u
<1>6. c1 \in Check /\ c2 \in Check /\ c1[1] = p1 /\ c2[1] = p2
  BY <1>2, <1>3, ACheck
<1> HIDE DEF c1, c2
<1>7. t \in Checks /\ w \in Checks /\ (NoneApplies(t) <=> ~p1) /\ (NoneApplies(w) <=> ~p2)
  BY <1>6, OneChecks
<1> HIDE DEF t, w
<1>8. s \o t \in Checks /\ (NoneApplies(s \o t) <=> NoneApplies(s) /\ NoneApplies(t))
  BY <1>4, <1>7, ChecksJoin
<1>9. (s \o t) \o u \in Checks /\ (NoneApplies((s \o t) \o u) <=> NoneApplies(s \o t) /\ NoneApplies(u))
  BY <1>4, <1>8, ChecksJoin
<1>10. /\ ((s \o t) \o u) \o w \in Checks
       /\ NoneApplies(((s \o t) \o u) \o w) <=> NoneApplies((s \o t) \o u) /\ NoneApplies(w)
  BY <1>7, <1>9, ChecksJoin
<1>11. FirstRefusal(((s \o t) \o u) \o w) = Nothing <=> NoneApplies(((s \o t) \o u) \o w)
  BY <1>10, NothingIsRefused
<1> QED BY <1>1, <1>4, <1>5, <1>7, <1>8, <1>9, <1>10, <1>11

-----------------------------------------------------------------------------
(* The inductive invariant: the types, and every envelope is an object     *)
(* with a digest in it, whatever a carrier did to it.                      *)

Object(e) == "digest" \in DOMAIN e /\ e = [f \in DOMAIN e |-> e[f]]
LineageInv == TypeOK /\ IsFiniteSet(around) /\ \A e \in around : Object(e)

LEMMA SealedIsAnObject ==
  ASSUME NEW e, Object(e)
  PROVE  Object(Sealed(e))
BY DEF Object, Sealed

(* Nothing is left of an envelope that is not in its body and its digest. *)
LEMMA DigestOfOne ==
  ASSUME NEW one, NEW two, Object(one), Object(two), Body(one) = Body(two), one.digest = two.digest
  PROVE  one = two
<1>1. DOMAIN one = DOMAIN Body(one) /\ DOMAIN two = DOMAIN Body(two)
  BY DEF Body, Object
<1>2. ASSUME NEW f \in DOMAIN one PROVE one[f] = two[f]
  <2>1. CASE f = "digest"
    BY <2>1
  <2>2. CASE f # "digest"
    BY <2>2, <1>1 DEF Body, Object
  <2> QED BY <2>1, <2>2
<1> QED BY <1>1, <1>2 DEF Object

LEMMA DigestsAreOfOne ==
  ASSUME NEW one, NEW two, Object(one), Object(two),
         PublicRefusal(one) = Nothing, PublicRefusal(two) = Nothing, one.digest = two.digest
  PROVE  one = two
<1>1. EnvelopeDigest(one) = EnvelopeDigest(two)
  BY PublicIs DEF IsSealed
<1>2. Body(one) = Body(two)
  BY <1>1 DEF EnvelopeDigest, Hash
<1> QED BY <1>2, DigestOfOne

(* _make_envelope: whole, with the taints given. *)
LEMMA MadeIsWhole ==
  ASSUME NEW content, NEW media, NEW source, NEW parents, NEW transform, NEW taints, NEW bundle
  PROVE  LET e == MakeEnvelope(content, media, source, parents, transform, taints, bundle)
         IN  Object(e) /\ e.form = "whole" /\ e.taints = taints
<1> DEFINE r == [schema |-> 1, trust |-> "untrusted", form |-> "whole",
                 content |-> [digest |-> Hash("content", content.bytes), length |-> content.size, media |-> media],
                 source |-> source, parents |-> parents, transform |-> transform, taints |-> taints,
                 bundle |-> bundle, digest |-> Nothing]
<1>1. MakeEnvelope(content, media, source, parents, transform, taints, bundle) = Sealed(r)
  BY DEF MakeEnvelope
<1>2. "digest" \in DOMAIN r /\ "form" \in DOMAIN r /\ "taints" \in DOMAIN r
      /\ r.form = "whole" /\ r.taints = taints /\ r = [f \in DOMAIN r |-> r[f]]
  OBVIOUS
<1> HIDE DEF r
<1>3. Object(Sealed(r)) /\ Sealed(r).form = "whole" /\ Sealed(r).taints = taints
  BY <1>2, SealedIsAnObject DEF Object, Sealed
<1> QED BY <1>1, <1>3

LEMMA ListsOfParents ==
  ASSUME NEW V, NEW parents \in {<<>>} \cup ParentLists(V)
  PROVE  parents \in Seq(V) /\ ToSet(parents) \subseteq V
<1>1. CASE parents = <<>>
  BY <1>1 DEF ToSet
<1>2. ASSUME NEW p \in V, parents = <<p>> PROVE parents \in Seq(V) /\ ToSet(parents) \subseteq V
  BY <1>2 DEF ToSet
<1>3. ASSUME NEW p \in V, NEW q \in V, parents = <<p, q>>
      PROVE  parents \in Seq(V) /\ ToSet(parents) \subseteq V
  BY <1>3 DEF ToSet
<1> QED BY <1>1, <1>2, <1>3 DEF ParentLists

(* One more envelope. *)
LEMMA OneMore ==
  ASSUME LineageInv, Room, NEW e, Object(e), around' = around \cup {e}
  PROVE  /\ IsFiniteSet(around') /\ Cardinality(around') <= MaxEnvelopes
         /\ \A x \in around' : Object(x)
<1>1. IsFiniteSet(around) /\ Cardinality(around) < MaxEnvelopes /\ Cardinality(around) \in Nat
  BY FS_CardinalityType DEF LineageInv, Room
<1>2. /\ IsFiniteSet(around \cup {e})
      /\ Cardinality(around \cup {e}) = Cardinality(around) \/ Cardinality(around \cup {e}) = Cardinality(around) + 1
  BY <1>1, FS_AddElement
<1>3. Cardinality(around \cup {e}) <= MaxEnvelopes
  BY <1>1, <1>2, CirculationIsBounded
<1> QED BY <1>2, <1>3 DEF LineageInv

(* Whatever a constructor answers. *)
LEMMA MadeKeeps ==
  ASSUME LineageInv, Room, NEW answer, NEW content, NEW parents, Made(answer, content, parents),
         Object(answer.envelope), answer.envelope.form = "whole", "untrusted" \in answer.envelope.taints,
         ToSet(parents) \subseteq around
  PROVE  LineageInv'
<1> DEFINE e == answer.envelope
           m == [envelope |-> e, content |-> content, parents |-> ToSet(parents)]
<1>1. around' = around \cup {e} /\ made' = made \cup {m} /\ forgeries' = forgeries
  BY DEF Made
<1>2. m.envelope = e /\ m.parents = ToSet(parents)
  OBVIOUS
<1> HIDE DEF m
<1>3. IsFiniteSet(around') /\ Cardinality(around') <= MaxEnvelopes /\ \A x \in around' : Object(x)
  BY <1>1, OneMore
<1>4. forgeries' \in 0..MaxForgeries
  BY <1>1 DEF LineageInv, TypeOK
<1>5. \A x \in made' : /\ x.envelope \in around' /\ x.parents \subseteq around'
                       /\ x.envelope.form = "whole" /\ "untrusted" \in x.envelope.taints
  BY <1>1, <1>2 DEF LineageInv, TypeOK
<1> QED BY <1>3, <1>4, <1>5 DEF LineageInv, TypeOK

LEMMA IngressKeeps ==
  ASSUME LineageInv, NEW in \in IngressInputs, Ingress(in)
  PROVE  LineageInv'
<1> DEFINE e == CreateIngress(in).envelope
<1>1. Room /\ Made(CreateIngress(in), in.content, <<>>)
  BY DEF Ingress
<1>2. Object(e) /\ e.form = "whole" /\ e.taints = Tainted(in.taints)
  BY MadeIsWhole DEF CreateIngress, Answer
<1>3. "untrusted" \in Tainted(in.taints) /\ ToSet(<<>>) \subseteq around
  BY DEF Tainted, ToSet
<1> QED BY <1>1, <1>2, <1>3, MadeKeeps

LEMMA DeriveKeeps ==
  ASSUME LineageInv, NEW in \in DeriveInputs, NEW parents \in ParentLists(around), DeriveFrom(in, parents)
  PROVE  LineageInv'
<1> DEFINE e == Derive(in, parents).envelope
<1>1. Room /\ Made(Derive(in, parents), in.content, parents)
  BY DEF DeriveFrom
<1>2. Object(e) /\ e.form = "whole" /\ e.taints = Inherited(parents) \cup Tainted(in.taints)
  BY MadeIsWhole DEF Derive, Answer
<1>3. "untrusted" \in Tainted(in.taints)
  BY DEF Tainted
<1>4. ToSet(parents) \subseteq around
  BY ListsOfParents
<1> QED BY <1>1, <1>2, <1>3, <1>4, MadeKeeps

LEMMA AlteredIsAnObject ==
  ASSUME NEW e, Object(e), NEW altered \in Alterations(e)
  PROVE  Object(altered)
<1>1. ASSUME NEW t, altered = [e EXCEPT !.taints = @ \ {t}] PROVE Object(altered)
  BY <1>1 DEF Object
<1>2. ASSUME NEW c, altered = [e EXCEPT !.content.digest = Hash("content", c.bytes)] PROVE Object(altered)
  BY <1>2 DEF Object
<1>3. ASSUME NEW r, altered = [e EXCEPT !.parents = @ \ {r}] PROVE Object(altered)
  BY <1>3 DEF Object
<1>4. CASE altered \in {[e EXCEPT !.parents = {[r EXCEPT !.content = Nothing] : r \in @}],
                       [e EXCEPT !.taints = @ \cup {"harmless"}],
                       [e EXCEPT !.source.kind = "web"],
                       [e EXCEPT !.transform.kind = "deterministic"],
                       [e EXCEPT !.transform.parameters = Nothing],
                       [e EXCEPT !.bundle = Nothing],
                       [e EXCEPT !.schema = 2],
                       [e EXCEPT !.form = "unsorted"],
                       [e EXCEPT !.form = "incomplete"]}
  BY <1>4 DEF Object
<1> QED BY <1>1, <1>2, <1>3, <1>4 DEF Alterations

LEMMA AlterKeeps ==
  ASSUME LineageInv, NEW e \in around, Alter(e)
  PROVE  LineageInv'
<1>1. PICK altered \in Alterations(e) : \E carried \in Carried(altered) : around' = around \cup {carried}
  BY DEF Alter
<1>2. PICK carried \in Carried(altered) : around' = around \cup {carried}
  BY <1>1
<1>3. Room /\ forgeries < MaxForgeries /\ forgeries' = forgeries + 1 /\ made' = made
  BY DEF Alter
<1>4. Object(altered)
  BY AlteredIsAnObject DEF LineageInv
<1>5. Object(carried)
  <2> DEFINE resourced == [altered EXCEPT !.source = DerivedSource(altered.parents, altered.transform)]
  <2>1. Object(resourced)
    BY <1>4 DEF Object
  <2>2. carried \in {altered, Sealed(altered), Sealed(resourced)}
    BY DEF Carried
  <2> HIDE DEF resourced
  <2> QED BY <1>4, <2>1, <2>2, SealedIsAnObject
<1>6. IsFiniteSet(around') /\ Cardinality(around') <= MaxEnvelopes /\ \A x \in around' : Object(x)
  BY <1>2, <1>3, <1>5, OneMore
<1>7. forgeries' \in 0..MaxForgeries
  BY <1>3, CirculationIsBounded DEF LineageInv, TypeOK
<1>8. around \subseteq around'
  BY <1>2
<1> QED BY <1>3, <1>6, <1>7, <1>8 DEF LineageInv, TypeOK

(* The invariant, for any contents and any bounds: circulation is bounded, *)
(* what a constructor made is whole, marked untrusted and in circulation,  *)
(* and every envelope is an object with a digest.                          *)
THEOREM EnvelopesAreObjects == Spec => []LineageInv
<1>1. Init => LineageInv
  <2> SUFFICES ASSUME Init PROVE LineageInv
    OBVIOUS
  <2>1. IsFiniteSet(around) /\ Cardinality(around) = 0
    BY FS_EmptySet DEF Init
  <2> QED BY <2>1, CirculationIsBounded DEF Init, LineageInv, TypeOK
<1>2. LineageInv /\ [Next]_vars => LineageInv'
  <2> SUFFICES ASSUME LineageInv, [Next]_vars PROVE LineageInv'
    OBVIOUS
  <2>1. ASSUME NEW in \in IngressInputs, Ingress(in) PROVE LineageInv'
    BY <2>1, IngressKeeps
  <2>2. ASSUME NEW in \in DeriveInputs, NEW parents \in ParentLists(around), DeriveFrom(in, parents)
        PROVE  LineageInv'
    BY <2>2, DeriveKeeps
  <2>3. ASSUME NEW e \in around, Alter(e) PROVE LineageInv'
    BY <2>3, AlterKeeps
  <2>4. CASE UNCHANGED vars
    BY <2>4 DEF LineageInv, TypeOK, vars
  <2> QED BY <2>1, <2>2, <2>3, <2>4 DEF Next
<1> QED BY <1>1, <1>2, PTL DEF Spec

-----------------------------------------------------------------------------
(* DigestsBind.                                                            *)

(* A digest is of one content and of one envelope: whatever carriers do,   *)
(* no two envelopes that verify by themselves have the same digest, and    *)
(* none is accepted with two contents.                                     *)
THEOREM DigestsName == Spec => []DigestsBind
<1>1. LineageInv => DigestsBind
  <2> SUFFICES ASSUME LineageInv PROVE DigestsBind
    OBVIOUS
  <2>1. ASSUME NEW e \in around, NEW one \in Contents, NEW two \in Contents,
               VerifyEnvelope(e, one) = Nothing, VerifyEnvelope(e, two) = Nothing
        PROVE  one = two
    <3>1. HasContent(e, one) /\ HasContent(e, two)
      BY <2>1, ContentIs
    <3>2. one.size = two.size /\ one.bytes = two.bytes
      BY <3>1 DEF HasContent, Hash
    <3> QED BY <3>2, ContentsAreBytes
  <2>2. ASSUME NEW one \in Verifiable, NEW two \in Verifiable, one.digest = two.digest
        PROVE  one = two
    BY <2>2, DigestsAreOfOne DEF Verifiable, LineageInv
  <2> QED BY <2>1, <2>2 DEF DigestsBind, OneContent, DigestNames
<1> QED BY <1>1, EnvelopesAreObjects, PTL

-----------------------------------------------------------------------------
(* TaintsReachDown.                                                        *)

Keeps(R) == \A pair \in R : pair[2].taints \subseteq pair[1].taints

LEMMA KeepsJoin ==
  ASSUME NEW R, NEW S, Keeps(R), Keeps(S)
  PROVE  Keeps(R \cup S) /\ Keeps(Then(R, S))
<1>1. ASSUME NEW pair \in Then(R, S) PROVE pair[2].taints \subseteq pair[1].taints
  <2>1. PICK p \in R \X S : p[1][2] = p[2][1] /\ pair = <<p[1][1], p[2][2]>>
    BY <1>1 DEF Then
  <2>2. p[1][2].taints \subseteq p[1][1].taints /\ p[2][2].taints \subseteq p[2][1].taints
    BY DEF Keeps
  <2> QED BY <2>1, <2>2
<1> QED BY <1>1 DEF Keeps

LEMMA HopsAre ==
  ASSUME NEW h \in Hops
  PROVE  /\ h[1] \in Verifiable /\ h[2] \in Seq(Verifiable) /\ ToSet(h[2]) \subseteq Verifiable
         /\ VerifyLineage(h[1], h[2]) = Nothing
<1>1. /\ h[1] \in Verifiable /\ h[2] \in {<<>>} \cup ParentLists(Verifiable)
      /\ VerifyLineage(h[1], h[2]) = Nothing
  BY DEF Hops
<1> QED BY <1>1, ListsOfParents

LEMMA OneHopKeeps ==
  ASSUME NEW h \in Hops, NEW p \in ToSet(h[2])
  PROVE  p.taints \subseteq h[1].taints
<1>1. h[2] \in Seq(Verifiable) /\ VerifyLineage(h[1], h[2]) = Nothing
  BY HopsAre
<1>2. /\ ~Derived(h[1]) => h[2] = <<>>
      /\ Derived(h[1]) => KeepsTaints(h[1], h[2])
  BY <1>1, LineageIs DEF LineageVerifies
<1>3. ToSet(<<>>) = {}
  BY DEF ToSet
<1>4. KeepsTaints(h[1], h[2])
  BY <1>2, <1>3
<1> QED BY <1>4 DEF KeepsTaints, Inherited

LEMMA AncestorsKeep == Keeps(ComesFrom(Hops))
<1> DEFINE parent == UNION {{<<h[1], p>> : p \in ToSet(h[2])} : h \in Hops}
           grand  == parent \cup Then(parent, parent)
<1>1. Keeps(parent)
  <2>1. ASSUME NEW pair \in parent PROVE pair[2].taints \subseteq pair[1].taints
    <3>1. PICK h \in Hops : pair \in {<<h[1], p>> : p \in ToSet(h[2])}
      BY <2>1
    <3>2. PICK p \in ToSet(h[2]) : pair = <<h[1], p>>
      BY <3>1
    <3> QED BY <3>2, OneHopKeeps
  <2> QED BY <2>1 DEF Keeps
<1>2. ComesFrom(Hops) = grand \cup Then(grand, grand)
  BY DEF ComesFrom
<1> HIDE DEF parent
<1>3. Keeps(grand)
  BY <1>1, KeepsJoin
<1> HIDE DEF grand
<1> QED BY <1>2, <1>3, KeepsJoin

LEMMA OnlyOneLineage ==
  ASSUME LineageInv
  PROVE  OneLineage(Hops)
<1>1. ASSUME NEW h \in Hops, NEW k \in Hops, h[1] = k[1] PROVE ToSet(h[2]) \subseteq ToSet(k[2])
  <2>1. /\ h[2] \in Seq(Verifiable) /\ VerifyLineage(h[1], h[2]) = Nothing
        /\ k[2] \in Seq(Verifiable) /\ VerifyLineage(h[1], k[2]) = Nothing
        /\ ToSet(h[2]) \subseteq Verifiable /\ ToSet(k[2]) \subseteq Verifiable
    BY <1>1, HopsAre
  <2>2. CASE ~Derived(h[1])
    <3>1. h[2] = <<>> /\ k[2] = <<>>
      BY <2>1, <2>2, LineageIs DEF LineageVerifies
    <3> QED BY <3>1
  <2>3. CASE Derived(h[1])
    <3>1. RefsOf(h[2]) = RefsOf(k[2])
      BY <2>1, <2>3, LineageIs DEF LineageVerifies, TheParents
    <3>2. ASSUME NEW p \in ToSet(h[2]) PROVE p \in ToSet(k[2])
      <4>1. RefOf(p) \in RefsOf(k[2])
        BY <3>1 DEF RefsOf
      <4>2. PICK q \in ToSet(k[2]) : RefOf(p) = RefOf(q)
        BY <4>1 DEF RefsOf
      <4>3. p.digest = q.digest
        <5>1. RefOf(p).envelope = p.digest /\ RefOf(q).envelope = q.digest
          BY DEF RefOf
        <5> QED BY <4>2, <5>1
      <4>4. p = q
        BY <2>1, <4>3, DigestsAreOfOne DEF Verifiable, LineageInv
      <4> QED BY <4>4
    <3> QED BY <3>2
  <2> QED BY <2>2, <2>3
<1>2. ASSUME NEW h \in Hops, NEW k \in Hops, h[1] = k[1] PROVE ToSet(h[2]) = ToSet(k[2])
  <2>1. ToSet(h[2]) \subseteq ToSet(k[2]) /\ ToSet(k[2]) \subseteq ToSet(h[2])
    BY <1>1, <1>2
  <2> HIDE DEF Hops
  <2> QED BY <2>1
<1> HIDE DEF Hops
<1> QED BY <1>2 DEF OneLineage

(* Taint is never washed off: along hops that verify one by one, an        *)
(* envelope carries every taint of every envelope it comes from, whatever  *)
(* carriers did to those in between; and verify_lineage accepts one set of *)
(* parents as an envelope's own.                                           *)
THEOREM TaintIsInherited == Spec => []TaintsReachDown
<1>1. LineageInv => TaintsReachDown
  <2> SUFFICES ASSUME LineageInv PROVE TaintsReachDown
    OBVIOUS
  <2>1. TypeOK /\ OneLineage(Hops)
    BY OnlyOneLineage DEF LineageInv
  <2> QED BY <2>1, AncestorsKeep DEF TaintsReachDown, Keeps
<1> QED BY <1>1, EnvelopesAreObjects, PTL

-----------------------------------------------------------------------------
(* What the constructors ask of their arguments.                           *)

LEMMA MetadataIsChecked == ASSUME NEW data PROVE MetadataRefusals(data) \in Checks
<1> DEFINE p1 == data.size > MaxMetadata
           p2 == data.form = "malformed"
           p3 == data.form = "deep"
           p4 == data.form # "canonical"
           c1 == <<p1, "ENV-OVER-CAP">>
           c2 == <<p2, "ENV-MALFORMED">>
           c3 == <<p3, "ENV-OVER-CAP">>
           c4 == <<p4, "ENV-NONCANONICAL">>
<1>1. MetadataRefusals(data) = <<c1, c2, c3, c4>>
  BY DEF MetadataRefusals
<1>2. p1 \in BOOLEAN /\ p2 \in BOOLEAN /\ p3 \in BOOLEAN /\ p4 \in BOOLEAN
  OBVIOUS
<1>3. "ENV-OVER-CAP" \in EnvelopeCodes /\ "ENV-MALFORMED" \in EnvelopeCodes /\ "ENV-NONCANONICAL" \in EnvelopeCodes
  BY DEF EnvelopeCodes
<1> HIDE DEF p1, p2, p3, p4
<1>4. c1 \in Check /\ c2 \in Check /\ c3 \in Check /\ c4 \in Check
  BY <1>2, <1>3, ACheck
<1> HIDE DEF c1, c2, c3, c4
<1> QED BY <1>1, <1>4, FourChecks

(* _taints *)
TaintsFit(added) == ToSet(added) \subseteq TaintRegistry /\ ~(Cardinality(Tainted(added)) > MaxTaints)

LEMMA TaintsAreChecked ==
  ASSUME NEW added
  PROVE  TaintRefusals(added) \in Checks /\ (NoneApplies(TaintRefusals(added)) => TaintsFit(added))
<1> DEFINE p1 == Len(added) > MaxTaints
           p2 == ~(ToSet(added) \subseteq TaintRegistry)
           p3 == Cardinality(Tainted(added)) > MaxTaints
           c1 == <<p1, "ENV-OVER-CAP">>
           c2 == <<p2, "ENV-TAINT-UNKNOWN">>
           c3 == <<p3, "ENV-OVER-CAP">>
<1>1. TaintRefusals(added) = <<c1, c2, c3>>
  BY DEF TaintRefusals
<1>2. p1 \in BOOLEAN /\ p2 \in BOOLEAN /\ p3 \in BOOLEAN
  OBVIOUS
<1>3. "ENV-OVER-CAP" \in EnvelopeCodes /\ "ENV-TAINT-UNKNOWN" \in EnvelopeCodes
  BY DEF EnvelopeCodes
<1>4. ~p2 /\ ~p3 => TaintsFit(added)
  BY DEF TaintsFit
<1> HIDE DEF p1, p2, p3
<1>5. c1 \in Check /\ c2 \in Check /\ c3 \in Check /\ c1[1] = p1 /\ c2[1] = p2 /\ c3[1] = p3
  BY <1>2, <1>3, ACheck
<1> HIDE DEF c1, c2, c3
<1> QED BY <1>1, <1>4, <1>5, ThreeChecks

(* _hash_bundle *)
BundleFits(b) == b # Nothing => ~(Cardinality(b.dependencies) > MaxDependencies)

LEMMA AnyIsACode ==
  ASSUME NEW set
  PROVE  /\ AnyRefusal(set) \in EnvelopeCodes \cup {Nothing}
         /\ (\E d \in set : Refuses(d)) => AnyRefusal(set) # Nothing
<1>1. CASE \E d \in set : Refuses(d)
  <2> DEFINE d == CHOOSE x \in set : Refuses(x)
  <2>1. AnyRefusal(set) = FirstRefusal(MetadataRefusals(d)) /\ Refuses(d)
    BY <1>1 DEF AnyRefusal
  <2> HIDE DEF d
  <2> QED BY <2>1, MetadataIsChecked, NothingIsRefused DEF Refuses
<1>2. CASE ~\E d \in set : Refuses(d)
  BY <1>2 DEF AnyRefusal
<1> QED BY <1>1, <1>2

LEMMA BundleIsChecked ==
  ASSUME NEW b
  PROVE  BundleRefusals(b) \in Checks /\ (NoneApplies(BundleRefusals(b)) => BundleFits(b))
<1>1. CASE b = Nothing
  BY <1>1 DEF BundleRefusals, BundleFits, Checks
<1>2. CASE b # Nothing
  <2> DEFINE p1 == Cardinality(b.dependencies) > MaxDependencies
             p2 == \E d \in b.dependencies : Refuses(d)
             c1 == <<p1, "ENV-OVER-CAP">>
             c2 == <<p2, AnyRefusal(b.dependencies)>>
             s  == <<c1>>
             t  == MetadataRefusals(b.artifact)
             u  == <<c2>>
             w  == MetadataRefusals(b.claims)
  <2>1. BundleRefusals(b) = ((s \o t) \o u) \o w
    BY <1>2 DEF BundleRefusals
  <2>2. p1 \in BOOLEAN /\ p2 \in BOOLEAN /\ "ENV-OVER-CAP" \in EnvelopeCodes
    BY DEF EnvelopeCodes
  <2>3. ~p1 => BundleFits(b)
    BY DEF BundleFits
  <2>4. c2 \in Check
    BY AnyIsACode DEF Check
  <2> HIDE DEF p1, p2
  <2>5. c1 \in Check /\ c1[1] = p1
    BY <2>2, ACheck
  <2> HIDE DEF c1, c2
  <2>6. s \in Checks /\ u \in Checks /\ (NoneApplies(s) => ~p1)
    BY <2>4, <2>5, OneChecks
  <2>7. t \in Checks /\ w \in Checks
    BY MetadataIsChecked
  <2> HIDE DEF s, t, u, w
  <2>8. s \o t \in Checks /\ (NoneApplies(s \o t) => NoneApplies(s))
    BY <2>6, <2>7, ChecksJoin
  <2>9. (s \o t) \o u \in Checks /\ (NoneApplies((s \o t) \o u) => NoneApplies(s \o t))
    BY <2>6, <2>8, ChecksJoin
  <2>10. ((s \o t) \o u) \o w \in Checks /\ (NoneApplies(((s \o t) \o u) \o w) => NoneApplies((s \o t) \o u))
    BY <2>7, <2>9, ChecksJoin
  <2> QED BY <2>1, <2>3, <2>6, <2>8, <2>9, <2>10
<1> QED BY <1>1, <1>2

(* create_ingress *)
LEMMA IngressEstablishes ==
  ASSUME NEW in, CreateIngress(in).refusal = Nothing
  PROVE  /\ in.media \in MediaTypes /\ in.kind \in IngressKinds /\ in.transform = "ingress_capture"
         /\ ~(in.content.size > MaxContent) /\ ~(in.kind = "bundle_metadata" /\ in.bundle = Nothing)
         /\ TaintsFit(in.taints) /\ BundleFits(in.bundle)
<1> DEFINE p1 == in.media \notin MediaTypes \/ in.kind \notin IngressKinds
           p2 == in.transform # "ingress_capture"
           p3 == in.content.size > MaxContent
           p4 == in.kind = "bundle_metadata" /\ in.bundle = Nothing
           c1 == <<p1, "ENV-MALFORMED">>
           c2 == <<p2, "ENV-MALFORMED">>
           c3 == <<p3, "ENV-OVER-CAP">>
           c4 == <<p4, "ENV-BUNDLE-INVALID">>
           s  == <<c1, c2, c3, c4>>
           m1 == MetadataRefusals(in.identity)
           m2 == MetadataRefusals(in.claims)
           m3 == MetadataRefusals(in.implementation)
           m4 == MetadataRefusals(in.parameters)
           t  == TaintRefusals(in.taints)
           u  == BundleRefusals(in.bundle)
<1>1. FirstRefusal((((((s \o m1) \o m2) \o m3) \o m4) \o t) \o u) = Nothing
  BY DEF CreateIngress, Answer
<1>2. p1 \in BOOLEAN /\ p2 \in BOOLEAN /\ p3 \in BOOLEAN /\ p4 \in BOOLEAN
  OBVIOUS
<1>3. "ENV-OVER-CAP" \in EnvelopeCodes /\ "ENV-MALFORMED" \in EnvelopeCodes /\ "ENV-BUNDLE-INVALID" \in EnvelopeCodes
  BY DEF EnvelopeCodes
<1> SUFFICES ~p1 /\ ~p2 /\ ~p3 /\ ~p4 /\ TaintsFit(in.taints) /\ BundleFits(in.bundle)
  OBVIOUS
<1> HIDE DEF p1, p2, p3, p4
<1>4. /\ c1 \in Check /\ c2 \in Check /\ c3 \in Check /\ c4 \in Check
      /\ c1[1] = p1 /\ c2[1] = p2 /\ c3[1] = p3 /\ c4[1] = p4
  BY <1>2, <1>3, ACheck
<1> HIDE DEF c1, c2, c3, c4
<1>5. s \in Checks /\ (NoneApplies(s) <=> ~p1 /\ ~p2 /\ ~p3 /\ ~p4)
  BY <1>4, FourChecks
<1>6. /\ m1 \in Checks /\ m2 \in Checks /\ m3 \in Checks /\ m4 \in Checks
      /\ t \in Checks /\ (NoneApplies(t) => TaintsFit(in.taints))
      /\ u \in Checks /\ (NoneApplies(u) => BundleFits(in.bundle))
  BY MetadataIsChecked, TaintsAreChecked, BundleIsChecked
<1> HIDE DEF s, m1, m2, m3, m4, t, u
<1>7. (s \o m1) \o m2 \in Checks /\ (NoneApplies((s \o m1) \o m2) => NoneApplies(s))
  BY <1>5, <1>6, ChecksJoin
<1> DEFINE v == (s \o m1) \o m2
<1> HIDE DEF v
<1>8. (v \o m3) \o m4 \in Checks /\ (NoneApplies((v \o m3) \o m4) => NoneApplies(s))
  BY <1>6, <1>7, ChecksJoin DEF v
<1> DEFINE w == (v \o m3) \o m4
<1> HIDE DEF w
<1>9. (w \o t) \o u \in Checks /\ (NoneApplies((w \o t) \o u) => NoneApplies(s) /\ NoneApplies(t) /\ NoneApplies(u))
  <2>1. w \in Checks /\ (NoneApplies(w) => NoneApplies(s))
    BY <1>8 DEF w
  <2> QED BY <2>1, <1>6, ChecksJoin
<1>10. FirstRefusal((w \o t) \o u) = Nothing
  BY <1>1 DEF v, w
<1> QED BY <1>5, <1>6, <1>9, <1>10, NothingIsRefused

(* derive_envelope *)
LEMMA DeriveEstablishes ==
  ASSUME NEW V, NEW in, NEW parents \in Seq(V), Derive(in, parents).refusal = Nothing
  PROVE  /\ ParentsFit(parents, FALSE)
         /\ in.media \in MediaTypes /\ in.transform = "deterministic" /\ ~(in.content.size > MaxContent)
         /\ ~(Cardinality(Inherited(parents) \cup Tainted(in.taints)) > MaxTaints)
         /\ TaintsFit(in.taints) /\ BundleFits(in.bundle)
<1> DEFINE p1 == in.media \notin MediaTypes
           p2 == in.transform # "deterministic"
           p3 == in.content.size > MaxContent
           p4 == Cardinality(Inherited(parents) \cup Tainted(in.taints)) > MaxTaints
           c1 == <<p1, "ENV-MALFORMED">>
           c2 == <<p2, "ENV-MALFORMED">>
           c3 == <<p3, "ENV-OVER-CAP">>
           c4 == <<p4, "ENV-OVER-CAP">>
           r  == ParentRefusals(parents, FALSE)
           s  == <<c1, c2, c3>>
           t  == TaintRefusals(in.taints)
           q  == <<c4>>
           m1 == MetadataRefusals(in.implementation)
           m2 == MetadataRefusals(in.parameters)
           u  == BundleRefusals(in.bundle)
<1>1. FirstRefusal((((((r \o s) \o t) \o q) \o m1) \o m2) \o u) = Nothing
  BY DEF Derive, Answer
<1>2. p1 \in BOOLEAN /\ p2 \in BOOLEAN /\ p3 \in BOOLEAN /\ p4 \in BOOLEAN
  OBVIOUS
<1>3. "ENV-OVER-CAP" \in EnvelopeCodes /\ "ENV-MALFORMED" \in EnvelopeCodes
  BY DEF EnvelopeCodes
<1> SUFFICES /\ ParentsFit(parents, FALSE) /\ ~p1 /\ ~p2 /\ ~p3 /\ ~p4
             /\ TaintsFit(in.taints) /\ BundleFits(in.bundle)
  OBVIOUS
<1> HIDE DEF p1, p2, p3, p4
<1>4. /\ c1 \in Check /\ c2 \in Check /\ c3 \in Check /\ c4 \in Check
      /\ c1[1] = p1 /\ c2[1] = p2 /\ c3[1] = p3 /\ c4[1] = p4
  BY <1>2, <1>3, ACheck
<1> HIDE DEF c1, c2, c3, c4
<1>5. s \in Checks /\ (NoneApplies(s) <=> ~p1 /\ ~p2 /\ ~p3) /\ q \in Checks /\ (NoneApplies(q) <=> ~p4)
  BY <1>4, OneChecks, ThreeChecks
<1>6. /\ m1 \in Checks /\ m2 \in Checks
      /\ t \in Checks /\ (NoneApplies(t) => TaintsFit(in.taints))
      /\ u \in Checks /\ (NoneApplies(u) => BundleFits(in.bundle))
  BY MetadataIsChecked, TaintsAreChecked, BundleIsChecked
<1>7. r \in Checks /\ (NoneApplies(r) => ParentsFit(parents, FALSE))
  BY ParentsAreChecked
<1> HIDE DEF r, s, t, q, m1, m2, u
<1>8. (r \o s) \o t \in Checks /\ (NoneApplies((r \o s) \o t) => NoneApplies(r) /\ NoneApplies(s) /\ NoneApplies(t))
  BY <1>5, <1>6, <1>7, ChecksJoin
<1> DEFINE v == (r \o s) \o t
<1> HIDE DEF v
<1>9. (v \o q) \o m1 \in Checks /\ (NoneApplies((v \o q) \o m1) => NoneApplies(v) /\ NoneApplies(q))
  <2>1. v \in Checks
    BY <1>8 DEF v
  <2> QED BY <2>1, <1>5, <1>6, ChecksJoin
<1> DEFINE w == (v \o q) \o m1
<1> HIDE DEF w
<1>10. (w \o m2) \o u \in Checks /\ (NoneApplies((w \o m2) \o u) => NoneApplies(w) /\ NoneApplies(u))
  <2>1. w \in Checks
    BY <1>9 DEF w
  <2> QED BY <2>1, <1>6, ChecksJoin
<1>11. FirstRefusal((w \o m2) \o u) = Nothing
  BY <1>1 DEF v, w
<1>12. NoneApplies(w) /\ NoneApplies(u)
  BY <1>10, <1>11, NothingIsRefused
<1>13. NoneApplies(v) /\ NoneApplies(q)
  BY <1>9, <1>12 DEF w
<1>14. NoneApplies(r) /\ NoneApplies(s) /\ NoneApplies(t)
  BY <1>8, <1>13 DEF v
<1> QED BY <1>5, <1>6, <1>7, <1>12, <1>13, <1>14

-----------------------------------------------------------------------------
(* Counting.                                                               *)

LEMMA ImageIsSmaller ==
  ASSUME NEW S, IsFiniteSet(S), NEW T, NEW f \in [S -> T], T = {f[x] : x \in S}
  PROVE  IsFiniteSet(T) /\ Cardinality(T) <= Cardinality(S)
<1>1. f \in Surjection(S, T)
  BY DEF Surjection
<1> QED BY <1>1, FS_Surjection

(* A list whose members have as many digests as it has places holds no      *)
(* member twice, and no two of their references are of one envelope.        *)
LEMMA DigestsCount ==
  ASSUME NEW V, NEW parents \in Seq(V), Cardinality({p.digest : p \in ToSet(parents)}) = Len(parents)
  PROVE  /\ IsFiniteSet(ToSet(parents)) /\ Cardinality(ToSet(parents)) = Len(parents)
         /\ Distinct(RefsOf(parents)) /\ Cardinality(RefsOf(parents)) = Len(parents)
<1> DEFINE n == Len(parents)
           P == ToSet(parents)
           D == {p.digest : p \in P}
           R == RefsOf(parents)
           F == {r.envelope : r \in R}
<1>1. n \in Nat /\ DOMAIN parents = 1..n
  OBVIOUS
<1>2. IsFiniteSet(1..n) /\ Cardinality(1..n) = n
  <2>1. ASSUME NEW k \in Nat PROVE IsFiniteSet(1..k) /\ Cardinality(1..k) = k
    <3>1. 1 \in Int /\ k \in Int
      OBVIOUS
    <3>2. Cardinality(1..k) = IF 1 > k THEN 0 ELSE k - 1 + 1
      BY <3>1, FS_Interval
    <3>3. IsFiniteSet(1..k)
      BY <3>1, FS_Interval
    <3> QED BY <3>2, <3>3
  <2> QED BY <1>1, <2>1
<1>3. P = {parents[i] : i \in 1..n}
  BY <1>1 DEF ToSet
<1>4. R = {RefOf(p) : p \in P}
  BY DEF RefsOf
<1>5. F = D
  <2>1. \A p : RefOf(p).envelope = p.digest
    BY DEF RefOf
  <2> QED BY <1>4, <2>1
<1>6. Cardinality(D) = n
  OBVIOUS
<1> HIDE DEF n, P, R, D
<1>7. IsFiniteSet(P) /\ Cardinality(P) <= n
  <2> DEFINE f == [i \in 1..n |-> parents[i]]
  <2>1. f \in [1..n -> P] /\ P = {f[i] : i \in 1..n}
    BY <1>3
  <2> HIDE DEF f
  <2> QED BY <1>2, <2>1, ImageIsSmaller
<1>8. IsFiniteSet(R) /\ Cardinality(R) <= Cardinality(P)
  <2> DEFINE f == [p \in P |-> RefOf(p)]
  <2>1. f \in [P -> R] /\ R = {f[p] : p \in P}
    BY <1>4
  <2> HIDE DEF f
  <2> QED BY <1>7, <2>1, ImageIsSmaller
<1>9. IsFiniteSet(F) /\ Cardinality(F) <= Cardinality(R)
  <2> DEFINE f == [r \in R |-> r.envelope]
  <2>1. f \in [R -> F] /\ F = {f[r] : r \in R}
    OBVIOUS
  <2> HIDE DEF f, F
  <2> QED BY <1>8, <2>1, ImageIsSmaller
<1>10. Cardinality(P) \in Nat /\ Cardinality(R) \in Nat /\ Cardinality(F) \in Nat
  BY <1>7, <1>8, <1>9, FS_CardinalityType
<1>11. Cardinality(F) = n
  BY <1>5, <1>6
<1>12. Cardinality(P) = n /\ Cardinality(R) = n
  BY <1>1, <1>7, <1>8, <1>9, <1>10, <1>11
<1>13. Distinct(R)
  BY <1>11, <1>12 DEF Distinct
<1> QED BY <1>7, <1>12, <1>13 DEF n, P, R

-----------------------------------------------------------------------------
(* The parser.                                                             *)

FieldsFit(d) == d.form = "canonical" /\ DOMAIN d.fields = WireFields
WireFits(d) ==
  LET e == d.fields IN
  /\ e.schema = 1 /\ e.trust = "untrusted"
  /\ ~(Cardinality(e.parents) > MaxParents) /\ ~(Cardinality(e.taints) > MaxTaints)
  /\ d.lists # "unsorted" /\ Distinct(e.parents)
  /\ ~(e.bundle # Nothing /\ Cardinality(e.bundle.dependencies) > MaxDependencies)
  /\ e.taints \subseteq TaintRegistry /\ "untrusted" \in e.taints

LEMMA FieldsAreChecked ==
  ASSUME NEW d
  PROVE  FieldRefusals(d) \in Checks /\ (NoneApplies(FieldRefusals(d)) <=> FieldsFit(d))
<1> DEFINE p1 == d.form = "malformed"
           p2 == d.form # "canonical"
           p3 == "schema" \notin DOMAIN d.fields
           p4 == "trust" \notin DOMAIN d.fields
           p5 == "taints" \notin DOMAIN d.fields
           p6 == "bundle" \notin DOMAIN d.fields
           p7 == ~(DOMAIN d.fields \subseteq WireFields)
           p8 == ~(WireFields \subseteq DOMAIN d.fields)
           c1 == <<p1, "ENV-MALFORMED">>
           c2 == <<p2, "ENV-NONCANONICAL">>
           c3 == <<p3, "ENV-SCHEMA-UNKNOWN">>
           c4 == <<p4, "ENV-TRUST-INVALID">>
           c5 == <<p5, "ENV-TAINT-MISSING">>
           c6 == <<p6, "ENV-BUNDLE-INVALID">>
           c7 == <<p7, "ENV-UNKNOWN-FIELD">>
           c8 == <<p8, "ENV-MALFORMED">>
           s  == <<c1, c2, c3, c4, c5, c6, c7, c8>>
<1>1. FieldRefusals(d) = s
  BY DEF FieldRefusals
<1>2. /\ p1 \in BOOLEAN /\ p2 \in BOOLEAN /\ p3 \in BOOLEAN /\ p4 \in BOOLEAN
      /\ p5 \in BOOLEAN /\ p6 \in BOOLEAN /\ p7 \in BOOLEAN /\ p8 \in BOOLEAN
  BY DEF Derived
<1>3. /\ "ENV-BUNDLE-INVALID" \in EnvelopeCodes /\ "ENV-MALFORMED" \in EnvelopeCodes
      /\ "ENV-NONCANONICAL" \in EnvelopeCodes /\ "ENV-SCHEMA-UNKNOWN" \in EnvelopeCodes
      /\ "ENV-TAINT-MISSING" \in EnvelopeCodes /\ "ENV-TRUST-INVALID" \in EnvelopeCodes
      /\ "ENV-UNKNOWN-FIELD" \in EnvelopeCodes
  BY DEF EnvelopeCodes
<1>4. FieldsFit(d) <=> ~p1 /\ ~p2 /\ ~p3 /\ ~p4 /\ ~p5 /\ ~p6 /\ ~p7 /\ ~p8
  BY DEF FieldsFit, WireFields
<1> HIDE DEF p1, p2, p3, p4, p5, p6, p7, p8
<1>5. /\ c1 \in Check /\ c2 \in Check /\ c3 \in Check /\ c4 \in Check
      /\ c5 \in Check /\ c6 \in Check /\ c7 \in Check /\ c8 \in Check
  BY <1>2, <1>3, ACheck
<1>6. /\ c1[1] = p1 /\ c2[1] = p2 /\ c3[1] = p3 /\ c4[1] = p4
      /\ c5[1] = p5 /\ c6[1] = p6 /\ c7[1] = p7 /\ c8[1] = p8
  OBVIOUS
<1> HIDE DEF c1, c2, c3, c4, c5, c6, c7, c8
<1>7. s \in Checks /\ (NoneApplies(s) <=> ~p1 /\ ~p2 /\ ~p3 /\ ~p4 /\ ~p5 /\ ~p6 /\ ~p7 /\ ~p8)
  BY <1>5, <1>6, EightChecks
<1> QED BY <1>1, <1>4, <1>7

LEMMA WireListsAreChecked ==
  ASSUME NEW d
  PROVE  WireListRefusals(d) \in Checks /\ (NoneApplies(WireListRefusals(d)) <=> WireFits(d))
<1> DEFINE p1 == d.fields.schema # 1
           p2 == d.fields.trust # "untrusted"
           p3 == TooMany(Cardinality(d.fields.parents), MaxParents) \/ TooMany(Cardinality(d.fields.taints), MaxTaints)
           p4 == d.lists = "unsorted" \/ ~Distinct(d.fields.parents)
           p5 == d.fields.bundle # Nothing /\ TooMany(Cardinality(d.fields.bundle.dependencies), MaxDependencies)
           p6 == ~(d.fields.taints \subseteq TaintRegistry)
           p7 == "untrusted" \notin d.fields.taints
           c1 == <<p1, "ENV-SCHEMA-UNKNOWN">>
           c2 == <<p2, "ENV-TRUST-INVALID">>
           c3 == <<p3, "ENV-OVER-CAP">>
           c4 == <<p4, "ENV-LINEAGE-INVALID">>
           c5 == <<p5, "ENV-OVER-CAP">>
           c6 == <<p6, "ENV-TAINT-UNKNOWN">>
           c7 == <<p7, "ENV-TAINT-MISSING">>
           s  == <<c1, c2, c3, c4, c5, c6, c7>>
<1>1. WireListRefusals(d) = s
  BY DEF WireListRefusals
<1>2. /\ p1 \in BOOLEAN /\ p2 \in BOOLEAN /\ p3 \in BOOLEAN /\ p4 \in BOOLEAN
      /\ p5 \in BOOLEAN /\ p6 \in BOOLEAN /\ p7 \in BOOLEAN
  BY DEF Derived
<1>3. /\ "ENV-LINEAGE-INVALID" \in EnvelopeCodes /\ "ENV-OVER-CAP" \in EnvelopeCodes
      /\ "ENV-SCHEMA-UNKNOWN" \in EnvelopeCodes /\ "ENV-TAINT-MISSING" \in EnvelopeCodes
      /\ "ENV-TAINT-UNKNOWN" \in EnvelopeCodes /\ "ENV-TRUST-INVALID" \in EnvelopeCodes
  BY DEF EnvelopeCodes
<1>4. WireFits(d) <=> ~p1 /\ ~p2 /\ ~p3 /\ ~p4 /\ ~p5 /\ ~p6 /\ ~p7
  BY DEF WireFits, TooMany, Distinct
<1> HIDE DEF p1, p2, p3, p4, p5, p6, p7
<1>5. /\ c1 \in Check /\ c2 \in Check /\ c3 \in Check /\ c4 \in Check
      /\ c5 \in Check /\ c6 \in Check /\ c7 \in Check
  BY <1>2, <1>3, ACheck
<1>6. /\ c1[1] = p1 /\ c2[1] = p2 /\ c3[1] = p3 /\ c4[1] = p4
      /\ c5[1] = p5 /\ c6[1] = p6 /\ c7[1] = p7
  OBVIOUS
<1> HIDE DEF c1, c2, c3, c4, c5, c6, c7
<1>7. s \in Checks /\ (NoneApplies(s) <=> ~p1 /\ ~p2 /\ ~p3 /\ ~p4 /\ ~p5 /\ ~p6 /\ ~p7)
  BY <1>5, <1>6, SevenChecks
<1> QED BY <1>1, <1>4, <1>7

NotOfItself(e) == \A r \in e.parents : r.envelope # e.digest

LEMMA ParseIs ==
  ASSUME NEW d, NEW e, e = Parsed(d)
  PROVE  ParseRefusal(d) = Nothing
           <=> FieldsFit(d) /\ WireFits(d) /\ LineageFits(e) /\ NotOfItself(e) /\ IsSealed(e) /\ ShapeFits(e)
<1> DEFINE p == \E r \in e.parents : r.envelope = e.digest
           c == <<p, "ENV-LINEAGE-INVALID">>
           s == WireListRefusals(d)
           t == LineageRefusals(e)
           w == <<c>>
           v == DigestRefusals(e)
           x == ShapeRefusals(e)
           all == (s \o t) \o ((w \o v) \o x)
<1>1. ParseRefusal(d) = OrElse(FirstRefusal(FieldRefusals(d)), FirstRefusal(all))
  BY DEF ParseRefusal, WireSelfRefusals
<1>2. p \in BOOLEAN /\ "ENV-LINEAGE-INVALID" \in EnvelopeCodes /\ (NotOfItself(e) <=> ~p)
  BY DEF EnvelopeCodes, NotOfItself
<1> HIDE DEF p
<1>3. c \in Check /\ c[1] = p
  BY <1>2, ACheck
<1> HIDE DEF c
<1>4. w \in Checks /\ (NoneApplies(w) <=> ~p)
  BY <1>3, OneChecks
<1>5. /\ s \in Checks /\ (NoneApplies(s) <=> WireFits(d)) /\ t \in Checks /\ (NoneApplies(t) <=> LineageFits(e))
      /\ v \in Checks /\ (NoneApplies(v) <=> IsSealed(e)) /\ x \in Checks /\ (NoneApplies(x) <=> ShapeFits(e))
  BY WireListsAreChecked, LineageIsChecked, DigestIsChecked, ShapeIsChecked
<1> HIDE DEF s, t, w, v, x
<1>6. s \o t \in Checks /\ (NoneApplies(s \o t) <=> NoneApplies(s) /\ NoneApplies(t))
  BY <1>5, ChecksJoin
<1>7. w \o v \in Checks /\ (NoneApplies(w \o v) <=> NoneApplies(w) /\ NoneApplies(v))
  BY <1>4, <1>5, ChecksJoin
<1>8. (w \o v) \o x \in Checks /\ (NoneApplies((w \o v) \o x) <=> NoneApplies(w \o v) /\ NoneApplies(x))
  BY <1>5, <1>7, ChecksJoin
<1>9. all \in Checks /\ (NoneApplies(all) <=> NoneApplies(s \o t) /\ NoneApplies((w \o v) \o x))
  BY <1>6, <1>8, ChecksJoin
<1> HIDE DEF all
<1>10. FirstRefusal(all) = Nothing <=> NoneApplies(all)
  BY <1>9, NothingIsRefused
<1>11. FirstRefusal(FieldRefusals(d)) = Nothing <=> FieldsFit(d)
  BY FieldsAreChecked, NothingIsRefused
<1>12. ParseRefusal(d) = Nothing <=> FieldsFit(d) /\ NoneApplies(all)
  BY <1>1, <1>10, <1>11 DEF OrElse
<1> QED BY <1>2, <1>4, <1>5, <1>6, <1>7, <1>8, <1>9, <1>12

(* An envelope object, with its wire fields and the references of its parents. *)
Wired(e) ==
  /\ DOMAIN e = WireFields \cup {"form"} /\ e = [f \in DOMAIN e |-> e[f]]
  /\ e.form \in {"whole", "unsorted", "incomplete"}
  /\ \A r \in e.parents : "envelope" \in DOMAIN r
Acyclic(e) == IsSealed(e) => NotOfItself(e)

LEMMA WholeIsParsed ==
  ASSUME NEW e, Wired(e), e.form = "whole"
  PROVE  /\ Document(e) = [form |-> "canonical", lists |-> "sorted", fields |-> [f \in WireFields |-> e[f]]]
         /\ Parsed(Document(e)) = e
<1>1. Document(e) = [form |-> "canonical", lists |-> "sorted", fields |-> [f \in WireFields |-> e[f]]]
  BY DEF Document
<1> DEFINE d == Document(e)
<1>2. \A f \in WireFields : d.fields[f] = e[f]
  BY <1>1
<1>3. Parsed(d) = [f \in WireFields \cup {"form"} |-> IF f = "form" THEN "whole" ELSE d.fields[f]]
  BY DEF Parsed
<1> HIDE DEF d
<1>4. Parsed(d) = [f \in WireFields \cup {"form"} |-> e[f]]
  BY <1>2, <1>3 DEF WireFields
<1>5. e = [f \in WireFields \cup {"form"} |-> e[f]]
  BY DEF Wired
<1> QED BY <1>1, <1>4, <1>5 DEF d

(* Parser and verifier: an envelope that does not refer to itself is accepted by both or none. *)
LEMMA ParserIs ==
  ASSUME NEW e, Wired(e), Acyclic(e)
  PROVE  ParseRefusal(Document(e)) = Nothing <=> PublicRefusal(e) = Nothing
<1> DEFINE d == Document(e)
<1>0. PICK x : x = Parsed(d)
  OBVIOUS
<1>1. CASE e.form = "incomplete"
  <2>1. DOMAIN d.fields = WireFields \ {"transform"} /\ "transform" \in WireFields
    BY <1>1 DEF Document, WireFields
  <2>2. ~FieldsFit(d) /\ ~ShapeFits(e)
    BY <1>1, <2>1 DEF FieldsFit, ShapeFits, PartsFit
  <2> HIDE DEF d
  <2>3. ParseRefusal(d) # Nothing /\ PublicRefusal(e) # Nothing
    BY <1>0, <2>2, ParseIs, PublicIs
  <2> QED BY <2>3 DEF d
<1>2. CASE e.form = "unsorted"
  <2>1. d.lists = "unsorted"
    BY <1>2 DEF Document
  <2>2. ~WireFits(d) /\ ~ShapeFits(e)
    BY <1>2, <2>1 DEF WireFits, ShapeFits, ListsFit
  <2> HIDE DEF d
  <2>3. ParseRefusal(d) # Nothing /\ PublicRefusal(e) # Nothing
    BY <1>0, <2>2, ParseIs, PublicIs
  <2> QED BY <2>3 DEF d
<1>3. CASE e.form = "whole"
  <2>1. d = [form |-> "canonical", lists |-> "sorted", fields |-> [f \in WireFields |-> e[f]]] /\ e = Parsed(d)
    BY <1>3, WholeIsParsed
  <2> HIDE DEF d
  <2>2. FieldsFit(d) /\ d.lists = "sorted"
    BY <2>1 DEF FieldsFit
  <2>3. \A f \in WireFields : d.fields[f] = e[f]
    BY <2>1
  <2>4. /\ d.fields.schema = e.schema /\ d.fields.trust = e.trust /\ d.fields.parents = e.parents
        /\ d.fields.taints = e.taints /\ d.fields.bundle = e.bundle
    BY <2>3 DEF WireFields
  <2>5. ShapeFits(e) => WireFits(d) /\ LineageFits(e)
    BY <2>2, <2>4 DEF ShapeFits, PartsFit, ListsFit, WireFits
  <2>6. ParseRefusal(d) = Nothing <=> ShapeFits(e) /\ IsSealed(e)
    BY <2>1, <2>2, <2>5, ParseIs DEF Acyclic
  <2>7. PublicRefusal(e) = Nothing <=> ShapeFits(e) /\ IsSealed(e)
    BY PublicIs
  <2> QED BY <2>6, <2>7 DEF d
<1>4. e.form = "incomplete" \/ e.form = "unsorted" \/ e.form = "whole"
  BY DEF Wired
<1> QED BY <1>1, <1>2, <1>3, <1>4

-----------------------------------------------------------------------------
(* What the constructors make.                                             *)

(* MadeVerifies, of one envelope that was made. *)
Accepted(m) ==
  /\ VerifyEnvelope(m.envelope, m.content) = Nothing
  /\ \A parents \in {<<>>} \cup ParentLists(m.parents) :
         ToSet(parents) = m.parents /\ Len(parents) = Cardinality(m.parents) =>
         VerifyLineage(m.envelope, parents) = Nothing
  /\ PublicRefusal(m.envelope) = Nothing
  /\ ParseRefusal(Document(m.envelope)) = Nothing /\ Parsed(Document(m.envelope)) = m.envelope

(* Sealing puts in the digest of the rest, and what it seals is sealed. *)
LEMMA SealedIs ==
  ASSUME NEW e, Wired(e)
  PROVE  /\ Wired(Sealed(e)) /\ IsSealed(Sealed(e))
         /\ \A f \in (WireFields \cup {"form"}) \ {"digest"} : Sealed(e)[f] = e[f]
<1>1. "digest" \in DOMAIN e /\ "parents" \in DOMAIN e /\ "form" \in DOMAIN e
  BY DEF Wired, WireFields
<1>2. DOMAIN Sealed(e) = DOMAIN e /\ Sealed(e) = [f \in DOMAIN e |-> IF f = "digest" THEN EnvelopeDigest(e) ELSE e[f]]
  BY <1>1 DEF Sealed, Wired
<1>3. Wired(Sealed(e))
  BY <1>1, <1>2 DEF Wired
<1>4. Body(Sealed(e)) = Body(e)
  <2>1. DOMAIN Body(Sealed(e)) = DOMAIN e /\ DOMAIN Body(e) = DOMAIN e
    BY <1>2 DEF Body
  <2>2. \A f \in DOMAIN e : Body(Sealed(e))[f] = Body(e)[f]
    BY <1>1, <1>2 DEF Body
  <2>3. /\ Body(e) = [f \in DOMAIN e |-> Body(e)[f]]
        /\ Body(Sealed(e)) = [f \in DOMAIN e |-> Body(Sealed(e))[f]]
    BY <1>2 DEF Body
  <2> QED BY <2>1, <2>2, <2>3
<1>5. Sealed(e).digest = EnvelopeDigest(e)
  BY <1>1, <1>2
<1>6. IsSealed(Sealed(e))
  BY <1>4, <1>5 DEF IsSealed, EnvelopeDigest
<1>7. \A f \in (WireFields \cup {"form"}) \ {"digest"} : f \in DOMAIN e /\ Sealed(e)[f] = e[f]
  BY <1>2 DEF Wired
<1> QED BY <1>3, <1>6, <1>7

(* _make_envelope *)
LEMMA MadeIs ==
  ASSUME NEW content, NEW media, NEW source, NEW parents, NEW transform, NEW taints, NEW bundle,
         \A r \in parents : "envelope" \in DOMAIN r,
         NEW e, e = MakeEnvelope(content, media, source, parents, transform, taints, bundle)
  PROVE  /\ Wired(e) /\ IsSealed(e) /\ e.form = "whole" /\ e.schema = 1 /\ e.trust = "untrusted"
         /\ e.content = [digest |-> Hash("content", content.bytes), length |-> content.size, media |-> media]
         /\ e.source = source /\ e.parents = parents /\ e.transform = transform
         /\ e.taints = taints /\ e.bundle = bundle
<1> DEFINE given == [digest |-> Hash("content", content.bytes), length |-> content.size, media |-> media]
           x == [schema |-> 1, trust |-> "untrusted", form |-> "whole", content |-> given,
                 source |-> source, parents |-> parents, transform |-> transform, taints |-> taints,
                 bundle |-> bundle, digest |-> Nothing]
<1>1. e = Sealed(x)
  BY DEF MakeEnvelope
<1> HIDE DEF given
<1>2. /\ x.form = "whole" /\ x.schema = 1 /\ x.trust = "untrusted" /\ x.content = given
      /\ x.source = source /\ x.parents = parents /\ x.transform = transform
      /\ x.taints = taints /\ x.bundle = bundle
  OBVIOUS
<1>3. DOMAIN x = WireFields \cup {"form"} /\ x = [f \in DOMAIN x |-> x[f]]
  BY DEF WireFields
<1> HIDE DEF x
<1>4. Wired(x)
  BY <1>2, <1>3 DEF Wired
<1>5. /\ Wired(e) /\ IsSealed(e)
      /\ \A f \in (WireFields \cup {"form"}) \ {"digest"} : e[f] = x[f]
  BY <1>1, <1>4, SealedIs
<1>6. /\ e.form = x.form /\ e.schema = x.schema /\ e.trust = x.trust /\ e.content = x.content
      /\ e.source = x.source /\ e.parents = x.parents /\ e.transform = x.transform
      /\ e.taints = x.taints /\ e.bundle = x.bundle
  BY <1>5 DEF WireFields
<1> QED BY <1>2, <1>5, <1>6 DEF given

(* A bundle keeps to its cap when it is hashed. *)
LEMMA HashedBundleFits ==
  ASSUME NEW in \in IngressInputs \cup DeriveInputs, BundleFits(in.bundle)
  PROVE  /\ ~(HashBundle(in.bundle) # Nothing /\ Cardinality(HashBundle(in.bundle).dependencies) > MaxDependencies)
         /\ in.bundle # Nothing => HashBundle(in.bundle) # Nothing
<1>1. CASE in.bundle = Nothing
  BY <1>1 DEF HashBundle
<1>2. CASE in.bundle # Nothing
  <2> DEFINE D == in.bundle.dependencies
             H == {Hash("bundle-dependency", d.value) : d \in D}
             f == [d \in D |-> Hash("bundle-dependency", d.value)]
  <2>1. IsFiniteSet(D) /\ HashBundle(in.bundle) # Nothing /\ ~(Cardinality(D) > MaxDependencies)
    BY <1>2, BundlesAreWhole DEF BundleFits
  <2>2. HashBundle(in.bundle).dependencies = H
    BY <1>2 DEF HashBundle
  <2>3. f \in [D -> H] /\ H = {f[d] : d \in D}
    OBVIOUS
  <2> HIDE DEF D, H, f
  <2>4. IsFiniteSet(H) /\ Cardinality(H) <= Cardinality(D)
    BY <2>1, <2>3, ImageIsSmaller
  <2>5. Cardinality(H) \in Nat /\ Cardinality(D) \in Nat /\ MaxDependencies \in Nat
    BY <2>1, <2>4, FS_CardinalityType, Caps
  <2>6. ~(Cardinality(H) > MaxDependencies)
    BY <2>1, <2>4, <2>5
  <2> QED BY <2>1, <2>2, <2>6
<1> QED BY <1>1, <1>2

(* An envelope that fits, with its content and with its parents in any order. *)
LEMMA FittingIsAccepted ==
  ASSUME NEW m, Wired(m.envelope), IsSealed(m.envelope), NotOfItself(m.envelope), m.envelope.form = "whole",
         ShapeFits(m.envelope), HasContent(m.envelope, m.content), ~(m.content.size > MaxContent),
         \A parents \in {<<>>} \cup ParentLists(m.parents) :
            ToSet(parents) = m.parents /\ Len(parents) = Cardinality(m.parents) =>
            LineageVerifies(m.envelope, parents)
  PROVE  Accepted(m)
<1>1. PublicRefusal(m.envelope) = Nothing /\ VerifyEnvelope(m.envelope, m.content) = Nothing
  BY PublicIs, ContentIs
<1>2. ParseRefusal(Document(m.envelope)) = Nothing /\ Parsed(Document(m.envelope)) = m.envelope
  BY <1>1, ParserIs, WholeIsParsed DEF Acyclic
<1>3. ASSUME NEW parents \in {<<>>} \cup ParentLists(m.parents),
             ToSet(parents) = m.parents, Len(parents) = Cardinality(m.parents)
      PROVE  VerifyLineage(m.envelope, parents) = Nothing
  <2>1. parents \in Seq(m.parents)
    BY ListsOfParents
  <2>2. LineageVerifies(m.envelope, parents)
    BY <1>3
  <2> QED BY <2>1, <2>2, LineageIs
<1> QED BY <1>1, <1>2, <1>3 DEF Accepted

(* create_ingress *)
LEMMA IngressIsAccepted ==
  ASSUME NEW in \in IngressInputs, CreateIngress(in).refusal = Nothing,
         NEW m, m = [envelope |-> CreateIngress(in).envelope, content |-> in.content, parents |-> ToSet(<<>>)]
  PROVE  Wired(m.envelope) /\ m.envelope.parents = {} /\ Accepted(m)
<1>1. PICK e : e = CreateIngress(in).envelope
  OBVIOUS
<1>2. m.envelope = e /\ m.content = in.content /\ m.parents = {}
  BY <1>1 DEF ToSet
<1> DEFINE source == [kind |-> in.kind, identity |-> Hash("source-identity", in.identity.value),
                      claims |-> Hash("source-claims", in.claims.value)]
<1>3. e = MakeEnvelope(in.content, in.media, source, {}, Transform(in.transform, in), Tainted(in.taints), HashBundle(in.bundle))
  BY <1>1 DEF CreateIngress, Answer
<1>4. source.kind = in.kind
  OBVIOUS
<1> HIDE DEF source
<1>5. /\ Wired(e) /\ IsSealed(e) /\ e.form = "whole" /\ e.schema = 1 /\ e.trust = "untrusted"
      /\ e.content = [digest |-> Hash("content", in.content.bytes), length |-> in.content.size, media |-> in.media]
      /\ e.source = source /\ e.parents = {} /\ e.transform = Transform(in.transform, in)
      /\ e.taints = Tainted(in.taints) /\ e.bundle = HashBundle(in.bundle)
  BY <1>3, MadeIs
<1>6. /\ in.media \in MediaTypes /\ in.kind \in IngressKinds /\ in.transform = "ingress_capture"
      /\ ~(in.content.size > MaxContent) /\ ~(in.kind = "bundle_metadata" /\ in.bundle = Nothing)
      /\ TaintsFit(in.taints) /\ BundleFits(in.bundle)
  BY IngressEstablishes
<1>7. e.transform.kind = "ingress_capture" /\ "ingress_capture" \in TransformKinds /\ in.kind # "derived"
  BY <1>5, <1>6 DEF Transform, TransformKinds, IngressKinds
<1>8. HasContent(e, in.content) /\ e.content.media = in.media /\ e.content.length = in.content.size
  BY <1>5 DEF HasContent
<1>9. PartsFit(e)
  BY <1>4, <1>5, <1>6, <1>7, <1>8 DEF PartsFit
<1>10. ~(e.bundle # Nothing /\ Cardinality(e.bundle.dependencies) > MaxDependencies) /\ (in.bundle # Nothing => e.bundle # Nothing)
  BY <1>5, <1>6, HashedBundleFits
<1>11. ListsFit(e)
  <2>1. Cardinality({}) = 0 /\ ~(0 > MaxParents)
    BY FS_EmptySet, Caps
  <2>2. Distinct({})
    <3>1. {r.envelope : r \in {}} = {}
      OBVIOUS
    <3> QED BY <3>1 DEF Distinct
  <2>3. "untrusted" \in e.taints /\ e.taints \subseteq TaintRegistry /\ ~(Cardinality(e.taints) > MaxTaints)
    BY <1>5, <1>6 DEF TaintsFit, Tainted, TaintRegistry
  <2> QED BY <1>5, <1>10, <2>1, <2>2, <2>3 DEF ListsFit
<1>12. ~Derived(e)
  BY <1>4, <1>5, <1>7 DEF Derived
<1>13. LineageFits(e)
  <2>1. Derived(e) = (e.parents # {})
    BY <1>4, <1>5, <1>7 DEF Derived
  <2>2. ~(e.source.kind = "bundle_metadata" /\ e.bundle = Nothing)
    BY <1>4, <1>5, <1>6, <1>10
  <2> QED BY <1>7, <1>12, <2>1, <2>2 DEF LineageFits
<1>14. ShapeFits(e) /\ NotOfItself(e)
  BY <1>5, <1>9, <1>11, <1>13 DEF ShapeFits, NotOfItself
<1>15. LineageVerifies(e, <<>>)
  <2>1. ParentsFit(<<>>, TRUE)
    <3>1. Len(<<>>) = 0 /\ ToSet(<<>>) = {} /\ {p.digest : p \in {}} = {} /\ Cardinality({}) = 0 /\ ~(0 > MaxParents)
      BY FS_EmptySet, Caps DEF ToSet
    <3>2. Cardinality({p.digest : p \in ToSet(<<>>)}) = Len(<<>>)
      BY <3>1
    <3> QED BY <3>1, <3>2 DEF ParentsFit
  <2> QED BY <1>5, <1>12, <1>14, <2>1 DEF LineageVerifies, NotOfItself
<1>16. ASSUME NEW parents \in {<<>>} \cup ParentLists({}) PROVE LineageVerifies(e, parents)
  <2>1. parents = <<>>
    BY DEF ParentLists
  <2> QED BY <1>15, <2>1
<1>17. Accepted(m)
  BY <1>2, <1>5, <1>6, <1>8, <1>14, <1>16, FittingIsAccepted
<1> QED BY <1>2, <1>5, <1>17

(* derive_envelope *)
LEMMA DeriveIsWired ==
  ASSUME NEW V, NEW parents \in Seq(V), NEW in, NEW e, e = Derive(in, parents).envelope
  PROVE  /\ Wired(e) /\ IsSealed(e) /\ e.form = "whole" /\ e.schema = 1 /\ e.trust = "untrusted"
         /\ e.content = [digest |-> Hash("content", in.content.bytes), length |-> in.content.size, media |-> in.media]
         /\ e.parents = RefsOf(parents) /\ e.transform = Transform(in.transform, in)
         /\ e.source = DerivedSource(e.parents, e.transform) /\ e.source.kind = "derived"
         /\ e.taints = Inherited(parents) \cup Tainted(in.taints) /\ e.bundle = HashBundle(in.bundle)
<1>1. \A r \in RefsOf(parents) : "envelope" \in DOMAIN r
  BY DEF RefsOf, RefOf
<1> DEFINE source == DerivedSource(RefsOf(parents), Transform(in.transform, in))
<1>2. e = MakeEnvelope(in.content, in.media, source, RefsOf(parents), Transform(in.transform, in),
                       Inherited(parents) \cup Tainted(in.taints), HashBundle(in.bundle))
  BY DEF Derive, Answer
<1>3. source.kind = "derived"
  BY DEF DerivedSource
<1>4. source = DerivedSource(RefsOf(parents), Transform(in.transform, in))
  OBVIOUS
<1> HIDE DEF source
<1>5. /\ Wired(e) /\ IsSealed(e) /\ e.form = "whole" /\ e.schema = 1 /\ e.trust = "untrusted"
      /\ e.content = [digest |-> Hash("content", in.content.bytes), length |-> in.content.size, media |-> in.media]
      /\ e.source = source /\ e.parents = RefsOf(parents) /\ e.transform = Transform(in.transform, in)
      /\ e.taints = Inherited(parents) \cup Tainted(in.taints) /\ e.bundle = HashBundle(in.bundle)
  BY <1>1, <1>2, MadeIs
<1> QED BY <1>3, <1>4, <1>5

LEMMA ParentsInAnyOrder ==
  ASSUME NEW V, NEW W, NEW given \in Seq(V), NEW parents \in Seq(W), ParentsFit(given, FALSE),
         ToSet(parents) = ToSet(given), Len(parents) = Cardinality(ToSet(given))
  PROVE  parents # <<>> /\ ParentsFit(parents, FALSE)
<1>1. Len(parents) = Len(given) /\ Len(given) \in Nat /\ given # <<>>
  BY DigestsCount DEF ParentsFit
<1>2. Len(given) # 0
  BY <1>1
<1>3. parents # <<>>
  BY <1>1, <1>2
<1>4. ASSUME NEW i \in 1..Len(parents) PROVE IsSealed(parents[i]) /\ ShapeFits(parents[i])
  <2>1. parents[i] \in ToSet(given)
    <3>1. i \in DOMAIN parents
      OBVIOUS
    <3>2. parents[i] \in ToSet(parents)
      BY <3>1 DEF ToSet
    <3> QED BY <3>2
  <2>2. PICK j \in 1..Len(given) : parents[i] = given[j]
    BY <2>1 DEF ToSet
  <2> QED BY <2>2 DEF ParentsFit
<1>5. Cardinality({p.digest : p \in ToSet(parents)}) = Len(parents)
  BY <1>1 DEF ParentsFit
<1>6. ~(Len(parents) > MaxParents)
  BY <1>1 DEF ParentsFit
<1> QED BY <1>3, <1>4, <1>5, <1>6 DEF ParentsFit

LEMMA DeriveIsAccepted ==
  ASSUME NEW V, NEW parents \in Seq(V), NEW in \in DeriveInputs, Derive(in, parents).refusal = Nothing,
         NEW m, m = [envelope |-> Derive(in, parents).envelope, content |-> in.content, parents |-> ToSet(parents)],
         NotOfItself(m.envelope)
  PROVE  Accepted(m)
<1>1. PICK e : e = Derive(in, parents).envelope
  OBVIOUS
<1>2. m.envelope = e /\ m.content = in.content /\ m.parents = ToSet(parents) /\ NotOfItself(e)
  BY <1>1
<1>3. /\ Wired(e) /\ IsSealed(e) /\ e.form = "whole" /\ e.schema = 1 /\ e.trust = "untrusted"
      /\ e.content = [digest |-> Hash("content", in.content.bytes), length |-> in.content.size, media |-> in.media]
      /\ e.parents = RefsOf(parents) /\ e.transform = Transform(in.transform, in)
      /\ e.source = DerivedSource(e.parents, e.transform) /\ e.source.kind = "derived"
      /\ e.taints = Inherited(parents) \cup Tainted(in.taints) /\ e.bundle = HashBundle(in.bundle)
  BY <1>1, DeriveIsWired
<1>4. /\ ParentsFit(parents, FALSE)
      /\ in.media \in MediaTypes /\ in.transform = "deterministic" /\ ~(in.content.size > MaxContent)
      /\ ~(Cardinality(Inherited(parents) \cup Tainted(in.taints)) > MaxTaints)
      /\ TaintsFit(in.taints) /\ BundleFits(in.bundle)
  BY DeriveEstablishes
<1>5. e.transform.kind = "deterministic" /\ "deterministic" \in TransformKinds
  BY <1>3, <1>4 DEF Transform, TransformKinds
<1>6. HasContent(e, in.content) /\ e.content.media = in.media /\ e.content.length = in.content.size
  BY <1>3 DEF HasContent
<1>7. PartsFit(e)
  BY <1>3, <1>4, <1>5, <1>6 DEF PartsFit
<1>8. /\ IsFiniteSet(ToSet(parents)) /\ Cardinality(ToSet(parents)) = Len(parents)
      /\ Distinct(e.parents) /\ Cardinality(e.parents) = Len(parents)
  BY <1>3, <1>4, DigestsCount DEF ParentsFit
<1>9. ListsFit(e)
  <2>1. ~(e.bundle # Nothing /\ Cardinality(e.bundle.dependencies) > MaxDependencies)
    BY <1>3, <1>4, HashedBundleFits
  <2>2. Inherited(parents) \subseteq TaintRegistry
    <3>1. ASSUME NEW p \in ToSet(parents) PROVE p.taints \subseteq TaintRegistry
      <4>1. PICK i \in 1..Len(parents) : p = parents[i]
        BY DEF ToSet
      <4> QED BY <1>4, <4>1 DEF ParentsFit, ShapeFits, ListsFit
    <3> QED BY <3>1 DEF Inherited
  <2>3. "untrusted" \in e.taints /\ e.taints \subseteq TaintRegistry
    BY <1>3, <1>4, <2>2 DEF TaintsFit, Tainted, TaintRegistry
  <2>4. ~(Cardinality(e.taints) > MaxTaints)
    BY <1>3, <1>4
  <2>5. ~(Cardinality(e.parents) > MaxParents)
    BY <1>4, <1>8 DEF ParentsFit
  <2>6. e.form # "unsorted"
    BY <1>3
  <2> QED BY <1>8, <2>1, <2>3, <2>4, <2>5, <2>6 DEF ListsFit
<1>10. Derived(e) /\ e.parents # {}
  <2>1. Derived(e)
    BY <1>3 DEF Derived
  <2>2. parents # <<>> /\ Len(parents) \in Nat
    BY <1>4 DEF ParentsFit
  <2>3. 1 \in DOMAIN parents
    BY <2>2
  <2>4. RefOf(parents[1]) \in e.parents
    BY <1>3, <2>3 DEF RefsOf, ToSet
  <2> QED BY <2>1, <2>4
<1>11. LineageFits(e)
  <2>1. Derived(e) = (e.parents # {})
    BY <1>3, <1>10 DEF Derived
  <2>2. ~(e.source.kind = "bundle_metadata" /\ e.bundle = Nothing)
    BY <1>3
  <2> QED BY <1>3, <1>5, <1>10, <2>1, <2>2 DEF LineageFits
<1>12. ShapeFits(e)
  BY <1>7, <1>9, <1>11 DEF ShapeFits
<1>13. ASSUME NEW list \in {<<>>} \cup ParentLists(m.parents),
              ToSet(list) = m.parents, Len(list) = Cardinality(m.parents)
       PROVE  LineageVerifies(e, list)
  <2>1. list \in Seq(m.parents)
    BY ListsOfParents
  <2>2. list # <<>> /\ ParentsFit(list, FALSE)
    BY <1>2, <1>4, <1>13, <2>1, ParentsInAnyOrder
  <2>3. ParentsFit(list, ~Derived(e))
    BY <2>2 DEF ParentsFit
  <2>4. TheParents(e, list) /\ KeepsTaints(e, list)
    BY <1>2, <1>3, <1>13 DEF TheParents, RefsOf, KeepsTaints, Inherited
  <2> QED BY <1>2, <1>3, <1>10, <1>12, <2>3, <2>4 DEF LineageVerifies, NotOfItself
<1> QED BY <1>2, <1>3, <1>4, <1>6, <1>12, <1>13, FittingIsAccepted

-----------------------------------------------------------------------------
(* VerifiersAgree.  The invariant: whoever is referred to was sealed and   *)
(* in circulation, and no sealed envelope refers to itself.                *)

Referred(e) == \A r \in e.parents : \E p \in around : IsSealed(p) /\ r.envelope = p.digest
CirculationInv ==
  /\ \A e \in around : Wired(e) /\ Referred(e) /\ Acyclic(e)
  /\ \A m \in made : Accepted(m)

(* An envelope that referred to itself would be the one its reference was   *)
(* taken from, which then referred to itself before.                       *)
LEMMA NoCycle ==
  ASSUME CirculationInv, NEW e, Wired(e), Referred(e)
  PROVE  Acyclic(e)
<1> SUFFICES ASSUME IsSealed(e), NEW r \in e.parents, r.envelope = e.digest PROVE FALSE
  BY DEF Acyclic, NotOfItself
<1>1. PICK p \in around : IsSealed(p) /\ r.envelope = p.digest
  BY DEF Referred
<1>2. EnvelopeDigest(e) = EnvelopeDigest(p)
  BY <1>1 DEF IsSealed
<1>3. Body(e) = Body(p)
  BY <1>2 DEF EnvelopeDigest, Hash
<1>4. Wired(p) /\ Acyclic(p)
  BY DEF CirculationInv
<1>5. Body(e).parents = e.parents /\ Body(p).parents = p.parents
  BY <1>4 DEF Body, Wired, WireFields
<1>6. r \in p.parents
  BY <1>3, <1>5
<1> QED BY <1>1, <1>4, <1>6 DEF Acyclic, NotOfItself

LEMMA CirculationKeeps ==
  ASSUME CirculationInv, NEW e, Wired(e), Referred(e), around' = around \cup {e},
         made' = made \/ \E m : made' = made \cup {m} /\ (Acyclic(e) => Accepted(m))
  PROVE  CirculationInv'
<1>1. Acyclic(e)
  BY NoCycle
<1>2. \A x \in around' : Wired(x) /\ Referred(x) /\ Acyclic(x)
  BY <1>1 DEF CirculationInv
<1>3. \A x \in around' : Referred(x)'
  BY <1>2 DEF Referred
<1>4. \A m \in made' : Accepted(m)
  BY <1>1 DEF CirculationInv
<1> QED BY <1>2, <1>3, <1>4 DEF CirculationInv

LEMMA AlteredIsWired ==
  ASSUME NEW e, Wired(e), NEW altered \in Alterations(e)
  PROVE  /\ Wired(altered)
         /\ \A r \in altered.parents : \E q \in e.parents : r.envelope = q.envelope
<1> USE DEF Wired
<1>1. {"taints", "content", "parents", "source", "transform", "bundle", "schema", "form"} \subseteq DOMAIN e
  BY DEF WireFields
<1>2. ASSUME NEW t, altered = [e EXCEPT !.taints = @ \ {t}]
      PROVE  Wired(altered) /\ altered.parents = e.parents
  BY <1>1, <1>2
<1>3. ASSUME NEW c, altered = [e EXCEPT !.content.digest = Hash("content", c.bytes)]
      PROVE  Wired(altered) /\ altered.parents = e.parents
  BY <1>1, <1>3
<1>4. ASSUME NEW r, altered = [e EXCEPT !.parents = @ \ {r}]
      PROVE  Wired(altered) /\ altered.parents \subseteq e.parents
  BY <1>1, <1>4
<1>5. CASE altered = [e EXCEPT !.parents = {[r EXCEPT !.content = Nothing] : r \in @}]
  <2>1. altered.parents = {[r EXCEPT !.content = Nothing] : r \in e.parents}
    BY <1>1, <1>5
  <2>2. ASSUME NEW r \in e.parents
        PROVE  [r EXCEPT !.content = Nothing].envelope = r.envelope /\ "envelope" \in DOMAIN [r EXCEPT !.content = Nothing]
    OBVIOUS
  <2>3. /\ DOMAIN altered = DOMAIN e /\ altered = [f \in DOMAIN altered |-> altered[f]] /\ altered.form = e.form
    BY <1>1, <1>5
  <2> QED BY <2>1, <2>2, <2>3
<1>6. ASSUME altered \in {[e EXCEPT !.taints = @ \cup {"harmless"}],
                       [e EXCEPT !.source.kind = "web"],
                       [e EXCEPT !.transform.kind = "deterministic"],
                       [e EXCEPT !.transform.parameters = Nothing],
                       [e EXCEPT !.bundle = Nothing],
                       [e EXCEPT !.schema = 2],
                       [e EXCEPT !.form = "unsorted"],
                       [e EXCEPT !.form = "incomplete"]}
      PROVE  Wired(altered) /\ altered.parents = e.parents
  BY <1>1, <1>6
<1> QED BY <1>2, <1>3, <1>4, <1>5, <1>6 DEF Alterations

LEMMA AlterCirculates ==
  ASSUME CirculationInv, NEW e \in around, Alter(e)
  PROVE  CirculationInv'
<1>1. PICK altered \in Alterations(e) : \E carried \in Carried(altered) : around' = around \cup {carried}
  BY DEF Alter
<1>2. PICK carried \in Carried(altered) : around' = around \cup {carried}
  BY <1>1
<1>3. made' = made
  BY DEF Alter
<1>4. Wired(altered) /\ Referred(altered)
  BY AlteredIsWired DEF CirculationInv, Referred
<1>5. Wired(carried) /\ carried.parents = altered.parents
  <2> DEFINE resourced == [altered EXCEPT !.source = DerivedSource(altered.parents, altered.transform)]
  <2>1. Wired(resourced) /\ resourced.parents = altered.parents
    BY <1>4 DEF Wired, WireFields
  <2>2. carried \in {altered, Sealed(altered), Sealed(resourced)}
    BY DEF Carried
  <2> HIDE DEF resourced
  <2>3. "parents" \in (WireFields \cup {"form"}) \ {"digest"}
    BY DEF WireFields
  <2> QED BY <1>4, <2>1, <2>2, <2>3, SealedIs
<1>6. Referred(carried)
  BY <1>4, <1>5 DEF Referred
<1> QED BY <1>2, <1>3, <1>5, <1>6, CirculationKeeps

LEMMA IngressCirculates ==
  ASSUME CirculationInv, NEW in \in IngressInputs, Ingress(in)
  PROVE  CirculationInv'
<1>1. PICK e : e = CreateIngress(in).envelope
  OBVIOUS
<1>2. PICK m : m = [envelope |-> e, content |-> in.content, parents |-> ToSet(<<>>)]
  OBVIOUS
<1>3. CreateIngress(in).refusal = Nothing /\ around' = around \cup {e} /\ made' = made \cup {m}
  BY <1>1, <1>2 DEF Ingress, Made
<1>4. Wired(e) /\ e.parents = {} /\ Accepted(m)
  BY <1>1, <1>2, <1>3, IngressIsAccepted
<1> QED BY <1>3, <1>4, CirculationKeeps DEF Referred

LEMMA DeriveCirculates ==
  ASSUME CirculationInv, NEW in \in DeriveInputs, NEW parents \in ParentLists(around), DeriveFrom(in, parents)
  PROVE  CirculationInv'
<1>1. PICK e : e = Derive(in, parents).envelope
  OBVIOUS
<1>2. PICK m : m = [envelope |-> e, content |-> in.content, parents |-> ToSet(parents)]
  OBVIOUS
<1>3. Derive(in, parents).refusal = Nothing /\ around' = around \cup {e} /\ made' = made \cup {m}
  BY <1>1, <1>2 DEF DeriveFrom, Made
<1>4. parents \in Seq(around) /\ ToSet(parents) \subseteq around
  BY ListsOfParents
<1>5. /\ Wired(e) /\ IsSealed(e) /\ e.form = "whole" /\ e.schema = 1 /\ e.trust = "untrusted"
      /\ e.content = [digest |-> Hash("content", in.content.bytes), length |-> in.content.size, media |-> in.media]
      /\ e.parents = RefsOf(parents) /\ e.transform = Transform(in.transform, in)
      /\ e.source = DerivedSource(e.parents, e.transform) /\ e.source.kind = "derived"
      /\ e.taints = Inherited(parents) \cup Tainted(in.taints) /\ e.bundle = HashBundle(in.bundle)
  BY <1>1, <1>4, DeriveIsWired
<1>6. ParentsFit(parents, FALSE)
  BY <1>3, <1>4, DeriveEstablishes
<1>7. Referred(e)
  <2>1. ASSUME NEW r \in e.parents PROVE \E p \in around : IsSealed(p) /\ r.envelope = p.digest
    <3>1. PICK p \in ToSet(parents) : r = RefOf(p)
      BY <1>5 DEF RefsOf
    <3>2. PICK i \in 1..Len(parents) : p = parents[i]
      BY <1>4 DEF ToSet
    <3>3. IsSealed(p) /\ r.envelope = p.digest
      BY <1>6, <3>1, <3>2 DEF ParentsFit, RefOf
    <3> QED BY <1>4, <3>3
  <2> QED BY <2>1 DEF Referred
<1>8. Acyclic(e) => Accepted(m)
  BY <1>1, <1>2, <1>3, <1>4, <1>5, DeriveIsAccepted DEF Acyclic
<1> QED BY <1>3, <1>5, <1>7, <1>8, CirculationKeeps

(* The invariant, for any contents, any inputs of the constructors and any number of alterations. *)
THEOREM NobodyRefersToItself == Spec => []CirculationInv
<1>1. Init => CirculationInv
  BY DEF Init, CirculationInv
<1>2. CirculationInv /\ [Next]_vars => CirculationInv'
  <2> SUFFICES ASSUME CirculationInv, [Next]_vars PROVE CirculationInv'
    OBVIOUS
  <2>1. ASSUME NEW in \in IngressInputs, Ingress(in) PROVE CirculationInv'
    BY <2>1, IngressCirculates
  <2>2. ASSUME NEW in \in DeriveInputs, NEW parents \in ParentLists(around), DeriveFrom(in, parents)
        PROVE  CirculationInv'
    BY <2>2, DeriveCirculates
  <2>3. ASSUME NEW e \in around, Alter(e) PROVE CirculationInv'
    BY <2>3, AlterCirculates
  <2>4. CASE UNCHANGED vars
    BY <2>4 DEF CirculationInv, Referred, vars
  <2> QED BY <2>1, <2>2, <2>3, <2>4 DEF Next
<1> QED BY <1>1, <1>2, PTL DEF Spec

(* Constructors, verifiers and parser are of one mind: what a constructor  *)
(* made is accepted with its content, with its parents in any order and    *)
(* after a journey over the wire; and whatever carriers made of an         *)
(* envelope, parser and verifier accept it or refuse it together.          *)
THEOREM ConstructorsAndReadersAgree == Spec => []VerifiersAgree
<1>1. CirculationInv => VerifiersAgree
  <2> SUFFICES ASSUME CirculationInv PROVE VerifiersAgree
    OBVIOUS
  <2>1. MadeVerifies
    BY DEF CirculationInv, MadeVerifies, Accepted
  <2>2. ASSUME NEW e \in around
        PROVE  (ParseRefusal(Document(e)) = Nothing) = (PublicRefusal(e) = Nothing)
    BY ParserIs DEF CirculationInv
  <2> QED BY <2>1, <2>2 DEF VerifiersAgree, ParserAgrees
<1> QED BY <1>1, NobodyRefersToItself, PTL
=============================================================================
