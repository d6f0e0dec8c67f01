--------------------------- MODULE Authority_proof ---------------------------
(***************************************************************************)
(* Authority never falls back, nothing runs without it, and the log says   *)
(* what was decided: proofs about Authority and Receipts, for every set of *)
(* enforcement points, policies, rules, requests and overrides.            *)
(*                                                                         *)
(* First the pure parts, by what their answer implies: what the decision   *)
(* point's allow and its overridable denial say of a request and a lease,  *)
(* what the rule engine's verdict says of every rule, what the governor    *)
(* publishes. Then the invariant of the points; then the log, whose steps  *)
(* are theirs and the recovery exit.                                       *)
(***************************************************************************)
EXTENDS Receipts, Induction_proof, SequenceTheorems, FiniteSetTheorems

-----------------------------------------------------------------------------
(* The decision point: of the checks of a sequence, the first decides.     *)

Reasons ==
    {"PDP-INPUT-MALFORMED", "PDP-AUTHORITY-UNAVAILABLE", "PDP-INTERNAL-ERROR", "PDP-ENVELOPE-INVALID",
     "PDP-REQUEST-INTEGRITY", "PDP-RECOVERY-ONLY", "PDP-TRUSTED-TIME-STALE", "PDP-POLICY-STALE",
     "PDP-POLICY-ROLLBACK", "PDP-CRITICAL-TAINT", "PDP-UNINSPECTABLE-DATA",
     "PDP-PRIVILEGED-PATH-REQUIRED", "PDP-EXECUTABLE-CONTENT", "PDP-LEASE-BINDING",
     "PDP-POLICY-BINDING", "PDP-LEASE-NOT-YET-VALID", "PDP-LEASE-EXPIRED", "PDP-LEASE-REVOKED",
     "PDP-DENY-DEFAULT", "PDP-ALLOW-EXACT-GRANT"}
Recoveries ==
    {"none", "reauthenticate", "refresh-authority", "recovery-only", "quarantine-input", "obtain-new-lease"}
CheckOk == [applies : BOOLEAN, answer : [verdict : Verdicts, reason : Reasons, recovery : Recoveries]]
Passed(checks) == \A i \in 1..Len(checks) : ~checks[i].applies

LEMMA DecideFirst ==
  ASSUME NEW checks \in Seq(CheckOk), ~Passed(checks)
  PROVE  \E i \in 1..Len(checks) :
            /\ Decide(checks) = checks[i].answer /\ checks[i].applies
            /\ \A j \in 1..(i-1) : ~checks[j].applies
<1> DEFINE P == {i \in 1..Len(checks) : checks[i].applies}
<1>1. P # {} /\ P \subseteq 1..Len(checks) /\ Len(checks) \in Nat
  BY DEF Passed
<1> HIDE DEF P
<1>2. PICK i \in P : \A j \in 1..(i-1) : j \notin P
  BY <1>1, FirstOf
<1> DEFINE First(k) == checks[k].applies /\ \A j \in 1..(k - 1) : ~checks[j].applies
           first == CHOOSE k \in DOMAIN checks : First(k)
<1>3. i \in DOMAIN checks /\ First(i)
  <2>1. \A j \in 1..(i-1) : j \in 1..Len(checks)
    BY <1>1
  <2> QED BY <1>1, <1>2, <2>1 DEF P
<1>4. Decide(checks) = checks[first].answer
  BY DEF Decide
<1> HIDE DEF First
<1>5. first \in DOMAIN checks /\ First(first)
  BY <1>3
<1>6. first \in 1..Len(checks)
  BY <1>5
<1> HIDE DEF first
<1> QED BY <1>4, <1>5, <1>6 DEF First

LEMMA Joined ==
  ASSUME NEW S, NEW p \in Seq(S), NEW q \in Seq(S)
  PROVE  /\ p \o q \in Seq(S) /\ Len(p \o q) = Len(p) + Len(q)
         /\ \A i \in 1..Len(p) : (p \o q)[i] = p[i]
         /\ \A i \in 1..Len(q) : (p \o q)[Len(p) + i] = q[i]
<1>1. p \o q \in Seq(S) /\ Len(p \o q) = Len(p) + Len(q) /\ Len(p) \in Nat /\ Len(q) \in Nat
  BY ConcatProperties
<1>2. \A i \in 1..(Len(p) + Len(q)) : (p \o q)[i] = IF i <= Len(p) THEN p[i] ELSE q[i - Len(p)]
  BY ConcatProperties
<1>3. ASSUME NEW i \in 1..Len(p) PROVE (p \o q)[i] = p[i]
  BY <1>1, <1>2
<1>4. ASSUME NEW i \in 1..Len(q) PROVE (p \o q)[Len(p) + i] = q[i]
  <2>1. Len(p) + i \in 1..(Len(p) + Len(q)) /\ ~(Len(p) + i <= Len(p)) /\ (Len(p) + i) - Len(p) = i
    BY <1>1
  <2> QED BY <1>2, <2>1
<1> QED BY <1>1, <1>3, <1>4

LEMMA PassedJoined ==
  ASSUME NEW p \in Seq(CheckOk), NEW q \in Seq(CheckOk)
  PROVE  Passed(p \o q) <=> Passed(p) /\ Passed(q)
<1>1. /\ Len(p) \in Nat /\ Len(q) \in Nat /\ Len(p \o q) = Len(p) + Len(q)
      /\ \A i \in 1..Len(p) : (p \o q)[i] = p[i]
      /\ \A i \in 1..Len(q) : (p \o q)[Len(p) + i] = q[i]
  BY Joined
<1>2. ASSUME Passed(p \o q) PROVE Passed(p) /\ Passed(q)
  <2>1. ASSUME NEW i \in 1..Len(p) PROVE ~p[i].applies
    BY <1>1, <1>2 DEF Passed
  <2>2. ASSUME NEW i \in 1..Len(q) PROVE ~q[i].applies
    <3>1. Len(p) + i \in 1..Len(p \o q)
      BY <1>1
    <3> QED BY <1>1, <1>2, <3>1 DEF Passed
  <2> QED BY <2>1, <2>2 DEF Passed
<1>3. ASSUME Passed(p), Passed(q), NEW i \in 1..Len(p \o q) PROVE ~(p \o q)[i].applies
  <2>1. CASE i <= Len(p)
    BY <1>1, <1>3, <2>1 DEF Passed
  <2>2. CASE ~(i <= Len(p))
    <3>1. i - Len(p) \in 1..Len(q) /\ i = Len(p) + (i - Len(p))
      BY <1>1, <2>2
    <3>2. (p \o q)[i] = q[i - Len(p)]
      BY <1>1, <3>1
    <3> QED BY <1>3, <3>1, <3>2 DEF Passed
  <2> QED BY <2>1, <2>2
<1> QED BY <1>2, <1>3 DEF Passed

(* Of checks in a row, the later ones decide when the earlier have passed. *)
LEMMA DecideJoined ==
  ASSUME NEW p \in Seq(CheckOk), NEW q \in Seq(CheckOk)
  PROVE  /\ ~Passed(p) => Decide(p \o q) = Decide(p)
         /\ Passed(p) /\ ~Passed(q) => Decide(p \o q) = Decide(q)
<1> DEFINE r == p \o q
<1>1. /\ Len(p) \in Nat /\ Len(q) \in Nat /\ Len(r) = Len(p) + Len(q) /\ r \in Seq(CheckOk)
      /\ \A i \in 1..Len(p) : r[i] = p[i]
      /\ \A i \in 1..Len(q) : r[Len(p) + i] = q[i]
  BY Joined
<1>2. Passed(r) <=> Passed(p) /\ Passed(q)
  BY PassedJoined
<1> HIDE DEF r
<1>3. ASSUME ~Passed(p) PROVE Decide(r) = Decide(p)
  <2>1. PICK i \in 1..Len(p) : Decide(p) = p[i].answer /\ p[i].applies
                               /\ \A j \in 1..(i-1) : ~p[j].applies
    BY <1>3, DecideFirst
  <2>2. PICK k \in 1..Len(r) : Decide(r) = r[k].answer /\ r[k].applies
                               /\ \A j \in 1..(k-1) : ~r[j].applies
    BY <1>1, <1>2, <1>3, DecideFirst
  <2>3. r[i] = p[i]
    BY <1>1
  <2>4. ~(i < k)
    <3>1. i < k => i \in 1..(k-1)
      BY <1>1
    <3> QED BY <2>1, <2>2, <2>3, <3>1
  <2>5. ~(k < i)
    <3>1. k < i => k \in 1..(i-1) /\ k \in 1..Len(p)
      BY <1>1
    <3>2. k < i => r[k] = p[k]
      BY <1>1, <3>1
    <3> QED BY <2>1, <2>2, <3>1, <3>2
  <2>6. i = k
    BY <1>1, <2>4, <2>5
  <2> QED BY <2>1, <2>2, <2>3, <2>6
<1>4. ASSUME Passed(p), ~Passed(q) PROVE Decide(r) = Decide(q)
  <2>1. PICK i \in 1..Len(q) : Decide(q) = q[i].answer /\ q[i].applies
                               /\ \A j \in 1..(i-1) : ~q[j].applies
    BY <1>4, DecideFirst
  <2>2. PICK k \in 1..Len(r) : Decide(r) = r[k].answer /\ r[k].applies
                               /\ \A j \in 1..(k-1) : ~r[j].applies
    BY <1>1, <1>2, <1>4, DecideFirst
  <2>3. r[Len(p) + i] = q[i]
    BY <1>1
  <2>4. ~(k \in 1..Len(p))
    BY <1>1, <1>4, <2>2 DEF Passed
  <2>5. k - Len(p) \in 1..Len(q) /\ k = Len(p) + (k - Len(p))
    BY <1>1, <2>4
  <2>6. r[k] = q[k - Len(p)]
    BY <1>1, <2>5
  <2>7. ~(Len(p) + i < k)
    <3>1. Len(p) + i < k => Len(p) + i \in 1..(k-1)
      BY <1>1
    <3> QED BY <2>1, <2>2, <2>3, <3>1
  <2>8. ~(k - Len(p) < i)
    <3> SUFFICES ASSUME k - Len(p) < i PROVE FALSE
      OBVIOUS
    <3>1. k - Len(p) \in 1..(i-1)
      BY <1>1, <2>5
    <3> DEFINE d == k - Len(p)
    <3>2. q[d].applies
      BY <2>2, <2>6
    <3>3. d \in 1..(i-1)
      BY <3>1
    <3>4. \A j \in 1..(i-1) : ~q[j].applies
      BY <2>1
    <3> HIDE DEF d
    <3> QED BY <3>2, <3>3, <3>4, Zenon
  <2>9. k = Len(p) + i
    <3>1. k \in Nat /\ i \in Nat /\ Len(p) \in Nat
      BY <1>1
    <3> QED BY <2>7, <2>8, <3>1
  <2> QED BY <2>1, <2>2, <2>3, <2>9
<1> QED BY <1>3, <1>4 DEF r

(* Every check of evaluate but the last is negative, and only the last of  *)
(* the lease's may be overridden.                                          *)
NeverAllows(checks) == \A i \in 1..Len(checks) : checks[i].answer.verdict # "allow"
NeverDefaults(checks, n) == \A i \in 1..n : checks[i].answer.reason # "PDP-DENY-DEFAULT"

LEMMA ShapesNegative ==
  ASSUME NEW request, NEW runtime
  PROVE  LET s == ShapeChecks(request, runtime) IN
         s \in Seq(CheckOk) /\ Len(s) = 2 /\ NeverAllows(s) /\ NeverDefaults(s, 2)
BY DEF ShapeChecks, Deny, Check, CheckOk, Verdicts, Reasons, Recoveries, NeverAllows, NeverDefaults

LEMMA IntegrityNegative ==
  ASSUME NEW active, NEW request, NEW runtime
  PROVE  LET s == IntegrityChecks(active, request, runtime) IN
         s \in Seq(CheckOk) /\ Len(s) = 4 /\ NeverAllows(s) /\ NeverDefaults(s, 4)
<1> HIDE DEF PolicyOk, RuntimeOk
<1> QED BY DEF IntegrityChecks, Deny, Quarantine, Check, CheckOk, Verdicts, Reasons, Recoveries, NeverAllows, NeverDefaults

LEMMA FreshnessNegative ==
  ASSUME NEW active, NEW rt
  PROVE  LET s == FreshnessChecks(active, rt) IN
         s \in Seq(CheckOk) /\ Len(s) = 5 /\ NeverAllows(s) /\ NeverDefaults(s, 5)
BY DEF FreshnessChecks, Deny, Check, CheckOk, Verdicts, Reasons, Recoveries, NeverAllows, NeverDefaults, BelowFloor

LEMMA ContentNegative ==
  ASSUME NEW request
  PROVE  LET s == ContentChecks(request) IN
         s \in Seq(CheckOk) /\ Len(s) = 4 /\ NeverAllows(s) /\ NeverDefaults(s, 4)
BY DEF ContentChecks, Deny, Quarantine, Check, CheckOk, Verdicts, Reasons, Recoveries, NeverAllows, NeverDefaults

LEMMA LeaseNegative ==
  ASSUME NEW p, NEW request, NEW now
  PROVE  LET s == LeaseChecks(p, request, now) IN
         /\ s \in Seq(CheckOk) /\ Len(s) = 8 /\ NeverAllows(s) /\ NeverDefaults(s, 7)
         /\ s[8].answer.verdict = "deny"
BY DEF LeaseChecks, Deny, Check, CheckOk, Verdicts, Reasons, Recoveries, NeverAllows, NeverDefaults

LEMMA AllowLast ==
  LET s == Always("allow", "PDP-ALLOW-EXACT-GRANT", "none") IN
  /\ s \in Seq(CheckOk) /\ Len(s) = 1 /\ s[1].applies
  /\ s[1].answer = [verdict |-> "allow", reason |-> "PDP-ALLOW-EXACT-GRANT", recovery |-> "none"]
BY DEF Always, Check, CheckOk, Verdicts, Reasons, Recoveries

LEMMA NegativeAnswer ==
  ASSUME NEW checks \in Seq(CheckOk), ~Passed(checks), NEW n, Len(checks) = n,
         NeverAllows(checks)
  PROVE  /\ Decide(checks).verdict \in Verdicts /\ Decide(checks).verdict # "allow"
         /\ NeverDefaults(checks, n) => Decide(checks).reason # "PDP-DENY-DEFAULT"
<1>1. PICK i \in 1..Len(checks) : Decide(checks) = checks[i].answer
  BY DecideFirst
<1>2. checks[i] \in CheckOk
  BY ElementOfSeq
<1> QED BY <1>1, <1>2 DEF CheckOk, NeverAllows, NeverDefaults

(* What evaluate answers says which checks passed: after an allow all but  *)
(* the closing one; after the overridable denial all before the grant.     *)
LEMMA Answered ==
  ASSUME NEW active, NEW request, NEW runtime
  PROVE  LET answer == Decide(Checks(ShapeChecks(request, runtime), active, request, runtime))
             lease  == LeaseChecks(active.policy, request, runtime.runtime.time)
             before == /\ Passed(ShapeChecks(request, runtime))
                       /\ Passed(IntegrityChecks(active, request, runtime))
                       /\ Passed(FreshnessChecks(active, runtime.runtime))
                       /\ Passed(ContentChecks(request))
                       /\ \A i \in 1..7 : ~lease[i].applies
         IN  /\ answer.verdict \in Verdicts
             /\ answer.verdict = "allow" => before /\ Passed(lease) /\ answer.recovery = "none"
             /\ answer.reason = "PDP-DENY-DEFAULT" => before /\ answer.verdict = "deny"
<1> DEFINE shape == ShapeChecks(request, runtime)
           a == IntegrityChecks(active, request, runtime)
           b == FreshnessChecks(active, runtime.runtime)
           c == ContentChecks(request)
           l == LeaseChecks(active.policy, request, runtime.runtime.time)
           z == Always("allow", "PDP-ALLOW-EXACT-GRANT", "none")
           all == Checks(shape, active, request, runtime)
           answer == Decide(all)
<1>1. shape \in Seq(CheckOk) /\ Len(shape) = 2 /\ NeverAllows(shape) /\ NeverDefaults(shape, 2)
  BY ShapesNegative
<1>2. a \in Seq(CheckOk) /\ Len(a) = 4 /\ NeverAllows(a) /\ NeverDefaults(a, 4)
  BY IntegrityNegative
<1>3. b \in Seq(CheckOk) /\ Len(b) = 5 /\ NeverAllows(b) /\ NeverDefaults(b, 5)
  BY FreshnessNegative
<1>4. c \in Seq(CheckOk) /\ Len(c) = 4 /\ NeverAllows(c) /\ NeverDefaults(c, 4)
  BY ContentNegative
<1>5. l \in Seq(CheckOk) /\ Len(l) = 8 /\ NeverAllows(l) /\ NeverDefaults(l, 7)
      /\ l[8].answer.verdict = "deny"
  BY LeaseNegative
<1>6. z \in Seq(CheckOk) /\ Len(z) = 1 /\ z[1].applies
      /\ z[1].answer = [verdict |-> "allow", reason |-> "PDP-ALLOW-EXACT-GRANT", recovery |-> "none"]
  BY AllowLast
<1>7. DOMAIN shape = 1..2
  BY <1>1
<1>8. all = IF ~Passed(shape) THEN shape ELSE a \o b \o c \o l \o z
  BY <1>1, <1>7 DEF Checks, Passed
<1> HIDE DEF shape, a, b, c, l, z, all
<1> SUFFICES /\ answer.verdict \in Verdicts
             /\ answer.verdict = "allow" \/ answer.reason = "PDP-DENY-DEFAULT" =>
                  /\ Passed(shape) /\ Passed(a) /\ Passed(b) /\ Passed(c)
                  /\ \A i \in 1..7 : ~l[i].applies
             /\ answer.verdict = "allow" => Passed(l) /\ answer.recovery = "none"
             /\ answer.reason = "PDP-DENY-DEFAULT" => answer.verdict = "deny"
  BY DEF shape, a, b, c, l, all
<1>9. CASE ~Passed(shape)
  BY <1>1, <1>8, <1>9, NegativeAnswer
<1>10. CASE Passed(shape)
  <2> DEFINE ab == a \o b
             abc == ab \o c
             abcl == abc \o l
  <2>1. all = abcl \o z
    BY <1>8, <1>10
  <2>2. ab \in Seq(CheckOk) /\ (Passed(ab) <=> Passed(a) /\ Passed(b))
        /\ (~Passed(a) => Decide(ab) = Decide(a))
        /\ (Passed(a) /\ ~Passed(b) => Decide(ab) = Decide(b))
    BY <1>2, <1>3, Joined, PassedJoined, DecideJoined
  <2> HIDE DEF ab
  <2>3. abc \in Seq(CheckOk) /\ (Passed(abc) <=> Passed(ab) /\ Passed(c))
        /\ (~Passed(ab) => Decide(abc) = Decide(ab))
        /\ (Passed(ab) /\ ~Passed(c) => Decide(abc) = Decide(c))
    BY <2>2, <1>4, Joined, PassedJoined, DecideJoined
  <2> HIDE DEF abc
  <2>4. abcl \in Seq(CheckOk) /\ (Passed(abcl) <=> Passed(abc) /\ Passed(l))
        /\ (~Passed(abc) => Decide(abcl) = Decide(abc))
        /\ (Passed(abc) /\ ~Passed(l) => Decide(abcl) = Decide(l))
    BY <2>3, <1>5, Joined, PassedJoined, DecideJoined
  <2> HIDE DEF abcl
  <2>5. ~Passed(z)
    BY <1>6 DEF Passed
  <2>6. /\ ~Passed(abcl) => answer = Decide(abcl)
        /\ Passed(abcl) => answer = Decide(z)
    BY <1>6, <2>1, <2>4, <2>5, DecideJoined
  <2> HIDE DEF answer
  <2>7. CASE Passed(a) /\ Passed(b) /\ Passed(c) /\ Passed(l)
    <3>1. answer = [verdict |-> "allow", reason |-> "PDP-ALLOW-EXACT-GRANT", recovery |-> "none"]
      <4>1. PICK i \in 1..Len(z) : Decide(z) = z[i].answer
        BY <1>6, <2>5, DecideFirst
      <4>2. i = 1
        BY <1>6
      <4> QED BY <1>6, <2>2, <2>3, <2>4, <2>6, <2>7, <4>1, <4>2
    <3>2. \A i \in 1..7 : ~l[i].applies
      BY <1>5, <2>7 DEF Passed
    <3>3. answer.verdict = "allow" /\ answer.reason # "PDP-DENY-DEFAULT" /\ answer.recovery = "none"
      BY <3>1
    <3>4. "allow" \in Verdicts
      BY DEF Verdicts
    <3> QED BY <1>10, <2>7, <3>2, <3>3, <3>4
  <2>8. CASE Passed(a) /\ Passed(b) /\ Passed(c) /\ ~Passed(l)
    <3>1. answer = Decide(l)
      BY <2>2, <2>3, <2>4, <2>6, <2>8
    <3>2. PICK i \in 1..Len(l) : /\ answer = l[i].answer /\ l[i].applies
                                 /\ \A j \in 1..(i-1) : ~l[j].applies
      BY <1>5, <2>8, <3>1, DecideFirst
    <3>3. answer.verdict \in Verdicts /\ answer.verdict # "allow"
      BY <1>5, <2>8, <3>1, NegativeAnswer
    <3>4. CASE i = 8
      <4>1. answer.verdict = "deny"
        BY <1>5, <3>2, <3>4
      <4>2. \A j \in 1..7 : ~l[j].applies
        BY <3>2, <3>4
      <4> QED BY <1>10, <2>8, <3>3, <4>1, <4>2
    <3>5. CASE i \in 1..7
      <4>1. answer.reason # "PDP-DENY-DEFAULT"
        BY <1>5, <3>2, <3>5 DEF NeverDefaults
      <4> QED BY <3>3, <4>1
    <3>6. i = 8 \/ i \in 1..7
      BY <1>5
    <3> QED BY <3>4, <3>5, <3>6
  <2>9. CASE ~Passed(c) /\ Passed(a) /\ Passed(b)
    <3>1. answer = Decide(c)
      BY <2>2, <2>3, <2>4, <2>6, <2>9
    <3> QED BY <1>4, <2>9, <3>1, NegativeAnswer
  <2>10. CASE ~Passed(b) /\ Passed(a)
    <3>1. answer = Decide(b)
      BY <2>2, <2>3, <2>4, <2>6, <2>10
    <3> QED BY <1>3, <2>10, <3>1, NegativeAnswer
  <2>11. CASE ~Passed(a)
    <3>1. answer = Decide(a)
      BY <2>2, <2>3, <2>4, <2>6, <2>11
    <3> QED BY <1>2, <2>11, <3>1, NegativeAnswer
  <2> QED BY <2>7, <2>8, <2>9, <2>10, <2>11
<1> QED BY <1>9, <1>10

(* What an allow, and the denial an override may lift, say of the lease:   *)
(* it is whole, of the policy's generation, not revoked and made for this  *)
(* request; after an allow it is granted too.                              *)
LEMMA EvaluatedLease ==
  ASSUME NEW active, NEW request, NEW runtime
  PROVE  LET base == Evaluate(active, request, runtime)
             p    == active.policy
             l    == request.lease
             fits == /\ l.generation = p.generation /\ l.digest \notin p.revoked
                     /\ RequestBinding(request) = l.binding
         IN  /\ base.verdict \in Verdicts
             /\ base.verdict = "allow" => fits /\ l.digest \in p.grants /\ base.recovery = "none"
             /\ base.reason = "PDP-DENY-DEFAULT" => fits /\ base.verdict = "deny"
<1> DEFINE answer == Decide(Checks(ShapeChecks(request, runtime), active, request, runtime))
           base == Evaluate(active, request, runtime)
           lease == LeaseChecks(active.policy, request, runtime.runtime.time)
           l == request.lease
           p == active.policy
<1>1. base.verdict = answer.verdict /\ base.reason = answer.reason /\ base.recovery = answer.recovery
  BY DEF Evaluate, SealedDecision
<1>2. /\ answer.verdict \in Verdicts
      /\ answer.verdict = "allow" =>
            (\A i \in 1..7 : ~lease[i].applies) /\ Passed(lease) /\ answer.recovery = "none"
      /\ answer.reason = "PDP-DENY-DEFAULT" => (\A i \in 1..7 : ~lease[i].applies) /\ answer.verdict = "deny"
  BY Answered
<1> HIDE DEF answer, base
<1>3. /\ lease[2].applies = (l.policy # p.id \/ l.generation # p.generation)
      /\ lease[6].applies = (l.digest \in p.revoked)
      /\ lease[7].applies = (RequestBinding(request) # l.binding)
      /\ lease[8].applies = (l.digest \notin p.grants)
  BY DEF LeaseChecks, Deny, Check, ForThisRequest
<1>4. Len(lease) = 8
  BY LeaseNegative
<1> HIDE DEF lease
<1>5. (\A i \in 1..7 : ~lease[i].applies) =>
         l.generation = p.generation /\ l.digest \notin p.revoked /\ RequestBinding(request) = l.binding
  <2>1. 2 \in 1..7 /\ 6 \in 1..7 /\ 7 \in 1..7
    OBVIOUS
  <2> QED BY <1>3, <2>1
<1>6. Passed(lease) => l.digest \in p.grants
  <2>1. 8 \in 1..Len(lease)
    BY <1>4
  <2> QED BY <1>3, <2>1 DEF Passed
<1> QED BY <1>1, <1>2, <1>5, <1>6 DEF base

-----------------------------------------------------------------------------
(* The rule engine: the verdict is one of the three, no milder than the    *)
(* base and than the effect of any rule that fires.                        *)

LEMMA RulesOnlyStrengthen ==
  ASSUME NEW rules, NEW fields, NEW base \in Verdicts,
         Len(rules) \in Nat, \A i \in 1..Len(rules) : rules[i].effect \in Effects
  PROVE  LET verdict == EvaluateRules(rules, fields, base) IN
         /\ verdict \in Verdicts
         /\ Precedence[verdict] >= Precedence[base]
         /\ \A i \in 1..Len(rules) :
               Fires(rules[i], fields) => Precedence[verdict] >= Precedence[rules[i].effect]
<1> DEFINE N == Len(rules)
           h == [i \in 1..N |-> [v \in Verdicts |->
                   IF Fires(rules[i], fields) /\ Precedence[rules[i].effect] > Precedence[v]
                   THEN rules[i].effect ELSE v]]
           Is(f) == f = [i \in 0..N |->
                           IF i = 0 THEN base
                           ELSE IF /\ Fires(rules[i], fields)
                                   /\ Precedence[rules[i].effect] > Precedence[f[i - 1]]
                           THEN rules[i].effect
                           ELSE f[i - 1]]
           F == CHOOSE f : Is(f)
<1>1. EvaluateRules(rules, fields, base) = F[N]
  BY DEF EvaluateRules
<1>2. N \in Nat /\ Effects \subseteq Verdicts
  BY DEF Effects, Verdicts
<1>3. h \in [1..N -> [Verdicts -> Verdicts]]
  BY <1>2
<1>4. \A i \in 1..N, v \in Verdicts :
         h[i][v] = IF Fires(rules[i], fields) /\ Precedence[rules[i].effect] > Precedence[v]
                   THEN rules[i].effect ELSE v
  OBVIOUS
<1> HIDE DEF h, N
<1>5. PICK f \in [0..N -> Verdicts] : f[0] = base /\ \A i \in 1..N : f[i] = h[i][f[i-1]]
  BY <1>2, <1>3, Recursion
<1>6. Is(f)
  <2>1. ASSUME NEW i \in 0..N
        PROVE  f[i] = IF i = 0 THEN base
                      ELSE IF /\ Fires(rules[i], fields)
                              /\ Precedence[rules[i].effect] > Precedence[f[i - 1]]
                      THEN rules[i].effect
                      ELSE f[i - 1]
    <3>1. CASE i = 0
      BY <1>5, <3>1
    <3>2. CASE i # 0
      <4>1. i \in 1..N /\ i - 1 \in 0..N
        BY <1>2, <3>2
      <4>2. f[i-1] \in Verdicts /\ f[i] = h[i][f[i-1]]
        BY <1>5, <4>1
      <4> QED BY <1>4, <3>2, <4>1, <4>2
    <3> QED BY <3>1, <3>2
  <2> QED BY <2>1
<1> HIDE DEF Is
<1>7. Is(F)
  BY <1>6
<1> HIDE DEF F
<1>8. F[0] = base
  BY <1>2, <1>7 DEF Is
<1>9. ASSUME NEW i \in 1..N
      PROVE  F[i] = IF Fires(rules[i], fields) /\ Precedence[rules[i].effect] > Precedence[F[i-1]]
                    THEN rules[i].effect ELSE F[i-1]
  <2>1. i \in 0..N /\ i # 0
    BY <1>2
  <2> QED BY <1>7, <2>1 DEF Is
<1>10. \A v \in Verdicts : Precedence[v] \in Nat
  BY DEF Precedence, Verdicts
<1> DEFINE S == {n \in Nat : n <= N =>
                    /\ F[n] \in Verdicts /\ Precedence[F[n]] >= Precedence[base]
                    /\ \A i \in 1..n : Fires(rules[i], fields) =>
                                         Precedence[F[n]] >= Precedence[rules[i].effect]}
<1>11. 0 \in S
  BY <1>8, <1>10
<1>12. ASSUME NEW n \in Nat, n \in S PROVE n + 1 \in S
  <2> SUFFICES ASSUME n + 1 <= N
               PROVE  /\ F[n+1] \in Verdicts /\ Precedence[F[n+1]] >= Precedence[base]
                      /\ \A i \in 1..(n+1) : Fires(rules[i], fields) =>
                                         Precedence[F[n+1]] >= Precedence[rules[i].effect]
    OBVIOUS
  <2>1. /\ F[n] \in Verdicts /\ Precedence[F[n]] >= Precedence[base]
        /\ \A i \in 1..n : Fires(rules[i], fields) => Precedence[F[n]] >= Precedence[rules[i].effect]
    BY <1>2, <1>12
  <2>2. n + 1 \in 1..N /\ (n + 1) - 1 = n
    BY <1>2
  <2> DEFINE m == n + 1
             e == rules[m].effect
  <2>3. e \in Verdicts
    BY <1>2, <2>2 DEF N
  <2>4. F[m] = IF Fires(rules[m], fields) /\ Precedence[e] > Precedence[F[n]] THEN e ELSE F[n]
    BY <1>9, <2>2
  <2>5. \A i \in 1..m : i \in 1..n \/ i = m
    OBVIOUS
  <2> HIDE DEF m, e
  <2>6. Precedence[e] \in Nat /\ Precedence[F[n]] \in Nat /\ Precedence[base] \in Nat
    BY <1>10, <2>1, <2>3
  <2>7. F[m] \in Verdicts /\ Precedence[F[m]] >= Precedence[F[n]] /\ Precedence[F[m]] \in Nat
    BY <2>1, <2>3, <2>4, <2>6
  <2>8. Fires(rules[m], fields) => Precedence[F[m]] >= Precedence[e]
    BY <2>4, <2>6
  <2>9. ASSUME NEW i \in 1..m, Fires(rules[i], fields)
        PROVE  Precedence[F[m]] >= Precedence[rules[i].effect]
    <3>1. CASE i \in 1..n
      <4>1. rules[i].effect \in Verdicts
        BY <1>2, <2>2, <3>1 DEF N
      <4>2. Precedence[rules[i].effect] \in Nat
        BY <1>10, <4>1
      <4> QED BY <2>1, <2>6, <2>7, <2>9, <3>1, <4>2
    <3>2. CASE i = m
      BY <2>8, <2>9, <3>2 DEF e
    <3> QED BY <2>5, <3>1, <3>2
  <2>10. Precedence[F[m]] >= Precedence[base]
    BY <2>1, <2>6, <2>7
  <2> QED BY <2>7, <2>9, <2>10 DEF m
<1> HIDE DEF S
<1>13. N \in S
  BY <1>2, <1>11, <1>12, SetInduction
<1> QED BY <1>1, <1>2, <1>13 DEF S, N

-----------------------------------------------------------------------------
(* The governor: what it allows, no rule that fires is against, and either *)
(* the base allows it or an override lifts the one denial it can.          *)

DecisionFields == {"base", "baseReason", "verdict", "reason", "recovery", "override"}
RulesOk(g) == /\ Len(g.rules.rules) \in Nat /\ DOMAIN g.rules.rules = 1..Len(g.rules.rules)
              /\ \A i \in 1..Len(g.rules.rules) : g.rules.rules[i].effect \in Effects
Against(g, base, request, now) ==
    \E i \in DOMAIN g.rules.rules :
        /\ Fires(g.rules.rules[i], RuleFields(base, request, now, g))
        /\ Precedence[g.rules.rules[i].effect] > Precedence[base.verdict]
Grounds(base, overridden) ==
    IF overridden THEN base.verdict = "deny" /\ base.reason = "PDP-DENY-DEFAULT"
    ELSE base.verdict = "allow"

LEMMA PrecedenceOk == \A v \in Verdicts : Precedence[v] \in Nat /\ (Precedence[v] = 0 <=> v = "allow")
BY DEF Precedence, Verdicts

LEMMA NoRuleAgainst ==
  ASSUME NEW g, NEW base, NEW request, NEW now, RulesOk(g), base.verdict \in Verdicts,
         NEW verdict, verdict = EvaluateRules(g.rules.rules, RuleFields(base, request, now, g), base.verdict)
  PROVE  /\ verdict = "allow" => base.verdict = "allow"
         /\ verdict = base.verdict => ~Against(g, base, request, now)
<1> DEFINE rules == g.rules.rules
           fields == RuleFields(base, request, now, g)
           v == base.verdict
<1>1. Len(rules) \in Nat /\ DOMAIN rules = 1..Len(rules)
      /\ \A i \in 1..Len(rules) : rules[i].effect \in Effects
  BY DEF RulesOk
<1>2. verdict = EvaluateRules(rules, fields, v) /\ v \in Verdicts
  OBVIOUS
<1>3. Against(g, base, request, now) <=>
        \E i \in DOMAIN rules : Fires(rules[i], fields) /\ Precedence[rules[i].effect] > Precedence[v]
  BY DEF Against
<1> HIDE DEF rules, fields, v
<1>4. /\ verdict \in Verdicts /\ Precedence[verdict] >= Precedence[v]
      /\ \A i \in 1..Len(rules) :
            Fires(rules[i], fields) => Precedence[verdict] >= Precedence[rules[i].effect]
  BY <1>1, <1>2, RulesOnlyStrengthen
<1>5. Effects \subseteq Verdicts
  BY DEF Effects, Verdicts
<1>6. Precedence[verdict] \in Nat /\ Precedence[v] \in Nat
  BY <1>2, <1>4, PrecedenceOk
<1>7. verdict = "allow" => v = "allow"
  <2>1. verdict = "allow" => Precedence[v] = 0
    BY <1>4, <1>6, PrecedenceOk
  <2> QED BY <1>2, <2>1, PrecedenceOk
<1>8. ASSUME verdict = v, NEW i \in DOMAIN rules, Fires(rules[i], fields)
      PROVE  ~(Precedence[rules[i].effect] > Precedence[v])
  <2>1. Precedence[rules[i].effect] \in Nat
    BY <1>1, <1>5, PrecedenceOk
  <2>2. Precedence[v] >= Precedence[rules[i].effect]
    BY <1>1, <1>4, <1>8
  <2> QED BY <1>6, <2>1, <2>2
<1> QED BY <1>3, <1>7, <1>8 DEF v

(* Validators: a sequence of checks answers within a set of codes exactly  *)
(* when every check that applies does; with the empty set, none applies.   *)
CodedChecks == Seq(BOOLEAN \X GovernorCodes)
AnswersIn(checks, codes) == \A i \in 1..Len(checks) : checks[i][1] => checks[i][2] \in codes
MayAnswer(x, code) == x \in BOOLEAN /\ code \in GovernorCodes

LEMMA AnswerIsIn ==
  ASSUME NEW checks \in CodedChecks
  PROVE  /\ \A codes : AnswersIn(checks, codes) => FirstRefusal(checks) \in codes \cup {Nothing}
         /\ FirstRefusal(checks) = Nothing => AnswersIn(checks, {})
<1>1. ASSUME NEW codes, AnswersIn(checks, codes) PROVE FirstRefusal(checks) \in codes \cup {Nothing}
  BY <1>1, AnswerIsFirst DEF AnswersIn, CodedChecks
<1>2. ASSUME FirstRefusal(checks) = Nothing PROVE AnswersIn(checks, {})
  <2>1. \A i \in 1..Len(checks) : ~checks[i][1]
    BY <1>2, NothingApplies, NothingAssumption DEF CodedChecks
  <2> QED BY <2>1 DEF AnswersIn
<1> QED BY <1>1, <1>2

LEMMA AnswersJoined ==
  ASSUME NEW p \in CodedChecks, NEW q \in CodedChecks
  PROVE  /\ p \o q \in CodedChecks
         /\ \A codes : AnswersIn(p \o q, codes) <=> AnswersIn(p, codes) /\ AnswersIn(q, codes)
<1> DEFINE r == p \o q
<1>1. /\ r \in CodedChecks /\ Len(r) = Len(p) + Len(q) /\ Len(p) \in Nat /\ Len(q) \in Nat
      /\ \A i \in 1..Len(p) : r[i] = p[i]
      /\ \A i \in 1..Len(q) : r[Len(p) + i] = q[i]
  BY Joined DEF CodedChecks
<1> HIDE DEF r
<1>2. ASSUME NEW codes, AnswersIn(p, codes), AnswersIn(q, codes), NEW i \in 1..Len(r), r[i][1]
      PROVE  r[i][2] \in codes
  <2>1. CASE i <= Len(p)
    <3>1. i \in 1..Len(p)
      BY <1>1, <2>1
    <3> QED BY <1>1, <1>2, <3>1 DEF AnswersIn
  <2>2. CASE ~(i <= Len(p))
    <3> DEFINE j == i - Len(p)
    <3>1. j \in 1..Len(q) /\ i = Len(p) + j
      BY <1>1, <2>2
    <3> HIDE DEF j
    <3>2. r[i] = q[j]
      BY <1>1, <3>1
    <3> QED BY <1>2, <3>1, <3>2 DEF AnswersIn
  <2> QED BY <2>1, <2>2
<1>3. ASSUME NEW codes, AnswersIn(r, codes) PROVE AnswersIn(p, codes) /\ AnswersIn(q, codes)
  <2>1. \A i \in 1..Len(p) : i \in 1..Len(r)
    BY <1>1
  <2>2. \A i \in 1..Len(q) : Len(p) + i \in 1..Len(r)
    BY <1>1
  <2> QED BY <1>1, <1>3, <2>1, <2>2 DEF AnswersIn
<1> QED BY <1>1, <1>2, <1>3 DEF AnswersIn, r

LEMMA TwoChecks ==
  ASSUME NEW x, NEW c, NEW y, NEW d, MayAnswer(x, c), MayAnswer(y, d)
  PROVE  LET s == <<<<x, c>>, <<y, d>>>> IN
         s \in CodedChecks /\ \A codes : AnswersIn(s, codes) <=> (x => c \in codes) /\ (y => d \in codes)
<1> DEFINE s == <<<<x, c>>, <<y, d>>>>
<1>1. s \in CodedChecks
  BY DEF MayAnswer, CodedChecks
<1>2. Len(s) = 2 /\ s[1][1] = x /\ s[1][2] = c /\ s[2][1] = y /\ s[2][2] = d
  OBVIOUS
<1> HIDE DEF s
<1>3. 1..Len(s) = {1, 2}
  BY <1>2
<1>4. \A codes : AnswersIn(s, codes) <=> (x => c \in codes) /\ (y => d \in codes)
  BY <1>2, <1>3 DEF AnswersIn
<1> QED BY <1>1, <1>4 DEF s

LEMMA ThreeChecks ==
  ASSUME NEW x, NEW c, NEW y, NEW d, NEW z, NEW e, MayAnswer(x, c), MayAnswer(y, d), MayAnswer(z, e)
  PROVE  LET s == <<<<x, c>>, <<y, d>>, <<z, e>>>> IN
         /\ s \in CodedChecks
         /\ \A codes : AnswersIn(s, codes) <=> (x => c \in codes) /\ (y => d \in codes) /\ (z => e \in codes)
<1> DEFINE s == <<<<x, c>>, <<y, d>>, <<z, e>>>>
<1>1. s \in CodedChecks
  BY DEF MayAnswer, CodedChecks
<1>2. /\ Len(s) = 3 /\ s[1][1] = x /\ s[1][2] = c /\ s[2][1] = y /\ s[2][2] = d
      /\ s[3][1] = z /\ s[3][2] = e
  OBVIOUS
<1> HIDE DEF s
<1>3. 1..Len(s) = {1, 2, 3}
  BY <1>2
<1>4. \A codes : AnswersIn(s, codes) <=> (x => c \in codes) /\ (y => d \in codes) /\ (z => e \in codes)
  BY <1>2, <1>3 DEF AnswersIn
<1> QED BY <1>1, <1>4 DEF s

LEMMA FourChecks ==
  ASSUME NEW x, NEW c, NEW y, NEW d, NEW z, NEW e, NEW u, NEW f,
         MayAnswer(x, c), MayAnswer(y, d), MayAnswer(z, e), MayAnswer(u, f)
  PROVE  LET s == <<<<x, c>>, <<y, d>>, <<z, e>>, <<u, f>>>> IN
         /\ s \in CodedChecks
         /\ \A codes : AnswersIn(s, codes) <=>
               (x => c \in codes) /\ (y => d \in codes) /\ (z => e \in codes) /\ (u => f \in codes)
<1> DEFINE s == <<<<x, c>>, <<y, d>>, <<z, e>>, <<u, f>>>>
<1>1. s \in CodedChecks
  BY DEF MayAnswer, CodedChecks
<1>2. /\ Len(s) = 4 /\ s[1][1] = x /\ s[1][2] = c /\ s[2][1] = y /\ s[2][2] = d
      /\ s[3][1] = z /\ s[3][2] = e /\ s[4][1] = u /\ s[4][2] = f
  OBVIOUS
<1> HIDE DEF s
<1>3. 1..Len(s) = {1, 2, 3, 4}
  BY <1>2
<1>4. \A codes : AnswersIn(s, codes) <=>
         (x => c \in codes) /\ (y => d \in codes) /\ (z => e \in codes) /\ (u => f \in codes)
  BY <1>2, <1>3 DEF AnswersIn
<1> QED BY <1>1, <1>4 DEF s

(* The governor's refusals are of two kinds: those of the floors of the    *)
(* moment, all state errors, and those no floor has a part in.             *)
FloorsAdmit(g, fl) ==
    LET a == g.authorization IN
    /\ ~UnderFloor(fl, "signer-authorization", a.generation, AuthorizationDigest(a))
    /\ ~UnderFloor(fl, "trust-root", a.rootGeneration, a.root)
    /\ ~UnderFloor(fl, "rule", g.rules.generation, RuleDigest(g.rules))
    /\ ~UnderFloor(fl, "policy", g.active.policy.generation, g.active.digest)
    /\ ~UnderFloor(fl, "revocation", g.active.policy.revocation, g.active.revocationDigest)
Fits(g, base, request, now) ==
    /\ Current(g.authorization, now) /\ Current(g.rules, now)
    /\ RuleDigest(g.rules) = g.active.policy.rules
    /\ g.rulesSignedUnder = AuthorizationDigest(g.authorization)
    /\ base.request = request.digest /\ base.policy = g.active.digest
FloorFreeCodes == {"RCT-STALE", "RCT-SIGNER-UNAUTHORIZED", "RCT-INTEGRITY", "RULE-POLICY-MISMATCH"}

LEMMA GovernAnswers ==
  ASSUME NEW g, NEW base, NEW request, NEW fl, NEW now
  PROVE  LET all == GovernRefusals(g, base, request, fl, now) IN
         /\ all \in CodedChecks
         /\ FloorsAdmit(g, fl) => AnswersIn(all, FloorFreeCodes)
         /\ Fits(g, base, request, now) => AnswersIn(all, {StateError})
         /\ AnswersIn(all, FloorFreeCodes \cup {StateError})
         /\ FloorsAdmit(g, fl) /\ Fits(g, base, request, now) <=> AnswersIn(all, {})
<1> DEFINE auth == g.authorization
           stale == ~Current(auth, now)
           signer == UnderFloor(fl, "signer-authorization", auth.generation, AuthorizationDigest(auth))
           root == UnderFloor(fl, "trust-root", auth.rootGeneration, auth.root)
           other == RuleDigest(g.rules) # g.active.policy.rules
           lapsed == ~Current(g.rules, now)
           rule == UnderFloor(fl, "rule", g.rules.generation, RuleDigest(g.rules))
           elsewhere == g.rulesSignedUnder # AuthorizationDigest(auth)
           policy == UnderFloor(fl, "policy", g.active.policy.generation, g.active.digest)
           revoked == UnderFloor(fl, "revocation", g.active.policy.revocation, g.active.revocationDigest)
           foreign == base.request # request.digest \/ base.policy # g.active.digest
           a == AuthorizationRefusals(auth, fl, now)
           b == RuleRefusals(g.rules, g.active.policy.rules, fl, now)
           c == <<<<elsewhere, "RCT-SIGNER-UNAUTHORIZED">>, <<policy, StateError>>,
                  <<revoked, StateError>>, <<foreign, "RCT-INTEGRITY">>>>
           all == GovernRefusals(g, base, request, fl, now)
<1>1. /\ stale \in BOOLEAN /\ signer \in BOOLEAN /\ root \in BOOLEAN /\ other \in BOOLEAN
      /\ lapsed \in BOOLEAN /\ rule \in BOOLEAN /\ elsewhere \in BOOLEAN /\ policy \in BOOLEAN
      /\ revoked \in BOOLEAN /\ foreign \in BOOLEAN
  BY DEF UnderFloor, Current
<1>2. a = <<<<stale, "RCT-STALE">>, <<signer, StateError>>, <<root, StateError>>>>
  BY DEF AuthorizationRefusals
<1>3. b = <<<<other, "RULE-POLICY-MISMATCH">>, <<lapsed, "RCT-STALE">>, <<rule, StateError>>>>
  BY DEF RuleRefusals
<1>4. all = a \o b \o c
  BY DEF GovernRefusals
<1>5. FloorsAdmit(g, fl) <=> ~signer /\ ~root /\ ~rule /\ ~policy /\ ~revoked
  BY DEF FloorsAdmit
<1>6. Fits(g, base, request, now) <=> ~stale /\ ~other /\ ~lapsed /\ ~elsewhere /\ ~foreign
  BY DEF Fits
<1> HIDE DEF stale, signer, root, other, lapsed, rule, elsewhere, policy, revoked, foreign, a, b, all
<1>7. /\ a \in CodedChecks
      /\ \A codes : AnswersIn(a, codes) <=>
            (stale => "RCT-STALE" \in codes) /\ (signer \/ root => StateError \in codes)
  BY <1>1, <1>2, ThreeChecks DEF MayAnswer, GovernorCodes, StateError
<1>8. /\ b \in CodedChecks
      /\ \A codes : AnswersIn(b, codes) <=>
            /\ other => "RULE-POLICY-MISMATCH" \in codes
            /\ lapsed => "RCT-STALE" \in codes
            /\ rule => StateError \in codes
  BY <1>1, <1>3, ThreeChecks DEF MayAnswer, GovernorCodes, StateError
<1>9. /\ c \in CodedChecks
      /\ \A codes : AnswersIn(c, codes) <=>
            /\ elsewhere => "RCT-SIGNER-UNAUTHORIZED" \in codes
            /\ policy \/ revoked => StateError \in codes
            /\ foreign => "RCT-INTEGRITY" \in codes
  <2>1. /\ MayAnswer(elsewhere, "RCT-SIGNER-UNAUTHORIZED") /\ MayAnswer(policy, StateError)
        /\ MayAnswer(revoked, StateError) /\ MayAnswer(foreign, "RCT-INTEGRITY")
    BY <1>1 DEF MayAnswer, GovernorCodes, StateError
  <2> QED BY <2>1, FourChecks
<1> HIDE DEF c
<1>10. all \in CodedChecks
       /\ \A codes : AnswersIn(all, codes) <=>
             AnswersIn(a, codes) /\ AnswersIn(b, codes) /\ AnswersIn(c, codes)
  BY <1>4, <1>7, <1>8, <1>9, AnswersJoined
<1>11. FloorsAdmit(g, fl) => AnswersIn(all, FloorFreeCodes)
  BY <1>5, <1>7, <1>8, <1>9, <1>10 DEF FloorFreeCodes
<1>12. Fits(g, base, request, now) => AnswersIn(all, {StateError})
  BY <1>6, <1>7, <1>8, <1>9, <1>10
<1>13. AnswersIn(all, FloorFreeCodes \cup {StateError})
  BY <1>7, <1>8, <1>9, <1>10 DEF FloorFreeCodes
<1>14. FloorsAdmit(g, fl) /\ Fits(g, base, request, now) <=> AnswersIn(all, {})
  BY <1>5, <1>6, <1>7, <1>8, <1>9, <1>10
<1> QED BY <1>10, <1>11, <1>12, <1>13, <1>14 DEF all

LEMMA GovernorsCodes ==
  ASSUME NEW g, NEW base, NEW request, NEW fl, NEW now,
         NEW code, code = FirstRefusal(GovernRefusals(g, base, request, fl, now))
  PROVE  /\ code \in FloorFreeCodes \cup {StateError, Nothing} /\ code # "RULE-OVERRIDE-INVALID"
         /\ FloorsAdmit(g, fl) => code # StateError
         /\ Fits(g, base, request, now) => code \in {StateError, Nothing}
         /\ code = Nothing <=> FloorsAdmit(g, fl) /\ Fits(g, base, request, now)
<1> DEFINE all == GovernRefusals(g, base, request, fl, now)
<1>1. /\ all \in CodedChecks
      /\ FloorsAdmit(g, fl) => AnswersIn(all, FloorFreeCodes)
      /\ Fits(g, base, request, now) => AnswersIn(all, {StateError})
      /\ AnswersIn(all, FloorFreeCodes \cup {StateError})
      /\ FloorsAdmit(g, fl) /\ Fits(g, base, request, now) <=> AnswersIn(all, {})
  BY GovernAnswers
<1> HIDE DEF all
<1>2. /\ \A codes : AnswersIn(all, codes) => code \in codes \cup {Nothing}
      /\ code = Nothing => AnswersIn(all, {})
  BY <1>1, AnswerIsIn DEF all
<1>3. Nothing # StateError /\ StateError \notin FloorFreeCodes /\ Nothing # "RULE-OVERRIDE-INVALID"
      /\ "RULE-OVERRIDE-INVALID" \notin FloorFreeCodes \cup {StateError}
  BY NothingAssumption DEF GovernorCodes, StateError, FloorFreeCodes
<1> QED BY <1>1, <1>2, <1>3

(* The override's refusals likewise.                                       *)
OverrideFits(o, base, request, g, runtime) ==
    /\ Bound(o.authorization, base, request, g, runtime)
    /\ o.signedUnder = AuthorizationDigest(g.authorization)
OverrideAdmitted(o, fl) ==
    ~UnderFloor(fl, "override", o.authorization.generation, OverrideDigest(o.authorization))

LEMMA OverrideCodes ==
  ASSUME NEW o, NEW base, NEW request, NEW g, NEW runtime, NEW fl,
         NEW code, code = FirstRefusal(OverrideRefusals(o, base, request, g, runtime, fl))
  PROVE  /\ code \in {"RULE-OVERRIDE-INVALID", StateError, Nothing}
         /\ OverrideAdmitted(o, fl) => code # StateError
         /\ code = Nothing <=> OverrideAdmitted(o, fl) /\ OverrideFits(o, base, request, g, runtime)
<1> DEFINE s == OverrideRefusals(o, base, request, g, runtime, fl)
           x == \/ ~Bound(o.authorization, base, request, g, runtime)
                \/ o.signedUnder # AuthorizationDigest(g.authorization)
           y == UnderFloor(fl, "override", o.authorization.generation, OverrideDigest(o.authorization))
<1>1. /\ s = <<<<x, "RULE-OVERRIDE-INVALID">>, <<y, StateError>>>>
      /\ x \in BOOLEAN /\ y \in BOOLEAN
      /\ x <=> ~OverrideFits(o, base, request, g, runtime)
      /\ y <=> ~OverrideAdmitted(o, fl)
  BY DEF OverrideRefusals, UnderFloor, OverrideFits, OverrideAdmitted
<1> HIDE DEF s, x, y
<1>2. /\ s \in CodedChecks
      /\ \A codes : AnswersIn(s, codes) <=>
            (x => "RULE-OVERRIDE-INVALID" \in codes) /\ (y => StateError \in codes)
  BY <1>1, TwoChecks DEF MayAnswer, GovernorCodes, StateError
<1>3. /\ \A codes : AnswersIn(s, codes) => code \in codes \cup {Nothing}
      /\ code = Nothing => AnswersIn(s, {})
  BY <1>2, AnswerIsIn DEF s
<1>4. Nothing # StateError /\ Nothing # "RULE-OVERRIDE-INVALID" /\ StateError # "RULE-OVERRIDE-INVALID"
  BY NothingAssumption DEF GovernorCodes, StateError
<1>5. code \in {"RULE-OVERRIDE-INVALID", StateError} \cup {Nothing}
  BY <1>2, <1>3
<1>6. OverrideAdmitted(o, fl) => code \in {"RULE-OVERRIDE-INVALID"} \cup {Nothing}
  BY <1>1, <1>2, <1>3
<1>7. code = Nothing => ~x /\ ~y
  BY <1>2, <1>3
<1>8. ~x /\ ~y => code \in {} \cup {Nothing}
  BY <1>2, <1>3
<1> QED BY <1>1, <1>4, <1>5, <1>6, <1>7, <1>8

LEMMA GovernGrounds ==
  ASSUME NEW g, NEW base, NEW request, NEW runtime, NEW fl, NEW override,
         RulesOk(g), base.verdict \in Verdicts,
         NEW gv, gv = Govern(g, base, request, runtime, fl, override),
         gv.refusal \in {Nothing, "RULE-OVERRIDE-INVALID"}
  PROVE  LET d       == gv.decision
             without == Govern(g, base, request, runtime, fl, Nothing)
         IN  /\ gv.refusal = Nothing =>
                  /\ DOMAIN d = DecisionFields
                  /\ d.verdict = "allow" =>
                       /\ d.recovery = "none"
                       /\ ~Against(g, base, request, runtime.runtime.time)
                       /\ Grounds(base, d.override # Nothing)
             /\ gv.refusal = "RULE-OVERRIDE-INVALID" => DOMAIN without.decision = DecisionFields
<1> DEFINE now     == runtime.runtime.time
           refusal == FirstRefusal(GovernRefusals(g, base, request, fl, now))
           verdict == EvaluateRules(g.rules.rules, RuleFields(base, request, now, g), base.verdict)
           reason  == IF verdict = base.verdict THEN base.reason ELSE RuleReason(verdict)
           plain   == Governed(base, verdict, reason, base.recovery, Nothing)
           lifted  == Governed(base, "allow", "RULE-OVERRIDE", base.recovery, override)
           invalid == FirstRefusal(OverrideRefusals(override, base, request, g, runtime, fl))
           against == Against(g, base, request, now)
<1>1. verdict = "allow" => base.verdict = "allow"
  BY NoRuleAgainst
<1>2. verdict = base.verdict => ~against
  BY NoRuleAgainst
<1>3. refusal # "RULE-OVERRIDE-INVALID"
  BY GovernorsCodes
<1>4. invalid = Nothing => Bound(override.authorization, base, request, g, runtime)
  BY OverrideCodes DEF OverrideFits
<1>5. /\ DOMAIN plain = DecisionFields /\ plain.verdict = verdict /\ plain.override = Nothing
      /\ DOMAIN lifted = DecisionFields /\ lifted.override = override
      /\ plain.verdict = "allow" => plain.recovery = "none"
      /\ lifted.recovery = "none"
  BY DEF Governed, DecisionFields
<1>6. Nothing # "RULE-OVERRIDE-INVALID"
  BY NothingAssumption DEF GovernorCodes
<1>7. gv = IF refusal # Nothing THEN Refused(refusal)
           ELSE IF override = Nothing THEN Granted(plain)
           ELSE IF invalid # Nothing THEN Refused(invalid)
           ELSE IF verdict # base.verdict THEN Refused("RULE-OVERRIDE-INVALID")
           ELSE Granted(lifted)
  BY DEF Govern, Strengthened
<1>8. refusal = Nothing => Govern(g, base, request, runtime, fl, Nothing) = Granted(plain)
  BY DEF Govern
<1> HIDE DEF now, refusal, verdict, reason, plain, lifted, invalid, against
<1>9. \A x : /\ Refused(x).refusal = x /\ Granted(x).refusal = Nothing /\ Granted(x).decision = x
  BY DEF Refused, Granted
<1>10. CASE refusal # Nothing
  <2>1. gv.refusal = refusal
    BY <1>7, <1>9, <1>10
  <2> QED BY <1>3, <1>10, <2>1
<1>11. CASE refusal = Nothing
  <2>1. DOMAIN Govern(g, base, request, runtime, fl, Nothing).decision = DecisionFields
    BY <1>5, <1>8, <1>9, <1>11
  <2>2. CASE override = Nothing
    <3>1. gv = Granted(plain)
      BY <1>7, <1>11, <2>2
    <3>2. gv.refusal = Nothing /\ gv.decision = plain
      BY <1>9, <3>1
    <3>3. plain.verdict = "allow" => verdict = base.verdict /\ base.verdict = "allow"
      BY <1>1, <1>5
    <3> QED BY <1>2, <1>5, <1>6, <3>2, <3>3 DEF Grounds, against, now
  <2>3. CASE override # Nothing /\ invalid # Nothing
    <3>1. gv.refusal = invalid
      BY <1>7, <1>9, <1>11, <2>3
    <3> QED BY <2>1, <2>3, <3>1
  <2>4. CASE override # Nothing /\ invalid = Nothing /\ verdict # base.verdict
    <3>1. gv.refusal = "RULE-OVERRIDE-INVALID"
      BY <1>7, <1>9, <1>11, <2>4
    <3> QED BY <1>6, <2>1, <3>1
  <2>5. CASE override # Nothing /\ invalid = Nothing /\ verdict = base.verdict
    <3>1. gv.refusal = Nothing /\ gv.decision = lifted
      BY <1>7, <1>9, <1>11, <2>5
    <3>2. base.verdict = "deny" /\ base.reason = "PDP-DENY-DEFAULT"
      BY <1>4, <2>5 DEF Bound, OverridableReasons
    <3> QED BY <1>2, <1>5, <1>6, <2>5, <3>1, <3>2 DEF Grounds, against, now
  <2> QED BY <2>2, <2>3, <2>4, <2>5
<1> QED BY <1>10, <1>11

-----------------------------------------------------------------------------
(* What an enforcement point takes on.                                     *)

LEMMA BaseIs ==
  ASSUME NEW g \in DOMAIN Governors, NEW x \in Calls
  PROVE  BaseOf(g, x) = Evaluate(Governors[g].active, Requests[x.request], Runtimes[x.runtime])
<1>1. x.request \in DOMAIN Requests /\ x.runtime \in DOMAIN Runtimes
  BY DEF Calls
<1> HIDE DEF Calls
<1> QED BY <1>1 DEF BaseOf, Base

Lawful(name, x, overridden) ==
    /\ name \in DOMAIN Governors /\ x \in Calls
    /\ ~RulesAgainst(name, x) /\ Grounds(BaseOf(name, x), overridden)

\* Of a decision in hand: it has every field, and an allow has grounds and asks for no recovery.
DecisionOk(d, name, x) ==
    /\ DOMAIN d = DecisionFields
    /\ d.verdict = "allow" => Lawful(name, x, d.override # Nothing) /\ d.recovery = "none"

LEMMA AgainstIs ==
  ASSUME NEW name, NEW x
  PROVE  RulesAgainst(name, x) =
            Against(Governors[name], BaseOf(name, x), Requests[x.request], Runtimes[x.runtime].runtime.time)
BY DEF RulesAgainst, Against

LEMMA DecidedOk ==
  ASSUME NEW name \in DOMAIN Governors, NEW x \in Calls, NEW override, RulesOk(Governors[name]),
         NEW ready, NEW d, d = DecidedWhen(ready, name, x, override)
  PROVE  DecisionOk(d, name, x)
<1> DEFINE g       == Governors[name]
           request == Requests[x.request]
           runtime == Runtimes[x.runtime]
           base    == BaseOf(name, x)
           code    == Preflight(g, request)
           governs == Govern(g, base, request, runtime, floors, override)
           without == Govern(g, base, request, runtime, floors, Nothing).decision
<1>1. base.verdict \in Verdicts
  BY BaseIs, EvaluatedLease
<1>2. \A c : /\ DOMAIN Ungoverned(base, c) = DecisionFields /\ Ungoverned(base, c).verdict # "allow"
  BY DEF Ungoverned, DecisionFields
<1>3. \/ \E c : d = Ungoverned(base, c)
      \/ governs.refusal = Nothing /\ d = governs.decision
      \/ /\ governs.refusal = "RULE-OVERRIDE-INVALID"
         /\ d = IF without.verdict = "quarantine" THEN without
                ELSE [without EXCEPT !.verdict = "deny", !.reason = "RULE-OVERRIDE-INVALID"]
  BY DEF DecidedWhen, Judged
<1>4. RulesAgainst(name, x) = Against(g, base, request, runtime.runtime.time)
  BY AgainstIs
<1> HIDE DEF g, request, runtime, base, code
<1>5. governs.refusal = Nothing =>
         /\ DOMAIN governs.decision = DecisionFields
         /\ governs.decision.verdict = "allow" =>
               /\ governs.decision.recovery = "none"
               /\ ~Against(g, base, request, runtime.runtime.time)
               /\ Grounds(base, governs.decision.override # Nothing)
  BY <1>1, GovernGrounds DEF g
<1>6. governs.refusal = "RULE-OVERRIDE-INVALID" => DOMAIN without = DecisionFields
  BY <1>1, GovernGrounds DEF g
<1> HIDE DEF governs, without
<1>7. ASSUME DOMAIN without = DecisionFields
      PROVE  LET w == [without EXCEPT !.verdict = "deny", !.reason = "RULE-OVERRIDE-INVALID"]
             IN  DOMAIN w = DecisionFields /\ w.verdict = "deny"
  <2>1. "verdict" \in DOMAIN without /\ "reason" \in DOMAIN without
    BY <1>7 DEF DecisionFields
  <2> QED BY <1>7, <2>1
<1>8. DOMAIN d = DecisionFields /\ (d.verdict = "allow" => governs.refusal = Nothing /\ d = governs.decision)
  BY <1>2, <1>3, <1>5, <1>6, <1>7
<1> QED BY <1>4, <1>5, <1>8 DEF DecisionOk, Lawful, base

-----------------------------------------------------------------------------
(* The invariant.                                                          *)

SealedIn(name) ==
    /\ name \in DOMAIN Governors /\ RulesOk(Governors[name])
    /\ Governors[name].active = ActivatePolicy(Governors[name].active.policy)

\* A point has nothing in hand, or a call and a decision with grounds; past the record, an allow.
PointOk(c) ==
    /\ built[c] \in DOMAIN Governors \cup {Nothing}
    /\ built[c] # Nothing => SealedIn(built[c])
    /\ pc[c] \in {"idle", "record", "look", "sink"}
    /\ Idle(c) => decision[c] = Nothing /\ evidence[c] = 0
    /\ ~Idle(c) => /\ built[c] # Nothing /\ call[c] \in Calls
                   /\ DecisionOk(decision[c], built[c], call[c])
                   /\ pc[c] # "record" => decision[c].verdict = "allow"

ByPoint(f) == f = [c \in Points |-> f[c]]
PointsOk ==
    /\ ByPoint(built) /\ ByPoint(pc) /\ ByPoint(call) /\ ByPoint(decision) /\ ByPoint(evidence)
    /\ \A c \in Points : PointOk(c)

\* The protected state: a floor of every kind, and generations.
FloorsOk == DOMAIN floors = Kinds /\ \A kind \in Kinds : floors[kind].generation \in Nat

\* Nobody holds a receipt that is not written; while the last one is a point's own, the floors are
\* what that receipt claims.
ReceiptOk(c) ==
    /\ evidence[c] \in 0..seq
    /\ pc[c] = "look" /\ evidence[c] = seq =>
           \A kind \in DOMAIN Claims(c) : kind \in DOMAIN floors /\ floors[kind] = Claims(c)[kind]

EffectsOk == \A e \in effects : Lawful(e.governor, e.call, e.overridden)

AuthorityInv ==
    /\ FloorsOk /\ PointsOk /\ EffectsOk
    /\ seq \in Nat /\ healthy \in BOOLEAN
    /\ \A c \in Points : ReceiptOk(c)

\* What the calls in hand may still write: two receipts for an allow that is not recorded, one
\* for a negative or for an allow that waits for its last look.
MayWriteTwo == {c \in Points : pc[c] = "record" /\ decision[c].verdict = "allow"}
MayWriteOne == {c \in Points : pc[c] = "look" \/ (pc[c] = "record" /\ decision[c].verdict # "allow")}
BudgetOk ==
    /\ IsFiniteSet(MayWriteTwo) /\ IsFiniteSet(MayWriteOne)
    /\ calls \in 0..MaxCalls
    /\ seq + 2 * Cardinality(MayWriteTwo) + Cardinality(MayWriteOne) <= 2 * calls
    /\ IsFiniteSet(activeOverrides) /\ Cardinality(activeOverrides) <= MaxActivations

\* An allow, a negative and a last look that came to nothing, for whatever reason: they fail here
\* and in the ledger of Receipts, each in ways of its own.
AllowLost(c) ==
    /\ pc[c] = "record" /\ decision[c].verdict = "allow"
    /\ decision' = [decision EXCEPT ![c] = Converted(@)]
    /\ UNCHANGED <<shared, pc, call, evidence, calls, effects>>
NegativeLost(c) ==
    /\ pc[c] = "record" /\ decision[c].verdict # "allow"
    /\ healthy' \in {TRUE, FALSE, healthy}
    /\ Return(c)
    /\ UNCHANGED <<floors, seq, built, activeOverrides, calls, effects>>
Retreats(c) ==
    /\ pc[c] = "look"
    /\ decision' = [decision EXCEPT ![c] = Converted(@)]
    /\ pc' = [pc EXCEPT ![c] = "record"]
    /\ UNCHANGED <<shared, call, evidence, calls, effects>>

\* What a point does, it does at itself.
Acts(c) ==
    \/ \E name \in DOMAIN Governors : Build(c, name)
    \/ MayDecide(c) /\ \E x \in Calls : Decides(c, x)
    \/ RecordAllow(c) \/ RecordNegative(c) \/ AllowLost(c) \/ NegativeLost(c)
    \/ Look(c) \/ Retreats(c) \/ Sink(c)
ActsOnlyAt(c) ==
    /\ ByPoint(built') /\ ByPoint(pc') /\ ByPoint(call') /\ ByPoint(decision') /\ ByPoint(evidence')
    /\ \A p \in Points \ {c} : /\ built'[p] = built[p] /\ pc'[p] = pc[p] /\ call'[p] = call[p]
                               /\ decision'[p] = decision[p] /\ evidence'[p] = evidence[p]

LEMMA ActsThere ==
  ASSUME PointsOk, NEW c \in Points, Acts(c)
  PROVE  ActsOnlyAt(c)
<1> USE DEF PointsOk
<1>1. ASSUME NEW f, ByPoint(f), NEW f2,
             f2 = f \/ \E v : f2 = [f EXCEPT ![c] = v]
      PROVE  ByPoint(f2) /\ \A p \in Points \ {c} : f2[p] = f[p]
  <2>1. CASE f2 = f
    BY <1>1, <2>1
  <2>2. CASE \E v : f2 = [f EXCEPT ![c] = v]
    BY <1>1, <2>2 DEF ByPoint
  <2> QED BY <1>1, <2>1, <2>2
<1> DEFINE Changes ==
             /\ built' = built \/ \E v : built' = [built EXCEPT ![c] = v]
             /\ pc' = pc \/ \E v : pc' = [pc EXCEPT ![c] = v]
             /\ call' = call \/ \E v : call' = [call EXCEPT ![c] = v]
             /\ decision' = decision \/ \E v : decision' = [decision EXCEPT ![c] = v]
             /\ evidence' = evidence \/ \E v : evidence' = [evidence EXCEPT ![c] = v]
<1>2. ASSUME NEW name \in DOMAIN Governors, Build(c, name) PROVE Changes
  BY <1>2 DEF Build
<1>3. ASSUME NEW x \in Calls, Decides(c, x) PROVE Changes
  BY <1>3 DEF Decides, shared
<1>4. ASSUME Return(c), built' = built PROVE Changes
  BY <1>4 DEF Return
<1>5. ASSUME RecordAllow(c) PROVE Changes
  BY <1>5 DEF RecordAllow, Commit
<1>6. ASSUME RecordNegative(c) PROVE Changes
  BY <1>4, <1>6 DEF RecordNegative, Commit
<1>7. ASSUME AllowLost(c) PROVE Changes
  BY <1>7 DEF AllowLost, shared
<1>8. ASSUME NegativeLost(c) PROVE Changes
  BY <1>4, <1>8 DEF NegativeLost
<1>9. ASSUME Look(c) PROVE Changes
  BY <1>9 DEF Look, shared
<1>10. ASSUME Retreats(c) PROVE Changes
  BY <1>10 DEF Retreats, shared
<1>11. ASSUME Sink(c) PROVE Changes
  BY <1>4, <1>11 DEF Sink, shared
<1>12. Changes
  BY <1>2, <1>3, <1>4, <1>5, <1>6, <1>7, <1>8, <1>9, <1>10, <1>11 DEF Acts
<1> QED BY <1>1, <1>12 DEF ActsOnlyAt

LEMMA ConvertedOk ==
  ASSUME NEW d, NEW name, NEW x, DOMAIN d = DecisionFields
  PROVE  DecisionOk(Converted(d), name, x) /\ Converted(d).verdict = "deny"
<1>1. {"verdict", "reason", "recovery", "override"} \subseteq DOMAIN d
  BY DEF DecisionFields
<1>2. DOMAIN Converted(d) = DOMAIN d /\ Converted(d).verdict = "deny"
  BY <1>1 DEF Converted
<1> QED BY <1>2 DEF DecisionOk

LEMMA RulesOfABundle ==
  ASSUME NEW name \in DOMAIN Governors, BundleOk(Governors[name].rules)
  PROVE  RulesOk(Governors[name])
<1> DEFINE rules == Governors[name].rules.rules
<1>1. rules \in Seq(Range(rules))
  BY RulesAssumption
<1>2. \A i \in DOMAIN rules : rules[i].effect \in Effects
  BY DEF BundleOk, RuleOk
<1>3. Len(rules) \in Nat /\ DOMAIN rules = 1..Len(rules)
  BY <1>1
<1> QED BY <1>2, <1>3 DEF RulesOk

(* The point that acts.                                                    *)
LEMMA PointActs ==
  ASSUME PointsOk, NEW c \in Points, Acts(c)
  PROVE  PointOk(c)'
<1>1. PointOk(c)
  BY DEF PointsOk
<1>2. ByPoint(built) /\ ByPoint(pc) /\ ByPoint(call) /\ ByPoint(decision) /\ ByPoint(evidence)
  BY DEF PointsOk
<1>3. ASSUME NEW f, ByPoint(f), NEW f2, NEW v, f2 = [f EXCEPT ![c] = v] PROVE f2[c] = v
  BY <1>3 DEF ByPoint
<1>4. ASSUME Return(c), built' = built PROVE PointOk(c)'
  <2>1. pc'[c] = "idle" /\ decision'[c] = Nothing /\ evidence'[c] = 0
    BY <1>2, <1>3, <1>4 DEF Return
  <2> QED BY <1>1, <1>4, <2>1 DEF PointOk, Idle
<1>5. ASSUME NEW name \in DOMAIN Governors, Build(c, name) PROVE PointOk(c)'
  <2>1. built'[c] = name
    BY <1>2, <1>3, <1>5 DEF Build
  <2>2. Idle(c) /\ pc' = pc /\ call' = call /\ decision' = decision /\ evidence' = evidence
    BY <1>1, <1>5 DEF Build, PointOk
  <2>3. BundleOk(Governors[name].rules)
        /\ Governors[name].active = ActivatePolicy(Governors[name].active.policy)
    BY <1>5 DEF Build, MayActivateRules
  <2>4. SealedIn(name)
    BY <2>3, RulesOfABundle DEF SealedIn
  <2> QED BY <1>1, <2>1, <2>2, <2>4 DEF PointOk, Idle
<1>6. ASSUME NEW x \in Calls, Decides(c, x) PROVE PointOk(c)'
  <2>1. built[c] # Nothing /\ built[c] \in DOMAIN Governors /\ RulesOk(Governors[built[c]])
    BY <1>1, <1>6 DEF Decides, MayDecide, PointOk, SealedIn
  <2>2. DecisionOk(Decided(built[c], x, OverrideOf(x)), built[c], x)
    BY <2>1, DecidedOk DEF Decided
  <2> DEFINE d == Decided(built[c], x, OverrideOf(x))
  <2> HIDE DEF d
  <2>3. call' = [call EXCEPT ![c] = x] /\ decision' = [decision EXCEPT ![c] = d]
        /\ pc' = [pc EXCEPT ![c] = "record"] /\ built' = built
    BY <1>6 DEF Decides, shared, d
  <2>4. pc'[c] = "record" /\ call'[c] = x /\ decision'[c] = d /\ built'[c] = built[c]
    BY <1>2, <1>3, <2>3
  <2>5. DecisionOk(d, built[c], x)
    BY <2>2 DEF d
  <2> QED BY <1>1, <2>1, <2>4, <2>5 DEF PointOk, Idle
<1>7. ASSUME RecordAllow(c) PROVE PointOk(c)'
  <2>1. pc'[c] = "look" /\ pc[c] = "record" /\ built' = built /\ call' = call /\ decision' = decision
        /\ decision[c].verdict = "allow"
    BY <1>2, <1>3, <1>7 DEF RecordAllow, Commit
  <2> QED BY <1>1, <2>1 DEF PointOk, Idle
<1>8. ASSUME RecordNegative(c) PROVE PointOk(c)'
  BY <1>4, <1>8 DEF RecordNegative, Commit
<1>9. ASSUME NegativeLost(c) PROVE PointOk(c)'
  BY <1>4, <1>9 DEF NegativeLost
<1>10. ASSUME decision' = [decision EXCEPT ![c] = Converted(@)], pc'[c] = "record", pc[c] # "idle",
              built' = built, call' = call
       PROVE  PointOk(c)'
  <2> DEFINE d == Converted(decision[c])
  <2>1. decision' = [decision EXCEPT ![c] = d]
    BY <1>10
  <2>2. DecisionOk(d, built[c], call[c])
    BY <1>1, <1>10, ConvertedOk DEF PointOk, Idle, DecisionOk
  <2> HIDE DEF d
  <2>3. decision'[c] = d
    BY <1>2, <1>3, <2>1
  <2> QED BY <1>1, <1>10, <2>2, <2>3 DEF PointOk, Idle
<1>11. ASSUME AllowLost(c) PROVE PointOk(c)'
  BY <1>10, <1>11 DEF AllowLost, shared
<1>12. ASSUME Look(c) PROVE PointOk(c)'
  <2>1. pc'[c] = "sink" /\ pc[c] = "look" /\ built' = built /\ call' = call /\ decision' = decision
    BY <1>2, <1>3, <1>12 DEF Look, shared
  <2> QED BY <1>1, <2>1 DEF PointOk, Idle
<1>13. ASSUME Retreats(c) PROVE PointOk(c)'
  <2>1. pc'[c] = "record" /\ pc[c] = "look" /\ built' = built /\ call' = call
    BY <1>2, <1>3, <1>13 DEF Retreats, shared
  <2> QED BY <1>10, <1>13, <2>1 DEF Retreats
<1>14. ASSUME Sink(c) PROVE PointOk(c)'
  BY <1>4, <1>14 DEF Sink, shared
<1> QED BY <1>5, <1>6, <1>7, <1>8, <1>9, <1>11, <1>12, <1>13, <1>14 DEF Acts

Still == /\ UNCHANGED <<floors, seq, built, pc, call, decision, evidence, calls, effects>>
         /\ healthy' \in {healthy, FALSE}

LEMMA FailuresAre ==
  ASSUME NEW c
  PROVE  /\ RecordAllowFails(c) => AllowLost(c)
         /\ RecordNegativeFails(c) => NegativeLost(c)
         /\ LookFails(c) => Retreats(c)
BY DEF RecordAllowFails, AllowLost, RecordNegativeFails, NegativeLost, LookFails, Retreats

LEMMA NextActs ==
  ASSUME Next
  PROVE  \/ \E name \in DOMAIN Overrides, a \in {g.authorization : g \in Range(Governors)} : Activate(name, a)
         \/ \E c \in Points : Acts(c)
BY FailuresAre DEF Next, Acts

LEMMA StepsAre ==
  ASSUME [Next]_vars
  PROVE  Still \/ \E c \in Points : Acts(c)
<1>1. CASE UNCHANGED vars
  BY <1>1 DEF vars, Still
<1>2. ASSUME NEW name, NEW a, Activate(name, a) PROVE Still
  BY <1>2 DEF Activate, Still
<1>3. CASE Next
  BY <1>2, <1>3, NextActs
<1> QED BY <1>1, <1>3

LEMMA PointsStep ==
  ASSUME PointsOk, Still \/ \E c \in Points : Acts(c)
  PROVE  PointsOk'
<1>1. ASSUME NEW p \in Points, built'[p] = built[p], pc'[p] = pc[p], call'[p] = call[p],
             decision'[p] = decision[p], evidence'[p] = evidence[p]
      PROVE  PointOk(p)'
  BY <1>1 DEF PointsOk, PointOk, Idle
<1>2. CASE Still
  BY <1>1, <1>2 DEF PointsOk, Still, ByPoint
<1>3. ASSUME NEW c \in Points, Acts(c) PROVE PointsOk'
  <2>1. ActsOnlyAt(c)
    BY <1>3, ActsThere
  <2>2. PointOk(c)'
    BY <1>3, PointActs
  <2>3. ASSUME NEW p \in Points \ {c} PROVE PointOk(p)'
    BY <1>1, <2>1 DEF ActsOnlyAt
  <2> QED BY <2>1, <2>2, <2>3 DEF PointsOk, ActsOnlyAt, ByPoint
<1> QED BY <1>2, <1>3

(* A commit raises the floors it claims, to what it claims, and no others. *)
LEMMA CommitRaises ==
  ASSUME FloorsOk, NEW c \in Points, Commit(c)
  PROVE  /\ FloorsOk' /\ DOMAIN Claims(c) \subseteq DOMAIN floors'
         /\ \A kind \in DOMAIN Claims(c) : floors'[kind] = Claims(c)[kind]
         /\ \A kind \in Kinds :
               ~BelowFloor(floors'[kind].generation, floors'[kind].digest, floors[kind])
<1> DEFINE claims == Claims(c)
<1>1. floors' = [kind \in DOMAIN floors |-> IF kind \in DOMAIN claims THEN claims[kind] ELSE floors[kind]]
  BY DEF Commit, Raised
<1>2. \A kind \in DOMAIN claims : ~UnderFloor(floors, kind, claims[kind].generation, claims[kind].digest)
  BY DEF Commit, Committable, Admits
<1> HIDE DEF claims
<1>3. ASSUME NEW kind \in DOMAIN claims
      PROVE  /\ kind \in DOMAIN floors /\ claims[kind].generation \in Nat
             /\ ~BelowFloor(claims[kind].generation, claims[kind].digest, floors[kind])
  BY <1>2 DEF UnderFloor
<1>4. ASSUME NEW kind \in Kinds, kind \notin DOMAIN claims
      PROVE  floors'[kind] = floors[kind]
  BY <1>1, <1>4 DEF FloorsOk
<1>5. ASSUME NEW kind \in DOMAIN claims PROVE floors'[kind] = claims[kind]
  BY <1>1, <1>3
<1>6. DOMAIN floors' = Kinds /\ DOMAIN claims \subseteq Kinds
  BY <1>1, <1>3 DEF FloorsOk
<1>7. ASSUME NEW kind \in Kinds PROVE floors'[kind].generation \in Nat
  BY <1>3, <1>4, <1>5 DEF FloorsOk
<1>8. ASSUME NEW kind \in Kinds
      PROVE  ~BelowFloor(floors'[kind].generation, floors'[kind].digest, floors[kind])
  <2>1. CASE kind \in DOMAIN claims
    BY <1>3, <1>5, <2>1
  <2>2. CASE kind \notin DOMAIN claims
    <3>1. floors'[kind] = floors[kind] /\ floors[kind].generation \in Nat
      BY <1>4, <2>2 DEF FloorsOk
    <3> QED BY <3>1 DEF BelowFloor
  <2> QED BY <2>1, <2>2
<1> QED BY <1>5, <1>6, <1>7, <1>8 DEF FloorsOk, claims

\* A step writes a receipt, of the point that acts, or leaves the protected state and the log.
Writes(c) == Commit(c) /\ IF pc'[c] = "look" THEN RecordAllow(c) ELSE evidence'[c] = 0
WritesNot(c) == floors' = floors /\ seq' = seq /\ pc'[c] # "look" /\ evidence'[c] \in {evidence[c], 0}

LEMMA ActsWrite ==
  ASSUME PointsOk, NEW c \in Points, Acts(c)
  PROVE  Writes(c) \/ WritesNot(c)
<1> USE DEF WritesNot
<1>1. PointOk(c) /\ ByPoint(pc) /\ ByPoint(evidence)
  BY DEF PointsOk
<1>2. ASSUME Return(c) PROVE pc'[c] = "idle" /\ evidence'[c] = 0
  BY <1>1, <1>2 DEF Return, ByPoint
<1>3. ASSUME NEW name, Build(c, name) PROVE WritesNot(c)
  BY <1>1, <1>3 DEF Build, PointOk, Idle
<1>4. ASSUME NEW x, Decides(c, x) PROVE WritesNot(c)
  BY <1>1, <1>4 DEF Decides, shared, ByPoint
<1>5. ASSUME RecordAllow(c) PROVE Writes(c)
  <2>1. pc'[c] = "look"
    BY <1>1, <1>5 DEF RecordAllow, ByPoint
  <2> QED BY <1>5, <2>1 DEF RecordAllow, Writes
<1>6. ASSUME RecordNegative(c) PROVE Writes(c)
  BY <1>2, <1>6 DEF RecordNegative, Writes
<1>7. ASSUME AllowLost(c) PROVE WritesNot(c)
  BY <1>7 DEF AllowLost, shared
<1>8. ASSUME NegativeLost(c) PROVE WritesNot(c)
  BY <1>2, <1>8 DEF NegativeLost
<1>9. ASSUME Look(c) \/ Retreats(c) PROVE WritesNot(c)
  BY <1>1, <1>9 DEF Look, Retreats, shared, ByPoint
<1>10. ASSUME Sink(c) PROVE WritesNot(c)
  BY <1>2, <1>10 DEF Sink, shared
<1> QED BY <1>3, <1>4, <1>5, <1>6, <1>7, <1>8, <1>9, <1>10 DEF Acts

LEMMA FloorsStep ==
  ASSUME PointsOk, FloorsOk, Still \/ \E c \in Points : Acts(c)
  PROVE  /\ FloorsOk'
         /\ \A kind \in Kinds :
               ~BelowFloor(floors'[kind].generation, floors'[kind].digest, floors[kind])
<1>1. ASSUME floors' = floors
      PROVE  /\ FloorsOk'
             /\ \A kind \in Kinds :
                   ~BelowFloor(floors'[kind].generation, floors'[kind].digest, floors[kind])
  BY <1>1 DEF FloorsOk, BelowFloor
<1>2. CASE Still
  BY <1>1, <1>2 DEF Still
<1>3. ASSUME NEW c \in Points, Acts(c)
      PROVE  /\ FloorsOk'
             /\ \A kind \in Kinds :
                   ~BelowFloor(floors'[kind].generation, floors'[kind].digest, floors[kind])
  <2>1. CASE floors' = floors
    BY <1>1, <2>1
  <2>2. CASE Writes(c)
    BY <2>2, CommitRaises DEF Writes
  <2> QED BY <1>3, <2>1, <2>2, ActsWrite DEF WritesNot
<1> QED BY <1>2, <1>3

LEMMA ReceiptsStep ==
  ASSUME PointsOk, FloorsOk, seq \in Nat, \A c \in Points : ReceiptOk(c),
         Still \/ \E c \in Points : Acts(c)
  PROVE  seq' \in Nat /\ \A c \in Points : ReceiptOk(c)'
<1>1. ASSUME NEW p \in Points, built'[p] = built[p], pc'[p] = pc[p], decision'[p] = decision[p],
             evidence'[p] = evidence[p], floors' = floors, seq' = seq
      PROVE  ReceiptOk(p)'
  BY <1>1 DEF ReceiptOk, Claims
<1>2. CASE Still
  BY <1>1, <1>2 DEF Still
<1>3. ASSUME NEW c \in Points, Acts(c)
      PROVE  seq' \in Nat /\ \A p \in Points : ReceiptOk(p)'
  <2>1. ActsOnlyAt(c)
    BY <1>3, ActsThere
  <2>2. CASE WritesNot(c)
    <3>1. ASSUME NEW p \in Points \ {c} PROVE ReceiptOk(p)'
      BY <1>1, <2>1, <2>2 DEF ActsOnlyAt, WritesNot
    <3>2. evidence'[c] \in 0..seq'
      BY <2>2 DEF WritesNot, ReceiptOk
    <3> QED BY <2>2, <3>1, <3>2 DEF ReceiptOk, WritesNot
  <2>3. CASE Writes(c)
    <3>1. seq' = seq + 1
      BY <2>3 DEF Writes, Commit
    <3>2. ASSUME NEW p \in Points \ {c} PROVE ReceiptOk(p)'
      <4>1. evidence'[p] = evidence[p] /\ evidence[p] \in 0..seq
        BY <2>1 DEF ActsOnlyAt, ReceiptOk
      <4>2. evidence'[p] \in 0..seq' /\ evidence'[p] # seq'
        BY <3>1, <4>1
      <4> QED BY <4>2 DEF ReceiptOk
    <3>3. CASE RecordAllow(c)
      <4>1. evidence'[c] = seq + 1 /\ built' = built /\ decision' = decision
        BY <3>3 DEF RecordAllow, Commit, PointsOk, ByPoint
      <4>2. Claims(c)' = Claims(c)
        BY <4>1 DEF Claims
      <4>3. DOMAIN Claims(c) \subseteq DOMAIN floors'
            /\ \A kind \in DOMAIN Claims(c) : floors'[kind] = Claims(c)[kind]
        BY <2>3, CommitRaises DEF Writes
      <4> QED BY <3>1, <3>2, <4>1, <4>2, <4>3 DEF ReceiptOk
    <3>4. CASE ~RecordAllow(c)
      <4>1. pc'[c] # "look" /\ evidence'[c] = 0
        BY <2>3, <3>4 DEF Writes
      <4> QED BY <3>1, <3>2, <4>1 DEF ReceiptOk
    <3> QED BY <3>3, <3>4, <3>1
  <2> QED BY <1>3, <2>2, <2>3, ActsWrite
<1> QED BY <1>2, <1>3 DEF Still

LEMMA EffectsStep ==
  ASSUME PointsOk, EffectsOk, Still \/ \E c \in Points : Acts(c)
  PROVE  EffectsOk'
<1>1. ASSUME effects' = effects PROVE EffectsOk'
  BY <1>1 DEF EffectsOk
<1>2. ASSUME NEW c \in Points, Sink(c) PROVE EffectsOk'
  <2> DEFINE e == [governor |-> built[c], call |-> call[c], overridden |-> decision[c].override # Nothing]
  <2>1. effects' = effects \cup {e}
    BY <1>2 DEF Sink
  <2>2. PointOk(c) /\ pc[c] = "sink"
    BY <1>2 DEF Sink, PointsOk
  <2>3. Lawful(built[c], call[c], decision[c].override # Nothing)
    BY <2>2 DEF PointOk, DecisionOk, Idle
  <2>4. e.governor = built[c] /\ e.call = call[c] /\ e.overridden = (decision[c].override # Nothing)
    OBVIOUS
  <2> HIDE DEF e
  <2>5. Lawful(e.governor, e.call, e.overridden)
    BY <2>3, <2>4 DEF Lawful, Grounds
  <2> QED BY <2>1, <2>5 DEF EffectsOk
<1>3. ASSUME NEW c \in Points, Acts(c), ~Sink(c) PROVE effects' = effects
  BY <1>3 DEF Acts, Build, Decides, RecordAllow, RecordNegative, AllowLost,
              NegativeLost, Look, Retreats, Commit
<1> QED BY <1>1, <1>2, <1>3 DEF Still

LEMMA HealthStep ==
  ASSUME healthy \in BOOLEAN, Still \/ \E c \in Points : Acts(c)
  PROVE  healthy' \in BOOLEAN
BY DEF Still, Acts, Build, Decides, RecordAllow, RecordNegative, AllowLost,
       NegativeLost, Look, Retreats, Sink, Commit, shared

LEMMA AuthorityInit ==
  ASSUME Init
  PROVE  AuthorityInv
<1>1. FloorsOk
  BY GenesisAssumption DEF Init, FloorsOk
<1>2. PointsOk
  BY DEF Init, PointsOk, PointOk, ByPoint, Idle
<1>3. \A c \in Points : ReceiptOk(c)
  BY DEF Init, ReceiptOk
<1> QED BY <1>1, <1>2, <1>3 DEF Init, AuthorityInv, EffectsOk

(* Floors, points, receipts and effects stay in order.                     *)
THEOREM AuthorityInvariant == Spec => []AuthorityInv
<1>1. Init => AuthorityInv
  BY AuthorityInit
<1>2. AuthorityInv /\ [Next]_vars => AuthorityInv'
  <2> SUFFICES ASSUME AuthorityInv, [Next]_vars PROVE AuthorityInv'
    OBVIOUS
  <2>1. Still \/ \E c \in Points : Acts(c)
    BY StepsAre
  <2>2. PointsOk' /\ FloorsOk' /\ EffectsOk' /\ healthy' \in BOOLEAN
    BY <2>1, PointsStep, FloorsStep, EffectsStep, HealthStep DEF AuthorityInv
  <2>3. seq' \in Nat /\ \A c \in Points : ReceiptOk(c)'
    BY <2>1, ReceiptsStep DEF AuthorityInv
  <2> QED BY <2>2, <2>3 DEF AuthorityInv
<1> QED BY <1>1, <1>2, PTL DEF Spec

(* No floor ever falls and no generation changes its digest: the commit    *)
(* reads the floors again, whoever raised them since the decision          *)
(* (evidence_state.py: validate_floor in the commit).                      *)
THEOREM FloorsNeverFall == Spec => FloorsOnlyRise
<1>1. AuthorityInv /\ [Next]_vars =>
        [\A kind \in Kinds :
            ~BelowFloor(floors'[kind].generation, floors'[kind].digest, floors[kind])]_vars
  <2> SUFFICES ASSUME AuthorityInv, [Next]_vars
               PROVE  \A kind \in Kinds :
                         ~BelowFloor(floors'[kind].generation, floors'[kind].digest, floors[kind])
    OBVIOUS
  <2> QED BY StepsAre, FloorsStep DEF AuthorityInv
<1> QED BY <1>1, AuthorityInvariant, PTL DEF Spec, FloorsOnlyRise

LEMMA ClaimsAre ==
  ASSUME NEW name \in DOMAIN Governors, NEW o
  PROVE  LET active == Governors[name].active
             claims == ClaimsOf(name, o)
         IN  /\ {"policy", "revocation"} \subseteq DOMAIN claims
             /\ claims["policy"] = Claim(active.policy.generation, active.digest)
             /\ claims["revocation"] = Claim(active.policy.revocation, active.revocationDigest)
<1> DEFINE by == ClaimedBy[name]
           active == Governors[name].active
<1>1. /\ DOMAIN by = GovernorKinds
      /\ by["policy"] = Claim(active.policy.generation, active.digest)
      /\ by["revocation"] = Claim(active.policy.revocation, active.revocationDigest)
  BY DEF ClaimedBy, GovernorKinds
<1> HIDE DEF by
<1>2. CASE o = Nothing
  BY <1>1, <1>2 DEF ClaimsOf, GovernorKinds, by
<1>3. CASE o # Nothing
  BY <1>1, <1>3 DEF ClaimsOf, GovernorKinds, by
<1> QED BY <1>2, <1>3

(* At a look that passes, the log has grown by no other receipt, so the    *)
(* floors are the decision's own policy, and the lease is one it admits.   *)
LEMMA LookedAt ==
  ASSUME AuthorityInv, NEW c \in Points, Look(c)
  PROVE  LeaseStillAdmitted(c)
<1> DEFINE name == built[c]
           x == call[c]
           active == Governors[name].active
           request == Requests[x.request]
           l == request.lease
           p == active.policy
           base == BaseOf(name, x)
<1>1. PointOk(c) /\ ReceiptOk(c) /\ pc[c] = "look" /\ evidence[c] = seq
  BY DEF AuthorityInv, PointsOk, Look, Unmoved
<1>2. /\ name \in DOMAIN Governors /\ active = ActivatePolicy(p) /\ x \in Calls
      /\ Grounds(base, decision[c].override # Nothing)
  BY <1>1 DEF PointOk, SealedIn, Idle, DecisionOk, Lawful
<1>3. floors["policy"] = Claim(p.generation, active.digest)
      /\ floors["revocation"] = Claim(p.revocation, active.revocationDigest)
  <2>1. \A kind \in DOMAIN Claims(c) : floors[kind] = Claims(c)[kind]
    BY <1>1 DEF ReceiptOk
  <2>2. /\ {"policy", "revocation"} \subseteq DOMAIN Claims(c)
        /\ Claims(c)["policy"] = Claim(p.generation, active.digest)
        /\ Claims(c)["revocation"] = Claim(p.revocation, active.revocationDigest)
    BY <1>2, ClaimsAre DEF Claims
  <2> QED BY <2>1, <2>2
<1>4. active.digest = PolicyDigest(p) /\ active.revocationDigest = RevocationDigest(p)
  BY <1>2 DEF ActivatePolicy
<1>5. /\ floors["policy"].generation = p.generation /\ ProtectedPolicy = p
      /\ floors["revocation"].digest[2][2] = p.revoked
  BY <1>3, <1>4 DEF Claim, ProtectedPolicy, PolicyDigest, RevocationDigest, Digest
<1>6. base = Evaluate(active, request, Runtimes[x.runtime])
  BY <1>2, BaseIs
<1>7. /\ base.verdict = "allow" => l.generation = p.generation /\ l.digest \notin p.revoked
                                   /\ l.digest \in p.grants
      /\ base.reason = "PDP-DENY-DEFAULT" => l.generation = p.generation /\ l.digest \notin p.revoked
  BY <1>6, EvaluatedLease
<1>8. \/ base.verdict = "allow" /\ ~(decision[c].override # Nothing)
      \/ base.reason = "PDP-DENY-DEFAULT" /\ decision[c].override # Nothing
  BY <1>2 DEF Grounds
<1> HIDE DEF base, p, l
<1> QED BY <1>5, <1>7, <1>8 DEF LeaseStillAdmitted, l

(* At the last look before an effect the lease is one the protected policy *)
(* admits, whatever policy any other point has committed since the         *)
(* decision (policy_enforcement_v2.py: _healthy_at_sink).                  *)
THEOREM RevokedNeverRuns == Spec => RevokedStaysRevoked
<1>1. AuthorityInv /\ [Next]_vars =>
        [\A c \in Points : (pc[c] = "look" /\ pc'[c] = "sink") => LeaseStillAdmitted(c)]_vars
  <2> SUFFICES ASSUME AuthorityInv, [Next]_vars, NEW c \in Points, pc[c] = "look", pc'[c] = "sink"
               PROVE  LeaseStillAdmitted(c)
    OBVIOUS
  <2>1. PICK p \in Points : Acts(p)
    BY StepsAre DEF Still
  <2>2. PointsOk
    BY DEF AuthorityInv
  <2>3. p = c
    BY <2>1, <2>2, ActsThere DEF ActsOnlyAt
  <2>4. Look(c)
    <3>1. ASSUME Return(c) PROVE FALSE
      BY <2>2, <3>1 DEF Return, PointsOk, ByPoint
    <3> QED BY <2>1, <2>2, <2>3, <3>1
        DEF Acts, Build, Decides, MayDecide, RecordAllow, RecordNegative, AllowLost,
            NegativeLost, Retreats, Sink, Commit, PointsOk, ByPoint, Idle
  <2> QED BY <2>4, LookedAt
<1> QED BY <1>1, AuthorityInvariant, PTL DEF Spec, RevokedStaysRevoked

(* Nothing runs that a rule was against, and nothing that was not allowed  *)
(* or lifted from the one denial that can be (decision_governor.py:        *)
(* govern; rule_engine.py: evaluate_rules).                                *)
THEOREM RulesAreHeeded == Spec => []NothingOutvotesARule
<1>1. AuthorityInv => NothingOutvotesARule
  <2> SUFFICES ASSUME AuthorityInv, NEW e \in effects
               PROVE  LET base == BaseOf(e.governor, e.call) IN
                      /\ ~RulesAgainst(e.governor, e.call)
                      /\ base.verdict = "allow" \/ (e.overridden /\ base.reason \in OverridableReasons)
    BY DEF NothingOutvotesARule
  <2>1. Lawful(e.governor, e.call, e.overridden)
    BY DEF AuthorityInv, EffectsOk
  <2> QED BY <2>1 DEF Lawful, Grounds, OverridableReasons
<1> QED BY <1>1, AuthorityInvariant, PTL

-----------------------------------------------------------------------------
(* The types: every call writes at most two receipts.                      *)

Has(S, c) == IF c \in S THEN 1 ELSE 0

LEMMA OneMoves ==
  ASSUME NEW S, IsFiniteSet(S), NEW T, NEW c, T \ {c} = S \ {c}
  PROVE  /\ IsFiniteSet(T) /\ Cardinality(S) \in Nat /\ Cardinality(T) \in Nat
         /\ Cardinality(T) + Has(S, c) = Cardinality(S) + Has(T, c)
<1> DEFINE R == S \ {c}
<1>1. IsFiniteSet(R) /\ Cardinality(R) = IF c \in S THEN Cardinality(S) - 1 ELSE Cardinality(S)
  BY FS_RemoveElement
<1>2. c \notin R /\ IsFiniteSet(R \cup {c}) /\ Cardinality(R \cup {c}) = Cardinality(R) + 1
  BY <1>1, FS_AddElement
<1>3. T = IF c \in T THEN R \cup {c} ELSE R
  OBVIOUS
<1>4. Cardinality(S) \in Nat
  BY FS_CardinalityType
<1>5. Cardinality(R) + Has(S, c) = Cardinality(S)
  <2>1. CASE c \in S
    BY <1>1, <1>4, <2>1 DEF Has
  <2>2. CASE c \notin S
    BY <1>1, <1>4, <2>2 DEF Has
  <2> QED BY <2>1, <2>2
<1>6. Cardinality(R) \in Nat
  BY <1>1, FS_CardinalityType
<1> HIDE DEF R
<1>7. IsFiniteSet(T) /\ Cardinality(T) = Cardinality(R) + Has(T, c)
  <2>1. CASE c \in T
    BY <1>2, <1>3, <2>1 DEF Has
  <2>2. CASE c \notin T
    <3>1. T = R
      BY <1>3, <2>2
    <3> QED BY <1>1, <1>6, <2>2, <3>1 DEF Has
  <2> QED BY <2>1, <2>2
<1>8. Has(S, c) \in Nat /\ Has(T, c) \in Nat
  BY DEF Has
<1> QED BY <1>4, <1>5, <1>6, <1>7, <1>8

\* What a point may still write, by where it stands and what it decided.
Owes(at, d) == IF at = "record" THEN (IF d.verdict = "allow" THEN 2 ELSE 1)
               ELSE IF at = "look" THEN 1 ELSE 0

LEMMA OwesIs ==
  ASSUME NEW at, NEW d, NEW c, NEW two, NEW one,
         c \in two <=> at = "record" /\ d.verdict = "allow",
         c \in one <=> at = "look" \/ (at = "record" /\ d.verdict # "allow")
  PROVE  2 * Has(two, c) + Has(one, c) = Owes(at, d) /\ Owes(at, d) \in Nat
<1>1. Has(two, c) = (IF c \in two THEN 1 ELSE 0) /\ Has(one, c) = (IF c \in one THEN 1 ELSE 0)
  BY DEF Has
<1>2. CASE at = "record" /\ d.verdict = "allow"
  BY <1>1, <1>2 DEF Owes
<1>3. CASE at = "record" /\ d.verdict # "allow"
  BY <1>1, <1>3 DEF Owes
<1>4. CASE at = "look"
  BY <1>1, <1>4 DEF Owes
<1>5. CASE at # "look" /\ at # "record"
  BY <1>1, <1>5 DEF Owes
<1> QED BY <1>2, <1>3, <1>4, <1>5

\* Of what a point owes, each receipt pays one, and only a new call adds to it.
Pays(c) ==
    \/ calls' = calls /\ seq' \in {seq, seq + 1}
       /\ Owes(pc'[c], decision'[c]) + seq' <= Owes(pc[c], decision[c]) + seq
    \/ calls' = calls + 1 /\ calls < MaxCalls /\ seq' = seq
       /\ Owes(pc[c], decision[c]) = 0 /\ Owes(pc'[c], decision'[c]) <= 2

LEMMA ActsPay ==
  ASSUME PointsOk, seq \in Nat, calls \in Nat, NEW c \in Points, Acts(c)
  PROVE  Pays(c)
<1>1. PointOk(c) /\ ByPoint(pc) /\ ByPoint(decision)
  BY DEF PointsOk
<1>2. /\ Owes("idle", decision'[c]) = 0 /\ Owes("sink", decision'[c]) = 0
      /\ Owes("idle", decision[c]) = 0 /\ Owes("sink", decision[c]) = 0
      /\ Owes("look", decision[c]) = 1 /\ Owes("look", decision'[c]) = 1
      /\ decision[c].verdict = "allow" => Owes("record", decision[c]) = 2
      /\ decision[c].verdict # "allow" => Owes("record", decision[c]) = 1
      /\ decision'[c].verdict # "allow" => Owes("record", decision'[c]) = 1
      /\ Owes("record", decision'[c]) <= 2
  BY DEF Owes
<1> HIDE DEF Owes
<1>3. ASSUME Return(c) PROVE pc'[c] = "idle"
  BY <1>1, <1>3 DEF Return, ByPoint
<1>4. ASSUME NEW name, Build(c, name) PROVE Pays(c)
  <2>1. pc[c] = "idle" /\ pc'[c] = "idle" /\ calls' = calls /\ seq' = seq
    BY <1>1, <1>4 DEF Build, PointOk, Idle
  <2> QED BY <1>2, <2>1 DEF Pays
<1>5. ASSUME NEW x, Decides(c, x) PROVE Pays(c)
  <2>1. pc[c] = "idle" /\ pc'[c] = "record" /\ calls' = calls + 1 /\ calls < MaxCalls /\ seq' = seq
    BY <1>1, <1>5 DEF Decides, MayDecide, Idle, shared, ByPoint
  <2> QED BY <1>2, <2>1 DEF Pays
<1>6. ASSUME RecordAllow(c) PROVE Pays(c)
  <2>1. pc[c] = "record" /\ pc'[c] = "look" /\ calls' = calls /\ seq' = seq + 1
        /\ decision[c].verdict = "allow"
    BY <1>1, <1>6 DEF RecordAllow, Commit, ByPoint
  <2> QED BY <1>2, <2>1 DEF Pays
<1>7. ASSUME RecordNegative(c) PROVE Pays(c)
  <2>1. pc[c] = "record" /\ pc'[c] = "idle" /\ calls' = calls /\ seq' = seq + 1
        /\ decision[c].verdict # "allow"
    BY <1>3, <1>7 DEF RecordNegative, Commit
  <2> QED BY <1>2, <2>1 DEF Pays
<1>8. ASSUME decision' = [decision EXCEPT ![c] = Converted(@)], pc'[c] = "record",
             calls' = calls, seq' = seq, (pc[c] = "record" /\ decision[c].verdict = "allow") \/ pc[c] = "look"
      PROVE  Pays(c)
  <2>1. decision'[c].verdict = "deny"
    <3>1. DOMAIN decision[c] = DecisionFields
      BY <1>1, <1>8 DEF PointOk, Idle, DecisionOk
    <3> QED BY <1>1, <1>8, <3>1, ConvertedOk DEF ByPoint
  <2> QED BY <1>2, <1>8, <2>1 DEF Pays
<1>9. ASSUME AllowLost(c) PROVE Pays(c)
  BY <1>8, <1>9 DEF AllowLost, shared
<1>10. ASSUME NegativeLost(c) PROVE Pays(c)
  <2>1. pc[c] = "record" /\ pc'[c] = "idle" /\ calls' = calls /\ seq' = seq
        /\ decision[c].verdict # "allow"
    BY <1>3, <1>10 DEF NegativeLost
  <2> QED BY <1>2, <2>1 DEF Pays
<1>11. ASSUME Look(c) PROVE Pays(c)
  <2>1. pc[c] = "look" /\ pc'[c] = "sink" /\ calls' = calls /\ seq' = seq
    BY <1>1, <1>11 DEF Look, shared, ByPoint
  <2> QED BY <1>2, <2>1 DEF Pays
<1>12. ASSUME Retreats(c) PROVE Pays(c)
  <2>1. pc[c] = "look" /\ pc'[c] = "record" /\ calls' = calls /\ seq' = seq
        /\ decision' = [decision EXCEPT ![c] = Converted(@)]
    BY <1>1, <1>12 DEF Retreats, shared, ByPoint
  <2> QED BY <1>8, <2>1
<1>13. ASSUME Sink(c) PROVE Pays(c)
  <2>1. pc[c] = "sink" /\ pc'[c] = "idle" /\ calls' = calls /\ seq' = seq
    BY <1>3, <1>13 DEF Sink, shared
  <2> QED BY <1>2, <2>1 DEF Pays
<1> QED BY <1>4, <1>5, <1>6, <1>7, <1>9, <1>10, <1>11, <1>12, <1>13 DEF Acts

LEMMA Sums ==
  ASSUME NEW a \in Nat, NEW a2 \in Nat, NEW b \in Nat, NEW b2 \in Nat, NEW h \in Nat, NEW h2 \in Nat,
         NEW k \in Nat, NEW k2 \in Nat, NEW o \in Nat, NEW o2 \in Nat,
         a2 + h = a + h2, b2 + k = b + k2, 2 * h + k = o, 2 * h2 + k2 = o2,
         NEW s \in Nat, NEW s2, NEW n \in Nat, NEW n2, s + 2 * a + b <= 2 * n,
         \/ n2 = n /\ s2 \in {s, s + 1} /\ o2 + s2 <= o + s
         \/ n2 = n + 1 /\ s2 = s /\ o = 0 /\ o2 <= 2
  PROVE  s2 + 2 * a2 + b2 <= 2 * n2
<1>1. 2 * a2 + b2 + o = 2 * a + b + o2
  OBVIOUS
<1>2. CASE n2 = n /\ s2 \in {s, s + 1} /\ o2 + s2 <= o + s
  BY <1>1, <1>2
<1>3. CASE n2 = n + 1 /\ s2 = s /\ o = 0 /\ o2 <= 2
  BY <1>1, <1>3
<1> QED BY <1>2, <1>3

LEMMA CountsStep ==
  ASSUME PointsOk, seq \in Nat, BudgetOk, NEW c \in Points, Acts(c)
  PROVE  /\ IsFiniteSet(MayWriteTwo') /\ IsFiniteSet(MayWriteOne') /\ calls' \in 0..MaxCalls
         /\ seq' + 2 * Cardinality(MayWriteTwo') + Cardinality(MayWriteOne') <= 2 * calls'
<1> DEFINE two == MayWriteTwo
           one == MayWriteOne
           two2 == MayWriteTwo'
           one2 == MayWriteOne'
           o == Owes(pc[c], decision[c])
           o2 == Owes(pc'[c], decision'[c])
<1>1. two2 \ {c} = two \ {c} /\ one2 \ {c} = one \ {c}
  BY ActsThere DEF ActsOnlyAt, MayWriteTwo, MayWriteOne
<1>2. (c \in two <=> pc[c] = "record" /\ decision[c].verdict = "allow")
      /\ (c \in one <=> pc[c] = "look" \/ (pc[c] = "record" /\ decision[c].verdict # "allow"))
  BY DEF MayWriteTwo, MayWriteOne
<1>3. (c \in two2 <=> pc'[c] = "record" /\ decision'[c].verdict = "allow")
      /\ (c \in one2 <=> pc'[c] = "look" \/ (pc'[c] = "record" /\ decision'[c].verdict # "allow"))
  BY DEF MayWriteTwo, MayWriteOne
<1>4. IsFiniteSet(two) /\ IsFiniteSet(one) /\ calls \in 0..MaxCalls
      /\ seq + 2 * Cardinality(two) + Cardinality(one) <= 2 * calls
  BY DEF BudgetOk
<1>5. calls \in Nat /\ MaxCalls \in Nat
  BY <1>4, AuthorityBounds
<1>6. Pays(c)
  BY <1>5, ActsPay
<1> HIDE DEF two, one, two2, one2
<1>7. 2 * Has(two, c) + Has(one, c) = o /\ o \in Nat
  BY <1>2, OwesIs
<1>8. 2 * Has(two2, c) + Has(one2, c) = o2 /\ o2 \in Nat
  BY <1>3, OwesIs
<1>9. /\ IsFiniteSet(two2) /\ Cardinality(two) \in Nat /\ Cardinality(two2) \in Nat
      /\ Cardinality(two2) + Has(two, c) = Cardinality(two) + Has(two2, c)
  BY <1>1, <1>4, OneMoves
<1>10. /\ IsFiniteSet(one2) /\ Cardinality(one) \in Nat /\ Cardinality(one2) \in Nat
       /\ Cardinality(one2) + Has(one, c) = Cardinality(one) + Has(one2, c)
  BY <1>1, <1>4, OneMoves
<1>11. Has(two, c) \in Nat /\ Has(one, c) \in Nat /\ Has(two2, c) \in Nat /\ Has(one2, c) \in Nat
  BY DEF Has
<1>12. \/ calls' = calls /\ seq' \in {seq, seq + 1} /\ o2 + seq' <= o + seq
       \/ calls' = calls + 1 /\ calls < MaxCalls /\ seq' = seq /\ o = 0 /\ o2 <= 2
  BY <1>6 DEF Pays
<1> HIDE DEF o, o2
<1>13. seq' + 2 * Cardinality(two2) + Cardinality(one2) <= 2 * calls'
  <2> DEFINE a == Cardinality(two)
             a2 == Cardinality(two2)
             b == Cardinality(one)
             b2 == Cardinality(one2)
             h == Has(two, c)
             h2 == Has(two2, c)
             k == Has(one, c)
             k2 == Has(one2, c)
  <2>1. /\ a \in Nat /\ a2 \in Nat /\ b \in Nat /\ b2 \in Nat /\ h \in Nat /\ h2 \in Nat
        /\ k \in Nat /\ k2 \in Nat /\ o \in Nat /\ o2 \in Nat
        /\ a2 + h = a + h2 /\ b2 + k = b + k2 /\ 2 * h + k = o /\ 2 * h2 + k2 = o2
    BY <1>7, <1>8, <1>9, <1>10, <1>11
  <2>2. seq + 2 * a + b <= 2 * calls
    BY <1>4
  <2> HIDE DEF a, a2, b, b2, h, h2, k, k2
  <2>3. seq' + 2 * a2 + b2 <= 2 * calls'
    BY <1>5, <1>12, <2>1, <2>2, Sums
  <2> QED BY <2>3 DEF a2, b2
<1>14. calls' \in 0..MaxCalls
  BY <1>4, <1>5, <1>12
<1> QED BY <1>9, <1>10, <1>13, <1>14 DEF two2, one2

LEMMA OverridesStep ==
  ASSUME IsFiniteSet(activeOverrides), Cardinality(activeOverrides) <= MaxActivations, [Next]_vars
  PROVE  IsFiniteSet(activeOverrides') /\ Cardinality(activeOverrides') <= MaxActivations
<1>1. CASE activeOverrides' = activeOverrides
  BY <1>1
<1>2. ASSUME NEW name, NEW a, Activate(name, a)
      PROVE  IsFiniteSet(activeOverrides') /\ Cardinality(activeOverrides') <= MaxActivations
  <2>1. PICK e : activeOverrides' = activeOverrides \cup {e} /\ Cardinality(activeOverrides) < MaxActivations
    BY <1>2 DEF Activate
  <2>2. IsFiniteSet(activeOverrides \cup {e})
        /\ \/ Cardinality(activeOverrides \cup {e}) = Cardinality(activeOverrides)
           \/ Cardinality(activeOverrides \cup {e}) = Cardinality(activeOverrides) + 1
    BY FS_AddElement
  <2>3. Cardinality(activeOverrides) \in Nat /\ MaxActivations \in Nat
    BY FS_CardinalityType, AuthorityBounds
  <2> QED BY <2>1, <2>2, <2>3
<1>3. ASSUME NEW c \in Points, Acts(c) PROVE activeOverrides' = activeOverrides
  BY <1>3 DEF Acts, Build, Decides, RecordAllow, RecordNegative, AllowLost,
              NegativeLost, Look, Retreats, Sink, Commit, shared
<1>4. CASE UNCHANGED vars
  BY <1>1, <1>4 DEF vars
<1>5. CASE Next
  BY <1>1, <1>2, <1>3, <1>5, NextActs
<1> QED BY <1>4, <1>5

LEMMA BudgetInvariant == Spec => []BudgetOk
<1>1. Init => BudgetOk
  <2> SUFFICES ASSUME Init PROVE BudgetOk
    OBVIOUS
  <2>1. MayWriteTwo = {} /\ MayWriteOne = {} /\ activeOverrides = {} /\ seq = 0 /\ calls = 0
    BY DEF Init, MayWriteTwo, MayWriteOne
  <2>2. IsFiniteSet({}) /\ Cardinality({}) = 0
    BY FS_EmptySet
  <2> QED BY <2>1, <2>2, AuthorityBounds DEF BudgetOk
<1>2. AuthorityInv /\ BudgetOk /\ [Next]_vars => BudgetOk'
  <2> SUFFICES ASSUME AuthorityInv, BudgetOk, [Next]_vars PROVE BudgetOk'
    OBVIOUS
  <2>1. IsFiniteSet(activeOverrides') /\ Cardinality(activeOverrides') <= MaxActivations
    BY OverridesStep DEF BudgetOk
  <2>2. CASE Still
    <3>1. MayWriteTwo' = MayWriteTwo /\ MayWriteOne' = MayWriteOne /\ seq' = seq /\ calls' = calls
      BY <2>2 DEF Still, MayWriteTwo, MayWriteOne
    <3> QED BY <2>1, <3>1 DEF BudgetOk
  <2>3. ASSUME NEW c \in Points, Acts(c) PROVE BudgetOk'
    <3>1. /\ IsFiniteSet(MayWriteTwo') /\ IsFiniteSet(MayWriteOne') /\ calls' \in 0..MaxCalls
          /\ seq' + 2 * Cardinality(MayWriteTwo') + Cardinality(MayWriteOne') <= 2 * calls'
      BY <2>3, CountsStep DEF AuthorityInv
    <3> QED BY <2>1, <3>1 DEF BudgetOk
  <2> QED BY <2>2, <2>3, StepsAre
<1> QED BY <1>1, <1>2, AuthorityInvariant, PTL DEF Spec

LEMMA TypesHold ==
  ASSUME AuthorityInv, BudgetOk
  PROVE  TypeOK
<1>1. seq \in 0..(2 * MaxCalls)
  <2>1. Cardinality(MayWriteTwo) \in Nat /\ Cardinality(MayWriteOne) \in Nat
    BY FS_CardinalityType DEF BudgetOk
  <2>2. /\ seq \in Nat /\ calls \in 0..MaxCalls /\ MaxCalls \in Nat
        /\ seq + 2 * Cardinality(MayWriteTwo) + Cardinality(MayWriteOne) <= 2 * calls
    BY AuthorityBounds DEF BudgetOk, AuthorityInv
  <2> QED BY <2>1, <2>2
<1>2. /\ built \in [Points -> DOMAIN Governors \cup {Nothing}]
      /\ pc \in [Points -> {"idle", "record", "look", "sink"}]
  BY DEF AuthorityInv, PointsOk, PointOk, ByPoint
<1>3. \A c \in Points : evidence[c] \in 0..seq /\ (Idle(c) \/ call[c] \in Calls)
  BY DEF AuthorityInv, PointsOk, PointOk, ReceiptOk
<1> QED BY <1>1, <1>2, <1>3 DEF TypeOK, AuthorityInv, FloorsOk, BudgetOk

(* A lease serves one request only, at whichever point and however often   *)
(* (policy_decision.py: the request binding of the lease checks); and the  *)
(* types.                                                                  *)
THEOREM LeasesBind == Spec => []NoLeaseTransfer
<1>1. AuthorityInv => \A x \in AllowedByLease :
                         RequestBinding(Requests[x.request]) = Requests[x.request].lease.binding
  <2> SUFFICES ASSUME AuthorityInv, NEW x \in AllowedByLease
               PROVE  RequestBinding(Requests[x.request]) = Requests[x.request].lease.binding
    OBVIOUS
  <2>1. \E name : Lawful(name, x, FALSE)
    <3>1. CASE \E e \in effects : ~e.overridden /\ x = e.call
      <4>1. PICK e \in effects : ~e.overridden /\ x = e.call
        BY <3>1
      <4>2. Lawful(e.governor, e.call, e.overridden)
        BY DEF AuthorityInv, EffectsOk
      <4> QED BY <4>1, <4>2 DEF Lawful, Grounds
    <3>2. CASE \E c \in Points : /\ decision[c] # Nothing /\ decision[c].verdict = "allow"
                                 /\ decision[c].override = Nothing /\ x = call[c]
      <4>1. PICK c \in Points : /\ decision[c] # Nothing /\ decision[c].verdict = "allow"
                                /\ decision[c].override = Nothing /\ x = call[c]
        BY <3>2
      <4>2. PointOk(c)
        BY DEF AuthorityInv, PointsOk
      <4> QED BY <4>1, <4>2 DEF PointOk, DecisionOk, Lawful, Grounds
    <3> QED BY <3>1, <3>2 DEF AllowedByLease
  <2>2. PICK name : Lawful(name, x, FALSE)
    BY <2>1
  <2>3. name \in DOMAIN Governors /\ x \in Calls /\ BaseOf(name, x).verdict = "allow"
    BY <2>2 DEF Lawful, Grounds
  <2>4. BaseOf(name, x) = Evaluate(Governors[name].active, Requests[x.request], Runtimes[x.runtime])
    BY <2>3, BaseIs
  <2> QED BY <2>3, <2>4, EvaluatedLease
<1>2. AuthorityInv /\ BudgetOk => NoLeaseTransfer
  BY <1>1, TypesHold DEF NoLeaseTransfer
<1> QED BY <1>2, AuthorityInvariant, BudgetInvariant, PTL

-----------------------------------------------------------------------------
(* The ledger: receipts and what is done to them.                          *)

Bare(r) == [r EXCEPT !.previous = <<>>]
Chain(entries, n) == [i \in 1..n |-> Bare(entries[i])]

(* An entry of the log: where it stands, what it follows, under which     *)
(* authorization it was signed, and what an allow in it says.              *)
EntryForm(r) ==
  r = [governor |-> r.governor, call |-> r.call, event |-> r.event, decision |-> r.decision,
       sequence |-> r.sequence, previous |-> r.previous, store |-> r.store,
       recovery |-> r.recovery, mode |-> r.mode]
KnownOverride(x) == x.override = Nothing \/ \E a \in activeOverrides : a.name = x.override
EntryOk(i) ==
  LET r == log[i] IN
  /\ EntryForm(r) /\ r.governor \in DOMAIN Governors /\ KnownOverride(r.call)
  /\ r.sequence = i /\ r.previous = Chain(log, i - 1) /\ r.store = Store
  /\ Current(SigningAuthorization(r), Runtimes[r.call.runtime].runtime.time)
  /\ r.recovery \in 0..exits
  /\ r.decision.verdict = "allow" =>
       /\ r.decision.recovery = "none"
       /\ \/ r.mode = "healthy" \/ r.event = "recovery-exit"
          \/ i > 1 /\ log[i - 1].event = "recovery-exit"

LogForm == /\ Len(log) \in {seq, seq + 1} /\ log \in Seq({log[i] : i \in DOMAIN log})
           /\ tail = Chain(log, seq)
LogOk == LogForm /\ \A i \in 1..Len(log) : EntryOk(i)
ModeOk ==
  /\ mode \in {"healthy", "evidence-degraded", "recovery-exit-authorized"} /\ latched \in BOOLEAN
  /\ healthy = OperationallyHealthy
  /\ exits \in 0..MaxRecoveries
  /\ mode = "recovery-exit-authorized" => seq >= 1 /\ log[seq].event = "recovery-exit"

(* An override in hand was activated, and a name was activated once.       *)
HandOk(c) == ~Idle(c) => KnownOverride(call[c])
OverridesOk == \A a, b \in activeOverrides : a.name = b.name => a = b

ReceiptsInv ==
  /\ AuthorityInv /\ LogOk /\ ModeOk /\ OverridesOk
  /\ \A c \in Points : HandOk(c)

LEMMA LogStays ==
  ASSUME LogForm, seq \in Nat
  PROVE  Len(log) \in Nat /\ DOMAIN log = 1..Len(log) /\ log = [i \in 1..Len(log) |-> log[i]]
BY DEF LogForm

(* One more at the end. *)
LEMMA Appended ==
  ASSUME NEW s, NEW e, NEW S, s \in Seq(S)
  PROVE  LET t == Append(s, e) IN
         /\ Len(t) = Len(s) + 1 /\ DOMAIN t = 1..(Len(s) + 1) /\ Len(s) \in Nat
         /\ t[Len(s) + 1] = e /\ \A i \in 1..Len(s) : t[i] = s[i]
         /\ t = [i \in 1..(Len(s) + 1) |-> t[i]]
<1> DEFINE T == S \cup {e}
           t == Append(s, e)
<1>1. s \in Seq(T) /\ e \in T /\ Len(s) \in Nat
  OBVIOUS
<1> HIDE DEF T
<1>2. t \in Seq(T) /\ Len(t) = Len(s) + 1 /\ t[Len(s) + 1] = e /\ \A i \in 1..Len(s) : t[i] = s[i]
  BY <1>1, AppendProperties
<1> HIDE DEF t
<1>3. DOMAIN t = 1..(Len(s) + 1) /\ t = [i \in 1..(Len(s) + 1) |-> t[i]]
  BY <1>2
<1> QED BY <1>1, <1>2, <1>3 DEF t

LEMMA IsSequence ==
  ASSUME NEW n \in Nat, NEW f, f = [i \in 1..n |-> f[i]]
  PROVE  f \in Seq({f[i] : i \in DOMAIN f}) /\ Len(f) = n
<1> DEFINE S == {f[i] : i \in DOMAIN f}
<1>1. f \in [1..n -> S]
  OBVIOUS
<1> HIDE DEF S
<1> QED BY <1>1 DEF S

(* One more receipt, of the sequence and on the tail of the state.         *)
LEMMA OneMore ==
  ASSUME NEW r, seq \in Nat, Len(log) = seq, LogForm, log' = Append(log, r)
  PROVE  /\ Len(log') = seq + 1 /\ log'[seq + 1] = r /\ DOMAIN log' = 1..(seq + 1)
         /\ \A i \in 1..seq : log'[i] = log[i]
         /\ \A n \in 0..seq : Chain(log', n) = Chain(log, n)
         /\ log' \in Seq({log'[i] : i \in DOMAIN log'})
<1> DEFINE S == {log[i] : i \in DOMAIN log}
<1>1. log \in Seq(S)
  BY DEF LogForm
<1> HIDE DEF S
<1>2. /\ Len(log') = seq + 1 /\ log'[seq + 1] = r /\ DOMAIN log' = 1..(seq + 1)
      /\ \A i \in 1..seq : log'[i] = log[i]
      /\ log' = [i \in 1..(seq + 1) |-> log'[i]]
  BY <1>1, Appended
<1>3. \A n \in 0..seq : Chain(log', n) = Chain(log, n)
  BY <1>2 DEF Chain
<1>4. seq + 1 \in Nat
  OBVIOUS
<1>5. log' \in Seq({log'[i] : i \in DOMAIN log'})
  <2> DEFINE f == log'
             n == seq + 1
  <2>1. f = [i \in 1..n |-> f[i]] /\ n \in Nat
    BY <1>2, <1>4
  <2> HIDE DEF f, n
  <2>2. f \in Seq({f[i] : i \in DOMAIN f})
    BY <2>1, IsSequence
  <2> QED BY <2>2 DEF f
<1> QED BY <1>2, <1>3, <1>5

LEMMA NextTail ==
  ASSUME NEW r, seq \in Nat, Len(log) = seq, LogForm, log' = Append(log, r)
  PROVE  LastDigest = Chain(log', seq + 1)
<1>1. /\ Len(log') = seq + 1 /\ log'[seq + 1] = r
      /\ \A i \in 1..seq : log'[i] = log[i]
      /\ Chain(log', seq) = Chain(log, seq)
  <2>1. seq \in 0..seq
    OBVIOUS
  <2> QED BY <2>1, OneMore
<1>2. LastDigest = Append(tail, Bare(r))
  BY <1>1 DEF LastDigest, EntryDigest, Bare
<1>3. tail = [i \in 1..seq |-> Bare(log[i])]
  BY DEF LogForm, Chain
<1>4. tail \in Seq({tail[i] : i \in DOMAIN tail}) /\ Len(tail) = seq
  BY <1>3, IsSequence
<1> DEFINE t == Append(tail, Bare(r))
<1>5. t = [i \in 1..(seq + 1) |-> t[i]] /\ t[seq + 1] = Bare(r) /\ \A i \in 1..seq : t[i] = tail[i]
  BY <1>4, Appended
<1> HIDE DEF t
<1>6. ASSUME NEW i \in 1..(seq + 1) PROVE t[i] = Bare(log'[i])
  <2>1. CASE i = seq + 1
    BY <1>1, <1>5, <2>1
  <2>2. CASE i \in 1..seq
    <3>1. t[i] = tail[i] /\ tail[i] = Bare(log[i]) /\ log'[i] = log[i]
      BY <1>1, <1>3, <1>5, <2>2
    <3> QED BY <3>1
  <2> QED BY <2>1, <2>2
<1> QED BY <1>2, <1>5, <1>6 DEF Chain, t

(* What an entry says stays true: the log grows, and nothing is forgotten. *)
LEMMA EntriesKept ==
  ASSUME NEW n \in Nat, exits \in Nat, exits' \in {exits, exits + 1},
         activeOverrides \subseteq activeOverrides',
         \A i \in 1..n : log'[i] = log[i] /\ EntryOk(i)
  PROVE  \A i \in 1..n : EntryOk(i)'
<1> TAKE i \in 1..n
<1>1. EntryOk(i) /\ log'[i] = log[i]
  OBVIOUS
<1>2. Chain(log, i - 1)' = Chain(log, i - 1)
  <2>1. \A j \in 1..(i - 1) : j \in 1..n
    OBVIOUS
  <2> QED BY <2>1 DEF Chain
<1>3. i > 1 => log'[i - 1] = log[i - 1]
  <2>1. i > 1 => i - 1 \in 1..n
    OBVIOUS
  <2> QED BY <2>1
<1>4. KnownOverride(log[i].call) => KnownOverride(log[i].call)'
  BY <1>1 DEF KnownOverride
<1>5. log[i].recovery \in 0..exits => log[i].recovery \in 0..exits'
  OBVIOUS
<1> QED BY <1>1, <1>2, <1>3, <1>4, <1>5 DEF EntryOk, SigningAuthorization, EntryForm

(* And of a new one it is true, when a healthy system signed it under a    *)
(* current authorization.                                                  *)
LEMMA EntryAdded ==
  ASSUME seq \in Nat, LogForm, Len(log) = seq, exits \in Nat, exits' \in {exits, exits + 1},
         NEW name \in DOMAIN Governors, NEW x, NEW event, NEW d,
         log' = Append(log, ReceiptOf(name, x, event, d)),
         KnownOverride(x)', DOMAIN d = DecisionFields,
         Current(Governors[name].authorization, Runtimes[x.runtime].runtime.time),
         d.verdict = "allow" =>
            /\ d.recovery = "none"
            /\ mode = "healthy" \/ event = "recovery-exit" \/ (seq >= 1 /\ log[seq].event = "recovery-exit"),
         NEW n, n = seq + 1
  PROVE  EntryOk(n)'
<1> DEFINE r == ReceiptOf(name, x, event, d)
<1>1. /\ r = [governor |-> name, call |-> x, event |-> event, decision |-> Public(d),
             sequence |-> n, previous |-> tail, store |-> Store, recovery |-> exits, mode |-> mode]
      /\ EntryForm(r)
  BY DEF ReceiptOf, EntryForm
<1>2. Public(d).verdict = d.verdict /\ Public(d).recovery = d.recovery
  BY DEF Public, DecisionFields
<1> HIDE DEF r
<1>3. log'[n] = r /\ \A i \in 1..seq : log'[i] = log[i]
  BY OneMore DEF r
<1>4. tail = Chain(log, n - 1)'
  <2>1. n - 1 = seq /\ seq \in 0..seq
    OBVIOUS
  <2>2. Chain(log', n - 1) = Chain(log, seq)
    BY <2>1, OneMore DEF r
  <2> QED BY <2>2 DEF LogForm, Chain
<1>5. seq >= 1 => n > 1 /\ log'[n - 1] = log[seq]
  <2>1. n - 1 = seq /\ (seq >= 1 => seq \in 1..seq)
    OBVIOUS
  <2> QED BY <1>3, <2>1
<1>6. exits \in 0..exits'
  OBVIOUS
<1> QED BY <1>1, <1>2, <1>3, <1>4, <1>5, <1>6 DEF EntryOk, SigningAuthorization

Forgets == exits' \in {exits, exits + 1} /\ activeOverrides \subseteq activeOverrides'

LEMMA LogQuiet ==
  ASSUME seq \in Nat, exits \in Nat, LogOk, Forgets, log' = log, tail' = tail, seq' = seq
  PROVE  LogOk'
<1>1. Len(log) \in Nat
  BY LogStays DEF LogOk
<1>2. \A i \in 1..Len(log) : EntryOk(i)'
  BY <1>1, EntriesKept DEF LogOk, Forgets
<1>3. LogForm'
  BY DEF LogOk, LogForm, Chain
<1> QED BY <1>2, <1>3 DEF LogOk

LEMMA LogGrows ==
  ASSUME seq \in Nat, exits \in Nat, LogOk, Forgets, Len(log) = seq,
         NEW r, log' = Append(log, r), NEW n, n = seq + 1, EntryOk(n)',
         (seq' = seq /\ tail' = tail) \/ (seq' = seq + 1 /\ tail' = LastDigest)
  PROVE  LogOk'
<1>1. /\ Len(log') = seq + 1 /\ \A i \in 1..seq : log'[i] = log[i]
      /\ \A m \in 0..seq : Chain(log', m) = Chain(log, m)
      /\ log' \in Seq({log'[i] : i \in DOMAIN log'})
  BY OneMore DEF LogOk
<1>2. \A i \in 1..seq : EntryOk(i)'
  BY <1>1, EntriesKept DEF LogOk, Forgets
<1>3. \A i \in 1..Len(log') : EntryOk(i)'
  <2>1. \A i \in 1..(seq + 1) : i \in 1..seq \/ i = n
    OBVIOUS
  <2> QED BY <1>1, <1>2, <2>1
<1>4. tail' = Chain(log', seq')
  <2>1. CASE seq' = seq /\ tail' = tail
    <3>1. seq \in 0..seq
      OBVIOUS
    <3> QED BY <1>1, <2>1, <3>1 DEF LogOk, LogForm
  <2>2. CASE seq' = seq + 1 /\ tail' = LastDigest
    BY <2>2, NextTail DEF LogOk
  <2> QED BY <2>1, <2>2
<1>5. LogForm'
  <2>1. Len(log') \in {seq', seq' + 1}
    BY <1>1
  <2>2. tail' = Chain(log, seq)'
    BY <1>4 DEF Chain
  <2> QED BY <1>1, <2>1, <2>2 DEF LogForm
<1> QED BY <1>3, <1>5 DEF LogOk

(* What may be committed was decided by a point of a healthy system, under *)
(* an authorization that is current.                                       *)
LEMMA CommitGrounds ==
  ASSUME ReceiptsInv, NEW c \in Points, pc[c] = "record", Committable(c), Settled
  PROVE  /\ seq \in Nat /\ exits \in Nat /\ LogForm /\ Len(log) = seq
         /\ built[c] \in DOMAIN Governors /\ KnownOverride(call[c])
         /\ DOMAIN decision[c] = DecisionFields
         /\ Current(Governors[built[c]].authorization, Runtimes[call[c].runtime].runtime.time)
         /\ decision[c].verdict = "allow" =>
               /\ decision[c].recovery = "none"
               /\ mode = "healthy" \/ (seq >= 1 /\ log[seq].event = "recovery-exit")
         /\ healthy /\ ~latched
<1>1. PointOk(c) /\ HandOk(c) /\ ~Idle(c)
  BY DEF ReceiptsInv, AuthorityInv, PointsOk, Idle
<1>2. healthy /\ ~latched /\ (mode = "healthy" \/ (seq >= 1 /\ log[seq].event = "recovery-exit"))
  BY DEF Committable, ReceiptsInv, ModeOk, OperationallyHealthy, HealthyMode
<1>3. seq \in Nat /\ exits \in Nat /\ LogForm /\ Len(log) = seq
  BY DEF ReceiptsInv, AuthorityInv, ModeOk, LogOk, Settled
<1> QED BY <1>1, <1>2, <1>3 DEF PointOk, HandOk, DecisionOk, Committable

(* The entry of a decision, whether its commit succeeds or not.            *)
LEMMA DecisionAppended ==
  ASSUME ReceiptsInv, NEW c \in Points, pc[c] = "record", Committable(c), Settled, AppendReceipt(c),
         exits' = exits, activeOverrides' = activeOverrides,
         (seq' = seq /\ tail' = tail) \/ (seq' = seq + 1 /\ tail' = LastDigest)
  PROVE  LogOk' /\ \A i \in 1..seq : log'[i] = log[i]
<1> DEFINE n == seq + 1
           r == ReceiptOf(built[c], call[c], EventOf(decision[c]), decision[c])
<1>1. log' = Append(log, r)
  BY DEF AppendReceipt
<1>2. /\ seq \in Nat /\ exits \in Nat /\ LogForm /\ Len(log) = seq /\ LogOk
      /\ built[c] \in DOMAIN Governors /\ KnownOverride(call[c])
  BY CommitGrounds DEF ReceiptsInv
<1>3. ASSUME NEW x, x = call[c] PROVE KnownOverride(x)'
  BY <1>2, <1>3 DEF KnownOverride
<1>4. ASSUME NEW m, m = seq + 1 PROVE EntryOk(m)'
  BY <1>1, <1>2, <1>3, <1>4, CommitGrounds, EntryAdded
<1>5. LogOk'
  BY <1>1, <1>2, <1>4, LogGrows DEF Forgets
<1>6. \A i \in 1..seq : log'[i] = log[i]
  BY <1>1, <1>2, OneMore
<1> QED BY <1>5, <1>6

(* What the ledger's actions are to the points: what Acts says, or an exit. *)
LEMMA LedgerActs ==
  ASSUME NEW c \in Points
  PROVE  /\ \A x \in Callable : MayDecide(c) /\ Decides(c, x) => Acts(c)
         /\ Records(c) \/ AllowUnrecorded(c) \/ NegativeUnrecorded(c) => Acts(c)
         /\ Looks(c) \/ LookUnsettled(c) => Acts(c)
<1>1. \A x \in Callable : MayDecide(c) /\ Decides(c, x) => Acts(c)
  BY CallableAssumption DEF Acts
<1>2. Records(c) => Acts(c)
  BY DEF Records, Acts
<1>3. AllowUnrecorded(c) => AllowLost(c)
  BY DEF AllowUnrecorded, AllowLost, StoreFails, NotRecordable
<1>4. NegativeUnrecorded(c) => NegativeLost(c)
  BY DEF NegativeUnrecorded, NegativeLost, StoreFails, NotRecordable
<1>5. Looks(c) => Acts(c)
  BY FailuresAre DEF Looks, Acts
<1>6. LookUnsettled(c) => Retreats(c)
  BY DEF LookUnsettled, Retreats
<1> QED BY <1>1, <1>2, <1>3, <1>4, <1>5, <1>6 DEF Acts

Exits == \E c \in Points, x \in Callable : \E d \in Published(built[c], x) : Exit(c, x, d)

LEMMA LedgerStepsAre ==
  ASSUME [NextReceipts]_allVars
  PROVE  Still \/ (\E c \in Points : Acts(c)) \/ Exits
<1>1. CASE UNCHANGED allVars
  BY <1>1 DEF allVars, vars, Still
<1>2. ASSUME NEW name, NEW a, Activate(name, a) PROVE Still
  BY <1>2 DEF Activate, Still
<1>3. Incident => Still
  BY DEF Incident, Still
<1>4. ASSUME NEW c \in Points, NEW name \in DOMAIN Governors, Build(c, name) PROVE Acts(c)
  BY <1>4 DEF Acts
<1>5. ASSUME NEW c \in Points, Sink(c) PROVE Acts(c)
  BY <1>5 DEF Acts
<1>6. CASE NextReceipts
  BY <1>2, <1>3, <1>4, <1>5, <1>6, LedgerActs, CallableAssumption DEF NextReceipts, Exits
<1> QED BY <1>1, <1>6

LEMMA RaisedFloors ==
  ASSUME FloorsOk, NEW claims, Admits(claims), floors' = Raised(claims)
  PROVE  /\ FloorsOk'
         /\ \A kind \in Kinds :
               ~BelowFloor(floors'[kind].generation, floors'[kind].digest, floors[kind])
<1>1. ASSUME NEW kind \in DOMAIN claims
      PROVE  /\ kind \in DOMAIN floors /\ claims[kind].generation \in Nat
             /\ ~BelowFloor(claims[kind].generation, claims[kind].digest, floors[kind])
  BY DEF Admits, UnderFloor
<1>2. ASSUME NEW kind \in Kinds
      PROVE  /\ floors'[kind] = IF kind \in DOMAIN claims THEN claims[kind] ELSE floors[kind]
             /\ floors[kind].generation \in Nat
  BY DEF Raised, FloorsOk
<1>3. DOMAIN floors' = Kinds
  BY DEF Raised, FloorsOk
<1>4. ASSUME NEW kind \in Kinds PROVE ~BelowFloor(floors[kind].generation, floors[kind].digest, floors[kind])
  BY <1>2 DEF BelowFloor
<1> QED BY <1>1, <1>2, <1>3, <1>4 DEF FloorsOk

LEMMA ExitKeepsAuthority ==
  ASSUME AuthorityInv, Exits
  PROVE  AuthorityInv'
<1>1. PICK c \in Points, x \in Callable : \E d : Exit(c, x, d)
  BY DEF Exits
<1>2. /\ UNCHANGED <<built, activeOverrides, pc, call, decision, evidence, calls, effects>>
      /\ seq' = seq + 1 /\ healthy' = TRUE
      /\ Admits(ClaimsOf(built[c], Nothing)) /\ floors' = Raised(ClaimsOf(built[c], Nothing))
  BY <1>1 DEF Exit
<1>3. FloorsOk'
  BY <1>2, RaisedFloors DEF AuthorityInv
<1>4. PointsOk'
  BY <1>2 DEF AuthorityInv, PointsOk, PointOk, ByPoint, Idle
<1>5. \A p \in Points : ReceiptOk(p)'
  BY <1>2 DEF AuthorityInv, ReceiptOk
<1>6. EffectsOk'
  BY <1>2 DEF AuthorityInv, EffectsOk
<1> QED BY <1>2, <1>3, <1>4, <1>5, <1>6 DEF AuthorityInv

LEMMA LedgerKeepsAuthority ==
  ASSUME AuthorityInv, [NextReceipts]_allVars
  PROVE  AuthorityInv'
<1>1. CASE Still \/ \E c \in Points : Acts(c)
  <2>1. PointsOk' /\ FloorsOk' /\ EffectsOk' /\ healthy' \in BOOLEAN
    BY <1>1, PointsStep, FloorsStep, EffectsStep, HealthStep DEF AuthorityInv
  <2>2. seq' \in Nat /\ \A c \in Points : ReceiptOk(c)'
    BY <1>1, ReceiptsStep DEF AuthorityInv
  <2> QED BY <2>1, <2>2 DEF AuthorityInv
<1> QED BY <1>1, LedgerStepsAre, ExitKeepsAuthority

(* check_authorization admits an authorization that is current.            *)
LEMMA CurrentlyAuthorized ==
  ASSUME NEW a, NEW fl, NEW now, FirstRefusal(AuthorizationRefusals(a, fl, now)) = Nothing
  PROVE  Current(a, now)
<1> DEFINE Codes == {"RCT-STALE", StateError}
           x == ~Current(a, now)
           y == UnderFloor(fl, "signer-authorization", a.generation, AuthorizationDigest(a))
           z == UnderFloor(fl, "trust-root", a.rootGeneration, a.root)
           s == AuthorizationRefusals(a, fl, now)
<1>1. x \in BOOLEAN /\ y \in BOOLEAN /\ z \in BOOLEAN
  BY DEF UnderFloor, Current
<1>2. s = <<<<x, "RCT-STALE">>, <<y, StateError>>, <<z, StateError>>>>
  BY DEF AuthorizationRefusals
<1>3. Nothing \notin Codes
  BY NothingAssumption DEF GovernorCodes
<1> HIDE DEF s, x, y, z
<1>4. s \in Seq(BOOLEAN \X Codes) /\ Len(s) = 3 /\ s[1][1] = x
  BY <1>1, <1>2
<1> HIDE DEF Codes
<1>5. \A i \in 1..Len(s) : ~s[i][1]
  BY <1>3, <1>4, NothingApplies DEF s
<1>6. ~x
  BY <1>4, <1>5
<1> QED BY <1>6 DEF x

(* What the ledger needs of a step, from its parts.                        *)
LedgerOk == LogOk /\ ModeOk
SameMode == UNCHANGED <<mode, latched, exits, healthy>>

LEMMA QuietLedger ==
  ASSUME ReceiptsInv, UNCHANGED <<log, tail, seq, mode, latched, exits, healthy>>,
         activeOverrides \subseteq activeOverrides'
  PROVE  LedgerOk'
<1>1. seq \in Nat /\ exits \in Nat
  BY DEF ReceiptsInv, AuthorityInv, ModeOk
<1>2. LogOk'
  BY <1>1, LogQuiet DEF ReceiptsInv, Forgets
<1>3. ModeOk'
  BY DEF ReceiptsInv, ModeOk, OperationallyHealthy, HealthyMode
<1> QED BY <1>2, <1>3 DEF LedgerOk

LEMMA RecordsLedger ==
  ASSUME ReceiptsInv, NEW c \in Points, Records(c)
  PROVE  LedgerOk'
<1>1. pc[c] = "record" /\ Committable(c) /\ Settled /\ AppendReceipt(c) /\ seq' = seq + 1
      /\ healthy' = healthy /\ activeOverrides' = activeOverrides
  BY DEF Records, RecordAllow, RecordNegative, Commit
<1>2. tail' = LastDigest /\ mode' = "healthy" /\ latched' = latched /\ exits' = exits
  BY DEF Records, CommittedLedger, CommittedTail
<1>3. LogOk'
  BY <1>1, <1>2, DecisionAppended
<1>4. healthy /\ ~latched /\ healthy \in BOOLEAN
  BY <1>1, CommitGrounds DEF ReceiptsInv, AuthorityInv
<1>5. ModeOk'
  BY <1>1, <1>2, <1>4 DEF ReceiptsInv, ModeOk, OperationallyHealthy, HealthyMode
<1> QED BY <1>3, <1>5 DEF LedgerOk

(* A store that fails leaves the log as it was or one entry ahead.         *)
LEMMA FailedStore ==
  ASSUME ReceiptsInv, NEW c \in Points, StoreFails(c) \/ NotRecordable(c),
         seq' = seq, tail' = tail, exits' = exits, activeOverrides' = activeOverrides
  PROVE  LogOk' /\ (seq >= 1 => log'[seq] = log[seq])
<1>1. seq \in Nat /\ exits \in Nat
  BY DEF ReceiptsInv, AuthorityInv, ModeOk
<1>2. CASE log' = log
  BY <1>1, <1>2, LogQuiet DEF ReceiptsInv, Forgets
<1>3. CASE log' # log
  <2>1. pc[c] = "record" /\ Committable(c) /\ Settled /\ AppendReceipt(c)
    BY <1>3 DEF StoreFails, NotRecordable
  <2>2. LogOk' /\ \A i \in 1..seq : log'[i] = log[i]
    BY <2>1, DecisionAppended
  <2>3. seq >= 1 => seq \in 1..seq
    BY <1>1
  <2> QED BY <2>2, <2>3
<1> QED BY <1>2, <1>3

LEMMA AllowUnrecordedLedger ==
  ASSUME ReceiptsInv, NEW c \in Points, AllowUnrecorded(c)
  PROVE  LedgerOk'
<1>1. /\ UNCHANGED <<seq, tail, mode, latched, exits, healthy, activeOverrides>>
      /\ StoreFails(c) \/ NotRecordable(c)
  BY DEF AllowUnrecorded, shared
<1>2. LogOk' /\ (seq >= 1 => log'[seq] = log[seq])
  BY <1>1, FailedStore
<1>3. ModeOk'
  BY <1>1, <1>2 DEF ReceiptsInv, ModeOk, OperationallyHealthy, HealthyMode
<1> QED BY <1>2, <1>3 DEF LedgerOk

LEMMA NegativeUnrecordedLedger ==
  ASSUME ReceiptsInv, NEW c \in Points, NegativeUnrecorded(c)
  PROVE  LedgerOk'
<1>1. /\ UNCHANGED <<seq, tail, exits, activeOverrides>>
      /\ StoreFails(c) \/ NotRecordable(c)
      /\ mode' \in {mode, "evidence-degraded"} /\ latched' \in BOOLEAN
      /\ healthy' = (HealthyMode(mode') /\ ~latched')
  BY DEF NegativeUnrecorded, ReceiptsInv, ModeOk
<1>2. LogOk' /\ (seq >= 1 => log'[seq] = log[seq])
  BY <1>1, FailedStore
<1>3. ModeOk'
  BY <1>1, <1>2 DEF ReceiptsInv, ModeOk, OperationallyHealthy, HealthyMode
<1> QED BY <1>2, <1>3 DEF LedgerOk

(* What a point publishes is a decision, and an allow asks for no recovery. *)
LEMMA PublishedOk ==
  ASSUME NEW name \in DOMAIN Governors, NEW x \in Calls, RulesOk(Governors[name]),
         NEW d \in Published(name, x)
  PROVE  DOMAIN d = DecisionFields /\ (d.verdict = "allow" => d.recovery = "none")
<1> DEFINE decided == {DecidedWhen(ready, name, x, OverrideOf(x)) : ready \in BOOLEAN}
<1>1. \A e \in decided : DecisionOk(e, name, x)
  BY DecidedOk
<1>2. CASE d \in decided
  BY <1>1, <1>2 DEF DecisionOk
<1>3. ASSUME NEW e \in decided, d = Converted(e)
      PROVE  DOMAIN d = DecisionFields /\ d.verdict = "deny"
  BY <1>1, <1>3, ConvertedOk DEF DecisionOk
<1> QED BY <1>2, <1>3 DEF Published

LEMMA ExitLedger ==
  ASSUME ReceiptsInv, NEW c \in Points, NEW x \in Callable, NEW d \in Published(built[c], x),
         Exit(c, x, d)
  PROVE  LedgerOk'
<1> DEFINE name == built[c]
           g == Governors[name]
           now == Runtimes[x.runtime].runtime.time
           r == ReceiptOf(name, x, "recovery-exit", d)
<1>1. /\ name # Nothing /\ KnownOverride(x) /\ Settled /\ exits < MaxRecoveries
      /\ log' = Append(log, r) /\ tail' = LastDigest /\ seq' = seq + 1
      /\ mode' = "recovery-exit-authorized" /\ exits' = exits + 1
      /\ latched' = FALSE /\ healthy' = TRUE /\ activeOverrides' = activeOverrides
      /\ FirstRefusal(AuthorizationRefusals(g.authorization, floors, now)) = Nothing
  BY DEF Exit, MayExit, KnownOverride
<1>2. name \in DOMAIN Governors /\ RulesOk(Governors[name])
  BY <1>1 DEF ReceiptsInv, AuthorityInv, PointsOk, PointOk, SealedIn
<1>3. DOMAIN d = DecisionFields /\ (d.verdict = "allow" => d.recovery = "none")
  BY <1>2, PublishedOk, CallableAssumption
<1>4. Current(g.authorization, now)
  BY <1>1, CurrentlyAuthorized
<1>5. seq \in Nat /\ exits \in Nat /\ LogForm /\ LogOk /\ Len(log) = seq
  BY <1>1 DEF ReceiptsInv, AuthorityInv, ModeOk, LogOk, Settled
<1>6. KnownOverride(x)'
  BY <1>1 DEF KnownOverride
<1> HIDE DEF name
<1>7. ASSUME NEW n, n = seq + 1 PROVE EntryOk(n)'
  BY <1>1, <1>2, <1>3, <1>4, <1>5, <1>6, <1>7, EntryAdded
<1>8. LogOk'
  <2> HIDE DEF r
  <2> QED BY <1>1, <1>5, <1>7, LogGrows DEF Forgets
<1>9. log'[seq + 1].event = "recovery-exit"
  <2>1. r.event = "recovery-exit"
    BY DEF ReceiptOf
  <2> HIDE DEF r
  <2> QED BY <1>1, <1>5, <2>1, OneMore
<1>10. ModeOk'
  <2>1. exits' \in 0..MaxRecoveries /\ seq' >= 1
    BY <1>1, <1>5, CallableAssumption
  <2>2. log'[seq'].event = "recovery-exit"
    BY <1>1, <1>9
  <2>3. healthy' = OperationallyHealthy'
    BY <1>1 DEF OperationallyHealthy, HealthyMode
  <2> QED BY <1>1, <2>1, <2>2, <2>3 DEF ModeOk
<1> QED BY <1>8, <1>10 DEF LedgerOk

(* Every step keeps the ledger.                                            *)
LEMMA LedgerStep ==
  ASSUME ReceiptsInv, [NextReceipts]_allVars
  PROVE  LedgerOk'
<1> USE DEF ledger
<1>1. CASE UNCHANGED allVars
  BY <1>1, QuietLedger DEF allVars, vars
<1>2. ASSUME NEW name, NEW a, Activate(name, a), UNCHANGED ledger PROVE LedgerOk'
  BY <1>2, QuietLedger DEF Activate
<1>3. ASSUME Incident PROVE LedgerOk'
  <2>1. seq \in Nat /\ exits \in Nat
    BY DEF ReceiptsInv, AuthorityInv, ModeOk
  <2>2. LogOk'
    BY <1>3, <2>1, LogQuiet DEF Incident, Forgets, ReceiptsInv
  <2>3. ModeOk'
    BY <1>3 DEF Incident, ReceiptsInv, ModeOk, OperationallyHealthy, HealthyMode
  <2> QED BY <2>2, <2>3 DEF LedgerOk
<1>4. ASSUME NEW c \in Points, NEW name, Build(c, name), UNCHANGED ledger PROVE LedgerOk'
  BY <1>4, QuietLedger DEF Build
<1>5. ASSUME NEW c \in Points, NEW x, Decides(c, x), UNCHANGED ledger PROVE LedgerOk'
  BY <1>5, QuietLedger DEF Decides, shared
<1>6. ASSUME NEW c \in Points, Looks(c) \/ LookUnsettled(c) PROVE LedgerOk'
  BY <1>6, QuietLedger DEF Looks, LookUnsettled, Look, LookFails, shared
<1>7. ASSUME NEW c \in Points, Sink(c), UNCHANGED ledger PROVE LedgerOk'
  BY <1>7, QuietLedger DEF Sink, shared
<1> HIDE DEF ledger
<1>8. CASE NextReceipts
  BY <1>2, <1>3, <1>4, <1>5, <1>6, <1>7, <1>8, RecordsLedger, AllowUnrecordedLedger,
     NegativeUnrecordedLedger, ExitLedger, CallableAssumption DEF NextReceipts
<1> QED BY <1>1, <1>8

LEMMA OverridesKept ==
  ASSUME ReceiptsInv, [NextReceipts]_allVars
  PROVE  OverridesOk' /\ activeOverrides \subseteq activeOverrides'
<1>1. ASSUME activeOverrides' = activeOverrides
      PROVE  OverridesOk' /\ activeOverrides \subseteq activeOverrides'
  BY <1>1 DEF ReceiptsInv, OverridesOk
<1>2. ASSUME NEW name, NEW a, Activate(name, a)
      PROVE  OverridesOk' /\ activeOverrides \subseteq activeOverrides'
  <2> DEFINE o == [name |-> name, authorization |-> Overrides[name],
                   signedUnder |-> AuthorizationDigest(a)]
  <2>1. activeOverrides' = activeOverrides \cup {o} /\ \A known \in activeOverrides : known.name # o.name
    BY <1>2 DEF Activate
  <2> HIDE DEF o
  <2> QED BY <2>1 DEF ReceiptsInv, OverridesOk
<1>3. ASSUME NEW c \in Points, Acts(c) PROVE activeOverrides' = activeOverrides
  BY <1>3 DEF Acts, Build, Decides, RecordAllow, RecordNegative, AllowLost, NegativeLost, Look, Retreats,
              Sink, Commit, shared
<1>4. CASE UNCHANGED allVars \/ Incident
  BY <1>1, <1>4 DEF allVars, vars, Incident
<1>5. CASE Exits
  BY <1>1, <1>5 DEF Exits, Exit
<1>6. CASE NextReceipts
  <2>1. ASSUME NEW c \in Points, NEW name \in DOMAIN Governors, Build(c, name) \/ Sink(c) PROVE Acts(c)
    BY <2>1 DEF Acts
  <2>2. ASSUME NEW c \in Points, Sink(c) PROVE Acts(c)
    BY <2>2 DEF Acts
  <2> QED BY <1>1, <1>2, <1>3, <1>4, <1>5, <1>6, <2>1, <2>2, LedgerActs, CallableAssumption
          DEF NextReceipts, Exits
<1> QED BY <1>4, <1>6

LEMMA HandsStep ==
  ASSUME ReceiptsInv, [NextReceipts]_allVars, NEW c \in Points
  PROVE  HandOk(c)'
<1>1. activeOverrides \subseteq activeOverrides'
  BY OverridesKept
<1>2. ASSUME pc'[c] = pc[c] \/ pc'[c] = "idle" \/ pc[c] # "idle", call'[c] = call[c] \/ pc'[c] = "idle"
      PROVE  HandOk(c)'
  BY <1>1, <1>2 DEF ReceiptsInv, HandOk, KnownOverride, Idle
<1>3. CASE Still \/ Exits
  BY <1>2, <1>3 DEF Still, Exits, Exit
<1>4. ASSUME NEW p \in Points, Acts(p), p # c PROVE HandOk(c)'
  BY <1>2, <1>4, ActsThere DEF ActsOnlyAt, ReceiptsInv, AuthorityInv
<1>5. ASSUME Acts(c) PROVE HandOk(c)'
  <2>1. ByPoint(pc) /\ ByPoint(call)
    BY DEF ReceiptsInv, AuthorityInv, PointsOk
  <2>2. ASSUME NEW x \in Calls, Decides(c, x) PROVE HandOk(c)'
    <3>1. call'[c] = x /\ activeOverrides' = activeOverrides
      BY <2>1, <2>2 DEF Decides, ByPoint, shared
    <3>2. x.override = Nothing \/ \E a \in activeOverrides : a.name = x.override
      BY <2>2 DEF Decides
    <3> QED BY <3>1, <3>2 DEF HandOk, KnownOverride
  <2>3. ASSUME Return(c) PROVE HandOk(c)'
    BY <2>1, <2>3, <1>2 DEF Return, ByPoint
  <2>4. ASSUME NEW name, Build(c, name) PROVE HandOk(c)'
    BY <1>2, <2>4 DEF Build
  <2>5. ASSUME RecordAllow(c) \/ AllowLost(c) \/ Look(c) \/ Retreats(c) PROVE HandOk(c)'
    <3>1. pc[c] # "idle" /\ call' = call
      BY <2>5 DEF RecordAllow, Commit, AllowLost, Look, Retreats
    <3> QED BY <1>2, <3>1
  <2> QED BY <1>5, <2>2, <2>3, <2>4, <2>5 DEF Acts, RecordNegative, NegativeLost, Sink
<1> QED BY <1>3, <1>4, <1>5, LedgerStepsAre

(* The log holds the protected tail and at most one frame more, each entry *)
(* what the coordinator wrote; the mode is what the last exit or failure   *)
(* left; the floors are as in the system without a log                     *)
(* (evidence_coordinator.py: _record_decision; evidence_recovery.py: exit). *)
THEOREM ReceiptsInvariant == ReceiptsSpec => []ReceiptsInv
<1>1. InitReceipts => ReceiptsInv
  <2> SUFFICES ASSUME InitReceipts PROVE ReceiptsInv
    OBVIOUS
  <2>1. AuthorityInv
    BY AuthorityInit DEF InitReceipts
  <2>2. LogOk
    <3>1. log = <<>> /\ tail = <<>> /\ seq = 0
      BY DEF InitReceipts, OpenLedger, Init
    <3> QED BY <3>1 DEF LogOk, LogForm, Chain
  <2>3. ModeOk
    <3>1. mode = "healthy" /\ latched = FALSE /\ exits = 0 /\ healthy = TRUE
      BY DEF InitReceipts, OpenLedger, Init
    <3>2. exits \in 0..MaxRecoveries
      BY <3>1, CallableAssumption
    <3>3. healthy = OperationallyHealthy
      BY <3>1 DEF OperationallyHealthy, HealthyMode
    <3> QED BY <3>1, <3>2, <3>3 DEF ModeOk
  <2>4. OverridesOk /\ \A c \in Points : HandOk(c)
    BY DEF InitReceipts, Init, OverridesOk, HandOk, Idle
  <2> QED BY <2>1, <2>2, <2>3, <2>4 DEF ReceiptsInv
<1>2. ReceiptsInv /\ [NextReceipts]_allVars => ReceiptsInv'
  BY LedgerKeepsAuthority, LedgerStep, OverridesKept, HandsStep DEF ReceiptsInv, LedgerOk
<1> QED BY <1>1, <1>2, PTL DEF ReceiptsSpec

-----------------------------------------------------------------------------
(* What readers make of a receipt.                                         *)

(* The floors a governor looks at are those its receipts claim.            *)
LEMMA ClaimsOfGovernor ==
  ASSUME NEW name \in DOMAIN Governors, NEW o
  PROVE  LET g == Governors[name]
             a == g.authorization
             claims == ClaimsOf(name, o)
         IN  /\ GovernorKinds \subseteq DOMAIN claims
             /\ claims["policy"] = Claim(g.active.policy.generation, g.active.digest)
             /\ claims["rule"] = Claim(g.rules.generation, RuleDigest(g.rules))
             /\ claims["revocation"] = Claim(g.active.policy.revocation, g.active.revocationDigest)
             /\ claims["signer-authorization"] = Claim(a.generation, AuthorizationDigest(a))
             /\ claims["trust-root"] = Claim(a.rootGeneration, a.root)
             /\ o # Nothing =>
                  /\ "override" \in DOMAIN claims
                  /\ claims["override"] = Claim(o.authorization.generation, OverrideDigest(o.authorization))
<1> DEFINE g == Governors[name]
           a == g.authorization
           by == ClaimedBy[name]
<1>1. /\ DOMAIN by = GovernorKinds
      /\ by["policy"] = Claim(g.active.policy.generation, g.active.digest)
      /\ by["rule"] = Claim(g.rules.generation, RuleDigest(g.rules))
      /\ by["revocation"] = Claim(g.active.policy.revocation, g.active.revocationDigest)
      /\ by["signer-authorization"] = Claim(a.generation, AuthorizationDigest(a))
      /\ by["trust-root"] = Claim(a.rootGeneration, a.root)
  BY DEF ClaimedBy, GovernorKinds
<1> HIDE DEF by, g, a
<1>2. CASE o = Nothing
  BY <1>1, <1>2 DEF ClaimsOf, by, g, a
<1>3. CASE o # Nothing
  BY <1>1, <1>3 DEF ClaimsOf, GovernorKinds, by, g, a
<1> QED BY <1>2, <1>3

LEMMA AdmittedGovernor ==
  ASSUME NEW name \in DOMAIN Governors, NEW o, Admits(ClaimsOf(name, o))
  PROVE  FloorsAdmit(Governors[name], floors) /\ (o # Nothing => OverrideAdmitted(o, floors))
<1> DEFINE g == Governors[name]
           a == g.authorization
           claims == ClaimsOf(name, o)
<1>1. /\ GovernorKinds \subseteq DOMAIN claims
      /\ claims["policy"] = Claim(g.active.policy.generation, g.active.digest)
      /\ claims["rule"] = Claim(g.rules.generation, RuleDigest(g.rules))
      /\ claims["revocation"] = Claim(g.active.policy.revocation, g.active.revocationDigest)
      /\ claims["signer-authorization"] = Claim(a.generation, AuthorizationDigest(a))
      /\ claims["trust-root"] = Claim(a.rootGeneration, a.root)
      /\ o # Nothing =>
           /\ "override" \in DOMAIN claims
           /\ claims["override"] = Claim(o.authorization.generation, OverrideDigest(o.authorization))
  BY ClaimsOfGovernor
<1>2. Admits(claims)
  OBVIOUS
<1> HIDE DEF claims, g, a
<1>3. FloorsAdmit(g, floors)
  BY <1>1, <1>2 DEF Admits, GovernorKinds, Claim, FloorsAdmit, a
<1>4. o # Nothing => OverrideAdmitted(o, floors)
  BY <1>1, <1>2 DEF Admits, Claim, OverrideAdmitted
<1> QED BY <1>3, <1>4 DEF g

LEMMA EligibleIsGoverned ==
  ASSUME ReceiptsInv
  PROVE  EligibleMayBeGoverned
<1> SUFFICES ASSUME NEW i \in 1..seq,
                    Requests[log[i].call.request].operation.adapter = Governors[log[i].governor].adapter,
                    Eligible(log[i])
             PROVE  /\ AuthorityReady(Governors[log[i].governor], Requests[log[i].call.request])
                    /\ Govern(Governors[log[i].governor], BaseOf(log[i].governor, log[i].call),
                              Requests[log[i].call.request], Runtimes[log[i].call.runtime], floors,
                              OverrideOf(log[i].call)).refusal # StateError
  BY DEF EligibleMayBeGoverned
<1> DEFINE name == log[i].governor
           x == log[i].call
           g == Governors[name]
           request == Requests[x.request]
           runtime == Runtimes[x.runtime]
           o == OverrideOf(x)
           base == BaseOf(name, x)
<1>1. name \in DOMAIN Governors
  <2>1. i \in 1..Len(log)
    BY DEF ReceiptsInv, LogOk, LogForm, AuthorityInv
  <2> QED BY <2>1 DEF ReceiptsInv, LogOk, EntryOk
<1>2. /\ healthy /\ Admits(ClaimsOf(name, o))
      /\ ~UnderFloor(floors, "adapter", 0, request.operation.adapter)
      /\ request.operation.bundle # "none" =>
           ~UnderFloor(floors, "executable-bundle", 0, request.operation.bundle)
  BY DEF Eligible, FloorsCompatible, ReceiptsInv, ModeOk
<1>3. AuthorityReady(g, request)
  BY <1>2 DEF AuthorityReady
<1> HIDE DEF name, x, o
<1> DEFINE refusal == FirstRefusal(GovernRefusals(g, base, request, floors, runtime.runtime.time))
           invalid == FirstRefusal(OverrideRefusals(o, base, request, g, runtime, floors))
<1>4. refusal # StateError
  BY <1>1, <1>2, AdmittedGovernor, GovernorsCodes
<1>5. o # Nothing => invalid # StateError
  BY <1>1, <1>2, AdmittedGovernor, OverrideCodes
<1> HIDE DEF g, base, request, runtime
<1>6. Govern(g, base, request, runtime, floors, o).refusal # StateError
  <2> DEFINE verdict == EvaluateRules(g.rules.rules, RuleFields(base, request, runtime.runtime.time, g), base.verdict)
             reason  == IF verdict = base.verdict THEN base.reason ELSE RuleReason(verdict)
             plain   == Governed(base, verdict, reason, base.recovery, Nothing)
             lifted  == Governed(base, "allow", "RULE-OVERRIDE", base.recovery, o)
  <2>1. Govern(g, base, request, runtime, floors, o) =
           IF refusal # Nothing THEN Refused(refusal)
           ELSE IF o = Nothing THEN Granted(plain)
           ELSE IF invalid # Nothing THEN Refused(invalid)
           ELSE IF verdict # base.verdict THEN Refused("RULE-OVERRIDE-INVALID")
           ELSE Granted(lifted)
    BY DEF Govern, Strengthened
  <2>2. \A code, d : Refused(code).refusal = code /\ Granted(d).refusal = Nothing
    BY DEF Refused, Granted
  <2>3. Nothing # StateError /\ "RULE-OVERRIDE-INVALID" # StateError
    BY NothingAssumption DEF GovernorCodes, StateError
  <2> HIDE DEF refusal, invalid, plain, lifted, verdict
  <2> QED BY <1>4, <1>5, <2>1, <2>2, <2>3
<1> QED BY <1>3, <1>6 DEF name, x, g, request, runtime, base, o

LEMMA AroundAnExit ==
  ASSUME ReceiptsInv
  PROVE  OnlyAroundAnExit
<1> SUFFICES ASSUME NEW i \in 1..seq, log[i].decision.verdict = "allow", AgentReason(log[i]) # "authorized"
             PROVE  log[i].event = "recovery-exit" \/ (i > 1 /\ log[i - 1].event = "recovery-exit")
  BY DEF OnlyAroundAnExit
<1>1. EntryOk(i)
  <2>1. i \in 1..Len(log)
    BY DEF ReceiptsInv, LogOk, LogForm, AuthorityInv
  <2> QED BY <2>1 DEF ReceiptsInv, LogOk
<1>2. log[i].decision.recovery = "none"
  BY <1>1 DEF EntryOk
<1>3. log[i].mode # "healthy"
  <2> DEFINE r == log[i]
  <2>1. SUFFICES ASSUME r.mode = "healthy" PROVE AgentReason(r) = "authorized"
    OBVIOUS
  <2>2. r.decision.recovery = "none" /\ r.decision.verdict = "allow"
    BY <1>2
  <2> HIDE DEF r
  <2> QED BY <2>1, <2>2 DEF AgentReason
<1> QED BY <1>1, <1>3 DEF EntryOk

(* Readers and the kernel see the same in a receipt: the floors by which   *)
(* current_eligibility finds it compatible are those the governor would    *)
(* look at, and an agent is told "recovery-only" of an allow only for the  *)
(* receipt of an exit made on it and for the first after an exit, on       *)
(* whatever published decision the exit was made (receipt_replay.py,       *)
(* receipt_projection.py, evidence_recovery.py: exit).                     *)
THEOREM ReadersAgreeWithKernel == ReceiptsSpec => []ReadersAgree
<1>1. ReceiptsInv => ReadersAgree
  BY EligibleIsGoverned, AroundAnExit DEF ReadersAgree
<1> QED BY <1>1, ReceiptsInvariant, PTL

-----------------------------------------------------------------------------
(* Eligibility.                                                            *)

(* What a step does to the ledger: it keeps every entry, and either it is  *)
(* a recovery exit or it makes no unhealthy system healthy.                *)
Moves ==
  /\ \A i \in 1..seq : log'[i] = log[i]
  /\ exits' = exits + 1 \/ (exits' = exits /\ (OperationallyHealthy' => OperationallyHealthy))

LEMMA LedgerMoves ==
  ASSUME ReceiptsInv, [NextReceipts]_allVars
  PROVE  Moves
<1> USE DEF ledger
<1>1. ASSUME UNCHANGED <<log, exits, mode, latched>> PROVE Moves
  BY <1>1 DEF Moves, OperationallyHealthy, HealthyMode
<1>2. CASE UNCHANGED allVars
  BY <1>1, <1>2 DEF allVars
<1>3. ASSUME Incident PROVE Moves
  BY <1>3 DEF Incident, Moves, OperationallyHealthy
<1>4. ASSUME NEW c \in Points, Looks(c) \/ LookUnsettled(c) PROVE Moves
  BY <1>1, <1>4 DEF Looks, LookUnsettled
<1>5. ASSUME NEW c \in Points, Records(c) PROVE Moves
  <2>1. pc[c] = "record" /\ Committable(c) /\ Settled /\ AppendReceipt(c) /\ seq' = seq + 1
        /\ activeOverrides' = activeOverrides
    BY <1>5 DEF Records, RecordAllow, RecordNegative, Commit
  <2>2. tail' = LastDigest /\ exits' = exits
    BY <1>5 DEF Records, CommittedLedger, CommittedTail
  <2>3. \A i \in 1..seq : log'[i] = log[i]
    BY <2>1, <2>2, DecisionAppended
  <2>4. OperationallyHealthy
    BY <2>1 DEF Committable, ReceiptsInv, ModeOk
  <2> QED BY <2>2, <2>3, <2>4 DEF Moves
<1>6. ASSUME NEW c \in Points, StoreFails(c) \/ NotRecordable(c),
             seq' = seq, tail' = tail, exits' = exits, activeOverrides' = activeOverrides
      PROVE  \A i \in 1..seq : log'[i] = log[i]
  <2>1. CASE log' = log
    BY <2>1
  <2>2. CASE log' # log
    BY <1>6, <2>2, DecisionAppended DEF StoreFails, NotRecordable
  <2> QED BY <2>1, <2>2
<1>7. ASSUME NEW c \in Points, AllowUnrecorded(c) PROVE Moves
  <2>1. UNCHANGED <<seq, tail, mode, latched, exits, activeOverrides>>
        /\ (StoreFails(c) \/ NotRecordable(c))
    BY <1>7 DEF AllowUnrecorded, shared
  <2> QED BY <1>6, <2>1 DEF Moves, OperationallyHealthy, HealthyMode
<1>8. ASSUME NEW c \in Points, NegativeUnrecorded(c) PROVE Moves
  <2>1. /\ UNCHANGED <<seq, tail, exits, activeOverrides>>
        /\ StoreFails(c) \/ NotRecordable(c)
        /\ mode' \in {mode, "evidence-degraded"} /\ latched' \in {latched, TRUE}
    BY <1>8 DEF NegativeUnrecorded, ReceiptsInv, ModeOk
  <2>2. OperationallyHealthy' => OperationallyHealthy
    BY <2>1 DEF OperationallyHealthy, HealthyMode
  <2> QED BY <1>6, <2>1, <2>2 DEF Moves
<1>9. ASSUME NEW c \in Points, NEW x, NEW d, Exit(c, x, d) PROVE Moves
  <2>1. PICK r : log' = Append(log, r)
    BY <1>9 DEF Exit
  <2>2. exits' = exits + 1 /\ Settled
    BY <1>9 DEF Exit, MayExit
  <2>3. seq \in Nat /\ LogForm /\ Len(log) = seq
    BY <2>2 DEF ReceiptsInv, AuthorityInv, LogOk, Settled
  <2>4. \A i \in 1..seq : log'[i] = log[i]
    BY <2>1, <2>3, OneMore
  <2> QED BY <2>2, <2>4 DEF Moves
<1>10. CASE NextReceipts
  BY <1>1, <1>3, <1>4, <1>5, <1>7, <1>8, <1>9, <1>10 DEF NextReceipts
<1> QED BY <1>2, <1>10

(* A claim that higher floors admit, the lower ones did.                   *)
LEMMA AdmittedBefore ==
  ASSUME FloorsOk, FloorsOk',
         \A kind \in Kinds : ~BelowFloor(floors'[kind].generation, floors'[kind].digest, floors[kind]),
         NEW kind, NEW generation, NEW digest, ~UnderFloor(floors', kind, generation, digest)
  PROVE  ~UnderFloor(floors, kind, generation, digest)
<1>1. kind \in Kinds /\ generation \in Nat /\ ~BelowFloor(generation, digest, floors'[kind])
  BY DEF UnderFloor, FloorsOk
<1>2. floors[kind].generation \in Nat /\ floors'[kind].generation \in Nat
      /\ ~BelowFloor(floors'[kind].generation, floors'[kind].digest, floors[kind])
  BY <1>1 DEF FloorsOk
<1>3. ~BelowFloor(generation, digest, floors[kind])
  BY <1>1, <1>2 DEF BelowFloor
<1> QED BY <1>1, <1>3 DEF UnderFloor, FloorsOk

(* An override keeps its name.                                             *)
LEMMA OverrideStays ==
  ASSUME OverridesOk', activeOverrides \subseteq activeOverrides', NEW x, KnownOverride(x)
  PROVE  OverrideOf(x)' = OverrideOf(x)
<1>1. CASE x.override = Nothing
  BY <1>1 DEF OverrideOf
<1>2. CASE x.override # Nothing
  <2>1. PICK a \in activeOverrides : a.name = x.override
    BY <1>2 DEF KnownOverride
  <2>2. \A b \in activeOverrides' : b.name = x.override => b = a
    BY <2>1 DEF OverridesOk
  <2>3. (CHOOSE b \in activeOverrides : b.name = x.override) = a
    BY <2>1, <2>2
  <2>4. (CHOOSE b \in activeOverrides' : b.name = x.override) = a
    BY <2>1, <2>2
  <2> QED BY <1>2, <2>3, <2>4 DEF OverrideOf
<1> QED BY <1>1, <1>2

LEMMA CompatibleBefore ==
  ASSUME FloorsOk, FloorsOk', OverridesOk', activeOverrides \subseteq activeOverrides',
         \A kind \in Kinds : ~BelowFloor(floors'[kind].generation, floors'[kind].digest, floors[kind]),
         NEW r, KnownOverride(r.call), FloorsCompatible(r)'
  PROVE  FloorsCompatible(r)
<1> DEFINE x == r.call
           operation == Requests[x.request].operation
           claims == ClaimsOf(r.governor, OverrideOf(x))
<1>1. OverrideOf(x)' = OverrideOf(x)
  BY OverrideStays
<1>2. /\ Admits(ClaimsOf(r.governor, OverrideOf(x)))'
      /\ ~UnderFloor(floors', "adapter", 0, operation.adapter)
      /\ operation.bundle # "none" => ~UnderFloor(floors', "executable-bundle", 0, operation.bundle)
  BY DEF FloorsCompatible
<1>3. \A kind \in DOMAIN claims :
         ~UnderFloor(floors', kind, claims[kind].generation, claims[kind].digest)
  BY <1>1, <1>2 DEF Admits
<1> HIDE DEF claims, operation
<1>4. Admits(claims)
  BY <1>3, AdmittedBefore DEF Admits
<1>5. /\ ~UnderFloor(floors, "adapter", 0, operation.adapter)
      /\ operation.bundle # "none" => ~UnderFloor(floors, "executable-bundle", 0, operation.bundle)
  BY <1>2, AdmittedBefore
<1> QED BY <1>4, <1>5 DEF FloorsCompatible, claims, operation

(* Authority that lapsed does not come back: floors only rise, an override *)
(* stays the one it was, and a system becomes healthy again only through   *)
(* an exit, which is another recovery generation than any receipt before   *)
(* it carries (receipt_replay.py: current_eligibility).                    *)
THEOREM LapsedIsLapsed == ReceiptsSpec => LapsedStaysLapsed
<1>1. ReceiptsInv /\ ReceiptsInv' /\ [NextReceipts]_allVars =>
        [\A i \in 1..seq : Eligible(log[i])' => Eligible(log[i])]_allVars
  <2> SUFFICES ASSUME ReceiptsInv, ReceiptsInv', [NextReceipts]_allVars,
                      NEW i \in 1..seq, Eligible(log[i])'
               PROVE  Eligible(log[i])
    OBVIOUS
  <2>1. Moves /\ OverridesOk' /\ activeOverrides \subseteq activeOverrides'
    BY LedgerMoves, OverridesKept
  <2>2. PICK r : r = log[i] /\ r = log'[i]
    BY <2>1 DEF Moves
  <2>3. SameGeneration(r)' /\ OperationallyHealthy' /\ FloorsCompatible(r)'
    BY <2>2 DEF Eligible, SameGeneration, FloorsCompatible
  <2>4. KnownOverride(r.call) /\ r.recovery \in 0..exits /\ exits \in Nat
    <3>1. i \in 1..Len(log)
      BY DEF ReceiptsInv, LogOk, LogForm, AuthorityInv
    <3>2. EntryOk(i) /\ exits \in Nat
      BY <3>1 DEF ReceiptsInv, LogOk, ModeOk
    <3> QED BY <2>2, <3>2 DEF EntryOk
  <2>5. exits' = exits /\ OperationallyHealthy
    BY <2>1, <2>3, <2>4 DEF SameGeneration, Moves
  <2>6. SameGeneration(r)
    BY <2>3, <2>5 DEF SameGeneration, OperationallyHealthy
  <2>7. ~Exits
    BY <2>4, <2>5 DEF Exits, Exit
  <2>8. FloorsOk /\ FloorsOk'
        /\ \A kind \in Kinds : ~BelowFloor(floors'[kind].generation, floors'[kind].digest, floors[kind])
    BY <2>7, LedgerStepsAre, FloorsStep DEF ReceiptsInv, AuthorityInv
  <2>9. FloorsCompatible(r)
    BY <2>1, <2>3, <2>4, <2>8, CompatibleBefore
  <2> QED BY <2>2, <2>5, <2>6, <2>9 DEF Eligible
<1> QED BY <1>1, ReceiptsInvariant, PTL DEF ReceiptsSpec, LapsedStaysLapsed

-----------------------------------------------------------------------------
(* The chain.                                                              *)

(* The running tails of the verifier are the receipts up to each entry: a  *)
(* definition by recursion is the one function that satisfies it.          *)
LEMMA TailsAre ==
  ASSUME NEW p, Len(p) \in Nat, NEW n \in 0..Len(p)
  PROVE  Tails(p)[n] = [j \in 1..n |-> Bare(p[j].receipt)]
<1> DEFINE N == Len(p)
           Is(f) == f = [i \in 0..N |->
                           IF i = 0 THEN <<>> ELSE EntryDigest(p[i].receipt, f[i - 1])]
           F == CHOOSE f : Is(f)
           At(i) == [j \in 1..i |-> Bare(p[j].receipt)]
           C == [i \in 0..N |-> At(i)]
<1>1. Tails(p) = F
  BY DEF Tails
<1>2. At(0) = <<>>
  OBVIOUS
<1>3. ASSUME NEW i \in Nat PROVE EntryDigest(p[i + 1].receipt, At(i)) = At(i + 1)
  <2> DEFINE s == At(i)
             e == Bare(p[i + 1].receipt)
             t == Append(s, e)
  <2>1. EntryDigest(p[i + 1].receipt, s) = t
    BY DEF EntryDigest, Bare
  <2>2. s = [j \in 1..i |-> s[j]] /\ \A j \in 1..i : s[j] = Bare(p[j].receipt)
    OBVIOUS
  <2> HIDE DEF s, e
  <2>3. s \in Seq({s[j] : j \in DOMAIN s}) /\ Len(s) = i
    BY <2>2, IsSequence
  <2>4. t = [j \in 1..(i + 1) |-> t[j]] /\ t[i + 1] = e /\ \A j \in 1..i : t[j] = s[j]
    BY <2>3, Appended
  <2> HIDE DEF t
  <2>5. ASSUME NEW j \in 1..(i + 1) PROVE t[j] = Bare(p[j].receipt)
    <3>1. CASE j = i + 1
      BY <2>4, <3>1 DEF e
    <3>2. CASE j \in 1..i
      BY <2>2, <2>4, <3>2
    <3> QED BY <3>1, <3>2
  <2> QED BY <2>1, <2>4, <2>5 DEF s
<1> HIDE DEF N
<1>4. Is(C)
  <2>1. ASSUME NEW i \in 0..N
        PROVE  C[i] = IF i = 0 THEN <<>> ELSE EntryDigest(p[i].receipt, C[i - 1])
    <3>1. CASE i = 0
      BY <1>2, <3>1
    <3>2. CASE i # 0
      <4>1. i - 1 \in Nat /\ i - 1 \in 0..N /\ (i - 1) + 1 = i
        BY <3>2 DEF N
      <4>2. C[i] = At(i) /\ C[i - 1] = At(i - 1)
        BY <4>1
      <4> HIDE DEF At, C
      <4>3. EntryDigest(p[i].receipt, At(i - 1)) = At(i)
        <5> DEFINE m == i - 1
        <5>1. m \in Nat /\ m + 1 = i
          BY <4>1
        <5> HIDE DEF m
        <5>2. EntryDigest(p[m + 1].receipt, At(m)) = At(m + 1)
          BY <1>3, <5>1
        <5> QED BY <5>1, <5>2 DEF m
      <4> QED BY <3>2, <4>2, <4>3
    <3> QED BY <3>1, <3>2
  <2> HIDE DEF At
  <2>2. C = [i \in 0..N |-> C[i]]
    OBVIOUS
  <2> HIDE DEF C
  <2> QED BY <2>1, <2>2
<1> HIDE DEF Is
<1>5. Is(F)
  BY <1>4
<1> HIDE DEF F
<1>6. ASSUME NEW i \in 0..N
      PROVE  F[i] = IF i = 0 THEN <<>> ELSE EntryDigest(p[i].receipt, F[i - 1])
  BY <1>5 DEF Is
<1> HIDE DEF At
<1> DEFINE S == {i \in Nat : i <= N => F[i] = At(i)}
<1>7. 0 \in S
  BY <1>2, <1>6 DEF N
<1>8. ASSUME NEW i \in Nat, i \in S PROVE i + 1 \in S
  <2> SUFFICES ASSUME i + 1 <= N PROVE F[i + 1] = At(i + 1)
    OBVIOUS
  <2>1. i + 1 \in 0..N /\ i + 1 # 0 /\ (i + 1) - 1 = i /\ i <= N
    BY DEF N
  <2>2. F[i] = At(i)
    BY <1>8, <2>1
  <2>3. F[i + 1] = EntryDigest(p[i + 1].receipt, F[i])
    <3> DEFINE m == i + 1
    <3>1. F[m] = EntryDigest(p[m].receipt, F[m - 1])
      <4> HIDE DEF m
      <4>1. m \in 0..N /\ m # 0
        BY <2>1 DEF m
      <4> QED BY <1>6, <4>1
    <3> QED BY <2>1, <3>1
  <2> QED BY <1>3, <2>2, <2>3
<1> HIDE DEF S
<1>9. n \in S
  BY <1>7, <1>8, SetInduction
<1> QED BY <1>1, <1>9 DEF S, At, N

(* What was signed for a receipt, whatever it holds now.                   *)
SignedFor(q, r) == q.digest = SignReceipt(r).digest /\ q.evidence = SignReceipt(r).evidence
Slip(q) ==
  /\ q = [receipt |-> q.receipt, digest |-> q.digest, evidence |-> q.evidence]
  /\ \E r : EntryForm(r) /\ SignedFor(q, r)

(* What parses is what was signed.                                         *)
LEMMA ParsedIsSigned ==
  ASSUME NEW q, Slip(q), ParsesAsReceipt(q)
  PROVE  EntryForm(q.receipt) /\ q = SignReceipt(q.receipt)
<1>1. PICK r : EntryForm(r) /\ SignedFor(q, r)
  BY DEF Slip
<1>2. q.receipt = r
  BY <1>1 DEF ParsesAsReceipt, SignedFor, SignReceipt, Digest
<1> QED BY <1>1, <1>2 DEF SignedFor, SignReceipt, Slip

LEMMA SignedIsSlip ==
  ASSUME NEW r, EntryForm(r)
  PROVE  Slip(SignReceipt(r)) /\ Slip(Damaged(SignReceipt(r))) /\ Slip(Foreign(r))
<1> DEFINE q == SignReceipt(r)
           d == Damaged(q)
           f == [r EXCEPT !.store = "another"]
<1>1. q = [receipt |-> q.receipt, digest |-> q.digest, evidence |-> q.evidence]
  BY DEF SignReceipt
<1>2. d.digest = q.digest /\ d.evidence = q.evidence
      /\ d = [receipt |-> d.receipt, digest |-> d.digest, evidence |-> d.evidence]
  <2> HIDE DEF q
  <2> QED BY <1>1 DEF Damaged
<1>3. EntryForm(f)
  BY DEF EntryForm
<1>4. Slip(q)
  <2> HIDE DEF q
  <2>1. SignedFor(q, r)
    BY DEF SignedFor, q
  <2> QED BY <1>1, <2>1 DEF Slip
<1>5. Slip(d)
  <2>1. SignedFor(d, r)
    BY <1>2 DEF SignedFor
  <2> HIDE DEF d
  <2> QED BY <1>2, <2>1 DEF Slip
<1>6. Slip(SignReceipt(f))
  <2> DEFINE s == SignReceipt(f)
  <2>1. s = [receipt |-> s.receipt, digest |-> s.digest, evidence |-> s.evidence]
    BY DEF SignReceipt
  <2>2. SignedFor(s, f)
    BY DEF SignedFor
  <2> HIDE DEF s, f
  <2>3. Slip(s)
    BY <1>3, <2>1, <2>2 DEF Slip
  <2> QED BY <2>3 DEF s
<1> QED BY <1>4, <1>5, <1>6 DEF Foreign

(* However a log comes back, its entries are slips.                        *)
LEMMA AlteredAreSlips ==
  ASSUME LogOk, seq \in Nat, NEW p \in Altered(Payloads)
  PROVE  Len(p) \in Nat /\ p = [i \in 1..Len(p) |-> p[i]] /\ \A i \in 1..Len(p) : Slip(p[i])
<1> DEFINE P == Payloads
           n == Len(P)
           S == {P[i] : i \in 1..n} \cup {Damaged(P[i]) : i \in 1..n}
                \cup {Foreign(P[i].receipt) : i \in 1..n}
<1>1. DOMAIN log = 1..Len(log) /\ Len(log) \in Nat
  BY LogStays DEF LogOk
<1>2. /\ n \in Nat /\ DOMAIN P = 1..n /\ n = Len(log)
      /\ P = [i \in 1..n |-> P[i]] /\ \A i \in 1..n : P[i] = SignReceipt(log[i])
  BY <1>1 DEF Payloads
<1>3. \A i \in 1..n : P[i].receipt = log[i] /\ EntryForm(log[i])
  BY <1>2 DEF SignReceipt, LogOk, EntryOk
<1>4. \A q \in S : Slip(q)
  <2> HIDE DEF P, n
  <2>1. \A i \in 1..n : Slip(P[i]) /\ Slip(Damaged(P[i])) /\ Slip(Foreign(P[i].receipt))
    BY <1>2, <1>3, SignedIsSlip
  <2> QED BY <2>1
<1>5. P \in Seq(S)
  <2> HIDE DEF P, n
  <2>1. P \in [1..n -> S]
    BY <1>2
  <2> HIDE DEF S
  <2> QED BY <1>2, <2>1
<1>6. p \in Altered(P)
  OBVIOUS
<1>7. \A i \in 1..n : P[i] \in S /\ Damaged(P[i]) \in S /\ Foreign(P[i].receipt) \in S
  OBVIOUS
<1> HIDE DEF P, S
<1>8. p \in Seq(S)
  <2>1. \A i \in 0..n : SubSeq(P, 1, i) \in Seq(S)
    BY <1>2, <1>5
  <2>2. \A i \in 1..n : SubSeq(P, 1, i - 1) \in Seq(S) /\ SubSeq(P, i + 1, n) \in Seq(S)
                        /\ SubSeq(P, i, n) \in Seq(S)
    BY <1>2, <1>5
  <2>3. \A s, t \in Seq(S) : s \o t \in Seq(S)
    BY Joined
  <2>4. ASSUME NEW i \in DOMAIN P PROVE SubSeq(P, 1, i - 1) \o SubSeq(P, i + 1, n) \in Seq(S)
    BY <1>2, <2>2, <2>3
  <2>5. ASSUME NEW i \in DOMAIN P PROVE SubSeq(P, 1, i) \o SubSeq(P, i, n) \in Seq(S)
    <3>1. i \in 1..n /\ i \in 0..n
      BY <1>2
    <3> QED BY <2>1, <2>2, <2>3, <3>1
  <2>6. ASSUME NEW i \in DOMAIN P, NEW j \in DOMAIN P PROVE [P EXCEPT ![i] = P[j], ![j] = P[i]] \in Seq(S)
    BY <1>2, <1>5, <1>7
  <2>7. ASSUME NEW i \in DOMAIN P, NEW e \in S PROVE [P EXCEPT ![i] = e] \in Seq(S)
    BY <1>2, <1>5
  <2>8. ASSUME NEW i \in DOMAIN P PROVE [P EXCEPT ![i] = Damaged(P[i])] \in Seq(S)
    BY <1>2, <1>7, <2>7
  <2>9. ASSUME NEW i \in DOMAIN P PROVE [P EXCEPT ![i] = Foreign(P[i].receipt)] \in Seq(S)
    BY <1>2, <1>7, <2>7
  <2>10. \/ \E i \in 0..n : p = SubSeq(P, 1, i)
         \/ \E i \in DOMAIN P : p = SubSeq(P, 1, i - 1) \o SubSeq(P, i + 1, n)
         \/ \E i \in DOMAIN P : p = SubSeq(P, 1, i) \o SubSeq(P, i, n)
         \/ \E i, j \in DOMAIN P : p = [P EXCEPT ![i] = P[j], ![j] = P[i]]
         \/ \E i \in DOMAIN P : p = [P EXCEPT ![i] = Damaged(P[i])]
         \/ \E i \in DOMAIN P : p = [P EXCEPT ![i] = Foreign(P[i].receipt)]
    <3> DEFINE cut      == {SubSeq(P, 1, i) : i \in 0..n}
               lost     == {SubSeq(P, 1, i - 1) \o SubSeq(P, i + 1, n) : i \in DOMAIN P}
               repeated == {SubSeq(P, 1, i) \o SubSeq(P, i, n) : i \in DOMAIN P}
               swapped  == {[P EXCEPT ![i] = P[j], ![j] = P[i]] : i, j \in DOMAIN P}
               damaged  == {[P EXCEPT ![i] = Damaged(P[i])] : i \in DOMAIN P}
               foreign  == {[P EXCEPT ![i] = Foreign(P[i].receipt)] : i \in DOMAIN P}
    <3>1. Altered(P) = cut \cup lost \cup repeated \cup swapped \cup damaged \cup foreign
      BY DEF Altered
    <3>2. p \in cut \/ p \in lost \/ p \in repeated \/ p \in swapped \/ p \in damaged \/ p \in foreign
      <4> HIDE DEF cut, lost, repeated, swapped, damaged, foreign
      <4> QED BY <1>6, <3>1
    <3>3. p \in swapped => \E i, j \in DOMAIN P : p = [P EXCEPT ![i] = P[j], ![j] = P[i]]
      OBVIOUS
    <3>4. p \in cut => \E i \in 0..n : p = SubSeq(P, 1, i)
      OBVIOUS
    <3>5. p \in lost => \E i \in DOMAIN P : p = SubSeq(P, 1, i - 1) \o SubSeq(P, i + 1, n)
      OBVIOUS
    <3>6. p \in repeated => \E i \in DOMAIN P : p = SubSeq(P, 1, i) \o SubSeq(P, i, n)
      OBVIOUS
    <3>7. p \in damaged => \E i \in DOMAIN P : p = [P EXCEPT ![i] = Damaged(P[i])]
      OBVIOUS
    <3>8. p \in foreign => \E i \in DOMAIN P : p = [P EXCEPT ![i] = Foreign(P[i].receipt)]
      OBVIOUS
    <3> HIDE DEF cut, lost, repeated, swapped, damaged, foreign
    <3> QED BY <3>2, <3>3, <3>4, <3>5, <3>6, <3>7, <3>8
  <2> HIDE DEF n
  <2> QED BY <2>1, <2>4, <2>5, <2>6, <2>8, <2>9, <2>10
<1> QED BY <1>4, <1>8

(* A receipt is what is left without its previous digest, and that.        *)
LEMMA BareAndPrevious ==
  ASSUME NEW r, NEW s, EntryForm(r), EntryForm(s), Bare(r) = Bare(s), r.previous = s.previous
  PROVE  r = s
<1>1. /\ Bare(r).governor = r.governor /\ Bare(r).call = r.call /\ Bare(r).event = r.event
      /\ Bare(r).decision = r.decision /\ Bare(r).sequence = r.sequence /\ Bare(r).store = r.store
      /\ Bare(r).recovery = r.recovery /\ Bare(r).mode = r.mode
  BY DEF Bare, EntryForm
<1>2. /\ Bare(s).governor = s.governor /\ Bare(s).call = s.call /\ Bare(s).event = s.event
      /\ Bare(s).decision = s.decision /\ Bare(s).sequence = s.sequence /\ Bare(s).store = s.store
      /\ Bare(s).recovery = s.recovery /\ Bare(s).mode = s.mode
  BY DEF Bare, EntryForm
<1> QED BY <1>1, <1>2 DEF EntryForm

LEMMA CommittedPayloads ==
  ASSUME LogOk, seq \in Nat
  PROVE  SubSeq(Payloads, 1, seq) = [i \in 1..seq |-> SignReceipt(log[i])]
<1> DEFINE P == Payloads
           n == Len(P)
<1>1. DOMAIN log = 1..Len(log) /\ Len(log) \in Nat
  BY LogStays DEF LogOk
<1>2. /\ n \in Nat /\ DOMAIN P = 1..n /\ n = Len(log)
      /\ P = [i \in 1..n |-> P[i]] /\ \A i \in 1..n : P[i] = SignReceipt(log[i])
  BY <1>1 DEF Payloads
<1> HIDE DEF P
<1>3. seq \in 0..n /\ seq \in 0..Len(log)
  BY <1>1, <1>2 DEF LogOk, LogForm
<1>4. P \in Seq({P[i] : i \in 1..n})
  <2> DEFINE S == {P[i] : i \in 1..n}
  <2>1. P \in [1..n -> S]
    BY <1>2
  <2> HIDE DEF S
  <2> QED BY <1>2, <2>1
<1>5. SubSeq(P, 1, seq) = [i \in 1..seq |-> P[i]]
  BY <1>2, <1>3, <1>4
<1>6. \A i \in 1..seq : P[i] = SignReceipt(log[i])
  BY <1>2, <1>3
<1> QED BY <1>5, <1>6 DEF P

LEMMA OnlyCommittedVerifies ==
  ASSUME ReceiptsInv
  PROVE  OnlyTheCommittedChainVerifies
<1> SUFFICES ASSUME NEW p \in Altered(Payloads), ChainVerifies(p, Authorizations)
             PROVE  p = SubSeq(Payloads, 1, seq)
  BY DEF OnlyTheCommittedChainVerifies
<1>1. seq \in Nat /\ LogOk /\ tail = Chain(log, seq) /\ Len(log) \in {seq, seq + 1}
  BY DEF ReceiptsInv, AuthorityInv, LogOk, LogForm
<1>2. /\ Len(p) \in Nat /\ DOMAIN p = 1..Len(p) /\ p = [i \in 1..Len(p) |-> p[i]]
      /\ \A i \in 1..Len(p) : Slip(p[i])
  BY <1>1, AlteredAreSlips
<1>3. /\ Len(p) = seq /\ Tails(p)[seq] = tail
      /\ \A i \in 1..seq : ParsesAsReceipt(p[i]) /\ p[i].receipt.previous = Tails(p)[i - 1]
  BY <1>2 DEF ChainVerifies, EndsAtTail
<1>4. ASSUME NEW i \in 0..seq PROVE Tails(p)[i] = [j \in 1..i |-> Bare(p[j].receipt)]
  BY <1>2, <1>3, TailsAre
<1>5. \A j \in 1..seq : Bare(p[j].receipt) = Bare(log[j])
  <2>1. [j \in 1..seq |-> Bare(p[j].receipt)] = [j \in 1..seq |-> Bare(log[j])]
    <3>1. seq \in 0..seq
      BY <1>1
    <3>2. Tails(p)[seq] = [j \in 1..seq |-> Bare(p[j].receipt)]
      BY <1>4, <3>1
    <3> QED BY <1>1, <1>3, <3>2 DEF Chain
  <2> QED BY <2>1
<1>6. ASSUME NEW i \in 1..seq PROVE p[i] = SignReceipt(log[i])
  <2>1. EntryForm(p[i].receipt) /\ p[i] = SignReceipt(p[i].receipt)
    BY <1>2, <1>3, ParsedIsSigned
  <2>2. EntryForm(log[i]) /\ log[i].previous = Chain(log, i - 1)
    BY <1>1 DEF LogOk, EntryOk
  <2>3. p[i].receipt.previous = [j \in 1..(i - 1) |-> Bare(p[j].receipt)]
    <3>1. i - 1 \in 0..seq
      BY <1>1
    <3> QED BY <1>3, <1>4, <3>1
  <2>4. p[i].receipt.previous = log[i].previous
    <3>1. \A j \in 1..(i - 1) : j \in 1..seq
      BY <1>1
    <3> QED BY <1>5, <2>2, <2>3, <3>1 DEF Chain
  <2>5. p[i].receipt = log[i]
    BY <1>5, <2>1, <2>2, <2>4, BareAndPrevious
  <2> QED BY <2>1, <2>5
<1>7. SubSeq(Payloads, 1, seq) = [i \in 1..seq |-> SignReceipt(log[i])]
  BY <1>1, CommittedPayloads
<1> QED BY <1>2, <1>3, <1>6, <1>7

LEMMA HistoryVerifies ==
  ASSUME ReceiptsInv
  PROVE  HistoryVerifiesUnderKeptPins
<1> DEFINE p == SubSeq(Payloads, 1, seq)
<1>1. seq \in Nat /\ LogOk /\ tail = Chain(log, seq) /\ Len(log) \in {seq, seq + 1}
  BY DEF ReceiptsInv, AuthorityInv, LogOk, LogForm
<1>2. /\ p = [i \in 1..seq |-> SignReceipt(log[i])]
      /\ Len(p) = seq /\ DOMAIN p = 1..seq /\ \A i \in 1..seq : p[i] = SignReceipt(log[i])
  <2>1. p = [i \in 1..seq |-> SignReceipt(log[i])]
    BY <1>1, CommittedPayloads
  <2> HIDE DEF p
  <2> QED BY <1>1, <2>1
<1> HIDE DEF p
<1>3. ASSUME NEW i \in 1..seq
      PROVE  /\ p[i].receipt = log[i] /\ ParsesAsReceipt(p[i])
             /\ log[i].sequence = i /\ log[i].store = Store
             /\ log[i].previous = Tails(p)[i - 1]
  <2>1. EntryOk(i)
    BY <1>1 DEF LogOk
  <2>2. p[i].receipt = log[i] /\ ParsesAsReceipt(p[i])
    BY <1>2 DEF ParsesAsReceipt, SignReceipt
  <2>3. Tails(p)[i - 1] = [j \in 1..(i - 1) |-> Bare(p[j].receipt)]
    <3>1. i - 1 \in 0..Len(p) /\ Len(p) \in Nat
      BY <1>1, <1>2
    <3> QED BY <3>1, TailsAre
  <2>4. \A j \in 1..(i - 1) : p[j].receipt = log[j]
    <3>1. \A j \in 1..(i - 1) : j \in 1..seq
      BY <1>1
    <3> QED BY <1>2, <3>1 DEF SignReceipt
  <2>5. Tails(p)[i - 1] = Chain(log, i - 1)
    BY <2>3, <2>4 DEF Chain
  <2> QED BY <2>1, <2>2, <2>5 DEF EntryOk
<1>4. EndsAtTail(p)
  <2>1. seq \in 0..Len(p) /\ Len(p) \in Nat
    BY <1>1, <1>2
  <2>2. Tails(p)[seq] = [j \in 1..seq |-> Bare(p[j].receipt)]
    BY <2>1, TailsAre
  <2>3. Tails(p)[seq] = tail
    BY <1>1, <1>3, <2>2 DEF Chain
  <2> QED BY <1>2, <2>3 DEF EndsAtTail
<1>5. ASSUME NEW i \in 1..seq, NEW pins
      PROVE  VerifiesUnder(p[i], pins) <=> SigningAuthorization(log[i]) \in pins
  <2> DEFINE r == log[i]
             a == SigningAuthorization(r)
  <2>1. p[i] = SignReceipt(r) /\ p[i].receipt = r
    BY <1>2, <1>3
  <2>2. ASSUME NEW b, BoundTo(p[i], b) PROVE b = a
    BY <2>1, <2>2 DEF BoundTo, AuthorizationDigest, Digest
  <2>3. BoundTo(p[i], a)
    BY <2>1 DEF BoundTo, SignReceipt
  <2>4. SignedUnder(p[i], a)
    <3>1. EntryOk(i)
      BY <1>1 DEF LogOk
    <3>2. r.governor \in DOMAIN Governors /\ Current(a, Runtimes[r.call.runtime].runtime.time)
      BY <3>1 DEF EntryOk
    <3>3. [signer |-> "signer", role |-> "receipt-signer", kind |-> "receipt"] \in a.grants
      BY <3>2, ReceiptSigners DEF SigningAuthorization
    <3>4. SignatureHolds(p[i], a)
      <4> DEFINE e == p[i].evidence
      <4> HIDE DEF r
      <4>1. e = [kind |-> "receipt", role |-> "receipt-signer", signer |-> "signer",
                 authorization |-> AuthorizationDigest(a), signed |-> r]
        BY <2>1 DEF SignReceipt
      <4> HIDE DEF e, a
      <4>2. AuthorizedBy([kind |-> e.kind, role |-> e.role, signer |-> e.signer,
                          authorization |-> e.authorization, valid |-> e.signed = p[i].receipt],
                         a, "receipt", "receipt-signer")
        BY <2>1, <3>3, <4>1 DEF AuthorizedBy
      <4> QED BY <4>2 DEF SignatureHolds, e
    <3> QED BY <2>1, <3>2, <3>4 DEF SignedUnder
  <2> HIDE DEF a, r
  <2> QED BY <2>2, <2>3, <2>4 DEF VerifiesUnder, a, r
<1>6. ASSUME NEW pins
      PROVE  ChainVerifies(p, pins) <=> \A i \in 1..seq : SigningAuthorization(log[i]) \in pins
  <2>1. ChainVerifies(p, pins) <=>
          /\ \A i \in 1..seq :
                /\ ParsesAsReceipt(p[i]) /\ VerifiesUnder(p[i], pins)
                /\ p[i].receipt.sequence = i /\ p[i].receipt.previous = Tails(p)[i - 1]
                /\ p[i].receipt.store = Store
          /\ EndsAtTail(p)
    BY <1>2 DEF ChainVerifies
  <2> QED BY <1>3, <1>4, <1>5, <2>1
<1> QED BY <1>6 DEF HistoryVerifiesUnderKeptPins, p

(* The verifier accepts the committed chain while every authorization that *)
(* signed it is kept, and nothing a log may come back as instead: cut,     *)
(* with a frame lost, repeated, exchanged, damaged or of another store     *)
(* (receipt_verification.py: verify_receipt_chain).                        *)
THEOREM OnlyHistoryVerifies == ReceiptsSpec => []ChainsVerifyExactly
<1>1. ReceiptsInv => TypeReceipts
  BY DEF ReceiptsInv, ModeOk, LogOk, LogForm, Chain, Bare, TypeReceipts
<1>2. ReceiptsInv => ChainsVerifyExactly
  BY <1>1, OnlyCommittedVerifies, HistoryVerifies DEF ChainsVerifyExactly
<1> QED BY <1>2, ReceiptsInvariant, PTL

-----------------------------------------------------------------------------
(* Replay.                                                                 *)

LEMMA PreflightAnswers ==
  ASSUME NEW g, NEW r
  PROVE  /\ Preflight(g, r) \in PreflightCodes \cup {Nothing}
         /\ Preflight(g, r) = Nothing => r.effect = r.operation.arguments
<1> DEFINE bundle == r.operation.bundle
           shape == r.shape # "exact"
           malformed == r.effect = "malformed"
           effect == r.effect # r.operation.arguments
           adapter == r.operation.adapter # g.adapter
           missing == bundle # "none" /\ bundle \notin DOMAIN g.bundles
           mismatch == bundle \in DOMAIN g.bundles /\ r.envelope.bundle # g.bundles[bundle]
           unknown == [id |-> r.operation.id, capability |-> r.operation.capability] \notin g.operations
           s == <<<<shape, "PEP-REQUEST-MALFORMED">>, <<malformed, "PEP-EFFECT-MALFORMED">>,
                  <<effect, "PEP-EFFECT-DIGEST-MISMATCH">>, <<adapter, "PEP-ADAPTER-MISMATCH">>,
                  <<missing, "PEP-BUNDLE-UNAVAILABLE">>, <<mismatch, "PEP-BUNDLE-MISMATCH">>,
                  <<unknown, "PEP-OPERATION-UNKNOWN">>>>
<1>1. /\ shape \in BOOLEAN /\ malformed \in BOOLEAN /\ effect \in BOOLEAN /\ adapter \in BOOLEAN /\ missing \in BOOLEAN
      /\ mismatch \in BOOLEAN /\ unknown \in BOOLEAN
  OBVIOUS
<1>2. Preflight(g, r) = FirstRefusal(s)
  BY DEF Preflight
<1> HIDE DEF shape, malformed, adapter, missing, mismatch, unknown
<1>3. effect <=> r.effect # r.operation.arguments
  OBVIOUS
<1> HIDE DEF effect
<1>4. s \in Seq(BOOLEAN \X PreflightCodes) /\ Len(s) = 7 /\ s[3][1] = effect
  BY <1>1 DEF PreflightCodes
<1> HIDE DEF s
<1>5. FirstRefusal(s) \in PreflightCodes \cup {Nothing}
  BY <1>4, RefusalIsACode
<1>6. FirstRefusal(s) = Nothing => ~effect
  <2>1. Nothing \notin PreflightCodes
    BY EnforcementAssumption
  <2>2. FirstRefusal(s) = Nothing => \A i \in 1..Len(s) : ~s[i][1]
    BY <1>4, <2>1, NothingApplies
  <2> QED BY <1>4, <2>2
<1> QED BY <1>2, <1>3, <1>5, <1>6

(* The decisions the governor can reach on a call, and what they rest on   *)
(* apart from the floors of the moment.                                    *)
GovernFor(name, x, fl, o) ==
    Govern(Governors[name], BaseOf(name, x), Requests[x.request], Runtimes[x.runtime], fl, o)
VerdictOf(name, x) ==
    LET g == Governors[name] IN
    EvaluateRules(g.rules.rules,
                  RuleFields(BaseOf(name, x), Requests[x.request], Runtimes[x.runtime].runtime.time, g),
                  BaseOf(name, x).verdict)
Plain(name, x) ==
    LET base == BaseOf(name, x) IN
    Governed(base, VerdictOf(name, x),
             IF VerdictOf(name, x) = base.verdict THEN base.reason ELSE RuleReason(VerdictOf(name, x)),
             base.recovery, Nothing)
Rejected(name, x) == [Plain(name, x) EXCEPT !.verdict = "deny", !.reason = "RULE-OVERRIDE-INVALID"]
Lifted(name, x, o) == Governed(BaseOf(name, x), "allow", "RULE-OVERRIDE", BaseOf(name, x).recovery, o)
Governable(name, x) ==
    Fits(Governors[name], BaseOf(name, x), Requests[x.request], Runtimes[x.runtime].runtime.time)
Liftable(name, x, o) ==
    /\ OverrideFits(o, BaseOf(name, x), Requests[x.request], Governors[name], Runtimes[x.runtime])
    /\ VerdictOf(name, x) = BaseOf(name, x).verdict

LEMMA GovernorJudges ==
  ASSUME NEW name, NEW x, NEW fl, NEW o, NEW gv, gv = GovernFor(name, x, fl, o)
  PROVE  /\ gv.refusal \in GovernorCodes \cup {Nothing}
         /\ gv.refusal = Nothing <=>
              /\ FloorsAdmit(Governors[name], fl) /\ Governable(name, x)
              /\ o # Nothing => OverrideAdmitted(o, fl) /\ Liftable(name, x, o)
         /\ gv.refusal = Nothing =>
              gv = Granted(IF o = Nothing THEN Plain(name, x) ELSE Lifted(name, x, o))
         /\ gv.refusal = "RULE-OVERRIDE-INVALID" => FloorsAdmit(Governors[name], fl) /\ Governable(name, x)
         /\ gv.refusal \in FloorFreeCodes => ~Governable(name, x)
<1> DEFINE g == Governors[name]
           base == BaseOf(name, x)
           request == Requests[x.request]
           runtime == Runtimes[x.runtime]
           refusal == FirstRefusal(GovernRefusals(g, base, request, fl, runtime.runtime.time))
           invalid == FirstRefusal(OverrideRefusals(o, base, request, g, runtime, fl))
           verdict == VerdictOf(name, x)
<1>1. gv = IF refusal # Nothing THEN Refused(refusal)
           ELSE IF o = Nothing THEN Granted(Plain(name, x))
           ELSE IF invalid # Nothing THEN Refused(invalid)
           ELSE IF verdict # base.verdict THEN Refused("RULE-OVERRIDE-INVALID")
           ELSE Granted(Lifted(name, x, o))
  BY DEF GovernFor, Govern, Strengthened, Plain, Lifted, VerdictOf
<1>2. /\ refusal \in FloorFreeCodes \cup {StateError, Nothing} /\ refusal # "RULE-OVERRIDE-INVALID"
      /\ Governable(name, x) => refusal \in {StateError, Nothing}
      /\ refusal = Nothing <=> FloorsAdmit(g, fl) /\ Governable(name, x)
  BY GovernorsCodes DEF Governable
<1>3. /\ invalid \in {"RULE-OVERRIDE-INVALID", StateError, Nothing}
      /\ invalid = Nothing /\ verdict = base.verdict <=> OverrideAdmitted(o, fl) /\ Liftable(name, x, o)
  BY OverrideCodes DEF Liftable
<1> HIDE DEF g, base, request, runtime, refusal, invalid, verdict
<1>4. \A c : Refused(c).refusal = c /\ Granted(c).refusal = Nothing
  BY DEF Refused, Granted
<1>5. /\ FloorFreeCodes \subseteq GovernorCodes /\ {"RULE-OVERRIDE-INVALID", StateError} \subseteq GovernorCodes
      /\ Nothing \notin GovernorCodes /\ {"RULE-OVERRIDE-INVALID", StateError} \cap FloorFreeCodes = {}
  BY NothingAssumption DEF GovernorCodes, FloorFreeCodes, StateError
<1>6. CASE refusal # Nothing
  BY <1>1, <1>2, <1>4, <1>5, <1>6 DEF g
<1>7. CASE refusal = Nothing /\ o = Nothing
  BY <1>1, <1>2, <1>4, <1>5, <1>7 DEF g
<1>8. CASE refusal = Nothing /\ o # Nothing
  BY <1>1, <1>2, <1>3, <1>4, <1>5, <1>8 DEF g
<1> QED BY <1>6, <1>7, <1>8

(* A decision in hand was reached without the governor, for a reason that  *)
(* stays, or on grounds that stay as long as the floors admit them.        *)
Unjudged(name, x, d) ==
    \E code \in PreflightCodes \cup FloorFreeCodes \cup {"PEP-RECOVERY-ONLY", Nothing} :
        /\ d = Ungoverned(BaseOf(name, x), code)
        /\ code \in PreflightCodes => Preflight(Governors[name], Requests[x.request]) # Nothing
        /\ code \in FloorFreeCodes => ~Governable(name, x)
        /\ code = Nothing => ~TimeValid(x)
JudgedAs(name, x, o, d) ==
    /\ Preflight(Governors[name], Requests[x.request]) = Nothing /\ Governable(name, x)
    /\ \/ d \in {Plain(name, x), Rejected(name, x)}
       \/ Plain(name, x).verdict = "allow" /\ d = Converted(Plain(name, x))
       \/ o # Nothing /\ Liftable(name, x, o) /\ d \in {Lifted(name, x, o), Converted(Lifted(name, x, o))}
Reached(name, x, o, d) == Unjudged(name, x, d) \/ JudgedAs(name, x, o, d)

LEMMA DecidedReached ==
  ASSUME NEW name, NEW x, NEW o, NEW ready, NEW d, d = DecidedWhen(ready, name, x, o)
  PROVE  Reached(name, x, o, d)
<1> DEFINE g == Governors[name]
           request == Requests[x.request]
           base == BaseOf(name, x)
           code == Preflight(g, request)
           governs == GovernFor(name, x, floors, o)
           without == GovernFor(name, x, floors, Nothing)
<1>1. \/ (code # Nothing \/ ~TimeValid(x)) /\ d = Ungoverned(base, code)
      \/ d = Ungoverned(base, "PEP-RECOVERY-ONLY")
      \/ /\ code = Nothing
         /\ \/ governs.refusal = Nothing /\ d = governs.decision
            \/ /\ governs.refusal = "RULE-OVERRIDE-INVALID"
               /\ d = IF without.decision.verdict = "quarantine" THEN without.decision
                      ELSE [without.decision EXCEPT !.verdict = "deny", !.reason = "RULE-OVERRIDE-INVALID"]
            \/ /\ governs.refusal \notin {Nothing, "RULE-OVERRIDE-INVALID"}
               /\ d = Ungoverned(base, PublicCode(governs.refusal))
  BY DEF DecidedWhen, Judged, GovernFor
<1>2. code \in PreflightCodes \cup {Nothing}
  BY PreflightAnswers
<1>3. /\ governs.refusal \in GovernorCodes \cup {Nothing}
      /\ governs.refusal = Nothing => Governable(name, x) /\ (o # Nothing => Liftable(name, x, o))
      /\ governs.refusal = Nothing =>
           governs = Granted(IF o = Nothing THEN Plain(name, x) ELSE Lifted(name, x, o))
      /\ governs.refusal = "RULE-OVERRIDE-INVALID" => FloorsAdmit(g, floors) /\ Governable(name, x)
      /\ governs.refusal \in FloorFreeCodes => ~Governable(name, x)
  BY GovernorJudges
<1>4. FloorsAdmit(g, floors) /\ Governable(name, x) => without = Granted(Plain(name, x))
  BY GovernorJudges
<1> HIDE DEF g, request, base, code, governs, without
<1>5. \A e : Granted(e).decision = e
  BY DEF Granted
<1>6. /\ Nothing \notin PreflightCodes \cup FloorFreeCodes \cup {"PEP-RECOVERY-ONLY"}
      /\ GovernorCodes = FloorFreeCodes \cup {StateError, "RULE-OVERRIDE-INVALID"}
      /\ StateError \notin FloorFreeCodes
      /\ PreflightCodes \cap FloorFreeCodes = {}
      /\ "PEP-RECOVERY-ONLY" \notin PreflightCodes \cup FloorFreeCodes
  BY NothingAssumption, EnforcementAssumption
     DEF GovernorCodes, FloorFreeCodes, PreflightCodes, StateError
<1>7. CASE (code # Nothing \/ ~TimeValid(x)) /\ d = Ungoverned(base, code)
  BY <1>2, <1>6, <1>7 DEF Reached, Unjudged, base, code, g, request
<1>8. CASE d = Ungoverned(base, "PEP-RECOVERY-ONLY")
  BY <1>6, <1>8 DEF Reached, Unjudged, base
<1>9. CASE code = Nothing /\ governs.refusal = Nothing /\ d = governs.decision
  BY <1>3, <1>5, <1>9 DEF Reached, JudgedAs, code, g, request
<1>10. CASE /\ code = Nothing /\ governs.refusal = "RULE-OVERRIDE-INVALID"
            /\ d = IF without.decision.verdict = "quarantine" THEN without.decision
                   ELSE [without.decision EXCEPT !.verdict = "deny", !.reason = "RULE-OVERRIDE-INVALID"]
  <2>1. without.decision = Plain(name, x) /\ Governable(name, x)
    BY <1>3, <1>4, <1>5, <1>10
  <2> QED BY <1>10, <2>1 DEF Reached, JudgedAs, Rejected, code, g, request
<1>11. CASE /\ governs.refusal \notin {Nothing, "RULE-OVERRIDE-INVALID"}
            /\ d = Ungoverned(base, PublicCode(governs.refusal))
  <2>1. CASE governs.refusal = StateError
    BY <1>8, <1>11, <2>1 DEF PublicCode
  <2>2. CASE governs.refusal \in FloorFreeCodes
    <3>1. PublicCode(governs.refusal) = governs.refusal
      BY <1>6, <2>2 DEF PublicCode
    <3> QED BY <1>3, <1>6, <1>11, <2>2, <3>1 DEF Reached, Unjudged, base
  <2> QED BY <1>3, <1>6, <1>11, <2>1, <2>2
<1> QED BY <1>1, <1>7, <1>8, <1>9, <1>10, <1>11

LEMMA ConvertedReached ==
  ASSUME NEW name, NEW x, NEW o, NEW d, Reached(name, x, o, d), d.verdict = "allow"
  PROVE  Reached(name, x, o, Converted(d))
<1>1. \A code : Ungoverned(BaseOf(name, x), code).verdict # "allow"
  BY DEF Ungoverned
<1>2. Rejected(name, x).verdict = "deny"
  BY DEF Rejected, Plain, Governed
<1>3. \A e : DOMAIN e = DecisionFields => Converted(e).verdict = "deny"
  BY DEF Converted, DecisionFields
<1>4. DOMAIN Plain(name, x) = DecisionFields /\ DOMAIN Lifted(name, x, o) = DecisionFields
  BY DEF Plain, Lifted, Governed, DecisionFields
<1>5. ~Unjudged(name, x, d)
  BY <1>1 DEF Unjudged
<1> QED BY <1>2, <1>3, <1>4, <1>5 DEF Reached, JudgedAs

(* Every decision in hand, at any time.                                    *)
ReachedAt(c) == ~Idle(c) => Reached(built[c], call[c], OverrideOf(call[c]), decision[c])

LEMMA ReachedStep ==
  ASSUME ReceiptsInv, ReceiptsInv', [NextReceipts]_allVars, NEW c \in Points, ReachedAt(c)
  PROVE  ReachedAt(c)'
<1>1. OverridesOk' /\ activeOverrides \subseteq activeOverrides'
  BY OverridesKept
<1>2. ASSUME ~Idle(c), call'[c] = call[c] PROVE OverrideOf(call[c])' = OverrideOf(call[c])
  <2>1. KnownOverride(call[c])
    BY <1>2 DEF ReceiptsInv, HandOk
  <2> DEFINE x == call[c]
  <2>2. \A y : KnownOverride(y) => OverrideOf(y)' = OverrideOf(y)
    BY <1>1, OverrideStays
  <2> QED BY <1>2, <2>1, <2>2
<1>3. ASSUME pc[c] # "idle" \/ pc'[c] = "idle", built'[c] = built[c], call'[c] = call[c],
             decision'[c] = decision[c] \/ (decision[c].verdict = "allow" /\ decision'[c] = Converted(decision[c]))
      PROVE  ReachedAt(c)'
  BY <1>2, <1>3, ConvertedReached DEF ReachedAt, Idle
<1>4. ASSUME pc'[c] = "idle" PROVE ReachedAt(c)'
  BY <1>4 DEF ReachedAt, Idle
<1>5. CASE Still \/ Exits
  BY <1>3, <1>4, <1>5 DEF Still, Exits, Exit
<1>6. ASSUME NEW p \in Points, Acts(p), p # c PROVE ReachedAt(c)'
  BY <1>3, <1>4, <1>6, ActsThere DEF ActsOnlyAt, ReceiptsInv, AuthorityInv
<1>7. ASSUME Acts(c) PROVE ReachedAt(c)'
  <2>1. ByPoint(built) /\ ByPoint(pc) /\ ByPoint(call) /\ ByPoint(decision) /\ PointOk(c)
    BY DEF ReceiptsInv, AuthorityInv, PointsOk
  <2>2. ASSUME NEW x \in Calls, Decides(c, x) PROVE ReachedAt(c)'
    <3>1. /\ call'[c] = x /\ decision'[c] = Decided(built[c], x, OverrideOf(x)) /\ built' = built
          /\ activeOverrides' = activeOverrides
      BY <2>1, <2>2 DEF Decides, ByPoint, shared
    <3>2. OverrideOf(x)' = OverrideOf(x)
      BY <3>1 DEF OverrideOf
    <3> QED BY <3>1, <3>2, DecidedReached DEF ReachedAt, Decided
  <2>3. ASSUME Return(c) PROVE ReachedAt(c)'
    BY <1>4, <2>1, <2>3 DEF Return, ByPoint
  <2>4. ASSUME NEW name, Build(c, name) PROVE ReachedAt(c)'
    <3>1. pc'[c] = "idle"
      BY <2>1, <2>4 DEF Build, PointOk, Idle
    <3> QED BY <1>4, <3>1
  <2>5. ASSUME RecordAllow(c) \/ Look(c) PROVE ReachedAt(c)'
    BY <1>3, <2>5 DEF RecordAllow, Commit, Look, shared
  <2>6. ASSUME AllowLost(c) \/ Retreats(c) PROVE ReachedAt(c)'
    <3>1. /\ pc[c] # "idle" /\ decision[c].verdict = "allow" /\ UNCHANGED <<built, call>>
          /\ decision' = [decision EXCEPT ![c] = Converted(@)]
      BY <2>1, <2>6 DEF AllowLost, Retreats, PointOk, Idle, shared
    <3>2. decision'[c] = Converted(decision[c])
      BY <2>1, <3>1 DEF ByPoint
    <3> QED BY <1>3, <3>1, <3>2
  <2> QED BY <1>7, <2>2, <2>3, <2>4, <2>5, <2>6 DEF Acts, RecordNegative, NegativeLost, Sink
<1> QED BY <1>5, <1>6, <1>7, LedgerStepsAre

LEMMA ReachedInvariant == ReceiptsSpec => []\A c \in Points : ReachedAt(c)
<1>1. InitReceipts => \A c \in Points : ReachedAt(c)
  BY DEF InitReceipts, Init, ReachedAt, Idle
<1>2. ReceiptsInv /\ ReceiptsInv' /\ [NextReceipts]_allVars /\ (\A c \in Points : ReachedAt(c))
         => (\A c \in Points : ReachedAt(c))'
  BY ReachedStep
<1> QED BY <1>1, <1>2, ReceiptsInvariant, PTL DEF ReceiptsSpec

(* What of a decision in hand can be rebuilt on the floors of its commit.  *)
(* Its receipt is a record of these fields.                                *)
LEMMA PublicIs ==
  ASSUME NEW d, DOMAIN d = DecisionFields, NEW name, NEW x, NEW event
  PROVE  LET r == ReceiptOf(name, x, event, d) IN
         /\ r.governor = name /\ r.call = x /\ r.event = event /\ r.decision = Public(d)
         /\ r.decision.verdict = d.verdict /\ r.decision.reason = d.reason
         /\ r.decision.recovery = d.recovery
BY DEF ReceiptOf, Public, DecisionFields

LEMMA RebuiltIs ==
  ASSUME NEW d, DOMAIN d = DecisionFields, NEW name, NEW x, NEW event, ContextOk(event, d, x),
         NEW o \in {Nothing, OverrideOf(x)}, NEW structural \in {Nothing, d.reason},
         structural = Nothing => Requests[x.request].effect = Requests[x.request].operation.arguments,
         Rebuilt(name, x, o, structural) = Granted(d),
         structural \in {Nothing, "PEP-EVIDENCE-UNAVAILABLE"} \/ AdapterKnown(ReceiptOf(name, x, event, d))
  PROVE  Reproduced(ReceiptOf(name, x, event, d))
<1> DEFINE r == ReceiptOf(name, x, event, d)
<1>1. /\ r.governor = name /\ r.call = x /\ r.event = event /\ r.decision = Public(d)
      /\ r.decision.reason = d.reason
  BY PublicIs
<1>2. TimeValid(x)
  BY DEF ContextOk
<1>3. Granted(d).refusal = Nothing /\ Granted(d).decision = d
  BY DEF Granted
<1> HIDE DEF r
<1>4. Replays(r, o, structural)
  BY <1>1, <1>2, <1>3 DEF Replays, VectorOk, r
<1> QED BY <1>1, <1>4 DEF Reproduced, r

LEMMA UnjudgedReplays ==
  ASSUME NEW name, NEW x, NEW event, NEW d, Unjudged(name, x, d), ContextOk(event, d, x),
         NEW r, r = ReceiptOf(name, x, event, d)
  PROVE  Reproduced(r) \/ QuarantinedUngoverned(r) \/ AdapterUnknown(r)
<1> DEFINE base == BaseOf(name, x)
           Codes == PreflightCodes \cup FloorFreeCodes \cup {"PEP-RECOVERY-ONLY"}
<1>1. TimeValid(x)
  BY DEF ContextOk
<1>2. Nothing \notin Codes /\ "PEP-EVIDENCE-UNAVAILABLE" \notin Codes
      /\ "PEP-EVIDENCE-UNAVAILABLE" # Nothing
  BY NothingAssumption, EnforcementAssumption DEF GovernorCodes, FloorFreeCodes, PreflightCodes
<1>3. PICK code \in Codes :
        /\ d = Ungoverned(base, code)
        /\ code \in PreflightCodes => Preflight(Governors[name], Requests[x.request]) # Nothing
        /\ code \in FloorFreeCodes => ~Governable(name, x)
  BY <1>1 DEF Unjudged
<1>4. /\ DOMAIN d = DecisionFields
      /\ d.verdict = IF base.verdict = "quarantine" THEN "quarantine" ELSE "deny"
      /\ base.verdict # "quarantine" => d.reason = code /\ d = StructuralDecision(base, code)
      /\ code = "PEP-RECOVERY-ONLY" => d.recovery = "recovery-only"
  BY <1>2, <1>3 DEF Ungoverned, DecisionFields, StructuralDecision
<1>5. /\ r.governor = name /\ r.call = x /\ r.decision.verdict = d.verdict
      /\ r.decision.recovery = d.recovery
  BY <1>4, PublicIs
<1> HIDE DEF base, Codes
<1>6. CASE base.verdict = "quarantine"
  <2>1. code \in FloorFreeCodes => GovernFor(name, x, floors, Nothing).refusal # Nothing
    BY <1>3, GovernorJudges
  <2>2. code = "PEP-RECOVERY-ONLY" \/ code \in PreflightCodes \/ code \in FloorFreeCodes
    BY DEF Codes
  <2> QED BY <1>3, <1>4, <1>5, <1>6, <2>1, <2>2 DEF QuarantinedUngoverned, GovernFor
<1>7. CASE base.verdict # "quarantine" /\ AdapterKnown(r)
  <2>1. Rebuilt(name, x, Nothing, code) = Granted(d)
    BY <1>2, <1>4, <1>7 DEF Rebuilt, base
  <2> QED BY <1>2, <1>4, <1>7, <2>1, RebuiltIs
<1>8. CASE base.verdict # "quarantine" /\ ~AdapterKnown(r)
  BY <1>4, <1>5, <1>8 DEF AdapterUnknown
<1> QED BY <1>6, <1>7, <1>8

LEMMA JudgedReplays ==
  ASSUME NEW name \in DOMAIN Governors, NEW x, NEW event, NEW d, JudgedAs(name, x, OverrideOf(x), d),
         VerdictOf(name, x) = "allow" => BaseOf(name, x).recovery = "none",
         ContextOk(event, d, x), Admits(ClaimsOf(name, d.override)),
         NEW r, r = ReceiptOf(name, x, event, d)
  PROVE  Reproduced(r) \/ OverrideSuperseded(r) \/ AdapterUnknown(r)
<1> DEFINE base == BaseOf(name, x)
           plain == Plain(name, x)
           o == OverrideOf(x)
           lifted == Lifted(name, x, o)
           lost == "PEP-EVIDENCE-UNAVAILABLE"
<1>1. /\ Governable(name, x) /\ FloorsAdmit(Governors[name], floors)
      /\ d.override # Nothing => OverrideAdmitted(d.override, floors)
  BY AdmittedGovernor DEF JudgedAs
<1>2. Requests[x.request].effect = Requests[x.request].operation.arguments
  BY PreflightAnswers DEF JudgedAs
<1>3. /\ GovernFor(name, x, floors, Nothing) = Granted(plain)
      /\ o # Nothing /\ OverrideAdmitted(o, floors) /\ Liftable(name, x, o) =>
            GovernFor(name, x, floors, o) = Granted(lifted)
  BY <1>1, GovernorJudges
<1>4. /\ DOMAIN plain = DecisionFields /\ DOMAIN lifted = DecisionFields
      /\ lifted.verdict = "allow" /\ lifted.override = o
  BY DEF Plain, Lifted, Governed, DecisionFields
<1>5. \A e : DOMAIN e = DecisionFields =>
         DOMAIN Converted(e) = DecisionFields /\ Converted(e).reason = lost /\ Converted(e).override = Nothing
  BY DEF Converted, DecisionFields
<1>6. \A e : e.verdict = "allow" => ConvertedIfAllow(Granted(e)) = Granted(Converted(e))
  BY DEF ConvertedIfAllow, Granted
<1>7. lost # Nothing
  BY EnforcementAssumption
<1>8. \A v : /\ Rebuilt(name, x, v, Nothing) = GovernFor(name, x, floors, v)
            /\ Rebuilt(name, x, v, lost) = ConvertedIfAllow(GovernFor(name, x, floors, v))
  BY <1>7 DEF Rebuilt, GovernFor
<1>9. CASE d = Rejected(name, x)
  <2> DEFINE code == "RULE-OVERRIDE-INVALID"
  <2>1. plain.recovery = base.recovery
    BY DEF Plain, Governed
  <2>2. DOMAIN d = DecisionFields /\ d.reason = code /\ d.verdict = "deny"
    BY <1>4, <1>9 DEF Rejected, DecisionFields
  <2>3. d = StructuralDecision(base, code)
    BY <1>9, <2>1 DEF Rejected, Plain, Governed, StructuralDecision
  <2>4. code # Nothing
    BY NothingAssumption DEF GovernorCodes
  <2>5. Rebuilt(name, x, Nothing, code) = Granted(d)
    BY <2>3, <2>4 DEF Rebuilt
  <2>6. r.decision.verdict = "deny"
    BY <2>2, PublicIs
  <2> QED BY <2>2, <2>4, <2>5, <2>6, RebuiltIs DEF AdapterUnknown
<1> HIDE DEF base, plain, lifted, lost
<1>10. CASE d = plain
  BY <1>2, <1>3, <1>4, <1>8, <1>10, RebuiltIs
<1>11. CASE d = Converted(plain) /\ plain.verdict = "allow"
  <2>1. Rebuilt(name, x, Nothing, lost) = Granted(d)
    BY <1>3, <1>6, <1>8, <1>11
  <2>2. DOMAIN d = DecisionFields /\ d.reason = lost
    BY <1>4, <1>5, <1>11
  <2> QED BY <1>7, <2>1, <2>2, RebuiltIs DEF lost
<1>12. CASE d = lifted /\ o # Nothing /\ Liftable(name, x, o)
  BY <1>1, <1>2, <1>3, <1>4, <1>8, <1>12, RebuiltIs
<1>13. CASE d = Converted(lifted) /\ o # Nothing /\ Liftable(name, x, o)
  <2>1. DOMAIN d = DecisionFields /\ d.reason = lost
    BY <1>4, <1>5, <1>13
  <2>2. CASE OverrideAdmitted(o, floors)
    <3>1. Rebuilt(name, x, o, lost) = Granted(d)
      BY <1>3, <1>4, <1>6, <1>8, <1>13, <2>2
    <3> QED BY <1>7, <2>1, <3>1, RebuiltIs DEF lost
  <2>3. CASE ~OverrideAdmitted(o, floors)
    <3>1. r.decision.reason = lost /\ r.call = x
      BY <2>1, PublicIs
    <3> QED BY <1>13, <2>3, <3>1 DEF OverrideSuperseded, OverrideAdmitted, lost
  <2> QED BY <2>2, <2>3
<1> QED BY <1>9, <1>10, <1>11, <1>12, <1>13 DEF JudgedAs, plain, lifted

(* An allow of the rules is an allow of the policy, and that asks for no   *)
(* recovery.                                                               *)
LEMMA AllowAsksNothing ==
  ASSUME NEW name \in DOMAIN Governors, NEW x \in Calls, RulesOk(Governors[name]),
         VerdictOf(name, x) = "allow"
  PROVE  BaseOf(name, x).recovery = "none"
<1> DEFINE base == BaseOf(name, x)
<1>1. base.verdict \in Verdicts /\ (base.verdict = "allow" => base.recovery = "none")
  BY BaseIs, EvaluatedLease
<1>2. VerdictOf(name, x) = "allow" => base.verdict = "allow"
  BY <1>1, NoRuleAgainst DEF VerdictOf
<1> QED BY <1>1, <1>2

LEMMA CommitReplays ==
  ASSUME ReceiptsInv, \A p \in Points : ReachedAt(p), NEW c \in Points, Records(c),
         NEW r, r = log'[seq + 1]
  PROVE  Reproduced(r) \/ QuarantinedUngoverned(r) \/ OverrideSuperseded(r) \/ AdapterUnknown(r)
<1> DEFINE name == built[c]
           x == call[c]
           d == decision[c]
<1>1. /\ pc[c] = "record" /\ Committable(c) /\ Settled
      /\ log' = Append(log, ReceiptOf(name, x, EventOf(d), d))
  BY DEF Records, AppendReceipt, RecordAllow, RecordNegative, Commit
<1>2. seq \in Nat /\ LogForm /\ Len(log) = seq
  BY <1>1, CommitGrounds
<1>3. r = ReceiptOf(name, x, EventOf(d), d)
  BY <1>1, <1>2, OneMore
<1>4. /\ name \in DOMAIN Governors /\ x \in Calls /\ RulesOk(Governors[name])
      /\ Reached(name, x, OverrideOf(x), d)
  BY <1>1 DEF ReceiptsInv, AuthorityInv, PointsOk, PointOk, SealedIn, ReachedAt, Idle
<1>5. TimeValid(x) /\ Admits(ClaimsOf(name, d.override))
  BY <1>1 DEF Committable, Claims
<1>6. ContextOk(EventOf(d), d, x)
  BY <1>5 DEF ContextOk, EventOf
<1> HIDE DEF name, x, d
<1> QED BY <1>3, <1>4, <1>5, <1>6, UnjudgedReplays, JudgedReplays, AllowAsksNothing DEF Reached

(* Whatever a point publishes it has reached, converted or not.            *)
LEMMA PublishedReached ==
  ASSUME NEW name, NEW x, NEW d \in Published(name, x)
  PROVE  Reached(name, x, OverrideOf(x), d)
<1> DEFINE decided == {DecidedWhen(ready, name, x, OverrideOf(x)) : ready \in BOOLEAN}
<1>1. \A e \in decided : Reached(name, x, OverrideOf(x), e)
  BY DecidedReached
<1>2. ASSUME NEW e \in decided, e.verdict = "allow", d = Converted(e)
      PROVE  Reached(name, x, OverrideOf(x), d)
  BY <1>1, <1>2, ConvertedReached
<1> QED BY <1>1, <1>2 DEF Published

LEMMA ExitReplays ==
  ASSUME ReceiptsInv, NEW c \in Points, NEW x \in Callable, NEW d \in Published(built[c], x),
         Exit(c, x, d), NEW r, r = log'[seq + 1]
  PROVE  Reproduced(r) \/ QuarantinedUngoverned(r) \/ OverrideSuperseded(r) \/ AdapterUnknown(r)
<1> DEFINE name == built[c]
<1>1. /\ name # Nothing /\ Settled /\ d.override = Nothing /\ ContextOk("recovery-exit", d, x)
      /\ Admits(ClaimsOf(name, d.override))
      /\ log' = Append(log, ReceiptOf(name, x, "recovery-exit", d))
  BY DEF Exit, MayExit
<1>2. seq \in Nat /\ LogForm /\ Len(log) = seq
  BY <1>1 DEF ReceiptsInv, AuthorityInv, LogOk, Settled
<1>3. r = ReceiptOf(name, x, "recovery-exit", d)
  BY <1>1, <1>2, OneMore
<1>4. name \in DOMAIN Governors /\ x \in Calls /\ RulesOk(Governors[name])
  BY <1>1, CallableAssumption DEF ReceiptsInv, AuthorityInv, PointsOk, PointOk, SealedIn
<1>5. Reached(name, x, OverrideOf(x), d)
  BY PublishedReached
<1> HIDE DEF name
<1> QED BY <1>1, <1>3, <1>4, <1>5, UnjudgedReplays, JudgedReplays, AllowAsksNothing DEF Reached

(* Replay rebuilds what was decided: from the inputs of a receipt and the  *)
(* state it was committed on, replay_historical makes the very decision in *)
(* it, whichever of the five paths it took, except for the three kinds     *)
(* named (receipt_replay.py).                                              *)
THEOREM ReceiptsAreRebuilt == ReceiptsSpec => ReceiptsReplay
<1> DEFINE Rest(r) == Reproduced(r) \/ QuarantinedUngoverned(r) \/ OverrideSuperseded(r) \/ AdapterUnknown(r)
<1>1. ASSUME ReceiptsInv, \A c \in Points : ReachedAt(c), [NextReceipts]_allVars, seq' = seq + 1
      PROVE  Rest(log'[seq + 1])
  <2>1. seq' # seq
    BY <1>1 DEF ReceiptsInv, AuthorityInv
  <2>2. ~Still /\ ~UNCHANGED allVars
    BY <2>1 DEF Still, allVars, vars
  <2>3. (\E c \in Points : Records(c)) \/ Exits
    <3>1. \A name, a : ~Activate(name, a)
      BY <2>1 DEF Activate
    <3>2. ASSUME NEW c PROVE \A name, x : ~Build(c, name) /\ ~Decides(c, x)
      BY <2>1 DEF Build, Decides, shared
    <3>3. ASSUME NEW c PROVE ~AllowUnrecorded(c) /\ ~NegativeUnrecorded(c)
      BY <2>1 DEF AllowUnrecorded, NegativeUnrecorded, shared
    <3>4. ASSUME NEW c PROVE ~Looks(c) /\ ~LookUnsettled(c) /\ ~Sink(c)
      BY <2>1 DEF Looks, Look, LookFails, LookUnsettled, Sink, shared
    <3>5. ~Incident
      BY <2>1 DEF Incident
    <3>6. NextReceipts
      BY <1>1, <2>2
    <3> QED BY <3>1, <3>2, <3>3, <3>4, <3>5, <3>6, CallableAssumption DEF NextReceipts, Exits
  <2>4. ASSUME NEW r, r = log'[seq + 1] PROVE Rest(r)
    BY <1>1, <2>3, <2>4, CommitReplays, ExitReplays DEF Exits
  <2> QED BY <2>4
<1> QED BY <1>1, ReceiptsInvariant, ReachedInvariant, PTL DEF ReceiptsSpec, ReceiptsReplay
=============================================================================
