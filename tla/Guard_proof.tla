----------------------------- MODULE Guard_proof -----------------------------
(* What the guard keeps, for every configuration.                             *)
(*                                                                            *)
(* The verdict: more findings are never treated more mildly, an opt-out never *)
(* makes the treatment harsher, and what an enabled rule would act upon still *)
(* reaches the client in four known ways.                                     *)
(*                                                                            *)
(* The session, for every number of requests and frames and every bound on    *)
(* the requests in flight: it leaves no server behind, answers in the place   *)
(* of the server only where no result was correlated, loses at most one       *)
(* answer, and lets through raw only what it could not correlate or was told  *)
(* to let through.                                                            *)
EXTENDS GuardSession, GuardInspection, SequenceTheorems, FiniteSetTheorems, TLAPS

-----------------------------------------------------------------------------
(* The verdict (GuardInspection).                                             *)

Consistent ==
    /\ setting \in VerdictConfig
    /\ content \subseteq Mark
    /\ answer \in {NotYet, [form |-> Treatment(setting, content),
                            marks |-> Delivered(setting, content)]}

LEMMA ConsistentInvariant == SpecInspection => []Consistent
<1>1. InitInspection => Consistent
  BY InspectionConstants DEF InitInspection, Consistent
<1>2. Consistent /\ [NextInspection]_inspectionVars => Consistent'
  BY DEF Consistent, NextInspection, Inspect, inspectionVars
<1>. QED
  BY <1>1, <1>2, PTL DEF SpecInspection

\* A finding keeps blocking when the answer carries more marks: whether a mark
\* blocks depends on that mark and the configuration alone.
LEMMA BlockingIsPerMark ==
    ASSUME NEW c, NEW S, NEW T, S \subseteq T
    PROVE  /\ ErrorMatch(c, S) \subseteq ErrorMatch(c, T)
           /\ RedactMatch(c, S) \subseteq RedactMatch(c, T)
BY DEF ErrorMatch, RedactMatch, BlockFindings, Findings, AsSent

LEMMA MoreIsNeverMilder ==
    ASSUME NEW c, NEW S, NEW T, S \subseteq T
    PROVE  Strength(Treatment(c, T)) >= Strength(Treatment(c, S))
BY BlockingIsPerMark DEF Treatment, Strength

\* Opting a rule out removes findings and adds none.
LEMMA OptOutRemoves ==
    ASSUME NEW c \in VerdictConfig, NEW S, NEW r \in Deterministic
    PROVE  LET relaxed == [c EXCEPT !.optedOut = @ \cup {r}]
           IN  /\ ErrorMatch(relaxed, S) \subseteq ErrorMatch(c, S)
               /\ RedactMatch(relaxed, S) \subseteq RedactMatch(c, S)
<1>. DEFINE relaxed == [c EXCEPT !.optedOut = @ \cup {r}]
<1>1. /\ relaxed.auditOnly = c.auditOnly
      /\ relaxed.phrases = c.phrases
      /\ relaxed.redactSecrets = c.redactSecrets
      /\ relaxed.secretEchoApplies = c.secretEchoApplies
      /\ relaxed.binaryOk = c.binaryOk
      /\ relaxed.optedOut = c.optedOut \cup {r}
  BY DEF VerdictConfig
<1>2. \A x : CategoryEnabled(relaxed, x) => CategoryEnabled(c, x)
  BY <1>1 DEF CategoryEnabled
<1>3. BlockFindings(relaxed, S) \subseteq BlockFindings(c, S)
  BY <1>1, <1>2 DEF BlockFindings, Findings, Enforced, Promoted
<1>4. ErrorRules(relaxed) = ErrorRules(c) /\ RedactRules(relaxed) = RedactRules(c)
  BY <1>1 DEF ErrorRules, RedactRules
<1>. HIDE DEF relaxed
<1>5. /\ ErrorMatch(relaxed, S) \subseteq ErrorMatch(c, S)
      /\ RedactMatch(relaxed, S) \subseteq RedactMatch(c, S)
  BY <1>3, <1>4 DEF ErrorMatch, RedactMatch
<1>. QED
  BY <1>5 DEF relaxed

\* No answer of a server is treated more mildly for containing something more:
\* error replacement wins over redaction (_apply_result_findings), whatever the
\* flags.
THEOREM AddedFindingsTheorem == SpecInspection => []AddedFindingsNeverWeaken
<1>1. AddedFindingsNeverWeaken
  BY MoreIsNeverMilder DEF AddedFindingsNeverWeaken
<1>. QED
  BY <1>1, PTL

\* Each --no-block flag of GuardConfig only relaxes, in every combination with
\* the others.
THEOREM OptOutsTheorem == SpecInspection => []OptOutsOnlyRelax
<1>1. Consistent => OptOutsOnlyRelax
  <2>. SUFFICES ASSUME Consistent, NEW r \in Deterministic
                PROVE  Strength(Treatment([setting EXCEPT !.optedOut = @ \cup {r}], content))
                         <= Strength(Treatment(setting, content))
    BY DEF OptOutsOnlyRelax
  <2>. DEFINE relaxed == [setting EXCEPT !.optedOut = @ \cup {r}]
  <2>1. /\ ErrorMatch(relaxed, content) \subseteq ErrorMatch(setting, content)
        /\ RedactMatch(relaxed, content) \subseteq RedactMatch(setting, content)
    BY OptOutRemoves DEF Consistent
  <2>. HIDE DEF relaxed
  <2>2. Strength(Treatment(relaxed, content)) <= Strength(Treatment(setting, content))
    BY <2>1 DEF Treatment, Strength
  <2>. QED
    BY <2>2 DEF relaxed
<1>. QED
  BY <1>1, ConsistentInvariant, PTL

\* What control characters join is not inspected: the treatment of a content is
\* that of its text as sent.
LEMMA TreatedAsSent ==
    ASSUME NEW c, NEW S
    PROVE  Treatment(c, AsSent(S)) = Treatment(c, S)
<1>1. Findings(c, AsSent(S)) = Findings(c, S)
  BY DEF Findings, AsSent
<1>. QED
  BY <1>1 DEF Treatment, ErrorMatch, RedactMatch, BlockFindings

\* Of the text as sent, whatever a rule acts upon drives the treatment, save a
\* raw IP literal.
LEMMA SentDrives ==
    ASSUME NEW c, NEW S, NEW m \in S, m \in Mark, m.in # "stripped", m.match # "ip",
           \/ Enforced(c, m) /\ (m.match = "ansi" => ~c.binaryOk)
           \/ Promoted(c, m)
    PROVE  m \in ErrorMatch(c, S) \/ m \in RedactMatch(c, S)
<1>1. m \in AsSent(S)
  BY DEF AsSent
<1>2. ASSUME m.match = "dns" PROVE CategoryEnabled(c, "dns")
  BY <1>2 DEF Enforced, Promoted, Rule
<1>3. m.match = "ansi" => ~c.binaryOk
  BY DEF Promoted
<1>4. m \in BlockFindings(c, S)
  BY <1>1, <1>2, <1>3 DEF BlockFindings, Findings
<1>5. Rule(m) \in {"ansi", "secret-echo", "domain", "inject-phrase", "dns"}
  BY DEF Enforced, Promoted, CategoryEnabled, Deterministic, Rule, Mark, Matches
<1>. QED
  BY <1>4, <1>5 DEF ErrorMatch, RedactMatch, ErrorRules, RedactRules

\* What the enabled tier lets through is of four kinds, in every configuration:
\* IP literals, marks in a block redaction cannot read, entropy secrets under
\* in-place redaction, and what the deletion of control characters joined, which
\* nothing inspects (redacted_result calls strip_ansi, then redact, and no rule
\* again); there vendor secrets are caught if one was found before as well.
THEOREM ResidueTheorem == SpecInspection => []OnlyKnownResidue
<1>1. Consistent => OnlyKnownResidue
  <2>. SUFFICES ASSUME Consistent, NEW m \in answer.marks, ActsOn(m),
                       m.match # "ip",
                       ~(m.block = "uri" /\ answer.form = "redacted"),
                       ~(m.match = "entropy" /\ setting.redactSecrets)
                PROVE  /\ m.in = "stripped" /\ answer.form = "redacted"
                       /\ m.match = "vendor" => "secret-echo" \notin Driving(setting, content)
    BY DEF OnlyKnownResidue
  <2>1. /\ answer.form = Treatment(setting, content)
        /\ m \in Delivered(setting, content)
    BY DEF Consistent, NotYet
  <2>2. m \in content /\ m \in Mark /\ m.block \in {"text", "uri"}
    BY <2>1 DEF Delivered, Redacted, RedactSecrets, StripAnsi, AsSent, Consistent, Mark, Blocks
  <2>3. ASSUME m.in # "stripped"
        PROVE  m \in RedactMatch(setting, content) /\ Treatment(setting, content) = "redacted"
    <3>1. m \in ErrorMatch(setting, content) \/ m \in RedactMatch(setting, content)
      BY <2>2, <2>3, SentDrives DEF ActsOn
    <3>. QED
      BY <2>1, <3>1 DEF Delivered, Treatment
  <2>4. ASSUME Treatment(setting, content) = "raw" PROVE m.in # "stripped"
    BY <2>1, <2>4 DEF Delivered, AsSent
  <2>5. answer.form = "redacted" /\ m \in Redacted(setting, content) /\ m.block = "text"
    <3>1. Treatment(setting, content) = "redacted"
      BY <2>1, <2>3, <2>4 DEF Delivered, Treatment
    <3>. QED
      BY <2>1, <2>2, <3>1 DEF Delivered
  <2>6. m.match = "vendor" => "secret-echo" \notin Driving(setting, content)
    BY <2>5 DEF Redacted, RedactSecrets
  <2>7. m.in = "stripped"
    <3>. SUFFICES ASSUME m.in # "stripped" PROVE FALSE
      OBVIOUS
    <3>1. m \in RedactMatch(setting, content)
      BY <2>3
    <3>2. Rule(m) \in Driving(setting, content)
      BY <3>1 DEF Driving
    <3>3. CASE Rule(m) = "ansi"
      <4>1. m.match = "ansi" /\ m.in = "sent"
        BY <2>2, <3>3 DEF Rule, Mark
      <4>2. m \in StripAnsi(content)
        BY <2>5, <3>2, <3>3 DEF Redacted, RedactSecrets
      <4>. QED
        BY <2>5, <4>1, <4>2 DEF StripAnsi
    <3>4. CASE Rule(m) = "secret-echo" /\ setting.redactSecrets
      <4>1. m.match = "vendor"
        BY <2>2, <3>4 DEF Rule, Mark, Matches
      <4>. QED
        BY <2>6, <3>2, <3>4, <4>1
    <3>. QED
      BY <3>1, <3>3, <3>4 DEF RedactMatch, RedactRules
  <2>. QED
    BY <2>5, <2>6, <2>7
<1>. QED
  BY <1>1, ConsistentInvariant, PTL

-----------------------------------------------------------------------------
(* The session (GuardSession).                                                *)

\* The task group is left for a reason run_guard_async knows: a strict abort,
\* another exception, the server's exit, or a client that is gone.
LeftForAReason ==
    phase = "leaving" =>
        abort.raised \/ fault \/ child # "up" \/ chan.eof \/ chan.pipeBroken

Accounted ==
    /\ chan \in [eof : BOOLEAN, pipeBroken : BOOLEAN]
    /\ LeftForAReason
    /\ NoOrphan

LEMMA PumpingAccounts == Accounted /\ Pumping => Accounted'
<1>. SUFFICES ASSUME Accounted, Pumping PROVE Accounted'
  OBVIOUS
<1>. USE DEF Accounted, LeftForAReason, NoOrphan
<1>1. CASE \E r \in Requests : ReadRequest(r)
  BY <1>1 DEF ReadRequest, Raise, endVars
<1>2. CASE DrainBreaks \/ ClientEof \/ ServerEof
  BY <1>2 DEF DrainBreaks, ClientEof, ServerEof, endVars
<1>3. CASE Dispatch
  BY <1>3 DEF Dispatch, SendUnchanged
<1>4. CASE WriteBreaks
  <2>1. CASE chan' = [chan EXCEPT !.pipeBroken = TRUE] /\ UNCHANGED phase
    <3>1. chan' \in [eof : BOOLEAN, pipeBroken : BOOLEAN] /\ chan'.pipeBroken
      BY <2>1
    <3>. QED
      BY <1>4, <2>1, <3>1 DEF WriteBreaks, SendUnchanged
  <2>2. CASE UNCHANGED chan
    BY <1>4, <2>2 DEF WriteBreaks, SendUnchanged
  <2>. QED
    BY <1>4, <2>1, <2>2 DEF WriteBreaks
<1>5. CASE ServerFrame
  <2>1. ASSUME NEW i, NEW marks, ReadListChanged(i, marks) \/ ReadUnread(i, marks)
        PROVE  Accounted'
    BY <2>1 DEF ReadListChanged, ReadUnread, TakeFrame, Forward, endVars
  <2>2. ASSUME NEW i, NEW marks,
               ReadError(i) \/ ReadPartial(i, marks) \/ ReadBare(i, marks)
        PROVE  Accounted'
    BY <2>2 DEF ReadError, ReadPartial, ReadBare, TakeFrame, Forward, endVars
  <2>3. ASSUME NEW i, NEW marks, ReadOverCap(i, marks)
        PROVE  Accounted'
    BY <2>3 DEF ReadOverCap, TakeFrame, Forward, AbortAt, Raise, endVars
  <2>4. ASSUME NEW i \in reached, NEW marks \in Contents, NEW surface \in Surfaces,
               NEW raises \in BOOLEAN, ReadResult(i, marks, surface, raises)
        PROVE  Accounted'
    <3>1. CASE GateList(i, surface, raises)
      BY <2>4, <3>1 DEF ReadResult, GateList, TakeFrame, Forward, AbortAt, Raise, endVars
    <3>2. CASE InspectCall(i, marks, raises)
      BY <2>4, <3>2 DEF ReadResult, InspectCall, TakeFrame, Forward, AbortAt, Raise, endVars
    <3>3. CASE Forward(Frame(i, "raw", marks, surface))
      BY <2>4, <3>3 DEF ReadResult, TakeFrame, Forward, endVars
    <3>. QED
      BY <2>4, <3>1, <3>2, <3>3 DEF ReadResult
  <2>. QED
    BY <1>5, <2>1, <2>2, <2>3, <2>4 DEF ServerFrame
<1>. QED
  BY <1>1, <1>2, <1>3, <1>4, <1>5 DEF Pumping

LEMMA LeavingAccounts == Accounted /\ Leaving => Accounted'
<1>. SUFFICES ASSUME Accounted, Leaving PROVE Accounted'
  OBVIOUS
<1>. USE DEF Accounted, LeftForAReason, NoOrphan
<1>1. CASE Cancel
  BY <1>1 DEF Cancel, LeaveUnchanged
<1>2. CASE PumpCancelled
  BY <1>2 DEF PumpCancelled, LeaveUnchanged, endVars
<1>3. CASE HandleAbort
  BY <1>3 DEF HandleAbort, LeaveUnchanged
<1>4. CASE Reraise \/ TearDown \/ Reaped
  BY <1>4 DEF Reraise, TearDown, Reaped, LeaveUnchanged
<1>5. CASE AnswerPending
  BY <1>5 DEF AnswerPending, GroupLeft, ClientGone, LeaveUnchanged
<1>6. CASE GraceExpires
  BY <1>6 DEF GraceExpires
<1>. QED
  BY <1>1, <1>2, <1>3, <1>4, <1>5, <1>6 DEF Leaving

\* A guard that returns in order has reaped its server, whichever of the paths
\* of run_guard_async it took: every way out of the task group without a strict
\* abort or a fault is one of the two the teardown decision tells apart.
THEOREM NoOrphanTheorem == Spec => []NoOrphan
<1>1. Init => Accounted
  BY DEF Init, Accounted, LeftForAReason, NoOrphan
<1>2. Accounted /\ [Next]_vars => Accounted'
  <2>. SUFFICES ASSUME Accounted, [Next]_vars PROVE Accounted'
    OBVIOUS
  <2>1. CASE Drained \/ Written
    BY <2>1 DEF Drained, Written, SendUnchanged, endVars, Accounted, LeftForAReason, NoOrphan
  <2>2. CASE ChildExits \/ ClientStops
    BY <2>2 DEF ChildExits, ClientStops, Over, endVars, Accounted, LeftForAReason, NoOrphan
  <2>3. CASE UNCHANGED vars
    BY <2>3 DEF vars, Accounted, LeftForAReason, NoOrphan
  <2>. QED
    BY <2>1, <2>2, <2>3, PumpingAccounts, LeavingAccounts DEF Next, Ended
<1>3. Accounted => NoOrphan
  BY DEF Accounted
<1>. QED
  BY <1>1, <1>2, <1>3, PTL DEF Spec

-----------------------------------------------------------------------------
(* What is sent to the client.  Every request has one place at a time: in    *)
(* the map of requests in flight, in the frame the pump holds, on the wire,  *)
(* or lost to a cancellation, which happens once.                            *)

Carrying(pump) == pump.at \in {"send", "write"}
Results == {"raw", "unchecked", "bare", "redacted", "blocked"}
Running == {"running", "leaving"}
Anyone == DOMAIN asked
Names == Anyone \cup {0}

Methods == {"tools/call", "tools/list", "other"}
InFlight == [id : Ids, method : Methods]
Has(q, i) == \E n \in DOMAIN q : q[n].id = i
Ascending(q) == \A m, n \in DOMAIN q : m < n => q[m].id < q[n].id

KnownIds ==
  /\ \A n \in DOMAIN inflight :
        /\ inflight[n].id \in Anyone
        /\ inflight[n].method = asked[inflight[n].id].method
        /\ ~asked[inflight[n].id].overCap
  /\ Ascending(inflight)
  /\ reached \subseteq Anyone
  /\ \A n \in DOMAIN wire : wire[n].id \in Names
  /\ c2s.frame.id \in Names /\ s2c.frame.id \in Names /\ abort.id \in Names

PumpsOk ==
  /\ phase \notin Running => c2s.at = "ended" /\ s2c.at = "ended"
  /\ Carrying(c2s) => c2s.frame.form = "denied" /\ c2s.frame.marks = {}
  /\ Carrying(s2c) => s2c.frame.form \notin {"transport", "aborted", "denied"}
  /\ phase \in Running => \A n \in DOMAIN wire : wire[n].form \notin {"transport", "aborted"}
  /\ chan.pipeBroken => ~client.reads
  /\ abort.id # 0 => abort.raised

OnWire(i, forms) == \E n \in DOMAIN wire : wire[n].id = i /\ wire[n].form \in forms
Carried(i, forms) == Carrying(s2c) /\ s2c.frame.id = i /\ s2c.frame.form \in forms

\* Who was given a result is no longer in flight, and is not the one a strict
\* abort answers.
ResultOnce ==
  /\ \A i \in Anyone : OnWire(i, Results) \/ Carried(i, Results) =>
                          ~Has(inflight, i) /\ abort.id # i
  /\ abort.id # 0 => abort.id \notin reached \/ s2c.at = "ended"

\* What the guard cannot correlate any more was evicted, or had its result.
Lost(i) == asked[i].overCap \/ Superseded(i) \/ OnWire(i, Results)
Named(f) == f.form \in {"raw", "unchecked", "overCap"} => f.id # 0
ActedUpon(f) ==
  /\ Named(f)
  /\ f.form # "redacted" /\ Treatment(config, f.marks) # "raw" =>
          \/ f.form \in NotAResult
          \/ f.form \in {"raw", "unchecked", "overCap"} /\ Lost(f.id)
          \/ f.form = "unchecked" /\ ~config.strict
          \/ f.form = "overCap" /\ ~config.strictFrameCap
Reckoned ==
  /\ s2c.at # "ended" => \A i \in reached : Has(inflight, i) \/ Lost(i) \/ Carried(i, Results)
  /\ Carrying(s2c) => ActedUpon(s2c.frame)

Excused(i) == asked[i].overCap \/ Superseded(i) \/ i \in dropped \/ OnWire(i, Forms)
Waiting(i) == Has(inflight, i) \/ Carried(i, Forms) \/ abort.id = i
OneDropped == dropped = {} \/ (s2c.at = "ended" /\ \E x \in Ids : dropped = {x})
Accounts ==
  /\ phase \in Running /\ client.reads => \A i \in Anyone : Excused(i) \/ Waiting(i)
  /\ phase \in {"grace", "term", "kill", "over"} /\ client.reads /\ (abort.raised \/ ~chan.eof) =>
       \A i \in Anyone : Excused(i)

\* Since a list_changed was forwarded the gate is armed, or a correlated list
\* answer followed it.
ListAnswer(f) == /\ f.id # 0 /\ asked[f.id].method = "tools/list"
                 /\ f.form \in {"raw", "unchecked", "bare", "blocked"}
Drifts(f) == ListAnswer(f) /\ f.form = "raw" /\ f.surface = "drifted"
ListedSince(k) == \E m \in DOMAIN wire : k < m /\ ListAnswer(wire[m])
AllListed == \A k \in DOMAIN wire : wire[k].form = "changed" => ListedSince(k)
GateOk ==
  GateOn =>
    /\ Carrying(s2c) /\ s2c.frame.form = "changed" => armed
    /\ s2c.at # "ended" /\ ~armed => AllListed \/ (Carrying(s2c) /\ ListAnswer(s2c.frame))
    /\ Carrying(s2c) /\ Drifts(s2c.frame) => Lost(s2c.frame.id) \/ AllListed

NamedOnWire == \A n \in DOMAIN wire : Named(wire[n])
WireOk == NamedOnWire /\ NoResultAnsweredTwice /\ ActedUponUnlessUncorrelated /\ FirstListIsGated
GuardInv == /\ TypeOK /\ KnownIds /\ PumpsOk /\ ResultOnce /\ Reckoned /\ OneDropped /\ Accounts
            /\ GateOk /\ WireOk

-----------------------------------------------------------------------------
(* The map of requests in flight.                                            *)

LEMMA ConfigIs == \A c \in Configs : c.maxInflight \in Nat
<1> TAKE c \in Configs
<1>1. [f \in {"lock", "listOptedOut", "policy", "policyOptedOut", "strict",
              "strictFrameCap", "maxInflight", "stdio"} |-> c[f]] \in GateConfig
  BY SessionConstants DEF IsConfig
<1>2. c["maxInflight"] \in Nat
  BY <1>1 DEF GateConfig
<1> QED BY <1>2

LEMMA TypesSay ==
  ASSUME TypeOK
  PROVE  /\ config.maxInflight \in Nat
         /\ inflight \in Seq(InFlight) /\ Len(inflight) \in Nat /\ Len(inflight) <= config.maxInflight
         /\ asked \in Seq(Request) /\ Len(asked) \in Nat /\ Anyone = 1..Len(asked)
         /\ Anyone \subseteq Ids /\ 0 \notin Ids /\ Names \subseteq Ids \cup {0}
<1>1. config.maxInflight \in Nat
  BY ConfigIs DEF TypeOK
<1>2. asked \in Seq(Request)
  BY SessionConstants DEF TypeOK
<1> QED BY <1>1, <1>2, SessionConstants DEF TypeOK, InFlight, Methods, Anyone, Names, Ids

LEMMA EntryIs ==
  ASSUME NEW i
  PROVE  /\ Entry(i) = {} <=> ~Has(inflight, i)
         /\ Has(inflight, i) => \E n \in DOMAIN inflight :
              inflight[n].id = i /\ MethodFor(i) = inflight[n].method
         /\ ~Has(inflight, i) => MethodFor(i) = "unknown"
BY DEF Entry, Has, MethodFor

\* Taking an entry out keeps the order and the others.
LEMMA RemovedIs ==
  ASSUME NEW q \in Seq(InFlight), Ascending(q), NEW at \in DOMAIN q
  PROVE  LET r == RemoveAt(q, at) IN
         /\ r \in Seq(InFlight) /\ Len(r) <= Len(q) /\ Ascending(r)
         /\ \A n \in DOMAIN r : \E m \in DOMAIN q : r[n] = q[m] /\ m # at
         /\ \A m \in DOMAIN q : m # at => \E n \in DOMAIN r : r[n] = q[m]
<1> DEFINE f == SubSeq(q, 1, at - 1)
           g == SubSeq(q, at + 1, Len(q))
           r == f \o g
<1>1. Len(q) \in Nat /\ at \in 1..Len(q) /\ DOMAIN q = 1..Len(q)
  OBVIOUS
<1>2. f \in Seq(InFlight) /\ Len(f) = at - 1 /\ \A j \in 1..(at - 1) : f[j] = q[j]
  BY <1>1
<1>3. g \in Seq(InFlight) /\ Len(g) = Len(q) - at /\ \A j \in 1..(Len(q) - at) : g[j] = q[at + j]
  BY <1>1
<1> HIDE DEF f, g
<1>4. /\ r \in Seq(InFlight) /\ Len(r) = Len(q) - 1
      /\ \A n \in 1..Len(r) : r[n] = IF n < at THEN q[n] ELSE q[n + 1]
  <2>1. r \in Seq(InFlight) /\ Len(r) = Len(f) + Len(g)
        /\ \A n \in 1..(Len(f) + Len(g)) : r[n] = IF n <= Len(f) THEN f[n] ELSE g[n - Len(f)]
    BY <1>2, <1>3, ConcatProperties
  <2>2. Len(r) = Len(q) - 1
    BY <1>1, <1>2, <1>3, <2>1
  <2>3. ASSUME NEW n \in 1..Len(r) PROVE r[n] = IF n < at THEN q[n] ELSE q[n + 1]
    <3>1. CASE n < at
      BY <1>1, <1>2, <2>1, <3>1
    <3>2. CASE ~(n < at)
      <4>1. n - Len(f) \in 1..(Len(q) - at) /\ at + (n - Len(f)) = n + 1 /\ ~(n <= Len(f))
        BY <1>1, <1>2, <2>2, <3>2
      <4> HIDE DEF r
      <4>2. r[n] = g[n - Len(f)]
        BY <1>2, <1>3, <2>1, <2>2, <4>1
      <4>3. g[n - Len(f)] = q[at + (n - Len(f))]
        BY <1>3, <4>1
      <4> QED BY <3>2, <4>1, <4>2, <4>3
    <3> QED BY <3>1, <3>2
  <2> QED BY <2>1, <2>2, <2>3
<1> HIDE DEF r
<1>5. DOMAIN r = 1..Len(r)
  BY <1>4
<1>6. ASSUME NEW n \in DOMAIN r PROVE \E m \in DOMAIN q : r[n] = q[m] /\ m # at
  <2>1. CASE n < at
    BY <1>1, <1>4, <1>5, <2>1
  <2>2. CASE ~(n < at)
    <3>1. n + 1 \in DOMAIN q /\ n + 1 # at /\ r[n] = q[n + 1]
      BY <1>1, <1>4, <1>5, <2>2
    <3> QED BY <3>1
  <2> QED BY <2>1, <2>2
<1>7. ASSUME NEW m \in DOMAIN q, m # at PROVE \E n \in DOMAIN r : r[n] = q[m]
  <2>1. CASE m < at
    BY <1>1, <1>4, <1>5, <2>1
  <2>2. CASE ~(m < at)
    <3>1. m - 1 \in DOMAIN r /\ ~(m - 1 < at) /\ m - 1 + 1 = m
      BY <1>1, <1>4, <1>5, <1>7, <2>2
    <3>2. r[m - 1] = q[m - 1 + 1]
      BY <1>4, <1>5, <3>1
    <3> QED BY <3>1, <3>2
  <2> QED BY <2>1, <2>2
<1>8. Ascending(r)
  <2>1. ASSUME NEW m \in DOMAIN r, NEW n \in DOMAIN r, m < n PROVE r[m].id < r[n].id
    <3> DEFINE mm == IF m < at THEN m ELSE m + 1
               nn == IF n < at THEN n ELSE n + 1
    <3>1. mm \in DOMAIN q /\ nn \in DOMAIN q /\ mm < nn /\ r[m] = q[mm] /\ r[n] = q[nn]
      BY <1>1, <1>4, <1>5, <2>1
    <3> QED BY <3>1 DEF Ascending
  <2> QED BY <2>1 DEF Ascending
<1>9. RemoveAt(q, at) = r
  BY DEF RemoveAt, r, f, g
<1>10. Len(r) <= Len(q)
  BY <1>1, <1>4
<1> QED BY <1>4, <1>6, <1>7, <1>8, <1>9, <1>10

LEMMA PoppedIs ==
  ASSUME TypeOK, Ascending(inflight), NEW i
  PROVE  /\ Popped(i) \in Seq(InFlight) /\ Len(Popped(i)) <= Len(inflight) /\ Ascending(Popped(i))
         /\ \A n \in DOMAIN Popped(i) : \E m \in DOMAIN inflight : Popped(i)[n] = inflight[m]
         /\ \A j : Has(Popped(i), j) <=> Has(inflight, j) /\ j # i
<1>1. inflight \in Seq(InFlight) /\ Len(inflight) \in Nat /\ DOMAIN inflight = 1..Len(inflight)
  BY TypesSay
<1>2. CASE Entry(i) = {}
  <2>1. Popped(i) = inflight /\ ~Has(inflight, i)
    BY <1>2, EntryIs DEF Popped
  <2> QED BY <1>1, <2>1
<1>3. CASE Entry(i) # {}
  <2> DEFINE at == CHOOSE n \in Entry(i) : TRUE
  <2>1. at \in Entry(i) /\ Popped(i) = RemoveAt(inflight, at)
    BY <1>3 DEF Popped
  <2>2. at \in DOMAIN inflight /\ inflight[at].id = i
    BY <2>1 DEF Entry
  <2> HIDE DEF at
  <2>3. /\ Popped(i) \in Seq(InFlight) /\ Len(Popped(i)) <= Len(inflight) /\ Ascending(Popped(i))
        /\ \A n \in DOMAIN Popped(i) : \E m \in DOMAIN inflight : Popped(i)[n] = inflight[m] /\ m # at
        /\ \A m \in DOMAIN inflight : m # at => \E n \in DOMAIN Popped(i) : Popped(i)[n] = inflight[m]
    <3>1. inflight \in Seq(InFlight) /\ Ascending(inflight) /\ at \in DOMAIN inflight
      BY <1>1, <2>2
    <3>2. /\ RemoveAt(inflight, at) \in Seq(InFlight) /\ Len(RemoveAt(inflight, at)) <= Len(inflight)
          /\ Ascending(RemoveAt(inflight, at))
          /\ \A n \in DOMAIN RemoveAt(inflight, at) :
               \E m \in DOMAIN inflight : RemoveAt(inflight, at)[n] = inflight[m] /\ m # at
          /\ \A m \in DOMAIN inflight : m # at =>
               \E n \in DOMAIN RemoveAt(inflight, at) : RemoveAt(inflight, at)[n] = inflight[m]
      BY <3>1, RemovedIs
    <3> QED BY <2>1, <3>2
  <2>4. ASSUME NEW m \in DOMAIN inflight, m # at PROVE inflight[m].id # i
    <3>1. m < at \/ at < m
      BY <1>1, <2>2, <2>4
    <3>2. inflight[m].id \in Nat /\ inflight[at].id \in Nat
      <4>1. inflight[m] \in InFlight /\ inflight[at] \in InFlight
        BY <1>1, <2>2
      <4> QED BY <4>1, SessionConstants DEF InFlight, Ids
    <3> QED BY <2>2, <3>1, <3>2 DEF Ascending
  <2>5. ASSUME NEW j PROVE Has(Popped(i), j) <=> Has(inflight, j) /\ j # i
    <3>1. ASSUME Has(Popped(i), j) PROVE Has(inflight, j) /\ j # i
      BY <2>3, <2>4, <3>1 DEF Has
    <3>2. ASSUME Has(inflight, j), j # i PROVE Has(Popped(i), j)
      BY <2>2, <2>3, <3>2 DEF Has
    <3> QED BY <3>1, <3>2
  <2> QED BY <2>3, <2>5
<1> QED BY <1>2, <1>3

-----------------------------------------------------------------------------
(* One more request.                                                         *)

NewRequest(r) == asked' = Append(asked, r) /\ UNCHANGED config

LEMMA AskedGrows ==
  ASSUME TypeOK, NEW r \in Requests, NewRequest(r)
  PROVE  /\ Anyone' = Anyone \cup {Len(asked) + 1} /\ Len(asked) + 1 \notin Anyone
         /\ asked' \in Seq(Requests) /\ Len(asked') = Len(asked) + 1
         /\ \A i \in Anyone : asked'[i] = asked[i] /\ i < Len(asked) + 1
         /\ asked'[Len(asked) + 1] = r
<1>1. asked \in Seq(Requests) /\ Len(asked) \in Nat /\ Anyone = 1..Len(asked)
  BY TypesSay DEF TypeOK
<1> QED BY <1>1 DEF NewRequest, Anyone

\* The requests after one that were recorded.
Later(s, i) == {j \in DOMAIN s : j > i /\ ~s[j].overCap}

LEMMA LaterFinite ==
  ASSUME NEW s \in Seq(Request), NEW i
  PROVE  IsFiniteSet(Later(s, i)) /\ Cardinality(Later(s, i)) \in Nat
<1>1. IsFiniteSet(DOMAIN s)
  <2>1. DOMAIN s = 1..Len(s) /\ 1 \in Int /\ Len(s) \in Int
    OBVIOUS
  <2> QED BY <2>1, FS_Interval
<1>2. Later(s, i) \in SUBSET DOMAIN s
  BY DEF Later
<1>3. IsFiniteSet(Later(s, i))
  BY <1>1, <1>2, FS_Subset
<1> QED BY <1>3, FS_CardinalityType

LEMMA SupersededIs ==
  ASSUME NEW i
  PROVE  Superseded(i) <=> Cardinality(Later(asked, i)) >= config.maxInflight
BY DEF Superseded, Later, AskedIds

LEMMA SupersededNext ==
  ASSUME NEW i
  PROVE  Superseded(i)' <=> Cardinality(Later(asked', i)) >= config'.maxInflight
BY DEF Superseded, Later, AskedIds

LEMMA SupersededStays ==
  ASSUME TypeOK, NEW r \in Requests, NewRequest(r), NEW i \in Anyone, Superseded(i)
  PROVE  Superseded(i)'
<1>1. asked \in Seq(Request) /\ asked' \in Seq(Request) /\ config' = config /\ config.maxInflight \in Nat
  BY TypesSay, AskedGrows, SessionConstants DEF NewRequest
<1>2. Later(asked, i) \in SUBSET Later(asked', i)
  BY AskedGrows DEF Later, Anyone
<1>3. IsFiniteSet(Later(asked', i)) /\ Cardinality(Later(asked', i)) \in Nat /\ Cardinality(Later(asked, i)) \in Nat
  BY <1>1, LaterFinite
<1>4. Cardinality(Later(asked, i)) <= Cardinality(Later(asked', i))
  BY <1>2, <1>3, FS_Subset
<1> QED BY <1>1, <1>3, <1>4, SupersededIs, SupersededNext

LEMMA LostStays ==
  ASSUME TypeOK, TypeOK', NEW r \in Requests, NewRequest(r), NEW i \in Anyone, UNCHANGED <<wire, dropped>>
  PROVE  /\ Lost(i) => Lost(i)'
         /\ Excused(i) => Excused(i)'
<1>1. asked'[i] = asked[i]
  BY AskedGrows
<1>2. Superseded(i) => Superseded(i)'
  BY SupersededStays
<1> QED BY <1>1, <1>2 DEF Lost, Excused, OnWire

\* As many entries after one make it superseded.
LEMMA Outnumbered ==
  ASSUME NEW s \in Seq(Request), NEW m \in Nat, NEW e, NEW g \in Injection(1..m, Later(s, e))
  PROVE  Cardinality(Later(s, e)) >= m
<1>1. IsFiniteSet(Later(s, e)) /\ Cardinality(Later(s, e)) \in Nat
  BY LaterFinite
<1>2. Cardinality(1..m) = m
  <2>1. Cardinality(1..m) = IF 1 > m THEN 0 ELSE m - 1 + 1
    BY FS_Interval
  <2> QED BY <2>1
<1>3. Cardinality(1..m) <= Cardinality(Later(s, e))
  BY <1>1, FS_Injection
<1> QED BY <1>1, <1>2, <1>3

\* The map after one more entry: only the oldest is evicted, and it is superseded.
LEMMA RememberIs ==
  ASSUME TypeOK, KnownIds, NEW r \in Requests, NewRequest(r), ~r.overCap, Len(asked) < MaxRequests,
         inflight' = Remember(Len(asked) + 1, r.method), TypeOK'
  PROVE  LET i == Len(asked) + 1 IN
         /\ Ascending(inflight')
         /\ \A n \in DOMAIN inflight' :
              /\ inflight'[n].id \in Anyone' /\ inflight'[n].method = asked'[inflight'[n].id].method
              /\ ~asked'[inflight'[n].id].overCap
         /\ \A j : Has(inflight', j) => Has(inflight, j) \/ j = i
         /\ \A j : Has(inflight, j) \/ j = i => Has(inflight', j) \/ Superseded(j)'
<1> DEFINE i == Len(asked) + 1
           new == [id |-> i, method |-> r.method]
           all == Append(inflight, new)
           m == config.maxInflight
<1>1. /\ inflight \in Seq(InFlight) /\ Len(inflight) \in Nat /\ Len(inflight) <= m /\ m \in Nat
      /\ Len(asked) \in Nat /\ Anyone = 1..Len(asked) /\ r \in Request
      /\ config' = config
  BY TypesSay, SessionConstants DEF NewRequest
<1>2. new \in InFlight
  BY <1>1, SessionConstants DEF InFlight, Ids, Methods, Request
<1>3. /\ all \in Seq(InFlight) /\ Len(all) = Len(inflight) + 1
      /\ DOMAIN all = 1..Len(all) /\ DOMAIN inflight = 1..Len(inflight)
      /\ all[Len(inflight) + 1] = new /\ \A n \in 1..Len(inflight) : all[n] = inflight[n]
  BY <1>1, <1>2
<1>4. inflight' = IF Len(all) > m THEN Tail(all) ELSE all
  BY DEF Remember
<1>5. new.id = i /\ new.method = r.method
  OBVIOUS
<1> HIDE DEF all, new
<1>6. ASSUME NEW n \in DOMAIN all
      PROVE  /\ all[n].id \in Anyone' /\ all[n].method = asked'[all[n].id].method
             /\ ~asked'[all[n].id].overCap
  <2>1. CASE n = Len(inflight) + 1
    BY <1>3, <1>5, <2>1, AskedGrows
  <2>2. CASE n \in 1..Len(inflight)
    <3>1. all[n] = inflight[n] /\ inflight[n].id \in Anyone
      BY <1>3, <2>2 DEF KnownIds
    <3>2. asked'[inflight[n].id] = asked[inflight[n].id] /\ inflight[n].id \in Anyone'
      BY <3>1, AskedGrows
    <3> QED BY <1>3, <2>2, <3>1, <3>2 DEF KnownIds
  <2> QED BY <1>1, <1>3, <2>1, <2>2
<1>7. Ascending(all)
  <2>1. ASSUME NEW a \in DOMAIN all, NEW b \in DOMAIN all, a < b PROVE all[a].id < all[b].id
    <3>1. a \in 1..Len(inflight) /\ all[a] = inflight[a]
      BY <1>1, <1>3, <2>1
    <3>2. inflight[a].id \in Anyone
      BY <1>3, <3>1 DEF KnownIds
    <3>3. CASE b = Len(inflight) + 1
      BY <1>1, <1>3, <1>5, <3>1, <3>2, <3>3
    <3>4. CASE b \in 1..Len(inflight)
      BY <1>3, <2>1, <3>1, <3>4 DEF KnownIds, Ascending
    <3> QED BY <1>1, <1>3, <3>3, <3>4
  <2> QED BY <2>1 DEF Ascending
<1>8. \A j : Has(all, j) <=> Has(inflight, j) \/ j = i
  <2> TAKE j
  <2>1. ASSUME Has(all, j) PROVE Has(inflight, j) \/ j = i
    BY <1>1, <1>3, <1>5, <2>1 DEF Has
  <2>2. ASSUME Has(inflight, j) PROVE Has(all, j)
    <3>1. PICK n \in DOMAIN inflight : inflight[n].id = j
      BY <2>2 DEF Has
    <3>2. n \in DOMAIN all /\ all[n].id = j
      BY <1>1, <1>3, <3>1
    <3> QED BY <3>2 DEF Has
  <2>3. ASSUME j = i PROVE Has(all, j)
    <3>1. Len(inflight) + 1 \in DOMAIN all
      BY <1>1, <1>3
    <3> QED BY <1>3, <1>5, <2>3, <3>1 DEF Has
  <2> QED BY <2>1, <2>2, <2>3
<1>9. CASE ~(Len(all) > m)
  <2>1. inflight' = all
    BY <1>4, <1>9
  <2> QED BY <1>6, <1>7, <1>8, <2>1
<1>10. CASE Len(all) > m
  <2> DEFINE q == Tail(all)
  <2>1. Len(all) = m + 1 /\ all # <<>>
    BY <1>1, <1>3, <1>10
  <2>2. q \in Seq(InFlight) /\ Len(q) = m /\ \A n \in 1..m : q[n] = all[n + 1]
    BY <1>1, <1>3, <2>1, HeadTailProperties
  <2>3. inflight' = q
    BY <1>4, <1>10
  <2> HIDE DEF q
  <2>4. DOMAIN q = 1..m /\ \A n \in 1..m : n + 1 \in DOMAIN all
    BY <1>1, <1>3, <2>1, <2>2
  <2>5. Ascending(q)
    <3>1. ASSUME NEW a \in 1..m, NEW b \in 1..m, a < b PROVE q[a].id < q[b].id
      <4>1. a + 1 \in DOMAIN all /\ b + 1 \in DOMAIN all /\ a + 1 < b + 1
        BY <1>1, <2>4, <3>1
      <4>2. all[a + 1].id < all[b + 1].id
        BY <1>7, <4>1 DEF Ascending
      <4> QED BY <2>2, <4>2
    <3> QED BY <2>4, <3>1 DEF Ascending
  <2>6. \A j : Has(q, j) => Has(all, j)
    BY <2>2, <2>4 DEF Has
  <2>7. ASSUME NEW j, Has(all, j) PROVE Has(q, j) \/ Superseded(j)'
    <3>1. PICK n \in DOMAIN all : all[n].id = j
      BY <2>7 DEF Has
    <3>2. CASE n # 1
      <4>1. n - 1 \in 1..m /\ n - 1 + 1 = n
        BY <1>1, <1>3, <2>1, <3>2
      <4>2. q[n - 1] = all[n - 1 + 1]
        BY <2>2, <4>1
      <4> QED BY <2>4, <3>1, <4>1, <4>2 DEF Has
    <3>3. CASE n = 1
      <4> DEFINE g == [k \in 1..m |-> q[k].id]
      <4>1. ASSUME NEW k \in 1..m PROVE q[k].id \in Later(asked', j)
        <5>1. k + 1 \in DOMAIN all /\ n \in DOMAIN all /\ n < k + 1 /\ q[k] = all[k + 1]
          BY <1>1, <2>2, <2>4, <3>1, <3>3
        <5>2. j < q[k].id
          BY <1>7, <3>1, <5>1 DEF Ascending
        <5>3. j \in Anyone' /\ q[k].id \in Anyone'
          BY <1>6, <3>1, <5>1
        <5>4. j \in Int /\ q[k].id \in Int
          BY <1>1, <5>3, AskedGrows
        <5>5. ~asked'[q[k].id].overCap
          BY <1>6, <5>1
        <5> QED BY <5>2, <5>3, <5>4, <5>5 DEF Later, Anyone
      <4>2. ASSUME NEW a \in 1..m, NEW b \in 1..m, a # b PROVE q[a].id # q[b].id
        <5>1. a < b \/ b < a
          BY <4>2
        <5>2. q[a] \in InFlight /\ q[b] \in InFlight
          BY <2>2, <2>4
        <5>3. q[a].id \in Nat /\ q[b].id \in Nat
          BY <5>2, SessionConstants DEF InFlight, Ids
        <5> QED BY <2>4, <2>5, <5>1, <5>3 DEF Ascending
      <4>3. g \in Injection(1..m, Later(asked', j))
        BY <4>1, <4>2 DEF Injection, IsInjective
      <4>4. asked' \in Seq(Request)
        BY AskedGrows, SessionConstants
      <4>5. Cardinality(Later(asked', j)) >= m
        <5> HIDE DEF g, m
        <5> QED BY <1>1, <4>3, <4>4, Outnumbered
      <4>6. Superseded(j)'
        BY <1>1, <4>5, SupersededNext
      <4> QED BY <4>6
    <3> QED BY <3>2, <3>3
  <2>8. \A n \in DOMAIN q : \E k \in DOMAIN all : q[n] = all[k]
    BY <2>2, <2>4
  <2> QED BY <1>6, <1>8, <2>3, <2>5, <2>6, <2>7, <2>8
<1> QED BY <1>9, <1>10

-----------------------------------------------------------------------------
(* Frames and types.                                                         *)

LEMMA TreatmentIs ==
  ASSUME NEW c, NEW marks \in SUBSET Mark
  PROVE  /\ Treatment(c, marks) \in {"raw", "redacted", "blocked"} /\ Treatment(c, {}) = "raw"
         /\ Treatment(c, marks) # "redacted" => Treatment(c, Delivered(c, marks)) = "raw"
         /\ Delivered(c, marks) \in SUBSET Mark
<1>1. Treatment(c, marks) \in {"raw", "redacted", "blocked"}
  BY DEF Treatment
<1>2. Treatment(c, {}) = "raw"
  BY DEF Treatment, ErrorMatch, RedactMatch, BlockFindings, Findings, AsSent
<1>3. Delivered(c, marks) \in SUBSET Mark
  BY DEF Delivered, Redacted, RedactSecrets, StripAnsi, AsSent
<1>4. CASE Treatment(c, marks) = "raw"
  BY <1>1, <1>2, <1>3, <1>4, TreatedAsSent DEF Delivered
<1>5. CASE Treatment(c, marks) = "blocked"
  BY <1>1, <1>2, <1>3, <1>5 DEF Delivered
<1>6. CASE Treatment(c, marks) = "redacted"
  BY <1>1, <1>2, <1>3, <1>6
<1> QED BY <1>1, <1>4, <1>5, <1>6

LEMMA FrameIs ==
  ASSUME NEW i \in Ids \cup {0}, NEW form \in Forms, NEW marks \in SUBSET Mark, NEW surface \in Surfaces
  PROVE  /\ Frame(i, form, marks, surface) \in WireFrame
         /\ Frame(i, form, marks, surface).id = i
         /\ Frame(i, form, marks, surface).form = form
         /\ Frame(i, form, marks, surface).marks = marks
         /\ Frame(i, form, marks, surface).surface = surface
BY DEF Frame, WireFrame

LEMMA BlankIs ==
  ASSUME NEW i \in Ids \cup {0}, NEW form \in Forms
  PROVE  /\ Blank(i, form) \in WireFrame /\ Blank(i, form).id = i /\ Blank(i, form).form = form
         /\ Blank(i, form).marks = {} /\ Blank(i, form).surface = "pinned"
<1>1. "pinned" \in Surfaces /\ {} \in SUBSET Mark
  BY DEF Surfaces
<1> QED BY <1>1, FrameIs DEF Blank

LEMMA AtIs ==
  ASSUME NEW place \in Places
  PROVE  At(place) \in Pump /\ At(place).at = place /\ At(place).frame.id = 0
<1>1. 0 \in Ids \cup {0} /\ "raw" \in Forms
  BY DEF Forms
<1>2. NoFrame \in WireFrame /\ NoFrame.id = 0
  BY <1>1, BlankIs DEF NoFrame
<1> QED BY <1>2 DEF At, Pump

LEMMA SendingIs ==
  ASSUME NEW f \in WireFrame
  PROVE  Sending(f) \in Pump /\ Sending(f).at = "send" /\ Sending(f).frame = f
BY DEF Sending, Pump, Places

LEMMA PlacesAre == {"read", "send", "write", "again", "drain", "ended"} = Places
BY DEF Places

\* A frame the server pump takes.
LEMMA TakenTyped ==
  ASSUME TypeOK, NEW f \in WireFrame, s2c' = Sending(f), frames' \in 0..MaxFrames, armed' \in BOOLEAN,
         \/ UNCHANGED inflight
         \/ \E i : Ascending(inflight) /\ inflight' = Popped(i),
         UNCHANGED <<config, c2s, chan, endVars, child, client, asked, reached, wire, dropped>>
  PROVE  TypeOK'
<1>1. s2c' \in Pump
  BY SendingIs
<1>2. inflight' \in Seq(InFlight) /\ Len(inflight') <= config.maxInflight
  <2>1. CASE UNCHANGED inflight
    BY <2>1, TypesSay
  <2>2. ASSUME NEW i, Ascending(inflight), inflight' = Popped(i)
        PROVE  inflight' \in Seq(InFlight) /\ Len(inflight') <= config.maxInflight
    BY <2>2, PoppedIs, TypesSay
  <2> QED BY <2>1, <2>2
<1> QED BY <1>1, <1>2 DEF TypeOK, endVars, InFlight, Methods

LEMMA AbortTyped ==
  ASSUME TypeOK, NEW i \in Ids \cup {0}, AbortAt(i), frames' \in 0..MaxFrames, armed' \in BOOLEAN,
         UNCHANGED inflight \/ (Ascending(inflight) /\ inflight' = Popped(i)),
         UNCHANGED <<config, c2s, chan, child, client, asked, reached, wire>>
  PROVE  TypeOK'
<1>1. s2c' \in Pump
  BY AtIs DEF AbortAt, Places
<1>2. inflight' \in Seq(InFlight) /\ Len(inflight') <= config.maxInflight
  <2>1. CASE UNCHANGED inflight
    BY <2>1, TypesSay
  <2>2. CASE Ascending(inflight) /\ inflight' = Popped(i)
    BY <2>2, PoppedIs, TypesSay
  <2> QED BY <2>1, <2>2
<1>3. dropped' \subseteq Ids
  BY DEF AbortAt, TypeOK
<1>4. abort' \in [raised : BOOLEAN, id : Ids \cup {0}] /\ phase' = "leaving" /\ UNCHANGED fault
  BY DEF AbortAt, Raise, TypeOK
<1> QED BY <1>1, <1>2, <1>3, <1>4 DEF TypeOK, InFlight, Methods

LEMMA ReadRequestTyped ==
  ASSUME TypeOK, NEW r \in Requests, ReadRequest(r)
  PROVE  TypeOK'
<1> DEFINE i == Len(asked) + 1
<1>1. /\ Len(asked) < MaxRequests /\ asked' = Append(asked, r)
      /\ inflight' = (IF r.overCap THEN inflight ELSE Remember(i, r.method))
      /\ UNCHANGED <<config, armed, s2c, chan, child, client, frames, wire, dropped>>
  BY DEF ReadRequest
<1>2. /\ asked \in Seq(Requests) /\ Len(asked) \in Nat /\ i \in Ids /\ r \in Request
      /\ inflight \in Seq(InFlight) /\ config.maxInflight \in Nat
      /\ Len(inflight) \in Nat /\ Len(inflight) <= config.maxInflight
  BY <1>1, TypesSay, SessionConstants DEF TypeOK, Ids
<1>3. asked' \in Seq(Requests) /\ Len(asked') <= MaxRequests
  BY <1>1, <1>2, SessionConstants
<1>4. inflight' \in Seq(InFlight) /\ Len(inflight') <= config.maxInflight
  <2> DEFINE new == [id |-> i, method |-> r.method]
             all == Append(inflight, new)
  <2>1. new \in InFlight
    BY <1>2 DEF InFlight, Methods, Request
  <2> HIDE DEF new
  <2>2. all \in Seq(InFlight) /\ Len(all) = Len(inflight) + 1 /\ all # <<>>
    BY <1>2, <2>1
  <2>3. Remember(i, r.method) = IF Len(all) > config.maxInflight THEN Tail(all) ELSE all
    BY DEF Remember, new
  <2> HIDE DEF all
  <2>4. Tail(all) \in Seq(InFlight) /\ Len(Tail(all)) = Len(all) - 1
    BY <2>2, HeadTailProperties
  <2>5. Remember(i, r.method) \in Seq(InFlight) /\ Len(Remember(i, r.method)) <= config.maxInflight
    <3>1. CASE Len(all) > config.maxInflight
      <4>1. Remember(i, r.method) = Tail(all) /\ Len(Tail(all)) = Len(inflight)
        BY <1>2, <2>2, <2>3, <2>4, <3>1
      <4> QED BY <1>2, <2>4, <4>1
    <3>2. CASE ~(Len(all) > config.maxInflight)
      <4>1. Remember(i, r.method) = all /\ Len(all) <= config.maxInflight
        BY <1>2, <2>2, <2>3, <3>2
      <4> QED BY <2>2, <4>1
    <3> QED BY <3>1, <3>2
  <2> QED BY <1>1, <1>2, <2>5
<1>5. c2s' \in Pump /\ reached' \subseteq Ids
  <2> HIDE DEF i
  <2>1. At("drain") \in Pump /\ At("ended") \in Pump
    BY AtIs DEF Places
  <2>2. Sending(Blank(i, "denied")) \in Pump
    BY <1>2, BlankIs, SendingIs DEF Forms
  <2>3. reached \subseteq Ids
    BY DEF TypeOK
  <2> QED BY <1>2, <2>1, <2>2, <2>3 DEF ReadRequest, i
<1>6. /\ phase' \in {"running", "leaving", "grace", "term", "kill", "over", "crashed"}
      /\ abort' \in [raised : BOOLEAN, id : Ids \cup {0}] /\ fault' \in BOOLEAN
  <2>1. UNCHANGED endVars \/ Raise(i)
    BY DEF ReadRequest
  <2>2. CASE UNCHANGED endVars
    BY <2>2 DEF endVars, TypeOK
  <2>3. CASE Raise(i)
    <3>1. [raised |-> TRUE, id |-> i] \in [raised : BOOLEAN, id : Ids \cup {0}]
      BY <1>2
    <3> QED BY <2>3, <3>1 DEF Raise, TypeOK
  <2> QED BY <2>1, <2>2, <2>3
<1> QED BY <1>1, <1>3, <1>4, <1>5, <1>6 DEF TypeOK, InFlight, Methods

-----------------------------------------------------------------------------
(* Steps that neither take a frame nor write one.                            *)

Settled == phase \in {"grace", "term", "kill", "over"} /\ client.reads /\ (abort.raised \/ ~chan.eof)

LEMMA AccountsStay ==
  ASSUME GuardInv, UNCHANGED <<config, inflight, asked, wire, abort>>, dropped \subseteq dropped',
         client'.reads => client.reads, phase' \in Running => phase \in Running,
         client'.reads /\ phase' \in Running =>
           \A i \in Anyone : Carried(i, Forms) => Carried(i, Forms)' \/ i \in dropped',
         Settled' => Settled
  PROVE  Accounts'
<1>1. \A i : Superseded(i)' = Superseded(i)
  BY DEF Superseded, AskedIds
<1>2. \A i : Excused(i) => Excused(i)'
  BY <1>1 DEF Excused, OnWire
<1>3. Anyone' = Anyone
  BY DEF Anyone
<1>4. \A i : Has(inflight, i)' <=> Has(inflight, i)
  OBVIOUS
<1>5. ASSUME phase' \in Running, client'.reads, NEW i \in Anyone PROVE Excused(i)' \/ Waiting(i)'
  <2>1. Excused(i) \/ Waiting(i)
    BY <1>5 DEF GuardInv, Accounts
  <2>2. Carried(i, Forms) => Carried(i, Forms)' \/ Excused(i)'
    BY <1>5 DEF Excused
  <2> QED BY <1>2, <1>4, <2>1, <2>2 DEF Waiting
<1>6. ASSUME Settled', NEW i \in Anyone PROVE Excused(i)'
  BY <1>2, <1>6 DEF GuardInv, Accounts, Settled
<1> QED BY <1>3, <1>5, <1>6 DEF Accounts, Settled

LEMMA WireStays ==
  ASSUME WireOk, UNCHANGED <<config, asked, wire>>
  PROVE  WireOk'
<1>1. \A i : Superseded(i)' = Superseded(i)
  BY DEF Superseded, AskedIds
<1>2. \A n : Uncorrelated(n)' = Uncorrelated(n)
  BY <1>1 DEF Uncorrelated
<1> QED BY <1>2 DEF WireOk, NamedOnWire, Named, NoResultAnsweredTwice, ActedUponUnlessUncorrelated, FirstListIsGated,
        GateOn, ListChangedEnabled, IsList

LEMMA Quiet ==
  ASSUME GuardInv, TypeOK', UNCHANGED <<config, inflight, armed, asked, reached, wire, abort>>,
         c2s'.frame.id \in Names, Carrying(c2s') => Carrying(c2s) /\ c2s'.frame = c2s.frame,
         \/ s2c' = At("ended")
         \/ /\ s2c'.frame = s2c.frame /\ Carrying(s2c') = Carrying(s2c)
            /\ (s2c'.at = "ended") = (s2c.at = "ended"),
         phase' \notin Running => c2s'.at = "ended" /\ s2c'.at = "ended",
         phase' \in Running => phase \in Running,
         chan'.pipeBroken => ~client'.reads,
         OneDropped', Accounts'
  PROVE  GuardInv'
<1>1. \A i : Superseded(i)' = Superseded(i)
  BY DEF Superseded, AskedIds
<1>2. Anyone' = Anyone /\ Names' = Names /\ \A i : Has(inflight, i)' <=> Has(inflight, i)
  BY DEF Anyone, Names
<1>3. \A i, forms : OnWire(i, forms)' = OnWire(i, forms)
  BY DEF OnWire
<1>4. \A i : Lost(i)' = Lost(i)
  BY <1>1, <1>3 DEF Lost
<1>5. AllListed' = AllListed /\ GateOn' = GateOn
  BY DEF AllListed, ListedSince, ListAnswer, GateOn, ListChangedEnabled
<1>6. At("ended").at = "ended" /\ At("ended").frame.id = 0 /\ 0 \in Names
  BY AtIs DEF Places, Names
<1>7. KnownIds'
  <2>1. s2c'.frame.id \in Names
    BY <1>6 DEF GuardInv, KnownIds
  <2> QED BY <1>2, <2>1 DEF GuardInv, KnownIds
<1>8. Carrying(s2c') => Carrying(s2c) /\ s2c'.frame = s2c.frame /\ s2c.at # "ended"
  BY <1>6 DEF Carrying
<1>9. s2c.at = "ended" => s2c'.at = "ended"
  BY <1>6
<1>10. PumpsOk'
  BY <1>8 DEF GuardInv, PumpsOk
<1>11. ResultOnce'
  <2>1. \A i, forms : Carried(i, forms)' => Carried(i, forms)
    BY <1>8 DEF Carried
  <2> QED BY <1>2, <1>3, <1>9, <2>1 DEF GuardInv, ResultOnce
<1>12. Reckoned'
  <2>1. ASSUME s2c'.at # "ended" PROVE \A i, forms : Carried(i, forms)' = Carried(i, forms)
    <3>1. s2c'.frame = s2c.frame /\ Carrying(s2c') = Carrying(s2c)
      BY <1>6, <2>1
    <3> QED BY <3>1 DEF Carried
  <2>2. ASSUME Carrying(s2c') PROVE ActedUpon(s2c.frame)' 
    <3>1. ActedUpon(s2c.frame) /\ s2c'.frame = s2c.frame
      BY <1>8, <2>2 DEF GuardInv, Reckoned
    <3> QED BY <1>4, <3>1 DEF ActedUpon, Named
  <2> QED BY <1>2, <1>4, <1>8, <1>9, <2>1, <2>2 DEF GuardInv, Reckoned
<1>13. GateOk'
  <2>1. s2c'.at # "ended" => s2c.at # "ended" /\ s2c'.frame = s2c.frame /\ Carrying(s2c') = Carrying(s2c)
    BY <1>6
  <2> QED BY <1>4, <1>5, <1>8, <2>1 DEF GuardInv, GateOk, Drifts, ListAnswer
<1>14. WireOk'
  BY WireStays DEF GuardInv
<1> QED BY <1>7, <1>10, <1>11, <1>12, <1>13, <1>14 DEF GuardInv

LEMMA QuietSteps ==
  ASSUME GuardInv,
         \/ Drained \/ DrainBreaks \/ ClientEof \/ ServerEof \/ Cancel \/ Reraise \/ TearDown
         \/ GraceExpires \/ Reaped \/ ChildExits \/ ClientStops
  PROVE  GuardInv'
<1> USE DEF endVars, guardVars, LeaveUnchanged
<1>1. TypeOK /\ PumpsOk /\ KnownIds /\ OneDropped
  BY DEF GuardInv
<1>2. /\ At("read") \in Pump /\ At("read").at = "read" /\ At("read").frame.id = 0
      /\ At("ended") \in Pump /\ At("ended").at = "ended" /\ At("ended").frame.id = 0
      /\ 0 \in Names /\ c2s.frame.id \in Names
  BY <1>1, AtIs DEF Places, Names, KnownIds
<1>3. ~Carrying(At("read")) /\ ~Carrying(At("ended"))
  BY <1>2 DEF Carrying
<1>4. ASSUME UNCHANGED dropped, s2c' = s2c \/ s2c' = At("ended") PROVE OneDropped'
  BY <1>1, <1>2, <1>4 DEF OneDropped
<1>5. ASSUME UNCHANGED <<s2c, dropped>> PROVE \A i : Carried(i, Forms) => Carried(i, Forms)'
  BY <1>5 DEF Carried
<1>6. CASE Drained \/ DrainBreaks
  <2>1. /\ c2s' = At("read") \/ c2s' = At("ended")
        /\ UNCHANGED <<config, inflight, armed, s2c, chan, phase, abort, fault, child, client, asked,
                       reached, frames, wire, dropped>>
        /\ phase = "running"
    BY <1>6 DEF Drained, DrainBreaks
  <2>2. TypeOK'
    BY <1>1, <1>2, <2>1 DEF TypeOK
  <2>3. Accounts'
    BY <1>5, <2>1, AccountsStay DEF Settled
  <2> QED BY <1>1, <1>2, <1>3, <1>4, <2>1, <2>2, <2>3, Quiet DEF PumpsOk, Running
<1>7. CASE ClientEof
  <2>1. /\ c2s' = At("ended") /\ chan' = [chan EXCEPT !.eof = TRUE] /\ phase = "running"
        /\ UNCHANGED <<config, inflight, armed, s2c, phase, abort, fault, child, client, asked,
                       reached, frames, wire, dropped>>
    BY <1>7 DEF ClientEof
  <2>2. chan' \in [eof : BOOLEAN, pipeBroken : BOOLEAN] /\ chan'.pipeBroken = chan.pipeBroken
    BY <1>1, <2>1 DEF TypeOK
  <2>3. TypeOK'
    BY <1>1, <1>2, <2>1, <2>2 DEF TypeOK
  <2>4. Accounts'
    BY <1>5, <2>1, AccountsStay DEF Settled
  <2> QED BY <1>1, <1>2, <1>3, <1>4, <2>1, <2>2, <2>3, <2>4, Quiet DEF PumpsOk, Running
<1>8. CASE ServerEof
  <2>1. /\ s2c' = At("ended") /\ phase = "running" /\ s2c.at = "read"
        /\ UNCHANGED <<config, inflight, armed, c2s, chan, phase, abort, fault, child, client, asked,
                       reached, frames, wire, dropped>>
    BY <1>8 DEF ServerEof
  <2>2. TypeOK'
    BY <1>1, <1>2, <2>1 DEF TypeOK
  <2>3. \A i : ~Carried(i, Forms)
    BY <2>1 DEF Carried, Carrying
  <2>4. Accounts'
    BY <2>1, <2>3, AccountsStay DEF Settled
  <2> QED BY <1>1, <1>2, <1>3, <1>4, <2>1, <2>2, <2>4, Quiet DEF PumpsOk, Running
<1>9. CASE Cancel
  <2>1. /\ phase' = "leaving" /\ phase = "running"
        /\ UNCHANGED <<config, inflight, armed, c2s, s2c, chan, abort, fault, child, client, asked,
                       reached, frames, wire, dropped>>
    BY <1>9 DEF Cancel
  <2>2. TypeOK'
    BY <1>1, <2>1 DEF TypeOK
  <2>3. Accounts'
    BY <1>5, <2>1, AccountsStay DEF Settled, Running
  <2> QED BY <1>1, <1>2, <1>4, <2>1, <2>2, <2>3, Quiet DEF PumpsOk, Running
<1>10. CASE Reraise \/ TearDown \/ GraceExpires \/ Reaped
  <2>1. /\ UNCHANGED <<config, inflight, armed, c2s, s2c, chan, abort, fault, client, asked,
                       reached, frames, wire, dropped>>
        /\ c2s.at = "ended" /\ s2c.at = "ended"
        /\ phase' \in {"grace", "term", "kill", "over", "crashed"} /\ child' \in {"up", "gone"}
    BY <1>1, <1>10 DEF Reraise, TearDown, GraceExpires, Reaped, GroupLeft, PumpsOk, Running, TypeOK
  <2>2. TypeOK'
    BY <1>1, <2>1 DEF TypeOK
  <2>3. Settled' => Settled
    <3>1. CASE Reraise
      BY <3>1 DEF Reraise, Settled
    <3>2. CASE TearDown
      BY <1>1, <3>2 DEF TearDown, ClientGone, Settled, PumpsOk
    <3>3. CASE GraceExpires \/ Reaped
      BY <3>3 DEF GraceExpires, Reaped, Settled
    <3> QED BY <1>10, <3>1, <3>2, <3>3
  <2>4. Accounts'
    BY <1>5, <2>1, <2>3, AccountsStay DEF Running
  <2> QED BY <1>1, <1>2, <1>4, <2>1, <2>2, <2>4, Quiet DEF PumpsOk, Running
<1>11. CASE ChildExits
  <2>1. /\ child' = "gone"
        /\ UNCHANGED <<config, inflight, armed, c2s, s2c, chan, phase, abort, fault, client, asked,
                       reached, frames, wire, dropped>>
    BY <1>11 DEF ChildExits
  <2>2. TypeOK'
    BY <1>1, <2>1 DEF TypeOK
  <2>3. Accounts'
    BY <1>5, <2>1, AccountsStay DEF Settled
  <2> QED BY <1>1, <1>2, <1>4, <2>1, <2>2, <2>3, Quiet DEF PumpsOk, Running
<1>12. CASE ClientStops
  <2>1. UNCHANGED <<config, inflight, armed, c2s, s2c, chan, phase, abort, fault, child, asked,
                    reached, frames, wire, dropped>>
    BY <1>12 DEF ClientStops
  <2>2. client' \in [writes : BOOLEAN, reads : BOOLEAN] /\ (client'.reads => client.reads)
    BY <1>1, <1>12 DEF ClientStops, TypeOK
  <2>3. TypeOK'
    BY <1>1, <2>1, <2>2 DEF TypeOK
  <2>4. Accounts'
    BY <1>5, <2>1, <2>2, AccountsStay DEF Settled
  <2> QED BY <1>1, <1>2, <1>4, <2>1, <2>2, <2>3, <2>4, Quiet DEF PumpsOk, Running
<1> QED BY <1>6, <1>7, <1>8, <1>9, <1>10, <1>11, <1>12

\* The steps of a send, and its end by a cancellation.
LEMMA DispatchKeeps ==
  ASSUME GuardInv, Dispatch
  PROVE  GuardInv'
<1>1. TypeOK /\ PumpsOk /\ KnownIds /\ OneDropped
  BY DEF GuardInv
<1>2. /\ phase = "running"
      /\ UNCHANGED <<config, inflight, armed, chan, phase, abort, fault, child, client, asked,
                     reached, frames, wire, dropped>>
  BY DEF Dispatch, SendUnchanged, guardVars
<1>3. /\ c2s' \in Pump /\ s2c' \in Pump
      /\ c2s'.frame = c2s.frame /\ s2c'.frame = s2c.frame
      /\ Carrying(c2s') = Carrying(c2s) /\ Carrying(s2c') = Carrying(s2c)
      /\ (s2c'.at = "ended") = (s2c.at = "ended")
  <2>1. ASSUME NEW p \in Pump, p.at = "send"
        PROVE  LET q == [p EXCEPT !.at = "write"] IN
               q \in Pump /\ q.frame = p.frame /\ Carrying(q) = Carrying(p) /\ q.at # "ended"
    BY <2>1 DEF Pump, Places, Carrying
  <2>2. c2s \in Pump /\ s2c \in Pump
    BY <1>1 DEF TypeOK
  <2>3. CASE c2s.at = "send" /\ c2s' = [c2s EXCEPT !.at = "write"] /\ UNCHANGED s2c
    BY <2>1, <2>2, <2>3
  <2>4. CASE s2c.at = "send" /\ s2c' = [s2c EXCEPT !.at = "write"] /\ UNCHANGED c2s
    BY <2>1, <2>2, <2>4
  <2> QED BY <2>3, <2>4 DEF Dispatch
<1>4. TypeOK'
  BY <1>1, <1>2, <1>3 DEF TypeOK
<1>5. \A i : Carried(i, Forms) => Carried(i, Forms)'
  BY <1>3 DEF Carried
<1>6. Accounts'
  BY <1>2, <1>5, AccountsStay DEF Settled
<1>7. OneDropped'
  BY <1>1, <1>2, <1>3 DEF OneDropped
<1> QED BY <1>1, <1>2, <1>3, <1>4, <1>6, <1>7, Quiet DEF PumpsOk, KnownIds, Running

LEMMA WriteBreaksKeeps ==
  ASSUME GuardInv, WriteBreaks
  PROVE  GuardInv'
<1>1. TypeOK /\ PumpsOk /\ KnownIds /\ OneDropped
  BY DEF GuardInv
<1>2. /\ At("ended") \in Pump /\ At("ended").at = "ended" /\ At("ended").frame.id = 0
      /\ 0 \in Names /\ ~Carrying(At("ended"))
  BY AtIs DEF Places, Names, Carrying
<1>3. /\ ~client.reads
      /\ UNCHANGED <<config, inflight, armed, abort, child, client, asked, reached, frames, wire, dropped>>
      /\ (c2s' = At("ended") /\ UNCHANGED s2c) \/ (s2c' = At("ended") /\ UNCHANGED c2s)
      /\ c2s.at = "write" \/ s2c.at = "write"
  BY DEF WriteBreaks, SendUnchanged, guardVars
<1>4. phase \in Running
  BY <1>1, <1>3 DEF PumpsOk
<1>5. phase' \in Running /\ fault' \in BOOLEAN /\ chan' \in [eof : BOOLEAN, pipeBroken : BOOLEAN]
  <2>1. chan' = chan \/ chan' = [chan EXCEPT !.pipeBroken = TRUE]
    BY DEF WriteBreaks
  <2>2. chan' \in [eof : BOOLEAN, pipeBroken : BOOLEAN]
    BY <1>1, <2>1 DEF TypeOK
  <2> QED BY <1>1, <1>4, <2>2 DEF WriteBreaks, TypeOK, Running
<1>6. TypeOK'
  BY <1>1, <1>2, <1>3, <1>5 DEF TypeOK, Running
<1>7. Accounts'
  BY <1>3, <1>4, <1>5, AccountsStay DEF Settled, Running
<1>8. OneDropped'
  BY <1>1, <1>2, <1>3 DEF OneDropped
<1> QED BY <1>1, <1>2, <1>3, <1>4, <1>5, <1>6, <1>7, <1>8, Quiet DEF KnownIds

LEMMA PumpCancelledKeeps ==
  ASSUME GuardInv, PumpCancelled
  PROVE  GuardInv'
<1>1. TypeOK /\ PumpsOk /\ KnownIds /\ OneDropped
  BY DEF GuardInv
<1>2. /\ At("ended") \in Pump /\ At("ended").at = "ended" /\ At("ended").frame.id = 0
      /\ 0 \in Names /\ ~Carrying(At("ended"))
  BY AtIs DEF Places, Names, Carrying
<1>3. /\ phase = "leaving"
      /\ UNCHANGED <<config, inflight, armed, chan, phase, abort, fault, child, client, asked, reached,
                     frames, wire>>
  BY DEF PumpCancelled, LeaveUnchanged, guardVars, endVars
<1>4. CASE c2s' = At("ended") /\ UNCHANGED <<s2c, dropped>>
  <2>1. TypeOK'
    BY <1>1, <1>2, <1>3, <1>4 DEF TypeOK
  <2>2. \A i : Carried(i, Forms) => Carried(i, Forms)'
    BY <1>4 DEF Carried
  <2>3. Accounts'
    BY <1>3, <1>4, <2>2, AccountsStay DEF Settled
  <2>4. OneDropped'
    BY <1>1, <1>4 DEF OneDropped
  <2> QED BY <1>1, <1>2, <1>3, <1>4, <2>1, <2>3, <2>4, Quiet DEF PumpsOk, Running
<1>5. CASE /\ s2c.at \notin {"write", "ended"} /\ s2c' = At("ended") /\ UNCHANGED c2s
           /\ dropped' = IF s2c.at = "send" THEN dropped \cup ({s2c.frame.id} \ {0}) ELSE dropped
  <2>1. s2c.frame.id \in Ids \cup {0} /\ dropped = {}
    BY <1>1, <1>5, TypesSay DEF KnownIds, OneDropped
  <2>2. dropped' = {} \/ \E x \in Ids : dropped' = {x}
    BY <1>5, <2>1
  <2>3. dropped' \subseteq Ids
    BY <2>2
  <2>4. TypeOK'
    BY <1>1, <1>2, <1>3, <1>5, <2>3 DEF TypeOK
  <2>5. ASSUME NEW i \in Anyone, Carried(i, Forms) PROVE i \in dropped'
    <3>1. s2c.at = "send" /\ s2c.frame.id = i
      BY <1>5, <2>5 DEF Carried, Carrying
    <3>2. i # 0
      BY <1>1, TypesSay
    <3> QED BY <1>5, <3>1, <3>2
  <2>6. Accounts'
    BY <1>3, <2>1, <2>5, AccountsStay DEF Settled
  <2>7. OneDropped'
    BY <1>2, <1>5, <2>2 DEF OneDropped
  <2> QED BY <1>1, <1>2, <1>3, <1>5, <2>4, <2>6, <2>7, Quiet DEF PumpsOk, KnownIds, Running
<1> QED BY <1>4, <1>5 DEF PumpCancelled

-----------------------------------------------------------------------------
(* The server pump takes a frame.                                            *)

LEMMA Reading ==
  ASSUME GuardInv, Reads(s2c)
  PROVE  /\ TypeOK /\ KnownIds /\ PumpsOk /\ dropped = {} /\ phase \in Running
         /\ s2c.at # "ended" /\ ~Carrying(s2c) /\ \A i, forms : ~Carried(i, forms)
         /\ reached \subseteq Anyone /\ 0 \notin Anyone /\ abort.id \notin reached
         /\ c2s.frame.id \in Names
<1>1. s2c.at \in {"read", "again"} /\ phase \in {"running", "leaving"}
  BY DEF Reads
<1>2. s2c.at # "ended" /\ ~Carrying(s2c)
  BY <1>1 DEF Carrying
<1>3. 0 \notin Anyone /\ reached \subseteq Anyone
  BY TypesSay DEF GuardInv, KnownIds
<1> QED BY <1>1, <1>2, <1>3 DEF GuardInv, Carried, OneDropped, ResultOnce, Running, KnownIds

LEMMA GateTaken ==
  ASSUME GuardInv, Reads(s2c), NEW f \in WireFrame, s2c' = Sending(f), f.form # "changed",
         UNCHANGED <<config, asked, wire>>,
         armed' = armed \/ (armed' = FALSE /\ ListAnswer(f)),
         GateOn /\ Drifts(f) => Lost(f.id) \/ ~armed
  PROVE  GateOk'
<1>1. Carrying(s2c)' /\ s2c'.frame = f /\ s2c'.at # "ended"
  BY SendingIs DEF Carrying
<1>2. \A i : Superseded(i)' = Superseded(i)
  BY DEF Superseded, AskedIds
<1>3. Lost(f.id)' = Lost(f.id)
  BY <1>2 DEF Lost, OnWire
<1>4. /\ AllListed' = AllListed /\ GateOn' = GateOn
      /\ ListAnswer(f)' = ListAnswer(f) /\ Drifts(f)' = Drifts(f)
  BY DEF AllListed, ListedSince, ListAnswer, GateOn, ListChangedEnabled, Drifts
<1>5. GateOn /\ ~armed => AllListed
  BY Reading DEF GuardInv, GateOk
<1> QED BY <1>1, <1>3, <1>4, <1>5 DEF GateOk, ListAnswer, Drifts

LEMMA Taken ==
  ASSUME GuardInv, TypeOK', Reads(s2c), NEW f \in WireFrame, s2c' = Sending(f), f.id \in Names,
         f.form \notin {"transport", "aborted", "denied"},
         UNCHANGED <<config, c2s, chan, endVars, child, client, asked, reached, wire, dropped>>,
         \/ UNCHANGED inflight /\ f.form \notin Results
         \/ inflight' = Popped(f.id) /\ f.form \in Results /\ f.id \in reached,
         ActedUpon(f), GateOk'
  PROVE  GuardInv'
<1>1. /\ TypeOK /\ KnownIds /\ PumpsOk /\ dropped = {} /\ phase \in Running
      /\ s2c.at # "ended" /\ ~Carrying(s2c) /\ \A i, forms : ~Carried(i, forms)
      /\ reached \subseteq Anyone /\ 0 \notin Anyone /\ abort.id \notin reached
  BY Reading
<1>2. Carrying(s2c)' /\ s2c'.frame = f /\ s2c'.at # "ended"
  BY SendingIs DEF Carrying
<1>3. \A i : Superseded(i)' = Superseded(i)
  BY DEF Superseded, AskedIds
<1>4. Anyone' = Anyone /\ Names' = Names
  BY DEF Anyone, Names
<1>5. /\ \A i, forms : OnWire(i, forms)' = OnWire(i, forms)
      /\ \A i : Lost(i)' = Lost(i) /\ Excused(i)' = Excused(i)
  BY <1>3 DEF OnWire, Lost, Excused
<1>6. f.form \in Forms /\ \A i, forms : Carried(i, forms)' <=> f.id = i /\ f.form \in forms
  BY <1>2 DEF Carried, WireFrame
<1>7. /\ Ascending(inflight')
      /\ \A n \in DOMAIN inflight' : \E m \in DOMAIN inflight : inflight'[n] = inflight[m]
      /\ \A j : Has(inflight', j) => Has(inflight, j)
      /\ \A j : Has(inflight, j) => Has(inflight', j) \/ (j = f.id /\ f.form \in Results)
      /\ f.form \in Results => ~Has(inflight', f.id) /\ f.id \in reached
  <2>1. CASE UNCHANGED inflight /\ f.form \notin Results
    BY <1>1, <2>1 DEF KnownIds
  <2>2. CASE inflight' = Popped(f.id) /\ f.form \in Results /\ f.id \in reached
    <3>1. Ascending(inflight)
      BY <1>1 DEF KnownIds
    <3> QED BY <1>1, <2>2, <3>1, PoppedIs
  <2> QED BY <2>1, <2>2
<1>8. KnownIds'
  <2>1. /\ UNCHANGED <<asked, reached, wire, c2s>> /\ abort' = abort /\ s2c'.frame.id = f.id
    BY <1>2 DEF endVars
  <2>2. ASSUME NEW n \in DOMAIN inflight'
        PROVE  /\ inflight'[n].id \in Anyone'
               /\ inflight'[n].method = asked'[inflight'[n].id].method
               /\ ~asked'[inflight'[n].id].overCap
    BY <1>1, <1>4, <1>7, <2>1 DEF KnownIds
  <2> QED BY <1>1, <1>4, <1>7, <2>1, <2>2 DEF KnownIds
<1>9. PumpsOk'
  BY <1>1, <1>2 DEF PumpsOk, endVars
<1>10. ResultOnce'
  BY <1>1, <1>4, <1>5, <1>6, <1>7 DEF GuardInv, ResultOnce, endVars
<1>11. Reckoned'
  <2>1. ActedUpon(f)'
    BY <1>5 DEF ActedUpon, Named
  <2> QED BY <1>1, <1>2, <1>5, <1>6, <1>7, <2>1 DEF GuardInv, Reckoned
<1>12. OneDropped'
  BY <1>1 DEF OneDropped
<1>13. Accounts'
  <2>1. phase' = phase /\ client' = client /\ abort' = abort
    BY DEF endVars
  <2>2. \A i \in Anyone : Waiting(i) => Waiting(i)'
    BY <1>1, <1>6, <1>7, <2>1 DEF Waiting
  <2> QED BY <1>1, <1>4, <1>5, <2>1, <2>2 DEF GuardInv, Accounts, Running
<1>14. WireOk'
  BY WireStays DEF GuardInv
<1> QED BY <1>8, <1>9, <1>10, <1>11, <1>12, <1>13, <1>14 DEF GuardInv

\* A strict abort of the server pump keeps the id it had taken.
LEMMA Aborted ==
  ASSUME GuardInv, TypeOK', Reads(s2c), NEW i \in Names, AbortAt(i),
         (UNCHANGED inflight /\ i = 0) \/ (inflight' = Popped(i) /\ Has(inflight, i)),
         UNCHANGED <<config, c2s, chan, child, client, asked, reached, wire>>
  PROVE  GuardInv'
<1>1. /\ TypeOK /\ KnownIds /\ PumpsOk /\ dropped = {} /\ phase \in Running
      /\ s2c.at # "ended" /\ ~Carrying(s2c) /\ \A j, forms : ~Carried(j, forms)
      /\ reached \subseteq Anyone /\ 0 \notin Anyone /\ abort.id \notin reached
  BY Reading
<1>2. /\ s2c' = At("ended") /\ s2c'.at = "ended" /\ s2c'.frame.id = 0 /\ ~Carrying(s2c)'
  BY AtIs DEF AbortAt, Carrying, Places
<1>3. /\ phase' = "leaving" /\ abort' = (IF abort.raised THEN abort ELSE [raised |-> TRUE, id |-> i])
      /\ dropped' = IF abort.raised THEN dropped \cup ({i} \ {0}) ELSE dropped
  BY DEF AbortAt, Raise
<1>4. /\ abort'.raised /\ abort'.id \in {abort.id, i} /\ abort'.id \in Names
      /\ abort.raised => abort' = abort
      /\ ~abort.raised => abort'.id = i
  BY <1>1, <1>3 DEF KnownIds
<1>5. \A j : Superseded(j)' = Superseded(j)
  BY DEF Superseded, AskedIds
<1>6. Anyone' = Anyone /\ Names' = Names
  BY DEF Anyone, Names
<1>7. /\ \A j, forms : OnWire(j, forms)' = OnWire(j, forms)
      /\ \A j : ~Carried(j, Forms)' /\ ~Carried(j, Results)'
  BY <1>2 DEF OnWire, Carried
<1>8. /\ Ascending(inflight')
      /\ \A n \in DOMAIN inflight' : \E m \in DOMAIN inflight : inflight'[n] = inflight[m]
      /\ \A j : Has(inflight', j) => Has(inflight, j)
      /\ \A j : Has(inflight, j) => Has(inflight', j) \/ j = i
  <2>1. CASE UNCHANGED inflight
    BY <1>1, <2>1 DEF KnownIds
  <2>2. CASE inflight' = Popped(i)
    <3>1. Ascending(inflight)
      BY <1>1 DEF KnownIds
    <3> QED BY <1>1, <2>2, <3>1, PoppedIs
  <2> QED BY <2>1, <2>2
<1>9. KnownIds'
  <2>1. ASSUME NEW n \in DOMAIN inflight'
        PROVE  /\ inflight'[n].id \in Anyone'
               /\ inflight'[n].method = asked'[inflight'[n].id].method
               /\ ~asked'[inflight'[n].id].overCap
    BY <1>1, <1>6, <1>8 DEF KnownIds
  <2>2. s2c'.frame.id \in Names
    BY <1>2 DEF Names
  <2> QED BY <1>1, <1>4, <1>6, <1>8, <2>1, <2>2 DEF KnownIds
<1>10. PumpsOk'
  BY <1>1, <1>2, <1>3, <1>4 DEF PumpsOk, Running
<1>11. ResultOnce'
  <2>1. ASSUME NEW j \in Anyone, OnWire(j, Results) PROVE ~Has(inflight', j) /\ abort'.id # j
    <3>1. ~Has(inflight, j) /\ abort.id # j
      BY <2>1 DEF GuardInv, ResultOnce
    <3>2. i = 0 \/ Has(inflight, i)
      OBVIOUS
    <3> QED BY <1>1, <1>4, <1>8, <3>1, <3>2
  <2> QED BY <1>2, <1>6, <1>7, <2>1 DEF ResultOnce
<1>12. Reckoned' /\ GateOk'
  BY <1>2 DEF Reckoned, GateOk
<1>13. OneDropped'
  <2>1. i = 0 \/ i \in Ids
    BY <1>1, TypesSay
  <2>2. dropped' = {} \/ (dropped' = {i} /\ i \in Ids)
    <3>1. CASE i = 0
      <4>1. {i} \ {0} = {}
        BY <3>1
      <4> QED BY <1>1, <1>3, <4>1
    <3>2. CASE i # 0
      <4>1. {i} \ {0} = {i}
        BY <3>2
      <4> QED BY <1>1, <1>3, <2>1, <3>2, <4>1
    <3> QED BY <3>1, <3>2
  <2> QED BY <1>2, <2>2 DEF OneDropped
<1>14. Accounts'
  <2>1. ASSUME client.reads, NEW j \in Anyone PROVE Excused(j)' \/ Waiting(j)'
    <3>1. Excused(j) \/ Has(inflight, j) \/ abort.id = j
      BY <1>1, <2>1 DEF GuardInv, Accounts, Waiting
    <3>2. Excused(j) => Excused(j)'
      BY <1>1, <1>5, <1>7 DEF Excused
    <3>3. CASE abort.id = j
      <4>1. abort.raised
        BY <1>1, <3>3 DEF PumpsOk
      <4> QED BY <1>4, <3>3, <4>1 DEF Waiting
    <3>4. CASE Has(inflight, j)
      <4>1. CASE j = i
        <5>1. CASE abort.raised
          BY <1>1, <1>3, <4>1, <5>1 DEF Excused
        <5>2. CASE ~abort.raised
          BY <1>4, <4>1, <5>2 DEF Waiting
        <5> QED BY <5>1, <5>2
      <4> QED BY <1>8, <3>4, <4>1 DEF Waiting
    <3> QED BY <3>1, <3>2, <3>3, <3>4
  <2> QED BY <1>3, <1>6, <2>1 DEF Accounts, Running
<1>15. WireOk'
  BY WireStays DEF GuardInv
<1> QED BY <1>9, <1>10, <1>11, <1>12, <1>13, <1>14, <1>15 DEF GuardInv

LEMMA ServerFrameKeeps ==
  ASSUME GuardInv, ServerFrame
  PROVE  GuardInv'
<1> USE DEF guardVars
<1>1. TypeOK /\ KnownIds /\ reached \subseteq Anyone /\ Anyone \subseteq Ids /\ Ascending(inflight)
  BY TypesSay DEF GuardInv, KnownIds
<1>2. ASSUME TakeFrame
      PROVE  /\ Reads(s2c) /\ frames' \in 0..MaxFrames
             /\ UNCHANGED <<config, c2s, chan, child, client, asked, reached, wire>>
  BY <1>1, <1>2, SessionConstants DEF TakeFrame, TypeOK
<1>3. ASSUME NEW i \in Names, NEW marks \in SUBSET Mark, ReadListChanged(i, marks)
      PROVE  GuardInv'
  <2> DEFINE f == Frame(i, "changed", marks, "pinned")
  <2>1. f \in WireFrame /\ f.id = i /\ f.form = "changed"
    BY <1>1, <1>3, TypesSay, FrameIs DEF Forms, Surfaces, Names
  <2>2. /\ TakeFrame /\ armed' = TRUE /\ UNCHANGED inflight
        /\ s2c' = Sending(f) /\ UNCHANGED <<endVars, dropped>>
    BY <1>3 DEF ReadListChanged, Forward
  <2> HIDE DEF f
  <2>3. TypeOK'
    BY <1>1, <1>2, <2>1, <2>2, TakenTyped
  <2>4. ActedUpon(f)
    BY <2>1 DEF ActedUpon, Named, NotAResult
  <2>5. GateOk'
    BY <2>1, <2>2, SendingIs DEF GateOk, Drifts
  <2> QED BY <1>2, <2>1, <2>2, <2>3, <2>4, <2>5, Taken DEF Names, Results
<1>4. ASSUME NEW i \in reached, NEW marks \in SUBSET Mark, NEW form \in {"unread", "error"},
             TakeFrame, Forward(Frame(i, form, marks, "pinned")), UNCHANGED <<inflight, armed>>,
             form = "error" => marks = {}
      PROVE  GuardInv'
  <2> DEFINE f == Frame(i, form, marks, "pinned")
  <2>1. f \in WireFrame /\ f.id = i /\ f.form = form /\ f.marks = marks
    BY <1>1, FrameIs DEF Forms, Surfaces
  <2>2. /\ TakeFrame /\ UNCHANGED <<inflight, armed>>
        /\ s2c' = Sending(f) /\ UNCHANGED <<endVars, dropped>>
    BY <1>4 DEF Forward
  <2> HIDE DEF f
  <2>3. TypeOK'
    BY <1>1, <1>2, <2>1, <2>2, TakenTyped DEF TypeOK
  <2>4. ActedUpon(f)
    BY <1>4, <2>1, TreatmentIs DEF ActedUpon, Named, NotAResult
  <2>5. GateOk'
    BY <1>2, <1>4, <2>1, <2>2, GateTaken DEF Drifts
  <2> QED BY <1>1, <1>2, <1>4, <2>1, <2>2, <2>3, <2>4, <2>5, Taken DEF Names, Results
<1>5. ASSUME NEW i \in reached, NEW marks \in SUBSET Mark, ReadPartial(i, marks) PROVE GuardInv'
  <2> DEFINE f == Frame(i, "partial", marks, "pinned")
  <2>1. f \in WireFrame /\ f.id = i /\ f.form = "partial"
    BY <1>1, FrameIs DEF Forms, Surfaces
  <2>2. /\ Reads(s2c) /\ UNCHANGED <<inflight, armed>> /\ frames' = MaxFrames
        /\ s2c' = Sending(f) /\ UNCHANGED <<endVars, dropped>>
        /\ UNCHANGED <<config, c2s, chan, child, client, asked, reached, wire>>
    BY <1>5 DEF ReadPartial, Forward
  <2>3. frames' \in 0..MaxFrames
    BY <2>2, SessionConstants
  <2> HIDE DEF f
  <2>4. TypeOK'
    BY <1>1, <2>1, <2>2, <2>3, TakenTyped DEF TypeOK
  <2>5. ActedUpon(f)
    BY <2>1 DEF ActedUpon, Named, NotAResult
  <2>6. GateOk'
    BY <2>1, <2>2, GateTaken DEF Drifts
  <2> QED BY <1>1, <2>1, <2>2, <2>4, <2>5, <2>6, Taken DEF Names, Results
<1>8. ASSUME NEW i \in reached, NEW marks \in SUBSET Mark, ReadBare(i, marks) PROVE GuardInv'
  <2> DEFINE f == Frame(i, "bare", marks, "pinned")
             disarms == MethodFor(i) = "tools/list" /\ config.lock
  <2>1. /\ f \in WireFrame /\ f.id = i /\ f.form = "bare" /\ f.surface = "pinned"
        /\ i \in Names /\ i # 0
    BY <1>1, TypesSay, FrameIs DEF Forms, Surfaces, Names
  <2>2. /\ TakeFrame /\ inflight' = Popped(i) /\ armed' = (armed /\ ~disarms)
        /\ s2c' = Sending(f) /\ UNCHANGED <<endVars, dropped>>
    BY <1>8 DEF ReadBare, Forward
  <2>3. disarms => ListAnswer(f)
    <3>1. ASSUME disarms PROVE asked[i].method = "tools/list"
      BY <1>1, <3>1, EntryIs DEF KnownIds
    <3> QED BY <2>1, <3>1 DEF ListAnswer
  <2> HIDE DEF f, disarms
  <2>4. /\ armed' \in BOOLEAN
        /\ armed' = armed \/ (armed' = FALSE /\ ListAnswer(f))
    BY <1>1, <2>2, <2>3 DEF TypeOK
  <2>5. TypeOK'
    BY <1>1, <1>2, <2>1, <2>2, <2>4, TakenTyped
  <2>6. ActedUpon(f)
    BY <2>1 DEF ActedUpon, Named, NotAResult
  <2>7. GateOk'
    BY <1>2, <2>1, <2>2, <2>4, GateTaken DEF Drifts
  <2> QED BY <1>1, <1>2, <2>1, <2>2, <2>5, <2>6, <2>7, Taken DEF Results
<1>6. ASSUME NEW i \in reached, NEW marks \in Contents, ReadOverCap(i, marks) PROVE GuardInv'
  <2>1. TakeFrame /\ UNCHANGED <<inflight, armed>>
    BY <1>6 DEF ReadOverCap
  <2>2. CASE config.strictFrameCap
    <3>1. AbortAt(0) /\ 0 \in Names
      BY <1>6, <2>2 DEF ReadOverCap, Names
    <3>2. TypeOK'
      BY <1>1, <1>2, <2>1, <3>1, AbortTyped DEF TypeOK
    <3> QED BY <1>2, <2>1, <3>1, <3>2, Aborted
  <2>3. CASE ~config.strictFrameCap
    <3> DEFINE f == Frame(i, "overCap", marks, "pinned")
    <3>1. f \in WireFrame /\ f.id = i /\ f.form = "overCap"
      <4>1. marks \in SUBSET Mark /\ "overCap" \in Forms /\ "pinned" \in Surfaces /\ i \in Ids \cup {0}
        BY <1>1, SessionConstants DEF Forms, Surfaces
      <4> QED BY <4>1, FrameIs
    <3>2. s2c' = Sending(f) /\ UNCHANGED <<endVars, dropped>>
      BY <1>6, <2>3 DEF ReadOverCap, Forward
    <3> HIDE DEF f
    <3>3. TypeOK'
      BY <1>1, <1>2, <2>1, <3>1, <3>2, TakenTyped DEF TypeOK
    <3>4. ActedUpon(f)
      <4>1. i # 0
        BY <1>1, TypesSay
      <4> QED BY <2>3, <3>1, <4>1 DEF ActedUpon, Named
    <3>5. GateOk'
      BY <1>2, <2>1, <3>1, <3>2, GateTaken DEF Drifts
    <3> QED BY <1>1, <1>2, <2>1, <3>1, <3>2, <3>3, <3>4, <3>5, Taken DEF Names, Results
  <2> QED BY <2>2, <2>3
<1>7. ASSUME NEW i \in reached, NEW marks \in Contents, NEW surface \in Surfaces,
             NEW raises \in BOOLEAN, ReadResult(i, marks, surface, raises)
      PROVE  GuardInv'
  <2>1. /\ TakeFrame /\ inflight' = Popped(i) /\ i \in Anyone /\ i \in Ids \cup {0} /\ i # 0
        /\ marks # {} => asked[i].method = "tools/call"
        /\ surface = "drifted" => asked[i].method = "tools/list"
        /\ marks \in SUBSET Mark /\ i \in Names
    BY <1>1, <1>7, TypesSay, SessionConstants DEF ReadResult, Carries, Names
  <2>2. /\ Has(inflight, i) => MethodFor(i) = asked[i].method
        /\ ~Has(inflight, i) => MethodFor(i) = "unknown"
    BY <1>1, EntryIs DEF KnownIds
  <2>3. ASSUME NEW f \in WireFrame, s2c' = Sending(f), f.id = i, f.form \in Results,
               UNCHANGED <<endVars, dropped>>, armed' \in BOOLEAN, ActedUpon(f), GateOk'
        PROVE  GuardInv'
    <3>1. TypeOK'
      BY <1>1, <1>2, <2>1, <2>3, TakenTyped
    <3>2. f.form \notin {"transport", "aborted", "denied"}
      BY <2>3 DEF Results
    <3> QED BY <1>2, <2>1, <2>3, <3>1, <3>2, Taken
  <2>4. ASSUME AbortAt(i), Has(inflight, i), armed' \in BOOLEAN PROVE GuardInv'
    <3>1. TypeOK'
      BY <1>1, <1>2, <2>1, <2>4, AbortTyped
    <3> QED BY <1>2, <2>1, <2>4, <3>1, Aborted
  <2>5. CASE MethodFor(i) = "tools/list" /\ GateList(i, surface, raises)
    <3>1. Has(inflight, i) /\ asked[i].method = "tools/list"
      BY <2>2, <2>5
    <3> DEFINE gated == armed /\ config.lock
    <3>2. armed' = (armed /\ ~gated) /\ armed \in BOOLEAN
      BY <1>1, <2>5 DEF GateList, TypeOK
    <3>3. armed' \in BOOLEAN /\ (gated => armed' = FALSE) /\ (~gated => armed' = armed)
      BY <3>2
    <3>4. GateOn /\ ~gated => ~armed
      BY DEF GateOn, ListChangedEnabled
    <3>5. \/ AbortAt(i)
          \/ gated /\ Forward(Frame(i, "unchecked", {}, surface))
          \/ Forward(Blank(i, "blocked"))
          \/ /\ ~(gated /\ surface = "drifted" /\ ListChangedEnabled)
             /\ Forward(Frame(i, "raw", {}, surface))
      BY <2>5 DEF GateList
    <3> HIDE DEF gated
    <3>6. ASSUME NEW f \in WireFrame, f.id = i, f.form \in {"unchecked", "blocked", "raw"}, f.marks = {},
                 Forward(f), GateOn /\ f.form = "raw" /\ f.surface = "drifted" => ~gated
          PROVE  GuardInv'
      <4>1. s2c' = Sending(f) /\ UNCHANGED <<endVars, dropped>>
        BY <3>6 DEF Forward
      <4>2. ActedUpon(f)
        <5>1. {} \in SUBSET Mark
          OBVIOUS
        <5>2. Treatment(config, {}) = "raw"
          BY <5>1, TreatmentIs
        <5> QED BY <2>1, <3>6, <5>2 DEF ActedUpon, Named
      <4>3. ListAnswer(f)
        BY <2>1, <3>1, <3>6 DEF ListAnswer
      <4>4. armed' = armed \/ (armed' = FALSE /\ ListAnswer(f))
        BY <3>3, <4>3
      <4>5. GateOn /\ Drifts(f) => ~armed
        BY <3>4, <3>6 DEF Drifts
      <4>6. GateOk'
        BY <1>2, <2>1, <3>6, <4>1, <4>4, <4>5, GateTaken
      <4> QED BY <2>3, <3>3, <3>6, <4>1, <4>2, <4>6 DEF Results
    <3>7. CASE AbortAt(i)
      BY <2>4, <3>1, <3>3, <3>7
    <3>8. CASE gated /\ Forward(Frame(i, "unchecked", {}, surface))
      <4>1. "unchecked" \in Forms /\ {} \in SUBSET Mark
        BY DEF Forms
      <4> DEFINE f == Frame(i, "unchecked", {}, surface)
      <4>2. f \in WireFrame /\ f.id = i /\ f.form = "unchecked" /\ f.marks = {}
        BY <2>1, <4>1, FrameIs
      <4>3. Forward(f)
        BY <3>8
      <4> HIDE DEF f
      <4> QED BY <3>6, <4>2, <4>3
    <3>9. CASE Forward(Blank(i, "blocked"))
      <4> DEFINE f == Blank(i, "blocked")
      <4>1. f \in WireFrame /\ f.id = i /\ f.form = "blocked" /\ f.marks = {}
        BY <2>1, BlankIs DEF Forms
      <4>2. Forward(f)
        BY <3>9
      <4> HIDE DEF f
      <4> QED BY <3>6, <4>1, <4>2
    <3>10. CASE /\ ~(gated /\ surface = "drifted" /\ ListChangedEnabled)
                /\ Forward(Frame(i, "raw", {}, surface))
      <4>1. "raw" \in Forms /\ {} \in SUBSET Mark
        BY DEF Forms
      <4> DEFINE f == Frame(i, "raw", {}, surface)
      <4>2. f \in WireFrame /\ f.id = i /\ f.form = "raw" /\ f.marks = {} /\ f.surface = surface
        BY <2>1, <4>1, FrameIs
      <4>3. Forward(f)
        BY <3>10
      <4> HIDE DEF f
      <4>4. GateOn /\ f.form = "raw" /\ f.surface = "drifted" => ~gated
        BY <3>10, <4>2 DEF GateOn
      <4> QED BY <3>6, <4>2, <4>3, <4>4
    <3> QED BY <3>5, <3>7, <3>8, <3>9, <3>10
  <2>6. CASE MethodFor(i) = "tools/call" /\ InspectCall(i, marks, raises)
    <3>1. Has(inflight, i) /\ asked[i].method = "tools/call"
      BY <2>2, <2>6
    <3>2. UNCHANGED armed /\ armed' \in BOOLEAN
      BY <1>1, <2>6 DEF InspectCall, TypeOK
    <3>3. ASSUME NEW f \in WireFrame, f.id = i, f.form \in Results, ActedUpon(f), Forward(f)
          PROVE  GuardInv'
      <4>1. s2c' = Sending(f) /\ UNCHANGED <<endVars, dropped>>
        BY <3>3 DEF Forward
      <4>2. ~Drifts(f) /\ f.form # "changed"
        BY <3>1, <3>3 DEF Drifts, ListAnswer, Results
      <4>3. GateOk'
        BY <1>2, <2>1, <3>2, <4>1, <4>2, GateTaken
      <4> QED BY <2>3, <3>2, <3>3, <4>1, <4>3
    <3>4. CASE raises /\ config.strict
      <4>1. AbortAt(i)
        BY <2>6, <3>4 DEF InspectCall
      <4> QED BY <2>4, <3>1, <3>2, <4>1
    <3>5. CASE raises /\ ~config.strict
      <4> DEFINE f == Frame(i, "unchecked", marks, "pinned")
      <4>1. "unchecked" \in Forms /\ "pinned" \in Surfaces
        BY DEF Forms, Surfaces
      <4>2. f \in WireFrame /\ f.id = i /\ f.form = "unchecked"
        BY <2>1, <4>1, FrameIs
      <4>3. Forward(f)
        BY <2>6, <3>5 DEF InspectCall
      <4> HIDE DEF f
      <4>4. ActedUpon(f)
        BY <2>1, <3>5, <4>2 DEF ActedUpon, Named
      <4> QED BY <3>3, <4>2, <4>3, <4>4 DEF Results
    <3>6. CASE ~raises
      <4> DEFINE t == Treatment(config, marks)
                 f == Frame(i, t, Delivered(config, marks), "pinned")
      <4>1. /\ t \in {"raw", "redacted", "blocked"} /\ Delivered(config, marks) \in SUBSET Mark
            /\ t # "redacted" => Treatment(config, Delivered(config, marks)) = "raw"
        BY <2>1, TreatmentIs
      <4>2. t \in Forms /\ "pinned" \in Surfaces /\ t \in Results
        BY <4>1 DEF Forms, Surfaces, Results
      <4>3. f \in WireFrame /\ f.id = i /\ f.form = t /\ f.marks = Delivered(config, marks)
        <5> HIDE DEF t
        <5> QED BY <2>1, <4>1, <4>2, FrameIs
      <4>4. Forward(f)
        BY <2>6, <3>6 DEF InspectCall
      <4>5. ActedUpon(f)
        BY <2>1, <4>1, <4>3 DEF ActedUpon, Named
      <4> HIDE DEF f, t
      <4> QED BY <3>3, <4>2, <4>3, <4>4, <4>5
    <3> QED BY <3>4, <3>5, <3>6
  <2>7. CASE /\ MethodFor(i) \in {"other", "unknown"}
             /\ Forward(Frame(i, "raw", marks, surface)) /\ UNCHANGED armed
    <3> DEFINE f == Frame(i, "raw", marks, surface)
    <3>1. "raw" \in Forms
      BY DEF Forms
    <3>2. f \in WireFrame /\ f.id = i /\ f.form = "raw" /\ f.marks = marks /\ f.surface = surface
      BY <2>1, <3>1, FrameIs
    <3>3. s2c' = Sending(f) /\ UNCHANGED <<endVars, dropped>>
      BY <2>7 DEF Forward
    <3> HIDE DEF f
    <3>4. Has(inflight, i) => asked[i].method = "other"
      <4>1. asked[i] \in Request
        BY <1>1, <2>1, TypesSay DEF Anyone
      <4>2. asked[i].method # "unknown"
        BY <4>1 DEF Request
      <4> QED BY <2>2, <2>7, <4>2
    <3>5. ~Has(inflight, i) => Lost(i)
      BY <1>2, <2>1, Reading DEF GuardInv, Reckoned
    <3>6. ActedUpon(f)
      <4>1. {} \in SUBSET Mark
        OBVIOUS
      <4>2. Treatment(config, {}) = "raw"
        BY <4>1, TreatmentIs
      <4> QED BY <2>1, <3>2, <3>4, <3>5, <4>2 DEF ActedUpon, Named
    <3>7. Drifts(f) => Lost(f.id)
      BY <3>2, <3>4, <3>5 DEF Drifts, ListAnswer
    <3>8. GateOk'
      BY <1>2, <2>1, <2>7, <3>2, <3>3, <3>7, GateTaken
    <3> QED BY <1>1, <2>3, <2>7, <3>2, <3>3, <3>6, <3>8 DEF Results, TypeOK
  <2> QED BY <1>7, <2>5, <2>6, <2>7 DEF ReadResult
<1>9. ASSUME NEW i \in reached, ReadError(i) PROVE GuardInv'
  BY <1>4, <1>9 DEF ReadError, Blank
<1>10. ASSUME NEW i \in reached, NEW marks \in SUBSET Mark, ReadUnread(i, marks) PROVE GuardInv'
  BY <1>4, <1>10 DEF ReadUnread
<1>11. \A marks \in Contents : marks \in SUBSET Mark
  BY SessionConstants
<1>12. CASE ReadListChanged(0, {})
  BY <1>3, <1>12 DEF Names
<1>13. ASSUME NEW i \in reached, NEW marks \in Contents,
              ReadListChanged(i, marks) \/ ReadPartial(i, marks) \/ ReadBare(i, marks)
       PROVE  GuardInv'
  BY <1>1, <1>3, <1>5, <1>8, <1>11, <1>13 DEF Names
<1> QED BY <1>6, <1>7, <1>9, <1>10, <1>11, <1>12, <1>13 DEF ServerFrame

-----------------------------------------------------------------------------
(* A frame reaches the client.                                               *)

LEMMA WireGrows ==
  ASSUME GuardInv, NEW f \in WireFrame, wire' = Append(wire, f), UNCHANGED <<config, asked>>,
         phase \in Running, f.form \notin {"transport", "aborted"}, ActedUpon(f),
         GateOn /\ Drifts(f) => Lost(f.id) \/ AllListed
  PROVE  /\ wire' \in Seq(WireFrame)
         /\ \A n \in DOMAIN wire' : wire'[n] = f \/ \E m \in DOMAIN wire : wire'[n] = wire[m]
         /\ \A i, forms : OnWire(i, forms)' <=> OnWire(i, forms) \/ (f.id = i /\ f.form \in forms)
         /\ \A i : Superseded(i)' = Superseded(i)
         /\ AllListed /\ f.form # "changed" => AllListed'
         /\ ListAnswer(f) => AllListed'
         /\ WireOk'
<1>0. PICK z \in Nat : z = Len(wire)
  BY DEF GuardInv, TypeOK
<1>1. /\ wire \in Seq(WireFrame) /\ z \in Nat /\ DOMAIN wire = 1..z
      /\ wire' \in Seq(WireFrame) /\ DOMAIN wire' = 1..(z + 1)
      /\ wire'[z + 1] = f /\ \A n \in 1..z : wire'[n] = wire[n]
  BY <1>0 DEF GuardInv, TypeOK
<1>2. \A i : Superseded(i)' = Superseded(i)
  BY DEF Superseded, AskedIds
<1>3. \A n \in DOMAIN wire' : n = z + 1 \/ n \in 1..z
  BY <1>1
<1>4. \A n \in 1..z : n \in DOMAIN wire' /\ n < z + 1
  BY <1>1
<1>5. z + 1 \in DOMAIN wire'
  BY <1>1
<1>6. \A n \in DOMAIN wire' : wire'[n] = f \/ \E m \in DOMAIN wire : wire'[n] = wire[m]
  BY <1>1, <1>3
<1>7. ASSUME NEW i, NEW forms
      PROVE  OnWire(i, forms)' <=> OnWire(i, forms) \/ (f.id = i /\ f.form \in forms)
  BY <1>1, <1>3, <1>4, <1>5 DEF OnWire
<1>8. \A g : ListAnswer(g)' <=> ListAnswer(g)
  BY DEF ListAnswer
<1>9. ASSUME NEW k \in 1..z, ListedSince(k) \/ ListAnswer(f) PROVE ListedSince(k)'
  <2>1. CASE ListedSince(k)
    BY <1>1, <1>4, <1>8, <2>1 DEF ListedSince
  <2>2. CASE ListAnswer(f)
    BY <1>1, <1>4, <1>5, <1>8, <2>2 DEF ListedSince
  <2> QED BY <1>9, <2>1, <2>2
<1>10. AllListed /\ f.form # "changed" => AllListed'
  BY <1>1, <1>3, <1>9 DEF AllListed
<1>11. ListAnswer(f) => AllListed'
  <2>1. ListAnswer(f) => f.form # "changed"
    BY DEF ListAnswer
  <2> QED BY <1>1, <1>3, <1>9, <2>1 DEF AllListed
<1>12. \A n \in DOMAIN wire' : wire'[n].form \notin {"transport", "aborted"}
  BY <1>1, <1>3 DEF GuardInv, PumpsOk
<1>13. NoResultAnsweredTwice'
  BY <1>12 DEF NoResultAnsweredTwice
<1>14. ASSUME NEW n \in 1..z PROVE Uncorrelated(n)' = Uncorrelated(n)
  <2>1. \A k \in 1..(n - 1) : k \in 1..z
    BY <1>1
  <2>2. wire'[n] = wire[n] /\ \A k \in 1..(n - 1) : wire'[k] = wire[k]
    BY <1>1, <2>1
  <2> QED BY <1>2, <2>2 DEF Uncorrelated
<1>15. Lost(f.id) => Uncorrelated(z + 1)'
  <2>1. z + 1 - 1 = z
    BY <1>1
  <2>2. CASE asked[f.id].overCap \/ Superseded(f.id)
    BY <1>1, <1>2, <2>2 DEF Uncorrelated
  <2>3. CASE OnWire(f.id, Results)
    <3>1. PICK k \in 1..z : wire[k].id = f.id /\ wire[k].form \in Results
      BY <1>1, <2>3 DEF OnWire
    <3>2. k \in 1..(z + 1 - 1) /\ wire'[k].id = f.id /\ wire'[k].form \in Results
      BY <1>1, <2>1, <3>1
    <3> QED BY <1>1, <3>2 DEF Uncorrelated, Results
  <2> QED BY <2>2, <2>3 DEF Lost
<1>16. ActedUponUnlessUncorrelated'
  <2>1. ASSUME NEW n \in DOMAIN wire', wire'[n].form # "redacted",
               Treatment(config', wire'[n].marks) # "raw"
        PROVE  \/ wire'[n].form \in NotAResult
               \/ wire'[n].form = "raw" /\ Uncorrelated(n)'
               \/ wire'[n].form = "unchecked" /\ (Uncorrelated(n)' \/ ~config'.strict)
               \/ wire'[n].form = "overCap" /\ (Uncorrelated(n)' \/ ~config'.strictFrameCap)
    <3>1. CASE n = z + 1
      BY <1>1, <1>15, <2>1, <3>1 DEF ActedUpon, Named
    <3>2. CASE n \in 1..z
      <4>1. n \in DOMAIN wire /\ wire'[n] = wire[n] /\ Uncorrelated(n)' = Uncorrelated(n)
        BY <1>1, <1>14, <3>2
      <4> QED BY <2>1, <4>1 DEF GuardInv, WireOk, ActedUponUnlessUncorrelated
    <3> QED BY <1>3, <3>1, <3>2
  <2> QED BY <2>1 DEF ActedUponUnlessUncorrelated
<1>17. FirstListIsGated'
  <2>1. GateOn' = GateOn
    BY DEF GateOn, ListChangedEnabled
  <2>2. SUFFICES ASSUME GateOn, NEW k \in DOMAIN wire', NEW n \in DOMAIN wire', k < n,
                        wire'[k].form = "changed", IsList(n)', wire'[n].form = "raw",
                        wire'[n].surface = "drifted"
                 PROVE  \/ Uncorrelated(n)'
                        \/ \E m \in (k + 1)..(n - 1) :
                             IsList(m)' /\ wire'[m].form \in {"raw", "unchecked", "bare", "blocked"}
    BY <2>1 DEF FirstListIsGated
  <2>3. k \in 1..z /\ wire'[k] = wire[k] /\ k \in DOMAIN wire
    BY <1>1, <2>2
  <2>4. \A m \in 1..z : wire'[m] = wire[m] /\ IsList(m)' = IsList(m)
    BY <1>1 DEF IsList
  <2>5. CASE n = z + 1
    <3>1. Drifts(f)
      BY <1>1, <2>2, <2>5 DEF Drifts, ListAnswer, IsList
    <3>2. CASE Lost(f.id)
      BY <1>15, <2>5, <3>2
    <3>3. CASE AllListed
      <4>1. PICK m \in 1..z : k < m /\ ListAnswer(wire[m])
        BY <1>1, <2>2, <2>3, <3>3 DEF AllListed, ListedSince
      <4>2. m \in (k + 1)..(n - 1)
        BY <1>1, <2>3, <2>5, <4>1
      <4> QED BY <2>4, <4>1, <4>2 DEF ListAnswer, IsList
    <3> QED BY <2>2, <3>1, <3>2, <3>3
  <2>6. CASE n \in 1..z
    <3>1. n \in DOMAIN wire /\ wire'[n] = wire[n] /\ IsList(n) /\ Uncorrelated(n)' = Uncorrelated(n)
      BY <1>1, <1>14, <2>2, <2>4, <2>6
    <3>2. \/ Uncorrelated(n)
          \/ \E m \in (k + 1)..(n - 1) : IsList(m) /\ wire[m].form \in {"raw", "unchecked", "bare", "blocked"}
      BY <2>2, <2>3, <3>1 DEF GuardInv, WireOk, FirstListIsGated
    <3>3. \A m \in (k + 1)..(n - 1) : m \in 1..z
      BY <1>1, <2>3, <2>6
    <3> QED BY <2>4, <3>1, <3>2, <3>3
  <2> QED BY <1>3, <2>5, <2>6
<1>18. NamedOnWire'
  BY <1>1, <1>3 DEF GuardInv, WireOk, NamedOnWire, ActedUpon, Named
<1> QED BY <1>1, <1>2, <1>6, <1>7, <1>10, <1>11, <1>13, <1>16, <1>17, <1>18 DEF WireOk

\* The frame of either pump.
LEMMA WrittenKeeps ==
  ASSUME GuardInv, Written
  PROVE  GuardInv'
<1>1. TypeOK /\ PumpsOk /\ KnownIds /\ OneDropped
  BY DEF GuardInv
<1>2. /\ AfterWrite \in Pump /\ AfterWrite.at \in {"again", "read"} /\ AfterWrite.frame.id = 0
      /\ 0 \in Names /\ ~Carrying(AfterWrite)
  BY AtIs DEF AfterWrite, Places, Names, Carrying
<1>3. UNCHANGED <<config, inflight, armed, abort, child, client, asked, reached, frames, chan, phase, fault, dropped>>
  BY DEF Written, SendUnchanged, guardVars
<1>4. Anyone' = Anyone /\ Names' = Names /\ \A i : Has(inflight, i)' <=> Has(inflight, i)
  BY <1>3 DEF Anyone, Names
<1>5. GateOn' = GateOn
  BY <1>3 DEF GateOn, ListChangedEnabled
<1>6. \A g : ListAnswer(g)' = ListAnswer(g) /\ Drifts(g)' = Drifts(g)
  BY <1>3 DEF ListAnswer, Drifts
<1>7. CASE c2s.at = "write" /\ wire' = Append(wire, c2s.frame) /\ c2s' = AfterWrite /\ UNCHANGED s2c
  <2> DEFINE f == c2s.frame
  <2>1. phase \in Running /\ f \in WireFrame /\ f.form = "denied" /\ f.marks = {} /\ f.id \in Names
    BY <1>1, <1>7 DEF PumpsOk, TypeOK, Pump, Carrying, KnownIds
  <2> HIDE DEF f
  <2>2. wire' = Append(wire, f)
    BY <1>7 DEF f
  <2>3. ActedUpon(f) /\ ~Drifts(f) /\ ~ListAnswer(f)
    BY <2>1, TreatmentIs DEF ActedUpon, Named, Drifts, ListAnswer
  <2>4. /\ wire' \in Seq(WireFrame)
        /\ \A n \in DOMAIN wire' : wire'[n] = f \/ \E m \in DOMAIN wire : wire'[n] = wire[m]
        /\ \A i, forms : OnWire(i, forms)' <=> OnWire(i, forms) \/ (f.id = i /\ f.form \in forms)
        /\ \A i : Superseded(i)' = Superseded(i)
        /\ AllListed => AllListed'
    BY <1>3, <2>1, <2>2, <2>3, WireGrows
  <2>41. WireOk'
    BY <1>3, <2>1, <2>2, <2>3, WireGrows
  <2>5. TypeOK'
    BY <1>1, <1>2, <1>3, <1>7, <2>4 DEF TypeOK
  <2>6. \A i : OnWire(i, Results)' <=> OnWire(i, Results)
    BY <2>1, <2>4 DEF Results
  <2>7. \A i : Lost(i)' <=> Lost(i)
    BY <1>3, <2>4, <2>6 DEF Lost
  <2>8. \A i : Excused(i) => Excused(i)'
    BY <1>3, <2>4 DEF Excused
  <2>9. \A i, forms : Carried(i, forms)' <=> Carried(i, forms)
    BY <1>7 DEF Carried
  <2>10. KnownIds'
    <3>1. \A n \in DOMAIN wire' : wire'[n].id \in Names
      BY <1>1, <2>1, <2>4 DEF KnownIds
    <3> QED BY <1>1, <1>2, <1>3, <1>4, <1>7, <3>1 DEF KnownIds
  <2>11. PumpsOk'
    <3>1. \A n \in DOMAIN wire' : wire'[n].form \notin {"transport", "aborted"}
      BY <1>1, <2>1, <2>4 DEF PumpsOk
    <3> QED BY <1>1, <1>2, <1>3, <1>7, <2>1, <3>1 DEF PumpsOk
  <2>12. ResultOnce'
    BY <1>3, <1>4, <1>7, <2>6, <2>9 DEF GuardInv, ResultOnce
  <2>13. Reckoned'
    <3>1. \A g : ActedUpon(g)' <=> ActedUpon(g)
      BY <1>3, <2>7 DEF ActedUpon, Named
    <3> QED BY <1>3, <1>4, <1>7, <2>7, <2>9, <3>1 DEF GuardInv, Reckoned
  <2>14. Accounts'
    BY <1>3, <1>4, <2>8, <2>9 DEF GuardInv, Accounts, Waiting
  <2>15. GateOk'
    BY <1>3, <1>5, <1>6, <1>7, <2>4, <2>7 DEF GuardInv, GateOk
  <2>16. OneDropped'
    BY <1>1, <1>3, <1>7 DEF OneDropped
  <2> QED BY <2>41, <2>5, <2>10, <2>11, <2>12, <2>13, <2>14, <2>15, <2>16 DEF GuardInv
<1>8. CASE s2c.at = "write" /\ wire' = Append(wire, s2c.frame) /\ s2c' = AfterWrite /\ UNCHANGED c2s
  <2> DEFINE f == s2c.frame
  <2>1. /\ phase \in Running /\ f \in WireFrame /\ f.form \notin {"transport", "aborted"} /\ f.id \in Names
        /\ Carrying(s2c) /\ s2c.at # "ended"
    BY <1>1, <1>8 DEF PumpsOk, TypeOK, Pump, Carrying, KnownIds
  <2>2. /\ ActedUpon(f) /\ (GateOn /\ Drifts(f) => Lost(f.id) \/ AllListed)
        /\ GateOn /\ f.form = "changed" => armed
        /\ GateOn /\ ~armed => AllListed \/ ListAnswer(f)
    BY <2>1 DEF GuardInv, Reckoned, GateOk
  <2>3. \A i, forms : Carried(i, forms) <=> f.id = i /\ f.form \in forms
    BY <2>1 DEF Carried
  <2> HIDE DEF f
  <2>4. wire' = Append(wire, f)
    BY <1>8 DEF f
  <2>5. /\ wire' \in Seq(WireFrame)
        /\ \A n \in DOMAIN wire' : wire'[n] = f \/ \E m \in DOMAIN wire : wire'[n] = wire[m]
        /\ \A i, forms : OnWire(i, forms)' <=> OnWire(i, forms) \/ (f.id = i /\ f.form \in forms)
        /\ \A i : Superseded(i)' = Superseded(i)
        /\ AllListed /\ f.form # "changed" => AllListed'
        /\ ListAnswer(f) => AllListed'
        /\ WireOk'
    BY <1>3, <2>1, <2>2, <2>4, WireGrows
  <2>6. TypeOK'
    BY <1>1, <1>2, <1>3, <1>8, <2>5 DEF TypeOK
  <2>7. \A i, forms : OnWire(i, forms)' <=> OnWire(i, forms) \/ Carried(i, forms)
    BY <2>3, <2>5
  <2>8. \A i : Lost(i) \/ Carried(i, Results) => Lost(i)'
    BY <1>3, <2>5, <2>7 DEF Lost
  <2>9. \A i : Excused(i) \/ Carried(i, Forms) => Excused(i)'
    BY <1>3, <2>5, <2>7 DEF Excused
  <2>10. \A i, forms : ~Carried(i, forms)'
    BY <1>2, <1>8 DEF Carried
  <2>11. KnownIds'
    <3>1. \A n \in DOMAIN wire' : wire'[n].id \in Names
      BY <1>1, <2>1, <2>5 DEF KnownIds
    <3> QED BY <1>1, <1>2, <1>3, <1>4, <1>8, <3>1 DEF KnownIds
  <2>12. PumpsOk'
    <3>1. \A n \in DOMAIN wire' : wire'[n].form \notin {"transport", "aborted"}
      BY <1>1, <2>1, <2>5 DEF PumpsOk
    <3> QED BY <1>1, <1>2, <1>3, <1>8, <2>1, <3>1 DEF PumpsOk
  <2>13. ResultOnce'
    BY <1>3, <1>4, <2>1, <2>7, <2>10 DEF GuardInv, ResultOnce
  <2>14. Reckoned'
    BY <1>2, <1>3, <1>4, <1>8, <2>1, <2>8 DEF GuardInv, Reckoned
  <2>15. Accounts'
    BY <1>3, <1>4, <2>9 DEF GuardInv, Accounts, Waiting
  <2>16. GateOk'
    BY <1>2, <1>3, <1>5, <1>8, <2>2, <2>5 DEF GateOk
  <2>17. OneDropped'
    BY <1>1, <1>3, <2>1 DEF OneDropped
  <2> QED BY <2>5, <2>6, <2>11, <2>12, <2>13, <2>14, <2>15, <2>16, <2>17 DEF GuardInv
<1> QED BY <1>7, <1>8 DEF Written

-----------------------------------------------------------------------------
(* A request arrives.                                                        *)

\* What was promised about the requests before stays true.
LEMMA RequestArrives ==
  ASSUME GuardInv, TypeOK', NEW i \in Nat, i = Len(asked) + 1, NEW r \in Requests, NewRequest(r), Len(asked) < MaxRequests,
         inflight' = IF r.overCap THEN inflight ELSE Remember(Len(asked) + 1, r.method),
         UNCHANGED <<armed, s2c, client, wire, dropped>>
  PROVE  /\ GateOk' /\ WireOk' /\ Names \subseteq Names' /\ i \in Anyone'
         /\ \A n \in DOMAIN inflight' :
              /\ inflight'[n].id \in Anyone' /\ inflight'[n].method = asked'[inflight'[n].id].method
              /\ ~asked'[inflight'[n].id].overCap
         /\ Ascending(inflight')
         /\ \A j : Has(inflight', j) => Has(inflight, j) \/ j = i
         /\ \A j \in Anyone : Has(inflight, j) => Has(inflight', j) \/ Lost(j)'
         /\ asked'[i].overCap \/ Has(inflight', i) \/ Superseded(i)'
         /\ \A j \in Anyone : (Lost(j) => Lost(j)') /\ (Excused(j) => Excused(j)')
         /\ Carrying(s2c) => ActedUpon(s2c.frame)'
<1>1. /\ TypeOK /\ KnownIds /\ WireOk /\ Anyone' = Anyone \cup {i} /\ i \notin Anyone /\ config' = config
      /\ \A j \in Anyone : asked'[j] = asked[j]
      /\ asked'[i] = r /\ Anyone \subseteq Ids /\ 0 \notin Ids
  BY AskedGrows, TypesSay DEF GuardInv, NewRequest
<1>2. Names \subseteq Names'
  BY <1>1 DEF Names
<1>3. \A j \in Anyone : (Lost(j) => Lost(j)') /\ (Excused(j) => Excused(j)')
  BY <1>1, LostStays
<1>4. \A j \in Anyone : Superseded(j) => Superseded(j)'
  BY <1>1, SupersededStays
<1>5. /\ \A n \in DOMAIN wire : wire[n].id \in Anyone \/ wire[n].id = 0
      /\ s2c.frame.id \in Anyone \/ s2c.frame.id = 0
  BY <1>1 DEF KnownIds, Names
<1>6. \A g : g.id \in Anyone \/ g.id = 0 => (ListAnswer(g)' <=> ListAnswer(g)) /\ (Drifts(g)' <=> Drifts(g))
  BY <1>1 DEF ListAnswer, Drifts
<1>7. AllListed' <=> AllListed
  BY <1>5, <1>6 DEF AllListed, ListedSince
<1>8. GateOn' = GateOn
  BY <1>1 DEF GateOn, ListChangedEnabled
<1>9. GateOk'
  <2>1. Drifts(s2c.frame) => s2c.frame.id \in Anyone
    BY <1>5 DEF Drifts, ListAnswer
  <2>2. ListAnswer(s2c.frame)' <=> ListAnswer(s2c.frame)
    BY <1>5, <1>6
  <2>3. Drifts(s2c.frame)' <=> Drifts(s2c.frame)
    BY <1>5, <1>6
  <2> QED BY <1>3, <1>7, <1>8, <2>1, <2>2, <2>3 DEF GuardInv, GateOk
<1>10. \A n \in DOMAIN wire : wire[n].id # 0 /\ Uncorrelated(n) => Uncorrelated(n)'
  <2>1. ASSUME NEW n \in DOMAIN wire, wire[n].id # 0, Uncorrelated(n) PROVE Uncorrelated(n)'
    <3>1. wire[n].id \in Anyone
      BY <1>5, <2>1
    <3>2. asked[wire[n].id].overCap => asked'[wire[n].id].overCap
      BY <1>1, <3>1
    <3>3. Superseded(wire[n].id) => Superseded(wire[n].id)'
      BY <1>4, <3>1
    <3> QED BY <2>1, <3>2, <3>3 DEF Uncorrelated
  <2> QED BY <2>1
<1>11. \A n \in DOMAIN wire : IsList(n)' <=> IsList(n)
  BY <1>1, <1>5 DEF IsList
<1>12. ActedUponUnlessUncorrelated'
  BY <1>1, <1>10 DEF WireOk, NamedOnWire, Named, ActedUponUnlessUncorrelated
<1>13. FirstListIsGated'
  <2>1. ASSUME GateOn, NEW k \in DOMAIN wire, NEW n \in DOMAIN wire, k < n, wire[k].form = "changed",
               IsList(n)', wire[n].form = "raw", wire[n].surface = "drifted"
        PROVE  \/ Uncorrelated(n)'
               \/ \E m \in (k + 1)..(n - 1) :
                    IsList(m)' /\ wire[m].form \in {"raw", "unchecked", "bare", "blocked"}
    <3>1. IsList(n) /\ wire[n].id # 0
      BY <1>11, <2>1 DEF IsList
    <3>2. \/ Uncorrelated(n)
          \/ \E m \in (k + 1)..(n - 1) : IsList(m) /\ wire[m].form \in {"raw", "unchecked", "bare", "blocked"}
      BY <1>1, <2>1, <3>1 DEF WireOk, FirstListIsGated
    <3>3. \A m \in (k + 1)..(n - 1) : m \in DOMAIN wire
      BY <1>1, <2>1 DEF TypeOK
    <3> QED BY <1>10, <1>11, <3>1, <3>2, <3>3
  <2> QED BY <1>8, <2>1 DEF FirstListIsGated
<1>14. WireOk'
  BY <1>1, <1>12, <1>13 DEF WireOk, NamedOnWire, Named, NoResultAnsweredTwice
<1>15. CASE r.overCap
  <2>1. inflight' = inflight /\ asked'[i].overCap
    BY <1>1, <1>15
  <2>2. \A n \in DOMAIN inflight : inflight[n].id \in Anyone /\ asked'[inflight[n].id] = asked[inflight[n].id]
    BY <1>1 DEF KnownIds
  <2>3. \A n \in DOMAIN inflight' :
              /\ inflight'[n].id \in Anyone' /\ inflight'[n].method = asked'[inflight'[n].id].method
              /\ ~asked'[inflight'[n].id].overCap
    BY <1>1, <2>1, <2>2 DEF KnownIds
  <2>4. Carrying(s2c) => ActedUpon(s2c.frame)'
    BY <1>1, <1>3, <1>5 DEF GuardInv, Reckoned, ActedUpon, Named
  <2> QED BY <1>1, <1>2, <1>3, <1>9, <1>14, <2>1, <2>3, <2>4 DEF KnownIds
<1>16. CASE ~r.overCap
  <2>1. inflight' = Remember(Len(asked) + 1, r.method)
    BY <1>16
  <2>2. /\ Ascending(inflight')
        /\ \A n \in DOMAIN inflight' :
             /\ inflight'[n].id \in Anyone' /\ inflight'[n].method = asked'[inflight'[n].id].method
             /\ ~asked'[inflight'[n].id].overCap
        /\ \A j : Has(inflight', j) => Has(inflight, j) \/ j = i
        /\ \A j : Has(inflight, j) \/ j = i => Has(inflight', j) \/ Superseded(j)'
    BY <1>1, <1>16, <2>1, RememberIs
  <2>3. ASSUME NEW j \in Anyone, Has(inflight, j) PROVE Has(inflight', j) \/ Lost(j)'
    <3>1. Has(inflight', j) \/ Superseded(j)'
      BY <2>2, <2>3
    <3> QED BY <3>1 DEF Lost
  <2>4. Carrying(s2c) => ActedUpon(s2c.frame)'
    BY <1>1, <1>3, <1>5 DEF GuardInv, Reckoned, ActedUpon, Named
  <2> QED BY <1>1, <1>2, <1>3, <1>9, <1>14, <2>2, <2>3, <2>4
<1> QED BY <1>15, <1>16

LEMMA ReadRequestKeeps ==
  ASSUME GuardInv, NEW r \in Requests, ReadRequest(r)
  PROVE  GuardInv'
<1>0. PICK i \in Nat : i = Len(asked) + 1
  BY TypesSay DEF GuardInv
<1>1. /\ TypeOK /\ KnownIds /\ PumpsOk /\ ResultOnce /\ Reckoned /\ OneDropped /\ Accounts
      /\ Reads(c2s) /\ phase \in Running /\ NewRequest(r) /\ Len(asked) < MaxRequests
      /\ inflight' = (IF r.overCap THEN inflight ELSE Remember(Len(asked) + 1, r.method))
      /\ UNCHANGED <<config, armed, s2c, chan, child, client, frames, wire, dropped>>
  BY DEF GuardInv, ReadRequest, NewRequest, Reads, Running
<1>2. TypeOK'
  BY <1>1, ReadRequestTyped
<1>3. /\ GateOk' /\ WireOk' /\ Names \subseteq Names' /\ i \in Anyone'
      /\ \A n \in DOMAIN inflight' :
           /\ inflight'[n].id \in Anyone' /\ inflight'[n].method = asked'[inflight'[n].id].method
           /\ ~asked'[inflight'[n].id].overCap
      /\ Ascending(inflight')
      /\ \A j : Has(inflight', j) => Has(inflight, j) \/ j = i
      /\ \A j \in Anyone : Has(inflight, j) => Has(inflight', j) \/ Lost(j)'
      /\ asked'[i].overCap \/ Has(inflight', i) \/ Superseded(i)'
      /\ \A j \in Anyone : (Lost(j) => Lost(j)') /\ (Excused(j) => Excused(j)')
      /\ Carrying(s2c) => ActedUpon(s2c.frame)'
  BY <1>0, <1>1, <1>2, RequestArrives
<1>4. Anyone' = Anyone \cup {i} /\ i \notin Anyone /\ i # 0 /\ i \notin Names /\ i \in Ids \cup {0}
  <2>1. Anyone' = Anyone \cup {i} /\ i \notin Anyone
    BY <1>0, <1>1, AskedGrows
  <2>2. i # 0 /\ i \in Ids
    <3>1. Len(asked) \in Nat
      BY <1>1, TypesSay
    <3> QED BY <1>0, <1>1, <3>1, SessionConstants DEF Ids
  <2> QED BY <2>1, <2>2 DEF Names
<1>5. /\ 0 \in Names' /\ i \in Names'
      /\ At("drain").frame.id = 0 /\ ~Carrying(At("drain")) /\ At("drain").at # "ended"
      /\ At("ended").frame.id = 0 /\ ~Carrying(At("ended")) /\ At("ended").at = "ended"
      /\ Sending(Blank(i, "denied")).frame.id = i /\ Sending(Blank(i, "denied")).frame.form = "denied"
      /\ Sending(Blank(i, "denied")).frame.marks = {}
  <2>1. /\ Blank(i, "denied") \in WireFrame /\ Blank(i, "denied").id = i
        /\ Blank(i, "denied").form = "denied" /\ Blank(i, "denied").marks = {}
    BY <1>4, BlankIs DEF Forms
  <2> QED BY <1>3, <2>1, AtIs, SendingIs DEF Names, Carrying, Places
<1>6. /\ c2s'.frame.id \in Names' /\ (Carrying(c2s') => c2s'.frame.form = "denied" /\ c2s'.frame.marks = {})
      /\ reached' = reached \/ (reached' = reached \cup {i} /\ UNCHANGED endVars)
      /\ \/ UNCHANGED endVars
         \/ reached' = reached /\ phase' = "leaving" /\ abort' = abort /\ abort.raised
         \/ reached' = reached /\ phase' = "leaving" /\ abort'.id = i /\ abort'.raised /\ ~abort.raised
  <2>1. CASE c2s' = At("drain") /\ UNCHANGED endVars
             /\ reached' = IF child = "up" THEN reached \cup {i} ELSE reached
    BY <1>5, <2>1
  <2>2. CASE c2s' = Sending(Blank(i, "denied")) /\ UNCHANGED <<reached, endVars>>
    BY <1>5, <2>2
  <2>3. CASE c2s' = At("ended") /\ Raise(i) /\ UNCHANGED reached
    <3>1. c2s'.frame.id \in Names' /\ ~Carrying(c2s')
      BY <1>5, <2>3
    <3>2. phase' = "leaving" /\ abort' = IF abort.raised THEN abort ELSE [raised |-> TRUE, id |-> i]
      BY <2>3 DEF Raise
    <3>3. CASE abort.raised
      BY <2>3, <3>1, <3>2, <3>3
    <3>4. CASE ~abort.raised
      <4>1. abort'.id = i /\ abort'.raised
        BY <3>2, <3>4
      <4> QED BY <2>3, <3>1, <3>2, <3>4, <4>1
    <3> QED BY <3>3, <3>4
  <2> QED BY <1>0, <2>1, <2>2, <2>3 DEF ReadRequest
<1>7. phase' \in Running
  BY <1>1, <1>6 DEF Running, endVars
<1>8. /\ abort'.id = abort.id \/ (abort'.id = i /\ ~abort.raised /\ reached' = reached)
      /\ abort.raised => abort' = abort /\ abort'.raised
      /\ abort'.id = i => abort'.raised
  <2>1. abort.id # i
    BY <1>1, <1>4 DEF KnownIds
  <2> QED BY <1>6, <2>1 DEF endVars
<1>9. KnownIds'
  <2>1. s2c'.frame.id \in Names' /\ \A n \in DOMAIN wire' : wire'[n].id \in Names'
    BY <1>1, <1>3 DEF KnownIds
  <2>2. abort'.id \in Names'
    BY <1>1, <1>3, <1>5, <1>8 DEF KnownIds
  <2>3. reached' \subseteq Anyone'
    BY <1>1, <1>4, <1>6 DEF KnownIds
  <2> QED BY <1>3, <1>6, <2>1, <2>2, <2>3 DEF KnownIds
<1>10. PumpsOk'
  <2>1. abort'.id # 0 => abort'.raised
    BY <1>1, <1>6, <1>8 DEF PumpsOk, endVars
  <2> QED BY <1>1, <1>6, <1>7, <2>1 DEF PumpsOk
<1>11. /\ \A j, forms : OnWire(j, forms)' <=> OnWire(j, forms)
       /\ \A j, forms : Carried(j, forms)' <=> Carried(j, forms)
  BY <1>1 DEF OnWire, Carried
<1>12. /\ \A forms : ~OnWire(i, forms) /\ ~Carried(i, forms)
  BY <1>1, <1>4 DEF OnWire, Carried, KnownIds
<1>13. ResultOnce'
  <2>1. ASSUME NEW j \in Anyone', OnWire(j, Results) \/ Carried(j, Results)
        PROVE  ~Has(inflight', j) /\ abort'.id # j
    <3>1. j \in Anyone /\ j # i
      BY <1>4, <1>12, <2>1
    <3> QED BY <1>1, <1>3, <1>8, <2>1, <3>1 DEF ResultOnce
  <2>2. ASSUME abort'.id # 0 PROVE abort'.id \notin reached' \/ s2c'.at = "ended"
    <3>1. CASE abort'.id = abort.id
      BY <1>1, <1>4, <1>6, <2>2, <3>1 DEF ResultOnce, KnownIds
    <3>2. CASE abort'.id = i /\ reached' = reached
      BY <1>1, <1>4, <3>2 DEF KnownIds
    <3> QED BY <1>8, <3>1, <3>2
  <2> QED BY <1>11, <2>1, <2>2 DEF ResultOnce
<1>14. Superseded(i)' \/ asked'[i].overCap => Lost(i)' /\ Excused(i)'
  BY DEF Lost, Excused
<1>15. Reckoned'
  <2>1. ASSUME s2c.at # "ended", NEW j \in reached'
        PROVE  Has(inflight', j) \/ Lost(j)' \/ Carried(j, Results)
    <3>1. CASE j \in reached
      BY <1>1, <1>3, <2>1, <3>1 DEF Reckoned, KnownIds
    <3>2. CASE j = i
      <4>1. Has(inflight', i) \/ Lost(i)'
        BY <1>3, <1>14
      <4> QED BY <3>2, <4>1
    <3> QED BY <1>6, <3>1, <3>2
  <2> QED BY <1>1, <1>3, <1>11, <2>1 DEF Reckoned
<1>16. Accounts'
  <2>1. ASSUME client.reads, NEW j \in Anyone' PROVE Excused(j)' \/ Waiting(j)'
    <3>1. CASE j = i
      <4>1. Has(inflight', i) => Waiting(i)'
        BY DEF Waiting
      <4>2. Excused(i)' \/ Waiting(i)'
        BY <1>3, <1>14, <4>1
      <4> QED BY <3>1, <4>2
    <3>2. CASE j \in Anyone
      <4>1. Excused(j) \/ Waiting(j)
        BY <1>1, <2>1, <3>2 DEF Accounts
      <4>2. Excused(j) => Excused(j)'
        BY <1>3, <3>2
      <4>3. Has(inflight, j) => Has(inflight', j) \/ Excused(j)'
        <5>1. Lost(j)' => Excused(j)'
          BY DEF Lost, Excused, OnWire, Results, Forms
        <5> QED BY <1>3, <3>2, <5>1
      <4>4. abort.id = j => abort'.id = j
        <5>1. j # 0
          BY <1>1, <3>2, TypesSay
        <5> QED BY <1>1, <1>8, <5>1 DEF PumpsOk
      <4> QED BY <1>11, <4>1, <4>2, <4>3, <4>4 DEF Waiting
    <3> QED BY <1>4, <3>1, <3>2
  <2>2. phase' \notin {"grace", "term", "kill", "over"}
    BY <1>7 DEF Running
  <2> QED BY <1>1, <2>1, <2>2 DEF Accounts
<1>17. OneDropped'
  BY <1>1 DEF OneDropped
<1> QED BY <1>2, <1>3, <1>9, <1>10, <1>13, <1>15, <1>16, <1>17 DEF GuardInv

-----------------------------------------------------------------------------
(* The guard answers in the server's place.                                  *)

Distinct(ids) == \A m, n \in DOMAIN ids : m # n => ids[m] # ids[n]

LEMMA TellingIs ==
  ASSUME GuardInv, phase \in Running, NEW ids \in Seq(Anyone), Distinct(ids),
         \A n \in DOMAIN ids : ~OnWire(ids[n], Results),
         NEW form \in {"transport", "aborted"}, wire' = Told(ids, form),
         UNCHANGED <<config, asked, client>>
  PROVE  /\ wire' \in Seq(WireFrame) /\ WireOk'
         /\ \A n \in DOMAIN wire' : wire'[n].id \in Names
         /\ \A i : OnWire(i, Results)' <=> OnWire(i, Results)
         /\ \A i, forms : OnWire(i, forms) => OnWire(i, forms)'
         /\ client.reads => \A n \in DOMAIN ids : OnWire(ids[n], Forms)'
<1>0. PICK z \in Nat, y \in Nat : z = Len(wire) /\ y = Len(ids)
  BY DEF GuardInv, TypeOK
<1>1. /\ TypeOK /\ KnownIds /\ PumpsOk /\ WireOk /\ Anyone \subseteq Ids /\ 0 \notin Ids
      /\ wire \in Seq(WireFrame) /\ DOMAIN wire = 1..z /\ DOMAIN ids = 1..y /\ config' = config
      /\ \A n \in 1..y : ids[n] \in Anyone
  BY <1>0, TypesSay DEF GuardInv, TypeOK
<1>2. \A n \in 1..z : wire[n].form \notin {"transport", "aborted"}
  BY <1>1 DEF PumpsOk
<1>3. \A i : Superseded(i)' = Superseded(i)
  BY DEF Superseded, AskedIds
<1>4. CASE ~client.reads
  <2>1. wire' = wire
    BY <1>4 DEF Told
  <2>2. WireOk'
    BY <1>1, <2>1, WireStays
  <2> QED BY <1>1, <1>4, <2>1, <2>2 DEF KnownIds, OnWire
<1>5. CASE client.reads
  <2> DEFINE tail == [n \in 1..y |-> Blank(ids[n], form)]
  <2>1. wire' = wire \o tail
    BY <1>1, <1>5 DEF Told
  <2>2. ASSUME NEW n \in 1..y
        PROVE  tail[n] \in WireFrame /\ tail[n].id = ids[n] /\ tail[n].form = form /\ tail[n].marks = {}
    <3>1. ids[n] \in Ids \cup {0} /\ form \in Forms
      BY <1>1 DEF Forms
    <3>2. /\ Blank(ids[n], form) \in WireFrame /\ Blank(ids[n], form).id = ids[n]
          /\ Blank(ids[n], form).form = form /\ Blank(ids[n], form).marks = {}
      <4>1. \A i \in Ids \cup {0}, f \in Forms :
                /\ Blank(i, f) \in WireFrame /\ Blank(i, f).id = i
                /\ Blank(i, f).form = f /\ Blank(i, f).marks = {}
        BY BlankIs, Zenon
      <4> QED BY <3>1, <4>1, Zenon
    <3> QED BY <3>2
  <2>3. tail \in Seq(WireFrame) /\ Len(tail) = y
    <3>1. tail \in [1..y -> WireFrame]
      BY <2>2
    <3> QED BY <3>1
  <2> HIDE DEF tail
  <2>4. /\ wire' \in Seq(WireFrame) /\ Len(wire') = z + y
        /\ \A n \in 1..(z + y) : wire'[n] = IF n <= z THEN wire[n] ELSE tail[n - z]
    <3>1. /\ wire \o tail \in Seq(WireFrame) /\ Len(wire \o tail) = Len(wire) + Len(tail)
          /\ \A n \in 1..(Len(wire) + Len(tail)) :
               (wire \o tail)[n] = IF n <= Len(wire) THEN wire[n] ELSE tail[n - Len(wire)]
      BY <1>1, <2>3, ConcatProperties
    <3> QED BY <1>0, <2>1, <2>3, <3>1
  <2>5. DOMAIN wire' = 1..(z + y)
    BY <2>4
  <2>6. ASSUME NEW n \in 1..z PROVE n \in DOMAIN wire' /\ wire'[n] = wire[n]
    BY <2>4, <2>5
  <2>7. ASSUME NEW n \in 1..y
        PROVE  /\ z + n \in DOMAIN wire' /\ wire'[z + n].id = ids[n] /\ wire'[z + n].form = form
               /\ wire'[z + n].marks = {}
    <3>1. z + n \in 1..(z + y) /\ ~(z + n <= z) /\ z + n - z = n
      OBVIOUS
    <3>2. wire'[z + n] = tail[z + n - z]
      BY <2>4, <3>1
    <3> QED BY <2>2, <2>5, <3>1, <3>2
  <2>8. ASSUME NEW n \in DOMAIN wire' PROVE n \in 1..z \/ \E m \in 1..y : n = z + m
    <3>1. n \in 1..(z + y)
      BY <2>5
    <3>2. CASE ~(n <= z)
      <4>1. n - z \in 1..y /\ n = z + (n - z)
        BY <3>1, <3>2
      <4> QED BY <4>1
    <3> QED BY <3>1, <3>2
  <2>9. ASSUME NEW n \in DOMAIN wire' PROVE wire'[n].id \in Names
    <3>1. CASE n \in 1..z
      BY <1>1, <2>6, <3>1 DEF KnownIds
    <3>2. ASSUME NEW m \in 1..y, n = z + m PROVE wire'[n].id \in Names
      BY <1>1, <2>7, <3>2 DEF Names
    <3> QED BY <2>8, <3>1, <3>2
  <2>10. \A i : OnWire(i, Results)' <=> OnWire(i, Results)
    <3>1. ASSUME NEW i, NEW n \in DOMAIN wire', wire'[n].id = i, wire'[n].form \in Results
          PROVE  OnWire(i, Results)
      <4>1. ASSUME NEW m \in 1..y, n = z + m PROVE FALSE
        BY <2>7, <3>1, <4>1 DEF Results
      <4>2. n \in 1..z
        BY <2>8, <4>1
      <4> QED BY <1>1, <2>6, <3>1, <4>2 DEF OnWire
    <3>2. ASSUME NEW i, OnWire(i, Results) PROVE OnWire(i, Results)'
      BY <1>1, <2>6, <3>2 DEF OnWire
    <3> QED BY <3>1, <3>2 DEF OnWire
  <2>11. \A i, forms : OnWire(i, forms) => OnWire(i, forms)'
    BY <1>1, <2>6 DEF OnWire
  <2>12. ASSUME NEW n \in DOMAIN ids PROVE OnWire(ids[n], Forms)'
    <3>1. PICK i : i = ids[n]
      OBVIOUS
    <3>2. OnWire(i, Forms)'
      BY <1>1, <2>7, <3>1 DEF OnWire, Forms
    <3> QED BY <3>1, <3>2
  <2>13. ASSUME NEW n \in 1..z PROVE Uncorrelated(n)' = Uncorrelated(n)
    <3>1. \A k \in 1..(n - 1) : k \in 1..z
      OBVIOUS
    <3>2. wire'[n] = wire[n] /\ \A k \in 1..(n - 1) : wire'[k] = wire[k]
      BY <2>6, <3>1
    <3> QED BY <1>3, <3>2 DEF Uncorrelated
  <2>14. NamedOnWire'
    <3>1. ASSUME NEW n \in DOMAIN wire' PROVE Named(wire'[n])
      <4>1. CASE n \in 1..z
        BY <1>1, <2>6, <4>1 DEF WireOk, NamedOnWire
      <4>2. ASSUME NEW m \in 1..y, n = z + m PROVE Named(wire'[n])
        BY <2>7, <4>2 DEF Named
      <4> QED BY <2>8, <4>1, <4>2
    <3> QED BY <3>1 DEF NamedOnWire, Named
  <2>15. NoResultAnsweredTwice'
    <3>1. ASSUME NEW k \in DOMAIN wire', NEW n \in DOMAIN wire', k < n, wire'[k].id = wire'[n].id,
                 wire'[n].form \in {"transport", "aborted"}
          PROVE  wire'[k].form \in {"error", "denied", "overCap", "unread", "changed", "partial"}
      <4>1. n \notin 1..z
        BY <1>2, <2>6, <3>1
      <4>2. PICK m \in 1..y : n = z + m
        BY <2>8, <4>1
      <4>3. CASE k \in 1..z
        <5>1. wire[k].id = ids[m] /\ wire'[k] = wire[k] /\ ids[m] # 0
          BY <1>1, <2>6, <2>7, <3>1, <4>2, <4>3
        <5>2. wire[k].form \notin Results
          BY <1>1, <4>3, <5>1 DEF OnWire
        <5>3. wire[k].form \notin {"transport", "aborted"}
          BY <1>2, <4>3
        <5>4. wire[k] \in WireFrame
          BY <1>1, <4>3
        <5>5. wire[k].form \in Forms
          BY <5>4 DEF WireFrame
        <5> QED BY <5>1, <5>2, <5>3, <5>5 DEF Forms, Results
      <4>4. ASSUME NEW h \in 1..y, k = z + h PROVE FALSE
        <5>1. h # m
          BY <3>1, <4>2, <4>4
        <5>2. ids[h] = ids[m]
          BY <2>7, <3>1, <4>2, <4>4
        <5> QED BY <1>1, <5>1, <5>2 DEF Distinct
      <4> QED BY <2>8, <4>3, <4>4
    <3> QED BY <3>1 DEF NoResultAnsweredTwice
  <2>16. ActedUponUnlessUncorrelated'
    <3>1. ASSUME NEW n \in DOMAIN wire', wire'[n].form # "redacted",
                 Treatment(config', wire'[n].marks) # "raw"
          PROVE  \/ wire'[n].form \in NotAResult
                 \/ wire'[n].form = "raw" /\ Uncorrelated(n)'
                 \/ wire'[n].form = "unchecked" /\ (Uncorrelated(n)' \/ ~config'.strict)
                 \/ wire'[n].form = "overCap" /\ (Uncorrelated(n)' \/ ~config'.strictFrameCap)
      <4>1. n \in 1..z
        <5>1. Treatment(config, {}) = "raw"
          BY TreatmentIs
        <5> QED BY <1>1, <2>7, <2>8, <3>1, <5>1
      <4> QED BY <1>1, <2>6, <2>13, <3>1, <4>1 DEF WireOk, ActedUponUnlessUncorrelated
    <3> QED BY <3>1 DEF ActedUponUnlessUncorrelated
  <2>17. FirstListIsGated'
    <3>1. GateOn' = GateOn
      BY DEF GateOn, ListChangedEnabled
    <3>2. \A m \in 1..z : IsList(m)' = IsList(m)
      BY <2>6 DEF IsList
    <3>3. SUFFICES ASSUME GateOn, NEW k \in DOMAIN wire', NEW n \in DOMAIN wire', k < n,
                          wire'[k].form = "changed", IsList(n)', wire'[n].form = "raw",
                          wire'[n].surface = "drifted"
                   PROVE  \/ Uncorrelated(n)'
                          \/ \E m \in (k + 1)..(n - 1) :
                               IsList(m)' /\ wire'[m].form \in {"raw", "unchecked", "bare", "blocked"}
      BY <3>1 DEF FirstListIsGated
    <3>4. k \in 1..z /\ n \in 1..z
      BY <2>7, <2>8, <3>3
    <3>5. wire'[k] = wire[k] /\ wire'[n] = wire[n] /\ IsList(n) /\ Uncorrelated(n)' = Uncorrelated(n)
      BY <2>6, <2>13, <3>2, <3>3, <3>4
    <3>6. \/ Uncorrelated(n)
          \/ \E m \in (k + 1)..(n - 1) : IsList(m) /\ wire[m].form \in {"raw", "unchecked", "bare", "blocked"}
      BY <1>1, <3>3, <3>4, <3>5 DEF WireOk, FirstListIsGated
    <3>7. \A m \in (k + 1)..(n - 1) : m \in 1..z
      BY <3>4
    <3> QED BY <2>6, <3>2, <3>5, <3>6, <3>7
  <2> QED BY <2>4, <2>9, <2>10, <2>11, <2>12, <2>14, <2>15, <2>16, <2>17 DEF WireOk
<1> QED BY <1>4, <1>5

\* The ids of some requests in flight, in their order.
LEMMA IdsAre ==
  ASSUME GuardInv, NEW q \in Seq(InFlight), Ascending(q), \A j : Has(q, j) => Has(inflight, j)
  PROVE  /\ IdsOf(q) \in Seq(Anyone) /\ Distinct(IdsOf(q)) /\ DOMAIN IdsOf(q) = DOMAIN q
         /\ Len(IdsOf(q)) = Len(q)
         /\ \A n \in DOMAIN q : IdsOf(q)[n] = q[n].id /\ Has(inflight, q[n].id)
<1>1. Len(q) \in Nat /\ DOMAIN q = 1..Len(q)
  OBVIOUS
<1>2. ASSUME NEW n \in DOMAIN q PROVE Has(inflight, q[n].id) /\ q[n].id \in Anyone /\ q[n].id \in Nat
  <2>1. Has(q, q[n].id)
    BY DEF Has
  <2>2. Has(inflight, q[n].id)
    BY <2>1
  <2>3. q[n].id \in Anyone
    BY <2>2 DEF Has, GuardInv, KnownIds
  <2> QED BY <2>2, <2>3, TypesSay DEF GuardInv
<1>3. IdsOf(q) \in [1..Len(q) -> Anyone] /\ \A n \in DOMAIN q : IdsOf(q)[n] = q[n].id
  BY <1>1, <1>2 DEF IdsOf
<1>4. IdsOf(q) \in Seq(Anyone) /\ Len(IdsOf(q)) = Len(q) /\ DOMAIN IdsOf(q) = DOMAIN q
  BY <1>1, <1>3
<1>5. ASSUME NEW m \in DOMAIN q, NEW n \in DOMAIN q, m # n PROVE q[m].id # q[n].id
  <2>1. m < n \/ n < m
    BY <1>1, <1>5
  <2>2. q[m].id < q[n].id \/ q[n].id < q[m].id
    BY <2>1 DEF Ascending
  <2> QED BY <1>2, <2>2
<1> QED BY <1>2, <1>3, <1>4, <1>5 DEF Distinct

\* What both ways of answering leave: the pumps have ended, and every request
\* that waited was told.
LEMMA SettledKeeps ==
  ASSUME GuardInv, GroupLeft, NEW ids \in Seq(Anyone), Distinct(ids),
         \A n \in DOMAIN ids : ~OnWire(ids[n], Results),
         NEW form \in {"transport", "aborted"}, wire' = Told(ids, form),
         \A i \in Anyone : Has(inflight, i) \/ abort.id = i => \E n \in DOMAIN ids : ids[n] = i,
         inflight' = <<>>,
         phase' \in {"grace", "over"},
         UNCHANGED <<config, armed, c2s, s2c, chan, abort, fault, child, client, asked, reached,
                     frames, dropped>>
  PROVE  GuardInv'
<1>1. /\ TypeOK /\ KnownIds /\ PumpsOk /\ ResultOnce /\ Reckoned /\ OneDropped /\ Accounts
      /\ phase \in Running /\ c2s.at = "ended" /\ s2c.at = "ended" /\ phase' \notin Running
  BY DEF GuardInv, GroupLeft, Running
<1>2. /\ wire' \in Seq(WireFrame) /\ WireOk'
      /\ \A n \in DOMAIN wire' : wire'[n].id \in Names
      /\ \A i : OnWire(i, Results)' <=> OnWire(i, Results)
      /\ \A i, forms : OnWire(i, forms) => OnWire(i, forms)'
      /\ client.reads => \A n \in DOMAIN ids : OnWire(ids[n], Forms)'
  BY <1>1, TellingIs
<1>3. Anyone' = Anyone /\ Names' = Names
  BY DEF Anyone, Names
<1>4. ~Carrying(s2c) /\ ~Carrying(c2s) /\ \A i, forms : ~Carried(i, forms)
  BY <1>1 DEF Carrying, Carried
<1>5. \A i : ~Has(inflight', i)
  BY DEF Has
<1>6. TypeOK'
  <2>1. inflight' \in Seq(InFlight) /\ Len(inflight') = 0
    OBVIOUS
  <2>2. config.maxInflight \in Nat
    BY <1>1, TypesSay
  <2> QED BY <1>1, <1>2, <2>1, <2>2 DEF TypeOK, InFlight, Methods
<1>7. KnownIds'
  BY <1>1, <1>2, <1>3 DEF KnownIds, Ascending
<1>8. PumpsOk'
  BY <1>1 DEF PumpsOk, Carrying
<1>9. ResultOnce'
  <2>1. \A i \in Anyone : OnWire(i, Results) => abort.id # i
    BY <1>1 DEF ResultOnce
  <2>2. \A i, forms : ~Carried(i, forms)'
    BY <1>4 DEF Carried
  <2> QED BY <1>1, <1>2, <1>3, <1>5, <2>1, <2>2 DEF ResultOnce
<1>10. Reckoned'
  BY <1>1, <1>4 DEF Reckoned, Carrying
<1>11. OneDropped'
  BY <1>1 DEF OneDropped
<1>12. GateOk'
  BY <1>1, <1>4 DEF GateOk, Carrying
<1>13. Accounts'
  <2>1. ASSUME client.reads, NEW i \in Anyone PROVE Excused(i)'
    <3>1. Excused(i) \/ Has(inflight, i) \/ abort.id = i
      BY <1>1, <1>4, <2>1 DEF Accounts, Waiting
    <3>2. Superseded(i)' = Superseded(i)
      BY DEF Superseded, AskedIds
    <3>3. Excused(i) => Excused(i)'
      BY <1>2, <3>2 DEF Excused
    <3>4. ASSUME NEW n \in DOMAIN ids, ids[n] = i PROVE Excused(i)'
      <4>1. PICK j : j = ids[n]
        OBVIOUS
      <4>2. OnWire(j, Forms)'
        BY <1>2, <2>1, <4>1
      <4> QED BY <3>4, <4>1, <4>2 DEF Excused
    <3> QED BY <3>1, <3>3, <3>4
  <2> QED BY <1>1, <1>3, <2>1 DEF Accounts
<1> QED BY <1>2, <1>6, <1>7, <1>8, <1>9, <1>10, <1>11, <1>12, <1>13 DEF GuardInv

LEMMA AnswerPendingKeeps ==
  ASSUME GuardInv, AnswerPending
  PROVE  GuardInv'
<1>1. inflight \in Seq(InFlight) /\ Ascending(inflight) /\ ResultOnce /\ PumpsOk /\ Anyone \subseteq Ids /\ 0 \notin Ids
  BY TypesSay DEF GuardInv, KnownIds
<1> DEFINE ids == IdsOf(inflight)
<1>2. /\ ids \in Seq(Anyone) /\ Distinct(ids) /\ DOMAIN ids = DOMAIN inflight
      /\ \A n \in DOMAIN inflight : ids[n] = inflight[n].id /\ Has(inflight, inflight[n].id)
  BY <1>1, IdsAre
<1>3. wire' = Told(ids, "transport")
  BY DEF AnswerPending, InflightIds
<1> HIDE DEF ids
<1>4. \A n \in DOMAIN ids : ids[n] \in Anyone /\ Has(inflight, ids[n])
  BY <1>2
<1>5. \A n \in DOMAIN ids : ~OnWire(ids[n], Results)
  BY <1>1, <1>4 DEF ResultOnce
<1>6. ASSUME NEW i \in Anyone, Has(inflight, i) \/ abort.id = i PROVE \E n \in DOMAIN ids : ids[n] = i
  <2>1. abort.id = 0
    BY <1>1 DEF AnswerPending, PumpsOk
  <2> QED BY <1>1, <1>2, <1>6, <2>1 DEF Has
<1>7. /\ GroupLeft /\ inflight' = <<>> /\ phase' \in {"grace", "over"}
      /\ UNCHANGED <<config, armed, c2s, s2c, chan, abort, fault, child, client, asked, reached,
                     frames, dropped>>
  BY DEF AnswerPending, LeaveUnchanged
<1> QED BY <1>2, <1>3, <1>5, <1>6, <1>7, SettledKeeps

LEMMA HandleAbortKeeps ==
  ASSUME GuardInv, HandleAbort
  PROVE  GuardInv'
<1>1. /\ TypeOK /\ inflight \in Seq(InFlight) /\ Ascending(inflight) /\ ResultOnce
      /\ abort.id \in Names /\ Anyone \subseteq Ids /\ 0 \notin Ids
  BY TypesSay DEF GuardInv, KnownIds
<1> DEFINE q == Popped(abort.id)
           rest == IdsOf(q)
           own == IF abort.id = 0 THEN <<>> ELSE <<abort.id>>
           ids == own \o rest
<1>2. q \in Seq(InFlight) /\ Ascending(q) /\ \A j : Has(q, j) <=> Has(inflight, j) /\ j # abort.id
  BY <1>1, PoppedIs
<1> HIDE DEF q
<1>3. /\ rest \in Seq(Anyone) /\ Distinct(rest) /\ DOMAIN rest = DOMAIN q /\ Len(rest) = Len(q)
      /\ \A n \in DOMAIN q : rest[n] = q[n].id /\ Has(inflight, q[n].id)
  BY <1>2, IdsAre
<1>4. \A n \in DOMAIN rest : rest[n] # abort.id /\ Has(inflight, rest[n])
  BY <1>2, <1>3 DEF Has
<1> HIDE DEF rest
<1>5. own \in Seq(Anyone) /\ \A n \in DOMAIN own : n = 1 /\ own[n] = abort.id /\ abort.id # 0
  <2>1. CASE abort.id = 0
    BY <2>1
  <2>2. CASE abort.id # 0
    <3>1. abort.id \in Anyone
      BY <1>1, <2>2 DEF Names
    <3> QED BY <2>2, <3>1
  <2> QED BY <2>1, <2>2
<1>6. abort.id # 0 => 1 \in DOMAIN own /\ own[1] = abort.id
  OBVIOUS
<1> HIDE DEF own
<1>7. /\ ids \in Seq(Anyone) /\ Len(ids) = Len(own) + Len(rest)
      /\ \A n \in 1..(Len(own) + Len(rest)) :
           ids[n] = IF n <= Len(own) THEN own[n] ELSE rest[n - Len(own)]
  BY <1>3, <1>5, ConcatProperties
<1>8. wire' = Told(ids, "aborted") /\ inflight' = IF ids = <<>> THEN inflight ELSE <<>>
  BY DEF HandleAbort, AbortIds, ids, own, rest, q
<1> HIDE DEF ids
<1>9. /\ Len(own) \in Nat /\ Len(rest) \in Nat /\ DOMAIN own = 1..Len(own) /\ DOMAIN rest = 1..Len(rest)
      /\ DOMAIN ids = 1..(Len(own) + Len(rest))
  BY <1>3, <1>5, <1>7
<1>10. ASSUME NEW n \in DOMAIN ids
       PROVE  \/ n \in DOMAIN own /\ ids[n] = own[n]
              \/ n - Len(own) \in DOMAIN rest /\ ids[n] = rest[n - Len(own)] /\ n \notin DOMAIN own
  BY <1>7, <1>9
<1>11. Distinct(ids)
  <2>1. ASSUME NEW m \in DOMAIN ids, NEW n \in DOMAIN ids, m # n PROVE ids[m] # ids[n]
    <3>1. CASE m \in DOMAIN own /\ n \in DOMAIN own
      BY <1>5, <2>1, <3>1
    <3>2. CASE m \notin DOMAIN own /\ n \notin DOMAIN own
      <4>1. m - Len(own) # n - Len(own)
        BY <1>9, <2>1
      <4> QED BY <1>3, <1>10, <3>2, <4>1 DEF Distinct
    <3> QED BY <1>4, <1>5, <1>10, <3>1, <3>2
  <2> QED BY <2>1 DEF Distinct
<1>12. ASSUME NEW n \in DOMAIN ids PROVE ~OnWire(ids[n], Results)
  <2>1. ids[n] \in Anyone
    BY <1>7, <1>9
  <2>2. ids[n] = abort.id \/ Has(inflight, ids[n])
    BY <1>4, <1>5, <1>10
  <2> QED BY <1>1, <2>1, <2>2 DEF ResultOnce
<1>13. ASSUME NEW i \in Anyone, Has(inflight, i) \/ abort.id = i PROVE \E n \in DOMAIN ids : ids[n] = i
  <2>1. CASE abort.id = i
    <3>1. 1 \in DOMAIN own /\ own[1] = i
      BY <1>1, <1>6, <2>1
    <3>2. 1 \in DOMAIN ids /\ ids[1] = own[1]
      BY <1>7, <1>9, <3>1
    <3> QED BY <3>1, <3>2
  <2>2. CASE abort.id # i
    <3>1. PICK m \in DOMAIN rest : rest[m] = i
      <4>1. Has(q, i)
        BY <1>2, <1>13, <2>2
      <4>2. PICK m \in DOMAIN q : q[m].id = i
        BY <4>1 DEF Has
      <4> QED BY <1>3, <4>2
    <3>2. m + Len(own) \in DOMAIN ids /\ m + Len(own) - Len(own) = m /\ ~(m + Len(own) <= Len(own))
      BY <1>9
    <3>3. ids[m + Len(own)] = rest[m + Len(own) - Len(own)]
      BY <1>7, <1>9, <3>2
    <3> QED BY <3>1, <3>2, <3>3
  <2> QED BY <2>1, <2>2
<1>14. inflight' = <<>>
  <2>1. CASE ids # <<>>
    BY <1>8, <2>1
  <2>2. CASE ids = <<>>
    <3>1. DOMAIN ids = {}
      BY <2>2
    <3>2. \A n \in DOMAIN inflight : inflight[n].id \in Anyone /\ Has(inflight, inflight[n].id)
      BY DEF GuardInv, KnownIds, Has
    <3>3. DOMAIN inflight = {}
      BY <1>13, <3>1, <3>2
    <3>4. inflight = <<>>
      BY <1>1, <3>3
    <3> QED BY <1>8, <2>2, <3>4
  <2> QED BY <2>1, <2>2
<1>15. /\ GroupLeft /\ phase' \in {"grace", "over"}
       /\ UNCHANGED <<config, armed, c2s, s2c, chan, abort, fault, child, client, asked, reached,
                     frames, dropped>>
  BY DEF HandleAbort, LeaveUnchanged
<1> QED BY <1>7, <1>8, <1>11, <1>12, <1>13, <1>14, <1>15, SettledKeeps

-----------------------------------------------------------------------------
(* The theorems.                                                             *)

LEMMA GuardInvInit == Init => GuardInv
<1> SUFFICES ASSUME Init PROVE GuardInv
  OBVIOUS
<1>1. /\ config \in Configs /\ config.maxInflight \in Nat
  BY ConfigIs DEF Init
<1>2. At("read") \in Pump /\ At("read").at = "read" /\ At("read").frame.id = 0
  BY AtIs DEF Places
<1>3. TypeOK
  <2>1. /\ inflight \in Seq(InFlight) /\ Len(inflight) = 0 /\ asked \in Seq(Requests) /\ Len(asked) = 0
        /\ wire \in Seq(WireFrame)
    BY DEF Init
  <2>2. Len(inflight) <= config.maxInflight /\ Len(asked) <= MaxRequests /\ frames \in 0..MaxFrames
    BY <1>1, <2>1, SessionConstants DEF Init
  <2>3. /\ c2s \in Pump /\ s2c \in Pump /\ chan \in [eof : BOOLEAN, pipeBroken : BOOLEAN]
        /\ client \in [writes : BOOLEAN, reads : BOOLEAN]
        /\ abort \in [raised : BOOLEAN, id : Ids \cup {0}]
    BY <1>2 DEF Init
  <2> QED BY <1>1, <2>1, <2>2, <2>3 DEF Init, TypeOK, InFlight, Methods
<1>4. Anyone = {} /\ DOMAIN wire = {} /\ DOMAIN inflight = {} /\ reached = {} /\ dropped = {}
  BY DEF Init, Anyone
<1>5. ~Carrying(s2c) /\ ~Carrying(c2s) /\ phase = "running" /\ abort.id = 0 /\ ~chan.pipeBroken
  BY <1>2 DEF Init, Carrying
<1>6. KnownIds
  BY <1>2, <1>4, <1>5 DEF Init, KnownIds, Names, Ascending
<1>7. PumpsOk /\ ResultOnce /\ Reckoned /\ OneDropped
  BY <1>4, <1>5 DEF PumpsOk, ResultOnce, Reckoned, OneDropped, Running
<1>8. Accounts /\ GateOk
  BY <1>4, <1>5 DEF Accounts, GateOk, AllListed, Running
<1>9. WireOk
  BY <1>4 DEF WireOk, NamedOnWire, NoResultAnsweredTwice, ActedUponUnlessUncorrelated, FirstListIsGated
<1> QED BY <1>3, <1>6, <1>7, <1>8, <1>9 DEF GuardInv

LEMMA GuardInvNext == GuardInv /\ [Next]_vars => GuardInv'
<1> SUFFICES ASSUME GuardInv, [Next]_vars PROVE GuardInv'
  OBVIOUS
<1>1. CASE Pumping
  <2>1. CASE \E r \in Requests : ReadRequest(r)
    BY <2>1, ReadRequestKeeps
  <2>2. CASE DrainBreaks \/ ClientEof \/ ServerEof
    BY <2>2, QuietSteps
  <2>3. CASE ServerFrame
    BY <2>3, ServerFrameKeeps
  <2>4. CASE Dispatch
    BY <2>4, DispatchKeeps
  <2>5. CASE WriteBreaks
    BY <2>5, WriteBreaksKeeps
  <2> QED BY <1>1, <2>1, <2>2, <2>3, <2>4, <2>5 DEF Pumping
<1>2. CASE Leaving
  <2>1. CASE PumpCancelled
    BY <2>1, PumpCancelledKeeps
  <2>2. CASE HandleAbort
    BY <2>2, HandleAbortKeeps
  <2>3. CASE AnswerPending
    BY <2>3, AnswerPendingKeeps
  <2>4. CASE Cancel \/ Reraise \/ TearDown \/ GraceExpires \/ Reaped
    BY <2>4, QuietSteps
  <2> QED BY <1>2, <2>1, <2>2, <2>3, <2>4 DEF Leaving
<1>3. CASE Written
  BY <1>3, WrittenKeeps
<1>4. CASE Drained \/ ChildExits \/ ClientStops
  BY <1>4, QuietSteps
<1>5. CASE UNCHANGED vars
  <2>1. UNCHANGED <<config, inflight, armed, c2s, s2c, chan, phase, abort, fault, child, client,
                    asked, reached, frames, wire, dropped>>
    BY <1>5 DEF vars
  <2>2. TypeOK' /\ OneDropped' /\ PumpsOk /\ c2s'.frame.id \in Names
    BY <2>1 DEF GuardInv, TypeOK, OneDropped, KnownIds
  <2>3. \A i, forms : Carried(i, forms)' <=> Carried(i, forms)
    BY <2>1 DEF Carried
  <2>4. Accounts'
    BY <2>1, <2>3, AccountsStay DEF Settled
  <2> QED BY <2>1, <2>2, <2>4, Quiet DEF PumpsOk
<1> QED BY <1>1, <1>2, <1>3, <1>4, <1>5 DEF Next, Ended

\* The guard's invariant: what is in flight, what the pumps hold, what is on
\* the wire and what was dropped add up, and what was promised of the wire holds.
THEOREM GuardInvariant == Spec => []GuardInv
BY GuardInvInit, GuardInvNext, PTL DEF Spec

\* Every variable keeps its type; above all the map of requests in flight never
\* grows past the configured bound, and no pump holds what is not a frame.
THEOREM GuardTypes == Spec => []TypeOK
<1>1. GuardInv => TypeOK
  BY DEF GuardInv
<1> QED BY <1>1, GuardInvariant, PTL

\* The guard answers in the server's place only where no result was correlated,
\* whatever the order in which results, cancellations and aborts arrive.
THEOREM AnsweredOnce == Spec => []NoResultAnsweredTwice
<1>1. GuardInv => NoResultAnsweredTwice
  BY DEF GuardInv, WireOk
<1> QED BY <1>1, GuardInvariant, PTL

\* A session that ends by itself, or by a strict abort, leaves at most one
\* recorded request of a client still reading without an answer: the one whose
\* answer a cancellation or a second abort dropped.
THEOREM AllButOneAnswered == Spec => []OnlyTheDroppedIsUnanswered
<1>1. GuardInv => OnlyTheDroppedIsUnanswered
  <2> SUFFICES ASSUME GuardInv PROVE OnlyTheDroppedIsUnanswered
    OBVIOUS
  <2>1. Cardinality(dropped) <= 1
    <3>1. CASE dropped = {}
      BY <3>1, FS_EmptySet
    <3>2. ASSUME NEW x \in Ids, dropped = {x} PROVE Cardinality(dropped) <= 1
      <4>1. Cardinality({x}) = 1
        BY FS_Singleton
      <4> QED BY <3>2, <4>1
    <3> QED BY <3>1, <3>2 DEF GuardInv, OneDropped
  <2>2. ASSUME phase = "over", client.reads, abort.raised \/ ~chan.eof, NEW i \in AskedIds
        PROVE  \/ asked[i].overCap \/ Superseded(i) \/ i \in dropped
               \/ \E n \in DOMAIN wire : wire[n].id = i
    <3>1. Excused(i)
      BY <2>2 DEF GuardInv, Accounts, AskedIds, Anyone
    <3> QED BY <3>1 DEF Excused, OnWire
  <2> QED BY <2>1, <2>2 DEF OnlyTheDroppedIsUnanswered
<1> QED BY <1>1, GuardInvariant, PTL

\* Content the configuration acts upon reaches the client unredacted only in a
\* frame that is not one with an object for a result (handle_s2c reads no other),
\* for a request the guard could not correlate any more, or where inspection
\* could not be done, or was not for the size, and the mode for that case fails
\* open.
THEOREM ActedUponReaches == Spec => []ActedUponUnlessUncorrelated
<1>1. GuardInv => ActedUponUnlessUncorrelated
  BY DEF GuardInv, WireOk
<1> QED BY <1>1, GuardInvariant, PTL

\* The first correlated answer to a tools/list after a list_changed is gated:
\* a drifted list reaches the client raw only after it, or uncorrelated.
THEOREM ListIsGated == Spec => []FirstListIsGated
<1>1. GuardInv => FirstListIsGated
  BY DEF GuardInv, WireOk
<1> QED BY <1>1, GuardInvariant, PTL
=============================================================================
