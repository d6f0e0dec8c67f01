-------------------------- MODULE AdapterConformance --------------------------
(***************************************************************************)
(* The conformance harness of an enforcement point                         *)
(* (adapter_conformance.py over PolicyEnforcementPointV1._execute_instru-  *)
(* mented): the caller's cases and five fixed ones, each executed and      *)
(* compared with what it expects.  A report is a function of the point, of *)
(* the world, and of how the gate and the handlers behave meanwhile.       *)
(***************************************************************************)
EXTENDS PolicyEnforcement, SequencesExt

CONSTANTS Suites,     \* lists of cases, by name
          Gates       \* how the gate may behave: "answers", "raises", "forges"

\* What the harness submits that is no request, no runtime, no effect and no valid request, and the
\* two effects it makes itself.
ASSUME HarnessInputs ==
    /\ Requests["object"].shape = "foreign" /\ Requests["broken"].shape = "broken"
    /\ "object" \in DOMAIN Runtimes /\ ~Runtimes["object"].sealed /\ Effects["object"].form = "foreign"
    /\ EffectOk(Effects["args"]) /\ EffectOk(Effects["other"])
    /\ Effects["args"].arguments # Effects["other"].arguments

\* A suite is a list of cases; a gate answers or fails; a manifest has an operation.
SuiteCase == [request : DOMAIN Requests, runtime : DOMAIN Runtimes, effect : DOMAIN Effects,
              code : STRING, invoked : BOOLEAN, planted : SUBSET STRING]
ASSUME HarnessAssumption ==
    /\ \A s \in DOMAIN Suites : Suites[s] \in Seq(SuiteCase)
    /\ Gates \subseteq {"answers", "raises", "forges"}
    /\ \A c \in DOMAIN Candidates : DOMAIN Candidates[c].manifest.operations # {}

-----------------------------------------------------------------------------
(* One instrumented execution.                                             *)

\* How far execute came before the gate.
Stages(request, refusal) ==
    LET early   == {"PEP-EFFECT-DIGEST-MISMATCH", "PEP-ADAPTER-MISMATCH"}
        unfound == {"PEP-BUNDLE-UNAVAILABLE", "PEP-BUNDLE-MISMATCH"}
        bundled == request.operation.capability = "execute" /\ refusal \notin unfound
    IN  IF refusal = "PEP-EFFECT-MALFORMED" THEN <<>>
        ELSE IF request.shape # "exact" THEN <<"effect", "decision">>
        ELSE IF refusal \in early THEN <<"effect", "request">>
        ELSE <<"effect", "request", "adapter">>
             \o (IF bundled THEN <<"bundle">> ELSE <<>>)
             \o (IF refusal \in unfound \cup {"PEP-OPERATION-UNKNOWN"} THEN <<>> ELSE <<"decision">>)

Ended(result, stages) == [result |-> result, events |-> Append(stages, result.code)]

\* The handler the point would call is not what was signed any more.
Drifted(handler) == DigestHandler(world, Code(handler)) # handler.digest

\* What is returned and what was gone through, from the stages on.
Outcome(refusal, stages, gate, drifted, ending) ==
    IF refusal # Nothing THEN Ended(Blocked(refusal), stages)
    ELSE IF gate = "raises" THEN Ended(Blocked("PEP-EVIDENCE-UNAVAILABLE"), stages)
    ELSE IF gate = "forges" THEN Ended(Blocked("PEP-EVIDENCE-MISMATCH"), stages)
    ELSE IF drifted THEN Ended(Blocked("PEP-ADAPTER-MISMATCH"), Append(stages, "evidence"))
    ELSE Ended(SinkResult(ending),
               stages \o <<"evidence", "sink">> \o (IF ending = "raises" THEN <<>> ELSE <<"output">>))
After(refusal, a, request, gate, ending) ==
    Outcome(refusal, Stages(request, refusal), gate,
            Drifted(activation[a].handlers[request.operation.id]), ending)
Instrumented(a, case, gate, ending) ==
    After(SubmitRefusal(Point(a), case.request, case.runtime, case.effect), a, Requests[case.request],
          gate, ending)

-----------------------------------------------------------------------------
(* The harness.                                                            *)

\* The first case whose parts are what they should be lends them to the fixed cases.
Whole(case) == /\ Requests[case.request].shape # "foreign" /\ Runtimes[case.runtime].sealed
               /\ Effects[case.effect].form # "foreign"
HasSeed(cases) == \E i \in DOMAIN cases : Whole(cases[i])
Seed(cases) == cases[CHOOSE i \in DOMAIN cases : Whole(cases[i]) /\ \A j \in 1..(i - 1) : ~Whole(cases[j])]

OneOfThem(e) == "args"                                             \* mutant: perhaps the same effect
Substituted(e) == IF Effects["other"].digest # Effects[e].digest THEN "other" ELSE "args"
FixedCases(seed) ==
    LET case(q, r, e, code) == [request |-> q, runtime |-> r, effect |-> e, code |-> code,
                             invoked |-> FALSE, planted |-> {}] IN
    <<case("object", seed.runtime, seed.effect, "PEP-DECISION-BLOCKED"),
      case(seed.request, "object", seed.effect, "PEP-DECISION-BLOCKED"),
      case(seed.request, seed.runtime, "object", "PEP-EFFECT-MALFORMED"),
      case("broken", seed.runtime, seed.effect, "PEP-DECISION-BLOCKED"),
      case(seed.request, seed.runtime, Substituted(seed.effect), "PEP-EFFECT-DIGEST-MISMATCH")>>

Before(events, one, two) ==
    \E i, j \in DOMAIN events : i < j /\ events[i] = one /\ events[j] = two
Ordered(events, code) ==
    /\ Before(events, "decision", "evidence") /\ Before(events, "evidence", "sink")
    /\ code = "PEP-EXECUTED" => Before(events, "sink", "output")
Instruments(run) ==
    /\ run.events[Len(run.events)] = run.result.code
    /\ ~run.result.invoked => "sink" \notin ToSet(run.events)
    /\ run.result.invoked => Ordered(run.events, run.result.code)

AsTold(case, run) == run.result.code = case.code /\ run.result.invoked = case.invoked
Covers(a, case, run) ==
    /\ run.result.code = "PEP-EXECUTED" /\ run.result.invoked
    /\ Requests[case.request].operation.id \in DOMAIN Manifest(a).operations

\* Every case with what became of it.
Runs(a, cases, gate, ending) == {<<case, Instrumented(a, case, gate, ending)>> : case \in ToSet(cases)}

\* run_adapter_conformance: the failures; a report passes if there is none.
Failures(a, runs) ==
    LET covered    == {Requests[r[1].request].operation.id : r \in {s \in runs : Covers(a, s[1], s[2])}}
        operations == DOMAIN Manifest(a).operations
        failing == [mismatch        |-> \E r \in runs : ~AsTold(r[1], r[2]),
                    leak            |-> \E r \in runs : r[1].planted \cap ToSet(r[2].events) # {},
                    instrumentation |-> \/ \E r \in runs : ~Instruments(r[2])
                                        \/ DOMAIN activation[a].handlers # operations,
                    uncovered       |-> covered # operations,
                    noNegative      |-> \A r \in runs : r[1].invoked]
    IN  {f \in DOMAIN failing : failing[f]}

Passes(a, caller, gate, ending) ==
    HasSeed(caller) /\ Failures(a, Runs(a, caller \o FixedCases(Seed(caller)), gate, ending)) = {}

-----------------------------------------------------------------------------
\* The points the harness is run on, before they serve anybody: executions leave nothing behind
\* that a report looks at.
Points == {a \in Activators : /\ activation[a].phase = "point"
                              /\ \A x \in Executions : execution[x].phase = "idle"}

\* A passing report is evidence about every operation: the handlers the point would call now are
\* all those the manifest signed, undrifted, with a gate that answers and outputs that verify.
PassingMeansConformant ==
    \A a \in Points, gate \in Gates, ending \in Endings :
        ~(/\ gate = "answers" /\ ending \in {"nothing", "envelope"}
          /\ \A o \in DOMAIN Manifest(a).operations :
                 DigestHandler(world, activation[a].handlers[o].code) = Manifest(a).operations[o].handler)
        => \A s \in DOMAIN Suites : ~Passes(a, Suites[s], gate, ending)

\* And a conforming point passes: a suite that expects what the point does, runs every operation,
\* plants nothing, and begins with a case that comes as far as the decision.
Fulfilled(a, first, runs) ==
    /\ \A r \in runs : AsTold(r[1], r[2]) /\ r[1].planted = {}
    /\ \A o \in DOMAIN Manifest(a).operations :
           \E r \in runs : Requests[r[1].request].operation.id = o /\ r[2].result = Executed
    /\ Whole(first) /\ Requests[first.request].shape = "exact"
    /\ \E r \in runs : r[1] = first /\ "decision" \in ToSet(r[2].events)
ConformantPasses ==
    \A a \in Points, s \in DOMAIN Suites, gate \in Gates, ending \in Endings :
        Fulfilled(a, Suites[s][1], Runs(a, Suites[s], gate, ending)) => Passes(a, Suites[s], gate, ending)

\* A report passes for conforming points and for no others, as far as its suite looks.
ReportsAreRight == PassingMeansConformant /\ ConformantPasses
=============================================================================
