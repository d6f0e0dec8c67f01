------------------------ MODULE PolicyEnforcementV2 ------------------------
(***************************************************************************)
(* PolicyEnforcementPointV2._execute (policy_enforcement_v2.py) composed   *)
(* with the evidence coordinator and the recovery protocol: a governed     *)
(* decision, its evidence, the conversion of an allow whose evidence       *)
(* failed, the re-read right before the sink, and the registered handler.  *)
(*                                                                         *)
(* The PDP and the governor are pure and appear by their result: an allow  *)
(* or a negative (deny and quarantine take the same path here).            *)
(***************************************************************************)
EXTENDS EvidenceRecovery, FiniteSets

CONSTANT MaxRequests  \* how many requests are executed in one behaviour

ASSUME RequestsAssumption == MaxRequests \in Nat

VARIABLES
  nextReq,   \* the number of the next request (history)
  effects,   \* handler invocations: request and the evidence they ran on
  outcomes,  \* what execute() returned for each finished request
  healthyDuring  \* whether the system was out of recovery-only mode at some
                 \* instant since each worker's last look before the sink
                 \* began, or its request if it did not yet (history)

history == <<nextReq, effects, outcomes>>
locals  == <<pc, job, seen, seenL, cand, known, lgen, evid>>
vars    == <<ports, budget, locals, issued, history, healthyDuring>>

GovernPcs == {"gov-state", "gov-latch"}
SinkPcs   == {"sink-state", "sink-latch", "sink-primary", "sink-fallback"}
Pcs == {"idle", "recorded", "sink"} \cup GovernPcs \cup RecordPcs
         \cup FallbackPcs \cup LatchPcs \cup SinkPcs \cup ExitPcs

Effect  == [req : Nat, seq : Nat, gen : Nat]
Outcome == [req : Nat, ran : BOOLEAN, verdict : Verdicts, evid : Evidence]

Init ==
  /\ CoordinatorInit
  /\ RecoveryInit
  /\ pc = [a \in Actors |-> "idle"]
  /\ nextReq = 1
  /\ effects = {}
  /\ outcomes = {}
  /\ healthyDuring = [w \in Workers |-> FALSE]

-----------------------------------------------------------------------------
(* A request arrives. Preflight or the clock may already have condemned it:*)
(* then it is a negative that skips the governor, and a bad clock also     *)
(* keeps its receipt off the primary log.                                  *)
Begin(w) ==
  /\ pc[w] = "idle"
  /\ nextReq <= MaxRequests
  /\ \E base \in Verdicts, wellFormed, timely \in BOOLEAN :
       /\ job' = [job EXCEPT ![w] =
                    [req |-> nextReq, timely |-> timely,
                     verdict |-> IF wellFormed /\ timely THEN base ELSE "deny"]]
       /\ Goto(w, IF wellFormed /\ timely THEN "gov-state" ELSE "rec-state")
  /\ nextReq' = nextReq + 1
  /\ UNCHANGED <<ports, budget, seen, seenL, cand, known, lgen, evid,
                 effects, outcomes>>

\* Mutation: the failed allow is tried again as an allow.
RetryAllow(w) ==
  /\ UNCHANGED job
  /\ known' = [known EXCEPT ![w] = FALSE]
  /\ lgen' = [lgen EXCEPT ![w] = 0]
  /\ Goto(w, "rec-state")

(* convert_failed_allow, and the same entry into a fresh record_decision   *)
(* when the governor could not run: a negative with nothing read yet.      *)
RecordNegative(w) ==
  /\ job' = [job EXCEPT ![w].verdict = "deny"]
  /\ known' = [known EXCEPT ![w] = FALSE]
  /\ lgen' = [lgen EXCEPT ![w] = 0]
  /\ Goto(w, "rec-state")

GovernReadState(w) == ReadState(w, "gov-state", "gov-latch")

(* The governor runs on a healthy state at or above its authority floor.   *)
GovernReadLatch(w) ==
  /\ pc[w] = "gov-latch"
  /\ IF OperationallyHealthy(seen[w], latch) /\ Authority[w] >= seen[w].floor
       THEN Goto(w, "rec-state") /\ UNCHANGED <<job, known, lgen>>
       ELSE RecordNegative(w)
  /\ UNCHANGED <<ports, budget, seen, seenL, cand, evid>>

Finish(w, ran) ==
  /\ outcomes' = outcomes \cup
       {[req |-> job[w].req, ran |-> ran,
         verdict |-> job[w].verdict, evid |-> evid[w]]}
  /\ Reset(w)

\* Mutation: an allow goes to the sink whatever its evidence.
AnyAllow(w) == job[w].verdict = "allow"

(* What _execute does with the evidence result. *)
Permitted(w) ==
  job[w].verdict = "allow" /\ evid[w].mode = "primary-durable"

TakePermit(w) ==
  /\ pc[w] = "recorded" /\ Permitted(w)
  /\ Goto(w, "sink-state")
  /\ UNCHANGED <<ports, budget, job, seen, seenL, cand, known, lgen, evid,
                 history>>

ConvertFailedAllow(w) ==
  /\ pc[w] = "recorded" /\ job[w].verdict = "allow" /\ ~Permitted(w)
  /\ RecordNegative(w)
  /\ UNCHANGED <<ports, budget, seen, seenL, cand, evid, history>>

Block(w) ==
  /\ pc[w] = "recorded" /\ job[w].verdict # "allow"
  /\ Finish(w, FALSE)
  /\ UNCHANGED <<ports, budget, nextReq, effects>>

(* The independent re-read before the sink; any mismatch converts.         *)
SinkReadState(w) == ReadState(w, "sink-state", "sink-latch")

SinkReadLatch(w) ==
  /\ pc[w] = "sink-latch"
  /\ seenL' = [seenL EXCEPT ![w] = latch]
  /\ Goto(w, "sink-primary")
  /\ UNCHANGED <<ports, budget, job, seen, cand, known, lgen, evid>>

SinkBound(w) ==
  /\ OperationallyHealthy(seen[w], seenL[w])
  /\ Len(seen[w].tail["primary"]) = evid[w].seq
  /\ seen[w].recGen = evid[w].gen

SinkCheck(w, at, ok, to) ==
  /\ pc[w] = at
  /\ IF ok THEN Goto(w, to) /\ UNCHANGED <<job, known, lgen>>
           ELSE RecordNegative(w)
  /\ UNCHANGED <<ports, budget, seen, seenL, cand, evid>>

SinkCheckPrimary(w) ==
  SinkCheck(w, "sink-primary",
            SinkBound(w) /\ TailIs("primary", seen[w].tail["primary"]),
            "sink-fallback")

SinkCheckFallback(w) ==
  SinkCheck(w, "sink-fallback",
            TailIs("fallback", seen[w].tail["fallback"]), "sink")

(* The handler runs, whether it then completes or raises.                  *)
Invoke(w) ==
  /\ pc[w] = "sink"
  /\ effects' = effects \cup
       {[req |-> job[w].req, seq |-> evid[w].seq, gen |-> evid[w].gen]}
  /\ Finish(w, TRUE)
  /\ UNCHANGED <<ports, budget, nextReq>>

Sink(w) ==
  \/ SinkReadState(w) \/ SinkReadLatch(w)
  \/ SinkCheckPrimary(w) \/ SinkCheckFallback(w)

-----------------------------------------------------------------------------
(* Faults. *)

SpendFault(kind) ==
  kind \in Faults /\ faults < MaxFaults /\ faults' = faults + 1

(* A read raises, wherever the next call is one. *)
ReadRaises(a) ==
  /\ SpendFault("raise") /\ UNCHANGED rolled
  /\ pc[a] \in GovernPcs \cup SinkPcs \cup
       ((RecordPcs \cup FallbackPcs \cup LatchPcs \cup ExitPcs) \
          {"rec-append", "rec-commit", "fb-degrade", "fb-append",
           "fb-commit", "latch-set", "x-append", "x-commit", "x-clear",
           "x-done"})
  /\ IF pc[a] \in GovernPcs \cup SinkPcs
       THEN RecordNegative(a) /\ UNCHANGED evid
       ELSE Raises(a) /\ UNCHANGED <<job, known, lgen>>
  /\ UNCHANGED <<ports, issued, seen, seenL, cand, history>>

(* A short write: the frame stays incomplete and every later scan raises.  *)
TornAppend(a) ==
  /\ SpendFault("torn") /\ UNCHANGED rolled
  /\ \E s \in Stores :
       /\ \/ s = "primary" /\ pc[a] \in {"rec-append", "x-append"}
          \/ s = "fallback" /\ pc[a] = "fb-append"
       /\ TailIs(s, seen[a].tail[s])
       /\ torn' = torn \cup {s}
  /\ Raises(a)
  /\ UNCHANGED <<log, st, latch, issued, job, seen, seenL, cand, known, lgen,
                 history>>

(* The process dies: what it had read is gone, what it wrote stays. *)
Crash(a) ==
  /\ SpendFault("crash") /\ UNCHANGED rolled
  /\ pc[a] # "idle"
  /\ Reset(a)
  /\ UNCHANGED <<ports, issued, history>>

(* An older copy of a log file is restored. *)
Rollback(s) ==
  /\ SpendFault("rollback")
  /\ \E n \in 0..(Len(log[s]) - 1) :
       log' = [log EXCEPT ![s] = SubSeq(log[s], 1, n)]
  /\ rolled' = rolled \cup {s}
  /\ UNCHANGED <<torn, st, latch, locals, issued, history>>

Environment ==
  \/ \E a \in Actors : ReadRaises(a) \/ TornAppend(a) \/ Crash(a)
  \/ \E s \in Stores : Rollback(s)

-----------------------------------------------------------------------------
Govern(w) == GovernReadState(w) \/ GovernReadLatch(w)

Execute(w) ==
  /\ \/ (Govern(w) \/ RecordDecision(w) \/ Sink(w)) /\ UNCHANGED history
     \/ Begin(w) \/ TakePermit(w) \/ ConvertFailedAllow(w)
     \/ Block(w) \/ Invoke(w)
  /\ UNCHANGED issued

Recover(r) == RecoveryExit(r) /\ UNCHANGED history

Step ==
  \/ \E w \in Workers : Execute(w)
  \/ \E r \in Recoverers : Recover(r)
  \/ IssueAction /\ UNCHANGED history
  \/ Environment

(* Neither latched nor degraded: the system is out of recovery-only mode.  *)
Open(s, l) == ~l.latched /\ s.mode # "evidence-degraded"

(* Watched from the arrival of a request, and afresh from the instant its  *)
(* last look before the sink reads the state.                              *)
Witness ==
  healthyDuring' =
    [w \in Workers |->
       /\ pc'[w] # "idle"
       /\ \/ pc[w] \notin {"idle", "sink-state"} /\ healthyDuring[w]
          \/ Open(st', latch')]

Next == Step /\ Witness

Spec == Init /\ [][Next]_vars

(* Every port answers or raises, and the code calls them in a straight     *)
(* line: an actor that is not done takes its next step. Nothing obliges a  *)
(* request to arrive, an administrator to act or a fault to happen.        *)
FairSpec == Spec /\ \A w \in Workers : WF_vars(pc[w] # "idle" /\ Execute(w) /\ Witness)

-----------------------------------------------------------------------------
TypeOK ==
  /\ log \in [Stores -> Log] /\ torn \subseteq Stores
  /\ st \in Snapshot /\ latch \in Latch
  /\ pc \in [Actors -> Pcs] /\ job \in [Actors -> Job]
  /\ seen \in [Actors -> Snapshot] /\ seenL \in [Actors -> Latch]
  /\ cand \in [Actors -> Snapshot]
  /\ known \in [Actors -> BOOLEAN] /\ lgen \in [Actors -> Nat]
  /\ evid \in [Actors -> Evidence]
  /\ faults \in Nat /\ rolled \subseteq Stores
  /\ issued \in Seq(RecoveryAction)
  /\ nextReq \in Nat \ {0}
  /\ effects \subseteq Effect /\ outcomes \subseteq Outcome
  /\ healthyDuring \in [Workers -> BOOLEAN]

(* The primary chain the protected state vouches for. *)
Chain == st.tail["primary"]

(* Evidence before effect: a handler never ran unless its allow receipt is *)
(* on the protected chain, at the sequence and generation the PEP checked, *)
(* whatever ports lied, crashed or raced between receipt and handler.      *)
EffectsOnProtectedChain ==
  \A e \in effects :
    /\ e.seq \in DOMAIN Chain
    /\ Chain[e.seq].kind = "allow"
    /\ Chain[e.seq].req = e.req
    /\ Chain[e.seq].gen = e.gen

(* The logs and the protected state share no transaction; still, unless an *)
(* old copy is restored, each log holds the protected chain and leads it   *)
(* by at most the one frame whose commit did not happen (yet).             *)
LogLeadsByAtMostOne ==
  \A s \in Stores \ rolled :
    /\ IsPrefix(st.tail[s], log[s])
    /\ Len(log[s]) <= Len(st.tail[s]) + 1

(* Recovery generations partition the chain: a receipt binds the number of *)
(* recovery exits before it, so none is accepted across a recovery, and    *)
(* the protected generation counts the exits on the chain.                 *)
RecoveryFence ==
  LET exits(n) == Cardinality({i \in 1..n : Chain[i].kind = "recovery-exit"})
  IN  /\ \A i \in DOMAIN Chain : Chain[i].gen = exits(i - 1)
      /\ st.recGen = exits(Len(Chain))

(* Signer rotation: once a receipt of a newer authority is accepted, no    *)
(* coordinator still holding the older one gets a receipt accepted.        *)
AuthorityNeverRollsBack ==
  \A i, j \in DOMAIN Chain : i <= j => Chain[i].auth <= Chain[j].auth

(* What execute() reports as evidence is really there: the receipt or the  *)
(* event on the protected chain of its store, or a latch that stands until *)
(* an authenticated recovery clears it.                                    *)
OutcomesAreBacked ==
  \A o \in outcomes :
    CASE o.evid.mode = "primary-durable" ->
           /\ o.evid.seq \in DOMAIN Chain
           /\ Chain[o.evid.seq].kind = o.verdict
           /\ Chain[o.evid.seq].req = o.req
      [] o.evid.mode = "fallback-durable" ->
           LET events == st.tail["fallback"]
           IN  o.evid.seq \in DOMAIN events /\ events[o.evid.seq].req = o.req
      [] o.evid.mode = "recovery-latched" ->
           latch.latched \/ latch.clearedGen > 0
      [] OTHER -> TRUE

(* State and latch are read by two calls, so the pair the last look before *)
(* the sink sees may mix the moments before and after a recovery; even so  *)
(* no handler is reached unless the system was neither degraded nor latched*)
(* at some one instant since that look began.                              *)
EffectsSawHealthySystem ==
  \A w \in Workers : pc[w] = "sink" => healthyDuring[w]

(* The latch opens last: only over a protected state that already holds    *)
(* the authorised exit from this very latch, its receipt on the chain.     *)
LatchClearsLast ==
  [][latch.latched /\ ~latch'.latched =>
       /\ st.mode = "recovery-exit-authorized"
       /\ st.recGen = latch.gen + 1
       /\ st.prior = latch.event
       /\ IsPrefix(st.exitReceipt, Chain)
       /\ Last(st.exitReceipt).kind = "recovery-exit"]_vars

(* The whole kernel implements the abstract promise. *)
Promise == INSTANCE GovernedEffects WITH chain <- Chain

ImplementsPromise == Promise!GovernedSpec

(* No port answer sends a request round a loop: it always returns, with a  *)
(* result, after at most one conversion.                                   *)
EveryRequestReturns ==
  \A w \in Workers : pc[w] # "idle" ~> pc[w] = "idle"

-----------------------------------------------------------------------------
(* What the documents say and the code does not do. *)

Quiescent == \A a \in Actors : pc[a] = "idle"

Reconciled == \A s \in Stores : TailIs(s, st.tail[s])

(* Some action an administrator has signed, or could sign now, would be    *)
(* carried through by RecoveryCoordinatorV1.exit.                          *)
ExitPossible ==
  \/ /\ latch.event # 0 /\ latch.gen + 1 > st.recGen
     /\ ExitAdmissible([gen |-> latch.gen + 1, latchGen |-> latch.gen,
                        event |-> latch.event, tail |-> st.tail], st, latch)
  \/ \E i \in DOMAIN issued :
       /\ RetryAdmissible(issued[i], i, st)
       /\ MayClear(latch, st.recGen, st.prior, st.exitReceipt)

(* AGENT_TRUST_KERNEL.md: leaving recovery-only mode takes an administrator*)
(* action and an integrity verification, so with both logs reconciled and  *)
(* a clear latch a degraded system has an exit.                            *)
DegradedHasExit ==
  Quiescent /\ Reconciled /\ st.mode = "evidence-degraded" => ExitPossible

(* The same for a latched system. *)
LatchedHasExit ==
  Quiescent /\ Reconciled /\ latch.latched => ExitPossible

(* DECISION_RECEIPTS.md: a negative whose primary evidence failed uses the *)
(* fallback and enters recovery-only mode.                                 *)
FallbackEntersRecoveryOnly ==
  [][log'["fallback"] # log["fallback"] =>
       ~OperationallyHealthy(st, latch)]_vars
=============================================================================
