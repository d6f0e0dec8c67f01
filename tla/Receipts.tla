------------------------------ MODULE Receipts ------------------------------
(***************************************************************************)
(* The receipt log as evidence: what a committed decision leaves in it,    *)
(* and what later readers make of it.  The chain is verified under signer  *)
(* authorizations that may have been rotated (receipt_verification.py), a  *)
(* receipt is rebuilt from its explicit inputs and compared                *)
(* (receipt_replay.py), its authority is compared with the present floors  *)
(* (current_eligibility), and it is explained to an agent                  *)
(* (receipt_projection.py).  The receipts are those of Authority's points, *)
(* with the failures of the store and the recovery exit; a commit and an   *)
(* exit are one step each here: their own steps are those of               *)
(* EvidenceCoordinator and EvidenceRecovery.                               *)
(***************************************************************************)
EXTENDS Authority

CONSTANTS Callable,       \* the calls of this instance
          Exitable,       \* those on whose decisions a recovery exit is made
          MaxRecoveries   \* bound: recovery exits

ASSUME CallableAssumption ==
    Callable \subseteq Calls /\ Exitable \subseteq Callable /\ MaxRecoveries \in Nat

\* A coordinator is built only on an authorization that grants its signer receipts.
ASSUME ReceiptSigners ==
    \A name \in DOMAIN Governors :
        [signer |-> "signer", role |-> "receipt-signer", kind |-> "receipt"]
            \in Governors[name].authorization.grants

VARIABLES log,        \* the primary log, as a scan returns it
          tail,       \* primary_tail_digest
          mode,       \* the stored mode
          latched,    \* the recovery latch
          exits       \* recovery_generation

ledger == <<log, tail, mode, latched, exits>>
allVars == <<vars, ledger>>

-----------------------------------------------------------------------------
(* Receipts.  A receipt names its governor and its call, and so the digests *)
(* of policy, rules, revocations, request, effect and trusted time.  The    *)
(* digest of an entry is the list of the receipts up to it: entries are     *)
(* digested only after their previous digest was found to be that list.     *)

SigningAuthorization(r) == Governors[r.governor].authorization

\* context_for: an override is an event of its own.
EventOf(d) == IF d.override # Nothing THEN "override" ELSE d.verdict

\* EvidenceContextV1.
ContextOk(event, d, x) ==
    /\ IF d.override # Nothing THEN event = "override" ELSE event \in {d.verdict, "recovery-exit"}
    /\ TimeValid(x)

\* The decision as a receipt holds it: the override by its digest.
Public(d) == [d EXCEPT !.override = IF @ = Nothing THEN Nothing ELSE @.name]

\* receipt_from_context, on the state read by the coordinator.
Store == "primary"
ReceiptOf(name, x, event, d) ==
    [governor |-> name, call |-> x, event |-> event, decision |-> Public(d), sequence |-> seq + 1,
     previous |-> tail, store |-> Store, recovery |-> exits, mode |-> mode]

EntryDigest(r, previous) == Append(previous, [r EXCEPT !.previous = <<>>])

\* sign_receipt, and the record that is appended.
SignReceipt(r) ==
    [receipt |-> r, digest |-> Digest("receipt", r),
     evidence |-> [kind |-> "receipt", role |-> "receipt-signer", signer |-> "signer",
                   authorization |-> AuthorizationDigest(SigningAuthorization(r)), signed |-> r]]

-----------------------------------------------------------------------------
(* Verification of the chain.                                              *)

\* parse_signed_receipt, and serialize_signed_receipt on the way back.
ParsesAsReceipt(p) == p.digest = Digest("receipt", p.receipt)

\* _bound_receipt_payload: the receipt names the authorization it is checked under.
BoundTo(p, a) == /\ AuthorizationDigest(SigningAuthorization(p.receipt)) = AuthorizationDigest(a)
                 /\ p.digest = Digest("receipt", p.receipt)

SignatureHolds(p, a) ==
    LET e == p.evidence IN
    AuthorizedBy([kind |-> e.kind, role |-> e.role, signer |-> e.signer,
                  authorization |-> e.authorization, valid |-> e.signed = p.receipt],
                 a, "receipt", "receipt-signer")

\* verify_historical_artifact_signature: the authorization's time at signing, no floor of today.
SignedUnder(p, a) ==
    /\ Current(a, Runtimes[p.receipt.call.runtime].runtime.time)
    /\ SignatureHolds(p, a)

\* _verify_historical_receipt, with the authorizations the host has kept.
VerifiesUnder(p, pins) == \E a \in pins : BoundTo(p, a) /\ SignedUnder(p, a)

\* The chain up to each entry, as the loop carries it.
Tails(payloads) ==
    LET upTo[i \in 0..Len(payloads)] ==
            IF i = 0 THEN <<>> ELSE EntryDigest(payloads[i].receipt, upTo[i - 1])
    IN  upTo

EndsAnywhere(payloads) == TRUE                            \* mutant: the tail is not compared
\* The protected state ends it: the sequence, the tail and the receipt-log floor, which a commit
\* sets together.
EndsAtTail(payloads) == Len(payloads) = seq /\ Tails(payloads)[Len(payloads)] = tail

\* verify_receipt_chain.
ChainVerifies(payloads, pins) ==
    LET tails == Tails(payloads) IN
    /\ EndsAtTail(payloads)
    /\ \A i \in DOMAIN payloads :
           LET r == payloads[i].receipt IN
           /\ ParsesAsReceipt(payloads[i]) /\ VerifiesUnder(payloads[i], pins)
           /\ r.sequence = i /\ r.previous = tails[i - 1] /\ r.store = Store

-----------------------------------------------------------------------------
(* Replay, from a vector: the inputs of the receipt, the protected state it *)
(* was committed on, and a structural reason where no decision was governed. *)

\* ReplayVectorV1.
VectorOk(x, structural) ==
    /\ structural = Nothing => Requests[x.request].effect = Requests[x.request].operation.arguments
    /\ TimeValid(x)

\* The branch of replay_historical without a governed decision.
StructuralDecision(base, structural) ==
    [base |-> base.verdict, baseReason |-> base.reason, verdict |-> "deny", reason |-> structural,
     recovery |-> IF structural = "PEP-RECOVERY-ONLY" THEN "recovery-only" ELSE base.recovery,
     override |-> Nothing]

\* replay_historical: the decision rebuilt, or a refusal.
AlwaysStructural(name, x, override, structural) ==        \* mutant: a failed allow replayed as structural
    IF structural = Nothing
    THEN Govern(Governors[name], BaseOf(name, x), Requests[x.request], Runtimes[x.runtime], floors, override)
    ELSE Granted(StructuralDecision(BaseOf(name, x), structural))
ConvertedIfAllow(governed) ==
    CASE governed.refusal # Nothing -> governed
      [] governed.refusal = Nothing /\ governed.decision.verdict # "allow" -> Refused("RCT-MALFORMED")
      [] OTHER -> Granted(Converted(governed.decision))
Rebuilt(name, x, override, structural) ==
    LET governed == Govern(Governors[name], BaseOf(name, x), Requests[x.request],
                           Runtimes[x.runtime], floors, override)
    IN  CASE structural = Nothing -> governed
          [] structural = "PEP-EVIDENCE-UNAVAILABLE" -> ConvertedIfAllow(governed)
          [] OTHER -> Granted(StructuralDecision(BaseOf(name, x), structural))

\* The structural branch takes the adapter from its floor, the enforcement point its own.
AdapterKnown(r) == floors["adapter"].digest = Governors[r.governor].adapter

\* decision_matches: the bytes of the rebuilt decision are those of the receipt.
Replays(r, override, structural) ==
    LET rebuilt == Rebuilt(r.governor, r.call, override, structural) IN
    /\ VectorOk(r.call, structural)
    /\ structural \in {Nothing, "PEP-EVIDENCE-UNAVAILABLE"} \/ AdapterKnown(r)
    /\ rebuilt.refusal = Nothing /\ Public(rebuilt.decision) = r.decision
    /\ ContextOk(r.event, rebuilt.decision, r.call)

-----------------------------------------------------------------------------
(* Eligibility: is the authority of a receipt still what the floors admit? *)

HealthyMode(m) == m \in {"healthy", "recovery-exit-authorized"}
OperationallyHealthy == HealthyMode(mode) /\ ~latched

NoOverrideFloor(r) ==                                     \* mutant: the override's floor left out
    /\ Admits(ClaimsOf(r.governor, Nothing))
    /\ ~UnderFloor(floors, "adapter", 0, Requests[r.call.request].operation.adapter)
\* Every floor the decision claimed, the adapter's and the bundle's.
FloorsCompatible(r) ==
    LET operation == Requests[r.call.request].operation IN
    /\ Admits(ClaimsOf(r.governor, OverrideOf(r.call)))
    /\ ~UnderFloor(floors, "adapter", 0, operation.adapter)
    /\ operation.bundle # "none" => ~UnderFloor(floors, "executable-bundle", 0, operation.bundle)

AnyGeneration(r) == HealthyMode(mode)                     \* mutant: recovery generation not compared
SameGeneration(r) == HealthyMode(mode) /\ exits = r.recovery

\* current_eligibility says "compatible-foundation".
Eligible(r) == SameGeneration(r) /\ OperationallyHealthy /\ FloorsCompatible(r)

-----------------------------------------------------------------------------
\* agent_projection: the reason an agent is given.
AgentReason(r) ==
    CASE r.decision.recovery = "recovery-only" \/ r.mode # "healthy" -> "recovery-only"
      [] r.decision.recovery = "reauthenticate" /\ r.mode = "healthy" -> "reauthenticate"
      [] r.decision.recovery \in {"refresh-authority", "obtain-new-lease"} /\ r.mode = "healthy" ->
             "refresh-authority"
      [] OTHER -> CASE r.decision.verdict = "quarantine" -> "quarantined"
                    [] r.decision.verdict = "allow"      -> "authorized"
                    [] OTHER                             -> "blocked"

-----------------------------------------------------------------------------
(* The ledger under the points of Authority.                               *)

OpenLedger == log = <<>> /\ tail = <<>> /\ mode = "healthy" /\ latched = FALSE /\ exits = 0

\* require_protected_tails, of the primary log.
Settled == Len(log) = seq

AppendReceipt(c) == log' = Append(log, ReceiptOf(built[c], call[c], EventOf(decision[c]), decision[c]))
LastDigest == EntryDigest(log'[Len(log')], tail)

CommittedTail == tail' = LastDigest
\* A committed receipt makes the stored mode healthy.
CommittedLedger == CommittedTail /\ mode' = "healthy" /\ UNCHANGED <<latched, exits>>

Records(c) ==
    /\ Settled
    /\ RecordAllow(c) \/ RecordNegative(c)
    /\ AppendReceipt(c)
    /\ CommittedLedger

\* The store fails, before the frame or after it: the log may lead the state by one entry.
StoreFails(c) ==
    /\ pc[c] = "record" /\ Committable(c) /\ Settled
    /\ AppendReceipt(c) \/ UNCHANGED log
\* The state refuses the receipt, or the tails do not agree: nothing is appended.
NotRecordable(c) == pc[c] = "record" /\ ~(Committable(c) /\ Settled) /\ UNCHANGED log

AllowUnrecorded(c) ==
    /\ StoreFails(c) \/ NotRecordable(c)
    /\ decision[c].verdict = "allow"
    /\ decision' = [decision EXCEPT ![c] = Converted(@)]
    /\ UNCHANGED <<shared, pc, call, evidence, calls, effects, tail, mode, latched, exits>>

\* _fallback: a healthy mode is degraded and the event kept in the fallback; whichever of the two
\* fails, the latch is set; and that may fail too (RCT-LATCH-FAILED), with the mode degraded or not.
NegativeUnrecorded(c) ==
    /\ StoreFails(c) \/ NotRecordable(c)
    /\ decision[c].verdict # "allow"
    /\ Return(c)
    /\ mode' \in {mode, IF mode = "healthy" THEN "evidence-degraded" ELSE mode}
    /\ latched' \in {latched, TRUE}
    /\ healthy' = (HealthyMode(mode') /\ ~latched')
    /\ UNCHANGED <<floors, seq, built, activeOverrides, calls, effects, tail, exits>>

\* The last look before the sink, with the tails.
Looks(c) == Settled /\ (Look(c) \/ LookFails(c)) /\ UNCHANGED ledger
LookUnsettled(c) ==
    /\ pc[c] = "look" /\ ~Settled
    /\ decision' = [decision EXCEPT ![c] = Converted(@)]
    /\ pc' = [pc EXCEPT ![c] = "record"]
    /\ UNCHANGED <<shared, call, evidence, calls, effects, ledger>>

\* The latch is set by another process that shares it.
Incident ==
    /\ ~latched /\ exits < MaxRecoveries
    /\ latched' = TRUE /\ healthy' = FALSE
    /\ UNCHANGED <<floors, seq, built, activeOverrides, pc, call, decision, evidence, calls, effects,
                   log, tail, mode, exits>>

\* The decisions a point publishes for a call, its authority borne or not, its receipt committed or
\* not.
Published(name, x) ==
    LET decided == {DecidedWhen(ready, name, x, OverrideOf(x)) : ready \in BOOLEAN}
    IN  decided \cup {Converted(d) : d \in {e \in decided : e.verdict = "allow"}}

\* RecoveryCoordinatorV1.exit, by an administrator at a point, on the context of any decision of its
\* policy and rules; the receipt's own event refuses one that carries an override.
MayExit(c, x) ==
    /\ built[c] # Nothing
    /\ x.override = Nothing \/ \E a \in activeOverrides : a.name = x.override
    /\ latched /\ mode # "recovery-exit-authorized" /\ Settled
    /\ exits < MaxRecoveries
Exit(c, x, d) ==
    LET g   == Governors[built[c]]
        now == Runtimes[x.runtime].runtime.time
    IN  /\ MayExit(c, x) /\ d.override = Nothing
        /\ ContextOk("recovery-exit", d, x)
        /\ FirstRefusal(AuthorizationRefusals(g.authorization, floors, now)) = Nothing
        /\ FirstRefusal(RuleRefusals(g.rules, g.active.policy.rules, floors, now)) = Nothing
        /\ Admits(ClaimsOf(built[c], Nothing))
        /\ log' = Append(log, ReceiptOf(built[c], x, "recovery-exit", d))
        /\ tail' = LastDigest /\ seq' = seq + 1
        /\ floors' = Raised(ClaimsOf(built[c], Nothing))
        /\ mode' = "recovery-exit-authorized" /\ exits' = exits + 1
        /\ latched' = FALSE /\ healthy' = TRUE
        /\ UNCHANGED <<built, activeOverrides, pc, call, decision, evidence, calls, effects>>

InitReceipts == Init /\ OpenLedger
NextReceipts ==
    \/ \E name \in DOMAIN Overrides, a \in {g.authorization : g \in Range(Governors)} :
           Activate(name, a) /\ UNCHANGED ledger
    \/ \E c \in Points :
           \/ \E name \in DOMAIN Governors : Build(c, name) /\ UNCHANGED ledger
           \/ MayDecide(c) /\ \E x \in Callable : Decides(c, x) /\ UNCHANGED ledger
           \/ Records(c) \/ AllowUnrecorded(c) \/ NegativeUnrecorded(c)
           \/ Looks(c) \/ LookUnsettled(c)
           \/ Sink(c) /\ UNCHANGED ledger
           \/ \E x \in Exitable : MayExit(c, x) /\ \E d \in Published(built[c], x) : Exit(c, x, d)
    \/ Incident
ReceiptsSpec == InitReceipts /\ [][NextReceipts]_allVars

-----------------------------------------------------------------------------
(* Properties.                                                             *)

\* The protected state describes the log: it ends it, or the log leads by the one entry whose
\* commit failed; and the points' idea of health is the stored mode and the latch.
TypeReceipts ==
    /\ Len(log) \in {seq, seq + 1} /\ exits \in 0..MaxRecoveries
    /\ tail = [i \in 1..seq |-> [log[i] EXCEPT !.previous = <<>>]]
    /\ mode \in {"healthy", "evidence-degraded", "recovery-exit-authorized"} /\ latched \in BOOLEAN
    /\ healthy = OperationallyHealthy

Payloads == [i \in DOMAIN log |-> SignReceipt(log[i])]
Authorizations == {g.authorization : g \in Range(Governors)}

\* What a log may come back as: cut, with a frame lost, repeated, exchanged, damaged, or of another
\* store.
Damaged(p) == [p EXCEPT !.receipt.decision = [@ EXCEPT !.verdict = "allow", !.reason = "damaged"]]
Foreign(r) == SignReceipt([r EXCEPT !.store = "another"])
Altered(p) ==
    {SubSeq(p, 1, n) : n \in 0..Len(p)}
    \cup {SubSeq(p, 1, i - 1) \o SubSeq(p, i + 1, Len(p)) : i \in DOMAIN p}
    \cup {SubSeq(p, 1, i) \o SubSeq(p, i, Len(p)) : i \in DOMAIN p}
    \cup {[p EXCEPT ![i] = p[j], ![j] = p[i]] : i, j \in DOMAIN p}
    \cup {[p EXCEPT ![i] = Damaged(p[i])] : i \in DOMAIN p}
    \cup {[p EXCEPT ![i] = Foreign(p[i].receipt)] : i \in DOMAIN p}

\* Whatever became of the log, the only chain that verifies is the committed one: a file restored
\* from a backup, an entry whose commit failed, or a frame of another store is noticed.
OnlyTheCommittedChainVerifies ==
    \A p \in Altered(Payloads) : ChainVerifies(p, Authorizations) => p = SubSeq(Payloads, 1, seq)

\* The committed chain verifies for as long as every authorization that signed it is kept, however
\* far the live floors have moved past them, and not without one of them.
HistoryVerifiesUnderKeptPins ==
    \A pins \in SUBSET Authorizations :
        ChainVerifies(SubSeq(Payloads, 1, seq), pins)
            <=> \A i \in 1..seq : SigningAuthorization(log[i]) \in pins

\* The verifier accepts the committed chain under the right pins, and nothing else.
ChainsVerifyExactly ==
    TypeReceipts /\ OnlyTheCommittedChainVerifies /\ HistoryVerifiesUnderKeptPins

\* A committed receipt is rebuilt from its inputs and the state it was committed on.  Three kinds
\* are not: a quarantine published without a governed decision (the structural branch always
\* denies), a failed allow whose override was superseded before the deny was committed, and a
\* deny published without a governed decision by a point whose adapter is not the enrolled one.
QuarantinedUngoverned(r) ==
    /\ r.decision.verdict = "quarantine"
    /\ r.decision.recovery = "recovery-only"
       \/ Preflight(Governors[r.governor], Requests[r.call.request]) # Nothing
       \/ Govern(Governors[r.governor], BaseOf(r.governor, r.call), Requests[r.call.request],
                 Runtimes[r.call.runtime], floors, Nothing).refusal # Nothing
OverrideSuperseded(r) ==
    LET o == OverrideOf(r.call) IN
    /\ r.decision.reason = "PEP-EVIDENCE-UNAVAILABLE" /\ o # Nothing
    /\ UnderFloor(floors, "override", o.authorization.generation, OverrideDigest(o.authorization))
AdapterUnknown(r) == ~AdapterKnown(r) /\ r.decision.verdict = "deny"
Reproduced(r) ==
    \E structural \in {Nothing, r.decision.reason}, o \in {Nothing, OverrideOf(r.call)} :
        Replays(r, o, structural)
ReceiptsReplay ==
    [][seq' = seq + 1 =>
           LET r == log'[seq + 1] IN
           \/ Reproduced(r)
           \/ QuarantinedUngoverned(r) \/ OverrideSuperseded(r) \/ AdapterUnknown(r)]_allVars

\* Authority that has lapsed does not come back: no floor, recovery exit or cleared latch makes an
\* old receipt eligible again.
LapsedStaysLapsed ==
    [][\A i \in 1..seq : Eligible(log[i])' => Eligible(log[i])]_allVars

\* What eligibility finds compatible, the governor of the adapter it was asked for finds no state
\* error in: the two lists of floors agree.
EligibleMayBeGoverned ==
    \A i \in 1..seq :
        LET r == log[i]
            g == Governors[r.governor]
            request == Requests[r.call.request]
        IN  request.operation.adapter = g.adapter /\ Eligible(r) =>
                /\ AuthorityReady(g, request)
                /\ Govern(g, BaseOf(r.governor, r.call), request, Runtimes[r.call.runtime], floors,
                          OverrideOf(r.call)).refusal # StateError

\* An agent is told "recovery-only" of something that was allowed for two receipts only, which record
\* the mode they found: that of a recovery exit made on an allow, and the first after an exit.
OnlyAroundAnExit ==
    \A i \in 1..seq :
        log[i].decision.verdict = "allow" /\ AgentReason(log[i]) # "authorized" =>
            \/ log[i].event = "recovery-exit"
            \/ i > 1 /\ log[i - 1].event = "recovery-exit"

\* What a reader makes of a receipt is what the kernel makes of it.
ReadersAgree == EligibleMayBeGoverned /\ OnlyAroundAnExit
=============================================================================
