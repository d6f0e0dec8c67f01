------------------------ MODULE EvidenceCoordinator ------------------------
(***************************************************************************)
(* DecisionEvidenceCoordinatorV1.record_decision (evidence_coordinator.py) *)
(* over its four independent ports: the primary and the fallback log, the  *)
(* protected state and the recovery latch.                                 *)
(*                                                                         *)
(* The code is sequential, but nothing makes it the only user of its ports:*)
(* several enforcement points may hold a coordinator over the same stores, *)
(* and the stores share no transaction. So one action is one port call and *)
(* the pure checks that follow it up to the next call. An exception raised *)
(* at a step is control flow: Raises says where each one lands.      *)
(***************************************************************************)
EXTENDS EvidenceState

CONSTANTS
  Workers,     \* enforcement points, each running one request at a time
  Recoverers,  \* recovery coordinators (EvidenceRecovery)
  Authority,   \* generation of the signer authorization each actor holds
  Faults,      \* which faults the ports may show, out of FaultKinds
  MaxFaults    \* how many of them in one behaviour

Actors == Workers \cup Recoverers

FaultKinds == {"raise", "lost-ack", "forged-ack", "torn", "crash", "rollback"}

ASSUME ActorsAssumption ==
  /\ Workers \cap Recoverers = {}
  /\ Authority \in [Actors -> Nat]

ASSUME FaultsAssumption == Faults \subseteq FaultKinds /\ MaxFaults \in Nat

VARIABLES
  log,     \* log[s]: the chain store s holds
  torn,    \* stores whose last frame is incomplete
  st,      \* the protected snapshot
  latch,   \* the recovery latch
  pc,      \* the next port call of each actor
  job,     \* the decision each actor is recording
  seen,    \* the protected snapshot each actor read last
  seenL,   \* the latch each actor compares later reads with
  cand,    \* the snapshot each actor is trying to commit
  known,   \* whether record_decision got past its first read
  lgen,    \* the recovery generation a failure is reported under
  evid,    \* the evidence result of the last record_decision
  faults,  \* faults so far
  rolled   \* stores ever restored to an older copy (history)

ports == <<log, torn, st, latch>>
budget == <<faults, rolled>>

RecordPcs == {"rec-state", "rec-latch", "rec-primary", "rec-fallback",
              "rec-append", "rec-reread", "rec-commit", "rec-state2",
              "rec-latch2", "rec-primary2", "rec-fallback2"}

FallbackPcs == {"fb-state", "fb-latch", "fb-degrade", "fb-state2",
                "fb-latch2", "fb-tail", "fb-append", "fb-reread",
                "fb-commit", "fb-state3", "fb-latch3", "fb-tail2"}

LatchPcs == {"latch-read", "latch-set", "latch-verify"}

(* The steps of RecoveryCoordinatorV1.exit (EvidenceRecovery). *)
ExitPcs == {"x-state", "x-latch", "x-primary", "x-fallback", "x-append",
            "x-reread", "x-commit", "x-state2", "x-latch2", "x-clear",
            "x-done"}

EvidenceModes == {"primary-durable", "fallback-durable",
                  "recovery-latched", "unavailable"}

Job == [req : Nat, verdict : Verdicts, timely : BOOLEAN]
NoJob == [req |-> 0, verdict |-> "deny", timely |-> FALSE]

Evidence == [mode : EvidenceModes, seq : Nat, gen : Nat]
NoEvidence == [mode |-> "unavailable", seq |-> 0, gen |-> 0]

CoordinatorInit ==
  /\ log = [s \in Stores |-> << >>]
  /\ torn = {}
  /\ st = GenesisState
  /\ latch = GenesisLatch
  /\ job = [a \in Actors |-> NoJob]
  /\ seen = [a \in Actors |-> GenesisState]
  /\ seenL = [a \in Actors |-> GenesisLatch]
  /\ cand = [a \in Actors |-> GenesisState]
  /\ known = [a \in Actors |-> FALSE]
  /\ lgen = [a \in Actors |-> 0]
  /\ evid = [a \in Actors |-> NoEvidence]
  /\ faults = 0
  /\ rolled = {}

-----------------------------------------------------------------------------
(* What a port may do with a call that writes. A sound port applies it and *)
(* acknowledges it exactly when its precondition holds. A faulty one may   *)
(* raise without applying it, apply it and raise (a failing fsync or close *)
(* after the write), or acknowledge what it did not do.                    *)

PortCall(precondition, applied, acked) ==
  \/ applied = precondition /\ acked = precondition /\ UNCHANGED budget
  \/ /\ faults < MaxFaults /\ faults' = faults + 1 /\ UNCHANGED rolled
     /\ \/ "raise" \in Faults /\ ~applied /\ ~acked
        \/ "lost-ack" \in Faults /\ applied = precondition /\ ~acked
        \/ "forged-ack" \in Faults /\ ~applied /\ acked

(* read_store_tail: a scan of a torn log raises. *)
TailIs(s, chain) == s \notin torn /\ log[s] = chain

Goto(a, to) == pc' = [pc EXCEPT ![a] = to]

(* The frame of a call that ended: the actor keeps nothing of it. *)
Reset(a) ==
  /\ job' = [job EXCEPT ![a] = NoJob]
  /\ seen' = [seen EXCEPT ![a] = GenesisState]
  /\ seenL' = [seenL EXCEPT ![a] = GenesisLatch]
  /\ cand' = [cand EXCEPT ![a] = GenesisState]
  /\ known' = [known EXCEPT ![a] = FALSE]
  /\ lgen' = [lgen EXCEPT ![a] = 0]
  /\ evid' = [evid EXCEPT ![a] = NoEvidence]
  /\ Goto(a, "idle")

Return(w, mode, seq, gen) ==
  /\ evid' = [evid EXCEPT ![w] = [mode |-> mode, seq |-> seq, gen |-> gen]]
  /\ Goto(w, "recorded")

(* Where an exception lands: an allow ends "unavailable" (no fallback), a  *)
(* negative goes to the fallback, or straight to the latch when even the   *)
(* first read failed; the fallback ends in the latch. A recovery exit that *)
(* raises is over: the caller may only start it again.                     *)
Raises(w) ==
  \/ /\ pc[w] \in RecordPcs /\ job[w].verdict = "allow"
     /\ Return(w, "unavailable", 0, lgen[w])
  \/ /\ pc[w] \in RecordPcs /\ job[w].verdict # "allow"
     /\ Goto(w, IF known[w] THEN "fb-state" ELSE "latch-read")
     /\ UNCHANGED evid
  \/ pc[w] \in FallbackPcs /\ Goto(w, "latch-read") /\ UNCHANGED evid
  \/ pc[w] \in LatchPcs /\ Return(w, "unavailable", 0, lgen[w])
  \/ pc[w] \in ExitPcs /\ Goto(w, "x-done") /\ UNCHANGED evid

Check(w, ok, to) ==
  IF ok THEN Goto(w, to) /\ UNCHANGED evid ELSE Raises(w)

(* Common shapes of a step: a read of the state, of the latch, of a tail,  *)
(* an append at the tail last seen, and a compare-and-advance.             *)

ReadState(w, at, to) ==
  /\ pc[w] = at
  /\ seen' = [seen EXCEPT ![w] = st]
  /\ Goto(w, to)
  /\ UNCHANGED <<ports, budget, job, seenL, cand, known, lgen, evid>>

ReadTail(w, at, ok, to) ==
  /\ pc[w] = at
  /\ Check(w, ok, to)
  /\ UNCHANGED <<ports, budget, job, seen, seenL, cand, known, lgen>>

AppendFrame(s, chain, applied) ==
  log' = IF applied THEN [log EXCEPT ![s] = chain] ELSE log

CommitState(w, at, to) ==
  /\ pc[w] = at
  /\ \E applied, acked \in BOOLEAN :
       /\ PortCall(st = seen[w] /\ MaySucceed(cand[w], seen[w]),
                   applied, acked)
       /\ st' = IF applied THEN cand[w] ELSE st
       /\ Check(w, acked, to)
  /\ UNCHANGED <<log, torn, latch, job, seen, seenL, cand, known, lgen>>

-----------------------------------------------------------------------------
(* record_decision: the primary path. *)

RecordReadState(w) == ReadState(w, "rec-state", "rec-latch")

RecordReadLatch(w) ==
  /\ pc[w] = "rec-latch"
  /\ seenL' = [seenL EXCEPT ![w] = latch]
  /\ known' = [known EXCEPT ![w] = TRUE]
  /\ lgen' = [lgen EXCEPT ![w] = seen[w].recGen]
  /\ Goto(w, "rec-primary")
  /\ UNCHANGED <<ports, budget, job, seen, cand, evid>>

(* Health, verified time and the authority floor come before the tails. *)
RecordCheckPrimary(w) ==
  ReadTail(w, "rec-primary",
           /\ OperationallyHealthy(seen[w], seenL[w])
           /\ job[w].timely
           /\ Authority[w] >= seen[w].floor
           /\ TailIs("primary", seen[w].tail["primary"]),
           "rec-fallback")

RecordCheckFallback(w) ==
  ReadTail(w, "rec-fallback",
           TailIs("fallback", seen[w].tail["fallback"]), "rec-append")

\* Mutation: the receipt binds the generation before the current one.
ReceiptOffByOne(w, kind) ==
  [kind |-> kind, req |-> job[w].req,
   gen |-> seen[w].recGen - 1, auth |-> Authority[w]]

Receipt(w, kind) ==
  [kind |-> kind, req |-> job[w].req,
   gen |-> seen[w].recGen, auth |-> Authority[w]]

\* Mutation: the store appends at whatever tail it has.
AppendAtAnyTail(w) ==
  LET chain == Append(log["primary"], Receipt(w, job[w].verdict))
  IN  /\ pc[w] = "rec-append"
      /\ \E applied, acked \in BOOLEAN :
           /\ PortCall("primary" \notin torn, applied, acked)
           /\ AppendFrame("primary", chain, applied)
           /\ cand' = IF acked
                        THEN [cand EXCEPT ![w] =
                                PrimaryCommitted(seen[w], chain, Authority[w])]
                        ELSE cand
           /\ Check(w, acked, "rec-reread")
      /\ UNCHANGED <<torn, st, latch, job, seen, seenL, known, lgen>>

RecordAppend(w) ==
  LET chain == Append(seen[w].tail["primary"], Receipt(w, job[w].verdict))
  IN  /\ pc[w] = "rec-append"
      /\ \E applied, acked \in BOOLEAN :
           /\ PortCall(TailIs("primary", seen[w].tail["primary"]),
                       applied, acked)
           /\ AppendFrame("primary", chain, applied)
           /\ cand' = IF acked
                        THEN [cand EXCEPT ![w] =
                                PrimaryCommitted(seen[w], chain, Authority[w])]
                        ELSE cand
           /\ Check(w, acked, "rec-reread")
      /\ UNCHANGED <<torn, st, latch, job, seen, seenL, known, lgen>>

RecordReread(w) ==
  ReadTail(w, "rec-reread",
           TailIs("primary", cand[w].tail["primary"]), "rec-commit")

RecordCommit(w) == CommitState(w, "rec-commit", "rec-state2")

RecordReadBack(w) == ReadState(w, "rec-state2", "rec-latch2")

RecordReadLatchBack(w) ==
  ReadTail(w, "rec-latch2",
           seen[w] = cand[w] /\ OperationallyHealthy(seen[w], latch),
           "rec-primary2")

RecordRecheckPrimary(w) ==
  ReadTail(w, "rec-primary2",
           TailIs("primary", seen[w].tail["primary"]), "rec-fallback2")

RecordRecheckFallback(w) ==
  /\ pc[w] = "rec-fallback2"
  /\ IF TailIs("fallback", seen[w].tail["fallback"])
       THEN Return(w, "primary-durable",
                   Len(seen[w].tail["primary"]), seen[w].recGen)
       ELSE Raises(w)
  /\ UNCHANGED <<ports, budget, job, seen, seenL, cand, known, lgen>>

-----------------------------------------------------------------------------
(* _fallback: degrade a healthy state, then append and commit an event of  *)
(* the independent log, each transition read back.                         *)

FallbackReadState(w) == ReadState(w, "fb-state", "fb-latch")

FallbackReadLatch(w) ==
  /\ pc[w] = "fb-latch"
  /\ seenL' = [seenL EXCEPT ![w] = latch]
  /\ lgen' = [lgen EXCEPT ![w] = seen[w].recGen]
  /\ IF seen[w].mode = "healthy"
       THEN /\ cand' = [cand EXCEPT ![w] = Degraded(seen[w])]
            /\ Goto(w, "fb-degrade")
       ELSE UNCHANGED cand /\ Goto(w, "fb-tail")
  /\ UNCHANGED <<ports, budget, job, seen, known, evid>>

FallbackDegrade(w) == CommitState(w, "fb-degrade", "fb-state2")

FallbackReadDegraded(w) == ReadState(w, "fb-state2", "fb-latch2")

FallbackReadLatchAgain(w) ==
  ReadTail(w, "fb-latch2", seen[w] = cand[w] /\ latch = seenL[w], "fb-tail")

FallbackCheckTail(w) ==
  ReadTail(w, "fb-tail",
           TailIs("fallback", seen[w].tail["fallback"]), "fb-append")

FallbackEvent(w) ==
  [kind |-> "fallback", req |-> job[w].req, gen |-> lgen[w], auth |-> 0]

FallbackAppend(w) ==
  LET chain == Append(seen[w].tail["fallback"], FallbackEvent(w))
  IN  /\ pc[w] = "fb-append"
      /\ \E applied, acked \in BOOLEAN :
           /\ PortCall(TailIs("fallback", seen[w].tail["fallback"]),
                       applied, acked)
           /\ AppendFrame("fallback", chain, applied)
           /\ cand' = IF acked
                        THEN [cand EXCEPT ![w] =
                                FallbackCommitted(seen[w], chain)]
                        ELSE cand
           /\ Check(w, acked, "fb-reread")
      /\ UNCHANGED <<torn, st, latch, job, seen, seenL, known, lgen>>

FallbackReread(w) ==
  ReadTail(w, "fb-reread",
           TailIs("fallback", cand[w].tail["fallback"]), "fb-commit")

FallbackCommit(w) == CommitState(w, "fb-commit", "fb-state3")

FallbackReadBack(w) == ReadState(w, "fb-state3", "fb-latch3")

FallbackReadLatchBack(w) ==
  ReadTail(w, "fb-latch3", seen[w] = cand[w] /\ latch = seenL[w], "fb-tail2")

FallbackRecheckTail(w) ==
  /\ pc[w] = "fb-tail2"
  /\ IF TailIs("fallback", cand[w].tail["fallback"])
       THEN Return(w, "fallback-durable",
                   Len(cand[w].tail["fallback"]), lgen[w])
       ELSE Raises(w)
  /\ UNCHANGED <<ports, budget, job, seen, seenL, cand, known, lgen>>

-----------------------------------------------------------------------------
(* The latch, when the fallback failed too: an existing one is enough, a   *)
(* new one must read back as it was set.                                   *)

LatchRead(w) ==
  /\ pc[w] = "latch-read"
  /\ IF latch.latched
       THEN /\ Return(w, "recovery-latched", 0, lgen[w])
            /\ UNCHANGED seenL
       ELSE /\ seenL' = [seenL EXCEPT ![w] = latch]
            /\ Goto(w, "latch-set")
            /\ UNCHANGED evid
  /\ UNCHANGED <<ports, budget, job, seen, cand, known, lgen>>

LatchGeneration(w) == Max2(lgen[w], seenL[w].gen)

LatchSetCall(w) ==
  LET g == LatchGeneration(w)
      event == job[w].req
  IN  /\ pc[w] = "latch-set"
      /\ \E applied, acked \in BOOLEAN :
           /\ PortCall(MaySet(latch, g, event), applied, acked)
           /\ latch' = IF applied THEN LatchSet(latch, g, event) ELSE latch
           /\ Check(w, acked, "latch-verify")
      /\ UNCHANGED <<log, torn, st, job, seen, seenL, cand, known, lgen>>

\* Mutation: the acknowledgment of the set is believed.
LatchBelieved(w) ==
  /\ pc[w] = "latch-verify"
  /\ Return(w, "recovery-latched", 0, lgen[w])
  /\ UNCHANGED <<ports, budget, job, seen, seenL, cand, known, lgen>>

LatchVerify(w) ==
  /\ pc[w] = "latch-verify"
  /\ IF latch = LatchSet(GenesisLatch, LatchGeneration(w), job[w].req)
       THEN Return(w, "recovery-latched", 0, lgen[w])
       ELSE Raises(w)
  /\ UNCHANGED <<ports, budget, job, seen, seenL, cand, known, lgen>>

-----------------------------------------------------------------------------
RecordPrimary(w) ==
  \/ RecordReadState(w)     \/ RecordReadLatch(w)
  \/ RecordCheckPrimary(w)  \/ RecordCheckFallback(w)
  \/ RecordAppend(w)        \/ RecordReread(w)
  \/ RecordCommit(w)        \/ RecordReadBack(w)
  \/ RecordReadLatchBack(w) \/ RecordRecheckPrimary(w)
  \/ RecordRecheckFallback(w)

RecordFallback(w) ==
  \/ FallbackReadState(w)      \/ FallbackReadLatch(w)
  \/ FallbackDegrade(w)        \/ FallbackReadDegraded(w)
  \/ FallbackReadLatchAgain(w) \/ FallbackCheckTail(w)
  \/ FallbackAppend(w)         \/ FallbackReread(w)
  \/ FallbackCommit(w)         \/ FallbackReadBack(w)
  \/ FallbackReadLatchBack(w)  \/ FallbackRecheckTail(w)

RecordLatch(w) == LatchRead(w) \/ LatchSetCall(w) \/ LatchVerify(w)

RecordDecision(w) == RecordPrimary(w) \/ RecordFallback(w) \/ RecordLatch(w)
=============================================================================
