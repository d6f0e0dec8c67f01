------------------------ MODULE EvidenceKernel_proof ------------------------
(***************************************************************************)
(* Type correctness of the evidence kernel, evidence before effect, and    *)
(* the promise it keeps, for any number of enforcement points, recovery    *)
(* coordinators, requests, actions and faults.                             *)
(*                                                                         *)
(* Apart from the types, none of the properties is inductive: an effect    *)
(* rests on the chain only because the evidence its actor carried did,     *)
(* that because the candidate it committed ended in its receipt, and that  *)
(* because every snapshot an actor holds is behind the protected one.      *)
(* ActorInv says this of each actor, step by step of record_decision and   *)
(* of the sink.                                                            *)
(*                                                                         *)
(* Recovery fence, latch order, outcomes, the healthy instant and the      *)
(* abstract promise rest on what an actor may believe of its frame at each *)
(* place of record_decision and exit(). So the control flow is told once,  *)
(* backwards: Arrives says, of every place that carries a belief, from     *)
(* where an actor reaches it, what it had just checked and what it keeps.  *)
(* Every action is shown to be such a move, and the invariants that follow *)
(* are then preserved by any move, whatever its action.                    *)
(***************************************************************************)
EXTENDS PolicyEnforcementV2, SequenceTheorems, FiniteSetTheorems, TLAPS

(* A recovery coordinator inside exit() holds an action that was issued:   *)
(* without it the type of the action it plans by is not inductive.         *)
HoldsIssued == \A a \in Actors : pc[a] \in ExitPcs => job[a].req \in 1..Len(issued)

StoresTyped ==
  /\ log \in [Stores -> Log] /\ torn \subseteq Stores
  /\ st \in Snapshot /\ latch \in Latch

LocalsTyped ==
  /\ pc \in [Actors -> Pcs] /\ job \in [Actors -> Job]
  /\ seen \in [Actors -> Snapshot] /\ seenL \in [Actors -> Latch]
  /\ cand \in [Actors -> Snapshot]
  /\ known \in [Actors -> BOOLEAN] /\ lgen \in [Actors -> Nat]
  /\ evid \in [Actors -> Evidence]

OthersTyped ==
  /\ faults \in Nat /\ rolled \subseteq Stores
  /\ issued \in Seq(RecoveryAction)
  /\ nextReq \in Nat \ {0}
  /\ effects \subseteq Effect /\ outcomes \subseteq Outcome

CoreTyped == StoresTyped /\ LocalsTyped /\ OthersTyped /\ HoldsIssued

TypeInv == CoreTyped /\ healthyDuring \in [Workers -> BOOLEAN]

-----------------------------------------------------------------------------
(* The values. *)

(* The genesis snapshots of the reference providers are well formed. *)
LEMMA GenesisTyped == GenesisState \in Snapshot /\ GenesisLatch \in Latch
  BY DEF GenesisState, GenesisLatch, Snapshot, Latch, Log, Modes, Stores

(* Each caller of advance_state builds a well-formed snapshot. *)
LEMMA AdvanceTyped ==
  ASSUME NEW s \in Snapshot
  PROVE  /\ Degraded(s) \in Snapshot
         /\ \A chain \in Log : FallbackCommitted(s, chain) \in Snapshot
         /\ \A chain \in Log, auth \in Nat :
              PrimaryCommitted(s, chain, auth) \in Snapshot
<1>1. s.gen + 1 \in Nat
  BY DEF Snapshot
<1>2. "healthy" \in Modes /\ "evidence-degraded" \in Modes
  BY DEF Modes
<1>3. Degraded(s) \in Snapshot
  BY <1>1, <1>2, Zenon DEF Degraded, Snapshot
<1>4. ASSUME NEW chain \in Log, NEW auth \in Nat
      PROVE  PrimaryCommitted(s, chain, auth) \in Snapshot
  BY <1>1, <1>2, Zenon DEF PrimaryCommitted, Snapshot
<1>5. ASSUME NEW chain \in Log
      PROVE  FallbackCommitted(s, chain) \in Snapshot
  BY <1>1, Zenon DEF FallbackCommitted, Snapshot
<1> QED BY <1>3, <1>4, <1>5

(* The exit that an issued action authorises is a snapshot too. *)
LEMMA ExitTyped ==
  ASSUME NEW s \in Snapshot, NEW chain \in Log, NEW auth \in Nat,
         NEW action \in RecoveryAction, NEW index \in Nat
  PROVE  ExitCommitted(s, chain, auth, action, index) \in Snapshot
<1>1. s.gen + 1 \in Nat
  BY DEF Snapshot
<1>2. "recovery-exit-authorized" \in Modes
  BY DEF Modes
<1>3. action.gen \in Nat /\ action.event \in Nat
  BY DEF RecoveryAction
<1> QED BY <1>1, <1>2, <1>3, Zenon DEF ExitCommitted, Snapshot

(* What the latch provider stores is a well-formed latch. *)
LEMMA LatchTyped ==
  ASSUME NEW l \in Latch, NEW g \in Nat, NEW event \in Nat, NEW receipt \in Log
  PROVE  /\ LatchSet(l, g, event) \in Latch
         /\ LatchCleared(g, event, receipt) \in Latch
  BY DEF LatchSet, LatchCleared, Latch, Log

(* A frame appended to a log leaves a log. *)
LEMMA FramesTyped ==
  ASSUME LocalsTyped, NEW a \in Actors, NEW s \in Stores,
         NEW kind \in Verdicts \cup {"recovery-exit"}
  PROVE  /\ Append(seen[a].tail[s], Receipt(a, kind)) \in Log
         /\ Append(seen[a].tail[s], FallbackEvent(a)) \in Log
<1>1. seen[a] \in Snapshot /\ job[a] \in Job /\ lgen[a] \in Nat
  BY DEF LocalsTyped
<1>2. seen[a].tail[s] \in Log /\ seen[a].recGen \in Nat /\ job[a].req \in Nat
  BY <1>1 DEF Snapshot, Job
<1>3. Authority[a] \in Nat
  BY ActorsAssumption
<1>4. Receipt(a, kind) \in Entry
  BY <1>2, <1>3 DEF Receipt, Entry
<1>5. FallbackEvent(a) \in Entry
  BY <1>1, <1>2 DEF FallbackEvent, Entry
<1> QED BY <1>2, <1>4, <1>5 DEF Log

-----------------------------------------------------------------------------
(* Control: where a step leaves an actor. *)

Moved ==
  /\ pc' \in [Actors -> Pcs]
  /\ evid' \in [Actors -> Evidence]
  /\ \A b \in Actors : pc'[b] \in ExitPcs => pc[b] \in ExitPcs

(* A plain step of control. *)
LEMMA GotoMoves ==
  ASSUME LocalsTyped, NEW a \in Actors, NEW to \in Pcs,
         to \in ExitPcs => pc[a] \in ExitPcs, Goto(a, to), UNCHANGED evid
  PROVE  Moved
  BY DEF LocalsTyped, Goto, Moved

(* The return of record_decision. *)
LEMMA ReturnMoves ==
  ASSUME LocalsTyped, NEW a \in Actors, NEW mode \in EvidenceModes,
         NEW seq \in Nat, NEW gen \in Nat, Return(a, mode, seq, gen)
  PROVE  Moved
  BY DEF LocalsTyped, Return, Goto, Moved, Evidence, Pcs, ExitPcs

(* An exception, wherever it lands. *)
LEMMA RaisesMoves ==
  ASSUME LocalsTyped, NEW a \in Actors, Raises(a)
  PROVE  Moved
<1>1. lgen[a] \in Nat /\ "unavailable" \in EvidenceModes /\ 0 \in Nat
  BY DEF LocalsTyped, EvidenceModes
<1>2. CASE Return(a, "unavailable", 0, lgen[a])
  BY <1>1, <1>2, ReturnMoves
<1>3. ASSUME NEW to \in {"fb-state", "latch-read"}, Goto(a, to), UNCHANGED evid
      PROVE  Moved
  BY <1>3, GotoMoves DEF Pcs, FallbackPcs, LatchPcs, ExitPcs
<1>4. CASE pc[a] \in ExitPcs /\ Goto(a, "x-done") /\ UNCHANGED evid
  BY <1>4, GotoMoves DEF Pcs, ExitPcs
<1>5. Goto(a, IF known[a] THEN "fb-state" ELSE "latch-read") /\ UNCHANGED evid
        => Moved
  BY <1>3
<1> QED BY <1>2, <1>3, <1>4, <1>5 DEF Raises

(* A check that goes on or raises. *)
LEMMA CheckMoves ==
  ASSUME LocalsTyped, NEW a \in Actors, NEW ok, NEW to \in Pcs,
         to \in ExitPcs => pc[a] \in ExitPcs, Check(a, ok, to)
  PROVE  Moved
  BY GotoMoves, RaisesMoves DEF Check

-----------------------------------------------------------------------------
(* The common shapes of a step. *)

(* Only control and what one actor remembers changes. *)
LEMMA LocalStep ==
  ASSUME CoreTyped, Moved, UNCHANGED <<ports, budget, issued, history, job>>,
         seen' \in [Actors -> Snapshot], seenL' \in [Actors -> Latch],
         cand' \in [Actors -> Snapshot], known' \in [Actors -> BOOLEAN],
         lgen' \in [Actors -> Nat]
  PROVE  CoreTyped'
  BY DEF CoreTyped, StoresTyped, LocalsTyped, OthersTyped, HoldsIssued, Moved,
         ports, budget, history

(* A port call that writes: control, the stores and the candidate change.  *)
LEMMA PortStep ==
  ASSUME CoreTyped, Moved, UNCHANGED <<issued, history, job, seen, seenL, known, lgen>>,
         StoresTyped', cand' \in [Actors -> Snapshot],
         faults' \in Nat, rolled' \subseteq Stores
  PROVE  CoreTyped'
  BY DEF CoreTyped, LocalsTyped, OthersTyped, HoldsIssued, Moved, history

(* The fault counter stays a number through a port call. *)
LEMMA PortCallTyped ==
  ASSUME CoreTyped, NEW p, NEW b, NEW c, PortCall(p, b, c)
  PROVE  faults' \in Nat /\ rolled' \subseteq Stores
  BY DEF CoreTyped, OthersTyped, PortCall, budget

(* A read of the protected state. *)
LEMMA ReadStateTyped ==
  ASSUME CoreTyped, NEW a \in Actors, NEW at, NEW to \in Pcs,
         to \in ExitPcs => at \in ExitPcs, ReadState(a, at, to),
         UNCHANGED <<issued, history>>
  PROVE  CoreTyped'
<1>1. Moved
  BY GotoMoves DEF ReadState, CoreTyped
<1>2. seen' \in [Actors -> Snapshot]
  BY DEF ReadState, CoreTyped, StoresTyped, LocalsTyped
<1> QED BY <1>1, <1>2, LocalStep DEF ReadState, CoreTyped, LocalsTyped

(* A read of a tail and the check that follows it. *)
LEMMA ReadTailTyped ==
  ASSUME CoreTyped, NEW a \in Actors, NEW at, NEW ok, NEW to \in Pcs,
         to \in ExitPcs => at \in ExitPcs, ReadTail(a, at, ok, to),
         UNCHANGED <<issued, history>>
  PROVE  CoreTyped'
<1>1. Moved
  BY CheckMoves DEF ReadTail, CoreTyped
<1> QED BY <1>1, LocalStep DEF ReadTail, CoreTyped, LocalsTyped

(* A compare-and-advance of the protected state. *)
LEMMA CommitTyped ==
  ASSUME CoreTyped, NEW a \in Actors, NEW at, NEW to \in Pcs,
         to \in ExitPcs => at \in ExitPcs, CommitState(a, at, to),
         UNCHANGED <<issued, history>>
  PROVE  CoreTyped'
<1>1. PICK applied \in BOOLEAN, acked \in BOOLEAN :
        /\ PortCall(st = seen[a] /\ MaySucceed(cand[a], seen[a]), applied, acked)
        /\ st' = IF applied THEN cand[a] ELSE st
        /\ Check(a, acked, to)
  BY DEF CommitState
<1>2. Moved
  BY <1>1, CheckMoves DEF CommitState, CoreTyped
<1>3. faults' \in Nat /\ rolled' \subseteq Stores
  BY <1>1, PortCallTyped
<1>4. StoresTyped'
  BY <1>1 DEF CommitState, CoreTyped, StoresTyped, LocalsTyped
<1> QED BY <1>2, <1>3, <1>4, PortStep DEF CommitState, CoreTyped, LocalsTyped

(* An expected-tail append and the candidate built on its acknowledgment.  *)
LEMMA AppendTyped ==
  ASSUME CoreTyped, NEW a \in Actors, NEW s \in Stores, NEW chain \in Log,
         NEW next \in Snapshot, NEW p, NEW applied, NEW acked, NEW to \in Pcs,
         to \in ExitPcs => pc[a] \in ExitPcs,
         PortCall(p, applied, acked), AppendFrame(s, chain, applied),
         cand' = IF acked THEN [cand EXCEPT ![a] = next] ELSE cand,
         Check(a, acked, to),
         UNCHANGED <<torn, st, latch, issued, history, job, seen, seenL, known, lgen>>
  PROVE  CoreTyped'
<1>1. Moved
  BY CheckMoves DEF CoreTyped
<1>2. faults' \in Nat /\ rolled' \subseteq Stores
  BY PortCallTyped
<1>3. log' \in [Stores -> Log]
  BY DEF AppendFrame, CoreTyped, StoresTyped
<1>4. cand' \in [Actors -> Snapshot]
  BY DEF CoreTyped, LocalsTyped
<1> QED BY <1>1, <1>2, <1>3, <1>4, PortStep DEF CoreTyped, StoresTyped

(* A call that ends: the actor forgets its frame. *)
LEMMA ResetTyped ==
  ASSUME CoreTyped, NEW a \in Actors, Reset(a), StoresTyped', OthersTyped',
         UNCHANGED issued
  PROVE  CoreTyped'
<1>1. /\ NoJob \in Job /\ NoEvidence \in Evidence /\ "idle" \in Pcs
      /\ "idle" \notin ExitPcs /\ 0 \in Nat
  BY DEF NoJob, Job, NoEvidence, Evidence, EvidenceModes, Verdicts, Pcs, ExitPcs
<1>2. LocalsTyped'
  BY <1>1, GenesisTyped DEF Reset, Goto, CoreTyped, LocalsTyped
<1>3. HoldsIssued'
  BY <1>1 DEF Reset, Goto, CoreTyped, LocalsTyped, HoldsIssued
<1> QED BY <1>2, <1>3 DEF CoreTyped

-----------------------------------------------------------------------------
(* record_decision. *)

(* The primary path keeps every variable in its type. *)
LEMMA PrimaryTyped ==
  ASSUME CoreTyped, NEW w \in Actors, RecordPrimary(w), UNCHANGED <<issued, history>>
  PROVE  CoreTyped'
<1> USE DEF Pcs, RecordPcs, ExitPcs
<1>1. CASE RecordReadState(w)
  BY <1>1, ReadStateTyped DEF RecordReadState
<1>2. CASE RecordReadLatch(w)
  <2>1. Moved
    BY <1>2, GotoMoves DEF RecordReadLatch, CoreTyped
  <2>2. seen[w].recGen \in Nat
    BY DEF CoreTyped, LocalsTyped, Snapshot
  <2>3. /\ seenL' \in [Actors -> Latch] /\ known' \in [Actors -> BOOLEAN]
        /\ lgen' \in [Actors -> Nat]
    BY <1>2, <2>2 DEF RecordReadLatch, CoreTyped, StoresTyped, LocalsTyped
  <2> QED BY <1>2, <2>1, <2>3, LocalStep DEF RecordReadLatch, CoreTyped, LocalsTyped
<1>3. CASE RecordCheckPrimary(w)
  BY <1>3, ReadTailTyped DEF RecordCheckPrimary
<1>4. CASE RecordCheckFallback(w)
  BY <1>4, ReadTailTyped DEF RecordCheckFallback
<1>5. CASE RecordAppend(w)
  <2> DEFINE chain == Append(seen[w].tail["primary"], Receipt(w, job[w].verdict))
  <2>1. chain \in Log
    BY FramesTyped DEF CoreTyped, LocalsTyped, Job, Stores
  <2>2. PrimaryCommitted(seen[w], chain, Authority[w]) \in Snapshot
    BY <2>1, AdvanceTyped, ActorsAssumption DEF CoreTyped, LocalsTyped
  <2> QED BY <1>5, <2>1, <2>2, AppendTyped DEF RecordAppend, Stores
<1>6. CASE RecordReread(w)
  BY <1>6, ReadTailTyped DEF RecordReread
<1>7. CASE RecordCommit(w)
  BY <1>7, CommitTyped DEF RecordCommit
<1>8. CASE RecordReadBack(w)
  BY <1>8, ReadStateTyped DEF RecordReadBack
<1>9. CASE RecordReadLatchBack(w)
  BY <1>9, ReadTailTyped DEF RecordReadLatchBack
<1>10. CASE RecordRecheckPrimary(w)
  BY <1>10, ReadTailTyped DEF RecordRecheckPrimary
<1>11. CASE RecordRecheckFallback(w)
  <2>1. /\ Len(seen[w].tail["primary"]) \in Nat /\ seen[w].recGen \in Nat
        /\ "primary-durable" \in EvidenceModes
    BY DEF CoreTyped, LocalsTyped, Snapshot, Stores, Log, EvidenceModes
  <2>2. Moved
    BY <1>11, <2>1, ReturnMoves, RaisesMoves DEF RecordRecheckFallback, CoreTyped
  <2> QED BY <1>11, <2>2, LocalStep DEF RecordRecheckFallback, CoreTyped, LocalsTyped
<1> QED BY <1>1, <1>2, <1>3, <1>4, <1>5, <1>6, <1>7, <1>8, <1>9, <1>10, <1>11
        DEF RecordPrimary

(* So does the fallback path. *)
LEMMA FallbackTyped ==
  ASSUME CoreTyped, NEW w \in Actors, RecordFallback(w), UNCHANGED <<issued, history>>
  PROVE  CoreTyped'
<1> USE DEF Pcs, FallbackPcs, ExitPcs
<1>0. seen[w] \in Snapshot /\ seen[w].recGen \in Nat
  BY DEF CoreTyped, LocalsTyped, Snapshot
<1>1. CASE FallbackReadState(w)
  BY <1>1, ReadStateTyped DEF FallbackReadState
<1>2. CASE FallbackReadLatch(w)
  <2>1. Moved
    BY <1>2, GotoMoves DEF FallbackReadLatch, CoreTyped
  <2>2. Degraded(seen[w]) \in Snapshot
    BY <1>0, AdvanceTyped
  <2>3. /\ seenL' \in [Actors -> Latch] /\ lgen' \in [Actors -> Nat]
        /\ cand' \in [Actors -> Snapshot]
    BY <1>0, <1>2, <2>2 DEF FallbackReadLatch, CoreTyped, StoresTyped, LocalsTyped
  <2> QED BY <1>2, <2>1, <2>3, LocalStep DEF FallbackReadLatch, CoreTyped, LocalsTyped
<1>3. CASE FallbackDegrade(w)
  BY <1>3, CommitTyped DEF FallbackDegrade
<1>4. CASE FallbackReadDegraded(w)
  BY <1>4, ReadStateTyped DEF FallbackReadDegraded
<1>5. CASE FallbackReadLatchAgain(w)
  BY <1>5, ReadTailTyped DEF FallbackReadLatchAgain
<1>6. CASE FallbackCheckTail(w)
  BY <1>6, ReadTailTyped DEF FallbackCheckTail
<1>7. CASE FallbackAppend(w)
  <2> DEFINE chain == Append(seen[w].tail["fallback"], FallbackEvent(w))
  <2>1. chain \in Log
    BY FramesTyped DEF CoreTyped, Stores
  <2>2. FallbackCommitted(seen[w], chain) \in Snapshot
    BY <1>0, <2>1, AdvanceTyped
  <2> QED BY <1>7, <2>1, <2>2, AppendTyped DEF FallbackAppend, Stores
<1>8. CASE FallbackReread(w)
  BY <1>8, ReadTailTyped DEF FallbackReread
<1>9. CASE FallbackCommit(w)
  BY <1>9, CommitTyped DEF FallbackCommit
<1>10. CASE FallbackReadBack(w)
  BY <1>10, ReadStateTyped DEF FallbackReadBack
<1>11. CASE FallbackReadLatchBack(w)
  BY <1>11, ReadTailTyped DEF FallbackReadLatchBack
<1>12. CASE FallbackRecheckTail(w)
  <2>1. /\ Len(cand[w].tail["fallback"]) \in Nat /\ lgen[w] \in Nat
        /\ "fallback-durable" \in EvidenceModes
    BY DEF CoreTyped, LocalsTyped, Snapshot, Stores, Log, EvidenceModes
  <2>2. Moved
    BY <1>12, <2>1, ReturnMoves, RaisesMoves DEF FallbackRecheckTail, CoreTyped
  <2> QED BY <1>12, <2>2, LocalStep DEF FallbackRecheckTail, CoreTyped, LocalsTyped
<1> QED BY <1>1, <1>2, <1>3, <1>4, <1>5, <1>6, <1>7, <1>8, <1>9, <1>10, <1>11, <1>12
        DEF RecordFallback

(* And the latch. *)
LEMMA LatchPathTyped ==
  ASSUME CoreTyped, NEW w \in Actors, RecordLatch(w), UNCHANGED <<issued, history>>
  PROVE  CoreTyped'
<1>0. /\ lgen[w] \in Nat /\ job[w].req \in Nat /\ seenL[w].gen \in Nat
      /\ "recovery-latched" \in EvidenceModes
  BY DEF CoreTyped, LocalsTyped, Job, Latch, EvidenceModes
<1>1. CASE LatchRead(w)
  <2>1. Moved
    BY <1>0, <1>1, ReturnMoves, GotoMoves
    DEF LatchRead, CoreTyped, Pcs, LatchPcs, ExitPcs
  <2>2. seenL' \in [Actors -> Latch]
    BY <1>1 DEF LatchRead, CoreTyped, StoresTyped, LocalsTyped
  <2> QED BY <1>1, <2>1, <2>2, LocalStep DEF LatchRead, CoreTyped, LocalsTyped
<1>2. CASE LatchSetCall(w)
  <2>1. LatchGeneration(w) \in Nat
    BY <1>0 DEF LatchGeneration, Max2
  <2>2. PICK applied \in BOOLEAN, acked \in BOOLEAN :
          /\ PortCall(MaySet(latch, LatchGeneration(w), job[w].req), applied, acked)
          /\ latch' = IF applied THEN LatchSet(latch, LatchGeneration(w), job[w].req)
                                 ELSE latch
          /\ Check(w, acked, "latch-verify")
    BY <1>2 DEF LatchSetCall
  <2>3. Moved
    BY <2>2, CheckMoves DEF CoreTyped, Pcs, LatchPcs, ExitPcs
  <2>4. LatchSet(latch, LatchGeneration(w), job[w].req) \in Latch
    BY <1>0, <2>1, LatchTyped DEF CoreTyped, StoresTyped, Latch
  <2>5. StoresTyped'
    BY <1>2, <2>2, <2>4 DEF LatchSetCall, CoreTyped, StoresTyped
  <2>6. faults' \in Nat /\ rolled' \subseteq Stores
    BY <2>2, PortCallTyped
  <2> QED BY <1>2, <2>3, <2>5, <2>6, PortStep DEF LatchSetCall, CoreTyped, LocalsTyped
<1>3. CASE LatchVerify(w)
  <2>1. Moved
    BY <1>0, <1>3, ReturnMoves, RaisesMoves DEF LatchVerify, CoreTyped
  <2> QED BY <1>3, <2>1, LocalStep DEF LatchVerify, CoreTyped, LocalsTyped
<1> QED BY <1>1, <1>2, <1>3 DEF RecordLatch

-----------------------------------------------------------------------------
(* The enforcement point. *)

(* A request that becomes a negative is recorded from the start. *)
LEMMA NegativeTyped ==
  ASSUME CoreTyped, NEW a \in Actors, RecordNegative(a),
         StoresTyped', OthersTyped', UNCHANGED <<issued, seen, seenL, cand, evid>>
  PROVE  CoreTyped'
<1>1. /\ "rec-state" \in Pcs /\ "rec-state" \notin ExitPcs /\ "deny" \in Verdicts
  BY DEF Pcs, RecordPcs, ExitPcs, Verdicts
<1>2. [job[a] EXCEPT !.verdict = "deny"] \in Job
  BY <1>1 DEF CoreTyped, LocalsTyped, Job
<1>3. job' = [job EXCEPT ![a] = [job[a] EXCEPT !.verdict = "deny"]]
  BY DEF RecordNegative, CoreTyped, LocalsTyped
<1>4. LocalsTyped'
  BY <1>1, <1>2, <1>3 DEF RecordNegative, Goto, CoreTyped, LocalsTyped
<1>5. HoldsIssued'
  BY <1>1, <1>3 DEF RecordNegative, Goto, CoreTyped, LocalsTyped, HoldsIssued
<1> QED BY <1>4, <1>5 DEF CoreTyped

(* What a request leaves behind is an effect and an outcome. *)
LEMMA FinishTyped ==
  ASSUME CoreTyped, NEW a \in Actors, NEW ran \in BOOLEAN, Finish(a, ran),
         UNCHANGED <<ports, budget, issued, nextReq>>, effects' \subseteq Effect
  PROVE  CoreTyped'
<1>1. [req |-> job[a].req, ran |-> ran, verdict |-> job[a].verdict, evid |-> evid[a]]
        \in Outcome
  BY DEF CoreTyped, LocalsTyped, Job, Outcome
<1>2. OthersTyped'
  BY <1>1 DEF Finish, CoreTyped, OthersTyped, budget
<1>3. StoresTyped'
  BY DEF CoreTyped, StoresTyped, ports
<1> QED BY <1>2, <1>3, ResetTyped DEF Finish

(* The governor, the re-read before the sink and the handler. *)
LEMMA ExecuteTyped ==
  ASSUME CoreTyped, NEW w \in Workers, Execute(w)
  PROVE  CoreTyped'
<1>0. w \in Actors /\ StoresTyped /\ OthersTyped
  BY DEF Actors, CoreTyped
<1>1. ASSUME Govern(w), UNCHANGED <<issued, history>>
      PROVE  CoreTyped'
  <2>1. CASE GovernReadState(w)
    BY <1>0, <1>1, <2>1, ReadStateTyped DEF GovernReadState, Pcs, GovernPcs, ExitPcs
  <2>2. CASE GovernReadLatch(w)
    <3>1. StoresTyped' /\ OthersTyped'
      BY <1>0, <1>1, <2>2 DEF GovernReadLatch, StoresTyped, OthersTyped, ports, budget, history
    <3>2. CASE RecordNegative(w)
      BY <1>0, <1>1, <2>2, <3>1, <3>2, NegativeTyped DEF GovernReadLatch
    <3>3. CASE Goto(w, "rec-state") /\ UNCHANGED <<job, known, lgen>>
      <4>1. Moved
        BY <1>0, <2>2, <3>3, GotoMoves DEF GovernReadLatch, CoreTyped, Pcs, RecordPcs, ExitPcs
      <4> QED BY <1>0, <1>1, <2>2, <3>3, <4>1, LocalStep
              DEF GovernReadLatch, CoreTyped, LocalsTyped
    <3> QED BY <2>2, <3>2, <3>3 DEF GovernReadLatch
  <2> QED BY <1>1, <2>1, <2>2 DEF Govern
<1>2. ASSUME NEW at, NEW ok, NEW to \in Pcs, to \notin ExitPcs, SinkCheck(w, at, ok, to),
             UNCHANGED <<issued, history>>
      PROVE  CoreTyped'
  <2>1. StoresTyped' /\ OthersTyped'
    BY <1>0, <1>2 DEF SinkCheck, StoresTyped, OthersTyped, ports, budget, history
  <2>2. CASE RecordNegative(w)
    BY <1>0, <1>2, <2>1, <2>2, NegativeTyped DEF SinkCheck
  <2>3. CASE Goto(w, to) /\ UNCHANGED <<job, known, lgen>>
    <3>1. Moved
      BY <1>0, <1>2, <2>3, GotoMoves DEF SinkCheck, CoreTyped
    <3> QED BY <1>0, <1>2, <2>3, <3>1, LocalStep DEF SinkCheck, CoreTyped, LocalsTyped
  <2> QED BY <1>2, <2>2, <2>3 DEF SinkCheck
<1>3. ASSUME Sink(w), UNCHANGED <<issued, history>>
      PROVE  CoreTyped'
  <2> USE DEF Pcs, SinkPcs, ExitPcs
  <2>1. CASE SinkReadState(w)
    BY <1>0, <1>3, <2>1, ReadStateTyped DEF SinkReadState
  <2>2. CASE SinkReadLatch(w)
    <3>1. Moved
      BY <1>0, <2>2, GotoMoves DEF SinkReadLatch, CoreTyped
    <3>2. seenL' \in [Actors -> Latch]
      BY <2>2 DEF SinkReadLatch, CoreTyped, StoresTyped, LocalsTyped
    <3> QED BY <1>0, <1>3, <2>2, <3>1, <3>2, LocalStep
            DEF SinkReadLatch, CoreTyped, LocalsTyped
  <2>3. CASE SinkCheckPrimary(w)
    BY <1>2, <1>3, <2>3 DEF SinkCheckPrimary
  <2>4. CASE SinkCheckFallback(w)
    BY <1>2, <1>3, <2>4 DEF SinkCheckFallback
  <2> QED BY <1>3, <2>1, <2>2, <2>3, <2>4 DEF Sink
<1>4. ASSUME Begin(w), UNCHANGED issued
      PROVE  CoreTyped'
  <2>1. PICK base \in Verdicts, wellFormed \in BOOLEAN, timely \in BOOLEAN :
          /\ job' = [job EXCEPT ![w] =
                [req |-> nextReq, timely |-> timely,
                 verdict |-> IF wellFormed /\ timely THEN base ELSE "deny"]]
          /\ Goto(w, IF wellFormed /\ timely THEN "gov-state" ELSE "rec-state")
    BY <1>4 DEF Begin
  <2>2. /\ {"gov-state", "rec-state"} \subseteq Pcs \ ExitPcs /\ "deny" \in Verdicts
    BY DEF Pcs, GovernPcs, RecordPcs, ExitPcs, Verdicts
  <2>3. [req |-> nextReq, timely |-> timely,
         verdict |-> IF wellFormed /\ timely THEN base ELSE "deny"] \in Job
    BY <1>0, <2>2 DEF OthersTyped, Job
  <2>4. LocalsTyped'
    BY <1>0, <1>4, <2>1, <2>2, <2>3 DEF Begin, Goto, CoreTyped, LocalsTyped
  <2>5. HoldsIssued'
    BY <1>0, <1>4, <2>1, <2>2 DEF Goto, CoreTyped, LocalsTyped, HoldsIssued
  <2>6. StoresTyped' /\ OthersTyped'
    BY <1>0, <1>4 DEF Begin, StoresTyped, OthersTyped, ports, budget
  <2> QED BY <2>4, <2>5, <2>6 DEF CoreTyped
<1>5. ASSUME TakePermit(w), UNCHANGED issued
      PROVE  CoreTyped'
  <2>1. Moved
    BY <1>0, <1>5, GotoMoves DEF TakePermit, CoreTyped, Pcs, SinkPcs, ExitPcs
  <2> QED BY <1>0, <1>5, <2>1, LocalStep DEF TakePermit, CoreTyped, LocalsTyped
<1>6. ASSUME ConvertFailedAllow(w), UNCHANGED issued
      PROVE  CoreTyped'
  <2>1. StoresTyped' /\ OthersTyped'
    BY <1>0, <1>6 DEF ConvertFailedAllow, StoresTyped, OthersTyped, ports, budget, history
  <2> QED BY <1>0, <1>6, <2>1, NegativeTyped DEF ConvertFailedAllow
<1>7. ASSUME Block(w), UNCHANGED issued
      PROVE  CoreTyped'
  BY <1>0, <1>7, FinishTyped DEF Block, OthersTyped
<1>8. ASSUME Invoke(w), UNCHANGED issued
      PROVE  CoreTyped'
  <2>1. [req |-> job[w].req, seq |-> evid[w].seq, gen |-> evid[w].gen] \in Effect
    BY <1>0 DEF CoreTyped, LocalsTyped, Job, Evidence, Effect
  <2> QED BY <1>0, <1>8, <2>1, FinishTyped DEF Invoke, OthersTyped
<1> QED BY <1>0, <1>1, <1>3, <1>4, <1>5, <1>6, <1>7, <1>8,
           PrimaryTyped, FallbackTyped, LatchPathTyped DEF Execute, RecordDecision

-----------------------------------------------------------------------------
(* The recovery protocol, the administrator and the environment. *)

(* Signing an action leaves a well-formed list of actions. *)
LEMMA IssueTyped ==
  ASSUME CoreTyped, IssueAction, UNCHANGED history
  PROVE  CoreTyped'
<1> DEFINE action == [gen |-> latch.gen + 1, latchGen |-> latch.gen,
                      event |-> latch.event, tail |-> st.tail]
<1>1. action \in RecoveryAction
  BY DEF CoreTyped, StoresTyped, Latch, Snapshot, RecoveryAction
<1>2. issued \in Seq(RecoveryAction) /\ issued' = Append(issued, action)
  BY DEF IssueAction, CoreTyped, OthersTyped
<1>3. issued' \in Seq(RecoveryAction) /\ Len(issued') = Len(issued) + 1
  BY <1>1, <1>2
<1>4. \A i \in 1..Len(issued) : i \in 1..Len(issued')
  BY <1>2, <1>3
<1>5. HoldsIssued'
  BY <1>4 DEF IssueAction, CoreTyped, HoldsIssued
<1>6. StoresTyped' /\ LocalsTyped' /\ OthersTyped'
  BY <1>3 DEF IssueAction, CoreTyped, StoresTyped, LocalsTyped, OthersTyped,
              ports, budget, history
<1> QED BY <1>5, <1>6 DEF CoreTyped

(* RecoveryCoordinatorV1.exit keeps every variable in its type. *)
LEMMA RecoverTyped ==
  ASSUME CoreTyped, NEW r \in Recoverers, Recover(r)
  PROVE  CoreTyped'
<1> USE DEF Pcs, ExitPcs, Recover
<1>0. r \in Actors /\ seen[r] \in Snapshot /\ job[r] \in Job
  BY DEF Actors, CoreTyped, LocalsTyped
<1>1. CASE ExitBegin(r)
  <2>1. PICK index \in 1..Len(issued), timely \in BOOLEAN :
          job' = [job EXCEPT ![r] = [req |-> index, verdict |-> "deny", timely |-> timely]]
    BY <1>1 DEF ExitBegin
  <2>2. [req |-> index, verdict |-> "deny", timely |-> timely] \in Job
    BY DEF Job, Verdicts
  <2>3. LocalsTyped'
    BY <1>0, <1>1, <2>1, <2>2 DEF ExitBegin, Goto, CoreTyped, LocalsTyped
  <2>4. HoldsIssued'
    BY <1>0, <1>1, <2>1 DEF ExitBegin, Goto, CoreTyped, LocalsTyped, HoldsIssued
  <2>5. StoresTyped' /\ OthersTyped'
    BY <1>1 DEF ExitBegin, CoreTyped, StoresTyped, OthersTyped, ports, budget, history
  <2> QED BY <2>3, <2>4, <2>5 DEF CoreTyped
<1>2. CASE ExitReadState(r)
  BY <1>0, <1>2, ReadStateTyped DEF ExitReadState
<1>3. CASE ExitReadLatch(r)
  <2>1. Moved
    BY <1>0, <1>3, GotoMoves DEF ExitReadLatch, CoreTyped
  <2>2. seenL' \in [Actors -> Latch]
    BY <1>3 DEF ExitReadLatch, CoreTyped, StoresTyped, LocalsTyped
  <2> QED BY <1>3, <2>1, <2>2, LocalStep DEF ExitReadLatch, CoreTyped, LocalsTyped
<1>4. CASE ExitCheckPrimary(r)
  BY <1>0, <1>4, ReadTailTyped DEF ExitCheckPrimary
<1>5. CASE ExitCheckFallback(r)
  <2>1. CASE Raises(r)
    <3>1. Moved
      BY <1>0, <2>1, RaisesMoves DEF CoreTyped
    <3> QED BY <1>5, <3>1, LocalStep DEF ExitCheckFallback, CoreTyped, LocalsTyped
  <2>2. ASSUME NEW to \in {"x-clear", "x-append", "x-done"}, Goto(r, to), UNCHANGED evid
        PROVE  CoreTyped'
    <3>1. Moved
      BY <1>0, <1>5, <2>2, GotoMoves DEF ExitCheckFallback, CoreTyped
    <3> QED BY <1>5, <3>1, LocalStep DEF ExitCheckFallback, CoreTyped, LocalsTyped
  <2> QED BY <1>5, <2>1, <2>2 DEF ExitCheckFallback
<1>6. CASE ExitAppend(r)
  <2> DEFINE chain == Append(seen[r].tail["primary"], Receipt(r, "recovery-exit"))
  <2>1. chain \in Log
    BY <1>0, FramesTyped DEF CoreTyped, Stores
  <2>2. job[r].req \in 1..Len(issued)
    BY <1>0, <1>6 DEF ExitAppend, CoreTyped, HoldsIssued
  <2>3. Planned(r) \in RecoveryAction
    BY <2>2 DEF Planned, CoreTyped, OthersTyped
  <2>4. ExitCommitted(seen[r], chain, Authority[r], Planned(r), job[r].req) \in Snapshot
    BY <1>0, <2>1, <2>3, ExitTyped, ActorsAssumption DEF Job
  <2> QED BY <1>0, <1>6, <2>1, <2>4, AppendTyped DEF ExitAppend, Stores
<1>7. CASE ExitReread(r)
  BY <1>0, <1>7, ReadTailTyped DEF ExitReread
<1>8. CASE ExitCommit(r)
  BY <1>0, <1>8, CommitTyped DEF ExitCommit
<1>9. CASE ExitReadBack(r)
  BY <1>0, <1>9, ReadStateTyped DEF ExitReadBack
<1>10. CASE ExitReadLatchBack(r)
  BY <1>0, <1>10, ReadTailTyped DEF ExitReadLatchBack
<1>11. CASE ExitClear(r)
  <2> DEFINE s == seen[r]
  <2>1. PICK applied \in BOOLEAN, acked \in BOOLEAN :
          /\ PortCall(MayClear(latch, s.recGen, s.prior, s.exitReceipt), applied, acked)
          /\ latch' = IF applied THEN LatchCleared(s.recGen, s.prior, s.exitReceipt)
                                 ELSE latch
          /\ Goto(r, "x-done")
    BY <1>11 DEF ExitClear
  <2>2. s.recGen \in Nat /\ s.prior \in Nat /\ s.exitReceipt \in Log
    BY <1>0 DEF Snapshot
  <2>3. LatchCleared(s.recGen, s.prior, s.exitReceipt) \in Latch
    BY <2>2 DEF LatchCleared, Latch, Log
  <2>4. StoresTyped'
    BY <1>11, <2>1, <2>3 DEF ExitClear, CoreTyped, StoresTyped
  <2>5. faults' \in Nat /\ rolled' \subseteq Stores
    BY <2>1, PortCallTyped
  <2>6. Moved
    BY <1>0, <1>11, <2>1, GotoMoves DEF ExitClear, CoreTyped
  <2> QED BY <1>11, <2>4, <2>5, <2>6, PortStep DEF ExitClear, CoreTyped, LocalsTyped
<1>12. CASE ExitEnd(r)
  <2>1. StoresTyped' /\ OthersTyped'
    BY <1>12 DEF ExitEnd, CoreTyped, StoresTyped, OthersTyped, ports, budget, history
  <2> QED BY <1>0, <1>12, <2>1, ResetTyped DEF ExitEnd
<1> QED BY <1>1, <1>2, <1>3, <1>4, <1>5, <1>6, <1>7, <1>8, <1>9, <1>10, <1>11, <1>12
        DEF RecoveryExit

(* Faults keep every variable in its type. *)
LEMMA EnvironmentTyped ==
  ASSUME CoreTyped, Environment
  PROVE  CoreTyped'
<1>1. ASSUME NEW a \in Actors, ReadRaises(a)
      PROVE  CoreTyped'
  <2>1. StoresTyped' /\ OthersTyped'
    BY <1>1 DEF ReadRaises, SpendFault, CoreTyped, StoresTyped, OthersTyped, ports, history
  <2>2. CASE RecordNegative(a) /\ UNCHANGED evid
    BY <1>1, <2>1, <2>2, NegativeTyped DEF ReadRaises
  <2>3. CASE Raises(a) /\ UNCHANGED <<job, known, lgen>>
    <3>1. Moved
      BY <2>3, RaisesMoves DEF CoreTyped
    <3> QED BY <1>1, <2>1, <2>3, <3>1 DEF ReadRaises, CoreTyped, LocalsTyped, HoldsIssued, Moved
  <2> QED BY <1>1, <2>2, <2>3 DEF ReadRaises
<1>2. ASSUME NEW a \in Actors, TornAppend(a)
      PROVE  CoreTyped'
  <2>1. Moved
    BY <1>2, RaisesMoves DEF TornAppend, CoreTyped
  <2>2. StoresTyped' /\ OthersTyped'
    BY <1>2 DEF TornAppend, SpendFault, CoreTyped, StoresTyped, OthersTyped, history
  <2> QED BY <1>2, <2>1, <2>2 DEF TornAppend, CoreTyped, LocalsTyped, HoldsIssued, Moved
<1>3. ASSUME NEW a \in Actors, Crash(a)
      PROVE  CoreTyped'
  <2>1. StoresTyped' /\ OthersTyped'
    BY <1>3 DEF Crash, SpendFault, CoreTyped, StoresTyped, OthersTyped, ports, history
  <2> QED BY <1>3, <2>1, ResetTyped DEF Crash
<1>4. ASSUME NEW s \in Stores, Rollback(s)
      PROVE  CoreTyped'
  <2>1. PICK n \in 0..(Len(log[s]) - 1) :
          log' = [log EXCEPT ![s] = SubSeq(log[s], 1, n)]
    BY <1>4 DEF Rollback
  <2>2. log[s] \in Seq(Entry)
    BY DEF CoreTyped, StoresTyped, Log
  <2>3. SubSeq(log[s], 1, n) \in Log
    BY <2>2 DEF Log
  <2>4. StoresTyped'
    BY <1>4, <2>1, <2>3 DEF Rollback, CoreTyped, StoresTyped
  <2>5. OthersTyped'
    BY <1>4 DEF Rollback, SpendFault, CoreTyped, OthersTyped, history
  <2> QED BY <1>4, <2>4, <2>5 DEF Rollback, locals, CoreTyped, LocalsTyped, HoldsIssued
<1> QED BY <1>1, <1>2, <1>3, <1>4 DEF Environment

-----------------------------------------------------------------------------
(* The reference providers and an idle system start well typed. *)
LEMMA InitTyped == Init => TypeInv
  BY GenesisTyped
  DEF Init, CoordinatorInit, RecoveryInit, TypeInv, CoreTyped, StoresTyped, LocalsTyped,
      OthersTyped, HoldsIssued, Log, Stores, Pcs, NoJob, Job, NoEvidence, Evidence, Verdicts,
      EvidenceModes, ExitPcs

(* Every step keeps the inductive invariant. *)
LEMMA NextTyped == TypeInv /\ [Next]_vars => TypeInv'
<1> SUFFICES ASSUME TypeInv, [Next]_vars PROVE TypeInv'
  OBVIOUS
<1>1. CASE UNCHANGED vars
  BY <1>1 DEF vars, ports, budget, locals, history, TypeInv, CoreTyped, StoresTyped,
              LocalsTyped, OthersTyped, HoldsIssued
<1>2. CASE Next
  <2>1. CoreTyped'
    BY <1>2, ExecuteTyped, RecoverTyped, IssueTyped, EnvironmentTyped DEF Next, Step, TypeInv
  <2>2. healthyDuring' \in [Workers -> BOOLEAN]
    BY <1>2 DEF Next, Witness, TypeInv
  <2> QED BY <2>1, <2>2 DEF TypeInv
<1> QED BY <1>1, <1>2

(* Every reachable state of the kernel is well typed, and a recovery        *)
(* coordinator inside exit() always plans by an action that was issued.     *)
THEOREM Typed == Spec => []TypeInv
  BY InitTyped, NextTyped, PTL DEF Spec

(* Type correctness of the stores, the protected state, the latch and every *)
(* actor's frame (all of evidence_coordinator.py, evidence_recovery.py and  *)
(* policy_enforcement_v2.py), for any instance.                             *)
THEOREM TypeCorrect == Spec => []TypeOK
<1>1. TypeInv => TypeOK
  BY DEF TypeInv, CoreTyped, StoresTyped, LocalsTyped, OthersTyped, TypeOK
<1> QED BY <1>1, Typed, PTL

-----------------------------------------------------------------------------
(* Evidence before effect.                                                 *)

PrimaryBuilt == {"rec-reread", "rec-commit", "x-reread", "x-commit"}
FallbackBuilt == {"fb-reread", "fb-commit"}
Built == PrimaryBuilt \cup FallbackBuilt \cup {"fb-degrade"}

ReceiptCand == {"rec-reread", "rec-commit", "rec-state2", "rec-latch2"}
ReceiptSeen == {"rec-primary2", "rec-fallback2"}
SinkStages == {"sink-state", "sink-latch", "sink-primary", "sink-fallback", "sink"}

(* What an actor read last is behind what is protected now. *)
SeenBehind(a) == \A s \in Stores : IsPrefix(seen[a].tail[s], st.tail[s])

(* A candidate extends the snapshot it was built from, in one store only. *)
CandAhead(a) ==
  /\ pc[a] \in Built =>
       \A s \in Stores : IsPrefix(seen[a].tail[s], cand[a].tail[s])
  /\ pc[a] \in PrimaryBuilt \cup {"fb-degrade"} =>
       cand[a].tail["fallback"] = seen[a].tail["fallback"]
  /\ pc[a] \in FallbackBuilt \cup {"fb-degrade"} =>
       cand[a].tail["primary"] = seen[a].tail["primary"]

(* A candidate about to be committed was reread in its log. *)
CandLogged(a) ==
  /\ pc[a] \in {"rec-commit", "x-commit"} /\ "primary" \notin rolled =>
       IsPrefix(cand[a].tail["primary"], log["primary"])
  /\ pc[a] = "fb-commit" /\ "fallback" \notin rolled =>
       IsPrefix(cand[a].tail["fallback"], log["fallback"])

(* What a candidate adds to the chain is signed at its own floor. *)
CandSigned(a) ==
  pc[a] \in Built =>
    \A i \in DOMAIN cand[a].tail["primary"] :
      i > Len(seen[a].tail["primary"]) =>
        cand[a].tail["primary"][i].auth = cand[a].floor

(* Snapshot s ends in the receipt of the decision actor a is recording.    *)
EndsInReceipt(s, a) ==
  LET chain == s.tail["primary"]
  IN  /\ Len(chain) > 0
      /\ chain[Len(chain)].kind = job[a].verdict
      /\ chain[Len(chain)].req = job[a].req
      /\ chain[Len(chain)].gen = s.recGen

Receipted(a) ==
  /\ pc[a] \in ReceiptCand => EndsInReceipt(cand[a], a)
  /\ pc[a] \in ReceiptSeen => EndsInReceipt(seen[a], a)

(* Evidence that says primary-durable names a receipt of the chain.        *)
EvidOnChain(a) ==
  /\ pc[a] \in SinkStages =>
       evid[a].mode = "primary-durable" /\ job[a].verdict = "allow"
  /\ pc[a] \in SinkStages \cup {"recorded"} /\ evid[a].mode = "primary-durable" =>
       /\ evid[a].seq \in DOMAIN Chain
       /\ Chain[evid[a].seq].kind = job[a].verdict
       /\ Chain[evid[a].seq].req = job[a].req
       /\ Chain[evid[a].seq].gen = evid[a].gen

ActorInv(a) ==
  /\ SeenBehind(a) /\ CandAhead(a) /\ CandLogged(a)
  /\ CandSigned(a) /\ Receipted(a) /\ EvidOnChain(a)

(* The chain is signed up to the protected floor, in order.                *)
ChainSigned ==
  /\ AuthorityNeverRollsBack
  /\ \A i \in DOMAIN Chain : Chain[i].auth <= st.floor

Safe == LogLeadsByAtMostOne /\ ChainSigned /\ EffectsOnProtectedChain

IInv == Safe /\ \A a \in Actors : ActorInv(a)

-----------------------------------------------------------------------------
(* Prefixes. *)

(* Prefixes, index by index. *)
LEMMA PrefixAt ==
  ASSUME NEW S, NEW s \in Seq(S), NEW t \in Seq(S)
  PROVE  IsPrefix(s, t) <=>
           Len(s) <= Len(t) /\ \A i \in 1..Len(s) : s[i] = t[i]
<1>1. SubSeq(s, 1, Len(s)) = s
  OBVIOUS
<1>2. CASE Len(s) <= Len(t)
  <2>1. /\ SubSeq(t, 1, Len(s)) \in Seq(S)
        /\ Len(SubSeq(t, 1, Len(s))) = Len(s)
        /\ \A i \in 1..Len(s) : SubSeq(t, 1, Len(s))[i] = t[i]
    BY <1>2
  <2>2. (\A i \in 1..Len(s) : s[i] = t[i]) => s = SubSeq(t, 1, Len(s))
    BY <2>1, SeqEqual
  <2> QED BY <1>1, <1>2, <2>1, <2>2 DEF IsPrefix
<1> QED BY <1>2 DEF IsPrefix

(* A chain is a prefix of itself, and none is shorter than the empty one.  *)
LEMMA PrefixReflexive ==
  ASSUME NEW S, NEW s \in Seq(S)
  PROVE  IsPrefix(s, s) /\ IsPrefix(<< >>, s)
<1>1. IsPrefix(s, s)
  BY PrefixAt
<1>2. ASSUME NEW t \in Seq(S), Len(t) = 0 PROVE IsPrefix(t, s)
  <2>1. Len(t) <= Len(s) /\ \A i \in 1..Len(t) : t[i] = s[i]
    BY <1>2
  <2> QED BY <2>1, PrefixAt
<1>3. << >> \in Seq(S) /\ Len(<< >>) = 0
  OBVIOUS
<1> QED BY <1>1, <1>2, <1>3

(* Growth composes. *)
LEMMA PrefixTransitive ==
  ASSUME NEW S, NEW s \in Seq(S), NEW t \in Seq(S), NEW u \in Seq(S),
         IsPrefix(s, t), IsPrefix(t, u)
  PROVE  IsPrefix(s, u)
  BY PrefixAt

(* Two chains that extend each other are one. *)
LEMMA PrefixAntisymmetric ==
  ASSUME NEW S, NEW s \in Seq(S), NEW t \in Seq(S), IsPrefix(s, t), IsPrefix(t, s)
  PROVE  s = t
<1>1. Len(s) \in Nat /\ Len(t) \in Nat /\ Len(s) <= Len(t) /\ Len(t) <= Len(s)
  BY DEF IsPrefix
<1>2. Len(s) = Len(t)
  BY <1>1
<1>3. \A i \in 1..Len(s) : s[i] = t[i]
  BY PrefixAt
<1> QED BY <1>2, <1>3, SeqEqual

(* An append extends by the entry appended. *)
LEMMA PrefixAppend ==
  ASSUME NEW S, NEW s \in Seq(S), NEW e \in S
  PROVE  /\ Append(s, e) \in Seq(S)
         /\ IsPrefix(s, Append(s, e))
         /\ Len(Append(s, e)) = Len(s) + 1
         /\ Append(s, e)[Len(s) + 1] = e
<1> DEFINE t == Append(s, e)
<1>1. /\ t \in Seq(S) /\ Len(t) = Len(s) + 1 /\ t[Len(s) + 1] = e
      /\ \A i \in 1..Len(s) : t[i] = s[i]
  OBVIOUS
<1>2. IsPrefix(s, t)
  <2>1. Len(s) <= Len(t) /\ \A i \in 1..Len(s) : s[i] = t[i]
    BY <1>1
  <2> HIDE DEF t
  <2> QED BY <1>1, <2>1, PrefixAt
<1> QED BY <1>1, <1>2

-----------------------------------------------------------------------------
(* What a step does to the stores and to the actors that do not take it.   *)

Grows ==
  /\ rolled \subseteq rolled'
  /\ \A s \in Stores : IsPrefix(st.tail[s], st'.tail[s])
  /\ \A s \in Stores : s \notin rolled' => IsPrefix(log[s], log'[s])

Kept(b) ==
  /\ pc'[b] = pc[b] /\ job'[b] = job[b] /\ seen'[b] = seen[b]
  /\ cand'[b] = cand[b] /\ evid'[b] = evid[b]

Alone(a) == \A b \in Actors \ {a} : Kept(b)

(* The places where nothing but SeenBehind is known of an actor.           *)
Plain ==
  Pcs \ (Built \cup ReceiptCand \cup ReceiptSeen \cup SinkStages \cup {"recorded"})

Landed(a) ==
  \/ pc'[a] \in Plain
  \/ pc'[a] = "recorded" /\ evid'[a].mode # "primary-durable"

(* Every chain in sight is a sequence of entries. *)
LEMMA ChainsTyped ==
  ASSUME TypeInv, TypeInv'
  PROVE  /\ \A s \in Stores : st.tail[s] \in Seq(Entry) /\ st'.tail[s] \in Seq(Entry)
         /\ \A s \in Stores : log[s] \in Seq(Entry) /\ log'[s] \in Seq(Entry)
         /\ \A a \in Actors, s \in Stores :
              /\ seen[a].tail[s] \in Seq(Entry) /\ seen'[a].tail[s] \in Seq(Entry)
              /\ cand[a].tail[s] \in Seq(Entry) /\ cand'[a].tail[s] \in Seq(Entry)
<1>1. /\ st \in Snapshot /\ st' \in Snapshot
      /\ log \in [Stores -> Seq(Entry)] /\ log' \in [Stores -> Seq(Entry)]
      /\ seen \in [Actors -> Snapshot] /\ seen' \in [Actors -> Snapshot]
      /\ cand \in [Actors -> Snapshot] /\ cand' \in [Actors -> Snapshot]
  BY DEF TypeInv, CoreTyped, StoresTyped, LocalsTyped, Log
<1>2. ASSUME NEW x \in Snapshot, NEW s \in Stores PROVE x.tail[s] \in Seq(Entry)
  BY DEF Snapshot, Log
<1> QED BY <1>1, <1>2

(* An actor that does not move keeps what was true of it.                  *)
LEMMA Bystander ==
  ASSUME TypeInv, TypeInv', Grows, NEW b \in Actors, ActorInv(b), Kept(b)
  PROVE  ActorInv(b)'
<1>1. SeenBehind(b)'
  <2> SUFFICES ASSUME NEW s \in Stores PROVE IsPrefix(seen'[b].tail[s], st'.tail[s])
    BY DEF SeenBehind
  <2>1. IsPrefix(seen[b].tail[s], st.tail[s]) /\ IsPrefix(st.tail[s], st'.tail[s])
    BY DEF ActorInv, SeenBehind, Grows
  <2> QED BY <2>1, ChainsTyped, PrefixTransitive DEF Kept
<1>2. CandAhead(b)' /\ CandSigned(b)' /\ Receipted(b)'
  BY DEF ActorInv, CandAhead, CandSigned, Receipted, EndsInReceipt, Kept
<1>3. CandLogged(b)'
  <2>1. ASSUME NEW s \in Stores, s \notin rolled', IsPrefix(cand[b].tail[s], log[s])
        PROVE  IsPrefix(cand'[b].tail[s], log'[s])
    <3>1. IsPrefix(log[s], log'[s])
      BY <2>1 DEF Grows
    <3> QED BY <2>1, <3>1, ChainsTyped, PrefixTransitive DEF Kept
  <2>2. "primary" \in Stores /\ "fallback" \in Stores
    BY DEF Stores
  <2> QED BY <2>1, <2>2 DEF ActorInv, CandLogged, Kept, Grows
<1>4. EvidOnChain(b)'
  <2>1. IsPrefix(Chain, Chain') /\ Chain \in Seq(Entry) /\ Chain' \in Seq(Entry)
    BY ChainsTyped DEF Grows, Chain, Stores
  <2>2. \A i \in DOMAIN Chain : i \in DOMAIN Chain' /\ Chain[i] = Chain'[i]
    BY <2>1, PrefixAt
  <2> QED BY <2>2 DEF ActorInv, EvidOnChain, Kept
<1> QED BY <1>1, <1>2, <1>3, <1>4 DEF ActorInv

(* At a plain place, being behind is all there is to show.                 *)
LEMMA LandedSafely ==
  ASSUME NEW a \in Actors, SeenBehind(a)', Landed(a)
  PROVE  ActorInv(a)'
  BY DEF ActorInv, CandAhead, CandLogged, CandSigned, Receipted, EvidOnChain, Landed, Plain,
         Built, PrimaryBuilt, FallbackBuilt, ReceiptCand, ReceiptSeen, SinkStages

(* Exceptions land at plain places. *)
LEMMA RaisesLands ==
  ASSUME TypeInv, NEW a \in Actors, Raises(a)
  PROVE  Landed(a)
<1>1. pc \in [Actors -> Pcs] /\ evid \in [Actors -> Evidence]
  BY DEF TypeInv, CoreTyped, LocalsTyped
<1>2. {"fb-state", "latch-read", "x-done"} \subseteq Plain
  BY DEF Plain, Pcs, FallbackPcs, LatchPcs, ExitPcs, Built, PrimaryBuilt, FallbackBuilt,
         ReceiptCand, ReceiptSeen, SinkStages
<1> QED BY <1>1, <1>2 DEF Raises, Return, Goto, Landed

(* Only effects that rest on the chain may be added. *)
LEMMA StepSafe ==
  ASSUME TypeInv, TypeInv', IInv, Grows, LogLeadsByAtMostOne', ChainSigned',
         \A b \in Actors : Kept(b) \/ ActorInv(b)',
         \A e \in effects' \ effects :
           /\ e.seq \in DOMAIN Chain
           /\ Chain[e.seq].kind = "allow"
           /\ Chain[e.seq].req = e.req
           /\ Chain[e.seq].gen = e.gen
  PROVE  IInv'
<1>1. \A b \in Actors : ActorInv(b)'
  BY Bystander DEF IInv
<1>2. EffectsOnProtectedChain'
  <2>1. IsPrefix(Chain, Chain') /\ Chain \in Seq(Entry) /\ Chain' \in Seq(Entry)
    BY ChainsTyped DEF Grows, Chain, Stores
  <2>2. \A i \in DOMAIN Chain : i \in DOMAIN Chain' /\ Chain[i] = Chain'[i]
    BY <2>1, PrefixAt
  <2> QED BY <2>2 DEF IInv, Safe, EffectsOnProtectedChain
<1> QED BY <1>1, <1>2 DEF IInv, Safe

(* A step that leaves the stores alone. *)
LEMMA QuietStep ==
  ASSUME TypeInv, TypeInv', IInv, UNCHANGED <<log, st, rolled, effects>>,
         \A b \in Actors : Kept(b) \/ ActorInv(b)'
  PROVE  IInv'
<1>1. Grows
  BY ChainsTyped, PrefixReflexive DEF Grows
<1>2. LogLeadsByAtMostOne' /\ ChainSigned'
  BY DEF IInv, Safe, LogLeadsByAtMostOne, ChainSigned, AuthorityNeverRollsBack, Chain
<1> QED BY <1>1, <1>2, StepSafe

-----------------------------------------------------------------------------
(* The common shapes of a step. *)

(* A read of the state, landing at a plain place or keeping what the actor  *)
(* carries through the read. *)
LEMMA ReadStateSafe ==
  ASSUME TypeInv, TypeInv', IInv, NEW a \in Actors, NEW at, NEW to,
         ReadState(a, at, to), UNCHANGED history,
         \/ to \in Plain
         \/ at = "rec-state2" /\ to = "rec-latch2"
         \/ at = "sink-state" /\ to = "sink-latch"
  PROVE  IInv'
<1>0. /\ pc \in [Actors -> Pcs] /\ seen \in [Actors -> Snapshot]
      /\ st \in Snapshot
  BY DEF TypeInv, CoreTyped, StoresTyped, LocalsTyped
<1>1. pc'[a] = to /\ seen'[a] = st /\ UNCHANGED <<log, st, rolled, effects, job, cand, evid>>
  BY <1>0 DEF ReadState, Goto, ports, budget, history
<1>2. \A b \in Actors \ {a} : Kept(b)
  BY <1>0, <1>1 DEF ReadState, Goto, Kept
<1>3. SeenBehind(a)'
  BY <1>1, ChainsTyped, PrefixReflexive DEF SeenBehind
<1>4. CASE to \in Plain
  BY <1>1, <1>2, <1>3, <1>4, LandedSafely, QuietStep DEF Landed
<1>5. CASE at = "rec-state2" /\ to = "rec-latch2"
  <2>1. ActorInv(a) /\ pc[a] = "rec-state2"
    BY <1>5 DEF IInv, ReadState
  <2>2. ActorInv(a)'
    BY <1>1, <1>3, <1>5, <2>1
    DEF ActorInv, CandAhead, CandLogged, CandSigned, Receipted, EndsInReceipt, EvidOnChain,
        Built, PrimaryBuilt, FallbackBuilt, ReceiptCand, ReceiptSeen, SinkStages
  <2> QED BY <1>1, <1>2, <2>2, QuietStep
<1>6. CASE at = "sink-state" /\ to = "sink-latch"
  <2>1. ActorInv(a) /\ pc[a] = "sink-state"
    BY <1>6 DEF IInv, ReadState
  <2>2. ActorInv(a)'
    BY <1>1, <1>3, <1>6, <2>1
    DEF ActorInv, CandAhead, CandLogged, CandSigned, Receipted, EvidOnChain, Chain,
        Built, PrimaryBuilt, FallbackBuilt, ReceiptCand, ReceiptSeen, SinkStages
  <2> QED BY <1>1, <1>2, <2>2, QuietStep
<1> QED BY <1>4, <1>5, <1>6

(* A check that goes on, to a place whose invariant it establishes, or     *)
(* raises. *)
LEMMA ReadTailSafe ==
  ASSUME TypeInv, TypeInv', IInv, NEW a \in Actors, NEW at, NEW ok, NEW to,
         ReadTail(a, at, ok, to), UNCHANGED history,
         \/ to \in Plain
         \/ ok /\ pc'[a] = to /\ evid' = evid => ActorInv(a)'
  PROVE  IInv'
<1>0. pc \in [Actors -> Pcs] /\ evid \in [Actors -> Evidence]
  BY DEF TypeInv, CoreTyped, LocalsTyped
<1>1. UNCHANGED <<log, st, rolled, effects, job, seen, cand>>
  BY DEF ReadTail, ports, budget, history
<1>2. \A b \in Actors \ {a} : Kept(b)
  BY <1>0, <1>1 DEF ReadTail, Check, Raises, Return, Goto, Kept
<1>3. SeenBehind(a)'
  BY <1>1 DEF SeenBehind, IInv, ActorInv
<1>4. CASE Raises(a)
  BY <1>1, <1>2, <1>3, <1>4, RaisesLands, LandedSafely, QuietStep
<1>5. CASE ok /\ Goto(a, to) /\ UNCHANGED evid
  <2>1. pc'[a] = to
    BY <1>0, <1>5 DEF Goto
  <2>2. ActorInv(a)'
    BY <1>3, <1>5, <2>1, LandedSafely DEF Landed
  <2> QED BY <1>1, <1>2, <2>2, QuietStep
<1> QED BY <1>4, <1>5 DEF ReadTail, Check

(* What an expected-tail append does to the logs: nothing, or one frame at *)
(* the end of a log that was exactly the protected chain.                  *)
LEMMA AppendGrows ==
  ASSUME TypeInv, TypeInv', IInv, NEW a \in Actors, NEW s \in Stores, NEW e \in Entry,
         NEW applied \in BOOLEAN, NEW acked \in BOOLEAN,
         PortCall(TailIs(s, seen[a].tail[s]), applied, acked),
         AppendFrame(s, Append(seen[a].tail[s], e), applied), UNCHANGED st
  PROVE  Grows /\ LogLeadsByAtMostOne' /\ ChainSigned'
<1>0. log \in [Stores -> Log]
  BY DEF TypeInv, CoreTyped, StoresTyped
<1>1. UNCHANGED rolled /\ (applied => log[s] = seen[a].tail[s])
  BY DEF PortCall, TailIs, budget
<1>2. ChainSigned'
  BY DEF IInv, Safe, ChainSigned, AuthorityNeverRollsBack, Chain
<1>3. CASE ~applied
  <2>1. log' = log
    BY <1>3 DEF AppendFrame
  <2>2. Grows
    BY <1>1, <2>1, ChainsTyped, PrefixReflexive DEF Grows
  <2> QED BY <1>1, <1>2, <2>1, <2>2 DEF IInv, Safe, LogLeadsByAtMostOne
<1>4. CASE applied
  <2>1. log'[s] = Append(log[s], e) /\ \A t \in Stores \ {s} : log'[t] = log[t]
    BY <1>0, <1>1, <1>4 DEF AppendFrame
  <2>2. log[s] \in Seq(Entry) /\ IsPrefix(log[s], log'[s]) /\ Len(log'[s]) = Len(log[s]) + 1
    BY <2>1, ChainsTyped, PrefixAppend
  <2>3. Grows
    BY <1>1, <2>1, <2>2, ChainsTyped, PrefixReflexive DEF Grows
  <2>4. ASSUME s \notin rolled PROVE log[s] = st.tail[s]
    <3>1. IsPrefix(st.tail[s], log[s])
      BY <2>4 DEF IInv, Safe, LogLeadsByAtMostOne
    <3>2. IsPrefix(log[s], st.tail[s])
      BY <1>1, <1>4 DEF IInv, ActorInv, SeenBehind
    <3> QED BY <3>1, <3>2, ChainsTyped, PrefixAntisymmetric
  <2>5. ASSUME NEW t \in Stores, t \notin rolled
        PROVE  IsPrefix(st.tail[t], log'[t]) /\ Len(log'[t]) <= Len(st.tail[t]) + 1
    <3>1. CASE t = s
      BY <2>2, <2>4, <2>5, <3>1
    <3>2. CASE t # s
      BY <2>1, <2>5, <3>2 DEF IInv, Safe, LogLeadsByAtMostOne
    <3> QED BY <3>1, <3>2
  <2> QED BY <1>1, <1>2, <2>3, <2>5 DEF LogLeadsByAtMostOne
<1> QED BY <1>3, <1>4

(* An append: its actor raises, or goes on with a candidate that satisfies *)
(* the invariant. *)
LEMMA AppendSafe ==
  ASSUME TypeInv, TypeInv', IInv, NEW a \in Actors, NEW s \in Stores, NEW e \in Entry,
         NEW next, NEW to, NEW applied \in BOOLEAN, NEW acked \in BOOLEAN,
         PortCall(TailIs(s, seen[a].tail[s]), applied, acked),
         AppendFrame(s, Append(seen[a].tail[s], e), applied),
         cand' = IF acked THEN [cand EXCEPT ![a] = next] ELSE cand,
         Check(a, acked, to),
         UNCHANGED <<torn, st, latch, history, job, seen, seenL, known, lgen>>,
         SeenBehind(a)' /\ pc'[a] = to /\ evid' = evid /\ cand'[a] = next => ActorInv(a)'
  PROVE  IInv'
<1>0. /\ pc \in [Actors -> Pcs] /\ evid \in [Actors -> Evidence]
      /\ cand \in [Actors -> Snapshot]
  BY DEF TypeInv, CoreTyped, LocalsTyped
<1>1. Grows /\ LogLeadsByAtMostOne' /\ ChainSigned'
  BY AppendGrows
<1>2. \A b \in Actors \ {a} : Kept(b)
  BY <1>0 DEF Check, Raises, Return, Goto, Kept
<1>3. SeenBehind(a)'
  BY DEF SeenBehind, IInv, ActorInv
<1>4. CASE Raises(a)
  <2>1. ActorInv(a)'
    BY <1>3, <1>4, RaisesLands, LandedSafely
  <2> QED BY <1>1, <1>2, <2>1, StepSafe DEF history
<1>5. CASE acked /\ Goto(a, to) /\ UNCHANGED evid
  <2>1. pc'[a] = to /\ cand'[a] = next
    BY <1>0, <1>5 DEF Goto
  <2> QED BY <1>1, <1>2, <1>3, <1>5, <2>1, StepSafe DEF history
<1> QED BY <1>4, <1>5 DEF Check

(* A compare-and-advance that is applied replaces exactly the snapshot its *)
(* candidate was built from. *)
LEMMA CommitGrows ==
  ASSUME TypeInv, TypeInv', IInv, NEW a \in Actors,
         pc[a] \in {"rec-commit", "x-commit", "fb-commit", "fb-degrade"},
         st = seen[a], MaySucceed(cand[a], seen[a]), st' = cand[a],
         UNCHANGED <<log, rolled>>
  PROVE  Grows /\ LogLeadsByAtMostOne' /\ ChainSigned'
<1> USE DEF Built, PrimaryBuilt, FallbackBuilt
<1>0. ActorInv(a) /\ Safe
  BY DEF IInv
<1>1. \A s \in Stores : IsPrefix(st.tail[s], st'.tail[s])
  BY <1>0 DEF ActorInv, CandAhead
<1>2. Grows
  BY <1>1, ChainsTyped, PrefixReflexive DEF Grows
<1>3. LogLeadsByAtMostOne'
  <2> SUFFICES ASSUME NEW s \in Stores, s \notin rolled
               PROVE  IsPrefix(cand[a].tail[s], log[s]) /\ Len(log[s]) <= Len(cand[a].tail[s]) + 1
    BY DEF LogLeadsByAtMostOne
  <2>1. IsPrefix(st.tail[s], log[s]) /\ Len(log[s]) <= Len(st.tail[s]) + 1
    BY <1>0 DEF Safe, LogLeadsByAtMostOne
  <2>2. IsPrefix(cand[a].tail[s], log[s])
    BY <1>0, <2>1 DEF ActorInv, CandAhead, CandLogged, Stores
  <2>3. Len(st.tail[s]) <= Len(cand[a].tail[s])
    BY <1>1 DEF IsPrefix
  <2>4. Len(st.tail[s]) \in Nat /\ Len(cand[a].tail[s]) \in Nat /\ Len(log[s]) \in Nat
    BY ChainsTyped
  <2>5. Len(log[s]) <= Len(cand[a].tail[s]) + 1
    <3> DEFINE l == Len(log[s])
               o == Len(st.tail[s])
               n == Len(cand[a].tail[s])
    <3>1. l \in Nat /\ o \in Nat /\ n \in Nat /\ l <= o + 1 /\ o <= n
      BY <2>1, <2>3, <2>4
    <3> HIDE DEF l, o, n
    <3>2. l <= n + 1
      BY <3>1
    <3> QED BY <3>2 DEF l, n
  <2> QED BY <2>2, <2>5
<1>4. ChainSigned'
  <2> DEFINE old == st.tail["primary"]
             new == cand[a].tail["primary"]
  <2>1. /\ old \in Seq(Entry) /\ new \in Seq(Entry) /\ IsPrefix(old, new)
    BY <1>1, ChainsTyped DEF Stores
  <2>2. st.floor \in Nat /\ cand[a].floor \in Nat /\ st.floor <= cand[a].floor
    BY DEF TypeInv, CoreTyped, StoresTyped, LocalsTyped, Snapshot, MaySucceed
  <2>3. \A i \in 1..Len(old) : i \in 1..Len(new) /\ new[i] = old[i]
    BY <2>1, PrefixAt
  <2>4. \A i \in 1..Len(new) : i > Len(old) => new[i].auth = cand[a].floor
    BY <1>0, <2>1 DEF ActorInv, CandSigned
  <2>5. /\ \A i, j \in 1..Len(old) : i <= j => old[i].auth <= old[j].auth
        /\ \A i \in 1..Len(old) : old[i].auth <= st.floor
    BY <1>0, <2>1 DEF Safe, ChainSigned, AuthorityNeverRollsBack, Chain
  <2>6. Len(old) \in Nat /\ Len(new) \in Nat /\ \A i \in 1..Len(new) : new[i].auth \in Nat
    <3>1. \A e \in Entry : e.auth \in Nat
      BY DEF Entry
    <3>2. \A i \in 1..Len(new) : new[i] \in Entry
      BY <2>1
    <3> QED BY <2>1, <3>1, <3>2
  <2> HIDE DEF old, new
  <2>7. \A i \in 1..Len(new) : new[i].auth <= cand[a].floor
    <3> SUFFICES ASSUME NEW i \in 1..Len(new) PROVE new[i].auth <= cand[a].floor
      OBVIOUS
    <3>1. CASE i > Len(old)
      BY <2>2, <2>4, <3>1
    <3>2. CASE ~(i > Len(old))
      <4>1. i \in 1..Len(old)
        BY <2>6, <3>2
      <4>2. new[i].auth <= st.floor
        BY <2>3, <2>5, <4>1
      <4> QED BY <2>2, <2>6, <4>2
    <3> QED BY <3>1, <3>2
  <2>8. \A i, j \in 1..Len(new) : i <= j => new[i].auth <= new[j].auth
    <3> SUFFICES ASSUME NEW i \in 1..Len(new), NEW j \in 1..Len(new), i <= j
                 PROVE  new[i].auth <= new[j].auth
      OBVIOUS
    <3>1. CASE j > Len(old)
      BY <2>4, <2>7, <3>1
    <3>2. CASE ~(j > Len(old))
      <4>1. i \in 1..Len(old) /\ j \in 1..Len(old)
        BY <2>6, <3>2
      <4> QED BY <2>3, <2>5, <4>1
    <3> QED BY <3>1, <3>2
  <2>9. Chain' = new /\ st'.floor = cand[a].floor /\ DOMAIN new = 1..Len(new)
    BY <2>1 DEF Chain, new
  <2> QED BY <2>7, <2>8, <2>9 DEF ChainSigned, AuthorityNeverRollsBack
<1> QED BY <1>2, <1>3, <1>4

(* A commit, whichever candidate it is for. *)
LEMMA CommitSafe ==
  ASSUME TypeInv, TypeInv', IInv, NEW a \in Actors, NEW at, NEW to,
         CommitState(a, at, to), UNCHANGED history,
         at \in {"rec-commit", "x-commit", "fb-commit", "fb-degrade"},
         to \in Plain \/ (at = "rec-commit" /\ to = "rec-state2")
  PROVE  IInv'
<1>0. pc \in [Actors -> Pcs] /\ evid \in [Actors -> Evidence] /\ pc[a] = at
  BY DEF TypeInv, CoreTyped, LocalsTyped, CommitState
<1>1. PICK applied \in BOOLEAN, acked \in BOOLEAN :
        /\ PortCall(st = seen[a] /\ MaySucceed(cand[a], seen[a]), applied, acked)
        /\ st' = IF applied THEN cand[a] ELSE st
        /\ Check(a, acked, to)
  BY DEF CommitState
<1>2. /\ UNCHANGED <<log, rolled, job, seen, cand, effects>>
      /\ applied => st = seen[a] /\ MaySucceed(cand[a], seen[a])
  BY <1>1 DEF CommitState, PortCall, budget, history
<1>3. Grows /\ LogLeadsByAtMostOne' /\ ChainSigned'
  <2>1. CASE applied
    BY <1>0, <1>1, <1>2, <2>1, CommitGrows
  <2>2. CASE ~applied
    <3>1. st' = st
      BY <1>1, <2>2
    <3>2. Grows
      BY <1>2, <3>1, ChainsTyped, PrefixReflexive DEF Grows
    <3> QED BY <1>2, <3>1, <3>2
            DEF IInv, Safe, LogLeadsByAtMostOne, ChainSigned, AuthorityNeverRollsBack, Chain
  <2> QED BY <2>1, <2>2
<1>4. \A b \in Actors \ {a} : Kept(b)
  BY <1>0, <1>1, <1>2 DEF Check, Raises, Return, Goto, Kept
<1>5. SeenBehind(a)'
  <2> SUFFICES ASSUME NEW s \in Stores PROVE IsPrefix(seen[a].tail[s], st'.tail[s])
    BY <1>2 DEF SeenBehind
  <2>1. IsPrefix(seen[a].tail[s], st.tail[s]) /\ IsPrefix(st.tail[s], st'.tail[s])
    BY <1>3 DEF IInv, ActorInv, SeenBehind, Grows
  <2> QED BY <2>1, ChainsTyped, PrefixTransitive
<1>6. ActorInv(a)'
  <2>1. CASE Raises(a)
    BY <1>5, <2>1, RaisesLands, LandedSafely
  <2>2. CASE Goto(a, to) /\ UNCHANGED evid
    <3>1. pc'[a] = to
      BY <1>0, <2>2 DEF Goto
    <3>2. CASE to \in Plain
      BY <1>5, <3>1, <3>2, LandedSafely DEF Landed
    <3>3. CASE at = "rec-commit" /\ to = "rec-state2"
      <4>1. EndsInReceipt(cand[a], a)
        BY <1>0, <3>3 DEF IInv, ActorInv, Receipted, ReceiptCand
      <4> QED BY <1>2, <1>5, <3>1, <3>3, <4>1
              DEF ActorInv, CandAhead, CandLogged, CandSigned, Receipted, EndsInReceipt,
                  EvidOnChain, Built, PrimaryBuilt, FallbackBuilt, ReceiptCand, ReceiptSeen,
                  SinkStages
    <3> QED BY <3>2, <3>3
  <2> QED BY <1>1, <2>1, <2>2 DEF Check
<1> QED BY <1>2, <1>3, <1>4, <1>6, StepSafe

(* A step in which one actor moves to a plain place and the stores stay.   *)
LEMMA MoveSafe ==
  ASSUME TypeInv, TypeInv', IInv, NEW a \in Actors,
         UNCHANGED <<log, st, rolled, effects>>,
         \A b \in Actors \ {a} : Kept(b),
         seen'[a] \in {seen[a], GenesisState}, Landed(a)
  PROVE  IInv'
<1>1. SeenBehind(a)'
  <2> SUFFICES ASSUME NEW s \in Stores PROVE IsPrefix(seen'[a].tail[s], st.tail[s])
    BY DEF SeenBehind
  <2>1. CASE seen'[a] = seen[a]
    BY <2>1 DEF IInv, ActorInv, SeenBehind
  <2>2. CASE seen'[a] = GenesisState
    <3>1. GenesisState.tail[s] = << >>
      BY DEF GenesisState
    <3> QED BY <2>2, <3>1, ChainsTyped, PrefixReflexive
  <2> QED BY <2>1, <2>2
<1>2. ActorInv(a)'
  BY <1>1, LandedSafely
<1> QED BY <1>2, QuietStep
-----------------------------------------------------------------------------
(* record_decision, the primary path. *)

(* The receipt appended to the tail last seen makes a candidate that ends  *)
(* in it and is signed at its own floor. *)
LEMMA CommittedCandidate ==
  ASSUME TypeInv, TypeInv', NEW a \in Actors, NEW e \in Entry,
         seen'[a] = seen[a], e.auth = cand'[a].floor,
         cand'[a].tail["primary"] = Append(seen[a].tail["primary"], e),
         cand'[a].tail["fallback"] = seen[a].tail["fallback"],
         pc'[a] \in {"rec-reread", "x-reread"}
  PROVE  CandAhead(a)' /\ CandLogged(a)' /\ CandSigned(a)'
<1> DEFINE old == seen[a].tail["primary"]
           new == cand'[a].tail["primary"]
<1>1. /\ old \in Seq(Entry) /\ new \in Seq(Entry) /\ new = Append(old, e)
      /\ seen[a].tail["fallback"] \in Seq(Entry)
  BY ChainsTyped, PrefixAppend DEF Stores
<1>2. /\ IsPrefix(old, new) /\ Len(new) = Len(old) + 1 /\ new[Len(old) + 1] = e
      /\ Len(old) \in Nat
  BY <1>1, PrefixAppend
<1>3. CandAhead(a)'
  <2>1. IsPrefix(seen[a].tail["fallback"], cand'[a].tail["fallback"])
    BY <1>1, PrefixReflexive
  <2> QED BY <1>2, <2>1 DEF CandAhead, Stores, Built, PrimaryBuilt, FallbackBuilt
<1>4. CandSigned(a)'
  <2> SUFFICES ASSUME NEW i \in DOMAIN new, i > Len(old)
               PROVE  new[i].auth = cand'[a].floor
    BY DEF CandSigned
  <2>1. i \in 1..Len(new)
    BY <1>1
  <2> HIDE DEF old, new
  <2>2. i = Len(old) + 1
    BY <1>2, <2>1
  <2> QED BY <1>2, <2>2
<1> QED BY <1>3, <1>4 DEF CandLogged

LEMMA RecordAppendSafe ==
  ASSUME TypeInv, TypeInv', IInv, NEW w \in Actors, RecordAppend(w), UNCHANGED history
  PROVE  IInv'
<1> DEFINE e == Receipt(w, job[w].verdict)
           chain == Append(seen[w].tail["primary"], e)
           next == PrimaryCommitted(seen[w], chain, Authority[w])
<1>1. seen[w] \in Snapshot /\ job[w] \in Job /\ Authority[w] \in Nat /\ pc[w] = "rec-append"
  BY ActorsAssumption DEF TypeInv, CoreTyped, LocalsTyped, RecordAppend
<1>2. /\ e \in Entry /\ e.auth = Authority[w] /\ e.kind = job[w].verdict
      /\ e.req = job[w].req /\ e.gen = seen[w].recGen
  BY <1>1 DEF Receipt, Entry, Job, Snapshot, Verdicts
<1>3. /\ next.tail["primary"] = chain /\ next.tail["fallback"] = seen[w].tail["fallback"]
      /\ next.floor = Authority[w] /\ next.recGen = seen[w].recGen
  BY <1>1, ZenonT(30) DEF PrimaryCommitted, Snapshot, Stores
<1>4. PICK applied \in BOOLEAN, acked \in BOOLEAN :
        /\ PortCall(TailIs("primary", seen[w].tail["primary"]), applied, acked)
        /\ AppendFrame("primary", chain, applied)
        /\ cand' = IF acked THEN [cand EXCEPT ![w] = next] ELSE cand
        /\ Check(w, acked, "rec-reread")
  BY DEF RecordAppend
<1>5. UNCHANGED <<torn, st, latch, job, seen, seenL, known, lgen>>
  BY DEF RecordAppend
<1>6. chain \in Seq(Entry) /\ Len(chain) > 0 /\ chain[Len(chain)] = e
  <2>1. seen[w].tail["primary"] \in Seq(Entry) /\ Len(seen[w].tail["primary"]) \in Nat
    BY ChainsTyped DEF Stores
  <2> HIDE DEF e
  <2>2. chain \in Seq(Entry) /\ Len(chain) = Len(seen[w].tail["primary"]) + 1
    BY <1>2, <2>1, PrefixAppend
  <2>3. chain[Len(seen[w].tail["primary"]) + 1] = e
    BY <1>2, <2>1, PrefixAppend
  <2> QED BY <2>1, <2>2, <2>3
<1> HIDE DEF e, next, chain
<1>7. ASSUME SeenBehind(w)', pc'[w] = "rec-reread", evid' = evid, cand'[w] = next
      PROVE  ActorInv(w)'
  <2>1. CandAhead(w)' /\ CandLogged(w)' /\ CandSigned(w)'
    BY <1>2, <1>3, <1>5, <1>7, CommittedCandidate DEF chain
  <2>2. EndsInReceipt(cand[w], w)'
    BY <1>2, <1>3, <1>5, <1>6, <1>7 DEF EndsInReceipt
  <2> QED BY <1>7, <2>1, <2>2 DEF ActorInv, Receipted, EvidOnChain, ReceiptSeen, SinkStages
<1> QED BY <1>2, <1>4, <1>5, <1>7, AppendSafe DEF chain, Stores

(* The reread of the log is what a commit later relies on. *)
LEMMA RecordRereadSafe ==
  ASSUME TypeInv, TypeInv', IInv, NEW w \in Actors, RecordReread(w), UNCHANGED history
  PROVE  IInv'
<1>1. ASSUME TailIs("primary", cand[w].tail["primary"]), pc'[w] = "rec-commit", evid' = evid
      PROVE  ActorInv(w)'
  <2>1. ActorInv(w) /\ pc[w] = "rec-reread" /\ UNCHANGED <<log, st, rolled, job, seen, cand>>
    BY DEF IInv, RecordReread, ReadTail, ports, budget
  <2>2. IsPrefix(cand[w].tail["primary"], log'["primary"])
    BY <1>1, <2>1, ChainsTyped, PrefixReflexive DEF TailIs, Stores
  <2>3. EndsInReceipt(cand[w], w)'
    BY <2>1 DEF ActorInv, Receipted, ReceiptCand, EndsInReceipt
  <2> QED BY <1>1, <2>1, <2>2, <2>3
          DEF ActorInv, SeenBehind, CandAhead, CandLogged, CandSigned, Receipted, EvidOnChain,
              Built, PrimaryBuilt, FallbackBuilt, ReceiptCand, ReceiptSeen, SinkStages
<1> QED BY <1>1, ReadTailSafe DEF RecordReread

(* What was read back is what was committed. *)
LEMMA RecordReadLatchBackSafe ==
  ASSUME TypeInv, TypeInv', IInv, NEW w \in Actors, RecordReadLatchBack(w), UNCHANGED history
  PROVE  IInv'
<1>1. ASSUME seen[w] = cand[w], pc'[w] = "rec-primary2", evid' = evid
      PROVE  ActorInv(w)'
  <2>1. ActorInv(w) /\ pc[w] = "rec-latch2" /\ UNCHANGED <<log, st, rolled, job, seen, cand>>
    BY DEF IInv, RecordReadLatchBack, ReadTail, ports, budget
  <2>2. EndsInReceipt(seen[w], w)'
    BY <1>1, <2>1 DEF ActorInv, Receipted, ReceiptCand, EndsInReceipt
  <2> QED BY <1>1, <2>1, <2>2
          DEF ActorInv, SeenBehind, CandAhead, CandLogged, CandSigned, Receipted, EvidOnChain,
              Built, PrimaryBuilt, FallbackBuilt, ReceiptCand, ReceiptSeen, SinkStages
<1> QED BY <1>1, ReadTailSafe DEF RecordReadLatchBack

LEMMA RecordRecheckPrimarySafe ==
  ASSUME TypeInv, TypeInv', IInv, NEW w \in Actors, RecordRecheckPrimary(w), UNCHANGED history
  PROVE  IInv'
<1>1. ASSUME pc'[w] = "rec-fallback2", evid' = evid
      PROVE  ActorInv(w)'
  <2>1. ActorInv(w) /\ pc[w] = "rec-primary2" /\ UNCHANGED <<log, st, rolled, job, seen, cand>>
    BY DEF IInv, RecordRecheckPrimary, ReadTail, ports, budget
  <2>2. EndsInReceipt(seen[w], w)'
    BY <2>1 DEF ActorInv, Receipted, ReceiptSeen, EndsInReceipt
  <2> QED BY <1>1, <2>1, <2>2
          DEF ActorInv, SeenBehind, CandAhead, CandLogged, CandSigned, Receipted, EvidOnChain,
              Built, PrimaryBuilt, FallbackBuilt, ReceiptCand, ReceiptSeen, SinkStages
<1> QED BY <1>1, ReadTailSafe DEF RecordRecheckPrimary

(* The evidence returned names the receipt the snapshot read ends in, and  *)
(* the protected chain still holds it there. *)
LEMMA RecordRecheckFallbackSafe ==
  ASSUME TypeInv, TypeInv', IInv, NEW w \in Actors, RecordRecheckFallback(w), UNCHANGED history
  PROVE  IInv'
<1>0. /\ pc \in [Actors -> Pcs] /\ evid \in [Actors -> Evidence]
      /\ ActorInv(w) /\ pc[w] = "rec-fallback2"
  BY DEF TypeInv, CoreTyped, LocalsTyped, IInv, RecordRecheckFallback
<1>1. UNCHANGED <<log, st, rolled, effects, job, seen, cand>>
  BY DEF RecordRecheckFallback, ports, budget, history
<1>2. \A b \in Actors \ {w} : Kept(b)
  BY <1>0, <1>1 DEF RecordRecheckFallback, Raises, Return, Goto, Kept
<1>3. SeenBehind(w)'
  BY <1>0, <1>1 DEF SeenBehind, ActorInv
<1>4. CASE Raises(w)
  BY <1>1, <1>2, <1>3, <1>4, RaisesLands, LandedSafely, QuietStep
<1>5. CASE Return(w, "primary-durable", Len(seen[w].tail["primary"]), seen[w].recGen)
  <2> DEFINE n == Len(seen[w].tail["primary"])
  <2>1. pc'[w] = "recorded" /\ evid'[w] = [mode |-> "primary-durable", seq |-> n, gen |-> seen[w].recGen]
    BY <1>0, <1>5 DEF Return, Goto
  <2>2. EndsInReceipt(seen[w], w)
    BY <1>0 DEF ActorInv, Receipted, ReceiptSeen
  <2>3. /\ seen[w].tail["primary"] \in Seq(Entry) /\ Chain \in Seq(Entry)
        /\ IsPrefix(seen[w].tail["primary"], Chain)
    BY <1>0, ChainsTyped DEF ActorInv, SeenBehind, Chain, Stores
  <2>4. n \in 1..n /\ n \in Nat
    BY <2>2, <2>3 DEF EndsInReceipt
  <2>5. n \in DOMAIN Chain /\ Chain[n] = seen[w].tail["primary"][n]
    BY <2>3, <2>4, PrefixAt
  <2>6. /\ Chain[n].kind = job[w].verdict /\ Chain[n].req = job[w].req
        /\ Chain[n].gen = seen[w].recGen
    BY <2>2, <2>5 DEF EndsInReceipt
  <2>7. Chain' = Chain /\ job' = job
    BY <1>1 DEF Chain
  <2> HIDE DEF n
  <2>8. EvidOnChain(w)'
    BY <2>1, <2>5, <2>6, <2>7 DEF EvidOnChain, SinkStages
  <2>9. ActorInv(w)'
    BY <1>3, <2>1, <2>8
    DEF ActorInv, CandAhead, CandLogged, CandSigned, Receipted,
        Built, PrimaryBuilt, FallbackBuilt, ReceiptCand, ReceiptSeen
  <2> QED BY <1>1, <1>2, <2>9, QuietStep
<1> QED BY <1>4, <1>5 DEF RecordRecheckFallback
LEMMA PlainPlaces ==
  /\ {"rec-state", "rec-latch", "rec-primary", "rec-fallback", "rec-append"} \subseteq Plain
  /\ {"fb-state", "fb-latch", "fb-state2", "fb-latch2", "fb-tail", "fb-append", "fb-state3",
      "fb-latch3", "fb-tail2", "latch-read", "latch-set", "latch-verify"} \subseteq Plain
  /\ {"x-state", "x-latch", "x-primary", "x-fallback", "x-append", "x-state2", "x-latch2",
      "x-clear", "x-done"} \subseteq Plain
  /\ {"idle", "gov-state", "gov-latch"} \subseteq Plain
  BY DEF Plain, Pcs, GovernPcs, RecordPcs, FallbackPcs, LatchPcs, ExitPcs, Built, PrimaryBuilt,
         FallbackBuilt, ReceiptCand, ReceiptSeen, SinkStages

LEMMA PrimarySafe ==
  ASSUME TypeInv, TypeInv', IInv, NEW w \in Actors, RecordPrimary(w), UNCHANGED history
  PROVE  IInv'
<1>1. CASE RecordReadState(w)
  BY <1>1, ReadStateSafe, PlainPlaces DEF RecordReadState
<1>2. CASE RecordReadLatch(w)
  <2>0. pc \in [Actors -> Pcs]
    BY DEF TypeInv, CoreTyped, LocalsTyped
  <2>1. /\ UNCHANGED <<log, st, rolled, effects, job, seen, cand, evid>>
        /\ pc'[w] = "rec-primary" /\ \A b \in Actors \ {w} : pc'[b] = pc[b]
    BY <1>2, <2>0 DEF RecordReadLatch, Goto, ports, budget, history
  <2> QED BY <2>1, MoveSafe, PlainPlaces DEF Landed, Kept
<1>3. CASE RecordCheckPrimary(w)
  <2>1. "rec-fallback" \in Plain
    BY PlainPlaces
  <2> QED BY <1>3, <2>1, ReadTailSafe DEF RecordCheckPrimary
<1>4. CASE RecordCheckFallback(w)
  <2>1. "rec-append" \in Plain
    BY PlainPlaces
  <2> QED BY <1>4, <2>1, ReadTailSafe DEF RecordCheckFallback
<1>5. CASE RecordCommit(w)
  BY <1>5, CommitSafe DEF RecordCommit
<1>6. CASE RecordReadBack(w)
  BY <1>6, ReadStateSafe DEF RecordReadBack
<1> QED
  BY <1>1, <1>2, <1>3, <1>4, <1>5, <1>6, RecordAppendSafe, RecordRereadSafe,
     RecordReadLatchBackSafe, RecordRecheckPrimarySafe, RecordRecheckFallbackSafe
  DEF RecordPrimary

-----------------------------------------------------------------------------
(* record_decision, the fallback and the latch. *)

(* Degrading touches neither tail. *)
LEMMA FallbackReadLatchSafe ==
  ASSUME TypeInv, TypeInv', IInv, NEW w \in Actors, FallbackReadLatch(w), UNCHANGED history
  PROVE  IInv'
<1>0. /\ pc \in [Actors -> Pcs] /\ cand \in [Actors -> Snapshot]
      /\ seen \in [Actors -> Snapshot] /\ SeenBehind(w)
  BY DEF TypeInv, CoreTyped, LocalsTyped, IInv, ActorInv
<1>1. UNCHANGED <<log, st, rolled, effects, job, seen, evid>>
  BY DEF FallbackReadLatch, ports, budget, history
<1>2. \A b \in Actors \ {w} : Kept(b)
  BY <1>0, <1>1 DEF FallbackReadLatch, Goto, Kept
<1>3. CASE pc'[w] = "fb-tail"
  BY <1>1, <1>2, <1>3, MoveSafe, PlainPlaces DEF Landed
<1>4. CASE pc'[w] = "fb-degrade" /\ cand'[w] = Degraded(seen[w])
  <2>1. cand'[w].tail = seen[w].tail
    BY <1>0, <1>4 DEF Degraded, Snapshot
  <2>2. \A s \in Stores : IsPrefix(seen[w].tail[s], cand'[w].tail[s])
    BY <2>1, ChainsTyped, PrefixReflexive
  <2>3. DOMAIN cand'[w].tail["primary"] = 1..Len(seen[w].tail["primary"])
    BY <2>1, ChainsTyped DEF Stores
  <2>4. Len(seen[w].tail["primary"]) \in Nat
    BY ChainsTyped DEF Stores
  <2>5. CandSigned(w)'
    <3> SUFFICES ASSUME NEW i \in DOMAIN cand'[w].tail["primary"],
                        i > Len(seen[w].tail["primary"])
                 PROVE  FALSE
      BY <1>1 DEF CandSigned
    <3> QED BY <2>3, <2>4
  <2>6. ActorInv(w)'
    BY <1>0, <1>1, <1>4, <2>1, <2>2, <2>5
    DEF ActorInv, SeenBehind, CandAhead, CandLogged, Receipted, EvidOnChain,
        Built, PrimaryBuilt, FallbackBuilt, ReceiptCand, ReceiptSeen, SinkStages
  <2> QED BY <1>1, <1>2, <2>6, QuietStep
<1> QED BY <1>0, <1>3, <1>4 DEF FallbackReadLatch, Goto

LEMMA FallbackAppendSafe ==
  ASSUME TypeInv, TypeInv', IInv, NEW w \in Actors, FallbackAppend(w), UNCHANGED history
  PROVE  IInv'
<1> DEFINE e == FallbackEvent(w)
           chain == Append(seen[w].tail["fallback"], e)
           next == FallbackCommitted(seen[w], chain)
<1>1. seen[w] \in Snapshot /\ job[w] \in Job /\ lgen[w] \in Nat
  BY DEF TypeInv, CoreTyped, LocalsTyped
<1>2. e \in Entry
  BY <1>1 DEF FallbackEvent, Entry, Job
<1>3. next.tail["fallback"] = chain /\ next.tail["primary"] = seen[w].tail["primary"]
  BY <1>1, ZenonT(30) DEF FallbackCommitted, Snapshot, Stores
<1>4. PICK applied \in BOOLEAN, acked \in BOOLEAN :
        /\ PortCall(TailIs("fallback", seen[w].tail["fallback"]), applied, acked)
        /\ AppendFrame("fallback", chain, applied)
        /\ cand' = IF acked THEN [cand EXCEPT ![w] = next] ELSE cand
        /\ Check(w, acked, "fb-reread")
  BY DEF FallbackAppend
<1>5. UNCHANGED <<torn, st, latch, job, seen, seenL, known, lgen>>
  BY DEF FallbackAppend
<1> HIDE DEF e, next
<1>6. IsPrefix(seen[w].tail["fallback"], chain)
  <2>1. seen[w].tail["fallback"] \in Seq(Entry)
    BY ChainsTyped DEF Stores
  <2> QED BY <1>2, <2>1, PrefixAppend
<1> HIDE DEF chain
<1>7. ASSUME SeenBehind(w)', pc'[w] = "fb-reread", evid' = evid, cand'[w] = next
      PROVE  ActorInv(w)'
  <2>1. seen[w].tail["primary"] \in Seq(Entry)
    BY ChainsTyped DEF Stores
  <2>2. IsPrefix(seen[w].tail["primary"], next.tail["primary"])
    BY <1>3, <2>1, PrefixReflexive
  <2>3. CandSigned(w)'
    <3> SUFFICES ASSUME NEW i \in DOMAIN seen[w].tail["primary"],
                        i > Len(seen[w].tail["primary"])
                 PROVE  FALSE
      BY <1>3, <1>5, <1>7 DEF CandSigned
    <3> QED BY <2>1
  <2> QED BY <1>3, <1>5, <1>6, <1>7, <2>2, <2>3
          DEF ActorInv, CandAhead, CandLogged, Receipted, EvidOnChain, Stores,
              Built, PrimaryBuilt, FallbackBuilt, ReceiptCand, ReceiptSeen, SinkStages
<1> QED BY <1>2, <1>4, <1>5, <1>7, AppendSafe DEF chain, Stores

LEMMA FallbackRereadSafe ==
  ASSUME TypeInv, TypeInv', IInv, NEW w \in Actors, FallbackReread(w), UNCHANGED history
  PROVE  IInv'
<1>1. ASSUME TailIs("fallback", cand[w].tail["fallback"]), pc'[w] = "fb-commit", evid' = evid
      PROVE  ActorInv(w)'
  <2>1. ActorInv(w) /\ pc[w] = "fb-reread" /\ UNCHANGED <<log, st, rolled, job, seen, cand>>
    BY DEF IInv, FallbackReread, ReadTail, ports, budget
  <2>2. IsPrefix(cand[w].tail["fallback"], log'["fallback"])
    BY <1>1, <2>1, ChainsTyped, PrefixReflexive DEF TailIs, Stores
  <2> QED BY <1>1, <2>1, <2>2
          DEF ActorInv, SeenBehind, CandAhead, CandLogged, CandSigned, Receipted, EvidOnChain,
              Built, PrimaryBuilt, FallbackBuilt, ReceiptCand, ReceiptSeen, SinkStages
<1> QED BY <1>1, ReadTailSafe DEF FallbackReread

LEMMA FallbackSafe ==
  ASSUME TypeInv, TypeInv', IInv, NEW w \in Actors, RecordFallback(w), UNCHANGED history
  PROVE  IInv'
<1>0. {"fb-latch", "fb-state2", "fb-latch2", "fb-tail", "fb-append", "fb-state3", "fb-latch3",
       "fb-tail2"} \subseteq Plain
  BY PlainPlaces
<1>1. CASE FallbackReadState(w)
  BY <1>0, <1>1, ReadStateSafe DEF FallbackReadState
<1>2. CASE FallbackDegrade(w)
  BY <1>0, <1>2, CommitSafe DEF FallbackDegrade
<1>3. CASE FallbackReadDegraded(w)
  BY <1>0, <1>3, ReadStateSafe DEF FallbackReadDegraded
<1>4. CASE FallbackReadLatchAgain(w)
  BY <1>0, <1>4, ReadTailSafe DEF FallbackReadLatchAgain
<1>5. CASE FallbackCheckTail(w)
  BY <1>0, <1>5, ReadTailSafe DEF FallbackCheckTail
<1>6. CASE FallbackCommit(w)
  BY <1>0, <1>6, CommitSafe DEF FallbackCommit
<1>7. CASE FallbackReadBack(w)
  BY <1>0, <1>7, ReadStateSafe DEF FallbackReadBack
<1>8. CASE FallbackReadLatchBack(w)
  BY <1>0, <1>8, ReadTailSafe DEF FallbackReadLatchBack
<1>9. CASE FallbackRecheckTail(w)
  <2>0. pc \in [Actors -> Pcs] /\ evid \in [Actors -> Evidence]
    BY DEF TypeInv, CoreTyped, LocalsTyped
  <2>1. UNCHANGED <<log, st, rolled, effects, job, seen, cand>>
    BY <1>9 DEF FallbackRecheckTail, ports, budget, history
  <2>2. \A b \in Actors \ {w} : Kept(b)
    BY <1>9, <2>0, <2>1 DEF FallbackRecheckTail, Raises, Return, Goto, Kept
  <2>3. CASE Raises(w)
    BY <2>1, <2>2, <2>3, RaisesLands, MoveSafe
  <2>4. CASE Return(w, "fallback-durable", Len(cand[w].tail["fallback"]), lgen[w])
    BY <2>0, <2>1, <2>2, <2>4, MoveSafe DEF Return, Goto, Landed
  <2> QED BY <1>9, <2>3, <2>4 DEF FallbackRecheckTail
<1> QED
  BY <1>1, <1>2, <1>3, <1>4, <1>5, <1>6, <1>7, <1>8, <1>9, FallbackReadLatchSafe,
     FallbackAppendSafe, FallbackRereadSafe
  DEF RecordFallback

LEMMA LatchPathSafe ==
  ASSUME TypeInv, TypeInv', IInv, NEW w \in Actors, RecordLatch(w), UNCHANGED history
  PROVE  IInv'
<1>0. pc \in [Actors -> Pcs] /\ evid \in [Actors -> Evidence]
  BY DEF TypeInv, CoreTyped, LocalsTyped
<1>1. UNCHANGED <<log, st, rolled, effects, job, seen, cand>>
  BY DEF RecordLatch, LatchRead, LatchSetCall, LatchVerify, PortCall, ports, budget, history
<1>2. \A b \in Actors \ {w} : Kept(b)
  BY <1>0, <1>1 DEF RecordLatch, LatchRead, LatchSetCall, LatchVerify, Check, Raises, Return,
                   Goto, Kept
<1>3. Landed(w)
  <2>1. CASE Raises(w)
    BY <2>1, RaisesLands
  <2>2. CASE Return(w, "recovery-latched", 0, lgen[w])
    BY <1>0, <2>2 DEF Return, Goto, Landed
  <2>3. CASE Goto(w, "latch-set") \/ Goto(w, "latch-verify")
    BY <1>0, <2>3, PlainPlaces DEF Goto, Landed
  <2> QED BY <2>1, <2>2, <2>3 DEF RecordLatch, LatchRead, LatchSetCall, LatchVerify, Check
<1> QED BY <1>1, <1>2, <1>3, MoveSafe
-----------------------------------------------------------------------------
(* The enforcement point. *)

(* A request that turns negative carries nothing along. *)
LEMMA NegativeSafe ==
  ASSUME TypeInv, TypeInv', IInv, NEW w \in Actors, RecordNegative(w),
         UNCHANGED <<log, st, rolled, effects, seen, cand, evid>>
  PROVE  IInv'
<1>1. pc \in [Actors -> Pcs] /\ job \in [Actors -> Job]
  BY DEF TypeInv, CoreTyped, LocalsTyped
<1>2. pc'[w] = "rec-state" /\ \A b \in Actors \ {w} : pc'[b] = pc[b] /\ job'[b] = job[b]
  BY <1>1 DEF RecordNegative, Goto
<1> QED BY <1>2, MoveSafe, PlainPlaces DEF Kept, Landed

(* A frame that ends leaves an idle actor. *)
LEMMA ResetLands ==
  ASSUME TypeInv, NEW a \in Actors, Reset(a)
  PROVE  Landed(a) /\ seen'[a] = GenesisState /\ \A b \in Actors \ {a} : Kept(b)
<1>1. /\ pc \in [Actors -> Pcs] /\ job \in [Actors -> Job] /\ evid \in [Actors -> Evidence]
      /\ seen \in [Actors -> Snapshot] /\ cand \in [Actors -> Snapshot]
  BY DEF TypeInv, CoreTyped, LocalsTyped
<1> QED BY <1>1, PlainPlaces DEF Reset, Goto, Landed, Kept

LEMMA ResetSafe ==
  ASSUME TypeInv, TypeInv', IInv, NEW a \in Actors, Reset(a),
         UNCHANGED <<log, st, rolled, effects>>
  PROVE  IInv'
  BY ResetLands, MoveSafe

(* Evidence good for the sink stays so on the way to the handler. *)
LEMMA SinkCarries ==
  ASSUME TypeInv, TypeInv', IInv, NEW w \in Actors, NEW to \in SinkStages, Goto(w, to),
         pc[w] \in SinkStages \/ (pc[w] = "recorded" /\ Permitted(w)),
         UNCHANGED <<log, st, rolled, effects, job, seen, cand, evid>>
  PROVE  IInv'
<1>1. pc \in [Actors -> Pcs] /\ ActorInv(w)
  BY DEF TypeInv, CoreTyped, LocalsTyped, IInv
<1>2. pc'[w] = to /\ \A b \in Actors \ {w} : Kept(b)
  BY <1>1 DEF Goto, Kept
<1>3. SeenBehind(w)'
  BY <1>1 DEF ActorInv, SeenBehind
<1>4. EvidOnChain(w)'
  BY <1>1, <1>2 DEF ActorInv, EvidOnChain, Permitted, Chain
<1>5. ActorInv(w)'
  BY <1>2, <1>3, <1>4
  DEF ActorInv, CandAhead, CandLogged, CandSigned, Receipted,
      Built, PrimaryBuilt, FallbackBuilt, ReceiptCand, ReceiptSeen, SinkStages
<1> QED BY <1>2, <1>5, QuietStep

LEMMA SinkSafe ==
  ASSUME TypeInv, TypeInv', IInv, NEW w \in Actors, Sink(w), UNCHANGED history
  PROVE  IInv'
<1>1. CASE SinkReadState(w)
  BY <1>1, ReadStateSafe DEF SinkReadState
<1>2. CASE SinkReadLatch(w)
  BY <1>2, SinkCarries DEF SinkReadLatch, SinkStages, ports, budget, history
<1>3. ASSUME NEW at \in SinkStages, NEW to \in SinkStages, NEW ok, SinkCheck(w, at, ok, to)
      PROVE  IInv'
  BY <1>3, SinkCarries, NegativeSafe DEF SinkCheck, ports, budget, history
<1>4. CASE SinkCheckPrimary(w)
  BY <1>3, <1>4 DEF SinkCheckPrimary, SinkStages
<1>5. CASE SinkCheckFallback(w)
  BY <1>3, <1>5 DEF SinkCheckFallback, SinkStages
<1> QED BY <1>1, <1>2, <1>4, <1>5 DEF Sink

(* The handler runs on evidence that is on the chain. *)
LEMMA InvokeSafe ==
  ASSUME TypeInv, TypeInv', IInv, NEW w \in Actors, Invoke(w)
  PROVE  IInv'
<1>1. UNCHANGED <<log, st, rolled>> /\ ActorInv(w) /\ pc[w] = "sink" /\ Reset(w)
  BY DEF Invoke, Finish, ports, budget, IInv
<1>2. Grows
  BY <1>1, ChainsTyped, PrefixReflexive DEF Grows
<1>3. LogLeadsByAtMostOne' /\ ChainSigned'
  BY <1>1 DEF IInv, Safe, LogLeadsByAtMostOne, ChainSigned, AuthorityNeverRollsBack, Chain
<1>4. /\ evid[w].seq \in DOMAIN Chain /\ Chain[evid[w].seq].kind = "allow"
      /\ Chain[evid[w].seq].req = job[w].req /\ Chain[evid[w].seq].gen = evid[w].gen
  BY <1>1 DEF ActorInv, EvidOnChain, SinkStages
<1>5. \A e \in effects' \ effects :
        e = [req |-> job[w].req, seq |-> evid[w].seq, gen |-> evid[w].gen]
  BY DEF Invoke
<1>6. ActorInv(w)'
  <2>1. SeenBehind(w)'
    <3> SUFFICES ASSUME NEW s \in Stores PROVE IsPrefix(GenesisState.tail[s], st.tail[s])
      BY <1>1, ResetLands DEF SeenBehind
    <3>1. GenesisState.tail[s] = << >>
      BY DEF GenesisState
    <3> QED BY <3>1, ChainsTyped, PrefixReflexive
  <2> QED BY <1>1, <2>1, ResetLands, LandedSafely
<1> QED BY <1>1, <1>2, <1>3, <1>4, <1>5, <1>6, ResetLands, StepSafe

LEMMA ExecuteSafe ==
  ASSUME TypeInv, TypeInv', IInv, NEW w \in Workers, Execute(w)
  PROVE  IInv'
<1>0. w \in Actors /\ pc \in [Actors -> Pcs] /\ job \in [Actors -> Job]
  BY DEF Actors, TypeInv, CoreTyped, LocalsTyped
<1>1. CASE GovernReadState(w) /\ UNCHANGED history
  BY <1>0, <1>1, ReadStateSafe, PlainPlaces DEF GovernReadState
<1>2. CASE GovernReadLatch(w) /\ UNCHANGED history
  <2>1. UNCHANGED <<log, st, rolled, effects, seen, cand, evid>>
    BY <1>2 DEF GovernReadLatch, ports, budget, history
  <2>2. CASE RecordNegative(w)
    BY <1>0, <2>1, <2>2, NegativeSafe
  <2>3. CASE Goto(w, "rec-state") /\ UNCHANGED job
    <3>1. pc'[w] = "rec-state" /\ \A b \in Actors \ {w} : Kept(b)
      BY <1>0, <2>1, <2>3 DEF Goto, Kept
    <3> QED BY <1>0, <2>1, <3>1, MoveSafe, PlainPlaces DEF Landed
  <2> QED BY <1>2, <2>2, <2>3 DEF GovernReadLatch
<1>3. CASE RecordDecision(w) /\ UNCHANGED history
  BY <1>0, <1>3, PrimarySafe, FallbackSafe, LatchPathSafe DEF RecordDecision
<1>4. CASE Sink(w) /\ UNCHANGED history
  BY <1>0, <1>4, SinkSafe
<1>5. CASE Begin(w)
  <2>1. UNCHANGED <<log, st, rolled, effects, seen, cand, evid>>
    BY <1>5 DEF Begin, ports, budget
  <2>2. /\ pc'[w] \in {"gov-state", "rec-state"}
        /\ \A b \in Actors \ {w} : pc'[b] = pc[b] /\ job'[b] = job[b]
    BY <1>0, <1>5 DEF Begin, Goto
  <2> QED BY <1>0, <2>1, <2>2, MoveSafe, PlainPlaces DEF Landed, Kept
<1>6. CASE TakePermit(w)
  BY <1>0, <1>6, SinkCarries DEF TakePermit, SinkStages, ports, budget, history
<1>7. CASE ConvertFailedAllow(w)
  BY <1>0, <1>7, NegativeSafe DEF ConvertFailedAllow, ports, budget, history
<1>8. CASE Block(w)
  BY <1>0, <1>8, ResetSafe DEF Block, Finish, ports, budget
<1>9. CASE Invoke(w)
  BY <1>0, <1>9, InvokeSafe
<1> QED
  BY <1>1, <1>2, <1>3, <1>4, <1>5, <1>6, <1>7, <1>8, <1>9 DEF Execute, Govern
-----------------------------------------------------------------------------
(* The recovery protocol. *)

LEMMA ExitAppendSafe ==
  ASSUME TypeInv, TypeInv', IInv, NEW r \in Recoverers, ExitAppend(r), UNCHANGED history
  PROVE  IInv'
<1> DEFINE e == Receipt(r, "recovery-exit")
           chain == Append(seen[r].tail["primary"], e)
           next == ExitCommitted(seen[r], chain, Authority[r], Planned(r), job[r].req)
<1>1. r \in Actors /\ seen[r] \in Snapshot /\ job[r] \in Job /\ Authority[r] \in Nat
  BY ActorsAssumption DEF Actors, TypeInv, CoreTyped, LocalsTyped
<1>2. e \in Entry /\ e.auth = Authority[r]
  BY <1>1 DEF Receipt, Entry, Job, Snapshot
<1>3. /\ next.tail["primary"] = chain /\ next.tail["fallback"] = seen[r].tail["fallback"]
      /\ next.floor = Authority[r]
  BY <1>1, ZenonT(30) DEF ExitCommitted, Snapshot, Stores
<1>4. PICK applied \in BOOLEAN, acked \in BOOLEAN :
        /\ PortCall(TailIs("primary", seen[r].tail["primary"]), applied, acked)
        /\ AppendFrame("primary", chain, applied)
        /\ cand' = IF acked THEN [cand EXCEPT ![r] = next] ELSE cand
        /\ Check(r, acked, "x-reread")
  BY DEF ExitAppend
<1>5. UNCHANGED <<torn, st, latch, job, seen, seenL, known, lgen>>
  BY DEF ExitAppend
<1> HIDE DEF e, next
<1>6. ASSUME SeenBehind(r)', pc'[r] = "x-reread", evid' = evid, cand'[r] = next
      PROVE  ActorInv(r)'
  <2>1. CandAhead(r)' /\ CandLogged(r)' /\ CandSigned(r)'
    BY <1>1, <1>2, <1>3, <1>5, <1>6, CommittedCandidate
  <2> QED BY <1>6, <2>1 DEF ActorInv, Receipted, EvidOnChain, ReceiptCand, ReceiptSeen, SinkStages
<1> HIDE DEF chain
<1> QED BY <1>1, <1>2, <1>4, <1>5, <1>6, AppendSafe DEF chain, Stores

LEMMA ExitRereadSafe ==
  ASSUME TypeInv, TypeInv', IInv, NEW r \in Actors, ExitReread(r), UNCHANGED history
  PROVE  IInv'
<1>1. ASSUME TailIs("primary", cand[r].tail["primary"]), pc'[r] = "x-commit", evid' = evid
      PROVE  ActorInv(r)'
  <2>1. ActorInv(r) /\ pc[r] = "x-reread" /\ UNCHANGED <<log, st, rolled, job, seen, cand>>
    BY DEF IInv, ExitReread, ReadTail, ports, budget
  <2>2. IsPrefix(cand[r].tail["primary"], log'["primary"])
    BY <1>1, <2>1, ChainsTyped, PrefixReflexive DEF TailIs, Stores
  <2> QED BY <1>1, <2>1, <2>2
          DEF ActorInv, SeenBehind, CandAhead, CandLogged, CandSigned, Receipted, EvidOnChain,
              Built, PrimaryBuilt, FallbackBuilt, ReceiptCand, ReceiptSeen, SinkStages
<1> QED BY <1>1, ReadTailSafe DEF ExitReread

LEMMA RecoverSafe ==
  ASSUME TypeInv, TypeInv', IInv, NEW r \in Recoverers, Recover(r)
  PROVE  IInv'
<1>0. /\ r \in Actors /\ pc \in [Actors -> Pcs] /\ job \in [Actors -> Job]
      /\ evid \in [Actors -> Evidence] /\ UNCHANGED history
  BY DEF Actors, TypeInv, CoreTyped, LocalsTyped, Recover
<1>1. CASE ExitBegin(r)
  <2>1. UNCHANGED <<log, st, rolled, effects, seen, cand, evid>>
    BY <1>0, <1>1 DEF ExitBegin, ports, budget, history
  <2>2. pc'[r] = "x-state" /\ \A b \in Actors \ {r} : pc'[b] = pc[b] /\ job'[b] = job[b]
    BY <1>0, <1>1 DEF ExitBegin, Goto
  <2> QED BY <1>0, <2>1, <2>2, MoveSafe, PlainPlaces DEF Landed, Kept
<1>2. CASE ExitReadState(r)
  BY <1>0, <1>2, ReadStateSafe, PlainPlaces DEF ExitReadState
<1>3. CASE ExitReadLatch(r)
  <2>1. UNCHANGED <<log, st, rolled, effects, job, seen, cand, evid>>
    BY <1>0, <1>3 DEF ExitReadLatch, ports, budget, history
  <2>2. pc'[r] = "x-primary" /\ \A b \in Actors \ {r} : pc'[b] = pc[b]
    BY <1>0, <1>3 DEF ExitReadLatch, Goto
  <2> QED BY <1>0, <2>1, <2>2, MoveSafe, PlainPlaces DEF Landed, Kept
<1>4. CASE ExitCheckPrimary(r)
  <2>1. "x-fallback" \in Plain
    BY PlainPlaces
  <2> QED BY <1>0, <1>4, <2>1, ReadTailSafe DEF ExitCheckPrimary
<1>5. CASE ExitCheckFallback(r)
  <2>1. UNCHANGED <<log, st, rolled, effects, job, seen, cand>>
    BY <1>0, <1>5 DEF ExitCheckFallback, ports, budget, history
  <2>2. CASE Raises(r)
    <3>1. \A b \in Actors \ {r} : Kept(b)
      BY <1>0, <2>1, <2>2 DEF Raises, Return, Goto, Kept
    <3> QED BY <1>0, <2>1, <2>2, <3>1, RaisesLands, MoveSafe
  <2>3. CASE (\E to \in {"x-clear", "x-append", "x-done"} : Goto(r, to)) /\ UNCHANGED evid
    <3>1. \A b \in Actors \ {r} : Kept(b)
      BY <1>0, <2>1, <2>3 DEF Goto, Kept
    <3>2. pc'[r] \in {"x-clear", "x-append", "x-done"}
      BY <1>0, <2>3 DEF Goto
    <3> QED BY <1>0, <2>1, <3>1, <3>2, PlainPlaces, MoveSafe DEF Landed
  <2> QED BY <1>5, <2>2, <2>3 DEF ExitCheckFallback
<1>6. CASE ExitCommit(r)
  <2>1. "x-state2" \in Plain
    BY PlainPlaces
  <2> QED BY <1>0, <1>6, <2>1, CommitSafe DEF ExitCommit
<1>7. CASE ExitReadBack(r)
  BY <1>0, <1>7, ReadStateSafe, PlainPlaces DEF ExitReadBack
<1>8. CASE ExitReadLatchBack(r)
  <2>1. "x-clear" \in Plain
    BY PlainPlaces
  <2> QED BY <1>0, <1>8, <2>1, ReadTailSafe DEF ExitReadLatchBack
<1>9. CASE ExitClear(r)
  <2>1. UNCHANGED <<log, st, rolled, effects, job, seen, cand, evid>>
    BY <1>0, <1>9 DEF ExitClear, PortCall, budget, history
  <2>2. pc'[r] = "x-done" /\ \A b \in Actors \ {r} : pc'[b] = pc[b]
    BY <1>0, <1>9 DEF ExitClear, Goto
  <2> QED BY <1>0, <2>1, <2>2, MoveSafe, PlainPlaces DEF Landed, Kept
<1>10. CASE ExitEnd(r)
  BY <1>0, <1>10, ResetSafe DEF ExitEnd, ports, budget, history
<1> QED
  BY <1>0, <1>1, <1>2, <1>3, <1>4, <1>5, <1>6, <1>7, <1>8, <1>9, <1>10, ExitAppendSafe,
     ExitRereadSafe
  DEF Recover, RecoveryExit

-----------------------------------------------------------------------------
(* The faults. *)

(* A rollback shortens a log; the protected state and every actor keep what *)
(* they hold, and nothing is claimed of a log once rolled back. *)
LEMMA RollbackSafe ==
  ASSUME TypeInv, TypeInv', IInv, NEW s \in Stores, Rollback(s)
  PROVE  IInv'
<1>0. log \in [Stores -> Log]
  BY DEF TypeInv, CoreTyped, StoresTyped
<1>1. /\ UNCHANGED <<st, pc, job, seen, cand, evid, effects>> /\ rolled' = rolled \cup {s}
      /\ \A t \in Stores \ {s} : log'[t] = log[t]
  BY <1>0 DEF Rollback, locals, history
<1>2. Grows
  BY <1>1, ChainsTyped, PrefixReflexive DEF Grows
<1>3. LogLeadsByAtMostOne' /\ ChainSigned'
  BY <1>1 DEF IInv, Safe, LogLeadsByAtMostOne, ChainSigned, AuthorityNeverRollsBack, Chain
<1> QED BY <1>1, <1>2, <1>3, StepSafe DEF Kept

LEMMA EnvironmentSafe ==
  ASSUME TypeInv, TypeInv', IInv, Environment
  PROVE  IInv'
<1>0. pc \in [Actors -> Pcs] /\ evid \in [Actors -> Evidence] /\ job \in [Actors -> Job]
  BY DEF TypeInv, CoreTyped, LocalsTyped
<1>1. ASSUME NEW a \in Actors, ReadRaises(a) PROVE IInv'
  <2>1. UNCHANGED <<log, st, rolled, effects, seen, cand>>
    BY <1>1 DEF ReadRaises, ports, history
  <2>2. CASE RecordNegative(a) /\ UNCHANGED evid
    BY <2>1, <2>2, NegativeSafe
  <2>3. CASE Raises(a) /\ UNCHANGED job
    <3>1. \A b \in Actors \ {a} : Kept(b)
      BY <1>0, <2>1, <2>3 DEF Raises, Return, Goto, Kept
    <3> QED BY <2>1, <2>3, <3>1, RaisesLands, MoveSafe
  <2> QED BY <1>1, <2>2, <2>3 DEF ReadRaises
<1>2. ASSUME NEW a \in Actors, TornAppend(a) PROVE IInv'
  <2>1. UNCHANGED <<log, st, rolled, effects, job, seen, cand>> /\ Raises(a)
    BY <1>2 DEF TornAppend, history
  <2>2. \A b \in Actors \ {a} : Kept(b)
    BY <1>0, <2>1 DEF Raises, Return, Goto, Kept
  <2> QED BY <2>1, <2>2, RaisesLands, MoveSafe
<1>3. ASSUME NEW a \in Actors, Crash(a) PROVE IInv'
  BY <1>3, ResetSafe DEF Crash, ports, history
<1> QED BY <1>1, <1>2, <1>3, RollbackSafe DEF Environment

-----------------------------------------------------------------------------
(* An empty chain satisfies everything. *)
LEMMA InitSafe == Init => IInv
<1> SUFFICES ASSUME Init PROVE IInv
  OBVIOUS
<1>1. /\ log = [s \in Stores |-> << >>] /\ st = GenesisState /\ effects = {}
      /\ \A a \in Actors : pc[a] = "idle" /\ seen[a] = GenesisState
  BY DEF Init, CoordinatorInit
<1>2. Chain = << >> /\ \A s \in Stores : st.tail[s] = << >>
  BY <1>1 DEF Chain, GenesisState, Stores
<1>3. << >> \in Seq(Entry) /\ DOMAIN << >> = {} /\ Len(<< >>) = 0
  OBVIOUS
<1>4. IsPrefix(<< >>, << >>)
  BY <1>3, PrefixReflexive
<1>5. Safe
  BY <1>1, <1>2, <1>3, <1>4
  DEF Safe, LogLeadsByAtMostOne, ChainSigned, AuthorityNeverRollsBack, EffectsOnProtectedChain
<1>6. \A a \in Actors : ActorInv(a)
  BY <1>1, <1>2, <1>4
  DEF ActorInv, SeenBehind, CandAhead, CandLogged, CandSigned, Receipted, EvidOnChain,
      Built, PrimaryBuilt, FallbackBuilt, ReceiptCand, ReceiptSeen, SinkStages
<1> QED BY <1>5, <1>6 DEF IInv

LEMMA NextSafe == TypeInv /\ TypeInv' /\ IInv /\ [Next]_vars => IInv'
<1> SUFFICES ASSUME TypeInv, TypeInv', IInv, [Next]_vars PROVE IInv'
  OBVIOUS
<1>1. CASE UNCHANGED vars
  BY <1>1, QuietStep DEF vars, ports, budget, locals, history, Kept
<1>2. CASE \E w \in Workers : Execute(w)
  BY <1>2, ExecuteSafe
<1>3. CASE \E r \in Recoverers : Recover(r)
  BY <1>3, RecoverSafe
<1>4. CASE IssueAction /\ UNCHANGED history
  BY <1>4, QuietStep DEF IssueAction, ports, budget, history, Kept
<1>5. CASE Environment
  BY <1>5, EnvironmentSafe
<1> QED BY <1>1, <1>2, <1>3, <1>4, <1>5 DEF Next, Step

(* The inductive invariant holds of every reachable state. *)
THEOREM Invariant == Spec => []IInv
<1>1. TypeInv /\ IInv /\ [Next]_vars => TypeInv' /\ IInv'
  BY NextTyped, NextSafe
<1> QED BY <1>1, InitTyped, InitSafe, PTL DEF Spec

(* Evidence before effect: PolicyEnforcementPointV2._execute reaches a      *)
(* handler only for a request whose allow receipt is on the protected chain,*)
(* at the sequence and generation it checked.                               *)
THEOREM EvidenceBeforeEffect == Spec => []EffectsOnProtectedChain
<1>1. IInv => EffectsOnProtectedChain
  BY DEF IInv, Safe
<1> QED BY <1>1, Invariant, PTL

(* The logs and the protected state, updated by separate calls, never come  *)
(* apart by more than the frame between append and compare-and-advance.     *)
THEOREM LogsLeadByAtMostOne == Spec => []LogLeadsByAtMostOne
<1>1. IInv => LogLeadsByAtMostOne
  BY DEF IInv, Safe
<1> QED BY <1>1, Invariant, PTL

(* The signer-authorization floor of the protected state keeps a rotated-out*)
(* authority off the chain.                                                 *)
THEOREM NoAuthorityRollback == Spec => []AuthorityNeverRollsBack
<1>1. IInv => AuthorityNeverRollsBack
  BY DEF IInv, Safe, ChainSigned
<1> QED BY <1>1, Invariant, PTL

-----------------------------------------------------------------------------
(* What an actor may believe.                                              *)

(* A request that nothing of the kind it asks for has been accepted for.   *)
Undecided == GovernPcs \cup
  {"rec-state", "rec-latch", "rec-primary", "rec-fallback", "rec-append",
   "rec-reread", "rec-commit"}

Active == Pcs \ (ExitPcs \cup {"idle"})

KeepsReads(a) ==
  job'[a] = job[a] /\ seen'[a] = seen[a] /\ seenL'[a] = seenL[a]

Keeps(a) == KeepsReads(a) /\ cand'[a] = cand[a]

ReceiptAdded(a, kind) == Append(seen[a].tail["primary"], Receipt(a, kind))

EventAdded(a) == Append(seen[a].tail["fallback"], FallbackEvent(a))

ToPrimary(a) ==
  /\ pc'[a] = "rec-fallback" =>
       pc[a] = "rec-primary" /\ Keeps(a) /\ seen[a].recGen = seenL[a].gen
  /\ pc'[a] = "rec-append" => pc[a] = "rec-fallback" /\ Keeps(a)
  /\ pc'[a] = "rec-reread" =>
       /\ pc[a] = "rec-append" /\ KeepsReads(a)
       /\ cand'[a] = PrimaryCommitted(seen[a], ReceiptAdded(a, job[a].verdict),
                                      Authority[a])
  /\ pc'[a] = "rec-commit" => pc[a] = "rec-reread" /\ Keeps(a)

ToFallback(a) ==
  /\ pc'[a] = "fb-degrade" =>
       /\ pc[a] = "fb-latch" /\ seen'[a] = seen[a] /\ seen[a].mode = "healthy"
       /\ cand'[a] = Degraded(seen[a])
  /\ pc'[a] = "fb-reread" =>
       /\ pc[a] = "fb-append" /\ KeepsReads(a)
       /\ cand'[a] = FallbackCommitted(seen[a], EventAdded(a))
  /\ pc'[a] = "fb-commit" => pc[a] = "fb-reread" /\ Keeps(a)
  /\ pc'[a] = "fb-state3" => pc[a] = "fb-commit" /\ Keeps(a)
  /\ pc'[a] = "fb-latch3" =>
       pc[a] = "fb-state3" /\ job'[a] = job[a] /\ cand'[a] = cand[a]
  /\ pc'[a] = "fb-tail2" =>
       pc[a] = "fb-latch3" /\ Keeps(a) /\ seen[a] = cand[a]

ToExit(a) ==
  /\ pc'[a] = "x-append" =>
       /\ pc[a] = "x-fallback" /\ Keeps(a)
       /\ ExitAdmissible(Planned(a), seen[a], seenL[a])
  /\ pc'[a] = "x-reread" =>
       /\ pc[a] = "x-append" /\ KeepsReads(a)
       /\ cand'[a] = ExitCommitted(seen[a], ReceiptAdded(a, "recovery-exit"),
                                   Authority[a], Planned(a), job[a].req)
  /\ pc'[a] = "x-commit" => pc[a] = "x-reread" /\ Keeps(a)
  /\ pc'[a] = "x-state2" => pc[a] = "x-commit" /\ Keeps(a)
  /\ pc'[a] = "x-latch2" => pc[a] = "x-state2" /\ cand'[a] = cand[a]
  /\ pc'[a] = "x-clear" =>
       /\ Keeps(a)
       /\ \/ pc[a] = "x-fallback" /\ seen[a].mode = "recovery-exit-authorized"
          \/ pc[a] = "x-latch2" /\ seen[a] = cand[a]

ToSink(a) ==
  /\ pc'[a] = "sink-latch" => pc[a] = "sink-state" /\ seen'[a] = st
  /\ pc'[a] = "sink-primary" =>
       pc[a] = "sink-latch" /\ seen'[a] = seen[a] /\ seenL'[a] = latch
  /\ pc'[a] = "sink-fallback" =>
       pc[a] = "sink-primary" /\ OperationallyHealthy(seen[a], seenL[a])
  /\ pc'[a] = "sink" => pc[a] = "sink-fallback"

ToRecorded(a) ==
  pc'[a] = "recorded" =>
    /\ job'[a] = job[a]
    /\ evid'[a].mode = "fallback-durable" =>
         /\ pc[a] = "fb-tail2"
         /\ evid'[a].seq = Len(cand[a].tail["fallback"])
    /\ evid'[a].mode = "recovery-latched" => latch'.latched

(* Where the request of a frame comes from. *)
Request(a) ==
  /\ pc'[a] \in ExitPcs => pc[a] \in ExitPcs \/ a \in Recoverers
  /\ pc'[a] \in Active => pc[a] \in Active \/ (pc[a] = "idle" /\ a \in Workers)
  /\ pc[a] = "idle" /\ pc'[a] \in Active =>
       job'[a].req = nextReq /\ nextReq' = nextReq + 1
  /\ pc[a] \in Active /\ pc'[a] \in Active =>
       /\ job'[a].req = job[a].req
       /\ \/ /\ job'[a].verdict = job[a].verdict
             /\ pc'[a] \in Undecided => pc[a] \in Undecided
          \/ /\ job'[a].verdict = "deny"
             /\ pc[a] \in Undecided \cup SinkStages \/ job[a].verdict = "allow"

Arrives(a) ==
  /\ seen'[a] \in {seen[a], st, GenesisState}
  /\ seenL'[a] \in {seenL[a], latch, GenesisLatch}
  /\ ToPrimary(a) /\ ToFallback(a) /\ ToExit(a) /\ ToSink(a)
  /\ ToRecorded(a) /\ Request(a)

(* What a move does to what the actors share. *)

Commits(a) ==
  /\ pc[a] \in {"rec-commit", "fb-degrade", "fb-commit", "x-commit"}
  /\ st = seen[a] /\ st' = cand[a]
  /\ pc'[a] \notin Undecided

Latches ==
  \E g, event \in Nat : MaySet(latch, g, event) /\ latch' = LatchSet(latch, g, event)

Clears(a) ==
  /\ pc[a] = "x-clear"
  /\ MayClear(latch, seen[a].recGen, seen[a].prior, seen[a].exitReceipt)
  /\ latch' = LatchCleared(seen[a].recGen, seen[a].prior, seen[a].exitReceipt)

Shares(a) ==
  /\ \/ UNCHANGED <<st, latch>>
     \/ Commits(a) /\ UNCHANGED latch
     \/ (Latches \/ Clears(a)) /\ UNCHANGED st
  /\ \/ UNCHANGED effects
     \/ /\ pc[a] = "sink" /\ UNCHANGED st
        /\ effects' = effects \cup
             {[req |-> job[a].req, seq |-> evid[a].seq, gen |-> evid[a].gen]}
  /\ effects' # effects => pc'[a] = "idle"
  /\ \/ UNCHANGED outcomes
     \/ /\ pc[a] \in {"recorded", "sink"} /\ UNCHANGED <<st, latch>>
        /\ \E ran \in BOOLEAN :
             outcomes' = outcomes \cup
               {[req |-> job[a].req, ran |-> ran,
                 verdict |-> job[a].verdict, evid |-> evid[a]]}
  /\ nextReq' \in {nextReq, nextReq + 1}
  /\ UNCHANGED issued

Same(b) == Kept(b) /\ seenL'[b] = seenL[b]

Moves(a) == Arrives(a) /\ Shares(a) /\ \A b \in Actors \ {a} : Same(b)

(* An administrator signs, a log is rolled back, or nothing happens.       *)
Apart ==
  /\ \A b \in Actors : Same(b)
  /\ UNCHANGED <<st, latch, history>>
  /\ issued' # issued =>
       issued' = Append(issued, [gen |-> latch.gen + 1, latchGen |-> latch.gen,
                                 event |-> latch.event, tail |-> st.tail])

-----------------------------------------------------------------------------
(* What an actor may believe at each place. *)

Exits(c, n) == Cardinality({i \in 1..n : c[i].kind = "recovery-exit"})

Fenced(s) ==
  LET c == s.tail["primary"]
  IN  /\ \A i \in DOMAIN c : c[i].gen = Exits(c, i - 1)
      /\ s.recGen = Exits(c, Len(c))

(* An authorised exit has its receipt on the chain. *)
ExitBacked(s) ==
  s.mode = "recovery-exit-authorized" =>
    /\ IsPrefix(s.exitReceipt, s.tail["primary"])
    /\ Last(s.exitReceipt).kind = "recovery-exit"

Sound(s) == Fenced(s) /\ ExitBacked(s)

SameExit(s, t) ==
  /\ s.mode = t.mode /\ s.recGen = t.recGen
  /\ s.prior = t.prior /\ s.exitReceipt = t.exitReceipt

Role(a) == pc[a] \in ExitPcs => a \in Recoverers

Believes(a) ==
  /\ pc[a] \in {"rec-fallback", "rec-append", "rec-reread", "rec-commit"} =>
       seen[a].recGen = seenL[a].gen
  /\ pc[a] \in PrimaryBuilt =>
       Len(cand[a].tail["primary"]) = Len(seen[a].tail["primary"]) + 1
  /\ pc[a] = "fb-degrade" => seen[a].mode = "healthy"
  /\ pc[a] \in FallbackBuilt => SameExit(seen[a], cand[a])
  /\ pc[a] \in {"fb-reread", "fb-commit", "fb-state3", "fb-latch3", "fb-tail2"} =>
       LET events == cand[a].tail["fallback"]
       IN  Len(events) > 0 /\ events[Len(events)].req = job[a].req
  /\ pc[a] = "fb-tail2" => seen[a] = cand[a]
  /\ pc[a] = "x-append" => Planned(a).gen = seen[a].recGen + 1
  /\ pc[a] \in {"x-append", "x-reread", "x-commit"} =>
       seen[a].mode # "recovery-exit-authorized"
  /\ pc[a] \in {"x-reread", "x-commit"} =>
       Last(cand[a].tail["primary"]).kind = "recovery-exit"
  /\ pc[a] \in {"x-reread", "x-commit", "x-state2", "x-latch2"} =>
       cand[a].mode = "recovery-exit-authorized"
  /\ pc[a] = "x-clear" => seen[a].mode = "recovery-exit-authorized"

Sighted(a) ==
  /\ Sound(seen[a])
  /\ pc[a] \in Built => Sound(cand[a])
  /\ seenL[a].gen <= latch.gen
  /\ seen[a].mode = "recovery-exit-authorized" =>
       latch.gen >= seen[a].recGen \/ SameExit(seen[a], st)

SharedInv ==
  /\ Sound(st)
  /\ ~latch.latched => latch.clearedGen = latch.gen
  /\ \A i \in DOMAIN issued : issued[i].gen = issued[i].latchGen + 1

FenceInv ==
  /\ SharedInv
  /\ \A a \in Actors : Role(a) /\ Believes(a) /\ Sighted(a)

Backed(o) ==
  /\ o.evid.mode = "primary-durable" =>
       /\ o.evid.seq \in DOMAIN Chain
       /\ Chain[o.evid.seq].kind = o.verdict
       /\ Chain[o.evid.seq].req = o.req
  /\ o.evid.mode = "fallback-durable" =>
       LET events == st.tail["fallback"]
       IN  o.evid.seq \in DOMAIN events /\ events[o.evid.seq].req = o.req
  /\ o.evid.mode = "recovery-latched" =>
       latch.latched \/ latch.clearedGen > 0

OutcomeInv ==
  /\ \A o \in outcomes : Backed(o)
  /\ \A a \in Actors : pc[a] = "recorded" =>
       Backed([req |-> job[a].req, verdict |-> job[a].verdict, evid |-> evid[a]])

(* The instant at which a last look saw the system out of recovery-only    *)
(* mode is between its read of the state and its read of the latch.        *)
HealthInv ==
  \A w \in Workers :
    /\ pc[w] # "idle" /\ Open(st, latch) => healthyDuring[w]
    /\ pc[w] = "sink-latch" /\ seen[w].mode # "evidence-degraded" =>
         healthyDuring[w] \/ latch.latched
    /\ pc[w] = "sink-primary" /\ seen[w].mode # "evidence-degraded"
         /\ ~seenL[w].latched => healthyDuring[w]
    /\ pc[w] \in {"sink-fallback", "sink"} => healthyDuring[w]

Fresh(a) ==
  /\ job[a].req < nextReq /\ ~Promise!Ran(job[a].req)
  /\ job[a].verdict = "allow" => ~Promise!Decided("deny", job[a].req)
  /\ pc[a] \in Undecided => ~Promise!Decided(job[a].verdict, job[a].req)

RequestInv ==
  /\ \A a \in Actors : pc[a] \in Active => Fresh(a)
  /\ \A a, b \in Actors :
       a # b /\ pc[a] \in Active /\ pc[b] \in Active => job[a].req # job[b].req
  /\ \A e \in effects : e.req < nextReq
  /\ \A i \in DOMAIN Chain : Chain[i].kind \in Verdicts => Chain[i].req < nextReq

-----------------------------------------------------------------------------
(* Every action is a move. First the shapes. *)

(* What is known of the types, in the form the moves need.                 *)
LEMMA Frames ==
  ASSUME TypeInv
  PROVE  /\ pc \in [Actors -> Pcs] /\ job \in [Actors -> Job]
         /\ seen \in [Actors -> Snapshot] /\ seenL \in [Actors -> Latch]
         /\ cand \in [Actors -> Snapshot] /\ evid \in [Actors -> Evidence]
         /\ st \in Snapshot /\ latch \in Latch
  BY DEF TypeInv, CoreTyped, StoresTyped, LocalsTyped

(* An exception ends a frame's beliefs, wherever it lands.                 *)
LEMMA RaisesArrives ==
  ASSUME TypeInv, NEW a \in Actors, Raises(a), KeepsReads(a)
  PROVE  Arrives(a) /\ pc'[a] \notin Undecided
<1>1. \/ pc[a] \in RecordPcs /\ pc'[a] = "recorded" /\ evid'[a].mode = "unavailable"
      \/ pc[a] \in LatchPcs /\ pc'[a] = "recorded" /\ evid'[a].mode = "unavailable"
      \/ pc[a] \in RecordPcs /\ pc'[a] \in {"fb-state", "latch-read"}
      \/ pc[a] \in FallbackPcs /\ pc'[a] = "latch-read"
      \/ pc[a] \in ExitPcs /\ pc'[a] = "x-done"
  BY Frames DEF Raises, Return, Goto
<1> USE DEF Pcs, GovernPcs, RecordPcs, FallbackPcs, LatchPcs, SinkPcs, ExitPcs, Active, Undecided
<1>2. pc'[a] \notin Undecided
  BY <1>1
<1>3. /\ pc'[a] \in ExitPcs => pc[a] \in ExitPcs
      /\ pc'[a] \in Active => pc[a] \in Active
      /\ pc[a] # "idle"
  BY <1>1
<1>4. Request(a)
  BY <1>2, <1>3 DEF Request, KeepsReads
<1>5. ToPrimary(a) /\ ToFallback(a) /\ ToExit(a) /\ ToSink(a)
  BY <1>1 DEF ToPrimary, ToFallback, ToExit, ToSink
<1>6. ToRecorded(a)
  BY <1>1 DEF ToRecorded, KeepsReads
<1> QED BY <1>2, <1>4, <1>5, <1>6 DEF Arrives, KeepsReads

(* A step that leaves the shared variables alone. *)
LEMMA QuietMove ==
  ASSUME NEW a \in Actors, Arrives(a), UNCHANGED <<st, latch, history, issued>>,
         \A b \in Actors \ {a} : Same(b)
  PROVE  Moves(a)
  BY DEF Moves, Shares, history

(* Where the reads of the protected state are. *)
StateReads ==
  {<<"gov-state", "gov-latch">>, <<"rec-state", "rec-latch">>,
   <<"rec-state2", "rec-latch2">>, <<"fb-state", "fb-latch">>,
   <<"fb-state2", "fb-latch2">>, <<"fb-state3", "fb-latch3">>,
   <<"sink-state", "sink-latch">>, <<"x-state", "x-latch">>,
   <<"x-state2", "x-latch2">>}

LEMMA ReadStateMoves ==
  ASSUME TypeInv, NEW a \in Actors, NEW at, NEW to, <<at, to>> \in StateReads,
         ReadState(a, at, to), UNCHANGED <<history, issued>>
  PROVE  Moves(a)
<1>1. /\ pc[a] = at /\ pc'[a] = to /\ seen'[a] = st /\ job'[a] = job[a]
      /\ seenL'[a] = seenL[a] /\ cand'[a] = cand[a] /\ evid'[a] = evid[a]
      /\ UNCHANGED <<st, latch>> /\ \A b \in Actors \ {a} : Same(b)
  BY Frames DEF ReadState, Goto, ports, Same, Kept
<1> USE DEF Pcs, GovernPcs, RecordPcs, FallbackPcs, LatchPcs, SinkPcs, ExitPcs, Active,
            Undecided, StateReads
<1>2. ToPrimary(a) /\ ToFallback(a) /\ ToExit(a) /\ ToSink(a) /\ ToRecorded(a)
  BY <1>1 DEF ToPrimary, ToFallback, ToExit, ToSink, ToRecorded
<1>3. Request(a)
  BY <1>1 DEF Request
<1> QED BY <1>1, <1>2, <1>3, QuietMove DEF Arrives

(* A check goes on as it says, or raises. *)
LEMMA ReadTailMoves ==
  ASSUME TypeInv, NEW a \in Actors, NEW at, NEW ok, NEW to, ReadTail(a, at, ok, to),
         UNCHANGED <<history, issued>>,
         ok /\ pc[a] = at /\ pc'[a] = to /\ Keeps(a) => Arrives(a)
  PROVE  Moves(a)
<1>1. /\ pc[a] = at /\ Keeps(a) /\ UNCHANGED <<st, latch>>
      /\ \A b \in Actors \ {a} : Same(b)
  BY Frames DEF ReadTail, Check, Raises, Return, Goto, ports, Keeps, KeepsReads, Same, Kept
<1>2. CASE Raises(a)
  BY <1>1, <1>2, RaisesArrives, QuietMove DEF Keeps
<1>3. CASE ok /\ Goto(a, to)
  <2>1. pc'[a] = to
    BY <1>3, Frames DEF Goto
  <2> QED BY <1>1, <1>3, <2>1, QuietMove
<1> QED BY <1>2, <1>3 DEF ReadTail, Check

(* The checks that are believed for nothing but having been passed.        *)
Checks ==
  {<<"rec-fallback", "rec-append">>, <<"rec-reread", "rec-commit">>,
   <<"rec-latch2", "rec-primary2">>, <<"rec-primary2", "rec-fallback2">>,
   <<"fb-latch2", "fb-tail">>, <<"fb-tail", "fb-append">>,
   <<"fb-reread", "fb-commit">>, <<"x-primary", "x-fallback">>,
   <<"x-reread", "x-commit">>}

LEMMA Onward ==
  ASSUME NEW a \in Actors, NEW at, NEW to, <<at, to>> \in Checks,
         pc[a] = at /\ pc'[a] = to /\ Keeps(a)
  PROVE  Arrives(a)
<1> USE DEF Pcs, GovernPcs, RecordPcs, FallbackPcs, LatchPcs, SinkPcs, ExitPcs, Active,
            Undecided, Checks
<1>1. ToPrimary(a) /\ ToFallback(a) /\ ToExit(a) /\ ToSink(a) /\ ToRecorded(a)
  BY DEF ToPrimary, ToFallback, ToExit, ToSink, ToRecorded
<1>2. Request(a)
  BY DEF Request, Keeps, KeepsReads
<1> QED BY <1>1, <1>2 DEF Arrives, Keeps, KeepsReads

(* A compare-and-advance replaces the snapshot last read, or nothing.      *)
LEMMA CommitMoves ==
  ASSUME TypeInv, NEW a \in Actors, NEW at, NEW to, CommitState(a, at, to),
         UNCHANGED <<history, issued>>,
         <<at, to>> \in {<<"rec-commit", "rec-state2">>, <<"fb-degrade", "fb-state2">>,
                         <<"fb-commit", "fb-state3">>, <<"x-commit", "x-state2">>}
  PROVE  Moves(a)
<1> USE DEF Pcs, GovernPcs, RecordPcs, FallbackPcs, LatchPcs, SinkPcs, ExitPcs, Active,
            Undecided
<1>1. PICK applied \in BOOLEAN, acked \in BOOLEAN :
        /\ PortCall(st = seen[a] /\ MaySucceed(cand[a], seen[a]), applied, acked)
        /\ st' = IF applied THEN cand[a] ELSE st
        /\ Check(a, acked, to)
  BY DEF CommitState
<1>2. /\ pc[a] = at /\ Keeps(a) /\ UNCHANGED latch
      /\ \A b \in Actors \ {a} : Same(b)
  BY <1>1, Frames
  DEF CommitState, Check, Raises, Return, Goto, Keeps, KeepsReads, Same, Kept
<1>3. Arrives(a) /\ pc'[a] \notin Undecided
  <2>1. CASE Raises(a)
    BY <1>2, <2>1, RaisesArrives DEF Keeps
  <2>2. CASE Goto(a, to)
    <3>1. pc'[a] = to
      BY <2>2, Frames DEF Goto
    <3>2. ToPrimary(a) /\ ToFallback(a) /\ ToExit(a) /\ ToSink(a) /\ ToRecorded(a)
      BY <1>2, <3>1 DEF ToPrimary, ToFallback, ToExit, ToSink, ToRecorded
    <3>3. Request(a)
      BY <1>2, <3>1 DEF Request, Keeps, KeepsReads
    <3>4. pc'[a] \notin Undecided
      BY <3>1
    <3> QED BY <1>2, <3>2, <3>3, <3>4 DEF Arrives, Keeps, KeepsReads
  <2> QED BY <1>1, <2>1, <2>2 DEF Check
<1>4. UNCHANGED st \/ Commits(a)
  BY <1>1, <1>2, <1>3 DEF Commits, PortCall
<1> QED BY <1>2, <1>3, <1>4 DEF Moves, Shares, history

(* An append is followed by the candidate it announces, or raises.         *)
LEMMA AppendMoves ==
  ASSUME TypeInv, NEW a \in Actors, NEW at, NEW to, NEW next, NEW acked, pc[a] = at,
         cand' = IF acked THEN [cand EXCEPT ![a] = next] ELSE cand, Check(a, acked, to),
         UNCHANGED <<st, latch, job, seen, seenL, history, issued>>,
         pc[a] = at /\ pc'[a] = to /\ KeepsReads(a) /\ cand'[a] = next => Arrives(a)
  PROVE  Moves(a)
<1>1. KeepsReads(a) /\ \A b \in Actors \ {a} : Same(b)
  BY Frames DEF Check, Raises, Return, Goto, KeepsReads, Same, Kept
<1>2. CASE Raises(a)
  BY <1>1, <1>2, RaisesArrives, QuietMove
<1>3. CASE acked /\ Goto(a, to)
  <2>1. pc'[a] = to /\ cand'[a] = next
    BY <1>3, Frames DEF Goto
  <2> QED BY <1>1, <2>1, QuietMove
<1> QED BY <1>2, <1>3 DEF Check

-----------------------------------------------------------------------------
(* record_decision. *)

LEMMA PrimaryMoves ==
  ASSUME TypeInv, NEW w \in Actors, RecordPrimary(w), UNCHANGED <<history, issued>>
  PROVE  Moves(w)
<1> USE DEF Pcs, GovernPcs, RecordPcs, FallbackPcs, LatchPcs, SinkPcs, ExitPcs, Active,
            Undecided
<1>1. CASE RecordReadState(w)
  BY <1>1, ReadStateMoves DEF RecordReadState, StateReads
<1>2. CASE RecordReadLatch(w)
  <2>1. /\ pc[w] = "rec-latch" /\ pc'[w] = "rec-primary" /\ seenL'[w] = latch
        /\ seen'[w] = seen[w] /\ job'[w] = job[w]
        /\ UNCHANGED <<st, latch>> /\ \A b \in Actors \ {w} : Same(b)
    BY <1>2, Frames DEF RecordReadLatch, Goto, ports, Same, Kept
  <2>2. ToPrimary(w) /\ ToFallback(w) /\ ToExit(w) /\ ToSink(w) /\ ToRecorded(w)
    BY <2>1 DEF ToPrimary, ToFallback, ToExit, ToSink, ToRecorded
  <2>3. Request(w)
    BY <2>1 DEF Request
  <2> QED BY <2>1, <2>2, <2>3, QuietMove DEF Arrives
<1>3. CASE RecordCheckPrimary(w)
  <2>1. ASSUME OperationallyHealthy(seen[w], seenL[w]), pc[w] = "rec-primary",
               pc'[w] = "rec-fallback", Keeps(w)
        PROVE  Arrives(w)
    <3>1. ToPrimary(w)
      BY <2>1 DEF ToPrimary, OperationallyHealthy
    <3>2. ToFallback(w) /\ ToExit(w) /\ ToSink(w) /\ ToRecorded(w)
      BY <2>1 DEF ToFallback, ToExit, ToSink, ToRecorded
    <3>3. Request(w)
      BY <2>1 DEF Request, Keeps, KeepsReads
    <3> QED BY <2>1, <3>1, <3>2, <3>3 DEF Arrives, Keeps, KeepsReads
  <2> QED BY <1>3, <2>1, ReadTailMoves DEF RecordCheckPrimary
<1>4. CASE RecordCheckFallback(w)
  BY <1>4, Onward, ReadTailMoves DEF RecordCheckFallback, Checks
<1>5. CASE RecordAppend(w)
  <2> DEFINE next == PrimaryCommitted(seen[w], ReceiptAdded(w, job[w].verdict), Authority[w])
  <2>1. PICK acked \in BOOLEAN :
          /\ cand' = IF acked THEN [cand EXCEPT ![w] = next] ELSE cand
          /\ Check(w, acked, "rec-reread")
    BY <1>5 DEF RecordAppend, ReceiptAdded
  <2>2. ASSUME pc[w] = "rec-append", pc'[w] = "rec-reread", KeepsReads(w), cand'[w] = next
        PROVE  Arrives(w)
    <3>1. ToPrimary(w) /\ ToFallback(w) /\ ToExit(w) /\ ToSink(w) /\ ToRecorded(w)
      BY <2>2 DEF ToPrimary, ToFallback, ToExit, ToSink, ToRecorded
    <3>2. Request(w)
      BY <2>2 DEF Request, KeepsReads
    <3> QED BY <2>2, <3>1, <3>2 DEF Arrives, KeepsReads
  <2>3. pc[w] = "rec-append" /\ UNCHANGED <<st, latch, job, seen, seenL>>
    BY <1>5 DEF RecordAppend
  <2> HIDE DEF next
  <2> QED BY <2>1, <2>2, <2>3, AppendMoves
<1>6. CASE RecordReread(w)
  BY <1>6, Onward, ReadTailMoves DEF RecordReread, Checks
<1>7. CASE RecordCommit(w)
  BY <1>7, CommitMoves DEF RecordCommit
<1>8. CASE RecordReadBack(w)
  BY <1>8, ReadStateMoves DEF RecordReadBack, StateReads
<1>9. CASE RecordReadLatchBack(w)
  BY <1>9, Onward, ReadTailMoves DEF RecordReadLatchBack, Checks
<1>10. CASE RecordRecheckPrimary(w)
  BY <1>10, Onward, ReadTailMoves DEF RecordRecheckPrimary, Checks
<1>11. CASE RecordRecheckFallback(w)
  <2>1. /\ pc[w] = "rec-fallback2" /\ Keeps(w) /\ UNCHANGED <<st, latch>>
        /\ \A b \in Actors \ {w} : Same(b)
    BY <1>11, Frames
    DEF RecordRecheckFallback, Raises, Return, Goto, ports, Keeps, KeepsReads, Same, Kept
  <2>2. CASE Raises(w)
    BY <2>1, <2>2, RaisesArrives, QuietMove DEF Keeps
  <2>3. CASE Return(w, "primary-durable", Len(seen[w].tail["primary"]), seen[w].recGen)
    <3>1. pc'[w] = "recorded" /\ evid'[w].mode = "primary-durable"
      BY <2>3, Frames DEF Return, Goto
    <3>2. ToPrimary(w) /\ ToFallback(w) /\ ToExit(w) /\ ToSink(w)
      BY <3>1 DEF ToPrimary, ToFallback, ToExit, ToSink
    <3>3. ToRecorded(w) /\ Request(w)
      BY <2>1, <3>1 DEF ToRecorded, Request, Keeps, KeepsReads
    <3>4. Arrives(w)
      BY <2>1, <3>2, <3>3 DEF Arrives, Keeps, KeepsReads
    <3> QED BY <2>1, <3>4, QuietMove
  <2> QED BY <1>11, <2>2, <2>3 DEF RecordRecheckFallback
<1> QED BY <1>1, <1>2, <1>3, <1>4, <1>5, <1>6, <1>7, <1>8, <1>9, <1>10, <1>11
        DEF RecordPrimary

LEMMA FallbackMoves ==
  ASSUME TypeInv, NEW w \in Actors, RecordFallback(w), UNCHANGED <<history, issued>>
  PROVE  Moves(w)
<1> USE DEF Pcs, GovernPcs, RecordPcs, FallbackPcs, LatchPcs, SinkPcs, ExitPcs, Active,
            Undecided
<1>1. CASE FallbackReadState(w)
  BY <1>1, ReadStateMoves DEF FallbackReadState, StateReads
<1>2. CASE FallbackReadLatch(w)
  <2>1. /\ pc[w] = "fb-latch" /\ seenL'[w] = latch
        /\ seen'[w] = seen[w] /\ job'[w] = job[w]
        /\ UNCHANGED <<st, latch>> /\ \A b \in Actors \ {w} : Same(b)
    BY <1>2, Frames DEF FallbackReadLatch, Goto, ports, Same, Kept
  <2>2. \/ /\ pc'[w] = "fb-degrade" /\ seen[w].mode = "healthy"
           /\ cand'[w] = Degraded(seen[w])
        \/ pc'[w] = "fb-tail"
    BY <1>2, Frames DEF FallbackReadLatch, Goto
  <2>3. ToPrimary(w) /\ ToFallback(w) /\ ToExit(w) /\ ToSink(w) /\ ToRecorded(w)
    BY <2>1, <2>2 DEF ToPrimary, ToFallback, ToExit, ToSink, ToRecorded
  <2>4. Request(w)
    BY <2>1, <2>2 DEF Request
  <2> QED BY <2>1, <2>3, <2>4, QuietMove DEF Arrives
<1>3. CASE FallbackDegrade(w)
  BY <1>3, CommitMoves DEF FallbackDegrade
<1>4. CASE FallbackReadDegraded(w)
  BY <1>4, ReadStateMoves DEF FallbackReadDegraded, StateReads
<1>5. CASE FallbackReadLatchAgain(w)
  BY <1>5, Onward, ReadTailMoves DEF FallbackReadLatchAgain, Checks
<1>6. CASE FallbackCheckTail(w)
  BY <1>6, Onward, ReadTailMoves DEF FallbackCheckTail, Checks
<1>7. CASE FallbackAppend(w)
  <2> DEFINE next == FallbackCommitted(seen[w], EventAdded(w))
  <2>1. PICK acked \in BOOLEAN :
          /\ cand' = IF acked THEN [cand EXCEPT ![w] = next] ELSE cand
          /\ Check(w, acked, "fb-reread")
    BY <1>7 DEF FallbackAppend, EventAdded
  <2>2. ASSUME pc[w] = "fb-append", pc'[w] = "fb-reread", KeepsReads(w), cand'[w] = next
        PROVE  Arrives(w)
    <3>1. ToPrimary(w) /\ ToFallback(w) /\ ToExit(w) /\ ToSink(w) /\ ToRecorded(w)
      BY <2>2 DEF ToPrimary, ToFallback, ToExit, ToSink, ToRecorded
    <3>2. Request(w)
      BY <2>2 DEF Request, KeepsReads
    <3> QED BY <2>2, <3>1, <3>2 DEF Arrives, KeepsReads
  <2>3. pc[w] = "fb-append" /\ UNCHANGED <<st, latch, job, seen, seenL>>
    BY <1>7 DEF FallbackAppend
  <2> HIDE DEF next
  <2> QED BY <2>1, <2>2, <2>3, AppendMoves
<1>8. CASE FallbackReread(w)
  BY <1>8, Onward, ReadTailMoves DEF FallbackReread, Checks
<1>9. CASE FallbackCommit(w)
  BY <1>9, CommitMoves DEF FallbackCommit
<1>10. CASE FallbackReadBack(w)
  BY <1>10, ReadStateMoves DEF FallbackReadBack, StateReads
<1>11. CASE FallbackReadLatchBack(w)
  <2>1. ASSUME seen[w] = cand[w], pc[w] = "fb-latch3", pc'[w] = "fb-tail2", Keeps(w)
        PROVE  Arrives(w)
    <3>1. ToPrimary(w) /\ ToFallback(w) /\ ToExit(w) /\ ToSink(w) /\ ToRecorded(w)
      BY <2>1 DEF ToPrimary, ToFallback, ToExit, ToSink, ToRecorded
    <3>2. Request(w)
      BY <2>1 DEF Request, Keeps, KeepsReads
    <3> QED BY <2>1, <3>1, <3>2 DEF Arrives, Keeps, KeepsReads
  <2> QED BY <1>11, <2>1, ReadTailMoves DEF FallbackReadLatchBack
<1>12. CASE FallbackRecheckTail(w)
  <2>1. /\ pc[w] = "fb-tail2" /\ Keeps(w) /\ UNCHANGED <<st, latch>>
        /\ \A b \in Actors \ {w} : Same(b)
    BY <1>12, Frames
    DEF FallbackRecheckTail, Raises, Return, Goto, ports, Keeps, KeepsReads, Same, Kept
  <2>2. CASE Raises(w)
    BY <2>1, <2>2, RaisesArrives, QuietMove DEF Keeps
  <2>3. CASE Return(w, "fallback-durable", Len(cand[w].tail["fallback"]), lgen[w])
    <3>1. /\ pc'[w] = "recorded" /\ evid'[w].mode = "fallback-durable"
          /\ evid'[w].seq = Len(cand[w].tail["fallback"])
      BY <2>3, Frames DEF Return, Goto
    <3>2. ToPrimary(w) /\ ToFallback(w) /\ ToExit(w) /\ ToSink(w)
      BY <3>1 DEF ToPrimary, ToFallback, ToExit, ToSink
    <3>3. ToRecorded(w) /\ Request(w)
      BY <2>1, <3>1 DEF ToRecorded, Request, Keeps, KeepsReads
    <3>4. Arrives(w)
      BY <2>1, <3>2, <3>3 DEF Arrives, Keeps, KeepsReads
    <3> QED BY <2>1, <3>4, QuietMove
  <2> QED BY <1>12, <2>2, <2>3 DEF FallbackRecheckTail
<1> QED BY <1>1, <1>2, <1>3, <1>4, <1>5, <1>6, <1>7, <1>8, <1>9, <1>10, <1>11, <1>12
        DEF RecordFallback

LEMMA LatchPathMoves ==
  ASSUME TypeInv, NEW w \in Actors, RecordLatch(w), UNCHANGED <<history, issued>>
  PROVE  Moves(w)
<1> USE DEF Pcs, GovernPcs, RecordPcs, FallbackPcs, LatchPcs, SinkPcs, ExitPcs, Active,
            Undecided
<1>0. /\ job'[w] = job[w] /\ seen'[w] = seen[w] /\ cand'[w] = cand[w]
      /\ seenL'[w] \in {seenL[w], latch} /\ UNCHANGED st /\ pc[w] \in LatchPcs
      /\ \A b \in Actors \ {w} : Same(b)
  BY Frames DEF RecordLatch, LatchRead, LatchSetCall, LatchVerify, Check, Raises, Return, Goto,
                ports, Same, Kept
<1>1. ASSUME pc'[w] \in {"latch-set", "latch-verify"}
             \/ (pc'[w] = "recorded" /\ evid'[w].mode = "recovery-latched" /\ latch'.latched)
      PROVE  Arrives(w)
  <2>1. ToPrimary(w) /\ ToFallback(w) /\ ToExit(w) /\ ToSink(w)
    BY <1>1 DEF ToPrimary, ToFallback, ToExit, ToSink
  <2>2. ToRecorded(w) /\ Request(w)
    BY <1>0, <1>1 DEF ToRecorded, Request
  <2> QED BY <1>0, <2>1, <2>2 DEF Arrives
<1>2. CASE LatchRead(w)
  <2>1. UNCHANGED latch
    BY <1>2 DEF LatchRead, ports
  <2>2. \/ pc'[w] = "latch-set"
        \/ pc'[w] = "recorded" /\ evid'[w].mode = "recovery-latched" /\ latch'.latched
    BY <1>2, <2>1, Frames DEF LatchRead, Return, Goto
  <2> QED BY <1>0, <1>1, <2>1, <2>2, QuietMove
<1>3. CASE LatchSetCall(w)
  <2> DEFINE g == LatchGeneration(w)
             event == job[w].req
  <2>1. PICK applied \in BOOLEAN, acked \in BOOLEAN :
          /\ PortCall(MaySet(latch, g, event), applied, acked)
          /\ latch' = IF applied THEN LatchSet(latch, g, event) ELSE latch
          /\ Check(w, acked, "latch-verify")
    BY <1>3 DEF LatchSetCall
  <2>2. g \in Nat /\ event \in Nat
    <3>1. lgen[w] \in Nat
      BY DEF TypeInv, CoreTyped, LocalsTyped
    <3> QED BY <3>1, Frames DEF LatchGeneration, Max2, Latch, Job
  <2>3. KeepsReads(w)
    BY <1>3 DEF LatchSetCall, KeepsReads
  <2>4. Arrives(w)
    <3>1. CASE Raises(w)
      BY <2>3, <3>1, RaisesArrives
    <3>2. CASE Goto(w, "latch-verify")
      BY <1>1, <3>2, Frames DEF Goto
    <3> QED BY <2>1, <3>1, <3>2 DEF Check
  <2> HIDE DEF g, event
  <2>5. UNCHANGED latch \/ Latches
    <3>1. applied => MaySet(latch, g, event)
      BY <2>1 DEF PortCall
    <3> QED BY <2>1, <2>2, <3>1 DEF Latches
  <2> QED BY <1>0, <2>4, <2>5 DEF Moves, Shares, history
<1>4. CASE LatchVerify(w)
  <2>1. UNCHANGED latch /\ Keeps(w)
    BY <1>4 DEF LatchVerify, ports, Keeps, KeepsReads
  <2>2. CASE Raises(w)
    BY <1>0, <2>1, <2>2, RaisesArrives, QuietMove DEF Keeps
  <2>3. CASE /\ latch = LatchSet(GenesisLatch, LatchGeneration(w), job[w].req)
             /\ Return(w, "recovery-latched", 0, lgen[w])
    <3>1. latch'.latched
      BY <2>1, <2>3 DEF LatchSet, GenesisLatch
    <3>2. pc'[w] = "recorded" /\ evid'[w].mode = "recovery-latched"
      BY <2>3, Frames DEF Return, Goto
    <3> QED BY <1>0, <1>1, <2>1, <3>1, <3>2, QuietMove
  <2> QED BY <1>4, <2>2, <2>3 DEF LatchVerify
<1> QED BY <1>2, <1>3, <1>4 DEF RecordLatch

-----------------------------------------------------------------------------
(* The enforcement point. *)

(* A frame that ends believes nothing. *)
LEMMA ResetArrives ==
  ASSUME TypeInv, NEW a \in Actors, Reset(a)
  PROVE  Arrives(a) /\ pc'[a] = "idle" /\ \A b \in Actors \ {a} : Same(b)
<1>1. /\ pc'[a] = "idle" /\ seen'[a] = GenesisState /\ seenL'[a] = GenesisLatch
      /\ \A b \in Actors \ {a} : Same(b)
  BY Frames DEF Reset, Goto, Same, Kept
<1>2. ToPrimary(a) /\ ToFallback(a) /\ ToExit(a) /\ ToSink(a) /\ ToRecorded(a)
  BY <1>1 DEF ToPrimary, ToFallback, ToExit, ToSink, ToRecorded
<1>3. Request(a)
  BY <1>1 DEF Request, Active, ExitPcs
<1> QED BY <1>1, <1>2, <1>3 DEF Arrives

(* A request turns negative before its receipt, at the sink, or when its   *)
(* allow came to nothing. *)
LEMMA NegativeMoves ==
  ASSUME TypeInv, NEW a \in Actors, RecordNegative(a),
         UNCHANGED <<st, latch, seen, seenL, cand, evid, history, issued>>,
         \/ pc[a] \in GovernPcs \cup SinkPcs
         \/ pc[a] = "recorded" /\ job[a].verdict = "allow"
  PROVE  Moves(a)
<1>1. /\ pc'[a] = "rec-state" /\ job'[a].req = job[a].req /\ job'[a].verdict = "deny"
      /\ \A b \in Actors \ {a} : Same(b)
  BY Frames DEF RecordNegative, Goto, Job, Same, Kept
<1>2. ToPrimary(a) /\ ToFallback(a) /\ ToExit(a) /\ ToSink(a) /\ ToRecorded(a)
  BY <1>1 DEF ToPrimary, ToFallback, ToExit, ToSink, ToRecorded
<1>3. Request(a)
  BY <1>1 DEF Request, Active, ExitPcs, Pcs, GovernPcs, SinkPcs, RecordPcs, FallbackPcs,
              LatchPcs, Undecided, SinkStages
<1> QED BY <1>1, <1>2, <1>3, QuietMove DEF Arrives

(* On the way to the handler. *)
LEMMA SinkMoves ==
  ASSUME TypeInv, NEW w \in Actors, Sink(w), UNCHANGED <<history, issued>>
  PROVE  Moves(w)
<1> USE DEF Pcs, GovernPcs, RecordPcs, FallbackPcs, LatchPcs, SinkPcs, ExitPcs, Active,
            Undecided
<1>1. CASE SinkReadState(w)
  BY <1>1, ReadStateMoves DEF SinkReadState, StateReads
<1>2. CASE SinkReadLatch(w)
  <2>1. /\ pc[w] = "sink-latch" /\ pc'[w] = "sink-primary" /\ seenL'[w] = latch
        /\ seen'[w] = seen[w] /\ job'[w] = job[w]
        /\ UNCHANGED <<st, latch>> /\ \A b \in Actors \ {w} : Same(b)
    BY <1>2, Frames DEF SinkReadLatch, Goto, ports, Same, Kept
  <2>2. ToPrimary(w) /\ ToFallback(w) /\ ToExit(w) /\ ToSink(w) /\ ToRecorded(w)
    BY <2>1 DEF ToPrimary, ToFallback, ToExit, ToSink, ToRecorded
  <2>3. Request(w)
    BY <2>1 DEF Request
  <2> QED BY <2>1, <2>2, <2>3, QuietMove DEF Arrives
<1>3. ASSUME NEW at, NEW ok, NEW to, SinkCheck(w, at, ok, to),
             \/ at = "sink-primary" /\ to = "sink-fallback"
                /\ (ok => OperationallyHealthy(seen[w], seenL[w]))
             \/ at = "sink-fallback" /\ to = "sink"
      PROVE  Moves(w)
  <2>1. pc[w] = at /\ UNCHANGED <<st, latch, seen, seenL, cand, evid>>
    BY <1>3 DEF SinkCheck, ports
  <2>2. CASE RecordNegative(w)
    BY <1>3, <2>1, <2>2, NegativeMoves
  <2>3. CASE ok /\ Goto(w, to) /\ UNCHANGED job
    <3>1. pc'[w] = to /\ Keeps(w) /\ \A b \in Actors \ {w} : Same(b)
      BY <2>1, <2>3, Frames DEF Goto, Keeps, KeepsReads, Same, Kept
    <3>2. ToPrimary(w) /\ ToFallback(w) /\ ToExit(w) /\ ToSink(w) /\ ToRecorded(w)
      BY <1>3, <2>1, <2>3, <3>1 DEF ToPrimary, ToFallback, ToExit, ToSink, ToRecorded
    <3>3. Request(w)
      BY <1>3, <2>1, <3>1 DEF Request, Keeps, KeepsReads
    <3>4. Arrives(w)
      BY <3>1, <3>2, <3>3 DEF Arrives, Keeps, KeepsReads
    <3> QED BY <2>1, <3>1, <3>4, QuietMove
  <2> QED BY <1>3, <2>2, <2>3 DEF SinkCheck
<1>4. CASE SinkCheckPrimary(w)
  BY <1>3, <1>4 DEF SinkCheckPrimary, SinkBound
<1>5. CASE SinkCheckFallback(w)
  BY <1>3, <1>5 DEF SinkCheckFallback
<1> QED BY <1>1, <1>2, <1>4, <1>5 DEF Sink

(* What a request leaves behind, and nothing else. *)
LEMMA FinishMoves ==
  ASSUME TypeInv, NEW w \in Actors, NEW ran \in BOOLEAN, Finish(w, ran),
         UNCHANGED <<ports, nextReq, issued>>, pc[w] \in {"recorded", "sink"},
         \/ UNCHANGED effects
         \/ /\ pc[w] = "sink"
            /\ effects' = effects \cup
                 {[req |-> job[w].req, seq |-> evid[w].seq, gen |-> evid[w].gen]}
  PROVE  Moves(w)
<1>1. Arrives(w) /\ pc'[w] = "idle" /\ \A b \in Actors \ {w} : Same(b)
  BY ResetArrives DEF Finish
<1>2. Shares(w)
  BY <1>1 DEF Shares, Finish, ports
<1> QED BY <1>1, <1>2 DEF Moves

LEMMA ExecuteMoves ==
  ASSUME TypeInv, NEW w \in Workers, Execute(w)
  PROVE  Moves(w)
<1>0. w \in Actors /\ UNCHANGED issued
  BY DEF Actors, Execute
<1> USE DEF Pcs, GovernPcs, RecordPcs, FallbackPcs, LatchPcs, SinkPcs, ExitPcs, Active,
            Undecided
<1>1. CASE GovernReadState(w) /\ UNCHANGED history
  BY <1>0, <1>1, ReadStateMoves DEF GovernReadState, StateReads
<1>2. CASE GovernReadLatch(w) /\ UNCHANGED history
  <2>1. pc[w] = "gov-latch" /\ UNCHANGED <<st, latch, seen, seenL, cand, evid>>
    BY <1>2 DEF GovernReadLatch, ports
  <2>2. CASE RecordNegative(w)
    BY <1>0, <1>2, <2>1, <2>2, NegativeMoves
  <2>3. CASE Goto(w, "rec-state") /\ UNCHANGED job
    <3>1. pc'[w] = "rec-state" /\ Keeps(w) /\ \A b \in Actors \ {w} : Same(b)
      BY <1>0, <2>1, <2>3, Frames DEF Goto, Keeps, KeepsReads, Same, Kept
    <3>2. ToPrimary(w) /\ ToFallback(w) /\ ToExit(w) /\ ToSink(w) /\ ToRecorded(w)
      BY <3>1 DEF ToPrimary, ToFallback, ToExit, ToSink, ToRecorded
    <3>3. Request(w)
      BY <2>1, <3>1 DEF Request, Keeps, KeepsReads
    <3>4. Arrives(w)
      BY <3>1, <3>2, <3>3 DEF Arrives, Keeps, KeepsReads
    <3> QED BY <1>0, <1>2, <2>1, <3>1, <3>4, QuietMove
  <2> QED BY <1>2, <2>2, <2>3 DEF GovernReadLatch
<1>3. CASE RecordDecision(w) /\ UNCHANGED history
  BY <1>0, <1>3, PrimaryMoves, FallbackMoves, LatchPathMoves DEF RecordDecision
<1>4. CASE Sink(w) /\ UNCHANGED history
  BY <1>0, <1>4, SinkMoves
<1>5. CASE Begin(w)
  <2>1. /\ pc[w] = "idle" /\ pc'[w] \in {"gov-state", "rec-state"}
        /\ job'[w].req = nextReq /\ nextReq' = nextReq + 1
        /\ UNCHANGED <<st, latch, effects, outcomes>>
        /\ seen'[w] = seen[w] /\ seenL'[w] = seenL[w]
        /\ \A b \in Actors \ {w} : Same(b)
    BY <1>0, <1>5, Frames DEF Begin, Goto, ports, Same, Kept
  <2>2. ToPrimary(w) /\ ToFallback(w) /\ ToExit(w) /\ ToSink(w) /\ ToRecorded(w)
    BY <2>1 DEF ToPrimary, ToFallback, ToExit, ToSink, ToRecorded
  <2>3. Request(w)
    BY <2>1 DEF Request
  <2> QED BY <1>0, <2>1, <2>2, <2>3 DEF Moves, Shares, Arrives
<1>6. CASE TakePermit(w)
  <2>1. /\ pc[w] = "recorded" /\ pc'[w] = "sink-state" /\ Keeps(w)
        /\ UNCHANGED <<st, latch, history>> /\ \A b \in Actors \ {w} : Same(b)
    BY <1>0, <1>6, Frames DEF TakePermit, Goto, ports, Keeps, KeepsReads, Same, Kept
  <2>2. ToPrimary(w) /\ ToFallback(w) /\ ToExit(w) /\ ToSink(w) /\ ToRecorded(w)
    BY <2>1 DEF ToPrimary, ToFallback, ToExit, ToSink, ToRecorded
  <2>3. Request(w)
    BY <2>1 DEF Request, Keeps, KeepsReads
  <2> QED BY <1>0, <2>1, <2>2, <2>3, QuietMove DEF Arrives, Keeps, KeepsReads
<1>7. CASE ConvertFailedAllow(w)
  BY <1>0, <1>7, NegativeMoves DEF ConvertFailedAllow, ports
<1>8. CASE Block(w)
  BY <1>0, <1>8, FinishMoves DEF Block
<1>9. CASE Invoke(w)
  BY <1>0, <1>9, FinishMoves DEF Invoke
<1> QED BY <1>1, <1>2, <1>3, <1>4, <1>5, <1>6, <1>7, <1>8, <1>9 DEF Execute, Govern

-----------------------------------------------------------------------------
(* The recovery protocol and the faults. *)

LEMMA RecoverMoves ==
  ASSUME TypeInv, NEW r \in Recoverers, Recover(r)
  PROVE  Moves(r)
<1> USE DEF Pcs, GovernPcs, RecordPcs, FallbackPcs, LatchPcs, SinkPcs, ExitPcs, Active,
            Undecided
<1>0. r \in Actors /\ UNCHANGED <<history, issued>>
  BY DEF Actors, Recover, RecoveryExit, ExitBegin, ExitReadState, ExitReadLatch,
         ExitCheckPrimary, ExitCheckFallback, ExitAppend, ExitReread, ExitCommit, ExitReadBack,
         ExitReadLatchBack, ExitClear, ExitEnd
<1>1. CASE ExitBegin(r)
  <2>1. /\ pc'[r] = "x-state" /\ UNCHANGED <<st, latch>>
        /\ seen'[r] = seen[r] /\ seenL'[r] = seenL[r]
        /\ \A b \in Actors \ {r} : Same(b)
    BY <1>0, <1>1, Frames DEF ExitBegin, Goto, ports, Same, Kept
  <2>2. ToPrimary(r) /\ ToFallback(r) /\ ToExit(r) /\ ToSink(r) /\ ToRecorded(r)
    BY <2>1 DEF ToPrimary, ToFallback, ToExit, ToSink, ToRecorded
  <2>3. Request(r)
    BY <2>1 DEF Request
  <2> QED BY <1>0, <2>1, <2>2, <2>3, QuietMove DEF Arrives
<1>2. CASE ExitReadState(r)
  BY <1>0, <1>2, ReadStateMoves DEF ExitReadState, StateReads
<1>3. CASE ExitReadLatch(r)
  <2>1. /\ pc[r] = "x-latch" /\ pc'[r] = "x-primary" /\ seenL'[r] = latch
        /\ seen'[r] = seen[r] /\ UNCHANGED <<st, latch>>
        /\ \A b \in Actors \ {r} : Same(b)
    BY <1>0, <1>3, Frames DEF ExitReadLatch, Goto, ports, Same, Kept
  <2>2. ToPrimary(r) /\ ToFallback(r) /\ ToExit(r) /\ ToSink(r) /\ ToRecorded(r)
    BY <2>1 DEF ToPrimary, ToFallback, ToExit, ToSink, ToRecorded
  <2>3. Request(r)
    BY <2>1 DEF Request
  <2> QED BY <1>0, <2>1, <2>2, <2>3, QuietMove DEF Arrives
<1>4. CASE ExitCheckPrimary(r)
  <2> DEFINE ok == /\ Authority[r] >= seen[r].floor
                   /\ job[r].timely
                   /\ TailIs("primary", seen[r].tail["primary"])
  <2>1. ReadTail(r, "x-primary", ok, "x-fallback")
    BY <1>4 DEF ExitCheckPrimary
  <2> HIDE DEF ok
  <2> QED BY <1>0, <2>1, Onward, ReadTailMoves DEF Checks
<1>5. CASE ExitCheckFallback(r)
  <2>1. /\ pc[r] = "x-fallback" /\ Keeps(r) /\ UNCHANGED <<st, latch>>
        /\ \A b \in Actors \ {r} : Same(b)
    BY <1>0, <1>5, Frames
    DEF ExitCheckFallback, Raises, Return, Goto, ports, Keeps, KeepsReads, Same, Kept
  <2>2. CASE Raises(r)
    BY <1>0, <2>1, <2>2, RaisesArrives, QuietMove DEF Keeps
  <2>3. CASE \/ pc'[r] = "x-clear" /\ seen[r].mode = "recovery-exit-authorized"
             \/ pc'[r] = "x-append" /\ ExitAdmissible(Planned(r), seen[r], seenL[r])
             \/ pc'[r] = "x-done"
    <3>1. ToPrimary(r) /\ ToFallback(r) /\ ToExit(r) /\ ToSink(r) /\ ToRecorded(r)
      BY <2>1, <2>3 DEF ToPrimary, ToFallback, ToExit, ToSink, ToRecorded
    <3>2. Request(r)
      BY <2>1, <2>3 DEF Request
    <3>3. Arrives(r)
      BY <2>1, <3>1, <3>2 DEF Arrives, Keeps, KeepsReads
    <3> QED BY <1>0, <2>1, <3>3, QuietMove
  <2>4. \/ Raises(r)
        \/ pc'[r] = "x-clear" /\ RetryAdmissible(Planned(r), job[r].req, seen[r])
        \/ pc'[r] = "x-append" /\ ExitAdmissible(Planned(r), seen[r], seenL[r])
        \/ pc'[r] = "x-done"
    BY <1>0, <1>5, Frames DEF ExitCheckFallback, Goto
  <2> QED BY <2>2, <2>3, <2>4 DEF RetryAdmissible
<1>6. CASE ExitAppend(r)
  <2> DEFINE next == ExitCommitted(seen[r], ReceiptAdded(r, "recovery-exit"), Authority[r],
                                   Planned(r), job[r].req)
  <2>1. PICK acked \in BOOLEAN :
          /\ cand' = IF acked THEN [cand EXCEPT ![r] = next] ELSE cand
          /\ Check(r, acked, "x-reread")
    BY <1>6 DEF ExitAppend, ReceiptAdded
  <2>2. ASSUME pc[r] = "x-append", pc'[r] = "x-reread", KeepsReads(r), cand'[r] = next
        PROVE  Arrives(r)
    <3>1. ToPrimary(r) /\ ToFallback(r) /\ ToExit(r) /\ ToSink(r) /\ ToRecorded(r)
      BY <2>2 DEF ToPrimary, ToFallback, ToExit, ToSink, ToRecorded
    <3>2. Request(r)
      BY <2>2 DEF Request, KeepsReads
    <3> QED BY <2>2, <3>1, <3>2 DEF Arrives, KeepsReads
  <2>3. pc[r] = "x-append" /\ UNCHANGED <<st, latch, job, seen, seenL>>
    BY <1>6 DEF ExitAppend
  <2> HIDE DEF next
  <2> QED BY <1>0, <2>1, <2>2, <2>3, AppendMoves
<1>7. CASE ExitReread(r)
  BY <1>0, <1>7, Onward, ReadTailMoves DEF ExitReread, Checks
<1>8. CASE ExitCommit(r)
  BY <1>0, <1>8, CommitMoves DEF ExitCommit
<1>9. CASE ExitReadBack(r)
  BY <1>0, <1>9, ReadStateMoves DEF ExitReadBack, StateReads
<1>10. CASE ExitReadLatchBack(r)
  <2>1. ASSUME seen[r] = cand[r], pc[r] = "x-latch2", pc'[r] = "x-clear", Keeps(r)
        PROVE  Arrives(r)
    <3>1. ToPrimary(r) /\ ToFallback(r) /\ ToExit(r) /\ ToSink(r) /\ ToRecorded(r)
      BY <2>1 DEF ToPrimary, ToFallback, ToExit, ToSink, ToRecorded
    <3>2. Request(r)
      BY <2>1 DEF Request
    <3> QED BY <2>1, <3>1, <3>2 DEF Arrives, Keeps, KeepsReads
  <2> QED BY <1>0, <1>10, <2>1, ReadTailMoves DEF ExitReadLatchBack
<1>11. CASE ExitClear(r)
  <2>1. PICK applied \in BOOLEAN, acked \in BOOLEAN :
          /\ PortCall(MayClear(latch, seen[r].recGen, seen[r].prior, seen[r].exitReceipt),
                      applied, acked)
          /\ latch' = IF applied
                        THEN LatchCleared(seen[r].recGen, seen[r].prior, seen[r].exitReceipt)
                        ELSE latch
    BY <1>11 DEF ExitClear
  <2>2. /\ pc[r] = "x-clear" /\ pc'[r] = "x-done" /\ UNCHANGED st
        /\ seen'[r] = seen[r] /\ seenL'[r] = seenL[r]
        /\ \A b \in Actors \ {r} : Same(b)
    BY <1>0, <1>11, Frames DEF ExitClear, Goto, Same, Kept
  <2>3. ToPrimary(r) /\ ToFallback(r) /\ ToExit(r) /\ ToSink(r) /\ ToRecorded(r)
    BY <2>2 DEF ToPrimary, ToFallback, ToExit, ToSink, ToRecorded
  <2>4. Request(r)
    BY <2>2 DEF Request
  <2>5. UNCHANGED latch \/ Clears(r)
    BY <2>1, <2>2 DEF PortCall, Clears
  <2> QED BY <1>0, <2>2, <2>3, <2>4, <2>5 DEF Moves, Shares, Arrives, history
<1>12. CASE ExitEnd(r)
  BY <1>0, <1>12, ResetArrives, QuietMove DEF ExitEnd, ports
<1> QED BY <1>1, <1>2, <1>3, <1>4, <1>5, <1>6, <1>7, <1>8, <1>9, <1>10, <1>11, <1>12
        DEF Recover, RecoveryExit

LEMMA FaultMoves ==
  ASSUME TypeInv, NEW a \in Actors, ReadRaises(a) \/ TornAppend(a) \/ Crash(a)
  PROVE  Moves(a)
<1>0. UNCHANGED <<st, latch, issued, history>>
  BY DEF ReadRaises, TornAppend, Crash, ports
<1>1. CASE ReadRaises(a)
  <2>1. UNCHANGED <<seen, seenL, cand>>
    BY <1>1 DEF ReadRaises
  <2>2. CASE pc[a] \in GovernPcs \cup SinkPcs /\ RecordNegative(a) /\ UNCHANGED evid
    BY <1>0, <2>1, <2>2, NegativeMoves
  <2>3. CASE Raises(a) /\ UNCHANGED job
    <3>1. KeepsReads(a) /\ \A b \in Actors \ {a} : Same(b)
      BY <2>1, <2>3, Frames DEF Raises, Return, Goto, KeepsReads, Same, Kept
    <3> QED BY <1>0, <2>3, <3>1, RaisesArrives, QuietMove
  <2> QED BY <1>1, <2>2, <2>3 DEF ReadRaises
<1>2. CASE TornAppend(a)
  <2>1. Raises(a) /\ UNCHANGED <<job, seen, seenL, cand>>
    BY <1>2 DEF TornAppend
  <2>2. KeepsReads(a) /\ \A b \in Actors \ {a} : Same(b)
    BY <2>1, Frames DEF Raises, Return, Goto, KeepsReads, Same, Kept
  <2> QED BY <1>0, <2>1, <2>2, RaisesArrives, QuietMove
<1>3. CASE Crash(a)
  BY <1>0, <1>3, ResetArrives, QuietMove DEF Crash
<1> QED BY <1>1, <1>2, <1>3

(* Every step of the kernel is the move of one actor, or leaves them all   *)
(* where they are.                                                         *)
LEMMA EveryStepMoves ==
  ASSUME TypeInv, [Next]_vars
  PROVE  (\E a \in Actors : Moves(a)) \/ Apart
<1>1. CASE UNCHANGED vars
  BY <1>1 DEF vars, ports, locals, history, Apart, Same, Kept
<1>2. CASE \E w \in Workers : Execute(w)
  BY <1>2, ExecuteMoves DEF Actors
<1>3. CASE \E r \in Recoverers : Recover(r)
  BY <1>3, RecoverMoves DEF Actors
<1>4. CASE IssueAction /\ UNCHANGED history
  BY <1>4 DEF IssueAction, ports, history, Apart, Same, Kept
<1>5. CASE Environment
  <2>1. ASSUME NEW s \in Stores, Rollback(s) PROVE Apart
    BY <2>1 DEF Rollback, locals, history, Apart, Same, Kept
  <2> QED BY <1>5, <2>1, FaultMoves DEF Environment
<1> QED BY <1>1, <1>2, <1>3, <1>4, <1>5 DEF Next, Step

-----------------------------------------------------------------------------
(* Counting exits. *)

(* The exits of a chain are counted by a natural number. *)
LEMMA ExitsCounted ==
  ASSUME NEW c, NEW n \in Nat
  PROVE  /\ IsFiniteSet({i \in 1..n : c[i].kind = "recovery-exit"})
         /\ Exits(c, n) \in Nat
<1>1. IsFiniteSet(1..n)
  BY FS_Interval
<1>2. IsFiniteSet({i \in 1..n : c[i].kind = "recovery-exit"})
  BY <1>1, FS_Subset
<1> QED BY <1>2, FS_CardinalityType DEF Exits

(* An entry appended counts for itself and changes no earlier count.       *)
LEMMA ExitsAppend ==
  ASSUME NEW c \in Seq(Entry), NEW e \in Entry
  PROVE  /\ \A n \in 0..Len(c) : Exits(Append(c, e), n) = Exits(c, n)
         /\ Exits(Append(c, e), Len(c) + 1) =
              Exits(c, Len(c)) + IF e.kind = "recovery-exit" THEN 1 ELSE 0
<1> DEFINE d == Append(c, e)
           m == Len(c)
           in(s, n) == {i \in 1..n : s[i].kind = "recovery-exit"}
<1>1. m \in Nat /\ d[m + 1] = e /\ \A i \in 1..m : d[i] = c[i]
  OBVIOUS
<1> HIDE DEF d, m
<1>2. ASSUME NEW n \in 0..m PROVE in(d, n) = in(c, n)
  BY <1>1
<1>3. in(d, m + 1) = IF e.kind = "recovery-exit" THEN in(c, m) \cup {m + 1} ELSE in(c, m)
  BY <1>1
<1>4. IsFiniteSet(in(c, m)) /\ Cardinality(in(c, m)) \in Nat
  BY <1>1, ExitsCounted DEF Exits
<1>5. m + 1 \notin in(c, m)
  BY <1>1
<1>6. Cardinality(in(c, m) \cup {m + 1}) = Cardinality(in(c, m)) + 1
  BY <1>4, <1>5, FS_AddElement
<1>7. Cardinality(in(d, m + 1)) =
        Cardinality(in(c, m)) + IF e.kind = "recovery-exit" THEN 1 ELSE 0
  <2>1. CASE e.kind = "recovery-exit"
    <3>1. in(d, m + 1) = in(c, m) \cup {m + 1}
      BY <1>3, <2>1
    <3> HIDE DEF in
    <3> QED BY <1>6, <2>1, <3>1
  <2>2. CASE e.kind # "recovery-exit"
    <3>1. in(d, m + 1) = in(c, m)
      BY <1>3, <2>2
    <3> HIDE DEF in
    <3> QED BY <1>4, <2>2, <3>1
  <2> QED BY <2>1, <2>2
<1>8. ASSUME NEW n \in 0..m PROVE Cardinality(in(d, n)) = Cardinality(in(c, n))
  <2>1. in(d, n) = in(c, n)
    BY <1>2
  <2> HIDE DEF in
  <2> QED BY <2>1
<1> QED BY <1>7, <1>8 DEF Exits, d, m

(* A receipt that binds the current generation keeps the fence, and only   *)
(* an exit receipt moves it. *)
LEMMA FencedAppend ==
  ASSUME NEW s \in Snapshot, NEW t \in Snapshot, NEW e \in Entry, Fenced(s),
         t.tail["primary"] = Append(s.tail["primary"], e), e.gen = s.recGen,
         t.recGen = s.recGen + IF e.kind = "recovery-exit" THEN 1 ELSE 0
  PROVE  Fenced(t)
<1> DEFINE c == s.tail["primary"]
           d == t.tail["primary"]
           m == Len(c)
<1>1. c \in Seq(Entry) /\ m \in Nat
  BY DEF Snapshot, Stores, Log
<1>2. d = Append(c, e)
  OBVIOUS
<1>3. /\ d \in Seq(Entry) /\ Len(d) = m + 1 /\ d[m + 1] = e
      /\ \A i \in 1..m : d[i] = c[i]
  BY <1>1, <1>2
<1>4. /\ \A n \in 0..m : Exits(d, n) = Exits(c, n)
      /\ Exits(d, m + 1) = Exits(c, m) + IF e.kind = "recovery-exit" THEN 1 ELSE 0
  BY <1>1, <1>2, ExitsAppend
<1>5. (\A i \in 1..m : c[i].gen = Exits(c, i - 1)) /\ s.recGen = Exits(c, m)
  BY <1>1 DEF Fenced
<1> HIDE DEF c, d, m
<1>6. ASSUME NEW i \in 1..(m + 1) PROVE d[i].gen = Exits(d, i - 1)
  <2>1. CASE i \in 1..m
    <3>1. i - 1 \in 0..m
      BY <1>1, <2>1
    <3> QED BY <1>3, <1>4, <1>5, <2>1, <3>1
  <2>2. CASE i = m + 1
    <3>1. i - 1 = m /\ m \in 0..m
      BY <1>1, <2>2
    <3> QED BY <1>3, <1>4, <1>5, <2>2, <3>1
  <2> QED BY <1>1, <2>1, <2>2
<1>7. t.recGen = Exits(d, Len(d)) /\ DOMAIN d = 1..(m + 1)
  BY <1>3, <1>4, <1>5
<1> QED BY <1>6, <1>7 DEF Fenced, d

(* The reference providers start with an empty chain: no exit yet.         *)
LEMMA GenesisSound == Sound(GenesisState)
<1>1. GenesisState.tail["primary"] = << >> /\ GenesisState.recGen = 0
  BY DEF GenesisState, Stores
<1>2. Exits(<< >>, 0) = 0
  <2>1. {i \in 1..0 : << >>[i].kind = "recovery-exit"} = {}
    OBVIOUS
  <2> QED BY <2>1, FS_EmptySet DEF Exits
<1>3. Len(<< >>) = 0 /\ DOMAIN << >> = {}
  OBVIOUS
<1>4. Fenced(GenesisState)
  BY <1>1, <1>2, <1>3 DEF Fenced
<1>5. GenesisState.mode # "recovery-exit-authorized"
  BY DEF GenesisState
<1> QED BY <1>4, <1>5 DEF Sound, ExitBacked

-----------------------------------------------------------------------------
(* The candidates. *)

LEMMA PrimaryCandidate ==
  ASSUME TypeInv, NEW a \in Actors, Sound(seen[a])
  PROVE  LET next == PrimaryCommitted(seen[a], ReceiptAdded(a, job[a].verdict), Authority[a])
         IN  Sound(next) /\ Len(next.tail["primary"]) = Len(seen[a].tail["primary"]) + 1
<1> DEFINE e == Receipt(a, job[a].verdict)
           chain == ReceiptAdded(a, job[a].verdict)
           next == PrimaryCommitted(seen[a], chain, Authority[a])
<1>1. seen[a] \in Snapshot /\ job[a] \in Job /\ Authority[a] \in Nat
  BY Frames, ActorsAssumption
<1>2. seen[a].tail["primary"] \in Seq(Entry) /\ seen[a].recGen \in Nat
  BY <1>1 DEF Snapshot, Stores, Log
<1>3. e \in Entry /\ e.gen = seen[a].recGen /\ e.kind # "recovery-exit"
  BY <1>1, <1>2 DEF Receipt, Entry, Job, Verdicts
<1>4. chain = Append(seen[a].tail["primary"], e)
  BY DEF ReceiptAdded
<1>5. chain \in Log /\ Len(chain) = Len(seen[a].tail["primary"]) + 1
  BY <1>2, <1>3, <1>4, PrefixAppend DEF Log
<1> HIDE DEF e, chain
<1>6. next \in Snapshot
  BY <1>1, <1>5, AdvanceTyped
<1>7. /\ next.tail["primary"] = chain /\ next.recGen = seen[a].recGen
      /\ next.mode = "healthy"
  BY <1>1, ZenonT(30) DEF PrimaryCommitted, Snapshot, Stores
<1> HIDE DEF next
<1>8. Fenced(next)
  BY <1>1, <1>2, <1>3, <1>4, <1>6, <1>7, FencedAppend DEF Sound
<1>9. Sound(next) /\ Len(next.tail["primary"]) = Len(seen[a].tail["primary"]) + 1
  BY <1>5, <1>7, <1>8 DEF Sound, ExitBacked
<1> QED BY <1>9 DEF next, chain

LEMMA FallbackCandidate ==
  ASSUME TypeInv, NEW a \in Actors, Sound(seen[a])
  PROVE  LET next == FallbackCommitted(seen[a], EventAdded(a))
             events == next.tail["fallback"]
         IN  /\ Sound(next) /\ SameExit(seen[a], next)
             /\ Len(events) > 0 /\ events[Len(events)].req = job[a].req
<1> DEFINE e == FallbackEvent(a)
           old == seen[a].tail["fallback"]
           chain == EventAdded(a)
           next == FallbackCommitted(seen[a], chain)
<1>1. seen[a] \in Snapshot /\ job[a] \in Job /\ lgen[a] \in Nat
  BY Frames DEF TypeInv, CoreTyped, LocalsTyped
<1>2. e \in Entry /\ e.req = job[a].req
  BY <1>1 DEF FallbackEvent, Entry, Job
<1>3. old \in Seq(Entry) /\ Len(old) \in Nat
  BY <1>1 DEF Snapshot, Stores, Log
<1>4. Len(chain) = Len(old) + 1 /\ chain[Len(old) + 1] = e
  BY <1>2, <1>3, PrefixAppend DEF EventAdded
<1>5. Len(chain) > 0 /\ chain[Len(chain)].req = job[a].req
  BY <1>2, <1>3, <1>4
<1> HIDE DEF chain
<1>6. /\ next.tail["fallback"] = chain /\ next.tail["primary"] = seen[a].tail["primary"]
      /\ next.recGen = seen[a].recGen /\ next.mode = seen[a].mode
      /\ next.prior = seen[a].prior /\ next.exitReceipt = seen[a].exitReceipt
  BY <1>1, ZenonT(30) DEF FallbackCommitted, Snapshot, Stores
<1> HIDE DEF next
<1>7. Sound(next) /\ SameExit(seen[a], next)
  BY <1>6 DEF Sound, Fenced, ExitBacked, SameExit
<1> QED BY <1>5, <1>6, <1>7 DEF next, chain

LEMMA DegradedCandidate ==
  ASSUME TypeInv, NEW a \in Actors, Sound(seen[a])
  PROVE  Sound(Degraded(seen[a]))
<1> DEFINE next == Degraded(seen[a])
<1>1. seen[a] \in Snapshot
  BY Frames
<1>2. /\ next.tail = seen[a].tail /\ next.recGen = seen[a].recGen
      /\ next.mode = "evidence-degraded"
  BY <1>1, ZenonT(30) DEF Degraded, Snapshot
<1> HIDE DEF next
<1>3. Sound(next)
  BY <1>2 DEF Sound, Fenced, ExitBacked
<1> QED BY <1>3 DEF next

(* The exit receipt is the last of the old generation, and the authorised  *)
(* state the first of the new one. *)
LEMMA ExitCandidate ==
  ASSUME TypeInv, NEW a \in Actors, Sound(seen[a]), pc[a] \in ExitPcs,
         Planned(a).gen = seen[a].recGen + 1
  PROVE  LET next == ExitCommitted(seen[a], ReceiptAdded(a, "recovery-exit"), Authority[a],
                                   Planned(a), job[a].req)
         IN  /\ Sound(next) /\ next.mode = "recovery-exit-authorized"
             /\ Len(next.tail["primary"]) = Len(seen[a].tail["primary"]) + 1
             /\ Last(next.tail["primary"]).kind = "recovery-exit"
<1> DEFINE e == Receipt(a, "recovery-exit")
           old == seen[a].tail["primary"]
           chain == ReceiptAdded(a, "recovery-exit")
           next == ExitCommitted(seen[a], chain, Authority[a], Planned(a), job[a].req)
<1>1. seen[a] \in Snapshot /\ job[a] \in Job /\ Authority[a] \in Nat
  BY Frames, ActorsAssumption
<1>2. old \in Seq(Entry) /\ Len(old) \in Nat /\ seen[a].recGen \in Nat
  BY <1>1 DEF Snapshot, Stores, Log
<1>3. e \in Entry /\ e.gen = seen[a].recGen /\ e.kind = "recovery-exit"
  BY <1>1, <1>2 DEF Receipt, Entry, Job
<1>4. chain = Append(old, e)
  BY DEF ReceiptAdded
<1> HIDE DEF e, old, chain
<1>5. /\ chain \in Log /\ chain \in Seq(Entry) /\ Len(chain) = Len(old) + 1
      /\ chain[Len(old) + 1] = e
  BY <1>2, <1>3, <1>4, PrefixAppend DEF Log
<1>6. Last(chain).kind = "recovery-exit" /\ IsPrefix(chain, chain)
  BY <1>2, <1>3, <1>5, PrefixReflexive DEF Last
<1>7. Planned(a) \in RecoveryAction
  BY DEF Planned, TypeInv, CoreTyped, OthersTyped, HoldsIssued
<1>8. next \in Snapshot
  BY <1>1, <1>5, <1>7, ExitTyped DEF Job
<1>9. /\ next.tail["primary"] = chain /\ next.recGen = Planned(a).gen
      /\ next.mode = "recovery-exit-authorized" /\ next.exitReceipt = chain
  BY <1>1, ZenonT(30) DEF ExitCommitted, Snapshot, Stores
<1> HIDE DEF next
<1>10. Fenced(next)
  BY <1>1, <1>2, <1>3, <1>4, <1>8, <1>9, FencedAppend DEF Sound, old
<1>11. Sound(next)
  BY <1>6, <1>9, <1>10 DEF Sound, ExitBacked
<1> QED BY <1>5, <1>6, <1>9, <1>11 DEF next, chain, old

-----------------------------------------------------------------------------
(* The fence and the latch. *)

(* Latch generations only rise, and a clear latch stands at the generation *)
(* it was cleared for. *)
LEMMA LatchAdvances ==
  ASSUME TypeInv, FenceInv, NEW a \in Actors, Shares(a)
  PROVE  latch.gen <= latch'.gen /\ (~latch'.latched => latch'.clearedGen = latch'.gen)
<1>1. /\ latch \in Latch /\ latch.gen \in Nat /\ seen[a].recGen \in Nat
      /\ ~latch.latched => latch.clearedGen = latch.gen
  BY Frames DEF FenceInv, SharedInv, Latch, Snapshot
<1>2. CASE UNCHANGED latch
  BY <1>1, <1>2
<1>3. CASE Latches
  <2>1. PICK g \in Nat, event \in Nat :
          MaySet(latch, g, event) /\ latch' = LatchSet(latch, g, event)
    BY <1>3 DEF Latches
  <2> QED BY <1>1, <2>1 DEF MaySet, LatchSet
<1>4. CASE Clears(a)
  BY <1>1, <1>4 DEF Clears, MayClear, LatchCleared
<1> QED BY <1>2, <1>3, <1>4 DEF Shares

(* A commit replaces a sound state by a sound one, and an exit some actor  *)
(* saw is either still the state's, or already behind the latch.           *)
LEMMA StateAdvances ==
  ASSUME TypeInv, TypeInv', FenceInv, NEW a \in Actors, Shares(a)
  PROVE  /\ Sound(st')
         /\ \A b \in Actors : seen[b].mode = "recovery-exit-authorized" =>
              latch'.gen >= seen[b].recGen \/ SameExit(seen[b], st')
<1>1. latch.gen \in Nat /\ latch'.gen \in Nat /\ latch.gen <= latch'.gen
  BY Frames, LatchAdvances DEF TypeInv, CoreTyped, StoresTyped, Latch
<1>2. CASE UNCHANGED st
  <2>1. Sound(st')
    BY <1>2 DEF FenceInv, SharedInv
  <2>2. ASSUME NEW b \in Actors, seen[b].mode = "recovery-exit-authorized"
        PROVE  latch'.gen >= seen[b].recGen \/ SameExit(seen[b], st')
    <3>1. latch.gen >= seen[b].recGen \/ SameExit(seen[b], st)
      BY <2>2 DEF FenceInv, Sighted
    <3>2. seen[b].recGen \in Nat
      BY Frames DEF Snapshot
    <3> QED BY <1>1, <1>2, <3>1, <3>2
  <2> QED BY <2>1, <2>2
<1>3. CASE Commits(a) /\ UNCHANGED latch
  <2>1. pc[a] \in Built /\ st' = cand[a] /\ st = seen[a]
    BY <1>3 DEF Commits, Built, PrimaryBuilt, FallbackBuilt
  <2>2. Sound(st')
    BY <2>1 DEF FenceInv, Sighted
  <2>3. ASSUME NEW b \in Actors, seen[b].mode = "recovery-exit-authorized",
               SameExit(seen[b], st)
        PROVE  latch.gen >= seen[b].recGen \/ SameExit(seen[b], st')
    <3>1. Believes(a) /\ Sighted(a)
      BY DEF FenceInv
    <3>2. CASE pc[a] = "rec-commit"
      <4>1. seen[b].recGen = seenL[a].gen /\ seenL[a].gen <= latch.gen
        BY <2>1, <2>3, <3>1, <3>2 DEF Believes, Sighted, SameExit
      <4>2. seenL[a].gen \in Nat
        BY Frames DEF Latch
      <4> QED BY <1>1, <4>1, <4>2
    <3>3. CASE pc[a] = "fb-degrade"
      BY <2>1, <2>3, <3>1, <3>3 DEF Believes, SameExit
    <3>4. CASE pc[a] = "fb-commit"
      BY <2>1, <2>3, <3>1, <3>4 DEF Believes, SameExit, FallbackBuilt
    <3>5. CASE pc[a] = "x-commit"
      BY <2>1, <2>3, <3>1, <3>5 DEF Believes, SameExit
    <3> QED BY <1>3, <3>2, <3>3, <3>4, <3>5 DEF Commits
  <2> QED BY <1>3, <2>2, <2>3 DEF FenceInv, Sighted
<1> QED BY <1>2, <1>3 DEF Shares

(* What an actor believes where it arrives follows from what it believed   *)
(* where it came from. *)
LEMMA ArrivesBelieving ==
  ASSUME TypeInv, TypeInv', IInv, NEW a \in Actors, Arrives(a), UNCHANGED issued,
         Believes(a), Sighted(a), Sound(st),
         \A i \in DOMAIN issued : issued[i].gen = issued[i].latchGen + 1
  PROVE  /\ Believes(a)'
         /\ Sound(seen'[a])
         /\ pc'[a] \in Built => Sound(cand'[a])
<1>1. Sound(seen[a]) /\ Sound(seen'[a])
  BY GenesisSound DEF Arrives, Sighted
<1> USE DEF Arrives, ToPrimary, ToFallback, ToExit, Keeps, KeepsReads
<1>2. ASSUME pc'[a] \in {"rec-fallback", "rec-append", "rec-reread", "rec-commit"}
      PROVE  seen'[a].recGen = seenL'[a].gen
  BY <1>2 DEF Believes
<1>3. ASSUME pc'[a] \in PrimaryBuilt
      PROVE  /\ Len(cand'[a].tail["primary"]) = Len(seen'[a].tail["primary"]) + 1
             /\ Sound(cand'[a])
             /\ pc'[a] \in {"x-reread", "x-commit"} =>
                  /\ Last(cand'[a].tail["primary"]).kind = "recovery-exit"
                  /\ cand'[a].mode = "recovery-exit-authorized"
  <2>1. CASE pc'[a] = "rec-reread"
    BY <1>1, <2>1, PrimaryCandidate
  <2>2. CASE pc'[a] \in {"rec-commit", "x-commit"}
    BY <2>2 DEF Believes, Sighted, Built, PrimaryBuilt
  <2>3. CASE pc'[a] = "x-reread"
    <3>1. pc[a] = "x-append" /\ pc[a] \in ExitPcs
      BY <2>3 DEF ExitPcs
    <3>2. Planned(a).gen = seen[a].recGen + 1
      BY <3>1 DEF Believes
    <3> QED BY <1>1, <2>3, <3>1, <3>2, ExitCandidate
  <2> QED BY <1>3, <2>1, <2>2, <2>3 DEF PrimaryBuilt
<1>4. ASSUME pc'[a] = "fb-degrade"
      PROVE  seen'[a].mode = "healthy" /\ Sound(cand'[a])
  BY <1>1, <1>4, DegradedCandidate
<1>5. ASSUME pc'[a] \in {"fb-reread", "fb-commit", "fb-state3", "fb-latch3", "fb-tail2"}
      PROVE  /\ pc'[a] \in FallbackBuilt => Sound(cand'[a]) /\ SameExit(seen'[a], cand'[a])
             /\ Len(cand'[a].tail["fallback"]) > 0
             /\ cand'[a].tail["fallback"][Len(cand'[a].tail["fallback"])].req = job'[a].req
             /\ pc'[a] = "fb-tail2" => seen'[a] = cand'[a]
  <2>1. CASE pc'[a] = "fb-reread"
    BY <1>1, <2>1, FallbackCandidate
  <2>2. CASE pc'[a] \in {"fb-commit", "fb-state3", "fb-latch3", "fb-tail2"}
    BY <2>2 DEF Believes, Sighted, Built, FallbackBuilt
  <2> QED BY <1>5, <2>1, <2>2
<1>6. ASSUME pc'[a] = "x-append"
      PROVE  /\ Planned(a)'.gen = seen'[a].recGen + 1
             /\ seen'[a].mode # "recovery-exit-authorized"
  <2>1. pc[a] = "x-fallback" /\ ExitAdmissible(Planned(a), seen[a], seenL[a])
    BY <1>6
  <2>2. job[a].req \in DOMAIN issued
    <3>1. job[a].req \in 1..Len(issued) /\ issued \in Seq(RecoveryAction)
      BY <2>1 DEF TypeInv, CoreTyped, HoldsIssued, OthersTyped, ExitPcs
    <3> QED BY <3>1
  <2>3. Planned(a).gen = Planned(a).latchGen + 1 /\ Planned(a)' = Planned(a)
    BY <1>6, <2>2 DEF Planned
  <2> QED BY <1>6, <2>1, <2>3 DEF ExitAdmissible
<1>7. ASSUME pc'[a] \in {"x-append", "x-reread", "x-commit"}
      PROVE  seen'[a].mode # "recovery-exit-authorized"
  BY <1>6, <1>7 DEF Believes
<1>8. ASSUME pc'[a] \in {"x-state2", "x-latch2"}
      PROVE  cand'[a].mode = "recovery-exit-authorized"
  BY <1>8 DEF Believes
<1>9. ASSUME pc'[a] = "x-clear"
      PROVE  seen'[a].mode = "recovery-exit-authorized"
  BY <1>9 DEF Believes
<1>10. Believes(a)'
  <2>1. /\ pc'[a] \in FallbackBuilt => pc'[a] \in {"fb-reread", "fb-commit"}
        /\ pc'[a] \in {"x-reread", "x-commit"} => pc'[a] \in PrimaryBuilt
    BY DEF FallbackBuilt, PrimaryBuilt
  <2> QED BY <1>2, <1>3, <1>4, <1>5, <1>6, <1>7, <1>8, <1>9, <2>1 DEF Believes
<1>11. pc'[a] \in Built => Sound(cand'[a])
  BY <1>3, <1>4, <1>5 DEF Built, FallbackBuilt
<1> QED BY <1>1, <1>10, <1>11

(* Nothing an actor saw or believes is upset by another's move.            *)
LEMMA FenceMove ==
  ASSUME TypeInv, TypeInv', IInv, FenceInv, NEW a \in Actors, Moves(a)
  PROVE  FenceInv'
<1>1. /\ Arrives(a) /\ Shares(a) /\ UNCHANGED issued
      /\ \A b \in Actors \ {a} : Same(b)
  BY DEF Moves, Shares
<1>2. SharedInv'
  BY <1>1, LatchAdvances, StateAdvances DEF FenceInv, SharedInv
<1>3. /\ latch.gen \in Nat /\ latch'.gen \in Nat /\ latch.gen <= latch'.gen
      /\ GenesisLatch.gen = 0
  BY <1>1, Frames, LatchAdvances DEF TypeInv, CoreTyped, StoresTyped, Latch, GenesisLatch
<1>4. ASSUME NEW b \in Actors, Same(b)
      PROVE  Role(b)' /\ Believes(b)' /\ Sighted(b)'
  <2>1. Role(b) /\ Believes(b) /\ Sighted(b)
    BY DEF FenceInv
  <2>2. Planned(b)' = Planned(b)
    BY <1>1, <1>4 DEF Planned, Same, Kept
  <2>3. Role(b)' /\ Believes(b)'
    BY <1>4, <2>1, <2>2 DEF Role, Believes, Same, Kept
  <2>4. seenL'[b].gen <= latch'.gen
    <3>1. seenL[b].gen \in Nat /\ seenL[b].gen <= latch.gen
      BY <2>1, Frames DEF Sighted, Latch
    <3> QED BY <1>3, <1>4, <3>1 DEF Same
  <2>5. seen'[b].mode = "recovery-exit-authorized" =>
          latch'.gen >= seen'[b].recGen \/ SameExit(seen'[b], st')
    BY <1>1, <1>4, StateAdvances DEF Same, Kept
  <2> QED BY <1>4, <2>1, <2>3, <2>4, <2>5 DEF Sighted, Same, Kept
<1>5. Role(a)'
  BY <1>1 DEF FenceInv, Role, Arrives, Request
<1>6. Believes(a)' /\ Sound(seen'[a]) /\ (pc'[a] \in Built => Sound(cand'[a]))
  BY <1>1, ArrivesBelieving DEF FenceInv, SharedInv
<1>7. seenL'[a].gen <= latch'.gen
  <2>1. seenL[a].gen \in Nat /\ seenL[a].gen <= latch.gen
    BY Frames DEF FenceInv, Sighted, Latch
  <2>2. seenL'[a] \in {seenL[a], latch, GenesisLatch}
    BY <1>1 DEF Arrives
  <2> QED BY <1>3, <2>1, <2>2
<1>8. seen'[a].mode = "recovery-exit-authorized" =>
        latch'.gen >= seen'[a].recGen \/ SameExit(seen'[a], st')
  <2>1. CASE seen'[a] = seen[a]
    BY <1>1, <2>1, StateAdvances
  <2>2. CASE seen'[a] = st
    <3>1. CASE UNCHANGED st
      BY <2>2, <3>1 DEF SameExit
    <3>2. CASE st = seen[a]
      BY <1>1, <2>2, <3>2, StateAdvances
    <3> QED BY <1>1, <3>1, <3>2 DEF Shares, Commits
  <2>3. CASE seen'[a] = GenesisState
    BY <2>3 DEF GenesisState
  <2> QED BY <1>1, <2>1, <2>2, <2>3 DEF Arrives
<1>9. Sighted(a)'
  BY <1>6, <1>7, <1>8 DEF Sighted
<1> QED BY <1>1, <1>2, <1>4, <1>5, <1>6, <1>9 DEF FenceInv

LEMMA FenceInit == Init => FenceInv
<1> SUFFICES ASSUME Init PROVE FenceInv
  OBVIOUS
<1>1. /\ st = GenesisState /\ latch = GenesisLatch /\ issued = << >>
      /\ \A a \in Actors : /\ pc[a] = "idle" /\ seen[a] = GenesisState
                           /\ seenL[a] = GenesisLatch
  BY DEF Init, CoordinatorInit, RecoveryInit
<1>2. SharedInv
  BY <1>1, GenesisSound DEF SharedInv, GenesisLatch
<1>3. ASSUME NEW a \in Actors PROVE Role(a) /\ Believes(a) /\ Sighted(a)
  <2>1. Role(a) /\ Believes(a)
    BY <1>1 DEF Role, Believes, ExitPcs, PrimaryBuilt, FallbackBuilt
  <2>2. Sighted(a)
    BY <1>1, GenesisSound DEF Sighted, Built, PrimaryBuilt, FallbackBuilt, GenesisState,
                              GenesisLatch
  <2> QED BY <2>1, <2>2
<1> QED BY <1>2, <1>3 DEF FenceInv

(* A signed action exits to the generation after its latch's; a signature  *)
(* changes no belief. *)
LEMMA FenceApart ==
  ASSUME TypeInv, TypeInv', FenceInv, Apart
  PROVE  FenceInv'
<1>1. UNCHANGED <<st, latch>> /\ \A b \in Actors : Same(b)
  BY DEF Apart
<1>2. /\ \A i \in DOMAIN issued' : issued'[i].gen = issued'[i].latchGen + 1
      /\ \A i \in 1..Len(issued) : issued'[i] = issued[i]
  <2> DEFINE action == [gen |-> latch.gen + 1, latchGen |-> latch.gen,
                        event |-> latch.event, tail |-> st.tail]
  <2>1. /\ issued \in Seq(RecoveryAction)
        /\ \A i \in 1..Len(issued) : issued[i].gen = issued[i].latchGen + 1
    BY DEF TypeInv, CoreTyped, OthersTyped, FenceInv, SharedInv
  <2>2. CASE issued' = issued
    BY <2>1, <2>2
  <2>3. CASE issued' = Append(issued, action)
    <3>1. action \in RecoveryAction /\ action.gen = action.latchGen + 1
      BY Frames DEF RecoveryAction, Latch, Snapshot
    <3> HIDE DEF action
    <3> QED BY <2>1, <2>3, <3>1
  <2> QED BY <2>2, <2>3 DEF Apart
<1>3. ASSUME NEW b \in Actors PROVE Role(b)' /\ Believes(b)' /\ Sighted(b)'
  <2>1. Role(b) /\ Believes(b) /\ Sighted(b) /\ Same(b)
    BY <1>1 DEF FenceInv
  <2>2. pc[b] = "x-append" => Planned(b)' = Planned(b)
    BY <1>2, <2>1 DEF Planned, Same, Kept, TypeInv, CoreTyped, HoldsIssued, ExitPcs
  <2>3. Role(b)' /\ Believes(b)'
    BY <2>1, <2>2 DEF Role, Believes, Same, Kept
  <2>4. Sighted(b)'
    BY <1>1, <2>1 DEF Sighted, Same, Kept
  <2> QED BY <2>3, <2>4
<1> QED BY <1>1, <1>2, <1>3 DEF FenceInv, SharedInv

LEMMA FenceNext == TypeInv /\ TypeInv' /\ IInv /\ FenceInv /\ [Next]_vars => FenceInv'
  BY EveryStepMoves, FenceMove, FenceApart

LEMMA FenceInvariant == Spec => []FenceInv
<1>1. TypeInv /\ IInv /\ FenceInv /\ [Next]_vars => FenceInv'
  BY NextTyped, FenceNext
<1> QED BY <1>1, FenceInit, Typed, Invariant, PTL DEF Spec

(* The recovery fence of the receipts: every receipt of the protected chain *)
(* binds the number of recovery exits before it, and the protected recovery *)
(* generation counts them all (record_decision, RecoveryCoordinatorV1.exit),*)
(* for any number of coordinators, exits and faults.                        *)
THEOREM ExitsFenceReceipts == Spec => []RecoveryFence
<1>1. FenceInv => RecoveryFence
  BY DEF FenceInv, SharedInv, Sound, Fenced, RecoveryFence, Exits, Chain
<1> QED BY <1>1, FenceInvariant, PTL

(* Whoever unlatches holds the exit that the protected state holds. *)
LEMMA OpensOverExit ==
  ASSUME TypeInv, FenceInv, NEW a \in Actors, Shares(a), latch.latched, ~latch'.latched
  PROVE  /\ UNCHANGED st
         /\ st.mode = "recovery-exit-authorized"
         /\ st.recGen = latch.gen + 1
         /\ st.prior = latch.event
         /\ IsPrefix(st.exitReceipt, Chain)
         /\ Last(st.exitReceipt).kind = "recovery-exit"
<1>1. Clears(a) /\ UNCHANGED st
  BY DEF Shares, Latches, LatchSet
<1>2. seen[a].recGen = latch.gen + 1 /\ seen[a].prior = latch.event
  BY <1>1 DEF Clears, MayClear
<1>3. Believes(a) /\ Sighted(a) /\ latch.gen \in Nat
  BY Frames DEF FenceInv, Latch
<1>4. SameExit(seen[a], st) /\ st.mode = "recovery-exit-authorized"
  BY <1>1, <1>2, <1>3 DEF Clears, Believes, Sighted, SameExit
<1>5. ExitBacked(st)
  BY DEF FenceInv, SharedInv, Sound
<1> QED BY <1>1, <1>2, <1>4, <1>5 DEF SameExit, ExitBacked, Chain

(* RecoveryCoordinatorV1.exit opens the latch last: whoever clears it, when *)
(* and however often, the protected state of that moment already holds the  *)
(* exit from this very latch, with its receipt on the chain.                *)
THEOREM LatchOpensLast == Spec => LatchClearsLast
<1> DEFINE Opens == latch.latched /\ ~latch'.latched =>
             /\ st.mode = "recovery-exit-authorized"
             /\ st.recGen = latch.gen + 1
             /\ st.prior = latch.event
             /\ IsPrefix(st.exitReceipt, Chain)
             /\ Last(st.exitReceipt).kind = "recovery-exit"
<1>1. TypeInv /\ FenceInv /\ [Next]_vars => [Opens]_vars
  BY EveryStepMoves, OpensOverExit DEF Moves, Apart
<1>2. Spec => [][Opens]_vars
  BY <1>1, Typed, FenceInvariant, PTL DEF Spec
<1> QED BY <1>2 DEF LatchClearsLast

-----------------------------------------------------------------------------
(* What a result reports. *)

(* Protected chains only grow: an entry once there stays where it is.      *)
LEMMA ChainsGrow ==
  ASSUME TypeInv, TypeInv', IInv, NEW a \in Actors, Shares(a), NEW s \in Stores
  PROVE  /\ st.tail[s] \in Seq(Entry) /\ st'.tail[s] \in Seq(Entry)
         /\ IsPrefix(st.tail[s], st'.tail[s])
         /\ \A i \in DOMAIN st.tail[s] :
              i \in DOMAIN st'.tail[s] /\ st'.tail[s][i] = st.tail[s][i]
<1>1. st.tail[s] \in Seq(Entry) /\ st'.tail[s] \in Seq(Entry)
  BY ChainsTyped
<1>2. IsPrefix(st.tail[s], st'.tail[s])
  <2>1. CASE UNCHANGED st
    BY <1>1, <2>1, PrefixReflexive
  <2>2. CASE Commits(a)
    <3>1. pc[a] \in Built
      BY <2>2 DEF Commits, Built, PrimaryBuilt, FallbackBuilt
    <3> QED BY <2>2, <3>1 DEF Commits, IInv, ActorInv, CandAhead
  <2> QED BY <2>1, <2>2 DEF Shares
<1>3. \A i \in DOMAIN st.tail[s] :
        i \in DOMAIN st'.tail[s] /\ st'.tail[s][i] = st.tail[s][i]
  BY <1>1, <1>2, PrefixAt
<1> QED BY <1>1, <1>2, <1>3

(* Only an authenticated clear unlatches, and it leaves its generation.    *)
LEMMA LatchLeavesTrace ==
  ASSUME TypeInv, TypeInv', NEW a \in Actors, Shares(a),
         latch.latched \/ latch.clearedGen > 0
  PROVE  latch'.latched \/ latch'.clearedGen > 0
<1>1. latch.gen \in Nat /\ latch.clearedGen \in Nat /\ seen[a].recGen \in Nat
  BY Frames DEF Latch, Snapshot
<1>2. CASE UNCHANGED latch
  BY <1>2
<1>3. CASE Latches
  BY <1>3 DEF Latches, LatchSet
<1>4. CASE Clears(a)
  BY <1>1, <1>4 DEF Clears, MayClear, LatchCleared
<1> QED BY <1>2, <1>3, <1>4 DEF Shares

LEMMA BackedStays ==
  ASSUME TypeInv, TypeInv', IInv, NEW a \in Actors, Shares(a), NEW o, Backed(o)
  PROVE  Backed(o)'
<1>1. \A i \in DOMAIN Chain : i \in DOMAIN Chain' /\ Chain'[i] = Chain[i]
  BY ChainsGrow DEF Chain, Stores
<1>2. \A i \in DOMAIN st.tail["fallback"] :
        /\ i \in DOMAIN st'.tail["fallback"]
        /\ st'.tail["fallback"][i] = st.tail["fallback"][i]
  BY ChainsGrow DEF Stores
<1>3. latch.latched \/ latch.clearedGen > 0 => latch'.latched \/ latch'.clearedGen > 0
  BY LatchLeavesTrace
<1> QED BY <1>1, <1>2, <1>3 DEF Backed

(* What record_decision returns is backed at the moment it returns. *)
LEMMA ReturnsBacked ==
  ASSUME TypeInv, TypeInv', IInv, IInv', FenceInv, NEW a \in Actors, Moves(a),
         pc'[a] = "recorded"
  PROVE  Backed([req |-> job[a].req, verdict |-> job[a].verdict, evid |-> evid[a]])'
<1>1. ToRecorded(a) /\ Shares(a) /\ job'[a] = job[a]
  BY DEF Moves, Arrives, ToRecorded
<1>2. ASSUME evid'[a].mode = "primary-durable"
      PROVE  /\ evid'[a].seq \in DOMAIN Chain'
             /\ Chain'[evid'[a].seq].kind = job'[a].verdict
             /\ Chain'[evid'[a].seq].req = job'[a].req
  BY <1>2 DEF IInv, ActorInv, EvidOnChain
<1>3. ASSUME evid'[a].mode = "fallback-durable"
      PROVE  LET events == st'.tail["fallback"]
             IN  evid'[a].seq \in DOMAIN events /\ events[evid'[a].seq].req = job'[a].req
  <2> DEFINE mine == cand[a].tail["fallback"]
             n == Len(mine)
  <2>1. pc[a] = "fb-tail2" /\ evid'[a].seq = n
    BY <1>1, <1>3 DEF ToRecorded
  <2>2. seen[a] = cand[a] /\ n > 0 /\ mine[n].req = job[a].req
    BY <2>1 DEF FenceInv, Believes
  <2>3. IsPrefix(mine, st.tail["fallback"])
    BY <2>2 DEF IInv, ActorInv, SeenBehind, Stores
  <2>4. mine \in Seq(Entry) /\ st.tail["fallback"] \in Seq(Entry)
    BY ChainsTyped DEF Stores
  <2> HIDE DEF mine
  <2>5. n \in DOMAIN st.tail["fallback"] /\ st.tail["fallback"][n] = mine[n]
    BY <2>2, <2>3, <2>4, PrefixAt
  <2>6. n \in DOMAIN st'.tail["fallback"] /\ st'.tail["fallback"][n] = mine[n]
    BY <1>1, <2>5, ChainsGrow DEF Stores
  <2> QED BY <1>1, <2>1, <2>2, <2>6
<1>4. evid'[a].mode = "recovery-latched" => latch'.latched
  BY <1>1 DEF ToRecorded
<1> QED BY <1>2, <1>3, <1>4 DEF Backed

LEMMA OutcomeMove ==
  ASSUME TypeInv, TypeInv', IInv, IInv', FenceInv, OutcomeInv, NEW a \in Actors, Moves(a)
  PROVE  OutcomeInv'
<1>1. Shares(a) /\ \A b \in Actors \ {a} : Same(b)
  BY DEF Moves
<1>2. ASSUME NEW o \in outcomes' PROVE Backed(o)'
  <2>1. CASE o \in outcomes
    BY <1>1, <2>1, BackedStays DEF OutcomeInv
  <2>2. CASE o \notin outcomes
    <3>1. PICK ran \in BOOLEAN :
            o = [req |-> job[a].req, ran |-> ran,
                 verdict |-> job[a].verdict, evid |-> evid[a]]
      BY <1>1, <2>2 DEF Shares
    <3>2. o.req = job[a].req /\ o.verdict = job[a].verdict /\ o.evid = evid[a]
      BY <3>1
    <3>3. pc[a] \in {"recorded", "sink"}
      BY <1>1, <2>2 DEF Shares
    <3>4. CASE pc[a] = "recorded"
      <4>1. Backed(o)
        BY <3>2, <3>4 DEF OutcomeInv, Backed
      <4> QED BY <1>1, <4>1, BackedStays
    <3>5. CASE pc[a] = "sink"
      <4>1. evid[a].mode = "primary-durable" /\ EvidOnChain(a)
        BY <3>5 DEF IInv, ActorInv, EvidOnChain, SinkStages
      <4>2. Backed(o)
        BY <3>2, <3>5, <4>1 DEF Backed, EvidOnChain, SinkStages
      <4> QED BY <1>1, <4>2, BackedStays
    <3> QED BY <3>3, <3>4, <3>5
  <2> QED BY <2>1, <2>2
<1>3. ASSUME NEW b \in Actors, pc'[b] = "recorded"
      PROVE  Backed([req |-> job[b].req, verdict |-> job[b].verdict, evid |-> evid[b]])'
  <2>1. CASE b = a
    BY <1>3, <2>1, ReturnsBacked
  <2>2. CASE b # a
    <3>1. Kept(b)
      BY <1>1, <2>2 DEF Same
    <3>2. PICK o : o = [req |-> job[b].req, verdict |-> job[b].verdict, evid |-> evid[b]]
      OBVIOUS
    <3>3. Backed(o)
      BY <1>3, <3>1, <3>2 DEF OutcomeInv, Kept
    <3>4. Backed(o)'
      BY <1>1, <3>3, BackedStays
    <3>5. [req |-> job'[b].req, verdict |-> job'[b].verdict, evid |-> evid'[b]] = o
      BY <3>1, <3>2 DEF Kept
    <3> QED BY <3>4, <3>5
  <2> QED BY <2>1, <2>2
<1> QED BY <1>2, <1>3 DEF OutcomeInv

LEMMA OutcomeApart ==
  ASSUME OutcomeInv, Apart
  PROVE  OutcomeInv'
<1>1. UNCHANGED <<st, latch, outcomes>> /\ \A b \in Actors : Kept(b)
  BY DEF Apart, Same, history
<1>2. \A o : Backed(o) => Backed(o)'
  BY <1>1 DEF Backed, Chain
<1>3. ASSUME NEW b \in Actors, pc'[b] = "recorded"
      PROVE  Backed([req |-> job[b].req, verdict |-> job[b].verdict, evid |-> evid[b]])'
  <2>1. PICK o : o = [req |-> job[b].req, verdict |-> job[b].verdict, evid |-> evid[b]]
    OBVIOUS
  <2>2. Backed(o)
    BY <1>1, <1>3, <2>1 DEF OutcomeInv, Kept
  <2>3. [req |-> job'[b].req, verdict |-> job'[b].verdict, evid |-> evid'[b]] = o
    BY <1>1, <2>1 DEF Kept
  <2> QED BY <1>2, <2>2, <2>3
<1> QED BY <1>1, <1>2, <1>3 DEF OutcomeInv

LEMMA OutcomeInit == Init => OutcomeInv
  BY DEF Init, OutcomeInv

(* What execute() reports as evidence is there: record_decision never      *)
(* reports a receipt or a fallback event that the protected state does not *)
(* hold, nor a latch that was not set, and nothing an actor does later     *)
(* takes it away.                                                          *)
THEOREM ReportsAreBacked == Spec => []OutcomesAreBacked
<1>1. TypeInv /\ TypeInv' /\ IInv /\ IInv' /\ FenceInv /\ OutcomeInv /\ [Next]_vars
        => OutcomeInv'
  BY EveryStepMoves, OutcomeMove, OutcomeApart
<1>2. OutcomeInv => OutcomesAreBacked
  BY DEF OutcomeInv, OutcomesAreBacked, Backed
<1> QED BY <1>1, <1>2, OutcomeInit, Typed, Invariant, FenceInvariant, PTL DEF Spec

-----------------------------------------------------------------------------
(* The healthy instant. *)

(* An instant that was seen stays seen, and an open one is seen now. *)
LEMMA InstantsCount ==
  ASSUME Witness, NEW w \in Workers, pc'[w] # "idle",
         (pc[w] \notin {"idle", "sink-state"} /\ healthyDuring[w])
           \/ Open(st', latch')
  PROVE  healthyDuring'[w]
  BY DEF Witness

LEMMA HealthMove ==
  ASSUME TypeInv, FenceInv, HealthInv, NEW a \in Actors, Moves(a), Witness
  PROVE  HealthInv'
<1>1. Arrives(a) /\ Shares(a) /\ \A b \in Actors \ {a} : Same(b)
  BY DEF Moves
<1> SUFFICES ASSUME NEW w \in Workers
             PROVE  /\ pc'[w] # "idle" /\ Open(st', latch') => healthyDuring'[w]
                    /\ pc'[w] = "sink-latch" /\ seen'[w].mode # "evidence-degraded" =>
                         healthyDuring'[w] \/ latch'.latched
                    /\ pc'[w] = "sink-primary" /\ seen'[w].mode # "evidence-degraded"
                         /\ ~seenL'[w].latched => healthyDuring'[w]
                    /\ pc'[w] \in {"sink-fallback", "sink"} => healthyDuring'[w]
  BY DEF HealthInv
<1>2. w \in Actors /\ (w # a => Same(w))
  BY <1>1 DEF Actors
<1>3. ASSUME pc'[w] = "sink-latch", seen'[w].mode # "evidence-degraded", ~latch'.latched
      PROVE  healthyDuring'[w]
  <2>1. CASE w = a
    <3>1. pc[a] = "sink-state" /\ seen'[a] = st
      BY <1>1, <1>3, <2>1 DEF Arrives, ToSink
    <3>2. UNCHANGED st
      BY <1>1, <3>1 DEF Shares, Commits
    <3>3. Open(st', latch')
      BY <1>3, <2>1, <3>1, <3>2 DEF Open
    <3> QED BY <1>3, <3>3, InstantsCount
  <2>2. CASE w # a
    <3>1. pc[w] = "sink-latch" /\ seen[w].mode # "evidence-degraded"
      BY <1>2, <1>3, <2>2 DEF Same, Kept
    <3>2. CASE healthyDuring[w]
      BY <1>3, <3>1, <3>2, InstantsCount
    <3>3. CASE latch.latched
      <4>1. UNCHANGED st /\ st.mode = "recovery-exit-authorized"
        BY <1>1, <1>3, <3>3, OpensOverExit
      <4>2. Open(st', latch')
        BY <1>3, <4>1 DEF Open
      <4> QED BY <1>3, <4>2, InstantsCount
    <3> QED BY <3>1, <3>2, <3>3 DEF HealthInv
  <2> QED BY <2>1, <2>2
<1>4. ASSUME pc'[w] = "sink-primary", seen'[w].mode # "evidence-degraded",
             ~seenL'[w].latched
      PROVE  pc[w] \notin {"idle", "sink-state"} /\ healthyDuring[w]
  <2>1. CASE w = a
    <3>1. pc[a] = "sink-latch" /\ seen'[a] = seen[a] /\ seenL'[a] = latch
      BY <1>1, <1>4, <2>1 DEF Arrives, ToSink
    <3> QED BY <1>4, <2>1, <3>1 DEF HealthInv
  <2>2. CASE w # a
    <3>1. pc[w] = "sink-primary" /\ seen[w] = seen'[w] /\ seenL[w] = seenL'[w]
      BY <1>2, <1>4, <2>2 DEF Same, Kept
    <3> QED BY <1>4, <3>1 DEF HealthInv
  <2> QED BY <2>1, <2>2
<1>5. ASSUME pc'[w] \in {"sink-fallback", "sink"}
      PROVE  pc[w] \notin {"idle", "sink-state"} /\ healthyDuring[w]
  <2>1. CASE w = a /\ pc'[w] = "sink-fallback"
    <3>1. pc[a] = "sink-primary" /\ OperationallyHealthy(seen[a], seenL[a])
      BY <1>1, <2>1 DEF Arrives, ToSink
    <3>2. ~seenL[a].latched /\ seen[a].mode # "evidence-degraded"
      BY <3>1 DEF OperationallyHealthy
    <3> QED BY <2>1, <3>1, <3>2 DEF HealthInv
  <2>2. CASE w = a /\ pc'[w] = "sink"
    <3>1. pc[a] = "sink-fallback"
      BY <1>1, <2>2 DEF Arrives, ToSink
    <3> QED BY <2>2, <3>1 DEF HealthInv
  <2>3. CASE w # a
    <3>1. pc[w] = pc'[w]
      BY <1>2, <2>3 DEF Same, Kept
    <3> QED BY <1>5, <3>1 DEF HealthInv
  <2> QED BY <1>5, <2>1, <2>2, <2>3
<1>6. pc'[w] # "idle" /\ Open(st', latch') => healthyDuring'[w]
  BY InstantsCount
<1>7. pc'[w] = "sink-primary" /\ seen'[w].mode # "evidence-degraded"
        /\ ~seenL'[w].latched => healthyDuring'[w]
  BY <1>4, InstantsCount
<1>8. pc'[w] \in {"sink-fallback", "sink"} => healthyDuring'[w]
  BY <1>5, InstantsCount
<1> QED BY <1>3, <1>6, <1>7, <1>8

LEMMA HealthApart ==
  ASSUME HealthInv, Apart, Witness
  PROVE  HealthInv'
<1>1. UNCHANGED <<st, latch>> /\ \A b \in Actors : Same(b)
  BY DEF Apart
<1>2. ASSUME NEW w \in Workers
      PROVE  /\ pc'[w] = pc[w] /\ seen'[w] = seen[w] /\ seenL'[w] = seenL[w]
             /\ pc[w] \notin {"idle", "sink-state"} /\ healthyDuring[w] =>
                  healthyDuring'[w]
             /\ pc'[w] # "idle" /\ Open(st', latch') => healthyDuring'[w]
  BY <1>1, InstantsCount DEF Same, Kept, Actors
<1> QED BY <1>1, <1>2 DEF HealthInv

LEMMA HealthInit == Init => HealthInv
  BY DEF Init, HealthInv, Actors

(* State and latch are read by two calls, and a sink check may see a pair   *)
(* that never was; still no handler is reached unless the system was open   *)
(* at one instant since that check began, because the latch clears only     *)
(* over a state that has already left the degraded mode.                    *)
THEOREM EffectsSawHealth == Spec => []EffectsSawHealthySystem
<1>1. TypeInv /\ FenceInv /\ HealthInv /\ [Next]_vars => HealthInv'
  <2> SUFFICES ASSUME TypeInv, FenceInv, HealthInv, [Next]_vars PROVE HealthInv'
    OBVIOUS
  <2>1. CASE UNCHANGED vars
    BY <2>1 DEF vars, ports, locals, HealthInv, Open
  <2>2. CASE Witness
    BY <2>2, EveryStepMoves, HealthMove, HealthApart
  <2> QED BY <2>1, <2>2 DEF Next
<1>2. HealthInv => EffectsSawHealthySystem
  BY DEF HealthInv, EffectsSawHealthySystem
<1> QED BY <1>1, <1>2, HealthInit, Typed, FenceInvariant, PTL DEF Spec

-----------------------------------------------------------------------------
(* The promise. *)

(* A step accepts at most one entry: the receipt of the decision its actor  *)
(* is recording, or the receipt of a recovery exit.                         *)
Accepts(a, r) ==
  /\ pc[a] \in {"rec-commit", "x-commit"} /\ pc'[a] \notin Undecided
  /\ Len(Chain') = Len(Chain) + 1 /\ IsPrefix(Chain, Chain') /\ r = Last(Chain')
  /\ pc[a] = "rec-commit" => r.kind = job[a].verdict /\ r.req = job[a].req
  /\ pc[a] = "x-commit" => r.kind = "recovery-exit"

LEMMA ChainSteps ==
  ASSUME TypeInv, TypeInv', IInv, FenceInv, NEW a \in Actors, Shares(a)
  PROVE  UNCHANGED Chain \/ \E r \in Entry : Accepts(a, r)
<1>1. CASE UNCHANGED st
  BY <1>1 DEF Chain
<1>2. CASE Commits(a)
  <2>1. ActorInv(a) /\ Believes(a) /\ st = seen[a] /\ st' = cand[a]
    BY <1>2 DEF IInv, FenceInv, Commits
  <2>2. CASE pc[a] \in {"fb-degrade", "fb-commit"}
    BY <2>1, <2>2 DEF ActorInv, CandAhead, FallbackBuilt, Chain
  <2>3. CASE pc[a] \in {"rec-commit", "x-commit"}
    <3>1. /\ Chain \in Seq(Entry) /\ Chain' \in Seq(Entry) /\ IsPrefix(Chain, Chain')
      BY ChainsGrow DEF Chain, Stores
    <3>2. Len(Chain') = Len(Chain) + 1
      BY <2>1, <2>3 DEF Believes, PrimaryBuilt, Chain
    <3>3. Last(Chain') = Chain'[Len(Chain')] /\ Last(Chain') \in Entry
      <4>1. Len(Chain') \in 1..Len(Chain')
        BY <3>1, <3>2
      <4> QED BY <3>1, <4>1 DEF Last
    <3>4. pc[a] = "rec-commit" =>
            Last(Chain').kind = job[a].verdict /\ Last(Chain').req = job[a].req
      BY <2>1, <3>3 DEF ActorInv, Receipted, ReceiptCand, EndsInReceipt, Chain
    <3>5. pc[a] = "x-commit" => Last(Chain').kind = "recovery-exit"
      BY <2>1 DEF Believes, Chain
    <3>6. Accepts(a, Last(Chain'))
      BY <1>2, <2>3, <3>1, <3>2, <3>4, <3>5 DEF Accepts, Commits
    <3> QED BY <3>3, <3>6
  <2> QED BY <1>2, <2>2, <2>3 DEF Commits
<1> QED BY <1>1, <1>2 DEF Shares

(* What an accepted entry decides, and that it decides nothing else. *)
LEMMA AcceptedDecides ==
  ASSUME TypeInv, TypeInv', NEW a \in Actors, NEW r \in Entry, Accepts(a, r),
         NEW kind, NEW req, Promise!Decided(kind, req)'
  PROVE  Promise!Decided(kind, req) \/ (kind = r.kind /\ req = r.req)
<1>1. Chain \in Seq(Entry) /\ Chain' \in Seq(Entry) /\ Len(Chain) \in Nat
  BY ChainsTyped DEF Chain, Stores
<1>2. Len(Chain') = Len(Chain) + 1 /\ r = Chain'[Len(Chain')]
  BY DEF Accepts, Last
<1>3. \A i \in 1..Len(Chain) : Chain'[i] = Chain[i]
  BY <1>1, PrefixAt DEF Accepts
<1>4. PICK i \in 1..Len(Chain') : Chain'[i].kind = kind /\ Chain'[i].req = req
  BY <1>1 DEF Promise!Decided
<1>5. CASE i \in 1..Len(Chain)
  BY <1>1, <1>3, <1>4, <1>5 DEF Promise!Decided
<1>6. CASE i = Len(Chain')
  BY <1>2, <1>4, <1>6
<1> QED BY <1>1, <1>2, <1>5, <1>6

(* Only the actor that records a verdict on a request decides it, and only *)
(* the actor that carries a request runs it.                               *)
LEMMA UndecidedStays ==
  ASSUME TypeInv, TypeInv', IInv, FenceInv, NEW a \in Actors, Shares(a),
         NEW kind \in Verdicts, NEW req, ~Promise!Decided(kind, req),
         pc[a] = "rec-commit" => kind # job[a].verdict \/ req # job[a].req
  PROVE  ~Promise!Decided(kind, req)'
<1>1. CASE UNCHANGED Chain
  BY <1>1 DEF Promise!Decided
<1>2. ASSUME NEW r \in Entry, Accepts(a, r), Promise!Decided(kind, req)' PROVE FALSE
  <2>1. kind = r.kind /\ req = r.req
    BY <1>2, AcceptedDecides
  <2> QED BY <1>2, <2>1 DEF Accepts, Verdicts
<1> QED BY <1>1, <1>2, ChainSteps

LEMMA UnrunStays ==
  ASSUME NEW a \in Actors, Shares(a), NEW req, ~Promise!Ran(req),
         pc[a] = "sink" /\ pc'[a] = "idle" => req # job[a].req
  PROVE  ~Promise!Ran(req)'
<1>1. CASE UNCHANGED effects
  BY <1>1 DEF Promise!Ran
<1>2. CASE effects' # effects
  <2>1. /\ pc[a] = "sink" /\ pc'[a] = "idle"
        /\ effects' = effects \cup
             {[req |-> job[a].req, seq |-> evid[a].seq, gen |-> evid[a].gen]}
    BY <1>2 DEF Shares
  <2> QED BY <2>1 DEF Promise!Ran
<1> QED BY <1>1, <1>2

(* The requests of other actors are untouched. *)
LEMMA BystanderFresh ==
  ASSUME TypeInv, TypeInv', IInv, FenceInv, RequestInv, NEW a \in Actors, Moves(a),
         NEW b \in Actors \ {a}, pc'[b] \in Active
  PROVE  Fresh(b)'
<1>1. Shares(a) /\ Same(b)
  BY DEF Moves
<1>2. pc[b] \in Active /\ Fresh(b) /\ UNCHANGED <<pc[b], job[b]>>
  BY <1>1 DEF RequestInv, Same, Kept
<1>3. pc[a] \in {"rec-commit", "sink"} => job[b].req # job[a].req
  BY <1>2 DEF RequestInv, Active, Pcs, RecordPcs, ExitPcs
<1>4. PICK v, q : v = job[b].verdict /\ q = job[b].req
  OBVIOUS
<1>5. v \in Verdicts /\ "deny" \in Verdicts
  BY <1>4, Frames DEF Job, Verdicts
<1>6. q < nextReq'
  <2>1. nextReq \in Nat /\ q \in Nat /\ q < nextReq
    BY <1>2, <1>4, Frames DEF Fresh, TypeInv, CoreTyped, OthersTyped, Job
  <2> QED BY <1>1, <2>1 DEF Shares
<1>7. ~Promise!Ran(q) => ~Promise!Ran(q)'
  BY <1>1, <1>3, <1>4, UnrunStays
<1>8. /\ ~Promise!Decided("deny", q) => ~Promise!Decided("deny", q)'
      /\ ~Promise!Decided(v, q) => ~Promise!Decided(v, q)'
  BY <1>1, <1>3, <1>4, <1>5, UndecidedStays
<1>9. /\ ~Promise!Ran(q)
      /\ v = "allow" => ~Promise!Decided("deny", q)
      /\ pc[b] \in Undecided => ~Promise!Decided(v, q)
  BY <1>2, <1>4 DEF Fresh
<1>10. v = job'[b].verdict /\ q = job'[b].req /\ pc'[b] = pc[b]
  BY <1>2, <1>4
<1> QED BY <1>6, <1>7, <1>8, <1>9, <1>10 DEF Fresh

(* A request that has just arrived is fresh, and stays so on its way.      *)
LEMMA MoverFresh ==
  ASSUME TypeInv, TypeInv', IInv, FenceInv, RequestInv, NEW a \in Actors, Moves(a),
         pc'[a] \in Active
  PROVE  Fresh(a)'
<1>1. Request(a) /\ Shares(a)
  BY DEF Moves, Arrives
<1>2. PICK v, q : v = job'[a].verdict /\ q = job'[a].req
  OBVIOUS
<1>3. /\ v \in Verdicts /\ "deny" \in Verdicts /\ pc'[a] # "idle"
      /\ nextReq \in Nat /\ nextReq' \in {nextReq, nextReq + 1}
  BY <1>1, <1>2 DEF TypeInv, CoreTyped, LocalsTyped, OthersTyped, Shares, Job, Verdicts, Active
<1>4. CASE pc[a] = "idle"
  <2>1. q = nextReq /\ nextReq' = nextReq + 1
    BY <1>1, <1>2, <1>4 DEF Request
  <2>2. ~Promise!Ran(q)
    BY <1>3, <2>1 DEF RequestInv, Promise!Ran
  <2>3. \A kind \in Verdicts : ~Promise!Decided(kind, q)
    BY <1>3, <2>1 DEF RequestInv, Promise!Decided
  <2>4. ~Promise!Ran(q)'
    BY <1>1, <1>4, <2>2, UnrunStays
  <2>5. \A kind \in Verdicts : ~Promise!Decided(kind, q)'
    BY <1>1, <1>4, <2>3, UndecidedStays
  <2>6. q < nextReq'
    BY <1>3, <2>1
  <2> QED BY <1>2, <1>3, <2>4, <2>5, <2>6 DEF Fresh
<1>5. CASE pc[a] # "idle"
  <2>1. pc[a] \in Active /\ q = job[a].req /\ Fresh(a)
    BY <1>1, <1>2, <1>5 DEF Request, RequestInv
  <2>2. q < nextReq /\ q \in Nat /\ ~Promise!Ran(q)
    BY <2>1, Frames DEF Fresh, Job
  <2>3. q < nextReq'
    BY <1>3, <2>2
  <2>4. ~Promise!Ran(q)'
    BY <1>1, <1>3, <2>2, UnrunStays
  <2>5. \/ /\ v = job[a].verdict
           /\ pc'[a] \in Undecided => pc[a] \in Undecided
        \/ /\ v = "deny"
           /\ pc[a] \in Undecided \cup SinkStages \/ job[a].verdict = "allow"
    BY <1>1, <1>2, <2>1 DEF Request
  <2>6. CASE UNCHANGED Chain
    <3>1. pc[a] \in SinkStages => job[a].verdict = "allow"
      BY DEF IInv, ActorInv, EvidOnChain
    <3>2. job[a].verdict \in {"allow", "deny"}
      BY Frames DEF Job, Verdicts
    <3>3. /\ v = "allow" => ~Promise!Decided("deny", q)
          /\ pc'[a] \in Undecided => ~Promise!Decided(v, q)
      BY <2>1, <2>5, <3>1, <3>2 DEF Fresh
    <3>4. /\ v = "allow" => ~Promise!Decided("deny", q)'
          /\ pc'[a] \in Undecided => ~Promise!Decided(v, q)'
      BY <2>6, <3>3 DEF Promise!Decided
    <3> QED BY <1>2, <2>3, <2>4, <3>4 DEF Fresh
  <2>7. ASSUME NEW r \in Entry, Accepts(a, r) PROVE Fresh(a)'
    <3>1. pc'[a] \notin Undecided
      BY <2>7 DEF Accepts
    <3>2. ASSUME v = "allow" PROVE ~Promise!Decided("deny", q)'
      <4>1. job[a].verdict = "allow" /\ ~Promise!Decided("deny", q)
        BY <2>1, <2>5, <3>2 DEF Fresh
      <4> QED BY <1>1, <1>3, <4>1, UndecidedStays
    <3> QED BY <1>2, <2>3, <2>4, <3>1, <3>2 DEF Fresh
  <2> QED BY <1>1, <2>6, <2>7, ChainSteps
<1> QED BY <1>4, <1>5

LEMMA RequestMove ==
  ASSUME TypeInv, TypeInv', IInv, FenceInv, RequestInv, NEW a \in Actors, Moves(a)
  PROVE  RequestInv'
<1>1. Arrives(a) /\ Shares(a) /\ \A b \in Actors \ {a} : Same(b)
  BY DEF Moves
<1>2. /\ nextReq \in Nat /\ nextReq' \in {nextReq, nextReq + 1}
      /\ \A n \in Nat : n < nextReq => n < nextReq'
      /\ \A b \in Actors : job[b].req \in Nat /\ job'[b].req \in Nat
  BY <1>1 DEF TypeInv, CoreTyped, OthersTyped, LocalsTyped, Shares, Job
<1>3. \A b \in Actors : pc'[b] \in Active => Fresh(b)'
  BY BystanderFresh, MoverFresh
<1>4. ASSUME NEW b \in Actors \ {a}, pc'[a] \in Active, pc'[b] \in Active
      PROVE  job'[a].req # job'[b].req
  <2>1. Fresh(b) /\ pc[b] \in Active /\ job'[b] = job[b]
    BY <1>1, <1>4 DEF RequestInv, Same, Kept
  <2>2. CASE pc[a] = "idle"
    <3>1. job'[a].req = nextReq /\ job[b].req < nextReq
      BY <1>1, <1>4, <2>1, <2>2 DEF Arrives, Request, Fresh
    <3> QED BY <1>2, <2>1, <3>1
  <2>3. CASE pc[a] # "idle"
    <3>1. pc[a] \in Active /\ job'[a].req = job[a].req
      BY <1>1, <1>4, <2>3 DEF Arrives, Request
    <3> QED BY <2>1, <3>1 DEF RequestInv
  <2> QED BY <2>2, <2>3
<1>5. ASSUME NEW b \in Actors, NEW c \in Actors, b # c, pc'[b] \in Active, pc'[c] \in Active
      PROVE  job'[b].req # job'[c].req
  <2>1. CASE b # a /\ c # a
    <3>1. UNCHANGED <<pc[b], pc[c], job[b], job[c]>>
      BY <1>1, <2>1 DEF Same, Kept
    <3> QED BY <1>5, <3>1 DEF RequestInv
  <2> QED BY <1>4, <1>5, <2>1
<1>6. ASSUME NEW e \in effects' PROVE e.req < nextReq'
  <2>1. CASE e \in effects
    <3>1. e.req < nextReq /\ e.req \in Nat
      BY <2>1 DEF RequestInv, TypeInv, CoreTyped, OthersTyped, Effect
    <3> QED BY <1>2, <3>1
  <2>2. CASE e \notin effects
    <3>1. pc[a] = "sink" /\ e.req = job[a].req
      BY <1>1, <2>2 DEF Shares
    <3>2. Fresh(a)
      BY <3>1 DEF RequestInv, Active, Pcs, SinkPcs, ExitPcs
    <3> QED BY <1>2, <3>1, <3>2 DEF Fresh
  <2> QED BY <2>1, <2>2
<1>7. ASSUME NEW i \in DOMAIN Chain', Chain'[i].kind \in Verdicts PROVE Chain'[i].req < nextReq'
  <2>1. Chain \in Seq(Entry) /\ Chain' \in Seq(Entry)
    BY ChainsTyped DEF Chain, Stores
  <2>2. ASSUME NEW j \in DOMAIN Chain, Chain[j].kind \in Verdicts PROVE Chain[j].req < nextReq'
    <3>1. Chain[j] \in Entry /\ Chain[j].req < nextReq
      BY <2>1, <2>2 DEF RequestInv
    <3> QED BY <1>2, <3>1 DEF Entry
  <2>3. CASE UNCHANGED Chain
    BY <1>7, <2>2, <2>3
  <2>4. ASSUME NEW r \in Entry, Accepts(a, r) PROVE Chain'[i].req < nextReq'
    <3>1. /\ Len(Chain') = Len(Chain) + 1 /\ r = Chain'[Len(Chain')]
          /\ \A j \in 1..Len(Chain) : Chain'[j] = Chain[j]
      BY <2>1, <2>4, PrefixAt DEF Accepts, Last
    <3>2. CASE i \in 1..Len(Chain)
      BY <1>7, <2>1, <2>2, <3>1, <3>2
    <3>3. CASE i = Len(Chain')
      <4>1. pc[a] = "rec-commit" /\ r.req = job[a].req
        BY <1>7, <2>4, <3>1, <3>3 DEF Accepts, Verdicts
      <4>2. Fresh(a)
        BY <4>1 DEF RequestInv, Active, Pcs, RecordPcs, ExitPcs
      <4>3. job[a].req < nextReq'
        BY <1>2, <4>2 DEF Fresh
      <4> QED BY <3>1, <3>3, <4>1, <4>3
    <3> QED BY <1>7, <2>1, <3>1, <3>2, <3>3
  <2> QED BY <1>1, <2>3, <2>4, ChainSteps
<1> QED BY <1>3, <1>5, <1>6, <1>7 DEF RequestInv

LEMMA RequestApart ==
  ASSUME RequestInv, Apart
  PROVE  RequestInv'
<1>1. UNCHANGED <<st, effects, nextReq>> /\ \A b \in Actors : Kept(b)
  BY DEF Apart, Same, history
<1>2. /\ UNCHANGED Chain
      /\ \A b \in Actors : pc'[b] = pc[b] /\ job'[b] = job[b]
  BY <1>1 DEF Chain, Kept
<1>3. ASSUME NEW b \in Actors, pc'[b] \in Active PROVE Fresh(b)'
  BY <1>1, <1>2, <1>3 DEF RequestInv, Fresh, Promise!Decided, Promise!Ran
<1> QED BY <1>1, <1>2, <1>3 DEF RequestInv

LEMMA RequestInit == Init => RequestInv
<1> SUFFICES ASSUME Init PROVE RequestInv
  OBVIOUS
<1>1. /\ \A a \in Actors : pc[a] = "idle"
      /\ effects = {} /\ Chain = << >>
  BY DEF Init, CoordinatorInit, GenesisState, Chain, Stores
<1> QED BY <1>1 DEF RequestInv, Active

(* A receipt accepted is the first of its kind on its request, and nothing *)
(* is refused after it ran. *)
LEMMA AcceptsImplement ==
  ASSUME TypeInv, TypeInv', IInv, FenceInv, RequestInv, NEW a \in Actors, Shares(a),
         NEW r \in Entry, Accepts(a, r)
  PROVE  Promise!Accept
<1>1. pc[a] # "sink" /\ UNCHANGED effects
  BY DEF Accepts, Shares
<1>2. ASSUME r.kind \in {"allow", "deny"}
      PROVE  /\ r.kind = "allow" => ~Promise!Decided("allow", r.req)
             /\ ~Promise!Decided("deny", r.req)
             /\ ~Promise!Ran(r.req)
  <2>1. pc[a] = "rec-commit" /\ r.kind = job[a].verdict /\ r.req = job[a].req
    BY <1>2 DEF Accepts
  <2>2. Fresh(a) /\ pc[a] \in Undecided
    BY <2>1 DEF RequestInv, Active, Pcs, RecordPcs, ExitPcs, Undecided
  <2> QED BY <1>2, <2>1, <2>2 DEF Fresh
<1>3. /\ Len(Chain') = Len(Chain) + 1
      /\ Promise!IsPrefix(Chain, Chain') /\ r = Promise!Last(Chain')
  BY DEF Accepts, IsPrefix, Last, Promise!IsPrefix, Promise!Last
<1> QED BY <1>1, <1>2, <1>3 DEF Promise!Accept

(* What runs has its allow receipt on the chain, standing and unused.      *)
LEMMA EffectsImplement ==
  ASSUME TypeInv, IInv, RequestInv, NEW a \in Actors, Shares(a), effects' # effects
  PROVE  Promise!Perform
<1> DEFINE e == [req |-> job[a].req, seq |-> evid[a].seq, gen |-> evid[a].gen]
<1>1. pc[a] = "sink" /\ UNCHANGED Chain /\ effects' = effects \cup {e}
  BY DEF Shares, Chain
<1>2. job[a].verdict = "allow" /\ evid[a].seq \in DOMAIN Chain
      /\ Chain[evid[a].seq].kind = "allow" /\ Chain[evid[a].seq].req = job[a].req
  BY <1>1 DEF IInv, ActorInv, EvidOnChain, SinkStages
<1>3. Fresh(a)
  BY <1>1 DEF RequestInv, Active, Pcs, SinkPcs, ExitPcs
<1>4. ~Promise!Decided("deny", e.req) /\ ~Promise!Ran(e.req)
  BY <1>2, <1>3 DEF Fresh
<1>5. e.req = job[a].req /\ e.seq = evid[a].seq /\ e \in effects' \ effects
  BY <1>1
<1> HIDE DEF e
<1> QED BY <1>1, <1>2, <1>4, <1>5 DEF Promise!Perform

(* The whole kernel, with its ports, races, faults and recoveries, keeps    *)
(* the promise of GovernedEffects: one chain of receipts that only grows,   *)
(* each request allowed at most once and refused at most once, and every    *)
(* effect performed once, on a standing allow receipt.                      *)
THEOREM KernelKeepsPromise == Spec => ImplementsPromise
<1>1. Init => Promise!GovernedInit
  BY DEF Init, CoordinatorInit, GenesisState, Chain, Stores, Promise!GovernedInit
<1>2. TypeInv /\ TypeInv' /\ IInv /\ FenceInv /\ RequestInv /\ [Next]_vars => RequestInv'
  BY EveryStepMoves, RequestMove, RequestApart
<1>3. TypeInv /\ TypeInv' /\ IInv /\ FenceInv /\ RequestInv /\ [Next]_vars
        => [Promise!GovernedNext]_<<Chain, effects>>
  <2> SUFFICES ASSUME TypeInv, TypeInv', IInv, FenceInv, RequestInv, [Next]_vars
               PROVE  [Promise!GovernedNext]_<<Chain, effects>>
    OBVIOUS
  <2>1. ASSUME NEW a \in Actors, Shares(a) PROVE [Promise!GovernedNext]_<<Chain, effects>>
    <3>1. CASE effects' # effects
      BY <2>1, <3>1, EffectsImplement DEF Promise!GovernedNext
    <3>2. CASE UNCHANGED effects /\ UNCHANGED Chain
      BY <3>2
    <3>3. ASSUME NEW r \in Entry, Accepts(a, r) PROVE Promise!GovernedNext
      BY <2>1, <3>3, AcceptsImplement DEF Promise!GovernedNext
    <3> QED BY <2>1, <3>1, <3>2, <3>3, ChainSteps
  <2>2. CASE Apart
    BY <2>2 DEF Apart, history, Chain
  <2> QED BY <2>1, <2>2, EveryStepMoves DEF Moves
<1> QED BY <1>1, <1>2, <1>3, RequestInit, Typed, Invariant, FenceInvariant, PTL
        DEF Spec, ImplementsPromise, Promise!GovernedSpec
=============================================================================
