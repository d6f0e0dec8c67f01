--------------------------- MODULE EvidenceState ---------------------------
(***************************************************************************)
(* The values the evidence kernel protects, and the pure rules on them:    *)
(* the protected snapshot (evidence_state.py), its successor and the test  *)
(* that a successor may replace it (evidence_reference.py), the recovery   *)
(* latch (evidence_latch.py) and what makes the pair operationally healthy.*)
(*                                                                         *)
(* A tail digest commits to the whole chain before it, so the digest of a  *)
(* log is modelled by the log itself: two tails are equal exactly when the *)
(* chains are. The digest of a latch event is the number of the request    *)
(* whose failed evidence raised it, and the digest of a recovery action is *)
(* the action's index among those issued; 0 stands for None.               *)
(***************************************************************************)
EXTENDS Naturals, Sequences, SequencesExt

Stores == {"primary", "fallback"}

(* ProtectedStateModeV1. No code path stores "recovery-latched": the latch *)
(* has a home of its own. *)
Modes == {"healthy", "evidence-degraded", "recovery-exit-authorized"}

Verdicts == {"allow", "deny"}

(* One frame of a log: a signed receipt of the primary log or an event of  *)
(* the fallback log. "gen" is the recovery generation it binds and "auth"  *)
(* the generation of the authority it was signed under.                    *)
Entry == [kind : Verdicts \cup {"recovery-exit", "fallback"},
          req : Nat, gen : Nat, auth : Nat]

Log == Seq(Entry)

Snapshot == [gen : Nat, tail : [Stores -> Log], mode : Modes, recGen : Nat,
             prior : Nat, exitReceipt : Log, recAction : Nat, floor : Nat]

Latch == [gen : Nat, latched : BOOLEAN, event : Nat,
          clearedGen : Nat, clearedEvent : Nat, exitReceipt : Log]

GenesisState ==
  [gen |-> 0, tail |-> [s \in Stores |-> << >>], mode |-> "healthy",
   recGen |-> 0, prior |-> 0, exitReceipt |-> << >>, recAction |-> 0,
   floor |-> 0]

GenesisLatch ==
  [gen |-> 0, latched |-> FALSE, event |-> 0,
   clearedGen |-> 0, clearedEvent |-> 0, exitReceipt |-> << >>]

-----------------------------------------------------------------------------
(* operationally_healthy: a readable, clear latch of the same recovery     *)
(* generation, and either the healthy mode or a recovery exit whose cleared *)
(* tuple is exactly the one the protected state authorised.                *)

\* Mutation: the stored mode alone decides, the latch is not consulted.
ModeAloneIsHealthy(s, l) ==
  s.mode \in {"healthy", "recovery-exit-authorized"}

OperationallyHealthy(s, l) ==
  /\ ~l.latched
  /\ s.recGen = l.gen
  /\ \/ s.mode = "healthy"
     \/ /\ s.mode = "recovery-exit-authorized"
        /\ l.clearedGen = s.recGen
        /\ l.clearedEvent = s.prior
        /\ l.exitReceipt = s.exitReceipt
        /\ s.exitReceipt # << >>

(* validate_snapshot: sequences, generations and floors never go back, an  *)
(* unchanged sequence keeps its tail, and "healthy" is re-entered only from *)
(* an authorised exit.                                                     *)
MaySucceed(candidate, previous) ==
  /\ candidate.gen > previous.gen
  /\ \A s \in Stores :
       \/ Len(candidate.tail[s]) > Len(previous.tail[s])
       \/ candidate.tail[s] = previous.tail[s]
  /\ candidate.recGen >= previous.recGen
  /\ candidate.floor >= previous.floor
  /\ candidate.mode = "healthy" =>
       previous.mode \in {"healthy", "recovery-exit-authorized"}

-----------------------------------------------------------------------------
(* advance_state, with the updates of its four callers. *)

Degraded(s) == [s EXCEPT !.gen = @ + 1, !.mode = "evidence-degraded"]

\* Mutation: the signer-authorization floor is not raised.
FloorForgotten(s, chain, auth) ==
  [s EXCEPT !.gen = @ + 1, !.tail["primary"] = chain, !.mode = "healthy"]

PrimaryCommitted(s, chain, auth) ==
  [s EXCEPT !.gen = @ + 1, !.tail["primary"] = chain,
            !.mode = "healthy", !.floor = auth]

FallbackCommitted(s, chain) ==
  [s EXCEPT !.gen = @ + 1, !.tail["fallback"] = chain]

\* Mutation: the exit is committed in the generation it leaves.
ExitInOldGeneration(s, chain, auth, action, index) ==
  [s EXCEPT !.gen = @ + 1, !.tail["primary"] = chain,
            !.mode = "recovery-exit-authorized", !.floor = auth,
            !.prior = action.event, !.exitReceipt = chain,
            !.recAction = index]

ExitCommitted(s, chain, auth, action, index) ==
  [s EXCEPT !.gen = @ + 1, !.tail["primary"] = chain,
            !.mode = "recovery-exit-authorized", !.floor = auth,
            !.recGen = action.gen, !.prior = action.event,
            !.exitReceipt = chain, !.recAction = index]

-----------------------------------------------------------------------------
(* RecoveryLatchV1.set and authenticated_clear of the reference provider:  *)
(* when a call is accepted and the snapshot it leaves.                     *)

Max2(m, n) == IF m >= n THEN m ELSE n

MaySet(l, gen, event) ==
  /\ gen >= l.gen
  /\ l.latched => gen = l.gen /\ event = l.event

LatchSet(l, gen, event) ==
  IF l.latched THEN l
  ELSE [gen |-> gen, latched |-> TRUE, event |-> event,
        clearedGen |-> 0, clearedEvent |-> 0, exitReceipt |-> << >>]

\* Mutation: the clear is not bound to the latch it meets.
AnyClear(l, gen, event, receipt) == TRUE

MayClear(l, gen, event, receipt) ==
  IF l.latched
    THEN gen = l.gen + 1 /\ event = l.event
    ELSE /\ l.clearedGen = gen
         /\ l.clearedEvent = event
         /\ l.exitReceipt = receipt

LatchCleared(gen, event, receipt) ==
  [gen |-> gen, latched |-> FALSE, event |-> 0,
   clearedGen |-> gen, clearedEvent |-> event, exitReceipt |-> receipt]
=============================================================================
