------------------------- MODULE EvidenceRecovery -------------------------
(***************************************************************************)
(* The recovery-exit protocol (evidence_recovery.py): an administrator     *)
(* signs an action bound to the latch and the tails as they are now; exit  *)
(* appends a recovery-exit receipt, commits the authorised exit to the     *)
(* protected state, and only then clears the latch. A crash or an error    *)
(* between the last two is repaired by running the same action again.      *)
(***************************************************************************)
EXTENDS EvidenceCoordinator

CONSTANT MaxActions  \* how many actions administrators sign

ASSUME ActionsAssumption == MaxActions \in Nat

VARIABLE issued      \* the activated actions, in the order they were signed

RecoveryAction == [gen : Nat, latchGen : Nat, event : Nat, tail : [Stores -> Log]]

RecoveryInit == issued = << >>

(* activate_recovery_action, on an action drawn up from the latch and the  *)
(* protected state of this moment. Signing and its verification are the    *)
(* administrator's and are assumed; the generation rule is the code's.     *)
IssueAction ==
  /\ Len(issued) < MaxActions
  /\ latch.event # 0
  /\ latch.gen + 1 > st.recGen
  /\ issued' = Append(issued, [gen |-> latch.gen + 1, latchGen |-> latch.gen,
                               event |-> latch.event, tail |-> st.tail])
  /\ UNCHANGED <<ports, budget, pc, job, seen, seenL, cand, known, lgen, evid>>

(* The action job[r].req names is admissible against the state and latch   *)
(* just read: the retry of an exit this very action already authorised, or *)
(* a first exit from the latch and the tails the action was signed for.    *)
RetryAdmissible(action, index, s) ==
  /\ s.mode = "recovery-exit-authorized"
  /\ s.recGen = action.gen
  /\ s.prior = action.event
  /\ s.recAction = index
  /\ s.exitReceipt # << >>

ExitAdmissible(action, s, l) ==
  /\ s.mode # "recovery-exit-authorized"
  /\ l.latched
  /\ l.gen = action.latchGen
  /\ s.recGen = action.latchGen
  /\ l.event = action.event
  /\ s.tail = action.tail

Planned(r) == issued[job[r].req]

ExitBegin(r) ==
  /\ pc[r] = "idle"
  /\ \E index \in 1..Len(issued), timely \in BOOLEAN :
       job' = [job EXCEPT ![r] =
                 [req |-> index, verdict |-> "deny", timely |-> timely]]
  /\ Goto(r, "x-state")
  /\ UNCHANGED <<ports, budget, issued, seen, seenL, cand, known, lgen, evid>>

ExitReadState(r) ==
  ReadState(r, "x-state", "x-latch") /\ UNCHANGED issued

ExitReadLatch(r) ==
  /\ pc[r] = "x-latch"
  /\ seenL' = [seenL EXCEPT ![r] = latch]
  /\ Goto(r, "x-primary")
  /\ UNCHANGED <<ports, budget, issued, job, seen, cand, known, lgen, evid>>

(* Authority, time and expiry come before the tails are reconciled. *)
ExitCheckPrimary(r) ==
  /\ ReadTail(r, "x-primary",
              /\ Authority[r] >= seen[r].floor
              /\ job[r].timely
              /\ TailIs("primary", seen[r].tail["primary"]),
              "x-fallback")
  /\ UNCHANGED issued

ExitCheckFallback(r) ==
  /\ pc[r] = "x-fallback"
  /\ CASE ~TailIs("fallback", seen[r].tail["fallback"]) -> Raises(r)
       [] OTHER ->
            /\ UNCHANGED evid
            /\ Goto(r, CASE RetryAdmissible(Planned(r), job[r].req, seen[r])
                              -> "x-clear"
                         [] ExitAdmissible(Planned(r), seen[r], seenL[r])
                              -> "x-append"
                         [] OTHER -> "x-done")
  /\ UNCHANGED <<ports, budget, issued, job, seen, seenL, cand, known, lgen>>

ExitAppend(r) ==
  LET chain == Append(seen[r].tail["primary"], Receipt(r, "recovery-exit"))
  IN  /\ pc[r] = "x-append"
      /\ \E applied, acked \in BOOLEAN :
           /\ PortCall(TailIs("primary", seen[r].tail["primary"]),
                       applied, acked)
           /\ AppendFrame("primary", chain, applied)
           /\ cand' = IF acked
                        THEN [cand EXCEPT ![r] =
                                ExitCommitted(seen[r], chain, Authority[r],
                                              Planned(r), job[r].req)]
                        ELSE cand
           /\ Check(r, acked, "x-reread")
      /\ UNCHANGED <<torn, st, latch, issued, job, seen, seenL, known, lgen>>

ExitReread(r) ==
  /\ ReadTail(r, "x-reread",
              TailIs("primary", cand[r].tail["primary"]), "x-commit")
  /\ UNCHANGED issued

ExitCommit(r) == CommitState(r, "x-commit", "x-state2") /\ UNCHANGED issued

ExitReadBack(r) ==
  ReadState(r, "x-state2", "x-latch2") /\ UNCHANGED issued

ExitReadLatchBack(r) ==
  ReadTail(r, "x-latch2", seen[r] = cand[r], "x-clear") /\ UNCHANGED issued

(* The clear is the last mutation. *)
ExitClear(r) ==
  LET s == seen[r]
  IN  /\ pc[r] = "x-clear"
      /\ \E applied, acked \in BOOLEAN :
           /\ PortCall(MayClear(latch, s.recGen, s.prior, s.exitReceipt),
                       applied, acked)
           /\ latch' = IF applied
                         THEN LatchCleared(s.recGen, s.prior, s.exitReceipt)
                         ELSE latch
           /\ Goto(r, "x-done")
      /\ UNCHANGED <<log, torn, st, issued, job, seen, seenL, cand, known,
                     lgen, evid>>

(* exit() re-reads state and latch, but only to compute the boolean it     *)
(* returns, or raises; either way the call is over.                        *)
ExitEnd(r) ==
  /\ pc[r] = "x-done"
  /\ Reset(r)
  /\ UNCHANGED <<ports, budget, issued>>

RecoveryExit(r) ==
  \/ ExitBegin(r)         \/ ExitReadState(r)     \/ ExitReadLatch(r)
  \/ ExitCheckPrimary(r)  \/ ExitCheckFallback(r) \/ ExitAppend(r)
  \/ ExitReread(r)        \/ ExitCommit(r)        \/ ExitReadBack(r)
  \/ ExitReadLatchBack(r) \/ ExitClear(r)         \/ ExitEnd(r)
=============================================================================
