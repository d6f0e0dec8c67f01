-------------------------- MODULE GovernedEffects --------------------------
(***************************************************************************)
(* What the evidence kernel promises, with no stores, reads, faults or     *)
(* recovery steps: one protected chain of receipts that only grows, and    *)
(* effects that each rest on an allow receipt of that chain which nothing  *)
(* on the chain has taken back.                                            *)
(***************************************************************************)
EXTENDS Naturals, Sequences, SequencesExt

VARIABLES
  chain,    \* the receipts the protected state has accepted
  effects   \* the handler invocations

Decided(kind, req) ==
  \E i \in DOMAIN chain : chain[i].kind = kind /\ chain[i].req = req

Ran(req) == \E e \in effects : e.req = req

GovernedInit == chain = << >> /\ effects = {}

(* A receipt is accepted at the end of the chain. A request is allowed at  *)
(* most once and refused at most once, never allowed after it was refused, *)
(* and never refused after it ran.                                         *)
Accept ==
  /\ Len(chain') = Len(chain) + 1
  /\ IsPrefix(chain, chain')
  /\ LET r == Last(chain')
     IN  /\ r.kind = "allow" => ~Decided("allow", r.req)
         /\ r.kind \in {"allow", "deny"} => ~Decided("deny", r.req)
         /\ r.kind = "deny" => ~Ran(r.req)
  /\ UNCHANGED effects

(* A handler runs once, on an allow receipt that still stands. *)
Perform ==
  \E e \in effects' \ effects :
    /\ effects' = effects \cup {e}
    /\ e.seq \in DOMAIN chain
    /\ chain[e.seq].kind = "allow" /\ chain[e.seq].req = e.req
    /\ ~Decided("deny", e.req)
    /\ ~Ran(e.req)
    /\ UNCHANGED chain

GovernedNext == Accept \/ Perform

GovernedSpec == GovernedInit /\ [][GovernedNext]_<<chain, effects>>
=============================================================================
