---------------------------- MODULE AppendOnlyLog ----------------------------
(***************************************************************************)
(* What an evidence store promises to the coordinator: the port of         *)
(* receipt_log.py (read_tail and append with an expected tail) as the      *)
(* kernel's modules use it.  The log is a chain of payloads, an append     *)
(* adds one payload to the whole chain or fails, a failure may leave the   *)
(* log unreadable, and nothing that was acknowledged is ever taken back.   *)
(***************************************************************************)
EXTENDS Naturals, Sequences, SequencesExt

CONSTANTS Payloads

VARIABLES entries,    \* the payloads of the log
          torn,       \* no scan succeeds any more
          acked       \* the chains whose last append was acknowledged

vars == <<entries, torn, acked>>

Init == entries = <<>> /\ torn = FALSE /\ acked = {}

\* The payload is in the log; the caller may still be told otherwise.
Add(payload) ==
    /\ ~torn
    /\ entries' = Append(entries, payload)
    /\ UNCHANGED <<torn, acked>>

Acknowledge ==
    /\ ~torn /\ entries # <<>>
    /\ acked' = acked \cup {entries}
    /\ UNCHANGED <<entries, torn>>

\* An append that stops half way: what was there is still there, and unreadable.
Tear ==
    /\ torn' = TRUE
    /\ UNCHANGED <<entries, acked>>

\* A power cut takes back what nobody was told to be durable, torn end included, or leaves
\* holes there.
TakeBack ==
    /\ \E n \in 0..Len(entries) :
           /\ entries' = SubSeq(entries, 1, n)
           /\ \A chain \in acked : Len(chain) <= n
    /\ torn' \in BOOLEAN
    /\ UNCHANGED acked

Next ==
    \/ \E payload \in Payloads : Add(payload)
    \/ Acknowledge
    \/ Tear
    \/ TakeBack

Spec == Init /\ [][Next]_vars
=============================================================================
