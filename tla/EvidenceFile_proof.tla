------------------------- MODULE EvidenceFile_proof -------------------------
(***************************************************************************)
(* The evidence file: what was acknowledged stays on the disk, and the     *)
(* file implements the append-only log the coordinator relies on, for any  *)
(* number of processes, payloads, calls, faults and power cuts.            *)
(*                                                                         *)
(* Only who holds the lock writes, and only after a chain that was         *)
(* acknowledged: so an entry nobody was told of can never come between     *)
(* acknowledged ones, and once an fsync has given pages up the tail they   *)
(* hold is one nobody expects, so nothing is appended over them.           *)
(***************************************************************************)
EXTENDS EvidenceFile, SequenceTheorems, FiniteSetTheorems, TLAPS

Induction == INSTANCE Induction_proof WITH Nothing <- None

-----------------------------------------------------------------------------
(* The invariant.                                                          *)

Chains == Seq(Payloads)
Unit == Chains \X Nat
Wanted == [payload : Payloads \cup {None}, tail : Chains]

(* A file that begins with the frames of this chain. *)
Held(f, chain) ==
  /\ 2 * Len(chain) + 1 <= Len(f) /\ f[1] = Magic
  /\ \A k \in 1..Len(chain) :
       /\ f[2 * k] = <<SubSeq(chain, 1, k), 1>>
       /\ f[2 * k + 1] = <<SubSeq(chain, 1, k), 2>>

(* The chain a call is about to acknowledge, where it holds the lock and   *)
(* nothing failed.                                                         *)
Working == {"write", "fsync", "fsync-dir", "close"}
Written(p) == Append(want[p].tail, want[p].payload)

DiskTyped ==
  /\ file \in Seq(Unit) /\ durable \subseteq DOMAIN file /\ dropped \subseteq DOMAIN file
  /\ linked \in BOOLEAN /\ acked \subseteq Chains \ {<<>>}
CallsTyped ==
  /\ pc \in [Processes -> Pcs] /\ want \in [Processes -> Wanted] /\ rest \in [Processes -> Seq(Unit)]
  /\ calls \in 0..MaxCalls /\ faults \in 0..MaxFaults

OneWriter == \A p, q \in Processes : pc[p] \in Locked /\ pc[q] \in Locked => p = q

(* Only who still writes, or failed to, has something left to write; and   *)
(* the tail a call expects was acknowledged.                               *)
CallOk(p) ==
  /\ rest[p] = <<>> \/ pc[p] \in {"write", "fail"}
  /\ want[p].tail \in acked \cup {<<>>}

AckedOk(chain) ==
  /\ linked /\ 1..(2 * Len(chain) + 1) \subseteq durable
  /\ Held(file, chain)

(* Who writes extends all that was acknowledged, on a file no fsync gave   *)
(* up pages of.                                                            *)
WorkOk(p) ==
  /\ want[p].payload \in Payloads /\ dropped = {}
  /\ \A chain \in acked : Len(chain) <= Len(want[p].tail)
  /\ Len(file \o rest[p]) = 2 * Len(Written(p)) + 1 /\ Held(file \o rest[p], Written(p))
  /\ pc[p] \in {"fsync-dir", "close"} => durable = DOMAIN file
  /\ pc[p] = "close" => linked

(* Once pages were given up, the tail of the file is one nobody expects. *)
DroppedOk == dropped # {} => TailOf(file) \notin acked \cup {<<>>}

FileInv ==
  /\ DiskTyped /\ CallsTyped /\ OneWriter /\ DroppedOk
  /\ \A p \in Processes : CallOk(p)
  /\ \A chain \in acked : AckedOk(chain)
  /\ \A p \in Processes : pc[p] \in Working => WorkOk(p)

-----------------------------------------------------------------------------
(* Files and chains.                                                       *)

(* What is where in a concatenation. *)
LEMMA Places ==
  ASSUME NEW S, NEW f \in Seq(S), NEW g \in Seq(S)
  PROVE  /\ f \o g \in Seq(S) /\ Len(f) \in Nat /\ Len(g) \in Nat /\ Len(f \o g) = Len(f) + Len(g)
         /\ \A i \in 1..Len(f) : (f \o g)[i] = f[i]
         /\ \A j \in 1..Len(g) : (f \o g)[Len(f) + j] = g[j]
<1>1. \A j \in 1..Len(g) : (f \o g)[Len(f) + j] = g[Len(f) + j - Len(f)] /\ Len(f) + j - Len(f) = j
  OBVIOUS
<1> QED BY <1>1

(* What a file begins with depends on its first units alone. *)
LEMMA HeldSame ==
  ASSUME NEW f \in Seq(Unit), NEW g \in Seq(Unit), NEW chain \in Chains, Held(f, chain),
         2 * Len(chain) + 1 <= Len(g), \A i \in 1..(2 * Len(chain) + 1) : g[i] = f[i]
  PROVE  Held(g, chain)
<1>1. Len(chain) \in Nat
  BY DEF Chains
<1>2. ASSUME NEW k \in 1..Len(chain)
      PROVE  g[2 * k] = <<SubSeq(chain, 1, k), 1>> /\ g[2 * k + 1] = <<SubSeq(chain, 1, k), 2>>
  <2>1. 2 * k \in 1..(2 * Len(chain) + 1) /\ 2 * k + 1 \in 1..(2 * Len(chain) + 1)
    BY <1>1
  <2>2. g[2 * k] = f[2 * k] /\ g[2 * k + 1] = f[2 * k + 1]
    BY <2>1
  <2> QED BY <2>2 DEF Held
<1>3. g[1] = Magic
  <2>1. 1 \in 1..(2 * Len(chain) + 1)
    BY <1>1
  <2> QED BY <2>1 DEF Held
<1> QED BY <1>2, <1>3 DEF Held

LEMMA HeldLonger ==
  ASSUME NEW f \in Seq(Unit), NEW g \in Seq(Unit), NEW chain \in Chains, Held(f, chain)
  PROVE  Held(f \o g, chain)
<1>1. f \o g \in Seq(Unit) /\ Len(f) \in Nat /\ Len(g) \in Nat /\ Len(chain) \in Nat
      /\ Len(f \o g) = Len(f) + Len(g) /\ \A i \in 1..Len(f) : (f \o g)[i] = f[i]
  BY DEF Chains
<1>2. 2 * Len(chain) + 1 <= Len(f)
  BY DEF Held
<1>3. 2 * Len(chain) + 1 <= Len(f \o g)
  BY <1>1, <1>2
<1>4. \A i \in 1..(2 * Len(chain) + 1) : (f \o g)[i] = f[i]
  BY <1>1, <1>2
<1> QED BY <1>1, <1>3, <1>4, HeldSame

(* A frame ends with its chain. *)
LEMMA Extended ==
  ASSUME NEW tail \in Chains, NEW payload \in Payloads
  PROVE  LET chain == Append(tail, payload) IN
         /\ chain \in Chains /\ chain # <<>> /\ Len(chain) = Len(tail) + 1
         /\ SubSeq(chain, 1, Len(chain)) = chain
         /\ \A k \in 1..Len(tail) : SubSeq(chain, 1, k) = SubSeq(tail, 1, k)
<1> DEFINE chain == Append(tail, payload)
<1>1. chain \in Chains /\ Len(chain) = Len(tail) + 1 /\ Len(tail) \in Nat
  BY DEF Chains
<1>2. \A k \in 1..Len(tail) : chain[k] = tail[k]
  BY DEF Chains
<1>3. chain # <<>>
  BY <1>1
<1> HIDE DEF chain
<1>4. SubSeq(chain, 1, Len(chain)) = chain
  BY <1>1 DEF Chains
<1>5. ASSUME NEW k \in 1..Len(tail) PROVE SubSeq(chain, 1, k) = SubSeq(tail, 1, k)
  <2>1. k \in Nat /\ k <= Len(tail) /\ k <= Len(chain) /\ 1..k \subseteq 1..Len(tail)
    BY <1>1
  <2>2. SubSeq(chain, 1, k) = [i \in 1..k |-> chain[i]] /\ SubSeq(tail, 1, k) = [i \in 1..k |-> tail[i]]
    BY <1>1, <2>1 DEF Chains
  <2> QED BY <1>2, <2>1, <2>2
<1> QED BY <1>1, <1>3, <1>4, <1>5 DEF chain

(* What an append adds makes the file that of the longer chain. *)
LEMMA AdditionHeld ==
  ASSUME NEW f \in Seq(Unit), NEW tail \in Chains, NEW payload \in Payloads,
         \/ f = <<>> /\ tail = <<>>
         \/ Len(f) = 2 * Len(tail) + 1 /\ Held(f, tail)
  PROVE  LET chain == Append(tail, payload)  g == f \o Addition(f, chain) IN
         /\ Addition(f, chain) \in Seq(Unit)
         /\ Len(g) = 2 * Len(chain) + 1 /\ Held(g, chain)
<1> DEFINE chain == Append(tail, payload)
           n == Len(tail)
<1>1. /\ chain \in Chains /\ Len(chain) = n + 1 /\ n \in Nat
      /\ SubSeq(chain, 1, Len(chain)) = chain
      /\ \A k \in 1..n : SubSeq(chain, 1, k) = SubSeq(tail, 1, k)
  BY Extended DEF Chains
<1> HIDE DEF chain, n
<1>2. <<chain, 1>> \in Unit /\ <<chain, 2>> \in Unit /\ Magic \in Unit
  <2>1. <<>> \in Chains
    BY DEF Chains
  <2> QED BY <1>1, <2>1 DEF Unit, Magic
<1>3. /\ FrameOf(chain) \in Seq(Unit) /\ Len(FrameOf(chain)) = 2
      /\ FrameOf(chain)[1] = <<chain, 1>> /\ FrameOf(chain)[2] = <<chain, 2>>
  BY <1>2 DEF FrameOf
<1>4. CASE f = <<>> /\ tail = <<>>
  <2>1. n = 0
    BY <1>4 DEF n
  <2> DEFINE m == <<Magic>>
             g == m \o FrameOf(chain)
  <2>2. /\ Addition(f, chain) = g /\ m \in Seq(Unit) /\ Len(m) = 1
        /\ 1 \in 1..2 /\ 2 \in 1..2 /\ 1 + 1 = 2 /\ 1 + 2 = 3
    BY <1>2, <1>4 DEF Addition
  <2> HIDE DEF m
  <2>3. g \in Seq(Unit) /\ Len(g) = 3 /\ g[1] = Magic /\ g[2] = <<chain, 1>> /\ g[3] = <<chain, 2>>
    <3>1. /\ g \in Seq(Unit) /\ Len(g) = Len(m) + Len(FrameOf(chain))
          /\ \A j \in 1..Len(m) : g[j] = m[j]
          /\ \A j \in 1..Len(FrameOf(chain)) : g[Len(m) + j] = FrameOf(chain)[j]
      <4>1. m \in Seq(Unit) /\ FrameOf(chain) \in Seq(Unit)
        BY <1>3, <2>2
      <4> QED BY <4>1, Places
    <3> HIDE DEF g
    <3>2. /\ g \in Seq(Unit) /\ Len(g) = 1 + 2
          /\ \A j \in 1..2 : g[1 + j] = FrameOf(chain)[j]
      BY <1>3, <2>2, <3>1
    <3>3. g[1 + 1] = FrameOf(chain)[1] /\ g[1 + 2] = FrameOf(chain)[2]
      BY <2>2, <3>2
    <3>4. g[1] = m[1]
      BY <2>2, <3>1
    <3>5. m[1] = Magic
      BY DEF m
    <3> QED BY <1>3, <3>2, <3>3, <3>4, <3>5
  <2> HIDE DEF g
  <2>4. Held(g, chain)
    <3>1. Len(chain) = 1
      BY <1>1, <2>1
    <3>2. ASSUME NEW k \in 1..Len(chain)
          PROVE  g[2 * k] = <<SubSeq(chain, 1, k), 1>> /\ g[2 * k + 1] = <<SubSeq(chain, 1, k), 2>>
      <4>1. k = 1 /\ k = Len(chain) /\ 2 * k = 2 /\ 2 * k + 1 = 3
        BY <3>1
      <4> QED BY <1>1, <2>3, <4>1
    <3> QED BY <3>1, <3>2, <2>3 DEF Held
  <2>5. f \o g = g /\ 2 * Len(chain) + 1 = 3
    BY <1>1, <1>4, <2>1, <2>3
  <2>6. Addition(f, chain) \in Seq(Unit)
    BY <2>2, <2>3 DEF g
  <2>7. f \o Addition(f, chain) = g
    BY <2>2, <2>5 DEF g
  <2> HIDE DEF g
  <2> QED BY <2>3, <2>4, <2>5, <2>6, <2>7 DEF chain
<1>5. CASE Len(f) = 2 * n + 1 /\ Held(f, tail)
  <2> DEFINE g == f \o FrameOf(chain)
  <2>1. Addition(f, chain) = FrameOf(chain)
    <3>1. f # <<>>
      BY <1>1, <1>5
    <3>2. Addition(f, chain) = <<>> \o FrameOf(chain)
      BY <3>1 DEF Addition
    <3> QED BY <1>3, <3>2
  <2>3. /\ g \in Seq(Unit) /\ Len(g) = 2 * n + 3
        /\ \A i \in 1..Len(f) : g[i] = f[i]
        /\ g[Len(f) + 1] = <<chain, 1>> /\ g[Len(f) + 2] = <<chain, 2>>
    <3>1. 1 \in 1..2 /\ 2 \in 1..2 /\ 2 * n + 1 + 2 = 2 * n + 3
      BY <1>1
    <3>2. /\ g \in Seq(Unit) /\ Len(g) = Len(f) + Len(FrameOf(chain))
          /\ \A i \in 1..Len(f) : g[i] = f[i]
          /\ \A j \in 1..Len(FrameOf(chain)) : g[Len(f) + j] = FrameOf(chain)[j]
      BY <1>3, Places
    <3> HIDE DEF g
    <3>3. /\ g[Len(f) + 1] = FrameOf(chain)[1] /\ g[Len(f) + 2] = FrameOf(chain)[2]
      BY <1>3, <3>1, <3>2
    <3> QED BY <1>1, <1>3, <1>5, <3>2, <3>3
  <2>4. g[2 * (n + 1)] = <<chain, 1>> /\ g[2 * (n + 1) + 1] = <<chain, 2>>
    <3>1. Len(f) + 1 = 2 * (n + 1) /\ Len(f) + 2 = 2 * (n + 1) + 1
      BY <1>1, <1>5
    <3> QED BY <2>3, <3>1
  <2> HIDE DEF g
  <2>5. ASSUME NEW k \in 1..Len(chain)
        PROVE  g[2 * k] = <<SubSeq(chain, 1, k), 1>> /\ g[2 * k + 1] = <<SubSeq(chain, 1, k), 2>>
    <3>1. CASE k = n + 1
      BY <1>1, <2>4, <3>1
    <3>2. CASE k \in 1..n
      <4>1. 2 * k \in 1..Len(f) /\ 2 * k + 1 \in 1..Len(f)
        BY <1>1, <1>5, <3>2
      <4>2. f[2 * k] = <<SubSeq(tail, 1, k), 1>> /\ f[2 * k + 1] = <<SubSeq(tail, 1, k), 2>>
        BY <1>5, <3>2 DEF Held, n
      <4> QED BY <1>1, <2>3, <3>2, <4>1, <4>2
    <3> QED BY <1>1, <3>1, <3>2
  <2>6. Held(g, chain)
    <3>1. 2 * Len(chain) + 1 <= Len(g)
      BY <1>1, <2>3
    <3>2. g[1] = Magic
      BY <1>1, <1>5, <2>3 DEF Held
    <3> QED BY <2>5, <3>1, <3>2 DEF Held
  <2>7. f \o Addition(f, chain) = g /\ 2 * Len(chain) + 1 = 2 * n + 3
    BY <1>1, <2>1 DEF g
  <2> QED BY <1>3, <2>1, <2>3, <2>6, <2>7 DEF chain
<1> QED BY <1>4, <1>5 DEF n

-----------------------------------------------------------------------------
(* The invariant is inductive.                                             *)

LEMMA Goes ==
  ASSUME FileInv, NEW p \in Processes, NEW to \in Pcs, Goto(p, to),
         to \in Locked => pc[p] \in Locked \/ LockFree
  PROVE  /\ pc' \in [Processes -> Pcs] /\ OneWriter'
         /\ pc'[p] = to /\ \A q \in Processes : q # p => pc'[q] = pc[q]
<1>1. /\ pc' \in [Processes -> Pcs] /\ pc'[p] = to
      /\ \A q \in Processes : q # p => pc'[q] = pc[q]
  BY DEF FileInv, CallsTyped, Goto
<1>2. OneWriter'
  BY <1>1 DEF OneWriter, FileInv, LockFree
<1> QED BY <1>1, <1>2

(* One process moves: alone on the disk, if it touches it. *)
LEMMA ProcessStep ==
  ASSUME FileInv, NEW p \in Processes, NEW to \in Pcs, Goto(p, to),
         to \in Locked => pc[p] \in Locked \/ LockFree,
         UNCHANGED <<disk, acked>> \/ pc[p] \in Locked,
         DiskTyped', acked \subseteq acked', DroppedOk', \A chain \in acked' : AckedOk(chain)',
         want' \in [Processes -> Wanted], rest' \in [Processes -> Seq(Unit)],
         \A q \in Processes : q # p => want'[q] = want[q] /\ rest'[q] = rest[q],
         calls' \in 0..MaxCalls, faults' \in 0..MaxFaults,
         CallOk(p)', to \in Working => WorkOk(p)'
  PROVE  FileInv'
<1>1. /\ pc' \in [Processes -> Pcs] /\ OneWriter'
      /\ pc'[p] = to /\ \A q \in Processes : q # p => pc'[q] = pc[q]
  BY Goes
<1>2. ASSUME NEW q \in Processes PROVE CallOk(q)'
  <2>1. CASE q # p
    <3>1. CallOk(q)
      BY DEF FileInv
    <3> QED BY <1>1, <2>1, <3>1 DEF CallOk
  <2> QED BY <2>1
<1>3. ASSUME NEW q \in Processes, pc'[q] \in Working PROVE WorkOk(q)'
  <2>1. CASE q = p
    BY <1>1, <1>3, <2>1
  <2>2. CASE q # p
    <3>1. pc[q] \in Working /\ pc'[q] = pc[q] /\ want'[q] = want[q] /\ rest'[q] = rest[q]
      BY <1>1, <1>3, <2>2
    <3>2. pc[q] \in Locked
      BY <3>1 DEF Working, Locked
    <3>3. UNCHANGED <<disk, acked>>
      BY <2>2, <3>2 DEF FileInv, OneWriter
    <3>4. WorkOk(q)
      BY <3>1 DEF FileInv
    <3>5. Written(q)' = Written(q)
      BY <3>1 DEF Written
    <3> QED BY <3>1, <3>3, <3>4, <3>5 DEF WorkOk, disk
  <2> QED BY <2>1, <2>2
<1> QED BY <1>1, <1>2, <1>3 DEF FileInv, CallsTyped

LEMMA DiskStays ==
  ASSUME FileInv, UNCHANGED <<disk, acked>>
  PROVE  /\ DiskTyped' /\ DroppedOk' /\ acked \subseteq acked'
         /\ \A chain \in acked' : AckedOk(chain)'
BY DEF FileInv, disk, DiskTyped, DroppedOk, AckedOk

LEMMA FaultTyped ==
  ASSUME FileInv, Fault
  PROVE  faults' \in 0..MaxFaults
BY BoundsAreNumbers DEF FileInv, CallsTyped, Fault

LEMMA CallPreserves ==
  ASSUME FileInv, NEW p \in Processes, Call(p)
  PROVE  FileInv'
<1>1. PICK payload \in Payloads \cup {None}, tail \in acked \cup {<<>>} :
         want' = [want EXCEPT ![p] = [payload |-> payload, tail |-> tail]]
  BY DEF Call
<1>2. tail \in Chains
  <2>1. <<>> \in Chains
    BY DEF Chains
  <2> QED BY <2>1 DEF FileInv, DiskTyped
<1>3. [payload |-> payload, tail |-> tail] \in Wanted
  BY <1>2 DEF Wanted
<1>4. /\ want' \in [Processes -> Wanted] /\ want'[p] = [payload |-> payload, tail |-> tail]
      /\ \A q \in Processes : q # p => want'[q] = want[q]
  BY <1>1, <1>3 DEF FileInv, CallsTyped
<1>5. /\ Goto(p, "flock") /\ UNCHANGED <<disk, rest, acked, faults>> /\ pc[p] = "idle"
      /\ calls' \in 0..MaxCalls
  BY BoundsAreNumbers DEF Call, Idle, FileInv, CallsTyped
<1>6. CallOk(p)'
  <2>1. rest[p] = <<>>
    BY <1>5 DEF FileInv, CallOk
  <2> QED BY <1>4, <1>5, <2>1 DEF CallOk
<1>7. "flock" \in Pcs /\ "flock" \notin Locked /\ "flock" \notin Working
  BY DEF Pcs, Locked, Working
<1> QED BY <1>4, <1>5, <1>6, <1>7, DiskStays, ProcessStep DEF FileInv, CallsTyped

(* A step that touches neither the disk nor the file's promises, and after *)
(* which the process does not work.                                        *)
LEMMA QuietStep ==
  ASSUME FileInv, NEW p \in Processes, NEW to \in Pcs \ Working, Goto(p, to),
         to \in Locked => pc[p] \in Locked \/ LockFree,
         UNCHANGED <<disk, want, acked>>,
         rest' \in [Processes -> Seq(Unit)], \A q \in Processes : q # p => rest'[q] = rest[q],
         rest'[p] = <<>> \/ to = "fail",
         calls' \in 0..MaxCalls, faults' \in 0..MaxFaults
  PROVE  FileInv'
<1>1. pc'[p] = to
  BY Goes
<1>2. CallOk(p)'
  BY <1>1 DEF FileInv, CallOk
<1> QED BY <1>2, DiskStays, ProcessStep DEF FileInv, CallsTyped

LEMMA QuietSteps ==
  ASSUME FileInv, NEW p \in Processes,
         \/ Lock(p) \/ WriteFails(p) \/ FsyncDirFails(p) \/ CloseFails(p) \/ Leave(p) \/ Crash(p)
  PROVE  FileInv'
<1>1. /\ rest \in [Processes -> Seq(Unit)] /\ calls \in 0..MaxCalls /\ faults \in 0..MaxFaults
      /\ CallOk(p)
      /\ [rest EXCEPT ![p] = <<>>] \in [Processes -> Seq(Unit)]
  BY DEF FileInv, CallsTyped
<1>2. "scan" \in Pcs \ Working /\ "fail" \in Pcs \ Working /\ "idle" \in Pcs \ Working /\ "idle" \notin Locked
  BY DEF Pcs, Locked, Working
<1>3. CASE Lock(p)
  <2>1. rest[p] = <<>>
    BY <1>1, <1>3 DEF Lock, CallOk
  <2> QED BY <1>1, <1>2, <1>3, <2>1, QuietStep DEF Lock
<1>4. CASE WriteFails(p)
  BY <1>1, <1>2, <1>4, FaultTyped, QuietStep DEF WriteFails, Locked
<1>5. CASE FsyncDirFails(p)
  BY <1>1, <1>2, <1>5, FaultTyped, QuietStep DEF FsyncDirFails, Locked
<1>6. CASE CloseFails(p)
  <2>1. rest[p] = <<>>
    BY <1>1, <1>6 DEF CloseFails, CallOk
  <2> QED BY <1>1, <1>2, <1>6, <2>1, FaultTyped, QuietStep DEF CloseFails
<1>7. CASE Leave(p)
  BY <1>1, <1>2, <1>7, QuietStep DEF Leave
<1>8. CASE Crash(p)
  BY <1>1, <1>2, <1>8, FaultTyped, QuietStep DEF Crash
<1> QED BY <1>3, <1>4, <1>5, <1>6, <1>7, <1>8

LEMMA Halves ==
  ASSUME NEW n \in Nat
  PROVE  /\ n \div 2 \in Nat
         /\ n % 2 = 1 => n = 2 * (n \div 2) + 1
         /\ n = 0 => n \div 2 = 0
         /\ \A m \in Nat : n = 2 * m + 1 => n \div 2 = m /\ n % 2 = 1
OBVIOUS

(* A log that can be appended to holds, up to its end, the acknowledged    *)
(* chain the caller expects.                                               *)
LEMMA Fits ==
  ASSUME FileInv, NEW tail \in acked \cup {<<>>}, Appendable(file, tail)
  PROVE  /\ tail \in Chains /\ dropped = {}
         /\ (file = <<>> /\ tail = <<>>) \/ (Len(file) = 2 * Len(tail) + 1 /\ Held(file, tail))
         /\ \A chain \in acked : Len(chain) <= Len(tail)
<1> DEFINE n == Frames(file)
<1>1. /\ Readable(file) /\ tail = TailOf(file) /\ Len(file) \in Nat
  BY DEF Appendable, FileInv, DiskTyped
<1>2. dropped = {}
  BY <1>1 DEF FileInv, DroppedOk
<1>3. <<>> \in Chains /\ Len(<<>>) = 0
  BY DEF Chains
<1>4. tail \in Chains
  BY <1>3 DEF FileInv, DiskTyped
<1>5. /\ n \in Nat /\ (Len(file) % 2 = 1 => Len(file) = 2 * n + 1)
      /\ (Len(file) = 0 => n = 0)
  BY <1>1, Halves DEF Frames
<1>6. \/ file = <<>> /\ tail = <<>>
      \/ Len(file) = 2 * Len(tail) + 1 /\ Held(file, tail)
  <2>1. CASE file = <<>>
    <3>1. n = 0
      BY <1>5, <2>1
    <3> QED BY <1>1, <2>1, <3>1 DEF TailOf
  <2>2. CASE file # <<>> /\ n = 0
    <3>1. Len(file) = 1
      BY <1>1, <1>5, <2>2 DEF Readable
    <3>2. tail = <<>>
      BY <1>1, <2>2 DEF TailOf
    <3>3. Len(tail) = 0
      BY <1>3, <3>2
    <3>4. Held(file, tail)
      BY <1>1, <2>2, <3>1, <3>3 DEF Held, Readable
    <3> QED BY <3>1, <3>3, <3>4
  <2>3. CASE file # <<>> /\ n # 0
    <3>1. Len(file) = 2 * n + 1 /\ n \in 1..n
      BY <1>1, <1>5, <2>3 DEF Readable
    <3>2. tail = ChainAt(file, n)
      BY <1>1, <2>3 DEF TailOf
    <3>3. Len(ChainAt(file, n)) = n
      BY <1>1, <2>3, <3>1 DEF Readable
    <3>4. tail # <<>>
      BY <1>3, <2>3, <3>2, <3>3
    <3>5. Held(file, tail)
      BY <3>4 DEF FileInv, AckedOk
    <3> QED BY <3>1, <3>2, <3>3, <3>5
  <2> QED BY <2>1, <2>2, <2>3
<1>7. ASSUME NEW chain \in acked PROVE Len(chain) <= Len(tail)
  <2>1. 2 * Len(chain) + 1 <= Len(file) /\ Len(chain) \in Nat
    BY DEF FileInv, AckedOk, Held, DiskTyped, Chains
  <2>2. Len(file) # 0
    BY <2>1
  <2>3. Len(tail) \in Nat
    BY <1>4 DEF Chains
  <2>4. Len(file) = 2 * Len(tail) + 1
    BY <1>6, <2>2
  <2> QED BY <2>1, <2>3, <2>4
<1> QED BY <1>2, <1>4, <1>6, <1>7

LEMMA ScanPreserves ==
  ASSUME FileInv, NEW p \in Processes, Scan(p)
  PROVE  FileInv'
<1> DEFINE tail == want[p].tail
           chain == Append(tail, want[p].payload)
           write == /\ Appendable(file, tail)
                    /\ want[p].payload # None
                    /\ Len(file \o Addition(file, chain)) <= LogCap
<1>1. /\ pc[p] = "scan" /\ UNCHANGED <<disk, want, acked, calls, faults>>
      /\ rest' = [rest EXCEPT ![p] = IF write THEN Addition(file, chain) ELSE <<>>]
      /\ Goto(p, IF write THEN "write" ELSE "fail")
  BY DEF Scan
<1>2. tail \in acked \cup {<<>>} /\ want[p].payload \in Payloads \cup {None}
  BY DEF FileInv, CallOk, CallsTyped, Wanted
<1>3. "fail" \in Pcs \ Working /\ "write" \in Pcs /\ "scan" \in Locked
  BY DEF Pcs, Locked, Working
<1>4. CASE ~write
  <2>1. Goto(p, "fail") /\ rest' = [rest EXCEPT ![p] = <<>>]
    BY <1>1, <1>4
  <2>2. /\ rest' \in [Processes -> Seq(Unit)] /\ rest'[p] = <<>>
        /\ \A q \in Processes : q # p => rest'[q] = rest[q]
    BY <2>1 DEF FileInv, CallsTyped
  <2> HIDE DEF write
  <2> QED BY <1>1, <1>3, <2>1, <2>2, QuietStep DEF FileInv, CallsTyped
<1>5. CASE write
  <2>1. /\ tail \in Chains /\ dropped = {}
        /\ (file = <<>> /\ tail = <<>>) \/ (Len(file) = 2 * Len(tail) + 1 /\ Held(file, tail))
        /\ \A c \in acked : Len(c) <= Len(tail)
    BY <1>2, <1>5, Fits
  <2>2. want[p].payload \in Payloads /\ file \in Seq(Unit)
    BY <1>2, <1>5 DEF FileInv, DiskTyped
  <2>3. /\ Addition(file, chain) \in Seq(Unit)
        /\ Len(file \o Addition(file, chain)) = 2 * Len(chain) + 1
        /\ Held(file \o Addition(file, chain), chain)
    BY <2>1, <2>2, AdditionHeld
  <2>4. Goto(p, "write") /\ rest' = [rest EXCEPT ![p] = Addition(file, chain)]
    BY <1>1, <1>5
  <2>5. /\ rest' \in [Processes -> Seq(Unit)] /\ rest'[p] = Addition(file, chain)
        /\ \A q \in Processes : q # p => rest'[q] = rest[q]
    BY <2>3, <2>4 DEF FileInv, CallsTyped
  <2> HIDE DEF write
  <2>6. pc'[p] = "write" /\ UNCHANGED <<file, dropped, want, acked>>
    BY <1>1, <1>3, <2>4, Goes DEF disk
  <2>7. WorkOk(p)'
    <3>1. Written(p)' = chain /\ (file \o rest[p])' = file \o Addition(file, chain)
      BY <2>5, <2>6 DEF Written
    <3> HIDE DEF chain
    <3> QED BY <2>1, <2>2, <2>3, <2>6, <3>1 DEF WorkOk
  <2>8. CallOk(p)'
    BY <1>2, <2>6 DEF CallOk
  <2> QED BY <1>1, <1>3, <2>4, <2>5, <2>7, <2>8, DiskStays, ProcessStep DEF FileInv, CallsTyped
<1> QED BY <1>4, <1>5

(* Writing some of the rest leaves what will be in the file the same. *)
LEMMA WrittenSome ==
  ASSUME NEW f \in Seq(Unit), NEW r \in Seq(Unit), NEW n \in 1..Len(r)
  PROVE  /\ SubSeq(r, 1, n) \in Seq(Unit) /\ SubSeq(r, n + 1, Len(r)) \in Seq(Unit)
         /\ (f \o SubSeq(r, 1, n)) \o SubSeq(r, n + 1, Len(r)) = f \o r
         /\ n = Len(r) => SubSeq(r, n + 1, Len(r)) = <<>> /\ f \o SubSeq(r, 1, n) = f \o r
<1> DEFINE s == SubSeq(r, 1, n)
           t == SubSeq(r, n + 1, Len(r))
<1>1. s \in Seq(Unit) /\ Len(s) = n /\ \A i \in 1..n : s[i] = r[i]
  OBVIOUS
<1>2. t \in Seq(Unit) /\ Len(t) = Len(r) - n /\ \A i \in 1..(Len(r) - n) : t[i] = r[n + i]
  OBVIOUS
<1> HIDE DEF s, t
<1>3. s \o t = r
  <2>1. 1 \in 1..Len(r) + 1 /\ n \in (1-1)..Len(r) /\ Len(r) \in n..Len(r)
    OBVIOUS
  <2>2. SubSeq(r, 1, n) \o SubSeq(r, n + 1, Len(r)) = SubSeq(r, 1, Len(r))
    BY <2>1, ConcatAdjacentSubSeq
  <2> QED BY <2>2, SubSeqFull DEF s, t
<1>4. (f \o s) \o t = f \o (s \o t)
  <2>1. s \in Seq(Unit) /\ t \in Seq(Unit)
    BY <1>1, <1>2
  <2> QED BY <2>1, ConcatAssociative
<1>5. n = Len(r) => t = <<>> /\ s = r
  <2> SUFFICES ASSUME n = Len(r) PROVE t = <<>> /\ s = r
    OBVIOUS
  <2>1. Len(t) = 0
    BY <1>2
  <2>2. t = <<>>
    BY <1>2, <2>1
  <2>3. s = r
    BY <1>1, SeqEqual
  <2> QED BY <2>2, <2>3
<1> QED BY <1>1, <1>2, <1>3, <1>4, <1>5 DEF s, t

(* What the holder of the lock knows. *)
LEMMA HolderKnows ==
  ASSUME FileInv, NEW p \in Processes, pc[p] \in Working
  PROVE  /\ WorkOk(p) /\ Written(p) \in Chains /\ Written(p) # <<>>
         /\ Len(Written(p)) = Len(want[p].tail) + 1 /\ Len(want[p].tail) \in Nat
         /\ file \in Seq(Unit) /\ rest[p] \in Seq(Unit)
         /\ pc[p] # "write" => rest[p] = <<>> /\ file \o rest[p] = file
         /\ pc[p] \in Locked
<1>1. WorkOk(p) /\ CallOk(p)
  BY DEF FileInv
<1>2. want[p].tail \in Chains /\ want[p].payload \in Payloads
  BY <1>1 DEF FileInv, CallsTyped, Wanted, WorkOk
<1>3. /\ Written(p) \in Chains /\ Written(p) # <<>>
      /\ Len(Written(p)) = Len(want[p].tail) + 1
  BY <1>2, Extended DEF Written
<1>4. file \in Seq(Unit) /\ rest[p] \in Seq(Unit)
  BY DEF FileInv, DiskTyped, CallsTyped
<1>5. pc[p] # "write" => rest[p] = <<>>
  BY <1>1 DEF CallOk, Working
<1>6. file \o <<>> = file
  BY <1>4
<1>7. Len(want[p].tail) \in Nat
  BY <1>2 DEF Chains
<1>8. pc[p] \in Locked
  BY DEF Locked, Working
<1> QED BY <1>1, <1>3, <1>4, <1>5, <1>6, <1>7, <1>8

LEMMA WritePreserves ==
  ASSUME FileInv, NEW p \in Processes, NEW n \in DOMAIN rest[p], Write(p, n)
  PROVE  FileInv'
<1> DEFINE head == SubSeq(rest[p], 1, n)
           left == SubSeq(rest[p], n + 1, Len(rest[p]))
           to == IF n = Len(rest[p]) THEN "fsync" ELSE "write"
<1>1. /\ pc[p] = "write" /\ file' = file \o head /\ rest' = [rest EXCEPT ![p] = left]
      /\ Goto(p, to) /\ UNCHANGED <<durable, dropped, linked, want, acked, calls, faults>>
  BY DEF Write
<1>2. pc[p] \in Working
  BY <1>1 DEF Working
<1>3. /\ WorkOk(p) /\ Written(p) \in Chains /\ file \in Seq(Unit) /\ rest[p] \in Seq(Unit)
      /\ pc[p] \in Locked
  BY <1>2, HolderKnows
<1>4. n \in 1..Len(rest[p])
  BY <1>3
<1>5. /\ head \in Seq(Unit) /\ left \in Seq(Unit) /\ (file \o head) \o left = file \o rest[p]
      /\ n = Len(rest[p]) => left = <<>>
  BY <1>3, <1>4, WrittenSome
<1>6. to \in {"write", "fsync"}
  OBVIOUS
<1>7. n = Len(rest[p]) \/ to = "write"
  OBVIOUS
<1> HIDE DEF head, left, to
<1>8. to \in Pcs /\ to \in Locked /\ to \in Working
  BY <1>6 DEF Pcs, Locked, Working
<1>9. /\ file' \in Seq(Unit) /\ Len(file') = Len(file) + Len(head)
      /\ \A i \in 1..Len(file) : file'[i] = file[i]
      /\ Len(file) \in Nat /\ Len(head) \in Nat
  BY <1>1, <1>3, <1>5, Places
<1>10. /\ rest' \in [Processes -> Seq(Unit)] /\ rest'[p] = left
       /\ \A q \in Processes : q # p => rest'[q] = rest[q]
  BY <1>1, <1>5 DEF FileInv, CallsTyped
<1>11. pc'[p] = to
  BY <1>1, <1>3, <1>8, Goes
<1>12. DiskTyped'
  <2>1. DOMAIN file = 1..Len(file) /\ DOMAIN file' = 1..Len(file')
    BY <1>3, <1>9
  <2>2. DOMAIN file \subseteq DOMAIN file'
    BY <1>9, <2>1
  <2> QED BY <1>1, <1>9, <2>2 DEF FileInv, DiskTyped
<1>13. DroppedOk'
  BY <1>1, <1>3 DEF WorkOk, DroppedOk
<1>14. ASSUME NEW chain \in acked' PROVE AckedOk(chain)'
  <2>1. AckedOk(chain) /\ chain \in Chains
    BY <1>1 DEF FileInv, DiskTyped
  <2>2. Held(file', chain)
    BY <1>1, <1>3, <1>5, <2>1, HeldLonger DEF AckedOk
  <2> QED BY <1>1, <2>1, <2>2 DEF AckedOk
<1>15. WorkOk(p)'
  <2>1. Written(p)' = Written(p) /\ (file \o rest[p])' = file \o rest[p]
    BY <1>1, <1>5, <1>10 DEF Written
  <2>2. to \notin {"fsync-dir", "close"}
    BY <1>6
  <2> QED BY <1>1, <1>3, <1>11, <2>1, <2>2 DEF WorkOk
<1>16. CallOk(p)'
  BY <1>1, <1>5, <1>7, <1>10, <1>11 DEF FileInv, CallOk
<1>17. want' \in [Processes -> Wanted] /\ calls' \in 0..MaxCalls /\ faults' \in 0..MaxFaults
  BY <1>1 DEF FileInv, CallsTyped
<1> QED BY <1>1, <1>3, <1>8, <1>10, <1>12, <1>13, <1>14, <1>15, <1>16, <1>17, ProcessStep

(* The steps after the last write leave the file as it is. *)
LEMMA HolderStep ==
  ASSUME FileInv, NEW p \in Processes, pc[p] \in Working \ {"write"}, NEW to \in Pcs, Goto(p, to),
         UNCHANGED <<file, want, rest, calls>>, faults' \in 0..MaxFaults,
         DiskTyped', acked \subseteq acked', DroppedOk',
         \A chain \in acked' : AckedOk(chain)', to \in Working => WorkOk(p)'
  PROVE  FileInv'
<1>1. pc[p] \in Locked
  BY HolderKnows
<1>2. rest'[p] = <<>>
  BY HolderKnows
<1>3. CallOk(p)'
  BY <1>2 DEF FileInv, CallOk
<1> QED BY <1>1, <1>3, ProcessStep DEF FileInv, CallsTyped

LEMMA FsyncPreserves ==
  ASSUME FileInv, NEW p \in Processes, Fsync(p)
  PROVE  FileInv'
<1>1. /\ pc[p] = "fsync" /\ durable' = DOMAIN file \ dropped /\ Goto(p, "fsync-dir")
      /\ UNCHANGED <<file, dropped, linked, want, rest, acked, calls, faults>>
  BY DEF Fsync
<1>2. pc[p] \in Working \ {"write"} /\ "fsync-dir" \in Pcs /\ "fsync-dir" \in Locked
  BY <1>1 DEF Working, Pcs, Locked
<1>3. WorkOk(p) /\ pc[p] \in Locked
  BY <1>2, HolderKnows
<1>4. dropped = {} /\ durable' = DOMAIN file
  BY <1>1, <1>3 DEF WorkOk
<1>5. DiskTyped' /\ DroppedOk'
  BY <1>1, <1>4 DEF FileInv, DiskTyped, DroppedOk
<1>6. ASSUME NEW chain \in acked' PROVE AckedOk(chain)'
  BY <1>1, <1>4 DEF FileInv, AckedOk, DiskTyped
<1>7. pc'[p] = "fsync-dir"
  BY <1>1, <1>2, <1>3, Goes
<1>8. WorkOk(p)'
  <2>1. Written(p)' = Written(p)
    BY <1>1 DEF Written
  <2> QED BY <1>1, <1>3, <1>4, <1>7, <2>1 DEF WorkOk
<1>9. faults' \in 0..MaxFaults
  BY <1>1 DEF FileInv, CallsTyped
<1> QED BY <1>1, <1>2, <1>5, <1>6, <1>8, <1>9, HolderStep

(* Pages are given up behind a chain nobody was told of. *)
LEMMA FsyncFailsPreserves ==
  ASSUME FileInv, NEW p \in Processes, FsyncFails(p)
  PROVE  FileInv'
<1>1. /\ pc[p] = "fsync" /\ dropped' \in {dropped, DOMAIN file \ durable} /\ Goto(p, "fail")
      /\ UNCHANGED <<file, durable, linked, want, rest, acked, calls>> /\ Fault
  BY DEF FsyncFails
<1>2. pc[p] \in Working \ {"write"} /\ "fail" \in Pcs /\ "fail" \notin Working
  BY <1>1 DEF Working, Pcs, Locked
<1>3. /\ WorkOk(p) /\ Written(p) \in Chains /\ Written(p) # <<>>
      /\ Len(Written(p)) = Len(want[p].tail) + 1 /\ Len(want[p].tail) \in Nat
      /\ file \in Seq(Unit) /\ file \o rest[p] = file
  BY <1>1, <1>2, HolderKnows
<1>4. DiskTyped'
  BY <1>1 DEF FileInv, DiskTyped
<1>5. TailOf(file) = Written(p)
  <2> DEFINE m == Len(Written(p))
  <2>1. Len(file) = 2 * m + 1 /\ Held(file, Written(p)) /\ m \in Nat /\ m # 0
    BY <1>3 DEF WorkOk
  <2> HIDE DEF m
  <2>2. Frames(file) = m
    BY <1>3, <2>1, Halves DEF Frames
  <2>3. file[2 * m] = <<SubSeq(Written(p), 1, m), 1>>
    BY <2>1 DEF Held, m
  <2>4. SubSeq(Written(p), 1, m) = Written(p)
    BY <1>3, SubSeqFull DEF Chains, m
  <2>5. ChainAt(file, m) = Written(p)
    BY <2>3, <2>4 DEF ChainAt
  <2> QED BY <2>1, <2>2, <2>5 DEF TailOf
<1>6. Written(p) \notin acked
  BY <1>3 DEF WorkOk
<1>7. DroppedOk'
  <2>1. TailOf(file)' = TailOf(file)
    BY <1>1 DEF TailOf, Frames, ChainAt
  <2> QED BY <1>1, <1>3, <1>5, <1>6, <2>1 DEF DroppedOk
<1>8. ASSUME NEW chain \in acked' PROVE AckedOk(chain)'
  BY <1>1 DEF FileInv, AckedOk
<1> QED BY <1>1, <1>2, <1>4, <1>7, <1>8, FaultTyped, HolderStep

LEMMA FsyncDirPreserves ==
  ASSUME FileInv, NEW p \in Processes, FsyncDir(p)
  PROVE  FileInv'
<1>1. /\ pc[p] = "fsync-dir" /\ linked' = TRUE /\ Goto(p, "close")
      /\ UNCHANGED <<file, durable, dropped, want, rest, acked, calls, faults>>
  BY DEF FsyncDir
<1>2. pc[p] \in Working \ {"write"} /\ "close" \in Pcs /\ "close" \in Locked
  BY <1>1 DEF Working, Pcs, Locked
<1>3. WorkOk(p) /\ pc[p] \in Locked
  BY <1>2, HolderKnows
<1>4. DiskTyped' /\ DroppedOk'
  BY <1>1 DEF FileInv, DiskTyped, DroppedOk
<1>5. ASSUME NEW chain \in acked' PROVE AckedOk(chain)'
  BY <1>1 DEF FileInv, AckedOk
<1>6. WorkOk(p)'
  <2>1. Written(p)' = Written(p)
    BY <1>1 DEF Written
  <2> QED BY <1>1, <1>3, <2>1 DEF WorkOk
<1>7. faults' \in 0..MaxFaults
  BY <1>1 DEF FileInv, CallsTyped
<1> QED BY <1>1, <1>2, <1>4, <1>5, <1>6, <1>7, HolderStep

LEMMA ClosePreserves ==
  ASSUME FileInv, NEW p \in Processes, Close(p)
  PROVE  FileInv'
<1>1. /\ pc[p] = "close" /\ acked' = acked \cup {Written(p)} /\ Goto(p, "idle")
      /\ UNCHANGED <<disk, want, rest, calls, faults>>
  BY DEF Close, Written
<1>2. pc[p] \in Working \ {"write"} /\ "idle" \in Pcs /\ "idle" \notin Working
  BY <1>1 DEF Working, Pcs, Locked
<1>3. /\ WorkOk(p) /\ Written(p) \in Chains /\ Written(p) # <<>> /\ file \o rest[p] = file
      /\ file \in Seq(Unit)
  BY <1>1, <1>2, HolderKnows
<1>4. DiskTyped' /\ DroppedOk'
  BY <1>1, <1>3 DEF FileInv, DiskTyped, DroppedOk, WorkOk, disk
<1>5. ASSUME NEW chain \in acked' PROVE AckedOk(chain)'
  <2>1. CASE chain \in acked
    BY <1>1, <2>1 DEF FileInv, AckedOk, disk
  <2>2. CASE chain = Written(p)
    <3>1. linked /\ durable = 1..Len(file) /\ Held(file, chain) /\ Len(file) = 2 * Len(chain) + 1
      BY <1>1, <1>3, <2>2 DEF WorkOk
    <3> QED BY <1>1, <3>1 DEF AckedOk, disk
  <2> QED BY <1>1, <2>1, <2>2
<1>6. faults' \in 0..MaxFaults
  BY <1>1 DEF FileInv, CallsTyped
<1> QED BY <1>1, <1>2, <1>4, <1>5, <1>6, HolderStep DEF disk

(* A power cut leaves what was on the disk, and so what was acknowledged. *)
LEMMA PowerCutPreserves ==
  ASSUME FileInv, PowerCut
  PROVE  FileInv'
<1>1. /\ pc' = [p \in Processes |-> "idle"] /\ rest' = [p \in Processes |-> <<>>]
      /\ dropped' = {} /\ linked' \in {linked, file' # <<>>}
      /\ UNCHANGED <<want, acked, calls>> /\ Fault
  BY DEF PowerCut
<1>2. faults' \in 0..MaxFaults
  BY <1>1, FaultTyped
<1>3. /\ file \in Seq(Unit) /\ durable \subseteq 1..Len(file) /\ Len(file) \in Nat
      /\ acked \subseteq Chains \ {<<>>} /\ linked \in BOOLEAN
  BY DEF FileInv, DiskTyped
<1>4. <<>> \in Seq(Unit) /\ Zeros \in Unit
  <2>1. <<>> \in Chains
    BY DEF Chains
  <2> QED BY <2>1 DEF Unit, Zeros
<1>5. linked' \in BOOLEAN
  BY <1>1, <1>3
<1>6. /\ file' \in Seq(Unit) /\ durable' \subseteq DOMAIN file'
      /\ \A chain \in acked : AckedOk(chain)'
  <2>1. CASE ~linked /\ file' = <<>> /\ durable' = {}
    <3>1. acked = {}
      BY <2>1 DEF FileInv, AckedOk
    <3> QED BY <1>4, <2>1, <3>1
  <2>2. ASSUME NEW n \in 0..Len(file), NEW kept \in SUBSET (1..n),
               durable \subseteq kept,
               file' = [k \in 1..n |-> IF k \in kept THEN file[k] ELSE Zeros],
               durable' = 1..n
        PROVE  /\ file' \in Seq(Unit) /\ durable' \subseteq DOMAIN file'
               /\ \A chain \in acked : AckedOk(chain)'
    <3>1. n \in Nat /\ n <= Len(file)
      BY <1>3
    <3>2. \A k \in 1..n : (IF k \in kept THEN file[k] ELSE Zeros) \in Unit
      BY <1>3, <1>4, <3>1
    <3>3. file' \in Seq(Unit) /\ DOMAIN file' = 1..n /\ Len(file') = n
      BY <2>2, <3>1, <3>2
    <3>4. ASSUME NEW chain \in acked PROVE AckedOk(chain)'
      <4>1. /\ chain \in Chains /\ Len(chain) \in Nat /\ linked /\ Held(file, chain)
            /\ 1..(2 * Len(chain) + 1) \subseteq durable
        BY <1>3 DEF FileInv, AckedOk, Chains
      <4>2. 2 * Len(chain) + 1 \in 1..(2 * Len(chain) + 1)
        BY <4>1
      <4>3. 2 * Len(chain) + 1 <= n
        BY <2>2, <3>1, <4>1, <4>2
      <4>4. \A i \in 1..(2 * Len(chain) + 1) : file'[i] = file[i]
        BY <2>2, <4>1
      <4>5. Held(file', chain)
        BY <1>3, <3>3, <4>1, <4>3, <4>4, HeldSame
      <4>6. 1..(2 * Len(chain) + 1) \subseteq durable'
        BY <2>2, <3>1, <4>1, <4>3
      <4>7. linked'
        <5>1. n # 0
          BY <4>1, <4>3
        <5>2. file' # <<>>
          BY <3>3, <5>1
        <5> QED BY <1>1, <4>1, <5>2
      <4> QED BY <4>5, <4>6, <4>7 DEF AckedOk
    <3> QED BY <2>2, <3>3, <3>4
  <2> QED BY <2>1, <2>2 DEF PowerCut
<1>7. DiskTyped'
  BY <1>1, <1>3, <1>5, <1>6 DEF DiskTyped
<1>8. CallsTyped'
  <2>1. "idle" \in Pcs
    BY DEF Pcs
  <2> QED BY <1>1, <1>2, <1>4, <2>1 DEF FileInv, CallsTyped
<1>9. \A p \in Processes : CallOk(p)' /\ pc'[p] \notin Working /\ pc'[p] \notin Locked
  BY <1>1 DEF FileInv, CallOk, Working, Locked
<1> QED BY <1>1, <1>6, <1>7, <1>8, <1>9 DEF FileInv, DroppedOk, OneWriter

LEMMA FileInvInit == Init => FileInv
<1> SUFFICES ASSUME Init PROVE FileInv
  OBVIOUS
<1>1. <<>> \in Chains /\ <<>> \in Seq(Unit)
  BY DEF Chains
<1>2. DiskTyped
  <2>1. DOMAIN <<>> = {}
    OBVIOUS
  <2> QED BY <1>1 DEF Init, DiskTyped
<1>3. CallsTyped
  <2>1. [payload |-> None, tail |-> <<>>] \in Wanted
    BY <1>1 DEF Wanted
  <2>2. "idle" \in Pcs
    BY DEF Pcs
  <2> QED BY <1>1, <2>1, <2>2, BoundsAreNumbers DEF Init, CallsTyped
<1>4. \A p \in Processes : CallOk(p) /\ pc[p] \notin Working /\ pc[p] \notin Locked
  BY DEF Init, CallOk, Working, Locked
<1> QED BY <1>2, <1>3, <1>4 DEF Init, FileInv, DroppedOk, OneWriter

LEMMA FileInvNext == FileInv /\ [Next]_vars => FileInv'
<1> SUFFICES ASSUME FileInv, [Next]_vars PROVE FileInv'
  OBVIOUS
<1>1. CASE UNCHANGED vars
  <2>1. UNCHANGED <<disk, acked>>
    BY <1>1 DEF vars, disk
  <2>2. \A p \in Processes : Written(p)' = Written(p)
    BY <1>1 DEF vars, Written
  <2>3. \A p \in Processes : (pc[p] \in Working => WorkOk(p)) => (pc'[p] \in Working => WorkOk(p)')
    BY <1>1, <2>2 DEF vars, WorkOk
  <2> QED BY <1>1, <2>1, <2>3, DiskStays DEF vars, FileInv, CallsTyped, CallOk, OneWriter
<1>2. ASSUME NEW p \in Processes, NEW n \in DOMAIN rest[p], Write(p, n) PROVE FileInv'
  BY <1>2, WritePreserves
<1> QED BY <1>1, <1>2, CallPreserves, QuietSteps, ScanPreserves, FsyncPreserves, FsyncFailsPreserves,
           FsyncDirPreserves, ClosePreserves, PowerCutPreserves DEF Next

(* What file, disk and abandoned pages hold, whatever calls fail or cut    *)
(* short (receipt_log.py: scan and append).                                *)
THEOREM FileInvariant == Spec => []FileInv
BY FileInvInit, FileInvNext, PTL DEF Spec

(* What was acknowledged is on the disk with everything before it, whatever *)
(* fails, crashes or loses power afterwards; so no two callers were ever   *)
(* told of two different entries at one place of the log.                  *)
THEOREM AcknowledgedIsDurable == Spec => []AckedIsDurable
<1>1. FileInv => AckedIsDurable
  <2> SUFFICES ASSUME FileInv PROVE AckedIsDurable
    OBVIOUS
  <2>1. TypeOK
    BY DEF FileInv, DiskTyped, CallsTyped, CallOk, Wanted, TypeOK, Units
  <2> QED BY <2>1 DEF FileInv, AckedOk, Held, AckedIsDurable
<1> QED BY <1>1, FileInvariant, PTL

-----------------------------------------------------------------------------
(* What a scan sees of a file: the longest chain it begins with.           *)

FrameOk(f, k) ==
  /\ <<f[2 * k], f[2 * k + 1]>> = FrameOf(ChainAt(f, k))
  /\ Len(ChainAt(f, k)) = k
  /\ Front(ChainAt(f, k)) = (IF k = 1 THEN <<>> ELSE ChainAt(f, k - 1))
Reads(f, k) ==
  /\ 2 * k + 1 <= Len(f) /\ f[1] = Magic
  /\ \A i \in 1..k : FrameOk(f, i)

LEMMA FrontIs ==
  ASSUME NEW c \in Chains, c # <<>>
  PROVE  /\ Len(c) \in Nat \ {0}
         /\ Front(c) = SubSeq(c, 1, Len(c) - 1) /\ Front(c) \in Chains /\ Len(Front(c)) = Len(c) - 1
         /\ \A i \in 1..(Len(c) - 1) : SubSeq(Front(c), 1, i) = SubSeq(c, 1, i)
<1>1. Len(c) \in Nat \ {0}
  BY DEF Chains
<1>2. Front(c) = SubSeq(c, 1, Len(c) - 1)
  BY DEF Front
<1>3. Front(c) \in Chains /\ Len(Front(c)) = Len(c) - 1
  <2> DEFINE m == Len(c) - 1
  <2>1. m \in Nat /\ \A i \in 1..m : c[i] \in Payloads
    BY <1>1 DEF Chains
  <2>2. SubSeq(c, 1, m) = [i \in 1..m |-> c[i]]
    BY <2>1 DEF Chains
  <2> HIDE DEF m
  <2>3. [i \in 1..m |-> c[i]] \in Seq(Payloads) /\ Len([i \in 1..m |-> c[i]]) = m
    BY <2>1
  <2> QED BY <1>2, <2>2, <2>3 DEF Chains, m
<1>4. ASSUME NEW i \in 1..(Len(c) - 1) PROVE SubSeq(Front(c), 1, i) = SubSeq(c, 1, i)
  <2>1. /\ 1 \in 1..Len(c) /\ Len(c) - 1 \in 1..Len(c) /\ 1 \in 1..(Len(c) - 1) - 1 + 1
        /\ i \in 1..(Len(c) - 1) - 1 + 1 /\ 1 + 1 - 1 = 1 /\ 1 + i - 1 = i
    BY <1>1
  <2>2. SubSeq(SubSeq(c, 1, Len(c) - 1), 1, i) = SubSeq(c, 1 + 1 - 1, 1 + i - 1)
    BY <2>1, SubSeqOfSubSeq DEF Chains
  <2> QED BY <1>2, <2>1, <2>2
<1> QED BY <1>1, <1>2, <1>3, <1>4

(* Frame by frame: what reads up to k begins with the chain of its k-th    *)
(* frame.                                                                  *)
LEMMA ReadsHeld ==
  ASSUME NEW f \in Seq(Unit)
  PROVE  \A k \in Nat : k # 0 /\ Reads(f, k) =>
           ChainAt(f, k) \in Chains /\ Len(ChainAt(f, k)) = k /\ Held(f, ChainAt(f, k))
<1> DEFINE S == {k \in Nat : k # 0 /\ Reads(f, k) =>
                   ChainAt(f, k) \in Chains /\ Len(ChainAt(f, k)) = k /\ Held(f, ChainAt(f, k))}
<1>1. 0 \in S
  OBVIOUS
<1>2. ASSUME NEW k \in Nat, k \in S PROVE k + 1 \in S
  <2> SUFFICES ASSUME Reads(f, k + 1)
               PROVE  /\ ChainAt(f, k + 1) \in Chains /\ Len(ChainAt(f, k + 1)) = k + 1
                      /\ Held(f, ChainAt(f, k + 1))
    OBVIOUS
  <2> DEFINE c == ChainAt(f, k + 1)
             d == ChainAt(f, k)
  <2>1. /\ FrameOk(f, k + 1) /\ Len(f) \in Nat /\ 2 * (k + 1) + 1 <= Len(f) /\ f[1] = Magic
        /\ 2 * (k + 1) \in 1..Len(f)
    BY DEF Reads
  <2>2. f[2 * (k + 1)] = <<c, 1>> /\ f[2 * (k + 1) + 1] = <<c, 2>>
    BY <2>1 DEF FrameOk, FrameOf
  <2>3. c \in Chains
    BY <2>1, <2>2 DEF Unit
  <2>4. Len(c) = k + 1 /\ c # <<>>
    BY <2>1, <2>3 DEF FrameOk, Chains
  <2>5. SubSeq(c, 1, k + 1) = c
    BY <2>3, <2>4, SubSeqFull DEF Chains
  <2>6. Front(c) = (IF k = 0 THEN <<>> ELSE d)
    BY <2>1 DEF FrameOk
  <2>7. k # 0 => Reads(f, k)
    BY <2>1 DEF Reads
  <2>8. k # 0 => d \in Chains /\ Len(d) = k /\ Held(f, d)
    BY <1>2, <2>7
  <2> HIDE DEF c, d
  <2>9. ASSUME NEW i \in 1..Len(c)
        PROVE  f[2 * i] = <<SubSeq(c, 1, i), 1>> /\ f[2 * i + 1] = <<SubSeq(c, 1, i), 2>>
    <3>1. CASE i = k + 1
      BY <2>2, <2>5, <3>1
    <3>2. CASE i \in 1..k
      <4>1. Held(f, d) /\ Len(d) = k /\ Front(c) = d
        BY <2>6, <2>8, <3>2
      <4>2. f[2 * i] = <<SubSeq(d, 1, i), 1>> /\ f[2 * i + 1] = <<SubSeq(d, 1, i), 2>>
        BY <3>2, <4>1 DEF Held
      <4>3. SubSeq(d, 1, i) = SubSeq(c, 1, i)
        <5>1. i \in 1..(Len(c) - 1)
          BY <2>4, <3>2
        <5> QED BY <2>3, <2>4, <4>1, <5>1, FrontIs
      <4> QED BY <4>2, <4>3
    <3> QED BY <2>4, <3>1, <3>2
  <2>10. Held(f, c)
    <3>1. 2 * Len(c) + 1 <= Len(f)
      BY <2>1, <2>4
    <3> QED BY <2>1, <2>9, <3>1 DEF Held
  <2> QED BY <2>3, <2>4, <2>10 DEF c
<1> HIDE DEF S
<1>3. Nat \subseteq S
  BY <1>1, <1>2, Induction!SetInduction
<1> QED BY <1>3 DEF S

LEMMA HeldReads ==
  ASSUME NEW f \in Seq(Unit), NEW c \in Chains, c # <<>>, Held(f, c)
  PROVE  Reads(f, Len(c)) /\ ChainAt(f, Len(c)) = c
<1>1. Len(c) \in Nat \ {0} /\ SubSeq(c, 1, Len(c)) = c
  BY SubSeqFull DEF Chains
<1>2. ASSUME NEW i \in 1..Len(c) PROVE ChainAt(f, i) = SubSeq(c, 1, i)
  <2>1. f[2 * i] = <<SubSeq(c, 1, i), 1>>
    BY DEF Held
  <2> QED BY <2>1 DEF ChainAt
<1>3. ASSUME NEW i \in 1..Len(c) PROVE FrameOk(f, i)
  <2> DEFINE d == SubSeq(c, 1, i)
  <2>1. d \in Chains /\ Len(d) = i /\ i \in Nat /\ i # 0
    BY <1>1 DEF Chains
  <2>2. ChainAt(f, i) = d
    BY <1>2
  <2>3. f[2 * i] = <<d, 1>> /\ f[2 * i + 1] = <<d, 2>>
    BY DEF Held
  <2>4. <<f[2 * i], f[2 * i + 1]>> = FrameOf(ChainAt(f, i))
    BY <2>2, <2>3 DEF FrameOf
  <2>5. d # <<>>
    BY <2>1
  <2>6. Front(d) = SubSeq(d, 1, i - 1) /\ Front(d) \in Chains /\ Len(Front(d)) = i - 1
    <3> HIDE DEF d
    <3> QED BY <2>1, <2>5, FrontIs
  <2>7. Front(d) = (IF i = 1 THEN <<>> ELSE ChainAt(f, i - 1))
    <3>1. CASE i = 1
      <4>1. Len(Front(d)) = 0
        BY <2>6, <3>1
      <4> QED BY <2>6, <3>1, <4>1 DEF Chains
    <3>2. CASE i # 1
      <4>1. /\ 1 \in 1..Len(c) /\ i \in 1..Len(c) /\ 1 \in 1..(i - 1 + 1) /\ i - 1 \in 1..(i - 1 + 1)
            /\ 1 + 1 - 1 = 1 /\ 1 + (i - 1) - 1 = i - 1 /\ i - 1 \in 1..Len(c)
        BY <1>1, <2>1, <3>2
      <4>2. SubSeq(SubSeq(c, 1, i), 1, i - 1) = SubSeq(c, 1 + 1 - 1, 1 + (i - 1) - 1)
        BY <4>1, SubSeqOfSubSeq DEF Chains
      <4>3. ChainAt(f, i - 1) = SubSeq(c, 1, i - 1)
        BY <1>2, <4>1
      <4> QED BY <2>6, <3>2, <4>1, <4>2, <4>3
    <3> QED BY <3>1, <3>2
  <2> QED BY <2>1, <2>2, <2>4, <2>7 DEF FrameOk
<1> QED BY <1>1, <1>2, <1>3 DEF Reads, Held

(* A prefix of whole frames is readable just when its frames read. *)
LEMMA PrefixReads ==
  ASSUME NEW f \in Seq(Unit), NEW k \in Nat, k # 0, 2 * k + 1 <= Len(f)
  PROVE  Readable(SubSeq(f, 1, 2 * k + 1)) <=> Reads(f, k)
<1> DEFINE m == 2 * k + 1
           g == SubSeq(f, 1, m)
<1>1. m \in Nat /\ m <= Len(f) /\ Len(f) \in Nat
  OBVIOUS
<1>2. g = [i \in 1..m |-> f[i]]
  BY <1>1
<1> HIDE DEF g
<1>3. Len(g) = 2 * k + 1 /\ \A i \in 1..(2 * k + 1) : g[i] = f[i]
  <2> HIDE DEF m
  <2>1. Len(g) = m /\ \A i \in 1..m : g[i] = f[i]
    BY <1>1, <1>2
  <2> QED BY <2>1 DEF m
<1>4. Len(g) \div 2 = k /\ Len(g) % 2 = 1
  BY <1>3, Halves
<1>5. Frames(g) = k
  BY <1>4 DEF Frames
<1>6. g # <<>>
  BY <1>3
<1>7. ASSUME NEW i \in 1..k PROVE ChainAt(g, i) = ChainAt(f, i) /\ g[2 * i] = f[2 * i] /\ g[2 * i + 1] = f[2 * i + 1]
  BY <1>3 DEF ChainAt
<1>8. ASSUME NEW i \in 1..k, i # 1 PROVE i - 1 \in 1..k
  BY <1>8
<1>9. g[1] = f[1]
  BY <1>3
<1>10. (\A i \in 1..k : FrameOk(g, i)) <=> (\A i \in 1..k : FrameOk(f, i))
  BY <1>7, <1>8 DEF FrameOk
<1>11. Readable(g) <=> (g[1] = Magic /\ \A i \in 1..k : FrameOk(g, i))
  BY <1>4, <1>5, <1>6 DEF Readable, FrameOk
<1> QED BY <1>9, <1>10, <1>11 DEF Reads, g

LEMMA ReadsLess ==
  ASSUME NEW f \in Seq(Unit), NEW k \in Nat, NEW i \in 1..k, Reads(f, k)
  PROVE  Reads(f, i)
<1>1. 2 * i + 1 <= Len(f)
  BY DEF Reads
<1>2. \A j \in 1..i : j \in 1..k
  OBVIOUS
<1> QED BY <1>1, <1>2 DEF Reads

(* There is a last frame that reads, and it ends the entries. *)
LEMMA LastFrame ==
  ASSUME NEW f \in Seq(Unit)
  PROVE  \E m \in Nat : /\ \A k \in Nat \ {0} : Reads(f, k) <=> k <= m
                        /\ Entries(f) = IF m = 0 THEN <<>> ELSE ChainAt(f, m)
<1> DEFINE B == {j \in Nat : ~Reads(f, j + 1)}
<1>1. Len(f) \in Nat
  OBVIOUS
<1>2. Len(f) \in B
  BY <1>1 DEF Reads
<1>3. PICK m \in B : \A n \in B : m <= n
  <2>1. B \subseteq Nat /\ B # {}
    BY <1>2
  <2> HIDE DEF B
  <2> QED BY <2>1, Induction!Least
<1>4. m \in Nat /\ ~Reads(f, m + 1)
  BY <1>3
<1>5. ASSUME NEW k \in Nat \ {0} PROVE Reads(f, k) <=> k <= m
  <2>1. ASSUME k <= m PROVE Reads(f, k)
    <3>1. k - 1 \in Nat /\ ~(m <= k - 1) /\ k - 1 + 1 = k
      BY <1>4, <2>1
    <3>2. k - 1 \notin B
      BY <1>3, <3>1
    <3> QED BY <3>1, <3>2
  <2>2. ASSUME Reads(f, k), ~(k <= m) PROVE FALSE
    <3>1. m + 1 \in 1..k
      BY <1>4, <2>2
    <3> QED BY <1>4, <2>2, <3>1, ReadsLess
  <2> QED BY <2>1, <2>2
<1>6. WholeFrames(f) = 1..m
  <2>1. ASSUME NEW k \in WholeFrames(f) PROVE k \in 1..m
    <3>1. /\ Frames(f) \in Nat /\ k \in 1..Frames(f) /\ 2 * k < Len(f)
          /\ Readable(SubSeq(f, 1, 2 * k + 1))
      BY <1>1, Halves DEF WholeFrames, Frames
    <3>2. k \in Nat \ {0} /\ 2 * k + 1 <= Len(f)
      BY <1>1, <3>1
    <3>3. Reads(f, k)
      BY <3>1, <3>2, PrefixReads
    <3> QED BY <1>4, <1>5, <3>2, <3>3
  <2>2. ASSUME NEW k \in 1..m PROVE k \in WholeFrames(f)
    <3>1. k \in Nat \ {0} /\ k <= m
      BY <1>4
    <3>2. Reads(f, k)
      BY <1>5, <3>1
    <3>3. 2 * k + 1 <= Len(f)
      BY <3>2 DEF Reads
    <3>4. k \in 1..(Len(f) \div 2)
      BY <1>1, <3>1, <3>3
    <3>5. 2 * k < Len(f)
      BY <1>1, <3>1, <3>3
    <3>6. Readable(SubSeq(f, 1, 2 * k + 1))
      BY <3>1, <3>2, <3>3, PrefixReads
    <3> QED BY <3>4, <3>5, <3>6 DEF WholeFrames, Frames
  <2> QED BY <2>1, <2>2
<1>7. Cardinality(1..m) = m
  <2>1. 1 \in Int /\ m \in Int
    BY <1>4
  <2>2. Cardinality(1..m) = IF 1 > m THEN 0 ELSE m - 1 + 1
    BY <2>1, FS_Interval
  <2>3. CASE m = 0
    BY <2>2, <2>3
  <2>4. CASE m # 0
    BY <1>4, <2>2, <2>4
  <2> QED BY <2>3, <2>4
<1>8. Entries(f) = IF m = 0 THEN <<>> ELSE ChainAt(f, m)
  BY <1>6, <1>7 DEF Entries
<1> HIDE DEF B
<1> QED BY <1>4, <1>5, <1>8

(* The entries of a file: the longest chain it begins with. *)
LEMMA EntriesHeld ==
  ASSUME NEW f \in Seq(Unit)
  PROVE  /\ Entries(f) \in Chains /\ Len(Entries(f)) \in Nat
         /\ Entries(f) # <<>> => Held(f, Entries(f))
         /\ \A c \in Chains : c # <<>> /\ Held(f, c) =>
              Len(c) <= Len(Entries(f)) /\ (Len(c) = Len(Entries(f)) => c = Entries(f))
<1>1. PICK m \in Nat : /\ \A k \in Nat \ {0} : Reads(f, k) <=> k <= m
                       /\ Entries(f) = IF m = 0 THEN <<>> ELSE ChainAt(f, m)
  BY LastFrame
<1>2. /\ Entries(f) \in Chains /\ Len(Entries(f)) = m
      /\ Entries(f) # <<>> => Held(f, Entries(f))
  <2>1. CASE m = 0
    BY <1>1, <2>1 DEF Chains
  <2>2. CASE m # 0
    <3>1. Reads(f, m) /\ Entries(f) = ChainAt(f, m)
      BY <1>1, <2>2
    <3> QED BY <2>2, <3>1, ReadsHeld
  <2> QED BY <2>1, <2>2
<1>3. ASSUME NEW c \in Chains, c # <<>>, Held(f, c)
      PROVE  Len(c) <= m /\ (Len(c) = m => c = Entries(f))
  <2>1. Reads(f, Len(c)) /\ ChainAt(f, Len(c)) = c
    BY <1>3, HeldReads
  <2>2. Len(c) \in Nat \ {0}
    BY <1>3 DEF Chains
  <2>3. Len(c) <= m
    BY <1>1, <2>1, <2>2
  <2> QED BY <1>1, <2>1, <2>2, <2>3
<1> QED BY <1>2, <1>3

(* A file with nothing to hold. *)
LEMMA EmptyEntries ==
  ASSUME NEW f \in Seq(Unit), Len(f) < 3
  PROVE  Entries(f) = <<>>
<1>1. SUFFICES ASSUME Entries(f) # <<>> PROVE FALSE
  OBVIOUS
<1>2. Held(f, Entries(f)) /\ Entries(f) \in Chains
  BY <1>1, EntriesHeld
<1>3. 2 * Len(Entries(f)) + 1 <= Len(f) /\ Len(Entries(f)) \in Nat \ {0}
  BY <1>1, <1>2 DEF Held, Chains
<1> QED BY <1>3

(* What follows the frames of a chain, short of another frame, is no entry. *)
LEMMA HalfWritten ==
  ASSUME NEW f \in Seq(Unit), NEW c \in Chains, c # <<>> => Held(f, c), Len(f) < 2 * Len(c) + 3
  PROVE  Entries(f) = c
<1>1. CASE c = <<>>
  <2>1. Len(f) < 3
    BY <1>1
  <2> QED BY <1>1, <2>1, EmptyEntries
<1>2. CASE c # <<>>
  <2> DEFINE e == Entries(f)
  <2>1. /\ e \in Chains /\ Len(e) \in Nat /\ Len(c) <= Len(e) /\ (Len(c) = Len(e) => c = e)
        /\ e # <<>> => Held(f, e)
    BY <1>2, EntriesHeld
  <2>2. Len(c) \in Nat \ {0} /\ Len(f) \in Nat
    BY <1>2 DEF Chains
  <2> HIDE DEF e
  <2>3. e # <<>>
    BY <2>1, <2>2
  <2>4. 2 * Len(e) + 1 <= Len(f)
    BY <2>1, <2>3 DEF Held
  <2>5. Len(c) = Len(e)
    BY <2>1, <2>2, <2>4
  <2> QED BY <2>1, <2>5 DEF e
<1> QED BY <1>1, <1>2

LEMMA Exact ==
  ASSUME NEW f \in Seq(Unit), NEW c \in Chains, Held(f, c), Len(f) = 2 * Len(c) + 1
  PROVE  Readable(f) /\ Entries(f) = c
<1>1. Len(c) \in Nat /\ Len(f) \in Nat
  BY DEF Chains
<1>2. Entries(f) = c
  BY <1>1, HalfWritten
<1>3. Len(f) \div 2 = Len(c) /\ Len(f) % 2 = 1
  BY <1>1, Halves
<1>4. f # <<>> /\ f[1] = Magic
  BY <1>1 DEF Held
<1>5. \A k \in 1..Len(c) : FrameOk(f, k)
  <2>1. CASE c = <<>>
    BY <2>1
  <2>2. CASE c # <<>>
    BY <2>2, HeldReads DEF Reads
  <2> QED BY <2>1, <2>2
<1> QED BY <1>2, <1>3, <1>4, <1>5 DEF Readable, FrameOk, Frames

-----------------------------------------------------------------------------
(* The file implements the port the coordinator relies on.  The log is     *)
(* torn only where nobody is writing it: who writes holds the lock, and    *)
(* nobody else scans.                                                      *)

Torn == ~Readable(file) /\ ~Writing
PortStep == [Port!Next]_(Port!vars)

LEMMA PortInit == Init => Port!Init
<1> SUFFICES ASSUME Init PROVE Port!Init
  OBVIOUS
<1>1. file = <<>> /\ acked = {}
  BY DEF Init
<1>2. Entries(<<>>) = <<>>
  <2>1. <<>> \in Seq(Unit) /\ Len(<<>>) < 3
    OBVIOUS
  <2> QED BY <2>1, EmptyEntries
<1>3. Readable(<<>>)
  BY DEF Readable
<1> QED BY <1>1, <1>2, <1>3 DEF Port!Init

LEMMA PortStutters ==
  ASSUME UNCHANGED acked, Entries(file') = Entries(file), Torn <=> Torn'
  PROVE  PortStep
BY DEF PortStep, Port!vars, Torn

LEMMA PortTears ==
  ASSUME UNCHANGED <<file, acked>>, Torn'
  PROVE  PortStep
BY DEF PortStep, Port!Next, Port!Tear, Torn

(* A step that leaves the file alone can only tear the log. *)
LEMMA Unheard ==
  ASSUME FileInv, NEW p \in Processes, NEW to \in Pcs, Goto(p, to), UNCHANGED <<file, acked>>,
         to # "write" \/ Readable(file)
  PROVE  PortStep
<1>1. Torn => Torn'
  <2>1. CASE Readable(file)
    BY <2>1 DEF Torn
  <2>2. CASE to # "write"
    <3>1. \A q \in Processes : pc'[q] = pc[q] \/ pc'[q] = to
      BY DEF FileInv, CallsTyped, Goto
    <3>2. Writing' => Writing
      BY <2>2, <3>1 DEF Writing
    <3> QED BY <3>2 DEF Torn
  <2> QED BY <2>1, <2>2
<1>2. CASE Torn'
  BY <1>2, PortTears
<1>3. CASE ~Torn'
  <2>1. Torn <=> Torn'
    BY <1>1, <1>3
  <2> QED BY <2>1, PortStutters
<1> QED BY <1>2, <1>3

LEMMA UnheardSteps ==
  ASSUME FileInv, NEW p \in Processes,
         \/ Call(p) \/ Lock(p) \/ Scan(p) \/ WriteFails(p) \/ Fsync(p) \/ FsyncFails(p)
         \/ FsyncDir(p) \/ FsyncDirFails(p) \/ CloseFails(p) \/ Leave(p) \/ Crash(p)
  PROVE  PortStep
<1>1. {"flock", "scan", "fail", "fsync-dir", "close", "idle", "write"} \subseteq Pcs
  BY DEF Pcs, Locked
<1>2. ASSUME NEW to \in {"flock", "scan", "fail", "fsync-dir", "close", "idle"}, Goto(p, to),
             UNCHANGED <<file, acked>>
      PROVE  PortStep
  BY <1>1, <1>2, Unheard
<1>3. CASE Scan(p)
  <2> DEFINE write == /\ Appendable(file, want[p].tail)
                      /\ want[p].payload # None
                      /\ Len(file \o Addition(file, Append(want[p].tail, want[p].payload))) <= LogCap
  <2>1. Goto(p, IF write THEN "write" ELSE "fail") /\ UNCHANGED <<file, acked>>
    BY <1>3 DEF Scan, disk
  <2>2. write => Readable(file)
    BY DEF Appendable
  <2> HIDE DEF write
  <2>3. CASE write
    <3>1. Goto(p, "write")
      BY <2>1, <2>3
    <3> QED BY <1>1, <2>1, <2>2, <2>3, <3>1, Unheard
  <2>4. CASE ~write
    <3>1. Goto(p, "fail")
      BY <2>1, <2>4
    <3> QED BY <1>2, <2>1, <3>1
  <2> QED BY <2>3, <2>4
<1>4. CASE Call(p)
  BY <1>2, <1>4 DEF Call, disk
<1>5. CASE Lock(p)
  BY <1>2, <1>5 DEF Lock, disk
<1>6. CASE WriteFails(p)
  BY <1>2, <1>6 DEF WriteFails, disk
<1>7. CASE Fsync(p)
  BY <1>2, <1>7 DEF Fsync
<1>8. CASE FsyncFails(p)
  BY <1>2, <1>8 DEF FsyncFails
<1>9. CASE FsyncDir(p)
  BY <1>2, <1>9 DEF FsyncDir
<1>10. CASE FsyncDirFails(p)
  BY <1>2, <1>10 DEF FsyncDirFails, disk
<1>11. CASE CloseFails(p)
  BY <1>2, <1>11 DEF CloseFails, disk
<1>12. CASE Leave(p)
  BY <1>2, <1>12 DEF Leave, disk
<1>13. CASE Crash(p)
  BY <1>2, <1>13 DEF Crash, disk
<1> QED BY <1>3, <1>4, <1>5, <1>6, <1>7, <1>8, <1>9, <1>10, <1>11, <1>12, <1>13

(* The last unit of a frame adds its payload to the log. *)
LEMMA WriteAdds ==
  ASSUME FileInv, NEW p \in Processes, NEW n \in DOMAIN rest[p], Write(p, n)
  PROVE  PortStep
<1> DEFINE head == SubSeq(rest[p], 1, n)
           tail == want[p].tail
           to == IF n = Len(rest[p]) THEN "fsync" ELSE "write"
<1>1. /\ pc[p] = "write" /\ file' = file \o head /\ Goto(p, to) /\ UNCHANGED acked
  BY DEF Write
<1>2. pc[p] \in Working
  BY <1>1 DEF Working
<1>3. /\ WorkOk(p) /\ Written(p) \in Chains /\ file \in Seq(Unit) /\ rest[p] \in Seq(Unit)
      /\ Len(Written(p)) = Len(tail) + 1 /\ Len(tail) \in Nat
  BY <1>2, HolderKnows
<1>4. n \in 1..Len(rest[p]) /\ Len(rest[p]) \in Nat /\ Len(file) \in Nat
  BY <1>3
<1>5. head \in Seq(Unit) /\ (n = Len(rest[p]) => file \o head = file \o rest[p])
  BY <1>3, <1>4, WrittenSome
<1>6. Len(head) = n
  BY <1>3, <1>4
<1>7. pc' = [pc EXCEPT ![p] = to] /\ pc \in [Processes -> Pcs]
  BY <1>1 DEF Goto, FileInv, CallsTyped
<1> HIDE DEF head
<1>8. /\ file' \in Seq(Unit) /\ Len(file') = Len(file) + n
      /\ Len(file \o rest[p]) = Len(file) + Len(rest[p])
  BY <1>1, <1>3, <1>5, <1>6, Places
<1>9. Len(file) + Len(rest[p]) = 2 * Len(tail) + 3
  <2>1. Len(file \o rest[p]) = 2 * Len(Written(p)) + 1
    BY <1>3 DEF WorkOk
  <2> QED BY <1>3, <1>8, <2>1
<1>10. tail \in Chains /\ (tail # <<>> => Held(file, tail) /\ Held(file', tail))
  <2>1. tail \in acked \cup {<<>>} /\ tail \in Chains
    BY DEF FileInv, CallOk, CallsTyped, Wanted
  <2>2. tail # <<>> => Held(file, tail)
    BY <2>1 DEF FileInv, AckedOk
  <2> HIDE DEF tail
  <2> QED BY <1>1, <1>3, <1>5, <2>1, <2>2, HeldLonger
<1>11. Entries(file) = tail
  <2>1. Len(file) < 2 * Len(tail) + 3
    BY <1>3, <1>4, <1>9
  <2> HIDE DEF tail
  <2> QED BY <1>3, <1>10, <2>1, HalfWritten
<1>12. ~Torn
  BY <1>1 DEF Torn, Writing
<1>13. CASE n # Len(rest[p])
  <2>1. Entries(file') = tail
    <3>1. Len(file') < 2 * Len(tail) + 3
      BY <1>3, <1>4, <1>8, <1>9, <1>13
    <3> HIDE DEF tail
    <3> QED BY <1>8, <1>10, <3>1, HalfWritten
  <2>2. ~Torn'
    <3>1. to = "write"
      BY <1>13
    <3>2. pc'[p] = "write"
      BY <1>7, <3>1
    <3> QED BY <3>2 DEF Torn, Writing
  <2> QED BY <1>1, <1>11, <1>12, <2>1, <2>2, PortStutters
<1>14. CASE n = Len(rest[p])
  <2>1. Held(file', Written(p)) /\ Len(file') = 2 * Len(Written(p)) + 1
    BY <1>1, <1>3, <1>5, <1>14 DEF WorkOk
  <2>2. Readable(file') /\ Entries(file') = Written(p)
    BY <1>3, <1>8, <2>1, Exact
  <2>3. ~Torn'
    BY <2>2 DEF Torn
  <2>4. Written(p) = Append(tail, want[p].payload) /\ want[p].payload \in Payloads
    BY <1>3 DEF Written, WorkOk
  <2>5. Port!Add(want[p].payload)
    BY <1>1, <1>11, <1>12, <2>2, <2>3, <2>4 DEF Port!Add, Torn
  <2> QED BY <2>4, <2>5 DEF PortStep, Port!Next
<1> QED BY <1>13, <1>14

LEMMA CloseAcknowledges ==
  ASSUME FileInv, NEW p \in Processes, Close(p)
  PROVE  PortStep
<1>1. /\ pc[p] = "close" /\ acked' = acked \cup {Written(p)} /\ UNCHANGED file
  BY DEF Close, disk, Written
<1>2. pc[p] \in Working
  BY <1>1 DEF Working
<1>3. /\ WorkOk(p) /\ Written(p) \in Chains /\ Written(p) # <<>> /\ file \in Seq(Unit)
      /\ file \o rest[p] = file
  BY <1>1, <1>2, HolderKnows
<1>4. Readable(file) /\ Entries(file) = Written(p)
  BY <1>3, Exact DEF WorkOk
<1>5. ~Torn /\ ~Torn'
  BY <1>1, <1>4 DEF Torn
<1>6. Port!Acknowledge
  BY <1>1, <1>3, <1>4, <1>5 DEF Port!Acknowledge, Torn
<1> QED BY <1>6 DEF PortStep, Port!Next

(* The disk invents no frames: what a power cut leaves of the log is a     *)
(* beginning of it, and it leaves what was acknowledged.                   *)
LEMMA PowerCutTakesBack ==
  ASSUME FileInv, PowerCut
  PROVE  PortStep
<1> DEFINE before == Entries(file)
           after == Entries(file')
<1>1. FileInv'
  BY PowerCutPreserves
<1>2. /\ file \in Seq(Unit) /\ file' \in Seq(Unit) /\ Len(file) \in Nat /\ Len(file') \in Nat
      /\ acked' = acked
  BY <1>1 DEF FileInv, DiskTyped, PowerCut
<1>3. PICK e : e = Entries(file')
  OBVIOUS
<1>4. e \in Chains /\ Len(e) \in Nat /\ (e # <<>> => Held(file', e))
  BY <1>2, <1>3, EntriesHeld
<1>5. /\ before \in Chains /\ Len(before) \in Nat /\ (before # <<>> => Held(file, before))
      /\ \A c \in Chains : c # <<>> /\ Held(file, c) => Len(c) <= Len(before)
  BY <1>2, EntriesHeld
<1>6. \A chain \in acked : Len(chain) <= Len(e)
  <2>1. \A chain \in acked : chain \in Chains /\ chain # <<>> /\ Held(file', chain)
    BY <1>1, <1>2 DEF FileInv, DiskTyped, AckedOk
  <2> QED BY <1>2, <1>3, <2>1, EntriesHeld
<1>7. Len(e) \in 0..Len(before) /\ e = SubSeq(before, 1, Len(e))
  <2> HIDE DEF before
  <2>1. CASE e = <<>>
    <3>1. Len(e) = 0
      BY <2>1
    <3>2. SubSeq(before, 1, 0) = <<>>
      BY <1>5 DEF Chains
    <3> QED BY <1>5, <2>1, <3>1, <3>2
  <2>2. CASE e # <<>>
    <3>1. Held(file', e) /\ Len(e) \in Nat \ {0} /\ 2 * Len(e) + 1 <= Len(file')
      BY <1>4, <2>2 DEF Chains, Held
    <3>2. PICK n \in 0..Len(file), kept \in SUBSET (1..Len(file)) :
            file' = [k \in 1..n |-> IF k \in kept THEN file[k] ELSE Zeros]
      <4>1. file' # <<>>
        BY <3>1
      <4>2. PICK n \in 0..Len(file) : \E kept \in SUBSET (1..n) :
              file' = [k \in 1..n |-> IF k \in kept THEN file[k] ELSE Zeros]
        BY <4>1 DEF PowerCut
      <4>3. SUBSET (1..n) \subseteq SUBSET (1..Len(file))
        BY <1>2
      <4> QED BY <4>2, <4>3
    <3>3. n \in Nat /\ n <= Len(file)
      BY <1>2, <3>2
    <3>4. Len(file') = n
      BY <3>2, <3>3
    <3>5. ASSUME NEW i \in 1..(2 * Len(e) + 1) PROVE file'[i] # Zeros
      <4>1. CASE i = 1
        BY <3>1, <4>1 DEF Held, Magic, Zeros
      <4>2. CASE i # 1
        <5>1. PICK k \in 1..Len(e) : i = 2 * k \/ i = 2 * k + 1
          <6>1. /\ i \div 2 \in 1..Len(e)
                /\ i = 2 * (i \div 2) \/ i = 2 * (i \div 2) + 1
            BY <3>1, <4>2
          <6> QED BY <6>1
        <5>2. file'[2 * k] = <<SubSeq(e, 1, k), 1>> /\ file'[2 * k + 1] = <<SubSeq(e, 1, k), 2>>
          BY <3>1 DEF Held
        <5>3. file'[i][2] \in {1, 2}
          <6>1. CASE i = 2 * k
            <7>1. file'[i][2] = 1
              BY <5>2, <6>1
            <7> QED BY <7>1
          <6>2. CASE i = 2 * k + 1
            <7>1. file'[i][2] = 2
              BY <5>2, <6>2
            <7> QED BY <7>1
          <6> QED BY <5>1, <6>1, <6>2
        <5>4. Zeros[2] = 9
          BY DEF Zeros
        <5> QED BY <5>3, <5>4
      <4> QED BY <4>1, <4>2
    <3>6. \A i \in 1..(2 * Len(e) + 1) : file[i] = file'[i]
      <4>1. \A i \in 1..(2 * Len(e) + 1) : i \in 1..n
        BY <3>1, <3>3, <3>4
      <4> QED BY <3>2, <3>5, <4>1
    <3>7. 2 * Len(e) + 1 <= Len(file)
      BY <1>2, <3>1, <3>3, <3>4
    <3>8. Held(file, e)
      BY <1>2, <1>4, <3>1, <3>6, <3>7, HeldSame
    <3>9. Len(e) <= Len(before) /\ Len(e) \in 1..Len(e) /\ Len(e) \in 1..Len(before)
      BY <1>4, <1>5, <2>2, <3>1, <3>8
    <3>10. before # <<>>
      BY <1>5, <3>9
    <3>11. file[2 * Len(e)] = <<SubSeq(before, 1, Len(e)), 1>>
      BY <1>5, <3>9, <3>10 DEF Held
    <3>12. file[2 * Len(e)] = <<SubSeq(e, 1, Len(e)), 1>>
      BY <3>8, <3>9 DEF Held
    <3>13. SubSeq(e, 1, Len(e)) = e
      BY <1>4, SubSeqFull DEF Chains
    <3> QED BY <1>5, <3>9, <3>11, <3>12, <3>13
  <2> QED BY <2>1, <2>2
<1>8. Port!TakeBack
  <2>1. Torn' \in BOOLEAN
    BY DEF Torn
  <2> QED BY <1>2, <1>3, <1>6, <1>7, <2>1 DEF Port!TakeBack, Torn
<1> QED BY <1>8 DEF PortStep, Port!Next

LEMMA PortStepped == FileInv /\ [Next]_vars => PortStep
<1> SUFFICES ASSUME FileInv, [Next]_vars PROVE PortStep
  OBVIOUS
<1>1. CASE UNCHANGED vars
  <2>1. UNCHANGED <<file, acked, pc>>
    BY <1>1 DEF vars
  <2>2. Torn <=> Torn'
    BY <2>1 DEF Torn, Writing
  <2> QED BY <2>1, <2>2, PortStutters
<1>2. ASSUME NEW p \in Processes, NEW n \in DOMAIN rest[p], Write(p, n) PROVE PortStep
  BY <1>2, WriteAdds
<1> QED BY <1>1, <1>2, UnheardSteps, CloseAcknowledges, PowerCutTakesBack DEF Next

(* The file is the append-only log of AppendOnlyLog: an append adds one    *)
(* entry whole or is torn, what is acknowledged is what the log ends with, *)
(* and nothing acknowledged is taken back, by a power cut either.          *)
THEOREM PortImplemented == Spec => ImplementsPort
<1>1. FileInv /\ [Next]_vars => [Port!Next]_(Port!vars)
  BY PortStepped DEF PortStep
<1> QED BY PortInit, <1>1, FileInvariant, PTL DEF Spec, ImplementsPort, Port!Spec
=============================================================================
