---------------------------- MODULE EvidenceFile ----------------------------
(***************************************************************************)
(* FileEvidenceStoreV1 (receipt_log.py): a log of framed payloads in one   *)
(* file, read and appended to by several processes under an exclusive      *)
(* lock, on a machine that may lose power.                                 *)
(*                                                                         *)
(* The file is a sequence of units: the magic, then two units per frame    *)
(* (its length and its body).  A frame binds the chain before it, so a     *)
(* unit carries the chain that its frame ends.                             *)
(***************************************************************************)
EXTENDS Naturals, Sequences, FiniteSets, SequencesExt

CONSTANTS Processes,    \* processes that hold a store over the same path
          Payloads,     \* what is appended
          LogCap,       \* LOG_CAP, in units
          MaxCalls,     \* bound: calls of the store
          MaxFaults     \* bound: failing system calls, crashes and power cuts

ASSUME BoundsAreNumbers == LogCap \in Nat /\ MaxCalls \in Nat /\ MaxFaults \in Nat

None  == "none"
Magic == <<<<>>, 0>>
Zeros == <<<<>>, 9>>     \* a unit the disk never received

\* A frame in the file: the chain it ends, in two units.
FrameOf(chain) == <<<<chain, 1>>, <<chain, 2>>>>

VARIABLES file,      \* the file as processes see it
          durable,   \* positions of the file that are on the disk
          dropped,   \* positions a failed fsync gave up: no later one writes them
          linked,    \* the directory entry is on the disk
          pc,        \* where each process stands in _operation
          want,      \* the call it makes: payload and expected tail, payload None to read
          rest,      \* what it has still to write
          acked,     \* history: the chains whose append returned
          calls,
          faults

vars == <<file, durable, dropped, linked, pc, want, rest, acked, calls, faults>>
disk == <<file, durable, dropped, linked>>

-----------------------------------------------------------------------------
\* _scan, where the file is a sequence of frames each of which extends the one before.
ChainAt(f, k) == f[2 * k][1]
Frames(f) == Len(f) \div 2
Readable(f) ==
    \/ f = <<>>
    \/ /\ f[1] = Magic /\ Len(f) % 2 = 1
       /\ \A k \in 1..Frames(f) :
              /\ <<f[2 * k], f[2 * k + 1]>> = FrameOf(ChainAt(f, k))
              /\ Len(ChainAt(f, k)) = k
              /\ Front(ChainAt(f, k)) = (IF k = 1 THEN <<>> ELSE ChainAt(f, k - 1))
TailOf(f) == IF Frames(f) = 0 THEN <<>> ELSE ChainAt(f, Frames(f))

\* The log can be appended to by who expects this tail.
AppendableTorn(f, tail) == Len(f) <= LogCap /\ TailOf(f) = tail         \* mutant: chain not verified
Appendable(f, tail) == Readable(f) /\ Len(f) <= LogCap /\ TailOf(f) = tail

\* What an append adds to the file.
Addition(f, chain) == (IF f = <<>> THEN <<Magic>> ELSE <<>>) \o FrameOf(chain)

Idle(p) == pc[p] = "idle"
Goto(p, to) == pc' = [pc EXCEPT ![p] = to]
Locked == {"scan", "write", "fsync", "fsync-dir", "close", "fail"}
LockFree == \A p \in Processes : pc[p] \notin Locked
Fault == faults < MaxFaults /\ faults' = faults + 1

Init ==
    /\ file = <<>> /\ durable = {} /\ dropped = {} /\ linked = FALSE
    /\ pc = [p \in Processes |-> "idle"]
    /\ want = [p \in Processes |-> [payload |-> None, tail |-> <<>>]]
    /\ rest = [p \in Processes |-> <<>>]
    /\ acked = {} /\ calls = 0 /\ faults = 0

-----------------------------------------------------------------------------
(* One call of the store, from one system call to the next.                *)

\* The tail a caller expects is one it has been told of: the coordinator takes it from the
\* protected state, which holds acknowledged tails only.
Call(p) ==
    /\ Idle(p) /\ calls < MaxCalls
    /\ \E payload \in Payloads \cup {None}, tail \in acked \cup {<<>>} :
           want' = [want EXCEPT ![p] = [payload |-> payload, tail |-> tail]]
    /\ calls' = calls + 1
    /\ Goto(p, "flock")
    /\ UNCHANGED <<disk, rest, acked, faults>>

Lock(p) ==
    /\ pc[p] = "flock" /\ LockFree
    /\ Goto(p, "scan")
    /\ UNCHANGED <<disk, want, rest, acked, calls, faults>>

Scan(p) ==
    /\ pc[p] = "scan"
    /\ LET chain == Append(want[p].tail, want[p].payload)
           write == /\ Appendable(file, want[p].tail)
                    /\ want[p].payload # None
                    /\ Len(file \o Addition(file, chain)) <= LogCap
       IN  /\ rest' = [rest EXCEPT ![p] = IF write THEN Addition(file, chain) ELSE <<>>]
           /\ Goto(p, IF write THEN "write" ELSE "fail")
    /\ UNCHANGED <<disk, want, acked, calls, faults>>

\* os.write takes some of it.
Write(p, n) ==
    /\ pc[p] = "write"
    /\ file' = file \o SubSeq(rest[p], 1, n)
    /\ rest' = [rest EXCEPT ![p] = SubSeq(@, n + 1, Len(@))]
    /\ Goto(p, IF n = Len(rest[p]) THEN "fsync" ELSE "write")
    /\ UNCHANGED <<durable, dropped, linked, want, acked, calls, faults>>

WriteFails(p) ==
    /\ pc[p] = "write" /\ Fault
    /\ Goto(p, "fail")
    /\ UNCHANGED <<disk, want, rest, acked, calls>>

FsyncSkipped(p) ==                                                 \* mutant: no fsync
    /\ pc[p] = "fsync"
    /\ Goto(p, "fsync-dir")
    /\ UNCHANGED <<disk, want, rest, acked, calls, faults>>

Fsync(p) ==
    /\ pc[p] = "fsync"
    /\ durable' = DOMAIN file \ dropped
    /\ Goto(p, "fsync-dir")
    /\ UNCHANGED <<file, dropped, linked, want, rest, acked, calls, faults>>

\* A failing fsync leaves the pages to a later one, or gives them up for clean.
FsyncFails(p) ==
    /\ pc[p] = "fsync" /\ Fault
    /\ dropped' \in {dropped, DOMAIN file \ durable}
    /\ Goto(p, "fail")
    /\ UNCHANGED <<file, durable, linked, want, rest, acked, calls>>

FsyncDir(p) ==
    /\ pc[p] = "fsync-dir"
    /\ linked' = TRUE
    /\ Goto(p, "close")
    /\ UNCHANGED <<file, durable, dropped, want, rest, acked, calls, faults>>

FsyncDirFails(p) ==
    /\ pc[p] = "fsync-dir" /\ Fault
    /\ Goto(p, "fail")
    /\ UNCHANGED <<disk, want, rest, acked, calls>>

\* The last close releases the lock, and the caller is answered.
Close(p) ==
    /\ pc[p] = "close"
    /\ acked' = acked \cup {Append(want[p].tail, want[p].payload)}
    /\ Goto(p, "idle")
    /\ UNCHANGED <<disk, want, rest, calls, faults>>

CloseFails(p) ==
    /\ pc[p] = "close" /\ Fault
    /\ Goto(p, "idle")
    /\ UNCHANGED <<disk, want, rest, acked, calls>>

\* A read, or an error: the descriptors are closed and nothing has been promised.
Leave(p) ==
    /\ pc[p] = "fail"
    /\ rest' = [rest EXCEPT ![p] = <<>>]
    /\ Goto(p, "idle")
    /\ UNCHANGED <<disk, want, acked, calls, faults>>

Crash(p) ==
    /\ ~Idle(p) /\ Fault
    /\ rest' = [rest EXCEPT ![p] = <<>>]
    /\ Goto(p, "idle")
    /\ UNCHANGED <<disk, want, acked, calls>>

(***************************************************************************)
(* The file after a power cut: what was on the disk is there, what was not *)
(* may be there, may be zeros, or may be cut off.  Without its directory   *)
(* entry the file may be gone.                                             *)
(***************************************************************************)
PowerCut ==
    /\ Fault
    /\ \/ ~linked /\ file' = <<>> /\ durable' = {}
       \/ \E n \in 0..Len(file) : \E kept \in SUBSET (1..n) :
              /\ durable \subseteq kept
              /\ file' = [k \in 1..n |-> IF k \in kept THEN file[k] ELSE Zeros]
              /\ durable' = 1..n
    /\ dropped' = {}
    /\ linked' \in {linked, file' # <<>>}
    /\ pc' = [p \in Processes |-> "idle"]
    /\ rest' = [p \in Processes |-> <<>>]
    /\ UNCHANGED <<want, acked, calls>>

Next ==
    \/ \E p \in Processes :
           \/ Call(p) \/ Lock(p) \/ Scan(p)
           \/ \E n \in DOMAIN rest[p] : Write(p, n)
           \/ WriteFails(p) \/ Fsync(p) \/ FsyncFails(p) \/ FsyncDir(p) \/ FsyncDirFails(p)
           \/ Close(p) \/ CloseFails(p) \/ Leave(p) \/ Crash(p)
    \/ PowerCut

Spec == Init /\ [][Next]_vars

-----------------------------------------------------------------------------
Pcs == {"idle", "flock"} \cup Locked
Units == DOMAIN file

\* The state of the calls: only who still writes, or failed to, has something left to write.
TypeOK ==
    /\ pc \in [Processes -> Pcs]
    /\ \A p \in Processes : rest[p] = <<>> \/ pc[p] \in {"write", "fail"}
    /\ \A p \in Processes : want[p].payload \in Payloads \cup {None}
    /\ durable \subseteq Units /\ dropped \subseteq Units /\ linked \in BOOLEAN
    /\ calls \in 0..MaxCalls /\ faults \in 0..MaxFaults

\* What was acknowledged is on the disk with everything before it, and the file can be found
\* again: no failing call, crash or power cut, and no page given up by an fsync, takes it back; so
\* two callers were never told of two different entries at one place.  (With the types.)
AckedIsDurable ==
    /\ TypeOK
    /\ \A chain \in acked :
           /\ linked
           /\ 1..(2 * Len(chain) + 1) \subseteq durable
           /\ \A k \in 1..Len(chain) :
                  /\ file[2 * k] = <<SubSeq(chain, 1, k), 1>>
                  /\ file[2 * k + 1] = <<SubSeq(chain, 1, k), 2>>

Writing == \E p \in Processes : pc[p] = "write"

\* The port the coordinator relies on.
WholeFrames(f) == {k \in 1..Frames(f) : 2 * k < Len(f) /\ Readable(SubSeq(f, 1, 2 * k + 1))}
Entries(f) == LET n == Cardinality(WholeFrames(f)) IN IF n = 0 THEN <<>> ELSE ChainAt(f, n)
Port == INSTANCE AppendOnlyLog WITH
            entries <- Entries(file),
            torn    <- ~Readable(file) /\ ~Writing
ImplementsPort == Port!Spec
=============================================================================
