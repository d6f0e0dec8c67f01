--------------------------- MODULE MCGuardSession ---------------------------
(* Small instances of the guard: configurations, requests and contents that  *)
(* reach every branch.  A .cfg substitutes an alias for a constant: TLC       *)
(* evaluates the definition behind it once.                                  *)
EXTENDS GuardSession

Default == [auditOnly |-> FALSE, optedOut |-> {}, phrases |-> "monitor",
            redactSecrets |-> FALSE, secretEchoApplies |-> TRUE, binaryOk |-> FALSE,
            lock |-> TRUE, listOptedOut |-> FALSE,
            policy |-> TRUE, policyOptedOut |-> FALSE, strict |-> FALSE,
            strictFrameCap |-> FALSE, maxInflight |-> 2, stdio |-> TRUE]
Strict == [Default EXCEPT !.strict = TRUE, !.strictFrameCap = TRUE]
OneInFlight == [Default EXCEPT !.maxInflight = 1]

\* A denied call is forwarded in the strict mode here and withheld in the other;
\* a policy that raises aborts here and lets the call through there.
Modes == {[Strict EXCEPT !.policyOptedOut = TRUE], OneInFlight}
BothModes == Modes
StrictBoth == {[Strict EXCEPT !.stdio = s] : s \in BOOLEAN}

Call(v) == [method |-> "tools/call", verdict |-> v, overCap |-> FALSE]
List == [method |-> "tools/list", verdict |-> "permit", overCap |-> FALSE]
HugeCall == [Call("permit") EXCEPT !.overCap = TRUE]

SomeCalls == {Call("deny"), Call("raises"), HugeCall}
CallRequests == SomeCalls
ListRequests == {List}

Exfil == {[match |-> "domain", block |-> "text", in |-> "both"]}
SomeContents == {{}, Exfil}
CleanOrExfil == SomeContents
Clean == {{}}

\* Over streams a session differs in how it ends only: there the server writes
\* StreamFrames at most, fewer than on stdio.  No fair action reads a frame.
StreamFrames == 2
NextBothEnds == Next /\ (config.stdio \/ frames' = frames \/ frames < StreamFrames)
SpecBothEnds == Init /\ [][NextBothEnds]_vars /\ Fairness
=============================================================================
