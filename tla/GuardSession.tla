---------------------------- MODULE GuardSession ----------------------------
(* The stdio proxy of `mcp-warden guard`: one event loop with a client->      *)
(* server pump and a server->client pump over a shared map of requests in     *)
(* flight, the drift gate, the watchers that cancel the pumps, and the        *)
(* teardown that follows (guard.py, guard_loop.py, guard_result.py,           *)
(* guard_lifecycle.py, guard_strict.py).                                      *)
(*                                                                            *)
(* A step of a pump runs from one await to the next.  A send through          *)
(* guard_io.wrap_send has two: the checkpoint, where a cancellation drops the *)
(* frame, and the write in a worker thread, which is shielded from it.        *)
(* Request ids are the positions of the requests in "asked": a client does    *)
(* not reuse an id.  Frames are whole; framing is a component of its own.     *)
EXTENDS GuardVerdict, Sequences, FiniteSets, SequencesExt

CONSTANTS Configs,      \* resolved configurations (GuardConfig)
          Requests,     \* the requests a client may send
          Contents,     \* the sets of marks a tools/call result may carry
          MaxRequests,  \* bound: requests of a session
          MaxFrames     \* bound: frames the server writes

Ids == 1..MaxRequests
Request == [method : {"tools/call", "tools/list", "other"},
            verdict : {"permit", "deny", "raises"}, overCap : BOOLEAN]

\* A session's configuration: the verdict's fields and the gates, the strict
\* modes, the size of the map of requests in flight, and whether the client side
\* is the process's own stdio or streams handed to run_guard_async.
GateConfig == [lock : BOOLEAN, listOptedOut : BOOLEAN,
               policy : BOOLEAN, policyOptedOut : BOOLEAN,
               strict : BOOLEAN, strictFrameCap : BOOLEAN,
               maxInflight : Nat, stdio : BOOLEAN]
IsConfig(c) ==
    /\ [f \in {"auditOnly", "optedOut", "phrases", "redactSecrets",
               "secretEchoApplies", "binaryOk"} |-> c[f]] \in VerdictConfig
    /\ [f \in {"lock", "listOptedOut", "policy", "policyOptedOut", "strict",
               "strictFrameCap", "maxInflight", "stdio"} |-> c[f]] \in GateConfig

ASSUME SessionConstants ==
    /\ \A c \in Configs : IsConfig(c)
    /\ Requests \subseteq Request
    /\ Contents \subseteq SUBSET Mark
    /\ MaxRequests \in Nat /\ MaxFrames \in Nat

\* A request frame over the cap, and one that is not a JSON object (a batch),
\* are forwarded without being read: "overCap" stands for both.

\* How a frame on the client's wire came about.  "raw" was inspected or needs
\* no inspection, "unchecked" failed inspection and passed with a note,
\* "overCap" passed because of its size, "unread" because it is no object or
\* has the method of a cancellation or of progress, "changed" because it has
\* the method list_changed, "bare" because its result is no object; "partial"
\* was cut by the server's end, "transport" and "aborted" are the guard's
\* -32002 and -32003.
Forms == {"raw", "unchecked", "overCap", "unread", "changed", "bare", "partial",
          "redacted", "blocked", "denied", "error", "transport", "aborted"}
Surfaces == {"pinned", "drifted"}
WireFrame == [id : Ids \cup {0}, form : Forms, marks : SUBSET Mark, surface : Surfaces]
Frame(i, form, marks, surface) == [id |-> i, form |-> form, marks |-> marks, surface |-> surface]
Blank(i, form) == Frame(i, form, {}, "pinned")
NoFrame == Blank(0, "raw")

VARIABLES
    config,     \* GuardConfig, fixed when the session starts
    inflight,   \* GuardState.inflight: requests awaiting a result, oldest first
    armed,      \* GuardState.list_changed_pending
    c2s, s2c,   \* the pumps: where each stands, and the client frame it sends
    chan,       \* _Channels: client_eof, client_pipe_broken
    phase,      \* where run_guard_async stands
    abort,      \* the first strict abort raised: [raised, id]
    fault,      \* some other exception left a pump
    child,      \* the server process: up or gone, by itself or by a signal
    client,     \* the client: does it still write, does it still read
    asked,      \* every request read from the client, in order
    reached,    \* the requests written to a living server
    frames,     \* frames read from the server; MaxFrames once its output was cut
    wire,       \* everything the client received, in order
    dropped     \* answers taken from the server and lost to a cancellation

guardVars == <<inflight, armed>>
endVars == <<phase, abort, fault>>
vars == <<config, inflight, armed, c2s, s2c, chan, phase, abort, fault, child,
          client, asked, reached, frames, wire, dropped>>

Places == {"read", "send", "write", "again", "drain", "ended"}
Pump == [at : Places, frame : WireFrame]
At(place) == [at |-> place, frame |-> NoFrame]
Sending(f) == [at |-> "send", frame |-> f]

TypeOK ==
    /\ config \in Configs
    /\ inflight \in Seq([id : Ids, method : {"tools/call", "tools/list", "other"}])
    /\ Len(inflight) <= config.maxInflight
    /\ armed \in BOOLEAN
    /\ c2s \in Pump /\ s2c \in Pump
    /\ chan \in [eof : BOOLEAN, pipeBroken : BOOLEAN]
    /\ phase \in {"running", "leaving", "grace", "term", "kill", "over", "crashed"}
    /\ abort \in [raised : BOOLEAN, id : Ids \cup {0}]
    /\ fault \in BOOLEAN
    /\ child \in {"up", "gone"}
    /\ client \in [writes : BOOLEAN, reads : BOOLEAN]
    /\ asked \in Seq(Requests) /\ Len(asked) <= MaxRequests
    /\ reached \subseteq Ids
    /\ frames \in 0..MaxFrames
    /\ wire \in Seq(WireFrame)
    /\ dropped \subseteq Ids

Init ==
    /\ config \in Configs
    /\ inflight = <<>> /\ armed = FALSE
    /\ c2s = At("read") /\ s2c = At("read")
    /\ chan = [eof |-> FALSE, pipeBroken |-> FALSE]
    /\ phase = "running"
    /\ abort = [raised |-> FALSE, id |-> 0] /\ fault = FALSE
    /\ child = "up" /\ client = [writes |-> TRUE, reads |-> TRUE]
    /\ asked = <<>> /\ reached = {} /\ frames = 0
    /\ wire = <<>> /\ dropped = {}

-----------------------------------------------------------------------------
(* The map of requests in flight (GuardState).                               *)

\* Mutant: the bound compared with >= before the entry is added, and so late.
RememberOneTooMany(i, method) ==
    IF Len(inflight) > config.maxInflight
    THEN Append(Tail(inflight), [id |-> i, method |-> method])
    ELSE Append(inflight, [id |-> i, method |-> method])

Remember(i, method) ==
    LET all == Append(inflight, [id |-> i, method |-> method])
    IN  IF Len(all) > config.maxInflight THEN Tail(all) ELSE all

Entry(i) == {n \in DOMAIN inflight : inflight[n].id = i}
MethodFor(i) == IF Entry(i) = {} THEN "unknown" ELSE inflight[CHOOSE n \in Entry(i) : TRUE].method

\* Mutant: correlation reads the entry and leaves it.
PeekedOnly(i) == inflight

Popped(i) == IF Entry(i) = {} THEN inflight ELSE RemoveAt(inflight, CHOOSE n \in Entry(i) : TRUE)

-----------------------------------------------------------------------------
(* What both pumps share.                                                    *)

\* A pump takes its next frame while the loop runs; once cancelled, only a
\* frame already buffered when a shielded write returns to it.
Reads(p) == \/ p.at = "read" /\ phase = "running"
            \/ p.at = "again" /\ phase = "leaving"

AfterWrite == At(IF phase = "leaving" THEN "again" ELSE "read")

\* A StrictInspectionAbort leaves the pump and cancels the group; of several,
\* the first is the one handled.
Raise(i) ==
    /\ phase' = "leaving"
    /\ abort' = IF abort.raised THEN abort ELSE [raised |-> TRUE, id |-> i]
    /\ UNCHANGED fault

-----------------------------------------------------------------------------
(* Client to server: _pump_client_to_server and handle_c2s.                  *)

Evaluated(r) == r.method = "tools/call" /\ config.policy /\ ~r.overCap
PolicyBlocks == config.policy /\ ~config.policyOptedOut /\ ~config.auditOnly

Withholds(r) == Evaluated(r) /\ r.verdict = "deny" /\ PolicyBlocks
Aborts(r) == Evaluated(r) /\ r.verdict = "raises" /\ config.strict

ReadRequest(r) ==
    LET i == Len(asked) + 1
    IN  /\ Reads(c2s) /\ client.writes /\ Len(asked) < MaxRequests
        /\ asked' = Append(asked, r)
        /\ inflight' = IF r.overCap THEN inflight ELSE Remember(i, r.method)
        /\ \/ /\ ~Withholds(r) /\ ~Aborts(r)
              /\ c2s' = At("drain")
              /\ reached' = IF child = "up" THEN reached \cup {i} ELSE reached
              /\ UNCHANGED endVars
           \/ /\ Withholds(r)
              /\ c2s' = Sending(Blank(i, "denied"))
              /\ UNCHANGED <<reached, endVars>>
           \/ /\ Aborts(r)
              /\ c2s' = At("ended")
              /\ Raise(i)
              /\ UNCHANGED reached
        /\ UNCHANGED <<config, armed, s2c, chan, child, client, frames, wire, dropped>>

\* server_stdin.send returns once the server has read enough.
Drained ==
    /\ c2s.at = "drain" /\ phase = "running" /\ child = "up"
    /\ c2s' = At("read")
    /\ UNCHANGED <<config, guardVars, s2c, chan, endVars, child, client, asked,
                   reached, frames, wire, dropped>>

\* The server's stdin broke: end of file for this direction.
DrainBreaks ==
    /\ c2s.at = "drain" /\ phase = "running" /\ child # "up"
    /\ c2s' = At("ended")
    /\ UNCHANGED <<config, guardVars, s2c, chan, endVars, child, client, asked,
                   reached, frames, wire, dropped>>


ClientEof ==
    /\ c2s.at = "read" /\ phase = "running" /\ ~client.writes
    /\ c2s' = At("ended")
    /\ chan' = [chan EXCEPT !.eof = TRUE]
    /\ UNCHANGED <<config, guardVars, s2c, endVars, child, client, asked,
                   reached, frames, wire, dropped>>

-----------------------------------------------------------------------------
(* Server to client: _pump_server_to_client, handle_s2c and the list gate.   *)
(* Frames still in the pipe are read after the child has exited, until the   *)
(* watcher cancels the pump.                                                 *)

TakeFrame ==
    /\ Reads(s2c) /\ frames < MaxFrames
    /\ frames' = frames + 1
    /\ UNCHANGED <<config, c2s, chan, child, client, asked, reached, wire>>

Forward(f) == s2c' = Sending(f) /\ UNCHANGED <<endVars, dropped>>

\* A strict abort in this pump: the frame is not forwarded, and if the other
\* pump's abort came first, the id this one carries is forgotten.
AbortAt(i) ==
    /\ s2c' = At("ended")
    /\ Raise(i)
    /\ dropped' = IF abort.raised THEN dropped \cup ({i} \ {0}) ELSE dropped

\* What a frame carries for the request it names, if it names one: an answer
\* to a call has marks, other answers do not.
Carries(i, marks) == marks # {} => i # 0 /\ asked[i].method = "tools/call"

\* The method decides before the id: a notification that also names a request
\* and holds a result is not looked up.
ReadListChanged(i, marks) ==
    /\ Carries(i, marks)
    /\ TakeFrame
    /\ armed' = TRUE
    /\ Forward(Frame(i, "changed", marks, "pinned"))
    /\ UNCHANGED inflight

\* Not an object (malformed JSON, a batch), or a method that always passes:
\* forwarded in every mode before anything is looked up.
ReadUnread(i, marks) ==
    /\ Carries(i, marks)
    /\ TakeFrame
    /\ Forward(Frame(i, "unread", marks, "pinned"))
    /\ UNCHANGED guardVars

\* Mutant: an error in answer to a list disarms the gate.
ErrorDisarms(i) ==
    /\ TakeFrame
    /\ Forward(Blank(i, "error"))
    /\ armed' = (armed /\ ~(MethodFor(i) = "tools/list" /\ config.lock))
    /\ UNCHANGED inflight

\* An error response has no result: forwarded without looking it up.
ReadError(i) ==
    /\ TakeFrame
    /\ Forward(Blank(i, "error"))
    /\ UNCHANGED guardVars

\* The server died in the middle of a frame: what it wrote of it does not parse,
\* and nothing follows.
ReadPartial(i, marks) ==
    /\ Carries(i, marks)
    /\ child # "up"
    /\ Reads(s2c) /\ frames < MaxFrames
    /\ frames' = MaxFrames
    /\ Forward(Frame(i, "partial", marks, "pinned"))
    /\ UNCHANGED <<config, guardVars, c2s, chan, child, client, asked, reached, wire>>

\* _handle_s2c_over_cap.
ReadOverCap(i, marks) ==
    /\ TakeFrame
    /\ IF config.strictFrameCap THEN AbortAt(0)
       ELSE Forward(Frame(i, "overCap", marks, "pinned"))
    /\ UNCHANGED guardVars

ListChangedEnabled == config.lock /\ ~config.listOptedOut /\ ~config.auditOnly

\* _handle_list_response: an armed gate is disarmed by the first answer it sees.
GateList(i, surface, raises) ==
    LET gated == armed /\ config.lock
        out(form) == Forward(Frame(i, form, {}, surface))
    IN  /\ armed' = (armed /\ ~gated)
        /\ IF gated /\ raises THEN IF config.strict THEN AbortAt(i) ELSE out("unchecked")
           ELSE IF gated /\ surface = "drifted" /\ ListChangedEnabled
                THEN Forward(Blank(i, "blocked"))
           ELSE out("raw")

\* Mutant: an inspection that raises fails open in every mode.
InspectFailsOpen(i, marks, raises) ==
    /\ UNCHANGED armed
    /\ Forward(IF raises THEN Frame(i, "unchecked", marks, "pinned")
               ELSE Frame(i, Treatment(config, marks), Delivered(config, marks), "pinned"))

\* The tools/call branch: inspect, then treat; an inspection that raises fails
\* open unless --strict.
InspectCall(i, marks, raises) ==
    /\ UNCHANGED armed
    /\ IF raises
       THEN IF config.strict THEN AbortAt(i)
            ELSE Forward(Frame(i, "unchecked", marks, "pinned"))
       ELSE Forward(Frame(i, Treatment(config, marks), Delivered(config, marks), "pinned"))

\* A result that is no object: the id leaves the map, an armed gate is disarmed
\* by such an answer to a list, and the frame passes.
ReadBare(i, marks) ==
    /\ Carries(i, marks)
    /\ TakeFrame
    /\ inflight' = Popped(i)
    /\ armed' = (armed /\ ~(MethodFor(i) = "tools/list" /\ config.lock))
    /\ Forward(Frame(i, "bare", marks, "pinned"))

ReadResult(i, marks, surface, raises) ==
    /\ Carries(i, marks)
    /\ surface = "drifted" => asked[i].method = "tools/list"
    /\ TakeFrame
    /\ inflight' = Popped(i)
    /\ \/ MethodFor(i) = "tools/list" /\ GateList(i, surface, raises)
       \/ MethodFor(i) = "tools/call" /\ InspectCall(i, marks, raises)
       \/ /\ MethodFor(i) \in {"other", "unknown"}
          /\ Forward(Frame(i, "raw", marks, surface))
          /\ UNCHANGED armed

\* read_frame found the end of the server's output, which a server may close
\* before it exits.
ServerEof ==
    /\ s2c.at = "read" /\ phase = "running"
    /\ s2c' = At("ended")
    /\ UNCHANGED <<config, guardVars, c2s, chan, endVars, child, client, asked,
                   reached, frames, wire, dropped>>

-----------------------------------------------------------------------------
(* client_stdout.send, for either pump.                                      *)

SendUnchanged == UNCHANGED <<config, guardVars, abort, child, client, asked, reached, frames>>

Dispatch ==
    /\ phase = "running"
    /\ \/ c2s.at = "send" /\ c2s' = [c2s EXCEPT !.at = "write"] /\ UNCHANGED s2c
       \/ s2c.at = "send" /\ s2c' = [s2c EXCEPT !.at = "write"] /\ UNCHANGED c2s
    /\ SendUnchanged /\ UNCHANGED <<chan, phase, fault, wire, dropped>>

Written ==
    /\ client.reads
    /\ \/ /\ c2s.at = "write"
          /\ wire' = Append(wire, c2s.frame) /\ c2s' = AfterWrite /\ UNCHANGED s2c
       \/ /\ s2c.at = "write"
          /\ wire' = Append(wire, s2c.frame) /\ s2c' = AfterWrite /\ UNCHANGED c2s
    /\ SendUnchanged /\ UNCHANGED <<chan, phase, fault, dropped>>

\* The client no longer reads.  On the process's own stdout the write raises
\* BrokenPipeError, which no handler of the pumps names; on a stream of anyio
\* BrokenResourceError, of which only the s2c pump tells the watcher.
WriteBreaks ==
    /\ ~client.reads
    /\ \/ c2s.at = "write" /\ c2s' = At("ended") /\ UNCHANGED s2c
       \/ s2c.at = "write" /\ s2c' = At("ended") /\ UNCHANGED c2s
    /\ \/ /\ config.stdio
          /\ fault' = TRUE /\ phase' = "leaving" /\ UNCHANGED chan
       \/ /\ ~config.stdio
          /\ chan' = IF s2c' # s2c THEN [chan EXCEPT !.pipeBroken = TRUE] ELSE chan
          /\ UNCHANGED <<fault, phase>>
    /\ SendUnchanged /\ UNCHANGED <<wire, dropped>>

-----------------------------------------------------------------------------
(* The watchers, the end of the task group, and the teardown.                *)

LeaveUnchanged == UNCHANGED <<config, chan, child, client, asked, reached, frames>>

\* _watch_child and _watch_client_eof cancel the group.
Cancel ==
    /\ phase = "running"
    /\ child # "up" \/ chan.eof \/ chan.pipeBroken
    /\ phase' = "leaving"
    /\ LeaveUnchanged /\ UNCHANGED <<guardVars, c2s, s2c, abort, fault, wire, dropped>>

\* A cancelled pump ends at its next await that is not shielded; an answer it
\* had taken from the server and not begun to write is lost.
PumpCancelled ==
    /\ phase = "leaving"
    /\ \/ /\ c2s.at \notin {"write", "ended"}
          /\ c2s' = At("ended")
          /\ UNCHANGED <<s2c, dropped>>
       \/ /\ s2c.at \notin {"write", "ended"}
          /\ s2c' = At("ended")
          /\ dropped' = IF s2c.at = "send" THEN dropped \cup ({s2c.frame.id} \ {0}) ELSE dropped
          /\ UNCHANGED c2s
    /\ LeaveUnchanged /\ UNCHANGED <<guardVars, endVars, wire>>

GroupLeft == phase = "leaving" /\ c2s.at = "ended" /\ s2c.at = "ended"

\* One error for each id, to a client that still reads.
Told(ids, form) == IF client.reads THEN wire \o [n \in DOMAIN ids |-> Blank(ids[n], form)]
                   ELSE wire
IdsOf(entries) == [n \in DOMAIN entries |-> entries[n].id]
InflightIds == IdsOf(inflight)

\* Mutant: only the ids still in flight.
AbortInflightOnly == InflightIds

\* The ids a strict abort answers: its own, then the others in flight.
AbortIds == (IF abort.id = 0 THEN <<>> ELSE <<abort.id>>) \o IdsOf(Popped(abort.id))

\* _handle_strict_abort, then teardown_child if the server still runs.
HandleAbort ==
    /\ GroupLeft /\ abort.raised
    /\ wire' = Told(AbortIds, "aborted")
    /\ inflight' = IF AbortIds = <<>> THEN inflight ELSE <<>>
    /\ phase' = IF child = "up" THEN "grace" ELSE "over"
    /\ LeaveUnchanged /\ UNCHANGED <<armed, c2s, s2c, abort, fault, dropped>>

\* Any other exception leaves run_guard_async as it came.
Reraise ==
    /\ GroupLeft /\ ~abort.raised /\ fault
    /\ phase' = "crashed"
    /\ LeaveUnchanged /\ UNCHANGED <<guardVars, c2s, s2c, abort, fault, wire, dropped>>

\* Mutant: only the end of input counts as a client gone.
GoneByEofOnly == chan.eof /\ child = "up"

ClientGone == (chan.eof \/ chan.pipeBroken) /\ child = "up"

TearDown ==
    /\ GroupLeft /\ ~abort.raised /\ ~fault /\ ClientGone
    /\ phase' = "grace"
    /\ LeaveUnchanged /\ UNCHANGED <<guardVars, c2s, s2c, abort, fault, wire, dropped>>

\* synthesize_pending_errors, and the server's own exit code.
AnswerPending ==
    /\ GroupLeft /\ ~abort.raised /\ ~fault /\ ~ClientGone
    /\ wire' = Told(InflightIds, "transport")
    /\ inflight' = <<>>
    /\ phase' = "over"
    /\ LeaveUnchanged /\ UNCHANGED <<armed, c2s, s2c, abort, fault, dropped>>

\* _teardown_posix: grace, SIGTERM, grace, SIGKILL.
GraceExpires ==
    /\ phase \in {"grace", "term"} /\ child = "up"
    /\ phase' = IF phase = "grace" THEN "term" ELSE "kill"
    /\ child' = IF phase = "grace" THEN "up" ELSE "gone"
    /\ UNCHANGED <<config, guardVars, c2s, s2c, chan, abort, fault, client, asked,
                   reached, frames, wire, dropped>>

Reaped ==
    /\ phase \in {"grace", "term", "kill"} /\ child # "up"
    /\ phase' = "over"
    /\ LeaveUnchanged /\ UNCHANGED <<guardVars, c2s, s2c, abort, fault, wire, dropped>>

\* The code run_guard_async returns: GUARD_STRICT_EXIT, or exit_code_for_child.
ExitCode == IF abort.raised THEN "strict" ELSE IF child = "up" THEN "transport" ELSE "child"

-----------------------------------------------------------------------------
(* The server process and the client.                                        *)

Over == phase \in {"over", "crashed"}

ChildExits ==
    /\ ~Over /\ child = "up"
    /\ child' = "gone"
    /\ UNCHANGED <<config, guardVars, c2s, s2c, chan, endVars, client, asked,
                   reached, frames, wire, dropped>>

ClientStops ==
    /\ ~Over
    /\ \/ client.writes /\ client' = [client EXCEPT !.writes = FALSE]
       \/ client.reads /\ client' = [client EXCEPT !.reads = FALSE]
    /\ UNCHANGED <<config, guardVars, c2s, s2c, chan, endVars, child, asked,
                   reached, frames, wire, dropped>>

Ended == Over /\ UNCHANGED vars

-----------------------------------------------------------------------------
\* The server answers requests it was sent, well or badly.
ServerFrame ==
    \/ ReadListChanged(0, {})
    \/ Reads(s2c) /\ \E i \in reached, marks \in Contents :
          \/ ReadError(i)
          \/ ReadOverCap(i, marks) \/ ReadUnread(i, marks) \/ ReadListChanged(i, marks)
          \/ ReadPartial(i, marks) \/ ReadBare(i, marks)
          \/ \E surface \in Surfaces, raises \in BOOLEAN :
                ReadResult(i, marks, surface, raises)

Pumping == \/ Reads(c2s) /\ \E r \in Requests : ReadRequest(r)
           \/ DrainBreaks \/ ClientEof
           \/ ServerFrame \/ ServerEof
           \/ Dispatch \/ WriteBreaks

Leaving == \/ Cancel \/ PumpCancelled
           \/ HandleAbort \/ Reraise \/ TearDown \/ AnswerPending
           \/ GraceExpires \/ Reaped

Next == Pumping \/ Drained \/ Written \/ Leaving \/ ChildExits \/ ClientStops \/ Ended

Spec == Init /\ [][Next]_vars

\* The loop runs what is ready and its timers fire.  Nothing obliges the server
\* to read its stdin (Drained) or the client to read its own (Written).
Fairness ==
    /\ WF_vars(DrainBreaks) /\ WF_vars(ClientEof)
    /\ WF_vars(child # "up" /\ ServerEof) /\ WF_vars(Dispatch) /\ WF_vars(WriteBreaks)
    /\ WF_vars(Leaving)

FairSpec == Spec /\ Fairness

-----------------------------------------------------------------------------
(* What the code keeps.                                                      *)

AskedIds == DOMAIN asked

\* At least max_inflight requests were recorded after i: only then can the
\* bound have evicted it.
Superseded(i) ==
    Cardinality({j \in AskedIds : j > i /\ ~asked[j].overCap}) >= config.maxInflight

\* When the session ends by itself or by a strict abort, a client that kept both
\* ends open has an answer to every request that was recorded and not evicted,
\* save one: at most one answer is lost between the map and the wire.
OnlyTheDroppedIsUnanswered ==
    /\ Cardinality(dropped) <= 1
    /\ phase = "over" /\ client.reads /\ (abort.raised \/ ~chan.eof) =>
         \A i \in AskedIds :
            \/ asked[i].overCap \/ Superseded(i) \/ i \in dropped
            \/ \E n \in DOMAIN wire : wire[n].id = i

\* Position n of the wire answers a request the guard could not correlate: not
\* read and so not recorded, evicted, or answered with a result before.
Uncorrelated(n) ==
    LET i == wire[n].id
    IN  \/ asked[i].overCap \/ Superseded(i)
        \/ \E k \in 1..(n - 1) :
              wire[k].id = i /\ wire[k].form \in {"raw", "unchecked", "bare", "redacted", "blocked"}

\* The frames no mode inspects whatever they hold: not a JSON object, or cut;
\* of a method that is not an answer's; or with a result that is no object.
NotAResult == {"unread", "partial", "changed", "bare"}

\* Content the configuration acts upon reaches the client other than in a
\* redacted answer in four ways only: in a frame that is not one with an object for a result; in
\* answer to a request that was not correlated; or where inspection could not be
\* done, or was not for the size, and the mode for that case fails open.
ActedUponUnlessUncorrelated ==
    \A n \in DOMAIN wire :
        wire[n].form # "redacted" /\ Treatment(config, wire[n].marks) # "raw" =>
            \/ wire[n].form \in NotAResult
            \/ wire[n].form = "raw" /\ Uncorrelated(n)
            \/ wire[n].form = "unchecked" /\ (Uncorrelated(n) \/ ~config.strict)
            \/ wire[n].form = "overCap" /\ (Uncorrelated(n) \/ ~config.strictFrameCap)

GateOn == ListChangedEnabled
IsList(n) == wire[n].id # 0 /\ asked[wire[n].id].method = "tools/list"

\* A drifted tool list that reaches the client as a result, raw, after a
\* list_changed is never the first correlated list answer since: that one was
\* compared with the lock, or had nothing to compare.
FirstListIsGated ==
    GateOn => \A k, n \in DOMAIN wire :
        k < n /\ wire[k].form = "changed" /\ IsList(n)
        /\ wire[n].form = "raw" /\ wire[n].surface = "drifted" =>
            \/ Uncorrelated(n)
            \/ \E m \in (k + 1)..(n - 1) :
                  IsList(m) /\ wire[m].form \in {"raw", "unchecked", "bare", "blocked"}

\* The guard answers in the server's place only where no result was correlated:
\* what it answers twice was an error, a refusal, or a frame it did not read.
NoResultAnsweredTwice ==
    \A k, n \in DOMAIN wire :
        k < n /\ wire[k].id = wire[n].id /\ wire[n].form \in {"transport", "aborted"}
        => wire[k].form \in {"error", "denied", "overCap", "unread", "changed", "partial"}

\* No server outlives a session that ended in order.
NoOrphan == phase = "over" => child # "up"

\* A pump waits for a peer: in a send to a server that does not read, or in a
\* shielded write to a client that does not.
BlockedOnPeer ==
    \/ c2s.at = "drain" /\ phase = "running" /\ child = "up"
    \/ client.reads /\ "write" \in {c2s.at, s2c.at}


-----------------------------------------------------------------------------
(* What the documents say and the code does not keep.                        *)

\* "the inflight map holds the genuinely-pending ids".
SynthesisOnlyForPending ==
    \A n \in DOMAIN wire : wire[n].form = "transport" =>
        \A k \in 1..(n - 1) : wire[k].id # wire[n].id

\* "synthesize a -32002 error for every pending id ... No hung client", and for
\* a strict abort "to every in-flight request id ... so the client never hangs".
NoHungClient ==
    phase = "over" /\ client.reads /\ client.writes =>
        \A i \in AskedIds : asked[i].overCap \/ Superseded(i)
                             \/ \E n \in DOMAIN wire : wire[n].id = i

\* "so the client never sees the rug-pulled surface".
DriftNeverIngested ==
    GateOn => \A k, n \in DOMAIN wire :
        k < n /\ wire[k].form = "changed" /\ wire[n].surface = "drifted" =>
            wire[n].form # "raw" \/ Uncorrelated(n)

\* "The client closes its end (EOF on guard's stdin) or the client-facing pipe
\* breaks": "Tear down the child via its process group" (docs/GUARD_PROXY_V3.md).
\* Here of a client that did both.
GoneClientTearsDown == (~client.writes /\ ~client.reads) ~> child # "up"

\* "that partial frame is discarded".
NoPartialForwarded == \A n \in DOMAIN wire : wire[n].form # "partial"

\* "broken-pipe is a clean teardown, not a crash".
BrokenPipeIsTeardown == phase = "crashed" => client.reads

\* "Exit cleanly with the child's exit code if it exited in grace, else a guard
\* transport exit".
KilledMeansTransport ==
    [][phase = "kill" /\ phase' = "over" /\ ~abort.raised => ExitCode' = "transport"]_vars
=============================================================================
