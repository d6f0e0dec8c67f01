------------------------------- MODULE Framing -------------------------------
(***************************************************************************)
(* One direction of the guard's stdio (framing.py, and the size test of    *)
(* the pump that reads it, guard.py).  A peer writes messages in newline   *)
(* or in Content-Length framing, the pipe delivers them in pieces of any   *)
(* size, and FrameReader cuts what has arrived into frames.                *)
(*                                                                         *)
(* Bytes are tokens <<kind, n>>: a piece of text, a blank, a line end, or  *)
(* a Content-Length line with its value.  A token arrives in one piece,    *)
(* and sizes are counted in tokens.                                        *)
(***************************************************************************)
EXTENDS Naturals, Sequences, SequencesExt

CONSTANTS Bodies,       \* JSON bodies a peer may send: sequences of tokens
          Noise,        \* what it may send between messages: whole header blocks, blank lines
          Cap,          \* max_frame_bytes
          Window,       \* bytes looked at to detect the mode
          MaxMessages,  \* bound: messages written
          MaxNoise      \* bound: pieces of noise written

ASSUME BoundsAreNumbers ==
    /\ Cap \in Nat /\ Window \in Nat \ {0} /\ MaxMessages \in Nat /\ MaxNoise \in Nat

LF    == <<"lf", 0>>
CRLF  == <<"crlf", 0>>
Blank == <<"blank", 0>>
LenOf(n) == <<"len", n>>

NewlineMode == "newline"
LengthMode  == "content-length"
Undetected  == "none"

LineEnds == {LF, CRLF}

\* Text, a header field of another name, and length lines with a leading zero or no number.
Kinds  == {"text", "blank", "lf", "crlf", "field", "len", "zlen", "badlen"}
Tokens == Kinds \X Nat

ASSUME PeersSendTokens == Bodies \subseteq Seq(Tokens) /\ Noise \subseteq Seq(Tokens)

\* serialize_frame, and how a peer frames what it sends.
Encode(body, mode) ==
    IF mode = LengthMode THEN <<LenOf(Len(body)), CRLF, CRLF>> \o body ELSE body \o <<LF>>

VARIABLES peer,      \* the framing the peer uses
          side,      \* "c2s" or "s2c": which pump reads
          wrote,     \* bodies written so far
          ends,      \* history: where in the stream each of them ends
          noise,     \* pieces of noise written so far
          pipe,      \* bytes on their way
          closed,    \* the peer has closed its end
          got,       \* history: every byte received
          buf,       \* _buf
          eof,       \* _eof
          mode,      \* mode
          out,       \* history: the raw bytes of the frames, one after the other
          frames,    \* frames returned: raw bytes, whether they parsed, the pump's over_cap
          ended      \* read_frame returned None

vars == <<peer, side, wrote, ends, noise, pipe, closed, got, buf, eof, mode, out, frames, ended>>

peerVars == <<peer, side, wrote, ends, noise, closed>>
readerVars == <<got, buf, eof, mode, out, frames, ended>>

-----------------------------------------------------------------------------
\* The first of some positions, 0 when there is none.
FirstAt(places) == IF places = {} THEN 0 ELSE CHOOSE i \in places : \A j \in places : i <= j

Take(s, n) == SubSeq(s, 1, n)
Drop(s, n) == SubSeq(s, n + 1, Len(s))

IsBlank(t) == t = Blank \/ t \in LineEnds
AllBlank(s) == \A i \in DOMAIN s : IsBlank(s[i])
IsLenLine(t) == t[1] \in {"len", "zlen", "badlen"}

\* _detect_mode
Detect(b) ==
    LET head  == Take(b, IF Len(b) < Window THEN Len(b) ELSE Window)
        first == FirstAt({i \in DOMAIN head : ~IsBlank(head[i])})
    IN  IF first # 0 /\ IsLenLine(head[first]) THEN LengthMode
        ELSE IF Len(b) >= Window \/ \E i \in DOMAIN b : b[i] \in LineEnds THEN NewlineMode
        ELSE Undetected

\* The mode in force when the reader looks at its buffer: read_frame's first loop.
Mode == IF mode # Undetected THEN mode
        ELSE IF Detect(buf) # Undetected THEN Detect(buf)
        ELSE IF eof /\ buf # <<>> THEN NewlineMode
        ELSE Undetected

\* _parse_content_length, on a block: exactly one length line, alone on its line, plain and
\* within the cap.  zlen is a value with a leading zero, badlen one that is no number.
LineStarts(h) == {i \in DOMAIN h : i = 1 \/ h[i - 1] = CRLF}
LenLines(h)   == {i \in LineStarts(h) : IsLenLine(h[i])}
Alone(h, i)   == i = Len(h) \/ h[i + 1] = CRLF
Declared(h) ==
    {h[i][2] : i \in {j \in LenLines(h) : Alone(h, j) /\ h[j][1] = "len"}}
Accepted(h) == {n \in Declared(h) : n <= Cap /\ \E i \in LenLines(h) : LenLines(h) = {i}}

\* _declared_length_over_cap: any numeric length line above the cap, however malformed the block.
DeclaresOverCap(h) ==
    \E i \in LenLines(h) : Alone(h, i) /\ h[i][1] # "badlen" /\ h[i][2] > Cap

\* What peers send: a body is JSON, so that not all of it is blank and no line of it is a length
\* line; noise is blank lines, or a header block that declares no length the reader can use.
BlankLines(s) == s # <<>> /\ AllBlank(s) /\ Last(s) \in LineEnds
HeaderBlock(s) ==
    /\ Len(s) > 1 /\ s[Len(s) - 1] = CRLF /\ s[Len(s)] = CRLF
    /\ \A i \in 1..(Len(s) - 2) : ~(s[i] = CRLF /\ s[i + 1] = CRLF)
    /\ Accepted(Take(s, Len(s) - 2)) = {}
ASSUME PeersSendMessages ==
    /\ \A body \in Bodies : ~AllBlank(body) /\ \A i \in DOMAIN body : ~IsLenLine(body[i])
    /\ \A piece \in Noise : IF AllBlank(piece) THEN BlankLines(piece) ELSE HeaderBlock(piece)

Parses(body) == body \in Bodies      \* _parse_frame

\* The pump's over_cap: guard.py compares raw bytes on the way to the server, and on the way to
\* the client the body, unless the reader saw a length above the cap.
OverCap(raw, body, marked) ==
    \/ marked /\ side = "s2c"
    \/ Len(IF side = "s2c" /\ Mode = LengthMode THEN body ELSE raw) > Cap

Frame(raw, body, marked) == [raw |-> raw, json |-> Parses(body), over |-> OverCap(raw, body, marked)]

-----------------------------------------------------------------------------
(***************************************************************************)
(* What read_frame does with its buffer: take `take` bytes and return a    *)
(* frame, take them and go on, return None, or ask for more.               *)
(***************************************************************************)
Outcome(do, take, frame) == [do |-> do, take |-> take, frame |-> frame]
More      == Outcome("fill", 0, <<>>)
NoneLeft  == Outcome("end", Len(buf), <<>>)
BodyAsRaw(take, body) == body                                      \* mutant: the header is lost
OriginalBytes(take, body) == Take(buf, take)
Return(take, body, marked) == Outcome("frame", take, <<Frame(OriginalBytes(take, body), body, marked)>>)

StripEnd(s) == IF s # <<>> /\ Last(s) \in LineEnds THEN Front(s) ELSE s

\* _read_newline
NewlineOutcome ==
    LET nl   == FirstAt({i \in DOMAIN buf : buf[i] \in LineEnds})
        size == IF nl # 0 THEN nl ELSE Len(buf)
        body == StripEnd(Take(buf, size))
    IN  CASE nl = 0 /\ ~eof                -> More
          [] nl = 0 /\ eof /\ AllBlank(body) -> NoneLeft
          [] nl # 0 /\ AllBlank(body)      -> IF nl = Len(buf) /\ eof THEN NoneLeft
                                              ELSE Outcome("skip", nl, <<>>)
          [] OTHER                         -> Return(size, body, FALSE)

HoldsMore(b, end) == Len(b) > end                                  \* mutant: off by one
Holds(b, end) == Len(b) >= end

\* _read_content_length
LengthOutcome ==
    LET sep    == FirstAt({i \in 1..(Len(buf) - 1) : buf[i] = CRLF /\ buf[i + 1] = CRLF})
        header == Take(buf, sep - 1)
        length == CHOOSE n \in Accepted(header) : TRUE
        start  == sep + 1
        whole  == start + length
    IN  CASE sep = 0 /\ ~eof             -> More
          [] sep = 0 /\ eof /\ buf = <<>> -> NoneLeft
          [] sep = 0 /\ eof /\ buf # <<>> -> Return(Len(buf), <<>>, FALSE)
          [] sep # 0 /\ Accepted(header) = {} -> Return(start, <<>>, DeclaresOverCap(header))
          [] OTHER -> IF Holds(buf, whole) THEN Return(whole, SubSeq(buf, start + 1, whole), FALSE)
                      ELSE IF eof THEN Return(Len(buf), <<>>, FALSE) ELSE More

\* read_frame
Decision == CASE Mode = LengthMode  -> LengthOutcome
              [] Mode = NewlineMode -> NewlineOutcome
              [] OTHER              -> IF eof THEN NoneLeft ELSE More

-----------------------------------------------------------------------------
Init ==
    /\ peer \in {NewlineMode, LengthMode} /\ side \in {"c2s", "s2c"}
    /\ wrote = <<>> /\ ends = <<>> /\ noise = 0 /\ pipe = <<>> /\ closed = FALSE
    /\ got = <<>> /\ buf = <<>> /\ eof = FALSE /\ mode = Undetected
    /\ out = <<>> /\ frames = <<>> /\ ended = FALSE

\* A body that holds a line end can be sent only in Content-Length framing.
Sendable(body) == peer = LengthMode \/ \A i \in DOMAIN body : body[i] \notin LineEnds

Write(body) ==
    /\ ~closed /\ Len(wrote) < MaxMessages /\ Sendable(body)
    /\ wrote' = Append(wrote, body)
    /\ pipe' = pipe \o Encode(body, peer)
    /\ ends' = Append(ends, Len(got) + Len(pipe'))
    /\ UNCHANGED <<peer, side, noise, closed, readerVars>>

\* Blank lines between lines of JSON, header blocks that declare nothing usable.
WriteNoise(piece) ==
    /\ ~closed /\ noise < MaxNoise /\ wrote # <<>>
    /\ (peer = NewlineMode) = AllBlank(piece)
    /\ noise' = noise + 1
    /\ pipe' = pipe \o piece
    /\ UNCHANGED <<peer, side, wrote, ends, closed, readerVars>>

\* The peer ends: between two messages, or in the middle of one.
Close ==
    /\ ~closed
    /\ closed' = TRUE
    /\ \/ pipe' = pipe
       \/ \E body \in Bodies : \E n \in 1..(Len(Encode(body, peer)) - 1) :
              Sendable(body) /\ pipe' = pipe \o Take(Encode(body, peer), n)
    /\ UNCHANGED <<peer, side, wrote, ends, noise, readerVars>>

(* The reader's steps, once its decision on the buffer is taken.            *)

\* _fill: one more chunk, of any size.
Receive(n) ==
    /\ got' = got \o Take(pipe, n)
    /\ buf' = buf \o Take(pipe, n)
    /\ pipe' = Drop(pipe, n)
    /\ UNCHANGED <<eof, out, frames, ended>>

\* _fill at the end of the stream.
ReceiveEof ==
    /\ closed /\ pipe = <<>>
    /\ eof' = TRUE
    /\ UNCHANGED <<pipe, got, buf, out, frames, ended>>

ReturnFrameCuttingOne(d) ==                                        \* mutant: one byte too many
    /\ frames' = frames \o d.frame
    /\ out' = out \o Take(buf, d.take)
    /\ buf' = Drop(buf, d.take + 1)
    /\ UNCHANGED <<pipe, got, eof, ended>>

ReturnFrame(d) ==
    /\ frames' = frames \o d.frame
    /\ out' = out \o Take(buf, d.take)
    /\ buf' = Drop(buf, d.take)
    /\ UNCHANGED <<pipe, got, eof, ended>>

SkipBlankLine(d) ==
    /\ buf' = Drop(buf, d.take)
    /\ UNCHANGED <<pipe, got, eof, out, frames, ended>>

ReturnNone ==
    /\ ended' = TRUE /\ buf' = <<>>
    /\ UNCHANGED <<pipe, got, eof, out, frames>>

Reader ==
    /\ ~ended
    /\ mode' = Mode
    /\ UNCHANGED peerVars
    /\ LET d == Decision IN
       \/ d.do = "fill"  /\ \E n \in DOMAIN pipe : Receive(n)
       \/ d.do = "fill"  /\ ReceiveEof
       \/ d.do = "frame" /\ ReturnFrame(d)
       \/ d.do = "skip"  /\ SkipBlankLine(d)
       \/ d.do = "end"   /\ ReturnNone

Over == ended /\ closed /\ UNCHANGED vars

Next ==
    \/ \E body \in Bodies : Write(body)
    \/ \E piece \in Noise : WriteNoise(piece)
    \/ Close
    \/ Reader
    \/ Over

Spec == Init /\ [][Next]_vars

-----------------------------------------------------------------------------
\* The reader's state: a mode before the first frame, and nothing held back at the end.
TypeOK ==
    /\ peer \in {NewlineMode, LengthMode} /\ side \in {"c2s", "s2c"}
    /\ mode \in {NewlineMode, LengthMode, Undetected}
    /\ closed \in BOOLEAN /\ eof \in BOOLEAN /\ ended \in BOOLEAN
    /\ Len(wrote) <= MaxMessages /\ noise <= MaxNoise
    /\ (frames # <<>> => mode # Undetected) /\ (eof => closed /\ pipe = <<>>) /\ (ended => eof /\ buf = <<>>)
    /\ \A i \in DOMAIN frames : frames[i].json \in BOOLEAN /\ frames[i].over \in BOOLEAN

\* Bytes that matter: all but the blank lines the reader may drop.
Solid(s) ==
    LET upTo[i \in 0..Len(s)] == IF i = 0 THEN <<>>
                                 ELSE IF IsBlank(s[i]) THEN upTo[i - 1] ELSE Append(upTo[i - 1], s[i])
    IN  upTo[Len(s)]

\* Nothing is lost, made up or reordered between the pipe and the frames, whatever the pieces in
\* which it came and however the stream ends (only blank lines are dropped); with the types.
Conserved == TypeOK /\ Solid(got) = Solid(out \o buf)

\* A declared length above the cap: from there on the reader and the peer disagree.
Oversized(body) == peer = LengthMode /\ Len(body) > Cap
InStep == \A i \in DOMAIN wrote : ~Oversized(wrote[i])

\* The frames that hold a message.
Messages(fs) ==
    LET upTo[i \in 0..Len(fs)] == IF i = 0 THEN <<>>
                                  ELSE IF fs[i].json THEN Append(upTo[i - 1], fs[i]) ELSE upTo[i - 1]
    IN  upTo[Len(fs)]
Bodied == Messages(frames)

\* On the way to the client a message whose body fits the cap is never taken for one above it,
\* however long its header makes the frame: with strict-frame-cap that would end the session.
FittingBodiesAreInspected ==
    \A i \in DOMAIN frames :
        (frames[i].json /\ side = "s2c" /\ mode = LengthMode) => ~frames[i].over

\* As long as no declared length is above the cap, the frames that parse are exactly the
\* messages the peer wrote, in order, in their own bytes: however the pipe cuts them, and
\* whatever blank lines or unusable header blocks stand between them.  (A last line cut just
\* before its line end is whole enough to parse.)  And none of them escapes inspection.
FramesAreMessages ==
    /\ FittingBodiesAreInspected
    /\ InStep => \A i \in DOMAIN Bodied :
                     \/ i \in DOMAIN wrote /\ Bodied[i].raw = Encode(wrote[i], peer)
                     \/ closed /\ i = Len(wrote) + 1 /\ Bodied[i].raw \in Bodies

\* The reader never asks for more while it holds a whole message: a client that waits for the
\* answer to its last message before it writes again is not left waiting.
NoStall ==
    (InStep /\ Decision.do = "fill") =>
        \A i \in DOMAIN ends : ends[i] <= Len(got) => i <= Len(Bodied)

\* What the documents say of a message above the cap: it is passed through unmodified, streamed
\* within the length contract of its mode, and the session continues.  So whatever has arrived
\* in full has been forwarded when the reader waits for more.
WholeMessagesAreForwarded ==
    Decision.do = "fill" => \A i \in DOMAIN ends : ends[i] <= Len(got) => ends[i] <= Len(out)
=============================================================================
