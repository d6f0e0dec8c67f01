------------------------------ MODULE MCFraming ------------------------------
(* Instances of Framing for TLC: bodies of one to four tokens around a cap   *)
(* of three, one of them with a line end inside.                             *)
EXTENDS Framing

Text(n) == <<"text", n>>

SampleBodies == {<<Text(1)>>, <<Text(2), LF, Text(3)>>,
                 <<Text(4), Text(4), Text(4), Text(4)>>}

\* A blank line; a block with two lengths; one with none but a leading zero above the cap.
SampleNoise == {<<Blank, LF>>,
                <<LenOf(1), CRLF, LenOf(1), CRLF, CRLF>>,
                <<<<"field", 0>>, CRLF, <<"zlen", 9>>, CRLF, CRLF>>}

\* TLC evaluates a definition once, but what replaces a constant at every use: hence the aliases.
MCBodies == SampleBodies
MCNoise == SampleNoise
=============================================================================
