--------------------------- MODULE MCDiffRoundTrip --------------------------
(* Files over two texts, so that lines repeat and the diff has to choose.    *)
EXTENDS DiffRoundTrip

CONSTANTS textA, textB

Texts == {textA, textB}
UnixEnds == {"lf", "none"}
AllEnds == {"lf", "crlf", "none"}
NoneOne == 0..1

=============================================================================
