---------------------------- MODULE MCGdbPacket -----------------------------
(***************************************************************************)
(* Lines of up to three pieces: whole packets, good and bad, pieces that   *)
(* begin or end a packet, and the 0 that a timed out getc returns.         *)
(***************************************************************************)
EXTENDS GdbPacket

MCPieces == {
  <<36, 51, 51, 58, 35, 97, 48>>,          \* $33:#a0    a sequence number
  <<36, 51, 35, 51, 51>>,                  \* $3#33
  <<36, 35, 48, 48>>,                      \* $#00       the empty packet
  <<36, 51, 58, 35, 54, 68>>,              \* $3:#6D
  <<36, 48, 48, 48, 48, 35, 99, 48>>,      \* $0000#c0   the longest that fits
  <<36, 48, 48, 48, 48, 48, 35, 102, 48>>, \* $00000#f0  one more
  <<36, 48, 48, 48, 48, 48, 48, 35, 50, 48>>,
  <<36, 51, 51, 51, 97, 35, 122, 97>>,     \* $333a#za   digits that are not hex
  <<36, 97, 97, 58, 35, 48, 48>>,          \* $aa:#00    a wrong checksum
  <<36>>, <<36, 51>>, <<35>>, <<58>>, <<0>> }

Pieces == MCPieces \cup {<<>>}
MCLines == {a \o b \o c : a, b, c \in Pieces}
=============================================================================
