----------------------------- MODULE GdbPacket ------------------------------
(***************************************************************************)
(* gdb_read_packet of gdbstub.h, byte by byte: the hunt for '$', the body  *)
(* into input_buffer, the two digits of the checksum, the answer.          *)
(*                                                                         *)
(* `line` is what serial_port_getc returns, call after call: the bytes of  *)
(* the debugger and, since getc ignores the status that the BIOS reports,  *)
(* whatever it returned when it timed out.                                 *)
(***************************************************************************)
EXTENDS Integers, Sequences

CONSTANTS
  IO_BUFFER_SIZE,   (* the size of input_buffer, 1024 * 1024 in the source   *)
  Lines             (* the sequences of bytes that getc may return           *)

ASSUME PacketAssumption ==
  /\ IO_BUFFER_SIZE \in Nat /\ IO_BUFFER_SIZE >= 4
  /\ Lines \subseteq Seq(0 .. 255)

Hash   == 35        \* '#'
Dollar == 36        \* '$'
Plus   == 43        \* '+'
Minus  == 45        \* '-'
Colon  == 58        \* ':'

hex_to_byte(b) ==
  CASE b \in 97 .. 102 -> b - 87        \* 'a' .. 'f'
    [] b \in 48 .. 57  -> b - 48        \* '0' .. '9'
    [] b \in 65 .. 70  -> b - 55        \* 'A' .. 'F'
    [] OTHER            -> -1

VARIABLES
  line,          (* the bytes getc returns                                   *)
  pos,           (* how many it has returned                                 *)
  reader,        (* where gdb_read_packet is                                 *)
  buffer,        (* input_buffer, and output_buffer[0] which comes after it  *)
  count, checksum, xmitcsum,              (* the locals of gdb_read_packet   *)
  packet,        (* the index in buffer of the pointer returned last         *)
  no_ack_mode,   (* ctx.no_ack_mode                                          *)
  answer         (* the bytes put by the last step                           *)

packetvars == <<line, pos, reader, buffer, count, checksum, xmitcsum, packet,
                no_ack_mode, answer>>

Readers == {"hunt", "body", "digit1", "digit2", "returned"}

PacketInit ==
  /\ line \in Lines
  /\ pos = 0
  /\ reader = "hunt"
  /\ buffer = [i \in 0 .. IO_BUFFER_SIZE |-> 0]
  /\ count = 0 /\ checksum = 0 /\ xmitcsum = 0 /\ packet = 0
  /\ no_ack_mode = FALSE
  /\ answer = <<>>

-----------------------------------------------------------------------------
\* serial_port_getc: the next byte, in the place of the function called `at`.
ch == line[pos + 1]

Getc(at) ==
  /\ reader = at
  /\ pos < Len(line)
  /\ pos' = pos + 1
  /\ UNCHANGED <<line, no_ack_mode>>

Quiet == answer' = <<>>

\* Lines 338 to 341, after a '$'.
Retry ==
  /\ reader' = "body"
  /\ checksum' = 0 /\ xmitcsum' = 255 /\ count' = 0
  /\ UNCHANGED <<buffer, packet>>
  /\ Quiet

Skip ==
  /\ Getc("hunt")
  /\ ch # Dollar
  /\ UNCHANGED <<reader, buffer, count, checksum, xmitcsum, packet>>
  /\ Quiet

Begin == Getc("hunt") /\ ch = Dollar /\ Retry

\* Fault: the label retry is below the resets.
Restart_without_reset ==
  /\ Getc("body")
  /\ ch = Dollar
  /\ UNCHANGED <<reader, buffer, count, checksum, xmitcsum, packet>>
  /\ Quiet

\* A second '$' starts the packet again.
Restart == Getc("body") /\ ch = Dollar /\ Retry

\* Fault: the loop runs while count <= IO_BUFFER_SIZE.
Store_one_more ==
  /\ Getc("body")
  /\ ch \notin {Dollar, Hash}
  /\ checksum' = (checksum + ch) % 256
  /\ count' = count + 1
  /\ LET stored == [buffer EXCEPT ![count] = ch]
     IN IF count' <= IO_BUFFER_SIZE
        THEN buffer' = stored /\ UNCHANGED reader
        ELSE buffer' = stored /\ reader' = "hunt"
  /\ UNCHANGED <<xmitcsum, packet>>
  /\ Quiet

\* A byte of the body.  The last one that fits ends the loop: the terminator
\* then goes one past input_buffer and the packet is dropped without an answer.
Store ==
  /\ Getc("body")
  /\ ch \notin {Dollar, Hash}
  /\ checksum' = (checksum + ch) % 256
  /\ count' = count + 1
  /\ LET stored == [buffer EXCEPT ![count] = ch]
     IN IF count' < IO_BUFFER_SIZE
        THEN buffer' = stored /\ UNCHANGED reader
        ELSE buffer' = [stored EXCEPT ![count'] = 0] /\ reader' = "hunt"
  /\ UNCHANGED <<xmitcsum, packet>>
  /\ Quiet

\* Fault: the body is not terminated.
EndBody_unterminated ==
  /\ Getc("body")
  /\ ch = Hash
  /\ reader' = "digit1"
  /\ UNCHANGED <<buffer, count, checksum, xmitcsum, packet>>
  /\ Quiet

EndBody ==
  /\ Getc("body")
  /\ ch = Hash
  /\ buffer' = [buffer EXCEPT ![count] = 0]
  /\ reader' = "digit1"
  /\ UNCHANGED <<count, checksum, xmitcsum, packet>>
  /\ Quiet

Digit1 ==
  /\ Getc("digit1")
  /\ xmitcsum' = (16 * hex_to_byte(ch)) % 256
  /\ reader' = "digit2"
  /\ UNCHANGED <<buffer, count, checksum, packet>>
  /\ Quiet

Put(bytes) == answer' = IF no_ack_mode THEN <<>> ELSE bytes

\* The second digit, when the checksums differ.
Reject ==
  /\ Getc("digit2")
  /\ xmitcsum' = (xmitcsum + hex_to_byte(ch)) % 256
  /\ checksum # xmitcsum'
  /\ reader' = "hunt"
  /\ Put(<<Minus>>)
  /\ UNCHANGED <<buffer, count, checksum, packet>>

\* Fault: the test for ':' looks at buffer[1].
Accept_wrong_colon ==
  /\ Getc("digit2")
  /\ xmitcsum' = (xmitcsum + hex_to_byte(ch)) % 256
  /\ checksum = xmitcsum'
  /\ reader' = "returned"
  /\ packet' = IF buffer[1] = Colon THEN 3 ELSE 0
  /\ Put(<<Plus>>)
  /\ UNCHANGED <<buffer, count, checksum>>

\* The second digit, when they agree.  Of a packet with a sequence number, "nn:",
\* the number is sent back and the pointer returned is to what comes after it.
Accept ==
  /\ Getc("digit2")
  /\ xmitcsum' = (xmitcsum + hex_to_byte(ch)) % 256
  /\ checksum = xmitcsum'
  /\ reader' = "returned"
  /\ IF buffer[2] = Colon
     THEN /\ packet' = 3
          /\ answer' = (IF no_ack_mode THEN <<>> ELSE <<Plus>>)
                         \o <<buffer[0], buffer[1]>>
     ELSE packet' = 0 /\ Put(<<Plus>>)
  /\ UNCHANGED <<buffer, count, checksum>>

\* gdb_loop calls gdb_read_packet again, after a QStartNoAckMode perhaps.
CallAgain ==
  /\ reader = "returned"
  /\ reader' = "hunt"
  /\ no_ack_mode' \in {no_ack_mode, TRUE}
  /\ buffer' = [buffer EXCEPT ![IO_BUFFER_SIZE] = 0]    \* output_buffer[0] = 0
  /\ UNCHANGED <<line, pos, count, checksum, xmitcsum, packet>>
  /\ Quiet

\* getc has nothing more to return.
Wait ==
  /\ reader # "returned"
  /\ pos = Len(line)
  /\ UNCHANGED packetvars

Read ==
  \/ Skip \/ Begin \/ Restart \/ Store \/ EndBody
  \/ Digit1 \/ Reject \/ Accept

PacketNext == Read \/ CallAgain \/ Wait
PacketSpec == PacketInit /\ [][PacketNext]_packetvars

-----------------------------------------------------------------------------
(***************************************************************************)
(* Properties.                                                             *)
(***************************************************************************)
PacketTypeOK ==
  /\ line \in Lines
  /\ pos \in 0 .. Len(line)
  /\ reader \in Readers
  /\ buffer \in [0 .. IO_BUFFER_SIZE -> 0 .. 255]
  /\ count \in 0 .. IO_BUFFER_SIZE
  /\ checksum \in 0 .. 255 /\ xmitcsum \in 0 .. 255
  /\ packet \in {0, 3}
  /\ no_ack_mode \in BOOLEAN
  /\ answer \in Seq(0 .. 255)

\* A packet on the line, from its '$' at i to its second digit at j.
Framed(i, j) ==
  /\ i >= 1 /\ j <= Len(line) /\ j >= i + 3
  /\ line[i] = Dollar /\ line[j - 2] = Hash
  /\ \A k \in i + 1 .. j - 3 : line[k] \notin {Dollar, Hash}

Data(i, j)  == SubSeq(line, i + 1, j - 3)
Sum256(s)   ==
  LET sum[k \in 0 .. Len(s)] == IF k = 0 THEN 0 ELSE (sum[k - 1] + s[k]) % 256
  IN sum[Len(s)]
IsHex(b)    == hex_to_byte(b) >= 0
Digits(j)   == 16 * hex_to_byte(line[j - 1]) + hex_to_byte(line[j])
HexSum(j)   == IsHex(line[j - 1]) /\ IsHex(line[j])

\* What gdb_read_packet returns came as one packet, '$' to checksum, with nothing
\* before it mixed in; a checksum in hex digits matches.  (Of digits that are not
\* hex the code makes a number too: that one is not excluded.)
ReturnsFrame ==
  LET i == pos - count - 3
  IN /\ Framed(i, pos) /\ count < IO_BUFFER_SIZE
     /\ \A k \in 1 .. count : buffer[k - 1] = Data(i, pos)[k]
     /\ buffer[count] = 0

DeliversOnlyFrames ==
  reader = "returned" =>
    /\ ReturnsFrame
    /\ HexSum(pos) => Sum256(Data(pos - count - 3, pos)) = Digits(pos)

\* The pointer returned skips a sequence number only if the packet has one, but
\* for packets of less than two bytes: those are misread if an earlier packet,
\* accepted or not, left a ':' as its third byte.
MisreadOnlyAfterColon ==
  reader = "returned" =>
    LET data == Data(pos - count - 3, pos)
    IN \/ packet = IF count >= 3 /\ data[3] = Colon THEN 3 ELSE 0
       \/ /\ count < 2 /\ packet = 3
          /\ \E k \in 1 .. pos - 4 : /\ line[k] = Dollar /\ line[k + 3] = Colon
                                     /\ line[k + 1] \notin {Dollar, Hash}
                                     /\ line[k + 2] \notin {Dollar, Hash}

\* No '#' right before i could take the '$' at i for a digit.
Heard(i) == \A k \in {i - 1, i - 2} : k >= 1 => line[k] # Hash

\* Every packet that is heard and fits is answered: a good one is returned, and
\* acknowledged unless acknowledgements are off; another one is asked for again.
\* What came before it, a packet cut short for example, does not matter.
EveryFrameAnswered ==
  [][\A i \in 1 .. pos' :
       pos' # pos /\ Framed(i, pos') /\ Heard(i)
         /\ pos' - i - 3 < IO_BUFFER_SIZE /\ HexSum(pos')
       => IF Sum256(Data(i, pos')) = Digits(pos')
          THEN reader' = "returned" /\ (no_ack_mode \/ answer'[1] = Plus)
          ELSE reader' = "hunt" /\ (no_ack_mode \/ answer' = <<Minus>>)
    ]_packetvars
=============================================================================
