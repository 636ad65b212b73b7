--------------------------- MODULE GdbPacketProofs ---------------------------
(***************************************************************************)
(* What gdb_read_packet returns, for any line and any IO_BUFFER_SIZE: the  *)
(* indices stay inside the buffer and its terminator, and what is returned *)
(* is one packet of the line.  The invariant says, at each place of the    *)
(* function, where on the line the '$' of the packet being read is.        *)
(***************************************************************************)
EXTENDS GdbPacket, SequenceTheorems, WellFoundedInduction, TLAPS

\* The bytes after the '$' at i are in the buffer, and none is '$' or '#'.
Stored(i) ==
  /\ i >= 1 /\ line[i] = Dollar
  /\ \A k \in 0 .. count - 1 : /\ buffer[k] = line[i + 1 + k]
                               /\ line[i + 1 + k] \notin {Dollar, Hash}

Terminated == buffer[count] = 0 /\ count < IO_BUFFER_SIZE

ReaderOK ==
  /\ reader = "body"     => Stored(pos - count) /\ count < IO_BUFFER_SIZE
  /\ reader = "digit1"   => Stored(pos - count - 1) /\ Terminated /\ line[pos] = Hash
  /\ reader = "digit2"   => Stored(pos - count - 2) /\ Terminated /\ line[pos - 1] = Hash
  /\ reader = "returned" => Stored(pos - count - 3) /\ Terminated /\ line[pos - 2] = Hash

\* The third byte of the buffer came from the line, after a '$' and two bytes.
ThirdByteOK ==
  buffer[2] # 0 =>
    \E k \in 1 .. pos - 3 : /\ line[k] = Dollar /\ line[k + 3] = buffer[2]
                            /\ line[k + 1] \notin {Dollar, Hash}
                            /\ line[k + 2] \notin {Dollar, Hash}

SequenceNumberOK == reader = "returned" => packet = IF buffer[2] = Colon THEN 3 ELSE 0

PacketInv == PacketTypeOK /\ ReaderOK /\ ThirdByteOK /\ SequenceNumberOK

-----------------------------------------------------------------------------
\* The line is one of bytes.
LEMMA LineOfBytes ==
  ASSUME PacketTypeOK
  PROVE  /\ line \in Seq(0 .. 255) /\ Len(line) \in Nat
         /\ \A p \in 1 .. Len(line) : line[p] \in 0 .. 255
<1>1. line \in Seq(0 .. 255)
  BY PacketAssumption DEF PacketTypeOK
<1> QED
  BY <1>1, LenProperties, ElementOfSeq

\* Sums of bytes wrap.
LEMMA Wraps == \A n \in Int : n % 256 \in 0 .. 255
OBVIOUS

\* A hex digit, or -1.
LEMMA HexDigit == \A b \in 0 .. 255 : hex_to_byte(b) \in -1 .. 15
BY DEF hex_to_byte

\* So that the digits sent make a byte whatever they are.
LEMMA SentSum ==
  ASSUME NEW b \in 0 .. 255, NEW x \in 0 .. 255
  PROVE  /\ (16 * hex_to_byte(b)) % 256 \in 0 .. 255
         /\ (x + hex_to_byte(b)) % 256 \in 0 .. 255
<1> DEFINE h == hex_to_byte(b)
<1>1. h \in Int
  BY HexDigit
<1> HIDE DEF h
<1>2. 16 * h \in Int /\ x + h \in Int
  BY <1>1
<1>3. (16 * h) % 256 \in 0 .. 255 /\ (x + h) % 256 \in 0 .. 255
  BY <1>2, Wraps
<1> QED
  BY <1>3 DEF h

\* What every getc does.
LEMMA GetcByte ==
  ASSUME PacketTypeOK, NEW at, Getc(at)
  PROVE  /\ pos' = pos + 1 /\ pos' \in 1 .. Len(line) /\ line' = line
         /\ ch \in 0 .. 255 /\ line[pos'] = ch /\ no_ack_mode' = no_ack_mode
         /\ reader = at
<1>1. pos \in Nat /\ pos < Len(line) /\ pos' = pos + 1 /\ line' = line
  BY LineOfBytes DEF PacketTypeOK, Getc
<1>2. pos + 1 \in 1 .. Len(line)
  BY <1>1, LineOfBytes
<1> QED
  BY <1>1, <1>2, LineOfBytes DEF Getc, ch

\* Nothing is read yet.
LEMMA PacketInitial == PacketInit => PacketInv
<1> SUFFICES ASSUME PacketInit PROVE PacketInv
  OBVIOUS
<1>1. PacketTypeOK
  <2>1. line \in Seq(0 .. 255) /\ 0 \in 0 .. Len(line)
    BY PacketAssumption, LenProperties DEF PacketInit
  <2>2. answer \in Seq(0 .. 255)
    BY DEF PacketInit
  <2>3. buffer \in [0 .. IO_BUFFER_SIZE -> 0 .. 255] /\ 0 \in 0 .. IO_BUFFER_SIZE
    BY PacketAssumption DEF PacketInit
  <2>4. no_ack_mode \in BOOLEAN
    BY Zenon DEF PacketInit
  <2> QED
    BY <2>1, <2>2, <2>3, <2>4 DEF PacketInit, PacketTypeOK, Readers
<1>2. ReaderOK /\ ThirdByteOK /\ SequenceNumberOK
  BY PacketAssumption DEF PacketInit, ReaderOK, ThirdByteOK, SequenceNumberOK
<1> QED
  BY <1>1, <1>2 DEF PacketInv

\* What is behind stays behind.
LEMMA Later ==
  \A p, q \in Int : p <= q => \A k \in 1 .. p - 3 : k \in 1 .. q - 3
OBVIOUS

\* The third byte stays what it is, or is where it was.
LEMMA ThirdByteStays ==
  ASSUME PacketTypeOK, ThirdByteOK, line' = line, pos' \in Nat, pos' >= pos,
         buffer'[2] \in {buffer[2], 0}
  PROVE  ThirdByteOK'
<1>1. CASE buffer'[2] = 0
  BY <1>1 DEF ThirdByteOK
<1>2. CASE buffer[2] # 0 /\ buffer'[2] = buffer[2]
  <2>1. PICK k \in 1 .. pos - 3 : /\ line[k] = Dollar /\ line[k + 3] = buffer[2]
                                  /\ line[k + 1] \notin {Dollar, Hash}
                                  /\ line[k + 2] \notin {Dollar, Hash}
    BY <1>2 DEF ThirdByteOK
  <2>2. pos \in Nat
    BY LineOfBytes DEF PacketTypeOK
  <2>3. k \in 1 .. pos' - 3
    <3>1. pos \in Int /\ pos' \in Int /\ pos <= pos'
      BY <2>2
    <3> QED
      BY <2>1, <3>1, Later
  <2> QED
    BY <1>2, <2>1, <2>3 DEF ThirdByteOK
<1> QED
  BY <1>1, <1>2

-----------------------------------------------------------------------------
\* One lemma per action.  A byte skipped changes nothing but its place.
LEMMA SkipKeeps == PacketInv /\ Skip => PacketInv'
<1> SUFFICES ASSUME PacketInv, Skip PROVE PacketInv'
  OBVIOUS
<1>1. /\ pos' = pos + 1 /\ pos' \in 1 .. Len(line) /\ line' = line /\ reader = "hunt"
      /\ UNCHANGED <<reader, buffer, count, checksum, xmitcsum, packet, no_ack_mode>>
      /\ answer' = <<>>
  BY GetcByte DEF PacketInv, Skip, Quiet
<1>2. PacketTypeOK'
  BY <1>1, EmptySeq DEF PacketInv, PacketTypeOK
<1>3. ThirdByteOK'
  BY <1>1, ThirdByteStays, LineOfBytes DEF PacketInv, PacketTypeOK
<1>4. ReaderOK' /\ SequenceNumberOK'
  BY <1>1 DEF ReaderOK, SequenceNumberOK
<1> QED
  BY <1>2, <1>3, <1>4 DEF PacketInv

\* Begin and Restart: the packet begins at the '$' just read.
LEMMA RetryKeeps ==
  ASSUME PacketInv, NEW at, Getc(at), ch = Dollar, Retry
  PROVE  PacketInv'
<1>1. /\ pos' = pos + 1 /\ pos' \in 1 .. Len(line) /\ line' = line /\ line[pos'] = Dollar
      /\ UNCHANGED <<buffer, packet, no_ack_mode>>
      /\ reader' = "body" /\ checksum' = 0 /\ xmitcsum' = 255 /\ count' = 0
      /\ answer' = <<>>
  BY GetcByte DEF PacketInv, Retry, Quiet
<1>2. PacketTypeOK'
  BY <1>1, EmptySeq, PacketAssumption DEF PacketInv, PacketTypeOK, Readers
<1>3. ThirdByteOK'
  BY <1>1, ThirdByteStays, LineOfBytes DEF PacketInv, PacketTypeOK
<1>4. ReaderOK'
  BY <1>1, PacketAssumption DEF ReaderOK, Stored
<1>5. SequenceNumberOK'
  BY <1>1 DEF SequenceNumberOK
<1> QED
  BY <1>2, <1>3, <1>4, <1>5 DEF PacketInv

\* A byte of the body goes where the last free byte of the buffer is.
LEMMA StoreKeeps == PacketInv /\ Store => PacketInv'
<1> SUFFICES ASSUME PacketInv, Store PROVE PacketInv'
  OBVIOUS
<1>1. /\ pos' = pos + 1 /\ pos' \in 1 .. Len(line) /\ line' = line /\ line[pos'] = ch
      /\ ch \in 0 .. 255 /\ ch \notin {Dollar, Hash} /\ reader = "body"
      /\ UNCHANGED <<xmitcsum, packet, no_ack_mode>>
      /\ checksum' = (checksum + ch) % 256 /\ count' = count + 1 /\ answer' = <<>>
  BY GetcByte DEF PacketInv, Store, Quiet
<1>2. /\ Stored(pos - count) /\ count \in Nat /\ count < IO_BUFFER_SIZE /\ pos \in Nat
      /\ buffer \in [0 .. IO_BUFFER_SIZE -> 0 .. 255]
  BY <1>1, LineOfBytes DEF PacketInv, ReaderOK, PacketTypeOK
<1> DEFINE stored == [buffer EXCEPT ![count] = ch]
<1>3. /\ stored \in [0 .. IO_BUFFER_SIZE -> 0 .. 255] /\ stored[count] = ch
      /\ \A k \in 0 .. IO_BUFFER_SIZE : k # count => stored[k] = buffer[k]
  BY <1>1, <1>2, PacketAssumption
<1>4. \/ count' < IO_BUFFER_SIZE /\ buffer' = stored /\ reader' = "body"
      \/ /\ count' = IO_BUFFER_SIZE /\ reader' = "hunt"
         /\ buffer' = [stored EXCEPT ![count'] = 0]
  BY <1>1, <1>2, PacketAssumption DEF Store
<1>5. /\ buffer' \in [0 .. IO_BUFFER_SIZE -> 0 .. 255] /\ reader' \in Readers
      /\ \A k \in 0 .. IO_BUFFER_SIZE - 1 : buffer'[k] = stored[k]
  <2>1. CASE buffer' = stored /\ reader' = "body"
    BY <1>3, <2>1 DEF Readers
  <2>2. CASE /\ count' = IO_BUFFER_SIZE /\ reader' = "hunt"
             /\ buffer' = [stored EXCEPT ![count'] = 0]
    <3>1. /\ buffer' \in [0 .. IO_BUFFER_SIZE -> 0 .. 255]
          /\ \A k \in 0 .. IO_BUFFER_SIZE - 1 : buffer'[k] = stored[k]
      <4>1. buffer' = [stored EXCEPT ![IO_BUFFER_SIZE] = 0]
        BY <2>2
      <4> HIDE DEF stored
      <4> QED
        BY <1>3, <4>1, PacketAssumption
    <3> QED
      BY <2>2, <3>1 DEF Readers
  <2> QED
    BY <1>4, <2>1, <2>2
<1>6. PacketTypeOK'
  <2>1. checksum' \in 0 .. 255
    BY <1>1, Wraps DEF PacketInv, PacketTypeOK
  <2>2. count' \in 0 .. IO_BUFFER_SIZE
    BY <1>1, <1>2, PacketAssumption
  <2> QED
    BY <1>1, <1>5, <2>1, <2>2, EmptySeq DEF PacketInv, PacketTypeOK
<1>7. ReaderOK'
  <2>1. CASE reader' = "hunt"
    BY <2>1 DEF ReaderOK
  <2>2. CASE count' < IO_BUFFER_SIZE /\ buffer' = stored /\ reader' = "body"
    <3>1. pos' - count' = pos - count
      BY <1>1, <1>2
    <3>2. ASSUME NEW k \in 0 .. count' - 1
          PROVE  /\ buffer'[k] = line[pos - count + 1 + k]
                 /\ line[pos - count + 1 + k] \notin {Dollar, Hash}
      <4>1. CASE k = count
        BY <1>1, <1>2, <1>3, <2>2, <4>1
      <4>2. CASE k # count
        <5>1. k \in 0 .. count - 1 /\ buffer'[k] = buffer[k]
          BY <1>1, <1>2, <1>3, <2>2, <4>2, PacketAssumption
        <5> QED
          BY <1>2, <5>1 DEF Stored
      <4> QED
        BY <4>1, <4>2
    <3>3. Stored(pos - count)'
      BY <1>1, <1>2, <3>1, <3>2 DEF Stored
    <3> QED
      BY <2>2, <3>3 DEF ReaderOK
  <2> QED
    BY <1>4, <2>1, <2>2
<1>8. ThirdByteOK'
  <2>1. CASE count # 2
    <3>1. buffer'[2] = buffer[2]
      BY <1>3, <1>5, <2>1, PacketAssumption
    <3> QED
      BY <1>1, <3>1, ThirdByteStays, LineOfBytes DEF PacketInv, PacketTypeOK
  <2>2. CASE count = 2
    <3>1. /\ line[pos - 2] = Dollar /\ line[pos - 1] \notin {Dollar, Hash}
          /\ line[pos] \notin {Dollar, Hash} /\ pos - 2 >= 1
      <4>1. 0 \in 0 .. count - 1 /\ 1 \in 0 .. count - 1
        BY <2>2
      <4> QED
        BY <1>2, <2>2, <4>1 DEF Stored
    <3>2. buffer'[2] = ch
      BY <1>3, <1>5, <2>2, PacketAssumption
    <3>3. pos - 2 \in 1 .. pos' - 3
      BY <1>1, <1>2, <3>1
    <3> QED
      BY <1>1, <1>2, <3>1, <3>2, <3>3 DEF ThirdByteOK
  <2> QED
    BY <2>1, <2>2
<1>9. SequenceNumberOK'
  BY <1>4 DEF SequenceNumberOK
<1> QED
  BY <1>6, <1>7, <1>8, <1>9 DEF PacketInv

\* The '#' ends the body; what terminates it goes behind the last byte.
LEMMA EndBodyKeeps == PacketInv /\ EndBody => PacketInv'
<1> SUFFICES ASSUME PacketInv, EndBody PROVE PacketInv'
  OBVIOUS
<1>1. /\ pos' = pos + 1 /\ pos' \in 1 .. Len(line) /\ line' = line /\ line[pos'] = Hash
      /\ reader = "body" /\ reader' = "digit1" /\ answer' = <<>>
      /\ UNCHANGED <<count, checksum, xmitcsum, packet, no_ack_mode>>
      /\ buffer' = [buffer EXCEPT ![count] = 0]
  BY GetcByte DEF PacketInv, EndBody, Quiet
<1>2. /\ Stored(pos - count) /\ count \in Nat /\ count < IO_BUFFER_SIZE /\ pos \in Nat
      /\ buffer \in [0 .. IO_BUFFER_SIZE -> 0 .. 255]
  BY <1>1, LineOfBytes DEF PacketInv, ReaderOK, PacketTypeOK
<1>3. /\ buffer' \in [0 .. IO_BUFFER_SIZE -> 0 .. 255] /\ buffer'[count] = 0
      /\ \A k \in 0 .. IO_BUFFER_SIZE : k # count => buffer'[k] = buffer[k]
  BY <1>1, <1>2, PacketAssumption
<1>4. PacketTypeOK'
  BY <1>1, <1>3, EmptySeq DEF PacketInv, PacketTypeOK, Readers
<1>5. ReaderOK'
  <2>1. pos' - count' - 1 = pos - count
    BY <1>1, <1>2
  <2>2. ASSUME NEW k \in 0 .. count - 1
        PROVE  buffer'[k] = line[pos - count + 1 + k] /\ line[pos - count + 1 + k] \notin {Dollar, Hash}
    BY <1>2, <1>3, PacketAssumption DEF Stored
  <2>3. Stored(pos - count - 1)'
    BY <1>1, <1>2, <2>1, <2>2 DEF Stored
  <2> QED
    BY <1>1, <1>2, <1>3, <2>3 DEF ReaderOK, Terminated
<1>6. ThirdByteOK'
  <2>1. buffer'[2] \in {buffer[2], 0}
    BY <1>3, PacketAssumption
  <2> QED
    BY <1>1, <2>1, ThirdByteStays, LineOfBytes DEF PacketInv, PacketTypeOK
<1>7. SequenceNumberOK'
  BY <1>1 DEF SequenceNumberOK
<1> QED
  BY <1>4, <1>5, <1>6, <1>7 DEF PacketInv

\* The digits leave the buffer alone.
LEMMA Digit1Keeps == PacketInv /\ Digit1 => PacketInv'
<1> SUFFICES ASSUME PacketInv, Digit1 PROVE PacketInv'
  OBVIOUS
<1>1. /\ pos' = pos + 1 /\ pos' \in 1 .. Len(line) /\ line' = line /\ ch \in 0 .. 255
      /\ reader = "digit1" /\ reader' = "digit2" /\ answer' = <<>>
      /\ UNCHANGED <<buffer, count, checksum, packet, no_ack_mode>>
      /\ xmitcsum' = (16 * hex_to_byte(ch)) % 256
  BY GetcByte DEF PacketInv, Digit1, Quiet
<1>2. /\ Stored(pos - count - 1) /\ Terminated /\ line[pos] = Hash
      /\ count \in Nat /\ pos \in Nat
  BY <1>1, LineOfBytes DEF PacketInv, ReaderOK, PacketTypeOK
<1>3. PacketTypeOK'
  <2>1. xmitcsum' \in 0 .. 255
    <3>1. xmitcsum \in 0 .. 255
      BY DEF PacketInv, PacketTypeOK
    <3> QED
      BY <1>1, <3>1, SentSum
  <2> QED
    BY <1>1, <2>1, EmptySeq DEF PacketInv, PacketTypeOK, Readers
<1>4. ReaderOK'
  <2>1. pos' - count' - 2 = pos - count - 1 /\ pos' - 1 = pos
    BY <1>1, <1>2
  <2> QED
    BY <1>1, <1>2, <2>1 DEF ReaderOK, Stored, Terminated
<1>5. ThirdByteOK'
  BY <1>1, ThirdByteStays, LineOfBytes DEF PacketInv, PacketTypeOK
<1>6. SequenceNumberOK'
  BY <1>1 DEF SequenceNumberOK
<1> QED
  BY <1>3, <1>4, <1>5, <1>6 DEF PacketInv

\* A packet rejected stays in the buffer, its third byte with it.
LEMMA RejectKeeps == PacketInv /\ Reject => PacketInv'
<1> SUFFICES ASSUME PacketInv, Reject PROVE PacketInv'
  OBVIOUS
<1>1. /\ pos' = pos + 1 /\ pos' \in 1 .. Len(line) /\ line' = line /\ ch \in 0 .. 255
      /\ reader' = "hunt" /\ answer' \in {<<>>, <<Minus>>}
      /\ UNCHANGED <<buffer, count, checksum, packet, no_ack_mode>>
      /\ xmitcsum' = (xmitcsum + hex_to_byte(ch)) % 256
  BY GetcByte DEF PacketInv, Reject, Put
<1>2. PacketTypeOK'
  <2>1. xmitcsum' \in 0 .. 255
    <3>1. xmitcsum \in 0 .. 255
      BY DEF PacketInv, PacketTypeOK
    <3> QED
      BY <1>1, <3>1, SentSum
  <2>2. answer' \in Seq(0 .. 255)
    <3>1. <<>> \in Seq(0 .. 255) /\ <<Minus>> \in Seq(0 .. 255)
      BY DEF Minus
    <3> QED
      BY <1>1, <3>1
  <2> QED
    BY <1>1, <2>1, <2>2 DEF PacketInv, PacketTypeOK, Readers
<1>3. ThirdByteOK'
  BY <1>1, ThirdByteStays, LineOfBytes DEF PacketInv, PacketTypeOK
<1>4. ReaderOK' /\ SequenceNumberOK'
  BY <1>1 DEF ReaderOK, SequenceNumberOK
<1> QED
  BY <1>2, <1>3, <1>4 DEF PacketInv

\* The packet accepted is the one Stored says.
LEMMA AcceptKeeps == PacketInv /\ Accept => PacketInv'
<1> SUFFICES ASSUME PacketInv, Accept PROVE PacketInv'
  OBVIOUS
<1>1. /\ pos' = pos + 1 /\ pos' \in 1 .. Len(line) /\ line' = line /\ ch \in 0 .. 255
      /\ reader = "digit2" /\ reader' = "returned"
      /\ UNCHANGED <<buffer, count, checksum, no_ack_mode>>
      /\ xmitcsum' = (xmitcsum + hex_to_byte(ch)) % 256
  BY GetcByte DEF PacketInv, Accept
<1>2. /\ Stored(pos - count - 2) /\ Terminated /\ line[pos - 1] = Hash
      /\ count \in Nat /\ pos \in Nat
  BY <1>1, LineOfBytes DEF PacketInv, ReaderOK, PacketTypeOK
<1>3. packet' = IF buffer[2] = Colon THEN 3 ELSE 0
  BY DEF Accept
<1>4. PacketTypeOK'
  <2>1. xmitcsum' \in 0 .. 255
    <3>1. xmitcsum \in 0 .. 255
      BY DEF PacketInv, PacketTypeOK
    <3> QED
      BY <1>1, <3>1, SentSum
  <2>2. answer' \in Seq(0 .. 255)
    <3>1. buffer[0] \in 0 .. 255 /\ buffer[1] \in 0 .. 255
      BY PacketAssumption DEF PacketInv, PacketTypeOK
    <3>2. /\ <<Plus>> \in Seq(0 .. 255) /\ <<>> \in Seq(0 .. 255)
          /\ <<buffer[0], buffer[1]>> \in Seq(0 .. 255)
      BY <3>1 DEF Plus
    <3>3. CASE buffer[2] = Colon
      <4>1. answer' = (IF no_ack_mode THEN <<>> ELSE <<Plus>>) \o <<buffer[0], buffer[1]>>
        BY <3>3 DEF Accept
      <4>2. (IF no_ack_mode THEN <<>> ELSE <<Plus>>) \in Seq(0 .. 255)
        BY <3>2
      <4> QED
        BY <3>2, <4>1, <4>2, ConcatProperties
    <3>4. CASE buffer[2] # Colon
      BY <3>2, <3>4 DEF Accept, Put
    <3> QED
      BY <3>3, <3>4
  <2> QED
    BY <1>1, <1>3, <2>1, <2>2 DEF PacketInv, PacketTypeOK, Readers
<1>5. ReaderOK'
  <2>1. pos' - count' - 3 = pos - count - 2 /\ pos' - 2 = pos - 1
    BY <1>1, <1>2
  <2> QED
    BY <1>1, <1>2, <2>1 DEF ReaderOK, Stored, Terminated
<1>6. ThirdByteOK'
  BY <1>1, ThirdByteStays, LineOfBytes DEF PacketInv, PacketTypeOK
<1>7. SequenceNumberOK'
  BY <1>1, <1>3 DEF SequenceNumberOK
<1> QED
  BY <1>4, <1>5, <1>6, <1>7 DEF PacketInv

\* Between two calls only output_buffer changes.
LEMMA CallAgainKeeps == PacketInv /\ CallAgain => PacketInv'
<1> SUFFICES ASSUME PacketInv, CallAgain PROVE PacketInv'
  OBVIOUS
<1>1. /\ reader' = "hunt" /\ buffer' = [buffer EXCEPT ![IO_BUFFER_SIZE] = 0]
      /\ UNCHANGED <<line, pos, count, checksum, xmitcsum, packet>> /\ answer' = <<>>
  BY DEF CallAgain, Quiet
<1>2. PacketTypeOK'
  <2>1. buffer' \in [0 .. IO_BUFFER_SIZE -> 0 .. 255]
    BY <1>1, PacketAssumption DEF PacketInv, PacketTypeOK
  <2>2. no_ack_mode' \in BOOLEAN
    BY Zenon DEF CallAgain, PacketInv, PacketTypeOK
  <2> QED
    BY <1>1, <2>1, <2>2, EmptySeq DEF PacketInv, PacketTypeOK, Readers
<1>3. ThirdByteOK'
  <2>1. buffer'[2] = buffer[2]
    BY <1>1, PacketAssumption DEF PacketInv, PacketTypeOK
  <2> QED
    BY <1>1, <2>1, ThirdByteStays, LineOfBytes DEF PacketInv, PacketTypeOK
<1>4. ReaderOK' /\ SequenceNumberOK'
  BY <1>1 DEF ReaderOK, SequenceNumberOK
<1> QED
  BY <1>2, <1>3, <1>4 DEF PacketInv

\* No step breaks the invariant.
LEMMA PacketStep == PacketInv /\ [PacketNext]_packetvars => PacketInv'
<1> SUFFICES ASSUME PacketInv, [PacketNext]_packetvars PROVE PacketInv'
  OBVIOUS
<1>1. CASE Begin \/ Restart
  BY <1>1, RetryKeeps DEF Begin, Restart
<1>2. CASE Skip \/ Store \/ EndBody \/ Digit1 \/ Reject \/ Accept
  BY <1>2, SkipKeeps, StoreKeeps, EndBodyKeeps, Digit1Keeps, RejectKeeps, AcceptKeeps
<1>3. CASE CallAgain
  BY <1>3, CallAgainKeeps
<1>4. CASE Wait \/ UNCHANGED packetvars
  <2>1. UNCHANGED packetvars
    BY <1>4 DEF Wait
  <2>2. PacketTypeOK'
    BY <2>1 DEF packetvars, PacketInv, PacketTypeOK
  <2>3. ReaderOK' /\ ThirdByteOK' /\ SequenceNumberOK'
    BY <2>1 DEF packetvars, PacketInv, ReaderOK, Stored, Terminated, ThirdByteOK, SequenceNumberOK
  <2> QED
    BY <2>2, <2>3 DEF PacketInv
<1> QED
  BY <1>1, <1>2, <1>3, <1>4 DEF PacketNext, Read

\* The invariant holds of every run.
LEMMA PacketInvariant == PacketSpec => []PacketInv
<1>1. PacketInit => PacketInv
  BY PacketInitial
<1>2. PacketInv /\ [PacketNext]_packetvars => PacketInv'
  BY PacketStep
<1> QED
  BY <1>1, <1>2, PTL DEF PacketSpec

-----------------------------------------------------------------------------
\* For any line the index stays inside input_buffer, the terminator at most one
\* past it, in output_buffer[0].
THEOREM PacketTypes == PacketSpec => []PacketTypeOK
<1>1. PacketInv => PacketTypeOK
  BY DEF PacketInv
<1> QED
  BY <1>1, PacketInvariant, PTL

\* What the invariant says of the packet returned, byte by byte.
LEMMA Returned ==
  ASSUME PacketInv, reader = "returned", NEW i, i = pos - count - 3
  PROVE  /\ i \in Nat /\ i >= 1 /\ count \in Nat /\ pos = i + 3 + count /\ pos <= Len(line)
         /\ Stored(i) /\ Terminated /\ line[pos - 2] = Hash
         /\ \A k \in 1 .. count : Data(i, pos)[k] = line[i + k]
<1>1. /\ Stored(i) /\ Terminated /\ line[pos - 2] = Hash
      /\ count \in Nat /\ pos \in Nat /\ pos <= Len(line)
  BY LineOfBytes DEF PacketInv, PacketTypeOK, ReaderOK
<1>2. i \in Nat /\ i >= 1 /\ pos = i + 3 + count
  BY <1>1 DEF Stored
<1>3. \A p \in i + 1 .. pos - 3 : line[p] \in 0 .. 255
  BY <1>1, <1>2, LineOfBytes DEF PacketInv
<1>4. i + 1 \in Int /\ pos - 3 \in Int /\ (pos - 3) - (i + 1) + 1 = count
  BY <1>1, <1>2
<1>5. \A k \in 1 .. count : SubSeq(line, i + 1, pos - 3)[k] = line[(i + 1) + k - 1]
  BY <1>3, <1>4, SubSeqProperties
<1>6. \A k \in 1 .. count : Data(i, pos)[k] = line[i + k]
  BY <1>1, <1>2, <1>5 DEF Data
<1> QED
  BY <1>1, <1>2, <1>6

\* The framing half of DeliversOnlyFrames: what is returned is one packet of the
\* line, whole and unmixed.
THEOREM ReturnsOnlyFrames == PacketSpec => [](reader = "returned" => ReturnsFrame)
<1>1. PacketInv => (reader = "returned" => ReturnsFrame)
  <2> SUFFICES ASSUME PacketInv, reader = "returned" PROVE ReturnsFrame
    OBVIOUS
  <2> DEFINE i == pos - count - 3
  <2>1. /\ i \in Nat /\ i >= 1 /\ count \in Nat /\ pos = i + 3 + count /\ pos <= Len(line)
        /\ Stored(i) /\ Terminated /\ line[pos - 2] = Hash
        /\ \A k \in 1 .. count : Data(i, pos)[k] = line[i + k]
    BY Returned
  <2> HIDE DEF i
  <2>2. \A k \in 1 .. count : buffer[k - 1] = line[i + k] /\ line[i + k] \notin {Dollar, Hash}
    <3> TAKE k \in 1 .. count
    <3>1. k - 1 \in 0 .. count - 1 /\ i + 1 + (k - 1) = i + k
      BY <2>1
    <3> QED
      BY <2>1, <3>1 DEF Stored
  <2>3. \A k \in i + 1 .. pos - 3 : line[k] \notin {Dollar, Hash}
    <3> TAKE k \in i + 1 .. pos - 3
    <3>1. k - i \in 1 .. count /\ i + (k - i) = k
      BY <2>1
    <3> QED
      BY <2>2, <3>1
  <2>4. Framed(i, pos)
    BY <2>1, <2>3 DEF Framed, Stored
  <2> QED
    BY <2>1, <2>2, <2>4 DEF ReturnsFrame, Terminated, i
<1> QED
  BY <1>1, PacketInvariant, PTL

\* A sequence number is skipped if there is one, but for packets of less than two
\* bytes after a packet that left a ':' in the buffer.
THEOREM PacketsMisreadOnlyAfterColon == PacketSpec => []MisreadOnlyAfterColon
<1>1. PacketInv => MisreadOnlyAfterColon
  <2> SUFFICES ASSUME PacketInv, reader = "returned" PROVE MisreadOnlyAfterColon
    BY DEF MisreadOnlyAfterColon
  <2> DEFINE i == pos - count - 3
  <2>1. /\ i \in Nat /\ i >= 1 /\ count \in Nat /\ pos = i + 3 + count
        /\ Stored(i) /\ Terminated /\ line[pos - 2] = Hash
        /\ \A k \in 1 .. count : Data(i, pos)[k] = line[i + k]
    BY Returned
  <2>2. packet = IF buffer[2] = Colon THEN 3 ELSE 0
    BY DEF PacketInv, SequenceNumberOK
  <2> HIDE DEF i
  <2>3. CASE count >= 3
    <3>1. 2 \in 0 .. count - 1 /\ 3 \in 1 .. count /\ i + 1 + 2 = i + 3
      BY <2>1, <2>3
    <3>2. buffer[2] = Data(i, pos)[3]
      BY <2>1, <3>1 DEF Stored
    <3> QED
      BY <2>2, <2>3, <3>2 DEF MisreadOnlyAfterColon, i
  <2>4. CASE count = 2
    <3>1. packet = 0
      BY <2>1, <2>2, <2>4 DEF Terminated, Colon
    <3> QED
      BY <2>4, <3>1 DEF MisreadOnlyAfterColon
  <2>5. CASE count < 2 /\ buffer[2] # Colon
    BY <2>1, <2>2, <2>5 DEF MisreadOnlyAfterColon
  <2>6. CASE count < 2 /\ buffer[2] = Colon
    <3>1. PICK k \in 1 .. pos - 3 : /\ line[k] = Dollar /\ line[k + 3] = Colon
                                    /\ line[k + 1] \notin {Dollar, Hash}
                                    /\ line[k + 2] \notin {Dollar, Hash}
      BY <2>6 DEF PacketInv, ThirdByteOK, Colon
    <3>2. k + 1 # pos - 2
      BY <2>1, <3>1
    <3>3. k \in 1 .. pos - 4
      BY <2>1, <3>1, <3>2
    <3> QED
      BY <2>2, <2>6, <3>1, <3>3 DEF MisreadOnlyAfterColon
  <2> QED
    BY <2>1, <2>3, <2>4, <2>5, <2>6
<1> QED
  BY <1>1, PacketInvariant, PTL

-----------------------------------------------------------------------------
(***************************************************************************)
(* The sum of a packet's bytes.  Sum256 is a recursive function on the     *)
(* prefixes; that it has the values its recursion says is an induction on  *)
(* their length, done here with the least prefix that would not.           *)
(***************************************************************************)
\* A set of numbers that is not empty has a least one.
LEMMA LeastElement ==
  ASSUME NEW S, S \subseteq Nat, S # {}
  PROVE  \E k \in S : \A j \in S : k <= j
<1>1. PICK k \in S : \A j \in S : <<j, k>> \notin OpToRel(<, Nat)
  BY NatLessThanWellFounded, WFMin
<1>2. ASSUME NEW j \in S
      PROVE  k <= j
  <2>1. ~(j < k)
    BY <1>1, <1>2 DEF OpToRel
  <2>. QED  BY <2>1
<1>. QED  BY <1>2

\* The sums of the prefixes of s, as the recursion of Sum256 defines them.
SumsOf(s, sum) ==
  sum = [k \in 0 .. Len(s) |-> IF k = 0 THEN 0 ELSE (sum[k - 1] + s[k]) % 256]

\* By induction on the length, the recursion has a solution, in bytes ...
LEMMA SumsExist ==
  ASSUME NEW s \in Seq(0 .. 255)
  PROVE  \E sum \in [0 .. Len(s) -> 0 .. 255] : SumsOf(s, sum)
<1> DEFINE Upto(n, sum) == /\ sum \in [0 .. n -> 0 .. 255] /\ sum[0] = 0
                           /\ \A k \in 1 .. n : sum[k] = (sum[k - 1] + s[k]) % 256
           Bad == {n \in 0 .. Len(s) : ~ \E sum : Upto(n, sum)}
<1>1. Len(s) \in Nat
  OBVIOUS
<1>2. Upto(0, [k \in 0 .. 0 |-> 0])
  OBVIOUS
<1>3. ASSUME NEW n \in 1 .. Len(s), NEW f, Upto(n - 1, f)
      PROVE  \E sum : Upto(n, sum)
  <2> DEFINE b == (f[n - 1] + s[n]) % 256
             g == [k \in 0 .. n |-> IF k = n THEN b ELSE f[k]]
  <2>0. n \in Nat /\ n >= 1 /\ n - 1 \in Nat
    BY <1>1
  <2>1. b \in 0 .. 255
    <3>1. f[n - 1] \in 0 .. 255
      <4>1. f \in [0 .. n - 1 -> 0 .. 255] /\ n - 1 \in 0 .. n - 1
        BY <1>3, <2>0
      <4> QED
        BY <4>1
    <3>2. s[n] \in 0 .. 255
      BY <1>1, ElementOfSeq
    <3>3. \A x, y \in 0 .. 255 : x + y \in Int
      OBVIOUS
    <3>4. f[n - 1] + s[n] \in Int
      BY <3>1, <3>2, <3>3
    <3> QED
      BY <3>4, Wraps
  <2> HIDE DEF b
  <2>2. g \in [0 .. n -> 0 .. 255]
    BY <1>3, <2>0, <2>1
  <2>3. g[0] = 0
    BY <1>3, <2>0
  <2>4. ASSUME NEW k \in 1 .. n
        PROVE  g[k] = (g[k - 1] + s[k]) % 256
    <3>1. k - 1 \in 0 .. n /\ k - 1 # n /\ k \in 0 .. n
      BY <2>0
    <3>2. g[k - 1] = f[k - 1]
      BY <3>1
    <3>3. CASE k = n
      BY <3>1, <3>2, <3>3 DEF b
    <3>4. CASE k # n
      <4>1. k \in 1 .. n - 1
        BY <2>0, <3>4
      <4>2. g[k] = f[k]
        BY <3>1, <3>4
      <4> QED
        BY <1>3, <3>2, <4>1, <4>2
    <3> QED
      BY <3>3, <3>4
  <2> HIDE DEF g
  <2>5. Upto(n, g)
    BY <2>2, <2>3, <2>4
  <2> QED
    BY <2>5
<1> HIDE DEF Upto
<1>4. Bad = {}
  <2> SUFFICES ASSUME Bad # {} PROVE FALSE
    OBVIOUS
  <2>1. PICK n \in Bad : \A j \in Bad : n <= j
    <3>1. Bad \subseteq Nat
      BY <1>1
    <3> QED
      BY <3>1, LeastElement
  <2>2. n \in 0 .. Len(s) /\ ~ \E sum : Upto(n, sum)
    OBVIOUS
  <2>3. n # 0
    BY <1>2, <2>2
  <2>4. n - 1 \in 0 .. Len(s) /\ n - 1 \notin Bad /\ n \in 1 .. Len(s)
    BY <1>1, <2>1, <2>2, <2>3
  <2>5. PICK f : Upto(n - 1, f)
    BY <2>4
  <2> QED
    BY <1>3, <2>2, <2>4, <2>5
<1>5. PICK sum : Upto(Len(s), sum)
  BY <1>1, <1>4
<1>6. /\ sum \in [0 .. Len(s) -> 0 .. 255] /\ sum[0] = 0
      /\ \A k \in 1 .. Len(s) : sum[k] = (sum[k - 1] + s[k]) % 256
  BY <1>5 DEF Upto
<1>7. SumsOf(s, sum)
  <2>1. ASSUME NEW k \in 0 .. Len(s)
        PROVE  sum[k] = IF k = 0 THEN 0 ELSE (sum[k - 1] + s[k]) % 256
    BY <1>1, <1>6
  <2> QED
    BY <1>6, <2>1 DEF SumsOf
<1> QED
  BY <1>6, <1>7

\* ... and only one.
LEMMA SumsUnique ==
  ASSUME NEW s \in Seq(0 .. 255), NEW f, NEW g, SumsOf(s, f), SumsOf(s, g)
  PROVE  f = g
<1> DEFINE Bad == {k \in 0 .. Len(s) : f[k] # g[k]}
<1>1. Len(s) \in Nat
  OBVIOUS
<1>2. \A k \in 0 .. Len(s) : f[k] = IF k = 0 THEN 0 ELSE (f[k - 1] + s[k]) % 256
  BY DEF SumsOf
<1>3. \A k \in 0 .. Len(s) : g[k] = IF k = 0 THEN 0 ELSE (g[k - 1] + s[k]) % 256
  BY DEF SumsOf
<1>4. Bad = {}
  <2> SUFFICES ASSUME Bad # {} PROVE FALSE
    OBVIOUS
  <2>1. PICK n \in Bad : \A j \in Bad : n <= j
    <3>1. Bad \subseteq Nat
      BY <1>1
    <3> QED
      BY <3>1, LeastElement
  <2>2. n \in 0 .. Len(s) /\ f[n] # g[n] /\ n # 0
    BY <1>1, <1>2, <1>3
  <2>3. n - 1 \in 0 .. Len(s) /\ n - 1 \notin Bad
    BY <1>1, <2>1, <2>2
  <2>4. f[n - 1] = g[n - 1]
    BY <2>3
  <2> QED
    BY <1>2, <1>3, <2>2, <2>4
<1>5. \A k \in 0 .. Len(s) : f[k] = g[k]
  BY <1>4
<1>6. f = [k \in 0 .. Len(s) |-> f[k]] /\ g = [k \in 0 .. Len(s) |-> g[k]]
  BY DEF SumsOf
<1> QED
  BY <1>5, <1>6

\* Sum256 is the last sum of any solution.
LEMMA SumOf ==
  ASSUME NEW s \in Seq(0 .. 255), NEW sum, SumsOf(s, sum)
  PROVE  Sum256(s) = sum[Len(s)]
<1> DEFINE chosen == CHOOSE f : SumsOf(s, f)
<1>1. SumsOf(s, chosen)
  OBVIOUS
<1>2. Sum256(s) = chosen[Len(s)]
  BY DEF Sum256, SumsOf
<1>3. chosen = sum
  BY <1>1, SumsUnique
<1> QED
  BY <1>2, <1>3

\* The empty sum, and the sum with one byte more.
LEMMA SumEmpty == Sum256(<<>>) = 0
<1>1. <<>> \in Seq(0 .. 255) /\ Len(<<>>) = 0
  OBVIOUS
<1>2. PICK sum : SumsOf(<<>>, sum)
  BY <1>1, SumsExist
<1>3. sum[0] = 0
  BY <1>1, <1>2 DEF SumsOf
<1> QED
  BY <1>1, <1>2, <1>3, SumOf

LEMMA SumAppend ==
  ASSUME NEW s \in Seq(0 .. 255), NEW b \in 0 .. 255
  PROVE  Sum256(Append(s, b)) = (Sum256(s) + b) % 256
<1> DEFINE t == Append(s, b)
           n == Len(s)
<1>1. /\ t \in Seq(0 .. 255) /\ n \in Nat /\ Len(t) = n + 1 /\ t[n + 1] = b
      /\ \A k \in 1 .. n : t[k] = s[k]
  BY AppendProperties
<1> HIDE DEF t
<1>2. PICK sum : SumsOf(t, sum)
  BY <1>1, SumsExist
<1>3. \A k \in 0 .. n + 1 : sum[k] = IF k = 0 THEN 0 ELSE (sum[k - 1] + t[k]) % 256
  BY <1>1, <1>2 DEF SumsOf
<1> DEFINE prefix == [k \in 0 .. n |-> sum[k]]
<1>4. SumsOf(s, prefix)
  <2>1. ASSUME NEW k \in 0 .. n
        PROVE  sum[k] = IF k = 0 THEN 0 ELSE (prefix[k - 1] + s[k]) % 256
    <3>1. CASE k = 0
      BY <1>1, <1>3, <3>1
    <3>2. CASE k # 0
      <4>1. k \in 1 .. n /\ k - 1 \in 0 .. n /\ k \in 0 .. n + 1
        BY <1>1, <3>2
      <4>2. prefix[k - 1] = sum[k - 1] /\ t[k] = s[k]
        BY <1>1, <4>1
      <4> QED
        BY <1>3, <3>2, <4>1, <4>2
    <3> QED
      BY <3>1, <3>2
  <2> QED
    BY <2>1 DEF SumsOf
<1>5. Sum256(s) = sum[n]
  <2>1. Sum256(s) = prefix[n]
    BY <1>4, SumOf
  <2> QED
    BY <1>1, <2>1
<1>6. Sum256(t) = sum[n + 1]
  BY <1>1, <1>2, SumOf
<1>7. sum[n + 1] = (sum[n] + b) % 256
  <2>1. n + 1 \in 0 .. n + 1 /\ n + 1 # 0 /\ (n + 1) - 1 = n
    BY <1>1
  <2> QED
    BY <1>1, <1>3, <2>1
<1> QED
  BY <1>5, <1>6, <1>7 DEF t

-----------------------------------------------------------------------------
(***************************************************************************)
(* The checksum: in the body and behind it, checksum is the sum of what is *)
(* in the buffer; at the second digit xmitcsum holds the first.            *)
(***************************************************************************)
Body == [k \in 1 .. count |-> buffer[k - 1]]

HighDigit(b) == (16 * hex_to_byte(b)) % 256

ChecksumOK ==
  /\ reader \in {"body", "digit1", "digit2", "returned"} => checksum = Sum256(Body)
  /\ reader = "digit2" => xmitcsum = HighDigit(line[pos])
  /\ reader = "returned" =>
       /\ checksum = xmitcsum
       /\ xmitcsum = (HighDigit(line[pos - 1]) + hex_to_byte(line[pos])) % 256

\* What is in the buffer is bytes.
LEMMA BodyBytes ==
  ASSUME PacketTypeOK
  PROVE  Body \in Seq(0 .. 255) /\ Len(Body) = count /\ count \in Nat
<1>1. count \in Nat /\ count <= IO_BUFFER_SIZE /\ IO_BUFFER_SIZE \in Nat
  BY PacketAssumption DEF PacketTypeOK
<1>2. \A k \in 1 .. count : buffer[k - 1] \in 0 .. 255
  <2> TAKE k \in 1 .. count
  <2>1. k - 1 \in 0 .. IO_BUFFER_SIZE
    BY <1>1
  <2> QED
    BY <2>1 DEF PacketTypeOK
<1>3. Body \in [1 .. count -> 0 .. 255]
  BY <1>2 DEF Body
<1> QED
  BY <1>1, <1>3, LenProperties

\* A step that leaves the bytes below count alone leaves the body alone.
LEMMA BodyStays ==
  ASSUME count' = count, \A k \in 1 .. count : buffer'[k - 1] = buffer[k - 1]
  PROVE  Body' = Body
BY DEF Body

\* The step of ChecksumOK, by action.  A '$' empties the body ...
LEMMA RetrySums == ASSUME Retry PROVE ChecksumOK'
<1>1. count' = 0 /\ checksum' = 0 /\ reader' = "body"
  BY DEF Retry
<1>2. Body' = <<>>
  BY <1>1 DEF Body
<1> QED
  BY <1>1, <1>2, SumEmpty DEF ChecksumOK

\* ... a byte stored is one byte more in the body and in the sum ...
LEMMA StoreSums == ASSUME PacketInv, ChecksumOK, Store PROVE ChecksumOK'
<1>1. /\ ch \in 0 .. 255 /\ reader = "body" /\ checksum' = (checksum + ch) % 256
      /\ count' = count + 1 /\ count \in Nat /\ count < IO_BUFFER_SIZE
  <2>1. ch \in 0 .. 255 /\ reader = "body"
    BY GetcByte DEF PacketInv, Store
  <2>2. count \in Nat /\ count < IO_BUFFER_SIZE
    BY <2>1, BodyBytes DEF PacketInv, ReaderOK
  <2> QED
    BY <2>1, <2>2 DEF Store
<1>2. CASE reader' = "hunt"
  BY <1>2 DEF ChecksumOK
<1>3. CASE reader' # "hunt"
  <2>1. buffer' = [buffer EXCEPT ![count] = ch] /\ reader' = "body"
    BY <1>1, <1>3 DEF Store
  <2>2. /\ buffer'[count] = ch
        /\ \A k \in 1 .. count : buffer'[k - 1] = buffer[k - 1]
    <3>1. count \in 0 .. IO_BUFFER_SIZE
      BY <1>1, PacketAssumption
    <3>2. buffer'[count] = ch
      BY <2>1, <3>1 DEF PacketInv, PacketTypeOK
    <3>3. ASSUME NEW k \in 1 .. count
          PROVE  buffer'[k - 1] = buffer[k - 1]
      <4>1. k - 1 \in 0 .. IO_BUFFER_SIZE /\ k - 1 # count
        BY <1>1, PacketAssumption
      <4> QED
        BY <2>1, <4>1 DEF PacketInv, PacketTypeOK
    <3> QED
      BY <3>2, <3>3
  <2>3. Body \in Seq(0 .. 255) /\ Len(Body) = count
    BY BodyBytes DEF PacketInv
  <2>4. Body' = Append(Body, ch)
    <3>1. /\ Append(Body, ch) \in [1 .. count + 1 -> 0 .. 255]
          /\ Append(Body, ch)[count + 1] = ch
          /\ \A k \in 1 .. count : Append(Body, ch)[k] = Body[k]
      <4>1. /\ Append(Body, ch) \in Seq(0 .. 255) /\ Len(Append(Body, ch)) = count + 1
            /\ Append(Body, ch)[count + 1] = ch
            /\ \A k \in 1 .. count : Append(Body, ch)[k] = Body[k]
        <5>1. PICK body, b : body = Body /\ b = ch
          OBVIOUS
        <5>2. body \in Seq(0 .. 255) /\ b \in 0 .. 255 /\ Len(body) = count
          BY <1>1, <2>3, <5>1
        <5>3. /\ Append(body, b) \in Seq(0 .. 255) /\ Len(Append(body, b)) = count + 1
              /\ Append(body, b)[count + 1] = b
              /\ \A k \in 1 .. count : Append(body, b)[k] = body[k]
          BY <5>2, AppendProperties
        <5> QED
          BY <5>1, <5>3
      <4> QED
        BY <4>1, LenProperties
    <3>2. Body' = [k \in 1 .. count + 1 |-> buffer'[k - 1]]
      BY <1>1 DEF Body
    <3>3. ASSUME NEW k \in 1 .. count + 1
          PROVE  buffer'[k - 1] = Append(Body, ch)[k]
      <4>1. CASE k = count + 1
        <5>1. k - 1 = count
          BY <1>1, <4>1
        <5> QED
          BY <2>2, <3>1, <4>1, <5>1
      <4>2. CASE k # count + 1
        <5>1. k \in 1 .. count
          BY <1>1, <4>2
        <5>2. Body[k] = buffer[k - 1]
          BY <5>1 DEF Body
        <5> QED
          BY <2>2, <3>1, <5>1, <5>2
      <4> QED
        BY <4>1, <4>2
    <3> QED
      BY <3>1, <3>2, <3>3
  <2>5. Sum256(Append(Body, ch)) = (Sum256(Body) + ch) % 256
    BY <1>1, <2>3, SumAppend
  <2>6. checksum = Sum256(Body)
    BY <1>1 DEF ChecksumOK
  <2> QED
    BY <1>1, <2>1, <2>4, <2>5, <2>6 DEF ChecksumOK
<1> QED
  BY <1>2, <1>3

\* ... the terminator goes behind the body ...
LEMMA EndBodySums == ASSUME PacketInv, ChecksumOK, EndBody PROVE ChecksumOK'
<1>1. /\ reader = "body" /\ reader' = "digit1" /\ count' = count /\ checksum' = checksum
      /\ buffer' = [buffer EXCEPT ![count] = 0] /\ count \in Nat /\ count < IO_BUFFER_SIZE
  BY PacketAssumption DEF EndBody, Getc, PacketInv, PacketTypeOK, ReaderOK
<1>2. \A k \in 1 .. count : buffer'[k - 1] = buffer[k - 1]
  <2> TAKE k \in 1 .. count
  <2>1. k - 1 \in 0 .. IO_BUFFER_SIZE /\ k - 1 # count
    BY <1>1, PacketAssumption
  <2> QED
    BY <1>1, <2>1 DEF PacketInv, PacketTypeOK
<1>3. Body' = Body
  BY <1>1, <1>2, BodyStays
<1> QED
  BY <1>1, <1>3 DEF ChecksumOK

\* ... and the digits leave it alone.
LEMMA DigitSums == ASSUME PacketInv, ChecksumOK, Digit1 \/ Accept PROVE ChecksumOK'
<1>1. /\ count' = count /\ checksum' = checksum /\ buffer' = buffer
      /\ reader \in {"digit1", "digit2"}
      /\ pos' = pos + 1 /\ line' = line /\ line[pos'] = ch
  BY GetcByte DEF PacketInv, Digit1, Accept
<1>2. Body' = Body
  BY <1>1, BodyStays
<1>3. checksum' = Sum256(Body')
  BY <1>1, <1>2 DEF ChecksumOK
<1>4. CASE Digit1
  <2>1. xmitcsum' = HighDigit(line[pos'])
    BY <1>1, <1>4 DEF Digit1, HighDigit
  <2> QED
    BY <1>1, <1>3, <1>4, <2>1 DEF ChecksumOK, Digit1
<1>5. CASE Accept
  <2>1. /\ reader = "digit2" /\ reader' = "returned" /\ checksum = xmitcsum'
        /\ xmitcsum' = (xmitcsum + hex_to_byte(ch)) % 256
    BY <1>5 DEF Accept, Getc
  <2>2. xmitcsum = HighDigit(line[pos])
    BY <2>1 DEF ChecksumOK
  <2>3. pos' - 1 = pos
    BY <1>1, LineOfBytes DEF PacketInv, PacketTypeOK
  <2> QED
    BY <1>1, <1>3, <2>1, <2>2, <2>3 DEF ChecksumOK
<1> QED
  BY <1>4, <1>5

\* Whatever the line, checksum is the sum of the body read so far.
LEMMA ChecksumInvariant == PacketSpec => []ChecksumOK
<1>1. PacketInit => ChecksumOK
  BY DEF PacketInit, ChecksumOK
<1>2. PacketInv /\ ChecksumOK /\ [PacketNext]_packetvars => ChecksumOK'
  <2> SUFFICES ASSUME PacketInv, ChecksumOK, [PacketNext]_packetvars PROVE ChecksumOK'
    OBVIOUS
  <2>1. CASE Begin \/ Restart
    BY <2>1, RetrySums DEF Begin, Restart
  <2>2. CASE Store \/ EndBody \/ Digit1 \/ Accept
    BY <2>2, StoreSums, EndBodySums, DigitSums
  <2>3. CASE Skip \/ Reject \/ CallAgain
    <3>1. reader' = "hunt"
      BY <2>3 DEF Skip, Getc, Reject, CallAgain
    <3> QED
      BY <3>1 DEF ChecksumOK
  <2>4. CASE Wait \/ UNCHANGED packetvars
    <3>1. UNCHANGED packetvars
      BY <2>4 DEF Wait
    <3> QED
      BY <3>1 DEF packetvars, ChecksumOK, Body
  <2> QED
    BY <2>1, <2>2, <2>3, <2>4 DEF PacketNext, Read
<1> QED
  BY <1>1, <1>2, PacketInvariant, PTL DEF PacketSpec

\* The body is what came between '$' and '#'.
LEMMA BodyIsData ==
  ASSUME PacketTypeOK, NEW i, Stored(i), i + count <= Len(line), i \in Nat
  PROVE  Body = Data(i, i + count + 3)
<1>1. count \in Nat /\ Body \in Seq(0 .. 255) /\ Len(line) \in Nat
  BY BodyBytes, LineOfBytes
<1>2. (i + count + 3) - 3 = i + count /\ i >= 1
  BY <1>1 DEF Stored
<1>3. Data(i, i + count + 3) = SubSeq(line, i + 1, i + count)
  BY <1>2 DEF Data
<1>4. ASSUME NEW p \in i + 1 .. i + count
      PROVE  line[p] \in 0 .. 255
  <2>1. p \in 1 .. Len(line)
    BY <1>1, <1>2
  <2> QED
    BY <2>1, LineOfBytes
<1> DEFINE data == SubSeq(line, i + 1, i + count)
<1>5. /\ data \in Seq(0 .. 255) /\ Len(data) = count
      /\ \A k \in 1 .. count : data[k] = line[(i + 1) + k - 1]
  <2>1. i + 1 \in Int /\ i + count \in Int /\ (i + count) - (i + 1) + 1 = count
    BY <1>1
  <2>2. /\ data \in Seq(0 .. 255)
        /\ Len(data) = IF i + 1 <= i + count THEN (i + count) - (i + 1) + 1 ELSE 0
        /\ \A k \in 1 .. (i + count) - (i + 1) + 1 : data[k] = line[(i + 1) + k - 1]
    BY <1>4, <2>1, SubSeqProperties
  <2> HIDE DEF data
  <2>3. Len(data) = count
    BY <1>1, <2>1, <2>2
  <2> QED
    BY <2>1, <2>2, <2>3
<1> HIDE DEF data
<1>6. ASSUME NEW k \in 1 .. count
      PROVE  Body[k] = data[k]
  <2>1. k - 1 \in 0 .. count - 1 /\ i + 1 + (k - 1) = (i + 1) + k - 1
    BY <1>1
  <2>2. Body[k] = buffer[k - 1]
    BY DEF Body
  <2> QED
    BY <1>5, <2>1, <2>2 DEF Stored
<1>7. Len(Body) = count
  BY BodyBytes
<1> QED
  BY <1>1, <1>3, <1>5, <1>6, <1>7, SeqEqual DEF data

\* Two hex digits make their byte without overflow.
LEMMA HexDigits ==
  ASSUME NEW x \in 0 .. 255, NEW y \in 0 .. 255, IsHex(x), IsHex(y)
  PROVE  (HighDigit(x) + hex_to_byte(y)) % 256 = 16 * hex_to_byte(x) + hex_to_byte(y)
<1> DEFINE h == hex_to_byte(x)
           l == hex_to_byte(y)
<1>1. h \in 0 .. 15 /\ l \in 0 .. 15
  BY HexDigit DEF IsHex
<1> HIDE DEF h, l
<1>2. (((16 * h) % 256) + l) % 256 = 16 * h + l
  BY <1>1
<1> QED
  BY <1>2 DEF h, l, HighDigit

\* Whatever the bytes on the line, gdb_read_packet returns whole packets only, and
\* of those that end in hex digits only the ones whose checksum is right.
THEOREM DeliversFrames == PacketSpec => []DeliversOnlyFrames
<1>1. PacketInv /\ ChecksumOK /\ (reader = "returned" => ReturnsFrame) => DeliversOnlyFrames
  <2> SUFFICES ASSUME PacketInv, ChecksumOK, reader = "returned", HexSum(pos)
               PROVE  Sum256(Data(pos - count - 3, pos)) = Digits(pos)
    BY DEF DeliversOnlyFrames
  <2>1. PICK i : i = pos - count - 3
    OBVIOUS
  <2>2. /\ i \in Nat /\ i >= 1 /\ count \in Nat /\ pos = i + 3 + count /\ pos <= Len(line)
        /\ Stored(i)
    BY <2>1, Returned
  <2>3. Len(line) \in Nat /\ pos - 1 \in 1 .. Len(line) /\ pos \in 1 .. Len(line)
    BY <2>2, LineOfBytes DEF PacketInv
  <2>4. Body = Data(i, pos)
    <3>1. i + count <= Len(line) /\ i + count + 3 = pos
      BY <2>2, <2>3
    <3> QED
      BY <2>2, <3>1, BodyIsData DEF PacketInv
  <2>5. Sum256(Data(i, pos)) = (HighDigit(line[pos - 1]) + hex_to_byte(line[pos])) % 256
    BY <2>4 DEF ChecksumOK
  <2>6. line[pos - 1] \in 0 .. 255 /\ line[pos] \in 0 .. 255
    BY <2>3, LineOfBytes DEF PacketInv
  <2> QED
    BY <2>1, <2>5, <2>6, HexDigits DEF HexSum, Digits
<1> QED
  BY <1>1, PacketInvariant, ChecksumInvariant, ReturnsOnlyFrames, PTL

-----------------------------------------------------------------------------
(***************************************************************************)
(* No packet is lost: gdb_read_packet follows every packet that is opened  *)
(* by a '$' it cannot take for a digit, whatever it was doing before.      *)
(***************************************************************************)

\* A packet opened at i, with n bytes of body, none of them '$' or '#'.
Opened(i, n) ==
  /\ line[i] = Dollar /\ Heard(i)
  /\ \A k \in i + 1 .. i + n : line[k] \notin {Dollar, Hash}

Follows(i, n) ==
  /\ pos = i + n /\ Opened(i, n) => reader = "body" /\ count = n
  /\ pos = i + n + 1 /\ Opened(i, n) /\ line[i + n + 1] = Hash
       => reader = "digit1" /\ count = n
  /\ pos = i + n + 2 /\ Opened(i, n) /\ line[i + n + 1] = Hash
       => reader = "digit2" /\ count = n

FollowOK ==
  \A i \in Nat, n \in Nat :
    i >= 1 /\ i <= pos /\ n < IO_BUFFER_SIZE => Follows(i, n)

\* What a getc does, by the place it is called from.
LEMMA ReadByPlace ==
  ASSUME PacketTypeOK, Read
  PROVE  /\ pos \in Nat /\ pos' = pos + 1 /\ pos' <= Len(line) /\ line' = line
         /\ ch = line[pos'] /\ reader # "returned"
         /\ reader = "hunt" => (ch = Dollar => reader' = "body" /\ count' = 0)
         /\ reader = "body" => /\ ch = Dollar => reader' = "body" /\ count' = 0
                               /\ ch = Hash => reader' = "digit1" /\ count' = count
                               /\ ch \notin {Dollar, Hash} => Store
         /\ reader = "digit1" => reader' = "digit2" /\ count' = count
         /\ reader = "digit2" => Reject \/ Accept
<1>1. PICK at : at \in {"hunt", "body", "digit1", "digit2"} /\ Getc(at)
  BY DEF Read, Skip, Begin, Restart, Store, EndBody, Digit1, Reject, Accept
<1>2. /\ pos \in Nat /\ pos' = pos + 1 /\ pos' <= Len(line) /\ line' = line
      /\ ch = line[pos'] /\ reader = at
  <2>1. pos \in Nat /\ Len(line) \in Nat
    BY LineOfBytes DEF PacketTypeOK
  <2>2. /\ pos' = pos + 1 /\ pos' \in 1 .. Len(line) /\ line' = line
        /\ line[pos'] = ch /\ reader = at
    BY <1>1, GetcByte
  <2> QED
    BY <2>1, <2>2
<1>3. reader = "hunt" => (ch = Dollar => reader' = "body" /\ count' = 0)
  BY DEF Read, Skip, Begin, Restart, Store, EndBody, Digit1, Reject, Accept, Getc, Retry
<1>4. reader = "body" => /\ ch = Dollar => reader' = "body" /\ count' = 0
                         /\ ch = Hash => reader' = "digit1" /\ count' = count
                         /\ ch \notin {Dollar, Hash} => Store
  <2> SUFFICES ASSUME reader = "body"
               PROVE  /\ ch = Dollar => reader' = "body" /\ count' = 0
                      /\ ch = Hash => reader' = "digit1" /\ count' = count
                      /\ ch \notin {Dollar, Hash} => Store
    OBVIOUS
  <2>1. Restart \/ Store \/ EndBody
    BY DEF Read, Skip, Begin, Digit1, Reject, Accept, Getc
  <2>2. CASE Restart
    BY <2>2 DEF Restart, Retry, Dollar, Hash
  <2>3. CASE Store
    BY <2>3 DEF Store
  <2>4. CASE EndBody
    BY <2>4 DEF EndBody, Dollar, Hash
  <2> QED
    BY <2>1, <2>2, <2>3, <2>4
<1>5. reader = "digit1" => reader' = "digit2" /\ count' = count
  BY DEF Read, Skip, Begin, Restart, Store, EndBody, Digit1, Reject, Accept, Getc
<1>6. reader = "digit2" => Reject \/ Accept
  BY DEF Read, Skip, Begin, Restart, Store, EndBody, Digit1, Getc
<1> QED
  BY <1>1, <1>2, <1>3, <1>4, <1>5, <1>6

\* A '$' that is heard opens a packet, wherever it is read.
LEMMA DollarOpens ==
  ASSUME PacketInv, Read, line[pos'] = Dollar, Heard(pos')
  PROVE  reader' = "body" /\ count' = 0
<1>1. /\ pos \in Nat /\ pos' = pos + 1 /\ ch = Dollar /\ reader # "returned"
      /\ reader = "hunt" => reader' = "body" /\ count' = 0
      /\ reader = "body" => reader' = "body" /\ count' = 0
  BY ReadByPlace DEF PacketInv
<1>2. \A k \in {pos, pos - 1} : k >= 1 => line[k] # Hash
  <2>1. pos' - 1 = pos /\ pos' - 2 = pos - 1
    BY <1>1
  <2> QED
    BY <2>1 DEF Heard
<1>3. reader # "digit1"
  <2> SUFFICES ASSUME reader = "digit1" PROVE FALSE
    OBVIOUS
  <2>1. Stored(pos - count - 1) /\ line[pos] = Hash /\ count \in Nat
    BY BodyBytes DEF PacketInv, ReaderOK
  <2>2. pos >= 1
    BY <1>1, <2>1 DEF Stored
  <2> QED
    BY <1>2, <2>1, <2>2
<1>4. reader # "digit2"
  <2> SUFFICES ASSUME reader = "digit2" PROVE FALSE
    OBVIOUS
  <2>1. Stored(pos - count - 2) /\ line[pos - 1] = Hash /\ count \in Nat
    BY BodyBytes DEF PacketInv, ReaderOK
  <2>2. pos - 1 >= 1
    BY <1>1, <2>1 DEF Stored
  <2> QED
    BY <1>2, <2>1, <2>2
<1> QED
  BY <1>1, <1>3, <1>4 DEF PacketInv, PacketTypeOK, Readers

\* A byte read takes the reader from one place of a packet to the next.
LEMMA ReadFollows ==
  ASSUME PacketInv, FollowOK, Read,
         NEW i \in Nat, NEW n \in Nat, i >= 1, i <= pos', n < IO_BUFFER_SIZE
  PROVE  Follows(i, n)'
<1>1. /\ pos \in Nat /\ pos' = pos + 1 /\ line' = line /\ ch = line[pos']
      /\ reader = "body" => /\ ch = Hash => reader' = "digit1" /\ count' = count
                            /\ ch \notin {Dollar, Hash} => Store
      /\ reader = "digit1" => reader' = "digit2" /\ count' = count
  BY ReadByPlace DEF PacketInv
<1>2. Opened(i, n)' = Opened(i, n)
  BY <1>1 DEF Opened, Heard
<1>3. ASSUME pos' = i + n, Opened(i, n)
      PROVE  reader' = "body" /\ count' = n
  <2>1. CASE n = 0
    <3>1. pos' = i
      BY <1>3, <2>1
    <3> QED
      BY <1>3, <2>1, <3>1, DollarOpens DEF Opened
  <2>2. CASE n # 0
    <3>1. n - 1 \in Nat /\ n - 1 < IO_BUFFER_SIZE /\ i <= pos /\ pos = i + (n - 1)
      BY <1>1, <1>3, <2>2, PacketAssumption
    <3>2. Opened(i, n - 1)
      <4>1. \A k \in i + 1 .. i + (n - 1) : k \in i + 1 .. i + n
        BY <3>1
      <4> QED
        BY <1>3, <4>1 DEF Opened
    <3>3. reader = "body" /\ count = n - 1
      BY <3>1, <3>2 DEF FollowOK, Follows
    <3>4. ch \notin {Dollar, Hash}
      <4>1. pos' \in i + 1 .. i + n
        BY <1>1, <1>3, <2>2
      <4> QED
        BY <1>1, <1>3, <4>1 DEF Opened
    <3>5. Store
      BY <1>1, <3>3, <3>4
    <3>6. count' = n
      BY <3>3, <3>5 DEF Store
    <3> QED
      BY <3>3, <3>5, <3>6 DEF Store
  <2> QED
    BY <2>1, <2>2
<1>4. ASSUME pos' = i + n + 1, Opened(i, n), line[i + n + 1] = Hash
      PROVE  reader' = "digit1" /\ count' = n
  <2>1. pos = i + n /\ i <= pos
    BY <1>1, <1>4
  <2>2. reader = "body" /\ count = n
    BY <1>4, <2>1 DEF FollowOK, Follows
  <2> QED
    BY <1>1, <1>4, <2>2
<1>5. ASSUME pos' = i + n + 2, Opened(i, n), line[i + n + 1] = Hash
      PROVE  reader' = "digit2" /\ count' = n
  <2>1. pos = i + n + 1 /\ i <= pos
    BY <1>1, <1>5
  <2>2. reader = "digit1" /\ count = n
    BY <1>5, <2>1 DEF FollowOK, Follows
  <2> QED
    BY <1>1, <2>2
<1> QED
  BY <1>1, <1>2, <1>3, <1>4, <1>5 DEF Follows

\* Between two calls no packet is open: the last one was returned.
LEMMA CallAgainFollows == ASSUME FollowOK, CallAgain PROVE FollowOK'
<1>1. reader = "returned" /\ pos' = pos /\ line' = line
  BY DEF CallAgain
<1> SUFFICES ASSUME NEW i \in Nat, NEW n \in Nat, i >= 1, i <= pos, n < IO_BUFFER_SIZE
             PROVE  Follows(i, n)'
  BY <1>1 DEF FollowOK
<1>2. Follows(i, n)
  BY DEF FollowOK
<1>3. Opened(i, n)' = Opened(i, n)
  BY <1>1 DEF Opened, Heard
<1> QED
  BY <1>1, <1>2, <1>3 DEF Follows

\* Whatever the line, the reader is where the packets on it say.
LEMMA FollowInvariant == PacketSpec => []FollowOK
<1>1. PacketInit => FollowOK
  BY DEF PacketInit, FollowOK
<1>2. PacketInv /\ FollowOK /\ [PacketNext]_packetvars => FollowOK'
  <2> SUFFICES ASSUME PacketInv, FollowOK, [PacketNext]_packetvars PROVE FollowOK'
    OBVIOUS
  <2>1. CASE Read
    BY <2>1, ReadFollows DEF FollowOK
  <2>2. CASE CallAgain
    BY <2>2, CallAgainFollows
  <2>3. CASE Wait \/ UNCHANGED packetvars
    <3>1. UNCHANGED packetvars
      BY <2>3 DEF Wait
    <3> QED
      BY <3>1 DEF packetvars, FollowOK, Follows, Opened, Heard
  <2> QED
    BY <2>1, <2>2, <2>3 DEF PacketNext
<1> QED
  BY <1>1, <1>2, PacketInvariant, PTL DEF PacketSpec

\* The second digit of a packet that is heard and fits: the reader is there, with
\* the packet in the buffer.
LEMMA LastDigit ==
  ASSUME PacketInv, ChecksumOK, FollowOK, Read,
         NEW i \in 1 .. pos', Framed(i, pos'), Heard(i), pos' - i - 3 < IO_BUFFER_SIZE
  PROVE  /\ Reject \/ Accept
         /\ pos \in Nat /\ pos' = pos + 1 /\ ch = line[pos'] /\ pos' \in 1 .. Len(line)
         /\ pos \in 1 .. Len(line)
         /\ checksum = Sum256(Data(i, pos')) /\ xmitcsum = HighDigit(line[pos' - 1])
<1>1. /\ pos \in Nat /\ pos' = pos + 1 /\ ch = line[pos'] /\ pos' <= Len(line)
      /\ reader = "digit2" => Reject \/ Accept
  BY ReadByPlace DEF PacketInv
<1>2. PICK n : n = pos' - i - 3
  OBVIOUS
<1>3. /\ i \in Nat /\ i >= 1 /\ n \in Nat /\ n < IO_BUFFER_SIZE /\ pos = i + n + 2
      /\ i <= pos /\ Len(line) \in Nat /\ pos' = i + n + 3
      /\ line[i] = Dollar /\ line[pos' - 2] = Hash
      /\ \A k \in i + 1 .. pos' - 3 : line[k] \notin {Dollar, Hash}
  BY <1>1, <1>2, LineOfBytes DEF Framed, PacketInv
<1>4. pos' - 3 = i + n /\ pos' - 2 = i + n + 1 /\ pos' - 1 = pos
  BY <1>1, <1>3
<1>5. Opened(i, n) /\ line[i + n + 1] = Hash
  BY <1>3, <1>4 DEF Opened
<1>6. reader = "digit2" /\ count = n
  BY <1>3, <1>5 DEF FollowOK, Follows
<1>7. Stored(i)
  <2>1. pos - count - 2 = i
    BY <1>3, <1>6
  <2>2. Stored(pos - count - 2)
    BY <1>6 DEF PacketInv, ReaderOK
  <2> QED
    BY <2>1, <2>2
<1>8. Body = Data(i, pos')
  <2>1. i + count <= Len(line) /\ i + count + 3 = pos'
    BY <1>1, <1>3, <1>6
  <2> QED
    BY <1>3, <1>7, <2>1, BodyIsData DEF PacketInv
<1>9. checksum = Sum256(Body) /\ xmitcsum = HighDigit(line[pos])
  BY <1>6 DEF ChecksumOK
<1> QED
  BY <1>1, <1>3, <1>4, <1>6, <1>8, <1>9

\* The answer to it.
LEMMA LastDigitAnswered ==
  ASSUME PacketInv, ChecksumOK, FollowOK, Read,
         NEW i \in 1 .. pos', Framed(i, pos'), Heard(i), pos' - i - 3 < IO_BUFFER_SIZE,
         HexSum(pos')
  PROVE  IF Sum256(Data(i, pos')) = Digits(pos')
         THEN reader' = "returned" /\ (no_ack_mode \/ answer'[1] = Plus)
         ELSE reader' = "hunt" /\ (no_ack_mode \/ answer' = <<Minus>>)
<1>1. /\ Reject \/ Accept
      /\ pos \in Nat /\ pos' = pos + 1 /\ ch = line[pos'] /\ pos' \in 1 .. Len(line)
      /\ pos \in 1 .. Len(line)
      /\ checksum = Sum256(Data(i, pos')) /\ xmitcsum = HighDigit(line[pos' - 1])
  BY LastDigit
<1>2. xmitcsum' = (xmitcsum + hex_to_byte(ch)) % 256
  BY <1>1 DEF Reject, Accept
<1>3. xmitcsum' = Digits(pos')
  <2>1. pos' - 1 = pos
    BY <1>1
  <2>2. line[pos] \in 0 .. 255 /\ line[pos'] \in 0 .. 255
    BY <1>1, LineOfBytes DEF PacketInv
  <2> QED
    BY <1>1, <1>2, <2>1, <2>2, HexDigits DEF HexSum, Digits
<1>4. CASE Reject
  <2>1. Sum256(Data(i, pos')) # Digits(pos')
    BY <1>1, <1>3, <1>4 DEF Reject
  <2>2. reader' = "hunt" /\ (no_ack_mode \/ answer' = <<Minus>>)
    BY <1>4 DEF Reject, Put
  <2> QED
    BY <2>1, <2>2
<1>5. CASE Accept
  <2>1. Sum256(Data(i, pos')) = Digits(pos') /\ reader' = "returned"
    BY <1>1, <1>3, <1>5 DEF Accept
  <2>2. no_ack_mode \/ answer'[1] = Plus
    <3> SUFFICES ASSUME ~no_ack_mode PROVE answer'[1] = Plus
      OBVIOUS
    <3>1. CASE buffer[2] = Colon
      <4>1. answer' = <<Plus>> \o <<buffer[0], buffer[1]>>
        BY <1>5, <3>1 DEF Accept
      <4>2. <<Plus>> \in Seq(0 .. 255) /\ <<buffer[0], buffer[1]>> \in Seq(0 .. 255)
        <5>1. buffer[0] \in 0 .. 255 /\ buffer[1] \in 0 .. 255
          BY PacketAssumption DEF PacketInv, PacketTypeOK
        <5> QED
          BY <5>1 DEF Plus
      <4> QED
        BY <4>1, <4>2, ConcatProperties
    <3>2. CASE buffer[2] # Colon
      BY <1>5, <3>2 DEF Accept, Put
    <3> QED
      BY <3>1, <3>2
  <2> QED
    BY <2>1, <2>2
<1> QED
  BY <1>1, <1>4, <1>5

\* Whatever came before it on the line, every packet that is heard and fits is
\* returned and acknowledged if its checksum is right, and asked for again if not.
THEOREM FramesAreAnswered == PacketSpec => EveryFrameAnswered
<1> DEFINE Answering ==
      \A i \in 1 .. pos' :
        pos' # pos /\ Framed(i, pos') /\ Heard(i)
          /\ pos' - i - 3 < IO_BUFFER_SIZE /\ HexSum(pos')
        => IF Sum256(Data(i, pos')) = Digits(pos')
           THEN reader' = "returned" /\ (no_ack_mode \/ answer'[1] = Plus)
           ELSE reader' = "hunt" /\ (no_ack_mode \/ answer' = <<Minus>>)
<1>1. PacketInv /\ ChecksumOK /\ FollowOK /\ [PacketNext]_packetvars => [Answering]_packetvars
  <2> SUFFICES ASSUME PacketInv, ChecksumOK, FollowOK, [PacketNext]_packetvars, pos' # pos
               PROVE  Answering
    OBVIOUS
  <2>1. Read
    BY DEF PacketNext, CallAgain, Wait, packetvars
  <2> QED
    BY <2>1, LastDigitAnswered
<1> QED
  BY <1>1, PacketInvariant, ChecksumInvariant, FollowInvariant, PTL DEF PacketSpec, EveryFrameAnswered
=============================================================================
