---------------------------- MODULE TextTransfer ----------------------------
(***************************************************************************)
(* What a chunk of the file goes through on its way into the copy, with    *)
(* nothing lost or reordered: the chunker of a2/sender.py reads text, the  *)
(* packets of a2/packet.py carry bytes, a2/receiver.py writes text again.  *)
(* The Go-Back-N modules take a chunk for what the other side writes; this *)
(* module says for which files that is so.                                 *)
(***************************************************************************)
EXTENDS Integers, Sequences

CONSTANTS
  Chars,           \* the characters a file may consist of
  Width,           \* the bytes of a character in UTF-8
  CR, LF,          \* carriage return and line feed
  MaxDataLength,   \* packet.MAX_DATA_LENGTH, 500 in the code
  MaxFile          \* characters of a file: a bound

\* What the theorems assume of them.
TextAssumption ==
  /\ Width \in [Chars -> 1 .. 4]
  /\ CR \in Chars => Width[CR] = 1
  /\ LF \in Chars /\ Width[LF] = 1
  /\ MaxDataLength \in Nat \ {0}
  /\ MaxFile \in Nat

VARIABLES
  file,     \* the file to send
  text,     \* what the chunker has still to read of it
  carried,  \* the data packet on its way, or Nothing
  copy,     \* what the receiver has written
  raised    \* the receiver has died of an exception

textvars == <<file, text, carried, copy, raised>>

Nothing == [length |-> 0, bytes |-> <<>>]

\* The k-th byte of a character is a pair.
Byte == {b \in Chars \X (1 .. 4) : b[2] <= Width[b[1]]}

\* str.encode()
Encode(string) ==
  LET before[i \in 0 .. Len(string)] == IF i = 0 THEN 0 ELSE before[i - 1] + Width[string[i]]
      at(n) == CHOOSE i \in 1 .. Len(string) : before[i - 1] < n /\ n <= before[i]
  IN [n \in 1 .. before[Len(string)] |-> <<string[at(n)], n - before[at(n) - 1]>>]

Strings(n) == UNION {[1 .. k -> Chars] : k \in 0 .. n}

\* bytes.decode() raises UnicodeDecodeError for bytes that encode no string:
\* here those of which the last character is cut.
Decodable(bytes) == \E string \in Strings(Len(bytes)) : Encode(string) = bytes
Decode(bytes) == CHOOSE string \in Strings(Len(bytes)) : Encode(string) = bytes

Shortest(a, b) == IF a <= b THEN a ELSE b

\* A file opened with mode 'r' has no CR: CR LF and CR alone are read as LF.
OpenedAsText(content) ==
  LET Line(i) == IF content[i] = CR THEN LF ELSE content[i]
      opened[i \in 0 .. Len(content)] ==
        IF i = 0 THEN <<>>
        ELSE IF content[i] = LF /\ i > 1 /\ content[i - 1] = CR THEN opened[i - 1]
        ELSE Append(opened[i - 1], Line(i))
  IN opened[Len(content)]

\* file.read(max_packet_data_size)
Read(rest) ==
  [chunk |-> SubSeq(rest, 1, Shortest(MaxDataLength, Len(rest))),
   rest |-> SubSeq(rest, MaxDataLength + 1, Len(rest))]

\* get_udp_data: the length field counts characters, the data are bytes.
Serialize(data) == [length |-> Len(data), bytes |-> Encode(data)]

\* parse_udp_data: as many bytes as the length field says.
DataBytes(p) == SubSeq(p.bytes, 1, Shortest(p.length, Len(p.bytes)))

TextInit ==
  /\ file \in Strings(MaxFile)
  /\ text = OpenedAsText(file)
  /\ carried = Nothing
  /\ copy = <<>>
  /\ raised = FALSE

SendChunk ==
  /\ carried = Nothing
  /\ text # <<>>
  /\ carried' = Serialize(Read(text).chunk)
  /\ text' = Read(text).rest
  /\ UNCHANGED <<file, copy, raised>>

\* udt_recv and, for a packet that is parsed, write; text written has LF as it
\* stands (the programs run on Linux).
ReceivePacket ==
  /\ ~raised
  /\ carried # Nothing
  /\ IF Decodable(DataBytes(carried))
     THEN copy' = copy \o Decode(DataBytes(carried)) /\ UNCHANGED raised
     ELSE raised' = TRUE /\ UNCHANGED copy
  /\ carried' = Nothing
  /\ UNCHANGED <<file, text>>

TextNext == SendChunk \/ ReceivePacket

TextSpec == TextInit /\ [][TextNext]_textvars

-----------------------------------------------------------------------------
TextTypeOK ==
  /\ file \in Seq(Chars)
  /\ text \in Seq(Chars \ {CR})
  /\ Len(text) <= Len(file)
  /\ carried.length \in 0 .. MaxDataLength   \* else packet.__init__ raises
  /\ carried.bytes \in Seq(Byte)
  /\ copy \in Seq(Chars \ {CR})
  /\ raised \in BOOLEAN

Finished == raised \/ (text = <<>> /\ carried = Nothing)

SingleByte == \A i \in 1 .. Len(file) : Width[file[i]] = 1

\* A file of one-byte characters arrives: the chunks put together again are the text,
\* and the file itself if it has no CR. Only for such a file do the length (characters)
\* and the data (bytes) of a packet agree.
PlainTextArrives ==
  Finished /\ SingleByte =>
    /\ ~raised
    /\ copy = OpenedAsText(file)
    /\ (\A i \in 1 .. Len(file) : file[i] # CR) => copy = file

\* README.md says of any file that comparing it with the copy "should output nothing",
\* and test.sh compares whatever file it is given (cmp $infile $outfile). But a
\* character of more than one byte is cut, and CR LF or CR becomes LF.
CopyIsFile == Finished => copy = file
=============================================================================
