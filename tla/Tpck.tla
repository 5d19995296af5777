-------------------------------- MODULE Tpck --------------------------------
(***************************************************************************)
(* TPCK framing, tpck.py: serialize() stuffs a packet into a frame, a      *)
(* serial line delivers the frame or a damaged one, in chunks that end     *)
(* anywhere, and each call of TpckParser.feed_many() takes a chunk, byte   *)
(* by byte, with feed().                                                   *)
(*                                                                         *)
(* The alphabet is a parameter: a byte is a number below Base, and         *)
(* checksums are taken modulo Base.  The code has Base = 256.              *)
(***************************************************************************)
EXTENDS Integers, Sequences, SequencesExt

CONSTANTS
    Base,           \* the number of byte values
    SOF, EOF, ESC,  \* the bytes that are stuffed
    Packets,        \* the packets that are sent
    Kept            \* bounds the results so far of a call that goes on with
                    \* another frame: a set of sequences of packets

Bytes == 0 .. Base - 1
Stuffed == {SOF, EOF, ESC}
Packet == [type : Bytes, data : {d \in Seq(Bytes) : Len(d) < Base}]

ASSUME ByteAssumption ==
    /\ Base \in Nat /\ Stuffed \subseteq Bytes
    /\ SOF # EOF /\ SOF # ESC /\ EOF # ESC
ASSUME PacketAssumption == Packets # {} /\ Packets \subseteq Packet

VARIABLES
    strict_checksum,    \* the parser's parameter
    state,              \* _state
    escaped,            \* _escaped
    length, type, data, \* _length, _type, _data
    frame_checksum,     \* _checksum
    packets, raised,    \* the result of this feed_many() so far
    wire,               \* what the parser has not read yet of the frame
    packet,             \* the packet that was sent last
    damage,             \* what the line did to its frame
    dangling,           \* history: the parser was escaped when it was sent
    dropped,            \* history: an error took bytes of its frame
    due                 \* history: what packets should be

fields == <<length, type, data, frame_checksum>>
parser == <<state, escaped, fields>>
call == <<packets, raised>>
line == <<packet, damage, dangling>>
vars == <<strict_checksum, parser, call, wire, line, dropped, due>>

-----------------------------------------------------------------------------
(* The sender *)

Plus(m, n) == m + n

\* Mutant: the payload is not summed.
ChecksumOfHeader(packet_type, payload) == (packet_type + Len(payload)) % Base

checksum(packet_type, payload) ==
    (packet_type + Len(payload) + FoldSeq(Plus, 0, payload)) % Base

\* Mutant: an escape byte in the payload is sent as it is.
StuffDelimiters(value) ==
    IF value \in {SOF, EOF} THEN <<ESC, value>> ELSE <<value>>

append_stuffed(value) == IF value \in Stuffed THEN <<ESC, value>> ELSE <<value>>

StuffAll(values) == FlattenSeq([i \in DOMAIN values |-> append_stuffed(values[i])])

Header(p) == <<SOF>> \o StuffAll(<<Len(p.data), p.type>>)

serialize(p) ==
    Header(p) \o StuffAll(p.data \o <<checksum(p.type, p.data)>>) \o <<EOF>>

-----------------------------------------------------------------------------
(* The line *)

\* One byte of the payload or the checksum becomes another, and neither has
\* a meaning of its own.
Misread(p) ==
    LET frame == serialize(p)
    IN  {[frame EXCEPT ![i] = byte] :
            i \in {j \in Len(Header(p)) + 1 .. Len(frame) - 1 : frame[j] \notin Stuffed},
            byte \in Bytes \ Stuffed} \ {frame}

Cut(frame, i, j) == SubSeq(frame, 1, i - 1) \o SubSeq(frame, j, Len(frame))

\* Anything else that happens to one byte, and a burst of bytes lost or repeated.
Garbled(p) ==
    LET frame == serialize(p)
    IN  ({[frame EXCEPT ![i] = byte] : i \in DOMAIN frame, byte \in Bytes}
            \cup {InsertAt(frame, i, byte) : i \in DOMAIN frame, byte \in Bytes}
            \cup {Cut(frame, i, j) : i \in DOMAIN frame, j \in DOMAIN frame \cup {Len(frame) + 1}})
        \ ({frame} \cup Misread(p))

Sent(p) ==
    /\ packet' = p
    /\ \/ damage' = "none" /\ wire' = serialize(p)
       \/ damage' = "misread" /\ wire' \in Misread(p)
       \/ damage' = "garbled" /\ wire' \in Garbled(p)
    /\ dangling' = escaped /\ dropped' = FALSE

Send(p) ==
    /\ wire = <<>> /\ packets \in Kept
    /\ Sent(p)
    /\ UNCHANGED <<strict_checksum, parser, call, due>>

-----------------------------------------------------------------------------
(* The parser *)

\* reset() and _start_frame() differ in the state they go to.
Clear(to) ==
    /\ state' = to /\ escaped' = FALSE
    /\ length' = 0 /\ type' = 0 /\ data' = <<>> /\ frame_checksum' = 0

\* Mutant: the byte after an escape leaves the parser escaped.
StayEscaped(to) == state' = to /\ UNCHANGED escaped

Goto(to) == state' = to /\ escaped' = FALSE

\* A start of frame is one wherever it is not escaped.
StartsFrame(value) == value = SOF /\ (state = "WAIT_SOF" \/ ~escaped)

Escapes(value) == state # "WAIT_SOF" /\ ~escaped /\ value = ESC

\* Mutant: the payload ends one byte late.
IsLastByteLate == Len(data) >= length

IsLastByte == Len(data) + 1 >= length

\* _finish_frame(): a bad checksum gives nothing, and raises if it is strict,
\* which leaves the parser in its last state and ends the call without a result.
_finish_frame ==
    IF checksum(type, data) = frame_checksum
    THEN /\ Clear("WAIT_SOF")
         /\ packets' = Append(packets, [type |-> type, data |-> data]) /\ UNCHANGED raised
    ELSE IF strict_checksum
    THEN Goto("EOF") /\ packets' = <<>> /\ raised' = TRUE /\ UNCHANGED fields
    ELSE Clear("WAIT_SOF") /\ UNCHANGED call

\* An unescaped byte without a meaning of its own, or an escaped one.
Take(value) ==
    \/ /\ state = "LENGTH"
       /\ length' = value /\ Goto("TYPE")
       /\ UNCHANGED <<type, data, frame_checksum, call>>
    \/ /\ state = "TYPE"
       /\ type' = value /\ data' = <<>>
       /\ Goto(IF length = 0 THEN "CHECKSUM" ELSE "DATA")
       /\ UNCHANGED <<length, frame_checksum, call>>
    \/ /\ state = "DATA"
       /\ data' = Append(data, value)
       /\ Goto(IF IsLastByte THEN "CHECKSUM" ELSE "DATA")
       /\ UNCHANGED <<length, type, frame_checksum, call>>
    \/ /\ state = "CHECKSUM"
       /\ frame_checksum' = value /\ Goto("EOF")
       /\ UNCHANGED <<length, type, data, call>>
    \/ /\ state = "EOF" /\ value = EOF
       /\ _finish_frame
    \/ /\ state = "EOF" /\ value # EOF
       /\ Goto("EOF")
       /\ UNCHANGED <<fields, call>>

feed(value) ==
    \/ /\ StartsFrame(value)
       /\ Clear("LENGTH")
       /\ UNCHANGED call
    \/ /\ state = "WAIT_SOF" /\ ~StartsFrame(value)
       /\ UNCHANGED <<parser, call>>
    \/ /\ Escapes(value)
       /\ escaped' = TRUE
       /\ UNCHANGED <<state, fields, call>>
    \/ /\ state # "WAIT_SOF" /\ ~StartsFrame(value) /\ ~Escapes(value)
       /\ Take(value)

\* The parser is where the frame starts, and reads all of it.
Whole == ~dangling /\ ~dropped

\* An undamaged frame is due with its last byte; another, what feed() makes of it.
Owe ==
    due' = IF damage = "none" /\ Whole
           THEN IF Len(wire) = 1 THEN Append(due, packet) ELSE due
           ELSE packets'

\* One iteration of feed_many().
Feed ==
    /\ wire # <<>> /\ ~raised
    /\ feed(Head(wire))
    /\ wire' = Tail(wire)
    /\ Owe
    /\ UNCHANGED <<strict_checksum, line, dropped>>

\* An error takes the rest of the chunk as well.
Drop ==
    /\ wire # <<>> /\ raised
    /\ wire' = Tail(wire) /\ dropped' = TRUE
    /\ UNCHANGED <<strict_checksum, parser, call, line, due>>

\* The chunk has ended, and feed_many() is called with the next one.
feed_many ==
    /\ packets' = <<>> /\ raised' = FALSE /\ due' = <<>>
    /\ UNCHANGED <<strict_checksum, parser, wire, line, dropped>>

-----------------------------------------------------------------------------

Init ==
    /\ strict_checksum \in BOOLEAN
    /\ state = "WAIT_SOF" /\ escaped = FALSE
    /\ length = 0 /\ type = 0 /\ data = <<>> /\ frame_checksum = 0
    /\ packet \in Packets /\ wire = serialize(packet)
    /\ damage = "none" /\ dangling = FALSE /\ dropped = FALSE
    /\ packets = <<>> /\ raised = FALSE /\ due = <<>>

Next == (\E p \in Packets : Send(p)) \/ Feed \/ Drop \/ feed_many

Spec == Init /\ [][Next]_vars

-----------------------------------------------------------------------------
(* Properties *)

\* Every variable holds a value of its type, and the payload never outgrows
\* the length that the frame announces.
TypeOK ==
    /\ strict_checksum \in BOOLEAN
    /\ state \in {"WAIT_SOF", "LENGTH", "TYPE", "DATA", "CHECKSUM", "EOF"}
    /\ escaped \in BOOLEAN
    /\ length \in Bytes /\ type \in Bytes /\ frame_checksum \in Bytes
    /\ data \in Seq(Bytes) /\ Len(data) <= length
    /\ wire \in Seq(Bytes) /\ packet \in Packets
    /\ damage \in {"none", "misread", "garbled"}
    /\ dangling \in BOOLEAN /\ dropped \in BOOLEAN /\ raised \in BOOLEAN
    /\ {packets, due} \subseteq Seq([type : Bytes, data : Seq(Bytes)])

\* The result of a call of feed_many() has every undamaged frame that ended in
\* it, once, as it was sent and in its place, whatever came before in this call
\* and in others.  Excepted is a frame that came when the parser was escaped,
\* and what a strict parser loses when another frame of the chunk makes it
\* raise: the result so far, and the frames that follow in the chunk.
IntactFrameDelivered == packets = due

\* No undamaged frame leaves the parser escaped, whatever state the frames
\* before it left it in, and though an error may have taken a part of it.
IntactFrameResynchronises == wire = <<>> /\ damage = "none" => ~escaped

\* A misread byte in the payload or the checksum is always found: the packet
\* is not delivered, neither as it was nor as it is.
MisreadFrameRejected ==
    [][damage = "misread" /\ Whole => packets' \in {packets, <<>>}]_vars

=============================================================================
