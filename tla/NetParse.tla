-------------------------------- MODULE NetParse --------------------------------
(***************************************************************************)
(* From a captured frame to a TCP segment: parse_frame of src/net.rs and   *)
(* what it calls.                                                          *)
(*                                                                         *)
(* A slice of the frame is the pair of offsets lo, hi (hi excluded, both   *)
(* counted from 0 as in the code); the two loops (VLAN tags, IPv6 extension*)
(* headers) take a step per turn.  32-bit numbers are kept as their four   *)
(* bytes.                                                                  *)
(***************************************************************************)
EXTENDS Integers, Sequences

CONSTANTS
    Frames,     \* what the capture may hand over: [bytes, dlt, wire]
    NoSegment   \* parse_frame's None

Byte == 0..255

ASSUME FramesAssumption == \A f \in Frames : f.bytes \in Seq(Byte)

DLT_NULL       == 0
DLT_EN10MB     == 1
DLT_LINUX_SLL  == 113
DLT_LINUX_SLL2 == 276
\* DLT_RAW_OLD, DLT_RAW, DLT_IPV4 and DLT_IPV6: no link header.
Bare           == {12, 101, 228, 229}

VLAN == 33024               \* 0x8100
IPTypes == {2048, 34525}    \* 0x0800 and 0x86DD
TCP == 6
FRAGMENT == 44
AH == 51

VARIABLES
    pc,     \* "idle", the next step of the parser, or "done"
    frame,  \* the frame being parsed; its wire part is history
    lo, hi, \* the slice that is left
    next,   \* ethertype, then next_header
    addr,   \* <<src, dst>>
    seg     \* the result

frameVars == <<pc, frame, lo, hi, next, addr, seg>>

-----------------------------------------------------------------------------
\* b[i] of the slice that is left, big-endian pairs, and runs of bytes.
At(i)       == frame.bytes[lo + i + 1]
U16(i)      == 256 * At(i) + At(i + 1)
Field(i, n) == SubSeq(frame.bytes, lo + i + 1, lo + i + n)
Left        == hi - lo

Return(s) == pc' = "done" /\ seg' = s /\ UNCHANGED <<frame, lo, hi, next, addr>>
Continue(step, from, to, n) ==
    /\ pc' = step /\ lo' = from /\ hi' = to /\ next' = n
    /\ UNCHANGED <<frame, seg>>

Datalinks == Bare \cup {DLT_NULL, DLT_EN10MB, DLT_LINUX_SLL, DLT_LINUX_SLL2}

LinkHeader(d) ==
    CASE d \in Bare          -> 0
      [] d = DLT_NULL        -> 4
      [] d = DLT_EN10MB      -> 14
      [] d = DLT_LINUX_SLL   -> 16
      [] d = DLT_LINUX_SLL2  -> 20

\* strip_link.
StripLink ==
    /\ pc = "link"
    /\ IF frame.dlt \in Datalinks /\ Left >= LinkHeader(frame.dlt)
       THEN /\ IF frame.dlt = DLT_EN10MB
               THEN Continue("ether", LinkHeader(frame.dlt), hi, U16(12))
               ELSE Continue("ip", LinkHeader(frame.dlt), hi, next)
            /\ UNCHANGED addr
       ELSE Return(NoSegment)

\* A turn of the loop over the VLAN tags, and what follows it.
SkipTag ==
    /\ pc = "ether" /\ next = VLAN /\ Left >= 4
    /\ Continue("ether", lo + 4, hi, U16(0))
    /\ UNCHANGED addr

Ethertype ==
    /\ pc = "ether" /\ ~(next = VLAN /\ Left >= 4)
    /\ IF next \in IPTypes THEN Continue("ip", lo, hi, next) /\ UNCHANGED addr
                           ELSE Return(NoSegment)

\* parse_ip: the version is told from the first nibble alone.
ParseIp ==
    /\ pc = "ip"
    /\ IF Left > 0 /\ At(0) \div 16 \in {4, 6}
       THEN Continue(IF At(0) \div 16 = 4 THEN "ipv4" ELSE "ipv6", lo, hi, next) /\ UNCHANGED addr
       ELSE Return(NoSegment)

\* Mutant: the header's length is believed.
EndAsClaimed(total) == lo + total

\* Mutant: the captured length is taken, padding and all.
EndAsCaptured(total) == hi

\* The end of a packet of total bytes: what follows it in the frame is padding,
\* and the capture may have cut it short.
EndOf(total) == IF total < Left THEN lo + total ELSE hi

Ihl == 4 * (At(0) % 16)

ParseIpv4 ==
    /\ pc = "ipv4"
    /\ IF Left >= 20 /\ Ihl >= 20 /\ Left >= Ihl /\ At(9) = TCP /\ EndOf(U16(2)) >= lo + Ihl
       THEN /\ Continue("tcp", lo + Ihl, EndOf(U16(2)), next)
            /\ addr' = <<Field(12, 4), Field(16, 4)>>
       ELSE Return(NoSegment)

ParseIpv6 ==
    /\ pc = "ipv6"
    /\ IF Left >= 40
       THEN /\ Continue("extension", lo + 40, EndOf(40 + U16(4)), At(6))
            /\ addr' = <<Field(8, 16), Field(24, 16)>>
       ELSE Return(NoSegment)

IsExtensionHeader(nh) == nh \in {0, 43, FRAGMENT, AH, 60}

\* Mutant: the first eight bytes are not counted.
UnitsOnly(nh) == IF nh = FRAGMENT THEN 8 ELSE IF nh = AH THEN (At(1) + 2) * 4 ELSE At(1) * 8

ExtensionHeaderLen(nh) ==
    IF nh = FRAGMENT THEN 8 ELSE IF nh = AH THEN (At(1) + 2) * 4 ELSE (At(1) + 1) * 8

WalksOn == IsExtensionHeader(next) /\ Left >= 8

\* A turn of the loop over the extension headers, and what follows it.
WalkExtension ==
    /\ pc = "extension" /\ WalksOn
    /\ IF ExtensionHeaderLen(next) <= Left
       THEN Continue("extension", lo + ExtensionHeaderLen(next), hi, At(0)) /\ UNCHANGED addr
       ELSE Return(NoSegment)

LastHeader ==
    /\ pc = "extension" /\ ~WalksOn
    /\ IF next = TCP THEN Continue("tcp", lo, hi, next) /\ UNCHANGED addr ELSE Return(NoSegment)

DataOffset == 4 * (At(12) \div 16)
Flag(bit)  == (At(13) \div bit) % 2 = 1

ParseTcp ==
    /\ pc = "tcp"
    /\ Return(IF Left >= 20 /\ DataOffset >= 20 /\ Left >= DataOffset
              THEN [src |-> <<addr[1], U16(0)>>, dst |-> <<addr[2], U16(2)>>,
                    seq |-> Field(4, 4), ack |-> Field(8, 4),
                    fin |-> Flag(1), syn |-> Flag(2), rst |-> Flag(4),
                    payload |-> Field(DataOffset, Left - DataOffset)]
              ELSE NoSegment)

-----------------------------------------------------------------------------
FrameInit ==
    /\ pc = "idle"
    /\ frame = << >> /\ lo = 0 /\ hi = 0 /\ next = 0 /\ addr = << >> /\ seg = NoSegment

\* parse_frame is called with a frame.
Receive(f) ==
    /\ pc = "idle"
    /\ pc' = "link" /\ frame' = f /\ lo' = 0 /\ hi' = Len(f.bytes)
    /\ UNCHANGED <<next, addr, seg>>

ParseStep ==
    \/ StripLink \/ SkipTag \/ Ethertype \/ ParseIp
    \/ ParseIpv4 \/ ParseIpv6 \/ WalkExtension \/ LastHeader \/ ParseTcp

\* The caller has the result; nothing of the frame is kept.
Forget ==
    /\ pc = "done"
    /\ pc' = "idle" /\ frame' = << >> /\ lo' = 0 /\ hi' = 0 /\ next' = 0
    /\ addr' = << >> /\ seg' = NoSegment

FrameNext == (\E f \in Frames : Receive(f)) \/ ParseStep \/ Forget

FrameSpec == FrameInit /\ [][FrameNext]_frameVars

-----------------------------------------------------------------------------
(* The segment that a frame carries, told by where its fields lie, as the  *)
(* RFCs lay them out, whatever the order they are read in.                 *)

\* The bytes of a frame, big-endian pairs, and runs of bytes, from offset i.
Octet(f, i)     == f.bytes[i + 1]
Pair(f, i)      == 256 * Octet(f, i) + Octet(f, i + 1)
Octets(f, i, n) == SubSeq(f.bytes, i + 1, i + n)

\* The IP packet: where it begins, its version, and where it or the capture of it ends.
IpAt(f)      == LinkHeader(f.dlt)
Version(f)   == Octet(f, IpAt(f)) \div 16
PacketEnd(f) ==
    LET claimed == IpAt(f) + (IF Version(f) = 4 THEN Pair(f, IpAt(f) + 2)
                                                ELSE 40 + Pair(f, IpAt(f) + 4))
    IN  IF claimed < Len(f.bytes) THEN claimed ELSE Len(f.bytes)

\* w is where the headers after the IP header begin: IPv6 extension headers, then TCP's.
\* The header before a header says of which kind it is.
HeaderKind(f, w, i) ==
    IF i > 1 THEN Octet(f, w[i - 1])
    ELSE Octet(f, IpAt(f) + (IF Version(f) = 4 THEN 9 ELSE 6))

ExtensionEnd(f, kind, at) ==
    at + (CASE kind = FRAGMENT -> 8
            [] kind = AH       -> 4 * (Octet(f, at + 1) + 2)
            [] OTHER           -> 8 * (Octet(f, at + 1) + 1))

FirstHeader(f) ==
    IpAt(f) + (IF Version(f) = 4 THEN 4 * (Octet(f, IpAt(f)) % 16) ELSE 40)

Chain(f, w) ==
    /\ w # << >> /\ w[1] = FirstHeader(f)
    /\ \A i \in 1..Len(w) - 1 :
          /\ Version(f) = 6 /\ IsExtensionHeader(HeaderKind(f, w, i))
          /\ w[i + 1] = ExtensionEnd(f, HeaderKind(f, w, i), w[i])

TcpAt(w)         == w[Len(w)]
TcpHeader(f, w)  == 4 * (Octet(f, TcpAt(w) + 12) \div 16)
TcpFlag(f, w, b) == (Octet(f, TcpAt(w) + 13) \div b) % 2 = 1

\* A packet of IP in a link layer that is known, its header captured.
CarriesIp(f) ==
    /\ f.dlt \in Datalinks
    /\ f.dlt = DLT_EN10MB => Pair(f, 12) \in IPTypes
    /\ Len(f.bytes) >= IpAt(f) + 20
    /\ \/ Version(f) = 4 /\ FirstHeader(f) >= IpAt(f) + 20
       \/ Version(f) = 6 /\ Len(f.bytes) >= IpAt(f) + 40

\* And TCP follows the headers at w, all of them captured.
CarriesTcp(f, w) ==
    /\ CarriesIp(f)
    /\ \A i \in 1..Len(w) : w[i] + 20 <= PacketEnd(f)
    /\ Chain(f, w)
    /\ HeaderKind(f, w, Len(w)) = TCP
    /\ TcpHeader(f, w) >= 20 /\ TcpAt(w) + TcpHeader(f, w) <= PacketEnd(f)

SegmentAt(f, w) ==
    LET t == TcpAt(w)
        n == IF Version(f) = 4 THEN 4 ELSE 16
        a == IpAt(f) + (IF Version(f) = 4 THEN 12 ELSE 8)
    IN  [src |-> <<Octets(f, a, n), Pair(f, t)>>, dst |-> <<Octets(f, a + n, n), Pair(f, t + 2)>>,
         seq |-> Octets(f, t + 4, 4), ack |-> Octets(f, t + 8, 4),
         fin |-> TcpFlag(f, w, 1), syn |-> TcpFlag(f, w, 2), rst |-> TcpFlag(f, w, 4),
         payload |-> Octets(f, t + TcpHeader(f, w), PacketEnd(f) - (t + TcpHeader(f, w)))]

\* The first two bytes of a VLAN tag, which strip_link takes for the ethertype.
TagHarmless(f) ==
    f.dlt = DLT_EN10MB /\ Len(f.bytes) >= 18 /\ Pair(f, 12) = VLAN
        => Pair(f, 14) \notin IPTypes \cup {VLAN}

\* What was sent is what the frames carry, with no VLAN tag before it.
WireIsCarried ==
    \A f \in Frames :
        /\ TagHarmless(f)
        /\ f.wire # NoSegment =>
              \E w \in Seq(Nat) : CarriesTcp(f, w) /\ f.wire = SegmentAt(f, w)
        /\ f.wire = NoSegment => \A w \in Seq(Nat) : ~CarriesTcp(f, w)

-----------------------------------------------------------------------------
(* Properties.                                                             *)

\* No slice is out of bounds, whatever the frame holds: the lengths it claims
\* for its headers and for itself never carry the parser past the captured
\* bytes, where the code would panic.
SlicesInBounds ==
    /\ 0 <= lo /\ lo <= hi
    /\ pc # "idle" => hi <= Len(frame.bytes)

\* What is handed over is the segment that was sent: its addresses, ports, flags
\* and payload, without the padding of a short frame, up to where the capture
\* cut it; and no segment at all if the headers do not reach that far or the
\* packet is not TCP over IP.
ParsesWire == pc = "done" => seg = frame.wire

\* parse_frame returns: its loops advance on every turn.
ParseReturns == pc = "link" ~> pc = "done"
=================================================================================
