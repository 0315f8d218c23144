------------------------------- MODULE MCCapture -------------------------------
(* Frames laid out as the RFCs and libpcap's link types say, each with the   *)
(* segment it carries; and the plain ones of three connections.              *)
EXTENDS Capture

BE16(n)   == <<n \div 256, n % 256>>
Fill(n)   == [i \in 1..n |-> 170]
Cut(s, n) == SubSeq(s, 1, IF n < Len(s) THEN n ELSE Len(s))

V4(host) == <<<<10, 0, 0, host>>, 40000 + host>>
V6(host) == <<[i \in 1..16 |-> IF i = 16 THEN host ELSE 253], 40000 + host>>
Pg4 == <<<<10, 0, 0, 9>>, 5432>>
Pg6 == <<[i \in 1..16 |-> IF i = 16 THEN 9 ELSE 253], 5432>>
Hosts   == {V4(1), V4(2), V6(1), Pg4, Pg6}
Servers == {Pg4, Pg6}

(* p: a packet. tags, type: VLAN tags and the ethertype; options: 4-byte     *)
(* words of IPv4 options; exts: IPv6 extension headers <<kind, length>>;     *)
(* claim: added to the length field; nibble: added to the TCP data offset.   *)
Usual ==
    [dlt |-> 101, tags |-> 0, type |-> 2048, src |-> V4(1), dst |-> Pg4, proto |-> TCP,
     options |-> 0, exts |-> << >>, words |-> 5, nibble |-> 0, claim |-> 0,
     flags |-> 0, data |-> 3, pad |-> 0, cut |-> 1000]
Over6(p) == [p EXCEPT !.src = V6(1), !.dst = Pg6, !.type = 34525]

IsV4(p) == Len(p.src[1]) = 4
Data(p) == [i \in 1..p.data |-> i]

Tag(p, i) == IF i > p.tags THEN << >> ELSE BE16(VLAN) \o <<0, 100>>
Link(p) ==
    CASE p.dlt = DLT_EN10MB     -> Fill(12) \o Tag(p, 1) \o Tag(p, 2) \o BE16(p.type)
      [] p.dlt = DLT_NULL       -> Fill(4)
      [] p.dlt = DLT_LINUX_SLL  -> Fill(16)
      [] p.dlt = DLT_LINUX_SLL2 -> Fill(20)
      [] OTHER                  -> << >>

Tcp(p) ==
    BE16(p.src[2]) \o BE16(p.dst[2]) \o <<0, 0, 0, 7>> \o <<0, 0, 0, 5>>
        \o <<16 * (p.words + p.nibble), p.flags>> \o Fill(6) \o Fill(4 * (p.words - 5))

Kind(p, i) == IF i > Len(p.exts) THEN p.proto ELSE p.exts[i][1]
Ext(p, i)  ==
    IF i > Len(p.exts) THEN << >>
    ELSE <<Kind(p, i + 1), p.exts[i][2]>> \o
         Fill(CASE p.exts[i][1] = FRAGMENT -> 6
                [] p.exts[i][1] = AH -> 4 * p.exts[i][2] + 6
                [] OTHER -> 8 * p.exts[i][2] + 6)
Exts(p) == Ext(p, 1) \o Ext(p, 2)

Ip(p) ==
    IF IsV4(p)
    THEN <<69 + p.options, 0>>
         \o BE16(20 + 4 * p.options + Len(Tcp(p)) + p.data + p.claim)
         \o Fill(5) \o <<p.proto>> \o Fill(2) \o p.src[1] \o p.dst[1] \o Fill(4 * p.options)
    ELSE <<96, 0, 0, 0>> \o BE16(Len(Exts(p)) + Len(Tcp(p)) + p.data + p.claim)
         \o <<Kind(p, 1), 64>> \o p.src[1] \o p.dst[1] \o Exts(p)

Headers(p) == Link(p) \o Ip(p) \o Tcp(p)

\* TCP over IP, well-formed, with all of its headers captured.
Carries(p) ==
    /\ p.dlt \in Datalinks /\ p.proto = TCP
    /\ p.dlt = DLT_EN10MB => p.type \in IPTypes
    /\ p.options >= 0 /\ p.claim >= 0 /\ p.nibble = 0
    /\ Len(Headers(p)) <= p.cut

FrameOf(p) ==
    [bytes |-> Cut(Headers(p) \o Data(p) \o [i \in 1..p.pad |-> 0], p.cut),
     dlt   |-> p.dlt,
     wire  |-> IF Carries(p)
               THEN [src |-> p.src, dst |-> p.dst,
                     seq |-> <<0, 0, 0, 7>>, ack |-> <<0, 0, 0, 5>>,
                     fin |-> p.flags % 2 = 1, syn |-> (p.flags \div 2) % 2 = 1,
                     rst |-> (p.flags \div 4) % 2 = 1,
                     payload |-> Cut(Data(p), p.cut - Len(Headers(p)))]
               ELSE NoSegment]

-----------------------------------------------------------------------------
Stacks == {<< >>, <<<<0, 0>>>>, <<<<60, 0>>, <<60, 1>>>>, <<<<AH, 4>>, <<FRAGMENT, 9>>>>}

\* Every link type, header size and padding.
Layouts ==
    {[Usual EXCEPT !.dlt = d, !.options = o, !.words = w, !.data = n, !.pad = x] :
        d \in Datalinks \cup {147}, o \in {0, 2}, w \in {5, 7}, n \in {0, 3}, x \in {0, 6}}
    \cup {[Over6(Usual) EXCEPT !.dlt = d, !.exts = e, !.words = w, !.pad = x] :
        d \in Datalinks, e \in Stacks, w \in {5, 7}, x \in {0, 6}}

\* Two packets, cut by the capture at every length.
Short ==
    {[Usual EXCEPT !.dlt = DLT_EN10MB, !.options = 1, !.words = 6, !.pad = 2, !.cut = c] : c \in 0..69}
    \cup {[Over6(Usual) EXCEPT !.dlt = DLT_LINUX_SLL, !.exts = <<<<0, 1>>, <<AH, 1>>>>, !.cut = c] :
            c \in 0..107}

\* Other protocols, and lengths that are not those of the packet.
Odd ==
    {[Usual EXCEPT !.proto = 17], [Over6(Usual) EXCEPT !.proto = 17],
     [Over6(Usual) EXCEPT !.proto = 50, !.exts = <<<<60, 0>>>>],
     [Usual EXCEPT !.dlt = DLT_EN10MB, !.type = 2054],
     [Usual EXCEPT !.dlt = DLT_EN10MB, !.type = 2054, !.tags = 1],
     [Usual EXCEPT !.options = -1], [Usual EXCEPT !.options = 10, !.cut = 40],
     [Over6(Usual) EXCEPT !.exts = <<<<60, 255>>>>, !.cut = 90]}
    \cup {[Usual EXCEPT !.claim = n] : n \in {-43, -30, -4, 500}}
    \cup {[Over6(Usual) EXCEPT !.claim = n] : n \in {-23, -4, 65000}}
    \cup {[Usual EXCEPT !.nibble = n] : n \in {-1, 8}}

Tagged == {[Usual EXCEPT !.dlt = DLT_EN10MB, !.tags = n] : n \in 1..2}

\* The segments of two clients, and one between ports that are not watched.
PlainPackets ==
    {[Usual EXCEPT !.src = V4(h), !.flags = f] : h \in 1..2, f \in {0, 1, 2, 4, 18}}
    \cup {[Usual EXCEPT !.src = Pg4, !.dst = V4(h), !.flags = f] : h \in 1..2, f \in {1, 18, 20}}
    \cup {[Usual EXCEPT !.dst = V4(2)]}

PlainLaidOut == {FrameOf(p) : p \in PlainPackets}
AllLaidOut   == {FrameOf(p) : p \in Layouts \cup Short \cup Odd \cup PlainPackets}
PlainFrames  == PlainLaidOut
AnyFrames    == AllLaidOut
TaggedFrames == {FrameOf(p) : p \in Tagged}

\* The frames of the run Capture carry what their packets say. Their chains
\* have at most two extension headers, of whole words.
Chains(f) ==
    IF f.dlt \notin Datalinks \/ Len(f.bytes) <= IpAt(f) THEN {}
    ELSE LET a == FirstHeader(f)
             b == {a + 4 * k : k \in 1..Len(f.bytes) \div 4}
         IN  {<<a>>} \cup ({a} \X b) \cup ({a} \X b \X b)

ASSUME CarriedAsSent ==
    \A f \in AnyFrames :
        /\ TagHarmless(f)
        /\ IF f.wire = NoSegment
           THEN \A w \in Chains(f) : ~CarriesTcp(f, w)
           ELSE \E w \in Chains(f) : CarriesTcp(f, w) /\ f.wire = SegmentAt(f, w)

Listed == {[name |-> "lo", loopback |-> TRUE], [name |-> "eth0", loopback |-> FALSE]}
================================================================================
