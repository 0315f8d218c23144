-------------------------------- MODULE Capture --------------------------------
(***************************************************************************)
(* The pcap source: run of src/capture.rs, which opens a device, parses    *)
(* each frame it captures (NetParse) and hands the segments to the         *)
(* connection table (ConnTable).                                           *)
(***************************************************************************)
EXTENDS ConnTable, NetParse

CONSTANTS
    Devices,    \* the interfaces libpcap lists: [name, loopback]
    Interfaces, \* what --interface may say, NoInterface if it is absent
    NoInterface,
    Plain       \* bound: the frames captured once the table is in use

VARIABLES
    source,     \* "start", "capturing", "ended" or "failed"
    dlt         \* the datalink type of the open device

sourceVars  == <<source, dlt>>
captureVars == <<vars, frameVars, sourceVars>>

-----------------------------------------------------------------------------
\* resolve_device: the loopback interface, or the one that was named, listed or
\* not (the pseudo-device any is not listed).
ResolveDevice(interface) ==
    IF interface = NoInterface
    THEN {d.name : d \in {x \in Devices : x.loopback}}
    ELSE {interface}

OpenDevice ==
    /\ source = "start"
    /\ \E interface \in Interfaces : ResolveDevice(interface) # {}
    /\ source' = "capturing"
    /\ dlt' \in {f.dlt : f \in Frames}
    /\ UNCHANGED <<vars, frameVars>>

\* There is no loopback interface, or libpcap refuses the device or the filter.
OpenFails ==
    /\ source = "start"
    /\ source' = "failed"
    /\ UNCHANGED <<vars, frameVars, dlt>>

\* next_packet returns a frame.
NextPacket ==
    /\ source = "capturing"
    /\ \E f \in Frames : f.dlt = dlt /\ (opened > 0 => f \in Plain) /\ Receive(f)
    /\ UNCHANGED <<vars, sourceVars>>

\* next_packet returns NoMorePackets or another error; after a timeout the loop
\* goes on, which changes nothing.
CaptureEnds ==
    /\ source = "capturing" /\ pc = "idle"
    /\ source' \in {"ended", "failed"}
    /\ UNCHANGED <<vars, frameVars, dlt>>

ParseFrame == ParseStep /\ UNCHANGED <<vars, sourceVars>>

\* ConnTable::handle of a segment.
HandleSegment(s) ==
    LET flags == [syn |-> s.syn, fin |-> s.fin, rst |-> s.rst]
        key   == KeyOf(s.src, s.dst)
    IN  HandleReset(key, flags) \/ HandleFin(key, flags) \/ HandleOther(key, flags)

\* Mutant: the watched port is not looked for.
AnyPort(s) == TRUE

OnWatchedPort(s) == ForServer(s.src, s.dst) \/ ForClient(s.src, s.dst)

HandlePacket ==
    /\ pc = "done" /\ seg # NoSegment /\ OnWatchedPort(seg)
    /\ HandleSegment(seg)
    /\ Forget
    /\ UNCHANGED sourceVars

\* No segment, or handle returns at once.
Ignore ==
    /\ pc = "done" /\ (seg = NoSegment \/ (seg # NoSegment /\ ~OnWatchedPort(seg)))
    /\ Forget
    /\ UNCHANGED <<vars, sourceVars>>

-----------------------------------------------------------------------------
CaptureInit ==
    /\ Init
    /\ FrameInit
    /\ source = "start" /\ dlt = DLT_NULL

CaptureNext ==
    OpenDevice \/ OpenFails \/ NextPacket \/ CaptureEnds \/ ParseFrame \/ HandlePacket \/ Ignore

CaptureSpec ==
    CaptureInit /\ [][CaptureNext]_captureVars /\ WF_captureVars(ParseFrame)

-----------------------------------------------------------------------------
\* What frames do to the table is what segments may do to it: the capture loop
\* implements the specification of ConnTable, and with it what is proved there.
ImplementsTable == Spec
================================================================================
