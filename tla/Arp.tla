-------------------------------- MODULE Arp --------------------------------
(***************************************************************************)
(* Packages ethernet, arp and raw: an ARP client on a packet socket of     *)
(* Linux, resolving addresses on a network that loses, repeats and         *)
(* reorders frames while addresses move from one station to another.      *)
(*                                                                         *)
(* What is on the wire is a sequence of words of 16 bits: a hardware       *)
(* address is three words, an IPv4 address two, and an address that is not *)
(* IPv4 is <<>>.  Frames and addresses of an odd length are left out.      *)
(***************************************************************************)
EXTENDS Integers, SequencesExt, FiniteSetsExt

CONSTANTS
  Stations,      \* other stations, their hardware addresses
  IPs,           \* the addresses that are asked for
  Interfaces,    \* what the client may be started with: [hw, addrs, proto, filter]
                 \* (proto is "" if it is not) and queries, a bound for the calls of Stats
  Traffic,       \* frames that others send
  Samples,       \* frames of programs that use package ethernet alone
  QueueCap,      \* what the socket's buffer holds
  Calls,         \* bound: calls of Resolve
  Counters,      \* callers of Stats
  SeenMax,       \* bound: frames that reach the socket
  SendMax        \* bound: frames of Traffic that are sent

VARIABLES
  ifi,           \* chosen among Interfaces
  wire,          \* the frames on the way
  sock,          \* the socket
  cl,            \* the client
  owner, owned,  \* who has an address; who ever had it
  stats,         \* packetConn.stats, and where each caller of Stats is
  sent,          \* frames of Traffic sent so far
  frame          \* a frame of a program that uses package ethernet alone

arpVars == <<ifi, wire, sock, cl, owner, owned, stats, sent, frame>>

-----------------------------------------------------------------------------
(* Package ethernet.  A tag is <<>> or <<Priority, DropEligible, ID>>.     *)

EtherTypeARP == 2054
EtherTypeVLAN == 33024
EtherTypeServiceVLAN == 34984
VLANMax == 4095
minPayload == 23
Broadcast == <<65535, 65535, 65535>>

Zeros(n) == [i \in 1..n |-> 0]
\* copy into a slice of n words
Fit(s, n) == IF Len(s) >= n THEN SubSeq(s, 1, n) ELSE s \o Zeros(n - Len(s))
From(s, i) == IF i > Len(s) THEN <<>> ELSE SubSeq(s, i, Len(s))

TagWord(t) == t[1] * 8192 + t[2] * 4096 + t[3]
TagValid(t) == t[1] <= 7 /\ t[3] < VLANMax
VLANOf(w) == <<w \div 8192, (w \div 4096) % 2, w % 4096>>

ReadTags(f) ==
    (IF f.svlan = <<>> THEN <<>> ELSE <<EtherTypeServiceVLAN, TagWord(f.svlan)>>)
      \o (IF f.vlan = <<>> THEN <<>> ELSE <<EtherTypeVLAN, TagWord(f.vlan)>>)

\* Frame.length, in words
length(f) ==
    7 + (IF f.vlan = <<>> THEN 0 ELSE IF f.svlan = <<>> THEN 2 ELSE 4)
      + Max({minPayload, Len(f.payload)})

Fails(e) == [err |-> e, b |-> <<>>]
MarshalBinary(f) ==
    IF \/ f.svlan # <<>> /\ f.vlan = <<>>
       \/ \E t \in {f.svlan, f.vlan} \ {<<>>} : ~TagValid(t)
    THEN Fails("ErrInvalidVLAN")
    ELSE [err |-> "", b |-> Fit(Fit(f.dst, 3) \o Fit(f.src, 3) \o ReadTags(f) \o <<f.et>> \o f.payload, length(f))]

NoFrame(e) == [err |-> e]
Parsed(b, sv, v, et, n) ==
    [err |-> "", dst |-> SubSeq(b, 1, 3), src |-> SubSeq(b, 4, 6), svlan |-> sv, vlan |-> v, et |-> et, payload |-> From(b, n + 1)]
Customer(b, sv, n) ==
    IF Len(b) < n + 2 THEN NoFrame("EOF")
    ELSE IF ~TagValid(VLANOf(b[n + 1])) THEN NoFrame("ErrInvalidVLAN")
    ELSE Parsed(b, sv, VLANOf(b[n + 1]), b[n + 2], n + 2)
\* unmarshalVLANs, for the tag of the service
Service(b) ==
    IF Len(b) < 9 THEN NoFrame("EOF")
    ELSE IF ~TagValid(VLANOf(b[8])) \/ b[9] # EtherTypeVLAN THEN NoFrame("ErrInvalidVLAN")
    ELSE Customer(b, VLANOf(b[8]), 9)
UnmarshalBinary(b) ==
    IF Len(b) < 7 THEN NoFrame("EOF")
    ELSE CASE b[7] = EtherTypeServiceVLAN -> Service(b)
           [] b[7] = EtherTypeVLAN -> Customer(b, <<>>, 7)
           [] OTHER -> Parsed(b, <<>>, <<>>, b[7], 7)

\* crc32.ChecksumIEEE, external: two words that differ if one word differs.
ChecksumIEEE(b) ==
    <<FoldLeft(LAMBDA x, y : x + y, 0, b) % 65536, FoldLeft(LAMBDA x, y : (3 * x + y) % 65521, 1, b)>>
MarshalFCS(f) ==
    LET m == MarshalBinary(f)
    IN  IF m.err # "" THEN m ELSE [m EXCEPT !.b = @ \o ChecksumIEEE(@)]
UnmarshalFCS(b) ==
    IF Len(b) < 2 THEN NoFrame("EOF")
    ELSE LET data == SubSeq(b, 1, Len(b) - 2)
         IN  IF ChecksumIEEE(data) # From(b, Len(b) - 1) THEN NoFrame("ErrInvalidFCS") ELSE UnmarshalBinary(data)

-----------------------------------------------------------------------------
(* Package arp, the packet.  Lengths in a packet are in bytes.             *)

OperationRequest == 1
OperationReply == 2

NewPacket(op, srcHW, srcIP, dstHW, dstIP) ==
    IF Len(srcHW) < 3 \/ Len(dstHW) < 3 \/ (dstHW # Broadcast /\ Len(srcHW) # Len(dstHW)) THEN [err |-> "ErrInvalidHardwareAddr"]
    ELSE IF srcIP = <<>> \/ dstIP = <<>> THEN [err |-> "ErrInvalidIP"]
    ELSE [err |-> "", hal |-> (2 * Len(srcHW)) % 256, pl |-> 4, op |-> op, shw |-> srcHW, sip |-> srcIP, thw |-> dstHW, tip |-> dstIP]

\* The size of the slice is computed in eight bits; the fields do not fit when
\* it wraps, and the program panics.
PacketMarshal(p) ==
    LET h == p.hal \div 2
        i == p.pl \div 2
    IN  IF (8 + 2 * p.pl + 2 * p.hal) % 256 < 8 + 2 * p.pl + 2 * p.hal THEN Fails("panic")
        ELSE [err |-> "", b |-> <<1, 2048, p.hal * 256 + p.pl, p.op>> \o Fit(p.shw, h) \o Fit(p.sip, i) \o Fit(p.thw, h) \o Fit(p.tip, i)]

PacketUnmarshal(b) ==
    IF Len(b) < 4 THEN [err |-> "EOF"]
    ELSE LET h == b[3] \div 512
             i == (b[3] % 256) \div 2
         IN  IF Len(b) < 4 + 2 * h + 2 * i THEN [err |-> "EOF"]
             ELSE [err |-> "", hal |-> 2 * h, pl |-> 2 * i, op |-> b[4],
                   shw |-> SubSeq(b, 5, 4 + h), sip |-> SubSeq(b, 5 + h, 4 + h + i),
                   thw |-> SubSeq(b, 5 + h + i, 4 + 2 * h + i), tip |-> SubSeq(b, 5 + 2 * h + i, 4 + 2 * h + 2 * i)]

parsePacket(b) ==
    LET f == UnmarshalBinary(b)
    IN  IF f.err # "" THEN f
        ELSE IF f.et # EtherTypeARP THEN [err |-> "errInvalidARPPacket"]
        ELSE PacketUnmarshal(f.payload)

\* Client.WriteTo: the frame for a packet
FrameFor(p, addr) == MarshalBinary([dst |-> addr, src |-> p.shw, svlan |-> <<>>, vlan |-> <<>>, et |-> EtherTypeARP, payload |-> PacketMarshal(p).b])

\* The addresses of an interface: <<>> is one that is not IPv4.
firstIPv4Addr(addrs) == IF SelectSeq(addrs, LAMBDA a : a # <<>>) = <<>> THEN <<>> ELSE SelectSeq(addrs, LAMBDA a : a # <<>>)[1]

-----------------------------------------------------------------------------
(* Package raw: the socket.  It captures nothing before it is bound.       *)

Passes(filter, w) == filter = "reply" => parsePacket(w).err = "" /\ parsePacket(w).op = OperationReply
\* The kernel's choice by protocol.
Accepts(proto, w) == proto = "ARP" => Len(w) >= 7 /\ w[7] = EtherTypeARP
Reaches(w) == sock.promisc \/ SubSeq(w, 1, 3) \in {ifi.hw, Broadcast}

\* listenPacket, newPacketConn: socket, filter, bind.
Socket ==
    /\ sock.st = "none" /\ ifi.proto # ""
    /\ sock' = [sock EXCEPT !.st = "open"]
    /\ UNCHANGED <<ifi, wire, cl, owner, owned, stats, sent>>

newPacketConn ==
    /\ sock.st = "open"
    /\ sock' = IF ifi.filter # sock.filter THEN [sock EXCEPT !.filter = ifi.filter] ELSE [sock EXCEPT !.st = "bound"]
    /\ UNCHANGED <<ifi, wire, cl, owner, owned, stats, sent>>

SetPromiscuous ==
    /\ sock.st = "bound" /\ cl.pc = "none" /\ ~sock.promisc
    /\ sock' = [sock EXCEPT !.promisc = TRUE]
    /\ UNCHANGED <<ifi, wire, cl, owner, owned, stats, sent>>

\* The network: a frame on the way comes, at any time, more than once, before
\* earlier ones or never.
Deliver ==
    /\ \E w \in wire :
        /\ sock.st = "bound" /\ sock.seen < SeenMax
        /\ Accepts(ifi.proto, w) /\ Reaches(w) /\ Passes(sock.filter, w)
        /\ LET full == Len(sock.queue) = QueueCap
           IN  sock' = [sock EXCEPT !.seen = @ + 1, !.kpackets = @ + 1, !.kdrops = IF full THEN @ + 1 ELSE @,
                                    !.dropped = IF full THEN @ + 1 ELSE @, !.queue = IF full THEN @ ELSE Append(@, w)]
    /\ UNCHANGED <<ifi, wire, cl, owner, owned, stats, sent>>

Send ==
    /\ sent < SendMax /\ ifi.proto # ""
    /\ \E w \in Traffic : w \notin wire /\ wire' = wire \cup {w}
    /\ sent' = sent + 1
    /\ UNCHANGED <<ifi, sock, cl, owner, owned, stats>>

\* Stats and handleStats: the kernel's counters, which are reset, are added to
\* the totals one after the other.
Stats(c) ==
    /\ \/ /\ stats.pc[c] = "idle" /\ stats.n[c] < ifi.queries /\ sock.st = "bound"
          /\ stats' = [stats EXCEPT !.pc[c] = "packets", !.n[c] = @ + 1, !.hand[c] = <<sock.kpackets, sock.kdrops>>]
          /\ sock' = [sock EXCEPT !.kpackets = 0, !.kdrops = 0]
       \/ /\ stats.pc[c] = "packets"
          /\ stats' = [stats EXCEPT !.pc[c] = "drops", !.packets = @ + stats.hand[c][1], !.hand[c][1] = 0]
          /\ UNCHANGED sock
       \/ /\ stats.pc[c] = "drops"
          /\ stats' = [stats EXCEPT !.pc[c] = "idle", !.drops = @ + stats.hand[c][2], !.hand[c][2] = 0]
          /\ UNCHANGED sock
    /\ UNCHANGED <<ifi, wire, cl, owner, owned, sent>>

-----------------------------------------------------------------------------
(* The client.                                                             *)

\* New and newClient
NewClient ==
    /\ sock.st = "bound" /\ cl.pc = "none"
    /\ cl' = [cl EXCEPT !.pc = "idle", !.ip = firstIPv4Addr(ifi.addrs)]
    /\ UNCHANGED <<ifi, wire, sock, owner, owned, stats, sent>>

\* Resolve, up to its loop: Request.
Resolve(ip) ==
    /\ cl.pc = "idle" /\ cl.calls < Calls
    /\ LET p == NewPacket(OperationRequest, ifi.hw, cl.ip, Broadcast, ip)
           err == IF cl.ip = <<>> THEN "errNoIPv4Addr" ELSE p.err
       IN  IF err # ""
           THEN cl' = [cl EXCEPT !.calls = @ + 1, !.asked = ip, !.err = err] /\ UNCHANGED wire
           ELSE /\ wire' = wire \cup {FrameFor(p, Broadcast).b}
                /\ cl' = [cl EXCEPT !.pc = "read", !.calls = @ + 1, !.asked = ip, !.err = "", !.got = <<>>]
    /\ UNCHANGED <<ifi, sock, owner, owned, stats, sent>>

\* Mutant: the address that replied is not looked at.
IsReplyAny(p) == p.op = OperationReply

IsReply(p) == p.op = OperationReply /\ p.sip = cl.asked

\* One round of Resolve's loop: Read, which goes on after a frame that is not
\* ARP and fails with one that is cut short.
Read ==
    /\ cl.pc = "read" /\ sock.queue # <<>>
    /\ LET p == parsePacket(Fit(Head(sock.queue), Min({64, Len(Head(sock.queue))})))
       IN  cl' = IF p.err = "errInvalidARPPacket" THEN cl
                 ELSE IF p.err # "" THEN [cl EXCEPT !.pc = "idle", !.err = p.err]
                 ELSE IF ~IsReply(p) THEN cl
                 ELSE [cl EXCEPT !.pc = "idle", !.got = p.shw]
    /\ sock' = [sock EXCEPT !.queue = Tail(@)]
    /\ UNCHANGED <<ifi, wire, owner, owned, stats, sent>>

\* The deadline that SetReadDeadline set.
Deadline ==
    /\ cl.pc = "read" /\ sock.queue = <<>>
    /\ cl' = [cl EXCEPT !.pc = "idle", !.err = "timeout"]
    /\ UNCHANGED <<ifi, wire, sock, owner, owned, stats, sent>>

\* Another station replies to a request that reaches it.
SendReply(s) ==
    /\ \E w \in wire :
        LET req == parsePacket(w)
        IN  /\ req.err = "" /\ req.op = OperationRequest
            /\ req.tip \in IPs /\ owner[req.tip] = s
            /\ LET p == NewPacket(OperationReply, s, req.tip, req.shw, req.sip)
               IN  p.err = "" /\ wire' = wire \cup {FrameFor(p, req.shw).b}
    /\ UNCHANGED <<ifi, sock, cl, owner, owned, stats, sent>>

\* An address moves.
Move ==
    /\ ifi.proto # ""
    /\ \E ip \in IPs, s \in Stations :
        /\ <<ip, s>> \notin owned
        /\ owner' = [owner EXCEPT ![ip] = s] /\ owned' = owned \cup {<<ip, s>>}
    /\ UNCHANGED <<ifi, wire, sock, cl, stats, sent>>

-----------------------------------------------------------------------------

ArpInit ==
    /\ ifi \in Interfaces
    /\ wire = {}
    /\ sock = [st |-> "none", filter |-> "", promisc |-> FALSE, queue |-> <<>>, seen |-> 0, dropped |-> 0, kpackets |-> 0, kdrops |-> 0]
    /\ cl = [pc |-> "none", ip |-> <<>>, calls |-> 0, asked |-> <<>>, err |-> "", got |-> <<>>]
    /\ owner \in [IPs -> Stations]
    /\ owned = {<<ip, owner[ip]>> : ip \in IPs}
    /\ stats = [packets |-> 0, drops |-> 0, pc |-> [c \in Counters |-> "idle"], n |-> [c \in Counters |-> 0], hand |-> [c \in Counters |-> <<0, 0>>]]
    /\ sent = 0
    /\ frame \in IF ifi.proto = "" THEN Samples ELSE {<<>>}

ArpNext ==
    /\ UNCHANGED frame
    /\ \/ Socket \/ newPacketConn \/ SetPromiscuous \/ NewClient \/ Read \/ Deadline
       \/ \E ip \in IPs : Resolve(ip)
       \/ \E s \in Stations : SendReply(s)
       \/ Deliver \/ Send \/ Move
       \/ \E c \in Counters : Stats(c)

-----------------------------------------------------------------------------
(* Properties.                                                             *)

InHand(i) == FoldFunction(LAMBDA h, x : h[i] + x, 0, stats.hand)

\* An address that Resolve returns belongs, or once belonged, to who was asked
\* for, whatever else was received; an interface with an IPv4 address and a
\* hardware address can always ask.  A filter given with the configuration
\* holds for every frame from the first on.  And no frame is counted twice or
\* forgotten by the totals of Stats, whoever calls it at the same time.
ResolveTrue ==
    /\ cl.got # <<>> => <<cl.asked, cl.got>> \in owned
    /\ cl.err \in {"errNoIPv4Addr", "ErrInvalidHardwareAddr"} => Len(ifi.hw) < 3 \/ \A i \in DOMAIN ifi.addrs : ifi.addrs[i] = <<>>
    /\ \A i \in DOMAIN sock.queue : Passes(ifi.filter, sock.queue[i])
    /\ stats.packets + InHand(1) + sock.kpackets = sock.seen
    /\ stats.drops + InHand(2) + sock.kdrops = sock.dropped

Padded(f) == [err |-> "", dst |-> f.dst, src |-> f.src, svlan |-> f.svlan, vlan |-> f.vlan, et |-> f.et, payload |-> Fit(f.payload, Max({minPayload, Len(f.payload)}))]
Changed(b, i) == [b EXCEPT ![i] = (@ + 1) % 65536]

\* A frame that can be written reads back as it was, but for the padding; cut
\* anywhere it is an error or the same header with less payload; and one that
\* carries its check sequence is refused when a word of it is changed.
FramesReadBack ==
    LET m == MarshalBinary(frame)
        c == MarshalFCS(frame)
    IN  frame # <<>> /\ m.err = "" =>
          /\ UnmarshalBinary(m.b) = Padded(frame)
          /\ \A n \in 0..(Len(m.b) - 1) :
                LET g == UnmarshalBinary(SubSeq(m.b, 1, n))
                IN  g.err = "" => [g EXCEPT !.payload = <<>>] = [Padded(frame) EXCEPT !.payload = <<>>] /\ IsPrefix(g.payload, Padded(frame).payload)
          /\ UnmarshalFCS(c.b) = Padded(frame)
          /\ \A i \in DOMAIN c.b : UnmarshalFCS(Changed(c.b, i)).err = "ErrInvalidFCS"

\* Resolve, the socket and the frames that carry its questions and answers.
ArpSound == ResolveTrue /\ FramesReadBack
====
