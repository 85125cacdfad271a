--------------------------- MODULE PacketDecoder ---------------------------
(***************************************************************************)
(* How core::ProtocolParser::parse (src/core/ProtocolParser.cpp) finds the *)
(* endpoints and the payload of one captured frame: it descends through    *)
(* link, network and transport headers, and into the packets that tunnels  *)
(* carry, one decoder calling the next.  A step is one decoder; each reads *)
(* a header if the bytes up to `end` hold it, and returns if not.          *)
(*                                                                         *)
(* A frame is the headers that were sent, its link header the first (of    *)
(* kind "link" if it is not Ethernet's), data and padding; any number of   *)
(* its bytes were captured.  A header is                                   *)
(*   kind   what it is;                     len   its length in bytes,     *)
(*   next   what it says follows;                 options and tags included*)
(*   total  for IPv4, IPv6 and UDP the length it declares from its start;  *)
(*   src, dst   its addresses or ports;                                    *)
(*   plain  FALSE for a later fragment, a GRE, GENEVE or VXLAN header that *)
(*          is not of the version decoded, an ARP that is not for IPv4;    *)
(*   bytes  for VXLAN and GENEVE what is sent from the header's start on.  *)
(* EtherTypes and protocol numbers are the names they stand for.           *)
(***************************************************************************)
EXTENDS Integers, Sequences

CONSTANTS
  Frames,          (* [link, layers, data, pad]                            *)
  MaxTunnelDepth,  (* kMaxTunnelDepth                                      *)
  None

LinkTypes == {"Ethernet", "LinuxSLL", "LinuxSLL2", "NullLoopback", "Loop",
              "RawIP", "IPv4", "IPv6", "Unsupported"}
IpVersions == {"IPv4", "IPv6"}

(* Where header i starts, and where the data after the last one does.      *)
Start(f, i) ==
  LET ends[j \in 0 .. Len(f.layers)] ==
        IF j = 0 THEN 0 ELSE ends[j - 1] + f.layers[j].len
  IN  ends[i - 1]
DataStart(f) == Start(f, Len(f.layers) + 1)
Wire(f)      == DataStart(f) + f.data.len + f.pad

(* What the decoders read, by the name that announces it.                  *)
Decoded == IpVersions \union
  {"MPLS", "PPPoE", "ARP", "V6Ext", "TCP", "UDP", "ICMP", "ICMPv6", "GRE"}

(* The header that h promises to be followed by, if it promises one.       *)
Promised(h) ==
  CASE h.kind = "UDP"     -> IF 4789 \in {h.src, h.dst} THEN "VXLAN"
                             ELSE IF 6081 \in {h.src, h.dst} THEN "GENEVE" ELSE None
    [] h.kind = "VXLAN"   -> "Ethernet"
    [] h.kind \notin {"UDP", "VXLAN"} /\ h.next = "TEB"     -> "Ethernet"
    [] h.kind \notin {"UDP", "VXLAN"} /\ h.next \in Decoded -> h.next
    [] OTHER              -> None

(* What the formats make true of every header of a kind.                   *)
Formed(h) ==
  /\ h.len \in Nat /\ h.total \in Nat /\ h.plain \in BOOLEAN
  /\ h.kind \in {"UDP", "VXLAN"}  => h.len = 8
  /\ h.kind \in {"ARP", "GENEVE"} => h.len >= 8
  /\ h.kind = "IPv6"       => h.len = 40 /\ h.total >= 40
  /\ h.kind \in IpVersions => None \notin {h.src, h.dst}

(* VXLAN: flags, of which only I is used, and reserved bytes.  GENEVE:     *)
(* version and option length, flags and reserved bits, an EtherType.       *)
UdpTunnels == {"VXLAN", "GENEVE"}
EtherTypes == [IPv4 |-> <<8, 0>>, IPv6 |-> <<134, 221>>, TEB |-> <<101, 88>>]
TunnelFormed(h) ==
  /\ h.kind \in UdpTunnels => h.bytes \in Seq(0 .. 255) /\ Len(h.bytes) >= 8
  /\ h.kind = "VXLAN"  =>
       /\ h.bytes[1] \in {0, 8} /\ h.plain = (h.bytes[1] = 8)
       /\ h.bytes[2] = 0 /\ h.bytes[3] = 0
  /\ h.kind = "GENEVE" =>
       /\ h.bytes[1] < 192 /\ h.plain = (h.bytes[1] < 64)
       /\ h.len = 8 + 4 * (h.bytes[1] % 64) /\ h.bytes[2] % 64 = 0
       /\ \A t \in DOMAIN EtherTypes :
            h.next = t <=> <<h.bytes[3], h.bytes[4]>> = EtherTypes[t]

ASSUME DepthAssumption == MaxTunnelDepth \in Nat
ASSUME NoneAssumption  ==
  None \notin Decoded \union {"Ethernet", "VXLAN", "GENEVE", "IP-in-IP", "6in4"}

(* Frames are what hosts send: each header follows the one that promises it.*)
ASSUME FramesAssumption == \A f \in Frames :
  /\ f.link \in LinkTypes
  /\ Len(f.layers) \in Nat \ {0} /\ DOMAIN f.layers = 1 .. Len(f.layers)
  /\ Wire(f) \in Nat
  /\ f.layers[1].kind = IF f.link = "Ethernet" THEN "Ethernet" ELSE "link"
  /\ f.link \in IpVersions => Len(f.layers) > 1 /\ f.layers[2].kind = f.link
  /\ \A i \in 1 .. Len(f.layers) :
       /\ Formed(f.layers[i])
       /\ Promised(f.layers[i]) # None =>
            i < Len(f.layers) /\ f.layers[i + 1].kind = Promised(f.layers[i])

(* After TCP, and after UDP but for the ports of tunnels, there is data.    *)
ASSUME TunnelsAssumption == \A f \in Frames : \A i \in DOMAIN f.layers :
  /\ TunnelFormed(f.layers[i])
  /\ f.layers[i].kind = "TCP" \/ (f.layers[i].kind = "UDP" /\ Promised(f.layers[i]) = None) =>
       i = Len(f.layers)

VARIABLES
  frame,     (* the argument,                                              *)
  size,      (* and how many of its bytes were captured                    *)
  decoder,   (* the decoder about to run                                   *)
  at,        (* the header it reads, an index into frame.layers            *)
  offset,    (* where that header starts                                   *)
  end,       (* where what the decoder may read ends                       *)
  depth,     (* packets that enclose this one                              *)
  type,      (* what the header before announced                           *)
  fallback,  (* the name MPLS, PPPoE or GRE gives what stays unknown       *)
  parsed     (* the ParsedPacket                                           *)

position == <<at, offset, end, depth, type, fallback>>
given    == <<frame, size>>
dvars    == <<given, decoder, position, parsed>>

Unparsed ==
  [protocol |-> "Unknown", src |-> None, dst |-> None, sport |-> 0, dport |-> 0,
   payloadOffset |-> 0, payloadLength |-> 0, tunnel |-> <<>>,
   outerSrc |-> None, outerDst |-> None, encrypted |-> FALSE, service |-> None,
   sni |-> None, hostname |-> None]

DInit ==
  /\ frame \in Frames /\ size \in 0 .. Wire(frame)
  /\ decoder = "link"
  /\ at = 1 /\ offset = 0 /\ end = size /\ depth = 0
  /\ type = None /\ fallback = None /\ parsed = Unparsed

---------------------------------------------------------------------------
Here    == frame.layers[at]
Fits(n) == offset + n <= end
Lesser(a, b) == IF a < b THEN a ELSE b

(* The IP version in the first four bits of header i, which starts at pos. *)
Sniffed(i, pos) ==
  IF pos < end /\ i <= Len(frame.layers) /\ frame.layers[i].kind \in IpVersions
  THEN frame.layers[i].kind ELSE None

(* The decoders return, down to parse().                                   *)
ReturnNamed(q, name) ==
  /\ parsed' = IF q.protocol = "Unknown" /\ name # None
               THEN [q EXCEPT !.protocol = name] ELSE q
  /\ decoder' = "dpi"
  /\ UNCHANGED <<given, position>>

Return(q) == ReturnNamed(q, fallback)

(* The next decoder, after a header of n bytes, in the same packet.        *)
Proceed(q, d, t, n, e) ==
  /\ parsed' = q /\ decoder' = d /\ type' = t
  /\ at' = at + 1 /\ offset' = offset + n /\ end' = e
  /\ UNCHANGED <<given, depth, fallback>>

(* decodeNetwork() for the packet that a header of n bytes carries.        *)
Descend(q, t, n, name) ==
  /\ parsed' = q /\ decoder' = "network" /\ type' = t
  /\ at' = at + 1 /\ offset' = offset + n /\ depth' = depth + 1
  /\ fallback' = name
  /\ UNCHANGED <<given, end>>

(* Mutant: each tunnel takes the addresses seen last for the carrier's.    *)
PushTunnel_Latest(q, name) ==
  [q EXCEPT !.outerSrc = q.src, !.outerDst = q.dst, !.tunnel = Append(@, name)]

PushTunnel(q, name) ==
  [q EXCEPT !.outerSrc = IF @ = None THEN q.src ELSE @,
            !.outerDst = IF q.outerSrc = None THEN q.dst ELSE @,
            !.tunnel   = Append(@, name)]

---------------------------------------------------------------------------
(* decodeLinkLayer(): what follows the link header, if it can be told.     *)
LinkNext ==
  CASE frame.link \in {"Ethernet", "LinuxSLL", "LinuxSLL2"} -> Here.next
    [] frame.link \in {"NullLoopback", "Loop"} ->
         IF Here.next \in IpVersions THEN Here.next ELSE Sniffed(2, Here.len)
    [] frame.link = "RawIP"      -> Sniffed(2, 0)
    [] frame.link \in IpVersions -> frame.link
    [] OTHER                     -> None

LinkFails ==
  /\ decoder = "link"
  /\ size = 0 \/ size < Here.len \/ LinkNext = None
  /\ decoder' = "done"
  /\ parsed' = [parsed EXCEPT !.protocol =
       IF size = 0 THEN "Unknown"
       ELSE IF frame.link = "Unsupported" THEN "Unsupported link type" ELSE "Truncated"]
  /\ UNCHANGED <<given, position>>

LinkLayer ==
  /\ decoder = "link"
  /\ size > 0 /\ size >= Here.len /\ LinkNext # None
  /\ Proceed(parsed, "network", LinkNext, Here.len, end)

Network(t) == decoder = "network" /\ depth <= MaxTunnelDepth /\ type = t

TooDeep == decoder = "network" /\ depth > MaxTunnelDepth /\ Return(parsed)

(* At most eight labels, and bare IP under them.                           *)
Mpls ==
  /\ Network("MPLS")
  /\ LET inner == IF Here.len <= 32 /\ Fits(Here.len)
                  THEN Sniffed(at + 1, offset + Here.len) ELSE None
     IN IF inner = None THEN ReturnNamed(parsed, "MPLS")
        ELSE Descend(PushTunnel(parsed, "MPLS"), inner, Here.len, "MPLS")

Pppoe ==
  /\ Network("PPPoE")
  /\ IF Fits(Here.len) /\ Here.next \in IpVersions
     THEN Descend(PushTunnel(parsed, "PPPoE"), Here.next, Here.len, "PPPoE")
     ELSE ReturnNamed(parsed, "PPPoE")

DeclaredEnd == Lesser(end, offset + Here.total)

Addressed == [parsed EXCEPT !.src = Here.src, !.dst = Here.dst]

IPv4Refused ==
  /\ Network("IPv4")
  /\ Here.len < 20 \/ ~Fits(Here.len) \/ Here.total < Here.len
  /\ Return(parsed)

IPv4 ==
  /\ Network("IPv4")
  /\ Here.len >= 20 /\ Fits(Here.len) /\ Here.total >= Here.len
  /\ IF Here.plain
     THEN Proceed(Addressed, "transport", Here.next, Here.len, DeclaredEnd)
     ELSE Return([Addressed EXCEPT !.protocol = "IPv4 Fragment"])

IPv6 ==
  /\ Network("IPv6")
  /\ IF Fits(Here.len)
     THEN Proceed(Addressed, "extension", Here.next, Here.len, DeclaredEnd)
     ELSE Return(parsed)

(* walkV6Extension(): a header that is cut short ends the walk, and is     *)
(* then the protocol.                                                      *)
Extension ==
  /\ decoder = "extension"
  /\ IF type = "V6Ext" /\ Fits(Here.len)
     THEN Proceed(parsed, "extension", Here.next, Here.len, end)
     ELSE /\ decoder' = "transport"
          /\ UNCHANGED <<given, position, parsed>>

Arp ==
  /\ Network("ARP")
  /\ LET arp == [parsed EXCEPT !.protocol = "ARP", !.service = "ARP"] IN
     Return(IF ~Fits(8) THEN [arp EXCEPT !.service = parsed.service]
            ELSE IF Here.plain /\ Fits(Here.len)
            THEN [arp EXCEPT !.src = Here.src, !.dst = Here.dst] ELSE arp)

OtherEtherType ==
  /\ decoder = "network" /\ depth <= MaxTunnelDepth
  /\ type \notin IpVersions \union {"MPLS", "PPPoE", "ARP"}
  /\ Return([parsed EXCEPT !.protocol = type])

---------------------------------------------------------------------------
Transport(t) == decoder = "transport" /\ type = t

Located(q, from, to) ==
  IF from < to THEN [q EXCEPT !.payloadOffset = from, !.payloadLength = to - from]
  ELSE q

Ports(q) == [q EXCEPT !.sport = Here.src, !.dport = Here.dst]

Tcp ==
  /\ Transport("TCP")
  /\ LET q == [parsed EXCEPT !.protocol = "TCP"] IN
     Return(IF ~Fits(20) THEN q
            ELSE IF Here.len < 20 \/ ~Fits(Here.len) THEN Ports(q)
            ELSE Located(Ports(q), offset + Here.len, end))

(* Mutant: the datagram may reach beyond the packet that carries it.       *)
UdpEnd_Declared == IF Here.total >= 8 THEN offset + Here.total ELSE end

UdpEnd == IF Here.total >= 8 THEN DeclaredEnd ELSE end

(* decodeUdp(): VXLAN and GENEVE by their ports, on either side.           *)
UdpTunnel ==
  IF depth >= MaxTunnelDepth THEN None
  ELSE IF 4789 \in {Here.src, Here.dst} THEN "VXLAN"
  ELSE IF 6081 \in {Here.src, Here.dst} THEN "GENEVE" ELSE None

Udp ==
  /\ Transport("UDP")
  /\ LET q == [parsed EXCEPT !.protocol = "UDP"]
         located == Located(Ports(q), offset + 8, UdpEnd)
     IN IF ~Fits(8) THEN Return(q)
        ELSE IF offset + 8 >= UdpEnd \/ UdpTunnel = None THEN Return(located)
        ELSE Proceed(located, UdpTunnel, "frame", 8, UdpEnd)

Icmp ==
  /\ decoder = "transport" /\ type \in {"ICMP", "ICMPv6"}
  /\ Return([parsed EXCEPT !.protocol = type,
                           !.service = IF Fits(2) THEN type ELSE @])

IpInIp ==
  /\ decoder = "transport" /\ type \in IpVersions
  /\ IF depth >= MaxTunnelDepth
     THEN Return([parsed EXCEPT !.protocol = "IP proto"])
     ELSE /\ parsed' = PushTunnel(parsed, IF type = "IPv4" THEN "IP-in-IP" ELSE "6in4")
          /\ decoder' = "network" /\ depth' = depth + 1
          /\ UNCHANGED <<given, at, offset, end, type, fallback>>

(* GRE and GENEVE carry an Ethernet frame ("TEB") or a bare packet; what   *)
(* else they carry is left alone.                                          *)
Carries(name, back) ==
  LET q == PushTunnel(parsed, name) IN
  CASE Here.next = "TEB"         -> /\ parsed' = q /\ decoder' = "inner"
                                    /\ at' = at + 1 /\ offset' = offset + Here.len
                                    /\ fallback' = back
                                    /\ UNCHANGED <<given, end, depth, type>>
    [] Here.next \in IpVersions  -> Descend(q, Here.next, Here.len, back)
    [] OTHER                     -> ReturnNamed(q, back)

Gre ==
  /\ Transport("GRE")
  /\ CASE depth >= MaxTunnelDepth -> Return([parsed EXCEPT !.protocol = "IP proto"])
       [] depth < MaxTunnelDepth /\ Here.plain /\ Fits(Here.len) -> Carries("GRE", "GRE")
       [] OTHER -> ReturnNamed(parsed, "GRE")

OtherTransport ==
  /\ decoder = "transport"
  /\ type \notin IpVersions \union {"TCP", "UDP", "ICMP", "ICMPv6", "GRE"}
  /\ Return(IF type = "ESP"
            THEN [parsed EXCEPT !.protocol = type, !.service = "IPsec (encrypted)",
                            !.encrypted = TRUE]
            ELSE [parsed EXCEPT !.protocol = type])

Vxlan ==
  /\ decoder = "VXLAN"
  /\ IF Fits(8) /\ Here.plain
     THEN Proceed(PushTunnel(parsed, "VXLAN"), "inner", type, 8, end)
     ELSE Return(parsed)

Geneve ==
  /\ decoder = "GENEVE"
  /\ IF Fits(Here.len) /\ Here.plain THEN Carries("GENEVE", fallback)
     ELSE Return(parsed)

InnerEthernet ==
  /\ decoder = "inner"
  /\ IF Fits(Here.len)
     THEN Descend(parsed, Here.next, Here.len, fallback)
     ELSE Return(parsed)

Decode ==
  \/ LinkFails \/ LinkLayer
  \/ TooDeep \/ Mpls \/ Pppoe \/ IPv4Refused \/ IPv4 \/ IPv6 \/ Extension
  \/ Arp \/ OtherEtherType
  \/ Tcp \/ Udp \/ Icmp \/ IpInIp \/ Gre \/ OtherTransport
  \/ Vxlan \/ Geneve \/ InnerEthernet

(* The decoders alone, until they return to parse().                       *)
DSpec == DInit /\ [][Decode]_dvars

(* What every analyzer indexes the capture by lies within the capture, and *)
(* a packet that nests tunnels without end does not keep the decoders: one *)
(* more is named than they descend into.                                   *)
WithinCapture ==
  /\ parsed.payloadOffset + parsed.payloadLength <= size
  /\ Len(parsed.tunnel) <= MaxTunnelDepth + 1
=============================================================================
