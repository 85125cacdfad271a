------------------------ MODULE PacketParser_proofs -------------------------
(***************************************************************************)
(* Whatever frame is captured and wherever it is cut, the payload that the *)
(* decoders of PacketDecoder report lies within the captured bytes, no     *)
(* nesting of tunnels keeps them descending, and the payload is what the   *)
(* lengths declared by the headers leave of what follows the last. Of a    *)
(* frame that is all there and spoken throughout, the innermost packet is  *)
(* what is shown, within the tunnels that it came through.                 *)
(*                                                                         *)
(* That what a decoder may read never reaches beyond the capture is kept   *)
(* by each; the rest of the first invariant is that each runs on the       *)
(* header it is for, without which the lengths it reads mean nothing, and  *)
(* that the tunnels named are counted by the depth. To it the second adds  *)
(* where the decoders have come to among the headers, and the third what   *)
(* the headers that they have read make them report.                       *)
(***************************************************************************)
EXTENDS PacketParser, SharedLemmas
LOCAL INSTANCE FiniteSetsExt

TunnelNames == {"MPLS", "PPPoE", "GRE", "VXLAN", "GENEVE", "IP-in-IP", "6in4"}

(* What is reported of a capture of s bytes.                               *)
Sound(q, s) ==
  /\ DOMAIN q = DOMAIN Unparsed
  /\ q.payloadOffset \in Nat /\ q.payloadLength \in Nat
  /\ q.payloadOffset + q.payloadLength <= s
  /\ q.tunnel \in Seq(TunnelNames)

(* q reports the payload and the tunnels that r does.                      *)
Agrees(q, r) ==
  /\ DOMAIN q = DOMAIN r
  /\ q.payloadOffset = r.payloadOffset /\ q.payloadLength = r.payloadLength
  /\ q.tunnel = r.tunnel

DTypes ==
  /\ frame \in Frames /\ size \in Nat
  /\ end \in Nat /\ end <= size /\ offset \in Nat
  /\ depth \in Nat
  /\ decoder \in {"link", "network", "extension", "transport", "VXLAN", "GENEVE",
                  "inner", "dpi", "dns", "done"}

On(kind) == at \in 1 .. Len(frame.layers) /\ frame.layers[at].kind = kind

(* The decoder that runs next finds the header that it reads.              *)
Finds ==
  /\ decoder = "link" => at = 1
  /\ decoder \in {"network", "transport", "extension"} /\ type \in Decoded => On(type)
  /\ decoder \in {"VXLAN", "GENEVE"} => On(decoder)
  /\ decoder = "inner" => On("Ethernet")

(* A tunnel is named just before the packet in it is entered.              *)
Nesting ==
  /\ decoder \in {"link", "transport", "extension"} =>
       depth <= MaxTunnelDepth /\ Len(parsed.tunnel) <= depth
  /\ decoder \in {"VXLAN", "GENEVE"} =>
       depth < MaxTunnelDepth /\ Len(parsed.tunnel) <= depth
  /\ decoder = "inner" => depth < MaxTunnelDepth /\ Len(parsed.tunnel) <= depth + 1
  /\ decoder = "network" =>
       depth <= MaxTunnelDepth + 1 /\ Len(parsed.tunnel) <= depth
  /\ Len(parsed.tunnel) <= MaxTunnelDepth + 1

IInv == DTypes /\ Finds /\ Nesting /\ Sound(parsed, size)

---------------------------------------------------------------------------
(* Fields of the report other than these do not matter.                    *)
LEMMA OtherFields ==
  ASSUME NEW q, DOMAIN q = DOMAIN Unparsed, NEW v
  PROVE  /\ Agrees([q EXCEPT !.protocol = v], q)
         /\ Agrees([q EXCEPT !.service = v], q)
         /\ Agrees([q EXCEPT !.src = v], q)
         /\ Agrees([q EXCEPT !.dst = v], q)
         /\ Agrees([q EXCEPT !.sport = v], q)
         /\ Agrees([q EXCEPT !.dport = v], q)
         /\ Agrees([q EXCEPT !.encrypted = v], q)
  BY DEF Agrees, Unparsed

LEMMA SoundAgrees ==
  ASSUME NEW q, NEW r, NEW s, Agrees(q, r), Sound(r, s)
  PROVE  Sound(q, s) /\ Len(q.tunnel) = Len(r.tunnel)
  BY DEF Agrees, Sound

(* A payload that ends where the capture does or before is reported so.    *)
LEMMA LocatedSound ==
  ASSUME NEW q, NEW s \in Nat, Sound(q, s), NEW from \in Nat, NEW to \in Nat, to <= s
  PROVE  /\ Sound(Located(q, from, to), s)
         /\ Located(q, from, to).tunnel = q.tunnel
  BY DEF Located, Sound, Unparsed

LEMMA PushSound ==
  ASSUME NEW q, NEW s, Sound(q, s), NEW name \in TunnelNames
  PROVE  /\ Sound(PushTunnel(q, name), s)
         /\ Len(PushTunnel(q, name).tunnel) = Len(q.tunnel) + 1
<1> DEFINE r == PushTunnel(q, name)
<1>1. /\ DOMAIN r = DOMAIN q
      /\ r.payloadOffset = q.payloadOffset /\ r.payloadLength = q.payloadLength
      /\ r.tunnel = Append(q.tunnel, name)
  BY DEF PushTunnel, Sound, Unparsed
<1>2. q.tunnel \in Seq(TunnelNames)
  BY DEF Sound
<1>3. Append(q.tunnel, name) \in Seq(TunnelNames) /\ Len(Append(q.tunnel, name)) = Len(q.tunnel) + 1
  BY <1>2
<1> QED
  BY <1>1, <1>3 DEF Sound

---------------------------------------------------------------------------
(* The header after the one being read.                                    *)
Follows(kind) ==
  at + 1 \in 1 .. Len(frame.layers) /\ frame.layers[at + 1].kind = kind

LEMMA HeaderRead ==
  ASSUME DTypes, at \in 1 .. Len(frame.layers)
  PROVE  /\ Here.len \in Nat /\ Here.total \in Nat /\ Here.plain \in BOOLEAN
         /\ Promised(Here) # None => Follows(Promised(Here))
<1>1. Len(frame.layers) \in Nat
  BY FramesAssumption DEF DTypes
<1>2. /\ Here.len \in Nat /\ Here.total \in Nat /\ Here.plain \in BOOLEAN
      /\ Promised(Here) # None =>
           at < Len(frame.layers) /\ frame.layers[at + 1].kind = Promised(Here)
  BY FramesAssumption DEF DTypes, Here, Formed
<1> QED
  BY <1>1, <1>2 DEF Follows

(* The decoders that read what the header says follows.                    *)
LEMMA NextFollows ==
  ASSUME DTypes, at \in 1 .. Len(frame.layers), Here.kind \notin {"UDP", "VXLAN"}
  PROVE  /\ Here.next \in Decoded => Follows(Here.next)
         /\ Here.next = "TEB" => Follows("Ethernet")
<1>1. "TEB" \notin Decoded
  BY DEF Decoded, IpVersions
<1>2. Here.next = "TEB" => Promised(Here) = "Ethernet"
  BY <1>1 DEF Promised
<1>3. Here.next \in Decoded => Promised(Here) = Here.next
  BY <1>1 DEF Promised
<1>4. Promised(Here) # None => Follows(Promised(Here))
  BY HeaderRead
<1>5. "Ethernet" # None /\ None \notin Decoded
  BY NoneAssumption
<1> QED
  BY <1>1, <1>2, <1>3, <1>4, <1>5

LEMMA SniffedFollows ==
  ASSUME DTypes, at \in 1 .. Len(frame.layers), NEW pos, Sniffed(at + 1, pos) # None
  PROVE  /\ Sniffed(at + 1, pos) \in IpVersions
         /\ Follows(Sniffed(at + 1, pos))
<1>1. Len(frame.layers) \in Nat
  BY FramesAssumption DEF DTypes
<1> QED
  BY <1>1 DEF Sniffed, Follows

LEMMA ReturnKeeps ==
  ASSUME IInv, NEW q, NEW name, ReturnNamed(q, name), Sound(q, size),
         Len(q.tunnel) <= MaxTunnelDepth + 1
  PROVE  IInv'
<1>1. Agrees(parsed', q)
  <2>1. Agrees(q, q)
    BY DEF Agrees
  <2> QED
    BY <2>1, OtherFields DEF ReturnNamed, Sound
<1>2. Sound(parsed', size) /\ Len(parsed'.tunnel) <= MaxTunnelDepth + 1
  BY <1>1, SoundAgrees
<1>3. /\ decoder' = "dpi" /\ size' = size /\ frame' = frame
      /\ end' = end /\ offset' = offset /\ depth' = depth
  BY DEF ReturnNamed, given, position
<1>4. DTypes'
  BY <1>3 DEF IInv, DTypes
<1>5. Finds' /\ Nesting'
  BY <1>2, <1>3 DEF Finds, Nesting
<1>6. Sound(parsed, size)'
  BY <1>2, <1>3 DEF Sound
<1> QED
  BY <1>4, <1>5, <1>6 DEF IInv

(* The next decoder d, at the next header, in the same packet or in the    *)
(* one that a tunnel carries.                                              *)
Enters(q, d, t, n, e, k) ==
  /\ parsed' = q /\ decoder' = d /\ type' = t
  /\ at' = at + 1 /\ offset' = offset + n /\ end' = e /\ depth' = k
  /\ UNCHANGED given

LEMMA EntersTyped ==
  ASSUME IInv, NEW q, NEW d, NEW t, NEW n \in Nat, NEW e \in Nat, NEW k \in Nat,
         Enters(q, d, t, n, e, k), e <= size, Sound(q, size)
  PROVE  /\ decoder' = d /\ type' = t /\ at' = at + 1 /\ depth' = k
         /\ frame' = frame /\ parsed' = q /\ Sound(parsed, size)'
         /\ frame \in Frames /\ size' \in Nat /\ offset' \in Nat
         /\ end' \in Nat /\ end' <= size' /\ depth' \in Nat
         /\ Len(parsed'.tunnel) \in Nat
<1>1. /\ decoder' = d /\ size' = size /\ frame' = frame /\ type' = t /\ parsed' = q
      /\ end' = e /\ offset' = offset + n /\ depth' = k /\ at' = at + 1
  BY DEF Enters, given
<1>2. Sound(parsed, size)' /\ Len(parsed'.tunnel) \in Nat
  BY <1>1 DEF Sound
<1> QED
  BY <1>1, <1>2 DEF IInv, DTypes

LEMMA NetworkKeeps ==
  ASSUME IInv, NEW q, NEW t, NEW n \in Nat, NEW k \in Nat,
         Enters(q, "network", t, n, end, k), Sound(q, size),
         t \in Decoded => Follows(t), Len(q.tunnel) <= k, k <= MaxTunnelDepth + 1
  PROVE  IInv'
<1>1. end \in Nat /\ end <= size
  BY DEF IInv, DTypes
<1>2. /\ decoder' = "network" /\ type' = t /\ at' = at + 1 /\ depth' = k
      /\ frame' = frame /\ parsed' = q
  BY <1>1, EntersTyped
<1>3. DTypes' /\ Sound(parsed, size)' /\ Len(parsed'.tunnel) \in Nat
  BY <1>1, <1>2, EntersTyped DEF DTypes
<1>4. Finds'
  BY <1>2 DEF Finds, Follows, On
<1>5. Nesting'
  BY <1>2, <1>3, DepthAssumption DEF Nesting
<1> QED
  BY <1>3, <1>4, <1>5 DEF IInv

LEMMA TransportKeeps ==
  ASSUME IInv, NEW q, NEW d \in {"extension", "transport"}, NEW t, NEW n \in Nat, NEW e \in Nat,
         Enters(q, d, t, n, e, depth), e <= size, Sound(q, size),
         t \in Decoded => Follows(t), Len(q.tunnel) <= depth, depth <= MaxTunnelDepth
  PROVE  IInv'
<1>1. depth \in Nat
  BY DEF IInv, DTypes
<1>2. /\ decoder' = d /\ type' = t /\ at' = at + 1 /\ depth' = depth
      /\ frame' = frame /\ parsed' = q
  BY <1>1, EntersTyped
<1>3. DTypes' /\ Sound(parsed, size)' /\ Len(parsed'.tunnel) \in Nat
  BY <1>1, <1>2, EntersTyped DEF DTypes
<1>4. Finds'
  BY <1>2 DEF Finds, Follows, On
<1>5. Nesting'
  BY <1>1, <1>2, <1>3, DepthAssumption DEF Nesting
<1> QED
  BY <1>3, <1>4, <1>5 DEF IInv

LEMMA UdpTunnelKeeps ==
  ASSUME IInv, NEW q, NEW d \in {"VXLAN", "GENEVE"}, NEW t, NEW n \in Nat, NEW e \in Nat,
         Enters(q, d, t, n, e, depth), e <= size, Sound(q, size),
         Follows(d), Len(q.tunnel) <= depth, depth < MaxTunnelDepth
  PROVE  IInv'
<1>1. depth \in Nat
  BY DEF IInv, DTypes
<1>2. /\ decoder' = d /\ type' = t /\ at' = at + 1 /\ depth' = depth
      /\ frame' = frame /\ parsed' = q
  BY <1>1, EntersTyped
<1>3. DTypes' /\ Sound(parsed, size)' /\ Len(parsed'.tunnel) \in Nat
  BY <1>1, <1>2, EntersTyped DEF DTypes
<1>4. Finds'
  BY <1>2 DEF Finds, Follows, On
<1>5. Nesting'
  BY <1>1, <1>2, <1>3, DepthAssumption DEF Nesting
<1> QED
  BY <1>3, <1>4, <1>5 DEF IInv

LEMMA InnerKeeps ==
  ASSUME IInv, NEW q, NEW t, NEW n \in Nat,
         Enters(q, "inner", t, n, end, depth), Sound(q, size),
         Follows("Ethernet"), Len(q.tunnel) <= depth + 1, depth < MaxTunnelDepth
  PROVE  IInv'
<1>1. depth \in Nat /\ end \in Nat /\ end <= size
  BY DEF IInv, DTypes
<1>2. /\ decoder' = "inner" /\ type' = t /\ at' = at + 1 /\ depth' = depth
      /\ frame' = frame /\ parsed' = q
  BY <1>1, EntersTyped
<1>3. DTypes' /\ Sound(parsed, size)' /\ Len(parsed'.tunnel) \in Nat
  BY <1>1, <1>2, EntersTyped DEF DTypes
<1>4. Finds'
  BY <1>2 DEF Finds, Follows, On
<1>5. Nesting'
  BY <1>1, <1>2, <1>3, DepthAssumption DEF Nesting
<1> QED
  BY <1>3, <1>4, <1>5 DEF IInv

---------------------------------------------------------------------------
LEMMA Initially == DInit => IInv
<1> SUFFICES ASSUME DInit PROVE IInv
  OBVIOUS
<1>1. Wire(frame) \in Nat
  BY FramesAssumption DEF DInit
<1>2. DTypes
  BY <1>1 DEF DInit, DTypes
<1>3. Finds /\ Nesting /\ Sound(parsed, size)
  BY <1>1, DepthAssumption DEF DInit, Finds, Nesting, Sound, Unparsed
<1> QED
  BY <1>2, <1>3 DEF IInv

LEMMA LinkKeeps ==
  ASSUME IInv, LinkFails \/ LinkLayer
  PROVE  IInv'
<1>1. CASE LinkFails
  <2>1. PICK name : parsed' = [parsed EXCEPT !.protocol = name]
    BY <1>1 DEF LinkFails
  <2>2. /\ Agrees(parsed', parsed)
    BY <2>1, OtherFields DEF IInv, Sound
  <2>3. Sound(parsed', size) /\ Len(parsed'.tunnel) = Len(parsed.tunnel)
    BY <2>2, SoundAgrees DEF IInv
  <2>4. /\ decoder' = "done" /\ size' = size /\ frame' = frame
        /\ end' = end /\ offset' = offset /\ depth' = depth
    BY <1>1 DEF LinkFails, given, position
  <2>5. DTypes' /\ Finds'
    BY <2>4 DEF IInv, DTypes, Finds
  <2>6. Nesting'
    BY <2>3, <2>4 DEF IInv, Nesting
  <2>7. Sound(parsed, size)'
    BY <2>3, <2>4 DEF Sound
  <2> QED
    BY <2>5, <2>6, <2>7 DEF IInv
<1>2. CASE LinkLayer
  <2>1. /\ frame.layers[1].kind \in {"link", "Ethernet"} /\ Len(frame.layers) \in Nat \ {0}
        /\ frame.link \in IpVersions => Len(frame.layers) > 1 /\ frame.layers[2].kind = frame.link
    BY FramesAssumption DEF IInv, DTypes
  <2>2. at = 1 /\ at \in 1 .. Len(frame.layers) /\ DTypes
    BY <1>2, <2>1 DEF LinkLayer, IInv, Finds
  <2>3. Here.len \in Nat
    BY <2>2, HeaderRead
  <2>4. LinkNext \in Decoded => Follows(LinkNext)
    <3>1. Here.next \in Decoded => Follows(Here.next)
      BY <2>1, <2>2, NextFollows DEF Here
    <3>2. \A pos : Sniffed(2, pos) # None => Follows(Sniffed(2, pos))
      BY <2>2, SniffedFollows
    <3>3. frame.link \in IpVersions => Follows(frame.link)
      BY <2>1, <2>2 DEF Follows
    <3> QED
      BY <3>1, <3>2, <3>3, NoneAssumption DEF LinkNext
  <2>5. Enters(parsed, "network", LinkNext, Here.len, end, depth)
    BY <1>2 DEF LinkLayer, Proceed, Enters, given
  <2>6. /\ end \in Nat /\ end <= size /\ depth \in Nat /\ depth <= MaxTunnelDepth
        /\ Sound(parsed, size) /\ Len(parsed.tunnel) <= depth
    BY <1>2 DEF LinkLayer, IInv, DTypes, Nesting
  <2>7. Len(parsed.tunnel) \in Nat
    BY <2>6 DEF Sound
  <2>8. depth <= MaxTunnelDepth + 1
    BY <2>6, DepthAssumption
  <2> QED
    BY <2>3, <2>4, <2>5, <2>6, <2>8, NetworkKeeps DEF Enters
<1> QED
  BY <1>1, <1>2

---------------------------------------------------------------------------
LEMMA Held ==
  ASSUME IInv
  PROVE  /\ DTypes /\ Sound(parsed, size)
         /\ size \in Nat /\ end \in Nat /\ end <= size /\ offset \in Nat /\ depth \in Nat
         /\ Len(parsed.tunnel) \in Nat /\ Len(parsed.tunnel) <= MaxTunnelDepth + 1
         /\ MaxTunnelDepth \in Nat /\ Len(frame.layers) \in Nat
  BY DepthAssumption, FramesAssumption DEF IInv, DTypes, Nesting, Sound

LEMMA ReturnReported ==
  ASSUME IInv, NEW q, NEW name, ReturnNamed(q, name), Agrees(q, parsed)
  PROVE  IInv'
<1>1. Sound(q, size) /\ Len(q.tunnel) <= MaxTunnelDepth + 1
  BY Held, SoundAgrees
<1> QED
  BY <1>1, ReturnKeeps

LEMMA AgreesAgain ==
  ASSUME NEW q, NEW r, NEW s, Agrees(q, r), Agrees(r, s)
  PROVE  Agrees(q, s)
  BY DEF Agrees

LEMMA AgreesSelf == ASSUME NEW q PROVE Agrees(q, q)
  BY DEF Agrees

(* Reading and naming in the network layer.                                *)
LEMMA NetworkReads ==
  ASSUME IInv, NEW t, Network(t), t \in Decoded \ {"UDP"}
  PROVE  /\ depth <= MaxTunnelDepth /\ Len(parsed.tunnel) <= depth
         /\ at \in 1 .. Len(frame.layers) /\ Here.kind = t
         /\ Here.len \in Nat /\ Here.total \in Nat /\ Here.plain \in BOOLEAN
         /\ Here.next \in Decoded => Follows(Here.next)
<1>1. /\ depth <= MaxTunnelDepth /\ Len(parsed.tunnel) <= depth
      /\ at \in 1 .. Len(frame.layers) /\ Here.kind = t
  BY DEF Network, IInv, Nesting, Finds, On, Here
<1>2. Here.kind \notin {"UDP", "VXLAN"}
  BY <1>1 DEF Decoded, IpVersions
<1>3. DTypes
  BY Held
<1>4. Here.len \in Nat /\ Here.total \in Nat /\ Here.plain \in BOOLEAN
  BY <1>1, <1>3, HeaderRead
<1>5. Here.next \in Decoded => Follows(Here.next)
  BY <1>1, <1>2, <1>3, NextFollows
<1> QED
  BY <1>1, <1>4, <1>5

LEMMA AddressedAgrees ==
  ASSUME IInv
  PROVE  /\ Agrees(Addressed, parsed)
         /\ Sound(Addressed, size) /\ Len(Addressed.tunnel) = Len(parsed.tunnel)
<1>1. DOMAIN parsed = DOMAIN Unparsed
  BY Held DEF Sound
<1>2. Agrees(Addressed, parsed)
  BY <1>1 DEF Addressed, Agrees, Unparsed
<1> QED
  BY <1>2, Held, SoundAgrees

LEMMA DescendKeeps ==
  ASSUME IInv, NEW name \in TunnelNames, NEW t, NEW n, NEW back, n \in Nat,
         Descend(PushTunnel(parsed, name), t, n, back), t \in Decoded => Follows(t),
         depth <= MaxTunnelDepth, Len(parsed.tunnel) <= depth
  PROVE  IInv'
<1>1. /\ Sound(PushTunnel(parsed, name), size)
      /\ Len(PushTunnel(parsed, name).tunnel) = Len(parsed.tunnel) + 1
  BY Held, PushSound
<1>2. Len(PushTunnel(parsed, name).tunnel) <= depth + 1 /\ depth + 1 <= MaxTunnelDepth + 1
      /\ depth + 1 \in Nat
  BY <1>1, Held
<1>3. Enters(PushTunnel(parsed, name), "network", t, n, end, depth + 1)
  BY DEF Descend, Enters, given
<1> QED
  BY <1>1, <1>2, <1>3, NetworkKeeps DEF Enters

LEMMA TunnelKeeps ==
  ASSUME IInv, TooDeep \/ Mpls \/ Pppoe
  PROVE  IInv'
<1>1. CASE TooDeep
  BY <1>1, AgreesSelf, ReturnReported DEF TooDeep, Return
<1>2. CASE Mpls
  <2>1. "MPLS" \in Decoded \ {"UDP"}
    BY DEF Decoded
  <2>2. Network("MPLS")
    BY <1>2 DEF Mpls
  <2> DEFINE inner == IF Here.len <= 32 /\ Fits(Here.len)
                      THEN Sniffed(at + 1, offset + Here.len) ELSE None
  <2>3. inner # None => inner \in IpVersions /\ Follows(inner)
    BY <2>1, <2>2, Held, NetworkReads, SniffedFollows
  <2>4. \/ ReturnNamed(parsed, "MPLS")
        \/ inner # None /\ Descend(PushTunnel(parsed, "MPLS"), inner, Here.len, "MPLS")
    BY <1>2 DEF Mpls
  <2> HIDE DEF inner
  <2>5. CASE ReturnNamed(parsed, "MPLS")
    BY <2>5, AgreesSelf, ReturnReported
  <2>6. CASE inner # None /\ Descend(PushTunnel(parsed, "MPLS"), inner, Here.len, "MPLS")
    <3>1. /\ Here.len \in Nat /\ depth <= MaxTunnelDepth /\ Len(parsed.tunnel) <= depth
      BY <2>1, <2>2, NetworkReads
    <3>2. inner \in Decoded => Follows(inner)
      BY <2>3, <2>6
    <3>3. "MPLS" \in TunnelNames
      BY DEF TunnelNames
    <3> QED
      BY <2>6, <3>1, <3>2, <3>3, DescendKeeps DEF Descend
  <2> QED
    BY <2>4, <2>5, <2>6
<1>3. CASE Pppoe
  <2>1. "PPPoE" \in Decoded \ {"UDP"} /\ IpVersions \subseteq Decoded
    BY DEF Decoded
  <2>2. Network("PPPoE")
    BY <1>3 DEF Pppoe
  <2>3. CASE ReturnNamed(parsed, "PPPoE")
    BY <2>3, AgreesSelf, ReturnReported
  <2>4. CASE Here.next \in IpVersions /\ Descend(PushTunnel(parsed, "PPPoE"), Here.next, Here.len, "PPPoE")
    <3>1. /\ Here.len \in Nat /\ depth <= MaxTunnelDepth /\ Len(parsed.tunnel) <= depth
          /\ Here.next \in Decoded => Follows(Here.next)
      BY <2>1, <2>2, NetworkReads
    <3>2. "PPPoE" \in TunnelNames
      BY DEF TunnelNames
    <3> QED
      BY <2>4, <3>1, <3>2, DescendKeeps DEF Descend
  <2> QED
    BY <1>3, <2>3, <2>4 DEF Pppoe
<1> QED
  BY <1>1, <1>2, <1>3

---------------------------------------------------------------------------
(* A packet ends where it says, but never beyond what encloses it.         *)
LEMMA EndsWithin ==
  ASSUME IInv, Here.total \in Nat
  PROVE  /\ DeclaredEnd \in Nat /\ DeclaredEnd <= size /\ DeclaredEnd <= end
         /\ UdpEnd \in Nat /\ UdpEnd <= size /\ UdpEnd <= end
<1>1. /\ DeclaredEnd \in Nat /\ DeclaredEnd <= end
  BY Held DEF DeclaredEnd, Lesser
<1>2. UdpEnd \in Nat /\ UdpEnd <= end
  BY <1>1, Held DEF UdpEnd
<1> QED
  BY <1>1, <1>2, Held

LEMMA IpKeeps ==
  ASSUME IInv, IPv4Refused \/ IPv4 \/ IPv6 \/ Extension
  PROVE  IInv'
<1>1. CASE IPv4Refused
  BY <1>1, AgreesSelf, ReturnReported DEF IPv4Refused, Return
<1>2. CASE IPv4
  <2>1. Network("IPv4") /\ "IPv4" \in Decoded \ {"UDP"}
    BY <1>2 DEF IPv4, Decoded, IpVersions
  <2>2. CASE Proceed(Addressed, "transport", Here.next, Here.len, DeclaredEnd)
    <3>1. Enters(Addressed, "transport", Here.next, Here.len, DeclaredEnd, depth)
      BY <2>2 DEF Proceed, Enters
    <3>2. /\ Sound(Addressed, size) /\ Len(Addressed.tunnel) <= depth
          /\ depth <= MaxTunnelDepth /\ Here.len \in Nat
          /\ Here.next \in Decoded => Follows(Here.next)
      BY <2>1, NetworkReads, AddressedAgrees
    <3>3. DeclaredEnd \in Nat /\ DeclaredEnd <= size
      BY <2>1, NetworkReads, EndsWithin
    <3> QED
      BY <3>1, <3>2, <3>3, TransportKeeps DEF Enters
  <2>3. CASE Return([Addressed EXCEPT !.protocol = "IPv4 Fragment"])
    <3>1. Agrees([Addressed EXCEPT !.protocol = "IPv4 Fragment"], Addressed)
      BY AddressedAgrees, OtherFields DEF Sound
    <3> QED
      BY <2>3, <3>1, AddressedAgrees, AgreesAgain, ReturnReported DEF Return
  <2> QED
    BY <1>2, <2>2, <2>3 DEF IPv4
<1>3. CASE IPv6
  <2>1. Network("IPv6") /\ "IPv6" \in Decoded \ {"UDP"}
    BY <1>3 DEF IPv6, Decoded, IpVersions
  <2>2. CASE Proceed(Addressed, "extension", Here.next, Here.len, DeclaredEnd)
    <3>1. Enters(Addressed, "extension", Here.next, Here.len, DeclaredEnd, depth)
      BY <2>2 DEF Proceed, Enters
    <3>2. /\ Sound(Addressed, size) /\ Len(Addressed.tunnel) <= depth
          /\ depth <= MaxTunnelDepth /\ Here.len \in Nat
          /\ Here.next \in Decoded => Follows(Here.next)
      BY <2>1, NetworkReads, AddressedAgrees
    <3>3. DeclaredEnd \in Nat /\ DeclaredEnd <= size
      BY <2>1, NetworkReads, EndsWithin
    <3> QED
      BY <3>1, <3>2, <3>3, TransportKeeps DEF Enters
  <2>3. CASE Return(parsed)
    BY <2>3, AgreesSelf, ReturnReported DEF Return
  <2> QED
    BY <1>3, <2>2, <2>3 DEF IPv6
<1>4. CASE Extension
  <2>1. /\ decoder = "extension" /\ depth <= MaxTunnelDepth /\ Len(parsed.tunnel) <= depth
    BY <1>4 DEF Extension, IInv, Nesting
  <2>2. CASE type = "V6Ext" /\ Proceed(parsed, "extension", Here.next, Here.len, end)
    <3>1. at \in 1 .. Len(frame.layers) /\ Here.kind \notin {"UDP", "VXLAN"}
      BY <2>1, <2>2 DEF IInv, Finds, On, Here, Decoded
    <3>2. Here.len \in Nat /\ (Here.next \in Decoded => Follows(Here.next))
      BY <3>1, Held, HeaderRead, NextFollows
    <3>3. Enters(parsed, "extension", Here.next, Here.len, end, depth)
      BY <2>2 DEF Proceed, Enters
    <3>4. Sound(parsed, size) /\ end \in Nat /\ end <= size
      BY Held
    <3> QED
      BY <2>1, <3>2, <3>3, <3>4, TransportKeeps DEF Enters
  <2>3. CASE decoder' = "transport" /\ UNCHANGED <<given, position, parsed>>
    BY <2>1, <2>3 DEF IInv, DTypes, Finds, On, Nesting, Sound, given, position
  <2> QED
    BY <1>4, <2>2, <2>3 DEF Extension
<1> QED
  BY <1>1, <1>2, <1>3, <1>4

(* The decoders that name what they find and go no further.                *)
LEMMA NamedReturn ==
  ASSUME IInv, Arp \/ OtherEtherType \/ Icmp \/ OtherTransport
  PROVE  \E q : Return(q) /\ Agrees(q, parsed)
<1>1. DOMAIN parsed = DOMAIN Unparsed
  BY Held DEF Sound
<1>2. CASE Arp
  <2> DEFINE arp == [parsed EXCEPT !.protocol = "ARP", !.service = "ARP"]
             q == IF ~Fits(8) THEN [arp EXCEPT !.service = parsed.service]
                  ELSE IF Here.plain /\ Fits(Here.len)
                  THEN [arp EXCEPT !.src = Here.src, !.dst = Here.dst] ELSE arp
  <2>1. Agrees(arp, parsed)
    BY <1>1 DEF Agrees, Unparsed
  <2>2. DOMAIN arp = DOMAIN Unparsed
    BY <1>1
  <2> HIDE DEF arp
  <2>3. Agrees([arp EXCEPT !.src = Here.src, !.dst = Here.dst], arp)
    BY <2>2 DEF Agrees, Unparsed
  <2>4. Agrees([arp EXCEPT !.service = parsed.service], arp)
    BY <2>2, OtherFields
  <2>5. Agrees(q, parsed)
    BY <2>1, <2>3, <2>4, AgreesAgain
  <2>6. Return(q)
    BY <1>2 DEF Arp, arp
  <2> QED
    BY <2>5, <2>6
<1>3. CASE OtherEtherType
  BY <1>1, <1>3, OtherFields DEF OtherEtherType
<1>4. CASE Icmp
  <2> DEFINE q == [parsed EXCEPT !.protocol = type,
                                 !.service = IF Fits(2) THEN type ELSE @]
  <2>1. Agrees(q, parsed)
    BY <1>1 DEF Agrees, Unparsed
  <2>2. Return(q)
    BY <1>4 DEF Icmp
  <2> QED
    BY <2>1, <2>2
<1>5. CASE OtherTransport
  <2> DEFINE q == [parsed EXCEPT !.protocol = type, !.service = "IPsec (encrypted)",
                                 !.encrypted = TRUE]
  <2>1. Agrees(q, parsed)
    BY <1>1 DEF Agrees, Unparsed
  <2>2. Agrees([parsed EXCEPT !.protocol = type], parsed)
    BY <1>1, OtherFields
  <2>3. Return(q) \/ Return([parsed EXCEPT !.protocol = type])
    BY <1>5 DEF OtherTransport
  <2> QED
    BY <2>1, <2>2, <2>3
<1> QED
  BY <1>2, <1>3, <1>4, <1>5

LEMMA NamedKeeps ==
  ASSUME IInv, Arp \/ OtherEtherType \/ Icmp \/ OtherTransport
  PROVE  IInv'
  BY NamedReturn, ReturnReported DEF Return

---------------------------------------------------------------------------
LEMMA TransportReads ==
  ASSUME IInv, NEW t, Transport(t), t \in Decoded
  PROVE  /\ depth <= MaxTunnelDepth /\ Len(parsed.tunnel) <= depth
         /\ at \in 1 .. Len(frame.layers) /\ Here.kind = t
         /\ Here.len \in Nat /\ Here.total \in Nat /\ Here.plain \in BOOLEAN
         /\ Promised(Here) # None => Follows(Promised(Here))
<1>1. /\ depth <= MaxTunnelDepth /\ Len(parsed.tunnel) <= depth
      /\ at \in 1 .. Len(frame.layers) /\ Here.kind = t
  BY DEF Transport, IInv, Nesting, Finds, On, Here
<1> QED
  BY <1>1, Held, HeaderRead

(* A TCP or UDP header that was read, with what it carries.                *)
LEMMA PortsSound ==
  ASSUME IInv, NEW v, NEW from \in Nat, NEW to \in Nat, to <= size
  PROVE  LET q == Ports([parsed EXCEPT !.protocol = v]) IN
         /\ Agrees(q, parsed)
         /\ Sound(Located(q, from, to), size)
         /\ Located(q, from, to).tunnel = parsed.tunnel
<1> DEFINE p == [parsed EXCEPT !.protocol = v]
           q == Ports(p)
<1>1. Agrees(p, parsed) /\ DOMAIN p = DOMAIN Unparsed
  BY Held, OtherFields DEF Sound
<1> HIDE DEF p
<1>2. Agrees(q, p)
  BY <1>1 DEF Ports, Agrees, Unparsed
<1>3. Agrees(q, parsed)
  BY <1>1, <1>2, AgreesAgain
<1>4. Sound(q, size) /\ q.tunnel = parsed.tunnel
  BY <1>3, Held, SoundAgrees DEF Agrees
<1> HIDE DEF q
<1>5. /\ Sound(Located(q, from, to), size)
      /\ Located(q, from, to).tunnel = parsed.tunnel
  <2>1. size \in Nat
    BY Held
  <2> QED
    BY <1>4, <2>1, LocatedSound
<1> QED
  BY <1>3, <1>5 DEF q, p

LEMMA TcpKeeps ==
  ASSUME IInv, Tcp
  PROVE  IInv'
<1>1. Transport("TCP") /\ "TCP" \in Decoded
  BY DEF Tcp, Decoded
<1>2. Here.len \in Nat
  BY <1>1, TransportReads
<1> DEFINE q == [parsed EXCEPT !.protocol = "TCP"]
<1>3. /\ Agrees(Ports(q), parsed)
      /\ Sound(Located(Ports(q), offset + Here.len, end), size)
      /\ Located(Ports(q), offset + Here.len, end).tunnel = parsed.tunnel
  <2>1. offset + Here.len \in Nat /\ end \in Nat /\ end <= size
    BY <1>2, Held
  <2> QED
    BY <2>1, PortsSound
<1>4. Agrees(q, parsed)
  BY Held, OtherFields DEF Sound
<1>5. Return(q) \/ Return(Ports(q)) \/ Return(Located(Ports(q), offset + Here.len, end))
  BY DEF Tcp
<1> HIDE DEF q
<1>6. CASE Return(q) \/ Return(Ports(q))
  BY <1>3, <1>4, <1>6, ReturnReported DEF Return
<1>7. CASE Return(Located(Ports(q), offset + Here.len, end))
  BY <1>3, <1>7, Held, ReturnKeeps DEF Return
<1> QED
  BY <1>5, <1>6, <1>7

LEMMA UdpKeeps ==
  ASSUME IInv, Udp
  PROVE  IInv'
<1>1. Transport("UDP") /\ "UDP" \in Decoded
  BY DEF Udp, Decoded
<1> DEFINE q == [parsed EXCEPT !.protocol = "UDP"]
           located == Located(Ports(q), offset + 8, UdpEnd)
<1>2. UdpEnd \in Nat /\ UdpEnd <= size
  BY <1>1, TransportReads, EndsWithin
<1>3. Sound(located, size) /\ located.tunnel = parsed.tunnel
  <2>1. offset + 8 \in Nat
    BY Held
  <2> QED
    BY <1>2, <2>1, PortsSound
<1>4. Agrees(q, parsed)
  BY Held, OtherFields DEF Sound
<1>5. \/ Return(q) \/ Return(located)
      \/ UdpTunnel # None /\ Proceed(located, UdpTunnel, "frame", 8, UdpEnd)
  BY DEF Udp
<1> HIDE DEF q, located
<1>6. CASE Return(q)
  BY <1>4, <1>6, ReturnReported DEF Return
<1>7. CASE Return(located)
  BY <1>3, <1>7, Held, ReturnKeeps DEF Return
<1>8. CASE UdpTunnel # None /\ Proceed(located, UdpTunnel, "frame", 8, UdpEnd)
  <2>1. depth < MaxTunnelDepth /\ UdpTunnel \in {"VXLAN", "GENEVE"}
    BY <1>8, Held DEF UdpTunnel
  <2>2. Here.kind = "UDP" => Promised(Here) = UdpTunnel
    BY <1>8, <2>1 DEF UdpTunnel, Promised
  <2>3. Follows(UdpTunnel)
    BY <1>1, <1>8, <2>2, TransportReads
  <2>4. Enters(located, UdpTunnel, "frame", 8, UdpEnd, depth)
    BY <1>8 DEF Proceed, Enters
  <2>5. Len(located.tunnel) <= depth /\ 8 \in Nat
    BY <1>1, <1>3, TransportReads
  <2> QED
    BY <1>2, <1>3, <2>1, <2>3, <2>4, <2>5, UdpTunnelKeeps DEF Enters
<1> QED
  BY <1>5, <1>6, <1>7, <1>8

---------------------------------------------------------------------------
LEMMA IpInIpKeeps ==
  ASSUME IInv, IpInIp
  PROVE  IInv'
<1>1. decoder = "transport" /\ type \in IpVersions
  BY DEF IpInIp
<1>2. /\ depth <= MaxTunnelDepth /\ Len(parsed.tunnel) <= depth
      /\ type \in Decoded => On(type)
  BY <1>1 DEF IInv, Nesting, Finds
<1>3. CASE Return([parsed EXCEPT !.protocol = "IP proto"])
  <2>1. Agrees([parsed EXCEPT !.protocol = "IP proto"], parsed)
    BY Held, OtherFields DEF Sound
  <2> QED
    BY <1>3, <2>1, ReturnReported DEF Return
<1> DEFINE name == IF type = "IPv4" THEN "IP-in-IP" ELSE "6in4"
<1>4. CASE /\ depth < MaxTunnelDepth /\ parsed' = PushTunnel(parsed, name)
           /\ decoder' = "network" /\ depth' = depth + 1
           /\ UNCHANGED <<given, at, offset, end, type, fallback>>
  <2>1. name \in TunnelNames
    BY DEF TunnelNames
  <2> HIDE DEF name
  <2>2. Sound(parsed', size) /\ Len(parsed'.tunnel) = Len(parsed.tunnel) + 1
    BY <1>4, <2>1, Held, PushSound
  <2>3. /\ size' = size /\ frame' = frame /\ end' = end /\ offset' = offset
        /\ at' = at /\ type' = type /\ decoder' = "network" /\ depth' = depth + 1
    BY <1>4 DEF given
  <2>4. DTypes'
    BY <2>3 DEF IInv, DTypes
  <2>5. Finds'
    BY <1>2, <2>3 DEF Finds, On
  <2>6. Nesting'
    BY <1>2, <1>4, <2>2, <2>3, Held DEF Nesting
  <2>7. Sound(parsed, size)'
    BY <2>2, <2>3 DEF Sound
  <2> QED
    BY <2>4, <2>5, <2>6, <2>7 DEF IInv
<1>5. CASE depth >= MaxTunnelDepth
  BY <1>3, <1>5 DEF IpInIp
<1>6. CASE ~(depth >= MaxTunnelDepth)
  <2>1. depth < MaxTunnelDepth
    BY <1>6, Held
  <2>2. /\ parsed' = PushTunnel(parsed, name)
        /\ decoder' = "network" /\ depth' = depth + 1
        /\ UNCHANGED <<given, at, offset, end, type, fallback>>
    BY <1>6 DEF IpInIp
  <2> HIDE DEF name
  <2> QED
    BY <1>4, <2>1, <2>2
<1> QED
  BY <1>5, <1>6

(* What GRE and GENEVE do with the packet they carry.                      *)
LEMMA CarriesKeeps ==
  ASSUME IInv, NEW name \in TunnelNames, NEW back, Carries(name, back),
         at \in 1 .. Len(frame.layers), Here.kind \notin {"UDP", "VXLAN"},
         depth < MaxTunnelDepth, Len(parsed.tunnel) <= depth
  PROVE  IInv'
<1> DEFINE q == PushTunnel(parsed, name)
<1>1. Sound(q, size) /\ Len(q.tunnel) = Len(parsed.tunnel) + 1
  BY Held, PushSound
<1>2. Len(q.tunnel) <= depth + 1 /\ Len(q.tunnel) <= MaxTunnelDepth + 1 /\ depth <= MaxTunnelDepth
  BY <1>1, Held
<1>3. /\ Here.len \in Nat /\ (Here.next \in Decoded => Follows(Here.next))
      /\ Here.next = "TEB" => Follows("Ethernet")
  BY Held, HeaderRead, NextFollows
<1>4. \/ /\ Here.next = "TEB"
         /\ Enters(q, "inner", type, Here.len, end, depth)
      \/ Descend(q, Here.next, Here.len, back)
      \/ ReturnNamed(q, back)
  BY DEF Carries, Enters, IpVersions
<1>5. CASE Descend(q, Here.next, Here.len, back)
  <2>1. Descend(PushTunnel(parsed, name), Here.next, Here.len, back)
    BY <1>5
  <2>2. Here.len \in Nat /\ (Here.next \in Decoded => Follows(Here.next))
        /\ depth <= MaxTunnelDepth /\ Len(parsed.tunnel) <= depth /\ name \in TunnelNames
    BY <1>2, <1>3
  <2> QED
    BY <2>1, <2>2, DescendKeeps DEF Descend
<1> HIDE DEF q
<1>6. CASE Here.next = "TEB" /\ Enters(q, "inner", type, Here.len, end, depth)
  BY <1>1, <1>2, <1>3, <1>6, InnerKeeps DEF Enters
<1>7. CASE ReturnNamed(q, back)
  BY <1>1, <1>2, <1>7, ReturnKeeps
<1> QED
  BY <1>4, <1>5, <1>6, <1>7

LEMMA GreKeeps ==
  ASSUME IInv, Gre
  PROVE  IInv'
<1>1. Transport("GRE") /\ "GRE" \in Decoded /\ "GRE" \in TunnelNames
  BY DEF Gre, Decoded, TunnelNames
<1>2. /\ depth <= MaxTunnelDepth /\ Len(parsed.tunnel) <= depth
      /\ at \in 1 .. Len(frame.layers) /\ Here.kind = "GRE"
  BY <1>1, TransportReads
<1>3. \/ Return([parsed EXCEPT !.protocol = "IP proto"])
      \/ depth < MaxTunnelDepth /\ Carries("GRE", "GRE")
      \/ ReturnNamed(parsed, "GRE")
  BY DEF Gre
<1>4. CASE Return([parsed EXCEPT !.protocol = "IP proto"])
  <2>1. Agrees([parsed EXCEPT !.protocol = "IP proto"], parsed)
    BY Held, OtherFields DEF Sound
  <2> QED
    BY <1>4, <2>1, ReturnReported DEF Return
<1>5. CASE depth < MaxTunnelDepth /\ Carries("GRE", "GRE")
  BY <1>1, <1>2, <1>5, CarriesKeeps
<1>6. CASE ReturnNamed(parsed, "GRE")
  BY <1>6, AgreesSelf, ReturnReported
<1> QED
  BY <1>3, <1>4, <1>5, <1>6

LEMMA UdpBorneKeeps ==
  ASSUME IInv, Vxlan \/ Geneve \/ InnerEthernet
  PROVE  IInv'
<1>1. "VXLAN" \in TunnelNames /\ "GENEVE" \in TunnelNames
  BY DEF TunnelNames
<1>2. CASE Return(parsed)
  BY <1>2, AgreesSelf, ReturnReported DEF Return
<1>3. CASE Vxlan /\ ~Return(parsed)
  <2>1. /\ On("VXLAN") /\ depth < MaxTunnelDepth /\ Len(parsed.tunnel) <= depth
    BY <1>3 DEF Vxlan, IInv, Finds, Nesting
  <2> DEFINE q == PushTunnel(parsed, "VXLAN")
  <2>2. Sound(q, size) /\ Len(q.tunnel) <= depth + 1
    BY <1>1, <2>1, Held, PushSound
  <2>3. Enters(q, "inner", type, 8, end, depth)
    BY <1>3 DEF Vxlan, Proceed, Enters
  <2>4. Promised(Here) = "Ethernet"
    BY <2>1 DEF On, Here, Promised
  <2>5. Follows("Ethernet")
    BY <2>1, <2>4, Held, HeaderRead, NoneAssumption DEF On
  <2>6. 8 \in Nat
    OBVIOUS
  <2> HIDE DEF q
  <2> QED
    BY <2>1, <2>2, <2>3, <2>5, <2>6, InnerKeeps DEF Enters
<1>4. CASE Geneve /\ ~Return(parsed)
  <2>1. /\ On("GENEVE") /\ depth < MaxTunnelDepth /\ Len(parsed.tunnel) <= depth
    BY <1>4 DEF Geneve, IInv, Finds, Nesting
  <2>2. at \in 1 .. Len(frame.layers) /\ Here.kind \notin {"UDP", "VXLAN"}
    BY <2>1 DEF On, Here
  <2>3. Carries("GENEVE", fallback)
    BY <1>4 DEF Geneve
  <2> QED
    BY <1>1, <2>1, <2>2, <2>3, CarriesKeeps DEF Carries
<1>5. CASE InnerEthernet /\ ~Return(parsed)
  <2>1. /\ On("Ethernet") /\ depth < MaxTunnelDepth /\ Len(parsed.tunnel) <= depth + 1
    BY <1>5 DEF InnerEthernet, IInv, Finds, Nesting
  <2>2. at \in 1 .. Len(frame.layers) /\ Here.kind \notin {"UDP", "VXLAN"}
    BY <2>1 DEF On, Here
  <2>3. Here.len \in Nat /\ (Here.next \in Decoded => Follows(Here.next))
    BY <2>2, Held, HeaderRead, NextFollows
  <2>4. Enters(parsed, "network", Here.next, Here.len, end, depth + 1)
    BY <1>5 DEF InnerEthernet, Descend, Enters, given
  <2>5. depth + 1 \in Nat /\ depth + 1 <= MaxTunnelDepth + 1 /\ Sound(parsed, size)
    BY <2>1, Held
  <2> QED
    BY <2>1, <2>3, <2>4, <2>5, NetworkKeeps DEF Enters
<1> QED
  BY <1>2, <1>3, <1>4, <1>5

LEMMA Inductive == IInv /\ [Decode]_dvars => IInv'
<1> SUFFICES ASSUME IInv, [Decode]_dvars PROVE IInv'
  OBVIOUS
<1>1. CASE UNCHANGED dvars
  BY <1>1 DEF dvars, given, position, IInv, DTypes, Finds, On, Nesting, Sound
<1>2. CASE Decode
  BY <1>2, LinkKeeps, TunnelKeeps, IpKeeps, NamedKeeps, TcpKeeps, UdpKeeps, IpInIpKeeps,
     GreKeeps, UdpBorneKeeps DEF Decode
<1> QED
  BY <1>1, <1>2

(* For every frame, every number of captured bytes and every limit on      *)
(* nesting: the payload lies within the capture, and the decoders enter no *)
(* more tunnels than the limit, naming at most one beyond it.              *)
THEOREM DecodingStaysWithin == DSpec => []WithinCapture
<1>1. IInv => WithinCapture
  BY DEF IInv, Sound, Nesting, WithinCapture
<1> QED
  BY <1>1, Initially, Inductive, PTL DEF DSpec
---------------------------------------------------------------------------
(* Headers start where the one before them ends.                           *)
LEMMA Starts ==
  ASSUME NEW f \in Frames
  PROVE  /\ Start(f, 1) = 0
         /\ \A i \in 1 .. Len(f.layers) :
              /\ Start(f, i) \in Nat /\ Start(f, i + 1) \in Nat
              /\ Start(f, i + 1) = Start(f, i) + f.layers[i].len
<1> DEFINE n == Len(f.layers)
           s == [i \in 1 .. n |-> f.layers[i].len]
           Rule(h) == h = [j \in 0 .. n |-> IF j = 0 THEN 0 ELSE h[j - 1] + f.layers[j].len]
           ends == CHOOSE h : Rule(h)
<1>1. n \in Nat /\ s \in [1 .. n -> Nat]
  BY FramesAssumption DEF Formed
<1>2. \A i : Start(f, i) = ends[i - 1]
  BY DEF Start
<1>3. \A j \in 1 .. n : s[j] = f.layers[j].len
  OBVIOUS
<1> HIDE DEF n, s
<1>4. PICK g : SumsOf(s, n, g)
  BY <1>1, SumsAreThere
<1>5. g \in [0 .. n -> Nat] /\ g[0] = 0 /\ \A i \in 1 .. n : g[i] = g[i - 1] + s[i]
  BY <1>4 DEF SumsOf
<1>6. Rule(g)
  <2>1. g = [i \in 0 .. n |-> g[i]]
    BY <1>5
  <2>2. \A i \in 0 .. n : g[i] = IF i = 0 THEN 0 ELSE g[i - 1] + f.layers[i].len
    BY <1>3, <1>5
  <2> QED
    BY <2>1, <2>2
<1> HIDE DEF Rule
<1>7. Rule(ends)
  BY <1>6
<1> HIDE DEF ends
<1>8. ends = [j \in 0 .. n |-> IF j = 0 THEN 0 ELSE ends[j - 1] + f.layers[j].len]
  BY <1>7 DEF Rule
<1>9. AddsUp(ends, s, n)
  <2>1. \A j \in 0 .. n : ends[j] = IF j = 0 THEN 0 ELSE ends[j - 1] + f.layers[j].len
    BY <1>8
  <2>2. ends[0] = 0
    BY <1>1, <2>1
  <2>3. ASSUME NEW i \in 1 .. n PROVE ends[i] = ends[i - 1] + s[i]
    <3>1. i \in 0 .. n /\ i # 0
      BY <1>1
    <3> QED
      BY <1>3, <2>1, <3>1
  <2> QED
    BY <2>2, <2>3 DEF AddsUp
<1>10. \A i \in 0 .. n : ends[i] = g[i]
  BY <1>1, <1>4, <1>9, SumsAgree
<1>11. \A i \in 1 .. n : i - 1 \in 0 .. n /\ (i + 1) - 1 = i /\ i \in 0 .. n
  BY <1>1
<1>12. Start(f, 1) = 0
  BY <1>1, <1>2, <1>5, <1>10
<1>13. ASSUME NEW i \in 1 .. n
       PROVE  /\ Start(f, i) \in Nat /\ Start(f, i + 1) \in Nat
              /\ Start(f, i + 1) = Start(f, i) + f.layers[i].len
  <2>1. Start(f, i) = g[i - 1] /\ Start(f, i + 1) = g[i]
    BY <1>2, <1>10, <1>11
  <2> QED
    BY <1>3, <1>5, <1>11, <2>1
<1> QED
  BY <1>12, <1>13 DEF n

(* The ends of the packets that the first i headers are of, and the        *)
(* capture's.                                                              *)
Ends(i) == {size} \union PacketEnds(frame, i)

IsLeast(x, S) == x \in S /\ \A y \in S : x <= y

LEMMA LeastIsMin ==
  ASSUME NEW S, S \subseteq Nat, NEW x, IsLeast(x, S)
  PROVE  Min(S) = x
<1> DEFINE Least(z) == \A y \in S : z <= y
<1>1. x \in S /\ Least(x)
  BY DEF IsLeast
<1>2. Min(S) = CHOOSE z \in S : Least(z)
  BY DEF Min
<1>3. ASSUME NEW z \in S, Least(z) PROVE z = x
  BY <1>1, <1>3
<1> HIDE DEF Least
<1> QED
  BY <1>1, <1>2, <1>3

LEMMA EndsAre ==
  ASSUME IInv, NEW i \in 1 .. Len(frame.layers)
  PROVE  /\ Ends(i) \subseteq Nat /\ Ends(0) = {size}
         /\ Ends(i) = Ends(i - 1) \union
              (IF Declares(frame.layers[i]) THEN {Start(frame, i) + frame.layers[i].total} ELSE {})
<1>1. frame \in Frames /\ size \in Nat /\ Len(frame.layers) \in Nat
  BY Held DEF DTypes
<1>2. \A j \in 1 .. Len(frame.layers) : Start(frame, j) \in Nat /\ frame.layers[j].total \in Nat
  BY <1>1, Starts, FramesAssumption DEF Formed
<1>3. 1 .. i = (1 .. i - 1) \union {i} /\ 1 .. i \subseteq 1 .. Len(frame.layers) /\ 1 .. 0 = {}
  BY <1>1
<1>4. Ends(i) \subseteq Nat /\ Ends(0) = {size}
  BY <1>1, <1>2, <1>3 DEF Ends, PacketEnds
<1>5. PacketEnds(frame, i) = PacketEnds(frame, i - 1) \union
        (IF Declares(frame.layers[i]) THEN {Start(frame, i) + frame.layers[i].total} ELSE {})
  BY <1>3 DEF PacketEnds
<1> QED
  BY <1>4, <1>5 DEF Ends

---------------------------------------------------------------------------
(* Where the decoders stand: what may be read ends with the capture or     *)
(* with the innermost of the packets entered.                              *)
Running == decoder \notin {"dpi", "dns", "done"}

Place == Running => offset = Start(frame, at) /\ IsLeast(end, Ends(at - 1))

(* The ways to go on: not at all, with the same header, with the next one. *)
Stops == decoder' \in {"dpi", "done"} /\ UNCHANGED given

Stays == Running /\ UNCHANGED <<given, at, offset, end>>

Passes ==
  /\ Running /\ at \in 1 .. Len(frame.layers) /\ UNCHANGED given
  /\ at' = at + 1 /\ offset' = offset + Here.len
  /\ end' = IF Declares(Here) THEN DeclaredEnd ELSE end

LEMMA ReturnStops ==
  ASSUME NEW q, NEW name, ReturnNamed(q, name)
  PROVE  Stops
  BY DEF ReturnNamed, Stops

LEMMA LinkMoves ==
  ASSUME IInv, LinkFails \/ LinkLayer
  PROVE  Stops \/ Passes
<1>1. CASE LinkFails
  BY <1>1 DEF LinkFails, Stops
<1>2. CASE LinkLayer
  <2>1. at = 1 /\ frame \in Frames /\ decoder = "link"
    BY <1>2 DEF LinkLayer, IInv, Finds, DTypes
  <2>2. at \in 1 .. Len(frame.layers) /\ Here.kind \in {"link", "Ethernet"}
    BY <2>1, FramesAssumption DEF Here
  <2>3. ~Declares(Here)
    BY <2>2 DEF Declares, IpVersions
  <2> QED
    BY <1>2, <2>1, <2>2, <2>3 DEF LinkLayer, Proceed, Passes, Running
<1> QED
  BY <1>1, <1>2

LEMMA NetworkMoves ==
  ASSUME IInv, TooDeep \/ Mpls \/ Pppoe \/ Arp \/ OtherEtherType
  PROVE  Stops \/ Passes
<1>1. CASE TooDeep \/ Arp \/ OtherEtherType
  BY <1>1, ReturnStops DEF TooDeep, Arp, OtherEtherType, Return
<1>2. ASSUME NEW t \in {"MPLS", "PPPoE"}, Network(t), NEW q, NEW u, NEW name,
             Descend(q, u, Here.len, name)
      PROVE  Passes
  <2>1. t \in Decoded \ {"UDP"}
    BY DEF Decoded
  <2>2. at \in 1 .. Len(frame.layers) /\ Here.kind = t
    BY <1>2, <2>1, NetworkReads
  <2>3. ~Declares(Here)
    BY <2>2 DEF Declares, IpVersions
  <2> QED
    BY <1>2, <2>2, <2>3 DEF Descend, Passes, Running, Network
<1>3. CASE Mpls
  <2>1. Network("MPLS")
    BY <1>3 DEF Mpls
  <2>2. \/ ReturnNamed(parsed, "MPLS")
        \/ \E u : Descend(PushTunnel(parsed, "MPLS"), u, Here.len, "MPLS")
    BY <1>3 DEF Mpls
  <2> QED
    BY <1>2, <2>1, <2>2, ReturnStops
<1>4. CASE Pppoe
  <2>1. Network("PPPoE")
    BY <1>4 DEF Pppoe
  <2>2. \/ ReturnNamed(parsed, "PPPoE")
        \/ \E u : Descend(PushTunnel(parsed, "PPPoE"), u, Here.len, "PPPoE")
    BY <1>4 DEF Pppoe
  <2> QED
    BY <1>2, <2>1, <2>2, ReturnStops
<1> QED
  BY <1>1, <1>3, <1>4

LEMMA IpMoves ==
  ASSUME IInv, IPv4Refused \/ IPv4 \/ IPv6 \/ Extension
  PROVE  Stops \/ Stays \/ Passes
<1>1. CASE IPv4Refused
  BY <1>1, ReturnStops DEF IPv4Refused, Return
<1>2. ASSUME NEW t \in IpVersions, Network(t), NEW q, NEW d, NEW u,
             Proceed(q, d, u, Here.len, DeclaredEnd), t = "IPv4" => Here.total >= Here.len
      PROVE  Passes
  <2>1. t \in Decoded \ {"UDP"}
    BY DEF Decoded, IpVersions
  <2>2. at \in 1 .. Len(frame.layers) /\ Here.kind = t
    BY <1>2, <2>1, NetworkReads
  <2>3. Formed(Here)
    BY <2>2, FramesAssumption DEF IInv, DTypes, Here
  <2>4. Declares(Here)
    BY <1>2, <2>2, <2>3 DEF Declares, Formed, IpVersions
  <2> QED
    BY <1>2, <2>2, <2>4 DEF Proceed, Passes, Running, Network
<1>3. CASE IPv4
  <2>1. Network("IPv4") /\ "IPv4" \in IpVersions /\ Here.total >= Here.len
    BY <1>3 DEF IPv4, IpVersions
  <2>2. \/ \E q : Return(q)
        \/ Proceed(Addressed, "transport", Here.next, Here.len, DeclaredEnd)
    BY <1>3 DEF IPv4
  <2> QED
    BY <1>2, <2>1, <2>2, ReturnStops DEF Return
<1>4. CASE IPv6
  <2>1. Network("IPv6") /\ "IPv6" \in IpVersions
    BY <1>4 DEF IPv6, IpVersions
  <2>2. \/ \E q : Return(q)
        \/ Proceed(Addressed, "extension", Here.next, Here.len, DeclaredEnd)
    BY <1>4 DEF IPv6
  <2> QED
    BY <1>2, <2>1, <2>2, ReturnStops DEF Return
<1>5. CASE Extension
  <2>1. CASE type = "V6Ext" /\ Fits(Here.len)
    <3>1. On("V6Ext")
      BY <1>5, <2>1 DEF Extension, IInv, Finds, Decoded
    <3>2. ~Declares(Here) /\ at \in 1 .. Len(frame.layers)
      BY <3>1 DEF On, Here, Declares, IpVersions
    <3> QED
      BY <1>5, <2>1, <3>2 DEF Extension, Proceed, Passes, Running
  <2>2. CASE ~(type = "V6Ext" /\ Fits(Here.len))
    BY <1>5, <2>2 DEF Extension, Stays, Running, position
  <2> QED
    BY <2>1, <2>2
<1> QED
  BY <1>1, <1>3, <1>4, <1>5

LEMMA UdpMoves ==
  ASSUME IInv, Udp
  PROVE  Stops \/ Passes
<1>1. Transport("UDP") /\ "UDP" \in Decoded
  BY DEF Udp, Decoded
<1>2. at \in 1 .. Len(frame.layers) /\ Here.kind = "UDP"
  BY <1>1, TransportReads
<1>3. Here.len = 8 /\ Here.total \in Nat
  BY <1>2, FramesAssumption DEF IInv, DTypes, Here, Formed
<1>4. UdpEnd = IF Declares(Here) THEN DeclaredEnd ELSE end
  BY <1>2, <1>3 DEF UdpEnd, Declares
<1>5. (\E q : Return(q)) \/ (\E q : Proceed(q, UdpTunnel, "frame", 8, UdpEnd))
  BY DEF Udp
<1> QED
  BY <1>1, <1>2, <1>3, <1>4, <1>5, ReturnStops DEF Return, Proceed, Passes, Running, Transport

LEMMA CarriesMoves ==
  ASSUME Running, at \in 1 .. Len(frame.layers), ~Declares(Here), NEW name, NEW back,
         Carries(name, back)
  PROVE  Stops \/ Passes
<1>1. \/ /\ at' = at + 1 /\ offset' = offset + Here.len
         /\ UNCHANGED <<given, end, depth, type>>
      \/ Descend(PushTunnel(parsed, name), Here.next, Here.len, back)
      \/ ReturnNamed(PushTunnel(parsed, name), back)
  BY DEF Carries
<1> QED
  BY <1>1, ReturnStops DEF Descend, Passes

LEMMA TransportMoves ==
  ASSUME IInv, Tcp \/ Icmp \/ IpInIp \/ Gre \/ OtherTransport
  PROVE  Stops \/ Stays \/ Passes
<1>1. CASE Tcp \/ Icmp \/ OtherTransport
  BY <1>1, ReturnStops DEF Tcp, Icmp, OtherTransport, Return
<1>2. CASE IpInIp
  <2>1. \/ \E q : Return(q)
        \/ UNCHANGED <<given, at, offset, end, type, fallback>>
    BY <1>2 DEF IpInIp
  <2> QED
    BY <1>2, <2>1, ReturnStops DEF Return, Stays, Running, IpInIp
<1>3. CASE Gre
  <2>1. Transport("GRE") /\ "GRE" \in Decoded
    BY <1>3 DEF Gre, Decoded
  <2>2. at \in 1 .. Len(frame.layers) /\ Here.kind = "GRE"
    BY <2>1, TransportReads
  <2>3. ~Declares(Here) /\ Running
    BY <2>1, <2>2 DEF Declares, IpVersions, Running, Transport
  <2>4. (\E q, name : ReturnNamed(q, name)) \/ Carries("GRE", "GRE")
    BY <1>3 DEF Gre, Return
  <2> QED
    BY <2>2, <2>3, <2>4, ReturnStops, CarriesMoves
<1> QED
  BY <1>1, <1>2, <1>3

LEMMA UdpBorneMoves ==
  ASSUME IInv, Vxlan \/ Geneve \/ InnerEthernet
  PROVE  Stops \/ Passes
<1>1. CASE Return(parsed)
  BY <1>1, ReturnStops DEF Return
<1>2. CASE Vxlan /\ ~Return(parsed)
  <2>1. On("VXLAN")
    BY <1>2 DEF Vxlan, IInv, Finds
  <2>2. at \in 1 .. Len(frame.layers) /\ Here.kind = "VXLAN" /\ ~Declares(Here)
    BY <2>1 DEF On, Here, Declares, IpVersions
  <2>3. Here.len = 8
    BY <2>2, FramesAssumption DEF IInv, DTypes, Here, Formed
  <2>4. Proceed(PushTunnel(parsed, "VXLAN"), "inner", type, 8, end)
    BY <1>2 DEF Vxlan
  <2> QED
    BY <1>2, <2>2, <2>3, <2>4 DEF Vxlan, Proceed, Passes, Running
<1>3. CASE Geneve /\ ~Return(parsed)
  <2>1. On("GENEVE")
    BY <1>3 DEF Geneve, IInv, Finds
  <2>2. at \in 1 .. Len(frame.layers) /\ ~Declares(Here) /\ Running
    BY <1>3, <2>1 DEF On, Here, Declares, IpVersions, Running, Geneve
  <2>3. Carries("GENEVE", fallback)
    BY <1>3 DEF Geneve
  <2> QED
    BY <2>2, <2>3, CarriesMoves
<1>4. CASE InnerEthernet /\ ~Return(parsed)
  <2>1. On("Ethernet")
    BY <1>4 DEF InnerEthernet, IInv, Finds
  <2>2. at \in 1 .. Len(frame.layers) /\ ~Declares(Here)
    BY <2>1 DEF On, Here, Declares, IpVersions
  <2>3. Descend(parsed, Here.next, Here.len, fallback)
    BY <1>4 DEF InnerEthernet
  <2> QED
    BY <1>4, <2>2, <2>3 DEF InnerEthernet, Descend, Passes, Running
<1> QED
  BY <1>1, <1>2, <1>3, <1>4

(* Every decoder stops, hands on its own header, or goes past it, with the *)
(* end that it declares if it declares one.                                *)
LEMMA DecodeMoves ==
  ASSUME IInv, Decode
  PROVE  Stops \/ Stays \/ Passes
  BY LinkMoves, NetworkMoves, IpMoves, UdpMoves, TransportMoves, UdpBorneMoves DEF Decode

(* A packet read ends where it says it does, or where what is around it    *)
(* ends if that is before.                                                 *)
LEMMA PassedEnds ==
  ASSUME IInv, Place, Running, at \in 1 .. Len(frame.layers)
  PROVE  IsLeast(IF Declares(Here) THEN DeclaredEnd ELSE end, Ends(at))
<1>1. offset = Start(frame, at) /\ IsLeast(end, Ends(at - 1))
  BY DEF Place
<1>2. Ends(at) \subseteq Nat
      /\ Ends(at) = Ends(at - 1) \union (IF Declares(Here) THEN {offset + Here.total} ELSE {})
  BY <1>1, EndsAre DEF Here
<1>3. DeclaredEnd = IF end < offset + Here.total THEN end ELSE offset + Here.total
  BY DEF DeclaredEnd, Lesser
<1>4. CASE Declares(Here)
  <2> DEFINE e == offset + Here.total
             S == Ends(at - 1)
             d == DeclaredEnd
  <2>1. end \in S /\ (\A y \in S : end <= y) /\ S \union {e} \subseteq Nat /\ d = (IF end < e THEN end ELSE e)
    BY <1>1, <1>2, <1>3, <1>4 DEF IsLeast
  <2>2. Ends(at) = S \union {e}
    BY <1>2, <1>4
  <2> HIDE DEF e, S, d
  <2>3. d \in S \union {e} /\ \A y \in S \union {e} : d <= y
    BY <2>1
  <2>4. IsLeast(d, S \union {e})
    BY <2>3 DEF IsLeast
  <2> QED
    BY <1>4, <2>2, <2>4 DEF d
<1>5. CASE ~Declares(Here)
  <2>1. Ends(at) = Ends(at - 1)
    BY <1>2, <1>5
  <2> QED
    BY <1>1, <1>5, <2>1
<1> QED
  BY <1>4, <1>5

LEMMA PlaceKept ==
  ASSUME IInv, Place, Decode
  PROVE  Place'
<1>1. CASE Stops
  BY <1>1 DEF Stops, Place, Running
<1>2. CASE Stays
  <2>1. frame' = frame /\ size' = size /\ at' = at /\ offset' = offset /\ end' = end
    BY <1>2 DEF Stays, given
  <2>2. offset = Start(frame, at) /\ IsLeast(end, Ends(at - 1))
    BY <1>2 DEF Stays, Place
  <2>3. Ends(at - 1)' = Ends(at - 1)
    BY <2>1 DEF Ends
  <2> QED
    BY <2>1, <2>2, <2>3 DEF Place, IsLeast
<1>3. CASE Passes
  <2>1. /\ frame' = frame /\ size' = size /\ at' = at + 1 /\ offset' = offset + Here.len
        /\ end' = IF Declares(Here) THEN DeclaredEnd ELSE end
        /\ Running /\ at \in 1 .. Len(frame.layers) /\ at' - 1 = at
    BY <1>3 DEF Passes, given
  <2>2. offset = Start(frame, at) /\ frame \in Frames
    BY <2>1, Held DEF Place, DTypes
  <2>3. offset' = Start(frame, at + 1)
    BY <2>1, <2>2, Starts DEF Here
  <2>4. IsLeast(end', Ends(at))
    BY <2>1, PassedEnds
  <2>5. Ends(at - 1)' = Ends(at)
    BY <2>1 DEF Ends
  <2>6. IsLeast(end', Ends(at - 1)')
    BY <2>4, <2>5
  <2> QED
    BY <2>1, <2>3, <2>6 DEF Place, IsLeast
<1> QED
  BY <1>1, <1>2, <1>3, DecodeMoves

---------------------------------------------------------------------------
(* A payload that q reports begins after a TCP or UDP header and ends with *)
(* what is around that header.                                             *)
PayloadIs(q) ==
  q.payloadLength > 0 =>
    \E i \in 1 .. Len(frame.layers) :
      /\ frame.layers[i].kind \in {"TCP", "UDP"}
      /\ q.payloadOffset = Start(frame, i + 1)
      /\ IsLeast(q.payloadOffset + q.payloadLength, Ends(i))

SamePayload(q, r) == q.payloadOffset = r.payloadOffset /\ q.payloadLength = r.payloadLength

LEMMA PushedPayload ==
  ASSUME NEW q, DOMAIN q = DOMAIN Unparsed, NEW name
  PROVE  SamePayload(PushTunnel(q, name), q)
  BY DEF PushTunnel, SamePayload, Unparsed

LEMMA AgreesPayload ==
  ASSUME NEW q, NEW r, Agrees(q, r)
  PROVE  SamePayload(q, r)
  BY DEF Agrees, SamePayload

LEMMA ReturnedPayload ==
  ASSUME NEW q, DOMAIN q = DOMAIN Unparsed, NEW name, ReturnNamed(q, name)
  PROVE  SamePayload(parsed', q)
<1>1. \/ parsed' = q
      \/ parsed' = [q EXCEPT !.protocol = name]
  BY DEF ReturnNamed
<1> QED
  BY <1>1 DEF SamePayload, Unparsed

(* Of the decoders only those of TCP and UDP report a payload.             *)
LEMMA OthersKeepPayload ==
  ASSUME IInv, Decode, ~Tcp, ~Udp
  PROVE  SamePayload(parsed', parsed)
<1>1. DOMAIN parsed = DOMAIN Unparsed
  BY Held DEF Sound
<1>2. \A name : SamePayload(PushTunnel(parsed, name), parsed)
                /\ DOMAIN PushTunnel(parsed, name) = DOMAIN Unparsed
  BY <1>1, PushedPayload DEF PushTunnel
<1>3. SamePayload(parsed, parsed) /\ SamePayload(Addressed, parsed) /\ DOMAIN Addressed = DOMAIN Unparsed
  BY <1>1, AddressedAgrees, AgreesPayload DEF SamePayload, Agrees
<1>4. ASSUME NEW q, DOMAIN q = DOMAIN Unparsed, SamePayload(q, parsed), NEW name, ReturnNamed(q, name)
      PROVE  SamePayload(parsed', parsed)
  BY <1>4, ReturnedPayload DEF SamePayload
<1>5. ASSUME NEW v
      PROVE  LET q == [parsed EXCEPT !.protocol = v] IN
             DOMAIN q = DOMAIN Unparsed /\ SamePayload(q, parsed)
  BY <1>1 DEF SamePayload, Unparsed
<1>6. CASE LinkFails
  BY <1>1, <1>6 DEF LinkFails, SamePayload, Unparsed
<1>7. CASE LinkLayer
  BY <1>3, <1>7 DEF LinkLayer, Proceed
<1>8. CASE TooDeep \/ IPv4Refused
  BY <1>1, <1>3, <1>4, <1>8 DEF TooDeep, IPv4Refused, Return
<1>9. CASE Mpls
  <2>1. \/ ReturnNamed(parsed, "MPLS")
        \/ parsed' = PushTunnel(parsed, "MPLS")
    BY <1>9 DEF Mpls, Descend
  <2> QED
    BY <1>1, <1>2, <1>3, <1>4, <2>1
<1>10. CASE Pppoe
  <2>1. \/ ReturnNamed(parsed, "PPPoE")
        \/ parsed' = PushTunnel(parsed, "PPPoE")
    BY <1>10 DEF Pppoe, Descend
  <2> QED
    BY <1>1, <1>2, <1>3, <1>4, <2>1
<1>11. CASE IPv4
  <2> DEFINE q == [Addressed EXCEPT !.protocol = "IPv4 Fragment"]
  <2>1. parsed' = Addressed \/ ReturnNamed(q, fallback)
    BY <1>11 DEF IPv4, Proceed, Return
  <2>2. DOMAIN q = DOMAIN Unparsed /\ SamePayload(q, parsed)
    BY <1>3 DEF SamePayload, Unparsed
  <2> HIDE DEF q
  <2> QED
    BY <1>3, <1>4, <2>1, <2>2
<1>12. CASE IPv6
  <2>1. parsed' = Addressed \/ ReturnNamed(parsed, fallback)
    BY <1>12 DEF IPv6, Proceed, Return
  <2> QED
    BY <1>1, <1>3, <1>4, <2>1
<1>13. CASE Extension
  BY <1>3, <1>13 DEF Extension, Proceed
<1>14. CASE Arp \/ OtherEtherType \/ Icmp \/ OtherTransport
  <2>1. PICK q : Return(q) /\ Agrees(q, parsed)
    BY <1>14, NamedReturn
  <2>2. DOMAIN q = DOMAIN Unparsed /\ SamePayload(q, parsed)
    BY <1>1, <2>1 DEF Agrees, SamePayload
  <2> QED
    BY <1>4, <2>1, <2>2 DEF Return
<1>15. CASE IpInIp
  <2>1. \/ Return([parsed EXCEPT !.protocol = "IP proto"])
        \/ \E name : parsed' = PushTunnel(parsed, name)
    BY <1>15 DEF IpInIp
  <2> QED
    BY <1>2, <1>4, <1>5, <2>1 DEF Return
<1>16. ASSUME NEW name, NEW back, Carries(name, back) PROVE SamePayload(parsed', parsed)
  <2>1. \/ parsed' = PushTunnel(parsed, name)
        \/ ReturnNamed(PushTunnel(parsed, name), back)
    BY <1>16 DEF Carries, Descend
  <2> QED
    BY <1>2, <1>4, <2>1
<1>17. CASE Gre
  <2>1. \/ Return([parsed EXCEPT !.protocol = "IP proto"])
        \/ Carries("GRE", "GRE") \/ ReturnNamed(parsed, "GRE")
    BY <1>17 DEF Gre
  <2> QED
    BY <1>1, <1>3, <1>4, <1>5, <1>16, <2>1 DEF Return
<1>18. CASE Vxlan \/ Geneve \/ InnerEthernet
  <2>1. \/ Return(parsed) \/ parsed' = PushTunnel(parsed, "VXLAN")
        \/ Carries("GENEVE", fallback) \/ parsed' = parsed
    BY <1>18 DEF Vxlan, Geneve, InnerEthernet, Proceed, Descend
  <2> QED
    BY <1>1, <1>2, <1>3, <1>4, <1>16, <2>1 DEF Return
<1> QED
  BY <1>6, <1>7, <1>8, <1>9, <1>10, <1>11, <1>12, <1>13, <1>14, <1>15, <1>17, <1>18 DEF Decode

LEMMA PayloadTransfers ==
  ASSUME NEW q, PayloadIs(q), SamePayload(parsed', q), frame' = frame, size' = size
  PROVE  PayloadIs(parsed)'
<1>1. \A i : Ends(i)' = Ends(i)
  BY DEF Ends
<1> QED
  BY <1>1 DEF PayloadIs, SamePayload, IsLeast

LEMMA LocatedPayload ==
  ASSUME IInv, at \in 1 .. Len(frame.layers), Here.kind \in {"TCP", "UDP"},
         NEW q, DOMAIN q = DOMAIN Unparsed, PayloadIs(q),
         NEW from \in Nat, from = Start(frame, at + 1), NEW to \in Nat, IsLeast(to, Ends(at))
  PROVE  PayloadIs(Located(q, from, to))
<1>1. CASE from < to
  <2>1. Located(q, from, to).payloadOffset = from /\ Located(q, from, to).payloadLength = to - from
    BY <1>1 DEF Located, Unparsed
  <2>2. from + (to - from) = to
    OBVIOUS
  <2> QED
    BY <2>1, <2>2 DEF PayloadIs, Here
<1>2. CASE ~(from < to)
  BY <1>2 DEF Located
<1> QED
  BY <1>1, <1>2

LEMMA PortsPayload ==
  ASSUME IInv, NEW v
  PROVE  LET q == [parsed EXCEPT !.protocol = v] IN
         /\ DOMAIN q = DOMAIN Unparsed /\ DOMAIN Ports(q) = DOMAIN Unparsed
         /\ SamePayload(q, parsed) /\ SamePayload(Ports(q), parsed)
<1>1. DOMAIN parsed = DOMAIN Unparsed
  BY Held DEF Sound
<1> QED
  BY <1>1 DEF Ports, SamePayload, Unparsed

LEMMA SamePayloadIs ==
  ASSUME NEW q, NEW r, SamePayload(q, r), PayloadIs(r)
  PROVE  PayloadIs(q)
  BY DEF SamePayload, PayloadIs

(* The header of TCP or UDP that is read, of n bytes, ends where the next  *)
(* would start.                                                            *)
LEMMA PastHeader ==
  ASSUME IInv, Place, Running, at \in 1 .. Len(frame.layers)
  PROVE  offset + Here.len \in Nat /\ offset + Here.len = Start(frame, at + 1)
<1>1. offset = Start(frame, at) /\ frame \in Frames
  BY Held DEF Place, DTypes
<1> QED
  BY <1>1, Starts DEF Here

LEMMA TcpPayload ==
  ASSUME IInv, Place, PayloadIs(parsed), Tcp
  PROVE  PayloadIs(parsed)'
<1> DEFINE q == [parsed EXCEPT !.protocol = "TCP"]
           r == Located(Ports(q), offset + Here.len, end)
<1>1. Transport("TCP") /\ "TCP" \in Decoded /\ Running
  BY DEF Tcp, Decoded, Running, Transport
<1>2. at \in 1 .. Len(frame.layers) /\ Here.kind = "TCP"
  BY <1>1, TransportReads
<1>3. IsLeast(end, Ends(at))
  <2>1. ~Declares(Here)
    BY <1>2 DEF Declares, IpVersions
  <2> QED
    BY <1>1, <1>2, <2>1, PassedEnds
<1>4. /\ DOMAIN q = DOMAIN Unparsed /\ DOMAIN Ports(q) = DOMAIN Unparsed
      /\ PayloadIs(q) /\ PayloadIs(Ports(q))
  BY PortsPayload, SamePayloadIs
<1>5. Return(q) \/ Return(Ports(q)) \/ Return(r)
  BY DEF Tcp
<1> HIDE DEF q
<1>6. PayloadIs(r) /\ DOMAIN r = DOMAIN Unparsed
  <2>1. offset + Here.len \in Nat /\ offset + Here.len = Start(frame, at + 1) /\ end \in Nat
    BY <1>1, <1>2, PastHeader, Held
  <2>2. PayloadIs(r)
    BY <1>2, <1>3, <1>4, <2>1, LocatedPayload
  <2> QED
    BY <1>4, <2>2 DEF Located
<1> HIDE DEF r
<1>7. PICK s : Return(s) /\ PayloadIs(s) /\ DOMAIN s = DOMAIN Unparsed
  BY <1>4, <1>5, <1>6
<1>8. SamePayload(parsed', s) /\ frame' = frame /\ size' = size
  <2>1. ReturnNamed(s, fallback)
    BY <1>7 DEF Return
  <2>2. SamePayload(parsed', s)
    BY <1>7, <2>1, ReturnedPayload
  <2> QED
    BY <2>1, <2>2 DEF ReturnNamed, given
<1> QED
  BY <1>7, <1>8, PayloadTransfers

LEMMA UdpPayload ==
  ASSUME IInv, Place, PayloadIs(parsed), Udp
  PROVE  PayloadIs(parsed)'
<1> DEFINE q == [parsed EXCEPT !.protocol = "UDP"]
           r == Located(Ports(q), offset + 8, UdpEnd)
<1>1. Transport("UDP") /\ "UDP" \in Decoded /\ Running
  BY DEF Udp, Decoded, Running, Transport
<1>2. at \in 1 .. Len(frame.layers) /\ Here.kind = "UDP" /\ Here.total \in Nat
  BY <1>1, TransportReads
<1>3. Here.len = 8
  BY <1>2, FramesAssumption DEF IInv, DTypes, Here, Formed
<1>4. IsLeast(UdpEnd, Ends(at)) /\ UdpEnd \in Nat
  <2>1. UdpEnd = IF Declares(Here) THEN DeclaredEnd ELSE end
    BY <1>2, <1>3 DEF UdpEnd, Declares
  <2> QED
    BY <1>1, <1>2, <2>1, PassedEnds, EndsWithin
<1>5. /\ DOMAIN q = DOMAIN Unparsed /\ DOMAIN Ports(q) = DOMAIN Unparsed
      /\ PayloadIs(q) /\ PayloadIs(Ports(q))
  BY PortsPayload, SamePayloadIs
<1>6. Return(q) \/ Return(r) \/ Proceed(r, UdpTunnel, "frame", 8, UdpEnd)
  BY DEF Udp
<1> HIDE DEF q
<1>7. PayloadIs(r) /\ DOMAIN r = DOMAIN Unparsed
  <2>1. offset + 8 \in Nat /\ offset + 8 = Start(frame, at + 1)
    BY <1>1, <1>2, <1>3, PastHeader
  <2>2. PayloadIs(r)
    BY <1>2, <1>4, <1>5, <2>1, LocatedPayload
  <2> QED
    BY <1>5, <2>2 DEF Located
<1> HIDE DEF r
<1>8. PICK s : /\ PayloadIs(s) /\ DOMAIN s = DOMAIN Unparsed
               /\ Return(s) \/ Proceed(s, UdpTunnel, "frame", 8, UdpEnd)
  BY <1>5, <1>6, <1>7
<1>9. SamePayload(parsed', s) /\ frame' = frame /\ size' = size
  <2>1. CASE Return(s)
    <3>1. ReturnNamed(s, fallback)
      BY <2>1 DEF Return
    <3>2. SamePayload(parsed', s)
      BY <1>8, <3>1, ReturnedPayload
    <3> QED
      BY <3>1, <3>2 DEF ReturnNamed, given
  <2>2. CASE Proceed(s, UdpTunnel, "frame", 8, UdpEnd)
    BY <2>2 DEF Proceed, given, SamePayload
  <2> QED
    BY <1>8, <2>1, <2>2
<1> QED
  BY <1>8, <1>9, PayloadTransfers

LEMMA PayloadKept ==
  ASSUME IInv, Place, PayloadIs(parsed), Decode
  PROVE  PayloadIs(parsed)'
<1>1. CASE ~Tcp /\ ~Udp
  <2>1. frame' = frame /\ size' = size
    BY DecodeMoves DEF Stops, Stays, Passes, given
  <2> QED
    BY <1>1, <2>1, OthersKeepPayload, PayloadTransfers
<1> QED
  BY <1>1, TcpPayload, UdpPayload

---------------------------------------------------------------------------
(* The analysis of the payload and of DNS leaves alone what was found of   *)
(* the headers.                                                            *)
Alike(q, r) ==
  /\ Agrees(q, r)
  /\ q.src = r.src /\ q.dst = r.dst /\ q.outerSrc = r.outerSrc /\ q.outerDst = r.outerDst

LEMMA AlikeAgain ==
  ASSUME NEW q, NEW r, NEW s, Alike(q, r), Alike(r, s)
  PROVE  Alike(q, s)
  BY DEF Alike, Agrees

LEMMA NamesAreOther ==
  ASSUME NEW q, DOMAIN q = DOMAIN Unparsed, NEW v
  PROVE  /\ Alike(q, q)
         /\ Alike([q EXCEPT !.service = v], q)
         /\ Alike([q EXCEPT !.sni = v], q)
         /\ Alike([q EXCEPT !.hostname = v], q)
         /\ Alike([q EXCEPT !.encrypted = v], q)
         /\ DOMAIN [q EXCEPT !.service = v] = DOMAIN Unparsed
         /\ DOMAIN [q EXCEPT !.sni = v] = DOMAIN Unparsed
         /\ DOMAIN [q EXCEPT !.hostname = v] = DOMAIN Unparsed
  BY DEF Alike, Agrees, Unparsed

LEMMA MarkedAlike ==
  ASSUME NEW q, DOMAIN q = DOMAIN Unparsed, NEW services
  PROVE  Alike(Marked(Classified(q, services)), q) /\ Alike(Marked(q), q)
<1>1. ASSUME NEW r, DOMAIN r = DOMAIN Unparsed PROVE Alike(Marked(r), r)
  <2>1. PICK v : v = (r.encrypted \/ r.service \in {"WireGuard", "OpenVPN", "IPsec"})
    OBVIOUS
  <2>2. Marked(r) = [r EXCEPT !.encrypted = v]
    BY <2>1, Zenon DEF Marked
  <2> QED
    BY <1>1, <2>2, NamesAreOther
<1>2. PICK v : Classified(q, services) = q \/ Classified(q, services) = [q EXCEPT !.service = v]
  BY DEF Classified
<1>3. Alike(Classified(q, services), q) /\ DOMAIN Classified(q, services) = DOMAIN Unparsed
  BY <1>2, NamesAreOther
<1>4. Alike(Marked(Classified(q, services)), Classified(q, services))
  BY <1>1, <1>3
<1> QED
  BY <1>1, <1>3, <1>4, AlikeAgain

LEMMA TlsAlike ==
  ASSUME NEW q, DOMAIN q = DOMAIN Unparsed
  PROVE  Alike(ParseTls(q), q)
<1>1. PICK v, w : ParseTls(q) = q \/ ParseTls(q) = [q EXCEPT !.sni = v, !.service = w]
  BY DEF ParseTls
<1>2. Alike([q EXCEPT !.sni = v, !.service = w], q)
  BY DEF Alike, Agrees, Unparsed
<1> QED
  BY <1>1, <1>2, NamesAreOther

LEMMA HttpAlike ==
  ASSUME NEW q, DOMAIN q = DOMAIN Unparsed
  PROVE  Alike(ParseHttp(q), q)
<1>1. PICK u, v, w : \/ ParseHttp(q) = q
                     \/ ParseHttp(q) = [q EXCEPT !.service = u]
                     \/ ParseHttp(q) = [[q EXCEPT !.service = u] EXCEPT !.hostname = v, !.service = w]
  BY DEF ParseHttp
<1>2. Alike([[q EXCEPT !.service = u] EXCEPT !.hostname = v, !.service = w], q)
  BY DEF Alike, Agrees, Unparsed
<1> QED
  BY <1>1, <1>2, NamesAreOther

LEMMA QuicAlike ==
  ASSUME NEW q, DOMAIN q = DOMAIN Unparsed
  PROVE  Alike(Quic(q), q)
<1>1. PICK u, v, w : \/ Quic(q) = [q EXCEPT !.service = w]
                     \/ Quic(q) = [[q EXCEPT !.sni = u, !.service = v] EXCEPT !.service = w]
  BY DEF Quic
<1>2. Alike([[q EXCEPT !.sni = u, !.service = v] EXCEPT !.service = w], q)
  BY DEF Alike, Agrees, Unparsed
<1> QED
  BY <1>1, <1>2, NamesAreOther

LEMMA AnalysisIsAlike ==
  ASSUME IInv, DpiTcp \/ DpiUdp \/ DpiNone \/ ParseResponse \/ Returned
  PROVE  /\ Alike(parsed', parsed) /\ decoder' \in {"dns", "done"}
         /\ UNCHANGED <<given, position>>
<1>1. DOMAIN parsed = DOMAIN Unparsed
  BY Held DEF Sound
<1>2. ASSUME NEW q, Alike(q, parsed), NEW services, parsed' = Marked(Classified(q, services))
      PROVE  Alike(parsed', parsed)
  <2>1. DOMAIN q = DOMAIN Unparsed
    BY <1>1, <1>2 DEF Alike, Agrees
  <2> QED
    BY <1>2, <2>1, MarkedAlike, AlikeAgain
<1>3. Alike(parsed, parsed) /\ Alike(ParseTls(parsed), parsed) /\ Alike(ParseHttp(parsed), parsed)
      /\ Alike(Quic(parsed), parsed) /\ Alike(Marked(parsed), parsed)
  BY <1>1, NamesAreOther, TlsAlike, HttpAlike, QuicAlike, MarkedAlike
<1>4. CASE DpiTcp
  <2>1. \E q \in {parsed, ParseTls(parsed), ParseHttp(parsed)} :
          parsed' = Marked(Classified(q, TcpServices))
    BY <1>4 DEF DpiTcp
  <2> QED
    BY <1>2, <1>3, <1>4, <2>1 DEF DpiTcp
<1>5. CASE DpiUdp
  <2>1. \E q \in {parsed, Quic(parsed)} : parsed' = Marked(Classified(q, UdpServices))
    BY <1>5 DEF DpiUdp
  <2> QED
    BY <1>2, <1>3, <1>5, <2>1 DEF DpiUdp
<1>6. CASE DpiNone
  BY <1>3, <1>6 DEF DpiNone
<1>7. CASE ParseResponse
  BY <1>3, <1>7 DEF ParseResponse
<1>8. CASE Returned
  BY <1>3, <1>8 DEF Returned, pvars, dvars
<1> QED
  BY <1>4, <1>5, <1>6, <1>7, <1>8

(* The invariant of the whole of parse().                                  *)
PInv == IInv /\ Place /\ PayloadIs(parsed)

LEMMA PInitially == PInit => PInv
<1> SUFFICES ASSUME PInit PROVE PInv
  OBVIOUS
<1>1. IInv
  BY Initially DEF PInit
<1>2. frame \in Frames /\ size \in Nat /\ at = 1 /\ offset = 0 /\ end = size /\ parsed = Unparsed
  BY <1>1 DEF PInit, DInit, IInv, DTypes
<1>3. Place
  <2>1. Start(frame, at) = 0
    BY <1>2, Starts
  <2>2. 1 \in 1 .. Len(frame.layers)
    BY <1>2, FramesAssumption
  <2>3. Ends(0) = {size}
    BY <1>1, <2>2, EndsAre
  <2>4. Ends(at - 1) = {size}
    BY <1>2, <2>3
  <2> QED
    BY <1>2, <2>1, <2>4 DEF Place, IsLeast
<1>4. PayloadIs(parsed)
  BY <1>2 DEF PayloadIs, Unparsed
<1> QED
  BY <1>1, <1>3, <1>4 DEF PInv

LEMMA PInductive == PInv /\ [PNext]_pvars => PInv'
<1> SUFFICES ASSUME PInv, [PNext]_pvars PROVE PInv'
  OBVIOUS
<1>1. IInv /\ Place /\ PayloadIs(parsed)
  BY DEF PInv
<1>2. CASE Decode
  <2>1. IInv'
    BY <1>1, <1>2, Inductive
  <2> QED
    BY <1>1, <1>2, <2>1, PlaceKept, PayloadKept DEF PInv
<1>3. CASE DpiTcp \/ DpiUdp \/ DpiNone \/ ParseResponse \/ Returned
  <2>1. /\ Agrees(parsed', parsed) /\ decoder' \in {"dns", "done"}
        /\ UNCHANGED <<given, position>>
    BY <1>1, <1>3, AnalysisIsAlike DEF Alike
  <2>2. Sound(parsed', size) /\ Len(parsed'.tunnel) = Len(parsed.tunnel)
    BY <2>1, Held, SoundAgrees, <1>1
  <2>3. /\ frame' = frame /\ size' = size /\ at' = at /\ offset' = offset /\ end' = end
        /\ depth' = depth /\ type' = type
    BY <2>1 DEF given, position
  <2>4. DTypes' /\ Finds'
    BY <1>1, <2>1, <2>3 DEF IInv, DTypes, Finds
  <2>5. Nesting'
    BY <1>1, <2>1, <2>2, <2>3 DEF IInv, Nesting
  <2>6. Sound(parsed, size)'
    BY <2>2, <2>3 DEF Sound
  <2>7. Place'
    BY <2>1 DEF Place, Running
  <2>8. PayloadIs(parsed)'
    BY <1>1, <2>1, <2>3, AgreesPayload, PayloadTransfers
  <2> QED
    BY <2>4, <2>5, <2>6, <2>7, <2>8 DEF PInv, IInv
<1>4. CASE UNCHANGED pvars
  BY <1>1, <1>4 DEF PInv, pvars, dvars, given, position, IInv, DTypes, Finds, On, Nesting,
     Sound, Place, Running, PayloadIs, IsLeast, Ends
<1> QED
  BY <1>2, <1>3, <1>4 DEF PNext

(* For every frame and wherever it is cut: the payload that parse()        *)
(* reports begins where a TCP or UDP header of it ends, and ends where the *)
(* capture does or the first to end of the packets around that header.     *)
THEOREM PayloadsAreExact == PSpec => []PayloadIsExact
<1>1. PInv => PayloadIsExact
  <2> SUFFICES ASSUME PInv, decoder = "done", parsed.payloadLength > 0
               PROVE  \E i \in DOMAIN frame.layers :
                        /\ frame.layers[i].kind \in {"TCP", "UDP"}
                        /\ parsed.payloadOffset = Start(frame, i + 1)
                        /\ parsed.payloadOffset + parsed.payloadLength =
                             Min({size} \union PacketEnds(frame, i))
    BY DEF PayloadIsExact
  <2>1. IInv
    BY DEF PInv
  <2>2. PICK i \in 1 .. Len(frame.layers) :
          /\ frame.layers[i].kind \in {"TCP", "UDP"}
          /\ parsed.payloadOffset = Start(frame, i + 1)
          /\ IsLeast(parsed.payloadOffset + parsed.payloadLength, Ends(i))
    BY DEF PInv, PayloadIs
  <2>3. DOMAIN frame.layers = 1 .. Len(frame.layers)
    BY <2>1, FramesAssumption DEF IInv, DTypes
  <2>4. Min(Ends(i)) = parsed.payloadOffset + parsed.payloadLength
    BY <2>1, <2>2, EndsAre, LeastIsMin
  <2> QED
    BY <2>2, <2>3, <2>4 DEF Ends
<1> QED
  BY <1>1, PInitially, PInductive, PTL DEF PSpec

---------------------------------------------------------------------------
(* The tunnels among the first i headers, and those that have addresses.   *)
TunnelsTo(f, i) == {t \in TunnelHeaders(f) : t <= i}
HostsTo(f, i)   == {h \in Endpoints(f) : h <= i}

LEMMA HeadersTo ==
  ASSUME NEW f \in Frames
  PROVE  /\ DOMAIN f.layers = 1 .. Len(f.layers) /\ Len(f.layers) \in Nat
         /\ TunnelsTo(f, 0) = {} /\ HostsTo(f, 0) = {}
         /\ \A i \in 1 .. Len(f.layers) :
              /\ TunnelsTo(f, i) = IF TunnelName(f, i) = None THEN TunnelsTo(f, i - 1)
                                   ELSE TunnelsTo(f, i - 1) \union {i}
              /\ HostsTo(f, i) = IF i \notin Endpoints(f) THEN HostsTo(f, i - 1)
                                 ELSE HostsTo(f, i - 1) \union {i}
         /\ TunnelsTo(f, Len(f.layers)) = TunnelHeaders(f)
         /\ HostsTo(f, Len(f.layers)) = Endpoints(f)
<1>1. DOMAIN f.layers = 1 .. Len(f.layers) /\ Len(f.layers) \in Nat
  BY FramesAssumption
<1>2. TunnelHeaders(f) \subseteq 1 .. Len(f.layers) /\ Endpoints(f) \subseteq 1 .. Len(f.layers)
  BY <1>1 DEF TunnelHeaders, Endpoints
<1>3. \A i \in 1 .. Len(f.layers) : i \in TunnelHeaders(f) <=> TunnelName(f, i) # None
  BY <1>1 DEF TunnelHeaders
<1>4. ASSUME NEW i \in 1 .. Len(f.layers)
      PROVE  /\ TunnelsTo(f, i) = IF TunnelName(f, i) = None THEN TunnelsTo(f, i - 1)
                                  ELSE TunnelsTo(f, i - 1) \union {i}
             /\ HostsTo(f, i) = IF i \notin Endpoints(f) THEN HostsTo(f, i - 1)
                                ELSE HostsTo(f, i - 1) \union {i}
  <2>1. \A j \in 1 .. Len(f.layers) : j <= i <=> j <= i - 1 \/ j = i
    BY <1>1
  <2>2. i \in TunnelHeaders(f) <=> TunnelName(f, i) # None
    BY <1>3
  <2> QED
    BY <1>2, <2>1, <2>2 DEF TunnelsTo, HostsTo
<1>5. /\ TunnelsTo(f, 0) = {} /\ HostsTo(f, 0) = {}
      /\ TunnelsTo(f, Len(f.layers)) = TunnelHeaders(f)
      /\ HostsTo(f, Len(f.layers)) = Endpoints(f)
  BY <1>1, <1>2 DEF TunnelsTo, HostsTo
<1> QED
  BY <1>1, <1>4, <1>5

LEMMA TunnelNamesAre ==
  ASSUME NEW f, NEW i
  PROVE  TunnelName(f, i) # None => TunnelName(f, i) \in TunnelNames
  BY DEF TunnelName, TunnelNames

(* g lists the names of the tunnels among the first m headers.             *)
ListsNames(g, f, m) ==
  /\ g \in [0 .. m -> Seq(TunnelNames)]
  /\ g[0] = <<>>
  /\ \A j \in 1 .. m : g[j] = IF TunnelName(f, j) = None THEN g[j - 1]
                              ELSE Append(g[j - 1], TunnelName(f, j))

LEMMA NamesAreThere ==
  ASSUME NEW f, NEW n \in Nat
  PROVE  \E g : ListsNames(g, f, n)
<1> DEFINE S == {m \in 0 .. n : \E g : ListsNames(g, f, m)}
<1>1. 0 \in S
  <2>1. ListsNames([i \in 0 .. 0 |-> <<>>], f, 0)
    BY DEF ListsNames
  <2>. QED
    BY <2>1
<1>2. ASSUME NEW m \in 0 .. n - 1, m \in S PROVE m + 1 \in S
  <2>1. PICK g : ListsNames(g, f, m)
    BY <1>2
  <2>2. /\ g \in [0 .. m -> Seq(TunnelNames)] /\ g[0] = <<>>
        /\ \A j \in 1 .. m : g[j] = IF TunnelName(f, j) = None THEN g[j - 1]
                                    ELSE Append(g[j - 1], TunnelName(f, j))
    BY <2>1 DEF ListsNames
  <2> DEFINE v == IF TunnelName(f, m + 1) = None THEN g[m]
                  ELSE Append(g[m], TunnelName(f, m + 1))
             h == [i \in 0 .. m + 1 |-> IF i = m + 1 THEN v ELSE g[i]]
  <2>3. g[m] \in Seq(TunnelNames)
    BY <2>2
  <2>4. v \in Seq(TunnelNames)
    BY <2>3, TunnelNamesAre
  <2>5. v = IF TunnelName(f, m + 1) = None THEN g[m] ELSE Append(g[m], TunnelName(f, m + 1))
    OBVIOUS
  <2> HIDE DEF v
  <2>6. h \in [0 .. m + 1 -> Seq(TunnelNames)] /\ h[0] = <<>> /\ h[m + 1] = v /\ h[m] = g[m]
    BY <2>2, <2>4
  <2>7. ASSUME NEW i \in 1 .. m + 1
        PROVE  h[i] = IF TunnelName(f, i) = None THEN h[i - 1]
                      ELSE Append(h[i - 1], TunnelName(f, i))
    <3>1. CASE i = m + 1
      <4>1. i - 1 = m
        BY <3>1
      <4> HIDE DEF h
      <4> QED
        BY <2>5, <2>6, <3>1, <4>1
    <3>2. CASE i # m + 1
      <4>1. i \in 1 .. m /\ i - 1 \in 0 .. m /\ i - 1 # m + 1 /\ i \in 0 .. m + 1 /\ i - 1 \in 0 .. m + 1
        BY <3>2
      <4>2. h[i] = g[i] /\ h[i - 1] = g[i - 1]
        BY <3>2, <4>1
      <4> HIDE DEF h
      <4>. QED
        BY <2>2, <4>1, <4>2
    <3>. QED
      BY <3>1, <3>2
  <2> HIDE DEF h
  <2>8. ListsNames(h, f, m + 1)
    BY <2>6, <2>7 DEF ListsNames
  <2>9. m + 1 \in 0 .. n
    OBVIOUS
  <2>. QED
    BY <2>8, <2>9
<1> HIDE DEF S
<1>3. \A m \in 0 .. n : m \in S
  BY ONLY n \in Nat, <1>1, <1>2, Induction
<1>4. n \in S
  BY <1>3
<1>. QED
  BY <1>4 DEF S

LEMMA NamesAre ==
  ASSUME NEW f \in Frames
  PROVE  /\ NamesTo(f, 0) = <<>>
         /\ \A i \in 0 .. Len(f.layers) : NamesTo(f, i) \in Seq(TunnelNames)
         /\ \A i \in 1 .. Len(f.layers) :
              NamesTo(f, i) = IF TunnelName(f, i) = None THEN NamesTo(f, i - 1)
                              ELSE Append(NamesTo(f, i - 1), TunnelName(f, i))
<1> DEFINE n == Len(f.layers)
           Rule(h) == h = [j \in 0 .. n |->
                             IF j = 0 THEN <<>>
                             ELSE IF TunnelName(f, j) = None THEN h[j - 1]
                             ELSE Append(h[j - 1], TunnelName(f, j))]
           names == CHOOSE h : Rule(h)
<1>1. n \in Nat
  BY FramesAssumption
<1>2. \A i : NamesTo(f, i) = names[i]
  BY DEF NamesTo
<1> HIDE DEF n
<1>3. PICK g : ListsNames(g, f, n)
  BY <1>1, NamesAreThere
<1>4. /\ g \in [0 .. n -> Seq(TunnelNames)] /\ g[0] = <<>>
      /\ \A j \in 1 .. n : g[j] = IF TunnelName(f, j) = None THEN g[j - 1]
                                  ELSE Append(g[j - 1], TunnelName(f, j))
  BY <1>3 DEF ListsNames
<1>5. Rule(g)
  <2>1. g = [i \in 0 .. n |-> g[i]]
    BY <1>4
  <2>2. ASSUME NEW i \in 0 .. n
        PROVE  g[i] = IF i = 0 THEN <<>>
                      ELSE IF TunnelName(f, i) = None THEN g[i - 1]
                      ELSE Append(g[i - 1], TunnelName(f, i))
    <3>1. CASE i = 0
      BY <1>4, <3>1
    <3>2. CASE i # 0
      <4>1. i \in 1 .. n
        BY <1>1, <3>2
      <4> QED
        BY <1>4, <3>2, <4>1
    <3> QED
      BY <3>1, <3>2
  <2> QED
    BY <2>1, <2>2
<1> HIDE DEF Rule
<1>6. Rule(names)
  BY <1>5
<1> HIDE DEF names
<1>7. names = [j \in 0 .. n |-> IF j = 0 THEN <<>>
                                ELSE IF TunnelName(f, j) = None THEN names[j - 1]
                                ELSE Append(names[j - 1], TunnelName(f, j))]
  BY <1>6 DEF Rule
<1>8. \A j \in 0 .. n : names[j] = IF j = 0 THEN <<>>
                                   ELSE IF TunnelName(f, j) = None THEN names[j - 1]
                                   ELSE Append(names[j - 1], TunnelName(f, j))
  BY <1>7
<1>9. names[0] = <<>>
  BY <1>1, <1>8
<1>10. ASSUME NEW j \in 1 .. n
       PROVE  names[j] = IF TunnelName(f, j) = None THEN names[j - 1]
                         ELSE Append(names[j - 1], TunnelName(f, j))
  <2>1. j \in 0 .. n /\ j # 0
    BY <1>1
  <2> QED
    BY <1>8, <2>1
<1>11. \A i \in 0 .. n : names[i] \in Seq(TunnelNames)
  <2> DEFINE S == {i \in 0 .. n : names[i] \in Seq(TunnelNames)}
  <2>1. 0 \in S
    <3>1. <<>> \in Seq(TunnelNames)
      OBVIOUS
    <3>2. names[0] \in Seq(TunnelNames)
      BY <1>9, <3>1
    <3> QED
      BY <1>1, <3>2
  <2>2. ASSUME NEW i \in 0 .. n - 1, i \in S PROVE i + 1 \in S
    <3>1. i + 1 \in 1 .. n /\ (i + 1) - 1 = i /\ i + 1 \in 0 .. n
      BY <1>1
    <3>2. \/ names[i + 1] = names[i]
          \/ /\ names[i + 1] = Append(names[i], TunnelName(f, i + 1))
             /\ TunnelName(f, i + 1) \in TunnelNames
      BY <1>10, <3>1, TunnelNamesAre
    <3>3. names[i] \in Seq(TunnelNames)
      BY <2>2
    <3>4. CASE names[i + 1] = names[i]
      BY <3>1, <3>3, <3>4
    <3>5. CASE /\ names[i + 1] = Append(names[i], TunnelName(f, i + 1))
               /\ TunnelName(f, i + 1) \in TunnelNames
      <4>1. Append(names[i], TunnelName(f, i + 1)) \in Seq(TunnelNames)
        BY <3>3, <3>5
      <4> QED
        BY <3>1, <3>5, <4>1
    <3> QED
      BY <3>2, <3>4, <3>5
  <2> HIDE DEF S
  <2>3. \A i \in 0 .. n : i \in S
    BY <1>1, <2>1, <2>2, Induction
  <2> QED
    BY <2>3 DEF S
<1>12. NamesTo(f, 0) = <<>>
  BY <1>2, <1>9
<1>13. \A i \in 0 .. n : NamesTo(f, i) \in Seq(TunnelNames)
  BY <1>2, <1>11
<1>14. ASSUME NEW i \in 1 .. n
       PROVE  NamesTo(f, i) = IF TunnelName(f, i) = None THEN NamesTo(f, i - 1)
                              ELSE Append(NamesTo(f, i - 1), TunnelName(f, i))
  <2>1. NamesTo(f, i) = names[i] /\ NamesTo(f, i - 1) = names[i - 1]
    BY <1>2
  <2>2. names[i] = IF TunnelName(f, i) = None THEN names[i - 1]
                   ELSE Append(names[i - 1], TunnelName(f, i))
    BY <1>10
  <2> QED
    BY <2>1, <2>2, Zenon
<1> QED
  BY <1>12, <1>13, <1>14, Zenon DEF n

(* A tunnel further in has a name further on.                              *)
LEMMA NamesGrow ==
  ASSUME NEW f \in Frames, NEW i \in 0 .. Len(f.layers), NEW k \in i .. Len(f.layers)
  PROVE  /\ Len(NamesTo(f, i)) \in Nat /\ Len(NamesTo(f, k)) \in Nat
         /\ Len(NamesTo(f, i)) <= Len(NamesTo(f, k))
<1> DEFINE n == Len(f.layers)
           S == {j \in 0 .. n : i <= j => Len(NamesTo(f, i)) <= Len(NamesTo(f, j))}
<1>1. n \in Nat
  BY HeadersTo
<1>2. \A j \in 0 .. n : Len(NamesTo(f, j)) \in Nat
  BY NamesAre
<1>3. 0 \in S
  BY <1>1, <1>2
<1>4. ASSUME NEW j \in 0 .. n - 1, j \in S PROVE j + 1 \in S
  <2>1. j + 1 \in 1 .. n /\ (j + 1) - 1 = j /\ j \in 0 .. n /\ j + 1 \in 0 .. n
    BY <1>1
  <2>2. NamesTo(f, j) \in Seq(TunnelNames)
    BY <2>1, NamesAre
  <2>3. \/ NamesTo(f, j + 1) = NamesTo(f, j)
        \/ \E t \in TunnelNames : NamesTo(f, j + 1) = Append(NamesTo(f, j), t)
    BY <2>1, NamesAre, TunnelNamesAre
  <2>4. Len(NamesTo(f, j)) <= Len(NamesTo(f, j + 1))
    BY <2>2, <2>3
  <2>5. CASE i <= j
    <3>1. Len(NamesTo(f, i)) <= Len(NamesTo(f, j))
      BY <1>4, <2>5
    <3>2. Len(NamesTo(f, i)) <= Len(NamesTo(f, j + 1))
      BY <1>2, <2>1, <2>4, <3>1
    <3> QED
      BY <2>1, <3>2
  <2>6. CASE ~(i <= j)
    <3>1. i <= j + 1 => i = j + 1
      BY <2>1, <2>6
    <3> QED
      BY <1>2, <2>1, <3>1
  <2> QED
    BY <2>5, <2>6
<1> HIDE DEF S
<1>5. \A j \in 0 .. n : j \in S
  BY <1>1, <1>3, <1>4, Induction
<1>6. k \in 0 .. n /\ i <= k
  BY <1>1
<1> QED
  BY <1>2, <1>5, <1>6 DEF S

(* Before a tunnel is read, fewer are named than there are.                *)
LEMMA Room ==
  ASSUME NEW f \in Frames, NEW t \in 1 .. Len(f.layers), TunnelName(f, t) # None
  PROVE  /\ Len(NamesTo(f, t - 1)) \in Nat /\ Len(NamesTo(f, Len(f.layers))) \in Nat
         /\ \A i \in 0 .. t - 1 : Len(NamesTo(f, i)) < Len(NamesTo(f, Len(f.layers)))
<1>1. Len(f.layers) \in Nat
  BY HeadersTo
<1>2. t - 1 \in 0 .. Len(f.layers) /\ t \in 0 .. Len(f.layers) /\ Len(f.layers) \in t .. Len(f.layers)
  BY <1>1
<1>3. /\ NamesTo(f, t - 1) \in Seq(TunnelNames)
      /\ NamesTo(f, t) = Append(NamesTo(f, t - 1), TunnelName(f, t))
      /\ TunnelName(f, t) \in TunnelNames
  BY <1>2, NamesAre, TunnelNamesAre
<1>4. Len(NamesTo(f, t)) = Len(NamesTo(f, t - 1)) + 1
  BY <1>3
<1>5. /\ Len(NamesTo(f, t)) \in Nat /\ Len(NamesTo(f, Len(f.layers))) \in Nat
      /\ Len(NamesTo(f, t)) <= Len(NamesTo(f, Len(f.layers)))
  BY <1>2, NamesGrow
<1>6. ASSUME NEW i \in 0 .. t - 1
      PROVE  Len(NamesTo(f, i)) \in Nat /\ Len(NamesTo(f, i)) <= Len(NamesTo(f, t - 1))
  <2>1. i \in 0 .. Len(f.layers) /\ t - 1 \in i .. Len(f.layers)
    BY <1>1
  <2> QED
    BY <2>1, NamesGrow
<1>7. Len(NamesTo(f, t - 1)) \in Nat
  BY <1>3
<1> QED
  BY <1>4, <1>5, <1>6, <1>7

(* What q reports of the addresses of the first e headers and the names of *)
(* the first m: those of the last host, and the first host's if there is a *)
(* tunnel in its packet.                                                   *)
Addresses(f, q, e, m, a, b) ==
  /\ \A h \in HostsTo(f, e) : a <= h /\ h <= b
  /\ q.src = f.layers[b].src /\ q.dst = f.layers[b].dst
  /\ IF \E t \in TunnelsTo(f, m) : t > a
     THEN q.outerSrc = f.layers[a].src /\ q.outerDst = f.layers[a].dst
     ELSE q.outerSrc = None /\ q.outerDst = None /\ a = b

NoAddresses(q) == q.src = None /\ q.dst = None /\ q.outerSrc = None /\ q.outerDst = None

Report(f, q, e, m) ==
  /\ q.tunnel = NamesTo(f, m)
  /\ IF HostsTo(f, e) = {} THEN NoAddresses(q)
     ELSE \E a, b \in HostsTo(f, e) : Addresses(f, q, e, m, a, b)

(* The hosts whose packets carry others have addresses.                    *)
Carrying(f, e) ==
  \A h \in HostsTo(f, e) : f.layers[h].src # None /\ f.layers[h].dst # None

(* The packet read next is in a tunnel, if one was read.                   *)
Carried(f, q, e) == HostsTo(f, e) # {} => q.outerSrc # None

LEMMA ReportStarts ==
  ASSUME NEW f \in Frames
  PROVE  Report(f, Unparsed, 0, 0)
<1>1. HostsTo(f, 0) = {} /\ NamesTo(f, 0) = <<>>
  BY HeadersTo, NamesAre
<1>2. Unparsed.tunnel = <<>> /\ NoAddresses(Unparsed)
  BY DEF Unparsed, NoAddresses
<1> QED
  BY <1>1, <1>2 DEF Report

(* r shows the same of addresses and tunnels as q.                         *)
Shows(r, q) ==
  /\ r.tunnel = q.tunnel /\ r.src = q.src /\ r.dst = q.dst
  /\ r.outerSrc = q.outerSrc /\ r.outerDst = q.outerDst

LEMMA ReportShows ==
  ASSUME NEW f, NEW q, NEW r, Shows(r, q), NEW e, NEW m, Report(f, q, e, m)
  PROVE  Report(f, r, e, m)
<1>1. NoAddresses(q) => NoAddresses(r)
  BY DEF NoAddresses, Shows
<1>2. \A a, b : Addresses(f, q, e, m, a, b) => Addresses(f, r, e, m, a, b)
  BY DEF Addresses, Shows
<1>3. r.tunnel = q.tunnel
  BY DEF Shows
<1> QED
  BY <1>1, <1>2, <1>3 DEF Report

LEMMA ReportAlike ==
  ASSUME NEW f, NEW q, NEW r, Alike(r, q), NEW e, NEW m, Report(f, q, e, m)
  PROVE  Report(f, r, e, m)
<1>1. Shows(r, q)
  BY DEF Alike, Agrees, Shows
<1> QED
  BY <1>1, ReportShows

(* A header that is no host, or no tunnel.                                 *)
LEMMA NoHost ==
  ASSUME NEW f \in Frames, NEW i \in 1 .. Len(f.layers), i \notin Endpoints(f), NEW q, NEW m,
         Report(f, q, i - 1, m)
  PROVE  Report(f, q, i, m) /\ HostsTo(f, i) = HostsTo(f, i - 1)
<1>1. HostsTo(f, i) = HostsTo(f, i - 1)
  BY HeadersTo
<1>2. \A a, b : Addresses(f, q, i - 1, m, a, b) => Addresses(f, q, i, m, a, b)
  BY <1>1 DEF Addresses
<1> QED
  BY <1>1, <1>2 DEF Report

LEMMA NoTunnel ==
  ASSUME NEW f \in Frames, NEW i \in 1 .. Len(f.layers), TunnelName(f, i) = None, NEW q, NEW e,
         Report(f, q, e, i - 1)
  PROVE  Report(f, q, e, i)
<1>1. TunnelsTo(f, i) = TunnelsTo(f, i - 1)
  BY HeadersTo
<1>2. NamesTo(f, i) = NamesTo(f, i - 1)
  BY NamesAre
<1>3. \A a, b : Addresses(f, q, e, i - 1, a, b) => Addresses(f, q, e, i, a, b)
  BY <1>1 DEF Addresses
<1> QED
  BY <1>2, <1>3 DEF Report

LEMMA PushFields ==
  ASSUME NEW q, DOMAIN q = DOMAIN Unparsed, NEW name
  PROVE  LET r == PushTunnel(q, name) IN
         /\ r.tunnel = Append(q.tunnel, name) /\ r.src = q.src /\ r.dst = q.dst
         /\ r.outerSrc = IF q.outerSrc = None THEN q.src ELSE q.outerSrc
         /\ r.outerDst = IF q.outerSrc = None THEN q.dst ELSE q.outerDst
  BY DEF PushTunnel, Unparsed

(* A tunnel is named, and the packet in it is carried.                     *)
LEMMA ReportPush ==
  ASSUME NEW f \in Frames, NEW i \in 1 .. Len(f.layers), TunnelName(f, i) # None,
         NEW q, DOMAIN q = DOMAIN Unparsed, Report(f, q, i - 1, i - 1), Carrying(f, i - 1)
  PROVE  LET r == PushTunnel(q, TunnelName(f, i)) IN
         Report(f, r, i - 1, i) /\ Carried(f, r, i - 1)
<1> DEFINE r == PushTunnel(q, TunnelName(f, i))
<1>1. /\ r.tunnel = Append(q.tunnel, TunnelName(f, i)) /\ r.src = q.src /\ r.dst = q.dst
      /\ r.outerSrc = IF q.outerSrc = None THEN q.src ELSE q.outerSrc
      /\ r.outerDst = IF q.outerSrc = None THEN q.dst ELSE q.outerDst
  BY PushFields
<1> HIDE DEF r
<1>2. NamesTo(f, i) = Append(NamesTo(f, i - 1), TunnelName(f, i))
  BY NamesAre
<1>3. r.tunnel = NamesTo(f, i)
  BY <1>1, <1>2 DEF Report
<1>4. TunnelsTo(f, i) = TunnelsTo(f, i - 1) \union {i}
  BY HeadersTo
<1>5. CASE HostsTo(f, i - 1) = {}
  <2>1. NoAddresses(q)
    BY <1>5 DEF Report
  <2>2. NoAddresses(r)
    BY <1>1, <2>1 DEF NoAddresses
  <2> QED
    BY <1>3, <1>5, <2>2 DEF Report, Carried, r
<1>6. CASE HostsTo(f, i - 1) # {}
  <2>1. PICK a, b \in HostsTo(f, i - 1) : Addresses(f, q, i - 1, i - 1, a, b)
    BY <1>6 DEF Report
  <2>2. /\ \A h \in HostsTo(f, i - 1) : a <= h /\ h <= b
        /\ q.src = f.layers[b].src /\ q.dst = f.layers[b].dst
        /\ IF \E t \in TunnelsTo(f, i - 1) : t > a
           THEN q.outerSrc = f.layers[a].src /\ q.outerDst = f.layers[a].dst
           ELSE q.outerSrc = None /\ q.outerDst = None /\ a = b
    BY <2>1 DEF Addresses
  <2>3. f.layers[a].src # None
    BY DEF Carrying
  <2>4. r.outerSrc = f.layers[a].src /\ r.outerDst = f.layers[a].dst
    BY <1>1, <2>2, <2>3
  <2>5. i > a
    <3>1. a \in Nat /\ a <= i - 1
      BY HeadersTo DEF HostsTo, Endpoints
    <3> QED
      BY <3>1
  <2>6. \E t \in TunnelsTo(f, i) : t > a
    BY <1>4, <2>5
  <2>7. Addresses(f, r, i - 1, i, a, b)
    BY <1>1, <2>2, <2>4, <2>6 DEF Addresses
  <2>8. Report(f, r, i - 1, i)
    BY <1>3, <1>6, <2>7 DEF Report
  <2> QED
    BY <2>3, <2>4, <2>8 DEF Carried, r
<1> QED
  BY <1>5, <1>6

(* The addresses of a host are reported, in place of those of its carrier. *)
LEMMA ReportHost ==
  ASSUME NEW f \in Frames, NEW i \in 1 .. Len(f.layers), i \in Endpoints(f), NEW m \in 0 .. i,
         NEW q, Report(f, q, i - 1, m), Carried(f, q, i - 1),
         NEW r, r.tunnel = q.tunnel, r.outerSrc = q.outerSrc, r.outerDst = q.outerDst,
         r.src = f.layers[i].src, r.dst = f.layers[i].dst
  PROVE  Report(f, r, i, m)
<1>1. HostsTo(f, i) = HostsTo(f, i - 1) \union {i}
  BY HeadersTo
<1>2. \A h \in HostsTo(f, i - 1) : h \in Nat /\ h <= i
  BY HeadersTo DEF HostsTo, Endpoints
<1>3. r.tunnel = NamesTo(f, m)
  BY DEF Report
<1>4. \A t \in TunnelsTo(f, m) : ~(t > i)
  BY HeadersTo DEF TunnelsTo, TunnelHeaders
<1>5. CASE HostsTo(f, i - 1) = {}
  <2>1. NoAddresses(q)
    BY <1>5 DEF Report
  <2>2. r.outerSrc = None /\ r.outerDst = None
    BY <2>1 DEF NoAddresses
  <2>3. \A h \in HostsTo(f, i) : i <= h /\ h <= i
    BY <1>1, <1>5
  <2>4. Addresses(f, r, i, m, i, i)
    BY <1>4, <2>2, <2>3 DEF Addresses
  <2> QED
    BY <1>1, <1>3, <2>4 DEF Report
<1>6. CASE HostsTo(f, i - 1) # {}
  <2>1. PICK a, b \in HostsTo(f, i - 1) : Addresses(f, q, i - 1, m, a, b)
    BY <1>6 DEF Report
  <2>2. q.outerSrc # None
    BY <1>6 DEF Carried
  <2>3. /\ \A h \in HostsTo(f, i - 1) : a <= h
        /\ \E t \in TunnelsTo(f, m) : t > a
        /\ q.outerSrc = f.layers[a].src /\ q.outerDst = f.layers[a].dst
    BY <2>1, <2>2 DEF Addresses
  <2>4. \A h \in HostsTo(f, i) : a <= h /\ h <= i
    BY <1>1, <1>2, <2>3
  <2>5. Addresses(f, r, i, m, a, i)
    BY <2>3, <2>4 DEF Addresses
  <2>6. a \in HostsTo(f, i) /\ i \in HostsTo(f, i)
    BY <1>1
  <2> QED
    BY <1>1, <1>3, <2>5, <2>6 DEF Report
<1> QED
  BY <1>5, <1>6

---------------------------------------------------------------------------
LEMMA GreatestIsMax ==
  ASSUME NEW S, S \subseteq Nat, NEW x \in S, \A y \in S : y <= x
  PROVE  Max(S) = x
<1> DEFINE Greatest(z) == \A y \in S : z >= y
<1>1. x \in S /\ Greatest(x)
  OBVIOUS
<1>2. Max(S) = CHOOSE z \in S : Greatest(z)
  BY DEF Max
<1>3. ASSUME NEW z \in S, Greatest(z) PROVE z = x
  BY <1>1, <1>3
<1> HIDE DEF Greatest
<1> QED
  BY <1>1, <1>2, <1>3

(* The report of all the headers is what InnermostIsShown says.            *)
LEMMA ReportOfAll ==
  ASSUME frame \in Frames, Report(frame, parsed, Len(frame.layers), Len(frame.layers))
  PROVE  LET last  == frame.layers[Max(Endpoints(frame))]
             outer == frame.layers[Min(Endpoints(frame))]
         IN /\ parsed.tunnel = NamesTo(frame, Len(frame.layers))
            /\ Endpoints(frame) # {} =>
                 /\ parsed.src = last.src /\ parsed.dst = last.dst
                 /\ IF \E t \in TunnelHeaders(frame) : t > Min(Endpoints(frame))
                    THEN parsed.outerSrc = outer.src /\ parsed.outerDst = outer.dst
                    ELSE parsed.outerSrc = None /\ parsed.outerDst = None
<1> DEFINE n == Len(frame.layers)
<1>1. HostsTo(frame, n) = Endpoints(frame) /\ TunnelsTo(frame, n) = TunnelHeaders(frame)
  BY HeadersTo
<1>2. CASE Endpoints(frame) = {}
  BY <1>2 DEF Report
<1>3. CASE Endpoints(frame) # {}
  <2>1. PICK a, b \in Endpoints(frame) : Addresses(frame, parsed, n, n, a, b)
    BY <1>1, <1>3 DEF Report
  <2>2. \A h \in Endpoints(frame) : a <= h /\ h <= b
    BY <1>1, <2>1 DEF Addresses
  <2>3. Endpoints(frame) \subseteq Nat
    BY HeadersTo DEF Endpoints
  <2>4. Max(Endpoints(frame)) = b
    BY <2>2, <2>3, GreatestIsMax
  <2>5. Min(Endpoints(frame)) = a
    BY <2>2, <2>3, LeastIsMin DEF IsLeast
  <2>6. parsed.tunnel = NamesTo(frame, n)
    BY DEF Report
  <2>7. /\ parsed.src = frame.layers[b].src /\ parsed.dst = frame.layers[b].dst
        /\ IF \E t \in TunnelHeaders(frame) : t > a
           THEN parsed.outerSrc = frame.layers[a].src /\ parsed.outerDst = frame.layers[a].dst
           ELSE parsed.outerSrc = None /\ parsed.outerDst = None
    BY <1>1, <2>1 DEF Addresses
  <2> QED
    BY <2>4, <2>5, <2>6, <2>7
<1> QED
  BY <1>2, <1>3

LEMMA StartsGrow ==
  ASSUME NEW f \in Frames, NEW i \in 1 .. Len(f.layers)
  PROVE  Start(f, i + 1) \in Nat /\ DataStart(f) \in Nat /\ Start(f, i + 1) <= DataStart(f)
<1> DEFINE n == Len(f.layers)
           S == {j \in 0 .. n : i <= j => Start(f, i + 1) <= Start(f, j + 1)}
<1>1. n \in Nat /\ \A j \in 1 .. n : f.layers[j].len \in Nat
  BY FramesAssumption DEF Formed
<1>2. \A j \in 1 .. n : /\ Start(f, j) \in Nat /\ Start(f, j + 1) \in Nat
                        /\ Start(f, j + 1) = Start(f, j) + f.layers[j].len
  BY Starts
<1>3. 0 \in S
  BY <1>1
<1>4. ASSUME NEW j \in 0 .. n - 1, j \in S PROVE j + 1 \in S
  <2>1. j + 1 \in 1 .. n /\ j + 1 \in 0 .. n /\ i \in 1 .. n
    BY <1>1
  <2>2. /\ Start(f, j + 1) \in Nat /\ Start(f, (j + 1) + 1) \in Nat
        /\ Start(f, j + 1) <= Start(f, (j + 1) + 1)
    <3>1. /\ Start(f, j + 1) \in Nat /\ Start(f, (j + 1) + 1) \in Nat
          /\ Start(f, (j + 1) + 1) = Start(f, j + 1) + f.layers[j + 1].len
      BY <1>2, <2>1
    <3>2. f.layers[j + 1].len \in Nat
      BY <1>1, <2>1
    <3> QED
      BY <3>1, <3>2
  <2>3. CASE i <= j
    <3>1. Start(f, i + 1) <= Start(f, j + 1) /\ Start(f, i + 1) \in Nat
      BY <1>2, <1>4, <2>3
    <3>2. Start(f, i + 1) <= Start(f, (j + 1) + 1)
      BY <2>2, <3>1
    <3> QED
      BY <2>1, <3>2
  <2>4. CASE ~(i <= j)
    <3>1. i <= j + 1 => i = j + 1
      BY <2>1, <2>4
    <3> QED
      BY <2>1, <2>2, <3>1
  <2> QED
    BY <2>3, <2>4
<1> HIDE DEF S
<1>5. \A j \in 0 .. n : j \in S
  BY <1>1, <1>3, <1>4, Induction
<1>6. n \in 0 .. n /\ i <= n /\ n \in 1 .. n
  BY <1>1
<1>7. Start(f, i + 1) <= Start(f, n + 1)
  BY <1>5, <1>6 DEF S
<1> QED
  BY <1>2, <1>6, <1>7 DEF DataStart

(* Of a clear frame, every header is complete where it is read.            *)
LEMMA Whole ==
  ASSUME PInv, Running, Clear(frame), at \in 1 .. Len(frame.layers)
  PROVE  /\ end \in Nat /\ offset \in Nat /\ Here.len \in Nat
         /\ offset = Start(frame, at) /\ offset + Here.len = Start(frame, at + 1)
         /\ DataStart(frame) <= end /\ offset + Here.len <= DataStart(frame)
         /\ Fits(Here.len)
         /\ at < Len(frame.layers) =>
              /\ frame.layers[at + 1].len \in Nat
              /\ offset + Here.len + frame.layers[at + 1].len <= DataStart(frame)
<1>1. frame \in Frames /\ Len(frame.layers) \in Nat /\ size \in Nat /\ end \in Nat /\ offset \in Nat
  BY Held DEF PInv, DTypes
<1>2. offset = Start(frame, at) /\ IsLeast(end, Ends(at - 1))
  BY DEF PInv, Place
<1>3. Here.len \in Nat /\ offset + Here.len = Start(frame, at + 1)
  BY <1>1, <1>2, Starts, FramesAssumption DEF Here, Formed
<1>4. DataStart(frame) \in Nat /\ Start(frame, at + 1) <= DataStart(frame)
  BY <1>1, StartsGrow
<1>5. DataStart(frame) <= end
  <2>1. end \in {size} \union PacketEnds(frame, at - 1)
    BY <1>2 DEF IsLeast, Ends
  <2>2. DataStart(frame) <= size
    BY <1>1, <1>4 DEF Clear
  <2>3. CASE end \in PacketEnds(frame, at - 1)
    <3>1. PICK j \in 1 .. at - 1 : /\ Declares(frame.layers[j])
                                   /\ end = Start(frame, j) + frame.layers[j].total
      BY <2>3 DEF PacketEnds
    <3>2. j \in DOMAIN frame.layers
      BY <1>1, FramesAssumption
    <3> QED
      BY <1>1, <1>4, <3>1, <3>2 DEF Clear
  <2> QED
    BY <2>1, <2>2, <2>3
<1>6. ASSUME at < Len(frame.layers)
      PROVE  /\ frame.layers[at + 1].len \in Nat
             /\ offset + Here.len + frame.layers[at + 1].len <= DataStart(frame)
  <2>1. at + 1 \in 1 .. Len(frame.layers)
    BY <1>1, <1>6
  <2>2. /\ frame.layers[at + 1].len \in Nat
        /\ Start(frame, (at + 1) + 1) = Start(frame, at + 1) + frame.layers[at + 1].len
    BY <1>1, <2>1, Starts, FramesAssumption DEF Formed
  <2>3. Start(frame, (at + 1) + 1) <= DataStart(frame)
    BY <1>1, <2>1, StartsGrow
  <2> QED
    BY <1>3, <2>2, <2>3
<1>7. Fits(Here.len)
  BY <1>1, <1>3, <1>4, <1>5 DEF Fits
<1> QED
  BY <1>1, <1>2, <1>3, <1>4, <1>5, <1>6, <1>7

---------------------------------------------------------------------------
(* What a clear frame's headers are.                                       *)
LEMMA ClearHeader ==
  ASSUME frame \in Frames, Clear(frame), NEW i \in 1 .. Len(frame.layers)
  PROVE  LET h == frame.layers[i] IN
         /\ Formed(h) /\ h.plain
         /\ Declares(h) => Start(frame, i) + h.total >= DataStart(frame)
         /\ h.kind = "IPv4" => h.len >= 20 /\ Declares(h)
         /\ h.kind = "MPLS" => h.len <= 32
         /\ h.kind \in {"MPLS", "PPPoE"} => i < Len(frame.layers)
         /\ i < Len(frame.layers) => frame.layers[i + 1].kind \in ReadAfter(h.kind)
         /\ i < Len(frame.layers) /\ Unspoken(frame, i) => frame.layers[i + 1].kind \in IpVersions
         /\ i < Len(frame.layers) /\ ~Unspoken(frame, i) => frame.layers[i + 1].kind = Promised(h)
<1>1. Formed(frame.layers[i]) /\ DOMAIN frame.layers = 1 .. Len(frame.layers)
  BY FramesAssumption
<1> QED
  BY <1>1 DEF Clear

LEMMA ReadAfterIs ==
  /\ \A kind \in {"link", "Ethernet"}  :
       ReadAfter(kind) = IpVersions \union {"MPLS", "PPPoE", "ARP"}
  /\ \A kind \in {"MPLS", "PPPoE"}     : ReadAfter(kind) = IpVersions
  /\ \A kind \in {"GRE", "GENEVE"}     : ReadAfter(kind) = IpVersions \union {"Ethernet"}
  /\ ReadAfter("IPv4") = IpVersions \union Transports
  /\ \A kind \in {"IPv6", "V6Ext"}     : ReadAfter(kind) = IpVersions \union Transports \union {"V6Ext"}
  /\ ReadAfter("UDP") = {"VXLAN", "GENEVE"} /\ ReadAfter("VXLAN") = {"Ethernet"}
  /\ \A kind \in {"ARP", "TCP", "ICMP", "ICMPv6"} : ReadAfter(kind) = {}
  BY Zenon DEF ReadAfter

LEMMA NamedKinds ==
  ASSUME NEW f, NEW i
  PROVE  LET kind == f.layers[i].kind
             over == f.layers[i - 1].kind
         IN /\ kind \in {"MPLS", "PPPoE", "GRE", "VXLAN", "GENEVE"} =>
                 TunnelName(f, i) = kind /\ kind # None
            /\ kind \in IpVersions /\ i # 1 /\ over \in IpVersions \union {"V6Ext"} =>
                 /\ TunnelName(f, i) = IF kind = "IPv4" THEN "IP-in-IP" ELSE "6in4"
                 /\ TunnelName(f, i) # None
            /\ kind \in IpVersions /\ i # 1 /\ over \notin IpVersions \union {"V6Ext"} =>
                 TunnelName(f, i) = None
            /\ kind \notin IpVersions \union {"MPLS", "PPPoE", "GRE", "VXLAN", "GENEVE"} =>
                 TunnelName(f, i) = None
<1>1. None \notin {"MPLS", "PPPoE", "GRE", "VXLAN", "GENEVE", "IP-in-IP", "6in4"}
  BY NoneAssumption DEF Decoded
<1>2. CASE f.layers[i].kind \in {"MPLS", "PPPoE", "GRE", "VXLAN", "GENEVE"}
  BY <1>1, <1>2 DEF TunnelName, IpVersions
<1>3. CASE f.layers[i].kind \in IpVersions
  BY <1>1, <1>3 DEF TunnelName, IpVersions
<1>4. CASE f.layers[i].kind \notin IpVersions \union {"MPLS", "PPPoE", "GRE", "VXLAN", "GENEVE"}
  BY <1>4 DEF TunnelName, IpVersions
<1> QED
  BY <1>2, <1>3, <1>4

(* A header that says what follows it.                                     *)
LEMMA Spoken ==
  ASSUME frame \in Frames, Clear(frame), NEW i \in 1 .. Len(frame.layers),
         i < Len(frame.layers), ~Unspoken(frame, i),
         frame.layers[i].kind \notin {"UDP", "VXLAN"}
  PROVE  LET next == frame.layers[i].next
             kind == frame.layers[i + 1].kind
         IN /\ kind \in Decoded => next = kind
            /\ kind = "Ethernet" => next = "TEB"
<1>1. frame.layers[i + 1].kind = Promised(frame.layers[i])
  BY ClearHeader
<1>2. "Ethernet" \notin Decoded /\ None \notin Decoded /\ "Ethernet" # None
  BY NoneAssumption DEF Decoded, IpVersions
<1>3. Promised(frame.layers[i]) = IF frame.layers[i].next = "TEB" THEN "Ethernet"
                                  ELSE IF frame.layers[i].next \in Decoded
                                  THEN frame.layers[i].next ELSE None
  BY DEF Promised, Decoded, IpVersions
<1> QED
  BY <1>1, <1>2, <1>3

(* An ARP packet carries none; other hosts have addresses.                 *)
LEMMA HostsCarry ==
  ASSUME frame \in Frames, Clear(frame), NEW i \in 1 .. Len(frame.layers)
  PROVE  Carrying(frame, i - 1)
<1> SUFFICES ASSUME NEW h \in HostsTo(frame, i - 1)
             PROVE  frame.layers[h].src # None /\ frame.layers[h].dst # None
  BY DEF Carrying
<1>1. Len(frame.layers) \in Nat /\ h \in 1 .. Len(frame.layers) /\ h < Len(frame.layers)
  BY HeadersTo DEF HostsTo, Endpoints
<1>2. frame.layers[h].kind \in IpVersions \union {"ARP"}
  BY DEF HostsTo, Endpoints
<1>3. frame.layers[h].kind # "ARP"
  BY <1>1, ClearHeader, ReadAfterIs
<1>4. Formed(frame.layers[h])
  BY <1>1, ClearHeader
<1> QED
  BY <1>2, <1>3, <1>4 DEF Formed

LinkKinds == IpVersions \union {"MPLS", "PPPoE", "ARP"}
IpKinds   == IpVersions \union Transports

(* Header i, if there is one, was announced, and is of one of these kinds. *)
Announced(f, i, t, kinds) ==
  /\ i \in 2 .. Len(f.layers) + 1
  /\ i <= Len(f.layers) => f.layers[i].kind = t /\ t \in kinds

AfterIp(f, i) == f.layers[i - 1].kind \in IpVersions \union {"V6Ext"}

(* A packet that makes a tunnel of the one around it is named before it is *)
(* read.                                                                   *)
NamedTo(f, i) ==
  IF i <= Len(f.layers) /\ f.layers[i].kind \in IpVersions THEN i ELSE i - 1

(* Decoder d of a clear frame is about to read header i, and q reports all *)
(* that the headers before say.                                            *)
Stage(f, d, i, t, k, q) ==
  /\ d = "link" => i = 1 /\ Report(f, q, 0, 0)
  /\ d = "network" =>
       Announced(f, i, t, LinkKinds) /\ Report(f, q, i - 1, NamedTo(f, i)) /\ Carried(f, q, i - 1)
  /\ d = "extension" =>
       Announced(f, i, t, IpKinds \union {"V6Ext"}) /\ AfterIp(f, i) /\ Report(f, q, i - 1, i - 1)
  /\ d = "transport" =>
       Announced(f, i, t, IpKinds) /\ AfterIp(f, i) /\ Report(f, q, i - 1, i - 1)
  /\ d \in {"VXLAN", "GENEVE"} => Report(f, q, i - 1, i - 1)
  /\ d = "inner" => Report(f, q, i - 1, i - 1) /\ Carried(f, q, i - 1)
  /\ d \in {"dpi", "dns", "done"} => Report(f, q, Len(f.layers), Len(f.layers))
  /\ d \notin {"dpi", "dns", "done"} => k + (IF d = "inner" THEN 1 ELSE 0) = Len(q.tunnel)

(* Clear headers are read one by one to the last.                          *)
Reported == Clear(frame) => Stage(frame, decoder, at, type, depth, parsed)

OInv == PInv /\ Reported

ClearAt == OInv /\ Clear(frame) /\ at \in 1 .. Len(frame.layers)

StageNext == Stage(frame, decoder', at', type', depth', parsed')

LEMMA OInvHas ==
  ASSUME OInv
  PROVE  /\ PInv /\ IInv /\ frame \in Frames /\ Len(frame.layers) \in Nat
         /\ depth \in Nat /\ DOMAIN parsed = DOMAIN Unparsed
         /\ Clear(frame) => Stage(frame, decoder, at, type, depth, parsed)
  BY Held DEF OInv, PInv, Reported, DTypes, Sound

---------------------------------------------------------------------------
(* What remains after the last header, with whatever name.                 *)
LEMMA ReturnStage ==
  ASSUME OInv, NEW q, DOMAIN q = DOMAIN Unparsed, NEW name, ReturnNamed(q, name),
         Report(frame, q, Len(frame.layers), Len(frame.layers))
  PROVE  StageNext
<1>1. Alike([q EXCEPT !.protocol = name], q) /\ Alike(q, q)
  BY DEF Alike, Agrees, Unparsed
<1>2. Alike(parsed', q)
  BY <1>1 DEF ReturnNamed
<1>3. Report(frame, parsed', Len(frame.layers), Len(frame.layers))
  BY <1>2, ReportAlike
<1>4. decoder' = "dpi"
  BY DEF ReturnNamed
<1> QED
  BY <1>3, <1>4 DEF StageNext, Stage

(* The packet after link, tunnel and inner Ethernet headers.               *)
LEMMA ToNetwork ==
  ASSUME ClearAt, NEW t, NEW q, Report(frame, q, at, at), Carried(frame, q, at),
         decoder' = "network", at' = at + 1, type' = t, parsed' = q,
         depth' = Len(q.tunnel),
         Here.kind \notin IpVersions \union {"V6Ext"},
         at < Len(frame.layers) =>
           frame.layers[at + 1].kind = t /\ t \in LinkKinds
  PROVE  StageNext
<1>1. frame \in Frames /\ Len(frame.layers) \in Nat
  BY OInvHas DEF ClearAt
<1>2. at \in 1 .. Len(frame.layers) /\ (at + 1) - 1 = at
  BY DEF ClearAt
<1>3. Announced(frame, at + 1, t, LinkKinds)
  BY <1>1, <1>2 DEF Announced
<1>4. Report(frame, q, at, NamedTo(frame, at + 1))
  <2>1. CASE at + 1 <= Len(frame.layers) /\ frame.layers[at + 1].kind \in IpVersions
    <3>1. TunnelName(frame, at + 1) = None
      BY <1>2, <2>1, NamedKinds DEF Here
    <3>2. Report(frame, q, at, at + 1)
      BY <1>1, <1>2, <2>1, <3>1, NoTunnel
    <3> QED
      BY <2>1, <3>2 DEF NamedTo
  <2>2. CASE ~(at + 1 <= Len(frame.layers) /\ frame.layers[at + 1].kind \in IpVersions)
    BY <1>2, <2>2 DEF NamedTo
  <2> QED
    BY <2>1, <2>2
<1>5. Len(q.tunnel) \in Nat
  <2>1. NamesTo(frame, at) \in Seq(TunnelNames)
    BY <1>1, <1>2, NamesAre
  <2> QED
    BY <2>1 DEF Report
<1> QED
  BY <1>2, <1>3, <1>4, <1>5 DEF StageNext, Stage

(* What follows an IP header or an extension of it.                        *)
LEMMA ToTransport ==
  ASSUME ClearAt, NEW d \in {"extension", "transport"}, NEW t, NEW q, Report(frame, q, at, at),
         decoder' = d, at' = at + 1, type' = t, parsed' = q,
         depth' = Len(q.tunnel),
         Here.kind \in IpVersions \union {"V6Ext"},
         at < Len(frame.layers) =>
           /\ frame.layers[at + 1].kind = t
           /\ t \in IpKinds \union (IF d = "extension" THEN {"V6Ext"} ELSE {})
  PROVE  StageNext
<1>1. frame \in Frames /\ Len(frame.layers) \in Nat
  BY OInvHas DEF ClearAt
<1>2. at \in 1 .. Len(frame.layers) /\ (at + 1) - 1 = at
  BY DEF ClearAt
<1>3. Announced(frame, at + 1, t, IpKinds \union (IF d = "extension" THEN {"V6Ext"} ELSE {}))
  BY <1>1, <1>2 DEF Announced
<1>4. AfterIp(frame, at + 1)
  BY <1>2 DEF AfterIp, Here
<1>5. Len(q.tunnel) \in Nat
  <2>1. NamesTo(frame, at) \in Seq(TunnelNames)
    BY <1>1, <1>2, NamesAre
  <2> QED
    BY <2>1 DEF Report
<1>6. d = "transport" => Announced(frame, at + 1, t, IpKinds)
  BY <1>3 DEF Announced
<1>7. d = "extension" => Announced(frame, at + 1, t, IpKinds \union {"V6Ext"})
  BY <1>3 DEF Announced
<1>8. CASE d = "extension"
  BY <1>2, <1>4, <1>5, <1>7, <1>8 DEF StageNext, Stage
<1>9. CASE d = "transport"
  BY <1>2, <1>4, <1>5, <1>6, <1>9 DEF StageNext, Stage
<1> QED
  BY <1>8, <1>9

(* A header that is neither a tunnel nor a host.                           *)
LEMMA PlainHeader ==
  ASSUME ClearAt, NEW q, Report(frame, q, at - 1, at - 1),
         Here.kind \notin IpVersions \union {"ARP", "MPLS", "PPPoE", "GRE", "VXLAN", "GENEVE"}
  PROVE  Report(frame, q, at, at) /\ HostsTo(frame, at) = HostsTo(frame, at - 1)
<1>1. frame \in Frames /\ at \in 1 .. Len(frame.layers)
  BY OInvHas DEF ClearAt
<1>2. TunnelName(frame, at) = None
  BY NamedKinds DEF Here
<1>3. at \notin Endpoints(frame)
  BY DEF Endpoints, Here
<1>4. Report(frame, q, at - 1, at)
  BY <1>1, <1>2, NoTunnel
<1> QED
  BY <1>1, <1>3, <1>4, NoHost

(* A header that is a tunnel's.                                            *)
LEMMA TunnelHeader ==
  ASSUME ClearAt, Report(frame, parsed, at - 1, at - 1), Len(parsed.tunnel) \in Nat,
         NEW name \in {"MPLS", "PPPoE", "GRE", "VXLAN", "GENEVE"}, Here.kind = name
  PROVE  LET q == PushTunnel(parsed, name) IN
         /\ Report(frame, q, at, at) /\ Carried(frame, q, at)
         /\ DOMAIN q = DOMAIN Unparsed
         /\ Len(q.tunnel) = Len(parsed.tunnel) + 1
<1> DEFINE q == PushTunnel(parsed, name)
<1>1. frame \in Frames /\ at \in 1 .. Len(frame.layers) /\ DOMAIN parsed = DOMAIN Unparsed
      /\ Clear(frame)
  BY OInvHas DEF ClearAt
<1>2. TunnelName(frame, at) = name /\ TunnelName(frame, at) # None
  BY NamedKinds DEF Here
<1>3. at \notin Endpoints(frame)
  BY DEF Endpoints, Here, IpVersions
<1>4. Carrying(frame, at - 1)
  BY <1>1, HostsCarry
<1>5. Report(frame, q, at - 1, at) /\ Carried(frame, q, at - 1)
  BY <1>1, <1>2, <1>4, ReportPush
<1>6. DOMAIN q = DOMAIN Unparsed
  BY <1>1 DEF PushTunnel
<1>7. Len(q.tunnel) = Len(parsed.tunnel) + 1
  <2>1. IInv /\ name \in TunnelNames
    BY OInvHas DEF ClearAt, TunnelNames
  <2> QED
    BY <2>1, Held, PushSound
<1> HIDE DEF q
<1>8. Report(frame, q, at, at) /\ HostsTo(frame, at) = HostsTo(frame, at - 1)
  BY <1>1, <1>3, <1>5, NoHost
<1>9. Carried(frame, q, at)
  BY <1>5, <1>8 DEF Carried
<1> QED
  BY <1>6, <1>7, <1>8, <1>9 DEF q

LEMMA SniffedIs ==
  ASSUME ClearAt, Running, at < Len(frame.layers), frame.layers[at + 1].kind \in IpVersions,
         NEW pos \in Nat, pos <= offset + Here.len
  PROVE  Sniffed(at + 1, pos) = frame.layers[at + 1].kind
<1>1. frame \in Frames /\ at \in 1 .. Len(frame.layers) /\ Len(frame.layers) \in Nat
      /\ Clear(frame) /\ PInv
  BY OInvHas DEF ClearAt
<1>2. at + 1 \in 1 .. Len(frame.layers)
  BY <1>1
<1>3. Formed(frame.layers[at + 1])
      /\ (frame.layers[at + 1].kind = "IPv4" => frame.layers[at + 1].len >= 20)
  BY <1>1, <1>2, ClearHeader
<1>4. frame.layers[at + 1].len \in Nat /\ frame.layers[at + 1].len > 0
  BY <1>3 DEF Formed, IpVersions
<1>5. /\ end \in Nat /\ offset \in Nat /\ Here.len \in Nat /\ DataStart(frame) <= end
      /\ offset + Here.len + frame.layers[at + 1].len <= DataStart(frame)
  BY <1>1, Whole
<1>6. DataStart(frame) \in Nat
  BY <1>1, StartsGrow
<1>7. pos < end
  BY <1>4, <1>5, <1>6
<1> QED
  BY <1>1, <1>2, <1>7 DEF Sniffed

LEMMA AtLink ==
  ASSUME OInv, Clear(frame), decoder = "link"
  PROVE  /\ ClearAt /\ Running /\ at = 1
         /\ Here.kind = IF frame.link = "Ethernet" THEN "Ethernet" ELSE "link"
         /\ Report(frame, parsed, at, at) /\ HostsTo(frame, at) = {}
         /\ 1 < Len(frame.layers) => frame.layers[2].kind \in LinkKinds
<1>1. frame \in Frames /\ Len(frame.layers) \in Nat \ {0}
  BY OInvHas, FramesAssumption
<1>2. at = 1 /\ Report(frame, parsed, 0, 0)
  BY OInvHas DEF Stage
<1>3. ClearAt /\ Running /\ 1 \in 1 .. Len(frame.layers)
  BY <1>1, <1>2 DEF ClearAt, Running
<1>4. Here.kind = IF frame.link = "Ethernet" THEN "Ethernet" ELSE "link"
  BY <1>1, <1>2, FramesAssumption DEF Here
<1>5. Here.kind \notin IpVersions \union {"ARP", "MPLS", "PPPoE", "GRE", "VXLAN", "GENEVE"}
  BY <1>4 DEF IpVersions
<1>6. Report(frame, parsed, at - 1, at - 1) /\ HostsTo(frame, at - 1) = {}
  BY <1>1, <1>2, HeadersTo
<1>7. Report(frame, parsed, at, at) /\ HostsTo(frame, at) = {}
  BY <1>3, <1>5, <1>6, PlainHeader
<1>8. 1 < Len(frame.layers) => frame.layers[2].kind \in LinkKinds
  BY <1>1, <1>2, <1>3, <1>4, ClearHeader, ReadAfterIs DEF Here, LinkKinds
<1> QED
  BY <1>2, <1>3, <1>4, <1>7, <1>8

LEMMA LinkNextIs ==
  ASSUME OInv, Clear(frame), decoder = "link", 1 < Len(frame.layers)
  PROVE  LinkNext \in Decoded
<1>1. /\ ClearAt /\ Running /\ at = 1
      /\ Here.kind = IF frame.link = "Ethernet" THEN "Ethernet" ELSE "link"
      /\ frame.layers[2].kind \in LinkKinds
  BY AtLink
<1>2. frame \in Frames /\ Len(frame.layers) \in Nat /\ 1 \in 1 .. Len(frame.layers)
  BY OInvHas
<1>3. LinkKinds \subseteq Decoded /\ IpVersions \subseteq Decoded
  BY DEF LinkKinds, Decoded
<1>4. CASE frame.link \in {"Ethernet", "LinuxSLL", "LinuxSLL2"}
  <2>1. ~Unspoken(frame, 1)
    BY <1>1, <1>4 DEF Unspoken, Here
  <2>2. Here.kind \notin {"UDP", "VXLAN"}
    BY <1>1
  <2>3. frame.layers[1].next = frame.layers[2].kind
    BY <1>1, <1>2, <1>3, <2>1, <2>2, Spoken DEF Here
  <2>4. LinkNext = Here.next
    BY <1>4 DEF LinkNext, IpVersions
  <2> QED
    BY <1>1, <1>3, <2>3, <2>4 DEF Here
<1>5. ASSUME NEW pos \in Nat, pos <= offset + Here.len,
             frame.link \notin {"Ethernet", "LinuxSLL", "LinuxSLL2"}
      PROVE  Sniffed(2, pos) \in Decoded
  <2>1. Unspoken(frame, 1)
    BY <1>1, <1>5 DEF Unspoken, Here
  <2>2. frame.layers[2].kind \in IpVersions
    BY <1>2, <2>1, ClearHeader
  <2>3. Sniffed(at + 1, pos) = frame.layers[at + 1].kind
    BY <1>1, <1>5, <2>2, SniffedIs
  <2> QED
    BY <1>1, <1>3, <2>2, <2>3
<1>6. Here.len \in Nat /\ offset \in Nat
  BY <1>1, Whole DEF ClearAt, OInv
<1>7. CASE frame.link \in {"NullLoopback", "Loop"}
  <2>1. LinkNext = IF Here.next \in IpVersions THEN Here.next ELSE Sniffed(2, Here.len)
    BY <1>7 DEF LinkNext, IpVersions
  <2>2. Sniffed(2, Here.len) \in Decoded
    BY <1>5, <1>6, <1>7
  <2> QED
    BY <1>3, <2>1, <2>2
<1>8. CASE frame.link = "RawIP"
  <2>1. LinkNext = Sniffed(2, 0)
    BY <1>8 DEF LinkNext, IpVersions
  <2> QED
    BY <1>5, <1>6, <1>8, <2>1
<1>9. CASE frame.link \in IpVersions
  <2>1. LinkNext = frame.link
    BY <1>9 DEF LinkNext, IpVersions
  <2> QED
    BY <1>3, <1>9, <2>1
<1>10. frame.link \in LinkTypes \ {"Unsupported"}
  BY <1>2, FramesAssumption DEF Clear
<1> QED
  BY <1>4, <1>7, <1>8, <1>9, <1>10 DEF LinkTypes, IpVersions

LEMMA LinkStage ==
  ASSUME OInv, Clear(frame), LinkFails \/ LinkLayer
  PROVE  StageNext
<1>1. /\ ClearAt /\ Running /\ at = 1
      /\ Here.kind = IF frame.link = "Ethernet" THEN "Ethernet" ELSE "link"
      /\ Report(frame, parsed, at, at) /\ HostsTo(frame, at) = {}
      /\ 1 < Len(frame.layers) => frame.layers[2].kind \in LinkKinds
  BY AtLink DEF LinkFails, LinkLayer
<1>2. frame \in Frames /\ Len(frame.layers) \in Nat \ {0} /\ DOMAIN parsed = DOMAIN Unparsed
      /\ depth = Len(parsed.tunnel)
  <2>1. depth + 0 = Len(parsed.tunnel) /\ depth \in Nat
    BY OInvHas DEF Stage, LinkFails, LinkLayer
  <2> QED
    BY <2>1, OInvHas, FramesAssumption
<1>3. 1 < Len(frame.layers) => LinkNext \in Decoded
  BY LinkNextIs DEF LinkFails, LinkLayer
<1>4. CASE LinkFails
  <2>1. /\ Here.len \in Nat /\ offset \in Nat /\ offset + Here.len <= DataStart(frame)
        /\ DataStart(frame) \in Nat /\ size \in Nat
    BY <1>1, <1>2, Whole, StartsGrow, Held DEF ClearAt, OInv, PInv
  <2>2. size > 0 /\ size >= DataStart(frame)
    BY DEF Clear
  <2>3. LinkNext = None
    <3>1. size = 0 \/ size < Here.len \/ LinkNext = None
      BY <1>4 DEF LinkFails
    <3>2. size # 0 /\ ~(size < Here.len)
      BY <2>1, <2>2
    <3> QED
      BY <3>1, <3>2
  <2>4. at = Len(frame.layers)
    <3>1. None \notin Decoded
      BY NoneAssumption
    <3>2. ~(1 < Len(frame.layers))
      BY <1>3, <2>3, <3>1
    <3>3. Len(frame.layers) \in Nat /\ 1 <= Len(frame.layers)
      BY OInvHas, FramesAssumption
    <3>4. Len(frame.layers) <= 1
      BY <3>2, <3>3
    <3>5. at \in Nat /\ at <= Len(frame.layers) /\ Len(frame.layers) <= at
      BY <1>1, <3>3, <3>4
    <3> QED
      BY <3>3, <3>5
  <2>5. PICK v : parsed' = [parsed EXCEPT !.protocol = v]
    BY <1>4 DEF LinkFails
  <2>6. Alike(parsed', parsed)
    BY <1>2, <2>5 DEF Alike, Agrees, Unparsed
  <2>7. Report(frame, parsed', Len(frame.layers), Len(frame.layers))
    BY <1>1, <2>4, <2>6, ReportAlike
  <2>8. decoder' = "done"
    BY <1>4 DEF LinkFails
  <2> QED
    BY <2>7, <2>8 DEF StageNext, Stage
<1>5. CASE LinkLayer
  <2>1. /\ decoder' = "network" /\ at' = at + 1 /\ type' = LinkNext /\ parsed' = parsed
        /\ depth' = depth
    BY <1>5 DEF LinkLayer, Proceed
  <2>2. ASSUME at < Len(frame.layers)
        PROVE  frame.layers[at + 1].kind = LinkNext /\ LinkNext \in LinkKinds
    <3>1. LinkNext \in Decoded
      BY <1>1, <1>3, <2>2
    <3>2. IInv'
      BY <1>5, OInvHas, LinkKeeps
    <3>3. (type \in Decoded)' => On(type)'
      BY <2>1, <3>2 DEF IInv, Finds
    <3>4. frame' = frame
      BY <1>5 DEF LinkLayer, Proceed, given
    <3>5. frame.layers[at + 1].kind = LinkNext
      BY <2>1, <3>1, <3>3, <3>4 DEF On
    <3> QED
      BY <1>1, <2>2, <3>5
  <2>3. Carried(frame, parsed, at)
    BY <1>1 DEF Carried
  <2>4. Here.kind \notin IpVersions \union {"V6Ext"}
    BY <1>1 DEF IpVersions
  <2> QED
    BY <1>1, <1>2, <2>1, <2>2, <2>3, <2>4, ToNetwork
<1> QED
  BY <1>4, <1>5

(* A header that the network decoders read.                                *)
LEMMA AtNetwork ==
  ASSUME OInv, Clear(frame), NEW t \in LinkKinds, decoder = "network", type = t
  PROVE  /\ ClearAt /\ Running /\ Here.kind = t
         /\ Report(frame, parsed, at - 1, NamedTo(frame, at)) /\ Carried(frame, parsed, at - 1)
         /\ depth = Len(parsed.tunnel)
<1>1. t \in Decoded \ {"UDP"}
  BY DEF LinkKinds, Decoded, IpVersions
<1>2. On(t)
  BY <1>1, OInvHas DEF IInv, Finds
<1>3. /\ Report(frame, parsed, at - 1, NamedTo(frame, at)) /\ Carried(frame, parsed, at - 1)
      /\ depth + 0 = Len(parsed.tunnel) /\ depth \in Nat
  BY OInvHas DEF Stage
<1> QED
  BY <1>2, <1>3 DEF ClearAt, On, Here, Running

(* The decoders go on from a header to the one that it announces.          *)
LEMMA NextKind ==
  ASSUME ClearAt, at < Len(frame.layers), Here.kind \notin {"UDP", "VXLAN"}
  PROVE  LET kind == frame.layers[at + 1].kind IN
         /\ kind \in ReadAfter(Here.kind)
         /\ Here.kind \notin {"MPLS", "link"} /\ kind \in Decoded => Here.next = kind
         /\ Here.kind \notin {"MPLS", "link"} /\ kind = "Ethernet" => Here.next = "TEB"
<1>1. frame \in Frames /\ Clear(frame) /\ at \in 1 .. Len(frame.layers)
  BY OInvHas DEF ClearAt
<1>2. Here.kind \notin {"MPLS", "link"} => ~Unspoken(frame, at)
  BY DEF Unspoken, Here
<1> QED
  BY <1>1, <1>2, ClearHeader, Spoken DEF Here

LEMMA TooDeepNever ==
  ASSUME OInv, Clear(frame), decoder = "network"
  PROVE  depth <= MaxTunnelDepth
<1>1. frame \in Frames /\ Len(frame.layers) \in Nat /\ depth \in Nat
  BY OInvHas
<1>2. /\ Announced(frame, at, type, LinkKinds) /\ parsed.tunnel = NamesTo(frame, NamedTo(frame, at))
      /\ depth + 0 = Len(parsed.tunnel)
  BY OInvHas DEF Stage, Report
<1>3. NamedTo(frame, at) \in 0 .. Len(frame.layers)
      /\ Len(frame.layers) \in NamedTo(frame, at) .. Len(frame.layers)
  BY <1>1, <1>2 DEF NamedTo, Announced
<1>4. /\ Len(NamesTo(frame, NamedTo(frame, at))) \in Nat
      /\ Len(NamesTo(frame, Len(frame.layers))) \in Nat
      /\ Len(NamesTo(frame, NamedTo(frame, at))) <= Len(NamesTo(frame, Len(frame.layers)))
  BY <1>1, <1>3, NamesGrow
<1>5. Len(NamesTo(frame, Len(frame.layers))) <= MaxTunnelDepth
  BY DEF Clear
<1> QED
  BY <1>1, <1>2, <1>4, <1>5, DepthAssumption

LEMMA TunnelStage ==
  ASSUME OInv, Clear(frame), TooDeep \/ Mpls \/ Pppoe
  PROVE  StageNext
<1>1. CASE TooDeep
  <2>1. depth \in Nat /\ depth <= MaxTunnelDepth /\ MaxTunnelDepth \in Nat
    BY <1>1, OInvHas, TooDeepNever, DepthAssumption DEF TooDeep
  <2> QED
    BY <1>1, <2>1 DEF TooDeep
<1>2. ASSUME NEW t \in {"MPLS", "PPPoE"}, Network(t)
      PROVE  LET q == PushTunnel(parsed, t) IN
             /\ ClearAt /\ Running /\ Here.kind = t
             /\ at < Len(frame.layers) /\ frame.layers[at + 1].kind \in IpVersions
             /\ Report(frame, q, at, at) /\ Carried(frame, q, at)
             /\ depth + 1 = Len(q.tunnel)
             /\ Here.len \in Nat /\ Fits(Here.len) /\ offset + Here.len \in Nat
  <2> DEFINE q == PushTunnel(parsed, t)
  <2>1. t \in LinkKinds /\ decoder = "network" /\ type = t
    BY <1>2 DEF LinkKinds, Network
  <2>2. /\ ClearAt /\ Running /\ Here.kind = t
        /\ Report(frame, parsed, at - 1, NamedTo(frame, at)) /\ depth = Len(parsed.tunnel)
    BY <2>1, AtNetwork
  <2>3. /\ frame \in Frames /\ at \in 1 .. Len(frame.layers) /\ depth \in Nat
        /\ Len(frame.layers) \in Nat
    BY <2>2, OInvHas DEF ClearAt
  <2>4. NamedTo(frame, at) = at - 1
    BY <2>2 DEF NamedTo, Here, IpVersions
  <2>5. Report(frame, parsed, at - 1, at - 1)
    BY <2>2, <2>4
  <2>6. /\ Report(frame, q, at, at) /\ Carried(frame, q, at)
        /\ Len(q.tunnel) = Len(parsed.tunnel) + 1
    <3>1. t \in {"MPLS", "PPPoE", "GRE", "VXLAN", "GENEVE"} /\ Len(parsed.tunnel) \in Nat
      BY <2>2, <2>3
    <3> QED
      BY <2>2, <2>5, <3>1, TunnelHeader
  <2>7. at < Len(frame.layers) /\ frame.layers[at + 1].kind \in IpVersions
    <3>1. at < Len(frame.layers)
      BY <2>2, <2>3, ClearHeader DEF Here
    <3>2. frame.layers[at + 1].kind \in ReadAfter(t)
      BY <2>2, <3>1, NextKind
    <3> QED
      BY <3>1, <3>2, ReadAfterIs
  <2>8. Here.len \in Nat /\ Fits(Here.len) /\ offset + Here.len \in Nat
    BY <2>2, <2>3, Whole DEF OInv
  <2> HIDE DEF q
  <2>9. depth + 1 = Len(q.tunnel)
    BY <2>2, <2>6
  <2> QED
    BY <2>2, <2>6, <2>7, <2>8, <2>9 DEF q
<1>3. ASSUME NEW t \in {"MPLS", "PPPoE"}, Network(t), NEW u, NEW n, NEW name,
             u = frame.layers[at + 1].kind, Descend(PushTunnel(parsed, t), u, n, name)
      PROVE  StageNext
  <2> DEFINE q == PushTunnel(parsed, t)
  <2>1. /\ ClearAt /\ Here.kind = t
        /\ frame.layers[at + 1].kind \in IpVersions
        /\ Report(frame, q, at, at) /\ Carried(frame, q, at) /\ depth + 1 = Len(q.tunnel)
    BY <1>2, <1>3
  <2>2. /\ decoder' = "network" /\ at' = at + 1 /\ type' = u /\ parsed' = q /\ depth' = depth + 1
    BY <1>3 DEF Descend
  <2>3. Here.kind \notin IpVersions \union {"V6Ext"} /\ u \in LinkKinds
    BY <1>3, <2>1 DEF IpVersions, LinkKinds
  <2> HIDE DEF q
  <2> QED
    BY <1>3, <2>1, <2>2, <2>3, ToNetwork
<1>4. CASE Mpls
  <2>1. Network("MPLS")
    BY <1>4 DEF Mpls
  <2>2. /\ ClearAt /\ Running /\ Here.kind = "MPLS"
        /\ at < Len(frame.layers) /\ frame.layers[at + 1].kind \in IpVersions
        /\ Here.len \in Nat /\ Fits(Here.len) /\ offset + Here.len \in Nat
    BY <1>2, <2>1
  <2>3. Here.len <= 32
    BY <2>2, OInvHas, ClearHeader DEF ClearAt, Here
  <2>4. Sniffed(at + 1, offset + Here.len) = frame.layers[at + 1].kind
    BY <2>2, SniffedIs
  <2>5. frame.layers[at + 1].kind # None
    BY <2>2, NoneAssumption DEF Decoded
  <2>6. Descend(PushTunnel(parsed, "MPLS"), frame.layers[at + 1].kind, Here.len, "MPLS")
    BY <1>4, <2>2, <2>3, <2>4, <2>5 DEF Mpls
  <2> QED
    BY <1>3, <2>1, <2>6
<1>5. CASE Pppoe
  <2>1. Network("PPPoE")
    BY <1>5 DEF Pppoe
  <2>2. /\ ClearAt /\ Here.kind = "PPPoE"
        /\ at < Len(frame.layers) /\ frame.layers[at + 1].kind \in IpVersions
        /\ Fits(Here.len)
    BY <1>2, <2>1
  <2>3. Here.next = frame.layers[at + 1].kind
    <3>1. frame.layers[at + 1].kind \in Decoded
      BY <2>2 DEF Decoded
    <3> QED
      BY <2>2, <3>1, NextKind
  <2>4. Descend(PushTunnel(parsed, "PPPoE"), Here.next, Here.len, "PPPoE")
    BY <1>5, <2>2, <2>3 DEF Pppoe
  <2> QED
    BY <1>3, <2>1, <2>3, <2>4
<1> QED
  BY <1>1, <1>4, <1>5

LEMMA AddressedReport ==
  ASSUME ClearAt, Here.kind \in IpVersions,
         Report(frame, parsed, at - 1, NamedTo(frame, at)), Carried(frame, parsed, at - 1),
         depth = Len(parsed.tunnel)
  PROVE  Report(frame, Addressed, at, at) /\ depth = Len(Addressed.tunnel)
<1>1. frame \in Frames /\ at \in 1 .. Len(frame.layers) /\ DOMAIN parsed = DOMAIN Unparsed
      /\ Len(frame.layers) \in Nat
  BY OInvHas DEF ClearAt
<1>2. NamedTo(frame, at) = at
  BY <1>1 DEF NamedTo, Here
<1>3. at \in Endpoints(frame)
  BY <1>1, HeadersTo DEF Endpoints, Here
<1>4. /\ Addressed.tunnel = parsed.tunnel
      /\ Addressed.outerSrc = parsed.outerSrc /\ Addressed.outerDst = parsed.outerDst
      /\ Addressed.src = frame.layers[at].src /\ Addressed.dst = frame.layers[at].dst
  BY <1>1 DEF Addressed, Here, Unparsed
<1>5. at \in 0 .. at
  BY <1>1
<1>6. Report(frame, parsed, at - 1, at)
  BY <1>2
<1>7. Report(frame, Addressed, at, at)
  BY <1>1, <1>3, <1>4, <1>5, <1>6, ReportHost
<1> QED
  BY <1>4, <1>7

LEMMA IpStage ==
  ASSUME OInv, Clear(frame), IPv4Refused \/ IPv4 \/ IPv6
  PROVE  StageNext
<1>1. ASSUME NEW t \in IpVersions, Network(t)
      PROVE  /\ ClearAt /\ Running /\ Here.kind = t /\ Formed(Here) /\ Here.plain
             /\ Report(frame, Addressed, at, at) /\ depth = Len(Addressed.tunnel)
             /\ Here.len \in Nat /\ Fits(Here.len)
             /\ t = "IPv4" => Here.len >= 20 /\ Here.total >= Here.len
  <2>1. t \in LinkKinds /\ decoder = "network" /\ type = t
    BY <1>1 DEF LinkKinds, Network
  <2>2. /\ ClearAt /\ Running /\ Here.kind = t
        /\ Report(frame, parsed, at - 1, NamedTo(frame, at)) /\ Carried(frame, parsed, at - 1)
        /\ depth = Len(parsed.tunnel)
    BY <2>1, AtNetwork
  <2>3. Report(frame, Addressed, at, at) /\ depth = Len(Addressed.tunnel)
    BY <2>2, AddressedReport
  <2>4. /\ frame \in Frames /\ at \in 1 .. Len(frame.layers)
    BY <2>2, OInvHas DEF ClearAt
  <2>5. /\ Formed(Here) /\ Here.plain
        /\ t = "IPv4" => Here.len >= 20 /\ Here.total >= Here.len
    BY <2>2, <2>4, ClearHeader DEF Here, Declares
  <2>6. Here.len \in Nat /\ Fits(Here.len)
    BY <2>2, <2>4, Whole DEF OInv
  <2> QED
    BY <2>2, <2>3, <2>5, <2>6
<1>2. ASSUME NEW t \in IpVersions, Network(t), NEW n, NEW e,
             NEW d \in {"extension", "transport"}, d = IF t = "IPv4" THEN "transport" ELSE "extension",
             Proceed(Addressed, d, Here.next, n, e)
      PROVE  StageNext
  <2>1. /\ ClearAt /\ Here.kind = t
        /\ Report(frame, Addressed, at, at) /\ depth = Len(Addressed.tunnel)
    BY <1>1, <1>2
  <2>2. /\ decoder' = d /\ at' = at + 1 /\ type' = Here.next /\ parsed' = Addressed
        /\ depth' = Len(Addressed.tunnel)
    BY <1>2, <2>1 DEF Proceed
  <2>3. ASSUME at < Len(frame.layers)
        PROVE  /\ frame.layers[at + 1].kind = Here.next
               /\ Here.next \in IpKinds \union (IF d = "extension" THEN {"V6Ext"} ELSE {})
    <3>1. frame.layers[at + 1].kind \in ReadAfter(t)
      BY <2>1, <2>3, NextKind, <1>2 DEF IpVersions
    <3>2. ReadAfter(t) = IpKinds \union (IF d = "extension" THEN {"V6Ext"} ELSE {})
      BY <1>2, ReadAfterIs DEF IpKinds, IpVersions
    <3>3. frame.layers[at + 1].kind \in Decoded
      BY <3>1, <3>2 DEF IpKinds, Transports, Decoded
    <3>4. Here.next = frame.layers[at + 1].kind
      BY <1>2, <2>1, <2>3, <3>3, NextKind DEF IpVersions
    <3> QED
      BY <3>1, <3>2, <3>4
  <2> QED
    BY <1>2, <2>1, <2>2, <2>3, ToTransport
<1>3. CASE IPv4Refused
  <2>1. Network("IPv4") /\ "IPv4" \in IpVersions
    BY <1>3 DEF IPv4Refused, IpVersions
  <2>2. Here.len >= 20 /\ Fits(Here.len) /\ Here.total >= Here.len /\ Formed(Here)
    BY <1>1, <2>1
  <2>3. ~(Here.len < 20) /\ ~(Here.total < Here.len)
    BY <2>2 DEF Formed
  <2> QED
    BY <1>3, <2>2, <2>3 DEF IPv4Refused
<1>4. CASE IPv4
  <2>1. Network("IPv4") /\ "IPv4" \in IpVersions
    BY <1>4 DEF IPv4, IpVersions
  <2>2. Proceed(Addressed, "transport", Here.next, Here.len, DeclaredEnd)
    BY <1>1, <1>4, <2>1 DEF IPv4
  <2> QED
    BY <1>2, <2>1, <2>2
<1>5. CASE IPv6
  <2>1. Network("IPv6") /\ "IPv6" \in IpVersions
    BY <1>5 DEF IPv6, IpVersions
  <2>2. Proceed(Addressed, "extension", Here.next, Here.len, DeclaredEnd)
    BY <1>1, <1>5, <2>1 DEF IPv6
  <2> QED
    BY <1>2, <2>1, <2>2
<1> QED
  BY <1>3, <1>4, <1>5

LEMMA ExtensionStage ==
  ASSUME OInv, Clear(frame), Extension
  PROVE  StageNext
<1>1. /\ decoder = "extension"
      /\ Announced(frame, at, type, IpKinds \union {"V6Ext"}) /\ AfterIp(frame, at)
      /\ Report(frame, parsed, at - 1, at - 1)
      /\ depth + 0 = Len(parsed.tunnel) /\ depth \in Nat
  BY OInvHas DEF Extension, Stage
<1>2. CASE type = "V6Ext"
  <2>1. On("V6Ext")
    BY <1>1, <1>2, OInvHas DEF IInv, Finds, Decoded
  <2>2. ClearAt /\ Running /\ Here.kind = "V6Ext"
    BY <1>1, <2>1 DEF On, ClearAt, Running, Here
  <2>3. Fits(Here.len)
    BY <2>2, Whole DEF ClearAt, OInv
  <2>4. Proceed(parsed, "extension", Here.next, Here.len, end)
    BY <1>2, <2>3 DEF Extension
  <2>5. /\ decoder' = "extension" /\ at' = at + 1 /\ type' = Here.next /\ parsed' = parsed
        /\ depth' = Len(parsed.tunnel)
    BY <1>1, <2>4 DEF Proceed
  <2>6. Report(frame, parsed, at, at)
    BY <1>1, <2>2, PlainHeader DEF IpVersions
  <2>7. ASSUME at < Len(frame.layers)
        PROVE  frame.layers[at + 1].kind = Here.next /\ Here.next \in IpKinds \union {"V6Ext"}
    <3>1. frame.layers[at + 1].kind \in ReadAfter("V6Ext")
      BY <2>2, <2>7, NextKind
    <3>2. ReadAfter("V6Ext") = IpKinds \union {"V6Ext"}
      BY ReadAfterIs DEF IpKinds
    <3>3. frame.layers[at + 1].kind \in Decoded
      BY <3>1, <3>2 DEF IpKinds, Transports, Decoded
    <3>4. Here.next = frame.layers[at + 1].kind
      BY <2>2, <2>7, <3>3, NextKind
    <3> QED
      BY <3>1, <3>2, <3>4
  <2> QED
    BY <2>2, <2>5, <2>6, <2>7, ToTransport
<1>3. CASE type # "V6Ext"
  <2>1. /\ decoder' = "transport" /\ at' = at /\ type' = type /\ parsed' = parsed /\ depth' = depth
    BY <1>3 DEF Extension, position
  <2>2. Announced(frame, at, type, IpKinds)
    BY <1>1, <1>3 DEF Announced
  <2> QED
    BY <1>1, <2>1, <2>2 DEF StageNext, Stage
<1> QED
  BY <1>2, <1>3

---------------------------------------------------------------------------
LEMMA NothingAnnounced ==
  ASSUME OInv, NEW kinds, Announced(frame, at, type, kinds), type \notin kinds
  PROVE  at - 1 = Len(frame.layers) /\ NamedTo(frame, at) = at - 1
<1>1. Len(frame.layers) \in Nat
  BY OInvHas
<1> QED
  BY <1>1 DEF Announced, NamedTo

LEMMA ArpStage ==
  ASSUME OInv, Clear(frame), Arp \/ OtherEtherType
  PROVE  StageNext
<1>1. CASE Arp
  <2>1. "ARP" \in LinkKinds /\ decoder = "network" /\ type = "ARP"
    BY <1>1 DEF LinkKinds, Arp, Network
  <2>2. /\ ClearAt /\ Running /\ Here.kind = "ARP"
        /\ Report(frame, parsed, at - 1, NamedTo(frame, at)) /\ Carried(frame, parsed, at - 1)
    BY <2>1, AtNetwork
  <2>3. /\ frame \in Frames /\ at \in 1 .. Len(frame.layers) /\ Len(frame.layers) \in Nat
        /\ DOMAIN parsed = DOMAIN Unparsed
    BY <2>2, OInvHas DEF ClearAt
  <2>4. NamedTo(frame, at) = at - 1
    BY <2>2 DEF NamedTo, Here, IpVersions
  <2>5. at = Len(frame.layers)
    <3>1. ~(at < Len(frame.layers))
      BY <2>2, NextKind, ReadAfterIs
    <3> QED
      BY <2>3, <3>1
  <2>6. Here.plain /\ Fits(8) /\ Fits(Here.len)
    <3>1. Here.plain /\ Here.len >= 8
      BY <2>2, <2>3, ClearHeader DEF Here, Formed
    <3>2. Fits(Here.len) /\ Here.len \in Nat /\ offset \in Nat /\ end \in Nat
      BY <2>2, <2>3, Whole DEF OInv
    <3> QED
      BY <3>1, <3>2 DEF Fits
  <2> DEFINE arp == [parsed EXCEPT !.protocol = "ARP", !.service = "ARP"]
             q == [arp EXCEPT !.src = Here.src, !.dst = Here.dst]
  <2>7. Return(q)
    BY <1>1, <2>6 DEF Arp
  <2>8. /\ q.tunnel = parsed.tunnel /\ q.outerSrc = parsed.outerSrc /\ q.outerDst = parsed.outerDst
        /\ q.src = frame.layers[at].src /\ q.dst = frame.layers[at].dst
        /\ DOMAIN q = DOMAIN Unparsed
    BY <2>3 DEF Here, Unparsed
  <2> HIDE DEF q
  <2>9. at \in Endpoints(frame) /\ at - 1 \in 0 .. at
    BY <2>2, <2>3, HeadersTo DEF Endpoints, Here
  <2>10. Report(frame, q, at, at - 1)
    BY <2>2, <2>3, <2>4, <2>8, <2>9, ReportHost
  <2>11. TunnelName(frame, at) = None
    BY <2>2, NamedKinds DEF Here, IpVersions
  <2>12. Report(frame, q, at, at)
    BY <2>3, <2>10, <2>11, NoTunnel
  <2> QED
    BY <2>5, <2>7, <2>8, <2>12, ReturnStage DEF Return
<1>2. CASE OtherEtherType
  <2>1. /\ Announced(frame, at, type, LinkKinds)
        /\ Report(frame, parsed, at - 1, NamedTo(frame, at)) /\ type \notin LinkKinds
    BY <1>2, OInvHas DEF Stage, OtherEtherType, LinkKinds
  <2>2. at - 1 = Len(frame.layers) /\ NamedTo(frame, at) = at - 1
    BY <2>1, NothingAnnounced
  <2> DEFINE q == [parsed EXCEPT !.protocol = type]
  <2>3. DOMAIN q = DOMAIN Unparsed /\ Alike(q, parsed)
    BY OInvHas DEF Alike, Agrees, Unparsed
  <2>4. Return(q)
    BY <1>2 DEF OtherEtherType
  <2> HIDE DEF q
  <2>5. Report(frame, q, Len(frame.layers), Len(frame.layers))
    BY <2>1, <2>2, <2>3, ReportAlike
  <2> QED
    BY <2>3, <2>4, <2>5, ReturnStage DEF Return
<1> QED
  BY <1>1, <1>2

LEMMA AtTransport ==
  ASSUME OInv, Clear(frame), NEW t \in IpKinds, Transport(t)
  PROVE  /\ ClearAt /\ Running /\ Here.kind = t /\ AfterIp(frame, at)
         /\ Report(frame, parsed, at - 1, at - 1)
         /\ depth = Len(parsed.tunnel)
<1>1. t \in Decoded
  BY DEF IpKinds, Transports, Decoded
<1>2. On(t)
  BY <1>1, OInvHas DEF IInv, Finds, Transport
<1>3. /\ AfterIp(frame, at) /\ Report(frame, parsed, at - 1, at - 1)
      /\ depth + 0 = Len(parsed.tunnel) /\ depth \in Nat
  BY OInvHas DEF Stage, Transport
<1> QED
  BY <1>2, <1>3 DEF ClearAt, On, Here, Running, Transport

(* The last of the headers that are read.                                  *)
LEMMA LeafReport ==
  ASSUME ClearAt, Here.kind \in {"TCP", "ICMP", "ICMPv6"},
         Report(frame, parsed, at - 1, at - 1)
  PROVE  Report(frame, parsed, Len(frame.layers), Len(frame.layers))
<1>1. at \in 1 .. Len(frame.layers) /\ Len(frame.layers) \in Nat
  BY OInvHas DEF ClearAt
<1>2. ~(at < Len(frame.layers))
  BY NextKind, ReadAfterIs
<1>3. at = Len(frame.layers)
  BY <1>1, <1>2
<1>4. Report(frame, parsed, at, at)
  BY PlainHeader DEF IpVersions
<1> QED
  BY <1>3, <1>4

LEMMA PayloadShows ==
  ASSUME NEW q, DOMAIN q = DOMAIN Unparsed, NEW from, NEW to
  PROVE  /\ Shows(Ports(q), q) /\ DOMAIN Ports(q) = DOMAIN Unparsed
         /\ Shows(Located(q, from, to), q) /\ DOMAIN Located(q, from, to) = DOMAIN Unparsed
  BY DEF Shows, Ports, Located, Unparsed

LEMMA ShowsAgain ==
  ASSUME NEW q, NEW r, NEW s, Shows(q, r), Shows(r, s)
  PROVE  Shows(q, s)
  BY DEF Shows

LEMMA LeafStage ==
  ASSUME OInv, Clear(frame), Tcp \/ Icmp \/ OtherTransport
  PROVE  StageNext
<1>1. DOMAIN parsed = DOMAIN Unparsed
  BY OInvHas
<1>2. ASSUME NEW q, Return(q), Shows(q, parsed), DOMAIN q = DOMAIN Unparsed,
             Report(frame, parsed, Len(frame.layers), Len(frame.layers))
      PROVE  StageNext
  BY <1>2, ReportShows, ReturnStage DEF Return
<1>3. CASE Tcp
  <2> DEFINE q == [parsed EXCEPT !.protocol = "TCP"]
             r == Located(Ports(q), offset + Here.len, end)
  <2>1. Shows(q, parsed) /\ DOMAIN q = DOMAIN Unparsed
    BY <1>1 DEF Shows, Unparsed
  <2>2. Return(q) \/ Return(Ports(q)) \/ Return(r)
    BY <1>3 DEF Tcp
  <2> HIDE DEF q
  <2>3. Shows(Ports(q), parsed) /\ DOMAIN Ports(q) = DOMAIN Unparsed
    BY <2>1, PayloadShows, ShowsAgain
  <2>4. Shows(r, parsed) /\ DOMAIN r = DOMAIN Unparsed
    BY <2>3, PayloadShows, ShowsAgain
  <2>5. Transport("TCP") /\ "TCP" \in IpKinds
    BY <1>3 DEF Tcp, IpKinds, Transports
  <2>6. Report(frame, parsed, Len(frame.layers), Len(frame.layers))
    BY <2>5, AtTransport, LeafReport
  <2> HIDE DEF r
  <2> QED
    BY <1>2, <2>1, <2>2, <2>3, <2>4, <2>6
<1>4. CASE Icmp
  <2> DEFINE q == [parsed EXCEPT !.protocol = type, !.service = IF Fits(2) THEN type ELSE @]
  <2>1. Shows(q, parsed) /\ DOMAIN q = DOMAIN Unparsed
    BY <1>1 DEF Shows, Unparsed
  <2>2. Return(q)
    BY <1>4 DEF Icmp
  <2> HIDE DEF q
  <2>3. Transport(type) /\ type \in {"ICMP", "ICMPv6"} /\ type \in IpKinds
    BY <1>4 DEF Icmp, Transport, IpKinds, Transports
  <2>4. Report(frame, parsed, Len(frame.layers), Len(frame.layers))
    BY <2>3, AtTransport, LeafReport
  <2> QED
    BY <1>2, <2>1, <2>2, <2>4
<1>5. CASE OtherTransport
  <2>1. /\ Announced(frame, at, type, IpKinds) /\ Report(frame, parsed, at - 1, at - 1)
        /\ type \notin IpKinds
    BY <1>5, OInvHas DEF OtherTransport, Stage, IpKinds, Transports
  <2>2. Report(frame, parsed, Len(frame.layers), Len(frame.layers))
    BY <2>1, NothingAnnounced
  <2>3. \E q : Return(q) /\ Shows(q, parsed) /\ DOMAIN q = DOMAIN Unparsed
    <3> DEFINE q == [parsed EXCEPT !.protocol = type, !.service = "IPsec (encrypted)",
                                   !.encrypted = TRUE]
               r == [parsed EXCEPT !.protocol = type]
    <3>1. Return(q) \/ Return(r)
      BY <1>5 DEF OtherTransport
    <3>2. /\ Shows(q, parsed) /\ DOMAIN q = DOMAIN Unparsed
          /\ Shows(r, parsed) /\ DOMAIN r = DOMAIN Unparsed
      BY <1>1 DEF Shows, Unparsed
    <3> HIDE DEF q, r
    <3> QED
      BY <3>1, <3>2
  <2> QED
    BY <1>2, <2>2, <2>3
<1> QED
  BY <1>3, <1>4, <1>5

---------------------------------------------------------------------------
LEMMA RoomBefore ==
  ASSUME ClearAt, Report(frame, parsed, at - 1, at - 1), depth = Len(parsed.tunnel),
         NEW t \in at .. Len(frame.layers), TunnelName(frame, t) # None
  PROVE  depth < MaxTunnelDepth
<1>1. frame \in Frames /\ at \in 1 .. Len(frame.layers) /\ Len(frame.layers) \in Nat
      /\ Clear(frame) /\ depth \in Nat
  BY OInvHas DEF ClearAt
<1>2. t \in 1 .. Len(frame.layers) /\ at - 1 \in 0 .. t - 1
  BY <1>1
<1>3. /\ Len(NamesTo(frame, Len(frame.layers))) \in Nat
      /\ Len(NamesTo(frame, at - 1)) < Len(NamesTo(frame, Len(frame.layers)))
  BY <1>1, <1>2, Room
<1>4. Len(NamesTo(frame, Len(frame.layers))) <= MaxTunnelDepth
  BY <1>1 DEF Clear
<1>5. parsed.tunnel = NamesTo(frame, at - 1)
  BY DEF Report
<1> QED
  BY <1>1, <1>3, <1>4, <1>5, DepthAssumption

LEMMA IpInIpStage ==
  ASSUME OInv, Clear(frame), IpInIp
  PROVE  StageNext
<1>1. Transport(type) /\ type \in IpVersions /\ type \in IpKinds /\ type \in LinkKinds
  BY DEF IpInIp, Transport, IpKinds, LinkKinds
<1>2. /\ ClearAt /\ Here.kind = type /\ AfterIp(frame, at)
      /\ Report(frame, parsed, at - 1, at - 1) /\ depth = Len(parsed.tunnel)
  BY <1>1, AtTransport
<1>3. /\ frame \in Frames /\ at \in 1 .. Len(frame.layers) /\ Len(frame.layers) \in Nat
      /\ DOMAIN parsed = DOMAIN Unparsed /\ depth \in Nat /\ MaxTunnelDepth \in Nat
  BY <1>2, OInvHas, DepthAssumption DEF ClearAt
<1>4. at \in 2 .. Len(frame.layers) + 1
  BY <1>1, OInvHas DEF Stage, Transport, Announced
<1> DEFINE name == IF type = "IPv4" THEN "IP-in-IP" ELSE "6in4"
           q == PushTunnel(parsed, name)
<1>5. TunnelName(frame, at) = name /\ TunnelName(frame, at) # None
  <2>1. at # 1
    BY <1>4
  <2> QED
    BY <1>1, <1>2, <2>1, NamedKinds DEF Here, AfterIp
<1>6. depth < MaxTunnelDepth
  <2>1. at \in at .. Len(frame.layers)
    BY <1>3
  <2> QED
    BY <1>2, <1>5, <2>1, RoomBefore
<1>7. Carrying(frame, at - 1)
  BY <1>3, HostsCarry
<1>8. Report(frame, q, at - 1, at) /\ Carried(frame, q, at - 1)
  <2>1. LET r == PushTunnel(parsed, TunnelName(frame, at)) IN
        Report(frame, r, at - 1, at) /\ Carried(frame, r, at - 1)
    BY <1>2, <1>3, <1>5, <1>7, ReportPush
  <2> QED
    BY <1>5, <2>1
<1>9. Len(q.tunnel) = Len(parsed.tunnel) + 1
  <2>1. IInv /\ name \in TunnelNames
    BY OInvHas DEF TunnelNames
  <2> HIDE DEF name
  <2> QED
    BY <2>1, Held, PushSound
<1>10. /\ parsed' = q /\ decoder' = "network" /\ depth' = depth + 1 /\ at' = at /\ type' = type
  <2>1. ~(depth >= MaxTunnelDepth)
    BY <1>3, <1>6
  <2> QED
    BY <2>1 DEF IpInIp
<1> HIDE DEF q, name
<1>11. NamedTo(frame, at) = at
  BY <1>1, <1>2, <1>3 DEF NamedTo, Here
<1>12. Announced(frame, at, type, LinkKinds)
  BY <1>1, <1>2, <1>4 DEF Announced, Here
<1>13. depth + 1 \in Nat /\ depth + 1 = Len(q.tunnel)
  BY <1>2, <1>3, <1>9
<1> QED
  BY <1>8, <1>10, <1>11, <1>12, <1>13 DEF StageNext, Stage

(* What GRE and GENEVE carry.                                              *)
LEMMA CarriesStage ==
  ASSUME ClearAt, NEW name \in {"GRE", "GENEVE"}, Here.kind = name, NEW back,
         Report(frame, parsed, at - 1, at - 1), depth = Len(parsed.tunnel), Carries(name, back)
  PROVE  StageNext
<1> DEFINE q == PushTunnel(parsed, name)
<1>1. /\ frame \in Frames /\ at \in 1 .. Len(frame.layers) /\ Len(frame.layers) \in Nat
      /\ DOMAIN parsed = DOMAIN Unparsed /\ depth \in Nat /\ OInv
  BY OInvHas DEF ClearAt
<1>2. /\ Report(frame, q, at, at) /\ Carried(frame, q, at) /\ DOMAIN q = DOMAIN Unparsed
      /\ Len(q.tunnel) = Len(parsed.tunnel) + 1
  BY <1>1, TunnelHeader
<1>3. ASSUME at < Len(frame.layers)
      PROVE  \/ Here.next = "TEB"
             \/ Here.next \in IpVersions /\ frame.layers[at + 1].kind = Here.next
  <2>1. frame.layers[at + 1].kind \in IpVersions \union {"Ethernet"}
    BY <1>3, NextKind, ReadAfterIs
  <2>2. IpVersions \subseteq Decoded
    BY DEF Decoded
  <2>3. Here.kind \notin {"UDP", "VXLAN", "MPLS", "link"}
    OBVIOUS
  <2> QED
    BY <1>3, <2>1, <2>2, <2>3, NextKind
<1>4. Here.next = "TEB" => Here.next \notin IpVersions
  BY DEF IpVersions
<1>5. \/ /\ Here.next = "TEB" /\ parsed' = q /\ decoder' = "inner" /\ at' = at + 1
         /\ depth' = depth
      \/ Here.next \in IpVersions /\ Descend(q, Here.next, Here.len, back)
      \/ Here.next # "TEB" /\ Here.next \notin IpVersions /\ ReturnNamed(q, back)
  BY <1>4 DEF Carries
<1> HIDE DEF q
<1>6. CASE /\ Here.next = "TEB" /\ parsed' = q /\ decoder' = "inner" /\ at' = at + 1
           /\ depth' = depth
  <2>1. depth + 1 = Len(q.tunnel) /\ (at + 1) - 1 = at
    BY <1>1, <1>2
  <2> QED
    BY <1>2, <1>6, <2>1 DEF StageNext, Stage
<1>7. CASE Here.next \in IpVersions /\ Descend(q, Here.next, Here.len, back)
  <2>1. /\ decoder' = "network" /\ at' = at + 1 /\ type' = Here.next /\ parsed' = q
        /\ depth' = Len(q.tunnel)
    BY <1>1, <1>2, <1>7 DEF Descend
  <2>2. at < Len(frame.layers) =>
          frame.layers[at + 1].kind = Here.next /\ Here.next \in LinkKinds
    BY <1>3, <1>4, <1>7 DEF LinkKinds
  <2>3. Here.kind \notin IpVersions \union {"V6Ext"}
    BY DEF IpVersions
  <2> QED
    BY <1>2, <2>1, <2>2, <2>3, ToNetwork
<1>8. CASE Here.next # "TEB" /\ Here.next \notin IpVersions /\ ReturnNamed(q, back)
  <2>1. ~(at < Len(frame.layers))
    BY <1>3, <1>8
  <2>2. at = Len(frame.layers)
    BY <1>1, <2>1
  <2> QED
    BY <1>1, <1>2, <1>8, <2>2, ReturnStage
<1> QED
  BY <1>5, <1>6, <1>7, <1>8

LEMMA GreStage ==
  ASSUME OInv, Clear(frame), Gre
  PROVE  StageNext
<1>1. Transport("GRE") /\ "GRE" \in IpKinds
  BY DEF Gre, IpKinds, Transports
<1>2. /\ ClearAt /\ Running /\ Here.kind = "GRE"
      /\ Report(frame, parsed, at - 1, at - 1) /\ depth = Len(parsed.tunnel)
  BY <1>1, AtTransport
<1>3. /\ frame \in Frames /\ at \in 1 .. Len(frame.layers) /\ Len(frame.layers) \in Nat
      /\ depth \in Nat /\ MaxTunnelDepth \in Nat
  BY <1>2, OInvHas, DepthAssumption DEF ClearAt
<1>4. depth < MaxTunnelDepth
  <2>1. TunnelName(frame, at) # None /\ at \in at .. Len(frame.layers)
    BY <1>2, <1>3, NamedKinds DEF Here
  <2> QED
    BY <1>2, <2>1, RoomBefore
<1>5. Here.plain /\ Fits(Here.len)
  BY <1>2, <1>3, ClearHeader, Whole DEF Here, OInv
<1>6. Carries("GRE", "GRE")
  <2>1. ~(depth >= MaxTunnelDepth)
    BY <1>3, <1>4
  <2> QED
    BY <1>4, <1>5, <2>1 DEF Gre
<1> QED
  BY <1>2, <1>6, CarriesStage

LEMMA UdpStage ==
  ASSUME OInv, Clear(frame), Udp
  PROVE  StageNext
<1>1. Transport("UDP") /\ "UDP" \in IpKinds
  BY DEF Udp, IpKinds, Transports
<1>2. /\ ClearAt /\ Running /\ Here.kind = "UDP"
      /\ Report(frame, parsed, at - 1, at - 1) /\ depth = Len(parsed.tunnel)
  BY <1>1, AtTransport
<1>3. /\ frame \in Frames /\ at \in 1 .. Len(frame.layers) /\ Len(frame.layers) \in Nat
      /\ depth \in Nat /\ MaxTunnelDepth \in Nat /\ DOMAIN parsed = DOMAIN Unparsed
  BY <1>2, OInvHas, DepthAssumption DEF ClearAt
<1>4. /\ Here.len = 8 /\ Here.total \in Nat
      /\ Declares(Here) => Start(frame, at) + Here.total >= DataStart(frame)
  BY <1>2, <1>3, ClearHeader DEF Here, Formed
<1>5. /\ end \in Nat /\ offset \in Nat /\ offset = Start(frame, at)
      /\ DataStart(frame) <= end /\ Fits(8) /\ DataStart(frame) \in Nat
      /\ at < Len(frame.layers) =>
           /\ frame.layers[at + 1].len \in Nat
           /\ offset + 8 + frame.layers[at + 1].len <= DataStart(frame)
  BY <1>2, <1>3, <1>4, Whole, StartsGrow DEF OInv
<1>6. UdpEnd \in Nat /\ DataStart(frame) <= UdpEnd
  <2>1. Here.total >= 8 => Declares(Here)
    BY <1>2, <1>4 DEF Declares
  <2>2. Here.total >= 8 => DeclaredEnd \in Nat /\ DataStart(frame) <= DeclaredEnd
    BY <1>4, <1>5, <2>1 DEF DeclaredEnd, Lesser
  <2> QED
    BY <1>5, <2>2 DEF UdpEnd
<1> DEFINE p == [parsed EXCEPT !.protocol = "UDP"]
           q == Located(Ports(p), offset + 8, UdpEnd)
<1>7. \/ Return(q) /\ (offset + 8 >= UdpEnd \/ UdpTunnel = None)
      \/ UdpTunnel # None /\ Proceed(q, UdpTunnel, "frame", 8, UdpEnd)
  BY <1>5 DEF Udp
<1>8. Shows(q, parsed) /\ DOMAIN q = DOMAIN Unparsed
  <2>1. Shows(p, parsed) /\ DOMAIN p = DOMAIN Unparsed
    BY <1>3 DEF Shows, Unparsed
  <2> HIDE DEF p
  <2>2. Shows(Ports(p), parsed) /\ DOMAIN Ports(p) = DOMAIN Unparsed
    BY <2>1, PayloadShows, ShowsAgain
  <2> QED
    BY <2>2, PayloadShows, ShowsAgain
<1> HIDE DEF p, q
<1>9. Report(frame, q, at, at) /\ depth = Len(q.tunnel)
  <2>1. Report(frame, parsed, at, at)
    BY <1>2, PlainHeader DEF IpVersions
  <2> QED
    BY <1>2, <1>8, <2>1, ReportShows DEF Shows
<1>10. CASE UdpTunnel # None /\ Proceed(q, UdpTunnel, "frame", 8, UdpEnd)
  <2>1. UdpTunnel \in {"VXLAN", "GENEVE"}
    BY <1>10 DEF UdpTunnel
  <2>2. /\ decoder' \in {"VXLAN", "GENEVE"} /\ at' = at + 1 /\ parsed' = q /\ depth' = depth
        /\ (at + 1) - 1 = at
    BY <1>3, <1>10, <2>1 DEF Proceed
  <2>3. depth + 0 = Len(q.tunnel)
    BY <1>3, <1>9
  <2>4. Report(frame, parsed', at' - 1, at' - 1) /\ depth' + 0 = Len((parsed').tunnel)
    BY <1>9, <2>2, <2>3
  <2> QED
    BY <2>2, <2>4 DEF StageNext, Stage
<1>11. CASE Return(q) /\ (offset + 8 >= UdpEnd \/ UdpTunnel = None)
  <2>1. ASSUME at < Len(frame.layers) PROVE FALSE
    <3>1. at + 1 \in 1 .. Len(frame.layers)
      BY <1>3, <2>1
    <3>2. /\ frame.layers[at + 1].kind \in {"VXLAN", "GENEVE"}
          /\ frame.layers[at + 1].kind = Promised(Here)
      <4>1. frame.layers[at + 1].kind \in ReadAfter("UDP")
        BY <1>2, <1>3, <2>1, ClearHeader DEF ClearAt, Here
      <4>2. ~Unspoken(frame, at)
        BY <1>2 DEF Unspoken, Here
      <4>3. frame.layers[at + 1].kind = Promised(Here)
        BY <1>2, <1>3, <2>1, <4>2, ClearHeader DEF ClearAt, Here
      <4> QED
        BY <4>1, <4>3, ReadAfterIs
    <3>3. depth < MaxTunnelDepth
      <4>1. TunnelName(frame, at + 1) # None /\ at + 1 \in at .. Len(frame.layers)
        BY <1>3, <3>1, <3>2, NamedKinds
      <4> QED
        BY <1>2, <4>1, RoomBefore
    <3>4. UdpTunnel = Promised(Here) /\ UdpTunnel # None
      <4>1. ~(depth >= MaxTunnelDepth)
        BY <1>3, <3>3
      <4>2. "VXLAN" # None /\ "GENEVE" # None
        BY NoneAssumption
      <4>3. Promised(Here) = IF 4789 \in {Here.src, Here.dst} THEN "VXLAN"
                             ELSE IF 6081 \in {Here.src, Here.dst} THEN "GENEVE" ELSE None
        BY <1>2 DEF Promised
      <4> QED
        BY <3>2, <4>1, <4>2, <4>3 DEF UdpTunnel
    <3>5. frame.layers[at + 1].len >= 8
      <4>1. Formed(frame.layers[at + 1])
        BY <1>2, <1>3, <3>1, ClearHeader DEF ClearAt
      <4> QED
        BY <3>2, <4>1 DEF Formed
    <3>6. ~(offset + 8 >= UdpEnd)
      BY <1>5, <1>6, <2>1, <3>5
    <3> QED
      BY <1>11, <3>4, <3>6
  <2>2. at = Len(frame.layers)
    BY <1>3, <2>1
  <2> QED
    BY <1>8, <1>9, <1>11, <2>2, ReturnStage DEF Return
<1> QED
  BY <1>7, <1>10, <1>11

LEMMA UdpBorneStage ==
  ASSUME OInv, Clear(frame), Vxlan \/ Geneve \/ InnerEthernet
  PROVE  StageNext
<1>1. ASSUME NEW kind \in {"VXLAN", "GENEVE", "Ethernet"}, On(kind), Running
      PROVE  /\ ClearAt /\ Here.kind = kind /\ Here.plain /\ Fits(Here.len)
             /\ Here.len \in Nat /\ (kind = "VXLAN" => Here.len = 8)
             /\ at \in 1 .. Len(frame.layers) /\ Len(frame.layers) \in Nat
  <2>1. /\ ClearAt /\ Here.kind = kind /\ at \in 1 .. Len(frame.layers)
        /\ frame \in Frames /\ Len(frame.layers) \in Nat
    BY <1>1, OInvHas DEF On, ClearAt, Here
  <2>2. Here.plain /\ Formed(Here)
    BY <2>1, ClearHeader DEF Here
  <2>3. Here.len \in Nat /\ (kind = "VXLAN" => Here.len = 8)
    BY <2>1, <2>2 DEF Formed
  <2>4. Fits(Here.len)
    BY <1>1, <2>1, Whole DEF OInv
  <2> QED
    BY <2>1, <2>2, <2>3, <2>4
<1>2. CASE Vxlan
  <2>1. /\ On("VXLAN") /\ Running /\ Report(frame, parsed, at - 1, at - 1)
        /\ depth + 0 = Len(parsed.tunnel) /\ depth \in Nat
    BY <1>2, OInvHas DEF Vxlan, IInv, Finds, Running, Stage
  <2>2. /\ ClearAt /\ Here.kind = "VXLAN" /\ Here.plain /\ Fits(8)
        /\ at \in 1 .. Len(frame.layers)
    BY <1>1, <2>1
  <2> DEFINE q == PushTunnel(parsed, "VXLAN")
  <2>3. Report(frame, q, at, at) /\ Carried(frame, q, at) /\ Len(q.tunnel) = Len(parsed.tunnel) + 1
    BY <2>1, <2>2, TunnelHeader
  <2>4. decoder' = "inner" /\ at' = at + 1 /\ parsed' = q /\ depth' = depth /\ (at + 1) - 1 = at
    BY <1>2, <2>2 DEF Vxlan, Proceed
  <2> HIDE DEF q
  <2>5. depth + 1 = Len(q.tunnel)
    BY <2>1, <2>3
  <2> QED
    BY <2>3, <2>4, <2>5 DEF StageNext, Stage
<1>3. CASE Geneve
  <2>1. /\ On("GENEVE") /\ Running /\ Report(frame, parsed, at - 1, at - 1)
        /\ depth + 0 = Len(parsed.tunnel) /\ depth \in Nat
    BY <1>3, OInvHas DEF Geneve, IInv, Finds, Running, Stage
  <2>2. ClearAt /\ Here.kind = "GENEVE" /\ Here.plain /\ Fits(Here.len)
    BY <1>1, <2>1
  <2>3. Carries("GENEVE", fallback)
    BY <1>3, <2>2 DEF Geneve
  <2> QED
    BY <2>1, <2>2, <2>3, CarriesStage
<1>4. CASE InnerEthernet
  <2>1. /\ On("Ethernet") /\ Running /\ Report(frame, parsed, at - 1, at - 1)
        /\ Carried(frame, parsed, at - 1)
        /\ depth + 1 = Len(parsed.tunnel) /\ depth \in Nat
    BY <1>4, OInvHas DEF InnerEthernet, IInv, Finds, Running, Stage
  <2>2. ClearAt /\ Here.kind = "Ethernet" /\ Fits(Here.len)
    BY <1>1, <2>1
  <2>3. Report(frame, parsed, at, at) /\ HostsTo(frame, at) = HostsTo(frame, at - 1)
    BY <2>1, <2>2, PlainHeader DEF IpVersions
  <2>4. Carried(frame, parsed, at)
    BY <2>1, <2>3 DEF Carried
  <2>5. Descend(parsed, Here.next, Here.len, fallback)
    BY <1>4, <2>2 DEF InnerEthernet
  <2>6. /\ decoder' = "network" /\ at' = at + 1 /\ type' = Here.next /\ parsed' = parsed
        /\ depth' = Len(parsed.tunnel)
    BY <2>1, <2>5 DEF Descend
  <2>7. ASSUME at < Len(frame.layers)
        PROVE  frame.layers[at + 1].kind = Here.next /\ Here.next \in LinkKinds
    <3>1. frame.layers[at + 1].kind \in LinkKinds
      BY <2>2, <2>7, NextKind, ReadAfterIs DEF LinkKinds
    <3>2. LinkKinds \subseteq Decoded
      BY DEF LinkKinds, Decoded
    <3> QED
      BY <2>2, <2>7, <3>1, <3>2, NextKind
  <2>8. Here.kind \notin IpVersions \union {"V6Ext"}
    BY <2>2 DEF IpVersions
  <2> QED
    BY <2>2, <2>3, <2>4, <2>6, <2>7, <2>8, ToNetwork
<1> QED
  BY <1>2, <1>3, <1>4

---------------------------------------------------------------------------
LEMMA DecodeStage ==
  ASSUME OInv, Clear(frame), Decode
  PROVE  StageNext
  BY LinkStage, TunnelStage, IpStage, ExtensionStage, ArpStage, LeafStage, UdpStage,
     IpInIpStage, GreStage, UdpBorneStage DEF Decode

LEMMA OInitially == PInit => OInv
<1> SUFFICES ASSUME PInit PROVE OInv
  OBVIOUS
<1>1. PInv
  BY PInitially
<1>2. /\ frame \in Frames /\ decoder = "link" /\ at = 1 /\ depth = 0 /\ parsed = Unparsed
  BY DEF PInit, DInit
<1>3. Report(frame, parsed, 0, 0)
  BY <1>2, ReportStarts
<1>4. Len(parsed.tunnel) = 0
  BY <1>2 DEF Unparsed
<1>5. Stage(frame, decoder, at, type, depth, parsed)
  BY <1>2, <1>3, <1>4 DEF Stage
<1> QED
  BY <1>1, <1>5 DEF OInv, Reported

LEMMA OInductive == OInv /\ [PNext]_pvars => OInv'
<1> SUFFICES ASSUME OInv, [PNext]_pvars PROVE OInv'
  OBVIOUS
<1>1. PInv /\ PInv' /\ IInv
  BY OInvHas, PInductive
<1>2. ASSUME frame' = frame, size' = size, Clear(frame) => StageNext PROVE OInv'
  <2>1. Clear(frame)' => Clear(frame)
    BY <1>2 DEF Clear
  <2>2. Reported'
    BY <1>2, <2>1 DEF Reported, StageNext
  <2> QED
    BY <1>1, <2>2 DEF OInv
<1>3. CASE Decode
  <2>1. frame' = frame /\ size' = size
    BY <1>1, <1>3, DecodeMoves DEF Stops, Stays, Passes, given, PInv
  <2> QED
    BY <1>2, <1>3, <2>1, DecodeStage
<1>4. CASE DpiTcp \/ DpiUdp \/ DpiNone \/ ParseResponse \/ Returned
  <2>1. /\ Alike(parsed', parsed) /\ decoder' \in {"dns", "done"}
        /\ frame' = frame /\ size' = size
    BY <1>1, <1>4, AnalysisIsAlike DEF given
  <2>2. decoder \in {"dpi", "dns", "done"}
    BY <1>4 DEF DpiTcp, DpiUdp, DpiNone, ParseResponse, Returned
  <2>3. ASSUME Clear(frame) PROVE StageNext
    <3>1. Report(frame, parsed, Len(frame.layers), Len(frame.layers))
      BY <2>2, <2>3, OInvHas DEF Stage
    <3>2. Report(frame, parsed', Len(frame.layers), Len(frame.layers))
      BY <2>1, <3>1, ReportAlike
    <3> QED
      BY <2>1, <3>2 DEF StageNext, Stage
  <2> QED
    BY <1>2, <2>1, <2>3
<1>5. CASE UNCHANGED pvars
  <2>1. /\ frame' = frame /\ size' = size /\ decoder' = decoder /\ at' = at /\ type' = type
        /\ depth' = depth /\ parsed' = parsed
    BY <1>5 DEF pvars, dvars, given, position
  <2>2. Clear(frame) => StageNext
    BY <2>1, OInvHas DEF StageNext
  <2> QED
    BY <1>2, <2>1, <2>2
<1> QED
  BY <1>3, <1>4, <1>5 DEF PNext

(* For every frame whose headers were all captured and are of kinds that   *)
(* are read, and every limit on tunnels that it keeps: the addresses that  *)
(* are reported are those of the packet inside, beside those of the        *)
(* outermost carrier, and the tunnels are named from the outside in.       *)
THEOREM InnermostAlwaysShown == PSpec => []InnermostIsShown
<1>1. OInv => InnermostIsShown
  <2> SUFFICES ASSUME OInv, decoder = "done", Clear(frame)
               PROVE  LET last  == frame.layers[Max(Endpoints(frame))]
                          outer == frame.layers[Min(Endpoints(frame))]
                      IN /\ parsed.tunnel = NamesTo(frame, Len(frame.layers))
                         /\ Endpoints(frame) # {} =>
                              /\ parsed.src = last.src /\ parsed.dst = last.dst
                              /\ IF \E t \in TunnelHeaders(frame) : t > Min(Endpoints(frame))
                                 THEN parsed.outerSrc = outer.src /\ parsed.outerDst = outer.dst
                                 ELSE parsed.outerSrc = None /\ parsed.outerDst = None
    BY DEF InnermostIsShown
  <2>1. frame \in Frames /\ Report(frame, parsed, Len(frame.layers), Len(frame.layers))
    BY OInvHas DEF Stage
  <2> QED
    BY <2>1, ReportOfAll
<1> QED
  BY <1>1, OInitially, OInductive, PTL DEF PSpec
=============================================================================
