-------------------------- MODULE AnalysisSession --------------------------
(***************************************************************************)
(* core::AnalysisSession (src/core/AnalysisSession.cpp) over its flow      *)
(* table and its hostname cache: what feed() makes of one packet, in the   *)
(* order in which it does it, and clear().                                 *)
(*                                                                         *)
(* A packet has, beside the fields update() reads, what DNSParser finds in *)
(* it: "dns" (a DNS response), its "answers" that name an address (A and   *)
(* AAAA, or PTR, read backwards) and "ech".  What the TLS and QUIC         *)
(* reassemblers recover from it is a choice: they have their own modules.  *)
(***************************************************************************)
EXTENDS FlowAggregator

CONSTANTS
  Captures,      (* what a capture may consist of: its traffic, the times, *)
                 (* the processes and the recovered names that may occur,  *)
                 (* and a bound on its length                              *)
  ServiceOf,     (* identifyService(): from a name to a service or NoName  *)
  EncryptedDns   (* the service names of DoH, DoT and DoQ                  *)

Answer == [address : Nat, name : Names]

ASSUME SessionAssumption ==
  /\ ServiceOf \in [Names -> Names] /\ EncryptedDns \subseteq Names
  /\ \A p \in Traffic :
       /\ {"dns", "answers", "ech"} \subseteq DOMAIN p
       /\ p.dns \in BOOLEAN /\ p.ech \in BOOLEAN
       /\ p.answers \in Seq(Answer)
       /\ ~p.dns => p.answers = <<>> /\ ~p.ech

ASSUME CapturesAssumption == \A c \in Captures :
  /\ c.traffic \subseteq Traffic /\ c.times \subseteq Times
  /\ c.processes \subseteq Names
  /\ c.recovered \subseteq Names /\ NoName \in c.recovered
  /\ c.length \in Nat

VARIABLES
  capture,       (* which of the Captures this is                          *)
  cache,         (* m_hostnameCache, from addresses to names               *)
  plaintextDns,  (* m_plaintextDnsResponses                                *)
  encryptedDns,  (* m_encryptedDnsPackets                                  *)
  echSeen,       (* m_echAdvertised                                        *)
  result         (* what the last feed() returned: [key, hostname]         *)

counters == <<plaintextDns, encryptedDns, echSeen>>
svars    == <<fvars, capture, cache, counters, result>>

NoResult == [key |-> NoKey, hostname |-> NoName]

SInit ==
  /\ FInit
  /\ capture \in Captures
  /\ cache = <<>>
  /\ plaintextDns = 0 /\ encryptedDns = 0 /\ echSeen = FALSE
  /\ result = NoResult

---------------------------------------------------------------------------
(* HostnameCache::store(), for each of the answers in turn; it ignores     *)
(* empty arguments.                                                        *)
Store(c, as) ==
  [ip \in DOMAIN c \union {as[i].address : i \in Effective(as)} |->
     LET naming == {i \in Effective(as) : as[i].address = ip}
     IN  IF naming = {} THEN c[ip] ELSE as[Highest(naming)].name]

Lookup(c, ip) == IF ip \in DOMAIN c THEN c[ip] ELSE NoName

(* An SNI recovered from earlier packets, for one the parser found none in.*)
Recovered(p, name) ==
  IF name = NoName THEN p
  ELSE [p EXCEPT !.sni = name, !.service = FirstName(<<ServiceOf[name], @>>)]

(* Only a transport payload can complete a handshake.                      *)
MayRecover(p) ==
  IF p.sni = NoName /\ p.payload > 0 /\ p.proto \in {"TCP", "UDP"}
  THEN capture.recovered ELSE {NoName}

BestHostname(p, c) ==
  FirstName(<<p.sni, p.host, Lookup(c, p.dst.ip), Lookup(c, p.src.ip)>>)

AnswerLog(p) ==
  [i \in 1 .. Len(p.answers) |-> [kind |-> "answer", address |-> p.answers[i].address,
                                  name |-> p.answers[i].name]]

PacketLog(p, t) == <<[kind |-> "packet", packet |-> p, time |-> t]>>

(* feed(): each answer goes to the cache and to the flows that already     *)
(* exist; then the packet's own host is chosen and its flow updated.       *)
FeedPacket(raw, t, name, process) ==
  LET p    == Recovered(raw, name)
      host == BestHostname(p, cache')
  IN  /\ Len(log) < capture.length
      /\ cache' = Store(cache, p.answers)
      /\ flows' = AfterUpdate(AfterAnswers(flows, p.answers), p, t, host, process)
      /\ plaintextDns' = plaintextDns + (IF p.dns THEN 1 ELSE 0)
      /\ echSeen' = (echSeen \/ p.ech)
      /\ encryptedDns' = encryptedDns + (IF p.service \in EncryptedDns THEN 1 ELSE 0)
      /\ result' = [key |-> KeyFor(p), hostname |-> host]
      /\ log' = log \o AnswerLog(p) \o PacketLog(p, t)
      /\ sent' = [sent EXCEPT ![Path(p)] = @ + p.length]

(* Mutant: the name cache outlives clear().                                *)
CacheAfterClear_Kept == cache

CacheAfterClear == <<>>

ClearSession ==
  /\ Clear
  /\ cache' = CacheAfterClear
  /\ plaintextDns' = 0 /\ encryptedDns' = 0 /\ echSeen' = FALSE
  /\ result' = NoResult

SNext ==
  /\ \/ \E p \in capture.traffic, t \in capture.times :
          \E process \in capture.processes, name \in MayRecover(p) :
            InWindow(p) /\ FeedPacket(p, t, name, process)
     \/ ClearSession
  /\ UNCHANGED capture

SSpec == SInit /\ [][SNext]_svars

---------------------------------------------------------------------------
(* The DNS summary is of this capture's packets: how many were responses   *)
(* in clear, how many went to an encrypted resolver by the name that was   *)
(* recovered for them if need be, and whether one advertised ECH.          *)
DnsCountersAreExact ==
  /\ plaintextDns = Cardinality({i \in PacketEvents : log[i].packet.dns})
  /\ encryptedDns = Cardinality({i \in PacketEvents :
                                   log[i].packet.service \in EncryptedDns})
  /\ echSeen = \E i \in PacketEvents : log[i].packet.ech

(* Types; the counters are what the log says.                              *)
STypeOK ==
  /\ FTypeOK
  /\ NoAddress \notin DOMAIN cache
  /\ \A ip \in DOMAIN cache : cache[ip] \in Names \ {NoName}
  /\ DnsCountersAreExact

(* No flow is left unnamed while the session knows a name for one of its   *)
(* endpoints, whether the answer came before the flow, after it, or in the *)
(* very packet that created it.                                            *)
KnownPeersAreNamed ==
  \A k \in DOMAIN flows :
    Endpoints(k) \cap DOMAIN cache # {} => flows[k].hostname # NoName

(* The names a capture's packets carried: in SNI, recovered or not, in     *)
(* Host headers, in DNS answers.                                           *)
NamesHeard ==
  (UNION {{log[i].packet.sni, log[i].packet.host} : i \in PacketEvents})
    \union {log[i].name : i \in AnswerEvents}

(* After clear() nothing is named by what was captured before it.          *)
NamesAreFromThisCapture ==
  /\ \A k \in DOMAIN flows : flows[k].hostname \in NamesHeard \union {NoName}
  /\ \A ip \in DOMAIN cache : cache[ip] \in NamesHeard

(* The packet row and the flow row of a packet agree on its host when it   *)
(* is analysed, and no weaker name hides an SNI the packet carries.        *)
RowsAgree ==
  /\ result.key # NoKey /\ result.hostname # NoName =>
       flows[result.key].hostname = result.hostname
  /\ result # NoResult /\ log[Len(log)].packet.sni # NoName =>
       result.hostname = log[Len(log)].packet.sni
============================================================================
