-------------------------- MODULE ProcessResolver --------------------------
(***************************************************************************)
(* core::ProcessResolver (src/core/ProcessResolver.cpp, its Linux part):   *)
(* which local process owns a packet's endpoint.  The operating system     *)
(* changes its socket and process tables at any time; the resolver copies  *)
(* them when a lookup finds its copy too old, and remembers the name of    *)
(* every process identifier it has met.                                    *)
(***************************************************************************)
EXTENDS Integers

CONSTANTS
  Ports, Pids, ProcNames,
  Local,        (* an address of this host, fixed                          *)
  Wildcards,    (* <<"0.0.0.0", "::">>: sockets bound to every address     *)
  Remote,       (* an address that is not                                  *)
  NoPid, NoName,
  BindableIps,  (* where sockets are bound: of Local and the wildcards     *)
  Packets,      (* the packets looked up                                   *)
  RefreshPeriod,(* 1500 milliseconds, in clock ticks                       *)
  MaxTime,      (* bound: clock ticks in a behaviour                       *)
  MaxChanges    (* bound: processes and sockets that come or go            *)

Transports == {"TCP", "UDP"}
Sides    == [ip : {Local, Remote}, port : Ports]
Bindable == [ip : BindableIps, port : Ports \ {0}, protocol : Transports]

ASSUME ProcAssumption ==
  /\ Ports \subseteq Nat /\ RefreshPeriod \in Nat /\ {MaxTime, MaxChanges} \subseteq Nat
  /\ NoPid \notin Pids /\ NoName \notin ProcNames
  /\ Remote \notin {Local, Wildcards[1], Wildcards[2]}
  /\ Local \notin {Wildcards[1], Wildcards[2]} /\ Wildcards[1] # Wildcards[2]
  /\ Packets \subseteq [protocol : Transports \union {"ICMP"}, src : Sides, dst : Sides]
  /\ BindableIps \subseteq {Local, Wildcards[1], Wildcards[2]}

VARIABLES
  clock,         (* steady_clock                                           *)
  sockets,       (* the system: who has each endpoint                      *)
  procs,         (* the system: the name behind each identifier            *)
  changes,       (* how often it has changed                               *)
  endpointToPid, (* m_endpointToPid                                        *)
  pidToName,     (* m_pidToName                                            *)
  lastRefresh,   (* m_lastRefresh                                          *)
  answer,        (* what the last lookup returned, of which endpoint       *)
  owners,        (* who has had which endpoint in the last refresh period, *)
                 (* and when last: [<<endpoint, pid, name>> -> time]       *)
  named          (* the names each identifier has had: {<<pid, name>>}     *)

system   == <<sockets, procs, changes>>
resolver == <<endpointToPid, pidToName, lastRefresh>>
history  == <<owners, named>>
pvars    == <<clock, system, resolver, answer, history>>

Owned(socks, names) ==
  {<<e, socks[e], names[socks[e]]>> : e \in {x \in Bindable : socks[x] # NoPid}}

(* What is remembered of the owners at time t: those of the last period.   *)
Remembered(socks, names, t) ==
  LET now  == Owned(socks, names)
      kept == {h \in DOMAIN owners : t - owners[h] <= RefreshPeriod}
  IN  [h \in now \union kept |-> IF h \in now THEN t ELSE owners[h]]

Running(names) == {<<p, names[p]>> : p \in {q \in Pids : names[q] # NoName}}

NoAnswer == [name |-> NoName, of |-> NoPid, pid |-> NoPid]

(* What readProcessName() may say of a process: its name, or nothing when  *)
(* it is gone by then.                                                     *)
ReadProcessName(pid) == {procs[pid], NoName}

(* Mutant: endpoints that are no longer in the table stay.                 *)
Refreshed_Merged(old) ==
  [e \in DOMAIN old \union {x \in Bindable : sockets[x] # NoPid} |->
     IF sockets[e] # NoPid THEN sockets[e] ELSE old[e]]

(* refreshTables(): the endpoints and who has them now.                    *)
Refreshed(old) == [e \in {x \in Bindable : sockets[x] # NoPid} |-> sockets[e]]

(* findOrResolvePidName() for every process met: a name once known stays.  *)
NamesKnown(table) ==
  LET met == {table[e] : e \in DOMAIN table}
  IN  {names \in [DOMAIN pidToName \union met -> ProcNames \union {NoName}] :
         \A p \in DOMAIN names :
           IF p \in DOMAIN pidToName THEN names[p] = pidToName[p]
           ELSE names[p] \in ReadProcessName(p)}

(* The constructor copies the tables of a system that is already running.  *)
PInit ==
  /\ clock = 0 /\ changes = 0
  /\ procs \in [Pids -> ProcNames \union {NoName}]
  /\ sockets \in [Bindable -> {NoPid} \union {p \in Pids : procs[p] # NoName}]
  /\ endpointToPid = Refreshed(<<>>)
  /\ pidToName = [p \in {endpointToPid[e] : e \in DOMAIN endpointToPid} |-> procs[p]]
  /\ lastRefresh = 0
  /\ answer = NoAnswer
  /\ owners = [h \in Owned(sockets, procs) |-> 0]
  /\ named = Running(procs)

---------------------------------------------------------------------------
(* The operating system.                                                   *)

SystemStep(socks, names) ==
  /\ changes < MaxChanges /\ changes' = changes + 1
  /\ sockets' = socks /\ procs' = names
  /\ owners' = Remembered(socks, names, clock)
  /\ named' = named \union Running(names)
  /\ UNCHANGED <<clock, resolver, answer>>

Spawn(p, n) ==
  /\ procs[p] = NoName
  /\ SystemStep(sockets, [procs EXCEPT ![p] = n])

Bind(e, p) ==
  /\ procs[p] # NoName /\ sockets[e] = NoPid
  /\ SystemStep([sockets EXCEPT ![e] = p], procs)

Exit(p) ==
  /\ procs[p] # NoName
  /\ SystemStep([e \in Bindable |-> IF sockets[e] = p THEN NoPid ELSE sockets[e]],
                [procs EXCEPT ![p] = NoName])

Tick ==
  /\ clock < MaxTime
  /\ clock' = clock + 1
  /\ owners' = Remembered(sockets, procs, clock + 1)
  /\ UNCHANGED <<system, resolver, answer, named>>

---------------------------------------------------------------------------
(* The sockets that may have an endpoint's packets: one bound to it, or to *)
(* its port, of its protocol, on every address.                            *)
Candidates(e) == <<e, [e EXCEPT !.ip = Wildcards[1]], [e EXCEPT !.ip = Wildcards[2]]>>

(* The entry tryLookup() uses for an endpoint.                             *)
Entry(table, e) ==
  LET found == {i \in 1 .. 3 : Candidates(e)[i] \in DOMAIN table}
  IN  IF found = {} THEN NoPid
      ELSE Candidates(e)[CHOOSE i \in found : \A j \in found : i <= j]

TryLookup(table, names, e) ==
  LET at == Entry(table, e) IN
  IF e.ip # Local \/ at = NoPid THEN NoAnswer
  ELSE IF table[at] \notin DOMAIN names THEN NoAnswer
  ELSE [name |-> names[table[at]], of |-> e, pid |-> table[at]]

Endpoint(pkt, side) == [ip |-> side.ip, port |-> side.port, protocol |-> pkt.protocol]

(* The source if it yields a name, else the destination.                   *)
Resolved(table, names, pkt) ==
  LET src == TryLookup(table, names, Endpoint(pkt, pkt.src))
      dst == TryLookup(table, names, Endpoint(pkt, pkt.dst))
  IN  IF src.name # NoName THEN src ELSE IF dst.name # NoName THEN dst ELSE NoAnswer

TooOld == clock - lastRefresh > RefreshPeriod

Resolvable(pkt) == pkt.protocol \in Transports /\ ~(pkt.src.port = 0 /\ pkt.dst.port = 0)

LookupRefreshing(pkt) ==
  /\ Resolvable(pkt) /\ TooOld
  /\ endpointToPid' = Refreshed(endpointToPid)
  /\ lastRefresh' = clock
  /\ pidToName' \in NamesKnown(Refreshed(endpointToPid))
  /\ answer' = Resolved(endpointToPid', pidToName', pkt)
  /\ UNCHANGED <<clock, system, history>>

LookupCached(pkt) ==
  /\ Resolvable(pkt) /\ ~TooOld
  /\ answer' = Resolved(endpointToPid, pidToName, pkt)
  /\ UNCHANGED <<clock, system, resolver, history>>

LookupNothing(pkt) ==
  /\ ~Resolvable(pkt)
  /\ answer' = NoAnswer
  /\ UNCHANGED <<clock, system, resolver, history>>

PNext ==
  \/ \E p \in Pids, n \in ProcNames : Spawn(p, n)
  \/ \E e \in Bindable, p \in Pids : Bind(e, p)
  \/ \E p \in Pids : Exit(p)
  \/ Tick
  \/ \E pkt \in Packets :
       LookupRefreshing(pkt) \/ LookupCached(pkt) \/ LookupNothing(pkt)

PSpec == PInit /\ [][PNext]_pvars

---------------------------------------------------------------------------
(* The process had a socket that may have the endpoint's packets within    *)
(* the last refresh period.                                                *)
HadEndpoint(h, e) == \E i \in 1 .. 3 : h[1] = Candidates(e)[i]

Reused(pid) == \E a, b \in named : a[1] = pid /\ b[1] = pid /\ a # b

(* A lookup answers only for endpoints of this host, whatever happens      *)
(* between refreshes: the process it found had the very endpoint, or its   *)
(* port on every address, for the packet's protocol and within the last    *)
(* refresh period.  The name is that process's own or, when the system has *)
(* used the identifier again (names once read stay in m_pidToName), one    *)
(* the identifier has had.                                                 *)
OwnerIsRecent ==
  [][answer'.name # NoName /\ answer' # answer =>
       /\ answer'.of.ip = Local
       /\ <<answer'.pid, answer'.name>> \in named
       /\ \E h \in DOMAIN owners :
            /\ HadEndpoint(h, answer'.of) /\ h[2] = answer'.pid
            /\ h[3] = answer'.name \/ Reused(answer'.pid)]_pvars

(* "Returns the executable name (without .exe) that owns the local         *)
(* endpoint of the packet" (ProcessResolver.hpp): the process that had the *)
(* endpoint within the last refresh period had the name a lookup returns.  *)
(* TLC refutes it: a process whose identifier was that of an earlier one   *)
(* gets the earlier one's name.                                            *)
NameIsTheOwners ==
  [][answer'.name # NoName /\ answer' # answer =>
       \E h \in DOMAIN owners :
         HadEndpoint(h, answer'.of) /\ h[2] = answer'.pid /\ h[3] = answer'.name]_pvars
============================================================================
