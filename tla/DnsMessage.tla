----------------------------- MODULE DnsMessage -----------------------------
(***************************************************************************)
(* Reading a DNS or mDNS response: core::DNSParser::parseMessage and       *)
(* readName (src/core/DNSParser.cpp).  A message is a sequence of bytes;   *)
(* offsets count from 0, as in the code.  What may fail, std::optional,    *)
(* is a set of at most one element.                                        *)
(***************************************************************************)
EXTENDS Octets
LOCAL INSTANCE SequencesExt

CONSTANTS MaxTxtBytes  (* kMaxTxtBytes *)

HeaderLength == 12
RecordFixed  == 10     (* TYPE, CLASS, TTL and RDLENGTH                    *)

IsPointer(b)  == b >= 192
Target(m, c)  == (Octet(m, c) % 64) * 256 + Octet(m, c + 1)

(* No chain that ends has more pointers than the message bytes.            *)
PointerAllowed(m, k) == k < Len(m)

(* readName(): the labels from cursor c on, after k pointers, and where    *)
(* reading goes on: after the first pointer, or the end of the name.       *)
ReadName(m, position) ==
  LET walk[x \in (0 .. Len(m)) \X (0 .. Len(m))] ==
        LET c == x[1]
            k == x[2]
            b == Octet(m, c)
        IN IF c = Len(m) THEN {}
           ELSE IF b = 0 THEN {[labels |-> <<>>, to |-> c + 1]}
           ELSE IF IsPointer(b) THEN
             IF c + 1 < Len(m) /\ PointerAllowed(m, k) /\ Target(m, c) < Len(m)
             THEN {[labels |-> n.labels, to |-> c + 2] : n \in walk[<<Target(m, c), k + 1>>]}
             ELSE {}
           ELSE IF b < 64 /\ c + 1 + b <= Len(m)
           THEN {[labels |-> <<Bytes(m, c + 1, c + 1 + b)>> \o n.labels, to |-> n.to] :
                   n \in walk[<<c + 1 + b, k>>]}
           ELSE {}
  IN IF position > Len(m) THEN {} ELSE walk[<<position, 0>>]

---------------------------------------------------------------------------
(* What a record says is in r, the message up to the record's end.         *)

(* svcbAdvertisesEch(): is there a parameter 5 with a value?               *)
AdvertisesEch(r, position) ==
  LET params[p \in 0 .. Len(r)] ==
        /\ p + 4 <= Len(r)
        /\ p + 4 + U16(r, p + 2) <= Len(r)
        /\ \/ U16(r, p) = 5 /\ U16(r, p + 2) > 0
           \/ params[p + 4 + U16(r, p + 2)]
  IN position <= Len(r) /\ params[position]

(* The character-strings of a TXT record, up to one that does not fit.     *)
Chunks(r, position) ==
  LET from[c \in 0 .. Len(r)] ==
        IF c = Len(r) \/ c + 1 + Octet(r, c) > Len(r) THEN <<>>
        ELSE <<Bytes(r, c + 1, c + 1 + Octet(r, c))>> \o from[c + 1 + Octet(r, c)]
  IN from[position]

Cut(s, n) == SubSeq(s, 1, IF Len(s) < n THEN Len(s) ELSE n)

(* Joined with spaces, and cut at MaxTxtBytes.                             *)
Text(chunks) ==
  LET join(t, c) == IF Len(t) >= MaxTxtBytes THEN t
                    ELSE Cut(IF t = <<>> THEN c ELSE t \o <<32>> \o c, MaxTxtBytes)
  IN FoldLeft(join, <<>>, chunks)

(* Where in a record of a kind, its data at p, there is a name.            *)
NameAt(kind, p) == p + (IF kind = 33 THEN 6 ELSE IF kind \in {64, 65} THEN 2 ELSE 0)

(* What a record of Internet class says, if it says something; most kinds  *)
(* want their name, of which there is one or none, inside the record.      *)
Answer(r, kind, owner, p, names) ==
  LET size       == Len(r) - p
      inside     == {n.labels : n \in {x \in names : x.to <= Len(r)}}
      named      == {n.labels : n \in names} \ {<<>>}
      says(t, v) == [type |-> t, name |-> owner, value |-> v]
  IN CASE kind = 1  -> IF size = 4 THEN {says("A", Bytes(r, p, Len(r)))} ELSE {}
       [] kind = 28 -> IF size = 16 THEN {says("AAAA", Bytes(r, p, Len(r)))} ELSE {}
       [] kind = 5  -> {says("CNAME", n) : n \in inside}
       [] kind = 12 -> {says("PTR", n) : n \in inside \ {<<>>}}
       [] kind = 33 -> IF size < 7 THEN {}
                       ELSE {says("SRV", <<U16(r, p), n, U16(r, p + 4)>>) :
                               n \in inside \ {<<>>}}
       [] kind = 16 -> {says("TXT", t) : t \in {Text(Chunks(r, p))} \ {<<>>}}
       [] kind \in {64, 65} ->
            IF size < 2 THEN {}
            ELSE {says(IF kind = 65 THEN "HTTPS" ELSE "SVCB",
                       <<U16(r, p), n, \E s \in names : AdvertisesEch(r, s.to)>>) :
                    n \in IF named = {} THEN {owner} ELSE named}
       [] OTHER -> {}

(* mDNS has a flag in the top bit of the class.                            *)
IsInternet(class) == class % 32768 = 1

(* The record at p, if it can be read: what it says and where it ends.     *)
RecordAt(m, p) ==
  UNION {
    LET fixed == owner.to
        data  == fixed + RecordFixed
        e     == data + U16(m, fixed + 8)
        kind  == U16(m, fixed)
    IN IF data > Len(m) \/ e > Len(m) THEN {}
       ELSE {[said |-> IF IsInternet(U16(m, fixed + 2))
                       THEN Answer(Bytes(m, 0, e), kind, owner.labels, data,
                                   ReadName(m, NameAt(kind, data)))
                       ELSE {},
              to   |-> e]}
    : owner \in ReadName(m, p)}

---------------------------------------------------------------------------
(* Where the questions end, if they can be skipped.                        *)
AfterQuestions(m) ==
  LET after[n \in 0 .. U16(m, 4)] ==
        IF n = 0 THEN {HeaderLength}
        ELSE {p \in {q.to + 4 : q \in UNION {ReadName(m, p) : p \in after[n - 1]}} :
                p <= Len(m)}
  IN after[U16(m, 4)]

Listed(said) == IF said = {} THEN <<>> ELSE <<CHOOSE a \in said : TRUE>>

(* The answers, from p0 on: none at all if one of them cannot be read.     *)
Answers(m, p0) ==
  LET read[n \in 0 .. U16(m, 6)] ==
        IF n = 0 THEN {[said |-> <<>>, to |-> p0]}
        ELSE UNION {{[said |-> before.said \o Listed(r.said), to |-> r.to] :
                       r \in RecordAt(m, before.to)} : before \in read[n - 1]}
  IN {done.said : done \in read[U16(m, 6)]}

QueryName(m) ==
  IF U16(m, 4) = 0 THEN <<>>
  ELSE (CHOOSE n \in ReadName(m, HeaderLength) : TRUE).labels

(* parseMessage(): what a response asks and answers.                       *)
ParseMessage(m) ==
  IF Len(m) < HeaderLength \/ Octet(m, 2) < 128 THEN {}
  ELSE {[query |-> QueryName(m), answers |-> a] :
          a \in UNION {Answers(m, p) : p \in AfterQuestions(m)}}
=============================================================================
