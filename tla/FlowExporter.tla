---------------------------- MODULE FlowExporter ----------------------------
(***************************************************************************)
(* core::FlowExporter (src/core/FlowExporter.cpp): the flows as CSV or     *)
(* JSON text.  Names come off the wire, so that any bytes may be in them.  *)
(*                                                                         *)
(* Text is a sequence of bytes.  Of a flow's fields three stand for all:   *)
(* its hostname, which in CSV the address replaces when there is none; the *)
(* address, which is plain text; and the process, one of the other fields  *)
(* that may hold anything.  Numbers, JSON keys and blanks are left out.    *)
(***************************************************************************)
EXTENDS Integers, Sequences

CONSTANT FlowLists   (* sequences of [hostname, dstIP, process]            *)

Byte      == 0 .. 255
Newline   == 10
Quote     == 34
Comma     == 44
Backslash == 92
List      == [open |-> 91, close |-> 93]
Object    == [open |-> 123, close |-> 125]

(* Any bytes, but that an address is digits, letters, dots and colons.     *)
ASSUME FlowsAssumption ==
  \A flows \in FlowLists :
    flows \in Seq([hostname : Seq(Byte), process : Seq(Byte),
                  dstIP : Seq(Byte \ {Newline, Quote, Comma})])

VARIABLES
  exported,   (* flows                                                     *)
  format,     (* "csv" or "json"                                           *)
  rows,       (* flows written so far                                      *)
  document,   (* the text                                                  *)
  complete    (* the text has its end                                      *)

xvars == <<exported, format, rows, document, complete>>

(* The first n of some texts, one after the other.                         *)
Joined(texts, n) ==
  LET to[i \in 0 .. Len(texts)] == IF i = 0 THEN <<>> ELSE to[i - 1] \o texts[i]
  IN  to[n]

---------------------------------------------------------------------------
(* csvEscape(): quoted only if it has to be, quotes within doubled.        *)
NeedsQuotes(s) == \E i \in 1 .. Len(s) : s[i] \in {Comma, Quote, Newline}

Doubled(s) ==
  Joined([i \in 1 .. Len(s) |-> IF s[i] = Quote THEN <<Quote, Quote>> ELSE <<s[i]>>], Len(s))

CsvEscape(s) == IF NeedsQuotes(s) THEN <<Quote>> \o Doubled(s) \o <<Quote>> ELSE s

---------------------------------------------------------------------------
(* appendJsonString()                                                      *)
Short == [b \in {Quote, Backslash, 8, 12, 10, 13, 9} |->
            CASE b = 8 -> 98 [] b = 12 -> 102 [] b = 10 -> 110 [] b = 13 -> 114
              [] b = 9 -> 116 [] OTHER -> b]
Hex(n) == IF n < 10 THEN 48 + n ELSE 87 + n

Ascii(b) ==
  IF b \in DOMAIN Short THEN <<Backslash, Short[b]>>
  ELSE IF b < 32 THEN <<Backslash, 117, 48, 48, Hex(b \div 16), Hex(b % 16)>>
  ELSE <<b>>

(* The length of the UTF-8 sequence that a byte begins.                    *)
LengthOf(b) ==
  CASE b \div 32 = 6 -> 2 [] b \div 16 = 14 -> 3 [] b \div 8 = 30 -> 4 [] OTHER -> 0

Continuation(b) == b \div 64 = 2

(* What the n bytes from the i-th on encode.                               *)
CodePoint(s, i, n) ==
  LET low(k) == s[i + k] % 64 IN
  IF n = 2 THEN (s[i] % 32) * 64 + low(1)
  ELSE IF n = 3 THEN (s[i] % 16) * 4096 + low(1) * 64 + low(2)
  ELSE (s[i] % 8) * 262144 + low(1) * 4096 + low(2) * 64 + low(3)

(* Mutant: a character written with more bytes than it takes is kept.      *)
Overlong_Kept(c, n) == FALSE

Overlong(c, n) == c < (IF n = 2 THEN 128 ELSE IF n = 3 THEN 2048 ELSE 65536)

Surrogate(c) == 55296 <= c /\ c <= 57343

Valid(s, i) ==
  LET n == LengthOf(s[i]) IN
  /\ n # 0 /\ i + n - 1 <= Len(s)
  /\ \A k \in 1 .. n - 1 : Continuation(s[i + k])
  /\ LET c == CodePoint(s, i, n)
     IN  ~Overlong(c, n) /\ ~Surrogate(c) /\ c <= 1114111

Replacement == <<239, 191, 189>>   (* U+FFFD *)

(* What is written for the i-th byte and those taken with it, and how many.*)
Written(s, i) ==
  IF s[i] < 128 THEN Ascii(s[i])
  ELSE IF Valid(s, i) THEN SubSeq(s, i, i + LengthOf(s[i]) - 1) ELSE Replacement

Taken(s, i) == IF s[i] >= 128 /\ Valid(s, i) THEN LengthOf(s[i]) ELSE 1

Escaped(s) ==
  LET from[i \in 1 .. Len(s) + 1] ==
        IF i > Len(s) THEN <<>> ELSE Written(s, i) \o from[i + Taken(s, i)]
  IN  from[1]

JsonString(s) == <<Quote>> \o Escaped(s) \o <<Quote>>

---------------------------------------------------------------------------
(* writeCsv(), writeJson(): a flow per iteration.                          *)
Host(f) == IF f.hostname = <<>> THEN f.dstIP ELSE f.hostname

CsvRow(f) ==
  CsvEscape(Host(f)) \o <<Comma>> \o f.dstIP \o <<Comma>> \o CsvEscape(f.process)
    \o <<Newline>>

JsonRow(f, first) ==
  (IF first THEN <<>> ELSE <<Comma>>) \o <<Object.open>>
    \o JsonString(f.dstIP) \o <<Comma>> \o JsonString(f.hostname) \o <<Comma>>
    \o JsonString(f.process) \o <<Object.close>>

XInit ==
  /\ exported \in FlowLists /\ format \in {"csv", "json"}
  /\ rows = 0 /\ complete = FALSE
  /\ document = IF format = "csv" THEN <<>> ELSE <<List.open>>

WriteRow ==
  /\ rows < Len(exported) /\ rows' = rows + 1
  /\ document' = document \o
       (IF format = "csv" THEN CsvRow(exported[rows + 1])
        ELSE JsonRow(exported[rows + 1], rows = 0))
  /\ UNCHANGED <<exported, format, complete>>

EndDocument ==
  /\ rows = Len(exported) /\ ~complete /\ complete' = TRUE
  /\ document' = IF format = "csv" THEN document ELSE Append(document, List.close)
  /\ UNCHANGED <<exported, format, rows>>

Ended == complete /\ UNCHANGED xvars

XNext == WriteRow \/ EndDocument \/ Ended
XSpec == XInit /\ [][XNext]_xvars

---------------------------------------------------------------------------
(* The readers of the formats, a step for each byte.  They see the bytes   *)
(* of the fields and, as negative numbers, what separates them.            *)
NotText == <<-1>>

(* Where in a field the reader of CSV is: at its start, within it, within  *)
(* its quotes, or behind a quote, which ends it if it is not doubled.      *)
CsvState(where, out) == [where |-> where, out |-> out]

CsvStep(r, b) ==
  IF r.where = "wrong" THEN r
  ELSE IF r.where = "quoted" /\ b = Quote THEN CsvState("behind", r.out)
  ELSE IF r.where = "quoted" \/ (r.where = "behind" /\ b = Quote)
       THEN CsvState("quoted", Append(r.out, b))
  ELSE IF b \in {Comma, Newline} THEN CsvState("start", Append(r.out, -b))
  ELSE IF r.where = "start" /\ b = Quote THEN CsvState("quoted", r.out)
  ELSE IF r.where = "behind" \/ b = Quote THEN CsvState("wrong", r.out)
  ELSE CsvState("within", Append(r.out, b))

CsvAfter(s) ==
  LET after[i \in 0 .. Len(s)] ==
        IF i = 0 THEN CsvState("start", <<>>) ELSE CsvStep(after[i - 1], s[i])
  IN  after

ReadCsv(s) ==
  LET r == CsvAfter(s)[Len(s)] IN IF r.where = "start" THEN r.out ELSE NotText

(* Outside a string, inside, behind a backslash or among the hexadecimal   *)
(* digits of a character, of which some are left.                          *)
JsonState(where, left, value, out) ==
  [where |-> where, left |-> left, value |-> value, out |-> out]

Escapes == {<<34, 34>>, <<92, 92>>, <<47, 47>>, <<98, 8>>, <<102, 12>>, <<110, 10>>,
            <<114, 13>>, <<116, 9>>}
Digit(b) == IF b < 58 THEN b - 48 ELSE b - 87

JsonStep(r, b) ==
  LET value == 16 * r.value + Digit(b)
      to(where, c) == JsonState(where, 0, 0, Append(r.out, c))
      wrong == JsonState("wrong", 0, 0, r.out)
  IN  IF r.where = "outside" THEN to(IF b = Quote THEN "inside" ELSE "outside", -b)
      ELSE IF r.where = "inside" /\ b = Quote THEN to("outside", -b)
      ELSE IF r.where = "inside" /\ b = Backslash THEN JsonState("escaped", 0, 0, r.out)
      ELSE IF r.where = "inside" THEN IF b < 32 THEN wrong ELSE to("inside", b)
      ELSE IF r.where = "escaped" /\ b = 117 THEN JsonState("digits", 4, 0, r.out)
      ELSE IF r.where = "escaped"
           THEN IF \E e \in Escapes : e[1] = b
                THEN to("inside", (CHOOSE e \in Escapes : e[1] = b)[2]) ELSE wrong
      ELSE IF r.where = "wrong" \/ b \notin (48 .. 57) \union (97 .. 102) THEN wrong
      ELSE IF r.left > 1 THEN JsonState("digits", r.left - 1, value, r.out)
      ELSE IF value < 128 THEN to("inside", value) ELSE wrong

JsonAfter(s) ==
  LET after[i \in 0 .. Len(s)] ==
        IF i = 0 THEN JsonState("outside", 0, 0, <<>>) ELSE JsonStep(after[i - 1], s[i])
  IN  after

ReadJson(s) ==
  LET r == JsonAfter(s)[Len(s)] IN IF r.where = "outside" THEN r.out ELSE NotText

(* Well-formed UTF-8, as the Unicode standard tables it: the first byte,   *)
(* the second, how many there are.                                         *)
WellFormed ==
  {[first |-> 194 .. 223, second |-> 128 .. 191, n |-> 2],
   [first |-> {224},      second |-> 160 .. 191, n |-> 3],
   [first |-> (225 .. 239) \ {237}, second |-> 128 .. 191, n |-> 3],
   [first |-> {237},      second |-> 128 .. 159, n |-> 3],
   [first |-> {240},      second |-> 144 .. 191, n |-> 4],
   [first |-> 241 .. 243, second |-> 128 .. 191, n |-> 4],
   [first |-> {244},      second |-> 128 .. 143, n |-> 4]}

(* The characters that begin at the i-th byte: one or, if it is not that   *)
(* of well-formed text, none.                                              *)
Characters(s, i) ==
  IF s[i] < 128 THEN {<<s[i]>>}
  ELSE {SubSeq(s, i, i + t.n - 1) : t \in {u \in WellFormed :
          /\ i + u.n - 1 <= Len(s) /\ s[i] \in u.first /\ s[i + 1] \in u.second
          /\ \A k \in 2 .. u.n - 1 : s[i + k] \in 128 .. 191}}

(* The text that a string stands for: a byte of no character is U+FFFD.    *)
Text(s) ==
  LET from[i \in 1 .. Len(s) + 1] ==
        IF i > Len(s) THEN <<>>
        ELSE IF Characters(s, i) = {} THEN <<239, 191, 189>> \o from[i + 1]
        ELSE LET c == CHOOSE c \in Characters(s, i) : TRUE IN c \o from[i + Len(c)]
  IN  from[1]

(* What they should see of a flow, and of the first n.                     *)
CsvRowSeen(f) ==
  Host(f) \o <<-Comma>> \o f.dstIP \o <<-Comma>> \o f.process \o <<-Newline>>

CsvSeen(flows, n) == Joined([i \in 1 .. Len(flows) |-> CsvRowSeen(flows[i])], n)

JsonRowSeen(f, first) ==
  LET string(s) == <<-Quote>> \o Text(s) \o <<-Quote>>
  IN  (IF first THEN <<>> ELSE <<-Comma>>) \o <<-Object.open>>
        \o string(f.dstIP) \o <<-Comma>> \o string(f.hostname) \o <<-Comma>>
        \o string(f.process) \o <<-Object.close>>

JsonSeen(flows, n) ==
  <<-List.open>> \o Joined([i \in 1 .. Len(flows) |-> JsonRowSeen(flows[i], i = 1)], n)

(* Whatever bytes a name holds - quotes, commas, line ends, controls, a    *)
(* UTF-8 sequence cut short, overlong or of a surrogate - a reader of the  *)
(* CSV text gets the fields back byte by byte, and one of the JSON text    *)
(* every character of them, with U+FFFD for each byte that is of none; no  *)
(* field breaks the record, or the next.                                   *)
ExportReadsBack ==
  complete =>
    IF format = "csv" THEN ReadCsv(document) = CsvSeen(exported, Len(exported))
    ELSE ReadJson(document) = Append(JsonSeen(exported, Len(exported)), -List.close)
=============================================================================
