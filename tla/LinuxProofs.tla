---------------------------- MODULE LinuxProofs ----------------------------
(***************************************************************************)
(* Proofs about the Wi-Fi Direct devices of a Linux node: what parseDisc   *)
(* reads from the response packDns wrote, for any bytes that follow it,    *)
(* that the posted status is consistent, for any number of devices and     *)
(* networks and for scans of any records, and that a group is not left     *)
(* without a step to its DHCP server, for any number of groups.            *)
(*                                                                         *)
(* packTxtBytes and parseDns are recursive functions.  That they are       *)
(* defined, and what the second computes, is proved by induction, as the   *)
(* absence of a least counterexample.                                      *)
(***************************************************************************)
EXTENDS MCLinux, TLAPS, WellFoundedInduction

-----------------------------------------------------------------------------
(* Induction *)

\* Every nonempty set of natural numbers has a least element.
LEMMA Least ==
    ASSUME NEW S \in SUBSET Nat, S # {}
    PROVE  \E x \in S : \A y \in S : x <= y
<1> DEFINE R == {p \in Nat \X Nat : p[1] < p[2]}
<1>1. IsWellFoundedOn(R, Nat)
  BY NatLessThanWellFounded DEF OpToRel
<1>2. PICK x \in S : \A y \in S : <<y, x>> \notin R
  <2> HIDE DEF R
  <2> QED
    BY <1>1, WFMin
<1>3. \A y \in S : ~(y < x)
  BY <1>2
<1> QED
  BY <1>3

-----------------------------------------------------------------------------
(* Packing *)

Sizes == 1 .. 255

\* A size below 256 fits in the byte before its string.
LEMMA OneByte == \A m \in Sizes : m % 256 = m
BY DEF Sizes

\* The offsets of two strings of sizes m and k, and of what follows them.
TwoStarts(m, k) ==
    [i \in 1 .. 3 |-> IF i = 1 THEN 17 ELSE IF i = 2 THEN 18 + m ELSE 19 + m + k]

\* A response with two strings of sizes m and k and more bytes behind them: both
\* are found behind their lengths, the first one after the name.
Packed(r, m, k, more, a, b) ==
    /\ r.mlen = 17 + m + k
    /\ r.total = 19 + m + k + more
    /\ DOMAIN r.field = {17, 18 + m}
    /\ r.field[17] = a /\ r.field[18 + m] = b
    /\ {17, 18 + m} \subseteq DOMAIN r.byte
    /\ r.byte[17] = m /\ r.byte[18 + m] = k
    /\ \A o \in DOMAIN r.byte : r.byte[o] \in Nat

\* packDns makes such a response.
LEMMA PackedTwo ==
    ASSUME NEW m \in Sizes, NEW k \in Sizes,
           NEW a, NEW b, a.size = m, b.size = k, NEW tail \in Seq(Nat)
    PROVE  Packed(Peers!PackDns(<<a, b>>, tail), m, k, Len(tail), a, b)
<1> USE DEF Sizes
<1> DEFINE fields == <<a, b>>
           Again(s) == [i \in 1 .. Len(fields) + 1 |->
                           IF i = 1 THEN Peers!First
                           ELSE s[i - 1] + 1 + fields[i - 1].size]
           start == CHOOSE s : s = Again(s)
<1>1. Len(fields) = 2 /\ fields[1] = a /\ fields[2] = b /\ Peers!First = 17
  BY DEF Peers!First, Peers!Head5, Peers!NameTxt
<1>2. start = Again(start)
  <2> DEFINE s == TwoStarts(m, k)
  <2>1. Again(s) = [i \in 1 .. 3 |-> IF i = 1 THEN 17
                                     ELSE s[i - 1] + 1 + fields[i - 1].size]
    BY <1>1
  <2>2. s[1] + 1 + fields[1].size = 18 + m /\ s[2] + 1 + fields[2].size = 19 + m + k
    <3>1. s[1] = 17 /\ s[2] = 18 + m
      BY DEF TwoStarts
    <3> HIDE DEF s, fields
    <3>2. s[1] + 1 + fields[1].size = 17 + 1 + m /\ s[2] + 1 + fields[2].size = 18 + m + 1 + k
      BY <1>1, <3>1
    <3> QED
      BY <3>2
  <2>3. \A i \in 1 .. 3 : s[i] = IF i = 1 THEN 17 ELSE s[i - 1] + 1 + fields[i - 1].size
    <3>1. s[1] = 17 /\ s[2] = 18 + m /\ s[3] = 19 + m + k
      BY DEF TwoStarts
    <3> HIDE DEF s, fields
    <3>2. \A i \in 1 .. 3 : i = 1 \/ (i = 2 /\ i - 1 = 1) \/ (i = 3 /\ i - 1 = 2)
      OBVIOUS
    <3> QED
      BY <2>2, <3>1, <3>2
  <2>4. s = [i \in 1 .. 3 |-> s[i]]
    BY DEF TwoStarts
  <2>5. s = Again(s)
    <3> HIDE DEF s, fields
    <3> QED
      BY <2>1, <2>3, <2>4
  <2> HIDE DEF Again
  <2> QED
    BY <2>5
<1>3. start[1] = 17 /\ start[2] = 18 + m /\ start[3] = 19 + m + k
  <2> HIDE DEF start, fields
  <2>0. \A i \in 1 .. 3 : start[i] = IF i = 1 THEN 17
                                     ELSE start[i - 1] + 1 + fields[i - 1].size
    BY <1>1, <1>2
  <2> HIDE DEF Again
  <2>1. start[1] = 17
    BY <2>0
  <2>2. start[2] = 17 + 1 + m
    <3>1. 2 \in 1 .. 3 /\ 2 # 1 /\ 2 - 1 = 1
      OBVIOUS
    <3>2. start[2] = start[1] + 1 + fields[1].size
      BY <2>0, <3>1
    <3> QED
      BY <1>1, <2>1, <3>2
  <2>3. start[3] = 18 + m + 1 + k
    <3>1. 3 \in 1 .. 3 /\ 3 # 1 /\ 3 - 1 = 2
      OBVIOUS
    <3>2. start[3] = start[2] + 1 + fields[2].size
      BY <2>0, <3>1
    <3> QED
      BY <1>1, <2>2, <3>2
  <2> QED
    BY <2>1, <2>2, <2>3
<1> DEFINE Starts == {start[i] : i \in 1 .. Len(fields)}
           Index(o) == CHOOSE i \in 1 .. Len(fields) : start[i] = o
           txt == [end |-> start[Len(fields) + 1],
                   byte |-> [o \in Starts |-> fields[Index(o)].size % 256],
                   field |-> [o \in Starts |-> fields[Index(o)]]]
<1>4. Peers!PackTxtBytes(fields) = txt
  BY DEF Peers!PackTxtBytes
<1> HIDE DEF start
<1>5. Starts = {17, 18 + m} /\ Index(17) = 1 /\ Index(18 + m) = 2
  <2>1. \A i \in 1 .. Len(fields) : i = 1 \/ i = 2
    BY <1>1
  <2>2. 1 \in 1 .. Len(fields) /\ 2 \in 1 .. Len(fields) /\ 17 # 18 + m
    BY <1>1
  <2> HIDE DEF fields
  <2>3. \A i \in 1 .. Len(fields) : /\ start[i] = 17 <=> i = 1
                                    /\ start[i] = 18 + m <=> i = 2
    BY <1>3, <2>1, <2>2
  <2>4. Starts = {17, 18 + m}
    BY <1>3, <2>1, <2>2
  <2>5. Index(17) = 1 /\ Index(18 + m) = 2
    BY <2>2, <2>3
  <2> QED
    BY <2>4, <2>5
<1>6. /\ txt.end = 19 + m + k
      /\ DOMAIN txt.byte = {17, 18 + m} /\ txt.byte[17] = m /\ txt.byte[18 + m] = k
      /\ txt.field = [o \in {17, 18 + m} |-> IF o = 17 THEN a ELSE b]
  <2>1. fields[Index(17)].size % 256 = m /\ fields[Index(18 + m)].size % 256 = k
    <3> HIDE DEF Index, fields
    <3>1. m % 256 = m /\ k % 256 = k
      BY OneByte
    <3> QED
      BY <1>1, <1>5, <3>1
  <2>2. fields[Index(17)] = a /\ fields[Index(18 + m)] = b /\ 17 # 18 + m
    <3> HIDE DEF Index, fields
    <3> QED
      BY <1>1, <1>5
  <2>3. start[Len(fields) + 1] = 19 + m + k
    <3> HIDE DEF fields
    <3> QED
      BY <1>1, <1>3
  <2> HIDE DEF Index, fields, Starts
  <2> QED
    BY <1>5, <2>1, <2>2, <2>3
<1> HIDE DEF txt
<1> DEFINE r == Peers!PackDns(fields, tail)
           Tail5 == {txt.end + i : i \in 0 .. Len(tail) - 1}
<1>7. r = [mlen |-> txt.end - 2, total |-> txt.end + Len(tail), field |-> txt.field,
           byte |-> [o \in DOMAIN txt.byte \cup Tail5 |->
                        IF o \in Tail5 THEN tail[o - txt.end + 1] ELSE txt.byte[o]]]
  BY <1>4 DEF Peers!PackDns
<1> HIDE DEF r
<1>8. 17 \notin Tail5 /\ 18 + m \notin Tail5
  <2>1. \A i \in 0 .. Len(tail) - 1 : 17 # 19 + m + k + i /\ 18 + m # 19 + m + k + i
    OBVIOUS
  <2>2. txt.end = 19 + m + k
    BY <1>6
  <2> QED
    BY <2>1, <2>2, Zenon
<1>9. \A o \in Tail5 : tail[o - txt.end + 1] \in Nat
  <2>1. \A i \in 0 .. Len(tail) - 1 : (txt.end + i) - txt.end + 1 \in 1 .. Len(tail)
    BY <1>6
  <2>2. \A j \in 1 .. Len(tail) : tail[j] \in Nat
    OBVIOUS
  <2> QED
    BY <2>1, <2>2, Zenon
<1> HIDE DEF Tail5
<1>10. /\ r.mlen = 17 + m + k /\ r.total = 19 + m + k + Len(tail)
       /\ r.field = [o \in {17, 18 + m} |-> IF o = 17 THEN a ELSE b]
  <2>1. 19 + m + k - 2 = 17 + m + k
    OBVIOUS
  <2> QED
    BY <1>6, <1>7, <2>1
<1>11. /\ DOMAIN r.byte = {17, 18 + m} \cup Tail5
       /\ r.byte[17] = m /\ r.byte[18 + m] = k
       /\ \A o \in DOMAIN r.byte : r.byte[o] \in Nat
  <2>1. r.byte = [o \in {17, 18 + m} \cup Tail5 |->
                     IF o \in Tail5 THEN tail[o - txt.end + 1] ELSE txt.byte[o]]
    <3>1. r.byte = [o \in DOMAIN txt.byte \cup Tail5 |->
                       IF o \in Tail5 THEN tail[o - txt.end + 1] ELSE txt.byte[o]]
      <4> DEFINE bytes == [o \in DOMAIN txt.byte \cup Tail5 |->
                              IF o \in Tail5 THEN tail[o - txt.end + 1] ELSE txt.byte[o]]
      <4>1. r = [mlen |-> txt.end - 2, total |-> txt.end + Len(tail), field |-> txt.field,
                 byte |-> bytes]
        BY <1>7
      <4>2. r.byte = bytes
        <5> HIDE DEF bytes
        <5> QED
          BY <4>1
      <4> QED
        BY <4>2
    <3>2. DOMAIN txt.byte \cup Tail5 = {17, 18 + m} \cup Tail5
      BY <1>6, Zenon
    <3> QED
      BY <3>1, <3>2, Zenon
  <2>2. r.byte[17] = m /\ r.byte[18 + m] = k
    BY <1>6, <1>8, <2>1
  <2>3. \A o \in {17, 18 + m} \cup Tail5 : r.byte[o] \in Nat
    <3>1. \A o \in Tail5 : r.byte[o] = tail[o - txt.end + 1]
      BY <2>1, Zenon
    <3>2. m \in Nat /\ k \in Nat
      OBVIOUS
    <3> QED
      BY <1>9, <2>2, <3>1, <3>2, Zenon
  <2> QED
    BY <2>1, <2>2, <2>3
<1>12. 18 + m # 17
  OBVIOUS
<1> QED
  BY <1>10, <1>11, <1>12 DEF Packed, r

-----------------------------------------------------------------------------
(* Parsing *)

\* The result of parseDns at an offset, given the results g at later ones.
ParseStep(g, r, end, off) ==
    IF off >= end THEN [outcome |-> "ok", meta |-> {}]
    ELSE IF off \notin DOMAIN r.byte THEN [outcome |-> "astray", meta |-> {}]
    ELSE IF r.byte[off] = 0 \/ off + r.byte[off] > end THEN [outcome |-> "ok", meta |-> {}]
    ELSE IF off + 1 + r.byte[off] > r.total THEN [outcome |-> "panic", meta |-> {}]
    ELSE IF off \in DOMAIN r.field
      THEN [g[off + 1 + r.byte[off]] EXCEPT !.meta = @ \cup {r.field[off]}]
    ELSE g[off + 1 + r.byte[off]]

Parses(g, r, end) == g = [off \in Nat |-> ParseStep(g, r, end, off)]

\* A step only looks at later offsets.
LEMMA StepLooksAhead ==
    ASSUME NEW r, NEW end \in Nat, \A o \in DOMAIN r.byte : r.byte[o] \in Nat,
           NEW g, NEW h, NEW off \in Nat,
           \A o \in Nat : o > off => g[o] = h[o]
    PROVE  ParseStep(g, r, end, off) = ParseStep(h, r, end, off)
<1>1. CASE off \in DOMAIN r.byte
  <2>1. off + 1 + r.byte[off] \in Nat /\ off + 1 + r.byte[off] > off
    BY <1>1
  <2>2. g[off + 1 + r.byte[off]] = h[off + 1 + r.byte[off]]
    BY <2>1
  <2> QED
    BY <2>2, Zenon DEF ParseStep
<1>2. CASE off \notin DOMAIN r.byte
  BY <1>2, Zenon DEF ParseStep
<1> QED
  BY <1>1, <1>2

\* The recursion of parseDns is defined at every offset: it is at the end, and if
\* it is from some offset on, then also at the one before.
LEMMA ParseDefined ==
    ASSUME NEW r, NEW end \in Nat, \A o \in DOMAIN r.byte : r.byte[o] \in Nat
    PROVE  \E g : Parses(g, r, end)
<1> DEFINE From(g, j) == \A o \in Nat : o >= end - j => g[o] = ParseStep(g, r, end, o)
           Bad == {j \in 0 .. end : ~ \E g : From(g, j)}
<1>1. Bad = {}
  <2>1. SUFFICES ASSUME Bad # {} PROVE FALSE
    OBVIOUS
  <2>2. PICK j \in Bad : \A i \in Bad : j <= i
    <3>1. Bad \in SUBSET Nat
      OBVIOUS
    <3> HIDE DEF Bad
    <3> QED
      BY <2>1, <3>1, Least
  <2>3. CASE j = 0
    <3> DEFINE g == [o \in Nat |-> [outcome |-> "ok", meta |-> {}]]
    <3>1. From(g, 0)
      BY DEF ParseStep
    <3> HIDE DEF g, From
    <3> QED
      BY <2>2, <2>3, <3>1
  <2>4. CASE j # 0
    <3>1. j - 1 \in 0 .. end /\ j - 1 \notin Bad /\ j \in 1 .. end
      <4> HIDE DEF From
      <4> QED
        BY <2>2, <2>4
    <3>2. PICK g : From(g, j - 1)
      <4> HIDE DEF From
      <4> QED
        BY <3>1
    <3> DEFINE at == end - j
               h == [o \in Nat |-> IF o = at THEN ParseStep(g, r, end, at) ELSE g[o]]
    <3>3. at \in Nat /\ \A o \in Nat : o > at => o >= end - (j - 1)
      BY <3>1
    <3> HIDE DEF at
    <3>4. h[at] = ParseStep(g, r, end, at) /\ \A o \in Nat : o > at => h[o] = g[o]
      BY <3>3
    <3>5. \A o \in Nat : o >= at => h[o] = ParseStep(h, r, end, o)
      <4> SUFFICES ASSUME NEW o \in Nat, o >= at
                   PROVE  h[o] = ParseStep(h, r, end, o)
        OBVIOUS
      <4> HIDE DEF h
      <4>1. \A i \in Nat : i > o => g[i] = h[i]
        BY <3>3, <3>4
      <4>2. ParseStep(g, r, end, o) = ParseStep(h, r, end, o)
        BY <4>1, StepLooksAhead
      <4>3. h[o] = ParseStep(g, r, end, o)
        <5>1. CASE o = at
          BY <3>4, <5>1
        <5>2. CASE o > at
          BY <3>2, <3>3, <3>4, <5>2
        <5> QED
          BY <3>3, <5>1, <5>2
      <4> QED
        BY <4>2, <4>3
    <3>6. From(h, j)
      <4> HIDE DEF h
      <4> QED
        BY <3>5 DEF at
    <3> HIDE DEF h, From
    <3> QED
      BY <2>2, <3>6
  <2> QED
    BY <2>3, <2>4
<1>2. PICK g : From(g, end)
  <2> HIDE DEF From
  <2>1. end \in 0 .. end
    OBVIOUS
  <2> QED
    BY <1>1, <2>1
<1> DEFINE h == [o \in Nat |-> g[o]]
<1>3. \A o \in Nat : h[o] = ParseStep(h, r, end, o)
  <2> SUFFICES ASSUME NEW o \in Nat
               PROVE  h[o] = ParseStep(h, r, end, o)
    OBVIOUS
  <2>1. g[o] = ParseStep(g, r, end, o)
    BY <1>2
  <2>2. \A i \in Nat : i > o => g[i] = h[i]
    OBVIOUS
  <2>3. h[o] = g[o]
    OBVIOUS
  <2> HIDE DEF h
  <2> QED
    BY <2>1, <2>2, <2>3, StepLooksAhead
<1>4. Parses(h, r, end)
  <2>1. h = [o \in Nat |-> h[o]]
    OBVIOUS
  <2> HIDE DEF h
  <2> QED
    BY <1>3, <2>1 DEF Parses
<1> QED
  BY <1>4

\* ParseDns is such a parse, taken at the first string.
LEMMA ParseDnsParses ==
    ASSUME NEW r, NEW end \in Nat, \A o \in DOMAIN r.byte : r.byte[o] \in Nat
    PROVE  \E g : Parses(g, r, end) /\ Peers!ParseDns(r, end) = g[17]
<1> DEFINE p == CHOOSE g : Parses(g, r, end)
<1>1. Parses(p, r, end)
  BY ParseDefined
<1>2. Peers!ParseDns(r, end) = p[17]
  BY DEF Peers!ParseDns, Parses, ParseStep, Peers!First, Peers!Head5, Peers!NameTxt
<1> HIDE DEF p
<1> QED
  BY <1>1, <1>2

\* Behind the last string nothing is added, whatever the bytes there are taken for:
\* by induction on the distance to the end.
LEMMA NothingBehind ==
    ASSUME NEW r, NEW end \in Nat, \A o \in DOMAIN r.byte : r.byte[o] \in Nat,
           NEW g, Parses(g, r, end),
           NEW lim \in Nat, \A o \in DOMAIN r.field : o \in Nat /\ o < lim
    PROVE  \A o \in Nat : o >= lim =>
              g[o] \in [outcome : {"ok", "astray", "panic"}, meta : {{}}]
<1> DEFINE Results == [outcome : {"ok", "astray", "panic"}, meta : {{}}]
           Good(o) == o >= lim => g[o] \in Results
           Bad == {j \in 0 .. end : ~Good(end - j)}
<1>0. \A o \in Nat : g[o] = ParseStep(g, r, end, o)
  BY DEF Parses
<1>1. \A o \in Nat : o >= end => Good(o)
  <2> SUFFICES ASSUME NEW o \in Nat, o >= end PROVE Good(o)
    OBVIOUS
  <2>1. g[o] = [outcome |-> "ok", meta |-> {}]
    BY <1>0, Zenon DEF ParseStep
  <2> QED
    BY <2>1
<1>2. \A o \in Nat : (\A i \in Nat : i > o => Good(i)) => Good(o)
  <2> SUFFICES ASSUME NEW o \in Nat, \A i \in Nat : i > o => Good(i), o >= lim
               PROVE  g[o] \in Results
    OBVIOUS
  <2>1. o \notin DOMAIN r.field
    OBVIOUS
  <2>2. \/ g[o] = [outcome |-> "ok", meta |-> {}]
        \/ g[o] = [outcome |-> "astray", meta |-> {}]
        \/ g[o] = [outcome |-> "panic", meta |-> {}]
        \/ o \in DOMAIN r.byte /\ g[o] = g[o + 1 + r.byte[o]]
    BY <1>0, <2>1, Zenon DEF ParseStep
  <2>3. ASSUME o \in DOMAIN r.byte PROVE g[o + 1 + r.byte[o]] \in Results
    <3>1. /\ o + 1 + r.byte[o] \in Nat /\ o + 1 + r.byte[o] > o
          /\ o + 1 + r.byte[o] >= lim
      BY <2>3
    <3> HIDE DEF Results
    <3> QED
      BY <3>1
  <2> QED
    BY <2>2, <2>3
<1> HIDE DEF Results
<1>3. Bad = {}
  <2>1. SUFFICES ASSUME Bad # {} PROVE FALSE
    OBVIOUS
  <2>2. PICK j \in Bad : \A i \in Bad : j <= i
    <3>1. Bad \in SUBSET Nat
      OBVIOUS
    <3> HIDE DEF Bad
    <3> QED
      BY <2>1, <3>1, Least
  <2> HIDE DEF Good
  <2>3. j \in 0 .. end /\ ~Good(end - j) /\ end - j \in Nat
    BY <2>2
  <2>4. \A i \in Nat : i > end - j => Good(i)
    <3> SUFFICES ASSUME NEW i \in Nat, i > end - j PROVE Good(i)
      OBVIOUS
    <3>1. CASE i >= end
      BY <1>1, <3>1
    <3>2. CASE i < end
      <4>1. end - i \in 0 .. end /\ end - i < j /\ end - (end - i) = i
        BY <2>3, <3>2
      <4>2. end - i \notin Bad
        <5> HIDE DEF Bad
        <5> QED
          BY <2>2, <2>3, <4>1
      <4> QED
        BY <4>1, <4>2
    <3> QED
      BY <3>1, <3>2
  <2> QED
    BY <1>2, <2>3, <2>4
<1>4. \A o \in Nat : Good(o)
  <2> HIDE DEF Good
  <2> SUFFICES ASSUME NEW o \in Nat PROVE Good(o)
    OBVIOUS
  <2>1. CASE o >= end
    BY <1>1, <2>1
  <2>2. CASE o < end
    <3>1. end - o \in 0 .. end /\ end - (end - o) = o
      BY <2>2
    <3> QED
      BY <1>3, <3>1, Zenon
  <2> QED
    BY <2>1, <2>2
<1> QED
  BY <1>4 DEF Results

ReadsTwo(r, end, a, b) == Peers!ParseDns(r, end).meta = {a, b}

\* parseDns reads both strings of such a response, and nothing else.
LEMMA ReadTwo ==
    ASSUME NEW m \in Sizes, NEW k \in Sizes, NEW more \in Nat, NEW a, NEW b, NEW r,
           Packed(r, m, k, more, a, b)
    PROVE  ReadsTwo(r, 24 + m + k, a, b)
<1> USE DEF Sizes
<1> DEFINE end == 24 + m + k
           second == 18 + m
           behind == 19 + m + k
<1>1. end \in Nat /\ second \in Nat /\ behind \in Nat /\ 17 \in Nat
  OBVIOUS
<1>2. \A o \in DOMAIN r.byte : r.byte[o] \in Nat
  BY Zenon DEF Packed
<1>3. \A o \in DOMAIN r.field : o \in Nat /\ o < behind
  <2>1. 17 < behind /\ second < behind
    OBVIOUS
  <2>2. \A o \in DOMAIN r.field : o = 17 \/ o = second
    BY Zenon DEF Packed
  <2> HIDE DEF behind, second
  <2> QED
    BY <1>1, <2>1, <2>2
<1>4. /\ ~(17 >= end) /\ ~(m = 0) /\ ~(17 + m > end) /\ 17 + 1 + m = second
      /\ ~(second >= end) /\ ~(k = 0) /\ ~(second + k > end) /\ second + 1 + k = behind
  OBVIOUS
<1>5. ~(17 + 1 + m > r.total) /\ ~(second + 1 + k > r.total)
  <2>1. r.total = 19 + m + k + more
    BY Zenon DEF Packed
  <2>2. ~(17 + 1 + m > 19 + m + k + more) /\ ~(second + 1 + k > 19 + m + k + more)
    OBVIOUS
  <2> QED
    BY <2>1, <2>2, Zenon
<1>6. /\ 17 \in DOMAIN r.byte /\ 17 \in DOMAIN r.field
      /\ r.byte[17] = m /\ r.field[17] = a
      /\ second \in DOMAIN r.byte /\ second \in DOMAIN r.field
      /\ r.byte[second] = k /\ r.field[second] = b
  BY Zenon DEF Packed
<1> HIDE DEF end, second, behind
<1>7. PICK g : Parses(g, r, end) /\ Peers!ParseDns(r, end) = g[17]
  BY <1>1, <1>2, ParseDnsParses
<1>8. \A o \in Nat : g[o] = ParseStep(g, r, end, o)
  BY <1>7 DEF Parses
<1>9. g[behind] \in [outcome : {"ok", "astray", "panic"}, meta : {{}}]
  <2>1. behind >= behind
    BY <1>1
  <2> QED
    BY <1>1, <1>2, <1>3, <1>7, <2>1, NothingBehind
<1>10. g[second] = [g[behind] EXCEPT !.meta = @ \cup {b}]
  BY <1>1, <1>4, <1>5, <1>6, <1>8, Zenon DEF ParseStep
<1>11. g[17] = [g[second] EXCEPT !.meta = @ \cup {a}]
  BY <1>1, <1>4, <1>5, <1>6, <1>8, Zenon DEF ParseStep
<1>12. PICK out : g[behind] = [outcome |-> out, meta |-> {}]
  BY <1>9
<1>13. g[second] = [outcome |-> out, meta |-> {b}]
  BY <1>10, <1>12
<1>14. g[17] = [outcome |-> out, meta |-> {a, b}]
  BY <1>11, <1>13
<1> QED
  BY <1>7, <1>14 DEF end, ReadsTwo

\* What parseDisc reads from a response with two strings: both of them, unless it
\* fails on what follows.
ReadsBoth(a, b, tail) ==
    LET got == Peers!ParseDisc(Peers!PackDns(<<a, b>>, tail))
    IN  got.outcome = "ok" => got.meta = {a, b}

\* packDns and parseDisc agree on the strings.
LEMMA ParsedTwo ==
    ASSUME NEW m \in Sizes, NEW k \in Sizes,
           NEW a, NEW b, a.size = m, b.size = k, NEW tail \in Seq(Nat)
    PROVE  ReadsBoth(a, b, tail)
<1> DEFINE r == Peers!PackDns(<<a, b>>, tail)
           got == Peers!ParseDisc(r)
           panic == [outcome |-> "panic", meta |-> {}]
<1>1. Packed(r, m, k, Len(tail), a, b)
  BY PackedTwo
<1> HIDE DEF r
<1>2. ReadsTwo(r, 24 + m + k, a, b)
  <2> DEFINE more == Len(tail)
  <2>1. more \in Nat
    OBVIOUS
  <2> HIDE DEF more, got, panic
  <2>2. Packed(r, m, k, more, a, b)
    BY <1>1 DEF more
  <2> QED
    BY <2>1, <2>2, ReadTwo
<1>3. Peers!Head5 + r.mlen + 2 = 24 + m + k
  <2>1. r.mlen = 17 + m + k
    BY <1>1, Zenon DEF Packed
  <2>2. 5 + (17 + m + k) + 2 = 24 + m + k
    BY DEF Sizes
  <2> QED
    BY <2>1, <2>2, Zenon DEF Peers!Head5
<1>4. got = panic \/ got.meta = {a, b}
  BY <1>2, <1>3, Zenon DEF Peers!ParseDisc, ReadsTwo
<1>5. got.outcome = "ok" => got.meta = {a, b}
  <2> HIDE DEF got
  <2> QED
    BY <1>4
<1> QED
  BY <1>5, Zenon DEF r, ReadsBoth

-----------------------------------------------------------------------------
(* The devices *)

Records == [ssid : Peers!Nets \cup {Peers!NoNet}, psk : Peers!Nets \cup {Peers!NoNet}]

PeersType ==
    /\ net \in [Devices -> 1 .. MaxNets]
    /\ P2PByMAC \in [Devices -> Records]
    /\ P2PBySSID \in [Peers!Nets -> Devices \cup {NoDevice}]
    /\ scan.lines \in Seq(Peers!Nets)
    /\ scan.found \in Seq(Peers!Nets \X (Devices \cup {NoDevice}))

\* A record with a passphrase names its own device twice, and the same network
\* twice until the device changes it.
OwnRecord ==
    \A d \in Devices :
        P2PByMAC[d].psk # Peers!NoNet =>
            /\ P2PByMAC[d].psk[1] = d /\ P2PByMAC[d].ssid[1] = d
            /\ P2PByMAC[d].psk = P2PByMAC[d].ssid \/ d \in moved

\* What is found by a name is the record of its device, whose passphrase is that of
\* the name until the device changes its network.
OwnName ==
    \A n \in Peers!Nets :
        P2PBySSID[n] # NoDevice =>
            /\ P2PBySSID[n] = n[1] /\ P2PByMAC[n[1]].psk # Peers!NoNet
            /\ P2PByMAC[n[1]].psk = n \/ n[1] \in moved

\* What was posted: the first part of StatusConsistent.
Consistent(e) ==
    e.psk # Peers!NoNet =>
        e.psk[1] = e.ssid[1] /\ (e.psk = e.ssid \/ e.ssid[1] \in moved)

PostedOK == \A e \in posted : Consistent(e)

PeersInv == PeersType /\ OwnRecord /\ OwnName /\ PostedOK

\* A network has a device, which NoNet does not have.
LEMMA NetFacts ==
    /\ \A n \in Peers!Nets : n[1] \in Devices /\ n # Peers!NoNet /\ n[1] # NoDevice
    /\ \A d \in Devices, i \in 1 .. MaxNets :
          <<d, i>> \in Peers!Nets /\ <<d, i>>[1] = d /\ <<d, i>> # Peers!NoNet
BY LinuxAssumption DEF LinuxAssumption, Peers!Nets, Peers!NoNet

\* A response that is parsed to its end gives the name and the passphrase of the
\* network the device had when it sent it.
LEMMA ResponseRead ==
    ASSUME NEW d, NEW tail \in Tails, NEW r \in Peers!Response(d, tail),
           Peers!ParseDisc(r).outcome = "ok"
    PROVE  /\ Peers!Value(Peers!ParseDisc(r).meta, "s") = <<d, net[d]>>
           /\ Peers!Value(Peers!ParseDisc(r).meta, "p") = <<d, net[d]>>
<1> DEFINE n == <<d, net[d]>>
           p == [key |-> "p", val |-> n, size |-> 10]
           s == [key |-> "s", val |-> n, size |-> 24]
<1>1. r = Peers!PackDns(<<p, s>>, tail) \/ r = Peers!PackDns(<<s, p>>, tail)
  BY Zenon DEF Peers!Response, Peers!Field
<1>2. tail \in Seq(Nat)
  BY LinuxAssumption, Zenon DEF LinuxAssumption
<1>3. p.size = 10 /\ s.size = 24 /\ 10 \in Sizes /\ 24 \in Sizes
  BY DEF Sizes
<1>4. p.key = "p" /\ p.val = n /\ s.key = "s" /\ s.val = n /\ "p" # "s"
  OBVIOUS
<1> HIDE DEF p, s, n
<1>5. Peers!ParseDisc(r).meta = {p, s}
  <2>1. CASE r = Peers!PackDns(<<p, s>>, tail)
    <3>1. ReadsBoth(p, s, tail)
      BY <1>2, <1>3, ParsedTwo
    <3> QED
      BY <2>1, <3>1, Zenon DEF ReadsBoth
  <2>2. CASE r = Peers!PackDns(<<s, p>>, tail)
    <3>1. ReadsBoth(s, p, tail)
      BY <1>2, <1>3, ParsedTwo
    <3>2. {s, p} = {p, s}
      OBVIOUS
    <3> QED
      BY <2>2, <3>1, <3>2, Zenon DEF ReadsBoth
  <2> QED
    BY <1>1, <2>1, <2>2
<1>6. Peers!Value({p, s}, "s") = n /\ Peers!Value({p, s}, "p") = n
  <2>1. (CHOOSE f \in {p, s} : f.key = "s") = s /\ (CHOOSE f \in {p, s} : f.key = "p") = p
    BY <1>4
  <2> QED
    BY <1>4, <2>1, Zenon DEF Peers!Value
<1> QED
  BY <1>5, <1>6 DEF n

-----------------------------------------------------------------------------
(* Steps *)

\* Initially no device is known.
LEMMA PeersInit == MCInit => PeersInv
<1> SUFFICES ASSUME Peers!PeersInit PROVE PeersInv
  BY DEF MCInit
<1>1. PeersType
  <2>1. 1 \in 1 .. MaxNets
    BY LinuxAssumption DEF LinuxAssumption
  <2>2. scan.lines = <<>> /\ scan.found = <<>>
    BY DEF Peers!PeersInit, Peers!NoScan
  <2> QED
    BY <2>1, <2>2 DEF Peers!PeersInit, PeersType, Records, Peers!NoRecord
<1>2. OwnRecord /\ OwnName /\ PostedOK
  BY DEF Peers!PeersInit, OwnRecord, OwnName, PostedOK, Peers!NoRecord
<1> QED
  BY <1>1, <1>2 DEF PeersInv

\* A device that starts its group again changes nothing that is known of it.
LEMMA NewNetKeeps ==
    ASSUME PeersInv, NEW d \in Devices, Peers!NewNet(d)
    PROVE  PeersInv'
<1>1. net' \in [Devices -> 1 .. MaxNets]
  BY LinuxAssumption DEF PeersInv, PeersType, Peers!NewNet, LinuxAssumption
<1> QED
  BY <1>1, Zenon DEF PeersInv, PeersType, OwnRecord, OwnName, PostedOK, Consistent,
                     Peers!NewNet

\* A response gives the record one network as name and as key.  A name that finds
\* the record and is not this network was the key of it before, unless the device
\* had moved already: then it moves now.
LEMMA ServDiscRespKeeps ==
    ASSUME PeersInv, NEW d \in Devices, Peers!ServDiscResp(d)
    PROVE  PeersInv'
<1> DEFINE n == <<d, net[d]>>
           rec == [ssid |-> n, psk |-> n]
<1>1. /\ P2PByMAC' = [P2PByMAC EXCEPT ![d] = rec]
      /\ P2PBySSID' = [i \in Peers!Nets |-> IF i = rec.ssid THEN d ELSE P2PBySSID[i]]
      /\ moved' = IF P2PByMAC[d].ssid \in {Peers!NoNet, rec.ssid} THEN moved
                  ELSE moved \cup {d}
      /\ UNCHANGED <<net, scan, posted>>
  <2>1. PICK tail \in Tails : \E r \in Peers!Response(d, tail) :
           LET got == Peers!ParseDisc(r)
               new == [ssid |-> Peers!Value(got.meta, "s"),
                       psk |-> Peers!Value(got.meta, "p")]
           IN  /\ got.outcome = "ok"
               /\ P2PByMAC' = [P2PByMAC EXCEPT ![d] = new]
               /\ P2PBySSID' = [i \in Peers!Nets |->
                                   IF i = new.ssid THEN d ELSE P2PBySSID[i]]
               /\ moved' = IF P2PByMAC[d].ssid \in {Peers!NoNet, new.ssid} THEN moved
                           ELSE moved \cup {d}
    BY Zenon DEF Peers!ServDiscResp
  <2>2. PICK r \in Peers!Response(d, tail) :
           LET got == Peers!ParseDisc(r)
               new == [ssid |-> Peers!Value(got.meta, "s"),
                       psk |-> Peers!Value(got.meta, "p")]
           IN  /\ got.outcome = "ok"
               /\ P2PByMAC' = [P2PByMAC EXCEPT ![d] = new]
               /\ P2PBySSID' = [i \in Peers!Nets |->
                                   IF i = new.ssid THEN d ELSE P2PBySSID[i]]
               /\ moved' = IF P2PByMAC[d].ssid \in {Peers!NoNet, new.ssid} THEN moved
                           ELSE moved \cup {d}
    BY <2>1, Zenon
  <2>3. /\ Peers!Value(Peers!ParseDisc(r).meta, "s") = n
        /\ Peers!Value(Peers!ParseDisc(r).meta, "p") = n
    BY <2>2, ResponseRead
  <2>4. UNCHANGED <<net, scan, posted>>
    BY Zenon DEF Peers!ServDiscResp
  <2> HIDE DEF n
  <2> QED
    BY <2>2, <2>3, <2>4, Zenon
<1>2. n \in Peers!Nets /\ n[1] = d /\ n # Peers!NoNet
  BY NetFacts DEF PeersInv, PeersType
<1> HIDE DEF n
<1>3. rec \in Records /\ rec.ssid = n /\ rec.psk = n
  BY <1>2 DEF Records
<1> HIDE DEF rec
<1>4. /\ P2PByMAC'[d] = rec /\ P2PByMAC' \in [Devices -> Records]
      /\ \A e \in Devices : e # d => P2PByMAC'[e] = P2PByMAC[e]
  BY <1>1, <1>3 DEF PeersInv, PeersType
<1>5. /\ P2PBySSID'[n] = d /\ P2PBySSID' \in [Peers!Nets -> Devices \cup {NoDevice}]
      /\ \A i \in Peers!Nets : i # n => P2PBySSID'[i] = P2PBySSID[i]
  BY <1>1, <1>2, <1>3 DEF PeersInv, PeersType
<1>6. /\ moved \subseteq moved'
      /\ d \in moved' \/ P2PByMAC[d].ssid = Peers!NoNet \/ P2PByMAC[d].ssid = n
  BY <1>1, <1>3
<1>7. PeersType'
  BY <1>1, <1>4, <1>5 DEF PeersInv, PeersType
<1>8. OwnRecord'
  <2> SUFFICES ASSUME NEW e \in Devices, P2PByMAC'[e].psk # Peers!NoNet
               PROVE  /\ P2PByMAC'[e].psk[1] = e /\ P2PByMAC'[e].ssid[1] = e
                      /\ P2PByMAC'[e].psk = P2PByMAC'[e].ssid \/ e \in moved'
    BY DEF OwnRecord
  <2>1. CASE e = d
    BY <1>2, <1>3, <1>4, <2>1, Zenon
  <2>2. CASE e # d
    BY <1>4, <1>6, <2>2, Zenon DEF PeersInv, OwnRecord
  <2> QED
    BY <2>1, <2>2
<1>9. OwnName'
  <2> SUFFICES ASSUME NEW i \in Peers!Nets, P2PBySSID'[i] # NoDevice
               PROVE  /\ P2PBySSID'[i] = i[1] /\ P2PByMAC'[i[1]].psk # Peers!NoNet
                      /\ P2PByMAC'[i[1]].psk = i \/ i[1] \in moved'
    BY DEF OwnName
  <2>1. CASE i = n
    BY <1>2, <1>3, <1>4, <1>5, <2>1, Zenon
  <2>2. CASE i # n
    <3>1. P2PBySSID[i] # NoDevice /\ P2PBySSID'[i] = P2PBySSID[i]
      BY <1>5, <2>2
    <3>2. /\ P2PBySSID[i] = i[1] /\ P2PByMAC[i[1]].psk # Peers!NoNet
          /\ P2PByMAC[i[1]].psk = i \/ i[1] \in moved
      BY <3>1, Zenon DEF PeersInv, OwnName
    <3>3. CASE i[1] = d
      <4>1. d \in moved \/ P2PByMAC[d].ssid = i
        BY <3>2, <3>3, Zenon DEF PeersInv, OwnRecord
      <4>2. d \in moved'
        <5>1. i # Peers!NoNet
          BY NetFacts
        <5> QED
          BY <1>6, <2>2, <4>1, <5>1, Zenon
      <4> QED
        BY <1>2, <1>3, <1>4, <3>1, <3>2, <3>3, <4>2, Zenon
    <3>4. CASE i[1] # d
      <4>1. i[1] \in Devices
        BY NetFacts
      <4> QED
        BY <1>4, <1>6, <3>1, <3>2, <3>4, <4>1, Zenon
    <3> QED
      BY <3>3, <3>4
  <2> QED
    BY <2>1, <2>2
<1>10. PostedOK'
  BY <1>1, <1>6, Zenon DEF PeersInv, PostedOK, Consistent
<1> QED
  BY <1>7, <1>8, <1>9, <1>10 DEF PeersInv

\* The end of the process leaves what was posted.
LEMMA ProcessEndKeeps ==
    ASSUME PeersInv, UNCHANGED <<net, P2PByMAC, P2PBySSID, scan, posted, moved>>
    PROVE  PeersInv'
BY Zenon DEF PeersInv, PeersType, OwnRecord, OwnName, PostedOK, Consistent

\* A scan lists networks there are or were.
LEMMA ScanResultsKeeps ==
    ASSUME PeersInv, Peers!ScanResults
    PROVE  PeersInv'
<1>1. PICK a \in Peers!Nets, b \in Peers!Nets :
         scan' = [lines |-> <<a, b>>, found |-> <<>>, on |-> TRUE]
  BY Zenon DEF Peers!ScanResults
<1>2. <<a, b>> \in Seq(Peers!Nets)
  OBVIOUS
<1>3. scan'.lines \in Seq(Peers!Nets) /\ scan'.found = <<>>
  BY <1>1, <1>2
<1>4. scan'.found \in Seq(Peers!Nets \X (Devices \cup {NoDevice}))
  BY <1>3
<1>5. UNCHANGED <<net, P2PByMAC, P2PBySSID, posted, moved>>
  BY Zenon DEF Peers!ScanResults
<1> QED
  BY <1>3, <1>4, <1>5, Zenon DEF PeersInv, PeersType, OwnRecord, OwnName, PostedOK,
                                 Consistent

\* The name a line gives a record belongs to its device, and is not that of its
\* passphrase only if the device moved.
LEMMA ScanLineKeeps ==
    ASSUME PeersInv, Peers!ScanLine
    PROVE  PeersInv'
<1> DEFINE n == Head(scan.lines)
           d == P2PBySSID[n]
<1>1. /\ scan.lines # <<>>
      /\ P2PByMAC' = IF d = NoDevice THEN P2PByMAC ELSE [P2PByMAC EXCEPT ![d].ssid = n]
      /\ scan' = [scan EXCEPT !.lines = Tail(@), !.found = Append(@, <<n, d>>)]
      /\ UNCHANGED <<net, P2PBySSID, posted, moved>>
  BY Zenon DEF Peers!ScanLine
<1>2. n \in Peers!Nets /\ d \in Devices \cup {NoDevice}
  <2>1. n \in Peers!Nets
    BY <1>1 DEF PeersInv, PeersType
  <2> HIDE DEF n
  <2> QED
    BY <2>1 DEF PeersInv, PeersType
<1>3. Tail(scan.lines) \in Seq(Peers!Nets)
  BY <1>1 DEF PeersInv, PeersType
<1> HIDE DEF n, d
<1>4. /\ scan'.lines \in Seq(Peers!Nets)
      /\ scan'.found \in Seq(Peers!Nets \X (Devices \cup {NoDevice}))
  <2>1. Append(scan.found, <<n, d>>) \in Seq(Peers!Nets \X (Devices \cup {NoDevice}))
    BY <1>2 DEF PeersInv, PeersType
  <2>2. scan'.lines = Tail(scan.lines) /\ scan'.found = Append(scan.found, <<n, d>>)
    BY <1>1
  <2> QED
    BY <1>3, <2>1, <2>2
<1>5. CASE d = NoDevice
  <2>1. P2PByMAC' = P2PByMAC
    BY <1>1, <1>5
  <2> QED
    BY <1>1, <1>4, <2>1, Zenon DEF PeersInv, PeersType, OwnRecord, OwnName, PostedOK,
                                   Consistent
<1>6. CASE d # NoDevice
  <2>1. /\ d \in Devices /\ d = n[1] /\ P2PByMAC[d].psk # Peers!NoNet
        /\ P2PByMAC[d].psk = n \/ d \in moved
    BY <1>2, <1>6, Zenon DEF d, PeersInv, OwnName
  <2>2. P2PByMAC' = [P2PByMAC EXCEPT ![d] = [ssid |-> n, psk |-> P2PByMAC[d].psk]]
    <3>1. P2PByMAC[d] \in Records
      BY <2>1 DEF PeersInv, PeersType
    <3>2. [P2PByMAC[d] EXCEPT !.ssid = n] = [ssid |-> n, psk |-> P2PByMAC[d].psk]
      BY <3>1 DEF Records
    <3>3. P2PByMAC' = [P2PByMAC EXCEPT ![d] = [P2PByMAC[d] EXCEPT !.ssid = n]]
      BY <1>1, <1>6
    <3> QED
      BY <3>2, <3>3, Zenon
  <2>3. /\ P2PByMAC'[d].ssid = n /\ P2PByMAC'[d].psk = P2PByMAC[d].psk
        /\ P2PByMAC' \in [Devices -> Records]
        /\ \A e \in Devices : e # d => P2PByMAC'[e] = P2PByMAC[e]
    BY <1>2, <2>1, <2>2 DEF PeersInv, PeersType, Records
  <2>4. PeersType'
    BY <1>1, <1>4, <2>3 DEF PeersInv, PeersType
  <2>5. OwnRecord'
    <3> SUFFICES ASSUME NEW e \in Devices, P2PByMAC'[e].psk # Peers!NoNet
                 PROVE  /\ P2PByMAC'[e].psk[1] = e /\ P2PByMAC'[e].ssid[1] = e
                        /\ P2PByMAC'[e].psk = P2PByMAC'[e].ssid \/ e \in moved'
      BY DEF OwnRecord
    <3>1. CASE e = d
      BY <1>1, <2>1, <2>3, <3>1, Zenon DEF PeersInv, OwnRecord
    <3>2. CASE e # d
      BY <1>1, <2>3, <3>2, Zenon DEF PeersInv, OwnRecord
    <3> QED
      BY <3>1, <3>2
  <2>6. OwnName'
    <3>1. \A e \in Devices : P2PByMAC'[e].psk = P2PByMAC[e].psk
      BY <2>3, Zenon
    <3>2. \A i \in Peers!Nets : i[1] \in Devices
      BY NetFacts
    <3> QED
      BY <1>1, <3>1, <3>2, Zenon DEF PeersInv, OwnName
  <2>7. PostedOK'
    BY <1>1, Zenon DEF PeersInv, PostedOK, Consistent
  <2> QED
    BY <2>4, <2>5, <2>6, <2>7 DEF PeersInv
<1> QED
  BY <1>5, <1>6

\* What is posted are records, and networks without a passphrase.
LEMMA PostStatusKeeps ==
    ASSUME PeersInv, Peers!PostStatus
    PROVE  PeersInv'
<1> DEFINE Entry(f) == IF f[2] = NoDevice THEN [ssid |-> f[1], psk |-> Peers!NoNet]
                       ELSE P2PByMAC[f[2]]
<1>1. /\ posted' = {Entry(scan.found[i]) : i \in DOMAIN scan.found}
      /\ scan' = Peers!NoScan
      /\ UNCHANGED <<net, P2PByMAC, P2PBySSID, moved>>
  BY Zenon DEF Peers!PostStatus
<1>2. \A i \in DOMAIN scan.found : Consistent(Entry(scan.found[i]))
  <2> SUFFICES ASSUME NEW i \in DOMAIN scan.found
               PROVE  Consistent(Entry(scan.found[i]))
    BY Zenon
  <2> DEFINE f == scan.found[i]
  <2>1. f \in Peers!Nets \X (Devices \cup {NoDevice})
    BY DEF PeersInv, PeersType
  <2>2. f[2] \in Devices \cup {NoDevice}
    <3> HIDE DEF f
    <3> QED
      BY <2>1
  <2> HIDE DEF f
  <2>3. CASE f[2] = NoDevice
    <3>1. Entry(f) = [ssid |-> f[1], psk |-> Peers!NoNet]
      BY <2>3, Zenon
    <3>2. Entry(f).psk = Peers!NoNet
      <4> HIDE DEF Entry
      <4> QED
        BY <3>1
    <3> QED
      BY <3>2, Zenon DEF Consistent, f
  <2>4. CASE f[2] # NoDevice
    <3>1. Entry(f) = P2PByMAC[f[2]] /\ f[2] \in Devices
      BY <2>2, <2>4, Zenon
    <3> HIDE DEF Entry
    <3>2. Consistent(Entry(f))
      BY <3>1, Zenon DEF Consistent, PeersInv, OwnRecord
    <3> QED
      BY <3>2, Zenon DEF f
  <2> QED
    BY <2>3, <2>4
<1>3. PostedOK'
  <2> HIDE DEF Entry
  <2> QED
    BY <1>1, <1>2, Zenon DEF PostedOK, Consistent
<1>4. /\ scan'.lines \in Seq(Peers!Nets)
      /\ scan'.found \in Seq(Peers!Nets \X (Devices \cup {NoDevice}))
  <2>1. scan'.lines = <<>> /\ scan'.found = <<>>
    BY <1>1 DEF Peers!NoScan
  <2> QED
    BY <2>1
<1> HIDE DEF Entry
<1> QED
  BY <1>1, <1>3, <1>4, Zenon DEF PeersInv, PeersType, OwnRecord, OwnName

\* A process that starts again knows nothing and has posted nothing.
LEMMA RestartKeeps ==
    ASSUME PeersInv, Peers!Restart
    PROVE  PeersInv'
<1>1. PeersType'
  <2>1. scan'.lines = <<>> /\ scan'.found = <<>>
    BY DEF Peers!Restart, Peers!NoScan
  <2> QED
    BY <2>1 DEF PeersInv, PeersType, Peers!Restart, Records, Peers!NoRecord
<1>2. OwnRecord' /\ OwnName' /\ PostedOK'
  BY DEF Peers!Restart, OwnRecord, OwnName, PostedOK, Peers!NoRecord
<1> QED
  BY <1>1, <1>2 DEF PeersInv

-----------------------------------------------------------------------------
(* The theorems *)

\* Every step of the stream reader, of a scan or of a device keeps the records of
\* P2PByMAC, the names of P2PBySSID and the posted entries in agreement.
THEOREM PeersInvHolds == MCSpec => []PeersInv
<1> DEFINE v == <<vars, peerVars, groupVars, nanVars, part>>
<1>1. MCInit => PeersInv
  BY PeersInit
<1>2. PeersInv /\ [MCNext]_v => PeersInv'
  <2> SUFFICES ASSUME PeersInv, [MCNext]_v
               PROVE  PeersInv'
    OBVIOUS
  <2>1. CASE UNCHANGED peerVars
    <3>1. UNCHANGED <<net, P2PByMAC, P2PBySSID, scan, posted, moved>>
      BY <2>1 DEF peerVars
    <3> QED
      BY <3>1, ProcessEndKeeps
  <2>2. CASE Peers!PeersNext
    <3>1. CASE Peers!ScanResults
      BY <3>1, ScanResultsKeeps
    <3>2. CASE Peers!ScanLine
      BY <3>2, ScanLineKeeps
    <3>3. CASE Peers!PostStatus
      BY <3>3, PostStatusKeeps
    <3>4. CASE Peers!MapRace
      <4>1. UNCHANGED <<net, P2PByMAC, P2PBySSID, scan, posted, moved>>
        BY <3>4 DEF Peers!MapRace
      <4> QED
        BY <4>1, ProcessEndKeeps
    <3>5. CASE Peers!Restart
      BY <3>5, RestartKeeps
    <3>6. ASSUME NEW d \in Devices, Peers!NewNet(d) PROVE PeersInv'
      BY <3>6, NewNetKeeps
    <3>7. ASSUME NEW d \in Devices, Peers!ServDiscResp(d) PROVE PeersInv'
      BY <3>7, ServDiscRespKeeps
    <3>8. ASSUME NEW d \in Devices, Peers!ServDiscPanic(d) PROVE PeersInv'
      <4>1. UNCHANGED <<net, P2PByMAC, P2PBySSID, scan, posted, moved>>
        BY <3>8 DEF Peers!ServDiscPanic
      <4> QED
        BY <4>1, ProcessEndKeeps
    <3> QED
      BY <2>2, <3>1, <3>2, <3>3, <3>4, <3>5, <3>6, <3>7, <3>8 DEF Peers!PeersNext
  <2> QED
    BY <2>1, <2>2, Zenon DEF MCNext
<1> QED
  BY <1>1, <1>2, PTL DEF MCSpec

\* StatusConsistent, for any number of devices, networks and scans: a network is
\* posted with its own passphrase, or with one of its device when that moved, or
\* with none, and a network that is found by its name has a passphrase.
THEOREM StatusConsistentHolds == MCSpec => []StatusConsistent
<1>1. PeersInv => StatusConsistent
  <2> SUFFICES ASSUME PeersInv PROVE Peers!StatusConsistent
    BY DEF StatusConsistent
  <2>1. \A e \in posted :
           e.psk # Peers!NoNet =>
               e.psk[1] = e.ssid[1] /\ (e.psk = e.ssid \/ e.ssid[1] \in moved)
    BY Zenon DEF PeersInv, PostedOK, Consistent
  <2>2. ASSUME NEW n \in Peers!Nets, P2PBySSID[n] # NoDevice
        PROVE  P2PByMAC[P2PBySSID[n]].psk[1] = n[1]
    <3>1. P2PBySSID[n] = n[1] /\ P2PByMAC[n[1]].psk # Peers!NoNet
      BY <2>2, Zenon DEF PeersInv, OwnName
    <3>2. n[1] \in Devices
      BY NetFacts
    <3> QED
      BY <3>1, <3>2, Zenon DEF PeersInv, OwnRecord
  <2> QED
    BY <2>1, <2>2, Zenon DEF Peers!StatusConsistent
<1> QED
  BY <1>1, PeersInvHolds, PTL

-----------------------------------------------------------------------------
(* The group and its DHCP server *)

Reported == [type : {"P2P-GROUP-STARTED", "P2P-GROUP-REMOVED"}, group : Nat]

\* The event that reports group g.
Start(g) == [type |-> "P2P-GROUP-STARTED", group |-> g]

GroupType ==
    /\ group \in Nat /\ made \in Nat /\ events \in Seq(Reported)
    /\ handling \in BOOLEAN /\ timers \in Nat /\ starting \in Nat

\* The last event that waits is the start of the group there is; when none waits
\* the reader has its interface.
Followed ==
    group # 0 =>
        IF events = <<>> THEN p2pGroupInterface = group
        ELSE events[Len(events)] = Start(group)

\* A group without a server, where none could not be started either, has an event
\* that waits, the reader in OnP2PGroupStart, a timer or a goroutine: whichever of
\* them comes last reads the interface of this group.
ServerUnderWay ==
    group # 0 /\ group \notin servers \cup failed =>
        \/ events # <<>>
        \/ p2pGroupInterface = group /\ (handling \/ timers > 0 \/ starting > 0)

GroupInv == GroupType /\ Followed /\ ServerUnderWay

\* What a queue becomes when an event is put at its end.
LEMMA AppendFacts ==
    ASSUME NEW e \in Reported, events \in Seq(Reported), events' = Append(events, e)
    PROVE  /\ events' \in Seq(Reported) /\ events' # <<>>
           /\ events'[Len(events')] = e
OBVIOUS

\* What it becomes when the first one is taken.
LEMMA TailFacts ==
    ASSUME events \in Seq(Reported), events # <<>>, events' = Tail(events)
    PROVE  /\ events' \in Seq(Reported) /\ Head(events) \in Reported
           /\ events' # <<>> => events'[Len(events')] = events[Len(events)]
           /\ events' = <<>> => Head(events) = events[Len(events)]
<1>1. Len(events) \in Nat /\ Len(events) >= 1 /\ Head(events) = events[1]
  OBVIOUS
<1>2. /\ events' \in Seq(Reported) /\ Len(events') = Len(events) - 1
      /\ \A i \in 1 .. Len(events') : events'[i] = events[i + 1]
  OBVIOUS
<1>3. Head(events) \in Reported
  OBVIOUS
<1>4. CASE events' = <<>>
  <2>0. Len(<<>>) = 0
    OBVIOUS
  <2>1. Len(events') = 0
    BY <1>4, <2>0, Zenon
  <2>2. Len(events) = 1
    BY <1>1, <1>2, <2>1
  <2>3. Head(events) = events[Len(events)]
    BY <1>1, <2>2
  <2> QED
    BY <1>2, <1>3, <1>4, <2>3, Zenon
<1>5. CASE events' # <<>>
  <2>1. Len(events') \in 1 .. Len(events')
    BY <1>1, <1>2, <1>5
  <2>2. events'[Len(events')] = events[Len(events') + 1] /\ Len(events') + 1 = Len(events)
    BY <1>1, <1>2, <2>1
  <2> QED
    BY <1>2, <1>3, <1>5, <2>2
<1> QED
  BY <1>4, <1>5

\* wpa_supplicant makes a group.
LEMMA CreatedKeeps == ASSUME GroupInv, Group!GroupCreated PROVE GroupInv'
<1>1. Start(made + 1) \in Reported
  BY DEF GroupInv, GroupType, Reported, Start
<1>2. events' = Append(events, Start(made + 1))
  BY DEF Group!GroupCreated, Group!Event, Start
<1>3. /\ events' \in Seq(Reported) /\ events' # <<>>
      /\ events'[Len(events')] = Start(made + 1)
  BY <1>1, <1>2, AppendFacts DEF GroupInv, GroupType
<1>4. GroupType'
  BY <1>3 DEF GroupInv, GroupType, Group!GroupCreated, Group!serverVars
<1> QED
  BY <1>3, <1>4 DEF GroupInv, Followed, ServerUnderWay, Group!GroupCreated

\* wpa_supplicant removes the group.
LEMMA RemovedKeeps == ASSUME GroupInv, Group!GroupRemoved PROVE GroupInv'
<1> DEFINE e == [type |-> "P2P-GROUP-REMOVED", group |-> group]
<1>1. e \in Reported
  BY DEF GroupInv, GroupType, Reported
<1>2. events' = Append(events, e)
  BY DEF Group!GroupRemoved, Group!Event
<1>3. events' \in Seq(Reported)
  BY <1>1, <1>2, AppendFacts DEF GroupInv, GroupType
<1>4. GroupType'
  BY <1>3 DEF GroupInv, GroupType, Group!GroupRemoved, Group!serverVars
<1> QED
  BY <1>4 DEF GroupInv, Followed, ServerUnderWay, Group!GroupRemoved

\* The reader takes an event.  When it is the last one it is the start of the group
\* there is, if there is one: the end of an earlier group never clears its interface.
LEMMA ReaderKeeps ==
    ASSUME GroupInv, Group!OnP2PGroupStart \/ Group!OnP2PGroupStop
    PROVE  GroupInv'
<1>1. events # <<>> /\ events' = Tail(events)
  BY DEF Group!OnP2PGroupStart, Group!OnP2PGroupStop, Group!Reads
<1>2. /\ events' \in Seq(Reported) /\ Head(events) \in Reported
      /\ events' # <<>> => events'[Len(events')] = events[Len(events)]
      /\ events' = <<>> => Head(events) = events[Len(events)]
  BY <1>1, TailFacts DEF GroupInv, GroupType
<1>3. group' = group /\ GroupType'
  BY <1>2 DEF GroupInv, GroupType, Group!OnP2PGroupStart, Group!OnP2PGroupStop,
              Group!serverVars
<1>4. CASE group = 0 \/ events' # <<>>
  BY <1>1, <1>2, <1>3, <1>4 DEF GroupInv, Followed, ServerUnderWay
<1>5. CASE group # 0 /\ events' = <<>>
  <2>1. Head(events) = Start(group)
    BY <1>1, <1>2, <1>5 DEF GroupInv, Followed
  <2>2. Head(events).type = "P2P-GROUP-STARTED" /\ Head(events).group = group
    BY <2>1 DEF Start
  <2>3. p2pGroupInterface' = group /\ handling' = TRUE
    BY <2>2 DEF Group!OnP2PGroupStart, Group!OnP2PGroupStop, Group!Reads
  <2> QED
    BY <1>3, <1>5, <2>3 DEF GroupInv, Followed, ServerUnderWay
<1> QED
  BY <1>4, <1>5

\* The rest of OnP2PGroupStart leaves a timer.
LEMMA AddServiceKeeps == ASSUME GroupInv, Group!AddService PROVE GroupInv'
<1>1. timers' = timers + 1 /\ timers' \in Nat /\ timers' > 0
  BY DEF GroupInv, GroupType, Group!AddService
<1>2. UNCHANGED <<group, made, events, p2pGroupInterface, starting, servers, failed>>
  BY DEF Group!AddService
<1>3. handling' = FALSE
  BY DEF Group!AddService
<1> QED
  BY <1>1, <1>2, <1>3 DEF GroupInv, GroupType, Followed, ServerUnderWay

\* A timer of any group starts a server for the one there is.
LEMMA TimerKeeps == ASSUME GroupInv, Group!TimerFires PROVE GroupInv'
<1>1. UNCHANGED <<group, made, events, handling, p2pGroupInterface, servers, failed>>
  BY DEF Group!TimerFires
<1>2. timers' \in Nat /\ starting' \in Nat
  BY DEF GroupInv, GroupType, Group!TimerFires
<1>3. p2pGroupInterface # 0 => starting' > 0
  BY DEF GroupInv, GroupType, Group!TimerFires
<1> QED
  BY <1>1, <1>2, <1>3 DEF GroupInv, GroupType, Followed, ServerUnderWay

\* DhcpServer serves the interface that is set, or fails on it.
LEMMA DhcpServerKeeps == ASSUME GroupInv, Group!DhcpServer PROVE GroupInv'
<1>1. UNCHANGED <<group, made, events, handling, p2pGroupInterface, timers>>
  BY DEF Group!DhcpServer
<1>2. /\ starting' \in Nat /\ p2pGroupInterface \in servers' \cup failed'
      /\ servers \cup failed \subseteq servers' \cup failed'
  BY DEF GroupInv, GroupType, Group!DhcpServer
<1> QED
  BY <1>1, <1>2 DEF GroupInv, GroupType, Followed, ServerUnderWay

\* However groups come and go and whichever timers and goroutines of earlier ones
\* are left, a group is never forgotten: until it has a DHCP server, or starting one
\* on it failed, a step that leads there is still to come.  (That it comes is
\* ServedGroup.)
THEOREM ServerUnderWayHolds == MCSpec => []ServerUnderWay
<1> DEFINE v == <<vars, peerVars, groupVars, nanVars, part>>
<1>1. MCInit => GroupInv
  <2> SUFFICES ASSUME Group!GroupInit PROVE GroupInv
    BY DEF MCInit
  <2>1. <<>> \in Seq(Reported)
    OBVIOUS
  <2> QED
    BY <2>1 DEF Group!GroupInit, GroupInv, GroupType, Followed, ServerUnderWay
<1>2. GroupInv /\ [MCNext]_v => GroupInv'
  <2> SUFFICES ASSUME GroupInv, [MCNext]_v
               PROVE  GroupInv'
    OBVIOUS
  <2>1. CASE UNCHANGED groupVars
    BY <2>1 DEF groupVars, GroupInv, GroupType, Followed, ServerUnderWay
  <2>2. CASE Group!GroupNext
    BY <2>2, CreatedKeeps, RemovedKeeps, ReaderKeeps, AddServiceKeeps, TimerKeeps,
       DhcpServerKeeps DEF Group!GroupNext
  <2> QED
    BY <2>1, <2>2, Zenon DEF MCNext
<1>3. GroupInv => ServerUnderWay
  BY DEF GroupInv
<1> QED
  BY <1>1, <1>2, <1>3, PTL DEF MCSpec
============================================================================
