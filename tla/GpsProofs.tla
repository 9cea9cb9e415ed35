------------------------------- MODULE GpsProofs -------------------------------
(***************************************************************************)
(* The GPS receiver, for any number of epochs, satellites, faults and any  *)
(* size of the buffers.                                                    *)
(***************************************************************************)
EXTENDS Gps, TLAPS, WellFoundedInduction

-------------------------------------------------------------------------------
(* Recursion: the decoder as the steps it takes.                            *)

LEMMA SetInduction ==
  ASSUME NEW S \in SUBSET Nat, 0 \in S, \A n \in S : n + 1 \in S
  PROVE  \A n \in Nat : n \in S
<1> SUFFICES ASSUME Nat \ S # {} PROVE FALSE
  OBVIOUS
<1> DEFINE R == OpToRel(<, Nat)
<1>1. \A x, y \in Nat : <<x, y>> \in R <=> x < y
  BY DEF OpToRel
<1>2. IsWellFoundedOn(R, Nat) BY NatLessThanWellFounded
<1> HIDE DEF R
<1>3. PICK x \in Nat \ S : \A y \in Nat \ S : ~ (<<y, x>> \in R)
  BY <1>2, WFMin
<1>4. x # 0 /\ x - 1 \in Nat OBVIOUS
<1>5. <<x - 1, x>> \in R BY <1>1, <1>4
<1>6. x - 1 \in S BY <1>3, <1>4, <1>5
<1>7. (x - 1) + 1 = x OBVIOUS
<1> QED BY <1>3, <1>6, <1>7

(* m[i] is what the decoder has done after i of the characters.             *)
Run(m, r, cs) ==
  /\ m[0] = r
  /\ \A i \in 1..Len(cs) : m[i] = DecodeChar(m[i - 1], cs[i])

LEMMA DecodeRuns ==
  ASSUME NEW r, NEW cs, Len(cs) \in Nat
  PROVE  \E m : Run(m, r, cs) /\ GpsDecode(r, cs) = m[Len(cs)]
<1> DEFINE Only(q, i) == CHOOSE t \in {DecodeChar(p, cs[i]) : p \in {q}} : TRUE
           Is(f, n) == f = [i \in 0..n |-> IF i = 0 THEN r ELSE Only(f[i - 1], i)]
           S == {n \in Nat : \E f : Is(f, n)}
<1>1. ASSUME NEW q, NEW i PROVE Only(q, i) = DecodeChar(q, cs[i])
  <2>1. {DecodeChar(p, cs[i]) : p \in {q}} = {DecodeChar(q, cs[i])} OBVIOUS
  <2> QED BY <2>1
<1>2. Len(cs) \in S
  <2>1. 0 \in S
    <3>1. Is([i \in 0..0 |-> r], 0) OBVIOUS
    <3> QED BY <3>1
  <2>2. ASSUME NEW n \in S PROVE n + 1 \in S
    <3>1. PICK f : Is(f, n) OBVIOUS
    <3> DEFINE g == [i \in 0..(n + 1) |-> IF i = n + 1 THEN Only(f[n], i) ELSE f[i]]
    <3> HIDE DEF Only
    <3>2. \A i \in 0..n : g[i] = f[i] OBVIOUS
    <3>3. \A i \in 0..n : f[i] = IF i = 0 THEN r ELSE Only(f[i - 1], i) BY <3>1
    <3>4. ASSUME NEW i \in 0..(n + 1)
          PROVE  g[i] = IF i = 0 THEN r ELSE Only(g[i - 1], i)
      <4>1. CASE i = n + 1 BY <4>1, <3>2
      <4>2. CASE i \in 0..n
        <5>1. g[i] = f[i] BY <4>2, <3>2
        <5>2. CASE i = 0 BY <5>1, <5>2, <3>3
        <5>3. CASE i # 0
          <6>1. i - 1 \in 0..n /\ g[i - 1] = f[i - 1] BY <4>2, <5>3, <3>2
          <6> QED BY <5>1, <5>3, <6>1, <3>3, <4>2
        <5> QED BY <5>2, <5>3
      <4> QED BY <4>1, <4>2
    <3>5. Is(g, n + 1)
      <4> HIDE DEF g
      <4>1. g = [i \in 0..(n + 1) |-> g[i]] BY DEF g
      <4> QED BY <3>4, <4>1
    <3>6. n + 1 \in Nat OBVIOUS
    <3> HIDE DEF g, Is
    <3> QED BY <3>5, <3>6
  <2> HIDE DEF S
  <2>3. S \in SUBSET Nat BY DEF S
  <2> QED BY <2>1, <2>2, <2>3, SetInduction
<1>3. PICK f : Is(f, Len(cs)) BY <1>2
<1> DEFINE h == CHOOSE g : Is(g, Len(cs))
<1>4. Is(h, Len(cs)) BY <1>3
<1>5. GpsDecode(r, cs) = h[Len(cs)] BY DEF GpsDecode
<1>6. Run(h, r, cs)
  <2> HIDE DEF h, Only
  <2>1. \A i \in 0..Len(cs) : h[i] = IF i = 0 THEN r ELSE Only(h[i - 1], i) BY <1>4
  <2> QED BY <2>1, <1>1 DEF Run
<1> QED BY <1>5, <1>6

-------------------------------------------------------------------------------
(* The values of the variables.                                             *)

LineRecords == [id : Nat, s : Statements \cup {"TXT", "none"}, e : Nat, part : Nat,
                of : Nat, sats : Nat, fix : BOOLEAN]
Texts == [ln : LineRecords, k : Nat, n : Nat, ok : BOOLEAN]
Chars == [c : {"$", ",", "*", "\r", "text"}, t : Texts]
Values == [e : Nat, ok : BOOLEAN, m : Int, n : Nat]
GpsData == [f : [FieldNames -> Values],
            sats_desc_in_view : [0..(MaxView - 1) -> Values]]
Decoders == [item_pos : Nat, item_num : Nat, asterisk : BOOLEAN, crc : SUBSET Int,
             parsed_statement : SUBSET Statements, sat_num : Nat, sat_count : Nat,
             cur_statement : Statements \cup {Unknown}, item_str : Texts,
             parent : GpsData]
Kinds == {"GPS_UPDATE", "GPS_UNKNOWN"}
Results == [d : Decoders, posts : Seq(Kinds)]

LEMMA FieldsTable ==
  /\ DOMAIN Fields = {"GGA", "GSA", "RMC", "GLL", "VTG"}
  /\ Fields["GGA"] = GgaFields /\ Fields["GSA"] = GsaFields
  /\ Fields["RMC"] = RmcFields /\ Fields["GLL"] = GllFields
  /\ Fields["VTG"] = VtgFields
  BY DEF Fields

LEMMA StatementsAre == Statements = {"GGA", "GSA", "RMC", "GLL", "VTG", "GSV"}
  BY FieldsTable DEF Statements

LEMMA FieldsType ==
  ASSUME NEW s \in DOMAIN Fields, NEW k \in DOMAIN Fields[s]
  PROVE  k \in 1..17 /\ Fields[s][k] \in FieldNames \cup {"none"}
<1>1. CASE s = "GSA" BY <1>1, FieldsTable DEF GsaFields, FieldNames
<1>2. CASE s = "GGA" BY <1>2, FieldsTable DEF GgaFields, FieldNames
<1>3. CASE s = "RMC" BY <1>3, FieldsTable DEF RmcFields, FieldNames
<1>4. CASE s = "GLL" BY <1>4, FieldsTable DEF GllFields, FieldNames
<1>5. CASE s = "VTG" BY <1>5, FieldsTable DEF VtgFields, FieldNames
<1> QED BY <1>1, <1>2, <1>3, <1>4, <1>5, FieldsTable

LEMMA ConstantTexts ==
  /\ NoLine \in LineRecords /\ Dollar \in Texts /\ Empty \in Texts
  /\ Unset \in Values /\ Zeroed \in GpsData
  BY NmeaConstants DEF NoLine, LineRecords, Dollar, Empty, Texts, Text, Unset, Values,
    Zeroed, GpsData

(* What parse_item leaves alone.                                            *)
SameBut(d, e) ==
  /\ e.item_num = d.item_num /\ e.asterisk = d.asterisk /\ e.crc = d.crc
  /\ e.parsed_statement = d.parsed_statement /\ e.item_str = d.item_str

LEMMA ParseFieldsType ==
  ASSUME NEW d \in Decoders, d.cur_statement \in DOMAIN Fields
  PROVE  /\ ParseFields(d) \in Decoders
         /\ SameBut(d, ParseFields(d))
         /\ ParseFields(d).cur_statement = d.cur_statement
         /\ ParseFields(d).sat_num = d.sat_num
         /\ ParseFields(d).sat_count = d.sat_count
<1> DEFINE s == d.cur_statement
           k == d.item_num
           x == Fields[s][k]
           v == IF Adjusts(s, k) THEN Adjust(x, d.parent.f[x], d.item_str)
                ELSE ValueOf(d.item_str)
<1>1. CASE k \notin DOMAIN Fields[s] \/ x = "none"
  <2>1. ParseFields(d) = d BY <1>1 DEF ParseFields
  <2> QED BY <2>1 DEF SameBut
<1>2. CASE ~(k \notin DOMAIN Fields[s] \/ x = "none")
  <2>1. x \in FieldNames BY <1>2, FieldsType
  <2>2. d.parent \in GpsData /\ d.item_str \in Texts BY DEF Decoders
  <2>3. d.parent.f \in [FieldNames -> Values] BY <2>2 DEF GpsData
  <2>4. ValueOf(d.item_str) \in Values
    BY <2>2 DEF ValueOf, Values, Texts, LineRecords
  <2>5. d.parent.f[x] \in Values BY <2>1, <2>3
  <2>6. Adjust(x, d.parent.f[x], d.item_str) \in Values
    <3> DEFINE w == d.parent.f[x]
    <3>1. w \in Values BY <2>5
    <3> HIDE DEF w, x
    <3>2. d.item_str.ok \in BOOLEAN BY <2>2 DEF Texts
    <3> DEFINE a == IF w.m = 0 THEN 1 ELSE 2
               b == w.ok /\ d.item_str.ok
    <3>4. a \in Int /\ 1 - w.m \in Int BY <3>1 DEF Values
    <3>5. b \in BOOLEAN OBVIOUS
    <3>6. Adjust(x, w, d.item_str) =
            IF x = "altitude" THEN [w EXCEPT !.m = a, !.ok = b]
            ELSE IF d.item_str.ok THEN [w EXCEPT !.m = 1 - w.m] ELSE w
      BY DEF Adjust
    <3> HIDE DEF a, b
    <3>3. Adjust(x, w, d.item_str) \in Values BY <3>1, <3>4, <3>5, <3>6 DEF Values
    <3> QED BY <3>3 DEF w
  <2>7. v \in Values BY <2>4, <2>6
  <2>8. ParseFields(d) = [d EXCEPT !.parent.f[x] = v]
    BY <1>2 DEF ParseFields
  <2> HIDE DEF v, x
  <2>9. [d.parent.f EXCEPT ![x] = v] \in [FieldNames -> Values] BY <2>3, <2>7
  <2>10. [d EXCEPT !.parent.f[x] = v] =
           [d EXCEPT !.parent = [d.parent EXCEPT !.f = [d.parent.f EXCEPT ![x] = v]]]
    OBVIOUS
  <2> DEFINE g == [d.parent.f EXCEPT ![x] = v]
  <2> HIDE DEF g
  <2>11. [d.parent EXCEPT !.f = g] \in GpsData BY <2>2, <2>9 DEF GpsData, g
  <2> DEFINE h == [d.parent EXCEPT !.f = g]
  <2> HIDE DEF h
  <2>12. ParseFields(d) = [d EXCEPT !.parent = h] BY <2>8, <2>10 DEF g, h
  <2>13. h \in GpsData BY <2>11 DEF h
  <2> QED BY <2>12, <2>13 DEF Decoders, SameBut
<1> QED BY <1>1, <1>2

LEMMA ParseGsvType ==
  ASSUME NEW d \in Decoders
  PROVE  /\ ParseGsv(d) \in Decoders
         /\ SameBut(d, ParseGsv(d))
         /\ ParseGsv(d).cur_statement = d.cur_statement
<1> DEFINE k == d.item_num
           n == d.item_str.n
           v == ValueOf(d.item_str)
           index == GsvIndex(d)
<1>1. d.parent \in GpsData /\ d.item_str \in Texts BY DEF Decoders
<1>2. n \in Nat BY <1>1 DEF Texts
<1>3. v \in Values BY <1>1 DEF ValueOf, Values, Texts, LineRecords
<1>4. index \in Nat
  <2> DEFINE y == 4 * (d.sat_num - 1) + (d.item_num - 4) \div 4
  <2>1. y \in Int BY DEF Decoders
  <2>2. index = y % 256 BY DEF GsvIndex
  <2> HIDE DEF y
  <2> QED BY <2>1, <2>2
<1>5. CASE k = 1
  <2>1. ParseGsv(d) = [d EXCEPT !.sat_count = n] BY <1>5 DEF ParseGsv
  <2> QED BY <2>1, <1>2 DEF Decoders, SameBut
<1>6. CASE k = 2
  <2>1. ParseGsv(d) = [d EXCEPT !.sat_num = n] BY <1>6 DEF ParseGsv
  <2> QED BY <2>1, <1>2 DEF Decoders, SameBut
<1>7. CASE k = 3
  <2>1. ParseGsv(d) = [d EXCEPT !.parent.f.sats_in_view = v] BY <1>7 DEF ParseGsv
  <2> DEFINE g == [d.parent.f EXCEPT !.sats_in_view = v]
             h == [d.parent EXCEPT !.f = g]
  <2>2. g \in [FieldNames -> Values]
    <3>1. d.parent.f \in [FieldNames -> Values] BY <1>1 DEF GpsData
    <3> QED BY <3>1, <1>3
  <2>3. ParseGsv(d) = [d EXCEPT !.parent = h] BY <2>1
  <2> HIDE DEF g
  <2>4. h \in GpsData BY <1>1, <2>2 DEF GpsData
  <2> HIDE DEF h
  <2> QED BY <2>3, <2>4 DEF Decoders, SameBut
<1>8. CASE k \in 4..19 /\ index < MaxView
  <2>0. index \in 0..(MaxView - 1) BY <1>4, <1>8, NmeaConstants
  <2>1. ParseGsv(d) = [d EXCEPT !.parent.sats_desc_in_view[index] = v]
    BY <1>8 DEF ParseGsv
  <2> DEFINE g == [d.parent.sats_desc_in_view EXCEPT ![index] = v]
             h == [d.parent EXCEPT !.sats_desc_in_view = g]
  <2>2. g \in [0..(MaxView - 1) -> Values]
    <3>1. d.parent.sats_desc_in_view \in [0..(MaxView - 1) -> Values] BY <1>1 DEF GpsData
    <3> QED BY <3>1, <2>0, <1>3
  <2>3. ParseGsv(d) = [d EXCEPT !.parent = h] BY <2>1
  <2> HIDE DEF g
  <2>4. h \in GpsData BY <1>1, <2>2 DEF GpsData
  <2> HIDE DEF h
  <2> QED BY <2>3, <2>4 DEF Decoders, SameBut
<1>9. CASE k \notin 1..3 /\ ~(k \in 4..19 /\ index < MaxView)
  <2>1. ParseGsv(d) = d BY <1>9 DEF ParseGsv
  <2> QED BY <2>1 DEF SameBut
<1> QED BY <1>5, <1>6, <1>7, <1>8, <1>9

LEMMA ParseItemType ==
  ASSUME NEW d \in Decoders
  PROVE  ParseItem(d) \in Decoders /\ SameBut(d, ParseItem(d))
<1> DEFINE s == IF d.item_str.ok /\ d.item_str.ln.s \in Statements
                THEN d.item_str.ln.s ELSE Unknown
<1>1. CASE d.item_num = 0 /\ d.item_str.k = 0
  <2>1. s \in Statements \cup {Unknown} OBVIOUS
  <2>2. ParseItem(d) = [d EXCEPT !.cur_statement = s] BY <1>1 DEF ParseItem
  <2> HIDE DEF s
  <2> QED BY <2>1, <2>2 DEF Decoders, SameBut
<1>2. CASE ~(d.item_num = 0 /\ d.item_str.k = 0)
  <2>1. CASE d.cur_statement = Unknown
    <3>1. ParseItem(d) = d BY <1>2, <2>1 DEF ParseItem, Unknown
    <3> QED BY <3>1 DEF SameBut
  <2>2. CASE d.cur_statement = "GSV"
    <3>1. ParseItem(d) = ParseGsv(d) BY <1>2, <2>2 DEF ParseItem, Unknown
    <3> QED BY <3>1, ParseGsvType
  <2>3. CASE d.cur_statement \notin {Unknown, "GSV"}
    <3>1. ParseItem(d) = ParseFields(d) BY <1>2, <2>3 DEF ParseItem
    <3>2. d.cur_statement \in DOMAIN Fields BY <2>3 DEF Decoders, Statements
    <3> QED BY <3>1, <3>2, ParseFieldsType
  <2> QED BY <2>1, <2>2, <2>3
<1> QED BY <1>1, <1>2

LEMMA XorType ==
  ASSUME NEW sum \in SUBSET Int, NEW t \in Texts
  PROVE  Code(t) \in Int /\ Xor(sum, t) \in SUBSET Int
<1>1. t.ln.id \in Nat /\ t.k \in Nat BY DEF Texts, LineRecords
<1>2. Code(t) \in Int BY <1>1 DEF Code
<1> QED BY <1>2 DEF Xor

LEMMA JoinedType ==
  ASSUME NEW a \in Texts, NEW t \in Texts
  PROVE  Joined(a, t) \in Texts
  BY DEF Joined, Damaged, Texts

(* The characters of gps_decode, each with the members it writes.           *)
LEMMA SeparatorFacts ==
  ASSUME NEW d \in Decoders
  PROVE  /\ Separator(d) = [ParseItem(d) EXCEPT !.crc = Xor(d.crc, Comma), !.item_pos = 0,
                              !.item_str = Empty, !.item_num = (d.item_num + 1) % 256]
         /\ Separator(d) \in Decoders
<1>1. ParseItem(d) \in Decoders /\ SameBut(d, ParseItem(d)) BY ParseItemType
<1> DEFINE p == ParseItem(d)
<1> HIDE DEF p
<1>2. p \in Decoders /\ p.crc = d.crc /\ p.item_num = d.item_num
  BY <1>1 DEF p, SameBut
<1>3. Separator(d) = [p EXCEPT !.crc = Xor(d.crc, Comma), !.item_pos = 0,
                        !.item_str = Empty, !.item_num = (d.item_num + 1) % 256]
  BY <1>2 DEF Separator, NextItem, p, Decoders
<1>4. d.crc \in SUBSET Int /\ Comma \in Texts
  BY ConstantTexts DEF Decoders, Comma, Text, Texts
<1>5. Xor(d.crc, Comma) \in SUBSET Int BY <1>4, XorType
<1>6. (d.item_num + 1) % 256 \in Nat BY DEF Decoders
<1>7. Separator(d) \in Decoders
  <2> DEFINE x == Xor(d.crc, Comma)
             i == (d.item_num + 1) % 256
  <2> HIDE DEF x, i
  <2>1. x \in SUBSET Int /\ i \in Nat BY <1>5, <1>6 DEF x, i
  <2>2. [p EXCEPT !.crc = x, !.item_pos = 0, !.item_str = Empty, !.item_num = i] \in Decoders
    BY <2>1, <1>2, ConstantTexts DEF Decoders
  <2> QED BY <2>2, <1>3 DEF x, i
<1> QED BY <1>3, <1>7 DEF p

LEMMA AsteriskFacts ==
  ASSUME NEW d \in Decoders
  PROVE  /\ Asterisk(d) = [ParseItem(d) EXCEPT !.asterisk = TRUE, !.item_pos = 0,
                              !.item_str = Empty, !.item_num = (d.item_num + 1) % 256]
         /\ Asterisk(d) \in Decoders
<1>1. ParseItem(d) \in Decoders /\ SameBut(d, ParseItem(d)) BY ParseItemType
<1> DEFINE p == ParseItem(d)
           i == (d.item_num + 1) % 256
<1> HIDE DEF p
<1>2. p \in Decoders /\ p.item_num = d.item_num
  BY <1>1 DEF p, SameBut
<1>3. Asterisk(d) = [p EXCEPT !.asterisk = TRUE, !.item_pos = 0,
                        !.item_str = Empty, !.item_num = i]
  BY <1>2 DEF Asterisk, NextItem, p, Decoders
<1>6. i \in Nat BY DEF Decoders
<1> HIDE DEF i
<1>7. [p EXCEPT !.asterisk = TRUE, !.item_pos = 0, !.item_str = Empty, !.item_num = i]
        \in Decoders
  BY <1>2, <1>6, ConstantTexts DEF Decoders
<1> QED BY <1>3, <1>7 DEF p, i

(* What a text writes behind item_str, and that it writes nothing when it   *)
(* fits.                                                                    *)
LEMMA LengthType ==
  ASSUME NEW t
  PROVE  Length(t) \in 1..61
  BY NmeaConstants DEF Length

LEMMA BeginFacts ==
  /\ DOMAIN Begin = {"latitude", "longitude", "altitude", "fix", "sats_in_use", "tim",
                     "fix_mode", "sats_id_in_use", "dop_h", "dop_p", "dop_v",
                     "sats_in_view"}
  /\ \A x \in DOMAIN Begin : Begin[x] \in 16..76
  BY DEF Begin

LEMMA SpillFacts ==
  ASSUME NEW g \in GpsData, NEW last \in Nat
  PROVE  /\ Spill(g, last) \in GpsData
         /\ last < 16 => Spill(g, last) = g
         /\ \A x \in FieldNames : x \notin Reached(last) => Spill(g, last).f[x] = g.f[x]
         /\ last < 78 => Spill(g, last).sats_desc_in_view = g.sats_desc_in_view
<1>1. CASE last < 16
  <2>1. Spill(g, last) = g BY <1>1 DEF Spill, ItemRoom
  <2> QED BY <2>1
<1>2. CASE ~(last < 16)
  <2> DEFINE F == [x \in FieldNames |->
                     IF x \in Reached(last) THEN Spilt(Begin[x], last) ELSE g.f[x]]
             D == [i \in 0..(MaxView - 1) |->
                     IF SatelliteBegin(i) <= last THEN Spilt(SatelliteBegin(i), last)
                     ELSE g.sats_desc_in_view[i]]
  <2>1. Spill(g, last) = [f |-> F, sats_desc_in_view |-> D] BY <1>2 DEF Spill, ItemRoom
  <2>2. g.f \in [FieldNames -> Values]
        /\ g.sats_desc_in_view \in [0..(MaxView - 1) -> Values]
    BY DEF GpsData
  <2>3. ASSUME NEW at PROVE Spilt(at, last) \in Values
    <3> DEFINE n == IF at < last THEN 65 ELSE 0
    <3>1. n \in Nat OBVIOUS
    <3>2. Spilt(at, last) = [Unset EXCEPT !.n = n] BY DEF Spilt
    <3> HIDE DEF n
    <3>3. Unset \in Values BY ConstantTexts
    <3> QED BY <3>1, <3>2, <3>3 DEF Values
  <2>4. F \in [FieldNames -> Values] /\ D \in [0..(MaxView - 1) -> Values]
    BY <2>2, <2>3
  <2>5. \A x \in FieldNames : x \notin Reached(last) => F[x] = g.f[x] OBVIOUS
  <2>6. last < 78 => D = g.sats_desc_in_view
    <3> SUFFICES ASSUME last < 78 PROVE D = g.sats_desc_in_view OBVIOUS
    <3>1. ASSUME NEW i \in 0..(MaxView - 1) PROVE ~(SatelliteBegin(i) <= last)
      <4>1. i \in Int /\ i >= 0 BY NmeaConstants
      <4> QED BY <4>1 DEF SatelliteBegin
    <3>2. \A i \in 0..(MaxView - 1) : D[i] = g.sats_desc_in_view[i] BY <3>1
    <3> HIDE DEF D
    <3> DEFINE I == 0..(MaxView - 1)
    <3>3. D \in [I -> Values] /\ g.sats_desc_in_view \in [I -> Values] BY <2>2, <2>4
    <3>4. \A i \in I : D[i] = g.sats_desc_in_view[i] BY <3>2
    <3> HIDE DEF I
    <3> QED BY <3>3, <3>4
  <2> HIDE DEF F, D
  <2>7. Spill(g, last).f = F /\ Spill(g, last).sats_desc_in_view = D BY <2>1
  <2>8. [f |-> F, sats_desc_in_view |-> D] \in GpsData BY <2>4 DEF GpsData
  <2> QED BY <1>2, <2>1, <2>5, <2>6, <2>7, <2>8
<1> QED BY <1>1, <1>2

LEMMA CharacterType ==
  ASSUME NEW d \in Decoders, NEW t \in Texts
  PROVE  Character(d, t) \in Decoders
<1> DEFINE x == IF d.asterisk THEN d.crc ELSE Xor(d.crc, t)
           i == Joined(d.item_str, t)
           last == d.item_pos + Length(t)
           g == Spill(d.parent, last)
<1>0. last \in Nat /\ g \in GpsData
  <2>1. last \in Nat BY LengthType DEF Decoders
  <2>2. d.parent \in GpsData BY DEF Decoders
  <2> HIDE DEF last
  <2> QED BY <2>1, <2>2, SpillFacts
<1>1. x \in SUBSET Int
  <2>1. d.crc \in SUBSET Int BY DEF Decoders
  <2>2. Xor(d.crc, t) \in SUBSET Int BY <2>1, XorType
  <2> QED BY <2>1, <2>2
<1>2. i \in Texts
  <2>1. d.item_str \in Texts BY DEF Decoders
  <2> QED BY <2>1, JoinedType
<1>3. Character(d, t) = [d EXCEPT !.crc = x, !.item_str = i, !.item_pos = last,
                            !.parent = g]
  BY DEF Character
<1> HIDE DEF x, i, last, g
<1> QED BY <1>0, <1>1, <1>2, <1>3 DEF Decoders

LEMMA StartType ==
  ASSUME NEW d \in Decoders
  PROVE  StartStatement(d) \in Decoders
  BY ConstantTexts DEF StartStatement, Decoders

LEMMA EndType ==
  ASSUME NEW d \in Decoders
  PROVE  EndStatement(d) \in Decoders /\ Counted(d) \subseteq Statements
<1>1. Counted(d) \subseteq Statements BY DEF Counted, Decoders
<1> DEFINE q == d.parsed_statement \cup Counted(d)
           p == IF q = Statements THEN {} ELSE q
<1>2. p \in SUBSET Statements BY <1>1 DEF Decoders
<1>3. EndStatement(d) = [d EXCEPT !.parsed_statement = p] BY DEF EndStatement
<1> HIDE DEF p
<1> QED BY <1>1, <1>2, <1>3 DEF Decoders

LEMMA DecodeCharType ==
  ASSUME NEW r \in Results, NEW ch \in Chars
  PROVE  DecodeChar(r, ch) \in Results
<1>1. r.d \in Decoders /\ r.posts \in Seq(Kinds) BY DEF Results
<1>2. ch.t \in Texts BY DEF Chars
<1>3. ASSUME NEW d \in Decoders PROVE [r EXCEPT !.d = d] \in Results
  BY <1>1 DEF Results
<1>4. CASE ch.c = "$" BY <1>4, <1>3, <1>1, StartType DEF DecodeChar
<1>5. CASE ch.c = ","
  BY <1>5, <1>3, <1>1, SeparatorFacts DEF DecodeChar
<1>6. CASE ch.c = "*"
  BY <1>6, <1>3, <1>1, AsteriskFacts DEF DecodeChar
<1>7. CASE ch.c = "\r"
  <2> DEFINE a == IF PostsUpdate(r.d) THEN <<"GPS_UPDATE">> ELSE <<>>
             b == IF PostsUnknown(r.d) THEN <<"GPS_UNKNOWN">> ELSE <<>>
             q == (r.posts \o a) \o b
  <2>1. a \in Seq(Kinds) /\ b \in Seq(Kinds)
    <3>1. <<"GPS_UPDATE">> \in Seq(Kinds) /\ <<"GPS_UNKNOWN">> \in Seq(Kinds)
          /\ <<>> \in Seq(Kinds)
      BY DEF Kinds
    <3> QED BY <3>1
  <2> HIDE DEF a, b
  <2>2. r.posts \o a \in Seq(Kinds) BY <2>1, <1>1
  <2>3. q \in Seq(Kinds) BY <2>1, <2>2
  <2>4. DecodeChar(r, ch) = [d |-> EndStatement(r.d), posts |-> q]
    BY <1>7 DEF DecodeChar, a, b
  <2> HIDE DEF q
  <2> QED BY <2>3, <2>4, <1>1, EndType DEF Results
<1>8. CASE ch.c \notin {"$", ",", "*", "\r"}
  BY <1>8, <1>3, <1>1, <1>2, CharacterType DEF DecodeChar
<1> QED BY <1>4, <1>5, <1>6, <1>7, <1>8

LEMMA RunTypes ==
  ASSUME NEW m, NEW r \in Results, NEW cs \in Seq(Chars), Run(m, r, cs)
  PROVE  \A i \in 0..Len(cs) : m[i] \in Results
<1> DEFINE S == {n \in Nat : n <= Len(cs) => m[n] \in Results}
<1>1. 0 \in S BY DEF Run
<1>2. ASSUME NEW n \in S PROVE n + 1 \in S
  <2>1. CASE n + 1 <= Len(cs)
    <3>1. m[n] \in Results /\ cs[n + 1] \in Chars BY <2>1
    <3>2. m[n + 1] = DecodeChar(m[n], cs[n + 1]) BY <2>1 DEF Run
    <3> QED BY <3>1, <3>2, DecodeCharType
  <2> QED BY <2>1
<1> HIDE DEF S
<1>3. S \in SUBSET Nat BY DEF S
<1>4. \A n \in Nat : n \in S BY <1>1, <1>2, <1>3, SetInduction
<1> QED BY <1>4 DEF S

-------------------------------------------------------------------------------
(* The lines of the receiver.                                               *)

USE GpsConstants DEF GpsConstants

IsSent(ln) ==
  /\ ln \in LineRecords /\ ln.id >= 1 /\ ln.s \in Statements \cup {"TXT"}
  /\ ln.sats \in 1..16
  /\ ln.s # "GSV" => ln.part = 0 /\ ln.of = 0
  /\ ln.s = "GSV" => /\ ln.of = Messages(ln.sats) /\ ln.of \in 1..4
                     /\ ln.part \in 1..ln.of

LEMMA ItemCountBounds ==
  ASSUME NEW ln, IsSent(ln)
  PROVE  /\ ItemCount(ln) \in 4..19
         /\ ln.s = "GSV" => ItemCount(ln) = 3 + 4 * Described(ln) /\ Described(ln) \in 1..4
<1>1. CASE ln.s = "GSV"
  <2>1. Described(ln) \in 1..4 BY <1>1 DEF IsSent, Described, Messages
  <2>2. ItemCount(ln) = 3 + 4 * Described(ln) BY <1>1 DEF ItemCount
  <2> QED BY <2>1, <2>2
<1>2. CASE ln.s # "GSV"
  <2>1. ln.s \in {"GGA", "GSA", "RMC", "GLL", "VTG", "TXT"}
    BY <1>2, StatementsAre DEF IsSent
  <2> QED BY <1>2, <2>1 DEF ItemCount
<1> QED BY <1>1, <1>2

LEMMA MessagesBounds ==
  ASSUME NEW v \in 1..16
  PROVE  Messages(v) \in 1..4
  BY DEF Messages

LEMMA PlainFacts ==
  ASSUME NEW s \in Statements \cup {"TXT"}
  PROVE  /\ Plain(s) \in LineRecords /\ Plain(s).s = s
         /\ Plain(s).part = 0 /\ Plain(s).of = 0
  BY StatementsAre DEF Plain, NoLine, LineRecords

LEMMA ConcatFacts ==
  ASSUME NEW S, NEW a \in Seq(S), NEW b \in Seq(S)
  PROVE  /\ a \o b \in Seq(S) /\ Len(a \o b) = Len(a) + Len(b)
         /\ \A i \in 1..(Len(a) + Len(b)) :
              (a \o b)[i] = IF i <= Len(a) THEN a[i] ELSE b[i - Len(a)]
  OBVIOUS

LEMMA GsvGroupFacts ==
  ASSUME NEW v \in 1..16
  PROVE  /\ GsvGroup(v) \in Seq(LineRecords) /\ Len(GsvGroup(v)) = Messages(v)
         /\ \A j \in 1..Messages(v) :
              /\ GsvGroup(v)[j].s = "GSV" /\ GsvGroup(v)[j].part = j
              /\ GsvGroup(v)[j].of = Messages(v)
<1> DEFINE M == Messages(v)
           L(j) == [Plain("GSV") EXCEPT !.part = j, !.of = M]
<1>1. M \in Nat BY MessagesBounds
<1> HIDE DEF M
<1>2. ASSUME NEW j \in 1..M
      PROVE  L(j) \in LineRecords /\ L(j).s = "GSV" /\ L(j).part = j /\ L(j).of = M
  <2> DEFINE p == Plain("GSV")
  <2>1. p \in LineRecords /\ p.s = "GSV" BY PlainFacts, StatementsAre
  <2> HIDE DEF p
  <2>2. j \in Nat BY <1>1
  <2>3. LET q == [p EXCEPT !.part = j, !.of = M]
        IN  q \in LineRecords /\ q.s = "GSV" /\ q.part = j /\ q.of = M
    BY <2>1, <2>2, <1>1 DEF LineRecords
  <2> QED BY <2>3 DEF p
<1>3. GsvGroup(v) = [j \in 1..M |-> L(j)] BY DEF GsvGroup, M
<1> HIDE DEF L
<1>4. [j \in 1..M |-> L(j)] \in Seq(LineRecords) /\ Len([j \in 1..M |-> L(j)]) = M
  BY <1>1, <1>2
<1>5. \A j \in 1..M : GsvGroup(v)[j] = L(j) BY <1>3
<1>6. /\ GsvGroup(v) \in Seq(LineRecords) /\ Len(GsvGroup(v)) = M
      /\ \A j \in 1..M :
           GsvGroup(v)[j].s = "GSV" /\ GsvGroup(v)[j].part = j /\ GsvGroup(v)[j].of = M
  <2>1. GsvGroup(v) \in Seq(LineRecords) /\ Len(GsvGroup(v)) = M BY <1>3, <1>4
  <2> QED BY <1>2, <1>5, <2>1
<1> QED BY <1>6 DEF M

LEMMA GroupFacts ==
  ASSUME NEW v \in 1..16
  PROVE  /\ Len(Group(v)) = 6 + Messages(v)
         /\ \A i \in 1..Len(Group(v)) :
              /\ Group(v)[i] \in LineRecords
              /\ i \in 5..(4 + Messages(v)) => Group(v)[i] = GsvGroup(v)[i - 4]
              /\ i \notin 5..(4 + Messages(v)) =>
                   /\ Group(v)[i].s \in (Statements \cup {"TXT"}) \ {"GSV"}
                   /\ Group(v)[i].part = 0 /\ Group(v)[i].of = 0
              /\ i = 1 => Group(v)[i].s = "RMC"
              /\ Group(v)[i].s = "TXT" => i = Len(Group(v))
<1> DEFINE a == <<Plain("RMC"), Plain("VTG"), Plain("GGA"), Plain("GSA")>>
           b == GsvGroup(v)
           c == <<Plain("GLL"), Plain("TXT")>>
           M == Messages(v)
           Other(x) == x \in LineRecords /\ x.s \in (Statements \cup {"TXT"}) \ {"GSV"}
                       /\ x.part = 0 /\ x.of = 0
<1>1. M \in 1..4 BY MessagesBounds
<1>2. /\ Other(Plain("RMC")) /\ Other(Plain("VTG")) /\ Other(Plain("GGA"))
      /\ Other(Plain("GSA")) /\ Other(Plain("GLL")) /\ Other(Plain("TXT"))
  BY PlainFacts, StatementsAre
<1>3. a \in Seq(LineRecords) /\ Len(a) = 4 /\ \A i \in 1..4 : Other(a[i])
  <2>1. Len(a) = 4 OBVIOUS
  <2>2. \A i \in 1..4 : Other(a[i])
    <3>1. a[1] = Plain("RMC") /\ a[2] = Plain("VTG") /\ a[3] = Plain("GGA")
          /\ a[4] = Plain("GSA")
      OBVIOUS
    <3> HIDE DEF a, Other
    <3> QED BY <3>1, <1>2
  <2>3. a \in Seq(LineRecords) BY <1>2
  <2> QED BY <2>1, <2>2, <2>3
<1>4. c \in Seq(LineRecords) /\ Len(c) = 2 /\ \A i \in 1..2 : Other(c[i])
  <2>1. Len(c) = 2 OBVIOUS
  <2>2. \A i \in 1..2 : Other(c[i])
    <3>1. c[1] = Plain("GLL") /\ c[2] = Plain("TXT") OBVIOUS
    <3> HIDE DEF c, Other
    <3> QED BY <3>1, <1>2
  <2>3. c \in Seq(LineRecords) BY <1>2
  <2> QED BY <2>1, <2>2, <2>3
<1>s. /\ a[1].s = "RMC" /\ c[1].s # "TXT"
      /\ \A i \in 1..4 : a[i].s # "TXT"
      /\ \A j \in 1..M : b[j].s # "TXT"
  <2>1. /\ a[1] = Plain("RMC") /\ a[2] = Plain("VTG") /\ a[3] = Plain("GGA")
        /\ a[4] = Plain("GSA") /\ c[1] = Plain("GLL")
    OBVIOUS
  <2>2. \A j \in 1..M : b[j].s # "TXT" BY GsvGroupFacts
  <2>3. /\ Plain("RMC").s = "RMC" /\ Plain("VTG").s = "VTG" /\ Plain("GGA").s = "GGA"
        /\ Plain("GSA").s = "GSA" /\ Plain("GLL").s = "GLL"
    BY PlainFacts, StatementsAre
  <2> HIDE DEF a, b, c
  <2> QED BY <2>1, <2>2, <2>3
<1>5. b \in Seq(LineRecords) /\ Len(b) = M BY GsvGroupFacts
<1>6. Group(v) = (a \o b) \o c BY DEF Group
<1>a. a \in Seq(LineRecords) /\ b \in Seq(LineRecords) /\ c \in Seq(LineRecords)
      /\ Len(a) = 4 /\ Len(b) = M /\ Len(c) = 2 /\ M \in Nat
  BY <1>1, <1>3, <1>4, <1>5
<1> HIDE DEF a, b, c, M, Other
<1> DEFINE ab == a \o b
<1>7. /\ ab \in Seq(LineRecords) /\ Len(ab) = 4 + M
      /\ \A i \in 1..(4 + M) : ab[i] = IF i <= 4 THEN a[i] ELSE b[i - 4]
  <2>1. /\ ab \in Seq(LineRecords) /\ Len(ab) = Len(a) + Len(b)
        /\ \A i \in 1..(Len(a) + Len(b)) : ab[i] = IF i <= Len(a) THEN a[i] ELSE b[i - Len(a)]
    <3>1. a \in Seq(LineRecords) /\ b \in Seq(LineRecords) BY <1>a
    <3> QED BY ONLY <3>1, ConcatFacts DEF ab
  <2> HIDE DEF ab
  <2>2. Len(a) = 4 /\ Len(b) = M /\ Len(a) + Len(b) = 4 + M BY <1>a
  <2> QED BY <2>1, <2>2
<1> HIDE DEF ab
<1>8. /\ ab \o c \in Seq(LineRecords) /\ Len(ab \o c) = 6 + M
      /\ \A i \in 1..(6 + M) : (ab \o c)[i] = IF i <= 4 + M THEN ab[i] ELSE c[i - 4 - M]
  <2> DEFINE abc == ab \o c
  <2>1. /\ abc \in Seq(LineRecords) /\ Len(abc) = Len(ab) + Len(c)
        /\ \A i \in 1..(Len(ab) + Len(c)) : abc[i] = IF i <= Len(ab) THEN ab[i] ELSE c[i - Len(ab)]
    <3>1. ab \in Seq(LineRecords) /\ c \in Seq(LineRecords) BY <1>a, <1>7
    <3> QED BY ONLY <3>1, ConcatFacts DEF abc
  <2> HIDE DEF abc
  <2>2. \A i \in 1..(6 + M) : i > 4 + M => i - (4 + M) = i - 4 - M BY <1>a
  <2>3. Len(ab) = 4 + M /\ Len(c) = 2 /\ Len(ab) + Len(c) = 6 + M BY <1>a, <1>7
  <2> QED BY <2>1, <2>2, <2>3 DEF abc
<1> DEFINE g == ab \o c
<1>g. /\ Len(g) = 6 + M
      /\ \A i \in 1..(6 + M) : g[i] = IF i <= 4 + M THEN ab[i] ELSE c[i - 4 - M]
  BY <1>8
<1> HIDE DEF g
<1>9. ASSUME NEW i \in 1..(6 + M)
      PROVE  /\ i \in 5..(4 + M) => g[i] = b[i - 4] /\ g[i] \in LineRecords
             /\ i \notin 5..(4 + M) => Other(g[i])
             /\ i = 1 => g[i].s = "RMC"
             /\ g[i].s = "TXT" => i = 6 + M
  <2>1. CASE i <= 4
    <3>1. g[i] = a[i] BY <2>1, <1>a, <1>7, <1>g
    <3> QED BY <2>1, <3>1, <1>a, <1>3, <1>s
  <2>2. CASE i \in 5..(4 + M)
    <3>1. i \in 1..(4 + M) /\ ~(i <= 4) /\ i <= 4 + M BY <2>2, <1>a
    <3>2. g[i] = ab[i] BY <3>1, <1>g
    <3>3. ab[i] = b[i - 4] BY <3>1, <1>7
    <3>4. i - 4 \in 1..M BY <2>2, <1>a
    <3>5. b[i - 4] \in LineRecords BY <3>4, <1>a
    <3>6. i # 1 /\ b[i - 4].s # "TXT" BY <2>2, <3>4, <1>s
    <3> QED BY <2>2, <3>2, <3>3, <3>5, <3>6
  <2>3. CASE i > 4 + M
    <3>1. i - 4 - M \in 1..2 /\ ~(i <= 4 + M) /\ i \notin 5..(4 + M) BY <2>3, <1>a
    <3>2. g[i] = c[i - 4 - M] BY <3>1, <1>g
    <3>3. i # 1 /\ (i # 6 + M => i - 4 - M = 1) BY <2>3, <1>a
    <3> QED BY <3>1, <3>2, <3>3, <1>4, <1>s
  <2>4. i <= 4 \/ i \in 5..(4 + M) \/ i > 4 + M BY <1>a
  <2> QED BY <2>1, <2>2, <2>3, <2>4
<1>10. Group(v) = g BY <1>6 DEF g, ab
<1>11. \A i \in 1..(6 + M) : i \notin 5..(4 + M) =>
        /\ g[i] \in LineRecords /\ g[i].s \in (Statements \cup {"TXT"}) \ {"GSV"}
        /\ g[i].part = 0 /\ g[i].of = 0
  BY <1>9 DEF Other
<1> QED BY <1>10, <1>11, <1>9, <1>g DEF M, b

LEMMA LineOfFacts ==
  ASSUME NEW e \in Nat, NEW i \in 1..Len(Group(Sats(e)))
  PROVE  /\ IsSent(LineOf(e, i)) /\ LineOf(e, i).e = e /\ LineOf(e, i).sats = Sats(e)
         /\ i \in 5..(4 + Messages(Sats(e))) =>
              LineOf(e, i).s = "GSV" /\ LineOf(e, i).part = i - 4
         /\ i \notin 5..(4 + Messages(Sats(e))) => LineOf(e, i).s # "GSV"
<1> DEFINE v == Sats(e)
           g == Group(v)[i]
           f == e \in FixEpochs
           M == Messages(v)
<1>1. v \in 1..16 BY DEF Sats
<1>2. f \in BOOLEAN OBVIOUS
<1>3. M \in 1..4 BY <1>1, MessagesBounds
<1>4. Len(Group(v)) = 6 + M /\ i \in Nat /\ i >= 1
  <2>1. Len(Group(v)) = 6 + M BY <1>1, GroupFacts
  <2> QED BY <2>1, <1>3
<1>5. /\ g \in LineRecords
      /\ i \in 5..(4 + M) => g = GsvGroup(v)[i - 4]
      /\ i \notin 5..(4 + M) =>
           g.s \in (Statements \cup {"TXT"}) \ {"GSV"} /\ g.part = 0 /\ g.of = 0
  BY <1>1, GroupFacts
<1>6. i \in 5..(4 + M) => g.s = "GSV" /\ g.part = i - 4 /\ g.of = M
  <2> SUFFICES ASSUME i \in 5..(4 + M) PROVE g.s = "GSV" /\ g.part = i - 4 /\ g.of = M
    OBVIOUS
  <2>1. i - 4 \in 1..M BY <1>3
  <2>2. \A j \in 1..M : GsvGroup(v)[j].s = "GSV" /\ GsvGroup(v)[j].part = j
                        /\ GsvGroup(v)[j].of = M
    BY <1>1, GsvGroupFacts
  <2>3. g = GsvGroup(v)[i - 4] BY <1>5
  <2> HIDE DEF g, M, v
  <2> QED BY <2>1, <2>2, <2>3
<1>7. LineOf(e, i) = [g EXCEPT !.id = 16 * e + i, !.e = e, !.sats = v, !.fix = f]
  BY DEF LineOf
<1>8. M = Messages(v) OBVIOUS
<1>9. 16 * e + i \in Nat /\ 16 * e + i >= 1 BY <1>4
<1>16. v \in Nat BY <1>1
<1> HIDE DEF v, g, f, M
<1> DEFINE n == 16 * e + i
<1> HIDE DEF n
<1>10. n \in Nat /\ n >= 1 BY <1>9 DEF n
<1>11. LineOf(e, i) = [g EXCEPT !.id = n, !.e = e, !.sats = v, !.fix = f]
  BY <1>7 DEF n
<1> DEFINE ln == LineOf(e, i)
<1>12. /\ ln \in LineRecords /\ ln.id = n /\ ln.e = e /\ ln.sats = v
       /\ ln.s = g.s /\ ln.part = g.part /\ ln.of = g.of
  BY <1>16, <1>2, <1>5, <1>10, <1>11 DEF LineRecords
<1> HIDE DEF ln
<1>13. g.s \in Statements \cup {"TXT"} BY <1>5, <1>6, StatementsAre
<1>14. CASE i \in 5..(4 + M)
  <2>1. i - 4 \in 1..M BY <1>14, <1>3
  <2>2. IsSent(ln) BY <1>14, <2>1, <1>1, <1>3, <1>6, <1>8, <1>10, <1>12, <1>13 DEF IsSent
  <2> QED BY <1>14, <2>2, <1>6, <1>12 DEF ln, v, M
<1>15. CASE i \notin 5..(4 + M)
  <2>1. IsSent(ln) BY <1>15, <1>1, <1>5, <1>10, <1>12, <1>13 DEF IsSent
  <2> QED BY <1>15, <2>1, <1>5, <1>12 DEF ln, v, M
<1> QED BY <1>14, <1>15

LEMMA AllLinesAreSent ==
  ASSUME NEW ln \in AllLines
  PROVE  IsSent(ln)
<1>1. PICK x \in Places : ln = LineOf(x[1], x[2]) BY DEF AllLines
<1>2. x[1] \in 0..(Epochs - 1) /\ x[2] \in 1..15 /\ x[2] <= Len(Group(Sats(x[1])))
  BY <1>1 DEF Places
<1>3. Sats(x[1]) \in 1..16 BY DEF Sats
<1>4. Len(Group(Sats(x[1]))) \in Nat BY <1>3, GroupFacts, MessagesBounds
<1>5. x[2] \in 1..Len(Group(Sats(x[1]))) /\ x[1] \in Nat BY <1>2, <1>4
<1> QED BY <1>1, <1>5, LineOfFacts

LEMMA CurrentInAllLines ==
  ASSUME NEW e \in 0..(Epochs - 1), NEW i \in 1..Len(Group(Sats(e)))
  PROVE  LineOf(e, i) \in AllLines
<1>1. Sats(e) \in 1..16 BY DEF Sats
<1>2. Len(Group(Sats(e))) = 6 + Messages(Sats(e)) /\ Messages(Sats(e)) \in 1..4
  BY <1>1, GroupFacts, MessagesBounds
<1>3. i \in 1..15 /\ i <= Len(Group(Sats(e))) BY <1>2
<1>4. <<e, i>> \in Places BY <1>3 DEF Places
<1>5. LineOf(<<e, i>>[1], <<e, i>>[2]) \in AllLines BY <1>4 DEF AllLines
<1> QED BY <1>5

-------------------------------------------------------------------------------
(* The pieces of lines in the driver's buffer, and their characters.        *)

Pieces == [ln : AllLines, gap : BOOLEAN,
           damage : {Whole} \cup [kind : {"garbled", "tail", "cut"}, k : DamageItems]]

\* The items of the line the piece has, and how many characters it lacks.
FirstItem(p) == IF p.damage.kind = "tail" THEN p.damage.k ELSE 0
LastItem(p) == IF p.damage.kind = "cut" THEN p.damage.k ELSE ItemCount(p.ln)
Lacks(p) == IF p.damage.kind = "tail" THEN 1 + 2 * p.damage.k ELSE 0
PieceText(p, j) ==
  IF p.damage.kind = "garbled" /\ j = p.damage.k THEN Damaged(ItemText(p.ln, j))
  ELSE ItemText(p.ln, j)

LEMMA PieceFacts ==
  ASSUME NEW p \in Pieces
  PROVE  /\ p.ln \in AllLines /\ IsSent(p.ln) /\ p.gap \in BOOLEAN
         /\ p.damage.kind \in {"whole", "garbled", "tail", "cut"}
         /\ p.damage.kind = "whole" <=> p.damage = Whole
         /\ p.damage.kind # "whole" => p.damage.k \in 1..4
         /\ ItemCount(p.ln) \in 4..19
<1>1. p.ln \in AllLines /\ p.gap \in BOOLEAN BY DEF Pieces
<1>2. p.damage = Whole \/ p.damage \in [kind : {"garbled", "tail", "cut"}, k : DamageItems]
  BY DEF Pieces
<1>3. CASE p.damage = Whole
  <2>1. p.damage.kind = "whole" BY <1>3 DEF Whole
  <2> QED BY <2>1, <1>1, <1>3, AllLinesAreSent, ItemCountBounds
<1>4. CASE p.damage # Whole
  <2>1. p.damage.kind \in {"garbled", "tail", "cut"} /\ p.damage.k \in 1..4
    BY <1>2, <1>4
  <2> QED BY <2>1, <1>1, <1>4, AllLinesAreSent, ItemCountBounds
<1> QED BY <1>3, <1>4

LEMMA ItemTextType ==
  ASSUME NEW ln, IsSent(ln), NEW k \in Nat
  PROVE  /\ ItemText(ln, k) \in Texts /\ ItemText(ln, k).ln = ln
         /\ ItemText(ln, k).k = k /\ ItemText(ln, k).ok
         /\ ItemText(ln, k).n = ItemNumber(ln, k)
         /\ Damaged(ItemText(ln, k)) \in Texts /\ Damaged(ItemText(ln, k)).ln = ln
         /\ Damaged(ItemText(ln, k)).k = k /\ ~Damaged(ItemText(ln, k)).ok
         /\ Text(ln, k, 0) \in Texts
<1>1. ln \in LineRecords BY DEF IsSent
<1>2. ItemNumber(ln, k) \in Nat BY <1>1 DEF ItemNumber, LineRecords
<1> DEFINE n == ItemNumber(ln, k)
<1>3. ItemText(ln, k) = [ln |-> ln, k |-> k, n |-> n, ok |-> TRUE] BY DEF ItemText, Text
<1> HIDE DEF n
<1>4. n \in Nat BY <1>2 DEF n
<1>5. 0 \in Nat OBVIOUS
<1>6. Text(ln, k, 0) \in Texts BY <1>1, <1>5 DEF Texts, Text
<1> DEFINE t == ItemText(ln, k)
<1>7. t \in Texts /\ t.ln = ln /\ t.k = k /\ t.ok /\ t.n = n
  BY <1>1, <1>3, <1>4 DEF Texts
<1> HIDE DEF t
<1>8. /\ Damaged(t) \in Texts /\ Damaged(t).ln = ln
      /\ Damaged(t).k = k /\ ~Damaged(t).ok
  BY <1>5, <1>7 DEF Texts, Damaged
<1> QED BY <1>6, <1>7, <1>8 DEF n, t

LEMMA CharType ==
  ASSUME NEW t \in Texts
  PROVE  Char("text", t) \in Chars /\ Char("text", t).c = "text" /\ Char("text", t).t = t
  BY DEF Char, Chars

LEMMA SepType ==
  ASSUME NEW c \in {"$", ",", "*", "\r"}
  PROVE  Sep(c) \in Chars /\ Sep(c).c = c
  BY ConstantTexts DEF Sep, Char, Chars

LEMMA CharactersAre ==
  ASSUME NEW ln, IsSent(ln)
  PROVE  LET n == ItemCount(ln)
             cs == Characters(ln)
         IN  /\ cs \in Seq(Chars) /\ Len(cs) = 2 * n + 6
             /\ cs[1] = Sep("$")
             /\ \A k \in 0..n : cs[2 * k + 2] = Char("text", ItemText(ln, k))
             /\ \A k \in 1..n : cs[2 * k + 1] = Sep(",")
             /\ cs[2 * n + 3] = Sep("*") /\ cs[2 * n + 4] = Char("text", Text(ln, CrcItem, 0))
             /\ cs[2 * n + 5] = Sep("\r") /\ cs[2 * n + 6] = Char("text", Newline)
<1> DEFINE n == ItemCount(ln)
           w(j) == IF j % 2 = 0 THEN Char("text", ItemText(ln, j \div 2 - 1))
                   ELSE Sep(IF j = 1 THEN "$" ELSE ",")
           a == [j \in 1..(2 + 2 * n) |-> w(j)]
           b == <<Sep("*"), Char("text", Text(ln, CrcItem, 0)), Sep("\r"),
                  Char("text", Newline)>>
<1>1. n \in 4..19 BY ItemCountBounds
<1>2. Characters(ln) = a \o b BY DEF Characters
<1> HIDE DEF n
<1>3. \A j \in 1..(2 + 2 * n) : w(j) \in Chars
  <2> SUFFICES ASSUME NEW j \in 1..(2 + 2 * n) PROVE w(j) \in Chars OBVIOUS
  <2>1. CASE j % 2 = 0
    <3>1. j \div 2 - 1 \in Nat BY <2>1, <1>1
    <3> QED BY <2>1, <3>1, ItemTextType, CharType
  <2>2. CASE j % 2 # 0
    <3>1. (IF j = 1 THEN "$" ELSE ",") \in {"$", ",", "*", "\r"} OBVIOUS
    <3> QED BY <2>2, <3>1, SepType
  <2> QED BY <2>1, <2>2
<1>4. /\ w(1) = Sep("$")
      /\ \A k \in 0..n : w(2 * k + 2) = Char("text", ItemText(ln, k))
      /\ \A k \in 1..n : w(2 * k + 1) = Sep(",")
  <2>1. w(1) = Sep("$") OBVIOUS
  <2>2. ASSUME NEW k \in 0..n PROVE w(2 * k + 2) = Char("text", ItemText(ln, k))
    <3>1. (2 * k + 2) % 2 = 0 /\ (2 * k + 2) \div 2 - 1 = k BY <1>1
    <3> QED BY <3>1
  <2>3. ASSUME NEW k \in 1..n PROVE w(2 * k + 1) = Sep(",")
    <3>1. (2 * k + 1) % 2 # 0 /\ 2 * k + 1 # 1 BY <1>1
    <3> QED BY <3>1
  <2> QED BY <2>1, <2>2, <2>3
<1> HIDE DEF w
<1>5. a \in Seq(Chars) /\ Len(a) = 2 + 2 * n /\ \A j \in 1..(2 + 2 * n) : a[j] = w(j)
  BY <1>1, <1>3
<1>6. /\ b \in Seq(Chars) /\ Len(b) = 4
      /\ b[1] = Sep("*") /\ b[2] = Char("text", Text(ln, CrcItem, 0))
      /\ b[3] = Sep("\r") /\ b[4] = Char("text", Newline)
  <2>1. Newline \in Texts BY ConstantTexts DEF Newline, Text, Texts
  <2>2. Text(ln, CrcItem, 0) \in Texts BY ItemTextType DEF CrcItem
  <2>3. Sep("*") \in Chars /\ Char("text", Text(ln, CrcItem, 0)) \in Chars
        /\ Sep("\r") \in Chars /\ Char("text", Newline) \in Chars
    BY <2>1, <2>2, CharType, SepType
  <2> QED BY <2>3
<1> HIDE DEF a, b
<1> DEFINE cs == a \o b
<1>7. /\ cs \in Seq(Chars) /\ Len(cs) = Len(a) + Len(b)
      /\ \A i \in 1..(Len(a) + Len(b)) : cs[i] = IF i <= Len(a) THEN a[i] ELSE b[i - Len(a)]
  BY <1>5, <1>6, ConcatFacts
<1> HIDE DEF cs
<1>8. Len(a) = 2 + 2 * n /\ Len(b) = 4 /\ Len(a) + Len(b) = 2 * n + 6 BY <1>1, <1>5, <1>6
<1>9. \A i \in 1..(2 * n + 6) : cs[i] = IF i <= 2 + 2 * n THEN w(i) ELSE b[i - (2 + 2 * n)]
  BY <1>1, <1>5, <1>7, <1>8
<1>10. cs[1] = Sep("$")
  <2>1. 1 \in 1..(2 * n + 6) /\ 1 <= 2 + 2 * n BY <1>1
  <2> QED BY <2>1, <1>4, <1>9
<1>11. ASSUME NEW k \in 0..n PROVE cs[2 * k + 2] = Char("text", ItemText(ln, k))
  <2>1. 2 * k + 2 \in 1..(2 * n + 6) /\ 2 * k + 2 <= 2 + 2 * n BY <1>1
  <2> QED BY <2>1, <1>4, <1>9
<1>12. ASSUME NEW k \in 1..n PROVE cs[2 * k + 1] = Sep(",")
  <2>1. 2 * k + 1 \in 1..(2 * n + 6) /\ 2 * k + 1 <= 2 + 2 * n BY <1>1
  <2> QED BY <2>1, <1>4, <1>9
<1>13. ASSUME NEW i \in 1..4 PROVE cs[2 * n + 2 + i] = b[i]
  <2>1. 2 * n + 2 + i \in 1..(2 * n + 6) /\ ~(2 * n + 2 + i <= 2 + 2 * n)
        /\ 2 * n + 2 + i - (2 + 2 * n) = i
    BY <1>1
  <2> DEFINE j == 2 * n + 2 + i
  <2>2. j \in 1..(2 * n + 6) /\ ~(j <= 2 + 2 * n) /\ j - (2 + 2 * n) = i BY <1>1
  <2> HIDE DEF j
  <2>3. cs[j] = b[i] BY <2>2, <1>9
  <2> QED BY <2>3 DEF j
<1>14. cs[2 * n + 3] = b[1] /\ cs[2 * n + 4] = b[2] /\ cs[2 * n + 5] = b[3]
       /\ cs[2 * n + 6] = b[4]
  <2>1. 2 * n + 2 + 1 = 2 * n + 3 /\ 2 * n + 2 + 2 = 2 * n + 4
        /\ 2 * n + 2 + 3 = 2 * n + 5 /\ 2 * n + 2 + 4 = 2 * n + 6
    BY <1>1
  <2>2. cs[2 * n + 2 + 1] = b[1] /\ cs[2 * n + 2 + 2] = b[2]
        /\ cs[2 * n + 2 + 3] = b[3] /\ cs[2 * n + 2 + 4] = b[4]
    BY <1>13
  <2> QED BY <2>1, <2>2
<1> QED BY <1>2, <1>6, <1>7, <1>8, <1>10, <1>11, <1>12, <1>14 DEF n, cs

LEMMA ExceptFacts ==
  ASSUME NEW S, NEW cs \in Seq(S), NEW at \in 1..Len(cs), NEW c \in S
  PROVE  LET q == [cs EXCEPT ![at] = c]
         IN  /\ q \in Seq(S) /\ Len(q) = Len(cs)
             /\ \A i \in 1..Len(cs) : q[i] = IF i = at THEN c ELSE cs[i]
  OBVIOUS

LEMMA SubSeqFacts ==
  ASSUME NEW S, NEW cs \in Seq(S), NEW lo \in Nat, NEW hi \in Nat,
         lo >= 1, hi <= Len(cs), lo <= hi + 1
  PROVE  LET q == SubSeq(cs, lo, hi)
         IN  /\ q \in Seq(S) /\ Len(q) = hi + 1 - lo
             /\ \A i \in 1..(hi + 1 - lo) : q[i] = cs[i + (lo - 1)]
  OBVIOUS

\* Where the characters of a line, of a cut line and of a tail lie.
LEMMA TextIndex ==
  ASSUME NEW n \in Nat, NEW g \in Nat, g <= n, NEW k \in 0..n
  PROVE  /\ 2 * k + 2 \in 1..(2 * n + 6) /\ 2 * k + 2 - 0 = 2 * k + 2
         /\ 2 * k + 2 = 2 * g + 2 <=> k = g
         /\ k <= g => 2 * k + 2 \in 1..(2 * g + 2)
         /\ k >= g => 2 * k + 2 \in ((2 * g + 1) + 1)..(2 * n + 6)
  OBVIOUS

LEMMA CommaIndex ==
  ASSUME NEW n \in Nat, NEW g \in Nat, g <= n, NEW k \in 1..n
  PROVE  /\ 2 * k + 1 \in 1..(2 * n + 6) /\ 2 * k + 1 - 0 = 2 * k + 1
         /\ 2 * k + 1 # 2 * g + 2
         /\ k <= g => 2 * k + 1 \in 1..(2 * g + 2)
         /\ k > g => 2 * k + 1 \in ((2 * g + 1) + 1)..(2 * n + 6)
  OBVIOUS

LEMMA EndIndex ==
  ASSUME NEW n \in Nat, NEW g \in Nat, g <= n, NEW j \in 3..6
  PROVE  /\ 2 * n + j \in 1..(2 * n + 6) /\ 2 * n + j - 0 = 2 * n + j
         /\ 2 * n + j # 2 * g + 2
         /\ 2 * n + j \in ((2 * g + 1) + 1)..(2 * n + 6)
  OBVIOUS

LEMMA DamagePlace ==
  ASSUME NEW n \in Nat, n >= 4, NEW g \in 1..4
  PROVE  /\ g \in Nat /\ g >= 1 /\ g <= n /\ g \in 0..n
         /\ 2 * g + 2 \in 1..(2 * n + 6) /\ 2 * g + 2 \in Nat
         /\ 2 + 2 * g = 2 * g + 2
         /\ 1 + 2 * g \in Nat /\ 1 + 2 * g # 0
         /\ 1 + 2 * g + 1 <= 2 * n + 6 /\ 1 + 2 * g = 2 * g + 1
  OBVIOUS

LEMMA PieceCharsAre ==
  ASSUME NEW p \in Pieces
  PROVE  LET n == ItemCount(p.ln)
             pc == PieceChars(p)
             off == Lacks(p)
             a == FirstItem(p)
             b == LastItem(p)
         IN  /\ pc \in Seq(Chars)
             /\ Len(pc) = IF p.damage.kind = "cut" THEN 2 * b + 2 ELSE 2 * n + 6 - off
             /\ off = 0 => pc[1] = Sep("$")
             /\ \A k \in a..b : pc[2 * k + 2 - off] = Char("text", PieceText(p, k))
             /\ \A k \in (a + 1)..b : pc[2 * k + 1 - off] = Sep(",")
             /\ p.damage.kind # "cut" =>
                  /\ pc[2 * n + 3 - off] = Sep("*")
                  /\ pc[2 * n + 4 - off] = Char("text", Text(p.ln, CrcItem, 0))
                  /\ pc[2 * n + 5 - off] = Sep("\r")
                  /\ pc[2 * n + 6 - off] = Char("text", Newline)
<1> DEFINE ln == p.ln
           n == ItemCount(ln)
           cs == Characters(ln)
           g == p.damage.k
           pc == PieceChars(p)
<1>1. /\ IsSent(ln) /\ ln \in AllLines /\ n \in 4..19
      /\ p.damage.kind \in {"whole", "garbled", "tail", "cut"}
      /\ p.damage.kind # "whole" => g \in 1..4
  BY PieceFacts
<1>2. CharsOf[ln] = cs BY <1>1 DEF CharsOf
<1>3. /\ cs \in Seq(Chars) /\ Len(cs) = 2 * n + 6
      /\ cs[1] = Sep("$")
      /\ \A k \in 0..n : cs[2 * k + 2] = Char("text", ItemText(ln, k))
      /\ \A k \in 1..n : cs[2 * k + 1] = Sep(",")
      /\ cs[2 * n + 3] = Sep("*") /\ cs[2 * n + 4] = Char("text", Text(ln, CrcItem, 0))
      /\ cs[2 * n + 5] = Sep("\r") /\ cs[2 * n + 6] = Char("text", Newline)
  BY <1>1, CharactersAre
<1>4. PieceChars(p) =
        CASE p.damage.kind = "garbled" -> [cs EXCEPT ![2 + 2 * g].t = Damaged(@)]
          [] p.damage.kind = "tail" -> SubSeq(cs, 2 + 2 * g, Len(cs))
          [] p.damage.kind = "cut" -> SubSeq(cs, 1, 2 + 2 * g)
          [] OTHER -> cs
  BY <1>2 DEF PieceChars
<1> HIDE DEF n, cs
<1> DEFINE N == Len(cs)
<1>a. n \in Nat /\ n >= 4 /\ N \in Nat /\ N = 2 * n + 6 /\ cs \in Seq(Chars)
      /\ N = Len(cs)
  <2>1. n \in 4..19 BY <1>1
  <2>2. cs \in Seq(Chars) /\ Len(cs) = 2 * n + 6 BY <1>3
  <2> QED BY <2>1, <2>2
<1> HIDE DEF N
<1>b. cs[1] = Sep("$") BY <1>3
<1>c. \A k \in 0..n : cs[2 * k + 2] = Char("text", ItemText(ln, k)) BY <1>3
<1>d. \A k \in 1..n : cs[2 * k + 1] = Sep(",") BY <1>3
<1>e. /\ cs[2 * n + 3] = Sep("*") /\ cs[2 * n + 4] = Char("text", Text(ln, CrcItem, 0))
      /\ cs[2 * n + 5] = Sep("\r") /\ cs[2 * n + 6] = Char("text", Newline)
  BY <1>3
<1>5. CASE p.damage.kind = "whole"
  <2>1. pc = cs BY <1>4, <1>5
  <2>2. FirstItem(p) = 0 /\ LastItem(p) = n /\ Lacks(p) = 0
    BY <1>5 DEF FirstItem, LastItem, Lacks, n
  <2>3. \A k : PieceText(p, k) = ItemText(ln, k) BY <1>5 DEF PieceText
  <2>4. ASSUME NEW k \in Nat
        PROVE  2 * k + 2 - 0 = 2 * k + 2 /\ 2 * k + 1 - 0 = 2 * k + 1
               /\ 2 * k + 3 - 0 = 2 * k + 3 /\ 2 * k + 4 - 0 = 2 * k + 4
               /\ 2 * k + 5 - 0 = 2 * k + 5 /\ 2 * k + 6 - 0 = 2 * k + 6
    OBVIOUS
  <2>5. \A k \in 0..n : pc[2 * k + 2 - 0] = Char("text", PieceText(p, k))
    <3> SUFFICES ASSUME NEW k \in 0..n
                 PROVE  pc[2 * k + 2 - 0] = Char("text", PieceText(p, k))
      OBVIOUS
    <3>1. k \in Nat OBVIOUS
    <3> QED BY <3>1, <2>1, <2>3, <2>4, <1>c
  <2>6. \A k \in (0 + 1)..n : pc[2 * k + 1 - 0] = Sep(",")
    <3> SUFFICES ASSUME NEW k \in (0 + 1)..n PROVE pc[2 * k + 1 - 0] = Sep(",")
      OBVIOUS
    <3>1. k \in Nat /\ k \in 1..n BY <1>a
    <3> QED BY <3>1, <2>1, <2>4, <1>d
  <2>7. /\ pc[2 * n + 3 - 0] = Sep("*")
        /\ pc[2 * n + 4 - 0] = Char("text", Text(ln, CrcItem, 0))
        /\ pc[2 * n + 5 - 0] = Sep("\r") /\ pc[2 * n + 6 - 0] = Char("text", Newline)
    BY <2>1, <2>4, <1>a, <1>e
  <2>8. 2 * n + 6 - 0 = Len(pc) BY <2>1, <1>a
  <2>9. pc[1] = Sep("$") /\ pc \in Seq(Chars) BY <2>1, <1>a, <1>b
  <2> HIDE DEF pc
  <2> QED BY <2>2, <2>5, <2>6, <2>7, <2>8, <2>9, <1>5 DEF n, pc
<1>6. CASE p.damage.kind = "garbled"
  <2>1. pc = [cs EXCEPT ![2 + 2 * g].t = Damaged(@)] BY <1>4, <1>6
  <2>2. FirstItem(p) = 0 /\ LastItem(p) = n /\ Lacks(p) = 0
    BY <1>6 DEF FirstItem, LastItem, Lacks, n
  <2> DEFINE at == 2 * g + 2
  <2>a. g \in 1..4 BY <1>1, <1>6
  <2>b. n \in Nat /\ n >= 4 /\ N = 2 * n + 6 BY <1>a
  <2>3. g \in Nat /\ g \in 0..n /\ at \in 1..N BY ONLY <2>a, <2>b, DamagePlace
  <2>0. n \in Nat /\ g \in Nat /\ g <= n /\ N = 2 * n + 6 BY <1>a, <2>3
  <2>4. cs[at] = Char("text", ItemText(ln, g)) BY <2>3, <1>c
  <2> DEFINE c == Char("text", Damaged(ItemText(ln, g)))
  <2>5. [cs[at] EXCEPT !.t = Damaged(cs[at].t)] = c
    BY <2>4 DEF Char
  <2>6. c \in Chars BY <2>3, <1>1, ItemTextType, CharType
  <2>7. 2 + 2 * g = at BY <2>3
  <2>8. pc = [cs EXCEPT ![at] = c]
    <3>1. pc = [cs EXCEPT ![2 + 2 * g] = [cs[2 + 2 * g] EXCEPT !.t = Damaged(cs[2 + 2 * g].t)]]
      BY <2>1
    <3> HIDE DEF c, at, pc, g
    <3> QED BY <3>1, <2>5, <2>7
  <2> HIDE DEF c, pc, at
  <2>9. /\ pc \in Seq(Chars) /\ Len(pc) = N
        /\ \A i \in 1..N : pc[i] = IF i = at THEN c ELSE cs[i]
    BY <2>3, <2>6, <2>8, <1>a, ExceptFacts
  <2>10. pc[1] = Sep("$")
    <3>1. 1 \in 1..N /\ 1 # at BY <1>a, <2>3 DEF at
    <3> QED BY <3>1, <2>9, <1>b
  <2>11. ASSUME NEW k \in 0..n PROVE pc[2 * k + 2 - 0] = Char("text", PieceText(p, k))
    <3> DEFINE i == 2 * k + 2
    <3>1. i \in 1..N /\ (i = at <=> k = g) /\ 2 * k + 2 - 0 = i
      BY ONLY <2>0, TextIndex, k \in 0..n DEF at
    <3>2. cs[i] = Char("text", ItemText(ln, k)) BY <1>c
    <3> HIDE DEF i
    <3>3. CASE k = g
      <4>1. PieceText(p, k) = Damaged(ItemText(ln, k)) BY <1>6, <3>3 DEF PieceText
      <4> QED BY <4>1, <3>1, <3>3, <2>9 DEF c
    <3>4. CASE k # g
      <4>1. PieceText(p, k) = ItemText(ln, k) BY <3>4 DEF PieceText
      <4> QED BY <4>1, <3>1, <3>2, <3>4, <2>9
    <3> QED BY <3>3, <3>4
  <2>12. ASSUME NEW k \in (0 + 1)..n PROVE pc[2 * k + 1 - 0] = Sep(",")
    <3> DEFINE i == 2 * k + 1
    <3>0. k \in 1..n BY ONLY <2>0
    <3>1. i \in 1..N /\ i # at /\ 2 * k + 1 - 0 = i
      BY ONLY <2>0, <3>0, CommaIndex DEF at
    <3>2. cs[i] = Sep(",") BY <3>0, <1>d
    <3> HIDE DEF i
    <3> QED BY <3>1, <3>2, <2>9
  <2>13. ASSUME NEW j \in 3..6 PROVE pc[2 * n + j - 0] = cs[2 * n + j]
    <3> DEFINE i == 2 * n + j
    <3>1. i \in 1..N /\ i # at /\ 2 * n + j - 0 = i
      BY ONLY <2>0, EndIndex, j \in 3..6 DEF at
    <3> HIDE DEF i
    <3>2. pc[i] = cs[i] BY <3>1, <2>9
    <3> QED BY <3>1, <3>2 DEF i
  <2>14. /\ pc[2 * n + 3 - 0] = Sep("*")
         /\ pc[2 * n + 4 - 0] = Char("text", Text(ln, CrcItem, 0))
         /\ pc[2 * n + 5 - 0] = Sep("\r") /\ pc[2 * n + 6 - 0] = Char("text", Newline)
    <3>1. 3 \in 3..6 /\ 4 \in 3..6 /\ 5 \in 3..6 /\ 6 \in 3..6 OBVIOUS
    <3> QED BY ONLY <3>1, <2>13, <1>e
  <2>15. Len(pc) = 2 * n + 6 - 0 BY <2>9, <1>a
  <2> QED BY <2>2, <2>9, <2>10, <2>11, <2>12, <2>14, <2>15, <1>6 DEF n, pc
<1>7. CASE p.damage.kind = "cut"
  <2> DEFINE m == 2 * g + 2
  <2>2. FirstItem(p) = 0 /\ LastItem(p) = g /\ Lacks(p) = 0
    BY <1>7 DEF FirstItem, LastItem, Lacks
  <2>a. g \in 1..4 BY <1>1, <1>7
  <2>b. n \in Nat /\ n >= 4 /\ N = 2 * n + 6 BY <1>a
  <2>3. g \in Nat /\ g <= n /\ m \in 1..N /\ 2 + 2 * g = m /\ m \in Nat
    BY ONLY <2>a, <2>b, DamagePlace
  <2>0. n \in Nat /\ g \in Nat /\ g <= n /\ m = 2 * g + 2 BY <1>a, <2>3
  <2>1. pc = SubSeq(cs, 1, m) BY <1>4, <1>7, <2>3
  <2>4. \A k : PieceText(p, k) = ItemText(ln, k) BY <1>7 DEF PieceText
  <2> HIDE DEF m, pc
  <2>5. pc \in Seq(Chars) /\ Len(pc) = m /\ \A i \in 1..m : pc[i] = cs[i]
    BY <2>1, <2>3, <1>a
  <2>6. pc[1] = Sep("$") BY <2>3, <2>5, <1>b
  <2>7. ASSUME NEW k \in 0..g PROVE pc[2 * k + 2 - 0] = Char("text", PieceText(p, k))
    <3> DEFINE i == 2 * k + 2
    <3>0. k \in 0..n /\ k <= g BY ONLY <2>0
    <3>1. i \in 1..m /\ k \in 0..n /\ 2 * k + 2 - 0 = i BY ONLY <2>0, <3>0, TextIndex
    <3>2. cs[i] = Char("text", ItemText(ln, k)) BY <3>1, <1>c
    <3> HIDE DEF i
    <3> QED BY <3>1, <3>2, <2>4, <2>5
  <2>8. ASSUME NEW k \in (0 + 1)..g PROVE pc[2 * k + 1 - 0] = Sep(",")
    <3> DEFINE i == 2 * k + 1
    <3>0. k \in 1..n /\ k <= g BY ONLY <2>0
    <3>1. i \in 1..m /\ k \in 1..n /\ 2 * k + 1 - 0 = i BY ONLY <2>0, <3>0, CommaIndex
    <3>2. cs[i] = Sep(",") BY <3>1, <1>d
    <3> HIDE DEF i
    <3> QED BY <3>1, <3>2, <2>5
  <2>9. Len(pc) = 2 * g + 2 BY <2>5 DEF m
  <2> QED BY <2>2, <2>5, <2>6, <2>7, <2>8, <2>9, <1>7 DEF pc
<1>8. CASE p.damage.kind = "tail"
  <2> DEFINE off == 1 + 2 * g
  <2>2. FirstItem(p) = g /\ LastItem(p) = n /\ Lacks(p) = off
    BY <1>8 DEF FirstItem, LastItem, Lacks, n
  <2>3. g \in Nat /\ g >= 1 /\ g <= n /\ off \in Nat /\ off # 0 /\ off + 1 <= N
        /\ off = 2 * g + 1
    <3>1. g \in 1..4 BY <1>1, <1>8
    <3>2. n \in Nat /\ n >= 4 /\ N = 2 * n + 6 BY <1>a
    <3> QED BY ONLY <3>1, <3>2, DamagePlace
  <2>0. /\ n \in Nat /\ g \in Nat /\ g <= n /\ off = 2 * g + 1
        /\ N = 2 * n + 6
    BY <1>a, <2>3
  <2>1. pc = SubSeq(cs, off + 1, N)
    <3>1. 2 + 2 * g = off + 1 BY <2>3
    <3>2. pc = SubSeq(cs, 2 + 2 * g, N) BY <1>4, <1>8, <1>a
    <3> HIDE DEF off, pc
    <3> QED BY <3>1, <3>2
  <2>4. \A k : PieceText(p, k) = ItemText(ln, k) BY <1>8 DEF PieceText
  <2> HIDE DEF pc, off
  <2>5. /\ pc \in Seq(Chars) /\ Len(pc) = N - off
        /\ \A i \in (off + 1)..N : pc[i - off] = cs[i]
    <3>0. /\ off \in Nat /\ N \in Nat /\ off + 1 <= N /\ N = Len(cs)
      BY <2>3, <1>a
    <3>1. off + 1 \in Nat /\ off + 1 >= 1 /\ N <= Len(cs) /\ off + 1 <= N + 1
      BY ONLY <3>0
    <3>2. /\ pc \in Seq(Chars) /\ Len(pc) = N + 1 - (off + 1)
          /\ \A j \in 1..(N + 1 - (off + 1)) : pc[j] = cs[j + ((off + 1) - 1)]
      BY <2>1, <3>1, <1>a, SubSeqFacts
    <3>3. ASSUME NEW i \in (off + 1)..N PROVE pc[i - off] = cs[i]
      <4>1. off \in Nat /\ N \in Nat BY <2>3, <1>a
      <4>2. i - off \in 1..(N + 1 - (off + 1)) /\ (i - off) + ((off + 1) - 1) = i
        BY <4>1
      <4> QED BY <4>2, <3>2
    <3>4. N + 1 - (off + 1) = N - off BY ONLY <3>0
    <3> QED BY <3>2, <3>3, <3>4
  <2>7. ASSUME NEW k \in g..n PROVE pc[2 * k + 2 - off] = Char("text", PieceText(p, k))
    <3> DEFINE i == 2 * k + 2
    <3>0. k \in Nat /\ off \in Nat BY <2>3
    <3>4. 2 * k + 2 - off = i - off BY <3>0
    <3>5. k \in 0..n /\ k >= g BY ONLY <2>0
    <3>1. i \in (off + 1)..N /\ k \in 0..n BY ONLY <2>0, <3>5, TextIndex
    <3>2. cs[i] = Char("text", ItemText(ln, k)) BY <3>1, <1>c
    <3> HIDE DEF i
    <3>3. pc[i - off] = Char("text", PieceText(p, k)) BY <3>1, <3>2, <2>4, <2>5
    <3> QED BY <3>3, <3>4
  <2>8. ASSUME NEW k \in (g + 1)..n PROVE pc[2 * k + 1 - off] = Sep(",")
    <3> DEFINE i == 2 * k + 1
    <3>0. k \in Nat /\ off \in Nat BY <2>3
    <3>4. 2 * k + 1 - off = i - off BY <3>0
    <3>5. k \in 1..n /\ k > g BY ONLY <2>0
    <3>1. i \in (off + 1)..N /\ k \in 1..n BY ONLY <2>0, <3>5, CommaIndex
    <3>2. cs[i] = Sep(",") BY <3>1, <1>d
    <3> HIDE DEF i
    <3>3. pc[i - off] = Sep(",") BY <3>1, <3>2, <2>5
    <3> QED BY <3>3, <3>4
  <2>9. ASSUME NEW j \in 3..6 PROVE pc[2 * n + j - off] = cs[2 * n + j]
    <3> DEFINE i == 2 * n + j
    <3>0. n \in Nat /\ j \in Nat /\ off \in Nat BY <1>a, <2>3
    <3>4. 2 * n + j - off = i - off BY <3>0
    <3>1. i \in (off + 1)..N BY ONLY <2>0, EndIndex, j \in 3..6
    <3> HIDE DEF i
    <3>3. pc[i - off] = cs[i] BY <3>1, <2>5
    <3>5. cs[i] = cs[2 * n + j] BY DEF i
    <3> QED BY <3>3, <3>4, <3>5
  <2>10. /\ pc[2 * n + 3 - off] = Sep("*")
         /\ pc[2 * n + 4 - off] = Char("text", Text(ln, CrcItem, 0))
         /\ pc[2 * n + 5 - off] = Sep("\r") /\ pc[2 * n + 6 - off] = Char("text", Newline)
    <3>1. 3 \in 3..6 /\ 4 \in 3..6 /\ 5 \in 3..6 /\ 6 \in 3..6 OBVIOUS
    <3> QED BY ONLY <3>1, <2>9, <1>e
  <2>11. Len(pc) = 2 * n + 6 - off BY <2>3, <2>5, <1>a
  <2> QED BY <2>2, <2>3, <2>5, <2>7, <2>8, <2>10, <2>11, <1>8 DEF pc, n
<1> QED BY <1>1, <1>5, <1>6, <1>7, <1>8

-------------------------------------------------------------------------------
(* What a piece does to the decoder: t[k] is the decoder after item k.      *)

Items(t, p, d) ==
  /\ t[FirstItem(p)] =
       Character(IF p.damage.kind = "tail" THEN d ELSE StartStatement(d),
                 PieceText(p, FirstItem(p)))
  /\ \A k \in (FirstItem(p) + 1)..LastItem(p) :
       t[k] = Character(Separator(t[k - 1]), PieceText(p, k))

AtReturn(p, d) == Character(Asterisk(d), Text(p.ln, CrcItem, 0))
Posted(posts, d) ==
  posts \o (IF PostsUpdate(d) THEN <<"GPS_UPDATE">> ELSE <<>>)
        \o (IF PostsUnknown(d) THEN <<"GPS_UNKNOWN">> ELSE <<>>)
Done(p, r, d) ==
  IF p.damage.kind = "cut" THEN [d |-> d, posts |-> r.posts]
  ELSE [d |-> Character(EndStatement(AtReturn(p, d)), Newline),
        posts |-> Posted(r.posts, AtReturn(p, d))]

LEMMA ResultFacts ==
  ASSUME NEW r \in Results
  PROVE  /\ r.d \in Decoders /\ r.posts \in Seq(Kinds)
         /\ r = [d |-> r.d, posts |-> r.posts]
         /\ \A d : [r EXCEPT !.d = d] = [d |-> d, posts |-> r.posts]
  BY DEF Results

LEMMA DecodeCharFacts ==
  ASSUME NEW r \in Results
  PROVE  /\ DecodeChar(r, Sep("$")) = [d |-> StartStatement(r.d), posts |-> r.posts]
         /\ DecodeChar(r, Sep(",")) = [d |-> Separator(r.d), posts |-> r.posts]
         /\ DecodeChar(r, Sep("*")) = [d |-> Asterisk(r.d), posts |-> r.posts]
         /\ DecodeChar(r, Sep("\r")) = [d |-> EndStatement(r.d), posts |-> Posted(r.posts, r.d)]
  BY ResultFacts DEF DecodeChar, Sep, Char, Posted

LEMMA DecodeTextFacts ==
  ASSUME NEW r \in Results, NEW t
  PROVE  DecodeChar(r, Char("text", t)) = [d |-> Character(r.d, t), posts |-> r.posts]
  BY ResultFacts DEF DecodeChar, Char

LEMMA PieceDecoded ==
  ASSUME NEW p \in Pieces, NEW r \in Results
  PROVE  \E t : /\ Items(t, p, r.d)
                /\ \A k \in FirstItem(p)..LastItem(p) : t[k] \in Decoders
                /\ GpsDecode(r, PieceChars(p)) = Done(p, r, t[LastItem(p)])
<1> DEFINE n == ItemCount(p.ln)
           pc == PieceChars(p)
           off == Lacks(p)
           a == FirstItem(p)
           b == LastItem(p)
           cut == p.damage.kind = "cut"
           tail == p.damage.kind = "tail"
<1>1. /\ pc \in Seq(Chars)
      /\ Len(pc) = IF cut THEN 2 * b + 2 ELSE 2 * n + 6 - off
      /\ off = 0 => pc[1] = Sep("$")
      /\ \A k \in a..b : pc[2 * k + 2 - off] = Char("text", PieceText(p, k))
      /\ \A k \in (a + 1)..b : pc[2 * k + 1 - off] = Sep(",")
      /\ ~cut =>
           /\ pc[2 * n + 3 - off] = Sep("*")
           /\ pc[2 * n + 4 - off] = Char("text", Text(p.ln, CrcItem, 0))
           /\ pc[2 * n + 5 - off] = Sep("\r")
           /\ pc[2 * n + 6 - off] = Char("text", Newline)
  BY PieceCharsAre
<1>2. /\ n \in Nat /\ a \in Nat /\ b \in Nat /\ off \in Nat /\ a <= b
      /\ tail => off = 2 * a + 1 /\ ~cut
      /\ ~tail => off = 0 /\ a = 0
      /\ ~cut => b = n
      /\ cut => off = 0
  BY PieceFacts DEF FirstItem, LastItem, Lacks
<1> HIDE DEF n, pc, off, a, b, cut, tail
<1> DEFINE L == Len(pc)
<1>15. pc \in Seq(Chars) /\ L = IF cut THEN 2 * b + 2 ELSE 2 * n + 6 - off BY <1>1
<1>3. L \in Nat BY <1>15
<1>4. PICK m : Run(m, r, pc) /\ GpsDecode(r, pc) = m[L] BY <1>3, DecodeRuns
<1>5. \A i \in 0..L : m[i] \in Results BY <1>1, <1>4, RunTypes
<1>6. m[0] = r /\ \A i \in 1..L : m[i] = DecodeChar(m[i - 1], pc[i]) BY <1>4 DEF Run
<1>7. IF cut THEN L = 2 * b + 2 - off ELSE L = 2 * b + 6 - off
  <2>1. CASE cut BY <2>1, <1>15, <1>2
  <2>2. CASE ~cut BY <2>2, <1>15, <1>2
  <2> QED BY <2>1, <2>2
<1> HIDE DEF L
<1> DEFINE J(k) == 2 * k + 2 - off
           t == [k \in a..b |-> m[J(k)].d]
<1>8. ASSUME NEW k \in a..b PROVE k \in Nat /\ J(k) \in 1..L
  <2>1. CASE cut BY <2>1, <1>2, <1>3, <1>7
  <2>2. CASE ~cut
    <3>1. CASE tail BY <2>2, <3>1, <1>2, <1>3, <1>7
    <3>2. CASE ~tail BY <2>2, <3>2, <1>2, <1>3, <1>7
    <3> QED BY <3>1, <3>2
  <2> QED BY <2>1, <2>2
<1> HIDE DEF J
<1>9. m[J(a)] = [d |-> Character(IF tail THEN r.d ELSE StartStatement(r.d), PieceText(p, a)),
                 posts |-> r.posts]
  <2>1. a \in a..b BY <1>2
  <2>2. pc[J(a)] = Char("text", PieceText(p, a)) BY <2>1, <1>1 DEF J
  <2>3. CASE tail
    <3>1. J(a) = 1 BY <2>3, <1>2 DEF J
    <3>2. m[1] = DecodeChar(m[0], pc[1])
      <4>1. 1 \in 1..L /\ 1 - 1 = 0 BY <2>1, <1>8, <3>1
      <4> QED BY <4>1, <1>6
    <3> QED BY <3>1, <3>2, <2>2, <2>3, <1>6, DecodeTextFacts
  <2>4. CASE ~tail
    <3>1. J(a) = 2 BY <2>4, <1>2 DEF J
    <3>2. 1 \in 1..L /\ 1 - 1 = 0 /\ 2 \in 1..L /\ 2 - 1 = 1
      <4>1. J(a) \in 1..L BY <2>1, <1>8
      <4> QED BY <4>1, <3>1, <1>3
    <3>3. m[1] = DecodeChar(m[0], pc[1]) /\ m[2] = DecodeChar(m[1], pc[2])
      BY <3>2, <1>6
    <3>4. pc[1] = Sep("$") BY <2>4, <1>1, <1>2
    <3>5. m[1] = [d |-> StartStatement(r.d), posts |-> r.posts]
      BY <3>3, <3>4, <1>6, DecodeCharFacts
    <3>6. m[1] \in Results BY <3>2, <1>5, <1>3
    <3>7. m[2] = [d |-> Character(m[1].d, PieceText(p, a)), posts |-> m[1].posts]
      BY <3>1, <3>3, <3>6, <2>2, DecodeTextFacts
    <3> QED BY <3>1, <3>5, <3>7, <2>4
  <2> QED BY <2>3, <2>4
<1>10. ASSUME NEW k \in (a + 1)..b
       PROVE  /\ k - 1 \in a..b /\ k \in a..b
              /\ m[J(k)].d = Character(Separator(m[J(k - 1)].d), PieceText(p, k))
              /\ m[J(k)].posts = m[J(k - 1)].posts
  <2>1. k - 1 \in a..b /\ k \in a..b /\ k \in Nat BY <1>2
  <2>2. J(k) \in 1..L /\ J(k - 1) \in 1..L BY <2>1, <1>8
  <2> DEFINE i == J(k) - 1
  <2>3. i \in 1..L /\ i - 1 = J(k - 1) /\ i = 2 * k + 1 - off
    <3>1. i - 1 = J(k - 1) /\ i = 2 * k + 1 - off BY <2>1, <1>2 DEF J
    <3>2. i \in Int /\ i < J(k) /\ J(k - 1) < i BY <2>1, <1>2 DEF J
    <3> HIDE DEF i
    <3> QED BY <3>1, <3>2, <2>2, <1>3
  <2>4. pc[i] = Sep(",") BY <2>3, <1>1
  <2>5. pc[J(k)] = Char("text", PieceText(p, k)) BY <2>1, <1>1 DEF J
  <2>6. m[i] = DecodeChar(m[J(k - 1)], pc[i]) BY <2>3, <1>6
  <2>7. m[J(k)] = DecodeChar(m[i], pc[J(k)]) BY <2>2, <1>6
  <2>8. m[J(k - 1)] \in Results /\ m[i] \in Results BY <2>2, <2>3, <1>3, <1>5
  <2> HIDE DEF i
  <2>9. m[i] = [d |-> Separator(m[J(k - 1)].d), posts |-> m[J(k - 1)].posts]
    BY <2>4, <2>6, <2>8, DecodeCharFacts
  <2>10. m[J(k)] = [d |-> Character(m[i].d, PieceText(p, k)), posts |-> m[i].posts]
    BY <2>5, <2>7, <2>8, DecodeTextFacts
  <2> QED BY <2>1, <2>9, <2>10
<1>11. m[J(b)].posts = r.posts
  <2> DEFINE S == {k \in Nat : k \in a..b => m[J(k)].posts = r.posts}
  <2>1. 0 \in S
    <3>1. 0 \in a..b => a = 0 BY <1>2
    <3> QED BY <3>1, <1>9
  <2>2. ASSUME NEW k \in S PROVE k + 1 \in S
    <3>1. CASE k + 1 \in (a + 1)..b
      <4>1. (k + 1) - 1 = k /\ k \in a..b BY <3>1, <1>2
      <4>2. m[J(k + 1)].posts = m[J((k + 1) - 1)].posts BY <3>1, <1>10
      <4> QED BY <4>1, <4>2
    <3>2. CASE k + 1 \notin (a + 1)..b
      <4>1. k + 1 \in a..b => k + 1 = a BY <3>2, <1>2
      <4> QED BY <4>1, <1>9
    <3> QED BY <3>1, <3>2
  <2>3. S \in SUBSET Nat OBVIOUS
  <2> HIDE DEF S
  <2>4. b \in S BY <2>1, <2>2, <2>3, <1>2, SetInduction
  <2>5. b \in a..b BY <1>2
  <2> QED BY <2>4, <2>5 DEF S
<1>12. \A k \in a..b : t[k] = m[J(k)].d /\ t[k] \in Decoders
  <2> SUFFICES ASSUME NEW k \in a..b PROVE t[k] = m[J(k)].d /\ t[k] \in Decoders
    OBVIOUS
  <2>1. J(k) \in 0..L BY <1>8, <1>3
  <2> QED BY <2>1, <1>5, ResultFacts
<1> HIDE DEF t
<1>13. Items(t, p, r.d)
  <2>1. t[a] = Character(IF tail THEN r.d ELSE StartStatement(r.d), PieceText(p, a))
    BY <1>2, <1>9, <1>12
  <2>2. ASSUME NEW k \in (a + 1)..b
        PROVE  t[k] = Character(Separator(t[k - 1]), PieceText(p, k))
    BY <1>10, <1>12
  <2> QED BY <2>1, <2>2 DEF Items, a, b, tail
<1>14. m[L] = Done(p, r, t[b])
  <2>0. b \in a..b BY <1>2
  <2>1. J(b) \in 0..L /\ m[J(b)] \in Results BY <2>0, <1>3, <1>5, <1>8
  <2>2. m[J(b)] = [d |-> t[b], posts |-> r.posts]
    BY <2>0, <2>1, <1>11, <1>12, ResultFacts
  <2>3. CASE cut
    <3>1. L = J(b) BY <2>3, <1>7 DEF J
    <3> QED BY <3>1, <2>2, <2>3 DEF Done, cut
  <2>4. CASE ~cut
    <3> DEFINE j == J(b)
    <3>1. /\ j + 1 \in 1..L /\ j + 2 \in 1..L /\ j + 3 \in 1..L /\ j + 4 = L
          /\ L \in 1..L
      <4>1. j \in Nat /\ j \in 1..L BY <2>0, <1>8
      <4>2. L = j + 4 BY <2>4, <1>2, <1>7 DEF J
      <4> HIDE DEF j
      <4> QED BY <4>1, <4>2, <1>3
    <3>2. /\ pc[j + 1] = Sep("*") /\ pc[j + 2] = Char("text", Text(p.ln, CrcItem, 0))
          /\ pc[j + 3] = Sep("\r") /\ pc[j + 4] = Char("text", Newline)
      <4>1. j + 1 = 2 * n + 3 - off /\ j + 2 = 2 * n + 4 - off
            /\ j + 3 = 2 * n + 5 - off /\ j + 4 = 2 * n + 6 - off
        BY <2>4, <1>2 DEF J
      <4> QED BY <4>1, <2>4, <1>1
    <3> HIDE DEF j
    <3>3. j \in Nat BY <2>1, <1>8, <2>0 DEF j
    <3>4. /\ m[j + 1] = DecodeChar(m[j], pc[j + 1])
          /\ m[j + 2] = DecodeChar(m[j + 1], pc[j + 2])
          /\ m[j + 3] = DecodeChar(m[j + 2], pc[j + 3])
          /\ m[j + 4] = DecodeChar(m[j + 3], pc[j + 4])
      <4>1. (j + 1) - 1 = j /\ (j + 2) - 1 = j + 1 /\ (j + 3) - 1 = j + 2
            /\ (j + 4) - 1 = j + 3
        BY <3>3
      <4> QED BY <4>1, <3>1, <1>6
    <3>5. m[j] \in Results /\ m[j + 1] \in Results /\ m[j + 2] \in Results
          /\ m[j + 3] \in Results
      <4>1. j + 1 \in 0..L /\ j + 2 \in 0..L /\ j + 3 \in 0..L BY <3>1, <1>3
      <4> QED BY <4>1, <2>1, <1>5 DEF j
    <3>6. m[j + 1] = [d |-> Asterisk(t[b]), posts |-> r.posts]
      <4>1. m[j].d = t[b] /\ m[j].posts = r.posts BY <2>2 DEF j
      <4> QED BY <4>1, <3>2, <3>4, <3>5, DecodeCharFacts
    <3>7. m[j + 2] = [d |-> AtReturn(p, t[b]), posts |-> r.posts]
      BY <3>2, <3>4, <3>5, <3>6, DecodeTextFacts DEF AtReturn
    <3>8. m[j + 3] = [d |-> EndStatement(AtReturn(p, t[b])),
                      posts |-> Posted(r.posts, AtReturn(p, t[b]))]
      <4>1. m[j + 2].d = AtReturn(p, t[b]) /\ m[j + 2].posts = r.posts BY <3>7
      <4>2. DecodeChar(m[j + 2], Sep("\r")) =
              [d |-> EndStatement(m[j + 2].d), posts |-> Posted(m[j + 2].posts, m[j + 2].d)]
        BY <3>5, DecodeCharFacts
      <4> QED BY <3>2, <3>4, <4>1, <4>2
    <3>9. m[j + 4] = [d |-> Character(EndStatement(AtReturn(p, t[b])), Newline),
                      posts |-> Posted(r.posts, AtReturn(p, t[b]))]
      BY <3>2, <3>4, <3>5, <3>8, DecodeTextFacts
    <3> QED BY <3>1, <3>9, <2>4 DEF Done, cut
  <2> QED BY <2>3, <2>4
<1> QED BY <1>4, <1>12, <1>13, <1>14 DEF a, b, pc

-------------------------------------------------------------------------------
(* What an item, and the end of a line, leave in the decoder.               *)

LEMMA PieceTextType ==
  ASSUME NEW p \in Pieces, NEW k \in Nat
  PROVE  /\ PieceText(p, k) \in Texts /\ PieceText(p, k).ln = p.ln
         /\ PieceText(p, k).k = k
         /\ p.damage.kind = "garbled" /\ k = p.damage.k => ~PieceText(p, k).ok
         /\ p.damage.kind # "garbled" => PieceText(p, k) = ItemText(p.ln, k)
<1>1. IsSent(p.ln) BY PieceFacts
<1>2. CASE p.damage.kind = "garbled" /\ k = p.damage.k
  <2>1. PieceText(p, k) = Damaged(ItemText(p.ln, k)) BY <1>2 DEF PieceText
  <2> DEFINE x == Damaged(ItemText(p.ln, k))
  <2>2. x \in Texts /\ x.ln = p.ln /\ x.k = k /\ ~x.ok
    <3>1. ASSUME NEW ln, IsSent(ln)
          PROVE  /\ ItemText(ln, k) \in Texts /\ ItemText(ln, k).ln = ln
                 /\ ItemText(ln, k).k = k
                 /\ Damaged(ItemText(ln, k)) \in Texts /\ Damaged(ItemText(ln, k)).ln = ln
                 /\ Damaged(ItemText(ln, k)).k = k /\ ~Damaged(ItemText(ln, k)).ok
      BY <3>1, ItemTextType
    <3> QED BY <3>1, <1>1
  <2> HIDE DEF x
  <2> QED BY <1>2, <2>1, <2>2 DEF x
<1>3. CASE ~(p.damage.kind = "garbled" /\ k = p.damage.k)
  <2>1. PieceText(p, k) = ItemText(p.ln, k) BY <1>3 DEF PieceText
  <2>2. ItemText(p.ln, k) \in Texts /\ ItemText(p.ln, k).ln = p.ln /\ ItemText(p.ln, k).k = k
    <3>1. ASSUME NEW ln, IsSent(ln)
          PROVE  /\ ItemText(ln, k) \in Texts /\ ItemText(ln, k).ln = ln
                 /\ ItemText(ln, k).k = k
                 /\ Damaged(ItemText(ln, k)) \in Texts /\ Damaged(ItemText(ln, k)).ln = ln
                 /\ Damaged(ItemText(ln, k)).k = k /\ ~Damaged(ItemText(ln, k)).ok
      BY <3>1, ItemTextType
    <3> QED BY <3>1, <1>1
  <2> QED BY <1>3, <2>1, <2>2
<1> QED BY <1>2, <1>3

LEMMA CommaEmpty ==
  /\ Comma \in Texts /\ Empty \in Texts /\ Code(Comma) = 3
  /\ Empty.ln = NoLine /\ NoLine.id = 0
  BY ConstantTexts DEF Comma, Empty, Text, Texts, Code, NoLine

LEMMA ItemStep ==
  ASSUME NEW d \in Decoders, NEW x \in Texts
  PROVE  LET e == Character(Separator(d), x)
             q == ParseItem(d)
         IN  /\ e \in Decoders
             /\ e.parsed_statement = d.parsed_statement /\ e.asterisk = d.asterisk
             /\ e.item_num = (d.item_num + 1) % 256 /\ e.item_str = x
             /\ e.crc = IF d.asterisk THEN Xor(d.crc, Comma) ELSE Xor(Xor(d.crc, Comma), x)
             /\ e.cur_statement = q.cur_statement /\ e.sat_num = q.sat_num
             /\ e.sat_count = q.sat_count /\ e.parent = Spill(q.parent, Length(x))
<1> DEFINE q == ParseItem(d)
           s == Separator(d)
           e == Character(s, x)
           g == Spill(q.parent, Length(x))
<1>1. q \in Decoders /\ q.parsed_statement = d.parsed_statement /\ q.asterisk = d.asterisk
  BY ParseItemType DEF SameBut
<1>2. s = [q EXCEPT !.crc = Xor(d.crc, Comma), !.item_pos = 0, !.item_str = Empty,
                    !.item_num = (d.item_num + 1) % 256] /\ s \in Decoders
  BY SeparatorFacts
<1> HIDE DEF q, s
<1>3. /\ s.crc = Xor(d.crc, Comma) /\ s.item_str = Empty /\ s.item_pos = 0
      /\ s.item_num = (d.item_num + 1) % 256
      /\ s.parsed_statement = d.parsed_statement /\ s.asterisk = d.asterisk
      /\ s.cur_statement = q.cur_statement /\ s.sat_num = q.sat_num
      /\ s.sat_count = q.sat_count /\ s.parent = q.parent
  BY <1>1, <1>2 DEF Decoders
<1>4. Joined(Empty, x) = x BY DEF Joined
<1>5. e \in Decoders BY <1>2, CharacterType
<1>6. e = [s EXCEPT !.crc = IF s.asterisk THEN s.crc ELSE Xor(s.crc, x), !.item_str = x,
                    !.item_pos = Length(x), !.parent = g]
  <2>1. Length(x) \in Nat /\ s.item_pos + Length(x) = Length(x)
    BY <1>3, LengthType
  <2>2. Spill(s.parent, s.item_pos + Length(x)) = g BY <1>3, <2>1
  <2> HIDE DEF g
  <2> QED BY <1>3, <1>4, <2>1, <2>2 DEF Character
<1> HIDE DEF e, g
<1>7. /\ e.parsed_statement = s.parsed_statement /\ e.asterisk = s.asterisk
      /\ e.item_num = s.item_num /\ e.item_str = x
      /\ e.crc = IF s.asterisk THEN s.crc ELSE Xor(s.crc, x)
      /\ e.cur_statement = s.cur_statement /\ e.sat_num = s.sat_num
      /\ e.sat_count = s.sat_count /\ e.parent = g
  BY <1>2, <1>6 DEF Decoders
<1> QED BY <1>3, <1>5, <1>7 DEF e, s, q, g

LEMMA FirstStep ==
  ASSUME NEW d \in Decoders, NEW x \in Texts, x.k = 0
  PROVE  LET e == Character(StartStatement(d), x)
         IN  /\ e \in Decoders
             /\ e.parsed_statement = d.parsed_statement /\ e.asterisk = FALSE
             /\ e.item_num = 0 /\ e.item_str = x /\ e.crc = Xor({}, x)
             /\ e.cur_statement = Unknown /\ e.parent = Spill(d.parent, 1 + Length(x))
<1> DEFINE s == StartStatement(d)
           e == Character(s, x)
           last == 1 + Length(x)
           g == Spill(d.parent, last)
<1>1. /\ s \in Decoders /\ s.item_pos = 1 /\ s.crc = {} /\ s.item_str = Dollar /\ s.asterisk = FALSE
      /\ s.parsed_statement = d.parsed_statement /\ s.item_num = 0
      /\ s.cur_statement = Unknown /\ s.parent = d.parent
  BY StartType DEF StartStatement, Decoders
<1> HIDE DEF s
<1>2. Joined(Dollar, x) = x BY DEF Joined
<1>3. e \in Decoders BY <1>1, CharacterType
<1>4. e = [s EXCEPT !.crc = Xor({}, x), !.item_str = x, !.item_pos = last, !.parent = g]
  BY <1>1, <1>2 DEF Character
<1> HIDE DEF e, last, g
<1>5. /\ e.parsed_statement = s.parsed_statement /\ e.asterisk = s.asterisk
      /\ e.item_num = s.item_num /\ e.item_str = x /\ e.crc = Xor({}, x)
      /\ e.cur_statement = s.cur_statement /\ e.parent = g
  BY <1>1, <1>4 DEF Decoders
<1> QED BY <1>1, <1>3, <1>5 DEF e, s, g, last

LEMMA TailStep ==
  ASSUME NEW d \in Decoders, NEW x \in Texts
  PROVE  LET e == Character(d, x)
         IN  /\ e \in Decoders /\ e.parsed_statement = d.parsed_statement
             /\ e.crc = IF d.asterisk THEN d.crc ELSE Xor(d.crc, x)
<1>1. Character(d, x) \in Decoders BY CharacterType
<1> QED BY <1>1 DEF Character, Decoders

(* The lengths of the texts of a line.                                      *)
LEMMA SentLength ==
  ASSUME NEW ln, IsSent(ln), NEW k, NEW n
  PROVE  Length(Text(ln, k, n)) = IF k = CrcItem THEN 2
                                  ELSE IF ln.s = "TXT" /\ k = TextItem THEN TextLength
                                  ELSE ItemLength
<1>1. ln # NoLine BY DEF IsSent, NoLine
<1>2. Text(ln, k, n).ln = ln /\ Text(ln, k, n).k = k BY DEF Text
<1> QED BY <1>1, <1>2 DEF Length

LEMMA ReturnStep ==
  ASSUME NEW d \in Decoders, NEW p \in Pieces
  PROVE  LET e == AtReturn(p, d)
             q == ParseItem(d)
             v == Text(p.ln, CrcItem, 0)
         IN  /\ e \in Decoders /\ e.parsed_statement = d.parsed_statement
             /\ e.item_pos = 2 /\ e.item_str = v /\ e.crc = d.crc /\ e.asterisk = TRUE
             /\ e.cur_statement = q.cur_statement /\ e.sat_num = q.sat_num
             /\ e.sat_count = q.sat_count /\ e.parent = q.parent
<1> DEFINE q == ParseItem(d)
           s == Asterisk(d)
           v == Text(p.ln, CrcItem, 0)
           e == Character(s, v)
<1>0. v \in Texts BY PieceFacts, ItemTextType DEF CrcItem
<1>1. q \in Decoders /\ q.parsed_statement = d.parsed_statement /\ q.crc = d.crc
  BY ParseItemType DEF SameBut
<1>2. s = [q EXCEPT !.asterisk = TRUE, !.item_pos = 0, !.item_str = Empty,
                    !.item_num = (d.item_num + 1) % 256] /\ s \in Decoders
  BY AsteriskFacts
<1>8. Length(v) = 2
  <2>1. IsSent(p.ln) BY PieceFacts
  <2> QED BY <2>1, SentLength
<1> HIDE DEF q, s, v
<1>3. /\ s.asterisk = TRUE /\ s.item_pos = 0 /\ s.item_str = Empty /\ s.crc = d.crc
      /\ s.parsed_statement = d.parsed_statement
      /\ s.cur_statement = q.cur_statement /\ s.sat_num = q.sat_num
      /\ s.sat_count = q.sat_count /\ s.parent = q.parent
  BY <1>1, <1>2 DEF Decoders
<1>4. Joined(Empty, v) = v BY DEF Joined
<1>5. e \in Decoders BY <1>0, <1>2, CharacterType
<1>6. e = [s EXCEPT !.crc = s.crc, !.item_str = v, !.item_pos = 2, !.parent = s.parent]
  <2>1. s.item_pos + Length(v) = 2 BY <1>3, <1>8
  <2>2. s.parent \in GpsData BY <1>2 DEF Decoders
  <2>3. Spill(s.parent, 2) = s.parent BY <2>2, SpillFacts
  <2> QED BY <1>3, <1>4, <2>1, <2>3 DEF Character
<1> HIDE DEF e
<1>7. /\ e.parsed_statement = s.parsed_statement /\ e.asterisk = s.asterisk
      /\ e.item_pos = 2 /\ e.item_str = v /\ e.crc = s.crc
      /\ e.cur_statement = s.cur_statement /\ e.sat_num = s.sat_num
      /\ e.sat_count = s.sat_count /\ e.parent = s.parent
  BY <1>2, <1>6 DEF Decoders
<1> QED BY <1>3, <1>5, <1>7 DEF e, s, q, v, AtReturn

(* A text that is not added does not get into a checksum.                   *)
LEMMA CodeInjective ==
  ASSUME NEW t \in Texts, NEW u \in Texts, t.k <= 99, u.k <= 99, Code(t) = Code(u)
  PROVE  t.ln.id = u.ln.id /\ t.k = u.k /\ t.ok = u.ok
<1>1. t.ln.id \in Nat /\ u.ln.id \in Nat /\ t.k \in Nat /\ u.k \in Nat
      /\ t.ok \in BOOLEAN /\ u.ok \in BOOLEAN
  BY DEF Texts, LineRecords
<1> DEFINE a == IF t.ok THEN 1 ELSE 0
           b == IF u.ok THEN 1 ELSE 0
<1>2. a \in {0, 1} /\ b \in {0, 1} OBVIOUS
<1>3. 200 * t.ln.id + 2 * t.k + a = 200 * u.ln.id + 2 * u.k + b BY DEF Code
<1>4. (a = b) => t.ok = u.ok BY <1>1
<1> HIDE DEF a, b
<1>6. PICK x \in Nat, y \in Nat, k \in 0..99, l \in 0..99, i \in 0..1, j \in 0..1 :
        x = t.ln.id /\ y = u.ln.id /\ k = t.k /\ l = u.k /\ i = a /\ j = b
  <2>1. t.k \in 0..99 /\ u.k \in 0..99 /\ a \in 0..1 /\ b \in 0..1 BY <1>1, <1>2
  <2> QED BY <2>1, <1>1, Zenon
<1>7. 200 * x + 2 * k + i = 200 * y + 2 * l + j BY <1>3, <1>6
<1>8. x = y /\ k = l /\ i = j BY <1>7
<1>5. t.ln.id = u.ln.id /\ t.k = u.k /\ a = b BY <1>6, <1>8
<1> QED BY <1>4, <1>5

LEMMA CrcWithout ==
  ASSUME NEW p \in Pieces, NEW d \in Decoders, NEW t, Items(t, p, d),
         \A k \in FirstItem(p)..LastItem(p) : t[k] \in Decoders,
         NEW c \in Int, c # 3,
         \A k \in FirstItem(p)..LastItem(p) : Code(PieceText(p, k)) # c,
         p.damage.kind = "tail" => c \notin d.crc
  PROVE  \A k \in FirstItem(p)..LastItem(p) : c \notin t[k].crc
<1> DEFINE a == FirstItem(p)
           b == LastItem(p)
           S == {k \in Nat : k \in a..b => c \notin t[k].crc}
<1>1. a \in Nat /\ b \in Nat /\ a <= b BY PieceFacts DEF FirstItem, LastItem
<1>2. a \in a..b => c \notin t[a].crc
  <2> SUFFICES ASSUME a \in a..b PROVE c \notin t[a].crc OBVIOUS
  <2>1. PieceText(p, a) \in Texts /\ PieceText(p, a).k = a BY <1>1, PieceTextType
  <2>2. Code(PieceText(p, a)) # c OBVIOUS
  <2>3. CASE p.damage.kind = "tail"
    <3>1. t[a] = Character(d, PieceText(p, a)) BY <2>3 DEF Items
    <3>2. t[a].crc = IF d.asterisk THEN d.crc ELSE Xor(d.crc, PieceText(p, a))
      BY <3>1, <2>1, TailStep
    <3> QED BY <3>2, <2>2, <2>3 DEF Xor
  <2>4. CASE p.damage.kind # "tail"
    <3>1. t[a] = Character(StartStatement(d), PieceText(p, a)) BY <2>4 DEF Items
    <3>2. a = 0 BY <2>4 DEF FirstItem
    <3>4. PieceText(p, a).k = 0 BY <3>2, <2>1
    <3> DEFINE x == PieceText(p, a)
    <3> HIDE DEF x
    <3>5. x \in Texts /\ x.k = 0 BY <3>4, <2>1 DEF x
    <3>6. Character(StartStatement(d), x).crc = Xor({}, x) BY <3>5, FirstStep
    <3>3. t[a].crc = Xor({}, PieceText(p, a)) BY <3>1, <3>6 DEF x
    <3> QED BY <3>3, <2>2 DEF Xor
  <2> QED BY <2>3, <2>4
<1>3. 0 \in S
  <2>1. 0 \in a..b => a = 0 BY <1>1
  <2> QED BY <2>1, <1>2
<1>4. ASSUME NEW k \in S PROVE k + 1 \in S
  <2>1. CASE k + 1 \in (a + 1)..b
    <3>1. (k + 1) - 1 = k /\ k \in a..b /\ k + 1 \in a..b /\ k + 1 \in Nat BY <2>1, <1>1
    <3>2. t[k + 1] = Character(Separator(t[k]), PieceText(p, k + 1))
      BY <2>1, <3>1 DEF Items
    <3>3. PieceText(p, k + 1) \in Texts BY <3>1, PieceTextType
    <3>4. Code(PieceText(p, k + 1)) # c /\ t[k] \in Decoders BY <3>1
    <3>5. t[k + 1].crc = IF t[k].asterisk THEN Xor(t[k].crc, Comma)
                         ELSE Xor(Xor(t[k].crc, Comma), PieceText(p, k + 1))
      BY <3>2, <3>3, <3>4, ItemStep
    <3>6. c \notin t[k].crc BY <3>1
    <3>7. c \notin Xor(t[k].crc, Comma) BY <3>6, CommaEmpty DEF Xor
    <3>8. c \notin Xor(Xor(t[k].crc, Comma), PieceText(p, k + 1)) BY <3>4, <3>7 DEF Xor
    <3> QED BY <3>5, <3>7, <3>8
  <2>2. CASE k + 1 \notin (a + 1)..b
    <3>1. k + 1 \in a..b => k + 1 = a BY <2>2, <1>1
    <3> QED BY <3>1, <1>2
  <2> QED BY <2>1, <2>2
<1>5. S \in SUBSET Nat OBVIOUS
<1> HIDE DEF S
<1>6. \A k \in Nat : k \in S BY <1>3, <1>4, <1>5, SetInduction
<1>7. \A k \in a..b : k \in Nat BY <1>1
<1> QED BY <1>6, <1>7 DEF S

-------------------------------------------------------------------------------
(* A whole line: which item the decoder is at, and in which statement.      *)

Named(ln) == IF ln.s \in Statements THEN ln.s ELSE Unknown

AtItem(d, ln, k) ==
  /\ d \in Decoders /\ d.item_num = k /\ d.item_str = ItemText(ln, k)
  /\ d.cur_statement = IF k = 0 THEN Unknown ELSE Named(ln)
  /\ Named(ln) = "GSV" /\ k >= 2 => d.sat_count = ln.of
  /\ Named(ln) = "GSV" /\ k >= 3 => d.sat_num = ln.part

LEMMA UnknownIsNone == Unknown \notin Statements /\ Unknown # "GSV"
  BY StatementsAre DEF Unknown

LEMMA ItemNumbers ==
  ASSUME NEW ln, IsSent(ln), ln.s = "GSV"
  PROVE  ItemNumber(ln, 1) = ln.of /\ ItemNumber(ln, 2) = ln.part
         /\ ItemNumber(ln, 3) = ln.sats
  BY DEF ItemNumber

LEMMA NextItemNumbered ==
  ASSUME NEW ln, IsSent(ln), NEW k \in 0..ItemCount(ln), NEW d, AtItem(d, ln, k)
  PROVE  LET q == ParseItem(d)
         IN  /\ q.cur_statement = Named(ln)
             /\ Named(ln) = "GSV" /\ k + 1 >= 2 => q.sat_count = ln.of
             /\ Named(ln) = "GSV" /\ k + 1 >= 3 => q.sat_num = ln.part
             /\ k = 0 => q.parent = d.parent
             /\ Named(ln) = Unknown => q.parent = d.parent
             /\ Named(ln) = "GSV" /\ k > 0 => q = ParseGsv(d)
             /\ Named(ln) \notin {"GSV", Unknown} /\ k > 0 => q = ParseFields(d)
<1> DEFINE q == ParseItem(d)
<1>1. /\ d \in Decoders /\ d.item_num = k /\ d.item_str = ItemText(ln, k)
      /\ d.cur_statement = IF k = 0 THEN Unknown ELSE Named(ln)
      /\ Named(ln) = "GSV" /\ k >= 2 => d.sat_count = ln.of
      /\ Named(ln) = "GSV" /\ k >= 3 => d.sat_num = ln.part
  BY DEF AtItem
<1>2. k \in Nat BY ItemCountBounds
<1>3. ItemText(ln, k).k = k /\ ItemText(ln, k).ok /\ ItemText(ln, k).ln = ln
      /\ ItemText(ln, k).n = ItemNumber(ln, k)
  BY <1>2, ItemTextType
<1>4. Named(ln) = "GSV" => ln.s = "GSV" BY UnknownIsNone DEF Named
<1>5. CASE k = 0
  <2>1. q = [d EXCEPT !.cur_statement = Named(ln)]
    BY <1>1, <1>3, <1>5 DEF ParseItem, Named
  <2>2. q.cur_statement = Named(ln) /\ q.parent = d.parent BY <2>1, <1>1 DEF Decoders
  <2> QED BY <2>2, <1>5
<1>6. CASE k # 0
  <2>0. ~(d.item_num = 0 /\ d.item_str.k = 0) /\ d.cur_statement = Named(ln)
    BY <1>1, <1>6
  <2>1. CASE Named(ln) = Unknown
    <3>1. q = d BY <2>0, <2>1 DEF ParseItem, Unknown
    <3> QED BY <3>1, <2>0, <2>1, <1>6, UnknownIsNone
  <2>2. CASE Named(ln) = "GSV"
    <3>1. q = ParseGsv(d) BY <2>0, <2>2, UnknownIsNone DEF ParseItem, Unknown
    <3>2. q.cur_statement = Named(ln) BY <3>1, <2>0, <1>1, ParseGsvType
    <3>3. ln.s = "GSV" BY <2>2, <1>4
    <3>4. q.sat_count = ln.of
      <4>1. CASE k = 1
        <5>1. q = [d EXCEPT !.sat_count = d.item_str.n]
          BY <3>1, <4>1, <1>1 DEF ParseGsv
        <5>2. d.item_str.n = ln.of BY <4>1, <3>3, <1>1, <1>3, ItemNumbers
        <5> QED BY <5>1, <5>2, <1>1 DEF Decoders
      <4>2. CASE k >= 2
        <5>1. d.sat_count = ln.of BY <4>2, <2>2, <1>1
        <5>2. q.sat_count = d.sat_count
          BY <3>1, <4>2, <1>1, <1>2 DEF ParseGsv, Decoders
        <5> QED BY <5>1, <5>2
      <4> QED BY <4>1, <4>2, <1>2, <1>6
    <3>5. k + 1 >= 3 => q.sat_num = ln.part
      <4>1. CASE k = 2
        <5>1. q = [d EXCEPT !.sat_num = d.item_str.n]
          BY <3>1, <4>1, <1>1 DEF ParseGsv
        <5>2. d.item_str.n = ln.part BY <4>1, <3>3, <1>1, <1>3, ItemNumbers
        <5> QED BY <5>1, <5>2, <1>1 DEF Decoders
      <4>2. CASE k >= 3
        <5>1. d.sat_num = ln.part BY <4>2, <2>2, <1>1
        <5>2. q.sat_num = d.sat_num
          BY <3>1, <4>2, <1>1, <1>2 DEF ParseGsv, Decoders
        <5> QED BY <5>1, <5>2
      <4> QED BY <4>1, <4>2, <1>2, <1>6
    <3> QED BY <3>1, <3>2, <3>4, <3>5, <2>2, <1>6, UnknownIsNone
  <2>3. CASE Named(ln) \notin {"GSV", Unknown}
    <3>1. q = ParseFields(d) BY <2>0, <2>3 DEF ParseItem
    <3>2. d.cur_statement \in DOMAIN Fields BY <2>0, <2>3 DEF Named, Statements
    <3>3. q.cur_statement = Named(ln) BY <3>1, <3>2, <2>0, <1>1, ParseFieldsType
    <3> QED BY <3>1, <3>3, <2>3, <1>6
  <2> QED BY <2>1, <2>2, <2>3
<1> QED BY <1>5, <1>6

\* What is left of g after item k of a whole line.
Kept(ln, k, g) == IF ln.s = "TXT" /\ k = TextItem THEN Spill(g, TextLength) ELSE g

LEMMA ItemFits ==
  ASSUME NEW ln, IsSent(ln), NEW k \in 0..19, NEW g \in GpsData
  PROVE  /\ k = 0 => Spill(g, 1 + Length(ItemText(ln, k))) = g
         /\ Spill(g, Length(ItemText(ln, k))) = Kept(ln, k, g)
<1>1. Length(ItemText(ln, k)) = IF ln.s = "TXT" /\ k = TextItem THEN TextLength
                                ELSE ItemLength
  BY SentLength DEF ItemText, CrcItem
<1>2. ItemLength \in Nat /\ ItemLength < 16 /\ 1 + ItemLength \in Nat /\ 1 + ItemLength < 16
  BY NmeaConstants
<1>3. Spill(g, ItemLength) = g /\ Spill(g, 1 + ItemLength) = g BY <1>2, SpillFacts
<1> QED BY <1>1, <1>3 DEF Kept, TextItem

LEMMA WholeItems ==
  ASSUME NEW p \in Pieces, p.damage.kind = "whole", NEW d \in Decoders,
         NEW t, Items(t, p, d)
  PROVE  /\ FirstItem(p) = 0 /\ LastItem(p) = ItemCount(p.ln)
         /\ \A k \in 0..ItemCount(p.ln) : AtItem(t[k], p.ln, k)
         /\ t[0].parent = d.parent
         /\ \A k \in 1..ItemCount(p.ln) : t[k].parent = Kept(p.ln, k, ParseItem(t[k - 1]).parent)
<1> DEFINE ln == p.ln
           n == ItemCount(ln)
           S == {k \in Nat : k <= n => AtItem(t[k], ln, k)}
<1>1. IsSent(ln) /\ n \in 4..19 BY PieceFacts
<1>2. FirstItem(p) = 0 /\ LastItem(p) = n BY DEF FirstItem, LastItem
<1>3. ASSUME NEW k \in Nat
      PROVE  PieceText(p, k) = ItemText(ln, k) /\ ItemText(ln, k) \in Texts
             /\ ItemText(ln, k).k = k
  BY PieceTextType
<1>4. t[0] = Character(StartStatement(d), ItemText(ln, 0)) BY <1>2, <1>3 DEF Items
<1>5. \A k \in 1..n : t[k] = Character(Separator(t[k - 1]), ItemText(ln, k))
  <2> SUFFICES ASSUME NEW k \in 1..n
               PROVE t[k] = Character(Separator(t[k - 1]), ItemText(ln, k))
    OBVIOUS
  <2>1. k \in (0 + 1)..n /\ k \in Nat BY <1>1
  <2>2. t[k] = Character(Separator(t[k - 1]), PieceText(p, k)) BY <2>1, <1>2 DEF Items
  <2> QED BY <2>1, <2>2, <1>3
<1>6. AtItem(t[0], ln, 0) /\ t[0].parent = d.parent
  <2> DEFINE x == ItemText(ln, 0)
  <2>1. x \in Texts /\ x.k = 0 BY <1>3
  <2> HIDE DEF x
  <2>2. LET e == Character(StartStatement(d), x)
        IN  /\ e \in Decoders /\ e.item_num = 0 /\ e.item_str = x
            /\ e.cur_statement = Unknown /\ e.parent = Spill(d.parent, 1 + Length(x))
    BY <2>1, FirstStep
  <2>3. Spill(d.parent, 1 + Length(x)) = d.parent
    <3>1. d.parent \in GpsData BY DEF Decoders
    <3> QED BY <3>1, <1>1, ItemFits DEF x
  <2> QED BY <2>2, <2>3, <1>4 DEF AtItem, x
<1>7. ASSUME NEW k \in Nat, k + 1 <= n, AtItem(t[k], ln, k)
      PROVE  /\ AtItem(t[k + 1], ln, k + 1)
             /\ t[k + 1].parent = Kept(ln, k + 1, ParseItem(t[k]).parent)
  <2> DEFINE x == ItemText(ln, k + 1)
             e == t[k + 1]
             q == ParseItem(t[k])
  <2>1. x \in Texts /\ k + 1 \in 1..n /\ (k + 1) - 1 = k /\ k \in 0..n BY <1>1, <1>3, <1>7
  <2>2. e = Character(Separator(t[k]), x) BY <2>1, <1>5
  <2>3. t[k] \in Decoders /\ t[k].item_num = k BY <1>7 DEF AtItem
  <2>4. /\ e \in Decoders /\ e.item_num = (k + 1) % 256 /\ e.item_str = x
        /\ e.cur_statement = q.cur_statement /\ e.sat_num = q.sat_num
        /\ e.sat_count = q.sat_count /\ e.parent = Spill(q.parent, Length(x))
    <3> HIDE DEF x
    <3> QED BY <2>1, <2>2, <2>3, ItemStep
  <2>9. Spill(q.parent, Length(x)) = Kept(ln, k + 1, q.parent)
    <3>1. q \in Decoders BY <2>3, ParseItemType
    <3>2. q.parent \in GpsData BY <3>1 DEF Decoders
    <3>3. k + 1 \in 0..19 BY <1>1, <1>7
    <3> HIDE DEF q, ln
    <3> QED BY <3>2, <3>3, <1>1, ItemFits
  <2>5. (k + 1) % 256 = k + 1 BY <1>1, <1>7
  <2>6. /\ q.cur_statement = Named(ln)
        /\ Named(ln) = "GSV" /\ k + 1 >= 2 => q.sat_count = ln.of
        /\ Named(ln) = "GSV" /\ k + 1 >= 3 => q.sat_num = ln.part
    BY <2>1, <1>1, <1>7, NextItemNumbered
  <2> HIDE DEF e, q, x
  <2>7. k + 1 # 0 OBVIOUS
  <2>8. AtItem(e, ln, k + 1) BY <2>4, <2>5, <2>6, <2>7 DEF AtItem, x
  <2> QED BY <2>4, <2>8, <2>9 DEF e, q, x
<1>8. \A k \in Nat : k \in S
  <2>1. 0 \in S BY <1>6
  <2>2. ASSUME NEW k \in S PROVE k + 1 \in S
    <3>1. CASE k + 1 <= n
      <4>1. k <= n BY <3>1, <1>1
      <4> QED BY <3>1, <4>1, <1>7
    <3> QED BY <3>1
  <2>3. S \in SUBSET Nat OBVIOUS
  <2> HIDE DEF S
  <2> QED BY <2>1, <2>2, <2>3, SetInduction
<1>9. \A k \in 0..n : AtItem(t[k], ln, k)
  <2>1. \A k \in 0..n : k \in Nat /\ k <= n BY <1>1
  <2> QED BY <2>1, <1>8
<1>10. ASSUME NEW k \in 1..n PROVE t[k].parent = Kept(ln, k, ParseItem(t[k - 1]).parent)
  <2>1. k - 1 \in Nat /\ (k - 1) + 1 = k /\ k - 1 \in 0..n /\ k <= n BY <1>1
  <2>2. AtItem(t[k - 1], ln, k - 1) BY <2>1, <1>9
  <2> DEFINE j == k - 1
  <2> HIDE DEF j
  <2>3. j \in Nat /\ j + 1 = k /\ AtItem(t[j], ln, j) BY <2>1, <2>2 DEF j
  <2>4. t[j + 1].parent = Kept(ln, j + 1, ParseItem(t[j]).parent) BY <2>1, <2>3, <1>7
  <2> QED BY <2>3, <2>4 DEF j
<1> QED BY <1>2, <1>6, <1>9, <1>10

-------------------------------------------------------------------------------
(* The end of a line counts its statement if the line came whole, and if it *)
(* is the last of its group.  A line without its head is not accepted by    *)
(* the checksum the decoder still has from a line before.                   *)

LEMMA LineCodes ==
  ASSUME NEW ln, IsSent(ln), NEW k \in 0..4
  PROVE  /\ Text(ln, k, 0) \in Texts /\ Code(Text(ln, k, 0)) \in Int
         /\ Code(Text(ln, k, 0)) # 3 /\ Code(Text(ln, k, 0)) \in Checksum(ln)
<1>1. ln.id \in Nat /\ ln.id >= 1 /\ k \in 0..ItemCount(ln)
  BY ItemCountBounds DEF IsSent, LineRecords
<1>2. Code(Text(ln, k, 0)) = 200 * ln.id + 2 * k + 1 BY DEF Code, Text
<1>3. Text(ln, k, 0) \in Texts BY ItemTextType
<1>4. Code(Text(ln, k, 0)) \in Int /\ Code(Text(ln, k, 0)) # 3 BY <1>1, <1>2
<1>5. Code(Text(ln, k, 0)) \in Checksum(ln) BY <1>1 DEF Checksum
<1> QED BY <1>3, <1>4, <1>5

LEMMA CountedEnds ==
  ASSUME NEW p \in Pieces, p.damage.kind # "cut", NEW d \in Decoders,
         NEW t, Items(t, p, d),
         \A k \in FirstItem(p)..LastItem(p) : t[k] \in Decoders,
         p.damage.kind = "tail" => Headless(p.ln) \notin d.crc
  PROVE  LET e == AtReturn(p, t[LastItem(p)])
         IN  /\ e \in Decoders
             /\ Counted(e) \subseteq IF Ended(p) THEN {p.ln.s} ELSE {}
<1> DEFINE ln == p.ln
           n == ItemCount(ln)
           g == p.damage.k
           e == AtReturn(p, t[n])
           c == Code(Text(ln, IF p.damage.kind = "tail" THEN 0 ELSE g, 0))
<1>1. /\ IsSent(ln) /\ n \in 4..19
      /\ p.damage.kind \in {"whole", "garbled", "tail"}
      /\ p.damage.kind # "whole" => g \in 1..4
      /\ p.damage.kind = "whole" <=> p.damage = Whole
  BY PieceFacts
<1>2. LastItem(p) = n BY DEF LastItem
<1>3. FirstItem(p) \in 0..4 /\ (p.damage.kind # "tail" => FirstItem(p) = 0)
      /\ (p.damage.kind = "tail" => FirstItem(p) >= 1)
  BY <1>1 DEF FirstItem
<1>4. n \in FirstItem(p)..LastItem(p) BY <1>1, <1>2, <1>3
<1>5. t[n] \in Decoders BY <1>4
<1>6. /\ e \in Decoders /\ e.item_str = Text(ln, CrcItem, 0) /\ e.crc = t[n].crc
      /\ e.cur_statement = ParseItem(t[n]).cur_statement
      /\ e.sat_num = ParseItem(t[n]).sat_num /\ e.sat_count = ParseItem(t[n]).sat_count
  BY <1>5, ReturnStep
<1>7. e.item_str.ln = ln BY <1>6 DEF Text
<1>8. CASE p.damage.kind # "whole"
  <2> DEFINE j == IF p.damage.kind = "tail" THEN 0 ELSE g
  <2>1. j \in 0..4 /\ j \in Nat BY <1>1, <1>8
  <2>2. /\ Text(ln, j, 0) \in Texts /\ c \in Int /\ c # 3 /\ c \in Checksum(ln)
    BY <1>1, <2>1, LineCodes
  <2>3. ASSUME NEW k \in FirstItem(p)..LastItem(p) PROVE Code(PieceText(p, k)) # c
    <3>0. k \in Nat /\ k <= 99 /\ j <= 99 BY <1>1, <1>2, <1>3, <2>1
    <3>1. PieceText(p, k) \in Texts /\ PieceText(p, k).k = k
          /\ (p.damage.kind = "garbled" /\ k = g => ~PieceText(p, k).ok)
      BY <3>0, PieceTextType
    <3>2. Text(ln, j, 0).k = j /\ Text(ln, j, 0).ok BY DEF Text
    <3> DEFINE u == Text(ln, j, 0)
               x == PieceText(p, k)
    <3> HIDE DEF u, x, j
    <3>3. u \in Texts /\ x \in Texts /\ x.k = k /\ u.k = j /\ u.ok
          /\ (p.damage.kind = "garbled" /\ k = g => ~x.ok) /\ c = Code(u)
      BY <2>2, <3>1, <3>2 DEF u, x, j
    <3>4. CASE p.damage.kind = "tail"
      <4>1. j = 0 BY <3>4 DEF j
      <4>2. k >= 1 BY <3>4, <1>3
      <4> QED BY <4>1, <4>2, <3>0, <3>3, CodeInjective DEF x
    <3>5. CASE p.damage.kind # "tail"
      <4>1. j = g /\ p.damage.kind = "garbled" BY <3>5, <1>1, <1>8 DEF j
      <4> QED BY <4>1, <3>0, <3>3, CodeInjective DEF x
    <3> QED BY <3>4, <3>5
  <2>4. p.damage.kind = "tail" => c \notin d.crc BY DEF Headless
  <2>5. \A k \in FirstItem(p)..LastItem(p) : c \notin t[k].crc
    <3> HIDE DEF c
    <3> QED BY <2>2, <2>3, <2>4, CrcWithout
  <2>6. c \notin t[n].crc BY <2>5, <1>4
  <2>7. ~CrcPassed(e) BY <2>2, <2>6, <1>6, <1>7 DEF CrcPassed
  <2>8. Counted(e) = {} BY <2>7 DEF Counted
  <2> QED BY <2>8, <1>2, <1>6
<1>9. CASE p.damage.kind = "whole"
  <2>1. AtItem(t[n], ln, n)
    <3>1. n \in 0..n BY <1>1
    <3> QED BY <3>1, <1>9, WholeItems
  <2>2. /\ e.cur_statement = Named(ln)
        /\ Named(ln) = "GSV" => e.sat_count = ln.of /\ e.sat_num = ln.part
    <3>1. n \in 0..n /\ n + 1 >= 2 /\ n + 1 >= 3 BY <1>1
    <3>2. /\ ParseItem(t[n]).cur_statement = Named(ln)
          /\ Named(ln) = "GSV" => /\ ParseItem(t[n]).sat_count = ln.of
                                  /\ ParseItem(t[n]).sat_num = ln.part
      BY <3>1, <2>1, <1>1, NextItemNumbered
    <3> QED BY <3>2, <1>6
  <2>3. CASE Named(ln) = Unknown
    <3>1. Counted(e) = {} BY <2>2, <2>3 DEF Counted
    <3> QED BY <3>1, <1>2, <1>6
  <2>4. CASE Named(ln) # Unknown
    <3>1. Named(ln) = ln.s BY <2>4 DEF Named
    <3>2. Counted(e) \subseteq {ln.s} BY <2>2, <3>1 DEF Counted
    <3>3. CASE Ended(p) BY <3>2, <3>3, <1>2, <1>6
    <3>4. CASE ~Ended(p)
      <4>1. ln.part # ln.of BY <3>4, <1>1, <1>9 DEF Ended, Intact
      <4>2. ln.s = "GSV" BY <4>1, <1>1 DEF IsSent
      <4>3. Counted(e) = {} BY <4>1, <4>2, <3>1, <2>2 DEF Counted
      <4> QED BY <4>3, <1>2, <1>6
    <3> QED BY <3>3, <3>4
  <2> QED BY <2>3, <2>4
<1> QED BY <1>8, <1>9

-------------------------------------------------------------------------------
(* What the parser task reads, and what it makes of it.                     *)

LEMMA ReadCountIs ==
  ASSUME uart \in Seq(Pieces)
  PROVE  /\ ReadCount \in 0..Len(uart)
         /\ ReadCount # 0 =>
              /\ ReadCount \in 1..Len(uart) /\ Ends(uart[ReadCount])
              /\ \A i \in 1..(ReadCount - 1) : ~Ends(uart[i])
<1> DEFINE I == {i \in 1..Len(uart) : Ends(uart[i])}
<1>1. ReadCount = IF I # {} THEN CHOOSE x \in I : \A y \in I : x =< y ELSE 0
  BY DEF ReadCount, SelectInSeq, Min
<1>2. CASE I = {} BY <1>1, <1>2
<1>3. CASE I # {}
  <2>1. \E x \in I : \A y \in I : x =< y
    <3> SUFFICES ASSUME \A x \in I : \E y \in I : y < x PROVE FALSE OBVIOUS
    <3> DEFINE S == {n \in Nat : \A x \in I : x > n}
    <3>1. 0 \in S OBVIOUS
    <3>2. ASSUME NEW n \in S PROVE n + 1 \in S
      <4>1. \A x \in I : x > n /\ x \in Nat OBVIOUS
      <4>2. ASSUME n + 1 \in I PROVE FALSE
        <5>1. PICK y \in I : y < n + 1 BY <4>2
        <5> QED BY <4>1, <5>1
      <4>3. \A x \in I : x > n + 1 BY <4>1, <4>2
      <4> QED BY <4>3
    <3>3. S \in SUBSET Nat OBVIOUS
    <3> HIDE DEF S
    <3>4. \A n \in Nat : n \in S BY <3>1, <3>2, <3>3, SetInduction
    <3>5. PICK x \in I : TRUE BY <1>3
    <3>6. x \in Nat OBVIOUS
    <3>7. x \in S BY <3>4, <3>6
    <3> QED BY <3>5, <3>6, <3>7 DEF S
  <2>2. ReadCount \in I /\ \A y \in I : ReadCount =< y BY <1>1, <1>3, <2>1
  <2>3. ReadCount \in 1..Len(uart) /\ Ends(uart[ReadCount]) BY <2>2
  <2>4. ASSUME NEW i \in 1..(ReadCount - 1) PROVE ~Ends(uart[i])
    <3>1. i \in 1..Len(uart) /\ ~(ReadCount =< i) BY <2>3
    <3> QED BY <3>1, <2>2
  <2> QED BY <2>3, <2>4
<1> QED BY <1>2, <1>3

\* h[i] is the decoder after i of the pieces.
Reads(h, n) ==
  /\ h[0] = [d |-> dec, posts |-> <<>>]
  /\ \A i \in 1..n : h[i] = GpsDecode(h[i - 1], PieceChars(uart[i]))

LEMMA DecodedReads ==
  ASSUME ReadCount \in Nat
  PROVE  \E h : Reads(h, ReadCount) /\ Decoded = h[ReadCount]
<1> DEFINE Is(f, n) == f = [i \in 0..n |-> IF i = 0 THEN [d |-> dec, posts |-> <<>>]
                                          ELSE GpsDecode(f[i - 1], PieceChars(uart[i]))]
           S == {n \in Nat : \E f : Is(f, n)}
<1>2. ReadCount \in S
  <2>1. 0 \in S
    <3>1. Is([i \in 0..0 |-> [d |-> dec, posts |-> <<>>]], 0) OBVIOUS
    <3> QED BY <3>1
  <2>2. ASSUME NEW n \in S PROVE n + 1 \in S
    <3>1. PICK f : Is(f, n) OBVIOUS
    <3> DEFINE g == [i \in 0..(n + 1) |->
                       IF i = n + 1 THEN GpsDecode(f[n], PieceChars(uart[i])) ELSE f[i]]
    <3>2. \A i \in 0..n : g[i] = f[i] OBVIOUS
    <3>3. \A i \in 0..n : f[i] = IF i = 0 THEN [d |-> dec, posts |-> <<>>]
                                 ELSE GpsDecode(f[i - 1], PieceChars(uart[i]))
      BY <3>1
    <3>4. ASSUME NEW i \in 0..(n + 1)
          PROVE  g[i] = IF i = 0 THEN [d |-> dec, posts |-> <<>>]
                        ELSE GpsDecode(g[i - 1], PieceChars(uart[i]))
      <4>1. CASE i = n + 1 BY <4>1, <3>2
      <4>2. CASE i \in 0..n
        <5>1. g[i] = f[i] BY <4>2, <3>2
        <5>2. CASE i = 0 BY <5>1, <5>2, <3>3
        <5>3. CASE i # 0
          <6>1. i - 1 \in 0..n /\ g[i - 1] = f[i - 1] BY <4>2, <5>3, <3>2
          <6> QED BY <5>1, <5>3, <6>1, <3>3, <4>2
        <5> QED BY <5>2, <5>3
      <4> QED BY <4>1, <4>2
    <3>5. Is(g, n + 1)
      <4> HIDE DEF g
      <4>1. g = [i \in 0..(n + 1) |-> g[i]] BY DEF g
      <4> QED BY <3>4, <4>1
    <3>6. n + 1 \in Nat OBVIOUS
    <3> HIDE DEF g, Is
    <3> QED BY <3>5, <3>6
  <2> HIDE DEF S
  <2>3. S \in SUBSET Nat BY DEF S
  <2> QED BY <2>1, <2>2, <2>3, SetInduction
<1>3. PICK f : Is(f, ReadCount) BY <1>2
<1> DEFINE h == CHOOSE g : Is(g, ReadCount)
<1>4. Is(h, ReadCount) BY <1>3
<1>5. Decoded = h[ReadCount] BY DEF Decoded
<1>6. Reads(h, ReadCount)
  <2> HIDE DEF h
  <2>1. \A i \in 0..ReadCount : h[i] = IF i = 0 THEN [d |-> dec, posts |-> <<>>]
                                       ELSE GpsDecode(h[i - 1], PieceChars(uart[i]))
    BY <1>4
  <2> QED BY <2>1 DEF Reads
<1> QED BY <1>5, <1>6

LEMMA PieceType ==
  ASSUME NEW p \in Pieces, NEW r \in Results
  PROVE  GpsDecode(r, PieceChars(p)) \in Results
<1>1. PieceChars(p) \in Seq(Chars) BY PieceCharsAre
<1>2. Len(PieceChars(p)) \in Nat BY <1>1
<1>3. PICK m : Run(m, r, PieceChars(p))
               /\ GpsDecode(r, PieceChars(p)) = m[Len(PieceChars(p))]
  BY <1>2, DecodeRuns
<1>4. Len(PieceChars(p)) \in 0..Len(PieceChars(p)) BY <1>2
<1> QED BY <1>1, <1>3, <1>4, RunTypes

(* The items of a line do not touch the set of statements.                  *)
LEMMA ItemsParsed ==
  ASSUME NEW p \in Pieces, NEW d \in Decoders, NEW t, Items(t, p, d),
         \A k \in FirstItem(p)..LastItem(p) : t[k] \in Decoders
  PROVE  \A k \in FirstItem(p)..LastItem(p) : t[k].parsed_statement = d.parsed_statement
<1> DEFINE a == FirstItem(p)
           b == LastItem(p)
           S == {k \in Nat : k \in a..b => t[k].parsed_statement = d.parsed_statement}
<1>1. a \in Nat /\ b \in Nat /\ a <= b BY PieceFacts DEF FirstItem, LastItem
<1>2. t[a].parsed_statement = d.parsed_statement
  <2> DEFINE x == PieceText(p, a)
  <2>1. x \in Texts /\ x.k = a BY <1>1, PieceTextType
  <2>2. t[a] = Character(IF p.damage.kind = "tail" THEN d ELSE StartStatement(d), x)
    BY DEF Items
  <2> HIDE DEF x
  <2>3. CASE p.damage.kind = "tail" BY <2>1, <2>2, <2>3, TailStep
  <2>4. CASE p.damage.kind # "tail"
    <3>1. x.k = 0 BY <2>1, <2>4 DEF FirstItem
    <3>2. Character(StartStatement(d), x).parsed_statement = d.parsed_statement
      BY <2>1, <3>1, FirstStep
    <3> QED BY <2>2, <2>4, <3>2
  <2> QED BY <2>3, <2>4
<1>3. 0 \in S
  <2>1. 0 \in a..b => a = 0 BY <1>1
  <2> QED BY <2>1, <1>2
<1>4. ASSUME NEW k \in S PROVE k + 1 \in S
  <2>1. CASE k + 1 \in (a + 1)..b
    <3>1. k \in a..b /\ (k + 1) - 1 = k /\ k + 1 \in Nat BY <2>1, <1>1
    <3> DEFINE x == PieceText(p, k + 1)
    <3>2. x \in Texts BY <3>1, PieceTextType
    <3>3. t[k + 1] = Character(Separator(t[k]), x) BY <2>1, <3>1 DEF Items
    <3> HIDE DEF x
    <3>4. t[k + 1].parsed_statement = t[k].parsed_statement
      BY <3>1, <3>2, <3>3, ItemStep
    <3> QED BY <3>1, <3>4
  <2>2. CASE k + 1 \notin (a + 1)..b
    <3>1. k + 1 \in a..b => k + 1 = a BY <2>2, <1>1
    <3> QED BY <3>1, <1>2
  <2> QED BY <2>1, <2>2
<1>5. S \in SUBSET Nat OBVIOUS
<1> HIDE DEF S
<1>6. \A k \in Nat : k \in S BY <1>3, <1>4, <1>5, SetInduction
<1>7. \A k \in a..b : k \in Nat BY <1>1
<1> QED BY <1>6, <1>7 DEF S

(* What stays in the decoder when the end of a line has been lost.          *)
LEMMA CutPiece ==
  ASSUME NEW p \in Pieces, p.damage.kind = "cut", NEW r \in Results
  PROVE  LET q == GpsDecode(r, PieceChars(p))
         IN  /\ q \in Results /\ q.posts = r.posts
             /\ q.d.parsed_statement = r.d.parsed_statement
             /\ \A ln \in AllLines : ln.id # p.ln.id => Headless(ln) \notin q.d.crc
<1> DEFINE a == FirstItem(p)
           b == LastItem(p)
<1>1. PICK t : /\ Items(t, p, r.d)
               /\ \A k \in a..b : t[k] \in Decoders
               /\ GpsDecode(r, PieceChars(p)) = Done(p, r, t[b])
  BY PieceDecoded
<1>2. a = 0 /\ b \in 1..4 BY PieceFacts DEF FirstItem, LastItem
<1>3. GpsDecode(r, PieceChars(p)) = [d |-> t[b], posts |-> r.posts] BY <1>1 DEF Done
<1>4. r.d \in Decoders BY ResultFacts
<1>5. t[b].parsed_statement = r.d.parsed_statement
  <2>1. b \in a..b BY <1>2
  <2> QED BY <2>1, <1>1, <1>4, ItemsParsed
<1>6. ASSUME NEW ln \in AllLines, ln.id # p.ln.id PROVE Headless(ln) \notin t[b].crc
  <2> DEFINE c == Headless(ln)
  <2>1. IsSent(ln) BY AllLinesAreSent
  <2>2. Text(ln, 0, 0) \in Texts /\ c \in Int /\ c # 3 BY <2>1, LineCodes DEF Headless
  <2>3. ASSUME NEW k \in a..b PROVE Code(PieceText(p, k)) # c
    <3>1. k \in Nat /\ k <= 99 BY <1>2
    <3> DEFINE u == Text(ln, 0, 0)
               x == PieceText(p, k)
    <3>2. x \in Texts /\ x.ln = p.ln /\ x.k = k BY <3>1, PieceTextType
    <3>3. u.ln = ln /\ u.k = 0 BY DEF Text
    <3>4. c = Code(u) BY DEF Headless
    <3> HIDE DEF u, x, c
    <3>5. Code(x) # c BY <3>1, <3>2, <3>3, <3>4, <2>2, <1>6, CodeInjective DEF u
    <3> QED BY <3>5 DEF x
  <2>4. \A k \in a..b : c \notin t[k].crc
    <3> HIDE DEF c
    <3>1. p.damage.kind = "tail" => c \notin r.d.crc OBVIOUS
    <3> QED BY <2>2, <2>3, <3>1, <1>1, <1>4, CrcWithout
  <2> QED BY <2>4, <1>2
<1>7. GpsDecode(r, PieceChars(p)) \in Results BY PieceType
<1> QED BY <1>3, <1>5, <1>6, <1>7

LEMMA LineRead ==
  ASSUME uart \in Seq(Pieces), dec \in Decoders, ReadCount # 0
  PROVE  LET p == uart[ReadCount]
         IN  /\ p \in Pieces /\ p.damage.kind # "cut"
             /\ \E d \in Decoders : \E t :
                  /\ Items(t, p, d)
                  /\ \A k \in FirstItem(p)..LastItem(p) : t[k] \in Decoders
                  /\ d.parsed_statement = dec.parsed_statement
                  /\ ReadCount = 1 => d = dec
                  /\ Apart /\ p.damage.kind = "tail" => Headless(p.ln) \notin d.crc
                  /\ LET c == AtReturn(p, t[LastItem(p)])
                     IN  /\ c \in Decoders /\ c.parsed_statement = dec.parsed_statement
                         /\ Decoded = [d |-> Character(EndStatement(c), Newline),
                                       posts |-> Posted(<<>>, c)]
<1> DEFINE n == ReadCount
           p == uart[n]
<1>1. /\ n \in 1..Len(uart) /\ Ends(p) /\ \A i \in 1..(n - 1) : ~Ends(uart[i])
  BY ReadCountIs
<1>2. p \in Pieces /\ p.damage.kind # "cut" BY <1>1 DEF Ends
<1>3. PICK h : Reads(h, n) /\ Decoded = h[n]
  <2>1. n \in Nat BY <1>1
  <2> QED BY <2>1, DecodedReads
<1>4. h[0] = [d |-> dec, posts |-> <<>>]
      /\ \A i \in 1..n : h[i] = GpsDecode(h[i - 1], PieceChars(uart[i]))
  BY <1>3 DEF Reads
<1> DEFINE Cut(i) == /\ h[i] \in Results /\ h[i].posts = <<>>
                     /\ h[i].d.parsed_statement = dec.parsed_statement
           S == {i \in Nat : i <= n - 1 => Cut(i)}
<1>5. \A i \in Nat : i \in S
  <2>1. 0 \in S
    <3>1. <<>> \in Seq(Kinds) OBVIOUS
    <3>2. h[0] \in Results BY <1>4, <3>1 DEF Results
    <3> QED BY <3>2, <1>4
  <2>2. ASSUME NEW i \in S PROVE i + 1 \in S
    <3>1. CASE i + 1 <= n - 1
      <4>1. i + 1 \in 1..n /\ (i + 1) - 1 = i /\ i <= n - 1 /\ i + 1 \in 1..(n - 1)
            /\ i + 1 \in 1..Len(uart)
        BY <3>1, <1>1
      <4>2. uart[i + 1] \in Pieces /\ uart[i + 1].damage.kind = "cut"
        BY <4>1, <1>1 DEF Ends
      <4>3. Cut(i) BY <4>1
      <4>4. h[i + 1] = GpsDecode(h[i], PieceChars(uart[i + 1])) BY <4>1, <1>4
      <4>5. Cut(i + 1) BY <4>2, <4>3, <4>4, CutPiece
      <4> QED BY <4>1, <4>5
    <3> QED BY <3>1
  <2>3. S \in SUBSET Nat OBVIOUS
  <2> HIDE DEF S
  <2> QED BY <2>1, <2>2, <2>3, SetInduction
<1>6. Cut(n - 1)
  <2>1. n - 1 \in Nat /\ n - 1 <= n - 1 BY <1>1
  <2> QED BY <2>1, <1>5
<1> DEFINE r == h[n - 1]
<1>7. r \in Results /\ r.d \in Decoders /\ r.posts = <<>> BY <1>6, ResultFacts
<1>8. Decoded = GpsDecode(r, PieceChars(p)) BY <1>1, <1>3, <1>4
<1>9. n = 1 => r.d = dec BY <1>4
<1>10. ASSUME Apart, p.damage.kind = "tail" PROVE Headless(p.ln) \notin r.d.crc
  <2>0. n \in DOMAIN uart BY <1>1
  <2>1. CASE n = 1
    <3>1. Headless(p.ln) \notin dec.crc BY <2>0, <2>1, <1>10 DEF Apart
    <3> QED BY <3>1, <2>1, <1>9
  <2>2. CASE n # 1
    <3> DEFINE j == n - 1
    <3>1. j \in 1..n /\ j \in 1..(n - 1) /\ j \in 1..Len(uart) /\ j - 1 \in Nat
          /\ j - 1 <= n - 1
      BY <1>1, <2>2
    <3>2. uart[j] \in Pieces /\ uart[j].damage.kind = "cut" BY <3>1, <1>1 DEF Ends
    <3>3. uart[j].ln.id # p.ln.id BY <2>0, <2>2, <1>10 DEF Apart
    <3>4. r = GpsDecode(h[j - 1], PieceChars(uart[j])) BY <3>1, <1>4
    <3>5. h[j - 1] \in Results BY <3>1, <1>5
    <3>6. p.ln \in AllLines BY <1>2, PieceFacts
    <3> HIDE DEF j, r, p
    <3>7. \A ln \in AllLines : ln.id # uart[j].ln.id => Headless(ln) \notin r.d.crc
      BY <3>2, <3>4, <3>5, CutPiece
    <3> QED BY <3>3, <3>6, <3>7
  <2> QED BY <2>1, <2>2
<1>11. PICK t : /\ Items(t, p, r.d)
                /\ \A k \in FirstItem(p)..LastItem(p) : t[k] \in Decoders
                /\ GpsDecode(r, PieceChars(p)) = Done(p, r, t[LastItem(p)])
  BY <1>2, <1>7, PieceDecoded
<1> DEFINE q == t[LastItem(p)]
           c == AtReturn(p, q)
<1>12. q \in Decoders /\ q.parsed_statement = dec.parsed_statement
  <2>1. LastItem(p) \in FirstItem(p)..LastItem(p)
    <3>1. /\ ItemCount(p.ln) \in 4..19
          /\ p.damage.kind # "whole" => p.damage.k \in 1..4
          /\ p.damage.kind = "whole" <=> p.damage = Whole
      BY <1>2, PieceFacts
    <3>2. FirstItem(p) \in 0..4 BY <3>1 DEF FirstItem
    <3>3. LastItem(p) = ItemCount(p.ln) BY <1>2 DEF LastItem
    <3>4. \A lo \in 0..4, hi \in 4..19 : hi \in lo..hi OBVIOUS
    <3>5. ItemCount(p.ln) \in 4..19 BY <3>1
    <3> QED BY ONLY <3>2, <3>3, <3>4, <3>5
  <2>2. q \in Decoders BY <2>1, <1>11
  <2>3. q.parsed_statement = r.d.parsed_statement BY <2>1, <1>2, <1>7, <1>11, ItemsParsed
  <2> QED BY <2>2, <2>3, <1>6
<1>13. c \in Decoders /\ c.parsed_statement = dec.parsed_statement
  <2> HIDE DEF q, p
  <2>1. AtReturn(p, q) \in Decoders /\ AtReturn(p, q).parsed_statement = q.parsed_statement
    BY <1>2, <1>12, ReturnStep
  <2> QED BY <2>1, <1>12
<1>14. Decoded = [d |-> Character(EndStatement(c), Newline), posts |-> Posted(<<>>, c)]
  BY <1>2, <1>7, <1>8, <1>11 DEF Done
<1> HIDE DEF r, c, p, n
<1>15. r.d \in Decoders /\ r.d.parsed_statement = dec.parsed_statement
  BY <1>6, <1>7 DEF r, n
<1> QED BY <1>2, <1>9, <1>10, <1>11, <1>13, <1>14, <1>15 DEF c, p, n

LEMMA LineEnding ==
  ASSUME NEW c \in Decoders
  PROVE  LET r == [d |-> Character(EndStatement(c), Newline), posts |-> Posted(<<>>, c)]
         IN  /\ r \in Results
             /\ "GPS_UPDATE" \in ToSet(r.posts) <=> PostsUpdate(c)
             /\ r.d.parsed_statement = IF PostsUpdate(c) THEN {}
                                       ELSE c.parsed_statement \cup Counted(c)
             /\ c.item_pos = 2 => r.d.parent = c.parent
             /\ c.item_str.k = CrcItem => r.d.item_str.ln = c.item_str.ln
<1> DEFINE a == IF PostsUpdate(c) THEN <<"GPS_UPDATE">> ELSE <<>>
           b == IF PostsUnknown(c) THEN <<"GPS_UNKNOWN">> ELSE <<>>
           ps == (<<>> \o a) \o b
           s == EndStatement(c)
           e == Character(s, Newline)
<1>1. a \in Seq(Kinds) /\ b \in Seq(Kinds) /\ <<>> \in Seq(Kinds)
  <2>1. <<"GPS_UPDATE">> \in Seq(Kinds) /\ <<"GPS_UNKNOWN">> \in Seq(Kinds)
        /\ <<>> \in Seq(Kinds)
    BY DEF Kinds
  <2> QED BY <2>1
<1>2. /\ PostsUpdate(c) => Len(a) = 1 /\ a[1] = "GPS_UPDATE"
      /\ ~PostsUpdate(c) => a = <<>>
      /\ b = <<>> \/ (Len(b) = 1 /\ b[1] = "GPS_UNKNOWN")
  OBVIOUS
<1> HIDE DEF a, b
<1>3. <<>> \o a = a BY <1>1
<1>4. ps = a \o b BY <1>3
<1>5. ps \in Seq(Kinds) BY <1>1, <1>4
<1>6. "GPS_UPDATE" \in ToSet(ps) <=> PostsUpdate(c)
  <2>1. /\ Len(a \o b) = Len(a) + Len(b)
        /\ \A i \in 1..(Len(a) + Len(b)) :
             (a \o b)[i] = IF i <= Len(a) THEN a[i] ELSE b[i - Len(a)]
    BY <1>1
  <2>2. ToSet(ps) = {(a \o b)[i] : i \in 1..(Len(a) + Len(b))}
    <3>1. DOMAIN (a \o b) = 1..(Len(a) + Len(b)) BY <1>1
    <3> QED BY <3>1, <1>4 DEF ToSet
  <2>3. CASE PostsUpdate(c)
    <3>1. Len(b) \in Nat BY <1>1
    <3>2. 1 \in 1..(Len(a) + Len(b)) /\ 1 <= Len(a) BY <3>1, <2>3, <1>2
    <3>3. (a \o b)[1] = "GPS_UPDATE" BY <3>2, <2>1, <2>3, <1>2
    <3> QED BY <3>2, <3>3, <2>2, <2>3
  <2>4. CASE ~PostsUpdate(c)
    <3>1. a \o b = b BY <2>4, <1>1, <1>2
    <3>2. CASE b = <<>>
      <4>1. ps = <<>> BY <3>1, <3>2, <1>4
      <4>2. ToSet(<<>>) = {} BY DEF ToSet
      <4> QED BY <4>1, <4>2, <2>4
    <3>3. CASE Len(b) = 1 /\ b[1] = "GPS_UNKNOWN"
      <4>1. DOMAIN b = {1} BY <3>3, <1>1
      <4>2. ToSet(b) = {"GPS_UNKNOWN"} BY <4>1, <3>3 DEF ToSet
      <4>3. ps = b BY <3>1, <1>4
      <4>4. "GPS_UPDATE" \notin ToSet(b) BY <4>2
      <4> HIDE DEF ps
      <4> QED BY <4>3, <4>4, <2>4
    <3> QED BY <3>2, <3>3, <1>2
  <2> QED BY <2>3, <2>4
<1>7. s \in Decoders /\ Counted(c) \subseteq Statements BY EndType
<1>8. /\ s.parsed_statement = IF PostsUpdate(c) THEN {}
                              ELSE c.parsed_statement \cup Counted(c)
      /\ s.item_pos = c.item_pos /\ s.parent = c.parent /\ s.item_str = c.item_str
  <2> DEFINE v == IF PostsUpdate(c) THEN {} ELSE c.parsed_statement \cup Counted(c)
  <2>1. s = [c EXCEPT !.parsed_statement = v]
    BY DEF EndStatement, PostsUpdate
  <2> HIDE DEF v, s
  <2>2. /\ s.parsed_statement = v /\ s.parent = c.parent /\ s.item_str = c.item_str
        /\ s.item_pos = c.item_pos
    BY <2>1 DEF Decoders
  <2> QED BY <2>2 DEF v
<1>9. Newline \in Texts BY ConstantTexts DEF Newline, Text, Texts
<1> HIDE DEF s
<1>10. e \in Decoders BY <1>7, <1>9, CharacterType
<1>11. /\ e.parsed_statement = s.parsed_statement
       /\ s.item_pos = 2 => e.parent = s.parent
       /\ e.item_str = Joined(s.item_str, Newline)
  <2> DEFINE x == IF s.asterisk THEN s.crc ELSE Xor(s.crc, Newline)
             i == Joined(s.item_str, Newline)
             last == s.item_pos + Length(Newline)
             g == Spill(s.parent, last)
  <2>1. e = [s EXCEPT !.crc = x, !.item_str = i, !.item_pos = last, !.parent = g]
    BY DEF Character
  <2>3. s.item_pos = 2 => g = s.parent
    <3> SUFFICES ASSUME s.item_pos = 2 PROVE g = s.parent OBVIOUS
    <3>1. Length(Newline) = 1 BY DEF Length, Newline, Text
    <3>2. last = 3 BY <3>1
    <3>3. s.parent \in GpsData BY <1>7 DEF Decoders
    <3> HIDE DEF last
    <3> QED BY <3>2, <3>3, SpillFacts
  <2> HIDE DEF x, i, e, last, g
  <2>2. /\ e.parsed_statement = s.parsed_statement /\ e.parent = g
        /\ e.item_str = i
    BY <2>1, <1>7 DEF Decoders
  <2> QED BY <2>2, <2>3 DEF i
<1>12. c.item_str.k = CrcItem => e.item_str.ln = c.item_str.ln
  <2> SUFFICES ASSUME c.item_str.k = CrcItem PROVE e.item_str.ln = c.item_str.ln
    OBVIOUS
  <2> DEFINE x == c.item_str
  <2>1. x # Empty /\ x # Dollar BY DEF CrcItem, Empty, Dollar, Text
  <2>2. Joined(x, Newline) = Damaged(x) BY <2>1 DEF Joined
  <2>3. x \in Texts BY DEF Decoders
  <2> HIDE DEF x
  <2>4. Damaged(x).ln = x.ln BY <2>3 DEF Damaged, Texts
  <2> QED BY <2>2, <2>4, <1>8, <1>11 DEF x
<1>13. Posted(<<>>, c) = ps BY DEF Posted, a, b
<1> HIDE DEF ps, e
<1>14. [d |-> e, posts |-> ps] \in Results BY <1>5, <1>10 DEF Results
<1> QED BY <1>6, <1>8, <1>11, <1>12, <1>13, <1>14 DEF e, s

-------------------------------------------------------------------------------
(* The values of the variables, in every state.                             *)

Windows == [seen : SUBSET (Statements \cup {"TXT"}), epochs : SUBSET Nat,
            sats : SUBSET Nat, over : SUBSET FieldNames, clean : BOOLEAN]
Events == [kind : Kinds, g : GpsData, w : Windows]

LEMMA PostFacts ==
  ASSUME NEW kinds \in Seq(Kinds), NEW g \in GpsData, NEW w \in Windows,
         loop \in Seq(Events)
  PROVE  LET q == Post(kinds, g, w)
         IN  /\ q \in Seq(Events) /\ Len(q) <= LoopSize
             /\ \A ev \in ToSet(q) :
                  \/ ev \in ToSet(loop)
                  \/ ev.kind \in ToSet(kinds) /\ ev.g = g /\ ev.w = w
<1> DEFINE b == [i \in DOMAIN kinds |-> [kind |-> kinds[i], g |-> g, w |-> w]]
           all == loop \o b
           n == IF Len(all) < LoopSize THEN Len(all) ELSE LoopSize
           q == SubSeq(all, 1, n)
<1>1. b \in Seq(Events) /\ Len(b) = Len(kinds)
  <2>1. ASSUME NEW i \in DOMAIN kinds
        PROVE  [kind |-> kinds[i], g |-> g, w |-> w] \in Events
    <3>1. kinds[i] \in Kinds OBVIOUS
    <3> QED BY <3>1 DEF Events
  <2>2. DOMAIN kinds = 1..Len(kinds) /\ Len(kinds) \in Nat OBVIOUS
  <2> QED BY <2>1, <2>2
<1>2. \A i \in DOMAIN kinds : b[i].kind = kinds[i] /\ b[i].g = g /\ b[i].w = w
  OBVIOUS
<1>3. DOMAIN kinds = 1..Len(kinds) /\ Len(kinds) \in Nat OBVIOUS
<1> HIDE DEF b
<1>4. /\ all \in Seq(Events) /\ Len(all) = Len(loop) + Len(b)
      /\ \A i \in 1..Len(loop) : all[i] = loop[i]
      /\ \A i \in (Len(loop) + 1)..(Len(loop) + Len(b)) : all[i] = b[i - Len(loop)]
  BY <1>1
<1> HIDE DEF all
<1>5. n \in 0..Len(all) /\ n <= LoopSize BY <1>4
<1> HIDE DEF n
<1>6. q \in Seq(Events) /\ Len(q) = n /\ \A i \in 1..n : q[i] = all[i]
  BY <1>4, <1>5
<1>7. ASSUME NEW ev \in ToSet(q)
      PROVE  \/ ev \in ToSet(loop)
             \/ ev.kind \in ToSet(kinds) /\ ev.g = g /\ ev.w = w
  <2>1. PICK i \in 1..n : ev = all[i] BY <1>6 DEF ToSet
  <2>2. i \in 1..(Len(loop) + Len(b)) BY <1>4, <1>5
  <2>3. CASE i \in 1..Len(loop) BY <2>1, <2>3, <1>4 DEF ToSet
  <2>4. CASE i \notin 1..Len(loop)
    <3> DEFINE j == i - Len(loop)
    <3>1. Len(loop) \in Nat OBVIOUS
    <3>2. i \in (Len(loop) + 1)..(Len(loop) + Len(b)) /\ j \in 1..Len(b)
      BY <2>2, <2>4, <3>1, <1>1, <1>3
    <3>3. ev = b[j] BY <2>1, <3>2, <1>4
    <3>4. j \in DOMAIN kinds BY <3>2, <1>1, <1>3
    <3> HIDE DEF j
    <3> QED BY <3>3, <3>4, <1>2 DEF ToSet
  <2> QED BY <2>3, <2>4
<1> QED BY <1>5, <1>6, <1>7 DEF Post, q, n, all, b

LEMMA WindowType ==
  ASSUME uart \in Seq(Pieces), ReadCount # 0, window \in Windows
  PROVE  WindowNow \in Windows
<1> DEFINE read == {uart[i] : i \in 1..ReadCount}
<1>1. ReadCount \in 1..Len(uart) BY ReadCountIs
<1>2. \A p \in read : p \in Pieces BY <1>1
<1>3. uart[ReadCount] \in Pieces BY <1>1
<1>4. ASSUME NEW p \in Pieces
      PROVE  p.ln.s \in Statements \cup {"TXT"} /\ p.ln.e \in Nat /\ p.ln.sats \in Nat
  BY PieceFacts DEF IsSent, LineRecords
<1> HIDE DEF read
<1>5. {p.ln.s : p \in {q \in read : Ended(q)}} \subseteq Statements \cup {"TXT"}
  BY <1>2, <1>4
<1>6. {p.ln.e : p \in read} \subseteq Nat BY <1>2, <1>4
<1>7. {uart[ReadCount].ln.sats} \subseteq Nat BY <1>3, <1>4
<1> DEFINE a == window.seen \cup {p.ln.s : p \in {q \in read : Ended(q)}}
           b == window.epochs \cup {p.ln.e : p \in read}
           c == IF uart[ReadCount].ln.s = "GSV" THEN {uart[ReadCount].ln.sats}
                ELSE window.sats
           f == window.clean /\ \A p \in read : Intact(p) /\ ~p.gap
           o == Overwritten(uart[ReadCount].ln.s, window.over)
<1>8. /\ a \subseteq Statements \cup {"TXT"} /\ b \subseteq Nat /\ c \subseteq Nat
      /\ f \in BOOLEAN
  BY <1>5, <1>6, <1>7 DEF Windows
<1>10. o \subseteq FieldNames
  <2>1. window.over \subseteq FieldNames BY DEF Windows
  <2>2. Reached(TextLength) \subseteq FieldNames
    BY BeginFacts DEF Reached, FieldNames
  <2> QED BY <2>1, <2>2 DEF Overwritten
<1>9. WindowNow = [seen |-> a, epochs |-> b, sats |-> c, over |-> o, clean |-> f]
  BY DEF WindowNow, read
<1> HIDE DEF a, b, c, f, o
<1> QED BY <1>8, <1>9, <1>10 DEF Windows

TypeOK ==
  /\ rx \in [e : 0..(Epochs - 1), i : Nat, gap : BOOLEAN]
  /\ rx.i \in 1..Len(Group(Sats(rx.e)))
  /\ faults \in 0..MaxFaults
  /\ uart \in Seq(Pieces) /\ Len(uart) <= RingLines
  /\ event_queue \in Nat
  /\ dec \in Decoders
  /\ loop \in Seq(Events) /\ Len(loop) <= LoopSize
  /\ task \in {"none", "wait", "reset", "loop"} /\ (task = "loop" <=> loop # <<>>)
  /\ main \in {"init", "add", "done"} /\ (main = "init" => task = "none")
  /\ handler \in BOOLEAN
  /\ c_gps_location \in GpsData /\ l_gps_location \in GpsData
  /\ tcp_queue \in BOOLEAN
  /\ tcp_send_queue \in Seq(Values) /\ Len(tcp_send_queue) <= TcpQueueSize
  /\ window \in Windows

LEMMA SatsType ==
  ASSUME NEW e
  PROVE  Sats(e) \in 1..16 /\ Len(Group(Sats(e))) \in 7..10
<1>1. Sats(e) \in 1..16 BY DEF Sats
<1>2. Messages(Sats(e)) \in 1..4 BY <1>1, MessagesBounds
<1>3. Len(Group(Sats(e))) = 6 + Messages(Sats(e)) BY <1>1, GroupFacts
<1> QED BY <1>1, <1>2, <1>3

LEMMA InitType == Init => TypeOK
<1> SUFFICES ASSUME Init PROVE TypeOK OBVIOUS
<1> USE DEF Init
<1>1. PICK i \in Starts : rx = [e |-> 0, i |-> i, gap |-> TRUE] OBVIOUS
<1>2. i \in 1..6 /\ i \in Nat OBVIOUS
<1>3. rx \in [e : 0..(Epochs - 1), i : Nat, gap : BOOLEAN] /\ rx.i = i BY <1>1, <1>2
<1>4. rx.i \in 1..Len(Group(Sats(rx.e)))
  <2> DEFINE n == Len(Group(Sats(rx.e)))
  <2>1. n \in 7..10 BY SatsType
  <2> HIDE DEF n
  <2>2. rx.i \in 1..n BY <2>1, <1>2, <1>3
  <2> QED BY <2>2 DEF n
<1>5. FreshDecoder \in Decoders
  BY ConstantTexts DEF FreshDecoder, Decoders
<1>6. FreshWindow \in Windows BY DEF FreshWindow, Windows
<1>7. /\ faults \in 0..MaxFaults /\ uart \in Seq(Pieces) /\ Len(uart) <= RingLines
      /\ event_queue \in Nat
      /\ loop \in Seq(Events) /\ Len(loop) <= LoopSize
      /\ tcp_send_queue \in Seq(Values) /\ Len(tcp_send_queue) <= TcpQueueSize
  <2>1. uart = <<>> /\ loop = <<>> /\ tcp_send_queue = <<>> OBVIOUS
  <2>2. faults \in 0..MaxFaults /\ event_queue \in Nat OBVIOUS
  <2> QED BY <2>1, <2>2
<1>8. /\ task \in {"none", "wait", "reset", "loop"} /\ (task = "loop" <=> loop # <<>>)
      /\ main \in {"init", "add", "done"} /\ (main = "init" => task = "none")
      /\ handler \in BOOLEAN /\ tcp_queue \in BOOLEAN
  OBVIOUS
<1>9. dec = FreshDecoder /\ window = FreshWindow /\ c_gps_location = Zeroed
      /\ l_gps_location = Zeroed
  OBVIOUS
<1> QED BY <1>3, <1>4, <1>5, <1>6, <1>7, <1>8, <1>9, ConstantTexts DEF TypeOK

(* The receiver goes on to a line of the next epoch or of this one.         *)
LEMMA AdvanceType ==
  ASSUME TypeOK, NEW gap \in BOOLEAN, Advance(gap)
  PROVE  /\ rx' \in [e : 0..(Epochs - 1), i : Nat, gap : BOOLEAN]
         /\ rx'.i \in 1..Len(Group(Sats(rx'.e)))
         /\ rx'.gap = gap
<1>1. rx \in [e : 0..(Epochs - 1), i : Nat, gap : BOOLEAN]
      /\ rx.i \in 1..Len(Group(Sats(rx.e)))
  BY DEF TypeOK
<1>2. CASE rx.i < Len(Group(Sats(rx.e)))
  <2>1. rx' = [rx EXCEPT !.i = rx.i + 1, !.gap = gap] BY <1>2 DEF Advance
  <2>2. rx' \in [e : 0..(Epochs - 1), i : Nat, gap : BOOLEAN]
        /\ rx'.i = rx.i + 1 /\ rx'.e = rx.e /\ rx'.gap = gap
    <3> DEFINE j == rx.i + 1
    <3>1. j \in Nat BY <1>1
    <3> HIDE DEF j
    <3>2. rx' = [rx EXCEPT !.i = j, !.gap = gap] BY <2>1 DEF j
    <3>3. rx' \in [e : 0..(Epochs - 1), i : Nat, gap : BOOLEAN]
          /\ rx'.i = j /\ rx'.e = rx.e /\ rx'.gap = gap
      BY <3>1, <3>2, <1>1
    <3> QED BY <3>3 DEF j
  <2>3. Len(Group(Sats(rx.e))) \in Nat BY SatsType
  <2> QED BY <2>2, <2>3, <1>1, <1>2
<1>3. CASE ~(rx.i < Len(Group(Sats(rx.e))))
  <2>1. rx' = [e |-> (rx.e + 1) % Epochs, i |-> 1, gap |-> gap] BY <1>3 DEF Advance
  <2>2. (rx.e + 1) % Epochs \in 0..(Epochs - 1) BY <1>1
  <2>3. rx' \in [e : 0..(Epochs - 1), i : Nat, gap : BOOLEAN]
        /\ rx'.i = 1 /\ rx'.gap = gap
    BY <2>1, <2>2
  <2> DEFINE n == Len(Group(Sats(rx'.e)))
  <2>4. n \in 7..10 BY SatsType
  <2> HIDE DEF n
  <2>5. rx'.i \in 1..n BY <2>3, <2>4
  <2> QED BY <2>3, <2>5 DEF n
<1> QED BY <1>2, <1>3

Damages == {Whole} \cup [kind : {"garbled", "tail", "cut"}, k : DamageItems]

LEMMA ReceiveType ==
  ASSUME TypeOK, NEW damage, Receive(damage),
         damage.kind = "lost" \/ damage \in Damages
  PROVE  /\ rx' \in [e : 0..(Epochs - 1), i : Nat, gap : BOOLEAN]
         /\ rx'.i \in 1..Len(Group(Sats(rx'.e)))
         /\ uart' \in Seq(Pieces) /\ Len(uart') <= RingLines
         /\ event_queue' \in Nat
         /\ damage.kind = "lost" => uart' = uart /\ rx'.gap
         /\ damage.kind # "lost" =>
              /\ damage \in Damages /\ Piece(damage) \in Pieces
              /\ uart' = Append(uart, Piece(damage)) /\ ~rx'.gap
<1>1. CASE damage.kind = "lost"
  <2>1. Advance(TRUE) /\ uart' = uart /\ event_queue' = event_queue
    BY <1>1 DEF Receive, driver
  <2> QED BY <2>1, <1>1, AdvanceType DEF TypeOK
<1>2. CASE damage.kind # "lost"
  <2> DEFINE p == Piece(damage)
  <2>1. /\ Len(uart) < RingLines /\ uart' = Append(uart, p)
        /\ event_queue' = event_queue + IF Ends(p) THEN 1 ELSE 0
        /\ Advance(FALSE)
    BY <1>2 DEF Receive
  <2>2. damage \in Damages BY <1>2
  <2>3. Current \in AllLines
    <3>1. rx.e \in 0..(Epochs - 1) /\ rx.i \in 1..Len(Group(Sats(rx.e))) BY DEF TypeOK
    <3> QED BY <3>1, CurrentInAllLines DEF Current
  <2>4. rx.gap \in BOOLEAN BY DEF TypeOK
  <2>5. p \in Pieces BY <2>2, <2>3, <2>4 DEF Piece, Pieces, Damages
  <2> HIDE DEF p
  <2>6. uart \in Seq(Pieces) /\ Len(uart) \in Nat BY DEF TypeOK
  <2>7. uart' \in Seq(Pieces) /\ Len(uart') = Len(uart) + 1 BY <2>1, <2>5, <2>6
  <2>8. event_queue' \in Nat BY <2>1 DEF TypeOK
  <2>9. Len(uart') <= RingLines BY <2>1, <2>6, <2>7
  <2>10. FALSE \in BOOLEAN OBVIOUS
  <2>11. /\ rx' \in [e : 0..(Epochs - 1), i : Nat, gap : BOOLEAN]
         /\ rx'.i \in 1..Len(Group(Sats(rx'.e))) /\ ~rx'.gap
    BY <2>1, <2>10, AdvanceType
  <2> QED BY <1>2, <2>1, <2>2, <2>5, <2>7, <2>8, <2>9, <2>11 DEF p
<1> QED BY <1>1, <1>2

LEMMA WholeIsNotLost == Whole \in Damages /\ Whole.kind = "whole"
  BY DEF Whole, Damages

\* What the parser task does with a line.
LEMMA ReadFacts ==
  ASSUME TypeOK, EventPattern, ReadCount # 0
  PROVE  /\ uart' = SubSeq(uart, ReadCount + 1, Len(uart)) /\ rx' = rx
         /\ dec' = Decoded.d
         /\ loop' = Post(Decoded.posts, Decoded.d.parent, WindowNow)
         /\ tcp_send_queue' = IF tcp_queue THEN QueuePosition(tcp_send_queue)
                              ELSE tcp_send_queue
         /\ window' = IF "GPS_UPDATE" \in ToSet(Decoded.posts) THEN FreshWindow
                      ELSE WindowNow
<1> DEFINE Then(r, w) ==
             /\ uart' = SubSeq(uart, ReadCount + 1, Len(uart)) /\ rx' = rx
             /\ dec' = r.d
             /\ loop' = Post(r.posts, r.d.parent, w)
             /\ tcp_send_queue' = IF tcp_queue THEN QueuePosition(tcp_send_queue)
                                  ELSE tcp_send_queue
             /\ window' = IF "GPS_UPDATE" \in ToSet(r.posts) THEN FreshWindow ELSE w
<1>1. \E r \in {Decoded}, w \in {WindowNow} : Then(r, w)
  BY DEF EventPattern
<1> HIDE DEF Then
<1>2. Then(Decoded, WindowNow) BY <1>1
<1> QED BY <1>2 DEF Then

LEMMA QueueType ==
  ASSUME NEW q \in Seq(Values), Len(q) <= TcpQueueSize, c_gps_location \in GpsData
  PROVE  LET n == QueuePosition(q)
         IN  /\ n \in Seq(Values) /\ Len(n) <= TcpQueueSize
             /\ n # <<>> /\ n[Len(n)] = c_gps_location.f.latitude
<1> DEFINE v == c_gps_location.f.latitude
           room == IF Len(q) >= TcpQueueSize THEN <<>> ELSE q
<1>1. v \in Values BY DEF GpsData, FieldNames
<1>2. room \in Seq(Values) /\ Len(room) < TcpQueueSize OBVIOUS
<1> HIDE DEF v, room
<1>3. /\ Append(room, v) \in Seq(Values) /\ Len(Append(room, v)) = Len(room) + 1
      /\ Append(room, v)[Len(room) + 1] = v
  BY <1>1, <1>2
<1>4. Len(room) \in Nat /\ Len(Append(room, v)) <= TcpQueueSize BY <1>2, <1>3
<1>5. Append(room, v) # <<>>
  <2>1. Len(<<>>) = 0 OBVIOUS
  <2>2. Len(Append(room, v)) # 0 BY <1>3, <1>4
  <2> QED BY <2>1, <2>2
<1> QED BY <1>3, <1>4, <1>5 DEF QueuePosition, v, room

LEMMA TailType ==
  ASSUME NEW S, NEW q \in Seq(S), q # <<>>
  PROVE  /\ Tail(q) \in Seq(S) /\ Len(Tail(q)) = Len(q) - 1 /\ Head(q) \in S
         /\ Len(Tail(q)) <= Len(q) /\ ToSet(Tail(q)) \subseteq ToSet(q)
         /\ Head(q) \in ToSet(q)
<1>1. Len(q) \in Nat /\ Len(q) # 0 OBVIOUS
<1>2. Tail(q) \in Seq(S) /\ Len(Tail(q)) = Len(q) - 1 /\ Head(q) = q[1]
      /\ \A i \in 1..(Len(q) - 1) : Tail(q)[i] = q[i + 1]
  BY <1>1
<1>3. 1 \in DOMAIN q BY <1>1
<1>4. ASSUME NEW x \in ToSet(Tail(q)) PROVE x \in ToSet(q)
  <2>1. PICK i \in 1..(Len(q) - 1) : x = q[i + 1] BY <1>2 DEF ToSet
  <2>2. i + 1 \in DOMAIN q BY <1>1
  <2> QED BY <2>1, <2>2 DEF ToSet
<1> QED BY <1>1, <1>2, <1>3, <1>4 DEF ToSet

LEMMA SendLineType == TypeOK /\ SendLine => TypeOK'
<1> SUFFICES ASSUME TypeOK, SendLine PROVE TypeOK' OBVIOUS
<1>1. Receive(Whole) /\ UNCHANGED <<faults, rest>> BY DEF SendLine
<1>2. /\ rx' \in [e : 0..(Epochs - 1), i : Nat, gap : BOOLEAN]
      /\ rx'.i \in 1..Len(Group(Sats(rx'.e)))
      /\ uart' \in Seq(Pieces) /\ Len(uart') <= RingLines
      /\ event_queue' \in Nat
  BY <1>1, WholeIsNotLost, ReceiveType
<1> QED BY <1>1, <1>2 DEF TypeOK, rest, places, tcp

LEMMA SendDamagedType == TypeOK /\ SendDamaged => TypeOK'
<1> SUFFICES ASSUME TypeOK, SendDamaged PROVE TypeOK' OBVIOUS
<1>1. PICK damage : Receive(damage) /\ (damage.kind = "lost" \/ damage \in Damages)
  <2>1. CASE Receive([kind |-> "lost", k |-> 0])
    <3>1. [kind |-> "lost", k |-> 0].kind = "lost" OBVIOUS
    <3> QED BY <2>1, <3>1
  <2>2. ASSUME NEW kind \in {"garbled", "tail", "cut"}, NEW k \in DamageItems,
               Receive([kind |-> kind, k |-> k])
        PROVE  \E damage : Receive(damage)
                            /\ (damage.kind = "lost" \/ damage \in Damages)
    <3>1. [kind |-> kind, k |-> k] \in Damages BY DEF Damages
    <3> QED BY <2>2, <3>1
  <2> QED BY <2>1, <2>2 DEF SendDamaged
<1>2. /\ rx' \in [e : 0..(Epochs - 1), i : Nat, gap : BOOLEAN]
      /\ rx'.i \in 1..Len(Group(Sats(rx'.e)))
      /\ uart' \in Seq(Pieces) /\ Len(uart') <= RingLines
      /\ event_queue' \in Nat
  BY <1>1, ReceiveType
<1>3. faults' \in 0..MaxFaults
  BY DEF SendDamaged, Fault, TypeOK
<1>4. UNCHANGED rest BY DEF SendDamaged
<1> QED BY <1>2, <1>3, <1>4 DEF TypeOK, rest, places, tcp

LEMMA EventPatternType == TypeOK /\ EventPattern => TypeOK'
<1> SUFFICES ASSUME TypeOK, EventPattern PROVE TypeOK' OBVIOUS
<1>1. /\ task = "wait" /\ event_queue' \in Nat
      /\ task' = IF loop' = <<>> THEN "wait" ELSE "loop"
      /\ UNCHANGED <<faults, main, handler, places, tcp_queue>>
  <2>1. event_queue \in Nat BY DEF TypeOK
  <2>2. event_queue > 0 /\ event_queue' = event_queue - 1 /\ task = "wait"
    BY DEF EventPattern, TakeEvent
  <2>3. event_queue' \in Nat BY ONLY <2>1, <2>2
  <2> QED BY <2>2, <2>3 DEF EventPattern
<1>2. CASE ReadCount = 0
  <2>1. /\ uart' = <<>> /\ rx' = [rx EXCEPT !.gap = @ \/ uart # <<>>]
        /\ UNCHANGED <<dec, loop, tcp_send_queue, window>>
    BY <1>2 DEF EventPattern
  <2> DEFINE b == rx.gap \/ uart # <<>>
  <2>2. rx' = [rx EXCEPT !.gap = b] /\ b \in BOOLEAN BY <2>1
  <2> HIDE DEF b
  <2>3. rx' \in [e : 0..(Epochs - 1), i : Nat, gap : BOOLEAN] /\ rx'.i = rx.i
        /\ rx'.e = rx.e
    BY <2>2 DEF TypeOK
  <2>4. uart' \in Seq(Pieces) /\ Len(uart') <= RingLines
    <3>1. <<>> \in Seq(Pieces) /\ Len(<<>>) = 0 OBVIOUS
    <3> QED BY <2>1, <3>1
  <2>5. task' \in {"none", "wait", "reset", "loop"} /\ (task' = "loop" <=> loop' # <<>>)
    BY <1>1
  <2> QED BY <1>1, <2>1, <2>3, <2>4, <2>5 DEF TypeOK, places
<1>3. CASE ReadCount # 0
  <2>1. /\ uart' = SubSeq(uart, ReadCount + 1, Len(uart)) /\ rx' = rx
        /\ dec' = Decoded.d
        /\ loop' = Post(Decoded.posts, Decoded.d.parent, WindowNow)
        /\ tcp_send_queue' = IF tcp_queue THEN QueuePosition(tcp_send_queue)
                             ELSE tcp_send_queue
        /\ window' = IF "GPS_UPDATE" \in ToSet(Decoded.posts) THEN FreshWindow
                     ELSE WindowNow
    BY <1>3, ReadFacts
  <2>2. uart \in Seq(Pieces) /\ Len(uart) \in Nat /\ Len(uart) <= RingLines
        /\ ReadCount \in 1..Len(uart)
    BY <1>3, ReadCountIs DEF TypeOK
  <2>3. uart' \in Seq(Pieces) /\ Len(uart') <= RingLines
    <3> DEFINE n == ReadCount
    <3>1. n + 1 \in 1..(Len(uart) + 1) BY <2>2
    <3> HIDE DEF n
    <3>2. uart' = SubSeq(uart, n + 1, Len(uart)) BY <2>1 DEF n
    <3>3. uart' \in Seq(Pieces) /\ Len(uart') = Len(uart) - (n + 1) + 1
      BY <3>1, <3>2, <2>2
    <3>4. n \in Nat /\ n >= 1 BY <2>2 DEF n
    <3> QED BY <3>3, <3>4, <2>2
  <2>4. Decoded \in Results
    <3>1. uart \in Seq(Pieces) /\ dec \in Decoders BY DEF TypeOK
    <3>2. PICK c \in Decoders :
            Decoded = [d |-> Character(EndStatement(c), Newline), posts |-> Posted(<<>>, c)]
      BY <1>3, <3>1, LineRead
    <3> QED BY <3>2, LineEnding
  <2>5. Decoded.d \in Decoders /\ Decoded.posts \in Seq(Kinds) BY <2>4, ResultFacts
  <2>6. Decoded.d.parent \in GpsData BY <2>5 DEF Decoders
  <2>7. WindowNow \in Windows BY <1>3, WindowType DEF TypeOK
  <2>8. window' \in Windows
    <3>1. FreshWindow \in Windows BY DEF FreshWindow, Windows
    <3> QED BY <2>1, <2>7, <3>1
  <2>9. loop' \in Seq(Events) /\ Len(loop') <= LoopSize
    <3>1. loop \in Seq(Events) BY DEF TypeOK
    <3> QED BY <3>1, <2>1, <2>5, <2>6, <2>7, PostFacts
  <2>10. tcp_send_queue' \in Seq(Values) /\ Len(tcp_send_queue') <= TcpQueueSize
    BY <2>1, QueueType DEF TypeOK
  <2>11. task' \in {"none", "wait", "reset", "loop"} /\ (task' = "loop" <=> loop' # <<>>)
    BY <1>1
  <2>12. dec' \in Decoders /\ rx' = rx BY <2>1, <2>5
  <2> QED BY <1>1, <2>3, <2>8, <2>9, <2>10, <2>11, <2>12 DEF TypeOK, places
<1> QED BY <1>2, <1>3

LEMMA LoopRunType == TypeOK /\ LoopRun => TypeOK'
<1> SUFFICES ASSUME TypeOK, LoopRun PROVE TypeOK' OBVIOUS
<1>1. /\ task = "loop" /\ loop' = Tail(loop)
      /\ task' = IF loop' = <<>> THEN "wait" ELSE "loop"
      /\ UNCHANGED <<receiver, driver, dec, main, handler, tcp, window>>
  BY DEF LoopRun
<1>2. loop \in Seq(Events) /\ loop # <<>> /\ Len(loop) <= LoopSize BY <1>1 DEF TypeOK
<1>3. loop' \in Seq(Events) /\ Len(loop') <= LoopSize /\ Head(loop) \in Events
  BY <1>1, <1>2, TailType
<1>4. Head(loop).g \in GpsData BY <1>3 DEF Events
<1>5. c_gps_location' \in GpsData /\ l_gps_location' \in GpsData
  <2>1. CASE handler /\ Head(loop).kind = "GPS_UPDATE"
    <3>1. Handled(Head(loop).g) BY <2>1 DEF LoopRun
    <3> QED BY <3>1, <1>4 DEF Handled, TypeOK
  <2>2. CASE ~(handler /\ Head(loop).kind = "GPS_UPDATE")
    BY <2>2 DEF LoopRun, places, TypeOK
  <2> QED BY <2>1, <2>2
<1>6. task' \in {"none", "wait", "reset", "loop"} /\ (task' = "loop" <=> loop' # <<>>)
  BY <1>1
<1> QED BY <1>1, <1>3, <1>5, <1>6 DEF TypeOK, receiver, driver, tcp

LEMMA TypeStep == TypeOK /\ [Next]_vars => TypeOK'
<1> SUFFICES ASSUME TypeOK, [Next]_vars PROVE TypeOK' OBVIOUS
<1>1. CASE SendLine BY <1>1, SendLineType
<1>2. CASE SendDamaged BY <1>2, SendDamagedType
<1>3. CASE EventPattern BY <1>3, EventPatternType
<1>4. CASE EventOverflow
  <2>1. /\ faults' = (IF Stuck THEN faults ELSE faults + 1) /\ (Stuck \/ faults < MaxFaults)
        /\ uart' = <<>> /\ rx' = [rx EXCEPT !.gap = TRUE] /\ task' = "reset"
        /\ task = "wait"
        /\ UNCHANGED <<event_queue, dec, loop, main, handler, places, tcp, window>>
    BY <1>4 DEF EventOverflow
  <2>2. rx' \in [e : 0..(Epochs - 1), i : Nat, gap : BOOLEAN] /\ rx'.i = rx.i
        /\ rx'.e = rx.e
    BY <2>1 DEF TypeOK
  <2>3. uart' \in Seq(Pieces) /\ Len(uart') <= RingLines
    <3>1. <<>> \in Seq(Pieces) /\ Len(<<>>) = 0 OBVIOUS
    <3> QED BY <2>1, <3>1
  <2>4. faults' \in 0..MaxFaults
    <3>1. faults \in 0..MaxFaults /\ MaxFaults \in Nat BY GpsConstants DEF TypeOK, GpsConstants
    <3>2. faults' = faults \/ (faults < MaxFaults /\ faults' = faults + 1) BY <2>1
    <3> QED BY ONLY <3>1, <3>2
  <2> QED BY <2>1, <2>2, <2>3, <2>4 DEF TypeOK, places, tcp
<1>5. CASE ResetEvents BY <1>5 DEF ResetEvents, TypeOK, receiver, places, tcp
<1>6. CASE LoopRun BY <1>6, LoopRunType
<1>7. CASE NmeaParserInit
  <2>1. loop = <<>> BY <1>7 DEF NmeaParserInit, TypeOK
  <2> QED BY <1>7, <2>1 DEF NmeaParserInit, TypeOK, receiver, driver, places
<1>8. CASE AddHandler
  BY <1>8 DEF AddHandler, TypeOK, receiver, driver, places, tcp
<1>9. CASE NmeaParserInitFails
  BY <1>9 DEF NmeaParserInitFails, Fault, TypeOK, driver, places, tcp
<1>10. CASE TcpTake
  <2>1. tcp_send_queue' \in Seq(Values) /\ Len(tcp_send_queue') <= TcpQueueSize
    BY <1>10, TailType DEF TcpTake, TypeOK
  <2> QED BY <1>10, <2>1 DEF TcpTake, TypeOK, receiver, driver, places
<1>11. CASE UNCHANGED vars
  BY <1>11 DEF TypeOK, vars, receiver, driver, places, tcp
<1> QED BY <1>1, <1>2, <1>3, <1>4, <1>5, <1>6, <1>7, <1>8, <1>9, <1>10, <1>11
  DEF Next, Main

(* Whatever the receiver sends and however it is damaged, the decoder, the  *)
(* event loop and the queue of the PC link hold values of their types, the  *)
(* parser waits for the UART only when the event loop is empty, and the     *)
(* queues stay within their sizes (nmea_parser.c 509-660, 693-736).         *)
THEOREM GpsTypes == Spec => []TypeOK
<1>1. Init => TypeOK BY InitType
<1>2. TypeOK /\ [Next]_vars => TypeOK' BY TypeStep
<1> QED BY <1>1, <1>2, PTL DEF Spec

LEMMA ReceiveCounts ==
  ASSUME TypeOK, NEW damage, Receive(damage)
  PROVE  ~(event_queue' < event_queue)
<1>1. event_queue \in Nat BY DEF TypeOK
<1>2. CASE damage.kind = "lost"
  <2>1. event_queue' = event_queue BY <1>2 DEF Receive, driver
  <2> QED BY <1>1, <2>1
<1>3. CASE damage.kind # "lost"
  <2> DEFINE n == IF Ends(Piece(damage)) THEN 1 ELSE 0
  <2>1. event_queue' = event_queue + n BY <1>3 DEF Receive
  <2>2. n \in {0, 1} OBVIOUS
  <2> HIDE DEF n
  <2> QED BY <1>1, <2>1, <2>2
<1> QED BY <1>2, <1>3

LEMMA NewestStep ==
  ASSUME TypeOK, [Next]_vars, event_queue' < event_queue, uart' # uart,
         ReadCount > 0, tcp_queue
  PROVE  /\ tcp_send_queue' # <<>>
         /\ Last(tcp_send_queue') = c_gps_location.f.latitude
<1>1. event_queue \in Nat BY DEF TypeOK
<1>2. EventPattern
  <2>1. CASE SendLine
    <3>1. Receive(Whole) BY <2>1 DEF SendLine
    <3> QED BY <3>1, ReceiveCounts
  <2>2. CASE SendDamaged
    <3>1. PICK damage : Receive(damage) BY <2>2 DEF SendDamaged
    <3> QED BY <3>1, ReceiveCounts
  <2>3. CASE EventOverflow BY <2>3, <1>1 DEF EventOverflow
  <2>4. CASE ResetEvents BY <2>4 DEF ResetEvents
  <2>5. CASE LoopRun BY <2>5 DEF LoopRun, driver
  <2>6. CASE NmeaParserInit BY <2>6 DEF NmeaParserInit, driver
  <2>7. CASE AddHandler BY <2>7 DEF AddHandler, driver
  <2>8. CASE NmeaParserInitFails BY <2>8 DEF NmeaParserInitFails, driver
  <2>9. CASE TcpTake BY <2>9 DEF TcpTake, driver
  <2>10. CASE UNCHANGED vars BY <2>10 DEF vars, driver
  <2> QED BY <2>1, <2>2, <2>3, <2>4, <2>5, <2>6, <2>7, <2>8, <2>9, <2>10 DEF Next, Main
<1>3. ReadCount # 0
  <2>1. ReadCount \in Nat BY ReadCountIs DEF TypeOK
  <2> QED BY <2>1
<1>4. tcp_send_queue' = QueuePosition(tcp_send_queue) BY <1>2, <1>3, ReadFacts
<1>5. /\ tcp_send_queue \in Seq(Values) /\ Len(tcp_send_queue) <= TcpQueueSize
      /\ c_gps_location \in GpsData
  BY DEF TypeOK
<1> QED BY <1>4, <1>5, QueueType DEF Last

(* When a line has been handled and the PC link has been started, the       *)
(* newest position is the last one in its queue, for every size of the      *)
(* queue and also when nobody takes anything from it: gps_decode resets a   *)
(* full queue before it sends (nmea_parser.c 511-532).                      *)
THEOREM GpsNewestPosition == Spec => NewestPositionQueued
<1>1. TypeOK /\ [Next]_vars =>
        [event_queue' < event_queue /\ uart' # uart /\ ReadCount > 0 /\ tcp_queue
         => /\ tcp_send_queue' # <<>>
            /\ Last(tcp_send_queue') = c_gps_location.f.latitude]_vars
  BY NewestStep
<1> QED BY <1>1, GpsTypes, PTL DEF Spec, NewestPositionQueued

-------------------------------------------------------------------------------
(* What the decoder has counted has been received.                          *)

Complete == dec.parsed_statement \subseteq window.seen /\ CompleteUpdate

LEMMA CompleteRead ==
  ASSUME TypeOK, Complete, Apart, EventPattern, ReadCount # 0
  PROVE  Complete'
<1> DEFINE p == uart[ReadCount]
           W == WindowNow
           r == Decoded
<1>1. uart \in Seq(Pieces) /\ dec \in Decoders /\ window \in Windows
      /\ loop \in Seq(Events)
  BY DEF TypeOK
<1> DEFINE Read(d, t) ==
        /\ Items(t, p, d)
        /\ \A k \in FirstItem(p)..LastItem(p) : t[k] \in Decoders
        /\ p.damage.kind = "tail" => Headless(p.ln) \notin d.crc
        /\ LET c == AtReturn(p, t[LastItem(p)])
           IN  /\ c \in Decoders /\ c.parsed_statement = dec.parsed_statement
               /\ r = [d |-> Character(EndStatement(c), Newline),
                       posts |-> Posted(<<>>, c)]
<1>0. PICK d \in Decoders : \E t : Read(d, t)
  BY <1>1, LineRead
<1>2. PICK t : Read(d, t) BY <1>0
<1> DEFINE c == AtReturn(p, t[LastItem(p)])
<1>3. p \in Pieces /\ p.damage.kind # "cut" BY <1>1, LineRead
<1>4. c \in Decoders /\ c.parsed_statement = dec.parsed_statement
      /\ r = [d |-> Character(EndStatement(c), Newline), posts |-> Posted(<<>>, c)]
  BY <1>2
<1>5. Counted(c) \subseteq IF Ended(p) THEN {p.ln.s} ELSE {}
  <2> HIDE DEF p
  <2> QED BY <1>2, <1>3, CountedEnds
<1> HIDE DEF c
<1>6. /\ r \in Results
      /\ "GPS_UPDATE" \in ToSet(r.posts) <=> PostsUpdate(c)
      /\ r.d.parsed_statement = IF PostsUpdate(c) THEN {}
                                ELSE c.parsed_statement \cup Counted(c)
  BY <1>4, LineEnding
<1>7. r.d \in Decoders /\ r.posts \in Seq(Kinds) BY <1>6, ResultFacts
<1>8. r.d.parent \in GpsData BY <1>7 DEF Decoders
<1>9. W \in Windows BY <1>1, WindowType
<1>10. window.seen \cup Counted(c) \subseteq W.seen
  <2> DEFINE read == {uart[i] : i \in 1..ReadCount}
  <2>1. W.seen = window.seen \cup {q.ln.s : q \in {x \in read : Ended(x)}}
    BY DEF WindowNow
  <2>2. ReadCount \in 1..Len(uart) BY <1>1, ReadCountIs
  <2>3. p \in read BY <2>2
  <2> HIDE DEF W, read, p
  <2> QED BY <2>1, <2>3, <1>5
<1>11. c.parsed_statement \cup Counted(c) \subseteq W.seen
  BY <1>4, <1>10 DEF Complete
<1>12. /\ dec' = r.d /\ loop' = Post(r.posts, r.d.parent, W)
       /\ window' = IF "GPS_UPDATE" \in ToSet(r.posts) THEN FreshWindow ELSE W
  BY ReadFacts
<1> HIDE DEF r, W
<1>13. dec'.parsed_statement \subseteq window'.seen
  BY <1>6, <1>11, <1>12 DEF FreshWindow
<1>14. ASSUME NEW u \in ToSet(loop'), u.kind = "GPS_UPDATE"
       PROVE  Statements \subseteq u.w.seen
  <2>1. u \in ToSet(loop) \/ (u.kind \in ToSet(r.posts) /\ u.w = W)
    BY <1>1, <1>7, <1>8, <1>9, <1>12, PostFacts
  <2>2. CASE u \in ToSet(loop) BY <2>2, <1>14 DEF Complete, CompleteUpdate, Updates
  <2>3. CASE u.kind \in ToSet(r.posts) /\ u.w = W
    <3>1. PostsUpdate(c) BY <2>3, <1>14, <1>6
    <3>2. c.parsed_statement \cup Counted(c) = Statements BY <3>1 DEF PostsUpdate
    <3> QED BY <3>2, <2>3, <1>11
  <2> QED BY <2>1, <2>2, <2>3
<1> QED BY <1>13, <1>14 DEF Complete, CompleteUpdate, Updates

LEMMA CompleteStep == TypeOK /\ Complete /\ Apart /\ [Next]_vars => Complete'
<1> SUFFICES ASSUME TypeOK, Complete, Apart, [Next]_vars PROVE Complete' OBVIOUS
<1>0. ASSUME ToSet(loop') \subseteq ToSet(loop), UNCHANGED <<dec, window>>
      PROVE  Complete'
  BY <1>0 DEF Complete, CompleteUpdate, Updates
<1>1. CASE SendLine BY <1>1, <1>0 DEF SendLine, rest
<1>2. CASE SendDamaged BY <1>2, <1>0 DEF SendDamaged, rest
<1>3. CASE EventPattern
  <2>1. CASE ReadCount = 0 BY <2>1, <1>3, <1>0 DEF EventPattern
  <2>2. CASE ReadCount # 0 BY <2>2, <1>3, CompleteRead
  <2> QED BY <2>1, <2>2
<1>4. CASE EventOverflow BY <1>4, <1>0 DEF EventOverflow
<1>5. CASE ResetEvents BY <1>5, <1>0 DEF ResetEvents
<1>6. CASE LoopRun
  <2>1. loop \in Seq(Events) /\ loop # <<>> /\ loop' = Tail(loop)
        /\ UNCHANGED <<dec, window>>
    BY <1>6 DEF LoopRun, TypeOK
  <2>2. ToSet(loop') \subseteq ToSet(loop) BY <2>1, TailType
  <2> QED BY <2>1, <2>2, <1>0
<1>7. CASE NmeaParserInit BY <1>7, <1>0 DEF NmeaParserInit
<1>8. CASE AddHandler BY <1>8, <1>0 DEF AddHandler
<1>9. CASE NmeaParserInitFails BY <1>9, <1>0 DEF NmeaParserInitFails
<1>10. CASE TcpTake BY <1>10, <1>0 DEF TcpTake
<1>11. CASE UNCHANGED vars BY <1>11, <1>0 DEF vars
<1> QED BY <1>1, <1>2, <1>3, <1>4, <1>5, <1>6, <1>7, <1>8, <1>9, <1>10, <1>11
  DEF Next, Main

(* A position is published only when the end of every kind of statement has *)
(* been received undamaged since the one before: neither a garbled, torn or *)
(* joined line nor an unfinished group of satellites is counted in          *)
(* parsed_statement (nmea_parser.c 582-631).  It is assumed that a line     *)
(* that lost its head is never read right after a line with the same        *)
(* checksum, which the decoder, that clears its XOR only at a '$', accepts. *)
THEOREM GpsCompleteUpdate == Spec /\ []Apart => []CompleteUpdate
<1>1. Init => Complete
  <2> SUFFICES ASSUME Init PROVE Complete OBVIOUS
  <2>1. loop = <<>> /\ dec.parsed_statement = {} BY DEF Init, FreshDecoder
  <2>2. ToSet(<<>>) = {} BY DEF ToSet
  <2> QED BY <2>1, <2>2 DEF Complete, CompleteUpdate, Updates
<1>2. TypeOK /\ Complete /\ Apart /\ [Next]_vars => Complete' BY CompleteStep
<1>3. Complete => CompleteUpdate BY DEF Complete
<1> QED BY <1>1, <1>2, <1>3, GpsTypes, PTL DEF Spec

-------------------------------------------------------------------------------
(* What is stored while nothing is lost or damaged.                         *)

\* Below n, the satellites have been received.
GoodSats(g, n, epochs) ==
  \A i \in 0..(MaxView - 1) :
    i < n => LET v == g.sats_desc_in_view[i] IN v.ok /\ v.e \in epochs

\* b is the line the receiver writes after a: a group of GSV is not interrupted,
\* RMC comes after TXT.
Follows(a, b) ==
  /\ b.part > 1 => a.s = "GSV" /\ a.part = b.part - 1 /\ a.of = b.of /\ a.sats = b.sats
  /\ a.part < a.of => b.part > 1
  /\ a.s = "TXT" => b.s = "RMC"

LastRead == dec.item_str.ln     \* after its end, the decoder still has the checksum
Chained ==
  /\ \A i \in DOMAIN uart : ~uart[i].gap =>
       Follows(IF i = 1 THEN LastRead ELSE uart[i - 1].ln, uart[i].ln)
  /\ ~rx.gap => Follows(IF uart = <<>> THEN LastRead ELSE uart[Len(uart)].ln, Current)

\* The fields of the statements counted and not overwritten since, and the
\* satellites of the group of ln.
FieldsGood(counted, over, g, epochs) ==
  \A s \in counted : \A x \in FieldsOf(s) \ over : AsReceived(g.f[x], x, epochs)
SatsGood(ln, g, w) ==
  /\ ln.part < ln.of => w.sats = {ln.sats} /\ GoodSats(g, 4 * ln.part, w.epochs)
  /\ ~(ln.part < ln.of) => \A v \in w.sats : GoodSats(g, v, w.epochs)

\* Of the fields of RMC, none stays overwritten once the line after the TXT is read.
OverGood(ln, over) == over \cap FieldsOf("RMC") = {} \/ ln.s = "TXT"

Clean ==
  /\ dec.parsed_statement # Statements
  /\ Chained
  /\ window.clean =>
       /\ FieldsGood(dec.parsed_statement, window.over, dec.parent, window.epochs)
       /\ OverGood(LastRead, window.over)
       /\ SatsGood(LastRead, dec.parent, window)
  /\ CleanUpdate

Setters(s, x) == {k \in DOMAIN Fields[s] : Fields[s][k] = x}

LEMMA FieldsLength ==
  ASSUME NEW ln, ln.s \in DOMAIN Fields, IsSent(ln)
  PROVE  DOMAIN Fields[ln.s] \subseteq 1..ItemCount(ln)
<1>1. CASE ln.s = "GGA" BY <1>1, FieldsTable DEF GgaFields, ItemCount
<1>2. CASE ln.s = "GSA" BY <1>2, FieldsTable DEF GsaFields, ItemCount
<1>3. CASE ln.s = "RMC" BY <1>3, FieldsTable DEF RmcFields, ItemCount
<1>4. CASE ln.s = "GLL" BY <1>4, FieldsTable DEF GllFields, ItemCount
<1>5. CASE ln.s = "VTG" BY <1>5, FieldsTable DEF VtgFields, ItemCount
<1> QED BY <1>1, <1>2, <1>3, <1>4, <1>5, FieldsTable

(* A field that is adjusted is named by two items of the statement.         *)
LEMMA AdjustedOnce ==
  ASSUME NEW s \in DOMAIN Fields, NEW x \in Adjustable, Setters(s, x) # {}
  PROVE  \E a, b \in 1..12 : a < b /\ Setters(s, x) = {a, b}
<1>1. CASE s = "GGA"
  <2>1. DOMAIN Fields[s] = 1..11 /\ Fields[s] = GgaFields
    BY <1>1, FieldsTable DEF GgaFields
  <2>2. CASE x = "latitude"
    <3>1. Setters(s, x) = {2, 3} BY <2>1, <2>2 DEF Setters, GgaFields
    <3> QED BY <3>1
  <2>3. CASE x = "longitude"
    <3>1. Setters(s, x) = {4, 5} BY <2>1, <2>3 DEF Setters, GgaFields
    <3> QED BY <3>1
  <2>4. CASE x = "altitude"
    <3>1. Setters(s, x) = {9, 11} BY <2>1, <2>4 DEF Setters, GgaFields
    <3> QED BY <3>1
  <2> QED BY <2>2, <2>3, <2>4 DEF Adjustable
<1>2. CASE s = "GSA"
  <2>1. DOMAIN Fields[s] = 1..17 /\ Fields[s] = GsaFields
    BY <1>2, FieldsTable DEF GsaFields
  <2>2. ASSUME NEW k \in 1..17
        PROVE GsaFields[k] \in {"none", "fix_mode", "sats_id_in_use", "dop_p", "dop_h", "dop_v"}
    BY DEF GsaFields
  <2>3. x \notin {"none", "fix_mode", "sats_id_in_use", "dop_p", "dop_h", "dop_v"}
    BY DEF Adjustable
  <2> QED BY <2>1, <2>2, <2>3 DEF Setters
<1>3. CASE s = "RMC"
  <2>1. DOMAIN Fields[s] = 1..10 /\ Fields[s] = RmcFields
    BY <1>3, FieldsTable DEF RmcFields
  <2>2. CASE x = "latitude"
    <3>1. Setters(s, x) = {3, 4} BY <2>1, <2>2 DEF Setters, RmcFields
    <3> QED BY <3>1
  <2>3. CASE x = "longitude"
    <3>1. Setters(s, x) = {5, 6} BY <2>1, <2>3 DEF Setters, RmcFields
    <3> QED BY <3>1
  <2>4. CASE x = "altitude"
    <3>1. Setters(s, x) = {} BY <2>1, <2>4 DEF Setters, RmcFields
    <3> QED BY <3>1
  <2> QED BY <2>2, <2>3, <2>4 DEF Adjustable
<1>4. CASE s = "GLL"
  <2>1. DOMAIN Fields[s] = 1..6 /\ Fields[s] = GllFields
    BY <1>4, FieldsTable DEF GllFields
  <2>2. CASE x = "latitude"
    <3>1. Setters(s, x) = {1, 2} BY <2>1, <2>2 DEF Setters, GllFields
    <3> QED BY <3>1
  <2>3. CASE x = "longitude"
    <3>1. Setters(s, x) = {3, 4} BY <2>1, <2>3 DEF Setters, GllFields
    <3> QED BY <3>1
  <2>4. CASE x = "altitude"
    <3>1. Setters(s, x) = {} BY <2>1, <2>4 DEF Setters, GllFields
    <3> QED BY <3>1
  <2> QED BY <2>2, <2>3, <2>4 DEF Adjustable
<1>5. CASE s = "VTG"
  <2>1. DOMAIN Fields[s] = 1..7 /\ Fields[s] = VtgFields
    BY <1>5, FieldsTable DEF VtgFields
  <2>2. Setters(s, x) = {} BY <2>1 DEF Setters, VtgFields, Adjustable
  <2> QED BY <2>2
<1> QED BY <1>1, <1>2, <1>3, <1>4, <1>5, FieldsTable

(* Every field is set by some statement.                                    *)
LEMMA EveryField ==
  ASSUME NEW x \in FieldNames
  PROVE  \E s \in Statements : x \in FieldsOf(s)
<1>1. CASE x = "sats_in_view"
  <2>1. "GSV" \in Statements /\ x \in FieldsOf("GSV") BY <1>1, StatementsAre DEF FieldsOf
  <2> QED BY <2>1
<1>2. CASE x \in {"tim", "latitude", "longitude", "fix", "sats_in_use", "dop_h", "altitude"}
  <2>1. \E k \in 1..11 : GgaFields[k] = x
    <3>1. /\ GgaFields[1] = "tim" /\ GgaFields[2] = "latitude"
          /\ GgaFields[4] = "longitude" /\ GgaFields[6] = "fix"
          /\ GgaFields[7] = "sats_in_use" /\ GgaFields[8] = "dop_h"
          /\ GgaFields[9] = "altitude"
      BY DEF GgaFields
    <3> QED BY <3>1, <1>2
  <2>2. DOMAIN GgaFields = 1..11 BY DEF GgaFields
  <2>3. x \in FieldsOf("GGA") BY <2>1, <2>2, <1>2, FieldsTable DEF FieldsOf
  <2> QED BY <2>3, StatementsAre
<1>3. CASE x \in {"dop_p", "dop_v", "fix_mode", "sats_id_in_use"}
  <2>1. \E k \in 1..17 : GsaFields[k] = x
    <3>1. /\ GsaFields[2] = "fix_mode" /\ GsaFields[3] = "sats_id_in_use"
          /\ GsaFields[15] = "dop_p" /\ GsaFields[17] = "dop_v"
      BY DEF GsaFields
    <3> QED BY <3>1, <1>3
  <2>2. DOMAIN GsaFields = 1..17 BY DEF GsaFields
  <2>3. x \in FieldsOf("GSA") BY <2>1, <2>2, <1>3, FieldsTable DEF FieldsOf
  <2> QED BY <2>3, StatementsAre
<1>4. CASE x \in {"valid", "speed", "cog", "date", "variation"}
  <2>1. \E k \in 1..10 : RmcFields[k] = x
    <3>1. /\ RmcFields[2] = "valid" /\ RmcFields[7] = "speed" /\ RmcFields[8] = "cog"
          /\ RmcFields[9] = "date" /\ RmcFields[10] = "variation"
      BY DEF RmcFields
    <3> QED BY <3>1, <1>4
  <2>2. DOMAIN RmcFields = 1..10 BY DEF RmcFields
  <2>3. x \in FieldsOf("RMC") BY <2>1, <2>2, <1>4, FieldsTable DEF FieldsOf
  <2> QED BY <2>3, StatementsAre
<1> QED BY <1>1, <1>2, <1>3, <1>4 DEF FieldNames

(* One item of a statement: the field it names, and no other one.           *)
LEMMA ItemStored ==
  ASSUME NEW d \in Decoders, d.cur_statement \in DOMAIN Fields, NEW x \in FieldNames
  PROVE  LET s == d.cur_statement
             k == d.item_num
             q == ParseFields(d).parent
         IN  /\ q.sats_desc_in_view = d.parent.sats_desc_in_view
             /\ k \notin Setters(s, x) => q.f[x] = d.parent.f[x]
             /\ k \in Setters(s, x) =>
                  q.f[x] = IF x \in Adjustable /\ \E j \in 1..(k - 1) : j \in Setters(s, x)
                           THEN Adjust(x, d.parent.f[x], d.item_str)
                           ELSE ValueOf(d.item_str)
<1> DEFINE s == d.cur_statement
           k == d.item_num
           y == Fields[s][k]
           v == IF Adjusts(s, k) THEN Adjust(y, d.parent.f[y], d.item_str)
                ELSE ValueOf(d.item_str)
<1>0. d.parent \in GpsData /\ k \in Nat BY DEF Decoders
<1>1. CASE k \notin DOMAIN Fields[s] \/ y = "none"
  <2>1. ParseFields(d) = d BY <1>1 DEF ParseFields
  <2>2. x # "none" BY DEF FieldNames
  <2>3. k \notin Setters(s, x) BY <1>1, <2>2 DEF Setters
  <2> QED BY <2>1, <2>3
<1>2. CASE ~(k \notin DOMAIN Fields[s] \/ y = "none")
  <2>1. y \in FieldNames /\ k \in 1..17 BY <1>2, FieldsType
  <2>2. ParseFields(d) = [d EXCEPT !.parent.f[y] = v] BY <1>2 DEF ParseFields
  <2>3. Adjusts(s, k) <=> y \in Adjustable /\ \E j \in 1..(k - 1) : j \in Setters(s, y)
    <3>1. \A j \in 1..(k - 1) : j \in DOMAIN Fields[s]
      <4>1. CASE s = "GGA" BY <4>1, <1>2, <2>1, FieldsTable DEF GgaFields
      <4>2. CASE s = "GSA" BY <4>2, <1>2, <2>1, FieldsTable DEF GsaFields
      <4>3. CASE s = "RMC" BY <4>3, <1>2, <2>1, FieldsTable DEF RmcFields
      <4>4. CASE s = "GLL" BY <4>4, <1>2, <2>1, FieldsTable DEF GllFields
      <4>5. CASE s = "VTG" BY <4>5, <1>2, <2>1, FieldsTable DEF VtgFields
      <4> QED BY <4>1, <4>2, <4>3, <4>4, <4>5, FieldsTable
    <3> QED BY <3>1 DEF Adjusts, Setters
  <2> HIDE DEF v
  <2> DEFINE g == [d.parent.f EXCEPT ![y] = v]
             h == [d.parent EXCEPT !.f = g]
  <2>4. ParseFields(d) = [d EXCEPT !.parent = h] BY <2>2
  <2>5. d.parent.f \in [FieldNames -> Values] BY <1>0 DEF GpsData
  <2>6. g[x] = IF x = y THEN v ELSE d.parent.f[x] BY <2>5
  <2> HIDE DEF g
  <2>7. h.f = g /\ h.sats_desc_in_view = d.parent.sats_desc_in_view
    BY <1>0 DEF GpsData
  <2> HIDE DEF h
  <2>8. ParseFields(d).parent = h BY <2>4 DEF Decoders
  <2>9. k \in Setters(s, x) <=> x = y BY <1>2 DEF Setters
  <2>10. CASE x = y
    <3>1. ParseFields(d).parent.f[x] = v BY <2>6, <2>7, <2>8, <2>10
    <3> HIDE DEF y, s, k
    <3> QED BY <3>1, <2>3, <2>7, <2>8, <2>9, <2>10 DEF v, s, k
  <2>11. CASE x # y BY <2>6, <2>7, <2>8, <2>9, <2>11
  <2> QED BY <2>10, <2>11
<1> QED BY <1>1, <1>2

LEMMA Adjusted ==
  ASSUME NEW x \in Adjustable, NEW v \in Values, v.ok, v.m = 0, NEW y, y.ok
  PROVE  Adjust(x, v, y).ok /\ Adjust(x, v, y).e = v.e /\ Adjust(x, v, y).m = 1
<1>1. CASE x = "altitude"
  <2> DEFINE b == v.ok /\ y.ok
  <2>1. Adjust(x, v, y) = [v EXCEPT !.m = 1, !.ok = b] BY <1>1 DEF Adjust
  <2>2. b OBVIOUS
  <2> HIDE DEF b
  <2> QED BY <2>1, <2>2 DEF Values
<1>2. CASE x # "altitude"
  <2>1. Adjust(x, v, y) = [v EXCEPT !.m = 1] BY <1>2 DEF Adjust
  <2> QED BY <2>1 DEF Values
<1> QED BY <1>1, <1>2

\* t[k] is the decoder at item k of a line, each item stored and nothing else.
ItemsStored(t, ln, d) ==
  /\ \A k \in 0..ItemCount(ln) : AtItem(t[k], ln, k)
  /\ t[0].parent = d.parent
  /\ \A k \in 1..ItemCount(ln) : t[k].parent = ParseItem(t[k - 1]).parent

\* What a line of GSV makes of the position.
SatsStored(ln, g, h) ==
  LET lo == 4 * (ln.part - 1)
  IN  /\ \A x \in FieldNames :
           IF x = "sats_in_view" THEN AsReceived(h.f[x], x, {ln.e})
           ELSE h.f[x] = g.f[x]
      /\ \A i \in 0..(MaxView - 1) :
           IF lo <= i /\ i < lo + Described(ln)
           THEN h.sats_desc_in_view[i].ok /\ h.sats_desc_in_view[i].e = ln.e
           ELSE h.sats_desc_in_view[i] = g.sats_desc_in_view[i]

(* A whole line sets the fields of its statement, each to a value of the    *)
(* line with its sign and its second part, and no other field.              *)
LEMMA LineFields ==
  ASSUME NEW ln, IsSent(ln), ln.s \in DOMAIN Fields, NEW d \in Decoders, NEW t,
         ItemsStored(t, ln, d)
  PROVE  LET q == ParseItem(t[ItemCount(ln)]).parent
         IN  /\ q.sats_desc_in_view = d.parent.sats_desc_in_view
             /\ \A x \in FieldNames :
                  IF x \in FieldsOf(ln.s) THEN AsReceived(q.f[x], x, {ln.e})
                  ELSE q.f[x] = d.parent.f[x]
<1> USE DEF ItemsStored
<1> DEFINE n == ItemCount(ln)
           s == ln.s
           Q(k) == ParseItem(t[k]).parent
<1>0. n \in 4..19 /\ ln \in LineRecords BY ItemCountBounds DEF IsSent
<1>1. Named(ln) = s /\ Named(ln) # "GSV" /\ Named(ln) # Unknown
  BY FieldsTable, StatementsAre, UnknownIsNone DEF Named
<1>2. Q(0) = d.parent
  <2>1. AtItem(t[0], ln, 0) /\ 0 \in 0..ItemCount(ln) BY <1>0
  <2> QED BY <2>1, NextItemNumbered
<1>3. ASSUME NEW k \in 1..n
      PROVE  /\ t[k] \in Decoders /\ t[k].cur_statement = s /\ t[k].item_num = k
             /\ t[k].item_str = ItemText(ln, k) /\ t[k].parent = Q(k - 1)
             /\ Q(k) = ParseFields(t[k]).parent
  <2>1. AtItem(t[k], ln, k) /\ k \in 0..ItemCount(ln) /\ k > 0 /\ k # 0 BY <1>0
  <2>2. ParseItem(t[k]) = ParseFields(t[k]) BY <2>1, <1>1, NextItemNumbered
  <2> QED BY <2>1, <2>2, <1>1 DEF AtItem
<1>4. ASSUME NEW k \in 0..n PROVE Q(k) \in GpsData
  <2>1. t[k] \in Decoders BY DEF AtItem
  <2> QED BY <2>1, ParseItemType DEF Decoders
<1>5. ASSUME NEW k \in 1..n
      PROVE  LET y == ItemText(ln, k)
             IN  y.ok /\ ValueOf(y).ok /\ ValueOf(y).e = ln.e /\ ValueOf(y).m = 0
  BY ItemTextType DEF ValueOf
<1>6. ASSUME NEW k \in 1..n, NEW x \in FieldNames
      PROVE  /\ Q(k).sats_desc_in_view = Q(k - 1).sats_desc_in_view
             /\ k \notin Setters(s, x) => Q(k).f[x] = Q(k - 1).f[x]
             /\ k \in Setters(s, x) =>
                  Q(k).f[x] = IF x \in Adjustable /\ \E j \in 1..(k - 1) : j \in Setters(s, x)
                              THEN Adjust(x, Q(k - 1).f[x], ItemText(ln, k))
                              ELSE ValueOf(ItemText(ln, k))
  <2> DEFINE a == t[k]
             Y == ItemText(ln, k)
  <2>1. /\ a \in Decoders /\ a.cur_statement = s /\ a.item_num = k
        /\ a.item_str = Y /\ a.parent = Q(k - 1)
        /\ Q(k) = ParseFields(a).parent
    BY <1>3
  <2> HIDE DEF a, Q, s, Y
  <2>2. a.cur_statement \in DOMAIN Fields BY <2>1 DEF s
  <2>3. /\ ParseFields(a).parent.sats_desc_in_view = a.parent.sats_desc_in_view
        /\ k \notin Setters(s, x) => ParseFields(a).parent.f[x] = a.parent.f[x]
        /\ k \in Setters(s, x) =>
             ParseFields(a).parent.f[x] =
               IF x \in Adjustable /\ \E j \in 1..(k - 1) : j \in Setters(s, x)
               THEN Adjust(x, a.parent.f[x], a.item_str)
               ELSE ValueOf(a.item_str)
    <3>1. \A S, K, T : S = a.cur_statement /\ K = a.item_num /\ T = a.item_str =>
            /\ ParseFields(a).parent.sats_desc_in_view = a.parent.sats_desc_in_view
            /\ K \notin Setters(S, x) => ParseFields(a).parent.f[x] = a.parent.f[x]
            /\ K \in Setters(S, x) =>
                 ParseFields(a).parent.f[x] =
                   IF x \in Adjustable /\ \E j \in 1..(K - 1) : j \in Setters(S, x)
                   THEN Adjust(x, a.parent.f[x], T)
                   ELSE ValueOf(T)
      BY <2>1, <2>2, ItemStored
    <3> QED BY <3>1, <2>1
  <2> QED BY <2>1, <2>3 DEF Y
<1>7. \A k \in Nat : k <= n => Q(k).sats_desc_in_view = d.parent.sats_desc_in_view
  <2> DEFINE S == {k \in Nat : k <= n =>
                    Q(k).sats_desc_in_view = d.parent.sats_desc_in_view}
  <2> HIDE DEF Q
  <2>1. 0 \in S BY <1>2
  <2>2. ASSUME NEW k \in S PROVE k + 1 \in S
    <3>1. CASE k + 1 <= n
      <4>1. k + 1 \in 1..n /\ (k + 1) - 1 = k /\ k <= n BY <3>1, <1>0
      <4>2. "tim" \in FieldNames BY DEF FieldNames
      <4>3. Q(k + 1).sats_desc_in_view = Q((k + 1) - 1).sats_desc_in_view BY <4>1, <4>2, <1>6
      <4> QED BY <4>1, <4>3
    <3> QED BY <3>1
  <2>3. S \in SUBSET Nat OBVIOUS
  <2> HIDE DEF S
  <2>4. \A k \in Nat : k \in S BY <2>1, <2>2, <2>3, SetInduction
  <2> QED BY <2>4 DEF S
<1>8. ASSUME NEW x \in FieldNames
      PROVE  IF x \in FieldsOf(s) THEN AsReceived(Q(n).f[x], x, {ln.e})
             ELSE Q(n).f[x] = d.parent.f[x]
  <2> DEFINE J == Setters(s, x)
             Is(k, m) == Q(k).f[x].ok /\ Q(k).f[x].e = ln.e /\ Q(k).f[x].m = m
             a == IF x \in Adjustable THEN 1 ELSE 0
  <2>1. J \subseteq 1..n BY FieldsLength DEF Setters
  <2>2. x \in FieldsOf(s) <=> J # {}
    <3>1. x # "none" /\ s # "GSV" BY <1>1 DEF FieldNames
    <3> QED BY <3>1 DEF FieldsOf, Setters
  <2>3. ASSUME NEW k \in 1..n PROVE ValueOf(ItemText(ln, k)).ok
                                     /\ ValueOf(ItemText(ln, k)).e = ln.e
                                     /\ ValueOf(ItemText(ln, k)).m = 0
                                     /\ ItemText(ln, k).ok
    BY <1>5
  <2>4. ASSUME NEW k \in 0..n PROVE Q(k).f[x] \in Values BY <1>4 DEF GpsData
  <2> HIDE DEF Q, J
  <2>5. ASSUME NEW k \in 1..n
        PROVE  /\ k \notin J => Q(k).f[x] = Q(k - 1).f[x]
               /\ k \in J =>
                    IF x \in Adjustable /\ \E j \in 1..(k - 1) : j \in J
                    THEN Is(k - 1, 0) => Is(k, 1)
                    ELSE Is(k, 0)
    <3>1. k \notin J => Q(k).f[x] = Q(k - 1).f[x] BY <1>6 DEF J
    <3>2. CASE k \in J /\ x \in Adjustable /\ \E j \in 1..(k - 1) : j \in J
      <4>1. Q(k).f[x] = Adjust(x, Q(k - 1).f[x], ItemText(ln, k)) BY <3>2, <1>6 DEF J
      <4>2. k - 1 \in 0..n BY <1>0
      <4>3. Q(k - 1).f[x] \in Values BY <4>2, <2>4
      <4> DEFINE v == Q(k - 1).f[x]
      <4> HIDE DEF v
      <4>4. v \in Values BY <4>3 DEF v
      <4>5. v.ok /\ v.m = 0 => /\ Adjust(x, v, ItemText(ln, k)).ok
                               /\ Adjust(x, v, ItemText(ln, k)).e = v.e
                               /\ Adjust(x, v, ItemText(ln, k)).m = 1
        BY <4>4, <3>2, <2>3, Adjusted
      <4> QED BY <4>1, <4>5, <3>1, <3>2 DEF v
    <3>3. CASE k \in J /\ ~(x \in Adjustable /\ \E j \in 1..(k - 1) : j \in J)
      <4>1. Q(k).f[x] = ValueOf(ItemText(ln, k)) BY <3>3, <1>6 DEF J
      <4> QED BY <4>1, <2>3, <3>3
    <3> QED BY <3>1, <3>2, <3>3
  <2>6. CASE J = {}
    <3> DEFINE S == {k \in Nat : k <= n => Q(k).f[x] = d.parent.f[x]}
    <3>1. 0 \in S BY <1>2
    <3>2. ASSUME NEW k \in S PROVE k + 1 \in S
      <4>1. CASE k + 1 <= n
        <5>1. k + 1 \in 1..n /\ (k + 1) - 1 = k /\ k <= n BY <4>1, <1>0
        <5>2. Q(k + 1).f[x] = Q((k + 1) - 1).f[x] BY <5>1, <2>5, <2>6
        <5> QED BY <5>1, <5>2
      <4> QED BY <4>1
    <3>3. S \in SUBSET Nat OBVIOUS
    <3> HIDE DEF S
    <3>4. \A k \in Nat : k \in S BY <3>1, <3>2, <3>3, SetInduction
    <3>5. n \in Nat /\ n <= n BY <1>0
    <3>6. Q(n).f[x] = d.parent.f[x] BY <3>4, <3>5 DEF S
    <3> QED BY <3>6, <2>2, <2>6
  <2>7. CASE J # {} /\ x \notin Adjustable
    <3> DEFINE S == {k \in Nat : k <= n /\ (\E j \in J : j <= k) => Is(k, 0)}
    <3>1. 0 \in S
      <4>1. \A j \in J : ~(j <= 0) BY <2>1
      <4> QED BY <4>1
    <3>2. ASSUME NEW k \in S PROVE k + 1 \in S
      <4> SUFFICES ASSUME k + 1 <= n, \E j \in J : j <= k + 1 PROVE Is(k + 1, 0)
        OBVIOUS
      <4>1. k + 1 \in 1..n /\ (k + 1) - 1 = k /\ k <= n BY <1>0
      <4>2. CASE k + 1 \in J BY <4>1, <4>2, <2>5, <2>7
      <4>3. CASE k + 1 \notin J
        <5>1. PICK j \in J : j <= k + 1 OBVIOUS
        <5>2. j # k + 1 /\ j \in Nat BY <4>3, <2>1
        <5>3. j <= k BY <5>1, <5>2
        <5>4. Is(k, 0) BY <5>3, <4>1
        <5>5. Q(k + 1).f[x] = Q((k + 1) - 1).f[x] BY <4>1, <4>3, <2>5
        <5> QED BY <5>4, <5>5, <4>1
      <4> QED BY <4>2, <4>3
    <3>3. S \in SUBSET Nat OBVIOUS
    <3> HIDE DEF S
    <3>4. \A k \in Nat : k \in S BY <3>1, <3>2, <3>3, SetInduction
    <3>5. n \in Nat /\ n <= n BY <1>0
    <3>6. \E j \in J : j <= n
      <4>1. PICK j \in J : TRUE BY <2>7
      <4>2. j \in 1..n BY <2>1
      <4> QED BY <4>2
    <3>7. Is(n, 0) BY <3>4, <3>5, <3>6 DEF S
    <3> QED BY <3>7, <2>2, <2>7 DEF AsReceived
  <2>8. CASE J # {} /\ x \in Adjustable
    <3>1. PICK a1, b1 \in 1..12 : a1 < b1 /\ J = {a1, b1}
      BY <2>8, AdjustedOnce DEF J
    <3> DEFINE S == {k \in Nat : k <= n => /\ k >= a1 /\ k < b1 => Is(k, 0)
                                           /\ k >= b1 => Is(k, 1)}
    <3>2. 0 \in S
      <4>1. ~(0 >= a1) /\ ~(0 >= b1) OBVIOUS
      <4> QED BY <4>1
    <3>3. ASSUME NEW k \in S PROVE k + 1 \in S
      <4> SUFFICES ASSUME k + 1 <= n
                   PROVE  /\ k + 1 >= a1 /\ k + 1 < b1 => Is(k + 1, 0)
                          /\ k + 1 >= b1 => Is(k + 1, 1)
        OBVIOUS
      <4>1. k + 1 \in 1..n /\ (k + 1) - 1 = k /\ k <= n BY <1>0
      <4>2. /\ k >= a1 /\ k < b1 => Is(k, 0)
            /\ k >= b1 => Is(k, 1)
        BY <4>1
      <4>3. CASE k + 1 = a1
        <5>1. ~ \E j \in 1..((k + 1) - 1) : j \in J BY <4>1, <4>3, <3>1
        <5>2. k + 1 \in J BY <4>3, <3>1
        <5>3. Is(k + 1, 0) BY <5>1, <5>2, <4>1, <2>5
        <5>4. ~(k + 1 >= b1) BY <4>3, <3>1
        <5> QED BY <5>3, <5>4
      <4>4. CASE k + 1 = b1
        <5>1. a1 \in 1..((k + 1) - 1) /\ a1 \in J BY <4>1, <4>4, <3>1
        <5>2. k + 1 \in J BY <4>4, <3>1
        <5>3. Is((k + 1) - 1, 0) => Is(k + 1, 1) BY <5>1, <5>2, <4>1, <2>5, <2>8
        <5>4. k >= a1 /\ k < b1 BY <4>4, <3>1
        <5>5. ~(k + 1 < b1) BY <4>4
        <5> QED BY <5>3, <5>4, <5>5, <4>1, <4>2
      <4>5. CASE k + 1 # a1 /\ k + 1 # b1
        <5>1. k + 1 \notin J BY <4>5, <3>1
        <5>2. Q(k + 1).f[x] = Q((k + 1) - 1).f[x] BY <5>1, <4>1, <2>5
        <5>3. /\ k + 1 >= a1 /\ k + 1 < b1 => k >= a1 /\ k < b1
              /\ k + 1 >= b1 => k >= b1
          BY <4>5
        <5> QED BY <5>2, <5>3, <4>1, <4>2
      <4> QED BY <4>3, <4>4, <4>5
    <3>4. S \in SUBSET Nat OBVIOUS
    <3> HIDE DEF S
    <3>5. \A k \in Nat : k \in S BY <3>2, <3>3, <3>4, SetInduction
    <3>6. n \in Nat /\ n <= n /\ n >= b1 BY <1>0, <2>1, <3>1
    <3>7. Is(n, 1) BY <3>5, <3>6 DEF S
    <3> QED BY <3>7, <2>2, <2>8 DEF AsReceived
  <2> QED BY <2>6, <2>7, <2>8
<1>9. Q(n).sats_desc_in_view = d.parent.sats_desc_in_view
  <2>1. n \in Nat /\ n <= n BY <1>0
  <2> QED BY <2>1, <1>7
<1> QED BY <1>8, <1>9

LEMMA DescribedBounds ==
  ASSUME NEW ln, IsSent(ln), ln.s = "GSV"
  PROVE  /\ Described(ln) \in 1..4 /\ ItemCount(ln) = 3 + 4 * Described(ln)
         /\ 4 * (ln.part - 1) + Described(ln) =
              IF ln.part < ln.of THEN 4 * ln.part ELSE ln.sats
<1>1. /\ ln.sats \in 1..16 /\ ln.of = (ln.sats + 3) \div 4 /\ ln.of \in 1..4
      /\ ln.part \in 1..ln.of
  BY DEF IsSent, Messages
<1>2. ItemCount(ln) = 3 + 4 * Described(ln) BY DEF ItemCount
<1>3. CASE ln.part < ln.of
  <2>1. Described(ln) = 4 BY <1>3 DEF Described
  <2>2. 4 * (ln.part - 1) + 4 = 4 * ln.part BY <1>1
  <2> QED BY <2>1, <2>2, <1>2, <1>3
<1>4. CASE ~(ln.part < ln.of)
  <2>1. Described(ln) = ln.sats - 4 * (ln.of - 1) BY <1>4 DEF Described
  <2>2. PICK v \in 1..16, m \in 1..4, p \in 1..4 : v = ln.sats /\ m = ln.of /\ p = ln.part
    BY <1>1
  <2>3. m = (v + 3) \div 4 /\ p = m BY <1>1, <1>4, <2>2
  <2>4. v - 4 * (m - 1) \in 1..4 /\ 4 * (p - 1) + (v - 4 * (m - 1)) = v BY <2>3
  <2> QED BY <2>1, <2>2, <2>4, <1>2, <1>4
<1> QED BY <1>3, <1>4

LEMMA GsvStored ==
  ASSUME NEW d \in Decoders
  PROVE  LET k == d.item_num
             q == ParseGsv(d).parent
         IN  /\ k \in {1, 2} => q = d.parent
             /\ k = 3 =>
                  /\ q.sats_desc_in_view = d.parent.sats_desc_in_view
                  /\ \A x \in FieldNames :
                       q.f[x] = IF x = "sats_in_view" THEN ValueOf(d.item_str)
                                ELSE d.parent.f[x]
             /\ k \in 4..19 =>
                  /\ q.f = d.parent.f
                  /\ \A i \in 0..(MaxView - 1) :
                       q.sats_desc_in_view[i] =
                         IF i = GsvIndex(d) THEN ValueOf(d.item_str)
                         ELSE d.parent.sats_desc_in_view[i]
<1> DEFINE k == d.item_num
           n == d.item_str.n
           v == ValueOf(d.item_str)
           index == GsvIndex(d)
<1>1. d.parent \in GpsData /\ d.item_str \in Texts BY DEF Decoders
<1>2. d.parent.f \in [FieldNames -> Values]
      /\ d.parent.sats_desc_in_view \in [0..(MaxView - 1) -> Values]
  BY <1>1 DEF GpsData
<1> HIDE DEF v, index
<1>3. CASE k = 1
  <2>1. ParseGsv(d) = [d EXCEPT !.sat_count = n] BY <1>3 DEF ParseGsv
  <2> QED BY <2>1, <1>3 DEF Decoders
<1>4. CASE k = 2
  <2>1. ParseGsv(d) = [d EXCEPT !.sat_num = n] BY <1>4 DEF ParseGsv
  <2> QED BY <2>1, <1>4 DEF Decoders
<1>5. CASE k = 3
  <2>1. ParseGsv(d) = [d EXCEPT !.parent.f.sats_in_view = v] BY <1>5 DEF ParseGsv, v
  <2> DEFINE g == [d.parent.f EXCEPT !.sats_in_view = v]
             h == [d.parent EXCEPT !.f = g]
  <2>2. \A x \in FieldNames : g[x] = IF x = "sats_in_view" THEN v ELSE d.parent.f[x]
    BY <1>2
  <2>3. ParseGsv(d) = [d EXCEPT !.parent = h] BY <2>1
  <2> HIDE DEF g
  <2>4. h.f = g /\ h.sats_desc_in_view = d.parent.sats_desc_in_view
    BY <1>1 DEF GpsData
  <2> HIDE DEF h
  <2>5. ParseGsv(d).parent = h BY <2>3 DEF Decoders
  <2> QED BY <2>2, <2>4, <2>5, <1>5 DEF v
<1>6. CASE k \in 4..19
  <2>0. k \notin {1, 2, 3} BY <1>6
  <2>1. CASE index < MaxView
    <3> DEFINE g == [d.parent.sats_desc_in_view EXCEPT ![index] = v]
               h == [d.parent EXCEPT !.sats_desc_in_view = g]
    <3>1. ParseGsv(d) = [d EXCEPT !.parent.sats_desc_in_view[index] = v]
      BY <1>6, <2>0, <2>1 DEF ParseGsv, v, index
    <3>2. ParseGsv(d) = [d EXCEPT !.parent = h] BY <3>1
    <3>3. \A i \in 0..(MaxView - 1) :
            g[i] = IF i = index THEN v ELSE d.parent.sats_desc_in_view[i]
      BY <1>2
    <3> HIDE DEF g
    <3>4. h.sats_desc_in_view = g /\ h.f = d.parent.f BY <1>1 DEF GpsData
    <3> HIDE DEF h
    <3>5. ParseGsv(d).parent = h BY <3>2 DEF Decoders
    <3> QED BY <3>3, <3>4, <3>5, <2>0, <1>6 DEF v, index
  <2>2. CASE ~(index < MaxView)
    <3>1. ParseGsv(d) = d BY <1>6, <2>0, <2>2 DEF ParseGsv, index
    <3>2. \A i \in 0..(MaxView - 1) : i # index BY <2>2, NmeaConstants
    <3> QED BY <3>1, <3>2, <2>0 DEF index
  <2> QED BY <2>1, <2>2
<1>7. k = 3 => k \notin {1, 2} OBVIOUS
<1>8. k \in {1, 2} => ~(k = 3) /\ k \notin 4..19 OBVIOUS
<1>9. k = 3 => k \notin 4..19 OBVIOUS
<1> QED BY <1>3, <1>4, <1>5, <1>6, <1>7, <1>8, <1>9 DEF v, index

(* A whole line of GSV stores the satellites it describes at their places   *)
(* in the group, and how many there are.                                    *)
LEMMA LineSats ==
  ASSUME NEW ln, IsSent(ln), ln.s = "GSV", NEW d \in Decoders, NEW t,
         ItemsStored(t, ln, d)
  PROVE  SatsStored(ln, d.parent, ParseItem(t[ItemCount(ln)]).parent)
<1> USE DEF ItemsStored
<1> DEFINE n == ItemCount(ln)
           lo == 4 * (ln.part - 1)
           Q(k) == ParseItem(t[k]).parent
<1>0. /\ n \in 4..19 /\ n = 3 + 4 * Described(ln) /\ Described(ln) \in 1..4
      /\ ln.part \in 1..4 /\ lo \in 0..12
  BY ItemCountBounds, DescribedBounds DEF IsSent
<1>1. Named(ln) = "GSV" /\ "GSV" # Unknown BY StatementsAre, UnknownIsNone DEF Named
<1>2. Q(0) = d.parent
  <2>1. AtItem(t[0], ln, 0) /\ 0 \in 0..ItemCount(ln) BY <1>0
  <2> QED BY <2>1, NextItemNumbered
<1>3. ASSUME NEW k \in 1..n
      PROVE  /\ t[k] \in Decoders /\ t[k].item_num = k
             /\ t[k].item_str = ItemText(ln, k) /\ t[k].parent = Q(k - 1)
             /\ Q(k) = ParseGsv(t[k]).parent
             /\ k >= 3 => t[k].sat_num = ln.part
  <2>1. AtItem(t[k], ln, k) /\ k \in 0..ItemCount(ln) /\ k > 0 /\ k # 0 BY <1>0
  <2>2. ParseItem(t[k]) = ParseGsv(t[k]) BY <2>1, <1>1, NextItemNumbered
  <2> QED BY <2>1, <2>2, <1>1 DEF AtItem
<1>5. ASSUME NEW k \in 1..n
      PROVE  LET y == ItemText(ln, k)
             IN  y.ok /\ ValueOf(y).ok /\ ValueOf(y).e = ln.e /\ ValueOf(y).m = 0
  BY ItemTextType DEF ValueOf
<1>6. ASSUME NEW k \in 4..n
      PROVE  /\ Q(k).f = Q(k - 1).f
             /\ \A i \in 0..(MaxView - 1) :
                  Q(k).sats_desc_in_view[i] =
                    IF i = lo + (k - 4) \div 4 THEN ValueOf(ItemText(ln, k))
                    ELSE Q(k - 1).sats_desc_in_view[i]
  <2> DEFINE a == t[k]
  <2>0. k \in 1..n /\ k >= 3 /\ k \in 4..19 BY <1>0
  <2>1. /\ a \in Decoders /\ a.item_num = k /\ a.item_str = ItemText(ln, k)
        /\ a.parent = Q(k - 1) /\ Q(k) = ParseGsv(a).parent /\ a.sat_num = ln.part
    BY <1>3, <2>0
  <2>2. GsvIndex(a) = lo + (k - 4) \div 4
    <3>1. GsvIndex(a) = (4 * (ln.part - 1) + (k - 4) \div 4) % 256 BY <2>1 DEF GsvIndex
    <3>2. (k - 4) \div 4 \in 0..3 BY <2>0
    <3> DEFINE j == (k - 4) \div 4
    <3> HIDE DEF j
    <3>3. PICK l \in 0..12, m \in 0..3 : l = lo /\ m = j BY <3>2, <1>0 DEF j
    <3>4. (l + m) % 256 = l + m OBVIOUS
    <3> QED BY <3>1, <3>3, <3>4 DEF j
  <2> HIDE DEF a, Q
  <2>3. /\ ParseGsv(a).parent.f = a.parent.f
        /\ \A i \in 0..(MaxView - 1) :
             ParseGsv(a).parent.sats_desc_in_view[i] =
               IF i = GsvIndex(a) THEN ValueOf(a.item_str)
               ELSE a.parent.sats_desc_in_view[i]
    <3>1. a.item_num \in 4..19 BY <2>0, <2>1
    <3> QED BY <3>1, <2>1, GsvStored
  <2> QED BY <2>1, <2>2, <2>3
<1>7. ASSUME NEW k \in 1..2 PROVE Q(k) = Q(k - 1)
  <2>1. k \in 1..n /\ k \in {1, 2} BY <1>0
  <2> QED BY <2>1, <1>3, GsvStored
<1>8. /\ Q(3).sats_desc_in_view = d.parent.sats_desc_in_view
      /\ \A x \in FieldNames : IF x = "sats_in_view" THEN AsReceived(Q(3).f[x], x, {ln.e})
                               ELSE Q(3).f[x] = d.parent.f[x]
  <2>1. Q(2) = d.parent
    <3>1. 1 \in 1..2 /\ 2 \in 1..2 /\ 1 - 1 = 0 /\ 2 - 1 = 1 OBVIOUS
    <3> HIDE DEF Q
    <3>2. Q(1) = Q(1 - 1) /\ Q(2) = Q(2 - 1) BY <3>1, <1>7
    <3> QED BY <3>1, <3>2, <1>2
  <2>2. 3 \in 1..n /\ 3 - 1 = 2 BY <1>0
  <2> DEFINE a == t[3]
  <2>3. /\ a \in Decoders /\ a.item_num = 3 /\ a.item_str = ItemText(ln, 3)
        /\ a.parent = Q(3 - 1) /\ Q(3) = ParseGsv(a).parent
    BY <2>2, <1>3
  <2> HIDE DEF a, Q
  <2>4. /\ ParseGsv(a).parent.sats_desc_in_view = a.parent.sats_desc_in_view
        /\ \A x \in FieldNames :
             ParseGsv(a).parent.f[x] =
               IF x = "sats_in_view" THEN ValueOf(a.item_str) ELSE a.parent.f[x]
    BY <2>3, GsvStored
  <2>5. "sats_in_view" \notin Adjustable BY DEF Adjustable
  <2>6. ValueOf(ItemText(ln, 3)).ok /\ ValueOf(ItemText(ln, 3)).e = ln.e
        /\ ValueOf(ItemText(ln, 3)).m = 0
    BY <2>2, <1>5
  <2> QED BY <2>1, <2>2, <2>3, <2>4, <2>5, <2>6 DEF AsReceived
<1> DEFINE Stored(k) ==
             /\ Q(k).f = Q(3).f
             /\ \A i \in 0..(MaxView - 1) :
                  IF lo <= i /\ i <= lo + (k - 4) \div 4
                  THEN Q(k).sats_desc_in_view[i].ok /\ Q(k).sats_desc_in_view[i].e = ln.e
                  ELSE Q(k).sats_desc_in_view[i] = d.parent.sats_desc_in_view[i]
           S == {j \in Nat : j + 4 <= n => Stored(j + 4)}
<1> HIDE DEF Q
<1>9. 0 \in S
  <2>1. 4 \in 4..n /\ 4 - 1 = 3 /\ (4 - 4) \div 4 = 0 BY <1>0
  <2>2. /\ Q(4).f = Q(3).f
        /\ \A i \in 0..(MaxView - 1) :
             Q(4).sats_desc_in_view[i] =
               IF i = lo THEN ValueOf(ItemText(ln, 4)) ELSE Q(3).sats_desc_in_view[i]
    <3>1. lo + 0 = lo BY <1>0
    <3> QED BY <3>1, <2>1, <1>6
  <2>3. ValueOf(ItemText(ln, 4)).ok /\ ValueOf(ItemText(ln, 4)).e = ln.e
    <3>1. 4 \in 1..n BY <1>0
    <3> QED BY <3>1, <1>5
  <2>4. \A i \in 0..(MaxView - 1) : (lo <= i /\ i <= lo + (4 - 4) \div 4) <=> i = lo
    BY <2>1, <1>0
  <2>5. Stored(4) BY <2>2, <2>3, <2>4, <1>8
  <2>6. 0 + 4 = 4 OBVIOUS
  <2> HIDE DEF Stored
  <2> QED BY <2>5, <2>6
<1>10. ASSUME NEW j \in S PROVE j + 1 \in S
  <2> SUFFICES ASSUME (j + 1) + 4 <= n PROVE Stored((j + 1) + 4) OBVIOUS
  <2>1. PICK k \in 4..18 : k = j + 4 /\ k + 1 = (j + 1) + 4
    <3>1. j \in Nat /\ n \in Nat /\ n <= 19 /\ (j + 1) + 4 <= n BY <1>0
    <3>2. j + 4 \in 4..18 /\ (j + 4) + 1 = (j + 1) + 4 BY ONLY <3>1
    <3> QED BY ONLY <3>2
  <2>2. k <= n /\ k + 1 \in 4..n /\ (k + 1) - 1 = k /\ k + 1 \in 1..n /\ j + 4 <= n
    BY <2>1, <1>0
  <2>3. Stored(k) BY <2>1, <2>2
  <2> DEFINE a == (k - 4) \div 4
             b == ((k + 1) - 4) \div 4
             N == Q(k + 1).sats_desc_in_view
             O == Q(k).sats_desc_in_view
             v == ValueOf(ItemText(ln, k + 1))
  <2>4. a \in 0..3 /\ b \in 0..3 /\ (b = a \/ b = a + 1) OBVIOUS
  <2>5. Q(k + 1).f = Q(k).f
        /\ \A i \in 0..(MaxView - 1) : N[i] = IF i = lo + b THEN v ELSE O[i]
    BY <2>2, <1>6
  <2>6. v.ok /\ v.e = ln.e BY <2>2, <1>5
  <2>7. Q(k).f = Q(3).f /\ \A i \in 0..(MaxView - 1) :
          IF lo <= i /\ i <= lo + a THEN O[i].ok /\ O[i].e = ln.e
          ELSE O[i] = d.parent.sats_desc_in_view[i]
    BY <2>3
  <2> HIDE DEF a, b, N, O, v, lo
  <2>8. ASSUME NEW i \in 0..(MaxView - 1)
        PROVE  IF lo <= i /\ i <= lo + b THEN N[i].ok /\ N[i].e = ln.e
               ELSE N[i] = d.parent.sats_desc_in_view[i]
    <3>1. i \in Nat /\ lo \in Nat BY <1>0, NmeaConstants
    <3>2. CASE i = lo + b
      <4>1. lo <= i /\ i <= lo + b BY <3>1, <3>2, <2>4
      <4> QED BY <4>1, <3>2, <2>5, <2>6
    <3>3. CASE i # lo + b
      <4>1. (lo <= i /\ i <= lo + b) <=> (lo <= i /\ i <= lo + a)
        <5>1. CASE b = a BY <5>1
        <5>2. CASE b = a + 1 BY <5>2, <3>1, <3>3, <2>4
        <5> QED BY <5>1, <5>2, <2>4
      <4>2. N[i] = O[i] BY <3>3, <2>5
      <4> QED BY <4>1, <4>2, <2>7
    <3> QED BY <3>2, <3>3
  <2>9. Stored(k + 1) BY <2>5, <2>7, <2>8 DEF N, b, lo
  <2> HIDE DEF Stored
  <2> QED BY <2>9, <2>1
<1>11. S \in SUBSET Nat OBVIOUS
<1>12. Stored(n)
  <2> DEFINE j == n - 4
  <2>1. j \in Nat /\ j + 4 = n /\ j + 4 <= n BY <1>0
  <2> HIDE DEF S, j
  <2>2. \A i \in Nat : i \in S BY <1>9, <1>10, <1>11, SetInduction
  <2>3. j \in S BY <2>1, <2>2
  <2>4. Stored(j + 4) BY <2>1, <2>3 DEF S
  <2> HIDE DEF Stored
  <2> QED BY <2>1, <2>4
<1>13. \A i \in 0..(MaxView - 1) :
         (i <= lo + (n - 4) \div 4) <=> (i < lo + Described(ln))
  <2>1. PICK m \in 1..4 : m = Described(ln) BY <1>0
  <2>2. n = 3 + 4 * m BY <2>1, <1>0
  <2>3. (n - 4) \div 4 = m - 1
    <3>1. ((3 + 4 * m) - 4) \div 4 = m - 1 OBVIOUS
    <3> QED BY <3>1, <2>2
  <2> HIDE DEF lo
  <2> SUFFICES ASSUME NEW i \in 0..(MaxView - 1)
               PROVE  (i <= lo + (m - 1)) <=> (i < lo + m)
    BY <2>1, <2>3
  <2>4. i \in Int /\ lo \in Int BY <1>0, NmeaConstants
  <2> QED BY <2>4
<1> QED
  <2>1. \A x \in FieldNames : IF x = "sats_in_view" THEN AsReceived(Q(n).f[x], x, {ln.e})
                             ELSE Q(n).f[x] = d.parent.f[x]
    BY <1>8, <1>12
  <2>2. \A i \in 0..(MaxView - 1) :
          IF lo <= i /\ i < lo + Described(ln)
          THEN Q(n).sats_desc_in_view[i].ok /\ Q(n).sats_desc_in_view[i].e = ln.e
          ELSE Q(n).sats_desc_in_view[i] = d.parent.sats_desc_in_view[i]
    <3> HIDE DEF lo, n
    <3> QED BY <1>12, <1>13
  <2> QED BY <2>1, <2>2 DEF Q, SatsStored

(* The receiver writes a group of GSV without interruption.                 *)
LEMMA NextFollows ==
  ASSUME TypeOK, NEW gap \in BOOLEAN, Advance(gap)
  PROVE  Follows(Current, Current')
<1> DEFINE L(e, i) == LineOf(e, i)
           M(e) == Messages(Sats(e))
<1>1. rx \in [e : 0..(Epochs - 1), i : Nat, gap : BOOLEAN]
      /\ rx.i \in 1..Len(Group(Sats(rx.e)))
  BY DEF TypeOK
<1>2. rx' \in [e : 0..(Epochs - 1), i : Nat, gap : BOOLEAN]
      /\ rx'.i \in 1..Len(Group(Sats(rx'.e)))
  BY AdvanceType
<1>3. ASSUME NEW e \in 0..(Epochs - 1), NEW i \in 1..Len(Group(Sats(e)))
      PROVE  /\ M(e) \in 1..4 /\ Len(Group(Sats(e))) = 6 + M(e)
             /\ L(e, i).s = "GSV" <=> i \in 5..(4 + M(e))
             /\ i \in 5..(4 + M(e)) => L(e, i).part = i - 4 /\ L(e, i).of = M(e)
             /\ i \notin 5..(4 + M(e)) => L(e, i).part = 0 /\ L(e, i).of = 0
             /\ L(e, i).sats = Sats(e)
             /\ i = 1 => L(e, i).s = "RMC"
             /\ L(e, i).s = "TXT" => i = 6 + M(e)
  <2>1. e \in Nat BY GpsConstants
  <2>2. Sats(e) \in 1..16 BY SatsType
  <2>3. M(e) \in 1..4 BY <2>2, MessagesBounds
  <2>4. Len(Group(Sats(e))) = 6 + M(e) BY <2>2, GroupFacts
  <2>5. /\ IsSent(L(e, i)) /\ L(e, i).sats = Sats(e)
        /\ L(e, i).s = "GSV" <=> i \in 5..(4 + M(e))
        /\ i \in 5..(4 + M(e)) => L(e, i).part = i - 4
    BY <2>1, LineOfFacts
  <2>6. L(e, i).s = "GSV" => L(e, i).of = M(e) BY <2>5 DEF IsSent
  <2>7. L(e, i).s # "GSV" => L(e, i).part = 0 /\ L(e, i).of = 0 BY <2>5 DEF IsSent
  <2>8. (i = 1 => L(e, i).s = "RMC") /\ (L(e, i).s = "TXT" => i = 6 + M(e))
    <3>1. L(e, i).s = Group(Sats(e))[i].s
      <4> DEFINE g == Group(Sats(e))[i]
      <4>1. g \in LineRecords BY <2>2, GroupFacts
      <4>2. L(e, i) = [g EXCEPT !.id = 16 * e + i, !.e = e, !.sats = Sats(e),
                                !.fix = e \in FixEpochs]
        BY DEF LineOf
      <4> HIDE DEF g, L
      <4> QED BY <4>1, <4>2 DEF LineRecords, g
    <3> HIDE DEF L
    <3>2. /\ i = 1 => Group(Sats(e))[i].s = "RMC"
          /\ Group(Sats(e))[i].s = "TXT" => i = Len(Group(Sats(e)))
      BY <2>2, GroupFacts
    <3> HIDE DEF M
    <3> QED BY <3>1, <3>2, <2>4
  <2> HIDE DEF L, M
  <2> QED BY <2>3, <2>4, <2>5, <2>6, <2>7, <2>8
<1>4. Current = L(rx.e, rx.i) /\ Current' = L(rx'.e, rx'.i) BY DEF Current
<1> HIDE DEF L, M
<1> DEFINE e == rx.e
           i == rx.i
           f == rx'.e
           j == rx'.i
<1>5. e \in 0..(Epochs - 1) /\ f \in 0..(Epochs - 1)
      /\ i \in 1..Len(Group(Sats(e))) /\ j \in 1..Len(Group(Sats(f)))
  BY <1>1, <1>2
<1>6. \/ i < Len(Group(Sats(e))) /\ f = e /\ j = i + 1
      \/ i = Len(Group(Sats(e))) /\ j = 1
  <2>1. CASE i < Len(Group(Sats(e)))
    <3>1. rx' = [rx EXCEPT !.i = rx.i + 1, !.gap = gap] BY <2>1 DEF Advance
    <3> QED BY <3>1, <2>1, <1>1
  <2>2. CASE ~(i < Len(Group(Sats(e))))
    <3>1. rx' = [e |-> (rx.e + 1) % Epochs, i |-> 1, gap |-> gap] BY <2>2 DEF Advance
    <3>2. Len(Group(Sats(e))) \in 7..10 BY SatsType
    <3> DEFINE n == Len(Group(Sats(e)))
    <3> HIDE DEF n
    <3>3. n \in 7..10 /\ i \in 1..n /\ ~(i < n) BY <3>2, <2>2, <1>5 DEF n
    <3>4. i = n BY <3>3
    <3>5. rx'.i = 1 BY <3>1
    <3> QED BY <3>4, <3>5 DEF n
  <2> QED BY <2>1, <2>2
<1>7. /\ M(e) \in 1..4 /\ Len(Group(Sats(e))) = 6 + M(e)
      /\ L(e, i).s = "GSV" <=> i \in 5..(4 + M(e))
      /\ i \in 5..(4 + M(e)) => L(e, i).part = i - 4 /\ L(e, i).of = M(e)
      /\ i \notin 5..(4 + M(e)) => L(e, i).part = 0 /\ L(e, i).of = 0
      /\ L(e, i).sats = Sats(e)
      /\ L(e, i).s = "TXT" => i = Len(Group(Sats(e)))
  BY <1>3, <1>5
<1>8. /\ M(f) \in 1..4
      /\ L(f, j).s = "GSV" <=> j \in 5..(4 + M(f))
      /\ j \in 5..(4 + M(f)) => L(f, j).part = j - 4 /\ L(f, j).of = M(f)
      /\ j \notin 5..(4 + M(f)) => L(f, j).part = 0 /\ L(f, j).of = 0
      /\ L(f, j).sats = Sats(f)
      /\ j = 1 => L(f, j).s = "RMC"
  BY <1>3, <1>5
<1> HIDE DEF e, i, f, j
<1>9. i \in Nat /\ j \in Nat BY <1>1, <1>2 DEF i, j
<1>10. Follows(L(e, i), L(f, j))
  <2>1. CASE i < Len(Group(Sats(e))) /\ f = e /\ j = i + 1
    <3>1. ASSUME L(f, j).part > 1
          PROVE  /\ L(e, i).s = "GSV" /\ L(e, i).part = L(f, j).part - 1
                 /\ L(e, i).of = L(f, j).of /\ L(e, i).sats = L(f, j).sats
      <4>1. j \in 5..(4 + M(f)) /\ L(f, j).part = j - 4 BY <3>1, <1>8
      <4>2. i \in 5..(4 + M(e)) /\ j - 4 > 1 /\ i - 4 = (j - 4) - 1
        BY <4>1, <3>1, <2>1, <1>7, <1>9
      <4> QED BY <4>1, <4>2, <2>1, <1>7, <1>8
    <3>2. ASSUME L(e, i).part < L(e, i).of PROVE L(f, j).part > 1
      <4>1. i \in 5..(4 + M(e)) /\ L(e, i).part = i - 4 /\ L(e, i).of = M(e)
        BY <3>2, <1>7
      <4>2. i - 4 < M(e) BY <4>1, <3>2
      <4>3. j \in 5..(4 + M(f)) /\ j - 4 > 1 BY <4>1, <4>2, <2>1, <1>7, <1>9
      <4> QED BY <4>3, <1>8
    <3>3. L(e, i).s # "TXT" BY <2>1, <1>7
    <3> QED BY <3>1, <3>2, <3>3 DEF Follows
  <2>2. CASE i = Len(Group(Sats(e))) /\ j = 1
    <3>1. j \notin 5..(4 + M(f)) BY <2>2, <1>8
    <3>2. i \notin 5..(4 + M(e)) BY <2>2, <1>7
    <3>3. L(f, j).part = 0 /\ L(e, i).part = 0 /\ L(e, i).of = 0
      BY <3>1, <3>2, <1>7, <1>8
    <3>4. L(f, j).s = "RMC" BY <2>2, <1>8
    <3> QED BY <3>3, <3>4 DEF Follows
  <2> QED BY <2>1, <2>2, <1>6 DEF e, i, f, j
<1> QED BY <1>4, <1>10 DEF e, i, f, j

\* What a whole line makes of the position.
LineStored(ln, g, h) ==
  /\ \A x \in FieldNames :
       IF ln.s \in Statements /\ x \in FieldsOf(ln.s) THEN AsReceived(h.f[x], x, {ln.e})
       ELSE h.f[x] = g.f[x] \/ (ln.s = "TXT" /\ x \in Reached(TextLength))
  /\ \A i \in 0..(MaxView - 1) :
       LET v == h.sats_desc_in_view[i]
       IN  IF /\ ln.s = "GSV" /\ 4 * (ln.part - 1) <= i
              /\ i < 4 * (ln.part - 1) + Described(ln)
           THEN v.ok /\ v.e = ln.e
           ELSE v = g.sats_desc_in_view[i]

LEMMA WholeLine ==
  ASSUME NEW p \in Pieces, p.damage.kind = "whole", NEW d \in Decoders,
         NEW t, Items(t, p, d)
  PROVE  LineStored(p.ln, d.parent, AtReturn(p, t[LastItem(p)]).parent)
<1> DEFINE ln == p.ln
           n == ItemCount(ln)
           q == ParseItem(t[n]).parent
<1>1. /\ LastItem(p) = n
      /\ \A k \in 0..n : AtItem(t[k], ln, k)
      /\ t[0].parent = d.parent
      /\ \A k \in 1..n : t[k].parent = Kept(ln, k, ParseItem(t[k - 1]).parent)
  BY WholeItems
<1>2. IsSent(ln) /\ n \in 4..19 BY PieceFacts
<1>3. n \in 0..n BY <1>2
<1>4. t[n] \in Decoders BY <1>1, <1>3 DEF AtItem
<1>5. AtReturn(p, t[n]).parent = q BY <1>4, ReturnStep
<1>7. ln.s # "TXT" => \A k \in 1..n : t[k].parent = ParseItem(t[k - 1]).parent
  BY <1>1 DEF Kept
<1>6. LineStored(ln, d.parent, q)
  <2>1. CASE ln.s = "GSV"
    <3>1. SatsStored(ln, d.parent, ParseItem(t[ItemCount(ln)]).parent)
      <4>1. ItemsStored(t, ln, d) BY <1>1, <1>7, <2>1 DEF ItemsStored
      <4> HIDE DEF ln
      <4>2. ln.s = "GSV" /\ IsSent(ln) BY <2>1, <1>2
      <4> QED BY ONLY d \in Decoders, <4>1, <4>2, LineSats
    <3>2. ln.s \in Statements /\ FieldsOf(ln.s) = {"sats_in_view"}
      BY <2>1, StatementsAre DEF FieldsOf
    <3> HIDE DEF q, ln
    <3> QED BY <3>1, <3>2, <2>1 DEF LineStored, SatsStored, q, n
  <2>2. CASE ln.s \in DOMAIN Fields
    <3>1. LET u == ParseItem(t[ItemCount(ln)]).parent
          IN  /\ u.sats_desc_in_view = d.parent.sats_desc_in_view
              /\ \A x \in FieldNames :
                   IF x \in FieldsOf(ln.s) THEN AsReceived(u.f[x], x, {ln.e})
                   ELSE u.f[x] = d.parent.f[x]
      <4>1. ItemsStored(t, ln, d)
        <5>1. ln.s # "TXT" BY <2>2, FieldsTable
        <5> QED BY <5>1, <1>1, <1>7 DEF ItemsStored
      <4> HIDE DEF ln
      <4>2. IsSent(ln) BY <1>2
      <4> QED BY ONLY d \in Decoders, <2>2, <4>1, <4>2, LineFields
    <3>2. ln.s \in Statements /\ ln.s # "GSV" BY <2>2, FieldsTable, StatementsAre
    <3> HIDE DEF q, ln
    <3> QED BY <3>1, <3>2 DEF LineStored, q, n
  <2>3. CASE ln.s = "TXT"
    <3>0. Named(ln) = Unknown /\ ln.s # "GSV" /\ ln.s \notin Statements
      BY <2>3, StatementsAre DEF Named
    <3>1. ASSUME NEW k \in 0..n PROVE ParseItem(t[k]).parent = t[k].parent
      <4>1. AtItem(t[k], ln, k) BY <1>1
      <4> HIDE DEF ln
      <4>2. k \in 0..ItemCount(ln) BY DEF n
      <4> QED BY <4>1, <4>2, <3>0, <1>2, NextItemNumbered
    <3>2. n = 4
      <4> HIDE DEF ln
      <4> QED BY <2>3 DEF ItemCount, n
    <3>3. ASSUME NEW k \in 1..4
          PROVE  t[k].parent = IF k = 4 THEN Spill(t[k - 1].parent, TextLength)
                               ELSE t[k - 1].parent
      <4>1. k \in 1..n /\ k - 1 \in 0..n BY <3>2
      <4>2. t[k].parent = Kept(ln, k, ParseItem(t[k - 1]).parent) BY <4>1, <1>1
      <4>3. ParseItem(t[k - 1]).parent = t[k - 1].parent BY <4>1, <3>1
      <4> QED BY <4>2, <4>3, <2>3 DEF Kept, TextItem
    <3>4. t[3].parent = d.parent
      <4>1. t[1].parent = t[0].parent
        <5>1. t[1].parent = t[1 - 1].parent BY <3>3
        <5> QED BY <5>1
      <4>2. t[2].parent = t[1].parent
        <5>1. t[2].parent = t[2 - 1].parent BY <3>3
        <5> QED BY <5>1
      <4>3. t[3].parent = t[2].parent
        <5>1. t[3].parent = t[3 - 1].parent BY <3>3
        <5> QED BY <5>1
      <4> QED BY <4>1, <4>2, <4>3, <1>1
    <3>5. t[4].parent = Spill(d.parent, TextLength)
      <4>1. t[4].parent = Spill(t[4 - 1].parent, TextLength) BY <3>3
      <4> QED BY <4>1, <3>4
    <3>6. q = Spill(d.parent, TextLength) BY <3>1, <3>2, <3>5, <1>3
    <3>7. d.parent \in GpsData /\ TextLength \in Nat /\ TextLength < 78
      BY NmeaConstants DEF Decoders
    <3>8. /\ \A x \in FieldNames : x \notin Reached(TextLength) => q.f[x] = d.parent.f[x]
          /\ q.sats_desc_in_view = d.parent.sats_desc_in_view
      BY <3>6, <3>7, SpillFacts
    <3> HIDE DEF q, ln
    <3> QED BY <3>0, <3>8, <2>3 DEF LineStored
  <2> QED BY <2>1, <2>2, <2>3, <1>2 DEF IsSent, Statements
<1> QED BY <1>1, <1>5, <1>6

\* A step of the parser task that reads a line, as the proofs use it.
LEMMA LineHandled ==
  ASSUME TypeOK, EventPattern, ReadCount # 0
  PROVE  LET p == uart[ReadCount]
         IN  /\ p \in Pieces
             /\ \E c \in Decoders :
                  /\ c.parsed_statement = dec.parsed_statement
                  /\ Counted(c) \subseteq Statements
                  /\ Apart => Counted(c) \subseteq IF Ended(p) THEN {p.ln.s} ELSE {}
                  /\ dec'.parsed_statement = IF PostsUpdate(c) THEN {}
                                             ELSE c.parsed_statement \cup Counted(c)
                  /\ dec'.parent = c.parent /\ dec'.item_str.ln = p.ln
                  /\ window' = IF PostsUpdate(c) THEN FreshWindow ELSE WindowNow
                  /\ \A u \in ToSet(loop') :
                       \/ u \in ToSet(loop)
                       \/ /\ u.kind = "GPS_UPDATE" => PostsUpdate(c)
                          /\ u.g = c.parent /\ u.w = WindowNow
                  /\ ReadCount = 1 /\ p.damage.kind = "whole" =>
                       LineStored(p.ln, dec.parent, c.parent)
<1> DEFINE p == uart[ReadCount]
           W == WindowNow
           r == Decoded
<1>1. uart \in Seq(Pieces) /\ dec \in Decoders /\ window \in Windows
      /\ loop \in Seq(Events)
  BY DEF TypeOK
<1> DEFINE Read(d, t) ==
        /\ Items(t, p, d)
        /\ \A k \in FirstItem(p)..LastItem(p) : t[k] \in Decoders
        /\ ReadCount = 1 => d = dec
        /\ Apart /\ p.damage.kind = "tail" => Headless(p.ln) \notin d.crc
        /\ LET c == AtReturn(p, t[LastItem(p)])
           IN  /\ c \in Decoders /\ c.parsed_statement = dec.parsed_statement
               /\ r = [d |-> Character(EndStatement(c), Newline),
                       posts |-> Posted(<<>>, c)]
<1>2. PICK d \in Decoders : \E t : Read(d, t)
  BY <1>1, LineRead
<1>3. PICK t : Read(d, t) BY <1>2
<1> DEFINE b == t[LastItem(p)]
           c == AtReturn(p, b)
<1>4. p \in Pieces /\ p.damage.kind # "cut" BY <1>1, LineRead
<1>5. c \in Decoders /\ c.parsed_statement = dec.parsed_statement
      /\ r = [d |-> Character(EndStatement(c), Newline), posts |-> Posted(<<>>, c)]
  BY <1>3
<1>6. Apart => Counted(c) \subseteq IF Ended(p) THEN {p.ln.s} ELSE {}
  <2> HIDE DEF p
  <2> QED BY <1>3, <1>4, CountedEnds
<1>7. c.item_pos = 2 /\ c.item_str.k = CrcItem /\ c.item_str.ln = p.ln
  <2>1. b \in Decoders
    <3>1. /\ ItemCount(p.ln) \in 4..19
          /\ p.damage.kind # "whole" => p.damage.k \in 1..4
          /\ p.damage.kind = "whole" <=> p.damage = Whole
      BY <1>4, PieceFacts
    <3>2. FirstItem(p) \in 0..4 BY <3>1 DEF FirstItem
    <3>3. LastItem(p) = ItemCount(p.ln) BY <1>4 DEF LastItem
    <3>4. LastItem(p) \in FirstItem(p)..LastItem(p) BY <3>1, <3>2, <3>3
    <3> QED BY <3>4, <1>3
  <2> HIDE DEF b, p
  <2>2. AtReturn(p, b).item_str = Text(p.ln, CrcItem, 0) /\ AtReturn(p, b).item_pos = 2
    BY <2>1, <1>4, ReturnStep
  <2> QED BY <2>2 DEF Text
<1>8. ReadCount = 1 /\ p.damage.kind = "whole" => LineStored(p.ln, dec.parent, c.parent)
  <2> SUFFICES ASSUME ReadCount = 1, p.damage.kind = "whole"
               PROVE  LineStored(p.ln, dec.parent, c.parent)
    OBVIOUS
  <2>1. d = dec /\ Items(t, p, dec) BY <1>3
  <2> HIDE DEF p
  <2> QED BY <2>1, <1>4, WholeLine
<1> HIDE DEF c
<1>9. /\ r \in Results
      /\ "GPS_UPDATE" \in ToSet(r.posts) <=> PostsUpdate(c)
      /\ r.d.parsed_statement = IF PostsUpdate(c) THEN {}
                                ELSE c.parsed_statement \cup Counted(c)
      /\ r.d.parent = c.parent /\ r.d.item_str.ln = c.item_str.ln
  BY <1>5, <1>7, LineEnding
<1>10. r.d \in Decoders /\ r.posts \in Seq(Kinds) BY <1>9, ResultFacts
<1>11. r.d.parent \in GpsData BY <1>10 DEF Decoders
<1>12. W \in Windows BY <1>1, WindowType
<1>13. /\ dec' = r.d /\ loop' = Post(r.posts, r.d.parent, W)
       /\ window' = IF "GPS_UPDATE" \in ToSet(r.posts) THEN FreshWindow ELSE W
  BY ReadFacts
<1>14. Counted(c) \subseteq Statements BY <1>5, EndType
<1> HIDE DEF r, W, p
<1>15. \A u \in ToSet(loop') :
         \/ u \in ToSet(loop)
         \/ /\ u.kind = "GPS_UPDATE" => PostsUpdate(c)
            /\ u.g = c.parent /\ u.w = W
  BY <1>1, <1>9, <1>10, <1>11, <1>12, <1>13, PostFacts
<1> QED BY <1>4, <1>5, <1>6, <1>7, <1>8, <1>9, <1>13, <1>14, <1>15 DEF W, p

LEMMA ChainReceive ==
  ASSUME TypeOK, Chained, NEW damage, Receive(damage),
         damage.kind = "lost" \/ damage \in Damages, dec' = dec
  PROVE  Chained'
<1>1. /\ damage.kind = "lost" => uart' = uart /\ rx'.gap
      /\ damage.kind # "lost" =>
           /\ Piece(damage) \in Pieces
           /\ uart' = Append(uart, Piece(damage)) /\ ~rx'.gap
  BY ReceiveType
<1>2. LastRead' = LastRead BY DEF LastRead
<1>3. CASE damage.kind = "lost" BY <1>1, <1>2, <1>3 DEF Chained
<1>4. CASE damage.kind # "lost"
  <2> DEFINE p == Piece(damage)
             n == Len(uart)
  <2>1. uart \in Seq(Pieces) /\ n \in Nat BY DEF TypeOK
  <2>2. p.ln = Current /\ p.gap = rx.gap BY DEF Piece
  <2>3. Advance(FALSE) BY <1>4 DEF Receive
  <2>4. FALSE \in BOOLEAN OBVIOUS
  <2>5. Follows(Current, Current') BY <2>3, <2>4, NextFollows
  <2>6. uart' = Append(uart, p) /\ p \in Pieces BY <1>1, <1>4
  <2> HIDE DEF p
  <2>7. /\ Len(uart') = n + 1 /\ DOMAIN uart' = 1..(n + 1)
        /\ uart'[n + 1] = p /\ \A i \in 1..n : uart'[i] = uart[i]
    BY <2>1, <2>6
  <2>8. ASSUME NEW i \in 1..(n + 1), ~uart'[i].gap
        PROVE  Follows(IF i = 1 THEN LastRead' ELSE uart'[i - 1].ln, uart'[i].ln)
    <3>1. CASE i = n + 1
      <4>1. ~rx.gap BY <2>2, <2>7, <2>8, <3>1
      <4>2. Follows(IF uart = <<>> THEN LastRead ELSE uart[n].ln, p.ln)
        BY <4>1, <2>2 DEF Chained
      <4>3. CASE n = 0
        <5>1. uart = <<>> /\ i = 1 BY <4>3, <3>1, <2>1
        <5> QED BY <5>1, <4>2, <3>1, <2>7, <1>2
      <4>4. CASE n # 0
        <5>1. uart # <<>> /\ i # 1 /\ i - 1 = n /\ n \in 1..n BY <4>4, <3>1, <2>1
        <5> QED BY <5>1, <4>2, <3>1, <2>7
      <4> QED BY <4>3, <4>4
    <3>2. CASE i # n + 1
      <4>1. i \in 1..n /\ i \in DOMAIN uart /\ (i # 1 => i - 1 \in 1..n)
        BY <3>2, <2>1
      <4>2. Follows(IF i = 1 THEN LastRead ELSE uart[i - 1].ln, uart[i].ln)
        BY <4>1, <2>7, <2>8 DEF Chained
      <4> QED BY <4>1, <4>2, <2>7, <1>2
    <3> QED BY <3>1, <3>2
  <2>9. Follows(IF uart' = <<>> THEN LastRead' ELSE uart'[Len(uart')].ln, Current')
    <3>1. uart' # <<>> BY <2>7, <2>1
    <3> QED BY <3>1, <2>2, <2>5, <2>7
  <2> QED BY <2>7, <2>8, <2>9 DEF Chained
<1> QED BY <1>3, <1>4

LEMMA ChainRead ==
  ASSUME TypeOK, Chained, EventPattern, ReadCount # 0
  PROVE  Chained'
<1> DEFINE R == ReadCount
           n == Len(uart)
<1>1. uart' = SubSeq(uart, R + 1, n) /\ rx' = rx BY ReadFacts
<1>2. uart \in Seq(Pieces) /\ n \in Nat /\ R \in 1..n BY ReadCountIs DEF TypeOK
<1>3. LastRead' = uart[R].ln BY LineHandled DEF LastRead
<1>4. Current' = Current BY <1>1 DEF Current
<1> HIDE DEF R
<1>5. /\ Len(uart') = n - R /\ DOMAIN uart' = 1..(n - R)
      /\ \A i \in 1..(n - R) : uart'[i] = uart[R + i]
  <2>1. R + 1 \in 1..(n + 1) /\ n \in Nat BY <1>2
  <2>2. /\ Len(uart') = n - (R + 1) + 1
        /\ \A i \in 1..(n - (R + 1) + 1) : uart'[i] = uart[(R + 1) + i - 1]
        /\ DOMAIN uart' = 1..Len(uart')
    BY <1>1, <1>2, <2>1
  <2>3. n - (R + 1) + 1 = n - R BY <1>2
  <2>4. \A i \in 1..(n - R) : (R + 1) + i - 1 = R + i BY <1>2
  <2> QED BY <2>2, <2>3, <2>4
<1>6. ASSUME NEW i \in DOMAIN uart', ~uart'[i].gap
      PROVE  Follows(IF i = 1 THEN LastRead' ELSE uart'[i - 1].ln, uart'[i].ln)
  <2>1. i \in 1..(n - R) /\ R + i \in DOMAIN uart /\ R + i # 1 BY <1>2, <1>5
  <2>2. Follows(uart[(R + i) - 1].ln, uart[R + i].ln) BY <2>1, <1>5, <1>6 DEF Chained
  <2>3. CASE i = 1
    <3>1. (R + i) - 1 = R BY <2>3, <1>2
    <3> QED BY <2>1, <2>2, <2>3, <3>1, <1>3, <1>5
  <2>4. CASE i # 1
    <3>1. (R + i) - 1 = R + (i - 1) /\ i - 1 \in 1..(n - R) BY <2>1, <2>4, <1>2
    <3> QED BY <2>1, <2>2, <2>4, <3>1, <1>5
  <2> QED BY <2>3, <2>4
<1>7. ASSUME ~rx.gap
      PROVE  Follows(IF uart' = <<>> THEN LastRead' ELSE uart'[Len(uart')].ln, Current')
  <2>1. Follows(uart[n].ln, Current)
    <3>1. uart # <<>> BY <1>2
    <3> QED BY <3>1, <1>7 DEF Chained
  <2>2. CASE n = R
    <3>1. uart' \in Seq(Pieces) /\ Len(uart') = 0
      <4>1. uart' \in Seq(Pieces) BY EventPatternType DEF TypeOK
      <4> QED BY <4>1, <2>2, <1>2, <1>5
    <3>2. uart' = <<>> BY <3>1
    <3> QED BY <3>2, <2>1, <2>2, <1>3, <1>4
  <2>3. CASE n # R
    <3>1. n - R \in 1..(n - R) /\ R + (n - R) = n BY <2>3, <1>2
    <3>2. uart'[Len(uart')] = uart[n] BY <3>1, <1>5
    <3>3. uart' # <<>>
      <4>1. Len(<<>>) = 0 OBVIOUS
      <4>2. Len(uart') # 0 BY <3>1, <1>5, <2>3, <1>2
      <4> QED BY <4>1, <4>2
    <3> QED BY <3>2, <3>3, <2>1, <1>4
  <2> QED BY <2>2, <2>3
<1> QED BY <1>1, <1>6, <1>7 DEF Chained

LEMMA FieldsOfType ==
  ASSUME NEW s \in Statements
  PROVE  FieldsOf(s) \subseteq FieldNames
<1>1. CASE s = "GSV" BY <1>1 DEF FieldsOf, FieldNames
<1>2. CASE s # "GSV"
  <2>1. s \in DOMAIN Fields BY <1>2 DEF Statements
  <2> QED BY <1>2, <2>1, FieldsType DEF FieldsOf
<1> QED BY <1>1, <1>2

(* A whole line that follows the one before keeps what is stored good.      *)
LEMMA CleanLine ==
  ASSUME NEW a, a.of \in Int, a.part \in Int, NEW b, IsSent(b), Follows(a, b),
         NEW g, NEW h, LineStored(b, g, h),
         NEW w \in Windows, NEW v \in Windows,
         v.epochs = w.epochs \cup {b.e},
         v.sats = IF b.s = "GSV" THEN {b.sats} ELSE w.sats,
         v.over = Overwritten(b.s, w.over), OverGood(a, w.over),
         NEW counted \in SUBSET Statements, NEW more, more \subseteq {b.s} \cap Statements,
         FieldsGood(counted, w.over, g, w.epochs), SatsGood(a, g, w)
  PROVE  /\ FieldsGood(counted \cup more, v.over, h, v.epochs)
         /\ OverGood(b, v.over) /\ SatsGood(b, h, v)
<1>1. ASSUME NEW s \in counted \cup more, NEW x \in FieldsOf(s) \ v.over
      PROVE  AsReceived(h.f[x], x, v.epochs)
  <2>1. s \in Statements /\ x \in FieldNames BY FieldsOfType
  <2>2. CASE b.s \in Statements /\ x \in FieldsOf(b.s)
    <3>1. AsReceived(h.f[x], x, {b.e}) BY <2>1, <2>2 DEF LineStored
    <3> QED BY <3>1 DEF AsReceived
  <2>3. CASE ~(b.s \in Statements /\ x \in FieldsOf(b.s))
    <3>0. x \notin Overwritten(b.s, w.over) OBVIOUS
    <3>1. h.f[x] = g.f[x] BY <3>0, <2>1, <2>3 DEF LineStored, Overwritten
    <3>2. s \in counted BY <2>3
    <3>4. b.s \notin Statements => FieldsOf(b.s) = {}
      BY StatementsAre, FieldsTable DEF FieldsOf
    <3>5. x \notin w.over BY <3>0, <3>4, <2>3 DEF Overwritten
    <3>3. AsReceived(g.f[x], x, w.epochs) BY <3>2, <3>5 DEF FieldsGood
    <3> QED BY <3>1, <3>3 DEF AsReceived
  <2> QED BY <2>2, <2>3
<1>2. SatsGood(b, h, v)
  <2>1. CASE b.s # "GSV"
    <3>1. b.part = 0 /\ b.of = 0 /\ v.sats = w.sats BY <2>1 DEF IsSent
    <3>2. ~(a.part < a.of) BY <3>1 DEF Follows
    <3>3. \A i \in 0..(MaxView - 1) : h.sats_desc_in_view[i] = g.sats_desc_in_view[i]
      BY <2>1 DEF LineStored
    <3>4. \A m \in w.sats : GoodSats(g, m, w.epochs) BY <3>2 DEF SatsGood
    <3>5. \A m \in v.sats : GoodSats(h, m, v.epochs)
      BY <3>1, <3>3, <3>4 DEF GoodSats
    <3>6. ~(b.part < b.of) BY <3>1
    <3> QED BY <3>5, <3>6 DEF SatsGood
  <2>2. CASE b.s = "GSV"
    <3> DEFINE lo == 4 * (b.part - 1)
               hi == IF b.part < b.of THEN 4 * b.part ELSE b.sats
    <3>0. /\ b.part \in 1..4 /\ b.of \in 1..4 /\ b.sats \in 1..16
          /\ b.part \in 1..b.of /\ lo + Described(b) = hi
      BY <2>2, DescribedBounds DEF IsSent
    <3>1. \A i \in 0..(MaxView - 1) :
            IF lo <= i /\ i < hi
            THEN h.sats_desc_in_view[i].ok /\ h.sats_desc_in_view[i].e = b.e
            ELSE h.sats_desc_in_view[i] = g.sats_desc_in_view[i]
      BY <2>2, <3>0 DEF LineStored
    <3>2. \A i \in 0..(MaxView - 1) : i < lo =>
            g.sats_desc_in_view[i].ok /\ g.sats_desc_in_view[i].e \in w.epochs
      <4>1. CASE b.part > 1
        <5>1. a.part = b.part - 1 /\ a.of = b.of BY <4>1 DEF Follows
        <5>2. a.part < a.of /\ 4 * a.part = lo BY <5>1, <3>0
        <5>3. GoodSats(g, lo, w.epochs) BY <5>2 DEF SatsGood
        <5> QED BY <5>3 DEF GoodSats
      <4>2. CASE ~(b.part > 1)
        <5>1. lo = 0 BY <4>2, <3>0
        <5>2. \A i \in 0..(MaxView - 1) : ~(i < 0) BY NmeaConstants
        <5> QED BY <5>1, <5>2
      <4> QED BY <4>1, <4>2
    <3> HIDE DEF lo
    <3>3. GoodSats(h, hi, v.epochs)
      <4> HIDE DEF hi
      <4> SUFFICES ASSUME NEW i \in 0..(MaxView - 1), i < hi
                   PROVE  h.sats_desc_in_view[i].ok
                          /\ h.sats_desc_in_view[i].e \in v.epochs
        BY DEF GoodSats
      <4>1. i \in Int /\ lo \in Int BY <3>0, NmeaConstants DEF lo
      <4>2. CASE lo <= i BY <4>2, <3>1
      <4>3. CASE ~(lo <= i)
        <5>1. i < lo BY <4>1, <4>3
        <5> QED BY <5>1, <4>3, <3>1, <3>2
      <4> QED BY <4>2, <4>3
    <3>4. v.sats = {b.sats} BY <2>2
    <3> QED BY <3>3, <3>4 DEF SatsGood
  <2> QED BY <2>1, <2>2
<1>3. OverGood(b, v.over)
  <2>1. CASE b.s = "TXT" BY <2>1 DEF OverGood
  <2>2. CASE b.s # "TXT" /\ a.s = "TXT"
    <3>1. b.s = "RMC" BY <2>2 DEF Follows
    <3>2. v.over = w.over \ FieldsOf("RMC") BY <3>1 DEF Overwritten
    <3> QED BY <3>2 DEF OverGood
  <2>3. CASE b.s # "TXT" /\ a.s # "TXT"
    <3>1. v.over \subseteq w.over BY <2>3 DEF Overwritten
    <3>2. w.over \cap FieldsOf("RMC") = {} BY <2>3 DEF OverGood
    <3> QED BY <3>1, <3>2 DEF OverGood
  <2> QED BY <2>1, <2>2, <2>3
<1> QED BY <1>1, <1>2, <1>3 DEF FieldsGood

LEMMA CleanRead ==
  ASSUME TypeOK, Clean, Apart, EventPattern, ReadCount # 0
  PROVE  Clean'
<1> DEFINE p == uart[ReadCount]
           W == WindowNow
           read == {uart[i] : i \in 1..ReadCount}
           S == dec.parsed_statement
<1>1. uart \in Seq(Pieces) /\ dec \in Decoders /\ window \in Windows
  BY DEF TypeOK
<1>2. PICK c \in Decoders :
        /\ c.parsed_statement = S
        /\ Counted(c) \subseteq Statements
        /\ Apart => Counted(c) \subseteq IF Ended(p) THEN {p.ln.s} ELSE {}
        /\ dec'.parsed_statement = IF PostsUpdate(c) THEN {}
                                   ELSE c.parsed_statement \cup Counted(c)
        /\ dec'.parent = c.parent /\ dec'.item_str.ln = p.ln
        /\ window' = IF PostsUpdate(c) THEN FreshWindow ELSE W
        /\ \A u \in ToSet(loop') :
             \/ u \in ToSet(loop)
             \/ /\ u.kind = "GPS_UPDATE" => PostsUpdate(c)
                /\ u.g = c.parent /\ u.w = W
        /\ ReadCount = 1 /\ p.damage.kind = "whole" =>
             LineStored(p.ln, dec.parent, c.parent)
  BY LineHandled
<1>3. p \in Pieces /\ ReadCount \in 1..Len(uart) BY <1>1, LineHandled, ReadCountIs
<1>4. Counted(c) \subseteq IF Ended(p) THEN {p.ln.s} ELSE {} BY <1>2
<1>5. IsSent(p.ln) BY <1>3, PieceFacts
<1>6. S # Statements /\ S \subseteq Statements BY <1>1 DEF Clean, Decoders
<1>7. PostsUpdate(c) <=> S \cup Counted(c) = Statements BY <1>2 DEF PostsUpdate
<1>8. PostsUpdate(c) => ~(p.ln.part < p.ln.of)
  <2> SUFFICES ASSUME PostsUpdate(c) PROVE ~(p.ln.part < p.ln.of) OBVIOUS
  <2>1. Counted(c) # {} BY <1>6, <1>7
  <2>2. Ended(p) BY <2>1, <1>4
  <2> HIDE DEF p
  <2>3. p.ln.part = p.ln.of BY <2>2 DEF Ended
  <2>4. p.ln.part \in Nat BY <1>5 DEF IsSent, LineRecords
  <2> QED BY <2>3, <2>4
<1>9. W \in Windows BY <1>1, WindowType
<1>10. dec'.parsed_statement # Statements
  <2>1. Statements # {} BY StatementsAre
  <2> QED BY <2>1, <1>2, <1>7
<1>11. Chained' BY ChainRead DEF Clean
<1>12. ASSUME W.clean
       PROVE  /\ FieldsGood(S \cup Counted(c), W.over, c.parent, W.epochs)
              /\ OverGood(p.ln, W.over) /\ SatsGood(p.ln, c.parent, W)
  <2>1. window.clean /\ \A q \in read : Intact(q) /\ ~q.gap
    BY <1>12 DEF WindowNow
  <2>2. ReadCount = 1
    <3> SUFFICES ASSUME ReadCount # 1 PROVE FALSE OBVIOUS
    <3>1. 1 \in 1..(ReadCount - 1) /\ 1 \in 1..ReadCount BY <1>3
    <3>2. ~Ends(uart[1]) BY <3>1, <1>1, <1>3, ReadCountIs
    <3>3. Intact(uart[1]) BY <3>1, <2>1
    <3> QED BY <3>2, <3>3 DEF Ends, Intact, Whole
  <2>3. read = {p} /\ Intact(p) /\ ~p.gap
    <3>1. read = {uart[1]} BY <2>2
    <3> QED BY <3>1, <2>1, <2>2
  <2>4. p.damage.kind = "whole" BY <2>3 DEF Intact, Whole
  <2>5. LineStored(p.ln, dec.parent, c.parent) BY <1>2, <2>2, <2>4
  <2>6. Follows(LastRead, p.ln)
    <3>1. 1 \in DOMAIN uart BY <1>3, <2>2
    <3> QED BY <3>1, <2>2, <2>3 DEF Clean, Chained
  <2>7. /\ FieldsGood(S, window.over, dec.parent, window.epochs)
        /\ OverGood(LastRead, window.over)
        /\ SatsGood(LastRead, dec.parent, window)
    BY <2>1 DEF Clean
  <2>8. W.epochs = window.epochs \cup {p.ln.e}
    <3>1. W.epochs = window.epochs \cup {q.ln.e : q \in read} BY DEF WindowNow
    <3> HIDE DEF W, read, p
    <3> QED BY <3>1, <2>3
  <2>9. W.sats = IF p.ln.s = "GSV" THEN {p.ln.sats} ELSE window.sats BY DEF WindowNow
  <2>14. W.over = Overwritten(p.ln.s, window.over) BY DEF WindowNow
  <2>10. LastRead.of \in Int /\ LastRead.part \in Int
    <3>1. dec.item_str \in Texts BY <1>1 DEF Decoders
    <3>2. LastRead \in LineRecords BY <3>1 DEF LastRead, Texts
    <3> QED BY <3>2 DEF LineRecords
  <2>11. Counted(c) \subseteq {p.ln.s} \cap Statements BY <1>2, <1>4
  <2>12. S \in SUBSET Statements BY <1>6
  <2> HIDE DEF W, p, S
  <2>13. ASSUME NEW b, b = p.ln
         PROVE  /\ FieldsGood(S \cup Counted(c), W.over, c.parent, W.epochs)
                /\ OverGood(b, W.over) /\ SatsGood(b, c.parent, W)
    <3>1. /\ IsSent(b) /\ Follows(LastRead, b) /\ LineStored(b, dec.parent, c.parent)
          /\ W.epochs = window.epochs \cup {b.e}
          /\ W.sats = IF b.s = "GSV" THEN {b.sats} ELSE window.sats
          /\ W.over = Overwritten(b.s, window.over)
          /\ Counted(c) \subseteq {b.s} \cap Statements
      BY <2>13, <1>5, <2>5, <2>6, <2>8, <2>9, <2>11, <2>14
    <3> QED BY <3>1, <1>1, <1>9, <2>7, <2>10, <2>12, CleanLine
  <2> QED BY <2>13
<1>13. LastRead' = p.ln BY <1>2 DEF LastRead
<1>14. window'.clean =>
         /\ FieldsGood(dec'.parsed_statement, window'.over, dec'.parent, window'.epochs)
         /\ OverGood(LastRead', window'.over)
         /\ SatsGood(LastRead', dec'.parent, window')
  <2> HIDE DEF W, p
  <2>1. CASE PostsUpdate(c)
    <3>1. dec'.parsed_statement = {} /\ window'.sats = {} /\ window'.over = {}
      BY <2>1, <1>2 DEF FreshWindow
    <3> QED BY <3>1, <2>1, <1>8, <1>13 DEF FieldsGood, OverGood, SatsGood
  <2>2. CASE ~PostsUpdate(c) BY <2>2, <1>2, <1>12, <1>13
  <2> QED BY <2>1, <2>2
<1>15. ASSUME NEW u \in ToSet(loop'), u.kind = "GPS_UPDATE", u.w.clean
       PROVE  /\ u.w.over \cap FieldsOf("RMC") = {}
              /\ \A x \in FieldNames \ u.w.over : AsReceived(u.g.f[x], x, u.w.epochs)
              /\ \A v \in u.w.sats : GoodSats(u.g, v, u.w.epochs)
  <2>1. CASE u \in ToSet(loop)
    <3>1. u \in Updates BY <2>1, <1>15 DEF Updates
    <3>2. CleanUpdate BY DEF Clean
    <3> QED BY <3>1, <3>2, <1>15 DEF CleanUpdate, AsReceived, GoodSats
  <2>2. CASE u \notin ToSet(loop)
    <3>1. PostsUpdate(c) /\ u.g = c.parent /\ u.w = W BY <2>2, <1>2, <1>15
    <3>2. /\ FieldsGood(Statements, W.over, c.parent, W.epochs)
          /\ OverGood(p.ln, W.over) /\ SatsGood(p.ln, c.parent, W)
      BY <3>1, <1>7, <1>12, <1>15
    <3>5. W.over \cap FieldsOf("RMC") = {}
      <4>1. Counted(c) # {} /\ Counted(c) \subseteq Statements
        BY <3>1, <1>2, <1>6, <1>7
      <4>2. p.ln.s \in Statements BY <4>1, <1>4
      <4> HIDE DEF p, W
      <4> QED BY <4>2, <3>2, StatementsAre DEF OverGood
    <3>3. \A v \in W.sats : GoodSats(c.parent, v, W.epochs)
      BY <3>1, <3>2, <1>8 DEF SatsGood
    <3> HIDE DEF W, p
    <3>4. \A x \in FieldNames \ W.over : AsReceived(c.parent.f[x], x, W.epochs)
      BY <3>2, EveryField DEF FieldsGood
    <3> QED BY <3>1, <3>3, <3>4, <3>5
  <2> QED BY <2>1, <2>2
<1>16. CleanUpdate' BY <1>15 DEF CleanUpdate, Updates, AsReceived, GoodSats
<1> QED BY <1>10, <1>11, <1>14, <1>16 DEF Clean

\* A step that decodes nothing and posts nothing.
LEMMA CleanKept ==
  ASSUME Clean, Chained', ToSet(loop') \subseteq ToSet(loop), UNCHANGED <<dec, window>>
  PROVE  Clean'
<1>1. LastRead' = LastRead BY DEF LastRead
<1>2. CleanUpdate' BY DEF Clean, CleanUpdate, Updates
<1> QED BY <1>1, <1>2 DEF Clean

LEMMA CleanStep == TypeOK /\ Clean /\ Apart /\ [Next]_vars => Clean'
<1> SUFFICES ASSUME TypeOK, Clean, Apart, [Next]_vars PROVE Clean' OBVIOUS
<1>0. Chained BY DEF Clean
<1>1. ASSUME UNCHANGED <<uart, rx, dec>> PROVE Chained'
  <2>1. LastRead' = LastRead /\ Current' = Current BY <1>1 DEF LastRead, Current
  <2> QED BY <1>0, <1>1, <2>1 DEF Chained
<1>2. CASE SendLine
  <2>1. Receive(Whole) /\ UNCHANGED <<dec, loop, window>> BY <1>2 DEF SendLine, rest
  <2>2. Chained' BY <2>1, <1>0, WholeIsNotLost, ChainReceive
  <2> QED BY <2>1, <2>2, CleanKept
<1>3. CASE SendDamaged
  <2>1. PICK damage : Receive(damage) /\ (damage.kind = "lost" \/ damage \in Damages)
    <3>1. CASE Receive([kind |-> "lost", k |-> 0])
      <4>1. [kind |-> "lost", k |-> 0].kind = "lost" OBVIOUS
      <4> QED BY <3>1, <4>1
    <3>2. ASSUME NEW kind \in {"garbled", "tail", "cut"}, NEW k \in DamageItems,
                 Receive([kind |-> kind, k |-> k])
          PROVE  \E damage : Receive(damage)
                              /\ (damage.kind = "lost" \/ damage \in Damages)
      <4>1. [kind |-> kind, k |-> k] \in Damages BY DEF Damages
      <4> QED BY <3>2, <4>1
    <3> QED BY <1>3, <3>1, <3>2 DEF SendDamaged
  <2>2. UNCHANGED <<dec, loop, window>> BY <1>3 DEF SendDamaged, rest
  <2>3. Chained' BY <2>1, <2>2, <1>0, ChainReceive
  <2> QED BY <2>2, <2>3, CleanKept
<1>4. CASE EventPattern
  <2>1. CASE ReadCount = 0
    <3>1. /\ uart' = <<>> /\ rx' = [rx EXCEPT !.gap = @ \/ uart # <<>>]
          /\ UNCHANGED <<dec, loop, window>>
      BY <1>4, <2>1 DEF EventPattern
    <3>2. rx'.e = rx.e /\ rx'.i = rx.i /\ (rx'.gap <=> rx.gap \/ uart # <<>>)
      <4> DEFINE b == rx.gap \/ uart # <<>>
      <4>1. rx' = [rx EXCEPT !.gap = b] /\ b \in BOOLEAN BY <3>1
      <4> HIDE DEF b
      <4>2. rx'.e = rx.e /\ rx'.i = rx.i /\ rx'.gap = b BY <4>1 DEF TypeOK
      <4> QED BY <4>2 DEF b
    <3>3. LastRead' = LastRead /\ Current' = Current BY <3>1, <3>2 DEF LastRead, Current
    <3>4. DOMAIN uart' = {} BY <3>1
    <3>5. Chained' BY <3>1, <3>2, <3>3, <3>4, <1>0 DEF Chained
    <3> QED BY <3>1, <3>5, CleanKept
  <2>2. CASE ReadCount # 0 BY <2>2, <1>4, CleanRead
  <2> QED BY <2>1, <2>2
<1>5. CASE EventOverflow
  <2>1. /\ uart' = <<>> /\ rx' = [rx EXCEPT !.gap = TRUE]
        /\ UNCHANGED <<dec, loop, window>>
    BY <1>5 DEF EventOverflow
  <2>2. rx'.gap BY <2>1 DEF TypeOK
  <2>3. DOMAIN uart' = {} BY <2>1
  <2>4. Chained' BY <2>2, <2>3 DEF Chained
  <2> QED BY <2>1, <2>4, CleanKept
<1>6. CASE ResetEvents BY <1>6, <1>1, CleanKept DEF ResetEvents, receiver
<1>7. CASE LoopRun
  <2>1. loop \in Seq(Events) /\ loop # <<>> /\ loop' = Tail(loop)
        /\ UNCHANGED <<uart, rx, dec, window>>
    BY <1>7 DEF LoopRun, TypeOK, receiver, driver
  <2>2. ToSet(loop') \subseteq ToSet(loop) BY <2>1, TailType
  <2> QED BY <2>1, <2>2, <1>1, CleanKept
<1>8. CASE NmeaParserInit
  BY <1>8, <1>1, CleanKept DEF NmeaParserInit, receiver, driver
<1>9. CASE AddHandler BY <1>9, <1>1, CleanKept DEF AddHandler, receiver, driver
<1>10. CASE NmeaParserInitFails
  BY <1>10, <1>1, CleanKept DEF NmeaParserInitFails, driver
<1>11. CASE TcpTake BY <1>11, <1>1, CleanKept DEF TcpTake, receiver, driver
<1>12. CASE UNCHANGED vars
  BY <1>12, <1>1, CleanKept DEF vars, receiver, driver
<1> QED BY <1>2, <1>3, <1>4, <1>5, <1>6, <1>7, <1>8, <1>9, <1>10, <1>11, <1>12
  DEF Next, Main

(* If nothing was lost or damaged since the position before, every field of *)
(* the published gps_t was received since then, with its sign and its       *)
(* second part applied once, and so were all the satellites of the last     *)
(* group: parse_item stores a value before the checksum is known, and the   *)
(* groups of GSV come in several lines (nmea_parser.c 179-421).  The        *)
(* assumption on lines without their head is that of GpsCompleteUpdate.     *)
THEOREM GpsCleanUpdate == Spec /\ []Apart => []CleanUpdate
<1>1. Init => Clean
  <2> SUFFICES ASSUME Init PROVE Clean OBVIOUS
  <2>1. /\ uart = <<>> /\ rx.gap /\ loop = <<>> /\ dec = FreshDecoder
        /\ window = FreshWindow
    BY DEF Init
  <2>2. /\ dec.parsed_statement = {} /\ LastRead = NoLine /\ window.sats = {}
        /\ window.over = {}
    BY <2>1 DEF FreshDecoder, FreshWindow, LastRead, Empty, Text
  <2>3. ~(NoLine.part < NoLine.of) BY DEF NoLine
  <2>4. DOMAIN uart = {} /\ ToSet(loop) = {} BY <2>1 DEF ToSet
  <2>5. Chained BY <2>1, <2>4 DEF Chained
  <2>6. Statements # {} BY StatementsAre
  <2> QED BY <2>2, <2>3, <2>4, <2>5, <2>6
    DEF Clean, CleanUpdate, Updates, FieldsGood, OverGood, SatsGood
<1>2. TypeOK /\ Clean /\ Apart /\ [Next]_vars => Clean' BY CleanStep
<1>3. Clean => CleanUpdate BY DEF Clean
<1> QED BY <1>1, <1>2, <1>3, GpsTypes, PTL DEF Spec
=============================================================================
