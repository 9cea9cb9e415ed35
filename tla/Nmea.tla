---------------------------------- MODULE Nmea ---------------------------------
(***************************************************************************)
(* The decoder of nmea/nmea_parser.c: gps_decode takes the characters of a *)
(* line, parse_item stores an item in the field of gps_t its place in the  *)
(* statement names.  A text stands for the characters between two          *)
(* separators; it says which item of which line it is, so that a value can *)
(* be followed from the receiver to the published position.  The XOR of a  *)
(* checksum is the symmetric difference of what was added: no two          *)
(* different lines have the same one.                                      *)
(***************************************************************************)
EXTENDS Integers, Sequences, FiniteSets, SequencesExt

CONSTANTS MaxView,     \* GPS_MAX_SATELLITES_IN_VIEW
          ItemLength,  \* characters of an item, and of the text of a TXT: a line
          TextLength   \* has 82 at most, 61 of them may be that text

ASSUME NmeaConstants ==
  MaxView \in Nat \ {0} /\ ItemLength \in 1..14 /\ TextLength \in 1..61

-------------------------------------------------------------------------------
(* Lines as the receiver writes them.  id: which line, s: statement, e:      *)
(* epoch, part and of: place in a GSV group, sats: satellites in view, fix: *)
(* has it a position?                                                       *)

NoLine == [id |-> 0, s |-> "none", e |-> 0, part |-> 0, of |-> 0, sats |-> 0, fix |-> FALSE]
Text(ln, k, n) == [ln |-> ln, k |-> k, n |-> n, ok |-> TRUE]
Dollar == Text(NoLine, 0, 0)
Comma  == Text(NoLine, 1, 0)
Empty  == Text(NoLine, 2, 0)
Newline == Text(NoLine, 3, 0)
CrcItem == 99

Messages(sats) == (sats + 3) \div 4
Described(ln) ==          \* satellites this GSV line describes
  IF ln.part < ln.of THEN 4 ELSE ln.sats - 4 * (ln.of - 1)

ItemCount(ln) ==
  [GGA |-> 14, GSA |-> 17, GSV |-> 3 + 4 * Described(ln), RMC |-> 12,
   GLL |-> 7, VTG |-> 9, TXT |-> 4][ln.s]

(* The number an item says, where the decoder looks at the number.          *)
ItemNumber(ln, k) ==
  CASE ln.s = "GSV" /\ k = 1 -> ln.of
    [] ln.s = "GSV" /\ k = 2 -> ln.part
    [] ln.s = "GSV" /\ k = 3 -> ln.sats
    [] ln.s = "GSA" /\ k = 2 -> IF ln.fix THEN 3 ELSE 1
    [] ln.s = "GGA" /\ k = 6 -> IF ln.fix THEN 1 ELSE 0
    [] OTHER -> 0

ItemText(ln, k) == Text(ln, k, ItemNumber(ln, k))
Damaged(t) == [t EXCEPT !.ok = FALSE, !.n = 0]

TextItem == 4           \* the text of a TXT
Length(t) ==            \* characters of a text
  IF t.ln = NoLine THEN 1
  ELSE IF t.k = CrcItem THEN 2
  ELSE IF t.ln.s = "TXT" /\ t.k = TextItem THEN TextLength ELSE ItemLength

Char(c, t) == [c |-> c, t |-> t]
Sep(c) == Char(c, Empty)
Characters(ln) ==       \* item k is the text at 2 + 2 * k, after its separator
  [j \in 1..(2 + 2 * ItemCount(ln)) |->
     IF j % 2 = 0 THEN Char("text", ItemText(ln, j \div 2 - 1))
     ELSE Sep(IF j = 1 THEN "$" ELSE ",")]
  \o <<Sep("*"), Char("text", Text(ln, CrcItem, 0)), Sep("\r"),
       Char("text", Newline)>>

\* What a text adds to a checksum: a number no other text has.
Code(t) == 200 * t.ln.id + 2 * t.k + IF t.ok THEN 1 ELSE 0
Xor(sum, t) == IF Code(t) \in sum THEN sum \ {Code(t)} ELSE sum \cup {Code(t)}
Checksum(ln) ==
  {Code(Text(ln, k, 0)) : k \in 0..ItemCount(ln)}
  \cup IF ItemCount(ln) % 2 = 1 THEN {Code(Comma)} ELSE {}

-------------------------------------------------------------------------------
(* gps_t.  A value says the epoch it was measured in, whether it was        *)
(* received undamaged, how often a later item has changed it (the sign of a *)
(* hemisphere, the second part of the altitude), and its number.            *)

FieldNames == {"tim", "latitude", "longitude", "fix", "sats_in_use", "dop_h",
  "dop_p", "dop_v", "altitude", "fix_mode", "sats_id_in_use", "sats_in_view",
  "valid", "speed", "cog", "date", "variation"}
Unset == [e |-> 0, ok |-> FALSE, m |-> 0, n |-> 0]
Zeroed == [f |-> [x \in FieldNames |-> Unset],
           sats_desc_in_view |-> [i \in 0..(MaxView - 1) |-> Unset]]
ValueOf(t) == [e |-> t.ln.e, ok |-> t.ok, m |-> 0, n |-> t.n]

\* The field each item of a statement is stored in.
GgaFields == <<"tim", "latitude", "latitude", "longitude", "longitude", "fix",
               "sats_in_use", "dop_h", "altitude", "none", "altitude">>
GsaFields == [k \in 1..17 |->
                IF k <= 2 THEN <<"none", "fix_mode">>[k]
                ELSE IF k <= 14 THEN "sats_id_in_use"
                ELSE <<"dop_p", "dop_h", "dop_v">>[k - 14]]
RmcFields == <<"tim", "valid", "latitude", "latitude", "longitude", "longitude",
               "speed", "cog", "date", "variation">>
GllFields == <<"latitude", "latitude", "longitude", "longitude", "tim", "valid">>
VtgFields == <<"cog", "none", "variation", "none", "speed", "none", "speed">>
Fields == [GGA |-> GgaFields, GSA |-> GsaFields, RMC |-> RmcFields,
           GLL |-> GllFields, VTG |-> VtgFields]

Adjustable == {"latitude", "longitude", "altitude"}
Adjusts(s, k) ==        \* the item changes a field an earlier item has set
  Fields[s][k] \in Adjustable /\ \E j \in 1..(k - 1) : Fields[s][j] = Fields[s][k]

\* *= -1 for a southern or western hemisphere, += for the ellipsoid.
Adjust(x, v, t) ==
  IF x = "altitude" THEN [v EXCEPT !.m = IF @ = 0 THEN 1 ELSE 2, !.ok = @ /\ t.ok]
  ELSE IF t.ok THEN [v EXCEPT !.m = 1 - @] ELSE v

ParseFields(d) ==
  LET s == d.cur_statement
      k == d.item_num
      x == Fields[s][k]
  IN  IF k \notin DOMAIN Fields[s] \/ x = "none" THEN d
      ELSE [d EXCEPT !.parent.f[x] = IF Adjusts(s, k) THEN Adjust(x, @, d.item_str)
                                     ELSE ValueOf(d.item_str)]

\* The four items of a satellite are one value; the index is a uint8_t.
GsvIndex_OneMessage(d) == (d.item_num - 4) \div 4
GsvIndex(d) == (4 * (d.sat_num - 1) + (d.item_num - 4) \div 4) % 256
ParseGsv(d) ==
  LET k == d.item_num
      n == d.item_str.n
      index == GsvIndex(d)
  IN  CASE k = 1 -> [d EXCEPT !.sat_count = n]
        [] k = 2 -> [d EXCEPT !.sat_num = n]
        [] k = 3 -> [d EXCEPT !.parent.f.sats_in_view = ValueOf(d.item_str)]
        [] k \in 4..19 /\ index < MaxView ->
             [d EXCEPT !.parent.sats_desc_in_view[index] = ValueOf(d.item_str)]
        [] OTHER -> d

-------------------------------------------------------------------------------
(* esp_gps_t.  parent lies behind item_str: where its members begin, counted *)
(* from item_str[0] (the members from date on are further than lines reach). *)

ItemRoom == 16          \* NMEA_MAX_STATEMENT_ITEM_LENGTH
Begin == [latitude |-> 16, longitude |-> 20, altitude |-> 24, fix |-> 36,
          sats_in_use |-> 40, tim |-> 42, fix_mode |-> 48, sats_id_in_use |-> 52,
          dop_h |-> 64, dop_p |-> 68, dop_v |-> 72, sats_in_view |-> 76]
SatelliteBegin(i) == 78 + 6 * i
Reached(last) == {x \in DOMAIN Begin : Begin[x] <= last}

\* parent when the '\0' behind an item is written to item_str[last].
Spilt(at, last) == [Unset EXCEPT !.n = IF at < last THEN 65 ELSE 0]
Spill(g, last) ==
  IF last < ItemRoom THEN g
  ELSE [f |-> [x \in FieldNames |->
                 IF x \in Reached(last) THEN Spilt(Begin[x], last) ELSE g.f[x]],
        sats_desc_in_view |->
          [i \in 0..(MaxView - 1) |->
             IF SatelliteBegin(i) <= last THEN Spilt(SatelliteBegin(i), last)
             ELSE g.sats_desc_in_view[i]]]

-------------------------------------------------------------------------------
(* The decoder: its runtime structure, and what it does with a character.   *)

Statements == DOMAIN Fields \cup {"GSV"}     \* all_statements
Unknown == "unknown"

FreshDecoder ==
  [item_pos |-> 0, item_num |-> 0, asterisk |-> FALSE, crc |-> {}, parsed_statement |-> {},
   sat_num |-> 0, sat_count |-> 0, cur_statement |-> Unknown,
   item_str |-> Empty, parent |-> Zeroed]

ParseItem(d) ==
  IF d.item_num = 0 /\ d.item_str.k = 0
  THEN [d EXCEPT !.cur_statement =
          IF d.item_str.ok /\ d.item_str.ln.s \in Statements
          THEN d.item_str.ln.s ELSE Unknown]
  ELSE CASE d.cur_statement = Unknown -> d
         [] d.cur_statement = "GSV" -> ParseGsv(d)
         [] OTHER -> ParseFields(d)

StartStatement_KeepsAsterisk(d) ==
  [d EXCEPT !.item_num = 0, !.item_pos = 1, !.cur_statement = Unknown, !.crc = {},
            !.sat_count = 0, !.sat_num = 0, !.item_str = Dollar]
StartStatement(d) ==
  [d EXCEPT !.asterisk = FALSE, !.item_num = 0, !.item_pos = 1,
            !.cur_statement = Unknown, !.crc = {}, !.sat_count = 0, !.sat_num = 0,
            !.item_str = Dollar]

NextItem(d) ==
  [d EXCEPT !.item_pos = 0, !.item_str = Empty, !.item_num = (@ + 1) % 256]
Separator(d) == NextItem([ParseItem(d) EXCEPT !.crc = Xor(@, Comma)])
Asterisk(d) == NextItem([ParseItem(d) EXCEPT !.asterisk = TRUE])

Joined(a, t) ==         \* characters appended to an item
  IF a = Empty \/ (a = Dollar /\ t.k = 0) THEN t ELSE Damaged(a)
\* No bound: what item_str has no room for is written to parent behind it.
Character(d, t) ==
  LET last == d.item_pos + Length(t)
  IN  [d EXCEPT !.crc = IF d.asterisk THEN @ ELSE Xor(@, t),
                !.item_str = Joined(@, t), !.item_pos = last,
                !.parent = Spill(@, last)]

CrcPassed(d) ==
  d.item_str.k = CrcItem /\ d.item_str.ok /\ d.crc = Checksum(d.item_str.ln)

Counted(d) ==           \* the statement the end of this line completes
  IF d.cur_statement = Unknown \/ ~CrcPassed(d)
     \/ (d.cur_statement = "GSV" /\ d.sat_num # d.sat_count)
  THEN {} ELSE {d.cur_statement}

\* The end of a line; it may post that the position was updated.
EndStatement_NotCleared(d) ==
  [d EXCEPT !.parsed_statement = @ \cup Counted(d)]
EndStatement(d) ==
  LET parsed == d.parsed_statement \cup Counted(d)
  IN  [d EXCEPT !.parsed_statement = IF parsed = Statements THEN {} ELSE parsed]

PostsUpdate(d) == d.parsed_statement \cup Counted(d) = Statements
PostsUnknown(d) == d.cur_statement = Unknown

\* One turn of the loop of gps_decode: the decoder, and what it posted.
DecodeChar(r, ch) ==
  LET d == r.d
  IN  CASE ch.c = "$"  -> [r EXCEPT !.d = StartStatement(d)]
        [] ch.c = ","  -> [r EXCEPT !.d = Separator(d)]
        [] ch.c = "*"  -> [r EXCEPT !.d = Asterisk(d)]
        [] ch.c = "\r" -> [d |-> EndStatement(d),
                           posts |-> r.posts
                             \o (IF PostsUpdate(d) THEN <<"GPS_UPDATE">> ELSE <<>>)
                             \o (IF PostsUnknown(d) THEN <<"GPS_UNKNOWN">> ELSE <<>>)]
        [] OTHER -> [r EXCEPT !.d = Character(d, ch.t)]

GpsDecode(r, characters) ==
  LET after[i \in 0..Len(characters)] ==
        IF i = 0 THEN r
        ELSE CHOOSE t \in {DecodeChar(q, characters[i]) : q \in {after[i - 1]}} : TRUE
  IN  after[Len(characters)]
=============================================================================
