-------------------------------- MODULE Ejson --------------------------------
(***************************************************************************)
(* Extended JSON (package ejson).  A Go value is a record tagged by g:     *)
(*                                                                         *)
(*   atom [a], int [n]                null and booleans; int64             *)
(*   whole [n], float [a]             float64 equal to an int64, and other *)
(*   huge                             a number no float64 can hold         *)
(*   string [text]                    text is a clock, date, prefix,       *)
(*                                    rfc3339 or word, tagged by as        *)
(*   list [items]                     []any                                *)
(*   map [keys, items]                map[string]any, keys in order        *)
(*   set [items]                      ejson.Set                            *)
(*   time [sec, ms]                   time.Time in UTC                     *)
(*   date [y, m, d]                   ejson.Date                           *)
(*   clock [h, m, s, ns, zoned, off]  ejson.Time                           *)
(*   prefix [v4, net]                 netip.Prefix                         *)
(*   slice [items]                    []time.Time and other slices         *)
(*   table [keys, items]              map[string]time.Time and other maps  *)
(*   struct [keys, items]             a value with fields                  *)
(*   stamp [of]                       ejson.DateTime                       *)
(*                                                                         *)
(* A document is made of numbers, strings, lists and maps: what            *)
(* encoding/json makes of the bytes.  There, whole is a number like 5.0,   *)
(* with a fraction or exponent.  A function that calls itself on the parts *)
(* of a value is one of the values nested at most MaxNesting deep, with a  *)
(* step ...Of that has the recursive call as its first argument.           *)
(***************************************************************************)
EXTENDS Integers, Sequences

CONSTANTS MaxNesting,  \* encoding/json reads no document nested deeper
          Shapes       \* the tuples of keys an object can have

ASSUME EjsonAssumption == MaxNesting \in Nat
ASSUME ShapesAssumption ==
  {<<"$date">>, <<"$time">>, <<"$set">>, <<"$ipv4_interface">>, <<"$ipv6_interface">>,
   <<"$type", "$value">>} \subseteq Shapes
ASSUME StringAssumption == "date" \in STRING  \* no prover has a rule for it

Bad == [g |-> "error"]
Junk == -1   \* a component that is no number
Absent == -2

String(text) == [g |-> "string", text |-> text]
Word(w) == String([as |-> "word", a |-> w])
List(items) == [g |-> "list", items |-> items]
Map(keys, items) == [g |-> "map", keys |-> keys, items |-> items]
Object(key, v) == Map(<<key>>, <<v>>)

\* A recursive call on every part.
Each(f, parts) == [i \in DOMAIN parts |-> f[parts[i]]]

\* An error in one part is an error of the whole.
Whole(v) == IF \E i \in DOMAIN v.items : v.items[i] = Bad THEN Bad ELSE v

-----------------------------------------------------------------------------
(* Wrong forms of definitions below, which no specification uses. *)

\* The remainder of a time before 1970 stays negative.
InstantTruncated(ms) ==
  LET q == IF ms >= 0 THEN ms \div 1000 ELSE -((-ms) \div 1000)
  IN [g |-> "time", sec |-> q, ms |-> ms - q * 1000]

\* A date does without its $type.
IsDateTyped(v) == v.keys = <<"$type", "$value">>

-----------------------------------------------------------------------------
(* Times of day and dates (types.go) *)

\* Fraction digits beyond the ninth are cut off.
Digit(digits, i) == IF i <= Len(digits) THEN digits[i] ELSE 0

Nanoseconds(digits) ==
  LET D(i) == Digit(digits, i) IN
  ((((((((D(1) * 10 + D(2)) * 10 + D(3)) * 10 + D(4)) * 10 + D(5)) * 10 + D(6)) * 10
    + D(7)) * 10 + D(8)) * 10 + D(9))

\* parseOffset reads two digits of each; seconds that follow are not looked at.
ReadableOffset(zone) == zone.kind = "offset" => zone.h < 100
ParseOffset(zone) == zone.sign * (zone.h * 3600 + zone.m * 60)

\* A third component that is no number is taken for the end of HH:MM.
ParseTime(text) ==
  LET s == IF text.as = "clock" /\ text.s >= 0 THEN text.s ELSE 0 IN
  IF text.as # "clock" \/ text.h > 23 \/ text.m > 59 \/ s > 59 \/ ~ReadableOffset(text.zone)
    THEN Bad
  ELSE [g |-> "clock", h |-> text.h, m |-> text.m, s |-> s,
        ns |-> Nanoseconds(text.fraction),
        zoned |-> text.zone.kind # "none",
        off |-> IF text.zone.kind = "offset" THEN ParseOffset(text.zone) ELSE 0]

Micros(n) ==
  <<n \div 100000, (n \div 10000) % 10, (n \div 1000) % 10, (n \div 100) % 10, (n \div 10) % 10, n % 10>>

TimeString(t) ==
  LET off == IF t.off < 0 THEN -t.off ELSE t.off IN
  [as |-> "clock", h |-> t.h, m |-> t.m, s |-> t.s,
   fraction |-> IF t.ns = 0 THEN <<>> ELSE Micros(t.ns \div 1000),
   zone |-> IF ~t.zoned THEN [kind |-> "none"]
            ELSE [kind |-> "offset", sign |-> IF t.off < 0 THEN -1 ELSE 1,
                  h |-> off \div 3600, m |-> (off % 3600) \div 60, s |-> 0]]

DaysIn(y, m) ==
  CASE m = 2 -> IF y % 4 = 0 /\ (y % 100 # 0 \/ y % 400 = 0) THEN 29 ELSE 28
    [] m \in {4, 6, 9, 11} -> 30
    [] OTHER -> 31

Years == 0..9999

ParseDate(text) ==
  IF text.as = "date" /\ text.y \in Years /\ text.m \in 1..12 /\ text.d \in 1..DaysIn(text.y, text.m)
    THEN [g |-> "date", y |-> text.y, m |-> text.m, d |-> text.d]
    ELSE Bad

DateString(d) == [as |-> "date", y |-> d.y, m |-> d.m, d |-> d.d]

-----------------------------------------------------------------------------
(* The values there are.  The offset of a clock is less than 100 hours, and *)
(* that of a text has less than 60 minutes.                                 *)

Extension(v) ==
  \/ v.keys \in {<<"$date">>, <<"$time">>, <<"$set">>, <<"$ipv4_interface">>, <<"$ipv6_interface">>}
  \/ v.keys = <<"$type", "$value">> /\ v.items[1] = Word("date")

Zones == [kind : {"none", "Z"}] \cup [kind : {"offset"}, sign : {-1, 1}, h : Nat, m : 0..59, s : 0..59]

Texts ==
  [as : {"clock"}, h : Nat, m : Nat, s : Int, fraction : Seq(0..9), zone : Zones]
  \cup [as : {"date"}, y : Int, m : Int, d : Int]
  \cup [as : {"prefix"}, v4 : BOOLEAN, net : STRING]
  \cup [as : {"rfc3339"}, sec : Int, ms : 0..999]
  \cup [as : {"word"}, a : STRING]

Scalars ==
  [g : {"atom", "float"}, a : STRING] \cup [g : {"int", "whole"}, n : Int] \cup [g : {"string"}, text : Texts]

Times == [g : {"time"}, sec : Int, ms : 0..999]
Dates == {d \in [g : {"date"}, y : Years, m : 1..12, d : 1..31] : d.d <= DaysIn(d.y, d.m)}
LastNanosecond == 999999999
LargestOffset == 359999
Clocks == [g : {"clock"}, h : 0..23, m : 0..59, s : 0..59, ns : 0..LastNanosecond,
           zoned : BOOLEAN, off : -LargestOffset..LargestOffset]
Prefixes == [g : {"prefix"}, v4 : BOOLEAN, net : STRING]

GoLeaves == Scalars \cup Times \cup Dates \cup Clocks \cup Prefixes \cup [g : {"stamp"}, of : Times]

\* Leaves, and lists and maps of parts; plain: no map that would be read as an
\* extended value.
Over(leaves, lists, maps, plain, parts) ==
  leaves
  \cup [g : lists, items : Seq(parts)]
  \cup {v \in [g : maps, keys : Shapes, items : Seq(parts)] :
           Len(v.items) = Len(v.keys) /\ (plain => ~Extension(v))}

\* Those nested at most n deep.
UpTo(leaves, lists, maps, plain) ==
  LET upTo[n \in 0..MaxNesting] ==
        IF n = 0 THEN leaves ELSE Over(leaves, lists, maps, plain, upTo[n - 1])
  IN upTo

GoUpTo == UpTo(GoLeaves, {"list", "set", "slice"}, {"map", "table", "struct"}, TRUE)
GoValues == GoUpTo[MaxNesting]

DocumentUpTo == UpTo(Scalars \cup {[g |-> "huge"]}, {"list"}, {"map"}, FALSE)
Documents == DocumentUpTo[MaxNesting]

-----------------------------------------------------------------------------
(* Encoding *)

\* DateTime.MarshalJSON: whole seconds only.
DateTime(t) == Object("$date", [g |-> "int", n |-> t.sec * 1000])

\* Date.MarshalJSON
Date(d) == Map(<<"$type", "$value">>, <<Word("date"), String(DateString(d))>>)

\* Time.MarshalJSON
Time(t) == Object("$time", String(TimeString(t)))

\* prefixValue.MarshalJSON
PrefixText(p) == [as |-> "prefix", v4 |-> p.v4, net |-> p.net]

Prefix(p) ==
  Object(IF p.v4 THEN "$ipv4_interface" ELSE "$ipv6_interface", String(PrefixText(p)))

\* encoding/json on a value transform has not touched: the types of the standard
\* library have encodings of their own, and a whole number is written without a
\* fraction.
NativeOf(native, v) ==
  CASE v.g = "time" -> String([as |-> "rfc3339", sec |-> v.sec, ms |-> v.ms])
    [] v.g = "prefix" -> String(PrefixText(v))
    [] v.g = "stamp" -> DateTime(v.of)
    [] v.g = "date" -> Date(v)
    [] v.g = "clock" -> Time(v)
    [] v.g = "set" -> Object("$set", List(Each(native, v.items)))
    [] v.g \in {"list", "slice"} -> List(Each(native, v.items))
    [] v.g \in {"map", "table", "struct"} -> Map(v.keys, Each(native, v.items))
    [] v.g = "whole" -> [g |-> "int", n |-> v.n]
    [] OTHER -> v

Native[v \in GoValues] == NativeOf(Native, v)

\* Marshal: transform goes into sets, maps and lists, and leaves what it does
\* not know to encoding/json.
MarshalOf(marshal, v) ==
  CASE v.g = "time" -> DateTime(v)
    [] v.g = "prefix" -> Prefix(v)
    [] v.g = "set" -> Object("$set", List(Each(marshal, v.items)))
    [] v.g = "list" -> List(Each(marshal, v.items))
    [] v.g = "map" -> Map(v.keys, Each(marshal, v.items))
    [] OTHER -> Native[v]

Marshal[v \in GoValues] == MarshalOf(Marshal, v)

-----------------------------------------------------------------------------
(* Decoding *)

\* Go's division rounds towards zero.
Instant(ms) ==
  LET q == IF ms >= 0 THEN ms \div 1000 ELSE -((-ms) \div 1000)
      rem == ms - q * 1000
  IN IF rem < 0 THEN [g |-> "time", sec |-> q - 1, ms |-> rem + 1000]
                ELSE [g |-> "time", sec |-> q, ms |-> rem]

ReviveDate(raw) == IF raw.g = "int" THEN Instant(raw.n) ELSE Bad

ReviveTime(raw) == IF raw.g = "string" THEN ParseTime(raw.text) ELSE Bad

\* The text decides the family, not the key.
RevivePrefix(raw) ==
  IF raw.g = "string" /\ raw.text.as = "prefix"
    THEN [g |-> "prefix", v4 |-> raw.text.v4, net |-> raw.text.net] ELSE Bad

IsDate(v) == v.keys = <<"$type", "$value">> /\ v.items[1] = Word("date")

ReviveDay(raw) == IF raw.g = "string" THEN ParseDate(raw.text) ELSE Bad

ReviveSet(revive, raw) ==
  IF raw.g = "list" THEN Whole([g |-> "set", items |-> Each(revive, raw.items)]) ELSE Bad

ReviveObject(revive, obj) ==
  CASE obj.keys = <<"$date">> -> ReviveDate(obj.items[1])
    [] obj.keys = <<"$time">> -> ReviveTime(obj.items[1])
    [] obj.keys = <<"$set">> -> ReviveSet(revive, obj.items[1])
    [] obj.keys \in {<<"$ipv4_interface">>, <<"$ipv6_interface">>} -> RevivePrefix(obj.items[1])
    [] IsDate(obj) -> ReviveDay(obj.items[2])
    [] OTHER -> Whole(Map(obj.keys, Each(revive, obj.items)))

ReviveOf(revive, v) ==
  CASE v.g = "huge" -> Bad
    [] v.g = "list" -> Whole(List(Each(revive, v.items)))
    [] v.g = "map" -> ReviveObject(revive, v)
    [] OTHER -> v

Revive[v \in Documents] == ReviveOf(Revive, v)

\* Unmarshal of a text: a document and the character after it.  dec.More takes
\* a closing bracket or brace for the end of a list or object it is in.
Unmarshal(doc, next) ==
  IF doc \in Documents /\ next \in {"", "]", "}"} THEN Revive[doc] ELSE Bad

\* UnmarshalJSON of the four types: other keys do not matter, a null or missing
\* one is an error, and the items of a set are left as they are.
Field(doc, key) ==
  IF doc.g = "map" /\ \E i \in DOMAIN doc.keys : doc.keys[i] = key
    THEN doc.items[CHOOSE i \in DOMAIN doc.keys : doc.keys[i] = key]
    ELSE [g |-> "missing"]

DateTimeOf(doc) == ReviveDate(Field(doc, "$date"))

TimeOf(doc) == ReviveTime(Field(doc, "$time"))

DateOf(doc) == IF Field(doc, "$type") = Word("date") THEN ReviveDay(Field(doc, "$value")) ELSE Bad

SetOfItems(doc) ==
  LET raw == Field(doc, "$set") IN
  IF raw.g = "list" THEN [g |-> "set", items |-> raw.items] ELSE Bad

UnmarshalTyped(type, doc) ==
  IF doc \notin Documents THEN Bad
  ELSE CASE type = "time" -> DateTimeOf(doc)
         [] type = "clock" -> TimeOf(doc)
         [] type = "date" -> DateOf(doc)
         [] type = "set" -> SetOfItems(doc)
=============================================================================
