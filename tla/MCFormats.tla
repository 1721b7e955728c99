------------------------------ MODULE MCFormats ------------------------------
EXTENDS Formats

Number(n) == [g |-> "int", n |-> n]
At(sec, ms) == [g |-> "time", sec |-> sec, ms |-> ms]
Day(y, m, d) == [g |-> "date", y |-> y, m |-> m, d |-> d]
Clock(s, ns, zoned, off) ==
  [g |-> "clock", h |-> 23, m |-> 59, s |-> s, ns |-> ns, zoned |-> zoned, off |-> off]
Net(v4) == [g |-> "prefix", v4 |-> v4, net |-> "net"]
SetOf(items) == [g |-> "set", items |-> items]

\* SomeTimes on both sides of 1970, with and without milliseconds.
SomeTimes == {At(sec, ms) : sec \in {-2, -1, 0, 1, 1000}, ms \in {0, 1, 500, 999}}

SomeClocks ==
  {Clock(59, ns, FALSE, 0) : ns \in {0, 999, 1000, 500000000, 999999999}}
  \cup {Clock(0, 0, TRUE, off) : off \in {0, 59, -59, 19800, -12600, 86340, -86340}}

SomeDates == {Day(2024, 2, 29), Day(1, 1, 1), Day(9999, 12, 31), Day(2000, 2, 29)}

SomeLeaves ==
  SomeTimes \cup SomeClocks \cup SomeDates \cup {Net(TRUE), Net(FALSE), Number(-5), Word("x"),
    [g |-> "atom", a |-> "null"], [g |-> "float", a |-> "1.5"], [g |-> "whole", n |-> 5],
    String([as |-> "clock", h |-> 1, m |-> 2, s |-> 3, fraction |-> <<>>, zone |-> [kind |-> "none"]])}

SomeNested ==
  {SetOf(<<>>), SetOf(<<At(-1, 500), SetOf(<<Day(2024, 2, 29)>>)>>),
   List(<<Net(TRUE), Object("at", Clock(1, 0, TRUE, 3600))>>),
   Object("$other", At(1, 0)), Object("list", List(<<Object("$value", Number(1))>>)),
   Map(<<"$date", "$set">>, <<Number(1), Number(1)>>),
   Map(<<"$type", "$value">>, <<Word("pool"), Word("pool")>>)}

MCMessages == SomeLeaves \cup SomeNested

\* Typed slices and maps and structs as well, with the types that encode themselves.
MCValues ==
  SomeLeaves \cup SomeNested
  \cup {[g |-> "stamp", of |-> At(-1, 500)],
        [g |-> "slice", items |-> <<Day(2024, 2, 29), Clock(1, 0, FALSE, 0)>>],
        [g |-> "slice", items |-> <<At(1, 500), Net(TRUE)>>],
        List(<<[g |-> "slice", items |-> <<List(<<>>), SetOf(<<Net(FALSE)>>)>>]>>),
        [g |-> "table", keys |-> <<"at">>, items |-> <<At(1, 500)>>],
        Object("a", [g |-> "table", keys |-> <<"at", "on">>, items |-> <<Day(1, 1, 1), [g |-> "whole", n |-> 5]>>]),
        [g |-> "slice", items |-> <<[g |-> "struct", keys |-> <<"at">>, items |-> <<At(1, 500)>>]>>],
        [g |-> "struct", keys |-> <<"at", "on">>,
         items |-> <<[g |-> "stamp", of |-> At(1, 500)], SetOf(<<Day(1, 1, 1)>>)>>],
        SetOf(<<SetOf(<<SetOf(<<Day(1, 1, 1)>>)>>)>>)}

ClockText(h, m, s, fraction, zone) ==
  String([as |-> "clock", h |-> h, m |-> m, s |-> s, fraction |-> fraction, zone |-> zone])
NoZone == [kind |-> "none"]
DateText(y, m, d) == String([as |-> "date", y |-> y, m |-> m, d |-> d])

SomeClockTexts ==
  {ClockText(h, m, s, <<>>, NoZone) : h \in {0, 24}, m \in {59, 60}, s \in {Absent, Junk, 0, 60}}
  \cup {ClockText(1, 2, 3, f, [kind |-> "Z"]) :
          f \in {<<5>>, <<0, 0, 1>>, <<1, 2, 3, 4, 5, 6, 7, 8, 9, 9>>}}

DateTexts == {DateText(y, m, d) : y \in {1900, 2000, 2023, 2024}, m \in {0, 2, 4, 13}, d \in {0, 1, 28, 29, 30, 31}}

MCOthers ==
  {Object("$time", t) : t \in SomeClockTexts \cup {Word("x"), Number(1)}}
  \cup {Map(<<"$type", "$value">>, <<Word(t), d>>) :
          t \in {"date", "pool"}, d \in DateTexts \cup {Word("x"), Number(1)}}
  \cup {Object("$date", d) : d \in {Word("x"), [g |-> "float", a |-> "1.5"], [g |-> "whole", n |-> 1], [g |-> "atom", a |-> "null"]}}
  \cup {Object("$ipv4_interface", d) : d \in {Word("x"), Number(1), String(PrefixText(Net(FALSE)))}}
  \cup {Object("$set", Number(1)), Object("a", [g |-> "huge"]), List(<<Number(1), [g |-> "huge"]>>)}

-----------------------------------------------------------------------------

Header(name) == [kind |-> "section", name |-> name]
Pair(key, value) == [kind |-> "pair", key |-> key, value |-> value]

MCLines ==
  {Header(n) : n \in {"", "DEFAULT", "TRUENAS_API_KEY", "nas", "backup"}}
  \cup {Pair("raw_key", "1-a"), Pair("raw_key", "2-b"), Pair("api_key_id", 7), Pair("api_key_id", NotInt),
        [kind |-> "other"]}

MCShapes ==
  {<<k>> : k \in {"$date", "$time", "$set", "$ipv4_interface", "$ipv6_interface", "$other", "$value",
               "at", "list", "a"}}
  \cup {<<"$type", "$value">>, <<"$date", "$set">>, <<"at", "on">>}
=============================================================================
