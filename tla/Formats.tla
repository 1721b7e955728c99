------------------------------- MODULE Formats -------------------------------
(***************************************************************************)
(* Texts one side writes and the other reads: documents in extended JSON   *)
(* from this client and from the server, and INI files with an API key.    *)
(* The client sends on what it has read, as programs do that change a      *)
(* setting.  meant is what the reader ought to get from the text.          *)
(***************************************************************************)
EXTENDS Ejson, KeyFile

CONSTANTS Values,    \* values of the programs that use the client
          Messages,  \* values of the server
          Others,    \* other documents there may be
          Lines,     \* lines of key files
          MaxLines   \* bound on their number

ASSUME FormatsAssumption ==
  /\ Values \cup Messages \subseteq GoValues /\ Others \subseteq Documents
  /\ MaxLines \in Nat
  /\ \A line \in Lines : line.kind \in {"section", "pair", "other"}

VARIABLES
  text,   \* the text written last
  meant,  \* history: what its reader ought to get
  reached, \* history: transform got at all there was to convert
  got     \* what its reader got

vars == <<text, meant, reached, got>>

Unread == [g |-> "unread"]
Anything == [g |-> "anything"]

\* rest is what follows the document in the text.
Document(doc, rest) == [format |-> "ejson", doc |-> doc, rest |-> rest]
KeyText(lines) == [format |-> "ini", lines |-> lines]

Init == text = KeyText(<<>>) /\ meant = Bad /\ reached = TRUE /\ got = Unread

-----------------------------------------------------------------------------
(* What the writers mean *)

\* Values of Go as they come back: an encoded time has whole seconds, or the
\* milliseconds the server gives it, a time of day has microseconds, and its
\* offset whole minutes.
WholeSeconds(t) == [t EXCEPT !.ms = 0]

Minutes(off) == IF off < 0 THEN -((-off) \div 60) * 60 ELSE (off \div 60) * 60

KeptClock(t) ==
  [t EXCEPT !.ns = (@ \div 1000) * 1000, !.off = IF t.zoned THEN Minutes(@) ELSE 0]

\* "Other values are encoded with encoding/json as usual": there the types of the
\* standard library are texts, and a whole number comes back as an int64.
KeptNativeOf(kept, v) ==
  CASE v.g = "time" -> String([as |-> "rfc3339", sec |-> v.sec, ms |-> v.ms])
    [] v.g = "prefix" -> String(PrefixText(v))
    [] v.g = "stamp" -> WholeSeconds(v.of)
    [] v.g = "clock" -> KeptClock(v)
    [] v.g = "whole" -> [g |-> "int", n |-> v.n]
    [] v.g = "set" -> [g |-> "set", items |-> Each(kept, v.items)]
    [] v.g \in {"list", "slice"} -> List(Each(kept, v.items))
    [] v.g \in {"map", "table", "struct"} -> Map(v.keys, Each(kept, v.items))
    [] OTHER -> v

KeptNative[v \in GoValues] == KeptNativeOf(KeptNative, v)

\* "Values of type time.Time, Date, Time, Set and netip.Prefix are converted [...],
\* including when nested inside maps and slices", of whatever type.  The server has
\* one kind of each, and writes its floats with a fraction.
KeptOf(kept, v, server) ==
  CASE v.g = "time" -> IF server THEN v ELSE WholeSeconds(v)
    [] v.g = "prefix" \/ (v.g = "whole" /\ server) -> v
    [] v.g = "set" -> [g |-> "set", items |-> Each(kept, v.items)]
    [] v.g \in {"list", "slice"} -> List(Each(kept, v.items))
    [] v.g \in {"map", "table"} -> Map(v.keys, Each(kept, v.items))
    [] OTHER -> KeptNative[v]

Kept(server) == LET kept[v \in GoValues] == KeptOf(kept, v, server) IN kept

\* v holds a time or prefix that is not in a struct.
BareOf(bare, v) ==
  \/ v.g \in {"time", "prefix"}
  \/ /\ v.g \in {"list", "set", "map", "slice", "table"}
     /\ \E i \in DOMAIN v.items : bare[v.items[i]]

Bare[v \in GoValues] == BareOf(Bare, v)

\* transform reaches every time and prefix of v that Marshal says it converts: it
\* goes into []any and map[string]any, and into no other slice or map.
ReachesOf(reaches, v) ==
  CASE v.g \in {"list", "set", "map"} -> \A i \in DOMAIN v.items : reaches[v.items[i]]
    [] v.g \in {"slice", "table"} -> ~Bare[v]
    [] OTHER -> TRUE

Reaches[v \in GoValues] == ReachesOf(Reaches, v)

\* The server's encoder: milliseconds, and offsets with seconds if they have
\* some.
ServerDocumentOf(document, v) ==
  LET off == IF v.off < 0 THEN -v.off ELSE v.off IN
  CASE v.g = "time" -> Object("$date", [g |-> "int", n |-> v.sec * 1000 + v.ms])
    [] v.g = "clock" /\ v.zoned ->
         Object("$time", String([TimeString(v) EXCEPT !.zone.s = off % 60]))
    [] v.g = "whole" -> v
    [] v.g = "set" -> Object("$set", List(Each(document, v.items)))
    [] v.g \in {"list", "slice"} -> List(Each(document, v.items))
    [] v.g \in {"map", "table"} -> Map(v.keys, Each(document, v.items))
    [] OTHER -> Marshal[v]

ServerDocument[v \in GoValues] == ServerDocumentOf(ServerDocument, v)

\* What an INI file says, from its lines: the section a line is in is that of
\* the last header before it, and the last pair of a key counts.
Headers(lines) == {i \in DOMAIN lines : lines[i].kind = "section"}
Section(lines, i) == lines[CHOOSE j \in Headers(lines) :
                             j <= i /\ \A k \in Headers(lines) : k <= i => k <= j].name

Readable(lines) ==
  /\ \A i \in DOMAIN lines : lines[i].kind = "section" => lines[i].name # ""
  /\ \A i \in DOMAIN lines : lines[i].kind # "section" =>
       lines[i].kind = "pair" /\ \E j \in Headers(lines) : j < i

PairsOf(lines, name) ==
  {i \in DOMAIN lines : lines[i].kind = "pair" /\ Section(lines, i) = name}

Said(lines, name) ==
  [key \in {lines[i].key : i \in PairsOf(lines, name)} |->
     lines[CHOOSE i \in PairsOf(lines, name) :
             /\ lines[i].key = key
             /\ \A j \in PairsOf(lines, name) : lines[j].key = key => j <= i].value]

\* "The [TRUENAS_API_KEY] section wins, a [DEFAULT] section or a single named
\* section is accepted".
SectionMeant(lines) ==
  LET names == {lines[i].name : i \in Headers(lines)}
      own == names \ {"DEFAULT"}
  IN CASE "TRUENAS_API_KEY" \in names -> {"TRUENAS_API_KEY"}
       [] own = {} -> names
       [] OTHER -> {n \in own : own = {n}}

FileMeant(lines) ==
  IF ~Readable(lines) \/ SectionMeant(lines) = {} THEN Bad
  ELSE [g |-> "file", m |-> Said(lines, CHOOSE n \in SectionMeant(lines) : TRUE)]

-----------------------------------------------------------------------------

Blank == text = KeyText(<<>>)

Encode(v) ==
  /\ text' = Document(Marshal[v], "")
  /\ meant' = Kept(FALSE)[v] /\ reached' = Reaches[v] /\ got' = Unread

\* A program sends on what it has read.
SendOn ==
  /\ text.format = "ejson" /\ got \notin {Unread, Bad}
  /\ Encode(got)

ServerSends(v) ==
  /\ Blank
  /\ text' = Document(ServerDocument[v], "")
  /\ meant' = Kept(TRUE)[v] /\ reached' = TRUE /\ got' = Unread

SomebodySends(doc) ==
  /\ Blank
  /\ \E rest \in {"", "]", "x"} : text' = Document(doc, rest)
  /\ meant' = Anything /\ reached' = TRUE /\ got' = Unread

AddLine(line) ==
  /\ text.format = "ini" /\ Len(text.lines) < MaxLines
  /\ text' = KeyText(Append(text.lines, line))
  /\ meant' = FileMeant(Append(text.lines, line)) /\ reached' = TRUE /\ got' = Unread

Decode ==
  /\ text.format = "ejson"
  /\ got' = Unmarshal(text.doc, text.rest)
  /\ UNCHANGED <<text, meant, reached>>

\* The values as the file has them; an api_key_id must be a number.
ReadKey ==
  /\ text.format = "ini"
  /\ LET config == ParseIni(text.lines) IN
     got' = IF config.ok THEN [g |-> "file", m |-> [f \in DOMAIN config.data |-> config.data[f].is]]
                         ELSE Bad
  /\ UNCHANGED <<text, meant, reached>>

Next ==
  \/ \E v \in Values : Blank /\ Encode(v)
  \/ SendOn
  \/ \E v \in Messages : ServerSends(v)
  \/ \E doc \in Others : SomebodySends(doc)
  \/ \E line \in Lines : AddLine(line)
  \/ Decode
  \/ ReadKey

Spec == Init /\ [][Next]_vars

-----------------------------------------------------------------------------

\* A document is read as it was meant, also one the client has made from what
\* it has read: times before 1970, a time of day with an offset, sets in sets.
\* This holds of a value with times or prefixes in typed slices or maps in no
\* case, whatever the comment of Marshal says: transform leaves those alone.
ReadAsMeant ==
  text.format = "ejson" /\ got # Unread /\ meant # Anything =>
    IF text.doc \in Documents THEN got = meant <=> reached ELSE got = Bad

Extended(doc) ==
  doc.g = "map" /\ doc.keys \in {<<"$date">>, <<"$time">>, <<"$type", "$value">>}

\* A field of type DateTime, Time or Date gets the value a map would get, and
\* an error where a map would get something else.
TypedAgrees ==
  text.format = "ejson" /\ text.rest = "" /\ got # Unread /\ Extended(text.doc) =>
    \A type \in {"time", "clock", "date"} :
      UnmarshalTyped(type, text.doc) = IF got.g = type THEN got ELSE Bad

\* A key file gives the pairs of the section its documentation names.
KeyFileAsDocumented ==
  text.format = "ini" /\ got # Unread =>
    got = IF meant # Bad /\ "api_key_id" \in DOMAIN meant.m /\ meant.m["api_key_id"] = NotInt
            THEN Bad ELSE meant
=============================================================================
