------------------------------- MODULE KeyFile -------------------------------
(***************************************************************************)
(* The key argument of LoginWithAPIKey (authkey.go).  A text is what the   *)
(* user passes or what the file he names holds, told apart by syntax:      *)
(*                                                                         *)
(*   [syntax |-> "raw", raw |-> r]         matches <digits>-<letters>      *)
(*   [syntax |-> "json", data |-> d]       a JSON object                   *)
(*   [syntax |-> "ini", lines |-> s]       anything else, as lines         *)
(*   [syntax |-> "path", holds |-> text]   the path of a readable file     *)
(*   [syntax |-> "path"]                   of a file that cannot be read   *)
(*                                                                         *)
(* A raw key r is [dash, id, secret], id being NotInt if Atoi refuses it.  *)
(* A value in d is [type, is]; the content of a string that holds a key in *)
(* base64 is <<kind, ...>>, or Garbled.  Comments and blank lines of an    *)
(* INI file are left out of its lines, and names are in lower case.        *)
(***************************************************************************)
EXTENDS Integers, Sequences

NotInt == -1
Garbled == <<>>
Invalid == [ok |-> FALSE]
KeyFields == {"client_key", "stored_key", "server_key"}

IsContent(text) == text.syntax \in {"raw", "json", "ini"}
IsText(text) ==
  \/ IsContent(text)
  \/ text.syntax = "path" /\ ("holds" \in DOMAIN text => IsContent(text.holds))

-----------------------------------------------------------------------------
(* A wrong form of a definition below, which no specification uses. *)

\* [DEFAULT] counts as a named section.
NamedAll(sections, order) == DOMAIN sections

-----------------------------------------------------------------------------
(* newRawKeyMaterial *)

RawMaterial(r) ==
  IF r.dash /\ r.id # NotInt
    THEN [ok |-> TRUE, raw |-> TRUE, secret |-> r.secret, apiKeyID |-> r.id]
    ELSE Invalid

-----------------------------------------------------------------------------
(* parseINIKeyConfig *)

With(f, k, v) == [x \in DOMAIN f \cup {k} |-> IF x = k THEN v ELSE f[x]]

Line(config, line) ==
  IF ~config.ok THEN config
  ELSE CASE line.kind = "section" /\ line.name # "" ->
              [config EXCEPT !.current = line.name,
                             !.sections = IF line.name \in DOMAIN @ THEN @
                                          ELSE With(@, line.name, <<>>),
                             !.order = IF line.name \in DOMAIN config.sections \cup {"DEFAULT"}
                                       THEN @ ELSE Append(@, line.name)]
         [] line.kind = "pair" /\ config.current # "" ->
              [config EXCEPT !.sections[config.current] = With(@, line.key, line.value)]
         [] OTHER -> [config EXCEPT !.ok = FALSE]

\* The sections that have a name of their own.
Named(sections, order) == {order[i] : i \in DOMAIN order}

Selected(sections, order) ==
  LET named == Named(sections, order) IN
  CASE named = {} /\ "DEFAULT" \in DOMAIN sections -> {"DEFAULT"}
    [] "TRUENAS_API_KEY" \in named -> {"TRUENAS_API_KEY"}
    [] OTHER -> IF \E n \in named : named = {n} THEN named ELSE {}

\* A value of an INI file is a string, except that api_key_id becomes an int.
IniValue(field, value) == [type |-> IF field = "api_key_id" THEN "int" ELSE "string", is |-> value]

Pairs(pairs) ==
  IF "api_key_id" \in DOMAIN pairs /\ pairs["api_key_id"] = NotInt THEN Invalid
  ELSE [ok |-> TRUE, data |-> [f \in DOMAIN pairs |-> IniValue(f, pairs[f])]]

OfSection(sections, selected) ==
  IF selected = {} THEN Invalid ELSE Pairs(sections[CHOOSE n \in selected : TRUE])

\* The loop over the lines: its state after the first n of them.
Start == [ok |-> TRUE, sections |-> <<>>, order |-> <<>>, current |-> ""]

After(lines) ==
  LET after[n \in 0..Len(lines)] == IF n = 0 THEN Start ELSE Line(after[n - 1], lines[n])
  IN after

ParseIni(lines) ==
  LET config == After(lines)[Len(lines)] IN
  IF config.ok THEN OfSection(config.sections, Selected(config.sections, config.order))
  ELSE Invalid

-----------------------------------------------------------------------------
(* getKeyMaterial *)

\* A JSON number must be whole, and any other type is refused.
IntField(data) ==
  /\ "api_key_id" \in DOMAIN data
  /\ data["api_key_id"].type \in {"int", "number"} /\ data["api_key_id"].is # NotInt

KeyField(data, field) ==
  /\ field \in DOMAIN data
  /\ data[field].type = "string" /\ data[field].is # Garbled

Structured(data) ==
  IF "raw_key" \in DOMAIN data
    THEN IF data["raw_key"].type = "string" THEN RawMaterial(data["raw_key"].is) ELSE Invalid
  ELSE IF IntField(data) /\ \A f \in KeyFields : KeyField(data, f)
    THEN [ok |-> TRUE, raw |-> FALSE, apiKeyID |-> data["api_key_id"].is,
          keys |-> [f \in KeyFields |-> data[f].is]]
  ELSE Invalid

OfConfig(config) == IF config.ok THEN Structured(config.data) ELSE Invalid

Content(text) ==
  CASE text.syntax = "raw" -> RawMaterial(text.raw)
    [] text.syntax = "json" -> Structured(text.data)
    [] text.syntax = "ini" -> OfConfig(ParseIni(text.lines))

\* A file's content is not looked up as a path again.
KeyMaterial(text) ==
  IF text.syntax = "path" /\ "holds" \notin DOMAIN text THEN Invalid
  ELSE Content(IF text.syntax = "path" THEN text.holds ELSE text)
=============================================================================
