-------------------------- MODULE StructuredOutput --------------------------
(***************************************************************************)
(* One structured-output call of llm/factory.ts: a model writes its answer *)
(* as JSON text, a deadline may fire at any moment, and the call ends in   *)
(* the answer or in one kind of error.  The model may be weak: it wraps    *)
(* the JSON in prose, writes line breaks raw, leaves a backslash or        *)
(* a quote unescaped, or is cut off at its output limit.                   *)
(*                                                                         *)
(* Text is a sequence of character classes:                                *)
(*   "q" quote, "b" backslash, "nl" raw line break, "o"/"c" an opening and *)
(*   a closing brace, "l"/"r" an opening and a closing bracket of a list,  *)
(*   "n" a letter JSON may escape, "u" the letter of a \u escape, "x" any  *)
(*   other letter.                                                         *)
(* The answer is an object with one string, which stands for the free text *)
(* of a page body; keys, commas and the other fields are left out.         *)
(***************************************************************************)
EXTENDS Integers, ProviderSchema

CONSTANTS MaxSaid,    \* characters of the free text the model writes
          MaxLost     \* characters a cut takes from the end of an answer

ASSUME MaxSaidAssumption == MaxSaid \in Nat \ {0} /\ MaxLost \in Nat

VARIABLES call,       \* the caller's side: runStructured
          gen         \* the provider's side: what the model has written

callVars == <<call, gen>>

---------------------------------------------------------------------------
(* JSON.parse, for the texts above: a string, or braces around at most one *)
(* string or object.  The value is the depth of the braces and the string. *)
(* A list parses too, but no schema takes one, and a text that is a list   *)
(* or has one in front offers nothing else: a list counts as a failure.    *)

NoValue  == [ok |-> FALSE, depth |-> 0, text |-> <<>>, str |-> FALSE]

\* The string between the quotes, with its escapes undone, or a failure.
UnescapeStep(acc, ch) ==
  IF acc.esc
    THEN IF ch \in {"q", "b"}
           THEN [acc EXCEPT !.esc = FALSE, !.out = Append(@, ch)]
         ELSE IF ch = "n"
           THEN [acc EXCEPT !.esc = FALSE, !.out = Append(@, "nl")]
         ELSE [acc EXCEPT !.bad = TRUE]
  ELSE IF ch = "b" THEN [acc EXCEPT !.esc = TRUE]
  ELSE IF ch \in {"q", "nl"} THEN [acc EXCEPT !.bad = TRUE]
  ELSE [acc EXCEPT !.out = Append(@, ch)]

NothingUnescaped == [out |-> <<>>, esc |-> FALSE, bad |-> FALSE]

Unescape(body) ==
  LET upTo[n \in 0..Len(body)] ==
        IF n = 0 THEN NothingUnescaped ELSE UnescapeStep(upTo[n - 1], body[n])
  IN  upTo[Len(body)]

\* Without the line breaks around it.
Trim(text) ==
  LET solid == {i \in DOMAIN text : text[i] # "nl"}
  IN  IF solid = {} THEN <<>>
      ELSE SubSeq(text, CHOOSE i \in solid : \A j \in solid : i <= j,
                        CHOOSE i \in solid : \A j \in solid : j <= i)

\* How many braces the text opens before anything else.
Opens(text) ==
  Cardinality({i \in DOMAIN text : \A j \in 1..i : text[j] = "o"})

JsonValue(text) ==
  LET k    == Opens(text)
      core == SubSeq(text, k + 1, Len(text) - k)
      shut == /\ 2 * k <= Len(text)
              /\ \A i \in (Len(text) - k + 1)..Len(text) : text[i] = "c"
      body == SubSeq(core, 2, Len(core) - 1)
      read == Unescape(body)
  IN  IF k > 0 /\ shut /\ core = <<>>
        THEN [ok |-> TRUE, depth |-> k, text |-> <<>>, str |-> FALSE]
      ELSE IF /\ shut /\ Len(core) >= 2
              /\ core[1] = "q" /\ core[Len(core)] = "q"
              /\ ~read.bad /\ ~read.esc
        THEN [ok |-> TRUE, depth |-> k, text |-> read.out, str |-> TRUE]
      ELSE NoValue

Parse(raw) == JsonValue(Trim(raw))

---------------------------------------------------------------------------
(* The tolerant steps tried when JSON.parse refuses the text.              *)

VALID_JSON_ESCAPE_CHARS == {"q", "b", "n", "u"}

\* Mutant: a raw line break is dropped instead of escaped.
RepairStep_Drops(acc, ch) ==
  IF acc.in /\ ~acc.esc /\ ch = "nl" THEN acc
  ELSE IF acc.esc
    THEN [acc EXCEPT !.esc = FALSE,
                     !.out = @ \o (IF ch \in VALID_JSON_ESCAPE_CHARS
                                     THEN <<ch>> ELSE <<"b", ch>>)]
  ELSE [acc EXCEPT !.out = Append(@, ch),
                   !.esc = acc.in /\ ch = "b",
                   !.in = IF ch = "q" THEN ~@ ELSE @]

RepairStep(acc, ch) ==
  IF acc.esc
    THEN [acc EXCEPT !.esc = FALSE,
                     !.out = @ \o (IF ch \in VALID_JSON_ESCAPE_CHARS
                                     THEN <<ch>> ELSE <<"b", ch>>)]
  ELSE IF acc.in /\ ch = "b"
    THEN [acc EXCEPT !.esc = TRUE, !.out = Append(@, ch)]
  ELSE IF ch = "q"
    THEN [acc EXCEPT !.in = ~@, !.out = Append(@, ch)]
  ELSE IF acc.in /\ ch = "nl"
    THEN [acc EXCEPT !.out = @ \o <<"b", "n">>]
  ELSE [acc EXCEPT !.out = Append(@, ch)]

\* Inside strings, a raw line break is escaped and a backslash that escapes
\* nothing is doubled.
NothingRepaired == [out |-> <<>>, in |-> FALSE, esc |-> FALSE]

Repair(raw) ==
  LET upTo[n \in 0..Len(raw)] ==
        IF n = 0 THEN NothingRepaired ELSE RepairStep(upTo[n - 1], raw[n])
  IN  upTo[Len(raw)]

RepairJsonStringLiterals(raw) == Repair(raw).out

\* One character of the scan for the end of the value that "open" begins; only
\* brackets of its own kind count.
\* Mutant: they are counted inside string literals too.
ClosedBy(open) == IF open = "o" THEN "c" ELSE "r"

ScanStep_InStrings(acc, ch, open) ==
  IF acc.done THEN acc
  ELSE IF ch = open THEN [acc EXCEPT !.depth = @ + 1, !.len = @ + 1]
  ELSE IF ch = ClosedBy(open)
    THEN [acc EXCEPT !.depth = @ - 1, !.len = @ + 1, !.done = acc.depth = 1]
  ELSE [acc EXCEPT !.len = @ + 1]

ScanStep(acc, ch, open) ==
  IF acc.done THEN acc
  ELSE LET next == [acc EXCEPT !.len = @ + 1]
       IN  IF acc.esc THEN [next EXCEPT !.esc = FALSE]
           ELSE IF ch = "b" THEN [next EXCEPT !.esc = TRUE]
           ELSE IF ch = "q" THEN [next EXCEPT !.in = ~@]
           ELSE IF ~acc.in /\ ch = open THEN [next EXCEPT !.depth = @ + 1]
           ELSE IF ~acc.in /\ ch = ClosedBy(open)
             THEN [next EXCEPT !.depth = @ - 1, !.done = acc.depth = 1]
           ELSE next

NothingScanned ==
  [depth |-> 0, len |-> 0, in |-> FALSE, esc |-> FALSE, done |-> FALSE]

Scan(rest, open) ==
  LET upTo[n \in 0..Len(rest)] ==
        IF n = 0 THEN NothingScanned ELSE ScanStep(upTo[n - 1], rest[n], open)
  IN  upTo[Len(rest)]

\* The value that begins at the first brace or bracket of the text, or nothing.
\* Stripping a code fence changes nothing here: a fence holds neither.
ExtractJsonValue(raw) ==
  LET starts == {i \in DOMAIN raw : raw[i] \in {"o", "l"}}
      start  == CHOOSE i \in starts : \A j \in starts : i <= j
      rest   == SubSeq(raw, start, Len(raw))
      scan   == Scan(rest, raw[start])
  IN  IF starts = {} THEN <<>>
      ELSE IF scan.done THEN SubSeq(rest, 1, scan.len) ELSE <<>>

\* The first of the candidate texts that parses.
ParseJsonLeniently(raw) ==
  LET extracted == ExtractJsonValue(raw)
      texts == <<raw, RepairJsonStringLiterals(raw)>> \o
               (IF extracted \notin {<<>>, raw}
                  THEN <<extracted, RepairJsonStringLiterals(extracted)>>
                  ELSE <<>>)
      good  == {i \in DOMAIN texts : Parse(texts[i]).ok}
  IN  IF good = {} THEN NoValue
      ELSE Parse(texts[CHOOSE i \in good : \A j \in good : i <= j])

\* The value inside the envelope; a string there is parsed once more.
UnwrapEnvelope(value, wrapped) ==
  IF ~wrapped \/ value.depth = 0 THEN value
  ELSE LET inner == [value EXCEPT !.depth = @ - 1]
       IN  IF inner.depth = 0 /\ inner.str /\ ParseJsonLeniently(inner.text).ok
             THEN ParseJsonLeniently(inner.text)
             ELSE inner

\* The Zod schema: one object with its string, which is not empty.
SafeParse(value) ==
  value.ok /\ value.depth = 1 /\ value.str /\ value.text # <<>>

---------------------------------------------------------------------------
(* What the model writes.                                                  *)

CHARS == {"x", "n", "u", "nl", "b", "q", "o", "c", "l", "r"}

\* The correct encoding of a character of a string, and a weak model's.
Escaped(ch) ==
  CASE ch = "nl" -> <<"b", "n">>
    [] ch = "b"  -> <<"b", "b">>
    [] ch = "q"  -> <<"b", "q">>
    [] OTHER     -> <<ch>>

Escape(text) ==
  LET upTo[n \in 0..Len(text)] ==
        IF n = 0 THEN <<>> ELSE upTo[n - 1] \o Escaped(text[n])
  IN  upTo[Len(text)]

\* The JSON of the answer so far: an object, in an envelope if one was asked
\* for, there perhaps as a serialized string.
Braced(text) == <<"o">> \o text \o <<"c">>
Quoted(text) == <<"q">> \o text \o <<"q">>

Payload(form, wire) ==
  LET object == Braced(Quoted(wire))
  IN  CASE form = "object"     -> object
        [] form = "enveloped"  -> Braced(object)
        [] form = "serialized" -> Braced(Quoted(Escape(object)))

\* Prose around the JSON: none, a sentence, a fence or a quotation before and
\* after it, a remark in braces after it; before it a remark in braces or in
\* brackets ("See [1]", whatever stands between them), or an example in the form
\* of the answer.
EXAMPLE == <<"x">>

Around(wrap, text, example) ==
  CASE wrap = "bare"     -> text
    [] wrap = "prose"    -> <<"x", "q", "nl">> \o text \o <<"nl", "q", "x">>
    [] wrap = "after"    -> text \o <<"x", "o", "c">>
    [] wrap = "braces"   -> <<"x", "o", "c">> \o text
    [] wrap = "brackets" -> <<"x", "l", "r">> \o text
    [] wrap = "example"  -> <<"x">> \o (example \o (<<"nl">> \o text))

HIDING == {"braces", "brackets", "example"}
WRAPS  == {"bare", "prose", "after"} \cup HIDING

NoGen == [said |-> <<>>, wire |-> <<>>, weak |-> {}, form |-> "object",
          wrap |-> "bare", lost |-> 0, body |-> <<>>]

\* The model writes one more character, escaped or raw.
Write(ch, raw) ==
  /\ call.at = "body" /\ call.ok /\ Len(gen.said) < MaxSaid
  /\ raw => Escaped(ch) # <<ch>>
  /\ gen.body = <<>>
  /\ gen' = [gen EXCEPT !.said = Append(@, ch),
                        !.wire = @ \o (IF raw THEN <<ch>> ELSE Escaped(ch)),
                        !.weak = IF raw THEN @ \cup {Len(gen.wire) + 1} ELSE @]
  /\ UNCHANGED call

\* The model stops, by itself or "lost" characters before the end because its
\* output limit is reached; the body is complete.  Calls that are not Claude's
\* carry the text as a string.  Claude's tool input is the object itself,
\* which a cut leaves without its fields.
Finish(form, wrap, lost) ==
  /\ call.at = "body" /\ call.ok /\ gen.body = <<>> /\ ~call.aborted
  /\ form \in IF call.wrapped THEN {"enveloped", "serialized"} ELSE {"object"}
  /\ call.provider = "claude" => wrap = "bare" /\ lost < 2 /\ gen.weak = {}
  /\ LET full == Around(wrap, Payload(form, gen.wire), Payload(form, EXAMPLE))
     IN  /\ lost < Len(full)
         /\ gen' = [gen EXCEPT !.form = form, !.wrap = wrap, !.lost = lost,
                               !.body = IF lost > 0 /\ call.provider = "claude"
                                          THEN Braced(<<>>)
                                          ELSE SubSeq(full, 1, Len(full) - lost)]
  /\ UNCHANGED call

---------------------------------------------------------------------------
(* The caller.                                                             *)

PROVIDERS == {"claude", "custom"}
SCHEMAS   == {f1Output, f2Decision, nullableText}

NoCall == [at |-> "idle", provider |-> "custom", wrapped |-> FALSE,
           sent |-> [types |-> {}], strict |-> FALSE, schema |-> Text,
           aborted |-> FALSE, ok |-> FALSE, outcome |-> "none",
           output |-> <<>>]

CallInit == call = NoCall /\ gen = NoGen

Fail(kind) == call' = [call EXCEPT !.at = "done", !.outcome = kind]

\* The request is built and sent; the timer starts.
StartCall(provider, schema) ==
  /\ call.at = "idle"
  /\ LET sent == ToProviderSchema(schema)
     IN  call' = [call EXCEPT !.at = "fetch", !.provider = provider,
                              !.schema = schema, !.sent = sent.schema,
                              !.wrapped = sent.wrapped,
                              !.strict = /\ provider # "claude"
                                         /\ IsOpenAiStrictCompatible(sent.schema)]
  /\ UNCHANGED gen

\* The deadline passes while something is awaited.
Deadline ==
  /\ call.at \in {"fetch", "body"} /\ ~call.aborted /\ gen.body = <<>>
  /\ call' = [call EXCEPT !.aborted = TRUE]
  /\ UNCHANGED gen

\* fetch rejects: the deadline aborted it, something else did, or the network
\* failed.
FetchRejects ==
  /\ call.at = "fetch"
  /\ \E kind \in IF call.aborted THEN {"timeout"} ELSE {"aborted", "provider_error"} :
       Fail(kind)
  /\ UNCHANGED gen

Headers(ok) ==
  /\ call.at = "fetch" /\ ~call.aborted
  /\ call' = [call EXCEPT !.at = "body", !.ok = ok]
  /\ UNCHANGED gen

\* The body of an error answer is drained, however that ends.
HttpError ==
  /\ call.at = "body" /\ ~call.ok
  /\ Fail("http_error")
  /\ UNCHANGED gen

\* Reading the body rejects: the deadline, or a broken connection.
BodyRejects ==
  /\ call.at = "body" /\ call.ok /\ gen.body = <<>>
  /\ Fail(IF call.aborted THEN "timeout" ELSE "provider_error")
  /\ UNCHANGED gen

\* The model sent no choice, no tool call or no content.
NoContent ==
  /\ call.at = "body" /\ call.ok /\ gen.body = <<>> /\ gen.said = <<>>
  /\ ~call.aborted
  /\ \E kind \in {"empty_output", "provider_error"} : Fail(kind)
  /\ UNCHANGED gen

\* The body is here: parse, unwrap, validate.
Receive ==
  /\ call.at = "body" /\ call.ok /\ gen.body # <<>>
  /\ LET value == UnwrapEnvelope(ParseJsonLeniently(gen.body), call.wrapped)
     IN  IF SafeParse(value)
           THEN call' = [call EXCEPT !.at = "done", !.outcome = "output",
                                     !.output = value.text]
           ELSE Fail(IF gen.lost > 0 THEN "output_truncated"
                                     ELSE "schema_validation_failed")
  /\ UNCHANGED gen

CallNext ==
  \/ \E p \in PROVIDERS, s \in SCHEMAS : StartCall(p, s)
  \/ \E ch \in CHARS, raw \in BOOLEAN : Write(ch, raw)
  \/ \E form \in {"object", "enveloped", "serialized"}, wrap \in WRAPS,
        lost \in 0..MaxLost : Finish(form, wrap, lost)
  \/ Deadline \/ FetchRejects \/ HttpError \/ BodyRejects
  \/ NoContent \/ Receive
  \/ \E ok \in BOOLEAN : Headers(ok)

CallSpec == CallInit /\ [][CallNext]_callVars

---------------------------------------------------------------------------
(* Properties.                                                             *)

\* A raw backslash reads as the escape of the character after it whenever
\* that character, or the quote that ends the string, can be escaped; a raw
\* quote ends the string.  Nobody can tell such a text from what was meant.
Ambiguous(g) ==
  \E i \in g.weak :
    \/ g.wire[i] = "q"
    \/ /\ g.wire[i] = "b"
       /\ i = Len(g.wire) \/ g.wire[i + 1] \in VALID_JSON_ESCAPE_CHARS

\* An accepted answer is content the model wrote, undamaged: no repair,
\* extraction or unwrapping turns a text into different content (factory.ts
\* parseJsonLeniently, "guessing would risk fabricating content").  It is what
\* the model meant, except that an example in the form of the answer, before
\* the answer, is taken for it.
OutputIsWritten ==
  call.outcome = "output" /\ ~Ambiguous(gen) =>
    call.output = IF gen.wrap = "example" THEN EXAMPLE ELSE gen.said

\* A damaged text is read all the same when the damage is one of the two that
\* are repaired: a complete answer, in prose without braces or brackets before
\* it, whose backslashes are followed by a letter, is accepted.
Legible(g) ==
  /\ g.said # <<>> /\ g.lost = 0 /\ g.wrap \notin HIDING /\ ~Ambiguous(g)
  /\ \A i \in g.weak : g.wire[i] = "b" => g.wire[i + 1] # "nl"

LegibleIsRead ==
  call.at = "done" /\ gen.body # <<>> /\ Legible(gen)
    => call.outcome = "output"

\* The schema that steers the model rules out no answer the validation
\* afterwards would accept (factory.ts toProviderSchema, "only has to steer
\* the model, not gate correctness").
SteeringAdmits ==
  call.at = "fetch" =>
    \A answer \in Answers(call.schema) : Admits(call.sent, answer)

\* Counterexample only: the payload of a complete answer without any damage is
\* recovered from the prose around it (factory.ts:571-576).  It is not when the
\* prose before it holds a brace or a bracket: the value that begins there is
\* taken instead.
PayloadIsRecovered ==
  call.at = "done" /\ gen.body # <<>> /\ gen.said # <<>> /\ gen.lost = 0
     /\ gen.weak = {}
    => call.outcome = "output" /\ call.output = gen.said

\* The second of the two kinds of damage the repair names, a backslash that
\* escapes nothing, is always repaired (factory.ts:493-506).  A backslash at
\* the end of a line is not: the line break after it stays raw.
BackslashesAreRepaired ==
  call.at = "done" /\ gen.body # <<>> /\ gen.said # <<>> /\ gen.lost = 0
     /\ gen.wrap = "bare" /\ ~Ambiguous(gen)
    => call.outcome = "output"
=============================================================================
