----------------------------- MODULE TriggerRules -----------------------------
(***************************************************************************)
(* The rules a hook's settings impose on a payload, a time and a retry:    *)
(* payload schema (payload.rs), payload filters and time windows           *)
(* (trigger_rules/), backoff (retry.rs).  Operators without state.         *)
(*                                                                         *)
(* Words are abstract.  What the code finds out about a word is given:     *)
(* the segments between its dots, the number it reads as, which words it   *)
(* is within and which it matches as a regular expression.                 *)
(*                                                                         *)
(* A JSON value is [type, text, num, fields, items]: how it is displayed,  *)
(* its number, an object's fields, an array's items by index.  An optional *)
(* value is a sequence of at most one.                                     *)
(*                                                                         *)
(* A definition whose comment begins with "Faulty:" is a mistake this code *)
(* could have made, kept to see that the properties notice it.             *)
(***************************************************************************)
EXTENDS Integers, Sequences, FiniteSets

CONSTANTS
  Words,
  Empty,        \* the empty word
  Segments,     \* word -> the words between its dots
  NumberOf,     \* word -> the number it parses as, if it does
  Within,       \* the pairs <<v, w>> of words with v a substring of w
  Matching,     \* the pairs <<pattern, w>> that match
  Patterns,     \* the words that are regular expressions
  WordBits,     \* width of the backoff's multiplier, 32 in the code
  MaxDuration   \* the longest Duration

ASSUME RulesConstants ==
  /\ Empty \in Words /\ Patterns \subseteq Words
  /\ Segments \in [Words -> Seq(Words) \ {<<>>}]
  /\ \A w \in Words : \A i \in DOMAIN Segments[w] : Segments[Segments[w][i]] = <<Segments[w][i]>>
  /\ \A w \in Words : NumberOf[w] \in Seq(Int) /\ Len(NumberOf[w]) <= 1
  /\ Within \subseteq Words \X Words /\ Matching \subseteq Patterns \X Words
  /\ WordBits \in Nat \ {0} /\ MaxDuration \in Nat

Present(o) == o # <<>>
The(o) == o[1]
OrElse(o, default) == IF Present(o) THEN The(o) ELSE default

----
(***************************************************************************)
(* Payload fields and the schema.                                          *)
(***************************************************************************)
Types == {"string", "number", "boolean", "object", "array"}

Get(value, name) ==
  IF name \in DOMAIN value.fields THEN <<value.fields[name]>> ELSE <<>>

\* resolve_field: a walk from object to object.
ResolveField(root, name) ==
  LET path == Segments[name]
      at[i \in 0..Len(path)] ==
        IF i = 0 THEN <<root>>
        ELSE IF Present(at[i - 1]) THEN Get(The(at[i - 1]), path[i]) ELSE <<>>
  IN at[Len(path)]

IsGiven(found) == Present(found) /\ The(found).type # "null"

\* PayloadSchema::validate, for one field.
FieldHolds(field, payload) ==
  LET found == ResolveField(payload, field.name)
  IN IF IsGiven(found) THEN The(found).type = field.type ELSE ~field.required

Conforms(fields, payload) == \A i \in DOMAIN fields : FieldHolds(fields[i], payload)

----
(***************************************************************************)
(* Payload filters.                                                        *)
(***************************************************************************)
Operators == {"equals", "not_equals", "contains", "regex", "exists",
              "gt", "lt", "gte", "lte"}

Compares(op, a, b) ==
  \/ op = "gt" /\ a > b
  \/ op = "lt" /\ a < b
  \/ op = "gte" /\ a >= b
  \/ op = "lte" /\ a <= b

\* numeric_compare: both must be numbers, and a word that displays like one
\* is none.
NumericCompare(op, value, word) ==
  /\ Present(NumberOf[word]) /\ value.type = "number"
  /\ Compares(op, value.num, The(NumberOf[word]))

\* check_filter, for a field that is there.
Satisfies(op, value, word) ==
  CASE op = "equals"     -> value.text = word
    [] op = "not_equals" -> value.text # word
    [] op = "contains"   -> \/ value.type = "string" /\ <<word, value.text>> \in Within
                            \/ value.type = "array"
                               /\ \E i \in DOMAIN value.items : value.items[i].text = word
    [] op = "regex"      -> <<word, value.text>> \in Matching
    [] op = "exists"     -> value.type # "null"
    [] OTHER             -> NumericCompare(op, value, word)

\* A field that is not there satisfies nothing, not_equals included.
FilterHolds(filter, payload) ==
  LET found == ResolveField(payload, filter.field)
  IN Present(found) /\ Satisfies(filter.op, The(found), OrElse(filter.value, Empty))

Passes(filters, payload) == \A i \in DOMAIN filters : FilterHolds(filters[i], payload)

----
(***************************************************************************)
(* Time windows.  A time is a day and a minute of it.                      *)
(***************************************************************************)
Days == {"Mon", "Tue", "Wed", "Thu", "Fri", "Sat", "Sun"}
LastMinute == 23 * 60 + 59

DayMatches(window, day) ==
  window.days = <<>> \/ \E i \in DOMAIN window.days : window.days[i] = day

\* Faulty: a window's last minute is in it.
OpenToTheEnd(window, day, minute) ==
  DayMatches(window, day) /\ minute \in window.start..window.end

\* A window with a time that does not parse (here: no minute) is skipped.
WindowOpen(window, day, minute) ==
  /\ window.start \in 0..LastMinute /\ window.end \in 0..LastMinute
  /\ DayMatches(window, day)
  /\ window.start <= minute /\ minute < window.end

InWindow(windows, day, minute) ==
  \E i \in DOMAIN windows : WindowOpen(windows[i], day, minute)

----
(***************************************************************************)
(* Backoff.                                                                *)
(***************************************************************************)
AtMost(a, b) == IF a <= b THEN a ELSE b

\* Duration::saturating_mul
SaturatingMul(d, n) == AtMost(d * n, MaxDuration)

\* 1u32 << min(attempt - 1, 31)
Multiplier(attempt) == 2 ^ AtMost(attempt - 1, WordBits - 1)

CalculateBackoff(strategy, attempt, initial, max) ==
  AtMost(CASE strategy = "none"        -> 0
           [] strategy = "linear"      -> SaturatingMul(initial, attempt)
           [] strategy = "exponential" -> SaturatingMul(initial, Multiplier(attempt)),
         max)

\* run_with_retries: the pauses before the retries.
Pauses(retries) ==
  [attempt \in 1..retries.count |->
     CalculateBackoff(retries.backoff, attempt, retries.initial, retries.max)]

=============================================================================
