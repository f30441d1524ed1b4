----------------------------- MODULE MCHookEdits -----------------------------
(***************************************************************************)
(* A small instance of HookEdits for TLC: a plain hook, and hooks that     *)
(* differ from it in one or two respects, awkward ones among them.         *)
(***************************************************************************)
EXTENDS HookEdits

Names == {"a", "b", "a.b", "a_b", "0", "a.0"}
SmallWords ==
  Names \cup {"", " a ", "v", " v ", " v", "5", "v:a", "equals", "a:equals", "equals:v", "[",
              "two lines", "A", "B", "$A", "$B", "a:{{a.b}}", "a$A$B",
              "a-v", "a--a", "a-a-a"}
  \cup Types \cup Operators \cup {"required", "optional"}

SmallSegments == [w \in SmallWords |-> 
  IF w = "a.b" THEN <<"a", "b">> ELSE IF w = "a.0" THEN <<"a", "0">> ELSE <<w>>]
SmallSlugs == [w \in {"", "a", "a-v", "a--a", "a-a-a"} |->
  CASE w = "a-v" -> <<"alnum", "hyphen", "alnum">>
    [] w = "a--a" -> <<"alnum", "hyphen", "hyphen", "alnum">>
    [] w = "a-a-a" -> <<"alnum", "hyphen", "alnum", "hyphen", "alnum">>
    [] w = "" -> <<>>
    [] OTHER -> <<"alnum">>]
TypedSlugs == DOMAIN SmallSlugs \ {""}
SmallScriptName == [w \in SmallWords |-> IF w = "v" THEN <<"v">> ELSE <<>>]
SmallNumberOf == [w \in SmallWords |-> IF w = "5" THEN <<5>> ELSE <<>>]
SmallWithin == {<<"", w>> : w \in SmallWords} \cup {<<w, w>> : w \in SmallWords} \cup {<<"v", " v ">>}
SmallPatterns == SmallWords \ {"["}
SmallMatching == {p \in SmallWithin : p[1] \in SmallPatterns}
SmallTrimTo == [w \in SmallWords |-> IF w = " a " THEN "a" ELSE IF w \in {" v ", " v"} THEN "v" ELSE w]
SmallParts == [w \in SmallWords |->
  CASE w = "v:a" -> <<"v", "a">> [] w = "a:equals" -> <<"a", "equals">>
    [] w = "equals:v" -> <<"equals", "v">> [] OTHER -> <<w>>]

\* The value "two lines" has "v" on its first line, and "B=5" on its second.
\* A line loses the white space at its end (parse_hook_form).
SmallEnvLines == [w \in SmallWords |->
  [first |-> IF w = "two lines" THEN "v" ELSE IF w = " v " THEN " v" ELSE w,
   more |-> IF w = "two lines" THEN << <<"B", "5">> >> ELSE <<>>]]

\* Of "$A" and "$B", only the first is set.
SmallReference == [w \in SmallWords |-> IF w = "$A" THEN <<"A">> ELSE IF w = "$B" THEN <<"B">> ELSE <<>>]
SmallEnvironment == [A |-> <<"v">>, B |-> <<>>]
SmallRefs == [w \in SmallWords |->
  IF w = "a$A$B" THEN <<[kind |-> "text", word |-> "a"], [kind |-> "variable", word |-> "A"],
                        [kind |-> "variable", word |-> "B"]>>
  ELSE <<[kind |-> "text", word |-> w]>>]
SmallPieces == [w \in SmallWords |->
  IF w = "a:{{a.b}}" THEN <<[kind |-> "text", word |-> "a"], [kind |-> "field", word |-> "a.b"]>>
  ELSE <<[kind |-> "text", word |-> w]>>]
SmallVariableOf == [w \in SmallWords |-> IF w = "a.b" THEN "a_b" ELSE w]
SmallEnvNames == <<"A", "B">>

Value(type, text) == [type |-> type, text |-> text, num |-> 0, fields |-> <<>>, items |-> <<>>]
Object(fields) == [Value("object", "{..}") EXCEPT !.fields = fields]
One(name, value) == [n \in {name} |-> value]
Five == [Value("number", "5") EXCEPT !.num = 5]

SmallPayloads ==
  {Value("not_json", ""), Object(<<>>), Object(One("a", Five)), Object(One("b", Five)),
   Object(One("a", Value("null", "null"))), Object(One("a", Value("string", "5"))),
   Object(One("a", Value("string", "v"))), Object(One("a", Value("string", " v "))),
   Object(One("a", [Value("array", "[..]") EXCEPT !.items = [i \in {"0"} |-> Value("string", "v")]])),
   [Object(One("a", Object(One("b", Five)))) EXCEPT !.fields =
      [n \in {"a", "a_b"} |-> IF n = "a" THEN Object(One("b", Five)) ELSE Value("string", "v")]],
   Object(One("a", Object(One("b", Five))))}

SmallMoments == {<<"Mon", 0>>, <<"Mon", 540>>, <<"Tue", 540>>, <<"Mon", 600>>,
                 <<"Mon", 601>>, <<"Tue", LastMinute>>}

Signed(secret, body) == [h \in {"a"} |-> [secret |-> secret, body |-> body]]
SmallCallers ==
  {[bearer |-> <<>>, signed |-> <<>>], [bearer |-> <<"v">>, signed |-> <<>>],
   [bearer |-> <<"$A">>, signed |-> <<>>], [bearer |-> <<"$B">>, signed |-> <<>>],
   [bearer |-> <<>>, signed |-> Signed("v", Object(<<>>))],
   [bearer |-> <<>>, signed |-> Signed("a", Object(<<>>))]}

SmallDefaults ==
  [timeout |-> 30 * Second,
   retries |-> [count |-> 1, backoff |-> "linear", initial |-> Second, max |-> 60 * Second]]

Plain == [name |-> "v", slug |-> "a", description |-> "", enabled |-> TRUE,
          executor |-> [type |-> "shell", arg |-> "v"], cwd |-> <<>>, env |-> <<>>,
          timeout |-> <<>>, retries |-> <<>>, auth |-> <<>>, payload |-> <<>>,
          rules |-> <<>>, hidden |-> <<"concurrency">>]

Http(url, body) ==
  [type |-> "http", arg |-> url, method |-> "post", body |-> body,
   headers |-> [A |-> "a$A$B"], follow |-> FALSE]

Field(name, type, required) == [name |-> name, type |-> type, required |-> required]
Filter(field, op, value) == [field |-> field, op |-> op, value |-> value]
Window(days, start, end) == [days |-> days, start |-> start, end |-> end]
Retry(count, backoff, initial, max) ==
  [count |-> count, backoff |-> backoff, initial |-> initial, max |-> max]
Auth(mode, words) == [mode |-> mode, words |-> words]

FilterLists ==
  {<<>>, <<Filter("a", "exists", <<>>)>>, <<Filter("a", "exists", <<"v">>)>>,
   <<Filter("a", "equals", <<>>)>>, <<Filter("a:equals", "equals", <<"v">>)>>,
   <<Filter(" a ", "contains", <<"v">>)>>, <<Filter("a", "regex", <<"v">>)>>,
   <<Filter("a", "equals", <<"v:a">>)>>,
   <<Filter("a", "not_equals", <<"v">>), Filter("a", "contains", <<" v ">>)>>}
  \cup {<<Filter("a.b", op, <<"5">>)>> : op \in Operators \ {"exists"}}

WindowLists ==
  {<<>>, <<Window(<<>>, 540, 601)>>,
   <<Window(<<"Mon", "Tue">>, 540, 600), Window(<<"Mon">>, 600, 601)>>,
   <<Window(<<"Tue">>, 0, LastMinute)>>}

Durations == {0, 5 * Milli, 5 * Milli + 500, 500, Second + 500 * Milli, 90 * Second}

RulesWith(r, o) == <<[NoRules EXCEPT ![r] = <<o>>]>>

SmallRules ==
  {<<NoRules>>}
  \cup {RulesWith("filters", f) : f \in FilterLists}
  \cup {RulesWith("windows", w) : w \in WindowLists}
  \cup {RulesWith("cooldown", d) : d \in Durations}
  \cup {RulesWith("rate", [max |-> 2, window |-> d]) : d \in Durations \ {0}}

Changes(f) ==
  CASE f = "name"     -> {" v "}
    [] f = "enabled"  -> {FALSE}
    [] f = "executor" -> {[type |-> "python", arg |-> " v "], [type |-> "shell", arg |-> "a:{{a.b}}"],
                          Http("v", <<>>), Http("a:{{a.b}}", <<"a:{{a.b}}">>)}
    [] f = "cwd"      -> {<<"">>, <<"v">>, <<" v ">>}
    [] f = "env"      -> {[A |-> "v"], [A |-> " v "], [A |-> " v"], [A |-> "two lines", B |-> "v"],
                          [A |-> "two lines"]}
    [] f = "timeout"  -> {<<d>> : d \in Durations}
    [] f = "retries"  -> {<<Retry(0, "none", 0, 0)>>, <<Retry(2, "none", Second, Second)>>,
                          <<Retry(3, "linear", 2 * Second, 5 * Second)>>,
                          <<Retry(6, "exponential", Second, 60 * Second)>>,
                          <<Retry(6, "exponential", 5, 60 * Second)>>}
    [] f = "auth"     -> {<<Auth("none", <<>>)>>, <<Auth("bearer", <<"v">>)>>,
                          <<Auth("bearer", <<" v ">>)>>, <<Auth("hmac", <<"a", "v">>)>>,
                          <<Auth("bearer", <<"$A">>)>>, <<Auth("bearer", <<"$B">>)>>,
                          <<Auth("hmac", <<"a", "$A">>)>>}
    [] f = "payload"  -> {<<<<>>>>, <<<<Field("a", "number", TRUE)>>>>,
                          <<<<Field("a.b", "number", TRUE), Field("b", "string", FALSE)>>>>,
                          <<<<Field("v:a", "string", FALSE)>>>>}
    [] f = "rules"    -> SmallRules
    [] OTHER          -> {}

OneChange == UNION {{[Plain EXCEPT ![f] = v] : v \in Changes(f)} : f \in DOMAIN Plain}

\* The schemas again, beside each executor and each list of filters.
Schemas == {h \in OneChange : h.executor # Plain.executor \/ RulesOf(h).filters # <<>>}

SmallHooks ==
  {Plain} \cup OneChange
  \cup {[h EXCEPT !.payload = v] : v \in Changes("payload"), h \in Schemas}

SmallAmendments ==
  [name |-> {"", "a"}, description |-> {"v"}, enabled |-> {FALSE}, type |-> {"python", "http"},
   command |-> {"", "a:{{a.b}}"}, cwd |-> {"v"}, env |-> {<< <<"A", "v">> >>},
   timeout |-> {<<5 * Second>>, <<Unreadable>>}, count |-> {0, 2}, backoff |-> {"linear"},
   initial |-> {<<>>, <<90 * Second>>, <<Unreadable>>}, max |-> {<<2 * Second>>},
   mode |-> {"none", "bearer", "hmac"}, token |-> {"", "a"}, header |-> {""}, secret |-> {"a"},
   fields |-> {<< <<"a", "number">> >>, << <<"a">> >>, << <<"a", "string", "a">> >>},
   filters |-> {<< <<"a", "exists">> >>, << <<"a", "equals">> >>, << <<"a", "regex", "[">> >>},
   windows |-> {<<>>, <<Window(<<"Mon">>, 0, 540)>>, <<Window(<<"Mon">>, 540, 0)>>,
                <<Window(<<>>, 0, 540)>>},
   cooldown |-> {<<>>, <<Second>>}, rateMax |-> {0, 3}, rateWindow |-> {<<>>, <<0>>, <<Second>>}]

SmallOthers == {Plain, [Plain EXCEPT !.executor = Http("v", <<>>)],
                [Plain EXCEPT !.rules = RulesWith("windows", <<Window(<<>>, 540, 601)>>)]}

=============================================================================
