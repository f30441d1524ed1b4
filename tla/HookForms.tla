------------------------------ MODULE HookForms ------------------------------
(***************************************************************************)
(* The form a hook is edited in (views/hook_form.rs): filled from the hook *)
(* (edit_hook_form), sent back as text, parsed (parse_hook_form in         *)
(* routes/hooks.rs), applied to the hook's table (apply_hook_fields in     *)
(* config_writer.rs) and validated (config.rs); and what the hook's page   *)
(* says of it (hook_detail).  Operators without state.                     *)
(*                                                                         *)
(* Days have one spelling here, times are minutes, durations microseconds. *)
(*                                                                         *)
(* A definition whose comment begins with "Faulty:" is a mistake this code *)
(* could have made, kept to see that the properties notice it.             *)
(***************************************************************************)
EXTENDS TriggerInputs

CONSTANTS
  TrimTo,        \* word -> the word without the white space around it
  Parts,         \* word -> the words between its colons
  EnvLines,      \* word -> its first line and the assignments on further lines
  EnvNames,      \* names of environment variables, sorted
  SlugLetters,   \* slug -> what its letters are: "alnum", "hyphen", "other"
  SlugLimit,     \* the longest slug, 64 in the code
  ScriptName,    \* word -> the script it is a path to, if it is in scripts.dir
  DefaultHeader, \* the header a signature is looked for in
  Defaults       \* config.defaults: [timeout, retries]

EnvKeys == {EnvNames[i] : i \in DOMAIN EnvNames}

ASSUME FormsConstants ==
  /\ Types \cup Operators \cup {"required", "optional"} \subseteq Words
  /\ TrimTo \in [Words -> Words] /\ Parts \in [Words -> Seq(Words) \ {<<>>}]
  /\ \A w \in Words : TrimTo[TrimTo[w]] = TrimTo[w]
  /\ \A w \in Types \cup Operators \cup {"required", Empty} : TrimTo[w] = w /\ Parts[w] = <<w>>
  /\ \A v, w \in Words : Parts[v] = Parts[w] => v = w
  /\ \A w \in Words : \A i \in DOMAIN Parts[w] : Parts[Parts[w][i]] = <<Parts[w][i]>>
  /\ \A w \in Words : Len(Parts[w]) = 1 => Len(Parts[TrimTo[w]]) = 1
  /\ EnvNames \in Seq(Words)
  /\ \A w \in Words : EnvLines[w] \in [first : Words, more : Seq(EnvKeys \X Words)]
  /\ \A g \in DOMAIN SlugLetters :
       (\A i \in DOMAIN SlugLetters[g] : SlugLetters[g][i] # "other") => TrimTo[g] = g
  /\ DOMAIN SlugLetters \subseteq Words /\ SlugLimit \in Nat
  /\ Empty \in DOMAIN SlugLetters /\ SlugLetters[Empty] = <<>>
  /\ \A g \in DOMAIN SlugLetters : SlugLetters[g] \in Seq({"alnum", "hyphen", "other"})
  /\ DefaultHeader \in Words /\ Defaults.timeout \in Nat

Join(parts) == CHOOSE w \in Words : Parts[w] = parts
Rest(s) == SubSeq(s, 3, Len(s))
Trimmed(words) == [i \in DOMAIN words |-> TrimTo[words[i]]]

----
(***************************************************************************)
(* From the hook to the form.                                              *)
(***************************************************************************)
Milli == 1000
Second == 1000 * Milli

\* Faulty: durations under a second are shown as none.
ShownInSeconds(d) == (d \div Second) * Second

\* format_duration: milliseconds below a second, whole seconds above.
FormatDuration(d) ==
  IF d < Second /\ d >= Milli THEN (d \div Milli) * Milli
  ELSE (d \div Second) * Second

Format(o) == [i \in DOMAIN o |-> FormatDuration(o[i])]

\* name:type[:required]
FieldLine(f) ==
  Parts[f.name] \o <<f.type>> \o (IF f.required THEN <<"required">> ELSE <<>>)

\* field:operator[:value]
FilterLine(f) ==
  Parts[f.field] \o <<f.op>> \o (IF Present(f.value) THEN Parts[The(f.value)] ELSE <<>>)

\* KEY=value, in the order of the keys; a value's further lines come along.
EnvText(env) ==
  LET text[i \in 0..Len(EnvNames)] ==
        IF i = 0 THEN <<>>
        ELSE IF EnvNames[i] \notin DOMAIN env THEN text[i - 1]
        ELSE LET lines == EnvLines[env[EnvNames[i]]]
             IN text[i - 1] \o (<< <<EnvNames[i], lines.first>> >> \o lines.more)
  IN text[Len(EnvNames)]

NoRules == [filters |-> <<>>, windows |-> <<>>, cooldown |-> <<>>, rate |-> <<>>]
RulesOf(h) == OrElse(h.rules, NoRules)
LinesOf(o, Line(_)) == [i \in DOMAIN OrElse(o, <<>>) |-> Line(The(o)[i])]
WindowLine(w) == w

\* HookFormPage::new_hook
NewForm ==
  [name |-> Empty, slug |-> Empty, description |-> Empty, enabled |-> TRUE,
   type |-> "shell", command |-> Empty, cwd |-> Empty, timeout |-> <<>>, env |-> <<>>,
   count |-> 0, backoff |-> "exponential", initial |-> <<>>, max |-> <<>>,
   mode |-> "none", token |-> Empty, header |-> DefaultHeader, secret |-> Empty,
   fields |-> <<>>, filters |-> <<>>, windows |-> <<>>, cooldown |-> <<>>,
   rateMax |-> 0, rateWindow |-> <<>>]

\* What a hook's auth has besides its mode.
AuthWords(h) == OrElse(h.auth, [words |-> <<>>]).words

\* edit_hook_form
FormOf(h) ==
  LET rules == RulesOf(h)
      words == AuthWords(h)
  IN [name |-> h.name, slug |-> h.slug, description |-> h.description, enabled |-> h.enabled,
      type |-> h.executor.type, command |-> h.executor.arg, cwd |-> OrElse(h.cwd, Empty),
      timeout |-> Format(h.timeout), env |-> EnvText(h.env),
      count |-> OrElse(h.retries, [count |-> 0]).count,
      backoff |-> OrElse(h.retries, [backoff |-> "exponential"]).backoff,
      initial |-> [i \in DOMAIN h.retries |-> FormatDuration(h.retries[i].initial)],
      max |-> [i \in DOMAIN h.retries |-> FormatDuration(h.retries[i].max)],
      mode |-> OrElse(h.auth, [mode |-> "none"]).mode,
      token |-> IF Len(words) = 1 THEN words[1] ELSE Empty,
      header |-> IF Len(words) = 2 THEN words[1] ELSE Empty,
      secret |-> IF Len(words) = 2 THEN words[2] ELSE Empty,
      fields |-> LinesOf(h.payload, FieldLine),
      filters |-> LinesOf(rules.filters, FilterLine),
      windows |-> LinesOf(rules.windows, WindowLine),
      cooldown |-> Format(rules.cooldown),
      rateMax |-> OrElse(rules.rate, [max |-> 0]).max,
      rateWindow |-> [i \in DOMAIN rules.rate |-> FormatDuration(rules.rate[i].window)]]

\* What the browser lets go: required, pattern and maxlength.  The slug of a
\* hook that exists cannot be changed.
MatchesPattern(slug) ==
  LET s == SlugLetters[slug]
  IN /\ s # <<>> /\ Len(s) <= SlugLimit
     /\ \A i \in DOMAIN s : \/ s[i] = "alnum"
                            \/ /\ s[i] = "hyphen" /\ i > 1 /\ i < Len(s)
                               /\ s[i - 1] = "alnum" /\ s[i + 1] = "alnum"

Allowed(f, isNew) ==
  f.name # Empty /\ f.command # Empty /\ (isNew => MatchesPattern(f.slug))

----
(***************************************************************************)
(* From the form to what is written.                                       *)
(***************************************************************************)
\* parse_payload_text: three parts at most.
FieldLineParses(line) ==
  /\ Len(line) >= 2 /\ TrimTo[line[1]] # Empty /\ TrimTo[line[2]] \in Types
  /\ Len(line) > 2 => Len(line) = 3 /\ TrimTo[line[3]] \in {"required", "optional", Empty}

ParseField(line) ==
  [name |-> TrimTo[line[1]], type |-> TrimTo[line[2]],
   required |-> Len(line) > 2 /\ TrimTo[line[3]] = "required"]

\* parse_filters_text: what follows the second colon is the value.
FilterLineParses(line) ==
  /\ Len(line) >= 2 /\ TrimTo[line[1]] # Empty /\ TrimTo[line[2]] \in Operators
  /\ TrimTo[line[2]] # "exists" => Len(line) > 2 /\ TrimTo[Join(Rest(line))] # Empty

ParseFilter(line) ==
  [field |-> TrimTo[line[1]], op |-> TrimTo[line[2]],
   value |-> IF TrimTo[line[2]] = "exists" THEN <<>> ELSE <<TrimTo[Join(Rest(line))]>>]

\* parse_windows_text: days are asked for.
WindowLineParses(line) == line.days # <<>>
ParseWindow(line) == line

\* A duration that humantime does not read.
Unreadable == -1

Credentials(f) ==
  CASE f.mode = "bearer" -> <<f.token>>
    [] f.mode = "hmac"   -> <<f.header, f.secret>>
    [] OTHER             -> <<>>

\* parse_hook_form returns no error.  Delays are read if there are retries, a
\* window if there is a maximum.
FormParses(f) ==
  LET durations == f.timeout \o f.cooldown
                   \o (IF f.count > 0 THEN f.initial \o f.max ELSE <<>>)
                   \o (IF f.rateMax > 0 THEN f.rateWindow ELSE <<>>)
  IN /\ f.type # "http"
     /\ \A i \in DOMAIN durations : durations[i] # Unreadable
     /\ \A i \in DOMAIN f.fields : FieldLineParses(f.fields[i])
     /\ \A i \in DOMAIN f.filters : FilterLineParses(f.filters[i])
     /\ \A i \in DOMAIN f.windows : WindowLineParses(f.windows[i])
     /\ \A i \in DOMAIN Credentials(f) : TrimTo[Credentials(f)[i]] # Empty

NonEmpty(s) == IF s = <<>> THEN <<>> ELSE <<s>>
ParseLines(lines, Line(_)) == NonEmpty([i \in DOMAIN lines |-> Line(lines[i])])

ParseEnv(lines) ==
  [k \in {lines[i][1] : i \in DOMAIN lines} |->
     LET last == CHOOSE i \in DOMAIN lines :
                   lines[i][1] = k /\ \A j \in DOMAIN lines : lines[j][1] = k => j <= i
     IN lines[last][2]]

\* Faulty: any rule missing, and there are none.
AllRules(rules) ==
  IF \E r \in DOMAIN rules : rules[r] = <<>> THEN <<>> ELSE <<rules>>

\* Without any rule there are no trigger_rules.
SomeRules(rules) == IF rules = NoRules THEN <<>> ELSE <<rules>>

\* A box that is not checked is not sent.
Checked(f) == f.enabled

\* A limit without a window is none.
ParseRate(f) ==
  IF f.rateMax = 0 \/ f.rateWindow = <<>> THEN <<>>
  ELSE <<[max |-> f.rateMax, window |-> The(f.rateWindow)]>>

ParseRetries(f) ==
  IF f.count = 0 THEN <<>>
  ELSE <<[count |-> f.count, backoff |-> f.backoff,
          initial |-> OrElse(f.initial, Second), max |-> OrElse(f.max, 60 * Second)]>>

\* parse_hook_form: what the form says of a hook (HookFormData).
ParseHookForm(f) ==
  [name |-> TrimTo[f.name], slug |-> TrimTo[f.slug], description |-> TrimTo[f.description],
   enabled |-> Checked(f),
   executor |-> [type |-> f.type, arg |-> TrimTo[f.command]],
   cwd |-> IF TrimTo[f.cwd] = Empty THEN <<>> ELSE <<TrimTo[f.cwd]>>,
   env |-> ParseEnv(f.env), timeout |-> f.timeout, retries |-> ParseRetries(f),
   auth |-> IF Credentials(f) = <<>> THEN <<>>
            ELSE <<[mode |-> f.mode, words |-> Trimmed(Credentials(f))]>>,
   payload |-> ParseLines(f.fields, ParseField),
   rules |-> SomeRules([filters |-> ParseLines(f.filters, ParseFilter),
                        windows |-> ParseLines(f.windows, ParseWindow),
                        cooldown |-> f.cooldown, rate |-> ParseRate(f)])]

\* Tables are written with durations as format_duration shows them.
RetriesTable(retries) ==
  [retries EXCEPT !.initial = FormatDuration(@), !.max = FormatDuration(@)]

RateTable(rate) == [rate EXCEPT !.window = FormatDuration(@)]

RulesTable(rules) ==
  [rules EXCEPT !.cooldown = Format(@), !.rate = [i \in DOMAIN @ |-> RateTable(@[i])]]

\* apply_hook_fields: the table with what the form says.  The slug, and the
\* keys a form does not show, are left alone.
ApplyHookFields(h, data) ==
  [h EXCEPT
    !.name = data.name, !.description = data.description, !.enabled = data.enabled,
    !.executor = data.executor, !.cwd = data.cwd, !.env = data.env,
    !.timeout = Format(data.timeout), !.auth = data.auth, !.payload = data.payload,
    !.retries = [i \in DOMAIN data.retries |-> RetriesTable(data.retries[i])],
    !.rules = [i \in DOMAIN data.rules |-> RulesTable(data.rules[i])]]

\* A hook without a table, as the settings it does not have are read.
NoHook(slug) ==
  [name |-> Empty, slug |-> slug, description |-> Empty, enabled |-> TRUE,
   executor |-> [type |-> "shell", arg |-> Empty], cwd |-> <<>>, env |-> <<>>,
   timeout |-> <<>>, retries |-> <<>>, auth |-> <<>>, payload |-> <<>>, rules |-> <<>>,
   hidden |-> <<>>]

BuildHookTable(data) == ApplyHookFields(NoHook(data.slug), data)

\* Faulty: the field of the windows is forgotten.
RedisplayedWithout(f) == [f EXCEPT !.windows = <<>>]

\* submitted_hook_form_page: a form that is refused is shown again.
Redisplayed(f) == [f EXCEPT !.header = IF @ = Empty THEN DefaultHeader ELSE @]

----
(***************************************************************************)
(* AppConfig::validate, for one hook.                                      *)
(***************************************************************************)
ValidFilter(f) == f.op = "regex" => Present(f.value) /\ The(f.value) \in Patterns

ValidWindow(w) ==
  /\ w.start \in 0..LastMinute /\ w.end \in 0..LastMinute /\ w.start < w.end
  /\ \A i \in DOMAIN w.days : w.days[i] \in Days

\* is_valid_slug
ValidSlug(slug) ==
  LET s == SlugLetters[slug]
  IN /\ Len(s) > 0 /\ Len(s) <= SlugLimit
     /\ s[1] # "hyphen" /\ s[Len(s)] # "hyphen"
     /\ \A i \in DOMAIN s :
          s[i] = "alnum" \/ (s[i] = "hyphen" /\ (i > 1 => s[i - 1] # "hyphen"))

Validates(h) ==
  /\ ValidSlug(h.slug)
  /\ h.name # Empty /\ (h.executor.type # "http" => h.executor.arg # Empty)
  /\ \A i \in DOMAIN h.retries : h.retries[i].initial <= h.retries[i].max
  /\ \A i \in DOMAIN h.auth : \A j \in DOMAIN h.auth[i].words : h.auth[i].words[j] # Empty
  /\ LET rules == RulesOf(h)
         filters == OrElse(rules.filters, <<>>)
         windows == OrElse(rules.windows, <<>>)
     IN /\ \A i \in DOMAIN filters : ValidFilter(filters[i])
        /\ \A i \in DOMAIN windows : ValidWindow(windows[i])
        /\ \A i \in DOMAIN rules.rate : rules.rate[i].max > 0 /\ rules.rate[i].window > 0

----
(***************************************************************************)
(* What a hook does.                                                       *)
(***************************************************************************)
\* A schema asks for JSON; to the filters, what is no JSON has no fields.  No
\* windows at all, and the hook is always open (trigger_hook).
Accepts(h, payload, moment) ==
  LET rules == RulesOf(h)
      windows == OrElse(rules.windows, <<>>)
  IN /\ Present(h.payload) => payload.type # "not_json" /\ Conforms(The(h.payload), payload)
     /\ Passes(OrElse(rules.filters, <<>>), payload)
     /\ windows # <<>> => InWindow(windows, moment[1], moment[2])

\* resolve_retry_config: a hook's retries replace the defaults whole.
RetriesOf(h) == OrElse(h.retries, Defaults.retries)

\* All that triggering the hook depends on, for some payloads, times, callers.
Behaviour(h, payloads, moments, callers) ==
  [enabled |-> h.enabled, cwd |-> h.cwd, env |-> h.env,
   command |-> [p \in payloads |-> ResolveExecutor(h.executor, p)],
   timeout |-> OrElse(h.timeout, Defaults.timeout), pauses |-> Pauses(RetriesOf(h)),
   admitted |-> {a \in callers \X payloads : Verified(h.auth, a[1], a[2])},
   accepted |-> {a \in payloads \X moments : Accepts(h, a[1], a[2])},
   cooldown |-> RulesOf(h).cooldown, rate |-> RulesOf(h).rate]

\* hook_detail: what the hook's page says.  A filter's empty value is left out.
PageOf(h) ==
  LET rules == RulesOf(h)
      filters == OrElse(rules.filters, <<>>)
      row(f) == [f EXCEPT !.value = IF @ = <<Empty>> THEN <<>> ELSE @]
  IN [name |-> h.name, enabled |-> h.enabled, executor |-> h.executor,
      script |-> IF h.executor.type \in {"script", "javascript", "python"}
                 THEN ScriptName[h.executor.arg] ELSE <<>>,
      seconds |-> OrElse(h.timeout, Defaults.timeout) \div Second, env |-> DOMAIN h.env,
      mode |-> OrElse(h.auth, [mode |-> "none"]).mode,
      fields |-> OrElse(h.payload, <<>>),
      filters |-> [i \in DOMAIN filters |-> row(filters[i])],
      windows |-> OrElse(rules.windows, <<>>),
      cooldown |-> Format(rules.cooldown),
      rate |-> [i \in DOMAIN rules.rate |->
                  [rules.rate[i] EXCEPT !.window = FormatDuration(@)]]]

=============================================================================
