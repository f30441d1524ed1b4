------------------------------ MODULE HookEdits ------------------------------
(***************************************************************************)
(* Editing a hook in the browser, and making a new one with the values of  *)
(* another, while the file may be edited by hand (routes/hooks.rs).  The   *)
(* question is what else a form changes than what the user has changed in  *)
(* it; ConfigStore is about the file itself.                               *)
(***************************************************************************)
EXTENDS HookForms

CONSTANTS
  Hooks,      \* the hooks a file may hold at first
  Others,     \* the hooks a hand edit may put in their place
  Amendments, \* form's field -> what a user may change it to
  Slugs,      \* slugs a user may type
  Payloads,   \* bodies to tell hooks apart; one may be of type "not_json"
  Moments,    \* times to tell hooks apart: <<day, minute>>
  Callers,    \* callers to tell hooks apart
  MaxAmends,  \* bound on forms sent and edits by hand before a form is changed
  MaxEdits    \* bound on forms sent and edits by hand

(***************************************************************************)
(* Types: of a hook as it is read from the file, and of a form's fields.   *)
(***************************************************************************)
Optional(S) == {o \in Seq(S) : Len(o) <= 1}

\* Lines cut at their colons.  The value of a filter is what follows the
\* second one, and is a word again.
Lines == {s \in Seq(Words) : \A i \in DOMAIN s : Parts[s[i]] = <<s[i]>>}
FilterLines == {s \in Lines : Len(s) > 2 => \E w \in Words : Parts[w] = Rest(s)}

FieldSpecs == [name : Words, type : Types, required : BOOLEAN]
FilterSpecs ==
  {f \in [field : Words, op : Operators, value : Optional(Words)] : FilterLine(f) \in FilterLines}
WindowSpecs == [days : Seq(STRING), start : Int, end : Int]
RateSpecs == [max : Nat, window : Nat]
RuleSpecs ==
  [filters : Optional(Seq(FilterSpecs)), windows : Optional(Seq(WindowSpecs)),
   cooldown : Optional(Nat), rate : Optional(RateSpecs)]

Strategies == {"none", "linear", "exponential"}
RetrySpecs == [count : Nat, backoff : Strategies, initial : Nat, max : Nat]

WordsAsked == [none |-> 0, bearer |-> 1, hmac |-> 2]
AuthSpecs ==
  {a \in [mode : DOMAIN WordsAsked, words : Seq(Words)] : Len(a.words) = WordsAsked[a.mode]}

\* No form makes an HTTP executor; those there are come with the file.
CommandTypes == {"shell", "script", "javascript", "python"}
CommandExecutors == [type : CommandTypes, arg : Words]
HttpExecutors == {e \in {h.executor : h \in Hooks \cup Others} : e.type = "http"}

HookSpecs ==
  [name : Words, slug : Slugs, description : Words, enabled : BOOLEAN,
   executor : CommandExecutors \cup HttpExecutors, cwd : Optional(Words),
   env : UNION {[K -> Words] : K \in SUBSET EnvKeys}, timeout : Optional(Nat),
   retries : Optional(RetrySpecs), auth : Optional(AuthSpecs),
   payload : Optional(Seq(FieldSpecs)), rules : Optional(RuleSpecs),
   hidden : {h.hidden : h \in Hooks \cup Others} \cup {<<>>}]

Typed == Optional(Nat \cup {Unreadable})
FormTypes ==
  [name |-> Words, slug |-> Slugs \cup {Empty}, description |-> Words, enabled |-> BOOLEAN,
   type |-> CommandTypes \cup {"http"}, command |-> Words, cwd |-> Words, timeout |-> Typed,
   env |-> Seq(EnvKeys \X Words), count |-> Nat, backoff |-> Strategies,
   initial |-> Typed, max |-> Typed, mode |-> DOMAIN WordsAsked, token |-> Words,
   header |-> Words, secret |-> Words, fields |-> Seq(Lines), filters |-> Seq(FilterLines),
   windows |-> Seq(WindowSpecs), cooldown |-> Typed, rateMax |-> Nat, rateWindow |-> Typed]

ASSUME EditsConstants ==
  /\ Hooks \cup Others \subseteq HookSpecs
  /\ \A e \in HttpExecutors :
       {"type", "arg", "body"} \subseteq DOMAIN e /\ e.arg \in Words /\ e.body \in Optional(Words)
  /\ DOMAIN Amendments \subseteq DOMAIN FormTypes \ {"slug"}
  /\ \A g \in DOMAIN Amendments : Amendments[g] \subseteq FormTypes[g]
  /\ Slugs \subseteq DOMAIN SlugLetters
  /\ Moments \subseteq Days \X (0..LastMinute)
  /\ {MaxAmends, MaxEdits} \subseteq Nat

VARIABLES
  hook,    \* the hook as it is in the file, and live
  made,    \* the hook made with a new form, if there is one
  form,    \* the form as it is shown, if one is open
  isNew,   \* whether it is for a new hook
  shown,   \* the hook whose values it was filled with
  edits    \* forms sent and edits by hand so far

vars == <<hook, made, form, isNew, shown, edits>>

\* What the user has changed.
Amended == {g \in DOMAIN The(form) : The(form)[g] # FormOf(shown)[g]} \ {"slug"}

\* GET /hooks/:slug/edit
OpenEdit ==
  /\ form = <<>>
  /\ form' = <<FormOf(hook)>> /\ shown' = hook /\ isNew' = FALSE
  /\ UNCHANGED <<hook, made, edits>>

\* GET /hooks/new
OpenNew ==
  /\ form = <<>> /\ made = <<>>
  /\ form' = <<NewForm>> /\ isNew' = TRUE
  /\ UNCHANGED <<hook, made, shown, edits>>

\* Someone who wants another hook like this one.
CopyIn ==
  /\ form = <<NewForm>> /\ isNew
  /\ \E s \in Slugs : form' = <<[FormOf(hook) EXCEPT !.slug = s]>>
  /\ shown' = hook
  /\ UNCHANGED <<hook, made, isNew, edits>>

\* One of the form's inputs is changed.
Amend ==
  /\ form # <<>> /\ Amended = {} /\ edits < MaxAmends
  /\ \E g \in DOMAIN Amendments : \E v \in Amendments[g] :
       form' = <<[The(form) EXCEPT ![g] = v]>>
  /\ UNCHANGED <<hook, made, isNew, shown, edits>>

\* The form is closed; what was shown and for which hook no longer matters.
Close(h) == form' = <<>> /\ isNew' = FALSE /\ shown' = h

Leave ==
  /\ form # <<>>
  /\ Close(hook)
  /\ UNCHANGED <<hook, made, edits>>

Counted == edits < MaxEdits /\ edits' = edits + 1

\* A form that is refused is shown again.
Refused == form' = <<Redisplayed(The(form))>> /\ UNCHANGED <<hook, made, isNew, shown>>

\* update_hook: a hook that is an HTTP one by now is sent back to the page it
\* has now, otherwise the form is parsed, applied to the table and validated.
SubmitEdit ==
  /\ form # <<>> /\ ~isNew /\ Allowed(The(form), FALSE) /\ Counted
  /\ LET f == The(form)
         result == ApplyHookFields(hook, ParseHookForm(f))
         good == FormParses(f) /\ Validates(result)
     IN \/ /\ hook.executor.type = "http"
           /\ form' = <<FormOf(hook)>> /\ shown' = hook /\ UNCHANGED <<hook, made, isNew>>
        \/ hook.executor.type # "http" /\ ~good /\ Refused
        \/ /\ hook.executor.type # "http" /\ good
           /\ hook' = result /\ Close(result) /\ UNCHANGED made

\* create_hook: the slug must be free.
SubmitNew ==
  /\ form # <<>> /\ isNew /\ Allowed(The(form), TRUE) /\ Counted
  /\ LET f == The(form)
         result == BuildHookTable(ParseHookForm(f))
         good == FormParses(f) /\ result.slug # hook.slug /\ Validates(result)
     IN \/ ~good /\ Refused
        \/ good /\ made' = <<result>> /\ Close(hook) /\ UNCHANGED hook

Submit == SubmitEdit \/ SubmitNew

\* Without a form that is open it would only be another start.
HandEdit ==
  /\ form # <<>> /\ Counted
  /\ hook' \in {h \in Others : Validates(h)}
  /\ UNCHANGED <<made, form, isNew, shown>>

Init ==
  /\ hook \in {h \in Hooks : Validates(h)} /\ made = <<>>
  /\ form = <<>> /\ isNew = FALSE /\ shown = hook
  /\ edits = 0

Next == OpenEdit \/ OpenNew \/ CopyIn \/ Amend \/ Leave \/ Submit \/ HandEdit

Spec == Init /\ [][Next]_vars

----
(***************************************************************************)
(* Properties.                                                             *)
(***************************************************************************)
\* The hooks a form can express: no white space around words, no colons in
\* names of fields, no lines in values, durations without a rest, days named,
\* no list that is there and empty, and no retries that say "none".
Plainly(h) ==
  LET rules == RulesOf(h)
      bare(w) == TrimTo[w] = w /\ w # Empty
      whole(d) == d % Second = 0 \/ (d < Second /\ d % Milli = 0)
      exact(o) == \A i \in DOMAIN o : whole(o[i])
      fields == OrElse(h.payload, <<>>)
      filters == OrElse(rules.filters, <<>>)
      windows == OrElse(rules.windows, <<>>)
  IN /\ h.executor.type # "http"
     /\ bare(h.name) /\ bare(h.executor.arg) /\ \A i \in DOMAIN h.cwd : bare(h.cwd[i])
     /\ \A k \in DOMAIN h.env : EnvLines[h.env[k]] = [first |-> h.env[k], more |-> <<>>]
     /\ exact(h.timeout) /\ exact(rules.cooldown)
     /\ \A i \in DOMAIN rules.rate : exact(<<rules.rate[i].window>>)
     /\ \A i \in DOMAIN h.retries :
          h.retries[i].count > 0 /\ exact(<<h.retries[i].initial, h.retries[i].max>>)
     /\ \A i \in DOMAIN h.auth : \A j \in DOMAIN h.auth[i].words : bare(h.auth[i].words[j])
     /\ h.payload # <<<<>>>>
     /\ \A i \in DOMAIN fields : bare(fields[i].name) /\ Len(Parts[fields[i].name]) = 1
     /\ \A i \in DOMAIN filters :
          /\ bare(filters[i].field) /\ Len(Parts[filters[i].field]) = 1
          /\ filters[i].op # "exists" => Present(filters[i].value) /\ bare(The(filters[i].value))
     /\ \A i \in DOMAIN windows : windows[i].days # <<>>

\* What each of a form's fields may change in what the hook does.
Concerns ==
  [enabled |-> "enabled", type |-> "command", command |-> "command", cwd |-> "cwd",
   env |-> "env", timeout |-> "timeout", count |-> "pauses", backoff |-> "pauses",
   initial |-> "pauses", max |-> "pauses", mode |-> "admitted", token |-> "admitted",
   header |-> "admitted", secret |-> "admitted", fields |-> "accepted",
   filters |-> "accepted", windows |-> "accepted", cooldown |-> "cooldown",
   rateMax |-> "rate", rateWindow |-> "rate", name |-> "none", description |-> "none"]

Touched == {Concerns[g] : g \in Amended}

Does(h) == Behaviour(h, Payloads, Moments, Callers)

\* The form of such a hook, sent as it was shown, is not refused; and whatever
\* is changed in it, and whether it updates the hook or makes another, the
\* result does what the hook shown did in every other respect: it takes the
\* same bodies at the same times and retries after the same pauses
\* (edit_hook_form against parse_hook_form, format_duration against humantime,
\* the inputs' patterns against what validate accepts).
OnlyWhatWasChanged ==
  [][Submit /\ Plainly(shown) /\ (isNew \/ hook.executor.type # "http") =>
       /\ form' # <<>> => Amended # {} \/ (isNew /\ The(form).slug = hook.slug)
       /\ LET result == IF isNew THEN The(made') ELSE hook'
          IN form' = <<>> =>
               \A k \in DOMAIN Does(shown) \ Touched : Does(result)[k] = Does(shown)[k]]_vars

\* What the hook's page shows of its guards, and what no form shows.
Guards(h) ==
  LET page == PageOf(h)
  IN [admitted |-> page.mode, windows |-> page.windows, filters |-> Len(page.filters),
      fields |-> Len(page.fields),
      rate |-> {page.rate[i].max : i \in DOMAIN page.rate}]

Guarded == [mode |-> "admitted", windows |-> "windows", filters |-> "filters",
            fields |-> "fields", rateMax |-> "rate", rateWindow |-> "rate"]

\* Whatever the hook, no guard is lost to a form in which it was not changed:
\* the hook asks for the same kind of authentication, is open at the same
\* times, has as many filters and fields and the same limit on requests as the
\* one that was shown; and its concurrency, approval and limit per minute, not
\* shown by any form, are those it had.
GuardsSurvive ==
  [][SubmitEdit /\ form' = <<>> =>
       /\ hook'.hidden = hook.hidden
       /\ \A k \in DOMAIN Guards(shown) \ {Guarded[g] : g \in Amended \cap DOMAIN Guarded} :
            Guards(hook')[k] = Guards(shown)[k]]_vars

\* A form that is refused comes back as it was sent, so that what was typed is
\* not lost, unless the hook is an HTTP one by now; a header left blank comes
\* back as the usual one (submitted_hook_form_page).
NothingTypedIsLost ==
  [][Submit /\ form' # <<>> /\ (isNew \/ hook.executor.type # "http") =>
       \A g \in DOMAIN The(form) :
         The(form')[g] = The(form)[g] \/ (g = "header" /\ The(form)[g] = Empty)]_vars

\* A hook with windows is open exactly in the minutes of their union, a
\* window's last one excluded, so never in the last minute of a day
\* (time_window.rs evaluate_at, and what validate accepts).
OpenInTheUnion ==
  LET windows == OrElse(RulesOf(hook).windows, <<>>)
      minutes(w) == (IF w.days = <<>> THEN Days ELSE {w.days[i] : i \in DOMAIN w.days})
                    \X (w.start..(w.end - 1))
      open == UNION {minutes(windows[i]) : i \in DOMAIN windows}
  IN windows # <<>> =>
       /\ \A m \in Moments : InWindow(windows, m[1], m[2]) <=> m \in open
       /\ \A d \in Days : ~InWindow(windows, d, LastMinute)

\* The placeholders left in what is run or requested.
Left(resolved) ==
  {p.word : p \in {q \in UNION {{t[i] : i \in DOMAIN t} : t \in
     IF resolved.type = "http"
     THEN {resolved.arg} \cup {resolved.body[i] : i \in DOMAIN resolved.body}
     ELSE IF resolved.type = "shell" THEN {resolved.arg} ELSE {}} : q.kind = "field"}}

\* Schema, filters, placeholders and variables read the payload each in their
\* own way, and agree: where a filter has found a word, a placeholder of that
\* field puts it into the command, and no variable of the field's name shows
\* another, unless another field makes the same variable; and no placeholder of
\* what is required is left in a command, a URL or a body (resolve_field in
\* payload.rs, flatten_json_fields, interpolate_command, resolve_executor).
ReadersAgree ==
  LET filters == OrElse(RulesOf(hook).filters, <<>>)
      fields == OrElse(hook.payload, <<>>)
      placeholder(name) == [kind |-> "field", word |-> name]
  IN \A p \in Payloads : (\E m \in Moments : Accepts(hook, p, m)) =>
       /\ \A i \in DOMAIN filters : filters[i].op = "equals" /\ Present(filters[i].value) =>
            LET name == filters[i].field
                word == The(filters[i].value)
                found == The(ResolveField(p, name))
                same == {f \in FlattenJsonFields(p) : VariableOf[f.name] = VariableOf[name]}
            IN /\ found.type # "null" =>
                    InterpolatePiece(placeholder(name), p) = [kind |-> "quoted", word |-> word]
               /\ Leaf(found) /\ Cardinality(same) <= 1 =>
                    [variable |-> VariableOf[name], text |-> word] \in FieldVariables(p)
       /\ \A i \in DOMAIN fields : fields[i].required =>
            fields[i].name \notin Left(ResolveExecutor(hook.executor, p))

=============================================================================
