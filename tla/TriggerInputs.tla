---------------------------- MODULE TriggerInputs ----------------------------
(***************************************************************************)
(* Who may trigger a hook (webhook_auth.rs), and what its command gets to  *)
(* see of the payload: placeholders (interpolation.rs, executor/mod.rs)    *)
(* and variables (executor/script.rs).  Operators without state.           *)
(*                                                                         *)
(* A caller is [bearer, signed]: the token it presents, if it does, and    *)
(* what each header it sends signs, [secret, body].  A template is a       *)
(* sequence of pieces [kind, word], "text" or "field".                     *)
(***************************************************************************)
EXTENDS TriggerRules

CONSTANTS
  Reference,    \* word -> the variable it refers to as ${VARIABLE}, if it does
  Environment,  \* variable -> its value for the server, if it is set
  Refs,         \* word -> the text and references to variables it is
  Pieces,       \* word -> the template it is
  VariableOf    \* word -> the variable that shows the field of that name

ASSUME InputsConstants ==
  /\ \A w \in Words : Reference[w] = <<>> \/ The(Reference[w]) \in DOMAIN Environment
  /\ \A v \in DOMAIN Environment : Environment[v] = <<>> \/ The(Environment[v]) \in Words
  /\ \A w \in Words : \A i \in DOMAIN Refs[w] :
       /\ Refs[w][i].kind = "text" => Refs[w][i].word \in Words
       /\ Refs[w][i].kind # "text" => Refs[w][i].word \in DOMAIN Environment
  /\ \A w \in Words : \A i \in DOMAIN Pieces[w] :
       /\ Pieces[w][i].kind \in {"text", "field"} /\ Pieces[w][i].word \in Words

----
(***************************************************************************)
(* Authentication of a caller.                                             *)
(***************************************************************************)
\* resolve_env_ref
ResolveEnvRef(word) ==
  IF Present(Reference[word]) THEN Environment[The(Reference[word])] ELSE <<word>>

VerifyBearer(token, caller) ==
  LET expected == ResolveEnvRef(token)
  IN Present(expected) /\ Present(caller.bearer) /\ caller.bearer = expected

VerifyHmac(header, word, caller, body) ==
  LET secret == ResolveEnvRef(word)
  IN /\ Present(secret) /\ header \in DOMAIN caller.signed
     /\ caller.signed[header] = [secret |-> The(secret), body |-> body]

\* verify, for a hook's optional auth: [mode, words].
Verified(auth, caller, body) ==
  \/ ~Present(auth) \/ The(auth).mode = "none"
  \/ Present(auth) /\ The(auth).mode = "bearer" /\ VerifyBearer(The(auth).words[1], caller)
  \/ Present(auth) /\ The(auth).mode = "hmac"
     /\ VerifyHmac(The(auth).words[1], The(auth).words[2], caller, body)

----
(***************************************************************************)
(* What a command sees.                                                    *)
(***************************************************************************)
\* value_to_string: as the filters see it (json_as_str), but for null.
ValueToString(value) == IF value.type = "null" THEN Empty ELSE value.text

\* Faulty: dots in a placeholder are not followed.
InterpolateFlat(piece, payload) ==
  IF piece.kind = "field" /\ Present(Get(payload, piece.word))
  THEN [kind |-> "quoted", word |-> ValueToString(The(Get(payload, piece.word)))]
  ELSE piece

\* A placeholder of a field that is not there is left as it is.
InterpolatePiece(piece, payload) ==
  LET found == ResolveField(payload, piece.word)
  IN IF piece.kind = "field" /\ Present(found)
     THEN [kind |-> "quoted", word |-> ValueToString(The(found))]
     ELSE piece

\* What is not JSON has no fields.
Interpolated(template, payload) ==
  [i \in DOMAIN Pieces[template] |-> InterpolatePiece(Pieces[template][i], payload)]

\* resolve_env_refs: a variable that is not set is empty.
ResolveEnvRefs(word) ==
  [i \in DOMAIN Refs[word] |->
     IF Refs[word][i].kind = "text" THEN Refs[word][i].word
     ELSE OrElse(Environment[Refs[word][i].word], Empty)]

\* The request of run_http: the URL and the body as resolve_executor left them.
Request(executor, payload) ==
  [executor EXCEPT
    !.arg = Interpolated(@, payload),
    !.body = [i \in DOMAIN @ |-> Interpolated(@[i], payload)],
    !.headers = [k \in DOMAIN @ |-> ResolveEnvRefs(@[k])]]

\* resolve_executor, and what becomes of it: a script's path is not a template.
ResolveExecutor(executor, payload) ==
  CASE executor.type = "shell" -> [executor EXCEPT !.arg = Interpolated(@, payload)]
    [] executor.type = "http"  -> Request(executor, payload)
    [] OTHER                   -> executor

\* Array elements are reached, by their index.
Children(value) ==
  {<<n, value.fields[n]>> : n \in DOMAIN value.fields}
  \cup {<<n, value.items[n]>> : n \in DOMAIN value.items}

Leaf(value) == value.type \in {"string", "number", "boolean"}

\* The values of that name: the keys on the way to one, with dots between them,
\* make the name.  A key may have dots itself.
FlattenRecursive(payload, name) ==
  LET path == Segments[name]
      at[i \in 0..Len(path)] ==
        IF i = 0 THEN {payload}
        ELSE UNION {{c[2] : c \in {d \in UNION {Children(v) : v \in at[j]} :
                                   Segments[d[1]] = SubSeq(path, j + 1, i)}} : j \in 0..(i - 1)}
  IN at[Len(path)]

\* flatten_json_fields: the strings, numbers and booleans, by their names.
FlattenJsonFields(payload) ==
  UNION {{[name |-> w, text |-> v.text] : v \in {u \in FlattenRecursive(payload, w) : Leaf(u)}} :
         w \in Words}

\* prepare_command: the variables set from the payload, [variable, text].  If
\* two fields make the same one, the last in the order of the keys is kept.
FieldVariables(payload) ==
  {[variable |-> VariableOf[f.name], text |-> f.text] : f \in FlattenJsonFields(payload)}

=============================================================================
