---------------------------- MODULE HookEditsProofs ----------------------------
(***************************************************************************)
(* What HookEdits guarantees for every set of hooks, every change made in  *)
(* a form, every payload, time and caller: proved with TLAPS.              *)
(***************************************************************************)
EXTENDS HookEdits, SequenceTheorems, WellFoundedInduction, TLAPS

----
(***************************************************************************)
(* Numbers, sequences, optional values.                                    *)
(***************************************************************************)
LEMMA LeastNumber ==
  ASSUME NEW S \in SUBSET Nat, S # {}
  PROVE  \E n \in S : \A m \in S : n <= m
<1> DEFINE R == OpToRel(<, Nat)
<1>1. IsWellFoundedOn(R, Nat)
  BY NatLessThanWellFounded
<1> HIDE DEF R
<1>2. PICK n \in S : \A m \in S : ~(<<m, n>> \in R)
  BY <1>1, WFMin
<1>3. \A m \in S : ~(m < n)
  BY <1>2 DEF OpToRel, R
<1> QED
  BY <1>3

LEMMA CountingUp ==
  ASSUME NEW N \in Nat, NEW S, 0 \in S, \A k \in 0..(N - 1) : k \in S => k + 1 \in S
  PROVE  \A k \in 0..N : k \in S
<1> DEFINE T == {k \in 0..N : k \notin S}
<1>1. ASSUME T # {} PROVE FALSE
  <2>1. T \in SUBSET Nat
    OBVIOUS
  <2>2. PICK k \in T : \A j \in T : k <= j
    <3> HIDE DEF T
    <3> QED
      BY <1>1, <2>1, LeastNumber
  <2>3. k # 0 /\ k \in 0..N /\ k \notin S
    OBVIOUS
  <2>4. k - 1 \in 0..(N - 1) /\ k - 1 \in 0..N /\ ~(k <= k - 1) /\ k - 1 + 1 = k
    BY <2>3
  <2>5. k - 1 \in S
    BY <2>2, <2>4
  <2>6. k - 1 + 1 \in S
    BY <2>4, <2>5
  <2> QED
    BY <2>3, <2>4, <2>6
<1> QED
  BY <1>1

LEMMA OptionalIs ==
  ASSUME NEW S, NEW o \in Optional(S)
  PROVE  o = <<>> \/ \E x \in S : o = <<x>>
<1> DEFINE n == Len(o)
<1>1. o \in Seq(S) /\ n <= 1 /\ n \in Nat
  BY LenProperties DEF Optional
<1>2. CASE Len(o) = 0
  BY <1>1, <1>2, EmptySeq
<1>3. CASE Len(o) = 1
  <2>1. o[1] \in S /\ o = <<o[1]>>
    BY <1>1, <1>3
  <2>2. QED
    BY <2>1
<1>4. n = 0 \/ n = 1
  <2> HIDE DEF n
  <2> QED
    BY <1>1
<1>5. QED
  BY <1>2, <1>3, <1>4

LEMMA OptionalHas ==
  ASSUME NEW S
  PROVE  <<>> \in Optional(S) /\ \A x \in S : <<x>> \in Optional(S)
BY DEF Optional

----
(***************************************************************************)
(* Types: from the hook to the form.                                       *)
(***************************************************************************)
GoodForm(f) ==
  /\ f = [g \in DOMAIN FormTypes |-> f[g]]
  /\ \A g \in DOMAIN FormTypes : f[g] \in FormTypes[g]

LEMMA DurationsTyped ==
  ASSUME NEW d \in Nat
  PROVE  FormatDuration(d) \in Nat
BY DEF FormatDuration, Second, Milli

LEMMA FormatTyped ==
  ASSUME NEW o \in Optional(Nat)
  PROVE  /\ Format(o) \in Optional(Nat)
         /\ o = <<>> => Format(o) = <<>>
         /\ o # <<>> => Format(o) = <<FormatDuration(The(o))>>
<1>1. CASE o = <<>>
  BY <1>1, OptionalHas DEF Format
<1>2. ASSUME NEW d \in Nat, o = <<d>> PROVE Format(o) = <<FormatDuration(d)>>
  BY <1>2 DEF Format
<1>3. QED
  BY <1>1, <1>2, OptionalIs, OptionalHas, DurationsTyped DEF The

LEMMA LinesTyped ==
  /\ \A a, b \in Lines : a \o b \in Lines
  /\ \A w \in Types \cup Operators \cup {"required"} : <<w>> \in Lines
  /\ \A w \in Words : Parts[w] \in Lines
  /\ <<>> \in Lines
<1>1. ASSUME NEW a \in Lines, NEW b \in Lines PROVE a \o b \in Lines
  <2>1. a \in Seq(Words) /\ b \in Seq(Words)
    BY DEF Lines
  <2>2. /\ a \o b \in Seq(Words) /\ DOMAIN (a \o b) = 1..(Len(a) + Len(b))
        /\ \A i \in 1..(Len(a) + Len(b)) :
             (a \o b)[i] = IF i <= Len(a) THEN a[i] ELSE b[i - Len(a)]
        /\ Len(a) \in Nat /\ Len(b) \in Nat /\ DOMAIN a = 1..Len(a) /\ DOMAIN b = 1..Len(b)
    BY <2>1, ConcatProperties, LenProperties
  <2>3. ASSUME NEW i \in 1..(Len(a) + Len(b))
        PROVE  Parts[(a \o b)[i]] = <<(a \o b)[i]>>
    <3>1. CASE i <= Len(a)
      BY <2>2, <3>1 DEF Lines
    <3>2. CASE ~(i <= Len(a))
      <4>1. i - Len(a) \in DOMAIN b
        BY <2>2, <3>2
      <4>2. QED
        BY <2>2, <3>2, <4>1 DEF Lines
    <3>3. QED
      BY <3>1, <3>2
  <2>4. QED
    BY <2>2, <2>3 DEF Lines
<1>2. ASSUME NEW w \in Types \cup Operators \cup {"required"} PROVE <<w>> \in Lines
  <2>1. w \in Words /\ Parts[w] = <<w>>
    BY FormsConstants
  <2>2. QED
    BY <2>1 DEF Lines
<1>3. \A w \in Words : Parts[w] \in Lines
  BY FormsConstants DEF Lines
<1>4. QED
  BY <1>1, <1>2, <1>3 DEF Lines

LEMMA FieldLineTyped ==
  ASSUME NEW f \in FieldSpecs
  PROVE  FieldLine(f) \in Lines
<1>1. f.name \in Words /\ f.type \in Types
  BY DEF FieldSpecs
<1>2. QED
  BY <1>1, LinesTyped DEF FieldLine

\* A list of a hook's settings becomes a list of lines.
LEMMA ListTyped ==
  ASSUME NEW S, NEW o \in Optional(Seq(S))
  PROVE  /\ OrElse(o, <<>>) \in Seq(S)
         /\ o # <<>> => OrElse(o, <<>>) = The(o)
         /\ \A i \in DOMAIN OrElse(o, <<>>) : The(o) = OrElse(o, <<>>) /\ OrElse(o, <<>>)[i] \in S
<1>1. OrElse(o, <<>>) \in Seq(S)
  BY OptionalIs DEF OrElse, The, Present
<1>2. QED
  BY <1>1, ElementOfSeq DEF OrElse, The, Present

LEMMA RulesTyped ==
  ASSUME NEW h \in HookSpecs
  PROVE  RulesOf(h) \in RuleSpecs
<1>1. h.rules \in Optional(RuleSpecs)
  BY DEF HookSpecs
<1>2. NoRules \in RuleSpecs
  BY OptionalHas DEF NoRules, RuleSpecs
<1>3. QED
  BY <1>1, <1>2, OptionalIs DEF RulesOf, OrElse, The, Present

----
(***************************************************************************)
(* The lines of an environment.                                            *)
(***************************************************************************)
Envs == UNION {[K -> Words] : K \in SUBSET EnvKeys}

LEMMA EnvsAre ==
  ASSUME NEW env \in Envs
  PROVE  /\ DOMAIN env \subseteq EnvKeys /\ env = [k \in DOMAIN env |-> env[k]]
         /\ \A k \in DOMAIN env : env[k] \in Words
BY DEF Envs

LEMMA NamesAre ==
  /\ Len(EnvNames) \in Nat
  /\ \A i \in 1..Len(EnvNames) : EnvNames[i] \in EnvKeys
  /\ \A k \in EnvKeys : \E i \in 1..Len(EnvNames) : k = EnvNames[i]
<1>1. Len(EnvNames) \in Nat /\ DOMAIN EnvNames = 1..Len(EnvNames)
  BY FormsConstants, LenProperties
<1>2. QED
  BY <1>1 DEF EnvKeys

\* What the variable of the i-th name, if it is set, adds to the text.
Added(env, i) ==
  IF EnvNames[i] \notin DOMAIN env THEN <<>>
  ELSE << <<EnvNames[i], EnvLines[env[EnvNames[i]]].first>> >> \o EnvLines[env[EnvNames[i]]].more

LEMMA AddedTyped ==
  ASSUME NEW env \in Envs, NEW i \in 1..Len(EnvNames)
  PROVE  Added(env, i) \in Seq(EnvKeys \X Words)
<1>1. CASE EnvNames[i] \notin DOMAIN env
  BY <1>1 DEF Added
<1>2. CASE EnvNames[i] \in DOMAIN env
  <2>1. EnvLines[env[EnvNames[i]]] \in [first : Words, more : Seq(EnvKeys \X Words)]
    BY <1>2, EnvsAre, FormsConstants
  <2>2. << <<EnvNames[i], EnvLines[env[EnvNames[i]]].first>> >> \in Seq(EnvKeys \X Words)
    BY <2>1, NamesAre
  <2>3. QED
    BY <1>2, <2>1, <2>2, ConcatProperties DEF Added
<1>3. QED
  BY <1>1, <1>2

\* The text grows with every name.
LEMMA EnvTextIs ==
  ASSUME NEW env \in Envs
  PROVE  \E text : /\ text[0] = <<>> /\ EnvText(env) = text[Len(EnvNames)]
                   /\ \A i \in 1..Len(EnvNames) : text[i] = text[i - 1] \o Added(env, i)
                   /\ \A i \in 0..Len(EnvNames) : text[i] \in Seq(EnvKeys \X Words)
<1> DEFINE N == Len(EnvNames)
           V == Seq(EnvKeys \X Words)
           Step(f, i) ==
             IF i = 0 THEN <<>>
             ELSE IF EnvNames[i] \notin DOMAIN env THEN f[i - 1]
             ELSE f[i - 1] \o (<< <<EnvNames[i], EnvLines[env[EnvNames[i]]].first>> >>
                            \o EnvLines[env[EnvNames[i]]].more)
           Grows(f, n) == f = [i \in 0..n |-> Step(f, i)]
           S == {n \in 0..N : \E f : Grows(f, n)}
           text == CHOOSE f : f = [i \in 0..N |-> Step(f, i)]
<1>1. N \in Nat
  BY NamesAre
<1>2. ASSUME NEW f, NEW i \in 1..N, f[i - 1] \in V
      PROVE  Step(f, i) = f[i - 1] \o Added(env, i) /\ Step(f, i) \in V
  <2>1. CASE EnvNames[i] \notin DOMAIN env
    BY <1>2, <2>1, EmptySeq, ConcatProperties, ConcatEmptySeq DEF Added
  <2>2. CASE EnvNames[i] \in DOMAIN env
    <3>1. EnvLines[env[EnvNames[i]]] \in [first : Words, more : Seq(EnvKeys \X Words)]
      BY <2>2, EnvsAre, FormsConstants
    <3>2. << <<EnvNames[i], EnvLines[env[EnvNames[i]]].first>> >> \in Seq(EnvKeys \X Words)
      BY <3>1, NamesAre
    <3>3. Step(f, i) = f[i - 1] \o Added(env, i)
      <4>1. i # 0
        BY <1>1, <1>2
      <4>2. QED
        BY <2>2, <4>1 DEF Added
    <3>4. QED
      BY <1>2, <3>3, AddedTyped, ConcatProperties
  <2>3. QED
    BY <2>1, <2>2
<1>3. 0 \in S
  <2> DEFINE f == [i \in 0..0 |-> <<>>]
  <2>1. \A i \in 0..0 : i = 0
    OBVIOUS
  <2>2. Grows(f, 0)
    BY <2>1
  <2> HIDE DEF Grows, f
  <2>3. QED
    BY <1>1, <2>2
<1>4. ASSUME NEW n \in 0..(N - 1), n \in S PROVE n + 1 \in S
  <2>1. PICK f : Grows(f, n)
    BY <1>4
  <2>2. /\ n + 1 \in 1..N /\ n + 1 \in 0..N /\ n \in 0..n /\ n + 1 - 1 = n /\ n + 1 # 0
        /\ n + 1 \in 0..(n + 1) /\ \A i \in 0..n : i \in 0..(n + 1) /\ i # n + 1
        /\ \A i \in 0..(n + 1) : i \in 0..n \/ i = n + 1
        /\ \A i \in 0..n : i # 0 => i - 1 \in 0..n
    BY <1>1
  <2> DEFINE g == [i \in 0..(n + 1) |-> IF i = n + 1 THEN Step(f, n + 1) ELSE f[i]]
  <2>3. /\ \A i \in 0..n : g[i] = f[i]
        /\ g[n + 1] = Step(f, n + 1) /\ g = [i \in 0..(n + 1) |-> g[i]]
    <3> HIDE DEF Step
    <3>1. QED
      BY <2>2
  <2> HIDE DEF g
  <2>4. g[n + 1] = Step(g, n + 1)
    <3>1. g[n + 1 - 1] = f[n + 1 - 1]
      BY <2>2, <2>3
    <3>2. Step(g, n + 1) = Step(f, n + 1)
      BY <3>1
    <3>3. QED
      BY <2>3, <3>2
  <2>5. ASSUME NEW i \in 0..n PROVE g[i] = Step(g, i)
    <3>1. i # 0 => g[i - 1] = f[i - 1]
      BY <2>2, <2>3
    <3>2. Step(g, i) = Step(f, i)
      BY <3>1
    <3>3. f[i] = Step(f, i)
      <4> HIDE DEF Step
      <4> QED
        BY <2>1
    <3>4. QED
      BY <2>3, <3>2, <3>3
  <2>6. \A i \in 0..(n + 1) : g[i] = Step(g, i)
    <3> HIDE DEF Step
    <3> QED
      BY <2>2, <2>4, <2>5
  <2>7. Grows(g, n + 1)
    <3> HIDE DEF Step
    <3> QED
      BY <2>3, <2>6
  <2> HIDE DEF Grows
  <2>8. QED
    BY <2>2, <2>7
<1>5. N \in S
  <2> HIDE DEF S
  <2>1. \A n \in 0..N : n \in S
    BY <1>1, <1>3, <1>4, CountingUp
  <2> QED
    BY <1>1, <2>1
<1>6. PICK f : Grows(f, N)
  <2> HIDE DEF Grows
  <2> QED
    BY <1>5
<1>7. text = [i \in 0..N |-> Step(text, i)]
  <2> DEFINE Is(f_1) == f_1 = [i \in 0..N |-> Step(f_1, i)]
  <2>1. Is(f)
    BY <1>6
  <2>2. text = CHOOSE f_1 : Is(f_1)
    OBVIOUS
  <2> HIDE DEF Is, text
  <2>3. Is(text)
    BY <2>1, <2>2
  <2>4. QED
    BY <2>3 DEF Is
<1>8. EnvText(env) = text[N]
  BY DEF EnvText
<1> HIDE DEF text
<1>9. \A i \in 0..N : text[i] = Step(text, i)
  <2> HIDE DEF Step
  <2> QED
    BY <1>7
<1>10. \A n \in 0..N : text[n] \in V
  <2> DEFINE T == {n \in 0..N : text[n] \in V}
  <2>1. 0 \in T
    <3>1. 0 \in 0..N
      BY <1>1
    <3>2. text[0] = <<>>
      BY <1>9, <3>1
    <3>3. QED
      BY <3>1, <3>2, EmptySeq
  <2>2. ASSUME NEW n \in 0..(N - 1), n \in T PROVE n + 1 \in T
    <3>1. n + 1 \in 1..N /\ n + 1 \in 0..N /\ n + 1 - 1 = n
      BY <1>1
    <3> HIDE DEF V, Step
    <3>2. Step(text, n + 1) \in V
      BY <1>2, <2>2, <3>1
    <3>3. QED
      BY <1>9, <3>1, <3>2
  <2>3. \A n \in 0..N : n \in T
    <3> HIDE DEF T
    <3> QED
      BY <1>1, <2>1, <2>2, CountingUp
  <2>4. QED
    BY <2>3
<1>11. text[0] = <<>>
  <2>1. 0 \in 0..N
    BY <1>1
  <2>2. QED
    BY <1>9, <2>1
<1>12. \A i \in 1..N : text[i] = text[i - 1] \o Added(env, i)
  <2> TAKE i \in 1..N
  <2>1. i - 1 \in 0..N /\ i \in 0..N
    BY <1>1
  <2> HIDE DEF Step, V
  <2>2. QED
    BY <1>2, <1>9, <1>10, <2>1
<1>13. QED
  BY <1>8, <1>10, <1>11, <1>12

----
(***************************************************************************)
(* Every form is well typed.                                               *)
(***************************************************************************)
LEMMA HooksAre ==
  ASSUME NEW h \in HookSpecs
  PROVE  /\ h.name \in Words /\ h.slug \in Slugs /\ h.description \in Words
         /\ h.enabled \in BOOLEAN /\ h.executor \in CommandExecutors \cup HttpExecutors
         /\ h.cwd \in Optional(Words) /\ h.env \in Envs /\ h.timeout \in Optional(Nat)
         /\ h.retries \in Optional(RetrySpecs) /\ h.auth \in Optional(AuthSpecs)
         /\ h.payload \in Optional(Seq(FieldSpecs)) /\ RulesOf(h) \in RuleSpecs
         /\ RulesOf(h).filters \in Optional(Seq(FilterSpecs))
         /\ RulesOf(h).windows \in Optional(Seq(WindowSpecs))
         /\ RulesOf(h).cooldown \in Optional(Nat)
         /\ RulesOf(h).rate \in Optional(RateSpecs)
<1>1. RulesOf(h) \in RuleSpecs
  BY RulesTyped
<1>2. QED
  BY <1>1 DEF HookSpecs, Envs, RuleSpecs

LEMMA ExecutorsTyped ==
  ASSUME NEW e \in CommandExecutors \cup HttpExecutors
  PROVE  /\ e.type \in CommandTypes \cup {"http"} /\ e.arg \in Words
         /\ e.type # "http" => e \in CommandExecutors
BY EditsConstants DEF CommandExecutors, HttpExecutors

LEMMA AuthTyped ==
  ASSUME NEW h \in HookSpecs
  PROVE  /\ OrElse(h.auth, [mode |-> "none"]).mode \in DOMAIN WordsAsked
         /\ AuthWords(h) \in Seq(Words)
         /\ Len(AuthWords(h)) = WordsAsked[OrElse(h.auth, [mode |-> "none"]).mode]
<1>1. CASE h.auth = <<>>
  BY <1>1, EmptySeq DEF AuthWords, OrElse, Present, WordsAsked
<1>2. ASSUME NEW a \in AuthSpecs, h.auth = <<a>>
      PROVE  /\ OrElse(h.auth, [mode |-> "none"]).mode = a.mode
             /\ AuthWords(h) = a.words
  BY <1>2 DEF AuthWords, OrElse, Present, The
<1>3. ASSUME NEW a \in AuthSpecs
      PROVE  a.mode \in DOMAIN WordsAsked /\ a.words \in Seq(Words) /\ Len(a.words) = WordsAsked[a.mode]
  BY DEF AuthSpecs
<1>4. QED
  BY <1>1, <1>2, <1>3, OptionalIs, HooksAre

LEMMA RetriesTyped ==
  ASSUME NEW h \in HookSpecs
  PROVE  LET count == OrElse(h.retries, [count |-> 0]).count
             backoff == OrElse(h.retries, [backoff |-> "exponential"]).backoff
             initial == [i \in DOMAIN h.retries |-> FormatDuration(h.retries[i].initial)]
             max == [i \in DOMAIN h.retries |-> FormatDuration(h.retries[i].max)]
         IN /\ count \in Nat /\ backoff \in Strategies
            /\ initial \in Optional(Nat) /\ max \in Optional(Nat)
            /\ h.retries = <<>> => count = 0
            /\ \A r \in RetrySpecs : h.retries = <<r>> =>
                 /\ count = r.count /\ backoff = r.backoff
                 /\ initial = <<FormatDuration(r.initial)>> /\ max = <<FormatDuration(r.max)>>
<1>1. CASE h.retries = <<>>
  BY <1>1, OptionalHas DEF OrElse, Present, Strategies
<1>2. ASSUME NEW r \in RetrySpecs, h.retries = <<r>>
      PROVE  /\ OrElse(h.retries, [count |-> 0]).count = r.count
             /\ OrElse(h.retries, [backoff |-> "exponential"]).backoff = r.backoff
             /\ [i \in DOMAIN h.retries |-> FormatDuration(h.retries[i].initial)]
                  = <<FormatDuration(r.initial)>>
             /\ [i \in DOMAIN h.retries |-> FormatDuration(h.retries[i].max)]
                  = <<FormatDuration(r.max)>>
  BY <1>2 DEF OrElse, Present, The
<1>3. ASSUME NEW r \in RetrySpecs
      PROVE  /\ r.count \in Nat /\ r.backoff \in Strategies
             /\ FormatDuration(r.initial) \in Nat /\ FormatDuration(r.max) \in Nat
  BY DurationsTyped DEF RetrySpecs
<1>4. QED
  BY <1>1, <1>2, <1>3, OptionalIs, OptionalHas, HooksAre

LEMMA RateTyped ==
  ASSUME NEW o \in Optional(RateSpecs)
  PROVE  LET max == OrElse(o, [max |-> 0]).max
             window == [i \in DOMAIN o |-> FormatDuration(o[i].window)]
         IN /\ max \in Nat /\ window \in Optional(Nat)
            /\ o = <<>> => max = 0
            /\ \A r \in RateSpecs : o = <<r>> =>
                 max = r.max /\ window = <<FormatDuration(r.window)>>
<1>1. CASE o = <<>>
  BY <1>1, OptionalHas DEF OrElse, Present
<1>2. ASSUME NEW r \in RateSpecs, o = <<r>>
      PROVE  /\ OrElse(o, [max |-> 0]).max = r.max
             /\ [i \in DOMAIN o |-> FormatDuration(o[i].window)] = <<FormatDuration(r.window)>>
  BY <1>2 DEF OrElse, Present, The
<1>3. ASSUME NEW r \in RateSpecs
      PROVE  r.max \in Nat /\ FormatDuration(r.window) \in Nat
  BY DurationsTyped DEF RateSpecs
<1>4. QED
  BY <1>1, <1>2, <1>3, OptionalIs, OptionalHas

LEMMA FieldsShown ==
  ASSUME NEW o \in Optional(Seq(FieldSpecs))
  PROVE  LET s == OrElse(o, <<>>)
         IN /\ LinesOf(o, FieldLine) = [i \in DOMAIN s |-> FieldLine(s[i])]
            /\ LinesOf(o, FieldLine) \in Seq(Lines) /\ s \in Seq(FieldSpecs)
<1> DEFINE s == OrElse(o, <<>>)
<1>1. s \in Seq(FieldSpecs) /\ \A i \in DOMAIN s : The(o) = s /\ s[i] \in FieldSpecs
  BY ListTyped
<1>2. LinesOf(o, FieldLine) = [i \in DOMAIN s |-> FieldLine(s[i])]
  <2>1. LinesOf(o, FieldLine) = [i \in DOMAIN s |-> FieldLine(The(o)[i])]
    BY DEF LinesOf
  <2>2. QED
    BY <1>1, <2>1
<1>3. DOMAIN s = 1..Len(s) /\ Len(s) \in Nat
  BY <1>1, LenProperties
<1> HIDE DEF s
<1>4. [i \in DOMAIN s |-> FieldLine(s[i])] \in Seq(Lines)
  <2>1. \A i \in 1..Len(s) : FieldLine(s[i]) \in Lines
    BY <1>1, <1>3, FieldLineTyped
  <2>2. QED
    BY <1>3, <2>1, IsASeq
<1>5. QED
  BY <1>1, <1>2, <1>4 DEF s

LEMMA FiltersShown ==
  ASSUME NEW o \in Optional(Seq(FilterSpecs))
  PROVE  LET s == OrElse(o, <<>>)
         IN /\ LinesOf(o, FilterLine) = [i \in DOMAIN s |-> FilterLine(s[i])]
            /\ LinesOf(o, FilterLine) \in Seq(FilterLines) /\ s \in Seq(FilterSpecs)
<1> DEFINE s == OrElse(o, <<>>)
<1>1. s \in Seq(FilterSpecs) /\ \A i \in DOMAIN s : The(o) = s /\ s[i] \in FilterSpecs
  BY ListTyped
<1>2. LinesOf(o, FilterLine) = [i \in DOMAIN s |-> FilterLine(s[i])]
  <2>1. LinesOf(o, FilterLine) = [i \in DOMAIN s |-> FilterLine(The(o)[i])]
    BY DEF LinesOf
  <2>2. QED
    BY <1>1, <2>1
<1>3. DOMAIN s = 1..Len(s) /\ Len(s) \in Nat
  BY <1>1, LenProperties
<1> HIDE DEF s
<1>4. [i \in DOMAIN s |-> FilterLine(s[i])] \in Seq(FilterLines)
  <2>1. \A i \in 1..Len(s) : FilterLine(s[i]) \in FilterLines
    BY <1>1, <1>3 DEF FilterSpecs
  <2>2. QED
    BY <1>3, <2>1, IsASeq
<1>5. QED
  BY <1>1, <1>2, <1>4 DEF s

LEMMA WindowsShown ==
  ASSUME NEW o \in Optional(Seq(WindowSpecs))
  PROVE  LinesOf(o, WindowLine) = OrElse(o, <<>>) /\ OrElse(o, <<>>) \in Seq(WindowSpecs)
<1> DEFINE s == OrElse(o, <<>>)
<1>1. s \in Seq(WindowSpecs) /\ \A i \in DOMAIN s : The(o) = s /\ s[i] \in WindowSpecs
  BY ListTyped
<1>2. LinesOf(o, WindowLine) = [i \in DOMAIN s |-> The(o)[i]]
  BY DEF LinesOf, WindowLine
<1>3. s = [i \in DOMAIN s |-> s[i]]
  <2>1. DOMAIN s = 1..Len(s) /\ Len(s) \in Nat
    BY <1>1, LenProperties
  <2> HIDE DEF s
  <2>2. QED
    BY <1>1, <2>1, SeqDef
<1>4. QED
  BY <1>1, <1>2, <1>3

LEMMA FormTyped ==
  ASSUME NEW h \in HookSpecs
  PROVE  GoodForm(FormOf(h))
<1> DEFINE f == FormOf(h)
<1>1. /\ f.name \in Words /\ f.slug \in Slugs \cup {Empty} /\ f.description \in Words
      /\ f.enabled \in BOOLEAN /\ f.type \in CommandTypes \cup {"http"} /\ f.command \in Words
  BY HooksAre, ExecutorsTyped DEF FormOf
<1>2. f.cwd \in Words
  BY HooksAre, OptionalIs, RulesConstants DEF FormOf, OrElse, The, Present
<1>3. f.timeout \in Typed /\ f.cooldown \in Typed
  <2>1. Format(h.timeout) \in Optional(Nat) /\ Format(RulesOf(h).cooldown) \in Optional(Nat)
    BY HooksAre, FormatTyped
  <2>2. QED
    BY <2>1, SeqMonotonic DEF FormOf, Typed, Optional
<1>4. f.env \in Seq(EnvKeys \X Words)
  BY HooksAre, EnvTextIs, NamesAre DEF FormOf
<1>5. /\ f.count \in Nat /\ f.backoff \in Strategies
      /\ f.initial \in Typed /\ f.max \in Typed
  <2>1. /\ f.count \in Nat /\ f.backoff \in Strategies
        /\ f.initial \in Optional(Nat) /\ f.max \in Optional(Nat)
    BY RetriesTyped DEF FormOf
  <2> HIDE DEF f
  <2>2. QED
    BY <2>1, SeqMonotonic DEF Typed, Optional
<1>6. f.mode \in DOMAIN WordsAsked /\ f.token \in Words /\ f.header \in Words /\ f.secret \in Words
  <2>1. AuthWords(h) \in Seq(Words) /\ \A i \in 1..Len(AuthWords(h)) : AuthWords(h)[i] \in Words
    BY AuthTyped, ElementOfSeq
  <2>2. Empty \in Words
    BY RulesConstants
  <2>3. QED
    BY <2>1, <2>2, AuthTyped DEF FormOf
<1>7. f.fields \in Seq(Lines) /\ f.filters \in Seq(FilterLines) /\ f.windows \in Seq(WindowSpecs)
  BY HooksAre, FieldsShown, FiltersShown, WindowsShown DEF FormOf
<1>8. f.rateMax \in Nat /\ f.rateWindow \in Typed
  <2>1. f.rateMax \in Nat /\ f.rateWindow \in Optional(Nat)
    BY HooksAre, RateTyped DEF FormOf
  <2> HIDE DEF f
  <2>2. QED
    BY <2>1, SeqMonotonic DEF Typed, Optional
<1>9. f = [g \in DOMAIN FormTypes |-> f[g]]
  BY DEF FormOf, FormTypes
<1> HIDE DEF f
<1>10. \A g \in DOMAIN FormTypes : f[g] \in FormTypes[g]
  BY <1>1, <1>2, <1>3, <1>4, <1>5, <1>6, <1>7, <1>8 DEF FormTypes
<1>11. QED
  BY <1>9, <1>10 DEF GoodForm, f

LEMMA NewFormTyped ==
  GoodForm(NewForm)
<1> DEFINE f == NewForm
<1>1. Empty \in Words /\ DefaultHeader \in Words
  BY RulesConstants, FormsConstants
<1>2. f = [g \in DOMAIN FormTypes |-> f[g]]
  BY DEF NewForm, FormTypes
<1>3. <<>> \in Typed
  BY OptionalHas DEF Typed
<1>4. /\ f.name \in Words /\ f.slug \in Slugs \cup {Empty} /\ f.description \in Words
      /\ f.enabled \in BOOLEAN /\ f.type \in CommandTypes \cup {"http"} /\ f.command \in Words
      /\ f.cwd \in Words /\ f.timeout \in Typed /\ f.cooldown \in Typed
      /\ f.env \in Seq(EnvKeys \X Words) /\ f.count \in Nat /\ f.backoff \in Strategies
      /\ f.initial \in Typed /\ f.max \in Typed /\ f.mode \in DOMAIN WordsAsked
      /\ f.token \in Words /\ f.header \in Words /\ f.secret \in Words
      /\ f.fields \in Seq(Lines) /\ f.filters \in Seq(FilterLines)
      /\ f.windows \in Seq(WindowSpecs) /\ f.rateMax \in Nat /\ f.rateWindow \in Typed
  BY <1>1, <1>3, EmptySeq DEF NewForm, CommandTypes, Strategies, WordsAsked
<1> HIDE DEF f
<1>5. \A g \in DOMAIN FormTypes : f[g] \in FormTypes[g]
  BY <1>4 DEF FormTypes
<1>6. QED
  BY <1>2, <1>5 DEF GoodForm, f

\* A field's new value leaves the others as they are.
LEMMA AmendedTyped ==
  ASSUME NEW f, GoodForm(f), NEW g \in DOMAIN FormTypes, NEW v \in FormTypes[g]
  PROVE  GoodForm([f EXCEPT ![g] = v])
<1> DEFINE e == [f EXCEPT ![g] = v]
<1>1. DOMAIN f = DOMAIN FormTypes
  BY DEF GoodForm
<1>2. /\ e = [k \in DOMAIN FormTypes |-> e[k]]
      /\ \A k \in DOMAIN FormTypes : e[k] = IF k = g THEN v ELSE f[k]
  <2> HIDE DEF GoodForm
  <2>1. QED
    BY <1>1
<1> HIDE DEF e
<1>3. QED
  BY <1>2 DEF GoodForm, e

LEMMA RedisplayedIs ==
  ASSUME NEW f
  PROVE  \A g \in DOMAIN f : \/ Redisplayed(f)[g] = f[g]
                             \/ g = "header" /\ f[g] = Empty
BY DEF Redisplayed

LEMMA RedisplayedTyped ==
  ASSUME NEW f, GoodForm(f)
  PROVE  GoodForm(Redisplayed(f))
<1>1. "header" \in DOMAIN FormTypes /\ FormTypes["header"] = Words
  BY DEF FormTypes
<1>2. f["header"] \in Words /\ DefaultHeader \in Words
  BY <1>1, FormsConstants DEF GoodForm
<1>3. PICK v \in Words : v = IF f["header"] = Empty THEN DefaultHeader ELSE f["header"]
  BY <1>2
<1>4. PICK g \in DOMAIN FormTypes : g = "header" /\ v \in FormTypes[g]
  BY <1>1
<1>5. Redisplayed(f) = [f EXCEPT ![g] = v]
  BY <1>3, <1>4 DEF Redisplayed
<1>6. GoodForm([f EXCEPT ![g] = v])
  <2>1. \A k \in DOMAIN FormTypes : \A w \in FormTypes[k] : GoodForm([f EXCEPT ![k] = w])
    BY AmendedTyped
  <2>2. QED
    BY <1>4, <2>1
<1>7. QED
  BY <1>5, <1>6

----
(***************************************************************************)
(* What is parsed is well typed, and so is what is written.                *)
(***************************************************************************)
LEMMA FormsAre ==
  ASSUME NEW f, GoodForm(f)
  PROVE  /\ f.name \in Words /\ f.slug \in Slugs \cup {Empty} /\ f.description \in Words
         /\ f.enabled \in BOOLEAN /\ f.type \in CommandTypes \cup {"http"} /\ f.command \in Words
         /\ f.cwd \in Words /\ f.timeout \in Typed /\ f.cooldown \in Typed
         /\ f.env \in Seq(EnvKeys \X Words) /\ f.count \in Nat /\ f.backoff \in Strategies
         /\ f.initial \in Typed /\ f.max \in Typed /\ f.mode \in DOMAIN WordsAsked
         /\ f.token \in Words /\ f.header \in Words /\ f.secret \in Words
         /\ f.fields \in Seq(Lines) /\ f.filters \in Seq(FilterLines)
         /\ f.windows \in Seq(WindowSpecs) /\ f.rateMax \in Nat /\ f.rateWindow \in Typed
BY DEF GoodForm, FormTypes

\* Of several lines for one variable, there is a last one.
LEMMA LastLine ==
  ASSUME NEW lines \in Seq(EnvKeys \X Words), NEW k \in {lines[i][1] : i \in DOMAIN lines}
  PROVE  \E last \in DOMAIN lines :
           /\ lines[last][1] = k /\ \A j \in DOMAIN lines : lines[j][1] = k => j <= last
           /\ ParseEnv(lines)[k] = lines[last][2]
<1> DEFINE n == Len(lines)
           Of(i) == lines[i][1] = k
           Last(i) == lines[i][1] = k /\ \A j \in DOMAIN lines : lines[j][1] = k => j <= i
           S == {m \in Nat : m < n /\ Of(n - m)}
           last == CHOOSE i \in DOMAIN lines : Last(i)
<1>1. n \in Nat /\ DOMAIN lines = 1..n
  BY LenProperties
<1>2. PICK i \in 1..n : Of(i)
  BY <1>1
<1>3. n - i \in S
  <2>1. n - i \in Nat /\ n - i < n /\ n - (n - i) = i
    BY <1>1
  <2>2. QED
    BY <1>2, <2>1
<1>4. PICK m \in S : \A l \in S : m <= l
  <2>1. S \in SUBSET Nat
    OBVIOUS
  <2> HIDE DEF S
  <2>2. QED
    BY <1>3, <2>1, LeastNumber
<1>5. n - m \in 1..n /\ Of(n - m)
  BY <1>1
<1>6. ASSUME NEW j \in 1..n, Of(j) PROVE j <= n - m
  <2>1. n - j \in Nat /\ n - j < n /\ n - (n - j) = j
    BY <1>1
  <2>2. n - j \in S
    BY <1>6, <2>1
  <2>3. m <= n - j
    BY <1>4, <2>2
  <2>4. m \in Nat
    OBVIOUS
  <2>5. QED
    BY <1>1, <2>3, <2>4
<1>7. \E l \in DOMAIN lines : Last(l)
  BY <1>1, <1>5, <1>6
<1>8. last \in DOMAIN lines /\ Last(last)
  <2> HIDE DEF Last
  <2>1. QED
    BY <1>7
<1>9. ParseEnv(lines)[k] = lines[last][2]
  BY DEF ParseEnv
<1> HIDE DEF last
<1>10. QED
  BY <1>8, <1>9

LEMMA ParseEnvTyped ==
  ASSUME NEW lines \in Seq(EnvKeys \X Words)
  PROVE  /\ ParseEnv(lines) \in Envs
         /\ DOMAIN ParseEnv(lines) = {lines[i][1] : i \in DOMAIN lines}
<1> DEFINE K == {lines[i][1] : i \in DOMAIN lines}
<1>1. DOMAIN ParseEnv(lines) = K /\ ParseEnv(lines) = [k \in K |-> ParseEnv(lines)[k]]
  BY DEF ParseEnv
<1>2. \A i \in DOMAIN lines : lines[i] \in EnvKeys \X Words
  BY LenProperties, ElementOfSeq
<1>3. K \subseteq EnvKeys
  BY <1>2
<1>4. \A k \in K : ParseEnv(lines)[k] \in Words
  BY <1>2, LastLine
<1> HIDE DEF K
<1>5. ParseEnv(lines) \in [K -> Words]
  BY <1>1, <1>4
<1>6. QED
  BY <1>1, <1>3, <1>5 DEF Envs, K

LEMMA ParseFieldTyped ==
  ASSUME NEW line \in Lines, FieldLineParses(line)
  PROVE  ParseField(line) \in FieldSpecs
<1>1. Len(line) >= 2 /\ line \in Seq(Words) /\ Len(line) \in Nat
  BY LenProperties DEF FieldLineParses, Lines
<1>2. line[1] \in Words /\ line[2] \in Words
  BY <1>1
<1>3. TrimTo[line[1]] \in Words /\ TrimTo[line[2]] \in Types
  BY <1>2, FormsConstants DEF FieldLineParses
<1>4. QED
  BY <1>3 DEF ParseField, FieldSpecs

LEMMA JoinIs ==
  ASSUME NEW line \in FilterLines, Len(line) > 2
  PROVE  Join(Rest(line)) \in Words /\ Parts[Join(Rest(line))] = Rest(line)
<1>1. \E w \in Words : Parts[w] = Rest(line)
  BY DEF FilterLines
<1>2. QED
  BY <1>1 DEF Join

\* A filter's line is two words, and after them its value's parts.
LEMMA FilterLineIs ==
  ASSUME NEW a \in Words, NEW b \in Words, NEW s \in Seq(Words)
  PROVE  LET line == (<<a>> \o <<b>>) \o s
         IN /\ line \in Seq(Words) /\ Len(line) = 2 + Len(s) /\ line[1] = a /\ line[2] = b
            /\ Rest(line) = s
<1> DEFINE line == (<<a>> \o <<b>>) \o s
           x == <<a>> \o <<b>>
<1>1. x \in Seq(Words) /\ Len(x) = 2 /\ x[1] = a /\ x[2] = b
  OBVIOUS
<1>2. Len(s) \in Nat
  BY LenProperties
<1> HIDE DEF x
<1>3. /\ x \o s \in Seq(Words) /\ Len(x \o s) = 2 + Len(s)
      /\ \A i \in 1..(2 + Len(s)) : (x \o s)[i] = IF i <= 2 THEN x[i] ELSE s[i - 2]
  <2>1. /\ x \o s \in Seq(Words) /\ Len(x \o s) = Len(x) + Len(s)
        /\ \A i \in 1..(Len(x) + Len(s)) :
             (x \o s)[i] = IF i <= Len(x) THEN x[i] ELSE s[i - Len(x)]
    BY <1>1, ConcatProperties, Zenon
  <2>2. QED
    BY <1>1, <2>1, Zenon
<1>4. (x \o s)[1] = a /\ (x \o s)[2] = b
  BY <1>1, <1>2, <1>3
<1>5. Rest(x \o s) = s
  <2> DEFINE y == x \o s
             r == SubSeq(y, 3, Len(y))
  <2>1. Len(y) \in Nat /\ y \in Seq(Words) /\ Len(y) = 2 + Len(s) /\ \A i \in 3..Len(y) : y[i] \in Words
    BY <1>2, <1>3, ElementOfSeq
  <2> HIDE DEF y
  <2>2. /\ r \in Seq(Words) /\ Len(r) = Len(s)
        /\ \A i \in 1..Len(s) : r[i] = y[3 + i - 1]
    BY <1>2, <2>1, SubSeqProperties
  <2>3. \A i \in 1..Len(s) : r[i] = s[i]
    <3> TAKE i \in 1..Len(s)
    <3>1. i + 2 \in 1..(2 + Len(s)) /\ 3 + i - 1 = i + 2 /\ ~(i + 2 <= 2) /\ i + 2 - 2 = i
      BY <1>2
    <3>2. y[i + 2] = s[i]
      BY <1>3, <3>1 DEF y
    <3>3. QED
      BY <2>2, <3>1, <3>2
  <2> HIDE DEF r
  <2>4. r = s
    BY <2>2, <2>3, SeqEqual
  <2>5. QED
    BY <2>4 DEF Rest, r, y
<1>6. QED
  BY <1>3, <1>4, <1>5 DEF x

LEMMA ParseFilterTyped ==
  ASSUME NEW line \in FilterLines, FilterLineParses(line)
  PROVE  ParseFilter(line) \in FilterSpecs
<1> DEFINE f == ParseFilter(line)
           value == TrimTo[Join(Rest(line))]
<1>1. /\ Len(line) >= 2 /\ line \in Seq(Words) /\ Len(line) \in Nat
      /\ \A i \in DOMAIN line : Parts[line[i]] = <<line[i]>>
  BY LenProperties DEF FilterLineParses, FilterLines, Lines
<1>2. line[1] \in Words /\ line[2] \in Words /\ Parts[line[1]] = <<line[1]>>
  BY <1>1
<1>3. TrimTo[line[1]] \in Words /\ TrimTo[line[2]] \in Operators /\ f.op = TrimTo[line[2]]
  BY <1>2, FormsConstants DEF FilterLineParses, ParseFilter
<1>4. f.op # "exists" => value \in Words /\ f.value = <<value>>
  <2>1. f.op # "exists" => Len(line) > 2
    BY <1>3 DEF FilterLineParses
  <2>2. QED
    BY <1>3, <2>1, JoinIs, FormsConstants DEF ParseFilter
<1>5. f.op = "exists" => f.value = <<>>
  BY <1>3 DEF ParseFilter
<1>6. f \in [field : Words, op : Operators, value : Optional(Words)]
  <2>1. f.value \in Optional(Words)
    BY <1>4, <1>5, OptionalHas
  <2>2. QED
    BY <1>3, <2>1 DEF ParseFilter
<1>7. Parts[f.field] = <<f.field>>
  <2>1. Len(Parts[line[1]]) = 1
    BY <1>2
  <2>2. f.field = TrimTo[line[1]]
    BY DEF ParseFilter
  <2>3. Parts[f.field] \in Seq(Words) /\ Len(Parts[f.field]) = 1
    BY <1>2, <1>3, <2>1, <2>2, FormsConstants
  <2>4. Parts[f.field] = <<Parts[f.field][1]>> /\ Parts[f.field][1] \in Words /\ 1 \in DOMAIN Parts[f.field]
    BY <2>3
  <2>5. Parts[Parts[f.field][1]] = <<Parts[f.field][1]>>
    BY <1>3, <2>2, <2>4, FormsConstants
  <2>6. Parts[f.field][1] = f.field
    <3>1. \A v, w \in Words : Parts[v] = Parts[w] => v = w
      BY FormsConstants
    <3>2. f.field \in Words /\ Parts[Parts[f.field][1]] = Parts[f.field]
      BY <1>3, <2>2, <2>4, <2>5
    <3>3. QED
      BY <2>4, <3>1, <3>2
  <2>7. QED
    BY <2>4, <2>6
<1>8. PICK s \in Lines : /\ s = IF Present(f.value) THEN Parts[The(f.value)] ELSE <<>>
                         /\ Len(s) > 0 => \E w \in Words : Parts[w] = s
  <2>1. CASE f.op # "exists"
    <3>1. f.value = <<value>> /\ value \in Words
      BY <1>4, <2>1
    <3>2. QED
      BY <3>1, LinesTyped DEF Present, The
  <2>2. CASE f.op = "exists"
    BY <1>5, <2>2, LinesTyped DEF Present
  <2>3. QED
    BY <2>1, <2>2
<1>9. FilterLine(f) = (<<f.field>> \o <<f.op>>) \o s
  BY <1>7, <1>8 DEF FilterLine
<1>10. FilterLine(f) \in FilterLines
  <2>1. f.field \in Words /\ f.op \in Operators /\ f.op \in Words
    BY <1>6, FormsConstants
  <2>2. <<f.field>> \in Lines /\ <<f.op>> \in Lines
    <3>1. <<f.field>> \in Lines
      BY <1>7, <2>1, LinesTyped
    <3>2. QED
      BY <2>1, <3>1, LinesTyped
  <2>3. FilterLine(f) \in Lines
    BY <1>9, <2>2, LinesTyped
  <2>4. s \in Seq(Words) /\ Len(s) \in Nat
    BY LenProperties DEF Lines
  <2>5. Len(FilterLine(f)) = 2 + Len(s) /\ Rest(FilterLine(f)) = s
    BY <1>9, <2>1, <2>4, FilterLineIs
  <2>6. Len(FilterLine(f)) > 2 => \E w \in Words : Parts[w] = Rest(FilterLine(f))
    BY <1>8, <2>4, <2>5
  <2>7. QED
    BY <2>3, <2>6 DEF FilterLines
<1>11. QED
  BY <1>6, <1>10 DEF FilterSpecs

\* Durations that are read.
Readable(s) == \A i \in DOMAIN s : s[i] # Unreadable

LEMMA ReadableIs ==
  ASSUME NEW o \in Typed
  PROVE  o \in Seq(Int) /\ (Readable(o) <=> o \in Optional(Nat))
<1>1. o = <<>> \/ \E d \in Nat \cup {Unreadable} : o = <<d>>
  BY OptionalIs DEF Typed
<1>2. CASE o = <<>>
  BY <1>2, OptionalHas DEF Readable
<1>3. ASSUME NEW d \in Nat \cup {Unreadable}, o = <<d>>
      PROVE  o \in Seq(Int) /\ (Readable(o) <=> o \in Optional(Nat))
  <2>1. d \in Int /\ (d # Unreadable <=> d \in Nat)
    BY DEF Unreadable
  <2>2. Readable(o) <=> d # Unreadable
    BY <1>3 DEF Readable
  <2>3. d \in Nat <=> o \in Optional(Nat)
    BY <1>3 DEF Optional
  <2>4. QED
    BY <1>3, <2>1, <2>2, <2>3
<1>4. QED
  BY <1>1, <1>2, <1>3

LEMMA ReadableConcat ==
  ASSUME NEW a \in Seq(Int), NEW b \in Seq(Int)
  PROVE  a \o b \in Seq(Int) /\ (Readable(a \o b) <=> Readable(a) /\ Readable(b))
<1>1. /\ a \o b \in Seq(Int) /\ DOMAIN (a \o b) = 1..(Len(a) + Len(b))
      /\ \A i \in 1..(Len(a) + Len(b)) :
           (a \o b)[i] = IF i <= Len(a) THEN a[i] ELSE b[i - Len(a)]
      /\ Len(a) \in Nat /\ Len(b) \in Nat /\ DOMAIN a = 1..Len(a) /\ DOMAIN b = 1..Len(b)
  BY ConcatProperties, LenProperties
<1>2. ASSUME Readable(a \o b), NEW i \in DOMAIN a PROVE a[i] # Unreadable
  <2>1. i \in 1..(Len(a) + Len(b)) /\ i <= Len(a)
    BY <1>1
  <2>2. QED
    BY <1>1, <1>2, <2>1 DEF Readable
<1>3. ASSUME Readable(a \o b), NEW i \in DOMAIN b PROVE b[i] # Unreadable
  <2>1. /\ Len(a) + i \in 1..(Len(a) + Len(b)) /\ ~(Len(a) + i <= Len(a))
        /\ Len(a) + i - Len(a) = i
    BY <1>1
  <2>2. (a \o b)[Len(a) + i] = b[i]
    BY <1>1, <2>1
  <2>3. QED
    BY <1>1, <1>3, <2>1, <2>2 DEF Readable
<1>4. ASSUME Readable(a), Readable(b), NEW i \in DOMAIN (a \o b) PROVE (a \o b)[i] # Unreadable
  <2>1. CASE i <= Len(a)
    BY <1>1, <1>4, <2>1 DEF Readable
  <2>2. CASE ~(i <= Len(a))
    <3>1. i - Len(a) \in DOMAIN b
      BY <1>1, <1>4, <2>2
    <3>2. QED
      BY <1>1, <1>4, <2>2, <3>1 DEF Readable
  <2>3. QED
    BY <2>1, <2>2
<1>5. QED
  BY <1>1, <1>2, <1>3, <1>4 DEF Readable

LEMMA DurationsAreRead ==
  ASSUME NEW f, GoodForm(f)
  PROVE  FormParses(f) <=>
           /\ f.type # "http"
           /\ f.timeout \in Optional(Nat) /\ f.cooldown \in Optional(Nat)
           /\ f.count > 0 => f.initial \in Optional(Nat) /\ f.max \in Optional(Nat)
           /\ f.rateMax > 0 => f.rateWindow \in Optional(Nat)
           /\ \A i \in DOMAIN f.fields : FieldLineParses(f.fields[i])
           /\ \A i \in DOMAIN f.filters : FilterLineParses(f.filters[i])
           /\ \A i \in DOMAIN f.windows : WindowLineParses(f.windows[i])
           /\ \A i \in DOMAIN Credentials(f) : TrimTo[Credentials(f)[i]] # Empty
<1> DEFINE a == f.timeout
           b == f.cooldown
           c == IF f.count > 0 THEN f.initial \o f.max ELSE <<>>
           d == IF f.rateMax > 0 THEN f.rateWindow ELSE <<>>
<1>1. /\ f.timeout \in Typed /\ f.cooldown \in Typed /\ f.initial \in Typed
      /\ f.max \in Typed /\ f.rateWindow \in Typed
  BY FormsAre
<1>2. a \in Seq(Int) /\ b \in Seq(Int) /\ d \in Seq(Int)
  BY <1>1, ReadableIs
<1>3. /\ c \in Seq(Int)
      /\ Readable(c) <=> (f.count > 0 => f.initial \in Optional(Nat) /\ f.max \in Optional(Nat))
  <2>1. /\ f.initial \o f.max \in Seq(Int)
        /\ Readable(f.initial \o f.max)
             <=> f.initial \in Optional(Nat) /\ f.max \in Optional(Nat)
    <3>1. f.initial \in Seq(Int) /\ f.max \in Seq(Int)
      BY <1>1, ReadableIs
    <3>2. QED
      BY <1>1, <3>1, ReadableIs, ReadableConcat
  <2>2. <<>> \in Seq(Int) /\ Readable(<<>>)
    BY DEF Readable
  <2>3. QED
    BY <2>1, <2>2
<1>4. Readable(d) <=> (f.rateMax > 0 => f.rateWindow \in Optional(Nat))
  <2>1. Readable(<<>>)
    BY DEF Readable
  <2>2. QED
    BY <1>1, <2>1, ReadableIs
<1>5. (Readable(a) <=> f.timeout \in Optional(Nat)) /\ (Readable(b) <=> f.cooldown \in Optional(Nat))
  BY <1>1, ReadableIs
<1> DEFINE s == ((a \o b) \o c) \o d
<1>6. FormParses(f) <=>
        /\ f.type # "http" /\ Readable(s)
        /\ \A i \in DOMAIN f.fields : FieldLineParses(f.fields[i])
        /\ \A i \in DOMAIN f.filters : FilterLineParses(f.filters[i])
        /\ \A i \in DOMAIN f.windows : WindowLineParses(f.windows[i])
        /\ \A i \in DOMAIN Credentials(f) : TrimTo[Credentials(f)[i]] # Empty
  BY DEF FormParses, Readable
<1>7. Readable(s) <=> Readable(a) /\ Readable(b) /\ Readable(c) /\ Readable(d)
  <2> HIDE DEF a, b, c, d
  <2>1. a \o b \in Seq(Int) /\ (Readable(a \o b) <=> Readable(a) /\ Readable(b))
    BY <1>2, ReadableConcat
  <2>2. (a \o b) \o c \in Seq(Int)
        /\ (Readable((a \o b) \o c) <=> Readable(a \o b) /\ Readable(c))
    BY <1>3, <2>1, ReadableConcat
  <2>3. Readable(s) <=> Readable((a \o b) \o c) /\ Readable(d)
    BY <1>2, <2>2, ReadableConcat
  <2>4. QED
    BY <2>1, <2>2, <2>3
<1> HIDE DEF s, a, b, c, d
<1>8. QED
  BY <1>3, <1>4, <1>5, <1>6, <1>7

LEMMA NonEmptyTyped ==
  ASSUME NEW S, NEW s \in Seq(S)
  PROVE  /\ NonEmpty(s) \in Optional(Seq(S)) /\ OrElse(NonEmpty(s), <<>>) = s
         /\ NonEmpty(s) = <<>> <=> s = <<>>
BY OptionalHas DEF NonEmpty, OrElse, Present, The

LEMMA FieldsParsed ==
  ASSUME NEW lines \in Seq(Lines), \A i \in DOMAIN lines : FieldLineParses(lines[i])
  PROVE  LET s == [i \in DOMAIN lines |-> ParseField(lines[i])]
         IN /\ s \in Seq(FieldSpecs) /\ ParseLines(lines, ParseField) = NonEmpty(s)
            /\ ParseLines(lines, ParseField) \in Optional(Seq(FieldSpecs))
<1> DEFINE s == [i \in DOMAIN lines |-> ParseField(lines[i])]
<1>1. DOMAIN lines = 1..Len(lines) /\ Len(lines) \in Nat
  BY LenProperties
<1>2. s \in Seq(FieldSpecs)
  <2>1. \A i \in 1..Len(lines) : ParseField(lines[i]) \in FieldSpecs
    BY <1>1, ElementOfSeq, ParseFieldTyped
  <2>2. QED
    BY <1>1, <2>1, IsASeq
<1>3. ParseLines(lines, ParseField) = NonEmpty(s)
  BY DEF ParseLines
<1> HIDE DEF s
<1>4. NonEmpty(s) \in Optional(Seq(FieldSpecs))
  BY <1>2, NonEmptyTyped
<1>5. QED
  BY <1>2, <1>3, <1>4 DEF s

LEMMA FiltersParsed ==
  ASSUME NEW lines \in Seq(FilterLines), \A i \in DOMAIN lines : FilterLineParses(lines[i])
  PROVE  LET s == [i \in DOMAIN lines |-> ParseFilter(lines[i])]
         IN /\ s \in Seq(FilterSpecs) /\ ParseLines(lines, ParseFilter) = NonEmpty(s)
            /\ ParseLines(lines, ParseFilter) \in Optional(Seq(FilterSpecs))
<1> DEFINE s == [i \in DOMAIN lines |-> ParseFilter(lines[i])]
<1>1. DOMAIN lines = 1..Len(lines) /\ Len(lines) \in Nat
  BY LenProperties
<1>2. s \in Seq(FilterSpecs)
  <2>1. \A i \in 1..Len(lines) : ParseFilter(lines[i]) \in FilterSpecs
    BY <1>1, ElementOfSeq, ParseFilterTyped
  <2>2. QED
    BY <1>1, <2>1, IsASeq
<1>3. ParseLines(lines, ParseFilter) = NonEmpty(s)
  BY DEF ParseLines
<1> HIDE DEF s
<1>4. NonEmpty(s) \in Optional(Seq(FilterSpecs))
  BY <1>2, NonEmptyTyped
<1>5. QED
  BY <1>2, <1>3, <1>4 DEF s

LEMMA WindowsParsed ==
  ASSUME NEW lines \in Seq(WindowSpecs)
  PROVE  ParseLines(lines, ParseWindow) = NonEmpty(lines)
<1>1. lines = [i \in DOMAIN lines |-> lines[i]]
  BY LenProperties
<1>2. ParseLines(lines, ParseWindow) = NonEmpty([i \in DOMAIN lines |-> lines[i]])
  BY DEF ParseLines, ParseWindow
<1>3. QED
  BY <1>1, <1>2

----
(***************************************************************************)
(* What is written, setting by setting.                                    *)
(***************************************************************************)
Result(h, f) == ApplyHookFields(h, ParseHookForm(f))

RetriesWritten(f) ==
  IF f.count = 0 THEN <<>>
  ELSE <<[count |-> f.count, backoff |-> f.backoff,
          initial |-> FormatDuration(OrElse(f.initial, Second)),
          max |-> FormatDuration(OrElse(f.max, 60 * Second))]>>

RateWritten(f) ==
  IF f.rateMax = 0 \/ f.rateWindow = <<>> THEN <<>>
  ELSE <<[max |-> f.rateMax, window |-> FormatDuration(The(f.rateWindow))]>>

AuthWritten(f) ==
  IF Credentials(f) = <<>> THEN <<>>
  ELSE <<[mode |-> f.mode, words |-> Trimmed(Credentials(f))]>>

LEMMA TablesAre ==
  /\ \A c, s, i, m :
       RetriesTable([count |-> c, backoff |-> s, initial |-> i, max |-> m])
         = [count |-> c, backoff |-> s, initial |-> FormatDuration(i), max |-> FormatDuration(m)]
  /\ \A m, w : RateTable([max |-> m, window |-> w]) = [max |-> m, window |-> FormatDuration(w)]
  /\ \A a, b, c, d :
       RulesTable([filters |-> a, windows |-> b, cooldown |-> c, rate |-> d])
         = [filters |-> a, windows |-> b, cooldown |-> Format(c),
            rate |-> [i \in DOMAIN d |-> RateTable(d[i])]]
<1>1. ASSUME NEW c, NEW s, NEW i, NEW m
      PROVE  RetriesTable([count |-> c, backoff |-> s, initial |-> i, max |-> m])
               = [count |-> c, backoff |-> s, initial |-> FormatDuration(i), max |-> FormatDuration(m)]
  <2> DEFINE r == [count |-> c, backoff |-> s, initial |-> i, max |-> m]
  <2>1. RetriesTable(r) = [[r EXCEPT !.initial = FormatDuration(r.initial)]
                             EXCEPT !.max = FormatDuration(r.max)]
    BY DEF RetriesTable
  <2>2. QED
    BY <2>1
<1>2. ASSUME NEW m, NEW w
      PROVE  RateTable([max |-> m, window |-> w]) = [max |-> m, window |-> FormatDuration(w)]
  BY DEF RateTable
<1>3. ASSUME NEW a, NEW b, NEW c, NEW d
      PROVE  RulesTable([filters |-> a, windows |-> b, cooldown |-> c, rate |-> d])
               = [filters |-> a, windows |-> b, cooldown |-> Format(c),
                  rate |-> [i \in DOMAIN d |-> RateTable(d[i])]]
  <2> DEFINE r == [filters |-> a, windows |-> b, cooldown |-> c, rate |-> d]
             t == [i \in DOMAIN r.rate |-> RateTable(r.rate[i])]
  <2>1. RulesTable(r) = [[r EXCEPT !.cooldown = Format(r.cooldown)] EXCEPT !.rate = t]
    BY DEF RulesTable
  <2>2. r.rate = d /\ r.cooldown = c
    OBVIOUS
  <2> HIDE DEF r
  <2>3. t = [i \in DOMAIN d |-> RateTable(d[i])]
    BY <2>2
  <2> HIDE DEF t
  <2>4. [[r EXCEPT !.cooldown = Format(r.cooldown)] EXCEPT !.rate = t]
          = [filters |-> a, windows |-> b, cooldown |-> Format(c), rate |-> t]
    <3> DEFINE x == Format(r.cooldown)
               u == [r EXCEPT !.cooldown = x]
    <3>1. u = [filters |-> a, windows |-> b, cooldown |-> x, rate |-> d]
      <4> HIDE DEF x
      <4>1. QED
        BY DEF r
    <3> HIDE DEF u, x
    <3>2. [u EXCEPT !.rate = t] = [filters |-> a, windows |-> b, cooldown |-> x, rate |-> t]
      BY <3>1
    <3>3. QED
      BY <2>2, <3>2 DEF u, x
  <2>5. QED
    BY <2>1, <2>3, <2>4 DEF r
<1>4. QED
  BY <1>1, <1>2, <1>3

LEMMA RetriesWrittenTyped ==
  ASSUME NEW f, GoodForm(f), FormParses(f)
  PROVE  /\ [i \in DOMAIN ParseRetries(f) |-> RetriesTable(ParseRetries(f)[i])] = RetriesWritten(f)
         /\ RetriesWritten(f) \in Optional(RetrySpecs)
<1>1. f.count \in Nat /\ f.backoff \in Strategies
  BY FormsAre
<1>2. CASE f.count = 0
  BY <1>2, OptionalHas DEF ParseRetries, RetriesWritten
<1>3. CASE f.count # 0
  <2> DEFINE a == OrElse(f.initial, Second)
             b == OrElse(f.max, 60 * Second)
  <2>1. f.initial \in Optional(Nat) /\ f.max \in Optional(Nat)
    BY <1>1, <1>3, DurationsAreRead
  <2>2. Second \in Nat /\ 60 * Second \in Nat
    BY DEF Second, Milli
  <2>3. a \in Nat /\ b \in Nat
    BY <2>1, <2>2, OptionalIs DEF OrElse, The, Present
  <2>4. ParseRetries(f) = <<[count |-> f.count, backoff |-> f.backoff, initial |-> a, max |-> b]>>
    BY <1>3 DEF ParseRetries
  <2>5. RetriesWritten(f) = <<[count |-> f.count, backoff |-> f.backoff,
                               initial |-> FormatDuration(a), max |-> FormatDuration(b)]>>
    BY <1>3 DEF RetriesWritten
  <2> HIDE DEF a, b
  <2>6. FormatDuration(a) \in Nat /\ FormatDuration(b) \in Nat
    BY <2>3, DurationsTyped
  <2>7. RetriesWritten(f) \in Optional(RetrySpecs)
    BY <1>1, <2>5, <2>6, OptionalHas DEF RetrySpecs
  <2>8. RetriesTable([count |-> f.count, backoff |-> f.backoff, initial |-> a, max |-> b])
          = [count |-> f.count, backoff |-> f.backoff,
             initial |-> FormatDuration(a), max |-> FormatDuration(b)]
    BY TablesAre
  <2>9. \A r : [i \in DOMAIN <<r>> |-> RetriesTable(<<r>>[i])] = <<RetriesTable(r)>>
    OBVIOUS
  <2>10. QED
    BY <2>4, <2>5, <2>7, <2>8, <2>9
<1>4. QED
  BY <1>2, <1>3

LEMMA RateWrittenTyped ==
  ASSUME NEW f, GoodForm(f), FormParses(f)
  PROVE  /\ [i \in DOMAIN ParseRate(f) |-> RateTable(ParseRate(f)[i])] = RateWritten(f)
         /\ RateWritten(f) \in Optional(RateSpecs)
<1>1. f.rateMax \in Nat
  BY FormsAre
<1>2. CASE f.rateMax = 0 \/ f.rateWindow = <<>>
  BY <1>2, OptionalHas DEF ParseRate, RateWritten
<1>3. CASE ~(f.rateMax = 0 \/ f.rateWindow = <<>>)
  <2>1. f.rateWindow \in Optional(Nat)
    BY <1>1, <1>3, DurationsAreRead
  <2>2. PICK d \in Nat : f.rateWindow = <<d>>
    BY <1>3, <2>1, OptionalIs
  <2>3. ParseRate(f) = <<[max |-> f.rateMax, window |-> d]>>
    BY <1>3, <2>2 DEF ParseRate, The
  <2>4. RateWritten(f) = <<[max |-> f.rateMax, window |-> FormatDuration(d)]>>
    BY <1>3, <2>2 DEF RateWritten, The
  <2>5. FormatDuration(d) \in Nat
    BY DurationsTyped
  <2>6. RateWritten(f) \in Optional(RateSpecs)
    BY <1>1, <2>4, <2>5, OptionalHas DEF RateSpecs
  <2>7. RateTable([max |-> f.rateMax, window |-> d]) = [max |-> f.rateMax, window |-> FormatDuration(d)]
    BY TablesAre
  <2>8. QED
    BY <2>3, <2>4, <2>6, <2>7
<1>4. QED
  BY <1>2, <1>3

LEMMA CredentialsTyped ==
  ASSUME NEW f, GoodForm(f)
  PROVE  /\ Credentials(f) \in Seq(Words) /\ Len(Credentials(f)) = WordsAsked[f.mode]
         /\ Credentials(f) = <<>> <=> f.mode = "none"
         /\ Trimmed(Credentials(f)) \in Seq(Words)
         /\ Len(Trimmed(Credentials(f))) = WordsAsked[f.mode]
         /\ \A i \in DOMAIN Credentials(f) : Trimmed(Credentials(f))[i] = TrimTo[Credentials(f)[i]]
         /\ DOMAIN Trimmed(Credentials(f)) = DOMAIN Credentials(f)
<1> DEFINE c == Credentials(f)
<1>1. f.mode \in {"none", "bearer", "hmac"} /\ f.token \in Words /\ f.header \in Words /\ f.secret \in Words
  BY FormsAre DEF WordsAsked
<1>2. c \in Seq(Words) /\ Len(c) = WordsAsked[f.mode] /\ (c = <<>> <=> f.mode = "none")
  <2>1. CASE f.mode = "none"
    BY <1>1, <2>1 DEF Credentials, WordsAsked
  <2>2. CASE f.mode = "bearer"
    BY <1>1, <2>2 DEF Credentials, WordsAsked
  <2>3. CASE f.mode = "hmac"
    BY <1>1, <2>3 DEF Credentials, WordsAsked
  <2>4. QED
    BY <1>1, <2>1, <2>2, <2>3
<1> HIDE DEF c
<1>3. DOMAIN c = 1..Len(c) /\ Len(c) \in Nat /\ \A i \in 1..Len(c) : c[i] \in Words
  BY <1>2, LenProperties, ElementOfSeq
<1>4. Trimmed(c) \in Seq(Words) /\ Len(Trimmed(c)) = Len(c)
  <2>1. \A i \in 1..Len(c) : TrimTo[c[i]] \in Words
    BY <1>3, FormsConstants
  <2>2. [i \in 1..Len(c) |-> TrimTo[c[i]]] \in Seq(Words)
    BY <1>3, <2>1, IsASeq
  <2>3. Trimmed(c) = [i \in 1..Len(c) |-> TrimTo[c[i]]]
    BY <1>3 DEF Trimmed
  <2>4. QED
    BY <1>3, <2>2, <2>3, LenProperties
<1>5. (\A i \in DOMAIN c : Trimmed(c)[i] = TrimTo[c[i]]) /\ DOMAIN Trimmed(c) = DOMAIN c
  BY DEF Trimmed
<1>6. QED
  BY <1>2, <1>4, <1>5 DEF c

LEMMA AuthWrittenTyped ==
  ASSUME NEW f, GoodForm(f)
  PROVE  AuthWritten(f) \in Optional(AuthSpecs)
<1>1. CASE Credentials(f) = <<>>
  BY <1>1, OptionalHas DEF AuthWritten
<1>2. CASE Credentials(f) # <<>>
  <2>1. [mode |-> f.mode, words |-> Trimmed(Credentials(f))] \in AuthSpecs
    BY CredentialsTyped, FormsAre DEF AuthSpecs
  <2>2. QED
    BY <1>2, <2>1, OptionalHas DEF AuthWritten
<1>3. QED
  BY <1>1, <1>2

RulesWritten(f) ==
  [filters |-> ParseLines(f.filters, ParseFilter), windows |-> ParseLines(f.windows, ParseWindow),
   cooldown |-> Format(f.cooldown), rate |-> RateWritten(f)]

LEMMA RulesWrittenTyped ==
  ASSUME NEW f, GoodForm(f), FormParses(f), NEW h,
         h.rules = [i \in DOMAIN ParseHookForm(f).rules |-> RulesTable(ParseHookForm(f).rules[i])]
  PROVE  /\ RulesOf(h) = RulesWritten(f) /\ RulesWritten(f) \in RuleSpecs
         /\ h.rules \in Optional(RuleSpecs)
<1> DEFINE parsed == [filters |-> ParseLines(f.filters, ParseFilter),
                      windows |-> ParseLines(f.windows, ParseWindow),
                      cooldown |-> f.cooldown, rate |-> ParseRate(f)]
<1>1. ParseHookForm(f).rules = SomeRules(parsed)
  BY DEF ParseHookForm
<1>2. RulesTable(parsed) = RulesWritten(f)
  <2>1. RulesTable(parsed) =
          [filters |-> ParseLines(f.filters, ParseFilter),
           windows |-> ParseLines(f.windows, ParseWindow), cooldown |-> Format(f.cooldown),
           rate |-> [i \in DOMAIN ParseRate(f) |-> RateTable(ParseRate(f)[i])]]
    BY TablesAre
  <2>2. QED
    BY <2>1, RateWrittenTyped DEF RulesWritten
<1>3. RulesWritten(f) \in RuleSpecs
  <2>1. ParseLines(f.filters, ParseFilter) \in Optional(Seq(FilterSpecs))
    BY FormsAre, DurationsAreRead, FiltersParsed
  <2>2. ParseLines(f.windows, ParseWindow) \in Optional(Seq(WindowSpecs))
    BY FormsAre, WindowsParsed, NonEmptyTyped
  <2>3. Format(f.cooldown) \in Optional(Nat)
    BY DurationsAreRead, FormatTyped
  <2>4. RateWritten(f) \in Optional(RateSpecs)
    BY RateWrittenTyped
  <2>5. QED
    BY <2>1, <2>2, <2>3, <2>4 DEF RulesWritten, RuleSpecs
<1> HIDE DEF parsed
<1>4. CASE parsed = NoRules
  <2>1. h.rules = <<>>
    BY <1>1, <1>4 DEF SomeRules
  <2>2. RulesTable(parsed) = NoRules
    <3>1. RulesTable(NoRules) =
            [filters |-> <<>>, windows |-> <<>>, cooldown |-> Format(<<>>),
             rate |-> [i \in DOMAIN <<>> |-> RateTable(<<>>[i])]]
      <4>1. PICK e : e = <<>>
        OBVIOUS
      <4>2. RulesTable([filters |-> e, windows |-> e, cooldown |-> e, rate |-> e])
              = [filters |-> e, windows |-> e, cooldown |-> Format(e),
                 rate |-> [i \in DOMAIN e |-> RateTable(e[i])]]
        BY TablesAre
      <4>3. QED
        BY <4>1, <4>2 DEF NoRules
    <3>2. Format(<<>>) = <<>>
      <4>1. PICK o \in Optional(Nat) : o = <<>>
        BY OptionalHas
      <4>2. Format(o) = <<>>
        BY <4>1, FormatTyped
      <4>3. QED
        BY <4>1, <4>2
    <3>3. [i \in DOMAIN <<>> |-> RateTable(<<>>[i])] = <<>>
      OBVIOUS
    <3>4. QED
      BY <1>4, <3>1, <3>2, <3>3 DEF NoRules
  <2>3. RulesOf(h) = NoRules
    BY <2>1 DEF RulesOf, OrElse, Present
  <2>4. h.rules \in Optional(RuleSpecs)
    BY <2>1, OptionalHas
  <2>5. QED
    BY <1>2, <1>3, <2>2, <2>3, <2>4
<1>5. CASE parsed # NoRules
  <2>1. ParseHookForm(f).rules = <<parsed>>
    BY <1>1, <1>5 DEF SomeRules
  <2>2. h.rules = <<RulesWritten(f)>>
    BY <1>2, <2>1
  <2>3. RulesOf(h) = RulesWritten(f)
    BY <2>2 DEF RulesOf, OrElse, Present, The
  <2>4. h.rules \in Optional(RuleSpecs)
    BY <1>3, <2>2, OptionalHas
  <2>5. QED
    BY <1>3, <2>3, <2>4
<1>6. QED
  BY <1>4, <1>5

LEMMA ResultIs ==
  ASSUME NEW h \in HookSpecs, NEW f, GoodForm(f), FormParses(f)
  PROVE  LET r == Result(h, f)
         IN /\ r \in HookSpecs
            /\ r.name = TrimTo[f.name] /\ r.slug = h.slug /\ r.enabled = f.enabled
            /\ r.executor = [type |-> f.type, arg |-> TrimTo[f.command]]
            /\ r.cwd = IF TrimTo[f.cwd] = Empty THEN <<>> ELSE <<TrimTo[f.cwd]>>
            /\ r.env = ParseEnv(f.env) /\ r.timeout = Format(f.timeout)
            /\ r.retries = RetriesWritten(f) /\ r.auth = AuthWritten(f)
            /\ r.payload = ParseLines(f.fields, ParseField)
            /\ RulesOf(r) = RulesWritten(f) /\ r.hidden = h.hidden
<1> DEFINE r == Result(h, f)
           rules == [i \in DOMAIN ParseHookForm(f).rules |-> RulesTable(ParseHookForm(f).rules[i])]
<1>1. r = [name |-> TrimTo[f.name], slug |-> h.slug, description |-> TrimTo[f.description],
           enabled |-> f.enabled, executor |-> [type |-> f.type, arg |-> TrimTo[f.command]],
           cwd |-> IF TrimTo[f.cwd] = Empty THEN <<>> ELSE <<TrimTo[f.cwd]>>,
           env |-> ParseEnv(f.env), timeout |-> Format(f.timeout),
           retries |-> RetriesWritten(f), auth |-> AuthWritten(f),
           payload |-> ParseLines(f.fields, ParseField), rules |-> rules, hidden |-> h.hidden]
  <2> DEFINE data == ParseHookForm(f)
  <2>1. /\ data.name = TrimTo[f.name] /\ data.description = TrimTo[f.description]
        /\ data.enabled = f.enabled
        /\ data.executor = [type |-> f.type, arg |-> TrimTo[f.command]]
        /\ data.cwd = IF TrimTo[f.cwd] = Empty THEN <<>> ELSE <<TrimTo[f.cwd]>>
        /\ data.env = ParseEnv(f.env) /\ data.timeout = f.timeout
        /\ data.retries = ParseRetries(f) /\ data.auth = AuthWritten(f)
        /\ data.payload = ParseLines(f.fields, ParseField)
    BY DEF ParseHookForm, AuthWritten, Checked
  <2>2. r = [h EXCEPT
              !.name = data.name, !.description = data.description, !.enabled = data.enabled,
              !.executor = data.executor, !.cwd = data.cwd, !.env = data.env,
              !.timeout = Format(data.timeout), !.auth = data.auth, !.payload = data.payload,
              !.retries = [i \in DOMAIN data.retries |-> RetriesTable(data.retries[i])],
              !.rules = rules]
    BY DEF Result, ApplyHookFields
  <2>3. [i \in DOMAIN data.retries |-> RetriesTable(data.retries[i])] = RetriesWritten(f)
    BY <2>1, RetriesWrittenTyped
  <2> HIDE DEF r, data, rules
  <2>4. h = [name |-> h.name, slug |-> h.slug, description |-> h.description,
             enabled |-> h.enabled, executor |-> h.executor, cwd |-> h.cwd, env |-> h.env,
             timeout |-> h.timeout, retries |-> h.retries, auth |-> h.auth,
             payload |-> h.payload, rules |-> h.rules, hidden |-> h.hidden]
    BY DEF HookSpecs
  <2>5. QED
    BY <2>1, <2>2, <2>3, <2>4
<1> HIDE DEF r
<1>2. r.rules = rules
  BY <1>1
<1>3. /\ RulesOf(r) = RulesWritten(f) /\ r.rules \in Optional(RuleSpecs)
  BY <1>2, RulesWrittenTyped
<1> HIDE DEF rules
<1>4. TrimTo[f.name] \in Words /\ TrimTo[f.description] \in Words /\ TrimTo[f.command] \in Words
      /\ TrimTo[f.cwd] \in Words /\ f.enabled \in BOOLEAN
  BY FormsAre, FormsConstants
<1>5. [type |-> f.type, arg |-> TrimTo[f.command]] \in CommandExecutors
  BY <1>4, FormsAre, DurationsAreRead DEF CommandExecutors
<1>6. r.cwd \in Optional(Words)
  BY <1>1, <1>4, OptionalHas
<1>7. ParseEnv(f.env) \in Envs /\ Format(f.timeout) \in Optional(Nat)
  BY FormsAre, ParseEnvTyped, DurationsAreRead, FormatTyped
<1>8. RetriesWritten(f) \in Optional(RetrySpecs) /\ AuthWritten(f) \in Optional(AuthSpecs)
  BY RetriesWrittenTyped, AuthWrittenTyped
<1>9. ParseLines(f.fields, ParseField) \in Optional(Seq(FieldSpecs))
  BY FormsAre, DurationsAreRead, FieldsParsed
<1>10. h.slug \in Slugs /\ h.hidden \in {g.hidden : g \in Hooks \cup Others} \cup {<<>>}
  BY DEF HookSpecs
<1>11. r \in HookSpecs
  BY <1>1, <1>2, <1>3, <1>4, <1>5, <1>6, <1>7, <1>8, <1>9, <1>10 DEF HookSpecs, Envs
<1>12. QED
  BY <1>1, <1>3, <1>11 DEF r

----
(***************************************************************************)
(* The invariant: every hook there is, in the file, on a page or made with *)
(* a form, is well typed and was validated.                                *)
(***************************************************************************)
TypeOK ==
  /\ hook \in HookSpecs /\ shown \in HookSpecs /\ made \in Optional(HookSpecs)
  /\ form # <<>> => form = <<The(form)>> /\ GoodForm(The(form))
  /\ isNew \in BOOLEAN /\ edits \in Nat

FormsInvariant == TypeOK /\ Validates(hook) /\ Validates(shown)

\* A slug the browser lets go is valid, and has no white space around it.
LEMMA PatternIsValid ==
  ASSUME NEW slug \in Slugs \cup {Empty}, MatchesPattern(slug)
  PROVE  slug \in Slugs /\ TrimTo[slug] = slug /\ ValidSlug(slug)
<1> DEFINE s == SlugLetters[slug]
<1>1. slug \in DOMAIN SlugLetters
  BY EditsConstants, FormsConstants
<1>2. s \in Seq({"alnum", "hyphen", "other"})
  BY <1>1, FormsConstants
<1>3. slug # Empty
  BY FormsConstants DEF MatchesPattern
<1>4. /\ s # <<>> /\ Len(s) <= SlugLimit
      /\ \A i \in DOMAIN s : \/ s[i] = "alnum"
                             \/ /\ s[i] = "hyphen" /\ i > 1 /\ i < Len(s)
                                /\ s[i - 1] = "alnum" /\ s[i + 1] = "alnum"
  BY DEF MatchesPattern
<1>5. TrimTo[slug] = slug
  BY <1>1, <1>4, FormsConstants
<1> HIDE DEF s
<1>6. Len(s) \in Nat \ {0} /\ DOMAIN s = 1..Len(s)
  BY <1>2, <1>4, EmptySeq, LenProperties
<1>7. s[1] # "hyphen" /\ s[Len(s)] # "hyphen"
  <2>1. \A i \in DOMAIN s : s[i] = "alnum" \/ (i > 1 /\ i < Len(s))
    BY <1>4
  <2>2. /\ 1 \in DOMAIN s /\ ~(1 > 1)
        /\ Len(s) \in DOMAIN s /\ ~(Len(s) < Len(s))
    BY <1>6
  <2>3. s[1] = "alnum" /\ s[Len(s)] = "alnum"
    BY <2>1, <2>2
  <2>4. QED
    BY <2>3
<1>8. \A i \in DOMAIN s : s[i] = "alnum" \/ (s[i] = "hyphen" /\ (i > 1 => s[i - 1] # "hyphen"))
  BY <1>4
<1>9. Len(s) > 0
  BY <1>6
<1>10. QED
  BY <1>3, <1>4, <1>5, <1>7, <1>8, <1>9 DEF ValidSlug, s

\* The table that a new hook is written into.
LEMMA NewTableTyped ==
  ASSUME NEW slug \in Slugs
  PROVE  NoHook(slug) \in HookSpecs
<1>1. Empty \in Words
  BY RulesConstants
<1>2. [type |-> "shell", arg |-> Empty] \in CommandExecutors \cup HttpExecutors
  BY <1>1 DEF CommandExecutors, CommandTypes
<1>3. <<>> \in Envs
  <2>1. <<>> \in [{} -> Words] /\ {} \in SUBSET EnvKeys
    OBVIOUS
  <2>2. QED
    BY <2>1 DEF Envs
<1>4. /\ <<>> \in Optional(Words) /\ <<>> \in Optional(Nat) /\ <<>> \in Optional(RetrySpecs)
      /\ <<>> \in Optional(AuthSpecs) /\ <<>> \in Optional(Seq(FieldSpecs))
      /\ <<>> \in Optional(RuleSpecs)
  BY OptionalHas
<1>5. QED
  BY <1>1, <1>2, <1>3, <1>4 DEF NoHook, HookSpecs, Envs

LEMMA NewResultIs ==
  ASSUME NEW f, GoodForm(f), FormParses(f), MatchesPattern(f.slug)
  PROVE  \E h \in HookSpecs : /\ BuildHookTable(ParseHookForm(f)) = Result(h, f)
                              /\ h.slug = f.slug
<1>1. f.slug \in Slugs /\ TrimTo[f.slug] = f.slug
  BY FormsAre, PatternIsValid
<1>2. ParseHookForm(f).slug = f.slug
  BY <1>1 DEF ParseHookForm
<1>3. PICK h : h = NoHook(f.slug)
  OBVIOUS
<1>4. h \in HookSpecs
  BY <1>1, <1>3, NewTableTyped
<1>5. h.slug = f.slug
  BY <1>3 DEF NoHook
<1>6. BuildHookTable(ParseHookForm(f)) = Result(h, f)
  BY <1>2, <1>3 DEF BuildHookTable, Result
<1>7. QED
  BY <1>4, <1>5, <1>6

\* What a form is, that was opened and not closed.
LEMMA FormGiven ==
  ASSUME TypeOK, form # <<>>
  PROVE  form = <<The(form)>> /\ GoodForm(The(form))
BY DEF TypeOK

LEMMA InvariantAtFirst ==
  ASSUME Init
  PROVE  FormsInvariant
BY OptionalHas, EditsConstants DEF Init, FormsInvariant, TypeOK

\* What the next state has to satisfy.
LEMMA Kept ==
  ASSUME hook' \in HookSpecs, Validates(hook'), shown' \in HookSpecs, Validates(shown'),
         made' \in Optional(HookSpecs), isNew' \in BOOLEAN, edits' \in Nat,
         form' # <<>> => \E f : form' = <<f>> /\ GoodForm(f)
  PROVE  FormsInvariant'
<1>1. form' # <<>> => form' = <<The(form')>> /\ GoodForm(The(form'))
  BY DEF The
<1>2. QED
  BY <1>1 DEF FormsInvariant, TypeOK

\* What is written by a form that is not refused.
LEMMA EditWritten ==
  ASSUME FormsInvariant, SubmitEdit
  PROVE  LET f == The(form)
         IN /\ GoodForm(f) /\ ~isNew
            /\ \/ /\ hook.executor.type = "http" /\ form' = <<FormOf(hook)>> /\ shown' = hook
                  /\ UNCHANGED <<hook, made, isNew>>
               \/ /\ hook.executor.type # "http" /\ ~(FormParses(f) /\ Validates(Result(hook, f)))
                  /\ form' = <<Redisplayed(f)>> /\ UNCHANGED <<hook, made, isNew, shown>>
               \/ /\ hook.executor.type # "http" /\ FormParses(f) /\ Validates(Result(hook, f))
                  /\ hook' = Result(hook, f) /\ shown' = hook' /\ form' = <<>> /\ isNew' = FALSE
                  /\ UNCHANGED made
            /\ edits' = edits + 1
<1>1. GoodForm(The(form))
  BY FormGiven DEF FormsInvariant, SubmitEdit
<1>2. QED
  BY <1>1 DEF SubmitEdit, Result, Refused, Close, Counted

LEMMA NewWritten ==
  ASSUME FormsInvariant, SubmitNew
  PROVE  LET f == The(form)
             result == BuildHookTable(ParseHookForm(f))
             good == FormParses(f) /\ result.slug # hook.slug /\ Validates(result)
         IN /\ GoodForm(f) /\ isNew /\ MatchesPattern(f.slug)
            /\ \/ /\ ~good
                  /\ form' = <<Redisplayed(f)>> /\ UNCHANGED <<hook, made, isNew, shown>>
               \/ /\ good /\ made' = <<result>>
                  /\ shown' = hook /\ form' = <<>> /\ isNew' = FALSE /\ UNCHANGED hook
            /\ edits' = edits + 1
<1>1. GoodForm(The(form))
  BY FormGiven DEF FormsInvariant, SubmitNew
<1>2. QED
  BY <1>1 DEF SubmitNew, Refused, Close, Counted, Allowed

LEMMA InvariantStep ==
  ASSUME FormsInvariant, [Next]_vars
  PROVE  FormsInvariant'
<1>0. /\ hook \in HookSpecs /\ Validates(hook) /\ shown \in HookSpecs /\ Validates(shown)
      /\ made \in Optional(HookSpecs) /\ isNew \in BOOLEAN /\ edits \in Nat
      /\ form # <<>> => form = <<The(form)>> /\ GoodForm(The(form))
  BY DEF FormsInvariant, TypeOK
<1>1. CASE UNCHANGED vars
  <2>1. /\ hook' = hook /\ made' = made /\ form' = form /\ isNew' = isNew
        /\ shown' = shown /\ edits' = edits
    BY <1>1 DEF vars
  <2>2. form' # <<>> => \E f : form' = <<f>> /\ GoodForm(f)
    BY <1>0, <2>1
  <2>3. QED
    BY <1>0, <2>1, <2>2, Kept
<1>2. CASE OpenEdit
  <2>1. form' = <<FormOf(hook)>> /\ GoodForm(FormOf(hook))
    BY <1>0, <1>2, FormTyped DEF OpenEdit
  <2>2. QED
    BY <1>0, <1>2, <2>1, Kept DEF OpenEdit
<1>3. CASE OpenNew
  <2>1. form' = <<NewForm>> /\ GoodForm(NewForm)
    BY <1>3, NewFormTyped DEF OpenNew
  <2>2. QED
    BY <1>0, <1>3, <2>1, Kept DEF OpenNew
<1>4. CASE CopyIn
  <2>1. PICK s \in Slugs : form' = <<[FormOf(hook) EXCEPT !.slug = s]>>
    BY <1>4 DEF CopyIn
  <2>2. GoodForm([FormOf(hook) EXCEPT !.slug = s])
    <3>1. \A f, g, v : GoodForm(f) /\ g \in DOMAIN FormTypes /\ v \in FormTypes[g]
                        => GoodForm([f EXCEPT ![g] = v])
      BY AmendedTyped
    <3>2. "slug" \in DOMAIN FormTypes /\ s \in FormTypes["slug"]
      BY DEF FormTypes
    <3>3. GoodForm(FormOf(hook))
      BY <1>0, FormTyped
    <3>4. GoodForm([FormOf(hook) EXCEPT !["slug"] = s])
      BY <3>1, <3>2, <3>3
    <3>5. QED
      BY <3>4
  <2>3. QED
    BY <1>0, <1>4, <2>1, <2>2, Kept DEF CopyIn
<1>5. CASE Amend
  <2>1. PICK g \in DOMAIN Amendments :
          \E v \in Amendments[g] : form' = <<[The(form) EXCEPT ![g] = v]>>
    BY <1>5 DEF Amend
  <2>2. PICK v \in Amendments[g] : form' = <<[The(form) EXCEPT ![g] = v]>>
    BY <2>1
  <2>3. g \in DOMAIN FormTypes /\ v \in FormTypes[g]
    BY EditsConstants
  <2>4. GoodForm(The(form))
    BY <1>0, <1>5 DEF Amend
  <2>5. GoodForm([The(form) EXCEPT ![g] = v])
    BY <2>3, <2>4, AmendedTyped
  <2>6. QED
    BY <1>0, <1>5, <2>2, <2>5, Kept DEF Amend
<1>6. CASE Leave
  BY <1>0, <1>6, Kept DEF Leave, Close
<1>7. CASE SubmitEdit
  <2> DEFINE f == The(form)
  <2>1. GoodForm(f) /\ edits' \in Nat
    BY <1>0, <1>7, EditWritten
  <2>2. CASE form' = <<FormOf(hook)>> /\ shown' = hook /\ UNCHANGED <<hook, made, isNew>>
    BY <1>0, <2>1, <2>2, FormTyped, Kept
  <2>3. CASE form' = <<Redisplayed(f)>> /\ UNCHANGED <<hook, made, isNew, shown>>
    BY <1>0, <2>1, <2>3, RedisplayedTyped, Kept
  <2>4. CASE /\ FormParses(f) /\ Validates(Result(hook, f)) /\ hook' = Result(hook, f)
             /\ shown' = hook' /\ form' = <<>> /\ isNew' = FALSE /\ UNCHANGED made
    <3>1. Result(hook, f) \in HookSpecs
      BY <1>0, <2>1, <2>4, ResultIs
    <3>2. QED
      BY <1>0, <2>1, <2>4, <3>1, Kept
  <2>5. QED
    BY <1>7, <2>2, <2>3, <2>4, EditWritten
<1>8. CASE SubmitNew
  <2> DEFINE f == The(form)
             result == BuildHookTable(ParseHookForm(f))
  <2>1. GoodForm(f) /\ edits' \in Nat /\ MatchesPattern(f.slug)
    BY <1>0, <1>8, NewWritten
  <2>2. CASE form' = <<Redisplayed(f)>> /\ UNCHANGED <<hook, made, isNew, shown>>
    BY <1>0, <2>1, <2>2, RedisplayedTyped, Kept
  <2>3. CASE /\ FormParses(f) /\ made' = <<result>> /\ shown' = hook /\ form' = <<>>
             /\ isNew' = FALSE /\ UNCHANGED hook
    <3>1. result \in HookSpecs
      <4>1. PICK h \in HookSpecs : result = Result(h, f)
        BY <2>1, <2>3, NewResultIs
      <4>2. QED
        BY <2>1, <2>3, <4>1, ResultIs
    <3>2. made' \in Optional(HookSpecs)
      BY <2>3, <3>1, OptionalHas
    <3>3. QED
      BY <1>0, <2>1, <2>3, <3>2, Kept
  <2>4. QED
    BY <1>8, <2>2, <2>3, NewWritten
<1>9. CASE HandEdit
  <2>1. hook' \in HookSpecs /\ Validates(hook')
    BY <1>9, EditsConstants DEF HandEdit
  <2>2. QED
    BY <1>0, <1>9, <2>1, Kept DEF HandEdit, Counted
<1>10. QED
  BY <1>1, <1>2, <1>3, <1>4, <1>5, <1>6, <1>7, <1>8, <1>9 DEF Next, Submit

\* Every hook, in the file, on a page or made with a form, has settings of the
\* types the configuration knows, a form holds what its inputs can, and no
\* hook is written that validate would refuse to start with.
THEOREM FormsTypeCorrect == Spec => []FormsInvariant
<1>1. Init => FormsInvariant
  BY InvariantAtFirst
<1>2. FormsInvariant /\ [Next]_vars => FormsInvariant'
  BY InvariantStep
<1>3. QED
  BY <1>1, <1>2, PTL DEF Spec

----
(***************************************************************************)
(* A form that is refused.                                                 *)
(***************************************************************************)
LEMMA RefusedAsSent ==
  ASSUME FormsInvariant, Submit, form' # <<>>, isNew \/ hook.executor.type # "http"
  PROVE  form' = <<Redisplayed(The(form))>>
<1>1. CASE SubmitEdit
  BY <1>1, EditWritten
<1>2. CASE SubmitNew
  BY <1>2, NewWritten
<1>3. QED
  BY <1>1, <1>2 DEF Submit

\* A form that is refused comes back as it was sent, but for a header left
\* blank, which comes back as the usual one (submitted_hook_form_page).
THEOREM RefusedFormsComeBack == Spec => NothingTypedIsLost
<1>1. ASSUME FormsInvariant, Submit /\ form' # <<>> /\ (isNew \/ hook.executor.type # "http")
      PROVE  \A g \in DOMAIN The(form) :
               The(form')[g] = The(form)[g] \/ (g = "header" /\ The(form)[g] = Empty)
  <2>1. The(form') = Redisplayed(The(form))
    BY <1>1, RefusedAsSent DEF The
  <2>2. QED
    BY <2>1, RedisplayedIs
<1>2. FormsInvariant /\ [Next]_vars =>
        [Submit /\ form' # <<>> /\ (isNew \/ hook.executor.type # "http") =>
           \A g \in DOMAIN The(form) :
             The(form')[g] = The(form)[g] \/ (g = "header" /\ The(form)[g] = Empty)]_vars
  BY <1>1
<1>3. QED
  BY <1>2, FormsTypeCorrect, PTL DEF NothingTypedIsLost, Spec

----
(***************************************************************************)
(* When a hook is open.                                                    *)
(***************************************************************************)
\* A hook whose windows validate accepted is open exactly in the minutes of
\* their union, and in no last minute of a day (time_window.rs evaluate_at).
THEOREM WindowsAreTheirUnion == Spec => []OpenInTheUnion
<1>1. ASSUME FormsInvariant PROVE OpenInTheUnion
  <2> DEFINE windows == OrElse(RulesOf(hook).windows, <<>>)
             minutes(w) == (IF w.days = <<>> THEN Days ELSE {w.days[i] : i \in DOMAIN w.days})
                           \X (w.start..(w.end - 1))
             open == UNION {minutes(windows[i]) : i \in DOMAIN windows}
  <2>1. \A i \in DOMAIN windows : ValidWindow(windows[i])
    BY <1>1 DEF FormsInvariant, Validates
  <2>2. windows \in Seq(WindowSpecs)
    BY <1>1, HooksAre, WindowsShown DEF FormsInvariant, TypeOK
  <2> HIDE DEF windows
  <2>3. ASSUME NEW i \in DOMAIN windows, NEW d \in Days, NEW n \in 0..LastMinute
        PROVE  /\ WindowOpen(windows[i], d, n) <=> <<d, n>> \in minutes(windows[i])
               /\ n = LastMinute => ~WindowOpen(windows[i], d, n)
    <3> DEFINE w == windows[i]
    <3>1. w.start \in 0..LastMinute /\ w.end \in 0..LastMinute
      BY <2>1 DEF ValidWindow
    <3>2. LastMinute \in Nat
      BY DEF LastMinute
    <3>3. WindowOpen(w, d, n) <=> DayMatches(w, d) /\ w.start <= n /\ n < w.end
      BY <3>1 DEF WindowOpen
    <3>4. n \in w.start..(w.end - 1) <=> w.start <= n /\ n < w.end
      BY <3>1, <3>2
    <3>5. DayMatches(w, d)
          <=> d \in (IF w.days = <<>> THEN Days ELSE {w.days[j] : j \in DOMAIN w.days})
      BY DEF DayMatches
    <3>6. n = LastMinute => ~(n < w.end)
      BY <3>1, <3>2
    <3> HIDE DEF w
    <3>7. <<d, n>> \in minutes(w) <=> DayMatches(w, d) /\ n \in w.start..(w.end - 1)
      BY <3>5
    <3>8. QED
      BY <3>3, <3>4, <3>6, <3>7 DEF w
  <2>4. ASSUME NEW m \in Moments PROVE InWindow(windows, m[1], m[2]) <=> m \in open
    <3>1. m[1] \in Days /\ m[2] \in 0..LastMinute /\ m = <<m[1], m[2]>>
      BY EditsConstants
    <3> HIDE DEF minutes
    <3>2. QED
      BY <2>3, <3>1 DEF InWindow
  <2>5. ASSUME NEW d \in Days PROVE ~InWindow(windows, d, LastMinute)
    <3>1. LastMinute \in 0..LastMinute
      BY DEF LastMinute
    <3>2. QED
      BY <2>3, <3>1 DEF InWindow
  <2>6. QED
    BY <2>4, <2>5 DEF OpenInTheUnion, windows
<1>2. QED
  BY <1>1, FormsTypeCorrect, PTL

----
(***************************************************************************)
(* The guards of a hook.                                                   *)
(***************************************************************************)
LEMMA GuardsAre ==
  ASSUME NEW h \in HookSpecs
  PROVE  /\ Guards(h).admitted = OrElse(h.auth, [mode |-> "none"]).mode
         /\ Guards(h).windows = OrElse(RulesOf(h).windows, <<>>)
         /\ Guards(h).filters = Len(OrElse(RulesOf(h).filters, <<>>))
         /\ Guards(h).fields = Len(OrElse(h.payload, <<>>))
         /\ Guards(h).rate = {RulesOf(h).rate[i].max : i \in DOMAIN RulesOf(h).rate}
<1> DEFINE rate == RulesOf(h).rate
           filters == OrElse(RulesOf(h).filters, <<>>)
           row(f) == [f EXCEPT !.value = IF @ = <<Empty>> THEN <<>> ELSE @]
           page == PageOf(h)
<1>1. /\ page.mode = OrElse(h.auth, [mode |-> "none"]).mode
      /\ page.windows = OrElse(RulesOf(h).windows, <<>>)
      /\ page.filters = [i \in DOMAIN filters |-> row(filters[i])]
      /\ page.fields = OrElse(h.payload, <<>>)
      /\ page.rate = [i \in DOMAIN rate |-> [rate[i] EXCEPT !.window = FormatDuration(@)]]
  BY DEF PageOf
<1>2. filters \in Seq(FilterSpecs) /\ rate \in Seq(RateSpecs)
  BY HooksAre, FiltersShown DEF Optional
<1> HIDE DEF page, rate, filters, row
<1>3. Len(page.filters) = Len(filters)
  <2>1. DOMAIN filters = 1..Len(filters) /\ Len(filters) \in Nat
    BY <1>2, LenProperties
  <2>2. page.filters = [i \in 1..Len(filters) |-> row(filters[i])]
    BY <1>1, <2>1
  <2>3. QED
    BY <2>1, <2>2, SMT
<1>4. DOMAIN page.rate = DOMAIN rate /\ \A i \in DOMAIN rate : page.rate[i].max = rate[i].max
  <2>1. DOMAIN page.rate = DOMAIN rate
    BY <1>1
  <2>2. \A r \in RateSpecs : [r EXCEPT !.window = FormatDuration(@)].max = r.max
    BY DEF RateSpecs
  <2>3. \A i \in DOMAIN rate : rate[i] \in RateSpecs
    BY <1>2, LenProperties, ElementOfSeq
  <2>4. QED
    BY <1>1, <2>1, <2>2, <2>3
<1>5. {page.rate[i].max : i \in DOMAIN page.rate} = {rate[i].max : i \in DOMAIN rate}
  BY <1>4
<1>6. Guards(h) = [admitted |-> page.mode, windows |-> page.windows,
                   filters |-> Len(page.filters), fields |-> Len(page.fields),
                   rate |-> {page.rate[i].max : i \in DOMAIN page.rate}]
  BY DEF Guards, page
<1>7. QED
  BY <1>1, <1>3, <1>5, <1>6 DEF rate, filters

\* What comes back as it was filled in leaves each guard as it was.
LEMMA GuardsKept ==
  ASSUME NEW h \in HookSpecs, NEW s \in HookSpecs, Validates(s),
         NEW f, GoodForm(f), FormParses(f)
  PROVE  LET o == FormOf(s)
             r == Result(h, f)
         IN /\ f.mode = o.mode => Guards(r).admitted = Guards(s).admitted
            /\ f.windows = o.windows => Guards(r).windows = Guards(s).windows
            /\ f.filters = o.filters => Guards(r).filters = Guards(s).filters
            /\ f.fields = o.fields => Guards(r).fields = Guards(s).fields
            /\ f.rateMax = o.rateMax /\ f.rateWindow = o.rateWindow
                 => Guards(r).rate = Guards(s).rate
<1> DEFINE o == FormOf(s)
           r == Result(h, f)
<1>0. /\ r \in HookSpecs /\ r.auth = AuthWritten(f) /\ RulesOf(r) = RulesWritten(f)
      /\ r.payload = ParseLines(f.fields, ParseField)
  BY ResultIs
<1> HIDE DEF r
<1>1. /\ Guards(r).admitted = OrElse(r.auth, [mode |-> "none"]).mode
      /\ Guards(r).windows = OrElse(RulesOf(r).windows, <<>>)
      /\ Guards(r).filters = Len(OrElse(RulesOf(r).filters, <<>>))
      /\ Guards(r).fields = Len(OrElse(r.payload, <<>>))
      /\ Guards(r).rate = {RulesOf(r).rate[i].max : i \in DOMAIN RulesOf(r).rate}
  BY <1>0, GuardsAre
<1>2. /\ Guards(s).admitted = OrElse(s.auth, [mode |-> "none"]).mode
      /\ Guards(s).windows = OrElse(RulesOf(s).windows, <<>>)
      /\ Guards(s).filters = Len(OrElse(RulesOf(s).filters, <<>>))
      /\ Guards(s).fields = Len(OrElse(s.payload, <<>>))
      /\ Guards(s).rate = {RulesOf(s).rate[i].max : i \in DOMAIN RulesOf(s).rate}
  BY GuardsAre
<1>3. /\ o.mode = OrElse(s.auth, [mode |-> "none"]).mode
      /\ o.fields = LinesOf(s.payload, FieldLine)
      /\ o.filters = LinesOf(RulesOf(s).filters, FilterLine)
      /\ o.windows = LinesOf(RulesOf(s).windows, WindowLine)
      /\ o.rateMax = OrElse(RulesOf(s).rate, [max |-> 0]).max
      /\ o.rateWindow = [i \in DOMAIN RulesOf(s).rate |-> FormatDuration(RulesOf(s).rate[i].window)]
  BY DEF FormOf
<1> HIDE DEF o
<1>4. OrElse(r.auth, [mode |-> "none"]).mode = f.mode
  <2>1. CASE f.mode = "none"
    BY <1>0, <2>1, CredentialsTyped DEF AuthWritten, OrElse, Present
  <2>2. CASE f.mode # "none"
    <3>1. r.auth = <<[mode |-> f.mode, words |-> Trimmed(Credentials(f))]>>
      BY <1>0, <2>2, CredentialsTyped DEF AuthWritten
    <3>2. QED
      BY <3>1 DEF OrElse, Present, The
  <2>3. QED
    BY <2>1, <2>2
<1>5. f.windows = o.windows => Guards(r).windows = Guards(s).windows
  <2>1. f.windows \in Seq(WindowSpecs) /\ RulesOf(r).windows = NonEmpty(f.windows)
    BY <1>0, FormsAre, WindowsParsed DEF RulesWritten
  <2>2. OrElse(RulesOf(r).windows, <<>>) = f.windows
    BY <2>1, NonEmptyTyped
  <2>3. o.windows = OrElse(RulesOf(s).windows, <<>>)
    BY <1>3, HooksAre, WindowsShown
  <2>4. QED
    BY <1>1, <1>2, <2>2, <2>3
<1>6. f.filters = o.filters => Guards(r).filters = Guards(s).filters
  <2> DEFINE a == [i \in DOMAIN f.filters |-> ParseFilter(f.filters[i])]
             b == OrElse(RulesOf(s).filters, <<>>)
  <2>1. /\ f.filters \in Seq(FilterLines) /\ a \in Seq(FilterSpecs)
        /\ RulesOf(r).filters = NonEmpty(a)
    <3>1. f.filters \in Seq(FilterLines) /\ \A i \in DOMAIN f.filters : FilterLineParses(f.filters[i])
      BY FormsAre, DurationsAreRead
    <3>2. a \in Seq(FilterSpecs) /\ ParseLines(f.filters, ParseFilter) = NonEmpty(a)
      BY <3>1, FiltersParsed
    <3>3. RulesOf(r).filters = ParseLines(f.filters, ParseFilter)
      BY <1>0 DEF RulesWritten
    <3>4. QED
      BY <3>1, <3>2, <3>3
  <2>2. b \in Seq(FilterSpecs) /\ o.filters = [i \in DOMAIN b |-> FilterLine(b[i])]
    BY <1>3, HooksAre, FiltersShown
  <2>3. DOMAIN a = DOMAIN f.filters /\ DOMAIN o.filters = DOMAIN b
    BY <2>2
  <2> HIDE DEF a, b
  <2>4. OrElse(RulesOf(r).filters, <<>>) = a
    BY <2>1, NonEmptyTyped
  <2>5. f.filters = o.filters => Len(a) = Len(b)
    BY <2>1, <2>2, <2>3, LenProperties
  <2>6. QED
    BY <1>1, <1>2, <2>4, <2>5 DEF b
<1>7. f.fields = o.fields => Guards(r).fields = Guards(s).fields
  <2> DEFINE a == [i \in DOMAIN f.fields |-> ParseField(f.fields[i])]
             b == OrElse(s.payload, <<>>)
  <2>1. /\ f.fields \in Seq(Lines) /\ a \in Seq(FieldSpecs) /\ r.payload = NonEmpty(a)
    BY <1>0, FormsAre, DurationsAreRead, FieldsParsed
  <2>2. b \in Seq(FieldSpecs) /\ o.fields = [i \in DOMAIN b |-> FieldLine(b[i])]
    BY <1>3, HooksAre, FieldsShown
  <2>3. DOMAIN a = DOMAIN f.fields /\ DOMAIN o.fields = DOMAIN b
    BY <2>2
  <2> HIDE DEF a, b
  <2>4. OrElse(r.payload, <<>>) = a
    BY <2>1, NonEmptyTyped
  <2>5. f.fields = o.fields => Len(a) = Len(b)
    BY <2>1, <2>2, <2>3, LenProperties
  <2>6. QED
    BY <1>1, <1>2, <2>4, <2>5 DEF b
<1>8. f.rateMax = o.rateMax /\ f.rateWindow = o.rateWindow => Guards(r).rate = Guards(s).rate
  <2> DEFINE u == RulesOf(s).rate
             v == RulesOf(r).rate
  <2>1. u \in Optional(RateSpecs) /\ v = RateWritten(f)
    BY <1>0, HooksAre DEF RulesWritten
  <2>2. \A i \in DOMAIN u : u[i].max > 0
    BY DEF Validates
  <2> HIDE DEF u, v
  <2>3. CASE u = <<>>
    <3>1. o.rateMax = 0
      BY <1>3, <2>1, <2>3, RateTyped DEF u
    <3>2. f.rateMax = 0 => v = <<>>
      BY <2>1 DEF RateWritten
    <3>3. QED
      BY <1>1, <1>2, <2>3, <3>1, <3>2 DEF u, v
  <2>4. ASSUME NEW q \in RateSpecs, u = <<q>>
        PROVE  f.rateMax = o.rateMax /\ f.rateWindow = o.rateWindow => Guards(r).rate = Guards(s).rate
    <3>1. q.max > 0
      BY <2>2, <2>4
    <3>2. o.rateMax = q.max /\ o.rateWindow = <<FormatDuration(q.window)>>
      BY <1>3, <2>1, <2>4, RateTyped DEF u
    <3>3. f.rateMax = q.max /\ f.rateWindow = <<FormatDuration(q.window)>> =>
            v = <<[max |-> q.max, window |-> FormatDuration(The(f.rateWindow))]>>
      BY <2>1, <3>1 DEF RateWritten
    <3>4. {u[i].max : i \in DOMAIN u} = {q.max}
      BY <2>4
    <3>5. \A w : v = <<[max |-> q.max, window |-> w]>> => {v[i].max : i \in DOMAIN v} = {q.max}
      OBVIOUS
    <3>6. QED
      BY <1>1, <1>2, <3>2, <3>3, <3>4, <3>5 DEF u, v
  <2>5. QED
    BY <2>1, <2>3, <2>4, OptionalIs
<1>9. QED
  BY <1>1, <1>2, <1>3, <1>4, <1>5, <1>6, <1>7, <1>8 DEF o, r

\* No guard is lost to a form in which it was not changed, whatever the hook
\* has become by hand in the meantime: the kind of authentication, the windows,
\* the number of filters and of fields and the limit on requests are those
\* that were shown, and what no form shows is what the file has
\* (apply_hook_fields, parse_hook_form).
THEOREM NoGuardIsLost == Spec => GuardsSurvive
<1> DEFINE Lost == {Guarded[g] : g \in Amended \cap DOMAIN Guarded}
           Survive == /\ hook'.hidden = hook.hidden
                      /\ \A k \in DOMAIN Guards(shown) \ Lost : Guards(hook')[k] = Guards(shown)[k]
<1>1. ASSUME FormsInvariant, SubmitEdit, form' = <<>> PROVE Survive
  <2>1. PICK f : f = The(form)
    OBVIOUS
  <2>2. GoodForm(f) /\ FormParses(f) /\ hook' = Result(hook, f)
    <3>1. form' # <<FormOf(hook)>> /\ form' # <<Redisplayed(The(form))>>
      BY <1>1
    <3>2. QED
      BY <1>1, <2>1, <3>1, EditWritten
  <2>3. hook \in HookSpecs /\ shown \in HookSpecs /\ Validates(shown)
    BY <1>1 DEF FormsInvariant, TypeOK
  <2>4. hook'.hidden = hook.hidden
    BY <2>2, <2>3, ResultIs
  <2>5. \A g \in DOMAIN Guarded : Guarded[g] \notin Lost => f[g] = FormOf(shown)[g]
    <3>1. DOMAIN f = DOMAIN FormTypes
      BY <2>2 DEF GoodForm
    <3>2. DOMAIN Guarded \subseteq DOMAIN FormTypes \ {"slug"}
      BY DEF Guarded, FormTypes
    <3>3. \A g \in DOMAIN Guarded : g \notin Amended => f[g] = FormOf(shown)[g]
      BY <2>1, <3>1, <3>2 DEF Amended
    <3>4. QED
      BY <3>3
  <2>6. DOMAIN Guards(shown) = {"admitted", "windows", "filters", "fields", "rate"}
    BY DEF Guards
  <2> HIDE DEF Lost
  <2>7. /\ "admitted" \notin Lost => f.mode = FormOf(shown).mode
        /\ "windows" \notin Lost => f.windows = FormOf(shown).windows
        /\ "filters" \notin Lost => f.filters = FormOf(shown).filters
        /\ "fields" \notin Lost => f.fields = FormOf(shown).fields
        /\ "rate" \notin Lost => /\ f.rateMax = FormOf(shown).rateMax
                                 /\ f.rateWindow = FormOf(shown).rateWindow
    BY <2>5 DEF Guarded
  <2>8. /\ f.mode = FormOf(shown).mode => Guards(hook').admitted = Guards(shown).admitted
        /\ f.windows = FormOf(shown).windows => Guards(hook').windows = Guards(shown).windows
        /\ f.filters = FormOf(shown).filters => Guards(hook').filters = Guards(shown).filters
        /\ f.fields = FormOf(shown).fields => Guards(hook').fields = Guards(shown).fields
        /\ f.rateMax = FormOf(shown).rateMax /\ f.rateWindow = FormOf(shown).rateWindow
             => Guards(hook').rate = Guards(shown).rate
    BY <2>2, <2>3, GuardsKept
  <2>9. QED
    BY <2>4, <2>6, <2>7, <2>8
<1>2. FormsInvariant /\ [Next]_vars => [SubmitEdit /\ form' = <<>> => Survive]_vars
  <2> HIDE DEF Survive
  <2>1. QED
    BY <1>1
<1>3. QED
  BY <1>2, FormsTypeCorrect, PTL DEF GuardsSurvive, Spec

----
(***************************************************************************)
(* The readers of a payload.                                               *)
(***************************************************************************)
LEMMA PathsAre ==
  ASSUME NEW name \in Words
  PROVE  /\ Segments[name] \in Seq(Words) /\ Len(Segments[name]) \in Nat
         /\ \A i \in 1..Len(Segments[name]) :
              LET w == Segments[name][i]
              IN w \in Words /\ Segments[w] = <<w>> /\ SubSeq(Segments[name], i, i) = <<w>>
<1> DEFINE path == Segments[name]
<1>1. path \in Seq(Words) /\ DOMAIN path = 1..Len(path) /\ Len(path) \in Nat
  BY RulesConstants, LenProperties
<1>2. ASSUME NEW i \in 1..Len(path)
      PROVE  /\ path[i] \in Words /\ Segments[path[i]] = <<path[i]>>
             /\ SubSeq(path, i, i) = <<path[i]>>
  <2>1. i \in DOMAIN path
    BY <1>1
  <2>2. path[i] \in Words /\ Segments[path[i]] = <<path[i]>>
    <3>1. path[i] \in Words
      BY <1>1, <1>2, ElementOfSeq
    <3>2. Segments[path[i]] = <<path[i]>>
      BY <2>1, RulesConstants, Zenon
    <3>3. QED
      BY <3>1, <3>2
  <2> HIDE DEF path
  <2>3. i \in 1..Len(path) + 1 /\ i \in i - 1..Len(path) /\ i \in Int /\ i - i + 1 = 1 /\ i + 1 - 1 = i
    BY <1>1
  <2>4. /\ SubSeq(path, i, i) \in Seq(Words) /\ Len(SubSeq(path, i, i)) = 1
        /\ SubSeq(path, i, i)[1] = path[i]
    BY <1>1, <2>1, <2>2, <2>3, SubSeqProperties
  <2>5. SubSeq(path, i, i) = <<path[i]>>
    <3>1. \A s \in Seq(Words) : Len(s) = 1 => s = <<s[1]>>
      OBVIOUS
    <3>2. QED
      BY <2>4, <3>1
  <2>6. QED
    BY <2>2, <2>5
<1>3. QED
  BY <1>1, <1>2

\* The walk of resolve_field, key by key.
LEMMA WalkIs ==
  ASSUME NEW root, NEW name \in Words
  PROVE  LET path == Segments[name]
         IN \E at : /\ at[0] = <<root>> /\ ResolveField(root, name) = at[Len(path)]
                    /\ \A i \in 1..Len(path) :
                         at[i] = IF Present(at[i - 1]) THEN Get(The(at[i - 1]), path[i]) ELSE <<>>
<1> DEFINE path == Segments[name]
           N == Len(path)
           Step(f, i) ==
             IF i = 0 THEN <<root>>
             ELSE IF Present(f[i - 1]) THEN Get(The(f[i - 1]), path[i]) ELSE <<>>
           Grows(f, n) == f = [i \in 0..n |-> Step(f, i)]
           S == {n \in 0..N : \E f : Grows(f, n)}
           at == CHOOSE f : f = [i \in 0..N |-> Step(f, i)]
<1>1. N \in Nat
  BY PathsAre
<1>2. 0 \in S
  <2> DEFINE f == [i \in 0..0 |-> <<root>>]
  <2>1. \A i \in 0..0 : i = 0
    OBVIOUS
  <2>2. Grows(f, 0)
    BY <2>1
  <2> HIDE DEF Grows, f
  <2>3. QED
    BY <1>1, <2>2
<1>3. ASSUME NEW n \in 0..(N - 1), n \in S PROVE n + 1 \in S
  <2>1. PICK f : Grows(f, n)
    BY <1>3
  <2>2. /\ n + 1 \in 0..N /\ \A i \in 0..n : i \in 0..(n + 1) /\ i # n + 1
        /\ \A i \in 0..(n + 1) : i \in 0..n \/ i = n + 1
        /\ \A i \in 0..(n + 1) : i # 0 => i - 1 \in 0..n
    BY <1>1
  <2> DEFINE g == [i \in 0..(n + 1) |-> IF i = n + 1 THEN Step(f, n + 1) ELSE f[i]]
  <2>3. /\ \A i \in 0..n : g[i] = f[i]
        /\ g[n + 1] = Step(f, n + 1) /\ g = [i \in 0..(n + 1) |-> g[i]]
    <3> HIDE DEF Step
    <3>1. n + 1 \in 0..(n + 1)
      OBVIOUS
    <3>2. QED
      BY <2>2, <3>1
  <2> HIDE DEF g
  <2>4. ASSUME NEW i \in 0..(n + 1) PROVE g[i] = Step(g, i)
    <3>1. i # 0 => g[i - 1] = f[i - 1]
      BY <2>2, <2>3
    <3>2. Step(g, i) = Step(f, i)
      BY <3>1
    <3>3. i \in 0..n => f[i] = Step(f, i)
      <4> HIDE DEF Step
      <4> QED
        BY <2>1
    <3> HIDE DEF Step
    <3>4. QED
      BY <2>2, <2>3, <3>2, <3>3
  <2>5. Grows(g, n + 1)
    <3> HIDE DEF Step
    <3> QED
      BY <2>3, <2>4
  <2> HIDE DEF Grows
  <2>6. QED
    BY <2>2, <2>5
<1>4. N \in S
  <2> HIDE DEF S
  <2>1. \A n \in 0..N : n \in S
    BY <1>1, <1>2, <1>3, CountingUp
  <2> QED
    BY <1>1, <2>1
<1>5. PICK f : Grows(f, N)
  <2> HIDE DEF Grows
  <2> QED
    BY <1>4
<1>6. at = [i \in 0..N |-> Step(at, i)]
  <2> DEFINE Is(f_1) == f_1 = [i \in 0..N |-> Step(f_1, i)]
  <2>1. Is(f)
    BY <1>5
  <2>2. at = CHOOSE f_1 : Is(f_1)
    OBVIOUS
  <2> HIDE DEF Is, at
  <2>3. Is(at)
    BY <2>1, <2>2
  <2>4. QED
    BY <2>3 DEF Is
<1>7. ResolveField(root, name) = at[N]
  BY DEF ResolveField
<1> HIDE DEF at
<1>8. \A i \in 0..N : at[i] = Step(at, i)
  <2> HIDE DEF Step
  <2> QED
    BY <1>6
<1>9. at[0] = <<root>>
  BY <1>1, <1>8
<1>10. \A i \in 1..N : i \in 0..N /\ i # 0
  BY <1>1
<1>11. QED
  BY <1>7, <1>8, <1>9, <1>10

\* The sets of flatten_recursive, key by key.
Reached(values, path, j, i) ==
  {c[2] : c \in {d \in UNION {Children(v) : v \in values} :
                Segments[d[1]] = SubSeq(path, j + 1, i)}}

Reaches(at, path, i) == at[i] = UNION {Reached(at[j], path, j, i) : j \in 0..(i - 1)}

LEMMA FlatteningIs ==
  ASSUME NEW payload, NEW name \in Words
  PROVE  LET path == Segments[name]
         IN \E at : /\ at[0] = {payload} /\ FlattenRecursive(payload, name) = at[Len(path)]
                    /\ \A i \in 1..Len(path) : Reaches(at, path, i)
<1> DEFINE path == Segments[name]
           N == Len(path)
           Step(f, i) ==
             IF i = 0 THEN {payload} ELSE UNION {Reached(f[j], path, j, i) : j \in 0..(i - 1)}
           Grows(f, n) == f = [i \in 0..n |-> Step(f, i)]
           S == {n \in 0..N : \E f : Grows(f, n)}
           at == CHOOSE f : f = [i \in 0..N |-> Step(f, i)]
<1>1. N \in Nat
  BY PathsAre
<1>2. 0 \in S
  <2> DEFINE f == [i \in 0..0 |-> {payload}]
  <2>1. \A i \in 0..0 : i = 0
    OBVIOUS
  <2>2. Grows(f, 0)
    BY <2>1
  <2> HIDE DEF Grows, f
  <2>3. QED
    BY <1>1, <2>2
<1>3. ASSUME NEW n \in 0..(N - 1), n \in S PROVE n + 1 \in S
  <2>1. PICK f : Grows(f, n)
    BY <1>3
  <2>2. /\ n + 1 \in 0..N /\ \A i \in 0..n : i \in 0..(n + 1) /\ i # n + 1
        /\ \A i \in 0..(n + 1) : i \in 0..n \/ i = n + 1
        /\ \A i \in 0..(n + 1) : \A j \in 0..(i - 1) : j \in 0..n
    BY <1>1
  <2> DEFINE g == [i \in 0..(n + 1) |-> IF i = n + 1 THEN Step(f, n + 1) ELSE f[i]]
  <2>3. /\ \A i \in 0..n : g[i] = f[i]
        /\ g[n + 1] = Step(f, n + 1) /\ g = [i \in 0..(n + 1) |-> g[i]]
    <3> HIDE DEF Step
    <3>1. n + 1 \in 0..(n + 1)
      OBVIOUS
    <3>2. QED
      BY <2>2, <3>1
  <2> HIDE DEF g
  <2>4. ASSUME NEW i \in 0..(n + 1) PROVE g[i] = Step(g, i)
    <3>1. \A j \in 0..(i - 1) : Reached(g[j], path, j, i) = Reached(f[j], path, j, i)
      BY <2>2, <2>3
    <3>2. Step(g, i) = Step(f, i)
      BY <3>1
    <3>3. i \in 0..n => f[i] = Step(f, i)
      <4> HIDE DEF Step
      <4> QED
        BY <2>1
    <3> HIDE DEF Step
    <3>4. QED
      BY <2>2, <2>3, <3>2, <3>3
  <2>5. Grows(g, n + 1)
    <3> HIDE DEF Step
    <3> QED
      BY <2>3, <2>4
  <2> HIDE DEF Grows
  <2>6. QED
    BY <2>2, <2>5
<1>4. N \in S
  <2> HIDE DEF S
  <2>1. \A n \in 0..N : n \in S
    BY <1>1, <1>2, <1>3, CountingUp
  <2> QED
    BY <1>1, <2>1
<1>5. PICK f : Grows(f, N)
  <2> HIDE DEF Grows
  <2> QED
    BY <1>4
<1>6. at = [i \in 0..N |-> Step(at, i)]
  <2> DEFINE Is(f_1) == f_1 = [i \in 0..N |-> Step(f_1, i)]
  <2>1. Is(f)
    BY <1>5
  <2>2. at = CHOOSE f_1 : Is(f_1)
    OBVIOUS
  <2> HIDE DEF Is, at
  <2>3. Is(at)
    BY <2>1, <2>2
  <2>4. QED
    BY <2>3 DEF Is
<1>7. FlattenRecursive(payload, name) = at[N]
  BY DEF FlattenRecursive, Reached
<1> HIDE DEF at
<1>8. \A i \in 0..N : at[i] = Step(at, i)
  <2> HIDE DEF Step
  <2> QED
    BY <1>6
<1>9. at[0] = {payload}
  <2>1. 0 \in 0..N
    BY <1>1
  <2>2. at[0] = Step(at, 0)
    <3> HIDE DEF Step
    <3> QED
      BY <1>8, <2>1
  <2>3. QED
    BY <2>2
<1>10. \A i \in 1..N : Reaches(at, path, i)
  <2> TAKE i \in 1..N
  <2>1. i \in 0..N /\ i # 0
    BY <1>1
  <2>2. at[i] = Step(at, i)
    <3> HIDE DEF Step
    <3> QED
      BY <1>8, <2>1
  <2>3. QED
    BY <2>1, <2>2 DEF Reaches
<1>11. QED
  BY <1>7, <1>9, <1>10

\* What the one finds by walking from object to object, the other has under
\* the same name.
LEMMA FoundIsFlattened ==
  ASSUME NEW payload, NEW name \in Words, Present(ResolveField(payload, name))
  PROVE  The(ResolveField(payload, name)) \in FlattenRecursive(payload, name)
<1> DEFINE path == Segments[name]
           N == Len(path)
<1>1. N \in Nat
  BY PathsAre
<1>2. PICK at : /\ at[0] = <<payload>> /\ ResolveField(payload, name) = at[N]
                /\ \A i \in 1..N :
                     at[i] = IF Present(at[i - 1]) THEN Get(The(at[i - 1]), path[i]) ELSE <<>>
  BY WalkIs
<1>3. PICK all : /\ all[0] = {payload} /\ FlattenRecursive(payload, name) = all[N]
                 /\ \A i \in 1..N : Reaches(all, path, i)
  BY FlatteningIs
<1> DEFINE T == {i \in 0..N : Present(at[i]) => The(at[i]) \in all[i]}
<1>4. 0 \in T
  BY <1>1, <1>2, <1>3 DEF The
<1>5. ASSUME NEW i \in 0..(N - 1), i \in T PROVE i + 1 \in T
  <2> DEFINE w == path[i + 1]
             v == The(at[i])
  <2>1. /\ i + 1 \in 1..N /\ i + 1 \in 0..N /\ i + 1 - 1 = i /\ i \in 0..N
        /\ i \in 0..(i + 1 - 1)
    BY <1>1
  <2>2. SUFFICES ASSUME Present(at[i + 1]) PROVE The(at[i + 1]) \in all[i + 1]
    BY <2>1
  <2>3. at[i + 1] = IF Present(at[i]) THEN Get(v, w) ELSE <<>>
    BY <1>2, <2>1
  <2>4. Present(at[i]) /\ v \in all[i]
    BY <1>5, <2>2, <2>3 DEF Present
  <2>5. w \in DOMAIN v.fields /\ The(at[i + 1]) = v.fields[w]
    BY <2>2, <2>3, <2>4 DEF Get, Present, The
  <2>6. Segments[w] = SubSeq(path, i + 1, i + 1)
    BY <2>1, PathsAre
  <2> HIDE DEF w, v
  <2>7. PICK d : d = <<w, v.fields[w]>>
    OBVIOUS
  <2>8. d \in Children(v) /\ d[1] = w /\ d[2] = v.fields[w]
    BY <2>5, <2>7 DEF Children
  <2>9. d[2] \in Reached(all[i], path, i, i + 1)
    BY <2>4, <2>6, <2>8 DEF Reached
  <2>10. Reached(all[i], path, i, i + 1) \in {Reached(all[j], path, j, i + 1) : j \in 0..(i + 1 - 1)}
    BY <2>1
  <2>11. d[2] \in all[i + 1]
    BY <1>3, <2>1, <2>9, <2>10 DEF Reaches
  <2>12. QED
    BY <2>5, <2>8, <2>11
<1>6. N \in T
  <2> HIDE DEF T
  <2>1. \A i \in 0..N : i \in T
    BY <1>1, <1>4, <1>5, CountingUp
  <2>2. QED
    BY <1>1, <2>1
<1>7. QED
  BY <1>2, <1>3, <1>6

\* A placeholder of a field that is there is not left.
LEMMA NothingLeft ==
  ASSUME NEW payload, NEW name, Present(ResolveField(payload, name)), NEW template
  PROVE  \A i \in DOMAIN Interpolated(template, payload) :
           LET q == Interpolated(template, payload)[i] IN q.kind = "field" => q.word # name
<1> DEFINE t == Interpolated(template, payload)
<1>1. ASSUME NEW i \in DOMAIN t, t[i].kind = "field" PROVE t[i].word # name
  <2>1. PICK piece : piece = Pieces[template][i]
    OBVIOUS
  <2>2. t[i] = InterpolatePiece(piece, payload)
    BY <1>1, <2>1 DEF Interpolated
  <2>3. CASE piece.kind = "field" /\ Present(ResolveField(payload, piece.word))
    BY <1>1, <2>2, <2>3 DEF InterpolatePiece
  <2>4. CASE ~(piece.kind = "field" /\ Present(ResolveField(payload, piece.word)))
    BY <1>1, <2>2, <2>4 DEF InterpolatePiece
  <2>5. QED
    BY <2>3, <2>4
<1>2. QED
  BY <1>1

\* What is run or requested is what the executor has, interpolated.
LEMMA ResolvedIs ==
  ASSUME NEW e \in CommandExecutors \cup HttpExecutors, NEW payload
  PROVE  LET r == ResolveExecutor(e, payload)
         IN /\ r.type = e.type
            /\ e.type \in {"shell", "http"} => r.arg = Interpolated(e.arg, payload)
            /\ e.type = "http" => r.body = [i \in DOMAIN e.body |-> Interpolated(e.body[i], payload)]
<1>1. CASE e \in CommandExecutors
  <2>1. /\ e.type \in CommandTypes /\ e = [type |-> e.type, arg |-> e.arg]
    BY <1>1 DEF CommandExecutors
  <2>2. PICK a : a = Interpolated(e.arg, payload)
    OBVIOUS
  <2>3. ResolveExecutor(e, payload) = IF e.type = "shell" THEN [e EXCEPT !.arg = a] ELSE e
    BY <2>1, <2>2 DEF ResolveExecutor, CommandTypes
  <2>4. QED
    BY <2>1, <2>2, <2>3 DEF CommandTypes
<1>2. CASE e \in HttpExecutors
  <2>1. e.type = "http" /\ {"type", "arg", "body"} \subseteq DOMAIN e
    BY <1>2, EditsConstants DEF HttpExecutors
  <2>2. PICK a : a = Interpolated(e.arg, payload)
    OBVIOUS
  <2>3. PICK b : b = [i \in DOMAIN e.body |-> Interpolated(e.body[i], payload)]
    OBVIOUS
  <2>4. PICK c : c = [k \in DOMAIN e.headers |-> ResolveEnvRefs(e.headers[k])]
    OBVIOUS
  <2>5. ResolveExecutor(e, payload) = [e EXCEPT !.arg = a, !.body = b, !.headers = c]
    <3>1. ResolveExecutor(e, payload) = Request(e, payload)
      BY <2>1 DEF ResolveExecutor
    <3>2. QED
      BY <2>1, <2>2, <2>3, <2>4, <3>1 DEF Request
  <2>6. QED
    BY <2>1, <2>2, <2>3, <2>5
<1>3. QED
  BY <1>1, <1>2

LEMMA RequiredNotLeft ==
  ASSUME NEW e \in CommandExecutors \cup HttpExecutors, NEW payload, NEW name,
         Present(ResolveField(payload, name))
  PROVE  name \notin Left(ResolveExecutor(e, payload))
<1> DEFINE r == ResolveExecutor(e, payload)
           templates == IF r.type = "http" THEN {r.arg} \cup {r.body[i] : i \in DOMAIN r.body}
                        ELSE IF r.type = "shell" THEN {r.arg} ELSE {}
<1>1. /\ r.type = e.type
      /\ e.type \in {"shell", "http"} => r.arg = Interpolated(e.arg, payload)
      /\ e.type = "http" => r.body = [i \in DOMAIN e.body |-> Interpolated(e.body[i], payload)]
  BY ResolvedIs
<1> HIDE DEF r
<1>2. \A t \in templates : \E w : t = Interpolated(w, payload)
  BY <1>1
<1>3. Left(r) = {p.word : p \in {q \in UNION {{t[i] : i \in DOMAIN t} : t \in templates} : q.kind = "field"}}
  BY DEF Left
<1> HIDE DEF templates
<1>4. ASSUME NEW t \in templates, NEW i \in DOMAIN t, t[i].kind = "field" PROVE t[i].word # name
  <2>1. PICK w : t = Interpolated(w, payload)
    BY <1>2
  <2>2. QED
    BY <1>4, <2>1, NothingLeft
<1>5. name \notin Left(r)
  BY <1>3, <1>4
<1>6. QED
  BY <1>5 DEF r

\* Where a filter finds a word, the placeholder of its field puts it into the
\* command and a variable shows it; and no placeholder of a required field is
\* left in what is run or requested: payload.rs, filters, interpolation.rs and
\* script.rs read the payload alike.
THEOREM PayloadIsReadAlike == Spec => []ReadersAgree
<1>1. ASSUME FormsInvariant, NEW p \in Payloads, NEW m \in Moments, Accepts(hook, p, m)
      PROVE  LET filters == OrElse(RulesOf(hook).filters, <<>>)
                 fields == OrElse(hook.payload, <<>>)
             IN /\ \A i \in DOMAIN filters : filters[i].op = "equals" /\ Present(filters[i].value) =>
                     LET name == filters[i].field
                         word == The(filters[i].value)
                         found == The(ResolveField(p, name))
                     IN /\ found.type # "null" =>
                             InterpolatePiece([kind |-> "field", word |-> name], p)
                               = [kind |-> "quoted", word |-> word]
                        /\ Leaf(found) =>
                             [variable |-> VariableOf[name], text |-> word] \in FieldVariables(p)
                /\ \A i \in DOMAIN fields : fields[i].required =>
                     fields[i].name \notin Left(ResolveExecutor(hook.executor, p))
  <2> DEFINE filters == OrElse(RulesOf(hook).filters, <<>>)
             fields == OrElse(hook.payload, <<>>)
  <2>1. /\ filters \in Seq(FilterSpecs) /\ fields \in Seq(FieldSpecs)
        /\ hook.executor \in CommandExecutors \cup HttpExecutors
        /\ fields # <<>> => Present(hook.payload) /\ The(hook.payload) = fields
    <3>1. hook \in HookSpecs
      BY <1>1 DEF FormsInvariant, TypeOK
    <3>2. QED
      BY <3>1, HooksAre, FiltersShown, FieldsShown DEF OrElse
  <2>2. Passes(filters, p) /\ (Present(hook.payload) => Conforms(The(hook.payload), p))
    BY <1>1 DEF Accepts
  <2> HIDE DEF filters, fields
  <2>3. ASSUME NEW i \in DOMAIN filters, filters[i].op = "equals", Present(filters[i].value)
        PROVE  LET name == filters[i].field
                   word == The(filters[i].value)
                   found == The(ResolveField(p, name))
               IN /\ found.type # "null" =>
                       InterpolatePiece([kind |-> "field", word |-> name], p)
                         = [kind |-> "quoted", word |-> word]
                  /\ Leaf(found) =>
                       [variable |-> VariableOf[name], text |-> word] \in FieldVariables(p)
    <3> DEFINE name == filters[i].field
               word == The(filters[i].value)
               found == The(ResolveField(p, name))
    <3>1. filters[i] \in FilterSpecs
      BY <2>1, <2>3, ElementOfSeq, LenProperties
    <3>2. name \in Words
      BY <3>1 DEF FilterSpecs
    <3>3. Present(ResolveField(p, name)) /\ found.text = word
      <4>1. FilterHolds(filters[i], p)
        BY <2>2, <2>3 DEF Passes
      <4>2. Present(ResolveField(p, name)) /\ Satisfies("equals", found, word)
        BY <2>3, <4>1 DEF FilterHolds, OrElse
      <4>3. QED
        BY <4>2 DEF Satisfies
    <3>4. found \in FlattenRecursive(p, name)
      BY <3>2, <3>3, FoundIsFlattened
    <3> HIDE DEF name, word
    <3>5. found.type # "null" => InterpolatePiece([kind |-> "field", word |-> name], p)
                                   = [kind |-> "quoted", word |-> word]
      BY <3>3 DEF InterpolatePiece, ValueToString
    <3> HIDE DEF found
    <3>6. Leaf(found) => [variable |-> VariableOf[name], text |-> word] \in FieldVariables(p)
      <4>1. SUFFICES ASSUME Leaf(found)
                     PROVE  [variable |-> VariableOf[name], text |-> word] \in FieldVariables(p)
        OBVIOUS
      <4>2. PICK f : f = [name |-> name, text |-> found.text]
        OBVIOUS
      <4>3. f \in {[name |-> name, text |-> v.text] : v \in {u \in FlattenRecursive(p, name) : Leaf(u)}}
        BY <3>4, <4>1, <4>2
      <4>4. f \in FlattenJsonFields(p)
        BY <3>2, <4>3 DEF FlattenJsonFields
      <4>5. f.name = name /\ f.text = word
        BY <3>3, <4>2
      <4>6. QED
        BY <4>4, <4>5 DEF FieldVariables
    <3>7. QED
      BY <3>5, <3>6 DEF name, word, found
  <2>4. ASSUME NEW i \in DOMAIN fields, fields[i].required
        PROVE  fields[i].name \notin Left(ResolveExecutor(hook.executor, p))
    <3>1. fields # <<>>
      BY <2>4
    <3>2. FieldHolds(fields[i], p)
      BY <2>1, <2>2, <2>4, <3>1 DEF Conforms
    <3>3. Present(ResolveField(p, fields[i].name))
      BY <2>4, <3>2 DEF FieldHolds, IsGiven
    <3>4. QED
      BY <2>1, <3>3, RequiredNotLeft
  <2>5. QED
    BY <2>3, <2>4 DEF filters, fields
<1>2. FormsInvariant => ReadersAgree
  BY <1>1 DEF ReadersAgree
<1>3. QED
  BY <1>2, FormsTypeCorrect, PTL

----
(***************************************************************************)
(* What a form can express comes back from it as it was.                   *)
(***************************************************************************)
Bare(w) == TrimTo[w] = w /\ w # Empty
Whole(d) == d % Second = 0 \/ (d < Second /\ d % Milli = 0)

LEMMA PlainlyIs ==
  ASSUME NEW h, Plainly(h)
  PROVE  LET fields == OrElse(h.payload, <<>>)
             filters == OrElse(RulesOf(h).filters, <<>>)
             windows == OrElse(RulesOf(h).windows, <<>>)
         IN /\ h.executor.type # "http" /\ Bare(h.name) /\ Bare(h.executor.arg)
            /\ \A i \in DOMAIN h.cwd : Bare(h.cwd[i])
            /\ \A k \in DOMAIN h.env : EnvLines[h.env[k]] = [first |-> h.env[k], more |-> <<>>]
            /\ \A i \in DOMAIN h.timeout : Whole(h.timeout[i])
            /\ \A i \in DOMAIN RulesOf(h).cooldown : Whole(RulesOf(h).cooldown[i])
            /\ \A i \in DOMAIN RulesOf(h).rate : Whole(RulesOf(h).rate[i].window)
            /\ \A i \in DOMAIN h.retries :
                 /\ h.retries[i].count > 0
                 /\ Whole(h.retries[i].initial) /\ Whole(h.retries[i].max)
            /\ \A i \in DOMAIN h.auth : \A j \in DOMAIN h.auth[i].words : Bare(h.auth[i].words[j])
            /\ h.payload # <<<<>>>>
            /\ \A i \in DOMAIN fields : Bare(fields[i].name) /\ Len(Parts[fields[i].name]) = 1
            /\ \A i \in DOMAIN filters :
                 /\ Bare(filters[i].field) /\ Len(Parts[filters[i].field]) = 1
                 /\ filters[i].op # "exists" =>
                      Present(filters[i].value) /\ Bare(The(filters[i].value))
            /\ \A i \in DOMAIN windows : windows[i].days # <<>>
<1>1. \A a : (\A i \in DOMAIN <<a>> : Whole(<<a>>[i])) => Whole(a)
  <2>1. \A a : 1 \in DOMAIN <<a>> /\ <<a>>[1] = a
    OBVIOUS
  <2>2. QED
    BY <2>1
<1>2. \A a, b : (\A i \in DOMAIN <<a, b>> : Whole(<<a, b>>[i])) => Whole(a) /\ Whole(b)
  <2>1. \A a, b : 1 \in DOMAIN <<a, b>> /\ <<a, b>>[1] = a /\ 2 \in DOMAIN <<a, b>> /\ <<a, b>>[2] = b
    OBVIOUS
  <2>2. QED
    BY <2>1
<1>3. /\ \A i \in DOMAIN RulesOf(h).rate :
           \A j \in DOMAIN <<RulesOf(h).rate[i].window>> : Whole(<<RulesOf(h).rate[i].window>>[j])
      /\ \A i \in DOMAIN h.retries :
           /\ h.retries[i].count > 0
           /\ \A j \in DOMAIN <<h.retries[i].initial, h.retries[i].max>> :
                Whole(<<h.retries[i].initial, h.retries[i].max>>[j])
  BY Zenon DEF Plainly, Whole
<1>4. /\ \A i \in DOMAIN RulesOf(h).rate : Whole(RulesOf(h).rate[i].window)
      /\ \A i \in DOMAIN h.retries :
           h.retries[i].count > 0 /\ Whole(h.retries[i].initial) /\ Whole(h.retries[i].max)
  BY <1>1, <1>2, <1>3
<1>5. /\ h.executor.type # "http" /\ Bare(h.name) /\ Bare(h.executor.arg)
      /\ \A i \in DOMAIN h.cwd : Bare(h.cwd[i])
      /\ \A k \in DOMAIN h.env : EnvLines[h.env[k]] = [first |-> h.env[k], more |-> <<>>]
      /\ \A i \in DOMAIN h.auth : \A j \in DOMAIN h.auth[i].words : Bare(h.auth[i].words[j])
      /\ h.payload # <<<<>>>>
  BY Zenon DEF Plainly, Bare
<1>6. /\ \A i \in DOMAIN h.timeout : Whole(h.timeout[i])
      /\ \A i \in DOMAIN RulesOf(h).cooldown : Whole(RulesOf(h).cooldown[i])
  BY Zenon DEF Plainly, Whole
<1>7. LET fields == OrElse(h.payload, <<>>)
          filters == OrElse(RulesOf(h).filters, <<>>)
          windows == OrElse(RulesOf(h).windows, <<>>)
      IN /\ \A i \in DOMAIN fields : Bare(fields[i].name) /\ Len(Parts[fields[i].name]) = 1
         /\ \A i \in DOMAIN filters :
              /\ Bare(filters[i].field) /\ Len(Parts[filters[i].field]) = 1
              /\ filters[i].op # "exists" =>
                   Present(filters[i].value) /\ Bare(The(filters[i].value))
         /\ \A i \in DOMAIN windows : windows[i].days # <<>>
  BY Zenon DEF Plainly, Bare
<1>8. QED
  BY <1>4, <1>5, <1>6, <1>7

LEMMA WholeIs ==
  ASSUME NEW d \in Nat, Whole(d)
  PROVE  FormatDuration(d) = d
BY DEF Whole, FormatDuration, Second, Milli

LEMMA FormatWhole ==
  ASSUME NEW o \in Optional(Nat), \A i \in DOMAIN o : Whole(o[i])
  PROVE  Format(o) = o
<1>1. CASE o = <<>>
  BY <1>1, FormatTyped
<1>2. ASSUME NEW d \in Nat, o = <<d>> PROVE Format(o) = o
  <2>1. Whole(d) /\ Format(o) = <<FormatDuration(d)>>
    BY <1>2, FormatTyped DEF The
  <2>2. QED
    BY <1>2, <2>1, WholeIs
<1>3. QED
  BY <1>1, <1>2, OptionalIs

LEMMA SinglePart ==
  ASSUME NEW w \in Words, Len(Parts[w]) = 1
  PROVE  Parts[w] = <<w>>
<1>1. PICK s \in Seq(Words) : s = Parts[w]
  BY FormsConstants
<1>2. s = <<s[1]>> /\ s[1] \in Words /\ 1 \in DOMAIN s
  BY <1>1
<1>3. Parts[s[1]] = <<s[1]>>
  BY <1>1, <1>2, FormsConstants
<1>4. s[1] = w
  <2>1. \A v, u \in Words : Parts[v] = Parts[u] => v = u
    BY FormsConstants
  <2>2. QED
    BY <1>1, <1>2, <1>3, <2>1
<1>5. QED
  BY <1>1, <1>2, <1>4

LEMMA FieldReadBack ==
  ASSUME NEW f \in FieldSpecs, Bare(f.name), Len(Parts[f.name]) = 1
  PROVE  FieldLineParses(FieldLine(f)) /\ ParseField(FieldLine(f)) = f
<1>1. /\ f.name \in Words /\ f.type \in Types /\ f.required \in BOOLEAN
      /\ f = [name |-> f.name, type |-> f.type, required |-> f.required]
  BY DEF FieldSpecs
<1>2. Parts[f.name] = <<f.name>>
  BY <1>1, SinglePart
<1>3. PICK a, b : a = f.name /\ b = f.type
  OBVIOUS
<1>4. /\ TrimTo[a] = a /\ a # Empty /\ TrimTo[b] = b /\ b \in Types
      /\ TrimTo["required"] = "required"
  BY <1>1, <1>3, FormsConstants DEF Bare
<1>5. PICK line : line = FieldLine(f)
  OBVIOUS
<1>6. CASE f.required
  <2>1. line = (<<a>> \o <<b>>) \o <<"required">>
    BY <1>2, <1>3, <1>5, <1>6 DEF FieldLine
  <2>2. Len(line) = 3 /\ line[1] = a /\ line[2] = b /\ line[3] = "required"
    BY <2>1
  <2>3. FieldLineParses(line)
    BY <1>4, <2>2 DEF FieldLineParses
  <2>4. ParseField(line) = [name |-> a, type |-> b, required |-> TRUE]
    <3>1. (Len(line) > 2 /\ TrimTo[line[3]] = "required") = TRUE
      BY <1>4, <2>2
    <3>2. QED
      BY <1>4, <2>2, <3>1 DEF ParseField
  <2>5. f.required = TRUE
    BY <1>1, <1>6
  <2>6. f = [name |-> a, type |-> b, required |-> TRUE]
    BY <1>1, <1>3, <2>5
  <2>7. QED
    BY <1>5, <2>3, <2>4, <2>6
<1>7. CASE ~f.required
  <2>1. line = (<<a>> \o <<b>>) \o <<>>
    BY <1>2, <1>3, <1>5, <1>7 DEF FieldLine
  <2>2. Len(line) = 2 /\ line[1] = a /\ line[2] = b
    BY <2>1
  <2>3. FieldLineParses(line)
    BY <1>4, <2>2 DEF FieldLineParses
  <2>4. ParseField(line) = [name |-> a, type |-> b, required |-> FALSE]
    <3>1. (Len(line) > 2 /\ TrimTo[line[3]] = "required") = FALSE
      BY <2>2
    <3>2. QED
      BY <1>4, <2>2, <3>1 DEF ParseField
  <2>5. f.required = FALSE
    BY <1>1, <1>7
  <2>6. f = [name |-> a, type |-> b, required |-> FALSE]
    BY <1>1, <1>3, <2>5
  <2>7. QED
    BY <1>5, <2>3, <2>4, <2>6
<1>8. QED
  BY <1>6, <1>7

\* The value of an "exists" is not kept.
LEMMA FilterReadBack ==
  ASSUME NEW f \in FilterSpecs, Bare(f.field), Len(Parts[f.field]) = 1,
         f.op # "exists" => Present(f.value) /\ Bare(The(f.value))
  PROVE  LET g == ParseFilter(FilterLine(f))
         IN /\ FilterLineParses(FilterLine(f))
            /\ g.field = f.field /\ g.op = f.op /\ (f.op # "exists" => g.value = f.value)
<1>1. f.field \in Words /\ f.op \in Operators /\ f.op \in Words /\ f.value \in Optional(Words)
  BY FormsConstants DEF FilterSpecs
<1>2. Parts[f.field] = <<f.field>>
  BY <1>1, SinglePart
<1>3. TrimTo[f.field] = f.field /\ f.field # Empty /\ TrimTo[f.op] = f.op
  BY <1>1, FormsConstants DEF Bare
<1>4. PICK s \in Seq(Words) : s = IF Present(f.value) THEN Parts[The(f.value)] ELSE <<>>
  <2>1. f.value = <<>> \/ \E w \in Words : f.value = <<w>>
    BY <1>1, OptionalIs
  <2>2. CASE f.value = <<>>
    BY <2>2, EmptySeq DEF Present
  <2>3. ASSUME NEW w \in Words, f.value = <<w>> PROVE Parts[The(f.value)] \in Seq(Words)
    BY <2>3, FormsConstants DEF The
  <2>4. (IF Present(f.value) THEN Parts[The(f.value)] ELSE <<>>) \in Seq(Words)
    BY <2>1, <2>2, <2>3, EmptySeq
  <2>5. QED
    BY <2>4
<1>5. PICK line : line = FilterLine(f)
  OBVIOUS
<1>6. line = (<<f.field>> \o <<f.op>>) \o s
  BY <1>2, <1>4, <1>5 DEF FilterLine
<1>7. Len(line) = 2 + Len(s) /\ line[1] = f.field /\ line[2] = f.op /\ Rest(line) = s /\ Len(s) \in Nat
  BY <1>1, <1>6, FilterLineIs, LenProperties
<1>8. f.op # "exists" => Len(s) > 0 /\ Join(s) = The(f.value) /\ f.value = <<The(f.value)>>
  <2>1. SUFFICES ASSUME f.op # "exists"
                 PROVE  Len(s) > 0 /\ Join(s) = The(f.value) /\ f.value = <<The(f.value)>>
    OBVIOUS
  <2>2. PICK w \in Words : f.value = <<w>>
    BY <1>1, <2>1, OptionalIs DEF Present
  <2>3. The(f.value) = w
    BY <2>2 DEF The
  <2>4. s = Parts[w] /\ s # <<>>
    BY <1>4, <2>1, <2>3, FormsConstants
  <2>5. Join(s) = w
    <3>1. \A u \in Words : Parts[u] = s <=> u = w
      <4>1. \A v, u \in Words : Parts[v] = Parts[u] => v = u
        BY FormsConstants
      <4>2. QED
        BY <2>4, <4>1
    <3>2. QED
      BY <3>1 DEF Join
  <2>6. Len(s) > 0
    BY <1>7, <2>4, EmptySeq
  <2>7. QED
    BY <2>2, <2>3, <2>5, <2>6
<1>9. FilterLineParses(line)
  <2>1. Len(line) >= 2 /\ (f.op # "exists" => Len(line) > 2)
    BY <1>7, <1>8
  <2>2. f.op # "exists" => TrimTo[Join(Rest(line))] # Empty
    BY <1>7, <1>8 DEF Bare
  <2>3. QED
    BY <1>1, <1>3, <1>7, <2>1, <2>2 DEF FilterLineParses
<1>10. /\ ParseFilter(line).field = f.field /\ ParseFilter(line).op = f.op
       /\ f.op # "exists" => ParseFilter(line).value = f.value
  <2>1. ParseFilter(line).field = f.field /\ ParseFilter(line).op = f.op
    BY <1>3, <1>7 DEF ParseFilter
  <2>2. f.op # "exists" => ParseFilter(line).value = <<TrimTo[Join(s)]>>
    BY <1>3, <1>7 DEF ParseFilter
  <2>3. QED
    BY <1>8, <2>1, <2>2 DEF Bare
<1>11. QED
  BY <1>5, <1>9, <1>10

LEMMA FieldsReadBack ==
  ASSUME NEW h \in HookSpecs, Plainly(h)
  PROVE  LET lines == LinesOf(h.payload, FieldLine)
         IN /\ \A i \in DOMAIN lines : FieldLineParses(lines[i])
            /\ ParseLines(lines, ParseField) = h.payload
<1> DEFINE s == OrElse(h.payload, <<>>)
           lines == LinesOf(h.payload, FieldLine)
<1>1. s \in Seq(FieldSpecs) /\ lines = [i \in DOMAIN s |-> FieldLine(s[i])]
  BY HooksAre, FieldsShown
<1>2. \A i \in DOMAIN s : Bare(s[i].name) /\ Len(Parts[s[i].name]) = 1
  BY PlainlyIs
<1>3. h.payload = NonEmpty(s)
  <2>1. h.payload = <<>> \/ \E x \in Seq(FieldSpecs) : h.payload = <<x>>
    BY HooksAre, OptionalIs
  <2>2. h.payload # <<<<>>>>
    BY PlainlyIs
  <2>3. QED
    BY <2>1, <2>2 DEF NonEmpty, OrElse, Present, The
<1> HIDE DEF s, lines
<1>4. ASSUME NEW i \in DOMAIN s
      PROVE  FieldLineParses(lines[i]) /\ ParseField(lines[i]) = s[i]
  <2>1. s[i] \in FieldSpecs
    BY <1>1, <1>4, LenProperties, ElementOfSeq
  <2>2. lines[i] = FieldLine(s[i])
    BY <1>1, <1>4
  <2>3. QED
    BY <1>2, <1>4, <2>1, <2>2, FieldReadBack
<1>5. DOMAIN lines = DOMAIN s
  BY <1>1
<1>6. [i \in DOMAIN lines |-> ParseField(lines[i])] = s
  <2>1. s = [i \in DOMAIN s |-> s[i]]
    BY <1>1, LenProperties
  <2>2. [i \in DOMAIN lines |-> ParseField(lines[i])] = [i \in DOMAIN s |-> s[i]]
    BY <1>4, <1>5
  <2>3. QED
    BY <2>1, <2>2
<1>7. ParseLines(lines, ParseField) = NonEmpty(s)
  BY <1>6 DEF ParseLines
<1>8. QED
  BY <1>3, <1>4, <1>5, <1>7 DEF lines

LEMMA FiltersReadBack ==
  ASSUME NEW h \in HookSpecs, Plainly(h)
  PROVE  LET lines == LinesOf(RulesOf(h).filters, FilterLine)
             filters == OrElse(RulesOf(h).filters, <<>>)
             parsed == OrElse(ParseLines(lines, ParseFilter), <<>>)
         IN /\ \A i \in DOMAIN lines : FilterLineParses(lines[i])
            /\ DOMAIN parsed = DOMAIN filters
            /\ \A i \in DOMAIN filters :
                 /\ parsed[i].field = filters[i].field /\ parsed[i].op = filters[i].op
                 /\ filters[i].op # "exists" => parsed[i].value = filters[i].value
<1> DEFINE s == OrElse(RulesOf(h).filters, <<>>)
           lines == LinesOf(RulesOf(h).filters, FilterLine)
           b == [i \in DOMAIN lines |-> ParseFilter(lines[i])]
<1>1. /\ s \in Seq(FilterSpecs) /\ lines = [i \in DOMAIN s |-> FilterLine(s[i])]
      /\ lines \in Seq(FilterLines)
  BY HooksAre, FiltersShown
<1>2. \A i \in DOMAIN s : /\ Bare(s[i].field) /\ Len(Parts[s[i].field]) = 1
                          /\ s[i].op # "exists" => Present(s[i].value) /\ Bare(The(s[i].value))
  BY PlainlyIs
<1> HIDE DEF s, lines
<1>3. DOMAIN lines = DOMAIN s
  BY <1>1
<1>4. ASSUME NEW i \in DOMAIN s
      PROVE  /\ FilterLineParses(lines[i])
             /\ b[i].field = s[i].field /\ b[i].op = s[i].op
             /\ s[i].op # "exists" => b[i].value = s[i].value
  <2>1. s[i] \in FilterSpecs
    BY <1>1, <1>4, LenProperties, ElementOfSeq
  <2>2. lines[i] = FilterLine(s[i]) /\ b[i] = ParseFilter(lines[i])
    BY <1>1, <1>3, <1>4
  <2> HIDE DEF b
  <2>3. QED
    BY <1>2, <1>4, <2>1, <2>2, FilterReadBack
<1>5. OrElse(ParseLines(lines, ParseFilter), <<>>) = b
  <2>1. b \in Seq(FilterSpecs) /\ ParseLines(lines, ParseFilter) = NonEmpty(b)
    BY <1>1, <1>3, <1>4, FiltersParsed
  <2> HIDE DEF b
  <2>2. QED
    BY <2>1, NonEmptyTyped
<1>6. DOMAIN b = DOMAIN s
  BY <1>3
<1> HIDE DEF b
<1>7. QED
  BY <1>3, <1>4, <1>5, <1>6 DEF s, lines

LEMMA EnvReadBack ==
  ASSUME NEW env \in Envs, \A k \in DOMAIN env : EnvLines[env[k]] = [first |-> env[k], more |-> <<>>]
  PROVE  ParseEnv(EnvText(env)) = env
<1> DEFINE N == Len(EnvNames)
           Right(s) == \A i \in DOMAIN s : s[i][1] \in DOMAIN env /\ s[i][2] = env[s[i][1]]
           Has(s, k) == \E i \in DOMAIN s : s[i][1] = k
<1>1. N \in Nat
  BY NamesAre
<1>2. PICK text : /\ text[0] = <<>> /\ EnvText(env) = text[N]
                  /\ \A i \in 1..N : text[i] = text[i - 1] \o Added(env, i)
                  /\ \A i \in 0..N : text[i] \in Seq(EnvKeys \X Words)
  BY EnvTextIs
<1>3. ASSUME NEW i \in 1..N
      PROVE  Added(env, i) = IF EnvNames[i] \notin DOMAIN env THEN <<>>
                             ELSE << <<EnvNames[i], env[EnvNames[i]]>> >>
  <2>1. CASE EnvNames[i] \notin DOMAIN env
    BY <2>1 DEF Added
  <2>2. CASE EnvNames[i] \in DOMAIN env
    <3>1. /\ EnvLines[env[EnvNames[i]]].first = env[EnvNames[i]]
          /\ EnvLines[env[EnvNames[i]]].more = <<>>
      <4>1. EnvLines[env[EnvNames[i]]] = [first |-> env[EnvNames[i]], more |-> <<>>]
        BY <2>2, Zenon
      <4>2. QED
        BY <4>1
    <3>2. << <<EnvNames[i], env[EnvNames[i]]>> >> \in Seq(EnvKeys \X Words)
      BY <2>2, NamesAre, EnvsAre
    <3>3. << <<EnvNames[i], env[EnvNames[i]]>> >> \o <<>> = << <<EnvNames[i], env[EnvNames[i]]>> >>
      BY <3>2, ConcatEmptySeq
    <3>4. QED
      BY <2>2, <3>1, <3>3 DEF Added
  <2>3. QED
    BY <2>1, <2>2
<1> DEFINE Good(i) == Right(text[i]) /\ \A j \in 1..i : EnvNames[j] \in DOMAIN env => Has(text[i], EnvNames[j])
           T == {i \in 0..N : Good(i)}
<1>4. 0 \in T
  BY <1>1, <1>2
<1>5. ASSUME NEW i \in 0..(N - 1), i \in T PROVE i + 1 \in T
  <2> DEFINE k == EnvNames[i + 1]
             a == text[i]
             x == <<k, env[k]>>
  <2>1. /\ i + 1 \in 1..N /\ i + 1 \in 0..N /\ i + 1 - 1 = i /\ i \in 0..N
        /\ \A j \in 1..(i + 1) : j \in 1..i \/ j = i + 1
    BY <1>1
  <2>2. Good(i)
    BY <1>5
  <2>3. a \in Seq(EnvKeys \X Words) /\ text[i + 1] = a \o Added(env, i + 1)
    <3>1. PICK n : n = i + 1
      OBVIOUS
    <3>2. n \in 1..N /\ n - 1 = i
      BY <2>1, <3>1
    <3>3. text[n] = text[i] \o Added(env, n)
      BY <1>2, <3>2
    <3>4. QED
      BY <1>2, <2>1, <3>1, <3>3
  <2> HIDE DEF Right, Has
  <2>4. CASE k \notin DOMAIN env
    <3>1. text[i + 1] = a
      <4>1. Added(env, i + 1) = <<>>
        BY <1>3, <2>1, <2>4
      <4>2. QED
        BY <2>3, <4>1, ConcatEmptySeq
    <3>2. Good(i + 1)
      BY <2>1, <2>2, <2>4, <3>1
    <3>3. QED
      BY <2>1, <3>2
  <2>5. CASE k \in DOMAIN env
    <3>1. text[i + 1] = a \o <<x>> /\ x \in EnvKeys \X Words
      BY <1>3, <2>1, <2>3, <2>5, NamesAre, EnvsAre
    <3>2. x[1] = k /\ x[2] = env[k]
      OBVIOUS
    <3> HIDE DEF a, k, x
    <3>3. /\ Len(a) \in Nat /\ DOMAIN a = 1..Len(a)
          /\ DOMAIN (a \o <<x>>) = 1..(Len(a) + 1)
          /\ \A j \in 1..(Len(a) + 1) : (a \o <<x>>)[j] = IF j <= Len(a) THEN a[j] ELSE x
      BY <2>3, <3>1, LenProperties, AppendProperties, AppendIsConcat
    <3>4. Right(a \o <<x>>)
      <4>1. ASSUME NEW j \in 1..(Len(a) + 1)
            PROVE  (a \o <<x>>)[j][1] \in DOMAIN env /\ (a \o <<x>>)[j][2] = env[(a \o <<x>>)[j][1]]
        <5>1. CASE j <= Len(a)
          <6>1. (a \o <<x>>)[j] = a[j] /\ j \in DOMAIN a
            BY <3>3, <5>1
          <6>2. QED
            BY <2>2, <6>1 DEF Right, a
        <5>2. CASE ~(j <= Len(a))
          BY <2>5, <3>2, <3>3, <5>2
        <5>3. QED
          BY <5>1, <5>2
      <4>2. QED
        BY <3>3, <4>1 DEF Right
    <3>5. \A n : Has(a, n) => Has(a \o <<x>>, n)
      <4>1. \A j \in DOMAIN a : j \in DOMAIN (a \o <<x>>) /\ (a \o <<x>>)[j] = a[j]
        BY <3>3
      <4>2. QED
        BY <4>1 DEF Has
    <3>6. Has(a \o <<x>>, k)
      <4>1. /\ Len(a) + 1 \in DOMAIN (a \o <<x>>) /\ ~(Len(a) + 1 <= Len(a))
            /\ Len(a) + 1 \in 1..(Len(a) + 1)
        BY <3>3
      <4>2. (a \o <<x>>)[Len(a) + 1] = x
        BY <3>3, <4>1
      <4>3. QED
        BY <3>2, <4>1, <4>2 DEF Has
    <3>7. Good(i + 1)
      <4>1. \A j \in 1..i : EnvNames[j] \in DOMAIN env => Has(a, EnvNames[j])
        BY <2>2 DEF a
      <4>2. QED
        BY <2>1, <3>1, <3>4, <3>5, <3>6, <4>1 DEF k
    <3>8. QED
      BY <2>1, <3>7
  <2>6. QED
    BY <2>4, <2>5
<1>6. N \in T
  <2> HIDE DEF T
  <2>1. \A i \in 0..N : i \in T
    BY <1>1, <1>4, <1>5, CountingUp
  <2>2. QED
    BY <1>1, <2>1
<1> DEFINE lines == EnvText(env)
<1>7. lines \in Seq(EnvKeys \X Words) /\ Right(lines)
  BY <1>1, <1>2, <1>6
<1>8. \A k \in DOMAIN env : Has(lines, k)
  <2>1. \A j \in 1..N : EnvNames[j] \in DOMAIN env => Has(lines, EnvNames[j])
    BY <1>2, <1>6
  <2> HIDE DEF Has, lines
  <2>2. QED
    BY <2>1, EnvsAre, NamesAre
<1> HIDE DEF lines
<1>9. {lines[i][1] : i \in DOMAIN lines} = DOMAIN env
  BY <1>7, <1>8
<1>10. DOMAIN ParseEnv(lines) = DOMAIN env
  BY <1>7, <1>9, ParseEnvTyped
<1>11. \A k \in DOMAIN env : ParseEnv(lines)[k] = env[k]
  <2> TAKE k \in DOMAIN env
  <2>1. PICK last \in DOMAIN lines : lines[last][1] = k /\ ParseEnv(lines)[k] = lines[last][2]
    BY <1>7, <1>9, LastLine
  <2>2. QED
    BY <1>7, <2>1
<1>12. ParseEnv(lines) = [k \in DOMAIN env |-> ParseEnv(lines)[k]]
  BY <1>9 DEF ParseEnv
<1>13. ParseEnv(lines) = env
  <2>1. env = [k \in DOMAIN env |-> env[k]]
    BY EnvsAre
  <2>2. QED
    BY <1>11, <1>12, <2>1
<1>14. QED
  BY <1>13 DEF lines

LEMMA RetriesReadBack ==
  ASSUME NEW h \in HookSpecs, Plainly(h), NEW f,
         LET o == FormOf(h)
         IN f.count = o.count /\ f.backoff = o.backoff /\ f.initial = o.initial /\ f.max = o.max
  PROVE  RetriesWritten(f) = h.retries
<1>1. /\ f.count = OrElse(h.retries, [count |-> 0]).count
      /\ f.backoff = OrElse(h.retries, [backoff |-> "exponential"]).backoff
      /\ f.initial = [i \in DOMAIN h.retries |-> FormatDuration(h.retries[i].initial)]
      /\ f.max = [i \in DOMAIN h.retries |-> FormatDuration(h.retries[i].max)]
  BY DEF FormOf
<1>2. CASE h.retries = <<>>
  <2>1. f.count = 0
    BY <1>1, <1>2, RetriesTyped
  <2>2. QED
    BY <1>2, <2>1 DEF RetriesWritten
<1>3. ASSUME NEW r \in RetrySpecs, h.retries = <<r>> PROVE RetriesWritten(f) = h.retries
  <2>1. /\ r = [count |-> r.count, backoff |-> r.backoff, initial |-> r.initial, max |-> r.max]
        /\ r.initial \in Nat /\ r.max \in Nat
    BY DEF RetrySpecs
  <2>2. r.count > 0 /\ Whole(r.initial) /\ Whole(r.max)
    <3>1. 1 \in DOMAIN h.retries /\ h.retries[1] = r
      BY <1>3
    <3>2. QED
      BY <3>1, PlainlyIs
  <2>3. /\ f.count = r.count /\ f.backoff = r.backoff
        /\ f.initial = <<FormatDuration(r.initial)>> /\ f.max = <<FormatDuration(r.max)>>
    BY <1>1, <1>3, RetriesTyped
  <2>4. FormatDuration(r.initial) = r.initial /\ FormatDuration(r.max) = r.max
    BY <2>1, <2>2, WholeIs
  <2>5. OrElse(f.initial, Second) = r.initial /\ OrElse(f.max, 60 * Second) = r.max
    BY <2>3, <2>4 DEF OrElse, Present, The
  <2>6. f.count # 0
    BY <2>2, <2>3
  <2>7. RetriesWritten(f) = <<[count |-> r.count, backoff |-> r.backoff,
                               initial |-> r.initial, max |-> r.max]>>
    BY <2>3, <2>4, <2>5, <2>6 DEF RetriesWritten
  <2>8. QED
    BY <1>3, <2>1, <2>7
<1>4. QED
  BY <1>2, <1>3, HooksAre, OptionalIs

LEMMA RateReadBack ==
  ASSUME NEW h \in HookSpecs, Plainly(h), Validates(h), NEW f,
         f.rateMax = FormOf(h).rateMax, f.rateWindow = FormOf(h).rateWindow
  PROVE  RateWritten(f) = RulesOf(h).rate
<1> DEFINE o == RulesOf(h).rate
<1>1. /\ f.rateMax = OrElse(o, [max |-> 0]).max
      /\ f.rateWindow = [i \in DOMAIN o |-> FormatDuration(o[i].window)]
  BY DEF FormOf
<1>2. /\ o \in Optional(RateSpecs)
      /\ \A i \in DOMAIN o : o[i].max > 0
      /\ \A i \in DOMAIN o : Whole(o[i].window)
  BY HooksAre, PlainlyIs DEF Validates
<1> HIDE DEF o
<1>3. ASSUME o = <<>> PROVE RateWritten(f) = o
  <2>1. f.rateMax = 0
    BY <1>1, <1>3 DEF OrElse, Present
  <2>2. QED
    BY <1>3, <2>1 DEF RateWritten
<1>4. ASSUME NEW r \in RateSpecs, o = <<r>> PROVE RateWritten(f) = o
  <2>1. r = [max |-> r.max, window |-> r.window] /\ r.window \in Nat
    BY DEF RateSpecs
  <2>2. r.max > 0 /\ Whole(r.window)
    <3>1. 1 \in DOMAIN o /\ o[1] = r
      BY <1>4
    <3>2. QED
      BY <1>2, <3>1
  <2>3. f.rateMax = r.max /\ f.rateWindow = <<r.window>>
    BY <1>1, <1>2, <1>4, <2>1, <2>2, RateTyped, WholeIs
  <2>4. The(f.rateWindow) = r.window /\ FormatDuration(r.window) = r.window
    BY <2>1, <2>2, <2>3, WholeIs DEF The
  <2>5. f.rateMax # 0 /\ f.rateWindow # <<>>
    BY <2>2, <2>3
  <2>6. RateWritten(f) = <<[max |-> r.max, window |-> r.window]>>
    BY <2>3, <2>4, <2>5 DEF RateWritten
  <2>7. QED
    BY <1>4, <2>1, <2>6
<1>5. RateWritten(f) = o
  <2>1. o = <<>> \/ \E r \in RateSpecs : o = <<r>>
    BY <1>2, OptionalIs
  <2>2. QED
    BY <1>3, <1>4, <2>1
<1>6. QED
  BY <1>5 DEF o

\* An auth that says "none" is not written.
LEMMA AuthReadBack ==
  ASSUME NEW h \in HookSpecs, Plainly(h), NEW f, GoodForm(f),
         LET o == FormOf(h)
         IN f.mode = o.mode /\ f.token = o.token /\ f.header = o.header /\ f.secret = o.secret
  PROVE  /\ \A i \in DOMAIN Credentials(f) : Bare(Credentials(f)[i])
         /\ \/ AuthWritten(f) = h.auth
            \/ AuthWritten(f) = <<>> /\ \E a \in AuthSpecs : h.auth = <<a>> /\ a.mode = "none"
<1> DEFINE words == AuthWords(h)
<1>1. /\ f.mode = OrElse(h.auth, [mode |-> "none"]).mode
      /\ f.token = IF Len(words) = 1 THEN words[1] ELSE Empty
      /\ f.header = IF Len(words) = 2 THEN words[1] ELSE Empty
      /\ f.secret = IF Len(words) = 2 THEN words[2] ELSE Empty
  BY DEF FormOf
<1>2. /\ words \in Seq(Words) /\ f.mode \in DOMAIN WordsAsked /\ Len(words) = WordsAsked[f.mode]
  BY <1>1, AuthTyped
<1>3. CASE h.auth = <<>>
  <2>1. f.mode = "none"
    BY <1>1, <1>3 DEF OrElse, Present
  <2>2. Credentials(f) = <<>>
    BY <2>1, CredentialsTyped
  <2>3. QED
    BY <1>3, <2>2 DEF AuthWritten
<1>4. ASSUME NEW a \in AuthSpecs, h.auth = <<a>>
      PROVE  /\ \A i \in DOMAIN Credentials(f) : Bare(Credentials(f)[i])
             /\ \/ AuthWritten(f) = h.auth
                \/ AuthWritten(f) = <<>> /\ a.mode = "none"
  <2>1. words = a.words /\ f.mode = a.mode
    BY <1>1, <1>4 DEF AuthWords, OrElse, Present, The
  <2>2. /\ a = [mode |-> a.mode, words |-> a.words]
        /\ a.mode \in {"none", "bearer", "hmac"}
    BY DEF AuthSpecs, WordsAsked
  <2>3. \A i \in DOMAIN words : Bare(words[i])
    <3>1. 1 \in DOMAIN h.auth /\ h.auth[1] = a
      BY <1>4
    <3>2. QED
      BY <2>1, <3>1, PlainlyIs
  <2> HIDE DEF words
  <2>4. CASE a.mode = "none"
    <3>1. Credentials(f) = <<>>
      BY <2>1, <2>4, CredentialsTyped
    <3>2. QED
      BY <2>4, <3>1 DEF AuthWritten
  <2>5. CASE a.mode # "none"
    <3>1. Credentials(f) = words
      <4>1. CASE a.mode = "bearer"
        <5>1. Len(words) = 1
          BY <1>2, <2>1, <4>1 DEF WordsAsked
        <5>2. words = <<words[1]>>
          BY <1>2, <5>1
        <5>3. Credentials(f) = <<f.token>>
          BY <2>1, <4>1 DEF Credentials
        <5>4. f.token = words[1]
          BY <1>1, <5>1
        <5>5. QED
          BY <5>2, <5>3, <5>4
      <4>2. CASE a.mode = "hmac"
        <5>1. Len(words) = 2
          BY <1>2, <2>1, <4>2 DEF WordsAsked
        <5>2. words = <<words[1], words[2]>>
          BY <1>2, <5>1
        <5>3. Credentials(f) = <<f.header, f.secret>>
          BY <2>1, <4>2 DEF Credentials
        <5>4. f.header = words[1] /\ f.secret = words[2]
          BY <1>1, <5>1
        <5>5. QED
          BY <5>2, <5>3, <5>4
      <4>3. QED
        BY <2>2, <2>5, <4>1, <4>2
    <3>2. Trimmed(words) = words
      <4>1. words = [i \in DOMAIN words |-> words[i]]
        BY <1>2, LenProperties
      <4>2. \A i \in DOMAIN words : TrimTo[words[i]] = words[i]
        BY <2>3 DEF Bare
      <4>3. Trimmed(words) = [i \in DOMAIN words |-> words[i]]
        BY <4>2 DEF Trimmed
      <4>4. QED
        BY <4>1, <4>3
    <3>3. Credentials(f) # <<>>
      BY <2>1, <2>5, CredentialsTyped
    <3>4. AuthWritten(f) = <<[mode |-> a.mode, words |-> a.words]>>
      BY <2>1, <3>1, <3>2, <3>3 DEF AuthWritten
    <3>5. QED
      BY <1>4, <2>2, <2>3, <3>1, <3>4
  <2>6. QED
    BY <2>4, <2>5
<1>5. QED
  BY <1>3, <1>4, HooksAre, OptionalIs

\* Setting by setting, what was not changed is written as it was.
LEMMA SettingsReadBack ==
  ASSUME NEW h \in HookSpecs, Plainly(h), NEW f
  PROVE  LET o == FormOf(h)
         IN /\ f.name = o.name => TrimTo[f.name] = h.name /\ h.name # Empty
            /\ f.type = o.type /\ f.command = o.command =>
                 /\ [type |-> f.type, arg |-> TrimTo[f.command]] = h.executor
                 /\ f.type # "http" /\ TrimTo[f.command] # Empty
            /\ f.cwd = o.cwd =>
                 (IF TrimTo[f.cwd] = Empty THEN <<>> ELSE <<TrimTo[f.cwd]>>) = h.cwd
            /\ f.env = o.env => ParseEnv(f.env) = h.env
            /\ f.timeout = o.timeout => f.timeout = h.timeout /\ Format(f.timeout) = h.timeout
            /\ f.cooldown = o.cooldown =>
                 f.cooldown = RulesOf(h).cooldown /\ Format(f.cooldown) = RulesOf(h).cooldown
            /\ f.fields = o.fields => ParseLines(f.fields, ParseField) = h.payload
            /\ f.windows = o.windows =>
                 /\ f.windows = OrElse(RulesOf(h).windows, <<>>)
                 /\ OrElse(ParseLines(f.windows, ParseWindow), <<>>) = OrElse(RulesOf(h).windows, <<>>)
<1> DEFINE o == FormOf(h)
<1>1. /\ o.name = h.name /\ o.type = h.executor.type /\ o.command = h.executor.arg
      /\ o.cwd = OrElse(h.cwd, Empty) /\ o.env = EnvText(h.env)
      /\ o.timeout = Format(h.timeout) /\ o.cooldown = Format(RulesOf(h).cooldown)
      /\ o.fields = LinesOf(h.payload, FieldLine)
      /\ o.windows = LinesOf(RulesOf(h).windows, WindowLine)
  BY DEF FormOf
<1> HIDE DEF o
<1>2. Bare(h.name) /\ Bare(h.executor.arg) /\ h.executor.type # "http"
  BY PlainlyIs
<1>3. h.executor = [type |-> h.executor.type, arg |-> h.executor.arg]
  <2>1. h.executor \in CommandExecutors
    BY <1>2, HooksAre, ExecutorsTyped
  <2>2. QED
    BY <2>1 DEF CommandExecutors
<1>4. f.cwd = o.cwd => (IF TrimTo[f.cwd] = Empty THEN <<>> ELSE <<TrimTo[f.cwd]>>) = h.cwd
  <2>1. CASE h.cwd = <<>>
    <3>1. o.cwd = Empty /\ TrimTo[Empty] = Empty
      BY <1>1, <2>1, FormsConstants DEF OrElse, Present
    <3>2. QED
      BY <2>1, <3>1
  <2>2. ASSUME NEW w \in Words, h.cwd = <<w>>
        PROVE  f.cwd = o.cwd => (IF TrimTo[f.cwd] = Empty THEN <<>> ELSE <<TrimTo[f.cwd]>>) = h.cwd
    <3>1. o.cwd = w
      BY <1>1, <2>2 DEF OrElse, Present, The
    <3>2. Bare(w)
      <4>1. 1 \in DOMAIN h.cwd /\ h.cwd[1] = w
        BY <2>2
      <4>2. QED
        BY <4>1, PlainlyIs
    <3>3. QED
      BY <2>2, <3>1, <3>2 DEF Bare
  <2>3. QED
    BY <2>1, <2>2, HooksAre, OptionalIs
<1>5. f.env = o.env => ParseEnv(f.env) = h.env
  <2>1. ParseEnv(EnvText(h.env)) = h.env
    BY HooksAre, PlainlyIs, EnvReadBack
  <2>2. QED
    BY <1>1, <2>1
<1>6. Format(h.timeout) = h.timeout /\ Format(RulesOf(h).cooldown) = RulesOf(h).cooldown
  BY HooksAre, PlainlyIs, FormatWhole
<1>7. f.fields = o.fields => ParseLines(f.fields, ParseField) = h.payload
  <2>1. ParseLines(LinesOf(h.payload, FieldLine), ParseField) = h.payload
    BY FieldsReadBack
  <2>2. QED
    BY <1>1, <2>1
<1>8. f.windows = o.windows =>
        /\ f.windows = OrElse(RulesOf(h).windows, <<>>)
        /\ OrElse(ParseLines(f.windows, ParseWindow), <<>>) = OrElse(RulesOf(h).windows, <<>>)
  <2>1. PICK s \in Seq(WindowSpecs) : s = OrElse(RulesOf(h).windows, <<>>) /\ o.windows = s
    BY <1>1, HooksAre, WindowsShown
  <2>2. OrElse(ParseLines(s, ParseWindow), <<>>) = s
    BY WindowsParsed, NonEmptyTyped
  <2>3. QED
    BY <2>1, <2>2
<1>9. QED
  BY <1>1, <1>2, <1>3, <1>4, <1>5, <1>6, <1>7, <1>8 DEF o, Bare

\* The form of a hook that a form can express is not refused.
LEMMA FormReadBack ==
  ASSUME NEW s \in HookSpecs, Plainly(s), Validates(s), NEW f, GoodForm(f),
         \A g \in DOMAIN FormTypes \ {"slug"} : f[g] = FormOf(s)[g]
  PROVE  /\ FormParses(f)
         /\ \A h \in HookSpecs : ValidSlug(h.slug) => Validates(Result(h, f))
<1> DEFINE o == FormOf(s)
           rules == RulesOf(s)
           filters == OrElse(rules.filters, <<>>)
           windows == OrElse(rules.windows, <<>>)
<1>1. /\ f.name = o.name /\ f.type = o.type /\ f.command = o.command /\ f.cwd = o.cwd
      /\ f.env = o.env /\ f.timeout = o.timeout /\ f.cooldown = o.cooldown
      /\ f.count = o.count /\ f.backoff = o.backoff /\ f.initial = o.initial /\ f.max = o.max
      /\ f.mode = o.mode /\ f.token = o.token /\ f.header = o.header /\ f.secret = o.secret
      /\ f.fields = o.fields /\ f.filters = o.filters /\ f.windows = o.windows
      /\ f.rateMax = o.rateMax /\ f.rateWindow = o.rateWindow
  <2> HIDE DEF o
  <2>1. \A g \in DOMAIN FormTypes \ {"slug"} : f[g] = o[g]
    BY DEF o
  <2>2. DOMAIN FormTypes =
          {"name", "slug", "description", "enabled", "type", "command", "cwd", "timeout", "env",
           "count", "backoff", "initial", "max", "mode", "token", "header", "secret", "fields",
           "filters", "windows", "cooldown", "rateMax", "rateWindow"}
    BY DEF FormTypes
  <2>3. QED
    BY <2>1, <2>2
<1>2. /\ o.fields = LinesOf(s.payload, FieldLine)
      /\ o.filters = LinesOf(rules.filters, FilterLine)
      /\ o.initial = [i \in DOMAIN s.retries |-> FormatDuration(s.retries[i].initial)]
      /\ o.max = [i \in DOMAIN s.retries |-> FormatDuration(s.retries[i].max)]
      /\ o.rateWindow = [i \in DOMAIN rules.rate |-> FormatDuration(rules.rate[i].window)]
  BY DEF FormOf
<1>3. /\ TrimTo[f.name] = s.name /\ s.name # Empty
      /\ [type |-> f.type, arg |-> TrimTo[f.command]] = s.executor
      /\ f.type # "http" /\ TrimTo[f.command] # Empty
      /\ f.timeout = s.timeout /\ f.cooldown = rules.cooldown /\ f.windows = windows
      /\ OrElse(ParseLines(f.windows, ParseWindow), <<>>) = windows
  BY <1>1, SettingsReadBack
<1>4. RetriesWritten(f) = s.retries /\ RateWritten(f) = rules.rate
  <2>1. RetriesWritten(f) = s.retries
    BY <1>1, RetriesReadBack
  <2>2. RateWritten(f) = rules.rate
    BY <1>1, RateReadBack
  <2>3. QED
    BY <2>1, <2>2
<1>5. /\ \A i \in DOMAIN Credentials(f) : Bare(Credentials(f)[i])
      /\ AuthWritten(f) = s.auth \/ AuthWritten(f) = <<>>
  <2> HIDE DEF o
  <2>1. f.mode = o.mode /\ f.token = o.token /\ f.header = o.header /\ f.secret = o.secret
    BY <1>1
  <2>2. QED
    BY <2>1, AuthReadBack DEF o
<1>6. /\ \A i \in DOMAIN f.fields : FieldLineParses(f.fields[i])
      /\ \A i \in DOMAIN f.filters : FilterLineParses(f.filters[i])
  <2>1. \A i \in DOMAIN LinesOf(s.payload, FieldLine) : FieldLineParses(LinesOf(s.payload, FieldLine)[i])
    BY FieldsReadBack
  <2>2. \A i \in DOMAIN LinesOf(rules.filters, FilterLine) :
          FilterLineParses(LinesOf(rules.filters, FilterLine)[i])
    BY FiltersReadBack
  <2> HIDE DEF o
  <2>3. f.fields = LinesOf(s.payload, FieldLine) /\ f.filters = LinesOf(rules.filters, FilterLine)
    BY <1>1, <1>2
  <2>4. QED
    BY <2>1, <2>2, <2>3
<1>7. f.initial \in Optional(Nat) /\ f.max \in Optional(Nat) /\ f.rateWindow \in Optional(Nat)
  <2>1. o.initial \in Optional(Nat) /\ o.max \in Optional(Nat)
    BY <1>2, RetriesTyped
  <2>2. o.rateWindow \in Optional(Nat)
    BY <1>2, HooksAre, RateTyped
  <2>3. QED
    BY <1>1, <2>1, <2>2
<1> HIDE DEF o
<1>8. FormParses(f)
  <2>1. f.timeout \in Optional(Nat) /\ f.cooldown \in Optional(Nat)
    BY <1>3, HooksAre
  <2>2. \A i \in DOMAIN f.windows : WindowLineParses(f.windows[i])
    BY <1>3, PlainlyIs DEF WindowLineParses
  <2>3. \A i \in DOMAIN Credentials(f) : TrimTo[Credentials(f)[i]] # Empty
    BY <1>5 DEF Bare
  <2>4. QED
    BY <1>3, <1>6, <1>7, <2>1, <2>2, <2>3, DurationsAreRead
<1>9. ASSUME NEW h \in HookSpecs, ValidSlug(h.slug) PROVE Validates(Result(h, f))
  <2> DEFINE r == Result(h, f)
             parsed == OrElse(ParseLines(f.filters, ParseFilter), <<>>)
  <2>1. /\ r.name = s.name /\ r.slug = h.slug /\ r.executor = s.executor
        /\ r.retries = s.retries /\ r.auth = AuthWritten(f)
        /\ RulesOf(r) = RulesWritten(f)
    BY <1>3, <1>4, <1>8, ResultIs
  <2>2. /\ RulesOf(r).rate = rules.rate
        /\ OrElse(RulesOf(r).filters, <<>>) = parsed
        /\ OrElse(RulesOf(r).windows, <<>>) = windows
    BY <1>3, <1>4, <2>1 DEF RulesWritten
  <2>3. \A i \in DOMAIN parsed : ValidFilter(parsed[i])
    <3>1. /\ DOMAIN parsed = DOMAIN filters
          /\ \A i \in DOMAIN filters : /\ parsed[i].op = filters[i].op
                                       /\ filters[i].op # "exists" => parsed[i].value = filters[i].value
      <4>1. f.filters = LinesOf(rules.filters, FilterLine)
        BY <1>1, <1>2
      <4>2. QED
        BY <4>1, FiltersReadBack
    <3>2. \A i \in DOMAIN filters : ValidFilter(filters[i])
      BY DEF Validates
    <3> HIDE DEF parsed, filters
    <3>3. QED
      BY <3>1, <3>2 DEF ValidFilter
  <2>4. /\ s.executor.type # "http" => s.executor.arg # Empty
        /\ \A i \in DOMAIN s.retries : s.retries[i].initial <= s.retries[i].max
        /\ \A i \in DOMAIN windows : ValidWindow(windows[i])
        /\ \A i \in DOMAIN rules.rate : rules.rate[i].max > 0 /\ rules.rate[i].window > 0
    BY DEF Validates
  <2>5. \A i \in DOMAIN r.auth : \A j \in DOMAIN r.auth[i].words : r.auth[i].words[j] # Empty
    <3> HIDE DEF r
    <3>1. CASE AuthWritten(f) = s.auth
      BY <2>1, <3>1 DEF Validates
    <3>2. CASE AuthWritten(f) = <<>>
      BY <2>1, <3>2
    <3>3. QED
      BY <1>5, <3>1, <3>2
  <2> HIDE DEF r, parsed, filters, windows, rules
  <2>6. Validates(r)
    BY <1>3, <1>9, <2>1, <2>2, <2>3, <2>4, <2>5 DEF Validates
  <2>7. QED
    BY <2>6 DEF r
<1>10. QED
  BY <1>8, <1>9

\* A filter that comes back as it was holds of the same payloads.
LEMMA FiltersPassAlike ==
  ASSUME NEW h \in HookSpecs, Plainly(h), NEW lines, lines = FormOf(h).filters, NEW p
  PROVE  Passes(OrElse(ParseLines(lines, ParseFilter), <<>>), p)
         <=> Passes(OrElse(RulesOf(h).filters, <<>>), p)
<1> DEFINE a == OrElse(ParseLines(lines, ParseFilter), <<>>)
           b == OrElse(RulesOf(h).filters, <<>>)
<1>1. lines = LinesOf(RulesOf(h).filters, FilterLine)
  BY DEF FormOf
<1>2. /\ DOMAIN a = DOMAIN b
      /\ \A i \in DOMAIN b : /\ a[i].field = b[i].field /\ a[i].op = b[i].op
                             /\ b[i].op # "exists" => a[i].value = b[i].value
  BY <1>1, FiltersReadBack
<1> HIDE DEF a, b
<1>3. ASSUME NEW i \in DOMAIN b PROVE FilterHolds(a[i], p) <=> FilterHolds(b[i], p)
  <2>1. CASE b[i].op = "exists"
    <3>1. \A v, w, u : Satisfies("exists", v, w) <=> Satisfies("exists", v, u)
      BY DEF Satisfies
    <3>2. QED
      BY <1>2, <2>1, <3>1 DEF FilterHolds
  <2>2. CASE b[i].op # "exists"
    BY <1>2, <2>2 DEF FilterHolds
  <2>3. QED
    BY <2>1, <2>2
<1>4. Passes(a, p) <=> Passes(b, p)
  BY <1>2, <1>3 DEF Passes
<1>5. QED
  BY <1>4 DEF a, b

LEMMA DoesIs ==
  ASSUME NEW h
  PROVE  /\ DOMAIN Does(h) = {"enabled", "cwd", "env", "command", "timeout", "pauses",
                              "admitted", "accepted", "cooldown", "rate"}
         /\ Does(h).enabled = h.enabled /\ Does(h).cwd = h.cwd /\ Does(h).env = h.env
         /\ Does(h).command = [p \in Payloads |-> ResolveExecutor(h.executor, p)]
         /\ Does(h).timeout = OrElse(h.timeout, Defaults.timeout)
         /\ Does(h).pauses = Pauses(OrElse(h.retries, Defaults.retries))
         /\ Does(h).admitted = {a \in Callers \X Payloads : Verified(h.auth, a[1], a[2])}
         /\ Does(h).accepted = {a \in Payloads \X Moments : Accepts(h, a[1], a[2])}
         /\ Does(h).cooldown = RulesOf(h).cooldown /\ Does(h).rate = RulesOf(h).rate
BY Zenon DEF Does, Behaviour, RetriesOf

\* Respect by respect, the result does what the hook shown did.
LEMMA DoesAlike ==
  ASSUME NEW s \in HookSpecs, Plainly(s), Validates(s), NEW h \in HookSpecs,
         NEW f, GoodForm(f), FormParses(f)
  PROVE  LET o == FormOf(s)
             r == Result(h, f)
         IN /\ f.enabled = o.enabled => Does(r).enabled = Does(s).enabled
            /\ f.type = o.type /\ f.command = o.command => Does(r).command = Does(s).command
            /\ f.cwd = o.cwd => Does(r).cwd = Does(s).cwd
            /\ f.env = o.env => Does(r).env = Does(s).env
            /\ f.timeout = o.timeout => Does(r).timeout = Does(s).timeout
            /\ f.count = o.count /\ f.backoff = o.backoff /\ f.initial = o.initial /\ f.max = o.max
                 => Does(r).pauses = Does(s).pauses
            /\ f.mode = o.mode /\ f.token = o.token /\ f.header = o.header /\ f.secret = o.secret
                 => Does(r).admitted = Does(s).admitted
            /\ f.fields = o.fields /\ f.filters = o.filters /\ f.windows = o.windows
                 => Does(r).accepted = Does(s).accepted
            /\ f.cooldown = o.cooldown => Does(r).cooldown = Does(s).cooldown
            /\ f.rateMax = o.rateMax /\ f.rateWindow = o.rateWindow => Does(r).rate = Does(s).rate
<1> DEFINE o == FormOf(s)
           r == Result(h, f)
<1>1. /\ r.enabled = f.enabled
      /\ r.executor = [type |-> f.type, arg |-> TrimTo[f.command]]
      /\ r.cwd = IF TrimTo[f.cwd] = Empty THEN <<>> ELSE <<TrimTo[f.cwd]>>
      /\ r.env = ParseEnv(f.env) /\ r.timeout = Format(f.timeout)
      /\ r.retries = RetriesWritten(f) /\ r.auth = AuthWritten(f)
      /\ r.payload = ParseLines(f.fields, ParseField)
      /\ RulesOf(r) = RulesWritten(f)
  BY ResultIs
<1> HIDE DEF r
<1>2. o.enabled = s.enabled
  BY DEF FormOf
<1>3. /\ f.type = o.type /\ f.command = o.command => r.executor = s.executor
      /\ f.cwd = o.cwd => r.cwd = s.cwd
      /\ f.env = o.env => r.env = s.env
      /\ f.timeout = o.timeout => r.timeout = s.timeout
      /\ f.cooldown = o.cooldown => RulesOf(r).cooldown = RulesOf(s).cooldown
      /\ f.fields = o.fields => r.payload = s.payload
      /\ f.windows = o.windows =>
           OrElse(RulesOf(r).windows, <<>>) = OrElse(RulesOf(s).windows, <<>>)
  <2>1. RulesOf(r).cooldown = Format(f.cooldown) /\ RulesOf(r).windows = ParseLines(f.windows, ParseWindow)
    BY <1>1 DEF RulesWritten
  <2> HIDE DEF o
  <2>2. /\ f.type = o.type /\ f.command = o.command =>
             [type |-> f.type, arg |-> TrimTo[f.command]] = s.executor
        /\ f.cwd = o.cwd =>
             (IF TrimTo[f.cwd] = Empty THEN <<>> ELSE <<TrimTo[f.cwd]>>) = s.cwd
        /\ f.env = o.env => ParseEnv(f.env) = s.env
        /\ f.timeout = o.timeout => Format(f.timeout) = s.timeout
        /\ f.cooldown = o.cooldown => Format(f.cooldown) = RulesOf(s).cooldown
        /\ f.fields = o.fields => ParseLines(f.fields, ParseField) = s.payload
        /\ f.windows = o.windows =>
             OrElse(ParseLines(f.windows, ParseWindow), <<>>) = OrElse(RulesOf(s).windows, <<>>)
    BY SettingsReadBack DEF o
  <2>3. QED
    BY <1>1, <2>1, <2>2
<1>4. f.count = o.count /\ f.backoff = o.backoff /\ f.initial = o.initial /\ f.max = o.max
        => r.retries = s.retries
  BY <1>1, RetriesReadBack
<1>5. f.rateMax = o.rateMax /\ f.rateWindow = o.rateWindow => RulesOf(r).rate = RulesOf(s).rate
  <2>1. RulesOf(r).rate = RateWritten(f)
    BY <1>1 DEF RulesWritten
  <2>2. QED
    BY <2>1, RateReadBack
<1>6. f.mode = o.mode /\ f.token = o.token /\ f.header = o.header /\ f.secret = o.secret
        => \A c, p : Verified(r.auth, c, p) <=> Verified(s.auth, c, p)
  <2>1. SUFFICES ASSUME f.mode = o.mode, f.token = o.token, f.header = o.header, f.secret = o.secret
                 PROVE  \A c, p : Verified(r.auth, c, p) <=> Verified(s.auth, c, p)
    OBVIOUS
  <2>2. \/ r.auth = s.auth
        \/ r.auth = <<>> /\ \E a \in AuthSpecs : s.auth = <<a>> /\ a.mode = "none"
    BY <1>1, <2>1, AuthReadBack
  <2>3. CASE r.auth = s.auth
    BY <2>3
  <2>4. ASSUME NEW a \in AuthSpecs, r.auth = <<>>, s.auth = <<a>>, a.mode = "none"
        PROVE  \A c, p : Verified(r.auth, c, p) <=> Verified(s.auth, c, p)
    <3>1. \A c, p : Verified(r.auth, c, p)
      BY <2>4 DEF Verified, Present
    <3>2. The(s.auth).mode = "none"
      BY <2>4 DEF The
    <3>3. \A c, p : Verified(s.auth, c, p)
      BY <3>2 DEF Verified
    <3>4. QED
      BY <3>1, <3>3
  <2>5. QED
    BY <2>2, <2>3, <2>4
<1>7. f.fields = o.fields /\ f.filters = o.filters /\ f.windows = o.windows
        => \A p, m : Accepts(r, p, m) <=> Accepts(s, p, m)
  <2>1. SUFFICES ASSUME f.fields = o.fields, f.filters = o.filters, f.windows = o.windows,
                        NEW p, NEW m
                 PROVE  Accepts(r, p, m) <=> Accepts(s, p, m)
    OBVIOUS
  <2>2. Passes(OrElse(RulesOf(r).filters, <<>>), p) <=> Passes(OrElse(RulesOf(s).filters, <<>>), p)
    <3>1. RulesOf(r).filters = ParseLines(f.filters, ParseFilter)
      BY <1>1 DEF RulesWritten
    <3>2. QED
      BY <2>1, <3>1, FiltersPassAlike
  <2>3. /\ r.payload = s.payload
        /\ OrElse(RulesOf(r).windows, <<>>) = OrElse(RulesOf(s).windows, <<>>)
    BY <1>3, <2>1
  <2> HIDE DEF o
  <2>4. QED
    BY <2>2, <2>3, Zenon DEF Accepts
<1> HIDE DEF o
<1>8. /\ Does(r).enabled = r.enabled /\ Does(r).cwd = r.cwd /\ Does(r).env = r.env
      /\ Does(r).command = [p \in Payloads |-> ResolveExecutor(r.executor, p)]
      /\ Does(r).timeout = OrElse(r.timeout, Defaults.timeout)
      /\ Does(r).pauses = Pauses(OrElse(r.retries, Defaults.retries))
      /\ Does(r).admitted = {a \in Callers \X Payloads : Verified(r.auth, a[1], a[2])}
      /\ Does(r).accepted = {a \in Payloads \X Moments : Accepts(r, a[1], a[2])}
      /\ Does(r).cooldown = RulesOf(r).cooldown /\ Does(r).rate = RulesOf(r).rate
  BY DoesIs
<1>9. /\ Does(s).enabled = s.enabled /\ Does(s).cwd = s.cwd /\ Does(s).env = s.env
      /\ Does(s).command = [p \in Payloads |-> ResolveExecutor(s.executor, p)]
      /\ Does(s).timeout = OrElse(s.timeout, Defaults.timeout)
      /\ Does(s).pauses = Pauses(OrElse(s.retries, Defaults.retries))
      /\ Does(s).admitted = {a \in Callers \X Payloads : Verified(s.auth, a[1], a[2])}
      /\ Does(s).accepted = {a \in Payloads \X Moments : Accepts(s, a[1], a[2])}
      /\ Does(s).cooldown = RulesOf(s).cooldown /\ Does(s).rate = RulesOf(s).rate
  BY DoesIs
<1>10. /\ f.mode = o.mode /\ f.token = o.token /\ f.header = o.header /\ f.secret = o.secret
            => Does(r).admitted = Does(s).admitted
       /\ f.fields = o.fields /\ f.filters = o.filters /\ f.windows = o.windows
            => Does(r).accepted = Does(s).accepted
  <2>1. /\ Does(r).admitted = {a \in Callers \X Payloads : Verified(r.auth, a[1], a[2])}
        /\ Does(s).admitted = {a \in Callers \X Payloads : Verified(s.auth, a[1], a[2])}
        /\ Does(r).accepted = {a \in Payloads \X Moments : Accepts(r, a[1], a[2])}
        /\ Does(s).accepted = {a \in Payloads \X Moments : Accepts(s, a[1], a[2])}
    BY <1>8, <1>9
  <2>2. QED
    BY <1>6, <1>7, <2>1, Zenon
<1>11. QED
  BY <1>1, <1>2, <1>3, <1>4, <1>5, <1>8, <1>9, <1>10 DEF o, r

\* A respect that nothing changed touches is as it was.
LEMMA UntouchedAlike ==
  ASSUME NEW s \in HookSpecs, Plainly(s), Validates(s), NEW h \in HookSpecs,
         NEW f, GoodForm(f), FormParses(f), NEW C \in SUBSET DOMAIN Concerns,
         \A g \in DOMAIN Concerns \ C : f[g] = FormOf(s)[g]
  PROVE  \A k \in DOMAIN Does(s) \ {Concerns[g] : g \in C} : Does(Result(h, f))[k] = Does(s)[k]
<1> DEFINE o == FormOf(s)
           r == Result(h, f)
           T == {Concerns[g] : g \in C}
<1>1. \A g \in DOMAIN Concerns : Concerns[g] \notin T => f[g] = o[g]
  OBVIOUS
<1> HIDE DEF T, o
<1>2. /\ "enabled" \notin T => f.enabled = o.enabled
      /\ "command" \notin T => f.type = o.type /\ f.command = o.command
      /\ "cwd" \notin T => f.cwd = o.cwd
      /\ "env" \notin T => f.env = o.env
      /\ "timeout" \notin T => f.timeout = o.timeout
      /\ "pauses" \notin T => /\ f.count = o.count /\ f.backoff = o.backoff
                              /\ f.initial = o.initial /\ f.max = o.max
      /\ "admitted" \notin T => /\ f.mode = o.mode /\ f.token = o.token
                                /\ f.header = o.header /\ f.secret = o.secret
      /\ "accepted" \notin T => f.fields = o.fields /\ f.filters = o.filters /\ f.windows = o.windows
      /\ "cooldown" \notin T => f.cooldown = o.cooldown
      /\ "rate" \notin T => f.rateMax = o.rateMax /\ f.rateWindow = o.rateWindow
  BY <1>1 DEF Concerns
<1>3. /\ f.enabled = o.enabled => Does(r).enabled = Does(s).enabled
      /\ f.type = o.type /\ f.command = o.command => Does(r).command = Does(s).command
      /\ f.cwd = o.cwd => Does(r).cwd = Does(s).cwd
      /\ f.env = o.env => Does(r).env = Does(s).env
      /\ f.timeout = o.timeout => Does(r).timeout = Does(s).timeout
      /\ f.count = o.count /\ f.backoff = o.backoff /\ f.initial = o.initial /\ f.max = o.max
           => Does(r).pauses = Does(s).pauses
      /\ f.mode = o.mode /\ f.token = o.token /\ f.header = o.header /\ f.secret = o.secret
           => Does(r).admitted = Does(s).admitted
      /\ f.fields = o.fields /\ f.filters = o.filters /\ f.windows = o.windows
           => Does(r).accepted = Does(s).accepted
      /\ f.cooldown = o.cooldown => Does(r).cooldown = Does(s).cooldown
      /\ f.rateMax = o.rateMax /\ f.rateWindow = o.rateWindow => Does(r).rate = Does(s).rate
  BY DoesAlike DEF o
<1> HIDE DEF r
<1>4. DOMAIN Does(s) = {"enabled", "cwd", "env", "command", "timeout", "pauses",
                        "admitted", "accepted", "cooldown", "rate"}
  BY DoesIs
<1>5. \A k \in DOMAIN Does(s) \ T : Does(r)[k] = Does(s)[k]
  BY <1>2, <1>3, <1>4
<1>6. QED
  BY <1>5 DEF T, r

\* What was not changed is what was shown.
LEMMA UnchangedIs ==
  ASSUME GoodForm(The(form))
  PROVE  /\ DOMAIN Concerns = DOMAIN FormTypes \ {"slug"}
         /\ Amended \in SUBSET DOMAIN Concerns
         /\ \A g \in DOMAIN Concerns \ Amended : The(form)[g] = FormOf(shown)[g]
<1>1. DOMAIN Concerns = DOMAIN FormTypes \ {"slug"}
  BY DEF Concerns, FormTypes
<1>2. DOMAIN The(form) = DOMAIN FormTypes
  BY DEF GoodForm
<1>3. QED
  BY <1>1, <1>2 DEF Amended

\* The form of a hook that a form can express, sent as it was shown, is not
\* refused; and whatever is changed in it, the hook it updates or makes does
\* what the one shown did in every respect that was not changed
\* (edit_hook_form against parse_hook_form, format_duration against humantime,
\* the inputs' patterns against validate).
THEOREM NothingElseIsChanged == Spec => OnlyWhatWasChanged
<1> DEFINE Sent == Submit /\ Plainly(shown) /\ (isNew \/ hook.executor.type # "http")
           Only == /\ form' # <<>> => Amended # {} \/ (isNew /\ The(form).slug = hook.slug)
                   /\ LET result == IF isNew THEN The(made') ELSE hook'
                      IN form' = <<>> =>
                           \A k \in DOMAIN Does(shown) \ Touched : Does(result)[k] = Does(shown)[k]
<1>1. ASSUME FormsInvariant, Sent PROVE Only
  <2>0. PICK f : f = The(form)
    OBVIOUS
  <2>1. GoodForm(f)
    BY <1>1, <2>0, EditWritten, NewWritten DEF Submit
  <2>2. /\ hook \in HookSpecs /\ shown \in HookSpecs /\ Validates(hook) /\ Validates(shown)
        /\ Plainly(shown) /\ ValidSlug(hook.slug)
    BY <1>1 DEF FormsInvariant, TypeOK, Validates
  <2>3. PICK C : C = Amended
    OBVIOUS
  <2>4. /\ DOMAIN Concerns = DOMAIN FormTypes \ {"slug"} /\ C \in SUBSET DOMAIN Concerns
        /\ \A g \in DOMAIN Concerns \ C : f[g] = FormOf(shown)[g]
    BY <2>0, <2>1, <2>3, UnchangedIs
  <2>5. Touched = {Concerns[g] : g \in C}
    BY <2>3 DEF Touched
  <2>6. C = {} => FormParses(f) /\ \A h \in HookSpecs : ValidSlug(h.slug) => Validates(Result(h, f))
    <3>1. C = {} => \A g \in DOMAIN FormTypes \ {"slug"} : f[g] = FormOf(shown)[g]
      BY <2>4
    <3>2. QED
      BY <2>1, <2>2, <3>1, FormReadBack
  <2>7. ASSUME NEW h \in HookSpecs, FormParses(f)
        PROVE  \A k \in DOMAIN Does(shown) \ Touched : Does(Result(h, f))[k] = Does(shown)[k]
    <3>1. PICK s : s = shown
      OBVIOUS
    <3>2. \A k \in DOMAIN Does(s) \ {Concerns[g] : g \in C} : Does(Result(h, f))[k] = Does(s)[k]
      BY <2>1, <2>2, <2>4, <2>7, <3>1, UntouchedAlike
    <3>3. QED
      BY <2>5, <3>1, <3>2
  <2>8. CASE SubmitEdit
    <3>1. ~isNew /\ hook.executor.type # "http"
      BY <1>1, <2>8, EditWritten
    <3>2. \/ ~(FormParses(f) /\ Validates(Result(hook, f))) /\ form' # <<>>
          \/ FormParses(f) /\ hook' = Result(hook, f) /\ form' = <<>>
      <4>1. \/ ~(FormParses(f) /\ Validates(Result(hook, f))) /\ form' = <<Redisplayed(f)>>
            \/ FormParses(f) /\ hook' = Result(hook, f) /\ form' = <<>>
        BY <1>1, <2>0, <2>8, <3>1, EditWritten, Zenon
      <4>2. QED
        BY <4>1
    <3>3. form' # <<>> => C # {}
      BY <2>2, <2>6, <3>2
    <3>4. form' = <<>> =>
            \A k \in DOMAIN Does(shown) \ Touched : Does(hook')[k] = Does(shown)[k]
      BY <2>2, <2>7, <3>2
    <3>5. QED
      BY <2>3, <3>1, <3>3, <3>4
  <2>9. CASE SubmitNew
    <3> DEFINE result == BuildHookTable(ParseHookForm(f))
               good == FormParses(f) /\ result.slug # hook.slug /\ Validates(result)
    <3>1. isNew /\ MatchesPattern(f.slug)
      BY <1>1, <2>0, <2>9, NewWritten
    <3>2. \/ ~good /\ form' # <<>>
          \/ FormParses(f) /\ made' = <<result>> /\ form' = <<>>
      <4>1. \/ ~good /\ form' = <<Redisplayed(f)>>
            \/ FormParses(f) /\ made' = <<result>> /\ form' = <<>>
        BY <1>1, <2>0, <2>9, NewWritten, Zenon
      <4>2. QED
        BY <4>1
    <3>3. FormParses(f) => \E h \in HookSpecs : result = Result(h, f) /\ h.slug = f.slug
      BY <2>1, <3>1, NewResultIs
    <3> HIDE DEF result
    <3>4. form' # <<>> => C # {} \/ f.slug = hook.slug
      <4>1. SUFFICES ASSUME form' # <<>>, C = {}, f.slug # hook.slug PROVE FALSE
        OBVIOUS
      <4>2. FormParses(f)
        BY <2>6, <4>1
      <4>3. PICK h \in HookSpecs : result = Result(h, f) /\ h.slug = f.slug
        BY <3>3, <4>2
      <4>4. result.slug = f.slug
        BY <2>1, <4>2, <4>3, ResultIs
      <4>5. ValidSlug(h.slug)
        BY <2>1, <3>1, <4>3, FormsAre, PatternIsValid
      <4>6. Validates(result)
        BY <2>6, <4>1, <4>3, <4>5
      <4>7. QED
        BY <3>2, <4>1, <4>2, <4>4, <4>6
    <3>5. form' = <<>> =>
            \A k \in DOMAIN Does(shown) \ Touched : Does(The(made'))[k] = Does(shown)[k]
      <4>1. SUFFICES ASSUME form' = <<>>
                     PROVE  \A k \in DOMAIN Does(shown) \ Touched : Does(The(made'))[k] = Does(shown)[k]
        OBVIOUS
      <4>2. FormParses(f) /\ The(made') = result
        BY <3>2, <4>1 DEF The
      <4>3. PICK h \in HookSpecs : result = Result(h, f)
        BY <3>3, <4>2
      <4>4. QED
        BY <2>7, <4>2, <4>3
    <3>6. QED
      BY <2>0, <2>3, <3>1, <3>4, <3>5
  <2>10. QED
    BY <1>1, <2>8, <2>9 DEF Submit
<1>2. FormsInvariant /\ [Next]_vars => [Sent => Only]_vars
  <2> HIDE DEF Sent, Only
  <2>1. QED
    BY <1>1
<1>3. QED
  BY <1>2, FormsTypeCorrect, PTL DEF OnlyWhatWasChanged, Spec

=============================================================================
