--------------------------- MODULE ConfigStoreProofs ---------------------------
(***************************************************************************)
(* Theorems about ConfigStore, for any hooks, contents and imports: what   *)
(* is live has always been loaded, whoever writes; and an editor that has  *)
(* the file to itself never leaves it rejected, applies its edit to what   *)
(* is there, and makes live what is there.                                 *)
(***************************************************************************)
EXTENDS ConfigStore, TLAPS

LEMMA DocTyped ==
  ASSUME NEW d \in Docs, NEW s \in Slugs, NEW x \in Versions \cup {None}
  PROVE  [d EXCEPT !.hooks[s] = x] \in Docs
BY DEF Docs

LEMMA EmptyLoads == Empty \in Docs /\ Validates(Empty) /\ Loads(Empty)
BY ConfigConstants DEF Docs, Empty, Loads, Validates

LEMMA EditedTyped ==
  ASSUME TypeOK, NEW e \in Editors, NEW d \in Docs,
         editor[e].slug \in Slugs
  PROVE  Edited(e, d) \in Docs
<1>1. editor[e].new \in Versions \cup {None}
  BY DEF TypeOK, EditorStates
<1> QED
  BY <1>1, DocTyped DEF Edited

----
(***************************************************************************)
(* The type invariant, for any number of editors at once.                  *)
(***************************************************************************)
\* An edit that has not read the file yet knows its hook.
KnowsItsHook == \A e \in Editors : At(e, "read") => editor[e].slug \in Slugs

TypeInvariant == TypeOK /\ StoresWhatLoads /\ KnowsItsHook

LEMMA IdleTyped == Idle \in EditorStates /\ Idle.pc = "idle"
BY EmptyLoads DEF Idle, EditorStates, PCs, Handles

LEMMA ConfigInit == Init => TypeInvariant
BY EmptyLoads, IdleTyped
   DEF Init, TypeInvariant, TypeOK, StoresWhatLoads, KnowsItsHook, At, Idle

LEMMA StepTyped == TypeInvariant /\ [Next]_vars => TypeInvariant'
<1> SUFFICES ASSUME TypeInvariant, [Next]_vars PROVE TypeInvariant'
  OBVIOUS
<1> USE DEF TypeInvariant
<1>1. ASSUME NEW e \in Editors, BeginEdit(e) PROVE TypeInvariant'
  <2>1. PICK k \in Edits, s \in Slugs, v \in Versions :
          editor' = [editor EXCEPT
            ![e] = [Idle EXCEPT !.pc = "read", !.kind = k, !.slug = s, !.new = v]]
    BY <1>1 DEF BeginEdit
  <2> DEFINE x == [Idle EXCEPT !.pc = "read", !.kind = k, !.slug = s, !.new = v]
  <2>2. x \in EditorStates /\ x.pc = "read" /\ x.slug \in Slugs
    BY EmptyLoads DEF Idle, EditorStates, PCs, Kinds, Edits, Handles
  <2>3. editor' = [editor EXCEPT ![e] = x] /\ UNCHANGED <<file, tmp, memory>>
    BY <1>1, <2>1 DEF BeginEdit
  <2> HIDE DEF x
  <2> QED
    BY <2>2, <2>3 DEF TypeOK, StoresWhatLoads, KnowsItsHook, At
<1>2. ASSUME NEW e \in Editors, NEW k \in Kinds \ Edits, StartImport(e, k)
      PROVE  TypeInvariant'
  <2>1. PICK d \in Imports :
          editor' = [editor EXCEPT
            ![e] = [Idle EXCEPT !.pc = "truncate", !.kind = k, !.doc = d]]
    BY <1>2 DEF StartImport
  <2> DEFINE x == [Idle EXCEPT !.pc = "truncate", !.kind = k, !.doc = d]
  <2>2. x \in EditorStates /\ x.pc = "truncate"
    BY EmptyLoads, ConfigConstants DEF Idle, EditorStates, PCs, Kinds, Edits, Handles
  <2>3. editor' = [editor EXCEPT ![e] = x] /\ UNCHANGED <<file, tmp, memory>>
    BY <1>2, <2>1 DEF StartImport
  <2> HIDE DEF x
  <2> QED
    BY <2>2, <2>3 DEF TypeOK, StoresWhatLoads, KnowsItsHook, At
<1>3. ASSUME NEW e \in Editors, Read(e) PROVE TypeInvariant'
  <2>1. editor[e].slug \in Slugs
    BY <1>3 DEF Read, KnowsItsHook
  <2>2. PICK done \in Done("read") :
          LET d == IF done THEN file ELSE Empty
          IN IF Applies(e, d)
             THEN editor' = [editor EXCEPT ![e].pc = "create", ![e].doc = Edited(e, d),
                                           ![e].seen = done]
             ELSE Finish(e)
    BY <1>3 DEF Read
  <2> DEFINE d == IF done THEN file ELSE Empty
  <2>3. d \in Docs /\ done \in BOOLEAN
    BY EmptyLoads DEF TypeOK, Done
  <2>4. Edited(e, d) \in Docs
    BY <2>1, <2>3, EditedTyped
  <2>5. UNCHANGED <<file, tmp, memory>>
    BY <1>3 DEF Read
  <2>6. CASE Applies(e, d)
    <3> DEFINE x == Edited(e, d)
               y == [editor[e] EXCEPT !.pc = "create", !.doc = x, !.seen = done]
    <3>1. editor' = [editor EXCEPT ![e].pc = "create", ![e].doc = x,
                                   ![e].seen = done]
      BY <2>2, <2>6
    <3>2. x \in Docs /\ done \in BOOLEAN
      BY <2>3, <2>4
    <3> HIDE DEF x
    <3>3. editor[e] \in EditorStates
      BY DEF TypeOK
    <3>4. y \in EditorStates /\ y.pc = "create"
      BY <3>2, <3>3 DEF EditorStates, PCs
    <3>5. editor' = [editor EXCEPT ![e] = y]
      BY <3>1, <3>3 DEF TypeOK, EditorStates
    <3> HIDE DEF y
    <3> QED
      BY <3>4, <3>5, <2>5 DEF TypeOK, StoresWhatLoads, KnowsItsHook, At
  <2>7. CASE ~Applies(e, d)
    <3>1. Finish(e)
      BY <2>2, <2>7
    <3> QED
      BY <3>1, <2>5, IdleTyped DEF Finish, TypeOK, StoresWhatLoads, KnowsItsHook, At
  <2> QED
    BY <2>6, <2>7
<1>4. ASSUME NEW e \in Editors, CreateTmp(e) PROVE TypeInvariant'
  BY <1>4, EmptyLoads, IdleTyped
     DEF CreateTmp, Finish, TypeOK, StoresWhatLoads, KnowsItsHook, At, EditorStates,
         PCs, Handles
<1>5. ASSUME NEW e \in Editors, Truncate(e) PROVE TypeInvariant'
  BY <1>5, EmptyLoads, IdleTyped
     DEF Truncate, Finish, TypeOK, StoresWhatLoads, KnowsItsHook, At, EditorStates,
         PCs, Handles
<1>6. ASSUME NEW e \in Editors, Write(e) PROVE TypeInvariant'
  BY <1>6, IdleTyped
     DEF Write, Finish, TypeOK, StoresWhatLoads, KnowsItsHook, At, EditorStates,
         PCs, Handles
<1>7. ASSUME NEW e \in Editors, Validate(e) PROVE TypeInvariant'
  BY <1>7 DEF Validate, Goto, TypeOK, StoresWhatLoads, KnowsItsHook, At,
              EditorStates, PCs
<1>8. ASSUME NEW e \in Editors, RemoveTmp(e) PROVE TypeInvariant'
  BY <1>8, IdleTyped
     DEF RemoveTmp, Finish, AfterRemoval, TypeOK, StoresWhatLoads, KnowsItsHook, At,
         EditorStates, Handles
<1>9. ASSUME NEW e \in Editors, Rename(e) PROVE TypeInvariant'
  BY <1>9, IdleTyped, SMTT(60)
     DEF Rename, Finish, AfterRename, TypeOK, StoresWhatLoads, KnowsItsHook, At,
         EditorStates, PCs, Handles
<1>10. ASSUME NEW e \in Editors, Load(e) PROVE TypeInvariant'
  BY <1>10, IdleTyped
     DEF Load, Finish, TypeOK, StoresWhatLoads, KnowsItsHook, At, EditorStates, PCs
<1>11. ASSUME NEW e \in Editors, Store(e) PROVE TypeInvariant'
  BY <1>11, IdleTyped
     DEF Store, Finish, TypeOK, StoresWhatLoads, KnowsItsHook, At, EditorStates
<1>12. ASSUME Restart PROVE TypeInvariant'
  BY <1>12, IdleTyped
     DEF Restart, TypeOK, StoresWhatLoads, KnowsItsHook, At
<1>13. ASSUME UNCHANGED vars PROVE TypeInvariant'
  BY <1>13 DEF vars, TypeOK, StoresWhatLoads, KnowsItsHook, At
<1> QED
  BY <1>1, <1>2, <1>3, <1>4, <1>5, <1>6, <1>7, <1>8, <1>9, <1>10, <1>11, <1>12, <1>13
     DEF Next, Step, BeginImport, BeginCliImport, Kinds, Edits

\* Type correctness, for any number of editors, imports and faults: the
\* configuration that handlers read has always been loaded and validated.
THEOREM ConfigTypeCorrect == Spec => []TypeOK
<1>1. Init => TypeInvariant
  BY ConfigInit
<1>2. TypeInvariant /\ [Next]_vars => TypeInvariant'
  BY StepTyped
<1>3. TypeInvariant => TypeOK
  BY DEF TypeInvariant
<1> QED
  BY <1>1, <1>2, <1>3, PTL DEF Spec

----
(***************************************************************************)
(* An editor that has the file to itself.  v_edits shows that two do not   *)
(* get this: they share the temporary file, and either may write what it   *)
(* read before the other's rename.                                         *)
(***************************************************************************)
Alone == \A e, f \in Editors : e = f

LEMMA WriterInit == Init => WriterInvariant
BY DEF Init, WriterInvariant, InHand, FileValidates, Loads, At, Idle

\* Of one editor it says nothing that others, of whom there are none, disturb.
LEMMA OnlyWriter ==
  ASSUME Alone, NEW e \in Editors, FileValidates', InHand(e)'
  PROVE  WriterInvariant'
<1>1. \A f \in Editors : f = e
  BY DEF Alone
<1> QED
  BY <1>1 DEF WriterInvariant

\* An editor that is done claims nothing.
LEMMA DoneInHand ==
  ASSUME TypeOK, NEW e \in Editors, editor'[e] = Idle
  PROVE  InHand(e)'
BY DEF InHand, At, Idle

LEMMA StepWrites ==
  Alone /\ TypeInvariant /\ WriterInvariant /\ [Next]_vars => WriterInvariant'
<1> SUFFICES ASSUME Alone, TypeInvariant, WriterInvariant, [Next]_vars
             PROVE  WriterInvariant'
  OBVIOUS
<1>0. TypeOK /\ FileValidates /\ \A e \in Editors : InHand(e)
  BY DEF TypeInvariant, WriterInvariant
<1>1. ASSUME NEW e \in Editors, BeginEdit(e) PROVE WriterInvariant'
  <2>1. PICK k \in Edits, s \in Slugs, v \in Versions :
          editor'[e] = [Idle EXCEPT !.pc = "read", !.kind = k, !.slug = s, !.new = v]
    BY <1>0, <1>1 DEF BeginEdit, TypeOK
  <2>2. editor'[e].pc = "read" /\ editor'[e].kind = k /\ k \in Edits
    BY <2>1 DEF Idle
  <2>3. InHand(e)'
    BY <2>2 DEF InHand, At, Importing, Kind
  <2>4. FileValidates'
    BY <1>0, <1>1 DEF BeginEdit, FileValidates
  <2> QED
    BY <2>3, <2>4, OnlyWriter
<1>2. ASSUME NEW e \in Editors, NEW k \in Kinds \ Edits, StartImport(e, k)
      PROVE  WriterInvariant'
  <2>1. PICK d \in Imports :
          /\ Validates(d)
          /\ editor'[e] = [Idle EXCEPT !.pc = "truncate", !.kind = k, !.doc = d]
    BY <1>0, <1>2 DEF StartImport, TypeOK
  <2>2. editor'[e].pc = "truncate" /\ editor'[e].kind = k /\ editor'[e].doc = d
    BY <2>1 DEF Idle
  <2>3. InHand(e)'
    BY <2>1, <2>2 DEF InHand, At, Importing, Kind
  <2>4. FileValidates'
    BY <1>0, <1>2 DEF StartImport, FileValidates
  <2> QED
    BY <2>3, <2>4, OnlyWriter
<1>3. ASSUME NEW e \in Editors, Read(e) PROVE WriterInvariant'
  <2>1. PICK done \in Done("read") :
          LET d == IF done THEN file ELSE Empty
          IN IF Applies(e, d)
             THEN editor' = [editor EXCEPT ![e].pc = "create", ![e].doc = Edited(e, d),
                                           ![e].seen = done]
             ELSE Finish(e)
    BY <1>3 DEF Read
  <2>2. UNCHANGED <<file, tmp, memory>> /\ At(e, "read") /\ ~Importing(e)
    BY <1>0, <1>3 DEF Read, InHand, At
  <2>3. FileValidates'
    BY <1>0, <2>2 DEF FileValidates
  <2>4. CASE editor' = [editor EXCEPT ![e] = Idle]
    <3>1. editor'[e] = Idle
      BY <1>0, <2>4 DEF TypeOK
    <3> QED
      BY <1>0, <3>1, <2>3, DoneInHand, OnlyWriter
  <2>5. CASE ~(editor' = [editor EXCEPT ![e] = Idle])
    <3> DEFINE d == IF done THEN file ELSE Empty
               x == Edited(e, d)
    <3>1. Applies(e, d) /\ editor' = [editor EXCEPT ![e].pc = "create", ![e].doc = x,
                                                    ![e].seen = done]
      BY <2>1, <2>5 DEF Finish
    <3>2. done => Applies(e, file) /\ x = Edited(e, file)
      BY <3>1
    <3> HIDE DEF x, d
    <3>3. editor[e] \in EditorStates
      BY <1>0 DEF TypeOK
    <3>4. /\ editor'[e].pc = "create" /\ editor'[e].doc = x /\ editor'[e].seen = done
          /\ editor'[e].kind = editor[e].kind /\ editor'[e].slug = editor[e].slug
          /\ editor'[e].new = editor[e].new
      BY <1>0, <3>1, <3>3 DEF TypeOK, EditorStates
    <3>5. done => Applies(e, file)' /\ x = Edited(e, file)'
      BY <3>2, <3>4, <2>2 DEF Applies, Edited, Kind
    <3>6. InHand(e)'
      BY <2>2, <3>4, <3>5 DEF InHand, At, Importing, Kind
    <3> QED
      BY <3>6, <2>3, OnlyWriter
  <2> QED
    BY <2>4, <2>5
<1>4. ASSUME NEW e \in Editors, CreateTmp(e) PROVE WriterInvariant'
  <2>1. UNCHANGED file /\ At(e, "create") /\ ~Importing(e)
    BY <1>0, <1>4 DEF CreateTmp, InHand, At
  <2>2. FileValidates'
    BY <1>0, <2>1 DEF FileValidates
  <2>3. CASE editor'[e] = Idle
    BY <1>0, <2>2, <2>3, DoneInHand, OnlyWriter
  <2>4. CASE editor'[e] # Idle
    <3>1. editor' = [editor EXCEPT ![e].pc = "write", ![e].handle = "tmp"]
      BY <1>0, <1>4, <2>4 DEF CreateTmp, Finish, TypeOK
    <3>2. /\ editor'[e].pc = "write" /\ editor'[e].handle = "tmp"
          /\ editor'[e].doc = editor[e].doc /\ editor'[e].seen = editor[e].seen
          /\ editor'[e].kind = editor[e].kind /\ editor'[e].slug = editor[e].slug
          /\ editor'[e].new = editor[e].new
      BY <1>0, <3>1 DEF TypeOK, EditorStates
    <3>3. InHand(e)'
      BY <1>0, <2>1, <3>2 DEF InHand, At, Importing, Kind, Applies, Edited
    <3> QED
      BY <3>3, <2>2, OnlyWriter
  <2> QED
    BY <2>3, <2>4
<1>5. ASSUME NEW e \in Editors, Truncate(e) PROVE WriterInvariant'
  <2>1. file' \in {file, Empty} /\ At(e, "truncate")
    BY <1>5 DEF Truncate
  <2>2. FileValidates'
    BY <1>0, <2>1, EmptyLoads DEF FileValidates, Validates
  <2>3. CASE editor'[e] = Idle
    BY <1>0, <2>2, <2>3, DoneInHand, OnlyWriter
  <2>4. CASE editor'[e] # Idle
    <3>1. editor' = [editor EXCEPT ![e].pc = "write", ![e].handle = "file"]
      BY <1>0, <1>5, <2>4 DEF Truncate, Finish, TypeOK
    <3>2. /\ editor'[e].pc = "write" /\ editor'[e].handle = "file"
          /\ editor'[e].doc = editor[e].doc /\ editor'[e].kind = editor[e].kind
      BY <1>0, <3>1 DEF TypeOK, EditorStates
    <3>3. Importing(e)
      BY <1>0, <2>1 DEF InHand
    <3>4. InHand(e)'
      BY <1>0, <2>1, <3>2, <3>3 DEF InHand, At, Importing, Kind
    <3> QED
      BY <3>4, <2>2, OnlyWriter
  <2> QED
    BY <2>3, <2>4
<1>6. ASSUME NEW e \in Editors, Write(e) PROVE WriterInvariant'
  <2>1. At(e, "write") /\ editor[e].handle = IF Importing(e) THEN "file" ELSE "tmp"
    BY <1>0, <1>6 DEF Write, InHand
  <2>2. PICK landed \in BOOLEAN, done \in BOOLEAN :
          /\ landed = done \/ (landed /\ ~Importing(e))
          /\ tmp' = IF landed /\ editor[e].handle = "tmp" THEN editor[e].doc ELSE tmp
          /\ file' = IF landed /\ editor[e].handle = "file" THEN editor[e].doc ELSE file
          /\ IF done /\ Kind(e) # "cli_import"
             THEN editor' = [editor EXCEPT ![e].handle = "none",
                    ![e].pc = IF Kind(e) = "import" THEN "load" ELSE "validate"]
             ELSE Finish(e)
    BY <1>6 DEF Write, Done
  <2>3. FileValidates'
    BY <1>0, <2>1, <2>2 DEF FileValidates, Validates, InHand, At
  <2>4. CASE editor'[e] = Idle
    BY <1>0, <2>3, <2>4, DoneInHand, OnlyWriter
  <2>5. CASE editor'[e] # Idle
    <3>1. /\ done /\ Kind(e) # "cli_import"
          /\ editor' = [editor EXCEPT ![e].handle = "none",
               ![e].pc = IF Kind(e) = "import" THEN "load" ELSE "validate"]
      BY <1>0, <2>2, <2>5 DEF Finish, TypeOK
    <3>2. /\ editor'[e].pc = IF Kind(e) = "import" THEN "load" ELSE "validate"
          /\ editor'[e].doc = editor[e].doc /\ editor'[e].seen = editor[e].seen
          /\ editor'[e].kind = editor[e].kind /\ editor'[e].slug = editor[e].slug
          /\ editor'[e].new = editor[e].new
      BY <1>0, <3>1 DEF TypeOK, EditorStates
    <3>3. CASE Kind(e) = "import"
      <4>1. InHand(e)'
        BY <3>2, <3>3 DEF InHand, At
      <4> QED
        BY <4>1, <2>3, OnlyWriter
    <3>4. CASE Kind(e) # "import"
      <4>1. ~Importing(e)
        BY <3>1, <3>4 DEF Importing, Kinds, Edits
      <4>2. file' = file /\ tmp' = editor[e].doc
        BY <2>1, <2>2, <3>1, <4>1
      <4>3. InHand(e)'
        BY <1>0, <2>1, <3>2, <3>4, <4>1, <4>2
           DEF InHand, At, Importing, Kind, Applies, Edited
      <4> QED
        BY <4>3, <2>3, OnlyWriter
    <3> QED
      BY <3>3, <3>4
  <2> QED
    BY <2>4, <2>5
<1>7. ASSUME NEW e \in Editors, Validate(e) PROVE WriterInvariant'
  <2>1. UNCHANGED <<file, tmp>> /\ At(e, "validate") /\ tmp = editor[e].doc
    BY <1>0, <1>7 DEF Validate, InHand, At
  <2>2. tmp # None
    BY <1>0, <2>1, ConfigConstants DEF TypeOK, EditorStates
  <2>3. \/ Validates(tmp) /\ Goto(e, "rename")
        \/ Goto(e, "remove_tmp")
    BY <1>7, <2>2 DEF Validate, Loads
  <2>4. FileValidates'
    BY <1>0, <2>1 DEF FileValidates
  <2>5. /\ \/ editor'[e].pc = "rename" /\ Validates(tmp)
           \/ editor'[e].pc = "remove_tmp"
        /\ editor'[e].doc = editor[e].doc /\ editor'[e].seen = editor[e].seen
        /\ editor'[e].kind = editor[e].kind /\ editor'[e].slug = editor[e].slug
        /\ editor'[e].new = editor[e].new
    BY <1>0, <2>3 DEF Goto, TypeOK, EditorStates
  <2>6. InHand(e)'
    BY <1>0, <2>1, <2>5 DEF InHand, At, Importing, Kind, Applies, Edited, Validates
  <2> QED
    BY <2>4, <2>6, OnlyWriter
<1>8. ASSUME NEW e \in Editors, RemoveTmp(e) PROVE WriterInvariant'
  <2>1. editor'[e] = Idle /\ file' = file
    BY <1>0, <1>8 DEF RemoveTmp, Finish, TypeOK
  <2>2. FileValidates'
    BY <1>0, <2>1 DEF FileValidates
  <2> QED
    BY <1>0, <2>1, <2>2, DoneInHand, OnlyWriter
<1>9. ASSUME NEW e \in Editors, Rename(e) PROVE WriterInvariant'
  <2>1. file' \in {file, tmp} /\ (file' = tmp => Validates(tmp) \/ file' = file)
    BY <1>0, <1>9 DEF Rename, InHand
  <2>2. FileValidates'
    BY <1>0, <2>1 DEF FileValidates, Validates
  <2>3. editor'[e] = Idle \/ editor'[e].pc = "load"
    BY <1>0, <1>9 DEF Rename, Finish, TypeOK, EditorStates
  <2>4. InHand(e)'
    BY <2>3 DEF InHand, At, Idle
  <2> QED
    BY <2>2, <2>4, OnlyWriter
<1>10. ASSUME NEW e \in Editors, Load(e) PROVE WriterInvariant'
  <2>1. UNCHANGED file
    BY <1>10 DEF Load
  <2>2. \/ editor'[e] = Idle
        \/ editor'[e].pc = "store" /\ editor'[e].doc = file
    BY <1>0, <1>10 DEF Load, Finish, TypeOK, EditorStates
  <2>3. InHand(e)' /\ FileValidates'
    BY <1>0, <2>1, <2>2 DEF InHand, At, Idle, FileValidates
  <2> QED
    BY <2>3, OnlyWriter
<1>11. ASSUME NEW e \in Editors, Store(e) PROVE WriterInvariant'
  <2>1. editor'[e] = Idle /\ FileValidates'
    BY <1>0, <1>11 DEF Store, Finish, TypeOK, FileValidates
  <2> QED
    BY <1>0, <2>1, DoneInHand, OnlyWriter
<1>12. ASSUME Restart PROVE WriterInvariant'
  <2>1. FileValidates' /\ file' = file
    BY <1>0, <1>12 DEF Restart, FileValidates
  <2>2. ASSUME NEW e \in Editors PROVE InHand(e)'
    <3>1. CASE Kind(e) = "cli_import"
      <4>1. editor'[e] = editor[e]
        BY <1>12, <3>1 DEF Restart
      <4>2. Importing(e)
        BY <3>1 DEF Importing, Kinds, Edits
      <4> QED
        BY <1>0, <2>1, <4>1, <4>2 DEF InHand, At, Importing, Kind
    <3>2. CASE Kind(e) # "cli_import"
      BY <1>0, <1>12, <3>2, DoneInHand DEF Restart
    <3> QED
      BY <3>1, <3>2
  <2> QED
    BY <2>1, <2>2 DEF WriterInvariant
<1>13. ASSUME UNCHANGED vars PROVE WriterInvariant'
  BY <1>13 DEF vars, WriterInvariant, FileValidates, InHand, At, Importing, Kind,
               Applies, Edited
<1> QED
  BY <1>1, <1>2, <1>3, <1>4, <1>5, <1>6, <1>7, <1>8, <1>9, <1>10, <1>11, <1>12, <1>13
     DEF Next, Step, BeginImport, BeginCliImport, Kinds, Edits

LEMMA WriterInvariance ==
  ASSUME Alone
  PROVE  Spec => [](TypeInvariant /\ WriterInvariant)
<1>1. Init => TypeInvariant /\ WriterInvariant
  BY ConfigInit, WriterInit
<1>2. TypeInvariant /\ WriterInvariant /\ [Next]_vars =>
        TypeInvariant' /\ WriterInvariant'
  BY StepTyped, StepWrites
<1> QED
  BY <1>1, <1>2, PTL DEF Spec

\* What validate() rejects never gets into the file, whatever fails and whenever
\* the server stops (validate_and_write).
THEOREM SoleWriterValidates ==
  ASSUME Alone
  PROVE  Spec => []FileValidates
<1>1. WriterInvariant => FileValidates
  BY DEF WriterInvariant
<1> QED
  BY <1>1, WriterInvariance, PTL

\* The file changes only by a rename, from what it is to the same with one
\* hook edited, or from nothing if it could not be read (update_hook and its
\* like).
THEOREM SoleWriterIsAtomic ==
  ASSUME Alone
  PROVE  Spec => EditsAreAtomic
<1>1. ASSUME TypeInvariant, WriterInvariant, Next, file' # file,
             ~(\E e \in Editors : Importing(e))
      PROVE  \E e \in Editors :
               /\ At(e, "rename") /\ At(e, "load")'
               /\ editor[e].seen => Applies(e, file) /\ file' = Edited(e, file)
  <2>0. TypeOK /\ \A e \in Editors : InHand(e)
    BY <1>1 DEF TypeInvariant, WriterInvariant
  <2>1. PICK e \in Editors : Truncate(e) \/ Write(e) \/ Rename(e)
    BY <1>1 DEF Next, Step, Restart, BeginEdit, BeginImport, BeginCliImport,
                StartImport, Read, CreateTmp,
                Validate, RemoveTmp, Load, Store
  <2>2. ~Importing(e)
    BY <1>1
  <2>3. ~Truncate(e)
    BY <2>0, <2>2 DEF Truncate, InHand
  <2>4. ~Write(e)
    BY <1>1, <2>0, <2>2 DEF Write, InHand
  <2>5. Rename(e)
    BY <2>1, <2>3, <2>4
  <2>6. At(e, "rename") /\ file' = tmp /\ editor'[e].pc = "load"
    BY <1>1, <2>0, <2>5 DEF Rename, TypeOK, EditorStates
  <2>7. editor[e].seen => Applies(e, file) /\ file' = Edited(e, file)
    BY <2>0, <2>2, <2>6 DEF InHand, At
  <2> QED
    BY <2>6, <2>7 DEF At
<1>2. TypeInvariant /\ WriterInvariant /\ [Next]_vars =>
        [file' # file /\ ~(\E e \in Editors : Importing(e)) =>
           \E e \in Editors :
             /\ At(e, "rename") /\ At(e, "load")'
             /\ editor[e].seen => Applies(e, file) /\ file' = Edited(e, file)]_vars
  BY <1>1 DEF vars
<1> QED
  BY <1>2, WriterInvariance, PTL DEF Spec, EditsAreAtomic

\* Whoever has reloaded the file makes live what it says then (reload_config).
THEOREM SoleWriterIsLive ==
  ASSUME Alone
  PROVE  Spec => SuccessIsLive
<1>1. ASSUME TypeInvariant, WriterInvariant, Next, NEW e \in Editors,
             At(e, "store"), ~At(e, "store")'
      PROVE  memory' = file
  <2>1. TypeOK /\ editor[e].doc = file /\ Loads(file)
    BY <1>1 DEF TypeInvariant, WriterInvariant, InHand, StoresWhatLoads
  <2>2. CASE Restart
    BY <2>1, <2>2 DEF Restart
  <2>3. CASE \E f \in Editors : Step(f)
    <3>1. Step(e)
      BY <2>3 DEF Alone
    <3>2. Store(e)
      BY <1>1, <3>1 DEF Step, At, BeginEdit, BeginImport, BeginCliImport,
                        StartImport, Read, CreateTmp, Truncate,
                        Write, Validate, RemoveTmp, Rename, Load
    <3> QED
      BY <2>1, <3>2 DEF Store
  <2> QED
    BY <1>1, <2>2, <2>3 DEF Next
<1>2. TypeInvariant /\ WriterInvariant /\ [Next]_vars =>
        [\A e \in Editors : At(e, "store") /\ ~At(e, "store")' => memory' = file]_vars
  BY <1>1 DEF vars
<1> QED
  BY <1>2, WriterInvariance, PTL DEF Spec, SuccessIsLive


=============================================================================
