------------------------------ MODULE ConfigStore ------------------------------
(***************************************************************************)
(* The configuration: one TOML file, the temporary file its writer goes    *)
(* through, and the copy in memory that every handler reads.  The forms of *)
(* routes/hooks.rs edit it through ConfigWriter, routes/api.rs and the     *)
(* command line import a whole one.                                        *)
(*                                                                         *)
(* These handlers do not await, but run in parallel on tokio's threads,    *)
(* and nothing locks the file: one action is one file operation, or the    *)
(* swap of the copy in memory.  A file that has been created or truncated  *)
(* and not yet written is empty, which is a document without hooks; a      *)
(* small document is written by one write.                                 *)
(*                                                                         *)
(* A definition whose comment begins with "Faulty:" is a mistake this code *)
(* could have made, kept to see that the properties notice it.             *)
(***************************************************************************)
EXTENDS FiniteSets

CONSTANTS
  Editors,    \* the tasks and processes that write
  Slugs,      \* the hooks' slugs
  Versions,   \* contents a form may submit for a hook
  Rejected,   \* those among them that validate() rejects
  None,       \* no hook, no file, no configuration
  Imports,    \* documents that are imported
  Faults      \* which operations may fail

FaultKinds == {
  "read",    \* a file exists and cannot be read
  "write"}   \* a file cannot be created, written or renamed

\* A document: its hooks, and whether its masking patterns compile.
Docs == [hooks : [Slugs -> Versions \cup {None}], masking : BOOLEAN]

ASSUME ConfigConstants ==
  /\ Rejected \subseteq Versions
  /\ None \notin Versions \cup Docs
  /\ Imports \subseteq Docs
  /\ Faults \subseteq FaultKinds

VARIABLES
  file,    \* what sendword.toml contains
  tmp,     \* what .sendword-<pid>.tmp contains, or None
  memory,  \* AppState.config, or None while the server is down
  editor   \* what each editor is about to do

vars == <<file, tmp, memory, editor>>

Empty == [hooks |-> [s \in Slugs |-> None], masking |-> TRUE]

\* AppConfig::validate.
Validates(d) == \A s \in Slugs : d.hooks[s] \notin Rejected

\* AppConfig::load_from: it compiles the masking patterns too.
Loads(d) == Validates(d) /\ d.masking

----
(***************************************************************************)
(* Editors.                                                                *)
(***************************************************************************)
Kinds == {"add", "update", "remove", "import", "cli_import"}
Edits == {"add", "update", "remove"}

PCs == {"idle", "read", "create", "write", "validate", "remove_tmp", "rename",
        "truncate", "load", "store"}

\* Where an open file has got to: it is the temporary file, or sendword.toml,
\* or has been unlinked.
Handles == {"none", "tmp", "file", "gone"}

EditorStates == [
  pc     : PCs,
  kind   : Kinds \cup {None},
  slug   : Slugs \cup {None},     \* the hook a form is about
  new    : Versions \cup {None},  \* what the form says
  doc    : Docs,                  \* to be written; later, as reloaded
  seen   : BOOLEAN,               \* whether it could read the file
  handle : Handles]

Idle == [pc |-> "idle", kind |-> None, slug |-> None, new |-> None,
         doc |-> Empty, seen |-> FALSE, handle |-> "none"]

At(e, l) == editor[e].pc = l
Kind(e) == editor[e].kind
Importing(e) == Kind(e) \in Kinds \ Edits

Goto(e, l) == editor' = [editor EXCEPT ![e].pc = l]

\* The request is answered.
Finish(e) == editor' = [editor EXCEPT ![e] = Idle]

Done(kind) == IF kind \in Faults THEN BOOLEAN ELSE {TRUE}

\* A form is submitted, for a hook whose executor the forms support.
BeginEdit(e) ==
  /\ At(e, "idle")
  /\ memory # None
  /\ \E k \in Edits, s \in Slugs, v \in Versions :
       editor' = [editor EXCEPT
         ![e] = [Idle EXCEPT !.pc = "read", !.kind = k, !.slug = s, !.new = v]]
  /\ UNCHANGED <<file, tmp, memory>>

\* A whole configuration arrives and is validated, but its masking patterns
\* are not compiled.
StartImport(e, k) ==
  /\ At(e, "idle")
  /\ \E d \in Imports :
       /\ Validates(d)
       /\ editor' = [editor EXCEPT
            ![e] = [Idle EXCEPT !.pc = "truncate", !.kind = k, !.doc = d]]
  /\ UNCHANGED <<file, tmp, memory>>

BeginImport(e) == memory # None /\ StartImport(e, "import")

\* The command line's is a process of its own.
BeginCliImport(e) == StartImport(e, "cli_import")

\* add_hook wants the slug free, update_hook and remove_hook want it taken.
Applies(e, d) == (Kind(e) = "add") <=> (d.hooks[editor[e].slug] = None)

\* The document with the edit.
Edited(e, d) ==
  [d EXCEPT !.hooks[editor[e].slug] =
     IF Kind(e) = "remove" THEN None ELSE editor[e].new]

\* read_document: what cannot be read counts as empty.  Then the edit.
Read(e) ==
  /\ At(e, "read")
  /\ \E done \in Done("read") :
       LET d == IF done THEN file ELSE Empty
       IN IF Applies(e, d)
          THEN editor' = [editor EXCEPT ![e].pc = "create", ![e].doc = Edited(e, d),
                                        ![e].seen = done]
          ELSE Finish(e)
  /\ UNCHANGED <<file, tmp, memory>>

\* Faulty: writes the file in place.
CreatesInPlace(e) ==
  /\ At(e, "create")
  /\ file' = Empty
  /\ editor' = [editor EXCEPT ![e].pc = "write", ![e].handle = "file"]
  /\ UNCHANGED <<tmp, memory>>

\* File::create of the temporary file, truncating the one that is there: its
\* name is the process's.
CreateTmp(e) ==
  /\ At(e, "create")
  /\ \E done \in Done("write") :
       IF done
       THEN /\ tmp' = Empty
            /\ editor' = [editor EXCEPT ![e].pc = "write", ![e].handle = "tmp"]
       ELSE Finish(e) /\ UNCHANGED tmp
  /\ UNCHANGED <<file, memory>>

\* An import truncates sendword.toml itself.
Truncate(e) ==
  /\ At(e, "truncate")
  /\ \E done \in Done("write") :
       IF done
       THEN /\ file' = Empty
            /\ editor' = [editor EXCEPT ![e].pc = "write", ![e].handle = "file"]
       ELSE Finish(e) /\ UNCHANGED file
  /\ UNCHANGED <<tmp, memory>>

\* The document goes wherever the open file is by now, and may be there though
\* an edit's sync_all fails.  Then an edit validates it, an import reloads it,
\* the command line leaves the server as it is.
Write(e) ==
  /\ At(e, "write")
  /\ \E landed, done \in Done("write") :
       /\ landed = done \/ (landed /\ ~Importing(e))
       /\ tmp' = IF landed /\ editor[e].handle = "tmp" THEN editor[e].doc ELSE tmp
       /\ file' = IF landed /\ editor[e].handle = "file" THEN editor[e].doc ELSE file
       /\ IF done /\ Kind(e) # "cli_import"
          THEN editor' = [editor EXCEPT ![e].handle = "none",
                 ![e].pc = IF Kind(e) = "import" THEN "load" ELSE "validate"]
          ELSE Finish(e)
  /\ UNCHANGED memory

\* Faulty: installs what it has written without asking.
ValidatesNothing(e) ==
  /\ At(e, "validate")
  /\ Goto(e, "rename")
  /\ UNCHANGED <<file, tmp, memory>>

\* The temporary file is loaded, by name: a file that is gone loads as empty,
\* one that cannot be read does not load.
Validate(e) ==
  /\ At(e, "validate")
  /\ \E done \in Done("read") :
       Goto(e, IF done /\ (tmp = None \/ Loads(tmp)) THEN "rename" ELSE "remove_tmp")
  /\ UNCHANGED <<file, tmp, memory>>

\* Who still has a removed or a renamed file open keeps it open: what was the
\* temporary file is unlinked, or is sendword.toml now.
AfterRemoval(h) == IF h = "tmp" THEN "gone" ELSE h
AfterRename(h) == CASE h = "tmp" -> "file" [] h = "file" -> "gone" [] OTHER -> h

\* The document is rejected, and its file removed.
RemoveTmp(e) ==
  /\ At(e, "remove_tmp")
  /\ \E done \in Done("write") :
       IF done
       THEN /\ tmp' = None
            /\ editor' = [f \in Editors |->
                 IF f = e THEN Idle ELSE [editor[f] EXCEPT !.handle = AfterRemoval(@)]]
       ELSE Finish(e) /\ UNCHANGED tmp
  /\ UNCHANGED <<file, memory>>

\* rename, which fails if the temporary file is gone.
Rename(e) ==
  /\ At(e, "rename")
  /\ \E done \in Done("write") :
       IF done /\ tmp # None
       THEN /\ file' = tmp
            /\ tmp' = None
            /\ editor' = [f \in Editors |->
                 IF f = e THEN [editor[f] EXCEPT !.pc = "load"]
                 ELSE [editor[f] EXCEPT !.handle = AfterRename(@)]]
       ELSE Finish(e) /\ UNCHANGED <<file, tmp>>
  /\ UNCHANGED memory

\* Faulty: reloads without validation.
LoadsUnchecked(e) ==
  /\ At(e, "load")
  /\ editor' = [editor EXCEPT ![e].pc = "store", ![e].doc = file]
  /\ UNCHANGED <<file, tmp, memory>>

\* reload_config reads the file.  What does not load is not stored: the error
\* is logged after an edit, and answered after an import.
Load(e) ==
  /\ At(e, "load")
  /\ \E done \in Done("read") :
       IF done /\ Loads(file)
       THEN editor' = [editor EXCEPT ![e].pc = "store", ![e].doc = file]
       ELSE Finish(e)
  /\ UNCHANGED <<file, tmp, memory>>

\* Faulty: keeps the old copy.
StoresNothing(e) ==
  /\ At(e, "store")
  /\ Finish(e)
  /\ UNCHANGED <<file, tmp, memory>>

\* ArcSwap::store.
Store(e) ==
  /\ At(e, "store")
  /\ memory' = editor[e].doc
  /\ Finish(e)
  /\ UNCHANGED <<file, tmp>>

\* The server stops at any point and is started again, if the file loads.
\* Its handlers are gone; the temporary file is not, and is met again if the
\* process id is the same.
Restart ==
  /\ memory' = IF Loads(file) THEN file ELSE None
  /\ tmp' \in {tmp, None}
  /\ editor' = [e \in Editors |->
       IF Kind(e) = "cli_import" THEN editor[e] ELSE Idle]
  /\ UNCHANGED file

----
\* The server has been started with a file that loads.
Init ==
  /\ file \in {d \in Docs : Loads(d)}
  /\ tmp = None
  /\ memory = file
  /\ editor = [e \in Editors |-> Idle]

Step(e) ==
  \/ BeginEdit(e) \/ BeginImport(e) \/ BeginCliImport(e) \/ Read(e) \/ CreateTmp(e)
  \/ Truncate(e) \/ Write(e) \/ Validate(e) \/ RemoveTmp(e) \/ Rename(e)
  \/ Load(e) \/ Store(e)

Next == (\E e \in Editors : Step(e)) \/ Restart

Spec == Init /\ [][Next]_vars

----
(***************************************************************************)
(* Properties.                                                             *)
(***************************************************************************)
\* The type invariant.  What is in memory has been loaded, whatever becomes of
\* the file: an import may leave one that no longer loads.
TypeOK ==
  /\ file \in Docs
  /\ tmp \in Docs \cup {None}
  /\ memory \in {d \in Docs : Loads(d)} \cup {None}
  /\ editor \in [Editors -> EditorStates]

\* What validate() rejects is never in the file, not for a moment and not after
\* a crash (validate_and_write: "validate the document by re-parsing it through
\* AppConfig::load_from, then atomically write it to disk").
FileValidates == Validates(file)

\* Outside imports the file changes in one step from what it is, not from what
\* it was, to the same with one hook edited, and whoever edited it goes on to
\* succeed: an edit that is answered with an error has changed nothing.  The
\* exception is an edit that could not read the file: it starts from nothing.
EditsAreAtomic ==
  [][file' # file /\ ~(\E e \in Editors : Importing(e)) =>
       \E e \in Editors :
         /\ At(e, "rename") /\ At(e, "load")'
         /\ editor[e].seen => Applies(e, file) /\ file' = Edited(e, file)]_vars

\* Whoever is answered after a reload finds the file live: what is stored is
\* the file as it is then, not as it was when it was loaded (reload_config).
SuccessIsLive ==
  [][\A e \in Editors : At(e, "store") /\ ~At(e, "store")' => memory' = file]_vars

----
(***************************************************************************)
(* The inductive invariant, for one editor at a time.                      *)
(***************************************************************************)
\* What is about to be stored has been loaded.
StoresWhatLoads == \A e \in Editors : At(e, "store") => Loads(editor[e].doc)

\* What an editor has in hand.  An edit is the current file with one change, in
\* the temporary file as soon as it is written, and validated before it is
\* renamed; an import has been validated; what was reloaded is still the file.
InHand(e) ==
  /\ At(e, "truncate") => Importing(e)
  /\ editor[e].pc \in {"read", "create", "validate", "rename"} => ~Importing(e)
  /\ Importing(e) /\ editor[e].pc \in {"truncate", "write"} =>
       Validates(editor[e].doc)
  /\ At(e, "write") => editor[e].handle = IF Importing(e) THEN "file" ELSE "tmp"
  /\ ~Importing(e) /\ editor[e].seen
       /\ editor[e].pc \in {"create", "write", "validate", "rename"} =>
         Applies(e, file) /\ editor[e].doc = Edited(e, file)
  /\ editor[e].pc \in {"validate", "rename"} => tmp = editor[e].doc
  /\ At(e, "rename") => Validates(tmp)
  /\ At(e, "store") => editor[e].doc = file

WriterInvariant == FileValidates /\ \A e \in Editors : InHand(e)

=============================================================================
