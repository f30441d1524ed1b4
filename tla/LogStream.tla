------------------------------ MODULE LogStream ------------------------------
(***************************************************************************)
(* The way of a command's output to a reader who watches it live: from the *)
(* command's pipe or the HTTP response into a log file (executor/shell.rs, *)
(* script.rs, http.rs), across retries (retry.rs), and from the file,      *)
(* polled and masked, to the reader: to the execution's page or to the     *)
(* stream (execution_detail, log_stream in routes/executions.rs).          *)
(*                                                                         *)
(* One execution, one of its two log files, one reader.  A file handle is  *)
(* tokio's: a write is accepted at once and lands later, even after the    *)
(* handle is dropped, unless it is flushed.  The code only appends to log  *)
(* files.  Database statements succeed here; ExecutionBarriers is where    *)
(* they fail.                                                              *)
(*                                                                         *)
(* Text is a sequence of bytes.  Markup stands for the characters that     *)
(* html_escape rewrites, Lead and Cont for a character of two bytes.       *)
(*                                                                         *)
(* A definition whose comment begins with "Faulty:" is a mistake this code *)
(* could have made, kept to see that the properties notice it.             *)
(***************************************************************************)
EXTENDS Integers, SequencesExt

CONSTANTS
  Bytes,        \* what output is made of
  Outputs,      \* what an attempt may write to the examined log
  Maskings,     \* the masking settings: [secrets, patterns]
  ChunkBytes,   \* LOG_TAIL_READ_CHUNK_BYTES
  PipeBytes,    \* bound on what one read of the pipe returns
  MaxBody,      \* how much of a response body is kept
  MaxRetries    \* the effective retry count

Lead == "lead"
Cont == "cont"
Markup == "<"
Entity == "&lt;"
MASK == "***"
Gone == "gone"                   \* a byte MASK stands for: nothing is shown of it
Marker == <<"retry marker">>     \* written before an attempt after the first
Note == <<"note">>               \* what the executor itself writes to stderr

Words == Seq(Bytes) \ {<<>>}

\* What masking, escaping and the server put into a log is told from output
\* and secrets: no secret is made of the mask's own asterisks.
Added == {MASK, Gone, Entity, Marker[1], Note[1]}

ASSUME LogConstants ==
  /\ Bytes \cap Added = {}
  /\ Outputs \subseteq Seq(Bytes)
  /\ \A m \in Maskings : /\ DOMAIN m = {"secrets", "patterns"}
                         /\ m.secrets \in Seq(Words) /\ m.patterns \in Seq(Words)
  /\ Maskings # {} /\ Outputs # {}
  /\ ChunkBytes \in Nat \ {0} /\ PipeBytes \in Nat \ {0}
  /\ MaxBody \in Nat /\ MaxRetries \in Nat

VARIABLES
  masking,   \* config.masking, with the values of its environment variables
  log,       \* which log is examined
  kind,      \* a command (shell, script) or an HTTP request
  status,    \* executions.status
  exec,      \* the task that runs the execution
  output,    \* what the command has still to write, or the response's body
  said,      \* all that this attempt writes
  inflight,  \* accepted by the open handle, not in the file yet
  late,      \* accepted by handles that are gone
  file,      \* the log file
  reader     \* the state of execution_detail or log_stream

vars == <<masking, log, kind, status, exec, output, said, inflight, late, file,
          reader>>

ExecPCs == {"begin", "running", "exited", "body", "backoff", "marked", "ended"}
ReaderPCs == {"absent", "page", "shown", "whole", "wait", "poll", "check",
              "drain", "done"}
Statuses == {"pending", "running", "success", "failed", "timed_out"}

----
(***************************************************************************)
(* Masking.                                                                *)
(***************************************************************************)
OccursAt(word, text, i) ==
  /\ i + Len(word) - 1 <= Len(text)
  /\ \A k \in DOMAIN word : text[i + k - 1] = word[k]

\* str::replace: from the left, what was replaced is not looked at again.
Matches(text, word) ==
  LET matched[i \in DOMAIN text] ==
        /\ OccursAt(word, text, i)
        /\ \A j \in 1..(i - 1) : i < j + Len(word) => ~matched[j]
  IN {i \in DOMAIN text : matched[i]}

\* Every byte keeps its place; MASK is what is shown of a match.
Replace(text, word) ==
  LET matches == Matches(text, word)
      Within(i) == \E j \in matches : j < i /\ i < j + Len(word)
  IN [i \in DOMAIN text |-> IF i \in matches THEN MASK
                            ELSE IF Within(i) THEN Gone ELSE text[i]]

MaskAll(text, words) ==
  LET masked[k \in 0..Len(words)] ==
        IF k = 0 THEN text ELSE Replace(masked[k - 1], words[k])
  IN masked[Len(words)]

HtmlEscape(text) ==
  [i \in DOMAIN text |-> IF text[i] = Markup THEN Entity ELSE text[i]]

\* mask_secrets: the values first, then the patterns.
MaskSecrets(text) == MaskAll(MaskAll(text, masking.secrets), masking.patterns)

\* What the reader is shown of text, and of a whole log.
Show(text) == HtmlEscape(MaskAll(text, masking.secrets))
ShowWhole(text) == HtmlEscape(MaskSecrets(text))

\* String::from_utf8 takes whole characters only.
IsText(bytes) ==
  \A i \in DOMAIN bytes :
    /\ bytes[i] = Lead => i < Len(bytes) /\ bytes[i + 1] = Cont
    /\ bytes[i] = Cont => i > 1 /\ bytes[i - 1] = Lead

CharStarts(text) == {i \in DOMAIN text : text[i] # Cont}

TailChars ==
  Max({0} \cup {Cardinality(CharStarts(s)) : s \in ToSet(masking.secrets)})

\* All but the last TailChars characters.
EmitPrefixLen(text) ==
  LET after(n) == Cardinality({i \in CharStarts(text) : i > n})
  IN  Max({0} \cup {n \in 0..Len(text) : /\ after(n) = TailChars
                                         /\ n + 1 \notin DOMAIN text \ CharStarts(text)})

\* Back from every beginning of a secret that the prefix ends with.
EndsWith(text, n, word) == Len(word) <= n /\ OccursAt(word, text, n + 1 - Len(word))

AdjustEmitLen(text, n) ==
  LET beginnings == UNION {Prefixes(s) \ {<<>>, s} : s \in ToSet(masking.secrets)}
  IN  Min({n} \cup {n - Len(b) : b \in {c \in beginnings : EndsWith(text, n, c)}})

\* Until there is none.
SafeEmitPrefixLen(text) ==
  LET from[n \in 0..Len(text)] ==
        LET m == AdjustEmitLen(text, n) IN IF m = n THEN n ELSE from[m]
  IN from[EmitPrefixLen(text)]

----
(***************************************************************************)
(* The task that runs the execution.                                       *)
(***************************************************************************)
ExecAt(l) == exec.pc = l
LateWith(bytes) == IF bytes = <<>> THEN late ELSE Append(late, bytes)
NoteFor(l) == IF log = l THEN <<Note>> ELSE <<>>

\* prepare_log_files, mark_running: the attempt starts, and what it will say
\* is settled.
MarkRunning ==
  /\ ExecAt("begin")
  /\ status' = "running"
  /\ exec' = [exec EXCEPT !.pc = "running"]
  /\ output' \in (IF kind = "http" /\ log = "stderr" THEN {<<>>} ELSE Outputs)
  /\ said' = output'
  /\ UNCHANGED <<masking, log, kind, inflight, late, file, reader>>

\* run_with_retries: for attempt in 1..=count
RetriesLeft == exec.attempt < MaxRetries

\* mark_completed: this attempt is over.
Completes(s, end) ==
  /\ status' = s
  /\ exec' = [exec EXCEPT
       !.pc = IF s = "failed" /\ end = "exit" /\ RetriesLeft THEN "backoff"
              ELSE "ended",
       !.end = end]
  /\ output' = <<>>

\* spawn_script: no interpreter is found, or what is found does not start.
SpawnError == NoteFor("stderr")

\* The command cannot be started, or the request is not answered: a note is
\* written to stderr.log and not flushed.
NotStarted ==
  /\ ExecAt("running") /\ output = said /\ inflight = <<>>
  /\ Completes("failed", "not_started")
  /\ late' = late \o SpawnError
  /\ UNCHANGED <<masking, log, kind, said, inflight, file, reader>>

\* tokio::io::copy: the next read of the pipe is handed to the file when it
\* has no write under way.
Copy ==
  /\ kind = "command" /\ exec.pc \in {"running", "exited"}
  /\ inflight = <<>> /\ output # <<>>
  /\ \E n \in 1..Min({PipeBytes, Len(output)}) :
       /\ inflight' = SubSeq(output, 1, n)
       /\ output' = SubSeq(output, n + 1, Len(output))
  /\ UNCHANGED <<masking, log, kind, status, exec, said, late, file, reader>>

Land ==
  /\ inflight # <<>>
  /\ file' = file \o inflight
  /\ inflight' = <<>>
  /\ UNCHANGED <<masking, log, kind, status, exec, output, said, late, reader>>

\* A write of a handle that is gone lands.
LandLate ==
  /\ \E i \in DOMAIN late :
       /\ file' = file \o late[i]
       /\ late' = RemoveAt(late, i)
  /\ UNCHANGED <<masking, log, kind, status, exec, output, said, inflight, reader>>

\* child.wait(): the command exits.  A process it leaves behind may hold the
\* pipe and write the rest.
ChildExits ==
  /\ kind = "command" /\ ExecAt("running")
  /\ exec' = [exec EXCEPT !.pc = "exited"]
  /\ UNCHANGED <<masking, log, kind, status, output, said, inflight, late, file, reader>>

\* Faulty: the copies are not waited for.
NothingAwaited == TRUE

\* tokio::join!: the copies have read to the end and flushed.
AllCopied == output = <<>> /\ inflight = <<>>

Exit ==
  /\ ExecAt("exited") /\ AllCopied
  /\ \/ Completes("success", "exit")
     \/ Completes("failed", "exit")
     \/ Completes("failed", "signal")
  /\ late' = LateWith(inflight)
  /\ inflight' = <<>>
  /\ UNCHANGED <<masking, log, kind, said, file, reader>>

\* The timeout expires: what has not been copied is lost, and a write under
\* way still lands.
TimesOut ==
  /\ exec.pc \in (IF kind = "command" THEN {"running", "exited"} ELSE {"running"})
  /\ Completes("timed_out", "timeout")
  /\ late' = IF kind = "http" THEN late \o NoteFor("stderr") ELSE LateWith(inflight)
  /\ inflight' = <<>>
  /\ UNCHANGED <<masking, log, kind, said, file, reader>>

\* The response's headers are there: their note is written, and the body is
\* read, without a timeout.
Respond ==
  /\ kind = "http" /\ ExecAt("running")
  /\ exec' = [exec EXCEPT !.pc = "body"]
  /\ late' = late \o NoteFor("stderr")
  /\ UNCHANGED <<masking, log, kind, status, output, said, inflight, file, reader>>

\* What there is of the body, or nothing of it, is written and not flushed.
ReadBody ==
  /\ ExecAt("body")
  /\ exec' = [exec EXCEPT !.pc = "exited"]
  /\ \E body \in {SubSeq(output, 1, Min({MaxBody, Len(output)})), <<>>} :
       late' = LateWith(body)
  /\ output' = <<>>
  /\ UNCHANGED <<masking, log, kind, status, said, inflight, file, reader>>

\* run_with_retries, after the delay: the marker is written, not flushed.
AppendRetryMarker ==
  /\ ExecAt("backoff")
  /\ exec' = [exec EXCEPT !.pc = "marked"]
  /\ late' = Append(late, Marker)
  /\ UNCHANGED <<masking, log, kind, status, output, said, inflight, file, reader>>

ResetToPending ==
  /\ ExecAt("marked")
  /\ status' = "pending"
  /\ exec' = [exec EXCEPT !.pc = "begin", !.attempt = @ + 1]
  /\ UNCHANGED <<masking, log, kind, output, said, inflight, late, file, reader>>

----
(***************************************************************************)
(* log_stream.                                                             *)
(***************************************************************************)
ReaderAt(l) == reader.pc = l

\* Faulty: a command that timed out is not taken for one that has ended.
EndsByItself == status \in {"success", "failed"}

IsTerminal == status \in {"success", "failed", "timed_out"}

\* Faulty: patterns do not keep a log from being sent as it comes.
StreamsAnyway == FALSE

\* defer_live_streaming
Deferred == masking.patterns # <<>>

Connect ==
  /\ ReaderAt("absent")
  /\ reader' = [reader EXCEPT !.pc = IF IsTerminal THEN "whole"
                                     ELSE IF Deferred THEN "wait" ELSE "poll"]
  /\ UNCHANGED <<masking, log, kind, status, exec, output, said, inflight, late, file>>

\* read_log_file: a file that is not text is not shown at all.
WholeFile(r, masked) ==
  [r EXCEPT !.offset = Len(file), !.lost = ~IsText(file),
            !.sent = IF IsText(file) THEN masked ELSE <<>>]

\* masked_log_file_event, then the status, read once more.
SendWhole ==
  /\ ReaderAt("whole")
  /\ reader' = [WholeFile(reader, ShowWhole(file)) EXCEPT !.pc = "done", !.told = status]
  /\ UNCHANGED <<masking, log, kind, status, exec, output, said, inflight, late, file>>

Wait ==
  /\ ReaderAt("wait") /\ IsTerminal
  /\ reader' = [reader EXCEPT !.pc = "whole"]
  /\ UNCHANGED <<masking, log, kind, status, exec, output, said, inflight, late, file>>

\* execution_detail reads the status.  The page of one that is running has
\* no logs, and connects to the stream.
OpenPage ==
  /\ ReaderAt("absent") /\ status # "running"
  /\ reader' = [reader EXCEPT !.pc = "page", !.told = status]
  /\ UNCHANGED <<masking, log, kind, status, exec, output, said, inflight, late, file>>

\* The templates escape what they are given.
PageText == HtmlEscape(MaskSecrets(file))

\* Then it reads the logs, and the page stays as it is.
ShowPage ==
  /\ ReaderAt("page")
  /\ reader' = [WholeFile(reader, PageText) EXCEPT !.pc = "shown"]
  /\ UNCHANGED <<masking, log, kind, status, exec, output, said, inflight, late, file>>

NoReader == [pc |-> "absent", offset |-> 0, buffer |-> <<>>, sent |-> <<>>,
             lost |-> FALSE, told |-> "none"]

\* The page loads again when its stream is done.
Reload ==
  /\ ReaderAt("done")
  /\ reader' = NoReader
  /\ UNCHANGED <<masking, log, kind, status, exec, output, said, inflight, late, file>>

\* LogStreamMasker::push
Push(r, text) ==
  LET all == r.buffer \o text
      n == SafeEmitPrefixLen(all)
  IN [r EXCEPT !.sent = @ \o Show(SubSeq(all, 1, n)),
               !.buffer = SubSeq(all, n + 1, Len(all))]

\* LogStreamMasker::flush
Flush(r) == [r EXCEPT !.sent = @ \o Show(r.buffer), !.buffer = <<>>]

\* read_new_text: what the next read returns.
NextChunk ==
  SubSeq(file, reader.offset + 1, Min({reader.offset + ChunkBytes, Len(file)}))

\* The offset is past the chunk before it is known to be text.
ReadNewText(r) ==
  LET read == [r EXCEPT !.offset = @ + Len(NextChunk)]
  IN IF IsText(NextChunk) THEN Push(read, NextChunk) ELSE [read EXCEPT !.lost = TRUE]

Poll ==
  /\ ReaderAt("poll")
  /\ reader' = IF NextChunk = <<>> THEN [reader EXCEPT !.pc = "check"]
               ELSE ReadNewText([reader EXCEPT !.pc = "check"])
  /\ UNCHANGED <<masking, log, kind, status, exec, output, said, inflight, late, file>>

CheckStatus ==
  /\ ReaderAt("check")
  /\ reader' = [reader EXCEPT !.pc = IF IsTerminal THEN "drain" ELSE "poll",
                              !.told = IF IsTerminal THEN status ELSE @]
  /\ UNCHANGED <<masking, log, kind, status, exec, output, said, inflight, late, file>>

\* Faulty: ends with what the last poll read.
NeverMore == FALSE

\* The last reads go on while there is more, and it is text.
MoreText == NextChunk # <<>> /\ IsText(NextChunk)

Drain ==
  /\ ReaderAt("drain")
  /\ reader' = IF MoreText THEN ReadNewText(reader)
               ELSE [Flush(reader) EXCEPT !.pc = "done",
                                          !.lost = @ \/ ~IsText(NextChunk)]
  /\ UNCHANGED <<masking, log, kind, status, exec, output, said, inflight, late, file>>

----
Init ==
  /\ masking \in Maskings
  /\ log \in {"stdout", "stderr"} /\ kind \in {"command", "http"}
  /\ status = "pending"
  /\ exec = [pc |-> "begin", attempt |-> 0, end |-> "none"]
  /\ output = <<>> /\ said = <<>> /\ inflight = <<>> /\ late = <<>> /\ file = <<>>
  /\ reader = NoReader

Execute ==
  \/ MarkRunning \/ NotStarted \/ ChildExits \/ Exit \/ TimesOut \/ Respond
  \/ AppendRetryMarker \/ ResetToPending

Read == SendWhole \/ ShowPage \/ Wait \/ Poll \/ CheckStatus \/ Drain

\* When Read is enabled.
MayRead ==
  \/ reader.pc \in {"page", "whole", "poll", "check", "drain"}
  \/ ReaderAt("wait") /\ IsTerminal

Next ==
  \/ Execute \/ Copy \/ ReadBody \/ Land \/ LandLate
  \/ OpenPage \/ Connect \/ Read \/ Reload

\* The runtime polls every task, the blocking pool does every write, and a
\* timeout ends what does not end.  A response's body need not come.
Fairness ==
  /\ WF_vars(Execute) /\ WF_vars(Copy) /\ WF_vars(Land) /\ WF_vars(LandLate)
  /\ []<>~MayRead \/ []<><<Read>>_vars    \* WF_vars(Read)

Spec == Init /\ [][Next]_vars /\ Fairness

----
Text == Seq(Bytes \cup Added)

\* What is in the handles, the file and the reader is text of this execution,
\* and the reader is never ahead of the file (LogTail).
TypeOK ==
  /\ masking \in Maskings
  /\ log \in {"stdout", "stderr"} /\ kind \in {"command", "http"}
  /\ status \in Statuses
  /\ exec \in [pc : ExecPCs, attempt : 0..MaxRetries,
               end : {"none", "exit", "signal", "not_started", "timeout"}]
  /\ output \in Text /\ said \in Text /\ inflight \in Text /\ file \in Text
  /\ late \in Seq(Text)
  /\ reader \in [pc : ReaderPCs, offset : 0..Len(file), buffer : Text,
                 sent : Text, lost : BOOLEAN, told : Statuses \cup {"none"}]

\* However the output is cut into reads, the stream has sent of what it has
\* read exactly what masking it at once shows, but for what the masker still
\* holds (push and flush, safe_emit_prefix_len).
SentIsMasked ==
  reader.pc \notin {"page", "shown"} /\ ~reader.lost /\ ~Deferred
  => reader.sent \o Show(reader.buffer) = Show(SubSeq(file, 1, reader.offset))

\* No secret, and nothing a pattern matches, is ever shown, in the stream or
\* on the page: not across two reads, not around a lost one, not escaped
\* (mask_and_escape, push, execution_detail).
NothingSecretIsShown ==
  \A word \in ToSet(masking.secrets \o masking.patterns) :
    \A i \in DOMAIN reader.sent : ~OccursAt(HtmlEscape(word), reader.sent, i)

\* Who is told that a command which is not retried ended by itself has been
\* shown all it wrote, by the stream or by the page, unless some of it was no
\* text when it was read (run_shell's join, log_stream's last reads).
AllIsShownWhenDone ==
  /\ reader.pc \in {"done", "shown"} /\ reader.told \in {"success", "failed"}
  /\ ~reader.lost /\ kind = "command"
  /\ exec.attempt = 0 /\ exec.pc \in {"backoff", "ended"} /\ exec.end \in {"exit", "signal"}
  => reader.sent = ShowWhole(said)

\* What is in a log but for the markers, counted from the end.
Own(text) == {i \in DOMAIN text : text[i] # Marker[1]}
FromTheEnd(text, i) == Cardinality({j \in Own(text) : i <= j})

EndsIn(text, word) ==
  /\ Len(word) <= Cardinality(Own(text))
  /\ \A i \in Own(text) :
       FromTheEnd(text, i) <= Len(word)
       => text[i] = word[Len(word) + 1 - FromTheEnd(text, i)]

\* When the status is that of an exit, all the command wrote is in the file
\* (run_shell, run_script: status after the copies).
OutputBeforeStatus ==
  kind = "command" /\ IsTerminal /\ exec.end \in {"exit", "signal"}
  => EndsIn(file, said)

\* Once connected, a stream ends, and a page that is asked for is shown, if a
\* response's body does not keep the execution from ending (log_stream,
\* run_with_retries).
StreamEnds ==
  []<>(~ExecAt("body"))
  => [](~ReaderAt("absent") => <>(reader.pc \in {"done", "shown"}))

=============================================================================
