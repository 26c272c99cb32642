--------------------------- MODULE ProgressSession ---------------------------
(***************************************************************************)
(* The progress of one start command: the output of a docker or kind child *)
(* is cut into lines by two goroutines (src/internal/progress,             *)
(* src/internal/boundedio, the runners) and reported, between the reports  *)
(* of the operation itself, to the session (src/internal/cli/progress.go), *)
(* which a user interface goroutine renders until finish ends it.          *)
(*                                                                         *)
(* A step is what runs under the mutex of the session, or one call of a    *)
(* goroutine.  A line of the child is its length and a text of the         *)
(* operation a number that names it; redaction is left out.                *)
(***************************************************************************)
EXTENDS Integers, Sequences, FiniteSets, SequencesExt

CONSTANTS
  Text,         \* what the operation reports as a stage, readiness or warning
  Scripts,      \* what a child may write: one sequence of bytes per stream
  MaxPartial,   \* maxPartialLine of the LineWriter
  LineMax,      \* progressLineBytes
  Capture,      \* commandCaptureBytes
  LogMax,       \* progressLogMaxBytes
  MarkerSize,   \* length of the truncation marker
  TailRows,     \* progressTailRows
  MaxReports    \* bound: reports of the operation

Stream == {"out", "err"}
Byte   == {"c", "nl", "cr"}   \* visible, line feed, carriage return
Kind   == {"stage", "activity", "readiness", "warning"}

ASSUME SizesAssumption ==
  /\ {MaxPartial, LineMax, MarkerSize, TailRows} \subseteq Nat \ {0}
  /\ {Capture, LogMax, MaxReports} \subseteq Nat
  /\ Text \subseteq Nat \ {0} /\ Scripts \subseteq [Stream -> Seq(Byte)]
  /\ MaxPartial <= LineMax * TailRows

VARIABLES
  script,     \* what the child writes to each stream
  fed,        \* bytes of it that were written so far
  chunk,      \* the rest of the Write call a stream is in
  partial,    \* LineWriter: the bytes of the line that is not complete
  pend,       \* lines of the message a stream is reporting
  kept,       \* boundedio.Buffer: the bytes retained
  cut,        \* boundedio.Buffer: truncated
  said,       \* ghost: of each line of a stream, the parts it has reported
  ses,        \* the session
  heard,      \* ghost: what the session accepted, in order
  saved,      \* the failure log on disk
  pc,         \* the goroutine that runs the operation
  reports,    \* reports of the operation so far
  ui,         \* the user interface goroutine
  frame       \* what it has on the screen

streams == <<script, fed, chunk, partial, pend, kept, cut, said>>
vars    == <<script, fed, chunk, partial, pend, kept, cut, said, ses, heard, saved, pc,
             reports, ui, frame>>

-----------------------------------------------------------------------------
(* Bytes and lines.                                                        *)

\* The k-th number of a set, in increasing order.
Nth(S, k) == CHOOSE i \in S : Cardinality({x \in S : x <= i}) = k

\* strings.Split at a byte.
Pieces(s, sep) ==
  LET ends == {i \in 1..Len(s) : s[i] = sep} \cup {Len(s) + 1}
  IN  [k \in 1..Cardinality(ends) |->
         SubSeq(s, IF k = 1 THEN 1 ELSE Nth(ends, k - 1) + 1, Nth(ends, k) - 1)]

Least(a, b) == IF a < b THEN a ELSE b

FirstBytes(s, n) == SubSeq(s, 1, Least(Len(s), n))

\* TerminalText: the length of a bounded part, with its ellipsis.
Bounded(part) == IF Len(part) <= LineMax THEN Len(part) ELSE LineMax + 1

\* safeProgressLines: the non-empty parts of a message, each bounded; the bound
\* on the message is larger than a partial line.
SafeProgressLines(line) ==
  LET parts == Pieces(line, "cr")
      full  == {k \in DOMAIN parts : parts[k] # <<>>}
  IN  [j \in 1..Cardinality(full) |-> Bounded(parts[Nth(full, j)])]

\* Mutant: a piece that does not fit is dropped whole.
AppendPartialWhole(line, value) ==
  IF Len(line) + Len(value) <= MaxPartial THEN line \o value ELSE line

\* appendPartial: only the beginning of a long line is retained.
AppendPartial(line, value) == FirstBytes(line \o value, MaxPartial)

-----------------------------------------------------------------------------
(* The session.                                                            *)

Marker == [kind |-> "marker", line |-> MarkerSize]

\* Entries differ in length only by their line; a text counts one.
EntrySize(e) == IF e.kind \in {"activity", "marker"} THEN e.line ELSE 1

\* log.WriteString: the builder knows its length, log.Len().
WriteString(s, e) == [s EXCEPT !.log = Append(@, e), !.size = @ + EntrySize(e)]

\* Mutant: a log that overflowed accepts an entry that still fits.
AppendLogGaps(s, e) == IF s.size + EntrySize(e) > LogMax THEN s ELSE WriteString(s, e)

\* appendLogLocked: the first entry that does not fit closes the log.
AppendLog(s, e) ==
  IF s.logFull THEN s
  ELSE IF s.size + EntrySize(e) <= LogMax THEN WriteString(s, e)
  ELSE [IF s.size + EntrySize(Marker) <= LogMax THEN WriteString(s, Marker) ELSE s
          EXCEPT !.logFull = TRUE]

\* A stage or readiness that repeats the last one, or comes after finish.
Ignored(s, kind, line) ==
  \/ s.done
  \/ kind = "stage" /\ line = s.stage
  \/ kind = "readiness" /\ line = s.ready

\* Mutant: the tail is not shortened.
LastRowsAll(tail) == tail

LastRows(tail) == SubSeq(tail, IF Len(tail) > TailRows THEN Len(tail) - TailRows + 1 ELSE 1,
                         Len(tail))

\* reportLine, for a line that is not ignored; writeLocked may fail, and no
\* write follows one that failed.
Accept(s, kind, line, written) ==
  LET logged == AppendLog(s, [kind |-> kind, line |-> line])
      shown  == ~s.interactive /\ kind # "activity" /\ ~s.writeErr
  IN  [logged EXCEPT
         !.stage = IF kind = "stage" THEN line ELSE @,
         !.ready = IF kind = "readiness" THEN line ELSE @,
         !.tail = IF kind = "stage" THEN @ ELSE LastRows(Append(@, line)),
         !.writeErr = @ \/ (shown /\ ~written)]

ReportLine(kind, line) ==
  \/ Ignored(ses, kind, line) /\ UNCHANGED <<ses, heard>>
  \/ /\ ~Ignored(ses, kind, line)
     /\ \E written \in IF ses.interactive \/ kind = "activity" THEN {TRUE} ELSE BOOLEAN :
          ses' = Accept(ses, kind, line, written)
     /\ heard' = Append(heard, [kind |-> kind, line |-> line])

Init ==
  /\ script \in Scripts
  /\ fed = [s \in Stream |-> 0]
  /\ chunk = [s \in Stream |-> <<>>]
  /\ partial = [s \in Stream |-> <<>>]
  /\ pend = [s \in Stream |-> <<>>]
  /\ kept = [s \in Stream |-> <<>>]
  /\ cut = [s \in Stream |-> FALSE]
  /\ said = [s \in Stream |-> <<>>]
  /\ ses \in [interactive : BOOLEAN, stage : {0}, ready : {0}, tail : {<<>>}, log : {<<>>},
              size : {0}, logFull : {FALSE}, done : {FALSE}, failed : {FALSE}, writeErr : {FALSE}]
  /\ heard = <<>> /\ saved = <<>>
  /\ pc = "work" /\ reports = 0
  /\ ui = IF ses.interactive THEN "run" ELSE "gone"
  /\ frame = "none"

-----------------------------------------------------------------------------
(* The goroutines that copy the output of the child.                       *)

\* MultiWriter: the buffer first, then the LineWriter, with the same bytes.
Write(s) ==
  /\ pc = "run" /\ chunk[s] = <<>> /\ pend[s] = <<>>
  /\ \E n \in fed[s] + 1..Len(script[s]) :
       LET value == SubSeq(script[s], fed[s] + 1, n)
       IN  /\ chunk' = [chunk EXCEPT ![s] = value]
           /\ kept' = [kept EXCEPT ![s] = FirstBytes(@ \o value, Capture)]
           /\ cut' = [cut EXCEPT ![s] = @ \/ Len(value) > Capture - Len(kept[s])]
           /\ fed' = [fed EXCEPT ![s] = n]
  /\ UNCHANGED <<script, partial, pend, said, ses, heard, saved, pc, reports, ui, frame>>

\* One turn of the loop of LineWriter.Write.
Split(s) ==
  /\ chunk[s] # <<>> /\ pend[s] = <<>>
  /\ \/ /\ ~Contains(chunk[s], "nl")
        /\ partial' = [partial EXCEPT ![s] = AppendPartial(@, chunk[s])]
        /\ chunk' = [chunk EXCEPT ![s] = <<>>] /\ UNCHANGED <<pend, said>>
     \/ \E i \in 1..Len(chunk[s]) :
          LET line == SubSeq(chunk[s], 1, i - 1)
          IN  /\ chunk[s][i] = "nl" /\ ~Contains(line, "nl")
              /\ pend' = [pend EXCEPT ![s] = SafeProgressLines(AppendPartial(partial[s], line))]
              /\ said' = [said EXCEPT ![s] = Append(@, <<>>)]
              /\ partial' = [partial EXCEPT ![s] = <<>>]
              /\ chunk' = [chunk EXCEPT ![s] = SubSeq(@, i + 1, Len(@))]
  /\ UNCHANGED <<script, fed, kept, cut, ses, heard, saved, pc, reports, ui, frame>>

\* Report: the lines of one message are reported one by one.
Tell(s) ==
  /\ pend[s] # <<>>
  /\ ReportLine("activity", Head(pend[s]))
  /\ said' = [said EXCEPT ![s][Len(said[s])] = Append(@, Head(pend[s]))]
  /\ pend' = [pend EXCEPT ![s] = Tail(@)]
  /\ UNCHANGED <<script, fed, chunk, partial, kept, cut, saved, pc, reports, ui, frame>>

-----------------------------------------------------------------------------
(* The goroutine that runs the operation.                                  *)

\* A stage, readiness or warning of the operation itself.
Report(kind, line) ==
  /\ pc = "work" /\ reports < MaxReports
  /\ ReportLine(kind, line)
  /\ reports' = reports + 1
  /\ UNCHANGED <<streams, saved, pc, ui, frame>>

\* command.Run begins, once per session here.
Run ==
  /\ pc = "work" /\ \A s \in Stream : fed[s] = 0
  /\ script # [s \in Stream |-> <<>>]
  /\ pc' = "run"
  /\ UNCHANGED <<streams, ses, heard, saved, reports, ui, frame>>

\* Both copies have ended: the child is gone and command.Run returns.
Joined == \A s \in Stream : fed[s] = Len(script[s]) /\ chunk[s] = <<>> /\ pend[s] = <<>>

\* LineWriter.Close of one stream after the other: a line without an end.
CloseWriter(s, from, to) ==
  /\ pc = from /\ Joined
  /\ pend' = [pend EXCEPT ![s] = SafeProgressLines(partial[s])]
  /\ said' = [said EXCEPT ![s] = Append(@, <<>>)]
  /\ partial' = [partial EXCEPT ![s] = <<>>]
  /\ pc' = to
  /\ UNCHANGED <<script, fed, chunk, kept, cut, ses, heard, saved, reports, ui, frame>>

Close == CloseWriter("out", "run", "close") \/ CloseWriter("err", "close", "closed")

RunReturns ==
  /\ pc = "closed" /\ Joined
  /\ pc' = "work"
  /\ UNCHANGED <<streams, ses, heard, saved, reports, ui, frame>>

Failure == [kind |-> "warning", line |-> 0]

\* Mutant: the end is published before the error.
FinishedUntold(s, failed) ==
  [IF failed THEN AppendLog(s, Failure) ELSE s EXCEPT !.done = TRUE]

\* finish, under the mutex: the error goes into the log, the outcome and the
\* end become visible together.
Finished(s, failed) ==
  [IF failed THEN AppendLog(s, Failure) ELSE s EXCEPT !.done = TRUE, !.failed = failed]

\* saveFailureLogLocked, which may fail, after the failure was added to the log.
SavedLog(s, failed) == IF failed THEN {<<>>, Finished(s, failed).log} ELSE {<<>>}

\* What a snapshot of the session shows.
Shown(s) == IF ~s.done THEN "live" ELSE IF s.failed THEN "failed" ELSE "completed"

\* renderPlainFinishLocked writes the outcome, unless a write has failed.
Finish(failed) ==
  /\ pc = "work" /\ ~ses.done
  /\ ses' = Finished(ses, failed)
  /\ heard' = IF failed THEN Append(heard, Failure) ELSE heard
  /\ saved' \in SavedLog(ses, failed)
  /\ \/ ses.interactive /\ pc' = "wait" /\ UNCHANGED frame
     \/ /\ ~ses.interactive /\ pc' = "end"
        /\ frame' \in IF ses.writeErr THEN {"lost"} ELSE {Shown(ses'), "lost"}
  /\ UNCHANGED <<streams, reports, ui>>

\* finish waits for the user interface without the mutex.
FinishWait ==
  /\ pc = "wait" /\ ui = "gone"
  /\ pc' = "end"
  /\ UNCHANGED <<streams, ses, heard, saved, reports, ui, frame>>

Main == Run \/ Close \/ RunReturns \/ (\E failed \in BOOLEAN : Finish(failed)) \/ FinishWait

-----------------------------------------------------------------------------
(* The user interface goroutine.                                           *)

\* Mutant: the refresh does not look at the end.
UpdateBlind ==
  /\ ui = "run" /\ ui' = "view"
  /\ UNCHANGED <<streams, ses, heard, saved, pc, reports, frame>>

\* Update on refreshProgressMsg: one snapshot, for the decision to quit.
Update ==
  /\ ui = "run"
  /\ ui' = IF ses.done THEN "quit" ELSE "view"
  /\ UNCHANGED <<streams, ses, heard, saved, pc, reports, frame>>

\* View: another snapshot, for what is drawn; a tick follows unless it quits.
View ==
  /\ ui \in {"view", "quit"}
  /\ frame' = Shown(ses)
  /\ ui' = IF ui = "quit" THEN "gone" ELSE "run"
  /\ UNCHANGED <<streams, ses, heard, saved, pc, reports>>

\* program.Run may fail at any time, and its error is dropped.
Lost ==
  /\ ui = "run" /\ ui' = "gone"
  /\ frame' = "lost"
  /\ UNCHANGED <<streams, ses, heard, saved, pc, reports>>

-----------------------------------------------------------------------------

\* The command has returned.
Terminated == pc = "end" /\ UNCHANGED vars

Next ==
  \/ \E s \in Stream : Write(s) \/ Split(s) \/ Tell(s)
  \/ \E kind \in Kind \ {"activity"}, line \in Text : Report(kind, line)
  \/ Main
  \/ Update \/ View \/ Lost
  \/ Terminated

Spec == Init /\ [][Next]_vars

\* Goroutines are scheduled, the child ends or is killed at its deadline, and
\* the ticks of the user interface come every 80 ms.
FairSpec ==
  /\ Spec
  /\ \A s \in Stream : WF_vars(Write(s) \/ Split(s) \/ Tell(s))
  /\ WF_vars(Main)
  /\ WF_vars(Update \/ View)

-----------------------------------------------------------------------------
(* Properties.                                                             *)

TypeOK ==
  /\ script \in Scripts
  /\ fed \in [Stream -> Nat]
  /\ cut \in [Stream -> BOOLEAN]
  /\ \A s \in Stream :
       Len(partial[s]) <= MaxPartial /\ Len(kept[s]) <= Capture
  /\ Len(ses.tail) <= TailRows /\ ses.size <= LogMax
  /\ {ses.interactive, ses.logFull, ses.done, ses.failed, ses.writeErr} \subseteq BOOLEAN
  /\ pc \in {"work", "run", "close", "closed", "wait", "end"}
  /\ reports \in 0..MaxReports
  /\ ui \in {"run", "view", "quit", "gone"}
  /\ frame \in {"none", "live", "completed", "failed", "lost"}

\* What is to be reported of each line of a whole stream.
LinesOf(bytes) ==
  LET lines == Pieces(bytes, "nl")
  IN  [k \in DOMAIN lines |-> SafeProgressLines(FirstBytes(lines[k], MaxPartial))]

\* Of a stream the parts told were reported, line by line, and rest is what is
\* still to be reported of the last of these lines.
Told(bytes, told, rest) ==
  LET lines == LinesOf(bytes)
      n     == Len(told)
  IN  /\ n <= Len(lines) /\ \A k \in 1..n - 1 : told[k] = lines[k]
      /\ IF n > 0 THEN told[n] \o rest = lines[n] ELSE rest = <<>>

\* The captured output of a child is exactly its beginning, however it is cut
\* into writes, and marked truncated exactly when bytes are missing.
CaptureIsFaithful ==
  \A s \in Stream :
    /\ kept[s] = FirstBytes(SubSeq(script[s], 1, fed[s]), Capture)
    /\ cut[s] <=> fed[s] > Capture

\* However the output of a child is cut into writes, and however long a line
\* is, its lines are reported whole, once and in order, and so is what is kept
\* of it for the error message.
StreamsAreFaithful ==
  /\ \A s \in Stream :
       /\ Told(script[s], said[s], pend[s])
       /\ pc \in {"end", "wait"} /\ fed[s] > 0 => said[s] = LinesOf(script[s])
  /\ CaptureIsFaithful

\* The log of a failure has no holes: it is what the session accepted, from
\* the beginning and in order, up to where it became full; nothing follows the
\* truncation marker.  The file is that log, so unless it was full it ends with
\* the failure itself.
LogHasNoHoles ==
  LET marked  == ses.log # <<>> /\ Last(ses.log) = Marker
      entries == IF marked THEN Front(ses.log) ELSE ses.log
  IN  /\ IsPrefix(entries, heard) /\ ~Contains(entries, Marker)
      /\ ~ses.logFull => ses.log = heard
      /\ saved # <<>> => saved = ses.log /\ Last(heard) = Failure

\* The last thing on the terminal is the outcome, although the operation ends
\* between the two snapshots of a refresh: stderr is given back to the error
\* message only then.
LastFrameTellsOutcome ==
  pc = "end" /\ frame # "lost" =>
    frame = IF saved # <<>> \/ Contains(heard, Failure) THEN "failed" ELSE "completed"

\* The command ends: finish waits for the user interface, which ends by itself
\* or has died before.
SessionEnds == <>(pc = "end")

=============================================================================
