----------------------- MODULE ProgressSessionProofs -----------------------
(***************************************************************************)
(* What the session of ProgressSession keeps and shows, for any output of  *)
(* the child, any reports of the operation and any sizes; then what is     *)
(* captured and what is reported of the output, however it is written.     *)
(***************************************************************************)
EXTENDS ProgressSession, FiniteSetTheorems, TLAPS

-----------------------------------------------------------------------------
(* The inductive invariant.                                                *)

Field == {"interactive", "stage", "ready", "tail", "log", "size", "logFull", "done", "failed",
          "writeErr"}

\* The session is a record and has the sequences it should have, of lines of
\* whatever kind the child writes.
SessionTypes ==
  /\ DOMAIN ses = Field
  /\ ses.interactive \in BOOLEAN /\ ses.logFull \in BOOLEAN
  /\ ses.done \in BOOLEAN /\ ses.failed \in BOOLEAN
  /\ ui \in {"run", "view", "quit", "gone"}

SeqTypes == \E set : heard \in Seq(set) /\ ses.log \in Seq(set)

\* The log is the first n entries that were accepted, and perhaps the marker.
CutAt(n) ==
  /\ n <= Len(heard) /\ \A i \in 1..n : ses.log[i] = heard[i]
  /\ Len(ses.log) = n \/ (Len(ses.log) = n + 1 /\ ses.log[n + 1] = Marker)

LogInv ==
  /\ \A i \in 1..Len(heard) : heard[i].kind \in Kind
  /\ ~ses.logFull => ses.log = heard
  /\ \E n \in Nat : CutAt(n)

\* The outcome becomes visible with the end, and the file is written with it.
OutcomeInv ==
  /\ ses.done <=> pc \in {"wait", "end"}
  /\ ses.failed => ses.done
  /\ ses.failed <=> Contains(heard, Failure)
  /\ saved # <<>> => ses.failed /\ saved = ses.log /\ Last(heard) = Failure

\* The last frame was drawn after the end.
FrameInv ==
  /\ pc = "wait" => ses.interactive
  /\ ~ses.interactive => ui = "gone"
  /\ ui = "quit" => ses.done
  /\ ses.interactive /\ ui = "gone" => frame = "lost" \/ (ses.done /\ frame = Shown(ses))
  /\ ses.interactive /\ pc = "end" => ui = "gone"
  /\ ~ses.interactive /\ pc = "end" => frame \in {Shown(ses), "lost"}

Inv == SessionTypes /\ SeqTypes /\ LogInv /\ OutcomeInv /\ FrameInv

-----------------------------------------------------------------------------
(* Entries.                                                                *)

\* Appending, for entries of any kind.
LEMMA Appended ==
  ASSUME NEW set, NEW s \in Seq(set), NEW e
  PROVE  /\ s \in Seq(set \cup {e}) /\ Append(s, e) \in Seq(set \cup {e})
         /\ Len(s) \in Nat /\ Len(Append(s, e)) = Len(s) + 1
         /\ \A i \in 1..Len(s) : Append(s, e)[i] = s[i]
         /\ Append(s, e)[Len(s) + 1] = e
OBVIOUS

\* appendLogLocked changes the log only.
LEMMA AppendLogFields ==
  ASSUME NEW s, DOMAIN s = Field, s.logFull \in BOOLEAN, NEW e
  PROVE  /\ DOMAIN AppendLog(s, e) = Field
         /\ AppendLog(s, e).interactive = s.interactive /\ AppendLog(s, e).done = s.done
         /\ AppendLog(s, e).failed = s.failed /\ AppendLog(s, e).logFull \in BOOLEAN
BY DEF AppendLog, WriteString, Field

\* What it does with an entry that was accepted.
LEMMA AppendLogOK ==
  ASSUME SessionTypes, SeqTypes, LogInv, NEW e, e.kind \in Kind,
         ses'.log = AppendLog(ses, e).log, ses'.logFull = AppendLog(ses, e).logFull,
         heard' = Append(heard, e)
  PROVE  SeqTypes' /\ LogInv'
<1>1. PICK set : heard \in Seq(set) /\ ses.log \in Seq(set)
  BY DEF SeqTypes
<1>2. PICK n \in Nat : CutAt(n)
  BY DEF LogInv
<1>0. PICK h \in Nat : h = Len(heard)
  BY <1>1
<1> DEFINE more == set \cup {e} \cup {Marker}
<1>3. /\ heard \in Seq(more) /\ heard' \in Seq(more) /\ Len(heard') = h + 1
      /\ \A i \in 1..h : heard'[i] = heard[i]
      /\ heard'[h + 1] = e
  <2>1. heard \in Seq(set \cup {Marker})
    BY <1>1, Appended
  <2> QED
    BY <1>0, <2>1, Appended
<1>4. /\ ses.log \in Seq(more) /\ Append(ses.log, Marker) \in Seq(more)
      /\ Len(ses.log) \in Nat /\ Len(Append(ses.log, Marker)) = Len(ses.log) + 1
      /\ \A i \in 1..Len(ses.log) : Append(ses.log, Marker)[i] = ses.log[i]
      /\ Append(ses.log, Marker)[Len(ses.log) + 1] = Marker
  <2>1. ses.log \in Seq(set \cup {e})
    BY <1>1, Appended
  <2> QED
    BY <2>1, Appended
<1> HIDE DEF more
<1>5. \A i \in 1..Len(heard') : heard'[i].kind \in Kind
  <2>1. \A i \in 1..h + 1 : i \in 1..h \/ i = h + 1
    BY <1>3
  <2> QED
    BY <1>0, <1>3, <2>1 DEF LogInv
<1>6. CASE ses.logFull
  <2>1. ses'.log = ses.log /\ ses'.logFull = ses.logFull
    BY <1>6 DEF AppendLog
  <2>2. CutAt(n)'
    BY <1>0, <1>2, <1>3, <2>1 DEF CutAt
  <2> QED
    BY <1>3, <1>4, <1>5, <1>6, <2>1, <2>2 DEF SeqTypes, LogInv
<1>7. CASE ~ses.logFull /\ ses.size + EntrySize(e) <= LogMax
  <2>1. ses'.log = Append(ses.log, e) /\ ses'.logFull = ses.logFull
    BY <1>7 DEF AppendLog, WriteString, SessionTypes, Field
  <2>2. ses'.log = heard'
    BY <1>7, <2>1 DEF LogInv
  <2>3. CutAt(h + 1)'
    BY <1>3, <2>2 DEF CutAt
  <2> QED
    BY <1>3, <1>5, <2>2, <2>3 DEF SeqTypes, LogInv
<1>8. CASE ~ses.logFull /\ ~(ses.size + EntrySize(e) <= LogMax)
  <2>1. /\ ses'.logFull = TRUE
        /\ ses'.log = ses.log \/ ses'.log = Append(ses.log, Marker)
    BY <1>8 DEF AppendLog, WriteString, SessionTypes, Field
  <2>2. ses.log = heard
    BY <1>8 DEF LogInv
  <2>3. CutAt(h)'
    BY <1>0, <1>3, <1>4, <2>1, <2>2 DEF CutAt
  <2>4. ses'.log \in Seq(more)
    BY <1>4, <2>1
  <2> QED
    BY <1>3, <1>5, <2>1, <2>3, <2>4 DEF SeqTypes, LogInv
<1> QED
  BY <1>6, <1>7, <1>8

-----------------------------------------------------------------------------
(* The steps of the session.                                               *)

\* reportLine leaves the mode and the outcome alone and logs one entry.
LEMMA AcceptFields ==
  ASSUME SessionTypes, NEW kind, NEW line, NEW written,
         ses' = Accept(ses, kind, line, written)
  PROVE  /\ DOMAIN ses' = Field
         /\ ses'.interactive = ses.interactive /\ ses'.done = ses.done
         /\ ses'.failed = ses.failed /\ ses'.logFull \in BOOLEAN
         /\ ses'.log = AppendLog(ses, [kind |-> kind, line |-> line]).log
         /\ ses'.logFull = AppendLog(ses, [kind |-> kind, line |-> line]).logFull
<1> DEFINE logged == AppendLog(ses, [kind |-> kind, line |-> line])
<1>1. /\ DOMAIN logged = Field /\ logged.interactive = ses.interactive
      /\ logged.done = ses.done /\ logged.failed = ses.failed /\ logged.logFull \in BOOLEAN
  BY AppendLogFields DEF SessionTypes
<1>2. ses' = Accept(ses, kind, line, written)
  OBVIOUS
<1>3. /\ DOMAIN Accept(ses, kind, line, written) = DOMAIN logged
      /\ DOMAIN logged = Field =>
           /\ Accept(ses, kind, line, written).interactive = logged.interactive
           /\ Accept(ses, kind, line, written).done = logged.done
           /\ Accept(ses, kind, line, written).failed = logged.failed
           /\ Accept(ses, kind, line, written).log = logged.log
           /\ Accept(ses, kind, line, written).logFull = logged.logFull
  <2> HIDE DEF logged
  <2> DEFINE a == IF kind = "stage" THEN line ELSE logged.stage
             b == IF kind = "readiness" THEN line ELSE logged.ready
             c == IF kind = "stage" THEN logged.tail ELSE LastRows(Append(logged.tail, line))
             d == logged.writeErr \/ ((~ses.interactive /\ kind # "activity" /\ ~ses.writeErr)
                                        /\ ~written)
  <2>1. Accept(ses, kind, line, written) =
          [logged EXCEPT !.stage = a, !.ready = b, !.tail = c, !.writeErr = d]
    BY Zenon DEF Accept, logged
  <2> HIDE DEF a, b, c, d
  <2> QED
    BY <2>1 DEF Field
<1> HIDE DEF logged
<1>4. QED
  BY <1>1, <1>2, <1>3 DEF logged

\* finish: the failure goes into the log, and then the outcome is there.
LEMMA FinishedFields ==
  ASSUME SessionTypes, NEW failed \in BOOLEAN, ses' = Finished(ses, failed)
  PROVE  /\ DOMAIN ses' = Field
         /\ ses'.interactive = ses.interactive /\ ses'.done = TRUE
         /\ ses'.failed = failed /\ ses'.logFull \in BOOLEAN
         /\ failed => /\ ses'.log = AppendLog(ses, Failure).log
                      /\ ses'.logFull = AppendLog(ses, Failure).logFull
         /\ ~failed => ses'.log = ses.log /\ ses'.logFull = ses.logFull
<1> DEFINE logged == IF failed THEN AppendLog(ses, Failure) ELSE ses
<1>1. /\ DOMAIN logged = Field /\ logged.interactive = ses.interactive
      /\ logged.logFull \in BOOLEAN
  BY AppendLogFields DEF SessionTypes
<1>2. ses' = [logged EXCEPT !.done = TRUE, !.failed = failed]
  BY Zenon DEF Finished, logged
<1>3. /\ failed => logged = AppendLog(ses, Failure)
      /\ ~failed => logged = ses
  OBVIOUS
<1> HIDE DEF logged
<1> QED
  BY <1>1, <1>2, <1>3 DEF Field

\* A new entry is the failure or it is not.
LEMMA ContainsAppended ==
  ASSUME NEW set, NEW s \in Seq(set), NEW e
  PROVE  /\ Contains(Append(s, e), Failure) <=> Contains(s, Failure) \/ e = Failure
         /\ Last(Append(s, e)) = e
<1>1. /\ Len(s) \in Nat /\ Len(Append(s, e)) = Len(s) + 1
      /\ \A i \in 1..Len(s) : Append(s, e)[i] = s[i]
      /\ Append(s, e)[Len(s) + 1] = e
  BY Appended
<1>2. \A i \in 1..Len(s) + 1 : i \in 1..Len(s) \/ i = Len(s) + 1
  BY <1>1
<1>3. \A i \in 1..Len(s) : i \in 1..Len(s) + 1
  BY <1>1
<1>4. Len(s) + 1 \in 1..Len(s) + 1
  BY <1>1
<1> QED
  BY <1>1, <1>2, <1>3, <1>4 DEF Contains, Last

\* A line that is reported, by the operation or by one of the streams.
LEMMA ReportLineOK ==
  ASSUME Inv, NEW kind \in Kind, NEW line, kind # "activity" => line # 0,
         ReportLine(kind, line), UNCHANGED <<saved, pc, ui, frame>>
  PROVE  Inv'
<1>1. CASE UNCHANGED <<ses, heard>>
  BY <1>1 DEF Inv, SessionTypes, SeqTypes, LogInv, CutAt, OutcomeInv, FrameInv, Shown, Contains
<1>2. CASE ~Ignored(ses, kind, line) /\ heard' = Append(heard, [kind |-> kind, line |-> line])
           /\ \E written : ses' = Accept(ses, kind, line, written)
  <2> DEFINE e == [kind |-> kind, line |-> line]
  <2>1. PICK written : ses' = Accept(ses, kind, line, written)
    BY <1>2
  <2>2. /\ DOMAIN ses' = Field
        /\ ses'.interactive = ses.interactive /\ ses'.done = ses.done
        /\ ses'.failed = ses.failed /\ ses'.logFull \in BOOLEAN
        /\ ses'.log = AppendLog(ses, e).log /\ ses'.logFull = AppendLog(ses, e).logFull
    BY <2>1, AcceptFields DEF Inv
  <2>3. e.kind \in Kind /\ e # Failure
    BY DEF Failure
  <2>4. heard' = Append(heard, e)
    BY <1>2
  <2> HIDE DEF e
  <2>5. SessionTypes'
    BY <2>2 DEF Inv, SessionTypes
  <2>6. SeqTypes' /\ LogInv'
    BY <2>2, <2>3, <2>4, AppendLogOK DEF Inv
  <2>7. ses.done = FALSE /\ ses.failed = FALSE /\ saved = <<>> /\ pc \notin {"wait", "end"}
    BY <1>2 DEF Ignored, Inv, SessionTypes, OutcomeInv
  <2>8. Contains(heard', Failure) <=> Contains(heard, Failure)
    BY <2>3, <2>4, ContainsAppended DEF Inv, SeqTypes
  <2>9. OutcomeInv'
    BY <2>2, <2>7, <2>8 DEF Inv, OutcomeInv
  <2>10. FrameInv'
    BY <2>2, <2>7 DEF Inv, FrameInv
  <2> QED
    BY <2>5, <2>6, <2>9, <2>10 DEF Inv
<1> QED
  BY <1>1, <1>2 DEF ReportLine

\* The end of the operation.
LEMMA FinishOK ==
  ASSUME Inv, NEW failed \in BOOLEAN, Finish(failed)
  PROVE  Inv'
<1>1. /\ DOMAIN ses' = Field
      /\ ses'.interactive = ses.interactive /\ ses'.done = TRUE
      /\ ses'.failed = failed /\ ses'.logFull \in BOOLEAN
      /\ failed => /\ ses'.log = AppendLog(ses, Failure).log
                   /\ ses'.logFull = AppendLog(ses, Failure).logFull
      /\ ~failed => ses'.log = ses.log /\ ses'.logFull = ses.logFull
  BY FinishedFields DEF Finish, Inv
<1>2. /\ pc = "work" /\ ses.done = FALSE /\ ses.failed = FALSE /\ saved = <<>>
      /\ pc' \in {"wait", "end"} /\ ui' = ui
      /\ ses.interactive => pc' = "wait" /\ frame' = frame
      /\ ~ses.interactive => pc' = "end" /\ frame' \in {Shown(ses'), "lost"}
  BY DEF Finish, Inv, SessionTypes, OutcomeInv
<1>3. failed => heard' = Append(heard, Failure)
  BY DEF Finish
<1>4. ~failed => heard' = heard
  BY DEF Finish
<1>5. SessionTypes'
  BY <1>1, <1>2 DEF Inv, SessionTypes
<1>6. SeqTypes' /\ LogInv'
  <2>1. CASE failed
    <3>1. Failure.kind \in Kind
      BY DEF Failure, Kind
    <3> QED
      BY <1>1, <1>3, <2>1, <3>1, AppendLogOK DEF Inv
  <2>2. CASE ~failed
    BY <1>1, <1>4, <2>2 DEF Inv, SeqTypes, LogInv, CutAt
  <2> QED
    BY <2>1, <2>2
<1>7. (failed => Contains(heard', Failure) /\ Last(heard') = Failure)
      /\ (Contains(heard', Failure) => failed)
  <2>1. ~Contains(heard, Failure)
    BY <1>2 DEF Inv, OutcomeInv
  <2>2. CASE failed
    BY <1>3, <2>2, ContainsAppended DEF Inv, SeqTypes
  <2>3. CASE ~failed
    BY <1>4, <2>1, <2>3
  <2> QED
    BY <2>2, <2>3
<1>8. saved' # <<>> => failed /\ saved' = ses'.log
  BY DEF Finish, SavedLog
<1>9. OutcomeInv'
  BY <1>1, <1>2, <1>7, <1>8 DEF OutcomeInv
<1>10. FrameInv'
  <2>1. CASE ses.interactive
    BY <1>1, <1>2, <2>1 DEF Inv, FrameInv
  <2>2. CASE ~ses.interactive
    BY <1>1, <1>2, <2>2 DEF Inv, FrameInv
  <2> QED
    BY <2>1, <2>2
<1> QED
  BY <1>5, <1>6, <1>9, <1>10 DEF Inv

\* A step that leaves the session and the screen alone.
LEMMA SameSession ==
  ASSUME Inv, UNCHANGED <<ses, heard, saved, ui, frame>>,
         pc' = pc \/ {pc, pc'} \cap {"wait", "end"} = {}
  PROVE  Inv'
<1>1. /\ ses' = ses /\ heard' = heard /\ saved' = saved /\ ui' = ui /\ frame' = frame
      /\ pc' \in {"wait", "end"} <=> pc \in {"wait", "end"}
      /\ pc' = "end" <=> pc = "end"
      /\ pc' = "wait" <=> pc = "wait"
  OBVIOUS
<1>2. SessionTypes' /\ SeqTypes' /\ LogInv'
  BY <1>1 DEF Inv, SessionTypes, SeqTypes, LogInv, CutAt
<1>3. OutcomeInv'
  BY <1>1 DEF Inv, OutcomeInv
<1>4. FrameInv'
  BY <1>1 DEF Inv, FrameInv
<1> QED
  BY <1>2, <1>3, <1>4 DEF Inv

\* finish returns when the user interface is gone.
LEMMA FinishWaitOK ==
  ASSUME Inv, FinishWait
  PROVE  Inv'
<1>1. /\ ses' = ses /\ heard' = heard /\ saved' = saved /\ ui' = ui /\ frame' = frame
      /\ pc = "wait" /\ ui = "gone" /\ pc' = "end"
  BY DEF FinishWait
<1>2. SessionTypes' /\ SeqTypes' /\ LogInv'
  BY <1>1 DEF Inv, SessionTypes, SeqTypes, LogInv, CutAt
<1>3. OutcomeInv'
  BY <1>1 DEF Inv, OutcomeInv
<1>4. FrameInv'
  BY <1>1 DEF Inv, FrameInv
<1> QED
  BY <1>2, <1>3, <1>4 DEF Inv

\* The user interface goroutine: only a snapshot taken after the end makes it
\* quit, and the one it draws then is later still.
LEMMA InterfaceOK ==
  ASSUME Inv, Update \/ View \/ Lost
  PROVE  Inv'
<1>1. /\ ses' = ses /\ heard' = heard /\ saved' = saved /\ pc' = pc
      /\ ui \in {"run", "view", "quit"} /\ ui' \in {"run", "view", "quit", "gone"}
      /\ ui' = "quit" => ses.done
      /\ ui' = "gone" => frame' = "lost" \/ (ui = "quit" /\ frame' = Shown(ses))
  BY DEF Update, View, Lost
<1>2. SessionTypes' /\ SeqTypes' /\ LogInv'
  BY <1>1 DEF Inv, SessionTypes, SeqTypes, LogInv, CutAt
<1>3. OutcomeInv'
  BY <1>1 DEF Inv, OutcomeInv
<1>4. FrameInv'
  BY <1>1 DEF Inv, FrameInv, SessionTypes
<1> QED
  BY <1>2, <1>3, <1>4 DEF Inv

LEMMA InitInv == Init => Inv
<1> SUFFICES ASSUME Init PROVE Inv
  OBVIOUS
<1>1. /\ DOMAIN ses = Field /\ ses.interactive \in BOOLEAN /\ ses.logFull = FALSE
      /\ ses.done = FALSE /\ ses.failed = FALSE /\ ses.log = <<>>
  BY DEF Init, Field
<1>2. /\ heard = <<>> /\ saved = <<>> /\ pc = "work"
      /\ ui = IF ses.interactive THEN "run" ELSE "gone"
  BY DEF Init
<1>3. SessionTypes
  BY <1>1, <1>2 DEF SessionTypes
<1>4. SeqTypes
  BY <1>1, <1>2 DEF SeqTypes
<1>5. LogInv
  <2>1. CutAt(0)
    BY <1>1, <1>2 DEF CutAt
  <2> QED
    BY <1>1, <1>2, <2>1 DEF LogInv
<1>6. OutcomeInv
  BY <1>1, <1>2 DEF OutcomeInv, Contains
<1>7. FrameInv
  BY <1>1, <1>2 DEF FrameInv
<1> QED
  BY <1>3, <1>4, <1>5, <1>6, <1>7 DEF Inv

LEMMA NextInv == Inv /\ [Next]_vars => Inv'
<1> SUFFICES ASSUME Inv, [Next]_vars PROVE Inv'
  OBVIOUS
<1>1. ASSUME NEW s \in Stream, Write(s) \/ Split(s) PROVE Inv'
  <2>1. UNCHANGED <<ses, heard, saved, pc, ui, frame>>
    BY <1>1 DEF Write, Split
  <2> QED
    BY <2>1, SameSession
<1>2. ASSUME NEW s \in Stream, Tell(s) PROVE Inv'
  <2>1. ReportLine("activity", Head(pend[s])) /\ UNCHANGED <<saved, pc, ui, frame>>
    BY <1>2 DEF Tell
  <2>2. "activity" \in Kind
    BY DEF Kind
  <2> QED
    BY <2>1, <2>2, ReportLineOK
<1>3. ASSUME NEW kind \in Kind \ {"activity"}, NEW line \in Text, Report(kind, line) PROVE Inv'
  <2>1. ReportLine(kind, line) /\ UNCHANGED <<saved, pc, ui, frame>>
    BY <1>3 DEF Report
  <2>2. line # 0
    BY SizesAssumption
  <2> QED
    BY <2>1, <2>2, ReportLineOK
<1>4. CASE Run \/ Close \/ RunReturns
  <2>1. UNCHANGED <<ses, heard, saved, ui, frame>>
        /\ pc \in {"work", "run", "close", "closed"} /\ pc' \in {"work", "run", "close", "closed"}
    BY <1>4 DEF Run, Close, CloseWriter, RunReturns
  <2> QED
    BY <2>1, SameSession
<1>5. ASSUME NEW failed \in BOOLEAN, Finish(failed) PROVE Inv'
  BY <1>5, FinishOK
<1>6. CASE FinishWait
  BY <1>6, FinishWaitOK
<1>7. CASE Update \/ View \/ Lost
  BY <1>7, InterfaceOK
<1>8. CASE UNCHANGED vars
  <2>1. UNCHANGED <<ses, heard, saved, pc, ui, frame>>
    BY <1>8 DEF vars
  <2> QED
    BY <2>1, SameSession
<1> QED
  BY <1>1, <1>2, <1>3, <1>4, <1>5, <1>6, <1>7, <1>8 DEF Next, Main, Terminated

LEMMA AlwaysInv == Spec => []Inv
BY InitInv, NextInv, PTL DEF Spec

-----------------------------------------------------------------------------
(* What the invariant gives.                                               *)

\* The log of the session is what it accepted, from the beginning and in order,
\* up to where it became full, and the file of a failure is that log: for any
\* output of the child, any reports and any of the sizes.
THEOREM LogsHaveNoHoles == Spec => []LogHasNoHoles
<1>1. ASSUME Inv PROVE LogHasNoHoles
  <2>1. PICK set : heard \in Seq(set) /\ ses.log \in Seq(set)
    BY <1>1 DEF Inv, SeqTypes
  <2>2. PICK n \in Nat : CutAt(n)
    BY <1>1 DEF Inv, LogInv
  <2>3. /\ Len(heard) \in Nat /\ Len(ses.log) \in Nat /\ n <= Len(heard)
        /\ \A i \in 1..n : ses.log[i] = heard[i]
        /\ Len(ses.log) = n \/ (Len(ses.log) = n + 1 /\ ses.log[n + 1] = Marker)
    BY <2>1, <2>2 DEF CutAt
  <2>4. \A i \in 1..n : ses.log[i] # Marker
    <3>1. \A i \in 1..n : heard[i].kind \in Kind
      BY <1>1, <2>3 DEF Inv, LogInv
    <3>2. Marker.kind \notin Kind
      BY DEF Marker, Kind
    <3> QED
      BY <2>3, <3>1, <3>2
  <2> DEFINE marked  == ses.log # <<>> /\ Last(ses.log) = Marker
             entries == IF marked THEN Front(ses.log) ELSE ses.log
  <2>5. marked <=> Len(ses.log) = n + 1
    BY <2>1, <2>3, <2>4 DEF Last
  <2>6. entries \in Seq(set) /\ Len(entries) = n /\ \A i \in 1..n : entries[i] = ses.log[i]
    BY <2>1, <2>3, <2>5 DEF Front
  <2> HIDE DEF entries
  <2>7. IsPrefix(entries, heard)
    BY <2>1, <2>3, <2>6 DEF IsPrefix
  <2>8. ~Contains(entries, Marker)
    BY <2>4, <2>6 DEF Contains
  <2>9. ~ses.logFull => ses.log = heard
    BY <1>1 DEF Inv, LogInv
  <2>10. saved # <<>> => saved = ses.log /\ Last(heard) = Failure
    BY <1>1 DEF Inv, OutcomeInv
  <2> QED
    BY <2>7, <2>8, <2>9, <2>10 DEF LogHasNoHoles, entries
<1> QED
  BY <1>1, AlwaysInv, PTL

\* When finish has returned, the last frame or line on the terminal is the
\* outcome, however the user interface and the operation interleave.
THEOREM LastFrameIsOutcome == Spec => []LastFrameTellsOutcome
<1>1. ASSUME Inv PROVE LastFrameTellsOutcome
  <2>1. SUFFICES ASSUME pc = "end", frame # "lost"
        PROVE frame = IF saved # <<>> \/ Contains(heard, Failure) THEN "failed" ELSE "completed"
    BY DEF LastFrameTellsOutcome
  <2>2. ses.done = TRUE /\ frame = Shown(ses)
    BY <1>1, <2>1 DEF Inv, SessionTypes, OutcomeInv, FrameInv
  <2>3. ses.failed <=> (saved # <<>> \/ Contains(heard, Failure))
    BY <1>1 DEF Inv, OutcomeInv
  <2> QED
    BY <2>2, <2>3 DEF Shown
<1> QED
  BY <1>1, AlwaysInv, PTL

-----------------------------------------------------------------------------
(* Types and bounds, and what is captured of a stream.                     *)

\* The variables of the two streams.
StreamInv ==
  /\ script \in Scripts
  /\ fed \in [Stream -> Nat] /\ \A s \in Stream : fed[s] <= Len(script[s])
  /\ chunk \in [Stream -> Seq(Byte)] /\ partial \in [Stream -> Seq(Byte)]
  /\ kept \in [Stream -> Seq(Byte)] /\ cut \in [Stream -> BOOLEAN]
  /\ \A s \in Stream : Len(partial[s]) <= MaxPartial
  /\ CaptureIsFaithful

\* What the session holds is bounded, whatever is reported.
BoundInv ==
  /\ ses.writeErr \in BOOLEAN /\ ses.size <= LogMax
  /\ \E set : ses.tail \in Seq(set) /\ Len(ses.tail) <= TailRows

\* The goroutines.
ControlInv ==
  /\ pc \in {"work", "run", "close", "closed", "wait", "end"}
  /\ reports \in 0..MaxReports
  /\ frame \in {"none", "live", "completed", "failed", "lost"}

LEMMA ScriptTypes ==
  ASSUME NEW sc \in Scripts, NEW s \in Stream
  PROVE  sc[s] \in Seq(Byte)
BY SizesAssumption

\* The beginning of a sequence.
LEMMA FirstBytesFacts ==
  ASSUME NEW set, NEW v \in Seq(set), NEW n \in Nat
  PROVE  /\ FirstBytes(v, n) \in Seq(set) /\ Len(FirstBytes(v, n)) = Least(Len(v), n)
         /\ Len(FirstBytes(v, n)) <= n
         /\ \A i \in 1..Least(Len(v), n) : FirstBytes(v, n)[i] = v[i]
<1>1. Least(Len(v), n) \in 0..Len(v) /\ Least(Len(v), n) <= n
  BY DEF Least
<1> QED
  BY <1>1 DEF FirstBytes

\* Two sequences in one.
LEMMA ConcatFacts ==
  ASSUME NEW set, NEW p \in Seq(set), NEW q \in Seq(set)
  PROVE  /\ p \o q \in Seq(set) /\ Len(p \o q) = Len(p) + Len(q)
         /\ \A i \in 1..Len(p) : (p \o q)[i] = p[i]
         /\ \A i \in Len(p) + 1..Len(p) + Len(q) : (p \o q)[i] = q[i - Len(p)]
OBVIOUS

\* Capturing piece by piece captures the beginning of the whole.
LEMMA CaptureStep ==
  ASSUME NEW v \in Seq(Byte), NEW f \in Nat, NEW n \in Nat, f <= n, n <= Len(v), NEW c \in Nat
  PROVE  /\ FirstBytes(FirstBytes(SubSeq(v, 1, f), c) \o SubSeq(v, f + 1, n), c)
              = FirstBytes(SubSeq(v, 1, n), c)
         /\ Len(FirstBytes(SubSeq(v, 1, f), c)) = Least(f, c)
         /\ Len(SubSeq(v, f + 1, n)) = n - f
         /\ SubSeq(v, f + 1, n) \in Seq(Byte)
<1> DEFINE a == SubSeq(v, 1, f)
           b == SubSeq(v, f + 1, n)
           w == SubSeq(v, 1, n)
           x == FirstBytes(a, c)
           y == FirstBytes(x \o b, c)
           z == FirstBytes(w, c)
<1>1. /\ a \in Seq(Byte) /\ Len(a) = f /\ \A i \in 1..f : a[i] = v[i]
      /\ b \in Seq(Byte) /\ Len(b) = n - f /\ \A i \in 1..n - f : b[i] = v[f + i]
      /\ w \in Seq(Byte) /\ Len(w) = n /\ \A i \in 1..n : w[i] = v[i]
  OBVIOUS
<1> HIDE DEF a, b, w
<1>2. x \in Seq(Byte) /\ Len(x) = Least(f, c) /\ \A i \in 1..Least(f, c) : x[i] = a[i]
  BY <1>1, FirstBytesFacts
<1>3. z \in Seq(Byte) /\ Len(z) = Least(n, c) /\ \A i \in 1..Least(n, c) : z[i] = w[i]
  BY <1>1, FirstBytesFacts
<1> HIDE DEF x
<1>4. /\ x \o b \in Seq(Byte) /\ Len(x \o b) = Least(f, c) + (n - f)
      /\ \A i \in 1..Least(f, c) : (x \o b)[i] = x[i]
      /\ \A i \in Least(f, c) + 1..Least(f, c) + (n - f) : (x \o b)[i] = b[i - Least(f, c)]
  <2>1. /\ x \o b \in Seq(Byte) /\ Len(x \o b) = Len(x) + Len(b)
        /\ \A i \in 1..Len(x) : (x \o b)[i] = x[i]
        /\ \A i \in Len(x) + 1..Len(x) + Len(b) : (x \o b)[i] = b[i - Len(x)]
    <3>1. x \in Seq(Byte) /\ b \in Seq(Byte)
      BY <1>1, <1>2, Zenon
    <3> HIDE DEF x
    <3> QED
      BY <3>1, ConcatFacts
  <2>2. Len(x) = Least(f, c) /\ Len(b) = n - f
    BY <1>1, <1>2, Zenon
  <2> QED
    BY <2>1, <2>2, Zenon
<1>5. /\ y \in Seq(Byte) /\ Len(y) = Least(Least(f, c) + (n - f), c)
      /\ \A i \in 1..Least(Least(f, c) + (n - f), c) : y[i] = (x \o b)[i]
  BY <1>4, FirstBytesFacts
<1> HIDE DEF y, z
<1>6. Least(Least(f, c) + (n - f), c) = Least(n, c)
  BY DEF Least
<1>7. \A i \in 1..Least(n, c) : y[i] = z[i]
  <2> SUFFICES ASSUME NEW i \in 1..Least(n, c) PROVE y[i] = z[i]
    OBVIOUS
  <2>1. i \in Nat /\ 1 <= i /\ i <= n /\ i <= c
    BY DEF Least
  <2>2. y[i] = (x \o b)[i]
    BY <1>5, <1>6, Zenon
  <2>5. z[i] = v[i]
    <3>1. i \in 1..n
      BY <2>1
    <3> QED
      BY <1>1, <1>3, <3>1, Zenon
  <2>3. CASE i <= f
    <3>1. i \in 1..Least(f, c) /\ i \in 1..f
      BY <2>1, <2>3 DEF Least
    <3> QED
      BY <1>1, <1>2, <1>4, <2>2, <2>5, <3>1, Zenon
  <2>4. CASE i > f
    <3>1. Least(f, c) = f
      BY <2>1, <2>4 DEF Least
    <3>2. i \in f + 1..f + (n - f) /\ i - f \in 1..n - f /\ f + (i - f) = i
      BY <2>1, <2>4
    <3>3. (x \o b)[i] = b[i - f]
      BY <1>4, <3>1, <3>2, Zenon
    <3>4. b[i - f] = v[f + (i - f)]
      BY <1>1, <3>2, Zenon
    <3> QED
      BY <2>2, <2>5, <3>2, <3>3, <3>4, Zenon
  <2> QED
    BY <2>1, <2>3, <2>4
<1>8. y = z
  BY <1>3, <1>5, <1>6, <1>7
<1> QED
  BY <1>1, <1>2, <1>8 DEF a, b, w, x, y, z

LEMMA FirstTypes == Init => StreamInv /\ BoundInv /\ ControlInv
<1> SUFFICES ASSUME Init PROVE StreamInv /\ BoundInv /\ ControlInv
  OBVIOUS
<1>1. BoundInv
  <2>1. ses.writeErr = FALSE /\ ses.size = 0 /\ ses.tail = <<>>
    BY DEF Init
  <2>2. ses.tail \in Seq({}) /\ Len(ses.tail) = 0
    BY <2>1
  <2>3. 0 <= LogMax /\ 0 <= TailRows
    BY SizesAssumption
  <2>4. Len(ses.tail) <= TailRows
    BY <2>2, <2>3
  <2> QED
    BY <2>1, <2>2, <2>3, <2>4, Zenon DEF BoundInv
<1>2. ControlInv
  BY SizesAssumption DEF Init, ControlInv
<1>3. ASSUME NEW s \in Stream
      PROVE  /\ 0 <= Len(script[s])
             /\ <<>> = FirstBytes(SubSeq(script[s], 1, 0), Capture)
  <2>1. script[s] \in Seq(Byte)
    BY ScriptTypes DEF Init
  <2>2. SubSeq(script[s], 1, 0) = <<>>
    BY <2>1
  <2>3. <<>> \in Seq(Byte) /\ Len(<<>>) = 0
    OBVIOUS
  <2>4. FirstBytes(<<>>, Capture) \in Seq(Byte) /\ Len(FirstBytes(<<>>, Capture)) = 0
    <3>1. Least(0, Capture) = 0
      BY SizesAssumption DEF Least
    <3> QED
      BY <2>3, <3>1, SizesAssumption DEF FirstBytes
  <2>5. \A e \in Seq(Byte) : Len(e) = 0 => e = <<>>
    OBVIOUS
  <2>6. FirstBytes(<<>>, Capture) = <<>>
    BY <2>4, <2>5, Zenon
  <2>7. 0 <= Len(script[s])
    BY <2>1
  <2> QED
    BY <2>2, <2>6, <2>7, Zenon
<1>4. StreamInv
  <2>1. /\ script \in Scripts /\ fed = [s \in Stream |-> 0] /\ chunk = [s \in Stream |-> <<>>]
        /\ partial = [s \in Stream |-> <<>>] /\ kept = [s \in Stream |-> <<>>]
        /\ cut = [s \in Stream |-> FALSE]
    BY DEF Init
  <2>2. ~(0 > Capture) /\ 0 <= MaxPartial
    BY SizesAssumption
  <2>3. CaptureIsFaithful
    BY <1>3, <2>1, <2>2 DEF CaptureIsFaithful
  <2> QED
    BY <1>3, <2>1, <2>2, <2>3 DEF StreamInv
<1> QED
  BY <1>1, <1>2, <1>4

\* One write: the buffer captures what fits.
LEMMA WriteOK ==
  ASSUME StreamInv, NEW s \in Stream, Write(s)
  PROVE  StreamInv'
<1>1. PICK n \in fed[s] + 1..Len(script[s]) :
        /\ chunk' = [chunk EXCEPT ![s] = SubSeq(script[s], fed[s] + 1, n)]
        /\ kept' = [kept EXCEPT ![s] = FirstBytes(kept[s] \o SubSeq(script[s], fed[s] + 1, n), Capture)]
        /\ cut' = [cut EXCEPT ![s] = cut[s]
                     \/ Len(SubSeq(script[s], fed[s] + 1, n)) > Capture - Len(kept[s])]
        /\ fed' = [fed EXCEPT ![s] = n]
  BY Zenon DEF Write
<1>2. script' = script /\ partial' = partial
  BY DEF Write
<1>3. script \in Scripts /\ script[s] \in Seq(Byte) /\ Capture \in Nat
  BY ScriptTypes, SizesAssumption DEF StreamInv
<1>4. fed[s] \in Nat /\ n \in Nat /\ fed[s] < n /\ n <= Len(script[s])
  BY <1>1, <1>3 DEF StreamInv
<1>5. kept[s] = FirstBytes(SubSeq(script[s], 1, fed[s]), Capture) /\ (cut[s] <=> fed[s] > Capture)
  BY DEF StreamInv, CaptureIsFaithful
<1>6. /\ FirstBytes(kept[s] \o SubSeq(script[s], fed[s] + 1, n), Capture)
           = FirstBytes(SubSeq(script[s], 1, n), Capture)
      /\ Len(kept[s]) = Least(fed[s], Capture)
      /\ Len(SubSeq(script[s], fed[s] + 1, n)) = n - fed[s]
      /\ SubSeq(script[s], fed[s] + 1, n) \in Seq(Byte)
  <2>1. fed[s] <= n
    BY <1>4
  <2>2. /\ FirstBytes(FirstBytes(SubSeq(script[s], 1, fed[s]), Capture)
                       \o SubSeq(script[s], fed[s] + 1, n), Capture)
             = FirstBytes(SubSeq(script[s], 1, n), Capture)
        /\ Len(FirstBytes(SubSeq(script[s], 1, fed[s]), Capture)) = Least(fed[s], Capture)
        /\ Len(SubSeq(script[s], fed[s] + 1, n)) = n - fed[s]
        /\ SubSeq(script[s], fed[s] + 1, n) \in Seq(Byte)
    BY <1>3, <1>4, <2>1, CaptureStep, Zenon
  <2> QED
    BY <1>5, <2>2, Zenon
<1>7. FirstBytes(SubSeq(script[s], 1, n), Capture) \in Seq(Byte)
  <2>1. SubSeq(script[s], 1, n) \in Seq(Byte)
    BY <1>3, <1>4
  <2> QED
    BY <1>3, <2>1, FirstBytesFacts
<1>8. (cut[s] \/ n - fed[s] > Capture - Least(fed[s], Capture)) <=> n > Capture
  BY <1>3, <1>4, <1>5 DEF Least
<1> DEFINE v == SubSeq(script[s], fed[s] + 1, n)
           k == FirstBytes(SubSeq(script[s], 1, n), Capture)
<1>9. /\ chunk' = [chunk EXCEPT ![s] = v] /\ kept' = [kept EXCEPT ![s] = k]
      /\ v \in Seq(Byte) /\ k \in Seq(Byte)
      /\ fed' = [fed EXCEPT ![s] = n]
      /\ cut' = [cut EXCEPT ![s] = cut[s] \/ n - fed[s] > Capture - Least(fed[s], Capture)]
  BY <1>1, <1>6, <1>7, Zenon
<1>10. k = FirstBytes(SubSeq(script[s], 1, n), Capture)
  OBVIOUS
<1> HIDE DEF v, k
<1>11. /\ chunk' \in [Stream -> Seq(Byte)] /\ kept' \in [Stream -> Seq(Byte)]
       /\ fed' \in [Stream -> Nat] /\ cut' \in [Stream -> BOOLEAN]
  <2>1. (cut[s] \/ n - fed[s] > Capture - Least(fed[s], Capture)) \in BOOLEAN
    OBVIOUS
  <2> QED
    BY <1>4, <1>9, <2>1 DEF StreamInv
<1>12. \A t \in Stream : fed'[t] <= Len(script'[t])
  BY <1>2, <1>4, <1>9 DEF StreamInv
<1>13. CaptureIsFaithful'
  <2> SUFFICES ASSUME NEW t \in Stream
               PROVE  /\ kept'[t] = FirstBytes(SubSeq(script'[t], 1, fed'[t]), Capture)
                      /\ cut'[t] <=> fed'[t] > Capture
    BY DEF CaptureIsFaithful
  <2>1. CASE t = s
    <3>1. fed'[t] = n /\ kept'[t] = k
          /\ (cut'[t] <=> (cut[s] \/ n - fed[s] > Capture - Least(fed[s], Capture)))
      BY <1>9, <2>1 DEF StreamInv
    <3> QED
      BY <1>2, <1>8, <1>10, <2>1, <3>1
  <2>2. CASE t # s
    <3>1. fed'[t] = fed[t] /\ kept'[t] = kept[t] /\ cut'[t] = cut[t]
      BY <1>9, <2>2 DEF StreamInv
    <3> QED
      BY <1>2, <3>1 DEF StreamInv, CaptureIsFaithful
  <2> QED
    BY <2>1, <2>2
<1> QED
  BY <1>2, <1>11, <1>12, <1>13 DEF StreamInv

\* appendPartial keeps the incomplete line within its limit.
LEMMA AppendPartialFacts ==
  ASSUME NEW p \in Seq(Byte), NEW q \in Seq(Byte)
  PROVE  AppendPartial(p, q) \in Seq(Byte) /\ Len(AppendPartial(p, q)) <= MaxPartial
<1>1. p \o q \in Seq(Byte) /\ MaxPartial \in Nat
  BY SizesAssumption
<1> QED
  BY <1>1, FirstBytesFacts DEF AppendPartial

\* The other steps of a stream change the incomplete line and the rest of the
\* write only.
LEMMA RestOfStreams ==
  ASSUME StreamInv, UNCHANGED <<script, fed, kept, cut>>, NEW s \in Stream, NEW p, NEW q,
         partial' = [partial EXCEPT ![s] = p] \/ partial' = partial,
         chunk' = [chunk EXCEPT ![s] = q] \/ chunk' = chunk,
         p \in Seq(Byte), Len(p) <= MaxPartial, q \in Seq(Byte)
  PROVE  StreamInv'
<1>1. partial' \in [Stream -> Seq(Byte)] /\ \A t \in Stream : Len(partial'[t]) <= MaxPartial
  BY DEF StreamInv
<1>2. chunk' \in [Stream -> Seq(Byte)]
  BY DEF StreamInv
<1>3. CaptureIsFaithful'
  BY DEF StreamInv, CaptureIsFaithful
<1> QED
  BY <1>1, <1>2, <1>3 DEF StreamInv

LEMMA SplitOK ==
  ASSUME StreamInv, NEW s \in Stream, Split(s)
  PROVE  StreamInv'
<1>1. UNCHANGED <<script, fed, kept, cut>>
  BY DEF Split
<1>2. chunk[s] \in Seq(Byte) /\ partial[s] \in Seq(Byte) /\ <<>> \in Seq(Byte)
      /\ Len(<<>>) <= MaxPartial
  BY SizesAssumption DEF StreamInv
<1>3. CASE /\ partial' = [partial EXCEPT ![s] = AppendPartial(partial[s], chunk[s])]
           /\ chunk' = [chunk EXCEPT ![s] = <<>>]
  BY <1>1, <1>2, <1>3, AppendPartialFacts, RestOfStreams
<1>4. ASSUME NEW i \in 1..Len(chunk[s]), partial' = [partial EXCEPT ![s] = <<>>],
             chunk' = [chunk EXCEPT ![s] = SubSeq(chunk[s], i + 1, Len(chunk[s]))]
      PROVE  StreamInv'
  <2>1. SubSeq(chunk[s], i + 1, Len(chunk[s])) \in Seq(Byte)
    BY <1>2
  <2> QED
    BY <1>1, <1>2, <1>4, <2>1, RestOfStreams
<1> QED
  BY <1>3, <1>4, Zenon DEF Split

\* The log never outgrows its limit: an entry, or the marker, is written only
\* if it fits.
LEMMA AppendLogBound ==
  ASSUME SessionTypes, ses.size <= LogMax, NEW e
  PROVE  /\ AppendLog(ses, e).size <= LogMax /\ AppendLog(ses, e).tail = ses.tail
         /\ AppendLog(ses, e).writeErr = ses.writeErr
<1>1. ASSUME NEW x
      PROVE  /\ WriteString(ses, x).size = ses.size + EntrySize(x)
             /\ WriteString(ses, x).tail = ses.tail
             /\ WriteString(ses, x).writeErr = ses.writeErr
             /\ DOMAIN WriteString(ses, x) = Field
  BY DEF WriteString, SessionTypes, Field
<1>2. ASSUME NEW x, DOMAIN x = Field
      PROVE  /\ [x EXCEPT !.logFull = TRUE].size = x.size
             /\ [x EXCEPT !.logFull = TRUE].tail = x.tail
             /\ [x EXCEPT !.logFull = TRUE].writeErr = x.writeErr
  BY <1>2 DEF Field
<1>3. CASE ses.logFull
  BY <1>3 DEF AppendLog
<1>4. CASE ~ses.logFull /\ ses.size + EntrySize(e) <= LogMax
  <2>1. AppendLog(ses, e) = WriteString(ses, e)
    BY <1>4 DEF AppendLog
  <2> QED
    BY <1>1, <1>4, <2>1, Zenon
<1>5. CASE ~ses.logFull /\ ~(ses.size + EntrySize(e) <= LogMax)
  <2> DEFINE w == IF ses.size + EntrySize(Marker) <= LogMax THEN WriteString(ses, Marker) ELSE ses
  <2>1. AppendLog(ses, e) = [w EXCEPT !.logFull = TRUE]
    BY <1>5, Zenon DEF AppendLog
  <2>2. w.size <= LogMax /\ w.tail = ses.tail /\ w.writeErr = ses.writeErr /\ DOMAIN w = Field
    <3>1. CASE ses.size + EntrySize(Marker) <= LogMax
      BY <1>1, <3>1, Zenon
    <3>2. CASE ~(ses.size + EntrySize(Marker) <= LogMax)
      BY <3>2, Zenon DEF SessionTypes
    <3> QED
      BY <3>1, <3>2
  <2> HIDE DEF w
  <2> QED
    BY <1>2, <2>1, <2>2, Zenon
<1> QED
  BY <1>3, <1>4, <1>5

\* The tail keeps its last rows only.
LEMMA LastRowsBound ==
  ASSUME NEW set, NEW v \in Seq(set)
  PROVE  LastRows(v) \in Seq(set) /\ Len(LastRows(v)) <= TailRows
<1>1. TailRows \in Nat \ {0} /\ Len(v) \in Nat
  BY SizesAssumption
<1>2. CASE Len(v) > TailRows
  <2>1. Len(v) - TailRows + 1 \in 1..Len(v)
    BY <1>1, <1>2
  <2>2. LastRows(v) = SubSeq(v, Len(v) - TailRows + 1, Len(v))
    BY <1>2 DEF LastRows
  <2>3. SubSeq(v, Len(v) - TailRows + 1, Len(v)) \in Seq(set)
        /\ Len(SubSeq(v, Len(v) - TailRows + 1, Len(v))) = Len(v) - (Len(v) - TailRows + 1) + 1
    BY <1>1, <2>1
  <2> QED
    BY <1>1, <2>2, <2>3
<1>3. CASE ~(Len(v) > TailRows)
  <2>1. LastRows(v) = SubSeq(v, 1, Len(v))
    BY <1>3 DEF LastRows
  <2>2. SubSeq(v, 1, Len(v)) \in Seq(set) /\ Len(SubSeq(v, 1, Len(v))) = Len(v)
    BY <1>1
  <2> QED
    BY <1>1, <1>3, <2>1, <2>2
<1> QED
  BY <1>2, <1>3

\* Neither a report nor the end makes the session grow beyond its limits.
LEMMA ReportLineBounds ==
  ASSUME SessionTypes, BoundInv, NEW kind, NEW line, ReportLine(kind, line)
  PROVE  BoundInv'
<1>1. CASE ses' = ses
  BY <1>1 DEF BoundInv
<1>2. ASSUME NEW written, ses' = Accept(ses, kind, line, written)
      PROVE  BoundInv'
  <2> DEFINE logged == AppendLog(ses, [kind |-> kind, line |-> line])
  <2>1. /\ DOMAIN logged = Field /\ logged.size <= LogMax
        /\ logged.tail = ses.tail /\ logged.writeErr = ses.writeErr
    BY AppendLogFields, AppendLogBound DEF SessionTypes, BoundInv
  <2> HIDE DEF logged
  <2> DEFINE a == IF kind = "stage" THEN line ELSE logged.stage
             b == IF kind = "readiness" THEN line ELSE logged.ready
             c == IF kind = "stage" THEN logged.tail ELSE LastRows(Append(logged.tail, line))
             d == logged.writeErr \/ ((~ses.interactive /\ kind # "activity" /\ ~ses.writeErr)
                                        /\ ~written)
  <2>2. ses' = [logged EXCEPT !.stage = a, !.ready = b, !.tail = c, !.writeErr = d]
    BY <1>2, Zenon DEF Accept, logged
  <2>3. d \in BOOLEAN
    OBVIOUS
  <2>4. PICK set : ses.tail \in Seq(set) /\ Len(ses.tail) <= TailRows
    BY DEF BoundInv
  <2>5. c \in Seq(set \cup {line}) /\ Len(c) <= TailRows
    <3>1. CASE kind = "stage"
      <4>1. c = ses.tail
        BY <2>1, <3>1
      <4>2. ses.tail \in Seq(set \cup {line})
        BY <2>4
      <4> QED
        BY <2>4, <4>1, <4>2, Zenon
    <3>2. CASE kind # "stage"
      <4>1. c = LastRows(Append(ses.tail, line))
        BY <2>1, <3>2
      <4>2. Append(ses.tail, line) \in Seq(set \cup {line})
        BY <2>4, Appended
      <4> QED
        BY <4>1, <4>2, LastRowsBound
    <3> QED
      BY <3>1, <3>2
  <2> HIDE DEF a, b, c, d
  <2>6. ses'.size = logged.size /\ ses'.tail = c /\ ses'.writeErr = d
    BY <2>1, <2>2 DEF Field
  <2> QED
    BY <2>1, <2>3, <2>5, <2>6, Zenon DEF BoundInv
<1> QED
  BY <1>1, <1>2 DEF ReportLine

LEMMA FinishBounds ==
  ASSUME SessionTypes, BoundInv, NEW failed \in BOOLEAN, Finish(failed)
  PROVE  BoundInv'
<1> DEFINE logged == IF failed THEN AppendLog(ses, Failure) ELSE ses
<1>1. ses' = [logged EXCEPT !.done = TRUE, !.failed = failed]
  BY Zenon DEF Finish, Finished
<1>2. /\ DOMAIN logged = Field /\ logged.size <= LogMax
      /\ logged.tail = ses.tail /\ logged.writeErr = ses.writeErr
  <2>1. CASE failed
    <3>1. /\ DOMAIN AppendLog(ses, Failure) = Field /\ AppendLog(ses, Failure).size <= LogMax
          /\ AppendLog(ses, Failure).tail = ses.tail
          /\ AppendLog(ses, Failure).writeErr = ses.writeErr
      BY AppendLogFields, AppendLogBound DEF SessionTypes, BoundInv
    <3> QED
      BY <2>1, <3>1
  <2>2. CASE ~failed
    BY <2>2 DEF SessionTypes, BoundInv
  <2> QED
    BY <2>1, <2>2
<1> HIDE DEF logged
<1>3. ses'.size = logged.size /\ ses'.tail = logged.tail /\ ses'.writeErr = logged.writeErr
  BY <1>1, <1>2 DEF Field
<1> QED
  BY <1>2, <1>3, Zenon DEF BoundInv

\* One step of anyone.
LEMMA NextStreams == StreamInv /\ [Next]_vars => StreamInv'
<1> SUFFICES ASSUME StreamInv, [Next]_vars PROVE StreamInv'
  OBVIOUS
<1>1. CASE UNCHANGED <<script, fed, chunk, partial, kept, cut>>
  BY <1>1 DEF StreamInv, CaptureIsFaithful
<1>2. ASSUME NEW s \in Stream, Write(s) PROVE StreamInv'
  BY <1>2, WriteOK
<1>3. ASSUME NEW s \in Stream, Split(s) PROVE StreamInv'
  BY <1>3, SplitOK
<1>4. ASSUME NEW s \in Stream, Tell(s) PROVE UNCHANGED <<script, fed, chunk, partial, kept, cut>>
  BY <1>4 DEF Tell
<1>5. ASSUME NEW kind \in Kind, NEW line \in Text, Report(kind, line)
      PROVE  UNCHANGED <<script, fed, chunk, partial, kept, cut>>
  BY <1>5 DEF Report, streams
<1>6. ASSUME NEW s \in Stream, NEW from, NEW to, CloseWriter(s, from, to) PROVE StreamInv'
  <2>1. /\ UNCHANGED <<script, fed, kept, cut, chunk>>
        /\ partial' = [partial EXCEPT ![s] = <<>>]
    BY <1>6 DEF CloseWriter
  <2>2. <<>> \in Seq(Byte) /\ Len(<<>>) <= MaxPartial
    BY SizesAssumption
  <2> QED
    BY <2>1, <2>2, RestOfStreams
<1>7. CASE Close
  BY <1>6, <1>7 DEF Close, Stream
<1>8. ASSUME NEW failed \in BOOLEAN, Finish(failed)
      PROVE  UNCHANGED <<script, fed, chunk, partial, kept, cut>>
  BY <1>8 DEF Finish, streams
<1>9. CASE Run \/ RunReturns \/ FinishWait \/ Update \/ View \/ Lost \/ UNCHANGED vars
  <2>1. UNCHANGED <<script, fed, chunk, partial, kept, cut>>
    BY <1>9 DEF Run, RunReturns, FinishWait, Update, View, Lost, streams, vars
  <2> QED
    BY <1>1, <2>1
<1> QED
  BY <1>1, <1>2, <1>3, <1>4, <1>5, <1>7, <1>8, <1>9, Zenon DEF Next, Main, Terminated

LEMMA NextBounds == Inv /\ BoundInv /\ ControlInv /\ [Next]_vars => BoundInv' /\ ControlInv'
<1> SUFFICES ASSUME Inv, BoundInv, ControlInv, [Next]_vars PROVE BoundInv' /\ ControlInv'
  OBVIOUS
<1>0. SessionTypes
  BY DEF Inv
<1>1. ASSUME UNCHANGED <<ses, pc, reports, frame>> PROVE BoundInv' /\ ControlInv'
  BY <1>1 DEF BoundInv, ControlInv
<1>2. ASSUME NEW s \in Stream, Write(s) \/ Split(s) PROVE UNCHANGED <<ses, pc, reports, frame>>
  BY <1>2 DEF Write, Split
<1>3. ASSUME NEW s \in Stream, Tell(s) PROVE BoundInv' /\ ControlInv'
  <2>1. ReportLine("activity", Head(pend[s])) /\ UNCHANGED <<pc, reports, frame>>
    BY <1>3 DEF Tell
  <2> QED
    BY <1>0, <2>1, ReportLineBounds DEF ControlInv
<1>4. ASSUME NEW kind \in Kind, NEW line \in Text, Report(kind, line)
      PROVE  BoundInv' /\ ControlInv'
  <2>1. ReportLine(kind, line)
    BY <1>4 DEF Report
  <2>2. BoundInv'
    BY <1>0, <2>1, ReportLineBounds
  <2>3. ControlInv'
    BY <1>4, SizesAssumption DEF Report, ControlInv
  <2> QED
    BY <2>2, <2>3
<1>5. ASSUME NEW failed \in BOOLEAN, Finish(failed) PROVE BoundInv' /\ ControlInv'
  <2>1. BoundInv'
    BY <1>0, <1>5, FinishBounds
  <2>2. ControlInv'
    BY <1>5 DEF Finish, ControlInv, Shown
  <2> QED
    BY <2>1, <2>2
<1>6. CASE Run \/ Close \/ RunReturns \/ FinishWait \/ Update \/ View \/ Lost
  <2>1. ses' = ses /\ reports' = reports
    BY <1>6 DEF Run, Close, CloseWriter, RunReturns, FinishWait, Update, View, Lost
  <2>2. ControlInv'
    BY <1>6 DEF Run, Close, CloseWriter, RunReturns, FinishWait, Update, View, Lost, Shown,
                ControlInv
  <2> QED
    BY <2>1, <2>2 DEF BoundInv
<1>7. CASE UNCHANGED vars
  BY <1>1, <1>7 DEF vars
<1> QED
  BY <1>1, <1>2, <1>3, <1>4, <1>5, <1>6, <1>7, Zenon DEF Next, Main, Terminated

LEMMA AlwaysTypes == Spec => [](Inv /\ StreamInv /\ BoundInv /\ ControlInv)
<1>1. Init => Inv /\ StreamInv /\ BoundInv /\ ControlInv
  BY InitInv, FirstTypes
<1>2. Inv /\ StreamInv /\ BoundInv /\ ControlInv /\ [Next]_vars
        => (Inv /\ StreamInv /\ BoundInv /\ ControlInv)'
  BY NextInv, NextStreams, NextBounds
<1> QED
  BY <1>1, <1>2, PTL DEF Spec

\* The incomplete line, the captured output, the tail and the log stay within
\* their limits, and every other variable keeps its type.
THEOREM SessionTypeCorrect == Spec => []TypeOK
<1>1. ASSUME Inv, StreamInv, BoundInv, ControlInv PROVE TypeOK
  <2>1. \A s \in Stream : Len(kept[s]) <= Capture
    <3> SUFFICES ASSUME NEW s \in Stream PROVE Len(kept[s]) <= Capture
      OBVIOUS
    <3>1. script[s] \in Seq(Byte) /\ fed[s] \in Nat /\ fed[s] <= Len(script[s]) /\ Capture \in Nat
      BY <1>1, ScriptTypes, SizesAssumption DEF StreamInv
    <3>2. SubSeq(script[s], 1, fed[s]) \in Seq(Byte)
      BY <3>1
    <3>3. kept[s] = FirstBytes(SubSeq(script[s], 1, fed[s]), Capture)
      BY <1>1 DEF StreamInv, CaptureIsFaithful
    <3> QED
      BY <3>1, <3>2, <3>3, FirstBytesFacts
  <2>2. Len(ses.tail) <= TailRows /\ ses.size <= LogMax
    BY <1>1 DEF BoundInv
  <2>3. {ses.interactive, ses.logFull, ses.done, ses.failed, ses.writeErr} \subseteq BOOLEAN
    BY <1>1 DEF Inv, SessionTypes, BoundInv
  <2> QED
    BY <1>1, <2>1, <2>2, <2>3, Zenon DEF TypeOK, Inv, SessionTypes, StreamInv, ControlInv
<1> QED
  BY <1>1, AlwaysTypes, PTL

\* The bounded buffer holds exactly the beginning of a stream, and says that it
\* is truncated exactly when bytes are missing, for any output and any writes.
THEOREM CapturesAreFaithful == Spec => []CaptureIsFaithful
<1>1. StreamInv => CaptureIsFaithful
  BY DEF StreamInv
<1> QED
  BY <1>1, AlwaysTypes, PTL

-----------------------------------------------------------------------------
(* The lines of a stream, found by counting their ends.                    *)

\* The ends of lines among the first n bytes.
LineEnds(v, n) == {i \in 1..n : v[i] = "nl"}

\* The bytes from this one on, up to c, are of one line, and are all of it.
Begins(v, from, c) == (from = 1 \/ v[from - 1] = "nl") /\ \A i \in from..c : v[i] # "nl"

\* The k-th of a set of numbers is the one with k of them up to it.
LEMMA NthIs ==
  ASSUME NEW S \in SUBSET Int, IsFiniteSet(S), NEW i \in S
  PROVE  Nth(S, Cardinality({x \in S : x <= i})) = i
<1> DEFINE Up(j) == {x \in S : x <= j}
<1>1. ASSUME NEW j \in S, NEW k \in S, j < k PROVE Cardinality(Up(j)) # Cardinality(Up(k))
  <2>1. IsFiniteSet(Up(k))
    BY FS_Subset
  <2>2. Up(j) \in SUBSET Up(k)
    <3>1. \A x \in Int : x <= j => x <= k
      BY <1>1
    <3> QED
      BY <3>1
  <2>3. k \in Up(k) /\ k \notin Up(j)
    BY <1>1
  <2> HIDE DEF Up
  <2> QED
    BY <2>1, <2>2, <2>3, FS_Subset
<1>2. ASSUME NEW j \in S, Cardinality(Up(j)) = Cardinality(Up(i)) PROVE j = i
  <2>1. i \in Int /\ j \in Int
    OBVIOUS
  <2>2. j < i \/ i < j \/ i = j
    BY <2>1
  <2> QED
    BY <1>1, <1>2, <2>2, Zenon
<1>3. \A j \in S : Cardinality(Up(j)) = Cardinality(Up(i)) => j = i
  BY <1>2, Zenon
<1> HIDE DEF Up
<1>4. (CHOOSE j \in S : Cardinality(Up(j)) = Cardinality(Up(i))) = i
  BY <1>3
<1> QED
  BY <1>4, Zenon DEF Nth, Up

\* Ends of lines can be counted.
LEMMA LineEndsFinite ==
  ASSUME NEW v, NEW n \in Nat
  PROVE  IsFiniteSet(LineEnds(v, n)) /\ Cardinality(LineEnds(v, n)) \in Nat
<1>1. LineEnds(v, n) \in SUBSET (1..n) /\ IsFiniteSet(1..n)
  BY FS_Interval DEF LineEnds
<1> QED
  BY <1>1, FS_Subset, FS_CardinalityType

\* A stretch without the end of a line, and the one that follows it.
LEMMA LineEndsStep ==
  ASSUME NEW v, NEW a \in Nat, NEW b \in Nat, a <= b, \A i \in a + 1..b : v[i] # "nl"
  PROVE  /\ LineEnds(v, b) = LineEnds(v, a)
         /\ v[b + 1] = "nl" => Cardinality(LineEnds(v, b + 1)) = Cardinality(LineEnds(v, a)) + 1
<1>1. LineEnds(v, b) = LineEnds(v, a)
  BY DEF LineEnds
<1>2. ASSUME v[b + 1] = "nl"
      PROVE Cardinality(LineEnds(v, b + 1)) = Cardinality(LineEnds(v, a)) + 1
  <2>1. LineEnds(v, b + 1) = LineEnds(v, b) \cup {b + 1}
    BY <1>2 DEF LineEnds
  <2>2. b + 1 \notin LineEnds(v, b)
    BY DEF LineEnds
  <2> QED
    BY <1>1, <2>1, <2>2, LineEndsFinite, FS_AddElement
<1> QED
  BY <1>1, <1>2

\* Every piece of a stream counts: there is one more than there are ends.
LEMMA PieceCount ==
  ASSUME NEW v \in Seq(Byte)
  PROVE  /\ Cardinality(LineEnds(v, Len(v)) \cup {Len(v) + 1}) = Cardinality(LineEnds(v, Len(v))) + 1
         /\ IsFiniteSet(LineEnds(v, Len(v)) \cup {Len(v) + 1})
         /\ DOMAIN Pieces(v, "nl") = 1..Cardinality(LineEnds(v, Len(v))) + 1
<1>1. Len(v) \in Nat
  OBVIOUS
<1>2. Len(v) + 1 \notin LineEnds(v, Len(v))
  BY <1>1 DEF LineEnds
<1>3. /\ Cardinality(LineEnds(v, Len(v)) \cup {Len(v) + 1}) = Cardinality(LineEnds(v, Len(v))) + 1
      /\ IsFiniteSet(LineEnds(v, Len(v)) \cup {Len(v) + 1})
  BY <1>1, <1>2, LineEndsFinite, FS_AddElement
<1>4. DOMAIN Pieces(v, "nl") = 1..Cardinality(LineEnds(v, Len(v)) \cup {Len(v) + 1})
  BY Zenon DEF Pieces, LineEnds
<1> QED
  BY <1>3, <1>4, Zenon

\* The line that ends at e is the piece with that number.
LEMMA PieceAt ==
  ASSUME NEW v \in Seq(Byte), NEW e \in 1..Len(v) + 1, e = Len(v) + 1 \/ v[e] = "nl",
         NEW from \in 1..e, Begins(v, from, e - 1)
  PROVE  /\ Cardinality(LineEnds(v, e - 1)) + 1 \in DOMAIN Pieces(v, "nl")
         /\ Pieces(v, "nl")[Cardinality(LineEnds(v, e - 1)) + 1] = SubSeq(v, from, e - 1)
<1> DEFINE ends == LineEnds(v, Len(v)) \cup {Len(v) + 1}
           n == Cardinality(LineEnds(v, e - 1))
<1>1. Len(v) \in Nat /\ e - 1 \in Nat /\ e \in Int
  OBVIOUS
<1>2. ends \in SUBSET Int /\ e \in ends
  BY <1>1 DEF LineEnds
<1>3. IsFiniteSet(ends) /\ DOMAIN Pieces(v, "nl") = 1..Cardinality(ends)
      /\ Cardinality(ends) \in Nat
  BY <1>1, PieceCount, LineEndsFinite
<1>4. n \in Nat /\ IsFiniteSet(LineEnds(v, e - 1))
  BY <1>1, LineEndsFinite
<1>5. {x \in ends : x <= e} = LineEnds(v, e - 1) \cup {e}
  BY <1>1 DEF LineEnds
<1>6. Cardinality({x \in ends : x <= e}) = n + 1
  <2>1. e \notin LineEnds(v, e - 1)
    BY <1>1 DEF LineEnds
  <2> QED
    BY <1>4, <1>5, <2>1, FS_AddElement
<1>7. Nth(ends, n + 1) = e
  <2> HIDE DEF ends
  <2>1. Nth(ends, Cardinality({x \in ends : x <= e})) = e
    BY <1>2, <1>3, NthIs
  <2> QED
    BY <1>6, <2>1, Zenon
<1>8. n + 1 \in 1..Cardinality(ends)
  <2>1. Cardinality({x \in ends : x <= e}) <= Cardinality(ends)
    <3> HIDE DEF ends
    <3> QED
      BY <1>3, FS_Subset
  <2> HIDE DEF ends, n
  <2> QED
    BY <1>3, <1>4, <1>6, <2>1
<1> DEFINE First(k) == IF k = 1 THEN 1 ELSE Nth(ends, k - 1) + 1
           F(k) == SubSeq(v, First(k), Nth(ends, k) - 1)
<1>9. Pieces(v, "nl")[n + 1] = F(n + 1)
  <2>1. Pieces(v, "nl") = [k \in 1..Cardinality(ends) |-> F(k)]
    BY Zenon DEF Pieces, LineEnds
  <2>2. [k \in 1..Cardinality(ends) |-> F(k)][n + 1] = F(n + 1)
    <3> HIDE DEF F, ends, n
    <3> QED
      BY <1>8
  <2> HIDE DEF F, ends, n
  <2> QED
    BY <2>1, <2>2
<1>10. CASE from = 1
  <2>1. LineEnds(v, e - 1) = {}
    BY <1>1, <1>10 DEF LineEnds, Begins
  <2>2. n = 0
    BY <2>1, FS_EmptySet
  <2>3. n + 1 = 1
    BY <2>2
  <2> HIDE DEF n, ends
  <2> QED
    BY <1>3, <1>7, <1>8, <1>9, <1>10, <2>3, Zenon DEF n
<1>11. CASE from # 1
  <2>0. from \in Int /\ 1 < from /\ from <= e
    BY <1>1, <1>11
  <2>1. from - 1 \in ends
    BY <1>1, <2>0 DEF LineEnds, Begins
  <2>2. {x \in ends : x <= from - 1} = LineEnds(v, e - 1)
    <3>1. \A i \in from..e - 1 : v[i] # "nl"
      BY DEF Begins
    <3>2. ASSUME NEW x, x \in ends, x <= from - 1 PROVE x \in LineEnds(v, e - 1)
      BY <1>1, <2>0, <3>2 DEF LineEnds
    <3>3. ASSUME NEW x \in LineEnds(v, e - 1) PROVE x \in ends /\ x <= from - 1
      <4>1. x \in Int /\ 1 <= x /\ x <= e - 1 /\ v[x] = "nl"
        BY <1>1 DEF LineEnds
      <4>2. ~(x \in from..e - 1)
        BY <3>1, <4>1
      <4>3. x <= from - 1
        BY <1>1, <2>0, <4>1, <4>2
      <4> QED
        BY <1>1, <4>1, <4>3 DEF LineEnds
    <3> QED
      BY <3>2, <3>3
  <2>3. Nth(ends, n) = from - 1
    <3> HIDE DEF ends
    <3>1. Nth(ends, Cardinality({x \in ends : x <= from - 1})) = from - 1
      BY <1>2, <1>3, <2>1, NthIs
    <3> QED
      BY <2>2, <3>1, Zenon
  <2>4. n # 0
    <3>1. from - 1 \in LineEnds(v, e - 1)
      BY <1>1, <2>0, <2>1 DEF LineEnds
    <3> QED
      BY <1>4, <3>1, FS_EmptySet
  <2> HIDE DEF n, ends
  <2>5. n + 1 # 1 /\ (n + 1) - 1 = n /\ from - 1 + 1 = from
    BY <1>4, <2>0, <2>4
  <2>6. First(n + 1) = from
    <3>1. First(n + 1) = Nth(ends, (n + 1) - 1) + 1
      BY <2>5, Zenon
    <3> HIDE DEF First
    <3> QED
      BY <2>3, <2>5, <3>1, Zenon
  <2> HIDE DEF First
  <2>7. F(n + 1) = SubSeq(v, from, e - 1)
    BY <1>7, <2>6, Zenon
  <2> HIDE DEF F
  <2> QED
    BY <1>3, <1>8, <1>9, <2>7, Zenon DEF n
<1> QED
  BY <1>10, <1>11

\* A stretch of a sequence.
LEMMA Stretch ==
  ASSUME NEW set, NEW v \in Seq(set), NEW a \in Nat, NEW b \in Nat, 1 <= a, a <= b + 1, b <= Len(v)
  PROVE  /\ SubSeq(v, a, b) \in Seq(set) /\ Len(SubSeq(v, a, b)) = b - (a - 1)
         /\ \A i \in 1..b - (a - 1) : SubSeq(v, a, b)[i] = v[(a - 1) + i]
OBVIOUS

\* A stretch of a stretch.
LEMMA StretchOfStretch ==
  ASSUME NEW set, NEW v \in Seq(set), NEW m \in Nat, NEW a \in Nat, NEW b \in Nat,
         m <= a, a <= b, b <= Len(v)
  PROVE  SubSeq(SubSeq(v, m + 1, Len(v)), (a - m) + 1, b - m) = SubSeq(v, a + 1, b)
<1> DEFINE w == SubSeq(v, m + 1, Len(v))
           x == SubSeq(w, (a - m) + 1, b - m)
           y == SubSeq(v, a + 1, b)
<1>1. /\ w \in Seq(set) /\ Len(w) = Len(v) - m
      /\ \A i \in 1..Len(v) - m : w[i] = v[m + i]
  OBVIOUS
<1> HIDE DEF w
<1>2. /\ x \in Seq(set) /\ Len(x) = b - a /\ \A i \in 1..b - a : x[i] = w[(a - m) + i]
  BY <1>1
<1>3. /\ y \in Seq(set) /\ Len(y) = b - a /\ \A i \in 1..b - a : y[i] = v[a + i]
  OBVIOUS
<1> HIDE DEF x, y
<1>4. ASSUME NEW i \in 1..b - a PROVE x[i] = y[i]
  <2>1. (a - m) + i \in 1..Len(v) - m /\ m + ((a - m) + i) = a + i
    OBVIOUS
  <2>2. w[(a - m) + i] = v[a + i]
    BY <1>1, <2>1, Zenon
  <2> QED
    BY <1>2, <1>3, <2>2
<1>5. x = y
  BY <1>2, <1>3, <1>4
<1> QED
  BY <1>5 DEF x, y, w

\* appendPartial, piece by piece, keeps the beginning of the line.
LEMMA PartialStep ==
  ASSUME NEW v \in Seq(Byte), NEW m \in Nat, NEW f \in Nat, NEW n \in Nat,
         m <= f, f <= n, n <= Len(v)
  PROVE  AppendPartial(FirstBytes(SubSeq(v, m + 1, f), MaxPartial), SubSeq(v, f + 1, n))
           = FirstBytes(SubSeq(v, m + 1, n), MaxPartial)
<1> DEFINE w == SubSeq(v, m + 1, Len(v))
<1>1. w \in Seq(Byte) /\ Len(w) = Len(v) - m
  OBVIOUS
<1>2. SubSeq(w, (m - m) + 1, f - m) = SubSeq(v, m + 1, f)
  BY StretchOfStretch
<1>3. SubSeq(w, (f - m) + 1, n - m) = SubSeq(v, f + 1, n)
  BY StretchOfStretch
<1>4. SubSeq(w, (m - m) + 1, n - m) = SubSeq(v, m + 1, n)
  BY StretchOfStretch
<1>5. /\ (m - m) + 1 = 1 /\ f - m \in Nat /\ n - m \in Nat /\ f - m <= n - m /\ n - m <= Len(v) - m
      /\ MaxPartial \in Nat
  BY SizesAssumption
<1> HIDE DEF w
<1>6. FirstBytes(FirstBytes(SubSeq(w, 1, f - m), MaxPartial)
                   \o SubSeq(w, (f - m) + 1, n - m), MaxPartial)
        = FirstBytes(SubSeq(w, 1, n - m), MaxPartial)
  <2>1. PICK a \in Nat, b \in Nat : a = f - m /\ b = n - m /\ a <= b /\ b <= Len(w)
    BY <1>1, <1>5
  <2>2. FirstBytes(FirstBytes(SubSeq(w, 1, a), MaxPartial) \o SubSeq(w, a + 1, b), MaxPartial)
          = FirstBytes(SubSeq(w, 1, b), MaxPartial)
    <3>1. w \in Seq(Byte) /\ MaxPartial \in Nat /\ a \in Nat /\ b \in Nat /\ a <= b /\ b <= Len(w)
      BY <1>1, <1>5, <2>1
    <3>2. /\ FirstBytes(FirstBytes(SubSeq(w, 1, a), MaxPartial) \o SubSeq(w, a + 1, b), MaxPartial)
               = FirstBytes(SubSeq(w, 1, b), MaxPartial)
          /\ Len(FirstBytes(SubSeq(w, 1, a), MaxPartial)) = Least(a, MaxPartial)
          /\ Len(SubSeq(w, a + 1, b)) = b - a
          /\ SubSeq(w, a + 1, b) \in Seq(Byte)
      BY <3>1, CaptureStep, Zenon
    <3> QED
      BY <3>2
  <2> QED
    BY <2>1, <2>2, Zenon
<1> QED
  BY <1>2, <1>3, <1>4, <1>5, <1>6, Zenon DEF AppendPartial

\* What can be reported of a line.
Part == UNION {{SafeProgressLines(line)[j] : j \in Nat} : line \in Seq(Byte)}

\* What safeProgressLines makes of a line is a sequence of such parts.
LEMMA PartTypes ==
  ASSUME NEW line \in Seq(Byte)
  PROVE  SafeProgressLines(line) \in Seq(Part)
<1> DEFINE full == {k \in DOMAIN Pieces(line, "cr") : Pieces(line, "cr")[k] # <<>>}
           ends == {i \in 1..Len(line) : line[i] = "cr"} \cup {Len(line) + 1}
<1>1. Cardinality(full) \in Nat
  <2>1. IsFiniteSet(ends)
    <3>1. IsFiniteSet(1..Len(line))
      BY FS_Interval
    <3>2. IsFiniteSet({i \in 1..Len(line) : line[i] = "cr"})
      BY <3>1, FS_Subset
    <3> QED
      BY <3>2, FS_AddElement
  <2>2. DOMAIN Pieces(line, "cr") = 1..Cardinality(ends)
    BY Zenon DEF Pieces
  <2>3. IsFiniteSet(1..Cardinality(ends))
    BY <2>1, FS_CardinalityType, FS_Interval
  <2>4. full \subseteq 1..Cardinality(ends)
    BY <2>2
  <2> HIDE DEF full, ends
  <2> QED
    BY <2>3, <2>4, FS_Subset, FS_CardinalityType
<1> DEFINE F(j) == Bounded(Pieces(line, "cr")[Nth(full, j)])
<1>2. SafeProgressLines(line) = [j \in 1..Cardinality(full) |-> F(j)]
  BY Zenon DEF SafeProgressLines
<1> HIDE DEF F, full
<1>3. \A j \in 1..Cardinality(full) : SafeProgressLines(line)[j] \in Part
  BY DEF Part
<1>4. SafeProgressLines(line) \in [1..Cardinality(full) -> Part]
  BY <1>2, <1>3
<1> QED
  BY <1>1, <1>4

\* How far a stream is: n lines are complete, and p is what is kept of the next
\* one, unless the LineWriter is closed.
Lined(v, f, c, p, n, closed) ==
  /\ f - Len(c) \in Nat /\ c = SubSeq(v, (f - Len(c)) + 1, f)
  /\ closed => n = Cardinality(LineEnds(v, Len(v))) + 1
  /\ ~closed =>
       /\ n = Cardinality(LineEnds(v, f - Len(c)))
       /\ \E m \in 0..f - Len(c) : /\ Begins(v, m + 1, f - Len(c))
                                   /\ p = FirstBytes(SubSeq(v, m + 1, f - Len(c)), MaxPartial)

\* What is to be reported of the lines of a stream.
LEMMA LinesFacts ==
  ASSUME NEW v \in Seq(Byte)
  PROVE  /\ Cardinality(LineEnds(v, Len(v))) \in Nat
         /\ DOMAIN LinesOf(v) = 1..Cardinality(LineEnds(v, Len(v))) + 1
         /\ Len(LinesOf(v)) = Cardinality(LineEnds(v, Len(v))) + 1
         /\ \A k \in DOMAIN Pieces(v, "nl") :
              LinesOf(v)[k] = SafeProgressLines(FirstBytes(Pieces(v, "nl")[k], MaxPartial))
         /\ \E set : LinesOf(v) \in Seq(set)
<1> DEFINE pieces == Pieces(v, "nl")
           F(k) == SafeProgressLines(FirstBytes(pieces[k], MaxPartial))
           n == Cardinality(LineEnds(v, Len(v))) + 1
<1>1. Len(v) \in Nat
  OBVIOUS
<1>2. Cardinality(LineEnds(v, Len(v))) \in Nat
  BY <1>1, LineEndsFinite
<1>3. DOMAIN pieces = 1..n
  BY PieceCount
<1>4. LinesOf(v) = [k \in DOMAIN pieces |-> F(k)]
  BY Zenon DEF LinesOf
<1>5. n \in Nat
  BY <1>2
<1> HIDE DEF F, pieces, n
<1>6. LinesOf(v) = [k \in 1..n |-> F(k)]
  BY <1>3, <1>4, Zenon
<1>7. LinesOf(v) \in Seq({F(k) : k \in 1..n}) /\ Len(LinesOf(v)) = n
  <2> DEFINE set == {F(k) : k \in 1..n}
  <2>1. LinesOf(v) \in [1..n -> set]
    BY <1>6
  <2> HIDE DEF set
  <2>2. LinesOf(v) \in Seq(set) /\ Len(LinesOf(v)) = n
    BY <1>5, <2>1
  <2> QED
    BY <2>2 DEF set
<1>8. \A k \in DOMAIN pieces : LinesOf(v)[k] = F(k)
  BY <1>4
<1>9. DOMAIN LinesOf(v) = 1..n
  BY <1>6
<1> QED
  BY <1>2, <1>6, <1>7, <1>8, <1>9, Zenon DEF F, pieces, n

\* The end of a line: its number, and what is to be reported of it.
LEMMA NewLine ==
  ASSUME NEW v \in Seq(Byte), NEW e \in 1..Len(v) + 1, e = Len(v) + 1 \/ v[e] = "nl",
         NEW m \in 0..e - 1, Begins(v, m + 1, e - 1),
         NEW t \in Seq(Seq(Part)), Told(v, t, <<>>), Len(t) = Cardinality(LineEnds(v, e - 1)),
         NEW line, line = FirstBytes(SubSeq(v, m + 1, e - 1), MaxPartial)
  PROVE  /\ Told(v, Append(t, <<>>), SafeProgressLines(line))
         /\ Append(t, <<>>) \in Seq(Seq(Part)) /\ Len(Append(t, <<>>)) = Len(t) + 1
         /\ SafeProgressLines(line) \in Seq(Part)
<1> DEFINE n == Len(t)
           lines == LinesOf(v)
           u == Append(t, <<>>)
<1>0. /\ <<>> \in Seq(Part) /\ n \in Nat /\ e \in Nat /\ e - 1 \in Nat /\ Len(v) \in Nat
      /\ MaxPartial \in Nat /\ m + 1 \in 1..e
  BY SizesAssumption
<1>1. /\ u \in Seq(Seq(Part)) /\ Len(u) = n + 1
      /\ \A k \in 1..n : u[k] = t[k]
      /\ u[n + 1] = <<>>
  BY <1>0
<1>2. n + 1 \in DOMAIN Pieces(v, "nl") /\ Pieces(v, "nl")[n + 1] = SubSeq(v, m + 1, e - 1)
  BY <1>0, PieceAt
<1>3. lines[n + 1] = SafeProgressLines(line)
  BY <1>2, LinesFacts
<1>4. n + 1 <= Len(lines)
  <2>1. n + 1 \in 1..Cardinality(LineEnds(v, Len(v))) + 1
    BY <1>2, PieceCount
  <2>2. /\ Cardinality(LineEnds(v, Len(v))) \in Nat 
        /\ Len(lines) = Cardinality(LineEnds(v, Len(v))) + 1
    BY LinesFacts
  <2> HIDE DEF n, lines
  <2> QED
    BY <2>1, <2>2
<1>5. SafeProgressLines(line) \in Seq(Part)
  <2>1. SubSeq(v, m + 1, e - 1) \in Seq(Byte)
    BY <1>0
  <2>2. line \in Seq(Byte)
    BY <1>0, <2>1, FirstBytesFacts
  <2> QED
    BY <2>2, PartTypes
<1>6. \A k \in 1..n : t[k] = lines[k]
  <2>1. \A k \in 1..n - 1 : t[k] = lines[k]
    BY DEF Told
  <2>2. n > 0 => t[n] = lines[n]
    <3>1. n > 0 => t[n] \o <<>> = lines[n]
      BY DEF Told
    <3>2. n > 0 => t[n] \in Seq(Part)
      BY <1>0
    <3>3. n > 0 => t[n] \o <<>> = t[n]
      BY <3>2
    <3> QED
      BY <3>1, <3>3
  <2>3. \A k \in 1..n : k \in 1..n - 1 \/ (k = n /\ n > 0)
    BY <1>0
  <2> HIDE DEF n, lines
  <2> QED
    BY <2>1, <2>2, <2>3
<1>7. u[n + 1] \o SafeProgressLines(line) = lines[n + 1]
  <2>1. <<>> \o SafeProgressLines(line) = SafeProgressLines(line)
    BY <1>5
  <2> HIDE DEF n, lines, u
  <2> QED
    BY <1>1, <1>3, <2>1, Zenon
<1>8. \A k \in 1..(n + 1) - 1 : u[k] = lines[k]
  <2>1. (n + 1) - 1 = n
    BY <1>0
  <2> HIDE DEF n, lines, u
  <2> QED
    BY <1>1, <1>6, <2>1, Zenon
<1>9. Told(v, u, SafeProgressLines(line))
  <2>1. n + 1 > 0
    BY <1>0
  <2> HIDE DEF n, u
  <2> QED
    BY <1>1, <1>4, <1>7, <1>8, <2>1, Zenon DEF Told
<1> QED
  BY <1>1, <1>5, <1>9, Zenon

\* Report: the parts of a line move, one by one, from what is to be reported.
LEMMA TellLine ==
  ASSUME NEW v \in Seq(Byte), NEW t \in Seq(Seq(Part)), NEW r \in Seq(Part), r # <<>>,
         Told(v, t, r)
  PROVE  LET u == [t EXCEPT ![Len(t)] = Append(t[Len(t)], Head(r))]
         IN  /\ Told(v, u, Tail(r)) /\ u \in Seq(Seq(Part)) /\ Len(u) = Len(t)
             /\ Tail(r) \in Seq(Part)
<1> DEFINE n == Len(t)
           lines == LinesOf(v)
           x == Append(t[n], Head(r))
           u == [t EXCEPT ![n] = x]
<1>1. n \in Nat /\ n > 0 /\ Tail(r) \in Seq(Part) /\ Head(r) \in Part
  BY DEF Told
<1>2. t[n] \in Seq(Part)
  BY <1>1
<1>3. x \in Seq(Part) /\ x \o Tail(r) = t[n] \o r
  <2>1. PICK a \in Seq(Part) : a = t[n]
    BY <1>2
  <2>2. Append(a, Head(r)) \in Seq(Part) /\ Append(a, Head(r)) \o Tail(r) = a \o r
    BY <1>1
  <2> QED
    BY <2>1, <2>2, Zenon
<1> HIDE DEF x
<1>4. /\ u \in Seq(Seq(Part)) /\ Len(u) = n /\ u[n] = x
      /\ \A k \in 1..n - 1 : u[k] = t[k]
  BY <1>1, <1>3
<1>5. /\ n <= Len(lines) /\ \A k \in 1..n - 1 : t[k] = lines[k]
      /\ t[n] \o r = lines[n]
  BY <1>1 DEF Told
<1> HIDE DEF n, u
<1>6. n > 0
  BY <1>1
<1>7. u[n] \o Tail(r) = lines[n]
  BY <1>3, <1>4, <1>5, Zenon
<1>8. Told(v, u, Tail(r))
  BY <1>4, <1>5, <1>6, <1>7, Zenon DEF Told
<1> QED
  BY <1>1, <1>4, <1>8, Zenon DEF u, n, x

\* LineWriter.Write without the end of a line: more of the same line.
LEMMA MoreOfLine ==
  ASSUME NEW v \in Seq(Byte), NEW f \in Nat, f <= Len(v), NEW c \in Seq(Byte), NEW p, NEW n,
         Lined(v, f, c, p, n, FALSE), ~Contains(c, "nl")
  PROVE  Lined(v, f, <<>>, AppendPartial(p, c), n, FALSE)
<1>1. PICK u \in Nat : u = f - Len(c)
  BY DEF Lined
<1>2. u <= f /\ c = SubSeq(v, u + 1, f) /\ n = Cardinality(LineEnds(v, u))
  BY <1>1 DEF Lined
<1>3. PICK m \in 0..u : Begins(v, m + 1, u) /\ p = FirstBytes(SubSeq(v, m + 1, u), MaxPartial)
  BY <1>1 DEF Lined
<1>4. AppendPartial(p, c) = FirstBytes(SubSeq(v, m + 1, f), MaxPartial)
  <2>1. m \in Nat /\ m <= u
    BY <1>3
  <2>2. AppendPartial(FirstBytes(SubSeq(v, m + 1, u), MaxPartial), SubSeq(v, u + 1, f))
          = FirstBytes(SubSeq(v, m + 1, f), MaxPartial)
    BY <1>2, <2>1, PartialStep
  <2> QED
    BY <1>2, <1>3, <2>2, Zenon
<1>5. \A i \in u + 1..f : v[i] # "nl"
  <2> SUFFICES ASSUME NEW i \in u + 1..f PROVE v[i] # "nl"
    OBVIOUS
  <2>1. i - u \in 1..Len(c) /\ u + (i - u) = i
    BY <1>1
  <2>2. c[i - u] = v[i]
    BY <1>2
  <2> QED
    BY <2>1, <2>2 DEF Contains
<1>6. Begins(v, m + 1, f)
  <2>1. \A i \in m + 1..f : i \in m + 1..u \/ i \in u + 1..f
    BY <1>2
  <2> QED
    BY <1>3, <1>5, <2>1, Zenon DEF Begins
<1>7. n = Cardinality(LineEnds(v, f))
  BY <1>2, <1>5, LineEndsStep
<1>8. f - Len(<<>>) = f /\ m \in 0..f
  BY <1>2
<1>9. <<>> = SubSeq(v, f + 1, f)
  OBVIOUS
<1> QED
  BY <1>4, <1>6, <1>7, <1>8, <1>9 DEF Lined

\* LineWriter.Write up to the end of a line.
LEMMA EndOfLine ==
  ASSUME NEW v \in Seq(Byte), NEW f \in Nat, f <= Len(v), NEW c \in Seq(Byte), NEW p, NEW t,
         Lined(v, f, c, p, Len(t), FALSE), t \in Seq(Seq(Part)), Told(v, t, <<>>),
         NEW i \in 1..Len(c), c[i] = "nl", ~Contains(SubSeq(c, 1, i - 1), "nl")
  PROVE  LET r == SafeProgressLines(AppendPartial(p, SubSeq(c, 1, i - 1)))
         IN  /\ Lined(v, f, SubSeq(c, i + 1, Len(c)), <<>>, Len(t) + 1, FALSE)
             /\ Told(v, Append(t, <<>>), r) /\ r \in Seq(Part)
             /\ Append(t, <<>>) \in Seq(Seq(Part)) /\ Len(Append(t, <<>>)) = Len(t) + 1
<1>1. PICK u \in Nat : u = f - Len(c)
  BY DEF Lined
<1>2. u <= f /\ c = SubSeq(v, u + 1, f) /\ Len(t) = Cardinality(LineEnds(v, u))
  BY <1>1 DEF Lined
<1>3. PICK m \in 0..u : Begins(v, m + 1, u) /\ p = FirstBytes(SubSeq(v, m + 1, u), MaxPartial)
  BY <1>1 DEF Lined
<1>4. PICK e \in Nat : e = u + i
  OBVIOUS
<1>5. /\ e \in 1..f /\ u < e /\ e - 1 \in Nat /\ u <= e - 1 /\ e - 1 <= Len(v)
      /\ m \in Nat /\ m <= u
      /\ e \in 1..Len(v) + 1 /\ (e - 1) + 1 = e /\ f - u = Len(c) /\ Len(v) \in Nat
  BY <1>1, <1>3, <1>4
<1>6. \A j \in 1..Len(c) : c[j] = v[u + j]
  <2>1. 1 <= u + 1 /\ u + 1 <= f + 1 /\ u + 1 \in Nat /\ (u + 1) - 1 = u
    BY <1>2
  <2>2. \A j \in 1..f - ((u + 1) - 1) : SubSeq(v, u + 1, f)[j] = v[((u + 1) - 1) + j]
    BY <2>1, Stretch
  <2> QED
    BY <1>2, <1>5, <2>1, <2>2, Zenon
<1>7. v[e] = "nl"
  BY <1>4, <1>6, Zenon
<1>8. SubSeq(c, 1, i - 1) = SubSeq(v, u + 1, e - 1)
  <2> DEFINE x == SubSeq(c, 1, i - 1)
             y == SubSeq(v, u + 1, e - 1)
  <2>1. x \in Seq(Byte) /\ Len(x) = i - 1 /\ \A j \in 1..i - 1 : x[j] = c[j]
    OBVIOUS
  <2>2. y \in Seq(Byte) /\ Len(y) = i - 1 /\ \A j \in 1..i - 1 : y[j] = v[u + j]
    BY <1>4, <1>5
  <2>3. ASSUME NEW j \in 1..i - 1 PROVE x[j] = y[j]
    <3>1. j \in 1..Len(c)
      OBVIOUS
    <3> HIDE DEF x, y
    <3> QED
      BY <1>6, <2>1, <2>2, <3>1, Zenon
  <2> HIDE DEF x, y
  <2>4. x = y
    BY <2>1, <2>2, <2>3
  <2> QED
    BY <2>4 DEF x, y
<1>9. AppendPartial(p, SubSeq(c, 1, i - 1)) = FirstBytes(SubSeq(v, m + 1, e - 1), MaxPartial)
  <2>1. AppendPartial(FirstBytes(SubSeq(v, m + 1, u), MaxPartial), SubSeq(v, u + 1, e - 1))
          = FirstBytes(SubSeq(v, m + 1, e - 1), MaxPartial)
    <3>1. PICK d \in Nat : d = e - 1
      BY <1>5
    <3>2. u <= d /\ d <= Len(v)
      BY <1>5, <3>1
    <3>3. AppendPartial(FirstBytes(SubSeq(v, m + 1, u), MaxPartial), SubSeq(v, u + 1, d))
            = FirstBytes(SubSeq(v, m + 1, d), MaxPartial)
      BY <1>5, <3>2, PartialStep
    <3> QED
      BY <3>1, <3>3, Zenon
  <2> QED
    BY <1>3, <1>8, <2>1, Zenon
<1>10. \A k \in u + 1..e - 1 : v[k] # "nl"
  <2> SUFFICES ASSUME NEW k \in u + 1..e - 1 PROVE v[k] # "nl"
    OBVIOUS
  <2>1. k - u \in 1..i - 1 /\ u + (k - u) = k
    BY <1>4
  <2>2. Len(SubSeq(c, 1, i - 1)) = i - 1 /\ SubSeq(c, 1, i - 1)[k - u] = c[k - u]
    BY <2>1
  <2>3. c[k - u] = v[k]
    <3>1. k - u \in 1..Len(c)
      BY <2>1
    <3> QED
      BY <1>6, <2>1, <3>1, Zenon
  <2> QED
    BY <2>1, <2>2, <2>3 DEF Contains
<1>11. Begins(v, m + 1, e - 1)
  <2>1. \A k \in m + 1..e - 1 : k \in m + 1..u \/ k \in u + 1..e - 1
    BY <1>5
  <2> QED
    BY <1>3, <1>10, <2>1, Zenon DEF Begins
<1>12. /\ Cardinality(LineEnds(v, e - 1)) = Len(t)
       /\ Cardinality(LineEnds(v, e)) = Len(t) + 1
  <2>1. /\ LineEnds(v, e - 1) = LineEnds(v, u)
        /\ v[(e - 1) + 1] = "nl" =>
             Cardinality(LineEnds(v, (e - 1) + 1)) = Cardinality(LineEnds(v, u)) + 1
    BY <1>5, <1>10, LineEndsStep, Zenon
  <2> QED
    BY <1>2, <1>5, <1>7, <2>1, Zenon
<1>13. /\ Told(v, Append(t, <<>>), SafeProgressLines(AppendPartial(p, SubSeq(c, 1, i - 1))))
       /\ Append(t, <<>>) \in Seq(Seq(Part)) /\ Len(Append(t, <<>>)) = Len(t) + 1
       /\ SafeProgressLines(AppendPartial(p, SubSeq(c, 1, i - 1))) \in Seq(Part)
  <2>1. m \in 0..e - 1
    BY <1>5
  <2> QED
    BY <1>5, <1>7, <1>9, <1>11, <1>12, <2>1, NewLine
<1>14. SubSeq(c, i + 1, Len(c)) = SubSeq(v, e + 1, f) /\ Len(SubSeq(c, i + 1, Len(c))) = f - e
  <2> DEFINE x == SubSeq(c, i + 1, Len(c))
             y == SubSeq(v, e + 1, f)
  <2>0. f - e = Len(c) - i
    BY <1>4, <1>5
  <2>1. x \in Seq(Byte) /\ Len(x) = f - e /\ \A j \in 1..f - e : x[j] = c[i + j]
    <3>1. /\ x \in Seq(Byte) /\ Len(x) = Len(c) - i
          /\ \A j \in 1..Len(c) - i : x[j] = c[i + j]
      OBVIOUS
    <3> HIDE DEF x
    <3> QED
      BY <2>0, <3>1, Zenon
  <2>2. y \in Seq(Byte) /\ Len(y) = f - e /\ \A j \in 1..f - e : y[j] = v[e + j]
    BY <1>5
  <2>3. ASSUME NEW j \in 1..f - e PROVE x[j] = y[j]
    <3>1. i + j \in 1..Len(c) /\ u + (i + j) = e + j
      BY <1>4, <1>5
    <3>2. c[i + j] = v[e + j]
      BY <1>6, <3>1, Zenon
    <3> HIDE DEF x, y
    <3> QED
      BY <2>1, <2>2, <3>2, Zenon
  <2> HIDE DEF x, y
  <2>4. x = y
    BY <2>1, <2>2, <2>3
  <2> QED
    BY <2>1, <2>4 DEF x, y
<1>15. Lined(v, f, SubSeq(c, i + 1, Len(c)), <<>>, Len(t) + 1, FALSE)
  <2>1. PICK x : x = SubSeq(c, i + 1, Len(c))
    OBVIOUS
  <2>2. f - Len(x) = e /\ x = SubSeq(v, e + 1, f)
    BY <1>5, <1>14, <2>1
  <2>3. Begins(v, e + 1, e)
    <3>1. (e + 1) - 1 = e /\ \A k \in e + 1..e : FALSE
      BY <1>5
    <3> QED
      BY <1>7, <3>1 DEF Begins
  <2>4. <<>> = FirstBytes(SubSeq(v, e + 1, e), MaxPartial)
    <3>1. SubSeq(v, e + 1, e) = <<>>
      BY <1>5
    <3>2. Least(0, MaxPartial) = 0
      BY SizesAssumption DEF Least
    <3>3. FirstBytes(<<>>, MaxPartial) = <<>>
      BY <3>2 DEF FirstBytes
    <3> QED
      BY <3>1, <3>3, Zenon
  <2>5. e \in 0..e
    BY <1>5
  <2>6. Lined(v, f, x, <<>>, Len(t) + 1, FALSE)
    BY <1>12, <2>2, <2>3, <2>4, <2>5, Zenon DEF Lined
  <2> QED
    BY <2>1, <2>6, Zenon
<1> QED
  BY <1>13, <1>15, Zenon

\* LineWriter.Close: what is left of the stream is its last line.
LEMMA EndOfStream ==
  ASSUME NEW v \in Seq(Byte), NEW p, NEW t,
         Lined(v, Len(v), <<>>, p, Len(t), FALSE), t \in Seq(Seq(Part)), Told(v, t, <<>>)
  PROVE  LET r == SafeProgressLines(p)
         IN  /\ Lined(v, Len(v), <<>>, <<>>, Len(t) + 1, TRUE)
             /\ Told(v, Append(t, <<>>), r) /\ r \in Seq(Part)
             /\ Append(t, <<>>) \in Seq(Seq(Part)) /\ Len(Append(t, <<>>)) = Len(t) + 1
<1>1. Len(v) \in Nat /\ Len(v) - Len(<<>>) = Len(v)
  OBVIOUS
<1>2. /\ <<>> = SubSeq(v, Len(v) + 1, Len(v)) /\ Len(t) = Cardinality(LineEnds(v, Len(v)))
  BY <1>1 DEF Lined
<1>3. PICK m \in 0..Len(v) : /\ Begins(v, m + 1, Len(v))
                             /\ p = FirstBytes(SubSeq(v, m + 1, Len(v)), MaxPartial)
  BY <1>1 DEF Lined
<1>4. PICK e \in Nat : e = Len(v) + 1
  BY <1>1
<1>5. e - 1 = Len(v) /\ e \in 1..Len(v) + 1 /\ m \in 0..e - 1
  BY <1>1, <1>4
<1>6. /\ Told(v, Append(t, <<>>), SafeProgressLines(p))
      /\ Append(t, <<>>) \in Seq(Seq(Part)) /\ Len(Append(t, <<>>)) = Len(t) + 1
      /\ SafeProgressLines(p) \in Seq(Part)
  BY <1>2, <1>3, <1>4, <1>5, NewLine
<1>7. Lined(v, Len(v), <<>>, <<>>, Len(t) + 1, TRUE)
  BY <1>1, <1>2 DEF Lined
<1> QED
  BY <1>6, <1>7, Zenon

\* LineWriter.Write begins: the rest of the write is what was not looked at.
LEMMA MoreToRead ==
  ASSUME NEW v \in Seq(Byte), NEW f \in Nat, NEW p, NEW k, Lined(v, f, <<>>, p, k, FALSE),
         NEW n \in Nat, f <= n, n <= Len(v)
  PROVE  Lined(v, n, SubSeq(v, f + 1, n), p, k, FALSE)
<1>1. PICK c : c = SubSeq(v, f + 1, n)
  OBVIOUS
<1>2. n - Len(c) = f /\ f - Len(<<>>) = f
  BY <1>1
<1>3. /\ k = Cardinality(LineEnds(v, f))
      /\ \E m \in 0..f : Begins(v, m + 1, f) /\ p = FirstBytes(SubSeq(v, m + 1, f), MaxPartial)
  BY <1>2 DEF Lined
<1>4. Lined(v, n, c, p, k, FALSE)
  BY <1>1, <1>2, <1>3, Zenon DEF Lined
<1> QED
  BY <1>1, <1>4, Zenon

-----------------------------------------------------------------------------
(* The lines the two streams report.                                       *)

\* The child has written something, and then everything; the LineWriters are
\* closed one after the other once both copies have ended.
Started == \E s \in Stream : fed[s] > 0

Closed(s) == pc # "run" /\ Started /\ (pc = "close" => s = "out")

PhaseInv ==
  /\ pc = "run" => \E s \in Stream : script[s] # <<>>
  /\ pc \in {"close", "closed"} => Started
  /\ pc # "run" => \A s \in Stream : chunk[s] = <<>> /\ (Started => fed[s] = Len(script[s]))
  /\ pc \notin {"run", "close", "closed"} => \A s \in Stream : pend[s] = <<>>

LineInv(s) ==
  /\ Lined(script[s], fed[s], chunk[s], partial[s], Len(said[s]), Closed(s))
  /\ Told(script[s], said[s], pend[s])

ReportInv ==
  /\ said \in [Stream -> Seq(Seq(Part))] /\ pend \in [Stream -> Seq(Part)]
  /\ \A s \in Stream : LineInv(s)

\* What is known of one stream.
LEMMA OfStream ==
  ASSUME StreamInv, ReportInv, NEW s \in Stream
  PROVE  /\ script[s] \in Seq(Byte) /\ fed[s] \in Nat /\ fed[s] <= Len(script[s])
         /\ chunk[s] \in Seq(Byte) /\ said[s] \in Seq(Seq(Part)) /\ pend[s] \in Seq(Part)
         /\ Lined(script[s], fed[s], chunk[s], partial[s], Len(said[s]), Closed(s))
         /\ Told(script[s], said[s], pend[s])
BY ScriptTypes DEF StreamInv, ReportInv, LineInv

\* A step of one stream leaves the other alone.
LEMMA OneStream ==
  ASSUME ReportInv, NEW s \in Stream, script' = script,
         said' \in [Stream -> Seq(Seq(Part))], pend' \in [Stream -> Seq(Part)],
         \A t \in Stream \ {s} :
           /\ fed'[t] = fed[t] /\ chunk'[t] = chunk[t] /\ partial'[t] = partial[t]
           /\ said'[t] = said[t] /\ pend'[t] = pend[t] /\ Closed(t)' = Closed(t),
         LineInv(s)'
  PROVE  ReportInv'
<1> SUFFICES ASSUME NEW t \in Stream PROVE LineInv(t)'
  BY DEF ReportInv
<1>1. CASE t = s
  BY <1>1, Zenon
<1>2. CASE t # s
  <2>1. LineInv(t)
    BY DEF ReportInv
  <2>2. t \in Stream \ {s}
    BY <1>2
  <2>3. /\ Lined(script[t], fed[t], chunk[t], partial[t], Len(said[t]), Closed(t))
        /\ Told(script[t], said[t], pend[t])
    BY <2>1, Zenon DEF LineInv
  <2>4. /\ script'[t] = script[t] /\ fed'[t] = fed[t] /\ chunk'[t] = chunk[t]
        /\ partial'[t] = partial[t] /\ said'[t] = said[t] /\ pend'[t] = pend[t]
        /\ Closed(t)' = Closed(t)
    BY <2>2, Zenon
  <2>5. /\ Lined(script'[t], fed'[t], chunk'[t], partial'[t], Len(said'[t]), Closed(t)')
        /\ Told(script'[t], said'[t], pend'[t])
    BY <2>3, <2>4, Zenon
  <2> QED
    BY <2>5, Zenon DEF LineInv
<1> QED
  BY <1>1, <1>2

\* A step that leaves the streams alone, and the phase of the writers.
LEMMA SameLines ==
  ASSUME ReportInv, UNCHANGED <<script, fed, chunk, partial, said, pend>>,
         \A s \in Stream : Closed(s)' = Closed(s)
  PROVE  ReportInv'
<1>1. "out" \in Stream
  BY DEF Stream
<1>2. ASSUME NEW s \in Stream PROVE LineInv(s)'
  <2>1. LineInv(s)
    BY DEF ReportInv
  <2>2. Closed(s)' = Closed(s)
    OBVIOUS
  <2>3. /\ Lined(script[s], fed[s], chunk[s], partial[s], Len(said[s]), Closed(s)')
        /\ Told(script[s], said[s], pend[s])
    BY <2>1, <2>2, Zenon DEF LineInv
  <2>4. /\ script' = script /\ fed' = fed /\ chunk' = chunk /\ partial' = partial
        /\ said' = said /\ pend' = pend
    OBVIOUS
  <2> QED
    BY <2>3, <2>4, Zenon DEF LineInv
<1> QED
  BY <1>2 DEF ReportInv

\* A write of the child: no line is completed yet.
LEMMA WriteLines ==
  ASSUME StreamInv, PhaseInv, ReportInv, NEW s \in Stream, Write(s)
  PROVE  PhaseInv' /\ ReportInv'
<1>1. PICK n \in fed[s] + 1..Len(script[s]) :
        /\ chunk' = [chunk EXCEPT ![s] = SubSeq(script[s], fed[s] + 1, n)]
        /\ fed' = [fed EXCEPT ![s] = n]
  BY Zenon DEF Write
<1>2. /\ pc = "run" /\ chunk[s] = <<>> /\ pc' = pc
      /\ script' = script /\ partial' = partial /\ said' = said /\ pend' = pend
  BY DEF Write
<1>3. /\ script[s] \in Seq(Byte) /\ fed[s] \in Nat /\ fed[s] <= Len(script[s])
      /\ Lined(script[s], fed[s], chunk[s], partial[s], Len(said[s]), Closed(s))
      /\ Told(script[s], said[s], pend[s])
  BY OfStream, Zenon
<1>4. n \in Nat /\ fed[s] <= n /\ n <= Len(script[s])
  BY <1>1, <1>3
<1>5. \A t \in Stream : Closed(t) = FALSE /\ Closed(t)' = FALSE
  BY <1>2 DEF Closed
<1>6. Lined(script[s], fed[s], <<>>, partial[s], Len(said[s]), FALSE)
  BY <1>2, <1>3, <1>5, Zenon
<1>7. Lined(script[s], n, SubSeq(script[s], fed[s] + 1, n), partial[s], Len(said[s]), FALSE)
  BY <1>3, <1>4, <1>6, MoreToRead, Zenon
<1>8. fed'[s] = n /\ chunk'[s] = SubSeq(script[s], fed[s] + 1, n)
  BY <1>1 DEF StreamInv
<1>9. LineInv(s)'
  <2>1. /\ Lined(script'[s], fed'[s], chunk'[s], partial'[s], Len(said'[s]), Closed(s)')
        /\ Told(script'[s], said'[s], pend'[s])
    BY <1>2, <1>3, <1>5, <1>7, <1>8, Zenon
  <2> QED
    BY <2>1, Zenon DEF LineInv
<1>10. \A t \in Stream \ {s} : fed'[t] = fed[t] /\ chunk'[t] = chunk[t]
  BY <1>1 DEF StreamInv
<1>11. ReportInv'
  BY <1>2, <1>5, <1>9, <1>10, OneStream DEF ReportInv
<1>12. PhaseInv'
  BY <1>2 DEF PhaseInv
<1> QED
  BY <1>11, <1>12

\* One turn of the loop of LineWriter.Write: the line goes on, or it ends.
LEMMA SplitLines ==
  ASSUME StreamInv, PhaseInv, ReportInv, NEW s \in Stream, Split(s)
  PROVE  PhaseInv' /\ ReportInv'
<1>1. chunk[s] # <<>> /\ pend[s] = <<>> /\ UNCHANGED <<script, fed, pc>>
  BY DEF Split
<1>2. pc = "run"
  BY <1>1 DEF PhaseInv
<1>3. \A t \in Stream : Closed(t) = FALSE /\ Closed(t)' = FALSE
  BY <1>1, <1>2 DEF Closed
<1>4. PhaseInv'
  BY <1>1, <1>2 DEF PhaseInv
<1>5. /\ script[s] \in Seq(Byte) /\ fed[s] \in Nat /\ fed[s] <= Len(script[s])
      /\ chunk[s] \in Seq(Byte) /\ said[s] \in Seq(Seq(Part))
      /\ Lined(script[s], fed[s], chunk[s], partial[s], Len(said[s]), FALSE)
      /\ Told(script[s], said[s], <<>>)
  BY <1>1, <1>3, OfStream, Zenon
<1>6. ASSUME NEW p, NEW c, NEW t, NEW r,
             partial' = [partial EXCEPT ![s] = p], chunk' = [chunk EXCEPT ![s] = c],
             said' = [said EXCEPT ![s] = t], pend' = [pend EXCEPT ![s] = r],
             Lined(script[s], fed[s], c, p, Len(t), FALSE), Told(script[s], t, r),
             t \in Seq(Seq(Part)), r \in Seq(Part)
      PROVE  ReportInv'
  <2>1. partial'[s] = p /\ chunk'[s] = c /\ said'[s] = t /\ pend'[s] = r
    BY <1>6 DEF StreamInv, ReportInv
  <2>2. script' = script /\ fed' = fed
    BY <1>1
  <2>3. /\ Lined(script'[s], fed'[s], chunk'[s], partial'[s], Len(said'[s]), Closed(s)')
        /\ Told(script'[s], said'[s], pend'[s])
    BY <1>3, <1>6, <2>1, <2>2, Zenon
  <2>4. LineInv(s)'
    BY <2>3, Zenon DEF LineInv
  <2>5. said' \in [Stream -> Seq(Seq(Part))] /\ pend' \in [Stream -> Seq(Part)]
    BY <1>6 DEF ReportInv
  <2>6. \A x \in Stream \ {s} :
           /\ fed'[x] = fed[x] /\ chunk'[x] = chunk[x] /\ partial'[x] = partial[x]
           /\ said'[x] = said[x] /\ pend'[x] = pend[x]
    BY <1>6, <2>2 DEF StreamInv, ReportInv
  <2> QED
    BY <1>3, <2>2, <2>4, <2>5, <2>6, OneStream
<1>7. CASE /\ ~Contains(chunk[s], "nl")
           /\ partial' = [partial EXCEPT ![s] = AppendPartial(partial[s], chunk[s])]
           /\ chunk' = [chunk EXCEPT ![s] = <<>>] /\ UNCHANGED <<pend, said>>
  <2>1. Lined(script[s], fed[s], <<>>, AppendPartial(partial[s], chunk[s]), Len(said[s]), FALSE)
    BY <1>5, <1>7, MoreOfLine
  <2>2. said' = [said EXCEPT ![s] = said[s]] /\ pend' = [pend EXCEPT ![s] = <<>>]
    BY <1>1, <1>7 DEF ReportInv
  <2>3. <<>> \in Seq(Part)
    OBVIOUS
  <2> QED
    BY <1>4, <1>5, <1>6, <1>7, <2>1, <2>2, <2>3, Zenon
<1>8. ASSUME NEW i \in 1..Len(chunk[s]), chunk[s][i] = "nl",
             ~Contains(SubSeq(chunk[s], 1, i - 1), "nl"),
             pend' = [pend EXCEPT ![s] =
                        SafeProgressLines(AppendPartial(partial[s], SubSeq(chunk[s], 1, i - 1)))],
             said' = [said EXCEPT ![s] = Append(said[s], <<>>)],
             partial' = [partial EXCEPT ![s] = <<>>],
             chunk' = [chunk EXCEPT ![s] = SubSeq(chunk[s], i + 1, Len(chunk[s]))]
      PROVE  ReportInv'
  <2> DEFINE r == SafeProgressLines(AppendPartial(partial[s], SubSeq(chunk[s], 1, i - 1)))
  <2>1. /\ Lined(script[s], fed[s], SubSeq(chunk[s], i + 1, Len(chunk[s])), <<>>,
                 Len(said[s]) + 1, FALSE)
        /\ Told(script[s], Append(said[s], <<>>), r) /\ r \in Seq(Part)
        /\ Append(said[s], <<>>) \in Seq(Seq(Part)) /\ Len(Append(said[s], <<>>)) = Len(said[s]) + 1
    BY <1>5, <1>8, EndOfLine, Zenon
  <2> HIDE DEF r
  <2>2. pend' = [pend EXCEPT ![s] = r]
    BY <1>8 DEF r
  <2>3. Lined(script[s], fed[s], SubSeq(chunk[s], i + 1, Len(chunk[s])), <<>>,
              Len(Append(said[s], <<>>)), FALSE)
    BY <2>1, Zenon
  <2> QED
    BY <1>6, <1>8, <2>1, <2>2, <2>3, Zenon
<1> QED
  BY <1>4, <1>7, <1>8, Zenon DEF Split

\* One part of a line is reported.
LEMMA TellLines ==
  ASSUME StreamInv, PhaseInv, ReportInv, NEW s \in Stream, Tell(s)
  PROVE  PhaseInv' /\ ReportInv'
<1>1. /\ pend[s] # <<>> /\ pend' = [pend EXCEPT ![s] = Tail(pend[s])]
      /\ UNCHANGED <<script, fed, chunk, partial, pc>>
  BY DEF Tell
<1> DEFINE u == [said[s] EXCEPT ![Len(said[s])] = Append(said[s][Len(said[s])], Head(pend[s]))]
<1>2. said' = [said EXCEPT ![s] = u]
  BY Zenon DEF Tell
<1>3. /\ script[s] \in Seq(Byte) /\ said[s] \in Seq(Seq(Part)) /\ pend[s] \in Seq(Part)
      /\ Lined(script[s], fed[s], chunk[s], partial[s], Len(said[s]), Closed(s))
      /\ Told(script[s], said[s], pend[s])
  BY OfStream, Zenon
<1>4. /\ Told(script[s], u, Tail(pend[s])) /\ u \in Seq(Seq(Part)) /\ Len(u) = Len(said[s])
      /\ Tail(pend[s]) \in Seq(Part)
  BY <1>1, <1>3, TellLine
<1> HIDE DEF u
<1>5. script' = script /\ fed' = fed /\ chunk' = chunk /\ partial' = partial /\ pc' = pc
  BY <1>1
<1>6. \A t \in Stream : Closed(t)' = Closed(t)
  BY <1>5 DEF Closed, Started
<1>7. said'[s] = u /\ pend'[s] = Tail(pend[s])
  BY <1>1, <1>2 DEF ReportInv
<1>8. LineInv(s)'
  <2>1. /\ Lined(script'[s], fed'[s], chunk'[s], partial'[s], Len(said'[s]), Closed(s)')
        /\ Told(script'[s], said'[s], pend'[s])
    BY <1>3, <1>4, <1>5, <1>6, <1>7, Zenon
  <2> QED
    BY <2>1, Zenon DEF LineInv
<1>9. said' \in [Stream -> Seq(Seq(Part))] /\ pend' \in [Stream -> Seq(Part)]
  BY <1>1, <1>2, <1>4 DEF ReportInv
<1>10. \A t \in Stream \ {s} : said'[t] = said[t] /\ pend'[t] = pend[t]
  BY <1>1, <1>2 DEF ReportInv
<1>11. ReportInv'
  BY <1>5, <1>6, <1>8, <1>9, <1>10, OneStream
<1>12. PhaseInv'
  BY <1>1, <1>5 DEF PhaseInv, Started
<1> QED
  BY <1>11, <1>12

\* LineWriter.Close: the last line of a stream.
LEMMA CloseLines ==
  ASSUME StreamInv, PhaseInv, ReportInv, NEW s \in Stream, NEW from, NEW to,
         CloseWriter(s, from, to),
         \/ s = "out" /\ from = "run" /\ to = "close"
         \/ s = "err" /\ from = "close" /\ to = "closed"
  PROVE  PhaseInv' /\ ReportInv'
<1>1. /\ pc = from /\ pc' = to /\ Joined
      /\ pend' = [pend EXCEPT ![s] = SafeProgressLines(partial[s])]
      /\ said' = [said EXCEPT ![s] = Append(said[s], <<>>)]
      /\ partial' = [partial EXCEPT ![s] = <<>>]
      /\ script' = script /\ fed' = fed /\ chunk' = chunk
  BY Zenon DEF CloseWriter
<1>2. \A t \in Stream : fed[t] = Len(script[t]) /\ chunk[t] = <<>> /\ pend[t] = <<>>
  BY <1>1 DEF Joined
<1>3. Started
  <2>1. CASE pc = "run"
    <3>1. PICK t \in Stream : script[t] # <<>>
      BY <2>1 DEF PhaseInv
    <3>2. script[t] \in Seq(Byte)
      BY OfStream
    <3>3. Len(script[t]) > 0
      BY <3>1, <3>2
    <3> QED
      BY <1>2, <3>3 DEF Started
  <2>2. CASE pc = "close"
    BY <2>2 DEF PhaseInv
  <2> QED
    BY <1>1, <2>1, <2>2
<1>4. Started'
  BY <1>1, <1>3 DEF Started
<1>5. PhaseInv'
  BY <1>1, <1>2, <1>4 DEF PhaseInv
<1>6. Closed(s) = FALSE /\ Closed(s)' = TRUE
  BY <1>1, <1>4 DEF Closed
<1>7. \A t \in Stream \ {s} : Closed(t)' = Closed(t)
  BY <1>1, <1>3, <1>4 DEF Closed, Stream
<1>8. /\ script[s] \in Seq(Byte) /\ said[s] \in Seq(Seq(Part))
      /\ Lined(script[s], Len(script[s]), <<>>, partial[s], Len(said[s]), FALSE)
      /\ Told(script[s], said[s], <<>>)
  BY <1>2, <1>6, OfStream, Zenon
<1> DEFINE r == SafeProgressLines(partial[s])
           u == Append(said[s], <<>>)
<1>9. /\ Lined(script[s], Len(script[s]), <<>>, <<>>, Len(said[s]) + 1, TRUE)
      /\ Told(script[s], u, r) /\ r \in Seq(Part)
      /\ u \in Seq(Seq(Part)) /\ Len(u) = Len(said[s]) + 1
  BY <1>8, EndOfStream, Zenon
<1>10. pend' = [pend EXCEPT ![s] = r] /\ said' = [said EXCEPT ![s] = u]
  BY <1>1
<1> HIDE DEF r, u
<1>11. pend'[s] = r /\ said'[s] = u /\ partial'[s] = <<>>
  BY <1>1, <1>10 DEF ReportInv, StreamInv
<1>12. LineInv(s)'
  <2>1. /\ Lined(script'[s], fed'[s], chunk'[s], partial'[s], Len(said'[s]), Closed(s)')
        /\ Told(script'[s], said'[s], pend'[s])
    BY <1>1, <1>2, <1>6, <1>9, <1>11, Zenon
  <2> QED
    BY <2>1, Zenon DEF LineInv
<1>13. said' \in [Stream -> Seq(Seq(Part))] /\ pend' \in [Stream -> Seq(Part)]
  BY <1>9, <1>10 DEF ReportInv
<1>14. \A t \in Stream \ {s} : /\ said'[t] = said[t] /\ pend'[t] = pend[t]
                               /\ partial'[t] = partial[t]
  BY <1>1, <1>10 DEF ReportInv, StreamInv
<1>15. ReportInv'
  BY <1>1, <1>7, <1>12, <1>13, <1>14, OneStream
<1> QED
  BY <1>5, <1>15

\* The other steps: the phase changes only when nothing is left to be read.
LEMMA OtherLines ==
  ASSUME StreamInv, PhaseInv, ReportInv, UNCHANGED streams,
         Run \/ RunReturns \/ (pc' = pc \/ {pc, pc'} \subseteq {"work", "wait", "end"})
  PROVE  PhaseInv' /\ ReportInv'
<1>1. /\ script' = script /\ fed' = fed /\ chunk' = chunk /\ partial' = partial
      /\ said' = said /\ pend' = pend
  BY DEF streams
<1>2. Started' = Started
  BY <1>1 DEF Started
<1>3. CASE Run
  <2>1. pc = "work" /\ pc' = "run" /\ (\A s \in Stream : fed[s] = 0)
        /\ script # [s \in Stream |-> <<>>]
    BY <1>3 DEF Run
  <2>2. ~Started
    BY <2>1 DEF Started
  <2>3. script \in [Stream -> Seq(Byte)]
    BY SizesAssumption DEF StreamInv
  <2>4. \E s \in Stream : script[s] # <<>>
    BY <2>1, <2>3
  <2>5. PhaseInv'
    BY <1>1, <2>1, <2>4 DEF PhaseInv
  <2>6. \A s \in Stream : Closed(s)' = Closed(s)
    BY <2>1, <2>2 DEF Closed
  <2> QED
    BY <1>1, <2>5, <2>6, SameLines
<1>4. CASE RunReturns
  <2>1. pc = "closed" /\ pc' = "work" /\ Joined
    BY <1>4 DEF RunReturns
  <2>2. PhaseInv'
    BY <1>1, <1>2, <2>1 DEF PhaseInv, Joined
  <2>3. \A s \in Stream : Closed(s)' = Closed(s)
    BY <1>2, <2>1 DEF Closed
  <2> QED
    BY <1>1, <2>2, <2>3, SameLines
<1>5. CASE pc' = pc \/ {pc, pc'} \subseteq {"work", "wait", "end"}
  <2>1. PhaseInv'
    BY <1>1, <1>2, <1>5 DEF PhaseInv
  <2>2. \A s \in Stream : Closed(s)' = Closed(s)
    BY <1>2, <1>5 DEF Closed
  <2> QED
    BY <1>1, <2>1, <2>2, SameLines
<1> QED
  BY <1>3, <1>4, <1>5

\* At first nothing was written or reported.
LEMMA FirstLines == Init => PhaseInv /\ ReportInv
<1> SUFFICES ASSUME Init PROVE PhaseInv /\ ReportInv
  OBVIOUS
<1>1. /\ script \in Scripts /\ fed = [s \in Stream |-> 0] /\ chunk = [s \in Stream |-> <<>>]
      /\ partial = [s \in Stream |-> <<>>] /\ pend = [s \in Stream |-> <<>>]
      /\ said = [s \in Stream |-> <<>>] /\ pc = "work"
  BY DEF Init
<1>2. ~Started
  BY <1>1 DEF Started
<1>3. PhaseInv
  BY <1>1, <1>2 DEF PhaseInv
<1>4. ASSUME NEW s \in Stream PROVE LineInv(s)
  <2>1. PICK v \in Seq(Byte) : v = script[s]
    BY <1>1, ScriptTypes
  <2>2. Closed(s) = FALSE
    BY <1>2 DEF Closed
  <2>3. LineEnds(v, 0) = {}
    BY DEF LineEnds
  <2>4. Begins(v, 0 + 1, 0)
    BY DEF Begins
  <2>5. <<>> = FirstBytes(SubSeq(v, 0 + 1, 0), MaxPartial)
    <3>1. SubSeq(v, 0 + 1, 0) = <<>>
      OBVIOUS
    <3>2. Least(0, MaxPartial) = 0
      BY SizesAssumption DEF Least
    <3>3. FirstBytes(<<>>, MaxPartial) = <<>>
      BY <3>2 DEF FirstBytes
    <3> QED
      BY <3>1, <3>3, Zenon
  <2>6. Len(<<>>) = 0 /\ 0 - 0 = 0 /\ 0 \in Nat /\ 0 \in 0..0 /\ <<>> = SubSeq(v, 0 + 1, 0)
    OBVIOUS
  <2>7. 0 = Cardinality(LineEnds(v, 0))
    BY <2>3, FS_EmptySet
  <2>8. Lined(v, 0, <<>>, <<>>, Len(<<>>), FALSE)
    BY <2>4, <2>5, <2>6, <2>7, Zenon DEF Lined
  <2>9. Told(v, <<>>, <<>>)
    <3>1. 0 <= Len(LinesOf(v))
      BY LinesFacts
    <3> QED
      BY <3>1 DEF Told
  <2>10. fed[s] = 0 /\ chunk[s] = <<>> /\ partial[s] = <<>> /\ said[s] = <<>> /\ pend[s] = <<>>
    BY <1>1
  <2> QED
    BY <2>1, <2>2, <2>8, <2>9, <2>10, Zenon DEF LineInv
<1>5. said \in [Stream -> Seq(Seq(Part))] /\ pend \in [Stream -> Seq(Part)]
  BY <1>1
<1> QED
  BY <1>3, <1>4, <1>5 DEF ReportInv

\* One step of anyone.
LEMMA NextLines ==
  StreamInv /\ PhaseInv /\ ReportInv /\ [Next]_vars => PhaseInv' /\ ReportInv'
<1> SUFFICES ASSUME StreamInv, PhaseInv, ReportInv, [Next]_vars PROVE PhaseInv' /\ ReportInv'
  OBVIOUS
<1>1. ASSUME NEW s \in Stream, Write(s) \/ Split(s) \/ Tell(s) PROVE PhaseInv' /\ ReportInv'
  BY <1>1, WriteLines, SplitLines, TellLines
<1>2. ASSUME NEW kind \in Kind, NEW line \in Text, Report(kind, line)
      PROVE  PhaseInv' /\ ReportInv'
  <2>1. UNCHANGED streams /\ pc' = pc
    BY <1>2 DEF Report
  <2> QED
    BY <2>1, OtherLines
<1>3. CASE Close
  <2>1. "out" \in Stream /\ "err" \in Stream
    BY DEF Stream
  <2> QED
    BY <1>3, <2>1, CloseLines DEF Close
<1>4. CASE Run \/ RunReturns
  <2>1. UNCHANGED streams
    BY <1>4 DEF Run, RunReturns
  <2> QED
    BY <1>4, <2>1, OtherLines
<1>5. ASSUME NEW failed \in BOOLEAN, Finish(failed) PROVE PhaseInv' /\ ReportInv'
  <2>1. UNCHANGED streams /\ {pc, pc'} \subseteq {"work", "wait", "end"}
    BY <1>5 DEF Finish
  <2> QED
    BY <2>1, OtherLines
<1>6. CASE FinishWait \/ Update \/ View \/ Lost
  <2>1. UNCHANGED streams /\ (pc' = pc \/ {pc, pc'} \subseteq {"work", "wait", "end"})
    BY <1>6 DEF FinishWait, Update, View, Lost
  <2> QED
    BY <2>1, OtherLines
<1>7. CASE UNCHANGED vars
  <2>1. UNCHANGED streams /\ pc' = pc
    BY <1>7 DEF vars, streams
  <2> QED
    BY <2>1, OtherLines
<1> QED
  BY <1>1, <1>2, <1>3, <1>4, <1>5, <1>6, <1>7, Zenon DEF Next, Main, Terminated

\* However the output is cut into writes, and however long its lines are, what
\* is reported of every line is what it should be, once and in order; when the
\* session ends, every line was reported.
THEOREM StreamsAlwaysFaithful == Spec => []StreamsAreFaithful
<1>1. ASSUME StreamInv, PhaseInv, ReportInv PROVE StreamsAreFaithful
  <2>1. CaptureIsFaithful
    BY <1>1 DEF StreamInv
  <2>2. ASSUME NEW s \in Stream, pc \in {"end", "wait"}, fed[s] > 0
        PROVE  said[s] = LinesOf(script[s])
    <3>1. /\ script[s] \in Seq(Byte) /\ said[s] \in Seq(Seq(Part))
          /\ Lined(script[s], fed[s], chunk[s], partial[s], Len(said[s]), Closed(s))
          /\ Told(script[s], said[s], pend[s])
      BY <1>1, OfStream, Zenon
    <3>2. Closed(s) = TRUE /\ pend[s] = <<>>
      BY <1>1, <2>2 DEF Closed, Started, PhaseInv
    <3>3. PICK v \in Seq(Byte), t \in Seq(Seq(Part)) : v = script[s] /\ t = said[s]
      BY <3>1
    <3>4. Told(v, t, <<>>) /\ Len(t) = Cardinality(LineEnds(v, Len(v))) + 1
      BY <3>1, <3>2, <3>3, Zenon DEF Lined
    <3>5. PICK lines : lines = LinesOf(v)
      OBVIOUS
    <3>6. PICK n \in Nat : n = Len(t)
      BY <3>3
    <3>7. PICK set : lines \in Seq(set) /\ Len(lines) = n
      BY <3>4, <3>5, <3>6, LinesFacts, Zenon
    <3>8. ASSUME NEW k \in 1..n PROVE t[k] = lines[k]
      <4>1. CASE k < n
        <5>1. k \in 1..n - 1
          BY <4>1
        <5> QED
          BY <3>4, <3>5, <3>6, <5>1, Zenon DEF Told
      <4>2. CASE k = n
        <5>1. t[n] \o <<>> = lines[n]
          BY <3>4, <3>5, <3>6, <4>2 DEF Told
        <5>2. t[n] \in Seq(Part)
          BY <3>6, <4>2
        <5>3. t[n] \o <<>> = t[n]
          BY <5>2
        <5> QED
          BY <4>2, <5>1, <5>3, Zenon
      <4> QED
        BY <4>1, <4>2
    <3>9. t = lines
      <4>1. t \in [1..n -> Seq(Part)] /\ lines \in [1..n -> set]
        BY <3>6, <3>7
      <4> QED
        BY <3>8, <4>1
    <3> QED
      BY <3>3, <3>5, <3>9
  <2>3. ASSUME NEW s \in Stream PROVE Told(script[s], said[s], pend[s])
    BY <1>1 DEF ReportInv, LineInv
  <2> QED
    BY <2>1, <2>2, <2>3, Zenon DEF StreamsAreFaithful, Told
<1>2. Init => PhaseInv /\ ReportInv
  BY FirstLines
<1>3. StreamInv /\ PhaseInv /\ ReportInv /\ [Next]_vars => PhaseInv' /\ ReportInv'
  BY NextLines
<1>4. Spec => [](PhaseInv /\ ReportInv)
  BY <1>2, <1>3, AlwaysTypes, PTL DEF Spec
<1> QED
  BY <1>1, <1>4, AlwaysTypes, PTL
=============================================================================
