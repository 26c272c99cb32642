-------------------------- MODULE MCProgressSession --------------------------
(* Small instances of ProgressSession for TLC. *)
EXTENDS ProgressSession

Output(out, err) == [s \in Stream |-> IF s = "out" THEN out ELSE err]

\* Between them: no output, a line without an end, empty lines, a carriage
\* return, a line longer than a row, one longer than the partial line, output
\* longer than the capture, and lines on both streams.
SomeScripts ==
  { Output(<<>>, <<>>),
    Output(<<"c", "cr", "c", "nl", "c">>, <<>>),
    Output(<<>>, <<"c", "c", "c", "c", "nl", "c", "c">>),
    Output(<<"nl", "c", "c", "c", "nl">>, <<"c", "nl">>),
    Output(<<"c", "c", "nl">>, <<"c", "c", "c">>) }

=============================================================================
