------------------------------ MODULE Session ------------------------------
(***************************************************************************)
(* The loop of main (src/main.cpp) over the statements of Query: lines     *)
(* come in, commands and statements are told apart and dealt with, and     *)
(* the input may end before .exit does.                                    *)
(*                                                                         *)
(* getline forgets the line before it unless the input had ended already:  *)
(* after a last line without a newline, each further call leaves that line *)
(* in input_buffer, and the loop, which never asks for the stream's state, *)
(* takes it for a new one.                                                 *)
(***************************************************************************)
EXTENDS Query

VARIABLES
  phase,        \* "prompt", "line" once getline has returned, or "exited"
  input_buffer, \* the line, as its words
  input         \* std::cin: "open", "ended" after a newline, or "cut" within
                \* its last line

sessionVars == <<db, run, phase, input_buffer, input>>

\* A line that begins with a dot is one of these or no command; then it is
\* compiled like any other, and no statement begins with a dot.
Exit == <<".exit">>
Commands == {<<".help">>, <<".tree">>, <<".bpm">>, <<".save">>}

SessionInit ==
  /\ QueryInit
  /\ phase = "prompt"
  /\ input_buffer = <<>>
  /\ input = "open"

-----------------------------------------------------------------------------
(* std::getline *)

Prompted == phase = "prompt" /\ run = Idle

GetLine(line) ==
  /\ Prompted /\ input = "open"
  /\ phase' = "line"
  /\ input_buffer' = line
  /\ input' \in {"open", "cut"}
  /\ UNCHANGED vars

GetEnd_KeepsLine ==
  /\ Prompted /\ input = "open"
  /\ phase' = "line"
  /\ input' = "ended"
  /\ UNCHANGED <<vars, input_buffer>>
GetEnd ==
  /\ Prompted /\ input = "open"
  /\ phase' = "line"
  /\ input_buffer' = <<>>
  /\ input' = "ended"
  /\ UNCHANGED vars

\* The end had been reached before: nothing is read and nothing forgotten.
GetNothing_Erases ==
  /\ Prompted /\ input # "open"
  /\ phase' = "line"
  /\ input_buffer' = <<>>
  /\ UNCHANGED <<vars, input>>
GetNothing ==
  /\ Prompted /\ input # "open"
  /\ phase' = "line"
  /\ UNCHANGED <<vars, input_buffer, input>>

-----------------------------------------------------------------------------
(* What becomes of the line *)

\* An empty line, and the commands that change no row.
Ignore ==
  /\ phase = "line"
  /\ input_buffer \in Commands \cup {<<>>}
  /\ phase' = "prompt"
  /\ UNCHANGED <<vars, input_buffer, input>>

Leave ==
  /\ phase = "line"
  /\ input_buffer = Exit
  /\ phase' = "exited"
  /\ UNCHANGED <<vars, input_buffer, input>>

IsStatement == input_buffer \notin Commands \cup {<<>>, Exit}

Refuse ==
  /\ phase = "line" /\ IsStatement
  /\ Prepare(input_buffer).result # "success"
  /\ phase' = "prompt"
  /\ UNCHANGED <<vars, input_buffer, input>>

Obey ==
  /\ phase = "line" /\ IsStatement
  /\ Execute(input_buffer)
  /\ phase' = "prompt"
  /\ UNCHANGED <<input_buffer, input>>

\* Control comes back to the prompt when the statement has ended.
Continue == Work /\ UNCHANGED <<phase, input_buffer, input>>

\* All that the program does of itself; the user brings the lines and their end.
Loop == GetNothing \/ Ignore \/ Leave \/ Refuse \/ Obey \/ Continue
SessionNext ==
  \/ \E line \in Lines : GetLine(line)
  \/ GetEnd
  \/ Loop

\* One thread runs the loop, and nothing in it blocks but getline on open input.
SessionSpec == SessionInit /\ [][SessionNext]_sessionVars /\ WF_sessionVars(Loop)

-----------------------------------------------------------------------------

\* No further id can be given out in the model, or memory was misread.
Bounded == db.next_row = MAX_ROWS \/ db.fault

\* Every line is dealt with, statements that delete or move the rows they scan
\* included: the program exits or asks for the next one.
LinesAreAnswered ==
  phase = "line" ~> phase = "exited" \/ Prompted \/ Bounded

\* After input that ends with a newline the loop never stops, and does nothing:
\* the empty line it is left with is no statement.
SpinsAtEnd == [][input = "ended" => UNCHANGED <<db, run>> /\ phase' # "exited"]_sessionVars

\* After input that ends within an INSERT the row is inserted again and again,
\* until the ids run out.
InsertsRow(line) ==
  LET p == Prepare(line) IN p.result = "success" /\ p.statement.type = "insert"
LastInsertRepeats ==
  Prompted /\ input = "cut" /\ InsertsRow(input_buffer) ~> Bounded
=============================================================================
