----------------------------- MODULE SqlScript -----------------------------
(***************************************************************************)
(* How a MySQL script is cut into the statements that are sent to the      *)
(* database one by one: splitSQLStatements.  It runs over the script line  *)
(* by line, with no look beyond the end of a line, while literals and      *)
(* comments go on over several lines.                                      *)
(*                                                                         *)
(* Code modelled: internal/mysql/sqlscript.go.  One action per branch of   *)
(* the loop of write; the loop over the lines is StartLine.                *)
(***************************************************************************)
EXTENDS SqlPieces

CONSTANT Scripts  \* the scripts of the instance, each a sequence of pieces

ASSUME ScriptsAssumption == \A s \in Scripts : s \in Seq(Pieces) /\ WellFormed(s)

-----------------------------------------------------------------------------
VARIABLES
  script,      \* the script as pieces
  rest,        \* the script variable: its lines that are still to be read
  line,        \* what is left of the current line
  delimiter,   \* sqlStatementParser.delimiter
  statement,   \* sqlStatementParser.statement
  statements,  \* sqlStatementParser.statements
  mode,        \* "code", "line", "block" or "kept" comment, or the open quote
  result       \* "none", "ok", or what has not been terminated

vars == <<script, rest, line, delimiter, statement, statements, mode, result>>

TypeOK ==
  /\ script \in Seq(Pieces)
  /\ rest \in Seq(Characters)
  /\ line \in Seq(Characters)
  /\ delimiter \in Seq(Characters) \ {<<>>}
  /\ statement \in Seq(Characters)
  /\ statements \in Seq(Seq(Characters) \ {<<>>})
  /\ mode \in {"code", "line", "block", "kept"} \cup Quotes
  /\ result \in {"none", "ok", "literal", "comment"}

Init ==
  /\ script \in Scripts
  /\ rest = TextOfAll(script)
  /\ line = <<>>
  /\ delimiter = <<";">>
  /\ statement = <<>>
  /\ statements = <<>>
  /\ mode = "code"
  /\ result = "none"

\* Bug: the line is taken for a command in the middle of a statement.
CanChangeDelimiter_anywhere == mode = "code"

CanChangeDelimiter == mode = "code" /\ TrimSpace(statement) = <<>>

StartLine ==
  /\ result = "none"
  /\ line = <<>>
  /\ rest # <<>>
  /\ LET first == FirstLine(rest)
     IN /\ rest' = SubSeq(rest, Len(first) + 1, Len(rest))
        /\ IF CanChangeDelimiter /\ Changes(first)
           THEN delimiter' = ChangedTo(first) /\ UNCHANGED line
           ELSE line' = first /\ UNCHANGED delimiter
  /\ UNCHANGED <<script, statement, statements, mode, result>>

-----------------------------------------------------------------------------
(* write *)

Ahead(text) == IsPrefix(text, line)
Skip(n) == line' = SubSeq(line, n + 1, Len(line))

\* The next n characters become part of the statement.
Copy(n) ==
  /\ statement' = statement \o SubSeq(line, 1, n)
  /\ Skip(n)

Writing == line # <<>> /\ UNCHANGED <<script, rest, delimiter, result>>

InLineComment ==
  /\ Writing
  /\ mode = "line"
  /\ IF Ahead(<<"nl">>)
     THEN mode' = "code" /\ Copy(1)
     ELSE Skip(1) /\ UNCHANGED <<mode, statement>>
  /\ UNCHANGED statements

InBlockComment ==
  /\ Writing
  /\ mode \in {"block", "kept"}
  /\ IF Ahead(<<"*", "/">>)
     THEN /\ mode' = "code"
          /\ IF mode = "kept" THEN Copy(2)
             ELSE Skip(2) /\ statement' = Append(statement, " ")
     ELSE /\ IF mode = "kept" THEN Copy(1) ELSE Skip(1) /\ UNCHANGED statement
          /\ UNCHANGED mode
  /\ UNCHANGED statements

\* A backslash protects the next character, two quotes stand for one.
InLiteral ==
  /\ Writing
  /\ mode \in Quotes
  /\ IF \/ Head(line) = "\\" /\ Len(line) > 1
        \/ Ahead(<<mode, mode>>)
     THEN Copy(2) /\ UNCHANGED mode
     ELSE Copy(1) /\ mode' = IF Head(line) = mode THEN "code" ELSE mode
  /\ UNCHANGED statements

\* What begins here, in the order in which write asks.
Begins ==
  IF Ahead(delimiter) THEN "end"
  ELSE IF \/ Head(line) = "#"
          \/ Ahead(<<"-", "-">>) /\ Len(line) > 2 /\ line[3] \in Space THEN "line"
  ELSE IF Ahead(<<"/", "*", "!">>) THEN "kept"
  ELSE IF Ahead(<<"/", "*">>) THEN "block"
  ELSE IF Head(line) \in Quotes THEN Head(line)
  ELSE "code"

\* Bug: statements without a text are kept.
Flushed_blank == Append(statements, TrimSpace(statement))

\* flush: a statement without a text is dropped.
Flushed ==
  IF TrimSpace(statement) = <<>> THEN statements
  ELSE Append(statements, TrimSpace(statement))

EndStatement ==
  /\ Writing
  /\ mode = "code"
  /\ Begins = "end"
  /\ statements' = Flushed
  /\ statement' = <<>>
  /\ Skip(Len(delimiter))
  /\ UNCHANGED mode

BeginComment ==
  /\ Writing
  /\ mode = "code"
  /\ Begins \in {"line", "block", "kept"}
  /\ mode' = Begins
  /\ IF Begins = "kept" THEN Copy(2)
     ELSE Skip(IF Head(line) = "#" THEN 1 ELSE 2) /\ UNCHANGED statement
  /\ UNCHANGED statements

Character ==
  /\ Writing
  /\ mode = "code"
  /\ Begins \in {"code"} \cup Quotes
  /\ mode' = Begins
  /\ Copy(1)
  /\ UNCHANGED statements

\* All lines are read: an open literal or comment is an error, for which
\* nothing is returned, and what is left is the last statement.
Finish ==
  /\ result = "none"
  /\ line = <<>>
  /\ rest = <<>>
  /\ result' = CASE mode \in Quotes -> "literal"
                 [] mode \in {"block", "kept"} -> "comment"
                 [] OTHER -> "ok"
  /\ statements' = IF result' = "ok" THEN Flushed ELSE <<>>
  /\ statement' = <<>>
  /\ UNCHANGED <<script, rest, line, delimiter, mode>>

Next ==
  \/ StartLine \/ InLineComment \/ InBlockComment \/ InLiteral
  \/ EndStatement \/ BeginComment \/ Character
  \/ Finish

Spec == Init /\ [][Next]_vars

-----------------------------------------------------------------------------
(* Properties *)

\* The statements that reach the database are those of the script: none is cut
\* at a delimiter that is part of a literal, a comment or the body of a
\* trigger, none runs on into the next one, none is lost, and a script that
\* breaks off inside a literal or a comment is refused as a whole.
SplitAsWritten ==
  result # "none" =>
    /\ result = Meaning(script).result
    /\ statements = Meaning(script).statements
=============================================================================
