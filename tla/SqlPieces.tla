----------------------------- MODULE SqlPieces -----------------------------
(***************************************************************************)
(* What a script for MySQL means to those who write it: it is put together *)
(* from pieces - characters of statements, literals, comments, ends of     *)
(* statements, changes of the delimiter - and its statements are read off  *)
(* the pieces, with no scanning.  SqlScript is how the code finds them in  *)
(* the text.                                                               *)
(*                                                                         *)
(* A character stands for its class: "a" for any one without a meaning,    *)
(* "D" for the word DELIMITER in any case, "!" for the ! and + of comments *)
(* that are kept, '"' for " and `, "$" for what custom delimiters are      *)
(* made of, "nl" for the newline.                                          *)
(***************************************************************************)
EXTENDS Naturals, Sequences, FiniteSets, SequencesExt

Space == {" ", "nl"}
Quotes == {"'", "\""}
Characters == Space \cup Quotes \cup {"a", "D", "!", "$", ";", "\\", "/", "*", "-", "#"}

TrimSpace(text) ==
  LET solid == {i \in DOMAIN text : text[i] \notin Space}
  IN IF solid = {} THEN <<>> ELSE SubSeq(text, Min(solid), Max(solid))

\* A line ends with its newline, the last one with the script.
FirstLine(text) ==
  LET ends == {i \in DOMAIN text : text[i] = "nl"}
  IN SubSeq(text, 1, IF ends = {} THEN Len(text) ELSE Min(ends))

\* A line of two fields, the first one DELIMITER in any case.
Changes(text) ==
  LET fields == TrimSpace(text)
      new == TrimSpace(Tail(fields))
  IN /\ Len(fields) > 2
     /\ fields[1] = "D"
     /\ fields[2] \in Space
     /\ \A i \in DOMAIN new : new[i] \notin Space

ChangedTo(text) == TrimSpace(Tail(TrimSpace(text)))

-----------------------------------------------------------------------------
(***************************************************************************)
(* A piece is <<kind, text>>:                                              *)
(*   "character"     a character of a statement                            *)
(*   "literal"       a literal with its quotes                             *)
(*   "kept"          a comment for the server, with what encloses it       *)
(*   "block"         any other comment of that form                        *)
(*   "line"          a comment up to the end of its line                   *)
(*   "end"           the delimiter in force, which is its text             *)
(*   "change"        a line with a new delimiter                           *)
(*   "openLiteral"   a literal without its end                             *)
(*   "openComment"   a comment without its end                             *)
(***************************************************************************)
Copied == {"character", "literal", "kept"}
Open == {"openLiteral", "openComment"}
Kinds == Copied \cup Open \cup {"block", "line", "end", "change"}
Pieces == Kinds \X Seq(Characters)

TextOf(piece, delimiter) ==
  CASE piece[1] = "end" -> delimiter
    [] piece[1] = "change" -> <<"D", " ">> \o piece[2] \o <<"nl">>
    [] OTHER -> piece[2]

Begun == [text |-> <<>>, delimiter |-> <<";">>, current |-> <<>>,
          statements |-> <<>>, result |-> "ok"]

\* A statement without a text is none.
Statement(text) == IF TrimSpace(text) = <<>> THEN <<>> ELSE <<TrimSpace(text)>>

\* What a piece adds to a statement: a comment that is not kept separates
\* what stands around it, as the newline behind it does.
Adds(piece) ==
  CASE piece[1] \in Copied -> piece[2]
    [] piece[1] = "block" -> <<" ">>
    [] piece[1] = "line" /\ Last(piece[2]) = "nl" -> <<"nl">>
    [] OTHER -> <<>>

ResultOf(piece) ==
  CASE piece[1] = "openLiteral" -> "literal"
    [] piece[1] = "openComment" -> "comment"
    [] OTHER -> "ok"

Adding(piece, before) ==
  [text |-> before.text \o TextOf(piece, before.delimiter),
   delimiter |-> IF piece[1] = "change" THEN piece[2] ELSE before.delimiter,
   current |-> IF piece[1] = "end" THEN <<>> ELSE before.current \o Adds(piece),
   statements |-> IF piece[1] = "end" THEN before.statements \o Statement(before.current)
                  ELSE before.statements,
   result |-> ResultOf(piece)]

\* What has been read before the first piece and behind each one.
Reading(script) ==
  LET read[n \in 0..Len(script)] ==
        IF n = 0 THEN Begun ELSE Adding(script[n], read[n - 1])
  IN read

TextOfAll(script) == Reading(script)[Len(script)].text

\* A script that breaks off in a literal or a comment has no statements.
Meaning(script) ==
  LET all == Reading(script)[Len(script)]
  IN [result |-> all.result,
      statements |-> IF all.result = "ok" THEN all.statements \o Statement(all.current)
                     ELSE <<>>]

-----------------------------------------------------------------------------
(* When pieces are what they are called, with what follows them ahead. *)

\* Between its quotes a literal has characters, escaped ones and doubled
\* quotes; places are those between them, up to the n-th.
Path(text, n, places) ==
  \A j \in places \ {n} :
    \/ text[j + 1] \notin {text[1], "\\"} /\ j + 1 \in places
    \/ text[j + 1] = "\\" /\ j + 2 \in places
    \/ text[j + 1] = text[1] /\ j + 2 \in places /\ text[j + 2] = text[1]

Literal(text, n) == \E places \in SUBSET (1..n) : 1 \in places /\ Path(text, n, places)

\* A comment that does not end before its n-th character.
Comment(text, n) ==
  /\ n >= 2
  /\ text[1] = "/" /\ text[2] = "*"
  /\ \A j \in 3..(n - 1) : ~(text[j] = "*" /\ text[j + 1] = "/")

LineComment(ahead) ==
  \/ ahead[1] = "#"
  \/ Len(ahead) > 2 /\ ahead[1] = "-" /\ ahead[2] = "-" /\ ahead[3] \in Space

\* A character at which nothing else begins.
Plain(ahead) ==
  /\ ahead[1] \notin Quotes
  /\ ~LineComment(ahead)
  /\ ~(Len(ahead) > 1 /\ ahead[1] = "/" /\ ahead[2] = "*")

Named(piece, ahead) ==
  LET text == piece[2]
      n == Len(text)
  IN CASE piece[1] = "character" -> n = 1 /\ Plain(ahead)
       [] piece[1] = "literal" ->
            /\ n > 1 /\ text[1] \in Quotes /\ text[n] = text[1]
            /\ Literal(text, n - 1)
            /\ Len(ahead) > n => ahead[n + 1] # text[1]
       [] piece[1] \in {"kept", "block"} ->
            /\ n > 3 /\ Comment(text, n - 1) /\ text[n - 1] = "*" /\ text[n] = "/"
            /\ text[3] = "!" <=> piece[1] = "kept"
       [] piece[1] = "line" ->
            /\ n > 0 /\ LineComment(text)
            /\ \A j \in 1..(n - 1) : text[j] # "nl"
            /\ text[n] = "nl" \/ ahead = text
       [] piece[1] = "openLiteral" ->
            /\ n > 0 /\ text[1] \in Quotes /\ ahead = text
            /\ Literal(text, n) \/ (text[n] = "\\" /\ Literal(text, n - 1))
       [] piece[1] = "openComment" -> Comment(text, n) /\ ahead = text
       [] piece[1] = "change" -> n > 0 /\ \A i \in 1..n : text[i] \notin Space
       [] OTHER -> n = 0

\* The delimiter changes only on a line of its own where no statement has
\* begun; there a line that reads like a change is one.
Stands(piece, before, ahead) ==
  LET anew == /\ before.text = <<>> \/ Last(before.text) = "nl"
              /\ TrimSpace(before.current) = <<>>
  IN /\ Named(piece, ahead)
     /\ piece[1] \notin {"end", "change"} => ~IsPrefix(before.delimiter, ahead)
     /\ IF piece[1] = "change" THEN anew ELSE anew => ~Changes(FirstLine(ahead))

WellFormed(script) ==
  LET read == Reading(script)
      text == TextOfAll(script)
  IN \A n \in DOMAIN script :
       Stands(script[n], read[n - 1], SubSeq(text, Len(read[n - 1].text) + 1, Len(text)))
=============================================================================
