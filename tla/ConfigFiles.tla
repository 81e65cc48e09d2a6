----------------------------- MODULE ConfigFiles -----------------------------
(***************************************************************************)
(* How the entrypoints turn environment variables into parameters of       *)
(* configuration files, as functions on files: a file is a sequence of     *)
(* lines.  What the result should be is stated apart from how the code     *)
(* computes it, for ServiceStart to compare.                               *)
(*                                                                         *)
(* Code modelled: internal/config/parameters.go,                           *)
(* internal/bootstrap/indexed.go and files.go.                             *)
(*                                                                         *)
(* A line is <<kind, parameter, value>>.  "active" sets the parameter,     *)
(* "indented" too, behind blanks, "comment" is its commented example,      *)
(* "placeholder" one to be replaced, "text" any other line.  The value     *)
(* ${PREFIX_i} is the number i, literal values are numbers that are no     *)
(* index.                                                                  *)
(***************************************************************************)
EXTENDS Integers, Sequences, FiniteSets, SequencesExt

ActiveLine(param, value) == <<"active", param, value>>
Blank == <<"blank", "", 0>>

LineKinds == {"active", "indented", "comment", "placeholder", "text", "blank", "link"}
Lines(params) == LineKinds \X params \X Int

Active(param) == {"active"} \X {param} \X Int
Shown(param) == {"comment"} \X {param} \X Int

\* Lines with blanks in front count as parameters, too.
Assigning(params) == {"active", "indented"} \X params \X Int

\* The elements of a sequence that are, or are not, in a set, in their order.
Only(seq, set) ==
  LET kept[i \in 0..Len(seq)] ==
        IF i = 0 THEN <<>>
        ELSE IF seq[i] \in set THEN Append(kept[i - 1], seq[i]) ELSE kept[i - 1]
  IN kept[Len(seq)]

Without(seq, set) == Only(seq, Range(seq) \ set)

-----------------------------------------------------------------------------
(* CollectIndexed *)

\* A variable is <<prefix, index, filled>>, its prefix named for the parameter
\* it becomes.  The number is Bare for PREFIX itself, Odd for a suffix that is
\* no number.
Bare == -1
Odd == -2

OfPrefixes(variables, params) == {v \in variables : v[1] \in params}
Indexed(variables, params) == {v \in OfPrefixes(variables, params) : v[2] >= 0}

\* One sequence of numbers for all the prefixes together, without gaps and
\* without a number used twice.
Consecutive(variables) ==
  {v[2] : v \in variables} = 0..(Cardinality(variables) - 1)

Collectable(variables, params, strict) ==
  LET found == Indexed(variables, params)
  IN /\ \A v \in OfPrefixes(variables, params) :
          v[2] # Bare /\ (strict => v[2] # Odd)
     /\ \A v \in found : v[3]
     /\ Consecutive(found)

\* The parameters that refer to the variables, in the order of the numbers.
Collected(variables, params) ==
  LET found == Indexed(variables, params)
  IN [i \in 1..Cardinality(found) |->
        LET v == CHOOSE v \in found : v[2] = i - 1 IN ActiveLine(v[1], v[2])]

-----------------------------------------------------------------------------
(* rewriteParameter and replaceIndexedParamsAtEnd *)

\* A file without lines is read as one empty line.
Written(lines) == IF lines = <<>> THEN <<Blank>> ELSE lines

Values(lines, param) ==
  LET active == Only(lines, Active(param))
  IN [i \in DOMAIN active |-> active[i][3]]

Assignments(param, values) == [i \in DOMAIN values |-> ActiveLine(param, values[i])]

\* New parameters go behind the last one that is kept, else behind the first
\* commented example; 0 is the end of the file.
Anchor(lines, param) ==
  LET active == {i \in DOMAIN lines : lines[i] \in Active(param)}
      shown == {i \in DOMAIN lines : lines[i] \in Shown(param)}
  IN IF active # {} THEN Max(active) ELSE IF shown # {} THEN Min(shown) ELSE 0

Separated(lines) ==
  IF lines = <<>> \/ Last(lines) = Blank THEN lines ELSE Append(lines, Blank)

Insert(lines, at, added) ==
  IF at # 0
  THEN SubSeq(lines, 1, at) \o added \o SubSeq(lines, at + 1, Len(lines))
  ELSE IF added = <<>> THEN lines ELSE Separated(lines) \o added

\* Bug: values that are already present are added again.
Rewrite_again(lines, param, values, preserve) ==
  LET kept == IF preserve THEN lines ELSE Without(lines, Active(param))
  IN Written(Insert(kept, Anchor(kept, param), Assignments(param, values)))

Rewrite(lines, param, values, preserve) ==
  LET kept == IF preserve THEN lines ELSE Without(lines, Active(param))
      new == Without(values, Range(Values(kept, param)))
  IN Written(Insert(kept, Anchor(kept, param), Assignments(param, new)))

MergeParameterValues(lines, param, given, values) ==
  IF given THEN Rewrite(lines, param, values, TRUE)
  ELSE Rewrite(lines, param, <<>>, FALSE)

SetParameter(lines, param, value) == Rewrite(lines, param, <<value>>, FALSE)

\* Without variables the file is left alone.
UpdateIndexedParameter(lines, param, variables) ==
  LET references == Collected(variables, {param})
  IN IF references = <<>> THEN lines
     ELSE Rewrite(lines, param, [i \in DOMAIN references |-> references[i][3]], FALSE)

Trimmed(lines) ==
  LET filled == {i \in DOMAIN lines : lines[i] # Blank}
  IN IF filled = {} THEN <<>> ELSE SubSeq(lines, 1, Max(filled))

\* Bug: empty lines at the end are kept.
ReplaceAtEnd_untrimmed(lines, params, rules) ==
  LET kept == Without(lines, Assigning(params))
  IN Written(IF rules = <<>> THEN kept ELSE Append(kept, Blank) \o rules)

ReplaceAtEnd(lines, params, rules) ==
  LET kept == Trimmed(Without(lines, Assigning(params)))
  IN Written(IF rules = <<>> THEN kept ELSE Separated(kept) \o rules)

-----------------------------------------------------------------------------
(* Files of the web servers: files.go *)

\* ReplaceInFile puts the value for the placeholders, once and for all.
Filled(lines, params, value) ==
  [i \in DOMAIN lines |->
     IF lines[i][1] = "placeholder" /\ lines[i][2] \in params
     THEN <<"text", lines[i][2], value>> ELSE lines[i]]

RemoveLinesContaining(lines, params) ==
  Without(lines, Lines(params))

AppendMissing(lines, line) == IF Contains(lines, line) THEN lines ELSE Append(lines, line)

\* A link of this name to its own source; nothing is a file without lines.
Link(name) == <<"link", name, 0>>

RemoveMatchingSymlink(lines, name) == IF lines = <<Link(name)>> THEN <<>> ELSE lines

-----------------------------------------------------------------------------
(* What the results should be: the parameters, and the lines of the user *)

Settings(lines, params) == Only(lines, Assigning(params))

\* Everything but the parameters in question and blank lines.
Others(lines, param) == Without(lines, Active(param) \cup {Blank})
OthersAny(lines, params) == Without(lines, Assigning(params) \cup {Blank})
=============================================================================
