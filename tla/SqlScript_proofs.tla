--------------------------- MODULE SqlScript_proofs ---------------------------
(***************************************************************************)
(* The splitter of MySQL scripts finds the statements of every well-formed *)
(* script, however it is put together from its pieces.                     *)
(*                                                                         *)
(* The invariant says where in the pieces the splitter stands, and that it *)
(* has understood what lies behind it; each step takes it on by a          *)
(* character, an escaped one or a delimiter.  That it sees no further than *)
(* its line does no harm: all it looks for ends with the line at the       *)
(* latest.                                                                 *)
(***************************************************************************)
EXTENDS SqlScript, TLAPS, WellFoundedInduction, NaturalsInduction, SequenceTheorems

\* The text of the script, what has been read before the piece after n others,
\* and where in the text that one starts.
Text == TextOfAll(script)
Before(n) == Reading(script)[n]
Start(n) == Len(Before(n).text)
Kind(n) == script[n + 1][1]
Written(n) == script[n + 1][2]

\* The splitter stands behind the p-th character of the text.
At(p) ==
  /\ p \in 0..Len(Text)
  /\ Len(line) + Len(rest) = Len(Text) - p
  /\ \A i \in 1..Len(line) : line[i] = Text[p + i]
  /\ \A i \in 1..Len(rest) : rest[i] = Text[p + Len(line) + i]

\* Only the end of a line is a newline, and only the last line has another end.
Lines(p) ==
  /\ \A i \in 1..(Len(line) - 1) : line[i] # "nl"
  /\ line # <<>> /\ rest # <<>> => line[Len(line)] = "nl"
  /\ line = <<>> /\ rest # <<>> /\ p # 0 => Text[p] = "nl"

\* Everything before the piece after n others has been understood.
Understood(n) ==
  /\ n \in 0..Len(script)
  /\ delimiter = Before(n).delimiter
  /\ statements = Before(n).statements
  /\ Before(n).result = "ok"

\* It stands in front of that piece, which is no command if the line has been
\* looked at,
InFront(n) ==
  /\ mode = "code"
  /\ statement = Before(n).current
  /\ line # <<>> /\ n < Len(script) => Kind(n) # "change"

\* or inside of it, behind its j-th character.
Inside(n, j) == n < Len(script) /\ j \in 1..Len(Written(n))

\* Its end, if it has one, is found from where it stands.
InsideLiteral(n, j) ==
  /\ Kind(n) \in {"literal", "openLiteral"}
  /\ mode = Written(n)[1]
  /\ statement = Before(n).current \o SubSeq(Written(n), 1, j)
  /\ \/ \E m \in 1..Len(Written(n)) : \E places \in SUBSET (1..m) :
          /\ j \in places /\ Path(Written(n), m, places)
          /\ IF Kind(n) = "literal" THEN m = Len(Written(n)) - 1
             ELSE m = Len(Written(n)) \/ (m = Len(Written(n)) - 1 /\ Written(n)[m + 1] = "\\")
     \/ Kind(n) = "openLiteral" /\ j = Len(Written(n))

Keeps(text) == Len(text) > 2 /\ text[3] = "!"

InsideComment(n, j) ==
  /\ Kind(n) \in {"kept", "block", "openComment"}
  /\ j >= 2
  /\ Kind(n) # "openComment" => j <= Len(Written(n)) - 2
  /\ mode = IF Keeps(Written(n)) THEN "kept" ELSE "block"
  /\ statement = Before(n).current \o
       (IF Keeps(Written(n)) THEN SubSeq(Written(n), 1, j) ELSE <<>>)

InsideLine(n, j) ==
  /\ Kind(n) = "line"
  /\ mode = "line"
  /\ statement = Before(n).current
  /\ j = Len(Written(n)) => Written(n)[j] # "nl"

Within(n, j) == InsideLiteral(n, j) \/ InsideComment(n, j) \/ InsideLine(n, j)

Position ==
  \E n \in 0..Len(script), p \in 0..Len(Text) :
    /\ Understood(n) /\ At(p) /\ Lines(p)
    /\ \/ p = Start(n) /\ InFront(n)
       \/ \E j \in 1..Len(Text) : p = Start(n) + j /\ Inside(n, j) /\ Within(n, j)

SInv ==
  /\ TypeOK
  /\ script \in Seq(Pieces) /\ WellFormed(script)
  /\ \A i \in 1..Len(delimiter) : delimiter[i] \notin Space
  /\ IF result = "none" THEN Position ELSE line = <<>> /\ rest = <<>>
  /\ SplitAsWritten

-----------------------------------------------------------------------------
(* Induction, with a set in the place of a property, and the reading of a   *)
(* script: the recursive function exists and has the values it should.      *)

LEMMA NaturalInduction ==
  ASSUME NEW T, 0 \in T, \A n \in Nat : n \in T => n + 1 \in T
  PROVE  Nat \subseteq T
<1> SUFFICES ASSUME Nat \ T # {} PROVE FALSE
  OBVIOUS
<1>1. PICK n \in Nat \ T : \A k \in Nat \ T : <<k, n>> \notin OpToRel(<, Nat)
  BY WFMin, NatLessThanWellFounded
<1>2. \A k \in Nat \ T : ~(k < n)
  BY <1>1, Zenon DEF OpToRel
<1>3. n # 0 /\ n - 1 \in Nat /\ n - 1 + 1 = n /\ n - 1 < n
  OBVIOUS
<1>4. QED
  BY <1>2, <1>3

Reads(f, s, m) ==
  f = [n \in 0..m |-> IF n = 0 THEN Begun ELSE Adding(s[n], f[n - 1])]

LEMMA ReadsOneMore ==
  ASSUME NEW s, NEW m \in Nat, NEW f, Reads(f, s, m)
  PROVE  Reads([n \in 0..m + 1 |-> IF n <= m THEN f[n] ELSE Adding(s[n], f[m])], s, m + 1)
<1> DEFINE g == [n \in 0..m + 1 |-> IF n <= m THEN f[n] ELSE Adding(s[n], f[m])]
           G(n) == IF n = 0 THEN Begun ELSE Adding(s[n], g[n - 1])
<1>1. \A n \in 0..m : f[n] = IF n = 0 THEN Begun ELSE Adding(s[n], f[n - 1])
  BY Zenon DEF Reads
<1>2. \A n \in 0..m : n \in 0..m + 1 /\ n <= m /\ (n # 0 => n - 1 \in 0..m)
  OBVIOUS
<1>3. \A n \in 0..m : g[n] = f[n]
  BY <1>2
<1>4. \A n \in 0..m : g[n] = G(n)
  BY <1>1, <1>2, <1>3, Zenon
<1>5. g[m + 1] = G(m + 1)
  <2>1. m + 1 \in 0..m + 1 /\ ~(m + 1 <= m) /\ m + 1 # 0 /\ (m + 1) - 1 = m /\ m \in 0..m
    OBVIOUS
  <2>2. g[m + 1] = Adding(s[m + 1], f[m])
    BY <2>1, Zenon
  <2>3. g[m] = f[m]
    BY <1>3, <2>1, Zenon
  <2> HIDE DEF g
  <2>4. QED
    BY <2>1, <2>2, <2>3, Zenon
<1>6. g = [n \in 0..m + 1 |-> g[n]]
  OBVIOUS
<1> HIDE DEF g
<1>7. \A n \in 0..m + 1 : g[n] = G(n)
  <2>1. \A n \in 0..m + 1 : n \in 0..m \/ n = m + 1
    OBVIOUS
  <2> HIDE DEF G
  <2>2. QED
    BY <1>4, <1>5, <2>1
<1>8. g = [n \in 0..m + 1 |-> G(n)]
  <2> HIDE DEF G
  <2>1. QED
    BY <1>6, <1>7
<1>9. QED
  BY <1>8, Zenon DEF Reads, g

LEMMA ReadsExists ==
  ASSUME NEW s
  PROVE  \A m \in Nat : \E f : Reads(f, s, m)
<1> DEFINE T == {m \in Nat : \E f : Reads(f, s, m)}
<1>1. 0 \in T
  <2>1. Reads([n \in 0..0 |-> Begun], s, 0)
    BY DEF Reads
  <2>2. QED
    BY <2>1
<1>2. ASSUME NEW m \in Nat, m \in T PROVE m + 1 \in T
  <2>1. \E f : Reads(f, s, m + 1)
    BY <1>2, ReadsOneMore
  <2>2. QED
    BY <2>1
<1>3. Nat \subseteq T
  <2> HIDE DEF T
  <2>1. QED
    BY <1>1, <1>2, NaturalInduction
<1>4. QED
  BY <1>3

LEMMA ReadingIs ==
  ASSUME NEW S, NEW s \in Seq(S)
  PROVE  /\ Reading(s)[0] = Begun
         /\ \A n \in 0..(Len(s) - 1) : Reading(s)[n + 1] = Adding(s[n + 1], Reading(s)[n])
<1> DEFINE r == Reading(s)
<1>1. \E f : Reads(f, s, Len(s))
  BY ReadsExists
<1>2. Reads(r, s, Len(s))
  <2>1. Reading(s) = CHOOSE f : Reads(f, s, Len(s))
    BY Zenon DEF Reading, Reads
  <2>2. QED
    BY <1>1, <2>1, Zenon
<1> HIDE DEF r
<1>3. \A n \in 0..Len(s) : r[n] = IF n = 0 THEN Begun ELSE Adding(s[n], r[n - 1])
  BY <1>2, Zenon DEF Reads
<1>4. 0 \in 0..Len(s)
  OBVIOUS
<1>5. ASSUME NEW n \in 0..(Len(s) - 1) PROVE r[n + 1] = Adding(s[n + 1], r[n])
  <2>1. n + 1 \in 0..Len(s) /\ n + 1 # 0 /\ (n + 1) - 1 = n
    OBVIOUS
  <2>2. QED
    BY <1>3, <2>1, Zenon
<1>6. QED
  BY <1>3, <1>4, <1>5, Zenon DEF r

-----------------------------------------------------------------------------
(* Sequences *)

LEMMA PrefixIs ==
  ASSUME NEW S, NEW s \in Seq(S), NEW t \in Seq(S)
  PROVE  IsPrefix(s, t) <=> Len(s) <= Len(t) /\ \A i \in 1..Len(s) : s[i] = t[i]
<1>1. CASE Len(s) <= Len(t)
  <2>1. SubSeq(s, 1, Len(s)) = s
    OBVIOUS
  <2>2. /\ SubSeq(t, 1, Len(s)) \in Seq(S) /\ Len(SubSeq(t, 1, Len(s))) = Len(s)
        /\ \A i \in 1..Len(s) : SubSeq(t, 1, Len(s))[i] = t[i]
    BY <1>1
  <2>3. SubSeq(t, 1, Len(s)) = s <=> \A i \in 1..Len(s) : s[i] = t[i]
    BY <2>2, SeqEqual
  <2>4. QED
    BY <1>1, <2>1, <2>3 DEF IsPrefix
<1>2. CASE ~(Len(s) <= Len(t))
  BY <1>2 DEF IsPrefix
<1>3. QED
  BY <1>1, <1>2

Joined(S, s, t, u) ==
  /\ u \in Seq(S) /\ Len(s) \in Nat /\ Len(t) \in Nat /\ Len(u) = Len(s) + Len(t)
  /\ \A i \in 1..Len(s) : u[i] = s[i]
  /\ \A i \in 1..Len(t) : u[Len(s) + i] = t[i]

LEMMA ConcatIs ==
  ASSUME NEW S, NEW s \in Seq(S), NEW t \in Seq(S)
  PROVE  Joined(S, s, t, s \o t)
BY DEF Joined

LEMMA Least ==
  ASSUME NEW S, S \subseteq Nat, S # {}
  PROVE  Min(S) \in S /\ \A n \in S : Min(S) <= n
<1>1. PICK m \in S : \A k \in S : <<k, m>> \notin OpToRel(<, Nat)
  BY WFMin, NatLessThanWellFounded
<1>2. \A k \in S : ~(k < m)
  BY <1>1, Zenon DEF OpToRel
<1>3. \A k \in S : m <= k
  BY <1>2
<1>4. QED
  BY <1>3 DEF Min

LEMMA Greatest ==
  ASSUME NEW n \in Nat, NEW S, S \subseteq 1..n, S # {}
  PROVE  Max(S) \in S /\ \A k \in S : k <= Max(S)
<1> DEFINE D == {n - k : k \in S}
<1>1. D \subseteq Nat /\ D # {}
  <2>1. \A k \in S : k \in 1..n
    OBVIOUS
  <2>2. \A k \in 1..n : n - k \in Nat
    OBVIOUS
  <2>3. QED
    BY <2>1, <2>2
<1>2. Min(D) \in D /\ \A d \in D : Min(D) <= d
  BY <1>1, Least
<1>3. PICK m \in S : Min(D) = n - m
  BY <1>2
<1>4. \A k \in S : n - m <= n - k
  BY <1>2, <1>3
<1>5. \A k \in S : k <= m
  BY <1>4
<1>6. QED
  BY <1>5 DEF Max

\* What TrimSpace leaves begins and ends with what is no space.
LEMMA TrimSpaceIs ==
  ASSUME NEW t \in Seq(Characters)
  PROVE  /\ TrimSpace(t) \in Seq(Characters)
         /\ Len(TrimSpace(t)) <= Len(t)
         /\ TrimSpace(t) = <<>> <=> \A i \in 1..Len(t) : t[i] \in Space
         /\ TrimSpace(t) # <<>> => TrimSpace(t)[Len(TrimSpace(t))] \notin Space
<1> DEFINE solid == {i \in DOMAIN t : t[i] \notin Space}
<1>1. solid \subseteq 1..Len(t) /\ Len(t) \in Nat
  OBVIOUS
<1>2. CASE solid = {}
  <2>1. TrimSpace(t) = <<>>
    BY <1>2 DEF TrimSpace
  <2>2. \A i \in 1..Len(t) : t[i] \in Space
    BY <1>2
  <2>3. QED
    BY <2>1, <2>2
<1>3. CASE solid # {}
  <2>1. PICK a, b : a = Min(solid) /\ b = Max(solid)
    OBVIOUS
  <2>2. a \in solid /\ b \in solid /\ a <= b
    <3>1. solid \subseteq Nat
      BY <1>1
    <3>2. a \in solid /\ \A k \in solid : a <= k
      BY <1>3, <2>1, <3>1, Least
    <3>3. b \in solid
      BY <1>1, <1>3, <2>1, Greatest
    <3>4. QED
      BY <3>2, <3>3
  <2>3. TrimSpace(t) = SubSeq(t, a, b)
    BY <1>3, <2>1 DEF TrimSpace
  <2>4. a \in 1..Len(t) /\ b \in 1..Len(t) /\ t[a] \notin Space /\ t[b] \notin Space
    BY <1>1, <2>2
  <2>5. /\ SubSeq(t, a, b) \in Seq(Characters) /\ Len(SubSeq(t, a, b)) = b - a + 1
        /\ SubSeq(t, a, b)[b - a + 1] = t[b]
    BY <2>2, <2>4, SMTT(60)
  <2>6. SubSeq(t, a, b) # <<>>
    BY <2>2, <2>4, <2>5
  <2> HIDE DEF solid
  <2>7. QED
    BY <2>2, <2>3, <2>4, <2>5, <2>6
<1>4. QED
  BY <1>2, <1>3

\* A text between spaces is what is left.
LEMMA Trimmed ==
  ASSUME NEW t \in Seq(Characters), NEW a \in 1..Len(t), NEW b \in 1..Len(t), a <= b,
         t[a] \notin Space, t[b] \notin Space,
         \A i \in 1..Len(t) : i < a \/ b < i => t[i] \in Space
  PROVE  TrimSpace(t) = SubSeq(t, a, b)
<1> DEFINE solid == {i \in DOMAIN t : t[i] \notin Space}
<1>1. a \in solid /\ b \in solid /\ \A i \in solid : a <= i /\ i <= b
  OBVIOUS
<1>2. solid \subseteq Nat /\ solid \subseteq 1..Len(t) /\ Len(t) \in Nat
  OBVIOUS
<1> HIDE DEF solid
<1>3. Min(solid) = a
  <2>1. PICK m : m = Min(solid)
    OBVIOUS
  <2>2. m \in solid /\ m <= a
    BY <1>1, <1>2, <2>1, Least
  <2>3. m \in Nat /\ a \in Nat /\ b \in Nat /\ a <= m /\ m <= b
    BY <1>1, <1>2, <2>2
  <2>4. m = a
    BY <2>2, <2>3
  <2>5. QED
    BY <2>1, <2>4
<1>4. Max(solid) = b
  <2>1. PICK m : m = Max(solid)
    OBVIOUS
  <2>2. m \in solid /\ b <= m
    BY <1>1, <1>2, <2>1, Greatest
  <2>3. m \in Nat /\ a \in Nat /\ b \in Nat /\ a <= m /\ m <= b
    BY <1>1, <1>2, <2>2
  <2>4. m = b
    BY <2>2, <2>3
  <2>5. QED
    BY <2>1, <2>4
<1>5. QED
  BY <1>1, <1>3, <1>4 DEF TrimSpace, solid

LEMMA FirstLineIs ==
  ASSUME NEW t \in Seq(Characters), t # <<>>
  PROVE  LET first == FirstLine(t)
         IN /\ first \in Seq(Characters) /\ Len(first) \in 1..Len(t)
            /\ \A i \in 1..Len(first) : first[i] = t[i]
            /\ \A i \in 1..(Len(first) - 1) : first[i] # "nl"
            /\ Len(first) < Len(t) => first[Len(first)] = "nl"
<1> DEFINE ends == {i \in DOMAIN t : t[i] = "nl"}
<1>1. PICK n : n = IF ends = {} THEN Len(t) ELSE Min(ends)
  OBVIOUS
<1>2. ends \subseteq Nat /\ ends \subseteq 1..Len(t)
  OBVIOUS
<1>0. FirstLine(t) = SubSeq(t, 1, n)
  BY <1>1 DEF FirstLine
<1>3. CASE ends # {}
  <2>1. n \in ends /\ \A i \in ends : n <= i
    BY <1>1, <1>2, <1>3, Least
  <2>2. n \in 1..Len(t) /\ t[n] = "nl" /\ \A i \in 1..(n - 1) : t[i] # "nl"
    BY <2>1
  <2>3. /\ SubSeq(t, 1, n) \in Seq(Characters) /\ Len(SubSeq(t, 1, n)) = n
        /\ \A i \in 1..n : SubSeq(t, 1, n)[i] = t[i]
    BY <2>2
  <2> HIDE DEF ends
  <2>4. QED
    BY <1>0, <2>2, <2>3
<1>4. CASE ends = {}
  <2>1. n = Len(t) /\ \A i \in 1..Len(t) : t[i] # "nl"
    BY <1>1, <1>4
  <2>2. Len(t) \in Nat /\ Len(t) # 0
    OBVIOUS
  <2>3. /\ SubSeq(t, 1, n) \in Seq(Characters) /\ Len(SubSeq(t, 1, n)) = n
        /\ \A i \in 1..n : SubSeq(t, 1, n)[i] = t[i]
    BY <2>1
  <2> HIDE DEF ends
  <2>4. QED
    BY <1>0, <2>1, <2>2, <2>3
<1>5. QED
  BY <1>3, <1>4

-----------------------------------------------------------------------------
(* The pieces of a script and where they are in its text. *)

KnownType(known) ==
  /\ known.text \in Seq(Characters)
  /\ known.delimiter \in Seq(Characters) \ {<<>>}
  /\ \A i \in 1..Len(known.delimiter) : known.delimiter[i] \notin Space
  /\ known.current \in Seq(Characters)
  /\ known.statements \in Seq(Seq(Characters) \ {<<>>})

LEMMA PieceStands ==
  ASSUME NEW s \in Seq(Pieces), WellFormed(s), NEW n \in 0..(Len(s) - 1)
  PROVE  /\ s[n + 1] \in Pieces
         /\ Stands(s[n + 1], Reading(s)[n],
                   SubSeq(TextOfAll(s), Len(Reading(s)[n].text) + 1, Len(TextOfAll(s))))
<1>1. n + 1 \in DOMAIN s /\ (n + 1) - 1 = n /\ s[n + 1] \in Pieces
  OBVIOUS
<1>2. QED
  BY <1>1, Zenon DEF WellFormed

LEMMA PieceType ==
  ASSUME NEW piece \in Pieces
  PROVE  piece[1] \in Kinds /\ piece[2] \in Seq(Characters)
BY DEF Pieces

LEMMA TupleTypes ==
  ASSUME NEW S, NEW c \in S, NEW d \in S
  PROVE  /\ <<c>> \in Seq(S) /\ <<c>> # <<>> /\ Len(<<c>>) = 1 /\ \A i \in 1..Len(<<c>>) : <<c>>[i] = c
         /\ <<c, d>> \in Seq(S) /\ Len(<<c, d>>) = 2 /\ <<c, d>>[1] = c /\ <<c, d>>[2] = d
<1>1. <<c>> \in Seq(S) /\ <<c>> # <<>>
  OBVIOUS
<1>2. Len(<<c>>) = 1 /\ \A i \in 1..Len(<<c>>) : <<c>>[i] = c
  OBVIOUS
<1>3. Len(<<c, d>>) = 2 /\ <<c, d>>[1] = c /\ <<c, d>>[2] = d
  OBVIOUS
<1>4. <<c, d>> \in Seq(S)
  <2>1. <<c, d>> \in [1..2 -> S]
    OBVIOUS
  <2>2. PICK f \in [1..2 -> S] : f = <<c, d>>
    BY <2>1, Zenon
  <2>3. QED
    BY <2>2
<1>5. QED
  BY <1>1, <1>2, <1>3, <1>4, Zenon

LEMMA StatementType ==
  ASSUME NEW t \in Seq(Characters)
  PROVE  Statement(t) \in Seq(Seq(Characters) \ {<<>>})
<1>1. TrimSpace(t) \in Seq(Characters)
  BY TrimSpaceIs
<1>2. CASE TrimSpace(t) = <<>>
  BY <1>2 DEF Statement
<1>3. CASE TrimSpace(t) # <<>>
  <2>1. PICK x \in Seq(Characters) \ {<<>>} : x = TrimSpace(t)
    BY <1>1, <1>3
  <2>2. Statement(t) = <<x>>
    BY <1>3, <2>1 DEF Statement
  <2>3. QED
    BY <2>2
<1>4. QED
  BY <1>2, <1>3

LEMMA AddsType ==
  ASSUME NEW piece \in Pieces
  PROVE  Adds(piece) \in Seq(Characters)
<1>1. piece[2] \in Seq(Characters)
  BY PieceType
<1>2. <<" ">> \in Seq(Characters) /\ <<"nl">> \in Seq(Characters) /\ <<>> \in Seq(Characters)
  BY DEF Characters, Space
<1>3. QED
  BY <1>1, <1>2 DEF Adds

LEMMA TextOfType ==
  ASSUME NEW piece \in Pieces, NEW delim \in Seq(Characters)
  PROVE  TextOf(piece, delim) \in Seq(Characters)
<1>1. piece[2] \in Seq(Characters)
  BY PieceType
<1>2. <<"D", " ">> \in Seq(Characters) /\ <<"nl">> \in Seq(Characters)
  <2>1. "D" \in Characters /\ " " \in Characters /\ "nl" \in Characters
    BY DEF Characters, Space
  <2>2. QED
    BY <2>1, TupleTypes
<1>3. (<<"D", " ">> \o piece[2]) \o <<"nl">> \in Seq(Characters)
  BY <1>1, <1>2, ConcatProperties
<1>4. QED
  BY <1>1, <1>3 DEF TextOf

LEMMA ReadingType ==
  ASSUME NEW s \in Seq(Pieces), WellFormed(s)
  PROVE  \A n \in 0..Len(s) : KnownType(Reading(s)[n])
<1> DEFINE r == Reading(s)
           T == {n \in Nat : n <= Len(s) => KnownType(r[n])}
<1>1. /\ r[0] = Begun
      /\ \A n \in 0..(Len(s) - 1) : r[n + 1] = Adding(s[n + 1], r[n])
  BY ReadingIs
<1> HIDE DEF r
<1>2. 0 \in T
  <2>1. KnownType(Begun)
    <3>1. ";" \in Characters /\ ";" \notin Space
      BY DEF Characters, Space
    <3>2. <<";">> \in Seq(Characters) \ {<<>>} /\ \A i \in 1..Len(<<";">>) : <<";">>[i] = ";"
      BY <3>1, TupleTypes, Zenon
    <3>3. <<>> \in Seq(Characters) /\ <<>> \in Seq(Seq(Characters) \ {<<>>})
      OBVIOUS
    <3>4. QED
      BY <3>1, <3>2, <3>3 DEF KnownType, Begun
  <2>2. QED
    BY <1>1, <2>1
<1>3. ASSUME NEW n \in Nat, n \in T PROVE n + 1 \in T
  <2> SUFFICES ASSUME n + 1 <= Len(s) PROVE KnownType(r[n + 1])
    OBVIOUS
  <2>1. n \in 0..(Len(s) - 1) /\ KnownType(r[n])
    BY <1>3
  <2>2. PICK b : b = r[n] /\ KnownType(b) /\ r[n + 1] = Adding(s[n + 1], b)
    BY <1>1, <2>1
  <2>3. PICK piece \in Pieces : piece = s[n + 1]
    BY <2>1
  <2>4. piece[1] = "change" =>
          piece[2] \in Seq(Characters) \ {<<>>} /\ \A i \in 1..Len(piece[2]) : piece[2][i] \notin Space
    <3>1. PICK ahead : Stands(piece, r[n], ahead)
      BY <2>1, <2>3, PieceStands, Zenon DEF r
    <3>2. Named(piece, ahead)
      BY <3>1, Zenon DEF Stands
    <3>3. piece[2] \in Seq(Characters)
      BY PieceType
    <3>4. QED
      BY <3>2, <3>3 DEF Named
  <2>5. b.text \o TextOf(piece, b.delimiter) \in Seq(Characters)
    BY <2>2, TextOfType, ConcatProperties DEF KnownType
  <2>6. b.current \o Adds(piece) \in Seq(Characters)
    BY <2>2, AddsType, ConcatProperties DEF KnownType
  <2>7. b.statements \o Statement(b.current) \in Seq(Seq(Characters) \ {<<>>})
    BY <2>2, StatementType, ConcatProperties DEF KnownType
  <2>8. KnownType(Adding(piece, b))
    BY <2>2, <2>4, <2>5, <2>6, <2>7 DEF KnownType, Adding
  <2>9. QED
    BY <2>2, <2>3, <2>8
<1>4. Nat \subseteq T
  <2> HIDE DEF T
  <2>1. QED
    BY <1>2, <1>3, NaturalInduction
<1>5. QED
  BY <1>4 DEF r

LEMMA ReadingTexts ==
  ASSUME NEW s \in Seq(Pieces), WellFormed(s), NEW n \in 0..(Len(s) - 1)
  PROVE  LET r == Reading(s)
             x == TextOf(s[n + 1], r[n].delimiter)
         IN /\ r[n].text \in Seq(Characters) /\ x \in Seq(Characters)
            /\ r[n + 1].text = r[n].text \o x
            /\ r[n + 1] = Adding(s[n + 1], r[n])
<1>1. Reading(s)[n + 1] = Adding(s[n + 1], Reading(s)[n])
  BY ReadingIs
<1>2. n \in 0..Len(s) /\ s[n + 1] \in Pieces
  OBVIOUS
<1>3. KnownType(Reading(s)[n])
  BY <1>2, ReadingType
<1>4. TextOf(s[n + 1], Reading(s)[n].delimiter) \in Seq(Characters)
  BY <1>2, <1>3, TextOfType DEF KnownType
<1>5. Adding(s[n + 1], Reading(s)[n]).text =
        Reading(s)[n].text \o TextOf(s[n + 1], Reading(s)[n].delimiter)
  BY Zenon DEF Adding
<1>6. QED
  BY <1>1, <1>3, <1>4, <1>5 DEF KnownType

\* What has been read is how the text begins.
LEMMA ReadingBegins ==
  ASSUME NEW s \in Seq(Pieces), WellFormed(s), NEW m \in 0..Len(s)
  PROVE  LET r == Reading(s)
         IN \A n \in 0..Len(s) : m <= n =>
              /\ Len(r[m].text) <= Len(r[n].text)
              /\ \A i \in 1..Len(r[m].text) : r[m].text[i] = r[n].text[i]
<1> DEFINE r == Reading(s)
           P(n) == /\ Len(r[m].text) <= Len(r[n].text)
                   /\ \A i \in 1..Len(r[m].text) : r[m].text[i] = r[n].text[i]
           T == {n \in Nat : m <= n /\ n <= Len(s) => P(n)}
<1>0. r[m].text \in Seq(Characters)
  BY ReadingType DEF KnownType
<1>1. 0 \in T
  <2>1. m <= 0 => m = 0
    OBVIOUS
  <2>2. P(m)
    BY <1>0
  <2> HIDE DEF P
  <2>3. QED
    BY <2>1, <2>2
<1>2. ASSUME NEW n \in Nat, n \in T PROVE n + 1 \in T
  <2> SUFFICES ASSUME m <= n + 1, n + 1 <= Len(s) PROVE P(n + 1)
    OBVIOUS
  <2>1. CASE m = n + 1
    BY <1>0, <2>1
  <2>2. CASE m <= n
    <3>1. n \in 0..(Len(s) - 1)
      OBVIOUS
    <3>2. PICK x, t, u \in Seq(Characters) :
            t = r[n].text /\ u = r[n + 1].text /\ u = t \o x
      <4>1. PICK x, t \in Seq(Characters) : t = r[n].text /\ r[n + 1].text = t \o x
        BY <3>1, ReadingTexts
      <4>2. t \o x \in Seq(Characters)
        BY ConcatProperties
      <4>3. QED
        BY <4>1, <4>2, Zenon
    <3>3. PICK v \in Seq(Characters) : v = r[m].text
      BY <1>0
    <3>4. Len(v) <= Len(t) /\ \A i \in 1..Len(v) : v[i] = t[i]
      BY <1>2, <2>2, <3>1, <3>2, <3>3
    <3>5. /\ Len(u) = Len(t) + Len(x)
          /\ \A i \in 1..Len(t) + Len(x) : u[i] = IF i <= Len(t) THEN t[i] ELSE x[i - Len(t)]
      BY <3>2, ConcatProperties
    <3>6. Len(v) <= Len(u) /\ \A i \in 1..Len(v) : v[i] = u[i]
      <4>1. \A i \in 1..Len(v) : i \in 1..Len(t) + Len(x) /\ i <= Len(t)
        BY <3>4
      <4>2. Len(v) <= Len(u)
        BY <3>4, <3>5
      <4>3. QED
        BY <3>4, <3>5, <4>1, <4>2
    <3>7. QED
      BY <3>2, <3>3, <3>6
  <2>3. QED
    BY <2>1, <2>2, SMTT(60)
<1>3. Nat \subseteq T
  <2> HIDE DEF T
  <2>1. QED
    BY <1>1, <1>2, NaturalInduction
<1>4. QED
  BY <1>3

-----------------------------------------------------------------------------
(* The place in the text *)

LEMMA TextType ==
  ASSUME NEW s \in Seq(Pieces), WellFormed(s)
  PROVE  TextOfAll(s) \in Seq(Characters)
<1>1. Len(s) \in 0..Len(s)
  OBVIOUS
<1>2. KnownType(Reading(s)[Len(s)])
  BY <1>1, ReadingType
<1>3. QED
  BY <1>2 DEF TextOfAll, KnownType

LEMMA PieceAt ==
  ASSUME NEW s \in Seq(Pieces), WellFormed(s), NEW n \in 0..(Len(s) - 1)
  PROVE  LET r == Reading(s)
             text == TextOfAll(s)
             x == TextOf(s[n + 1], r[n].delimiter)
             o == Len(r[n].text)
         IN /\ text \in Seq(Characters) /\ x \in Seq(Characters) /\ o \in Nat
            /\ Len(r[n + 1].text) = o + Len(x)
            /\ o + Len(x) <= Len(text)
            /\ \A i \in 1..Len(x) : text[o + i] = x[i]
            /\ x # <<>> => Last(r[n + 1].text) = x[Len(x)] /\ r[n + 1].text # <<>>
<1> DEFINE r == Reading(s)
           text == TextOfAll(s)
<1>1. PICK t, x, u \in Seq(Characters) :
        /\ t = r[n].text /\ x = TextOf(s[n + 1], r[n].delimiter)
        /\ u = r[n + 1].text /\ u = t \o x
  <2>1. PICK t, x \in Seq(Characters) :
          /\ t = r[n].text /\ x = TextOf(s[n + 1], r[n].delimiter)
          /\ r[n + 1].text = t \o x
    BY ReadingTexts
  <2>2. t \o x \in Seq(Characters)
    BY ConcatProperties
  <2>3. QED
    BY <2>1, <2>2, Zenon
<1> HIDE DEF r, text
<1>2. /\ u \in Seq(Characters) /\ Len(t) \in Nat /\ Len(x) \in Nat
      /\ Len(u) = Len(t) + Len(x)
      /\ \A i \in 1..Len(x) : u[Len(t) + i] = x[i]
  <2>1. Joined(Characters, t, x, u)
    BY <1>1, ConcatIs, Zenon
  <2>2. QED
    BY <2>1, Zenon DEF Joined
<1>3. Len(u) <= Len(text) /\ \A i \in 1..Len(u) : u[i] = text[i]
  <2>1. n + 1 \in 0..Len(s) /\ Len(s) \in 0..Len(s) /\ n + 1 <= Len(s)
    OBVIOUS
  <2>2. /\ Len(r[n + 1].text) <= Len(r[Len(s)].text)
        /\ \A i \in 1..Len(r[n + 1].text) : r[n + 1].text[i] = r[Len(s)].text[i]
    BY <2>1, ReadingBegins, Zenon DEF r
  <2>3. text = r[Len(s)].text
    BY Zenon DEF TextOfAll, text, r
  <2>4. QED
    BY <1>1, <2>2, <2>3
<1>4. text \in Seq(Characters)
  BY TextType DEF text
<1>5. \A i \in 1..Len(x) : text[Len(t) + i] = x[i] /\ u[Len(t) + i] = x[i]
  <2> TAKE i \in 1..Len(x)
  <2>1. Len(t) + i \in 1..Len(u)
    BY <1>2
  <2>2. QED
    BY <1>2, <1>3, <2>1, SMTT(60)
<1>6. x # <<>> => u[Len(u)] = x[Len(x)] /\ u # <<>>
  <2> SUFFICES ASSUME x # <<>> PROVE u[Len(u)] = x[Len(x)] /\ u # <<>>
    OBVIOUS
  <2>1. Len(x) \in 1..Len(x) /\ Len(t) \in Nat
    BY <1>1, SMTT(60)
  <2>2. QED
    BY <1>2, <1>5, <2>1
<1>7. /\ Len(u) = Len(t) + Len(x) /\ Len(t) + Len(x) <= Len(text) /\ Len(t) \in Nat
      /\ \A i \in 1..Len(x) : text[Len(t) + i] = x[i]
  BY <1>1, <1>2, <1>3, <1>5
<1>8. x # <<>> => Last(u) = x[Len(x)] /\ u # <<>>
  BY <1>6, Zenon DEF Last
<1>9. QED
  BY <1>1, <1>4, <1>7, <1>8, Zenon DEF r, text

\* What lies ahead, as the conditions on the pieces see it.
LEMMA AheadOf ==
  ASSUME NEW text \in Seq(Characters), NEW o \in 0..Len(text)
  PROVE  LET ahead == SubSeq(text, o + 1, Len(text))
         IN /\ ahead \in Seq(Characters) /\ Len(ahead) = Len(text) - o
            /\ \A i \in 1..(Len(text) - o) : ahead[i] = text[o + i]
OBVIOUS

CommandText(new) == <<"D", " ">> \o new \o <<"nl">>

LEMMA CommandTextIs ==
  ASSUME NEW new \in Seq(Characters)
  PROVE  LET x == CommandText(new)
         IN /\ x \in Seq(Characters) /\ Len(x) = Len(new) + 3
            /\ x[1] = "D" /\ x[2] = " " /\ x[Len(new) + 3] = "nl"
            /\ \A i \in 1..Len(new) : x[i + 2] = new[i]
<1>1. "D" \in Characters /\ " " \in Characters /\ "nl" \in Characters
  BY DEF Characters, Space
<1>2. PICK a : a = <<"D", " ">>
  OBVIOUS
<1>3. a \in Seq(Characters) /\ Len(a) = 2 /\ a[1] = "D" /\ a[2] = " "
  BY <1>1, <1>2, TupleTypes
<1>4. PICK b : b = <<"nl">>
  OBVIOUS
<1>5. b \in Seq(Characters) /\ Len(b) = 1 /\ \A i \in 1..Len(b) : b[i] = "nl"
  BY <1>1, <1>4, TupleTypes
<1>6. CommandText(new) = (a \o new) \o b
  BY <1>2, <1>4, Zenon DEF CommandText
<1>7. PICK y : y = a \o new
  OBVIOUS
<1>8. /\ y \in Seq(Characters) /\ Len(new) \in Nat /\ Len(y) = 2 + Len(new)
      /\ \A i \in 1..2 : y[i] = a[i]
      /\ \A i \in 1..Len(new) : y[2 + i] = new[i]
  <2>1. Joined(Characters, a, new, y)
    BY <1>3, <1>7, ConcatIs, Zenon
  <2>2. QED
    BY <1>3, <2>1, Zenon DEF Joined
<1>9. PICK x : x = y \o b
  OBVIOUS
<1>10. /\ x \in Seq(Characters) /\ Len(x) = Len(y) + 1
       /\ \A i \in 1..Len(y) : x[i] = y[i]
       /\ \A i \in 1..1 : x[Len(y) + i] = b[i]
  <2>1. Joined(Characters, y, b, x)
    BY <1>5, <1>8, <1>9, ConcatIs, Zenon
  <2>2. QED
    BY <1>5, <2>1, Zenon DEF Joined
<1> HIDE <1>7, <1>9
<1>11. x[Len(new) + 3] = "nl" /\ Len(x) = Len(new) + 3
  BY <1>5, <1>8, <1>10
<1>12. x[1] = "D" /\ x[2] = " "
  <2>1. 1 \in 1..Len(y) /\ 2 \in 1..Len(y) /\ 1 \in 1..2 /\ 2 \in 1..2
    BY <1>8
  <2>2. QED
    BY <1>3, <1>8, <1>10, <2>1, Zenon
<1>13. \A i \in 1..Len(new) : x[i + 2] = new[i]
  <2> TAKE i \in 1..Len(new)
  <2>1. i + 2 \in 1..Len(y) /\ 2 + i = i + 2
    BY <1>8
  <2>2. QED
    BY <1>8, <1>10, <2>1
<1>14. CommandText(new) = x
  BY <1>6, <1>7, <1>9, Zenon
<1>15. QED
  BY <1>10, <1>11, <1>12, <1>13, <1>14, Zenon

\* The conditions on a piece, kind by kind.
LEMMA NamedIs ==
  ASSUME NEW piece, NEW ahead, Named(piece, ahead)
  PROVE  LET text == piece[2]
             n == Len(text)
         IN /\ piece[1] = "character" => n = 1 /\ Plain(ahead)
            /\ piece[1] = "literal" =>
                 /\ n > 1 /\ text[1] \in Quotes /\ text[n] = text[1]
                 /\ Literal(text, n - 1)
                 /\ Len(ahead) > n => ahead[n + 1] # text[1]
            /\ piece[1] \in {"kept", "block"} =>
                 /\ n > 3 /\ Comment(text, n - 1) /\ text[n - 1] = "*" /\ text[n] = "/"
                 /\ text[3] = "!" <=> piece[1] = "kept"
            /\ piece[1] = "line" =>
                 /\ n > 0 /\ LineComment(text)
                 /\ \A j \in 1..(n - 1) : text[j] # "nl"
                 /\ text[n] = "nl" \/ ahead = text
            /\ piece[1] = "openLiteral" =>
                 /\ n > 0 /\ text[1] \in Quotes /\ ahead = text
                 /\ Literal(text, n) \/ (text[n] = "\\" /\ Literal(text, n - 1))
            /\ piece[1] = "openComment" => Comment(text, n) /\ ahead = text
            /\ piece[1] = "change" => n > 0 /\ \A i \in 1..n : text[i] \notin Space
<1>1. CASE piece[1] = "character"
  BY <1>1 DEF Named
<1>2. CASE piece[1] = "literal"
  BY <1>2 DEF Named
<1>3. CASE piece[1] \in {"kept", "block"}
  BY <1>3 DEF Named
<1>4. CASE piece[1] = "line"
  BY <1>4 DEF Named
<1>5. CASE piece[1] = "openLiteral"
  BY <1>5 DEF Named
<1>6. CASE piece[1] = "openComment"
  BY <1>6 DEF Named
<1>7. CASE piece[1] = "change"
  BY <1>7 DEF Named
<1>8. QED
  BY <1>1, <1>2, <1>3, <1>4, <1>5, <1>6, <1>7

\* No piece is without a text.
LEMMA PieceNotEmpty ==
  ASSUME NEW s \in Seq(Pieces), WellFormed(s), NEW n \in 0..(Len(s) - 1)
  PROVE  TextOf(s[n + 1], Reading(s)[n].delimiter) # <<>>
<1>1. PICK piece, before, ahead :
        /\ piece \in Pieces /\ piece = s[n + 1] /\ before = Reading(s)[n]
        /\ Stands(piece, before, ahead)
  BY PieceStands
<1>2. piece[1] \in Kinds /\ piece[2] \in Seq(Characters) /\ Named(piece, ahead)
  BY <1>1, PieceType DEF Stands
<1>3. n \in 0..Len(s)
  OBVIOUS
<1>4. before.delimiter \in Seq(Characters) \ {<<>>}
  BY <1>1, <1>3, ReadingType DEF KnownType
<1>5. CASE piece[1] = "end"
  BY <1>1, <1>4, <1>5 DEF TextOf
<1>6. CASE piece[1] = "change"
  <2>1. PICK x \in Seq(Characters) : x = CommandText(piece[2]) /\ Len(x) = Len(piece[2]) + 3
    BY <1>2, CommandTextIs
  <2>2. TextOf(piece, before.delimiter) = x
    BY <1>6, <2>1, Zenon DEF TextOf, CommandText
  <2>3. x # <<>>
    BY <1>2, <2>1
  <2>4. QED
    BY <1>1, <2>2, <2>3
<1>7. CASE piece[1] \notin {"end", "change"}
  <2>1. TextOf(piece, before.delimiter) = piece[2]
    BY <1>7 DEF TextOf
  <2>2. Len(piece[2]) > 0
    <3>1. Len(piece[2]) \in Nat
      BY <1>2
    <3>2. CASE piece[1] = "character"
      <4>1. Len(piece[2]) = 1
        BY <1>2, <3>2, NamedIs, Zenon DEF Comment
      <4>2. QED
        BY <3>1, <4>1
    <3>3. CASE piece[1] = "literal"
      <4>1. Len(piece[2]) > 1
        BY <1>2, <3>3, NamedIs, Zenon DEF Comment
      <4>2. QED
        BY <3>1, <4>1
    <3>4. CASE piece[1] \in {"kept", "block"}
      <4>1. Len(piece[2]) > 3
        BY <1>2, <3>4, NamedIs, Zenon DEF Comment
      <4>2. QED
        BY <3>1, <4>1
    <3>5. CASE piece[1] = "line"
      <4>1. Len(piece[2]) > 0
        BY <1>2, <3>5, NamedIs, Zenon DEF Comment
      <4>2. QED
        BY <3>1, <4>1
    <3>6. CASE piece[1] = "openLiteral"
      <4>1. Len(piece[2]) > 0
        BY <1>2, <3>6, NamedIs, Zenon DEF Comment
      <4>2. QED
        BY <3>1, <4>1
    <3>7. CASE piece[1] = "openComment"
      <4>1. Len(piece[2]) >= 2
        BY <1>2, <3>7, NamedIs, ZenonT(60) DEF Comment
      <4>2. QED
        BY <3>1, <4>1
    <3>8. QED
      BY <1>2, <1>7, <3>2, <3>3, <3>4, <3>5, <3>6, <3>7 DEF Kinds, Copied, Open
  <2>3. QED
    BY <1>1, <1>2, <2>1, <2>2
<1>8. QED
  BY <1>5, <1>6, <1>7

LEMMA AtTheEnd ==
  ASSUME NEW s \in Seq(Pieces), WellFormed(s), NEW n \in 0..Len(s),
         Len(Reading(s)[n].text) = Len(TextOfAll(s))
  PROVE  n = Len(s)
<1> SUFFICES ASSUME n # Len(s) PROVE FALSE
  OBVIOUS
<1>1. n \in 0..(Len(s) - 1)
  OBVIOUS
<1>2. PICK x \in Seq(Characters) : x = TextOf(s[n + 1], Reading(s)[n].delimiter)
  BY <1>1, PieceAt
<1>3. x # <<>>
  BY <1>1, <1>2, PieceNotEmpty
<1>4. /\ Len(Reading(s)[n].text) + Len(x) <= Len(TextOfAll(s))
      /\ Len(Reading(s)[n].text) \in Nat
  BY <1>1, <1>2, PieceAt
<1>5. Len(x) > 0
  BY <1>3
<1>6. QED
  BY <1>4, <1>5

-----------------------------------------------------------------------------
(* One step through a line, and how far it is seen. *)

\* Where some characters of the line have been read, the next ones are ahead.
LEMMA MoveOn ==
  ASSUME TypeOK, Text \in Seq(Characters), NEW p \in Nat, At(p), Lines(p),
         NEW k \in 1..Len(line), Skip(k), UNCHANGED <<script, rest>>
  PROVE  /\ At(p + k)' /\ Lines(p + k)'
         /\ line' \in Seq(Characters) /\ Text' = Text
         /\ p + k <= Len(Text)
         /\ line' # <<>> => Text[p + k] # "nl"
<1>1. /\ line \in Seq(Characters) /\ rest \in Seq(Characters)
      /\ line' = SubSeq(line, k + 1, Len(line)) /\ rest' = rest
  BY DEF TypeOK, Skip
<1>2. /\ line' \in Seq(Characters) /\ Len(line') = Len(line) - k
      /\ \A i \in 1..Len(line') : line'[i] = line[k + i]
  BY <1>1
<1>3. Text' = Text
  BY Zenon DEF Text
<1>4. PICK text \in Seq(Characters) : text = Text
  BY Zenon
<1>5. /\ p \in 0..Len(text) /\ Len(line) + Len(rest) = Len(text) - p
      /\ \A i \in 1..Len(line) : line[i] = text[p + i]
      /\ \A i \in 1..Len(rest) : rest[i] = text[p + Len(line) + i]
  BY <1>4 DEF At
<1>6. Len(line) \in Nat /\ Len(rest) \in Nat /\ Len(text) \in Nat /\ Len(line') \in Nat
  BY <1>1, <1>2
<1>7. At(p + k)'
  <2>1. p + k \in 0..Len(text) /\ Len(line') + Len(rest) = Len(text) - (p + k)
    BY <1>2, <1>5, <1>6
  <2>2. \A i \in 1..Len(line') : line'[i] = text[(p + k) + i]
    <3> TAKE i \in 1..Len(line')
    <3>1. k + i \in 1..Len(line) /\ p + (k + i) = (p + k) + i
      BY <1>2, <1>6
    <3>2. QED
      BY <1>2, <1>5, <3>1
  <2>3. \A i \in 1..Len(rest) : rest[i] = text[(p + k) + Len(line') + i]
    <3> TAKE i \in 1..Len(rest)
    <3>1. (p + k) + Len(line') + i = p + Len(line) + i
      BY <1>2, <1>6
    <3>2. QED
      BY <1>5, <3>1
  <2>4. QED
    BY <1>1, <1>3, <1>4, <2>1, <2>2, <2>3 DEF At
<1>8. line' # <<>> => text[p + k] # "nl"
  <2> SUFFICES ASSUME line' # <<>> PROVE text[p + k] # "nl"
    OBVIOUS
  <2>1. k \in 1..(Len(line) - 1)
    BY <1>2, <1>6
  <2>2. line[k] # "nl" /\ line[k] = text[p + k]
    BY <1>5, <1>6, <2>1 DEF Lines
  <2>3. QED
    BY <2>2
<1>9. Lines(p + k)'
  <2>1. \A i \in 1..(Len(line') - 1) : line'[i] # "nl"
    <3> TAKE i \in 1..(Len(line') - 1)
    <3>1. k + i \in 1..(Len(line) - 1) /\ i \in 1..Len(line')
      BY <1>2, <1>6
    <3>2. QED
      BY <1>2, <3>1 DEF Lines
  <2>2. line' # <<>> /\ rest # <<>> => line'[Len(line')] = "nl"
    <3> SUFFICES ASSUME line' # <<>>, rest # <<>> PROVE line'[Len(line')] = "nl"
      OBVIOUS
    <3>1. Len(line') \in 1..Len(line') /\ k + Len(line') = Len(line) /\ line # <<>>
      BY <1>2, <1>6
    <3>2. line[Len(line)] = "nl"
      BY <3>1 DEF Lines
    <3>3. QED
      BY <1>2, <3>1, <3>2
  <2>3. line' = <<>> /\ rest # <<>> => text[p + k] = "nl"
    <3> SUFFICES ASSUME line' = <<>>, rest # <<>> PROVE text[p + k] = "nl"
      OBVIOUS
    <3>1. k = Len(line) /\ line # <<>>
      BY <1>2, <1>6
    <3>2. line[k] = "nl" /\ line[k] = text[p + k]
      BY <1>5, <3>1 DEF Lines
    <3>3. QED
      BY <3>2
  <2>4. QED
    BY <1>1, <1>3, <1>4, <2>1, <2>2, <2>3 DEF Lines
<1>10. p + k <= Len(text)
  BY <1>5, <1>6
<1>11. QED
  BY <1>2, <1>3, <1>4, <1>7, <1>8, <1>9, <1>10

\* The line holds all up to the first newline that is ahead.
LEMMA InLine ==
  ASSUME TypeOK, NEW text \in Seq(Characters), text = Text,
         NEW p \in Nat, At(p), Lines(p), line # <<>>,
         NEW i \in 1..(Len(text) - p), \A j \in 1..(i - 1) : text[p + j] # "nl"
  PROVE  i <= Len(line) /\ line[i] = text[p + i]
<1>1. line \in Seq(Characters) /\ rest \in Seq(Characters)
  BY DEF TypeOK
<1>2. Len(line) \in Nat /\ Len(rest) \in Nat /\ Len(text) \in Nat
  BY <1>1
<1>3. /\ Len(line) + Len(rest) = Len(text) - p
      /\ \A j \in 1..Len(line) : line[j] = text[p + j]
  BY DEF At
<1>4. i <= Len(line)
  <2> SUFFICES ASSUME ~(i <= Len(line)) PROVE FALSE
    OBVIOUS
  <2>1. rest # <<>>
    BY <1>2, <1>3
  <2>2. line[Len(line)] = "nl"
    BY <2>1 DEF Lines
  <2>3. Len(line) # 0
    BY <1>1
  <2>4. Len(line) \in 1..Len(line) /\ Len(line) \in 1..(i - 1)
    BY <1>2, <2>3
  <2>5. QED
    BY <1>3, <2>2, <2>4
<1>5. QED
  BY <1>3, <1>4

LEMMA AheadIs ==
  ASSUME TypeOK, NEW text \in Seq(Characters), text = Text,
         NEW p \in Nat, At(p), Lines(p), line # <<>>,
         NEW x \in Seq(Characters), x # <<>>, \A i \in 1..(Len(x) - 1) : x[i] # "nl"
  PROVE  Ahead(x) <=> p + Len(x) <= Len(text) /\ \A i \in 1..Len(x) : x[i] = text[p + i]
<1>1. line \in Seq(Characters) /\ rest \in Seq(Characters)
  BY DEF TypeOK
<1>2. Len(line) \in Nat /\ Len(rest) \in Nat /\ Len(text) \in Nat /\ Len(x) \in Nat /\ Len(x) # 0
  BY <1>1
<1>3. /\ Len(line) + Len(rest) = Len(text) - p
      /\ \A j \in 1..Len(line) : line[j] = text[p + j]
  BY DEF At
<1>4. Ahead(x) <=> Len(x) <= Len(line) /\ \A i \in 1..Len(x) : x[i] = line[i]
  BY <1>1, PrefixIs DEF Ahead
<1>5. ASSUME Len(x) <= Len(line), \A i \in 1..Len(x) : x[i] = line[i]
      PROVE  p + Len(x) <= Len(text) /\ \A i \in 1..Len(x) : x[i] = text[p + i]
  <2>1. \A i \in 1..Len(x) : i \in 1..Len(line)
    BY <1>2, <1>5
  <2>2. p + Len(x) <= Len(text)
    BY <1>2, <1>3, <1>5
  <2>3. QED
    BY <1>3, <1>5, <2>1, <2>2
<1>6. ASSUME p + Len(x) <= Len(text), \A i \in 1..Len(x) : x[i] = text[p + i]
      PROVE  Len(x) <= Len(line) /\ \A i \in 1..Len(x) : x[i] = line[i]
  <2>1. Len(x) \in 1..(Len(text) - p)
    BY <1>2, <1>6
  <2>2. \A j \in 1..(Len(x) - 1) : text[p + j] # "nl"
    <3> TAKE j \in 1..(Len(x) - 1)
    <3>1. j \in 1..Len(x)
      BY <1>2
    <3>2. QED
      BY <1>6, <3>1
  <2>3. Len(x) <= Len(line)
    BY <2>1, <2>2, InLine
  <2>4. \A i \in 1..Len(x) : i \in 1..Len(line)
    BY <1>2, <2>3
  <2>5. QED
    BY <1>3, <1>6, <2>3, <2>4
<1>7. QED
  BY <1>4, <1>5, <1>6

LEMMA TupleAhead ==
  ASSUME TypeOK, NEW text \in Seq(Characters), text = Text,
         NEW p \in Nat, At(p), Lines(p), line # <<>>,
         NEW c \in Characters, NEW d \in Characters, NEW e \in Characters, c # "nl", d # "nl"
  PROVE  /\ Ahead(<<c, d>>) <=> p + 2 <= Len(text) /\ text[p + 1] = c /\ text[p + 2] = d
         /\ Ahead(<<c, d, e>>) <=>
              p + 3 <= Len(text) /\ text[p + 1] = c /\ text[p + 2] = d /\ text[p + 3] = e
<1>1. PICK x \in Seq(Characters) : x = <<c, d>> /\ Len(x) = 2 /\ x[1] = c /\ x[2] = d
  <2>1. <<c, d>> \in [1..2 -> Characters]
    OBVIOUS
  <2>2. PICK f \in [1..2 -> Characters] : f = <<c, d>>
    BY <2>1, Zenon
  <2>3. f \in Seq(Characters) /\ Len(f) = 2 /\ f[1] = c /\ f[2] = d
    BY <2>2
  <2>4. QED
    BY <2>2, <2>3, Zenon
<1>2. Ahead(x) <=> p + 2 <= Len(text) /\ \A i \in 1..2 : x[i] = text[p + i]
  <2>1. x # <<>> /\ \A i \in 1..(Len(x) - 1) : x[i] # "nl"
    BY <1>1
  <2>2. QED
    BY <1>1, <2>1, AheadIs, ZenonT(60)
<1>3. (\A i \in 1..2 : x[i] = text[p + i]) <=> text[p + 1] = c /\ text[p + 2] = d
  BY <1>1
<1>4. PICK y \in Seq(Characters) :
        y = <<c, d, e>> /\ Len(y) = 3 /\ y[1] = c /\ y[2] = d /\ y[3] = e
  <2>1. <<c, d, e>> \in [1..3 -> Characters]
    OBVIOUS
  <2>2. PICK f \in [1..3 -> Characters] : f = <<c, d, e>>
    BY <2>1, Zenon
  <2>3. f \in Seq(Characters) /\ Len(f) = 3 /\ f[1] = c /\ f[2] = d /\ f[3] = e
    BY <2>2
  <2>4. QED
    BY <2>2, <2>3, Zenon
<1>5. Ahead(y) <=> p + 3 <= Len(text) /\ \A i \in 1..3 : y[i] = text[p + i]
  <2>1. y # <<>> /\ \A i \in 1..(Len(y) - 1) : y[i] # "nl"
    BY <1>4
  <2>2. QED
    BY <1>4, <2>1, AheadIs, ZenonT(60)
<1>6. (\A i \in 1..3 : y[i] = text[p + i]) <=> text[p + 1] = c /\ text[p + 2] = d /\ text[p + 3] = e
  BY <1>4
<1>7. QED
  BY <1>1, <1>2, <1>3, <1>4, <1>5, <1>6, Zenon

LEMMA PairAhead ==
  ASSUME TypeOK, NEW text \in Seq(Characters), text = Text,
         NEW p \in Nat, At(p), Lines(p), line # <<>>
  PROVE  \A c, d \in Characters : c # "nl" /\ d # "nl" =>
           (Ahead(<<c, d>>) <=> p + 2 <= Len(text) /\ text[p + 1] = c /\ text[p + 2] = d)
<1> TAKE c, d \in Characters
<1> SUFFICES ASSUME c # "nl", d # "nl"
             PROVE  Ahead(<<c, d>>) <=> p + 2 <= Len(text) /\ text[p + 1] = c /\ text[p + 2] = d
  OBVIOUS
<1>1. /\ Ahead(<<c, d>>) <=> p + 2 <= Len(text) /\ text[p + 1] = c /\ text[p + 2] = d
      /\ Ahead(<<c, d, d>>) <=>
           p + 3 <= Len(text) /\ text[p + 1] = c /\ text[p + 2] = d /\ text[p + 3] = d
  BY TupleAhead
<1>2. QED
  BY <1>1

-----------------------------------------------------------------------------
(* From one piece to the next *)

LEMMA Unchanged ==
  ASSUME UNCHANGED script
  PROVE  /\ Text' = Text
         /\ \A m : /\ Before(m)' = Before(m) /\ Start(m)' = Start(m)
                   /\ Kind(m)' = Kind(m) /\ Written(m)' = Written(m)
BY Zenon DEF Text, Before, Start, Kind, Written

LEMMA NothingAdded ==
  ASSUME NEW S, NEW s \in Seq(S)
  PROVE  s \o <<>> = s
OBVIOUS

\* What has been read behind a piece, kind by kind.
LEMMA AddingIs ==
  ASSUME script \in Seq(Pieces), WellFormed(script), NEW n \in 0..(Len(script) - 1)
  PROVE  /\ Before(n) = Reading(script)[n] /\ KnownType(Before(n)) /\ KnownType(Before(n + 1))
         /\ Kind(n) \in Kinds /\ Written(n) \in Seq(Characters)
         /\ Before(n + 1).result = ResultOf(script[n + 1])
         /\ Kind(n) # "change" => Before(n + 1).delimiter = Before(n).delimiter
         /\ Kind(n) # "end" => Before(n + 1).statements = Before(n).statements
         /\ Kind(n) \in Copied => Before(n + 1).current = Before(n).current \o Written(n)
         /\ Kind(n) = "block" => Before(n + 1).current = Before(n).current \o <<" ">>
         /\ Kind(n) = "line" /\ Last(Written(n)) = "nl" =>
              Before(n + 1).current = Before(n).current \o <<"nl">>
         /\ Kind(n) = "line" /\ Last(Written(n)) # "nl" => Before(n + 1).current = Before(n).current
         /\ Kind(n) = "change" =>
              Before(n + 1).current = Before(n).current /\ Before(n + 1).delimiter = Written(n)
         /\ Kind(n) = "end" =>
              /\ Before(n + 1).current = <<>>
              /\ Before(n + 1).statements = Before(n).statements \o Statement(Before(n).current)
<1>1. n \in 0..Len(script) /\ n + 1 \in 0..Len(script) /\ script[n + 1] \in Pieces
  OBVIOUS
<1>2. PICK piece, b, c :
        /\ piece \in Pieces /\ piece = script[n + 1]
        /\ b = Before(n) /\ c = Before(n + 1) /\ c = Adding(piece, b)
  <2>1. Reading(script)[n + 1] = Adding(script[n + 1], Reading(script)[n])
    BY ReadingIs
  <2>2. QED
    BY <1>1, <2>1 DEF Before
<1>3. KnownType(b) /\ KnownType(c)
  BY <1>1, <1>2, ReadingType DEF Before
<1>4. piece[1] \in Kinds /\ piece[2] \in Seq(Characters)
  BY <1>2, PieceType
<1>5. Kind(n) = piece[1] /\ Written(n) = piece[2]
  BY <1>2 DEF Kind, Written
<1>6. b.current \o <<>> = b.current
  BY <1>3, NothingAdded DEF KnownType
<1>7. /\ c.result = ResultOf(piece)
      /\ c.delimiter = IF piece[1] = "change" THEN piece[2] ELSE b.delimiter
      /\ c.current = IF piece[1] = "end" THEN <<>> ELSE b.current \o Adds(piece)
      /\ c.statements = IF piece[1] = "end" THEN b.statements \o Statement(b.current)
                        ELSE b.statements
  <2>1. Adding(piece, b).result = ResultOf(piece)
    BY Zenon DEF Adding
  <2>2. Adding(piece, b).delimiter = IF piece[1] = "change" THEN piece[2] ELSE b.delimiter
    BY Zenon DEF Adding
  <2>3. Adding(piece, b).current = IF piece[1] = "end" THEN <<>> ELSE b.current \o Adds(piece)
    BY Zenon DEF Adding
  <2>4. Adding(piece, b).statements =
          IF piece[1] = "end" THEN b.statements \o Statement(b.current) ELSE b.statements
    BY Zenon DEF Adding
  <2>5. QED
    BY <1>2, <2>1, <2>2, <2>3, <2>4, Zenon
<1>8. /\ piece[1] \in Copied => Adds(piece) = piece[2]
      /\ piece[1] = "block" => Adds(piece) = <<" ">>
      /\ piece[1] = "line" /\ Last(piece[2]) = "nl" => Adds(piece) = <<"nl">>
      /\ piece[1] = "line" /\ Last(piece[2]) # "nl" => Adds(piece) = <<>>
      /\ piece[1] = "change" => Adds(piece) = <<>>
      /\ piece[1] \in Copied => piece[1] # "end"
  BY DEF Adds, Copied
<1>9. QED
  <2>1. Before(n) = Reading(script)[n]
    BY Zenon DEF Before
  <2> HIDE <1>1
  <2>2. /\ piece[1] \in Copied => c.current = b.current \o piece[2]
        /\ piece[1] = "block" => c.current = b.current \o <<" ">>
        /\ piece[1] = "line" /\ Last(piece[2]) = "nl" => c.current = b.current \o <<"nl">>
        /\ piece[1] = "line" /\ Last(piece[2]) # "nl" => c.current = b.current
        /\ piece[1] = "change" => c.current = b.current
    BY <1>6, <1>7, <1>8, Zenon
  <2>3. QED
    BY <1>2, <1>3, <1>4, <1>5, <1>7, <2>1, <2>2, Zenon

\* The text of a piece is where it starts, and the next one behind it.
LEMMA WrittenAt ==
  ASSUME script \in Seq(Pieces), WellFormed(script), NEW n \in 0..(Len(script) - 1)
  PROVE  LET x == TextOf(script[n + 1], Before(n).delimiter)
         IN /\ Text \in Seq(Characters) /\ Start(n) \in Nat /\ Len(x) \in Nat /\ Len(x) # 0
            /\ Start(n + 1) = Start(n) + Len(x) /\ Start(n) + Len(x) <= Len(Text)
            /\ \A i \in 1..Len(x) : Text[Start(n) + i] = x[i]
            /\ Before(n + 1).text # <<>> /\ Last(Before(n + 1).text) = Text[Start(n + 1)]
            /\ Kind(n) \notin {"end", "change"} => x = Written(n)
            /\ Kind(n) = "end" => x = Before(n).delimiter
            /\ Kind(n) = "change" => x = CommandText(Written(n))
<1>1. PICK x \in Seq(Characters) :
        /\ x = TextOf(script[n + 1], Before(n).delimiter) /\ Text \in Seq(Characters)
        /\ Start(n) \in Nat /\ Start(n + 1) = Start(n) + Len(x)
        /\ Start(n) + Len(x) <= Len(Text)
        /\ \A i \in 1..Len(x) : Text[Start(n) + i] = x[i]
        /\ x # <<>> => Last(Before(n + 1).text) = x[Len(x)] /\ Before(n + 1).text # <<>>
  BY PieceAt, Zenon DEF Before, Start, Text
<1>2. x # <<>>
  BY <1>1, PieceNotEmpty, Zenon DEF Before
<1>3. Len(x) \in Nat /\ Len(x) # 0 /\ Len(x) \in 1..Len(x)
  BY <1>2
<1>4. Last(Before(n + 1).text) = Text[Start(n + 1)] /\ Before(n + 1).text # <<>>
  BY <1>1, <1>2, <1>3, Zenon
<1>5. PICK piece, d : piece = script[n + 1] /\ d = Before(n).delimiter
  OBVIOUS
<1>6. /\ Kind(n) \notin {"end", "change"} => x = Written(n)
      /\ Kind(n) = "end" => x = Before(n).delimiter
      /\ Kind(n) = "change" => x = CommandText(Written(n))
  <2>1. Kind(n) = piece[1] /\ Written(n) = piece[2] /\ x = TextOf(piece, d)
    BY <1>1, <1>5, Zenon DEF Kind, Written
  <2>2. CASE piece[1] = "end"
    BY <1>5, <2>1, <2>2 DEF TextOf
  <2>3. CASE piece[1] = "change"
    <3>1. TextOf(piece, d) = CommandText(piece[2])
      BY <2>3, Zenon DEF TextOf, CommandText
    <3>2. QED
      BY <2>1, <2>3, <3>1
  <2>4. CASE piece[1] \notin {"end", "change"}
    BY <2>1, <2>4 DEF TextOf
  <2>5. QED
    BY <2>2, <2>3, <2>4
<1>7. QED
  BY <1>1, <1>3, <1>4, <1>6, Zenon

\* A command is in front of the splitter only where a line starts.
LEMMA PieceRead ==
  ASSUME TypeOK, script \in Seq(Pieces), WellFormed(script),
         NEW n \in 0..(Len(script) - 1), NEW p \in Nat, At(p), Lines(p),
         NEW k \in 1..Len(line), Skip(k), UNCHANGED <<script, rest, delimiter>>,
         p + k = Start(n + 1),
         delimiter = Before(n + 1).delimiter, Before(n + 1).result = "ok",
         statements' = Before(n + 1).statements, statement' = Before(n + 1).current,
         mode' = "code"
  PROVE  Position'
<1>1. Text \in Seq(Characters)
  BY TextType DEF Text
<1>0. PICK q \in Nat : q = p + k /\ q = Start(n + 1)
  OBVIOUS
<1>2. /\ At(q)' /\ Lines(q)'
      /\ line' # <<>> => Text[q] # "nl"
      /\ q \in 0..Len(Text)
  BY <1>0, <1>1, MoveOn
<1>3. /\ \A m : /\ Before(m)' = Before(m) /\ Start(m)' = Start(m)
                /\ Kind(m)' = Kind(m) /\ Written(m)' = Written(m)
  BY Unchanged
<1>4. n + 1 \in 0..Len(script) /\ script' = script
  OBVIOUS
<1>5. Understood(n + 1)'
  BY <1>3, <1>4 DEF Understood
<1>6. ASSUME line' # <<>>, n + 1 < Len(script) PROVE Kind(n + 1) # "change"
  <2>1. Text[q] # "nl"
    BY <1>2, <1>6
  <2>2. Last(Before(n + 1).text) # "nl" /\ Before(n + 1).text # <<>>
    BY <1>0, <2>1, WrittenAt, Zenon
  <2>3. n + 1 \in 0..(Len(script) - 1)
    BY <1>6
  <2>4. PICK piece, ahead : piece = script[(n + 1) + 1] /\ Stands(piece, Before(n + 1), ahead)
    BY <2>3, PieceStands, Zenon DEF Before
  <2>5. piece[1] # "change"
    BY <2>2, <2>4, Zenon DEF Stands
  <2>6. QED
    BY <2>4, <2>5, Zenon DEF Kind
<1>7. InFront(n + 1)'
  BY <1>3, <1>6 DEF InFront
<1>8. n + 1 \in 0..Len(script') /\ q \in 0..Len(Text') /\ q = Start(n + 1)'
  <2>1. Text' = Text
    BY Unchanged
  <2>2. QED
    BY <1>0, <1>2, <1>3, <1>4, <2>1
<1>9. QED
  BY <1>2, <1>5, <1>7, <1>8, Zenon DEF Position

-----------------------------------------------------------------------------
(* What begins in front of a piece *)

Opens(ahead) == Len(ahead) > 1 /\ ahead[1] = "/" /\ ahead[2] = "*"

LEMMA HeadIs ==
  ASSUME TypeOK, NEW text \in Seq(Characters), text = Text,
         NEW p \in Nat, At(p), line # <<>>
  PROVE  Head(line) = text[p + 1] /\ Len(line) \in Nat /\ 1 \in 1..Len(line) /\ p + 1 <= Len(text)
<1>1. line \in Seq(Characters) /\ rest \in Seq(Characters)
  BY DEF TypeOK
<1>2. Len(line) \in Nat /\ Len(rest) \in Nat /\ Len(line) # 0 /\ Head(line) = line[1]
  BY <1>1
<1>3. 1 \in 1..Len(line)
  BY <1>2
<1>4. line[1] = text[p + 1] /\ Len(line) + Len(rest) = Len(text) - p
  BY <1>3 DEF At
<1>5. p + 1 <= Len(text)
  <2>1. Len(text) \in Nat
    OBVIOUS
  <2>2. QED
    BY <1>2, <1>4, <2>1
<1>6. QED
  BY <1>2, <1>3, <1>4, <1>5

\* The text behind its p-th character.
IsBehind(ahead, text, p) ==
  /\ ahead \in Seq(Characters) /\ Len(ahead) = Len(text) - p
  /\ \A i \in 1..Len(ahead) : ahead[i] = text[p + i]

LEMMA BeginsSeen ==
  ASSUME TypeOK, \A i \in 1..Len(delimiter) : delimiter[i] \notin Space,
         NEW text \in Seq(Characters), text = Text,
         NEW p \in Nat, At(p), Lines(p), line # <<>>,
         NEW ahead, IsBehind(ahead, text, p)
  PROVE  Begins = IF IsPrefix(delimiter, ahead) THEN "end"
                  ELSE IF LineComment(ahead) THEN "line"
                  ELSE IF Opens(ahead) /\ Len(ahead) > 2 /\ ahead[3] = "!" THEN "kept"
                  ELSE IF Opens(ahead) THEN "block"
                  ELSE IF ahead[1] \in Quotes THEN ahead[1]
                  ELSE "code"
<1>1. Head(line) = text[p + 1] /\ p + 1 <= Len(text)
  BY HeadIs
<1>2. /\ ahead \in Seq(Characters) /\ Len(ahead) = Len(text) - p /\ Len(ahead) \in Nat
      /\ \A i \in 1..Len(ahead) : ahead[i] = text[p + i]
  BY DEF IsBehind
<1>3. Head(line) = ahead[1]
  BY <1>1, <1>2
<1>4. Ahead(delimiter) <=> IsPrefix(delimiter, ahead)
  <2>1. delimiter \in Seq(Characters) /\ delimiter # <<>>
    BY DEF TypeOK
  <2>2. \A i \in 1..(Len(delimiter) - 1) : delimiter[i] # "nl"
    <3>1. \A i \in 1..Len(delimiter) : delimiter[i] # "nl"
      BY DEF Space
    <3>2. Len(delimiter) \in Nat
      BY <2>1
    <3>3. QED
      BY <3>1, <3>2
  <2>3. Ahead(delimiter) <=>
          p + Len(delimiter) <= Len(text) /\ \A i \in 1..Len(delimiter) : delimiter[i] = text[p + i]
    BY <2>1, <2>2, AheadIs
  <2>4. IsPrefix(delimiter, ahead) <=>
          Len(delimiter) <= Len(ahead) /\ \A i \in 1..Len(delimiter) : delimiter[i] = ahead[i]
    BY <1>2, <2>1, PrefixIs
  <2>5. Len(delimiter) \in Nat
    BY <2>1
  <2>6. QED
    BY <1>2, <2>3, <2>4, <2>5
<1>5. /\ Ahead(<<"-", "-">>) <=> p + 2 <= Len(text) /\ text[p + 1] = "-" /\ text[p + 2] = "-"
      /\ Ahead(<<"/", "*">>) <=> p + 2 <= Len(text) /\ text[p + 1] = "/" /\ text[p + 2] = "*"
      /\ Ahead(<<"/", "*", "!">>) <=>
           p + 3 <= Len(text) /\ text[p + 1] = "/" /\ text[p + 2] = "*" /\ text[p + 3] = "!"
  <2>1. "-" \in Characters /\ "/" \in Characters /\ "*" \in Characters /\ "!" \in Characters
    BY DEF Characters
  <2>2. "-" # "nl" /\ "/" # "nl" /\ "*" # "nl"
    OBVIOUS
  <2>3. \A c, d, e \in Characters : c # "nl" /\ d # "nl" =>
          /\ Ahead(<<c, d>>) <=> p + 2 <= Len(text) /\ text[p + 1] = c /\ text[p + 2] = d
          /\ Ahead(<<c, d, e>>) <=>
               p + 3 <= Len(text) /\ text[p + 1] = c /\ text[p + 2] = d /\ text[p + 3] = e
    <3> TAKE c, d, e \in Characters
    <3> SUFFICES ASSUME c # "nl", d # "nl"
                 PROVE  /\ Ahead(<<c, d>>) <=>
                             p + 2 <= Len(text) /\ text[p + 1] = c /\ text[p + 2] = d
                        /\ Ahead(<<c, d, e>>) <=>
                             /\ p + 3 <= Len(text)
                             /\ text[p + 1] = c /\ text[p + 2] = d /\ text[p + 3] = e
      OBVIOUS
    <3>1. QED
      BY TupleAhead
  <2>4. QED
    BY <2>1, <2>2, <2>3, Zenon
<1>6. \/ Head(line) = "#"
      \/ Ahead(<<"-", "-">>) /\ Len(line) > 2 /\ line[3] \in Space
      <=> LineComment(ahead)
  <2>1. ASSUME p + 2 <= Len(text), text[p + 1] = "-", text[p + 2] = "-"
        PROVE  Len(line) > 2 /\ line[3] \in Space <=> Len(ahead) > 2 /\ ahead[3] \in Space
    <3>1. line \in Seq(Characters) /\ rest \in Seq(Characters)
      BY DEF TypeOK
    <3>2. Len(line) \in Nat /\ Len(rest) \in Nat /\ Len(line) + Len(rest) = Len(text) - p
      BY <3>1 DEF At
    <3>3. ASSUME Len(line) > 2 PROVE Len(ahead) > 2 /\ ahead[3] = line[3]
      <4>1. 3 \in 1..Len(line) /\ 3 \in 1..Len(ahead)
        BY <1>2, <3>2, <3>3
      <4>2. line[3] = text[p + 3]
        BY <4>1 DEF At
      <4>3. QED
        BY <1>2, <4>1, <4>2
    <3>4. ASSUME Len(ahead) > 2 PROVE Len(line) > 2 /\ ahead[3] = line[3]
      <4>1. 3 \in 1..(Len(text) - p) /\ 3 \in 1..Len(ahead)
        BY <1>2, <3>4
      <4>2. \A j \in 1..(3 - 1) : text[p + j] # "nl"
        BY <2>1
      <4>3. 3 <= Len(line) /\ line[3] = text[p + 3]
        BY <4>1, <4>2, InLine
      <4>4. QED
        BY <1>2, <3>2, <4>1, <4>3
    <3>5. QED
      BY <3>3, <3>4
  <2>2. CASE p + 2 <= Len(text)
    <3>1. ahead[1] = text[p + 1] /\ ahead[2] = text[p + 2]
      BY <1>2, <2>2
    <3>2. QED
      BY <1>3, <1>5, <2>1, <2>2, <3>1, Zenon DEF LineComment
  <2>3. CASE ~(p + 2 <= Len(text))
    <3>1. ~(Len(ahead) > 2)
      BY <1>2, <2>3
    <3>2. QED
      BY <1>3, <1>5, <2>3, <3>1, Zenon DEF LineComment
  <2>4. QED
    BY <2>2, <2>3
<1>7. /\ Ahead(<<"/", "*">>) <=> Opens(ahead)
      /\ Ahead(<<"/", "*", "!">>) <=> Opens(ahead) /\ Len(ahead) > 2 /\ ahead[3] = "!"
  <2>1. (p + 2 <= Len(text)) <=> Len(ahead) > 1
    BY <1>2
  <2>2. (p + 3 <= Len(text)) <=> Len(ahead) > 2
    BY <1>2
  <2>3. Len(ahead) > 1 => ahead[1] = text[p + 1] /\ ahead[2] = text[p + 2]
    BY <1>2
  <2>4. Len(ahead) > 2 => Len(ahead) > 1 /\ ahead[3] = text[p + 3]
    BY <1>2
  <2>5. QED
    BY <1>5, <2>1, <2>2, <2>3, <2>4, Zenon DEF Opens
<1>8. QED
  BY <1>3, <1>4, <1>6, <1>7, Zenon DEF Begins

\* The piece that is in front and what it is known to be.
Following(n) == SubSeq(Text, Start(n) + 1, Len(Text))

LEMMA InFrontIs ==
  ASSUME script \in Seq(Pieces), WellFormed(script), NEW n \in 0..(Len(script) - 1)
  PROVE  LET ahead == Following(n)
             x == TextOf(script[n + 1], Before(n).delimiter)
         IN /\ Stands(script[n + 1], Before(n), ahead) /\ Named(script[n + 1], ahead)
            /\ ahead \in Seq(Characters) /\ Len(ahead) \in Nat
            /\ Len(ahead) = Len(Text) - Start(n)
            /\ \A i \in 1..Len(ahead) : ahead[i] = Text[Start(n) + i]
            /\ x \in Seq(Characters) /\ Len(x) \in Nat /\ Len(x) # 0 /\ Len(x) <= Len(ahead)
            /\ \A i \in 1..Len(x) : ahead[i] = x[i]
<1>1. PICK ahead : ahead = Following(n)
  OBVIOUS
<1>2. Stands(script[n + 1], Before(n), ahead)
  BY <1>1, PieceStands, Zenon DEF Following, Before, Start, Text
<1>3. Named(script[n + 1], ahead)
  BY <1>2, Zenon DEF Stands
<1>4. PICK x : x = TextOf(script[n + 1], Before(n).delimiter)
  OBVIOUS
<1>5. /\ Text \in Seq(Characters) /\ Start(n) \in Nat /\ Len(x) \in Nat /\ Len(x) # 0
      /\ Start(n) + Len(x) <= Len(Text)
      /\ \A i \in 1..Len(x) : Text[Start(n) + i] = x[i]
  BY <1>4, WrittenAt, Zenon
<1>6. x \in Seq(Characters)
  <2>1. script[n + 1] \in Pieces
    OBVIOUS
  <2>2. Before(n).delimiter \in Seq(Characters)
    BY AddingIs DEF KnownType
  <2>3. QED
    BY <1>4, <2>1, <2>2, TextOfType
<1>7. PICK text \in Seq(Characters), o \in Nat : text = Text /\ o = Start(n)
  BY <1>5
<1>8. /\ ahead \in Seq(Characters) /\ Len(ahead) = Len(text) - o
      /\ \A i \in 1..(Len(text) - o) : ahead[i] = text[o + i]
  <2>1. o \in 0..Len(text)
    BY <1>5, <1>7
  <2>2. ahead = SubSeq(text, o + 1, Len(text))
    BY <1>1, <1>7, Zenon DEF Following
  <2>3. QED
    BY <2>1, <2>2, AheadOf
<1>9. Len(ahead) \in Nat /\ Len(x) <= Len(ahead)
  BY <1>5, <1>7, <1>8
<1>10. \A i \in 1..Len(ahead) : ahead[i] = Text[Start(n) + i]
  BY <1>7, <1>8
<1>11. \A i \in 1..Len(x) : ahead[i] = x[i]
  <2> TAKE i \in 1..Len(x)
  <2>1. i \in 1..Len(ahead)
    BY <1>5, <1>9
  <2>2. QED
    BY <1>5, <1>10, <2>1
<1>12. Len(ahead) = Len(Text) - Start(n)
  BY <1>7, <1>8
<1>13. QED
  BY <1>1, <1>2, <1>3, <1>4, <1>5, <1>6, <1>8, <1>9, <1>10, <1>11, <1>12, Zenon

LEMMA OpenCommentIs ==
  ASSUME NEW piece, NEW ahead, Named(piece, ahead), piece[1] = "openComment"
  PROVE  Comment(piece[2], Len(piece[2])) /\ ahead = piece[2]
BY DEF Named

LEMMA BlockIs ==
  ASSUME NEW piece, NEW ahead, Named(piece, ahead), piece[1] \in {"kept", "block"}
  PROVE  LET w == piece[2]
         IN /\ Len(w) > 3 /\ Comment(w, Len(w) - 1) /\ w[Len(w) - 1] = "*" /\ w[Len(w)] = "/"
            /\ w[3] = "!" <=> piece[1] = "kept"
BY DEF Named

LEMMA QuotedIs ==
  ASSUME NEW piece, NEW ahead, Named(piece, ahead)
  PROVE  LET w == piece[2]
         IN /\ piece[1] = "literal" =>
                 w[Len(w)] = w[1] /\ (Len(ahead) > Len(w) => ahead[Len(w) + 1] # w[1])
            /\ piece[1] = "openLiteral" => ahead = w
<1>1. CASE piece[1] = "literal"
  BY <1>1 DEF Named
<1>2. CASE piece[1] = "openLiteral"
  BY <1>2 DEF Named
<1>3. QED
  BY <1>1, <1>2

LEMMA LineIs ==
  ASSUME NEW piece, NEW ahead, Named(piece, ahead), piece[1] = "line"
  PROVE  LET w == piece[2]
         IN /\ Len(w) > 0 /\ LineComment(w) /\ \A j \in 1..(Len(w) - 1) : w[j] # "nl"
            /\ w[Len(w)] = "nl" \/ ahead = w
BY DEF Named

\* What a piece that is neither an end nor a change looks like.
LEMMA PieceLooks ==
  ASSUME NEW piece, NEW ahead \in Seq(Characters), Named(piece, ahead), NEW w, w = piece[2],
         w \in Seq(Characters), Len(w) # 0, Len(w) <= Len(ahead),
         \A i \in 1..Len(w) : ahead[i] = w[i]
  PROVE  /\ piece[1] = "character" => Plain(ahead)
         /\ piece[1] \in {"literal", "openLiteral"} =>
              ahead[1] \in Quotes /\ ~LineComment(ahead) /\ ~Opens(ahead)
         /\ piece[1] = "line" => LineComment(ahead)
         /\ piece[1] \in {"kept", "block", "openComment"} =>
              /\ Opens(ahead) /\ ~LineComment(ahead)
              /\ Keeps(w) <=> Len(ahead) > 2 /\ ahead[3] = "!"
<1>1. Len(w) \in Nat /\ Len(ahead) \in Nat
  OBVIOUS
<1>2. ahead[1] = w[1]
  BY <1>1
<1>3. ASSUME piece[1] = "character" PROVE Plain(ahead)
  BY <1>3, NamedIs, Zenon
<1>4. ASSUME piece[1] \in {"literal", "openLiteral"}
      PROVE  ahead[1] \in Quotes /\ ~LineComment(ahead) /\ ~Opens(ahead)
  <2>1. w[1] \in Quotes
    BY <1>4, NamedIs, Zenon
  <2>2. QED
    BY <1>2, <2>1 DEF LineComment, Opens, Quotes
<1>5. ASSUME piece[1] = "line" PROVE LineComment(ahead)
  <2>1. LineComment(w)
    BY <1>5, NamedIs, Zenon
  <2>2. Len(w) > 2 => Len(ahead) > 2 /\ ahead[2] = w[2] /\ ahead[3] = w[3]
    BY <1>1
  <2>3. QED
    BY <1>2, <2>1, <2>2, Zenon DEF LineComment
<1>6. ASSUME piece[1] \in {"kept", "block", "openComment"}
      PROVE  /\ Opens(ahead) /\ ~LineComment(ahead)
             /\ Keeps(w) <=> Len(ahead) > 2 /\ ahead[3] = "!"
  <2>1. CASE piece[1] \in {"kept", "block"}
    <3>1. Len(w) > 3 /\ Comment(w, Len(w) - 1)
      BY <2>1, NamedIs, Zenon
    <3>2. w[1] = "/" /\ w[2] = "*"
      BY <3>1 DEF Comment
    <3>3. ahead[2] = w[2] /\ ahead[3] = w[3] /\ Len(ahead) > 2
      BY <1>1, <3>1
    <3>4. QED
      BY <1>1, <1>2, <3>1, <3>2, <3>3 DEF Opens, LineComment, Keeps
  <2>2. CASE piece[1] = "openComment"
    <3>1. Comment(w, Len(w)) /\ ahead = w
      <4>1. Comment(piece[2], Len(piece[2])) /\ ahead = piece[2]
        BY <2>2, OpenCommentIs, Zenon
      <4>2. QED
        BY <4>1
    <3>2. QED
      BY <1>1, <3>1 DEF Comment, Opens, LineComment, Keeps
  <2>3. QED
    BY <1>6, <2>1, <2>2
<1>7. QED
  BY <1>3, <1>4, <1>5, <1>6

LEMMA BeginsIs ==
  ASSUME TypeOK, script \in Seq(Pieces), WellFormed(script),
         \A i \in 1..Len(delimiter) : delimiter[i] \notin Space,
         NEW n \in 0..(Len(script) - 1), NEW p \in Nat, p = Start(n),
         At(p), Lines(p), line # <<>>, delimiter = Before(n).delimiter, Kind(n) # "change"
  PROVE  /\ Kind(n) = "end" => Begins = "end"
         /\ Kind(n) = "character" => Begins = "code"
         /\ Kind(n) \in {"literal", "openLiteral"} => Begins = Written(n)[1]
         /\ Kind(n) = "line" => Begins = "line"
         /\ Kind(n) \in {"kept", "block", "openComment"} =>
              Begins = IF Keeps(Written(n)) THEN "kept" ELSE "block"
<1>1. PICK ahead, x, piece, w :
        /\ ahead = Following(n) /\ x = TextOf(script[n + 1], Before(n).delimiter)
        /\ piece = script[n + 1] /\ w = Written(n)
  OBVIOUS
<1>2. /\ Stands(piece, Before(n), ahead) /\ Named(piece, ahead)
      /\ ahead \in Seq(Characters) /\ Len(ahead) \in Nat
      /\ x \in Seq(Characters) /\ Len(x) \in Nat /\ Len(x) # 0 /\ Len(x) <= Len(ahead)
      /\ \A i \in 1..Len(x) : ahead[i] = x[i]
  BY <1>1, InFrontIs
<1>3. /\ Kind(n) \notin {"end", "change"} => x = w
      /\ Kind(n) = "end" => x = delimiter
  BY <1>1, WrittenAt
<1>4. piece[1] = Kind(n) /\ piece[2] = w
  BY <1>1, Zenon DEF Kind, Written
<1>5. Begins = IF IsPrefix(delimiter, ahead) THEN "end"
               ELSE IF LineComment(ahead) THEN "line"
               ELSE IF Opens(ahead) /\ Len(ahead) > 2 /\ ahead[3] = "!" THEN "kept"
               ELSE IF Opens(ahead) THEN "block"
               ELSE IF ahead[1] \in Quotes THEN ahead[1]
               ELSE "code"
  <2>1. PICK text \in Seq(Characters) : text = Text
    BY WrittenAt
  <2>2. IsBehind(ahead, text, p)
    BY <1>1, <2>1, InFrontIs, Zenon DEF IsBehind
  <2>3. QED
    BY <2>1, <2>2, BeginsSeen, Zenon
<1>6. CASE Kind(n) = "end"
  <2>1. IsPrefix(delimiter, ahead)
    BY <1>2, <1>3, <1>6, PrefixIs
  <2>2. QED
    BY <1>5, <1>6, <2>1
<1>7. CASE Kind(n) # "end"
  <2>1. ~IsPrefix(delimiter, ahead)
    BY <1>2, <1>4, <1>7 DEF Stands
  <2>2. x = w
    BY <1>3, <1>7
  <2>3. /\ piece[1] = "character" => Plain(ahead)
        /\ piece[1] \in {"literal", "openLiteral"} =>
             ahead[1] \in Quotes /\ ~LineComment(ahead) /\ ~Opens(ahead)
        /\ piece[1] = "line" => LineComment(ahead)
        /\ piece[1] \in {"kept", "block", "openComment"} =>
             /\ Opens(ahead) /\ ~LineComment(ahead)
             /\ Keeps(w) <=> Len(ahead) > 2 /\ ahead[3] = "!"
    BY <1>2, <1>4, <2>2, PieceLooks, SMTT(60)
  <2>4. ahead[1] = w[1]
    BY <1>2, <2>2
  <2>5. Plain(ahead) => ~LineComment(ahead) /\ ~Opens(ahead) /\ ahead[1] \notin Quotes
    BY Zenon DEF Plain, Opens
  <2>6. QED
    BY <1>1, <1>4, <1>5, <1>7, <2>1, <2>3, <2>4, <2>5
<1>8. QED
  BY <1>6, <1>7

-----------------------------------------------------------------------------
(* What the invariant says of each step *)

Going ==
  /\ TypeOK
  /\ script \in Seq(Pieces) /\ WellFormed(script)
  /\ \A i \in 1..Len(delimiter) : delimiter[i] \notin Space

LEMMA AtIsInText ==
  ASSUME Going, NEW p, At(p), line # <<>> \/ rest # <<>>
  PROVE  p \in Nat /\ Text \in Seq(Characters) /\ p < Len(Text)
<1>1. Text \in Seq(Characters)
  BY TextType, Zenon DEF Going, Text
<1>2. line \in Seq(Characters) /\ rest \in Seq(Characters)
  BY DEF Going, TypeOK
<1>3. Len(line) \in Nat /\ Len(rest) \in Nat /\ (Len(line) # 0 \/ Len(rest) # 0)
  BY <1>2
<1>4. Len(Text) \in Nat
  BY <1>1
<1>5. p \in 0..Len(Text) /\ Len(line) + Len(rest) = Len(Text) - p
  BY DEF At
<1>6. QED
  BY <1>1, <1>3, <1>4, <1>5

LEMMA LiteralStarts ==
  ASSUME script \in Seq(Pieces), WellFormed(script), NEW n \in 0..(Len(script) - 1),
         Kind(n) \in {"literal", "openLiteral"}
  PROVE  Written(n)[1] \in Quotes
<1>1. Named(script[n + 1], Following(n))
  BY InFrontIs
<1>2. QED
  BY <1>1, NamedIs, Zenon DEF Kind, Written

LEMMA InFrontOf ==
  ASSUME Going, Position, mode = "code", line # <<>> \/ rest # <<>>
  PROVE  \E n \in 0..(Len(script) - 1), p \in Nat :
           p = Start(n) /\ Understood(n) /\ At(p) /\ Lines(p) /\ InFront(n)
<1>1. PICK n \in 0..Len(script), p \in 0..Len(Text) :
        /\ Understood(n) /\ At(p) /\ Lines(p)
        /\ \/ p = Start(n) /\ InFront(n)
           \/ \E j \in 1..Len(Text) : p = Start(n) + j /\ Inside(n, j) /\ Within(n, j)
  BY Zenon DEF Position
<1>2. script \in Seq(Pieces) /\ WellFormed(script)
  BY DEF Going
<1>3. CASE p = Start(n) /\ InFront(n)
  <2>1. p \in Nat /\ p < Len(Text)
    BY <1>1, AtIsInText
  <2>2. n # Len(script)
    <3>1. Start(Len(script)) = Len(Text)
      BY Zenon DEF Start, Before, Text, TextOfAll
    <3>2. Len(Text) \in Nat
      BY <1>2, TextType DEF Text
    <3>3. QED
      BY <1>3, <2>1, <3>1, <3>2
  <2>3. n \in 0..(Len(script) - 1)
    BY <1>2, <2>2
  <2>4. QED
    BY <1>1, <1>3, <2>1, <2>3
<1>4. CASE \E j \in 1..Len(Text) : p = Start(n) + j /\ Inside(n, j) /\ Within(n, j)
  <2>1. PICK j \in 1..Len(Text) : Inside(n, j) /\ Within(n, j)
    BY <1>4
  <2>2. n \in 0..(Len(script) - 1) /\ 1 \in 1..Len(Written(n))
    BY <1>2, <2>1 DEF Inside
  <2>3. CASE InsideLiteral(n, j)
    <3>1. mode = Written(n)[1] /\ Kind(n) \in {"literal", "openLiteral"}
      BY <2>3, Zenon DEF InsideLiteral
    <3>2. Written(n)[1] \in Quotes
      BY <1>2, <2>2, <3>1, LiteralStarts, ZenonT(60)
    <3>3. QED
      BY <3>1, <3>2 DEF Quotes
  <2>4. CASE InsideComment(n, j)
    BY <2>4 DEF InsideComment
  <2>5. CASE InsideLine(n, j)
    BY <2>5 DEF InsideLine
  <2>6. QED
    BY <2>1, <2>3, <2>4, <2>5, Zenon DEF Within
<1>5. QED
  BY <1>1, <1>3, <1>4

LEMMA InsideOf ==
  ASSUME Going, Position, mode # "code"
  PROVE  \E n \in 0..(Len(script) - 1), p \in Nat, j \in Nat :
           /\ Understood(n) /\ At(p) /\ Lines(p)
           /\ p = Start(n) + j /\ j \in 1..Len(Written(n)) /\ Within(n, j)
<1>1. PICK n \in 0..Len(script), p \in 0..Len(Text) :
        /\ Understood(n) /\ At(p) /\ Lines(p)
        /\ \/ p = Start(n) /\ InFront(n)
           \/ \E j \in 1..Len(Text) : p = Start(n) + j /\ Inside(n, j) /\ Within(n, j)
  BY Zenon DEF Position
<1>2. ~InFront(n)
  BY DEF InFront
<1>3. PICK j \in 1..Len(Text) : p = Start(n) + j /\ Inside(n, j) /\ Within(n, j)
  BY <1>1, <1>2
<1>4. n \in 0..(Len(script) - 1) /\ j \in 1..Len(Written(n)) /\ j \in Nat /\ p \in Nat
  BY <1>3 DEF Inside
<1>5. QED
  BY <1>1, <1>3, <1>4

\* The step leads on within the piece.
LEMMA GoesOn ==
  ASSUME Going, NEW n \in 0..(Len(script) - 1), Kind(n) \notin {"end", "change"},
         NEW p \in Nat, NEW j \in Nat, p = Start(n) + j, Understood(n), At(p), Lines(p),
         NEW k \in 1..Len(line), Skip(k), NEW i \in Nat, i = j + k, i <= Len(Written(n)),
         UNCHANGED <<script, rest, delimiter, statements>>,
         Within(n, i)'
  PROVE  Position'
<1>1. TypeOK /\ script \in Seq(Pieces) /\ WellFormed(script)
  BY Zenon DEF Going
<1>2. Text \in Seq(Characters)
  BY <1>1, TextType DEF Text
<1>3. PICK q \in Nat : q = p + k
  OBVIOUS
<1>4. At(q)' /\ Lines(q)' /\ q <= Len(Text)
  BY <1>1, <1>2, <1>3, MoveOn
<1>5. /\ Text' = Text
      /\ \A m : /\ Before(m)' = Before(m) /\ Start(m)' = Start(m)
                /\ Kind(m)' = Kind(m) /\ Written(m)' = Written(m)
  BY Unchanged
<1>6. Understood(n)'
  BY <1>5 DEF Understood
<1>7. /\ Start(n) \in Nat /\ Len(Written(n)) \in Nat /\ Start(n) + Len(Written(n)) <= Len(Text)
  BY <1>1, WrittenAt
<1>8. /\ i \in 1..Len(Written(n)) /\ i \in 1..Len(Text) /\ n < Len(script) /\ q = Start(n) + i
      /\ n \in 0..Len(script) /\ q \in 0..Len(Text)
  <2>1. Len(Text) \in Nat /\ k \in Nat /\ k >= 1
    BY <1>2
  <2>2. QED
    BY <1>3, <1>4, <1>7, <2>1, SMTT(60)
<1>9. QED
  <2>1. Inside(n, i)'
    BY <1>5, <1>8 DEF Inside
  <2>2. q = Start(n)' + i /\ i \in 1..Len(Text') /\ n \in 0..Len(script') /\ q \in 0..Len(Text')
    BY <1>5, <1>8
  <2>3. QED
    BY <1>4, <1>6, <2>1, <2>2, Zenon DEF Position

\* What is read next is how the piece goes on, and it is copied as such.
LEMMA ReadsOn ==
  ASSUME Going, NEW n \in 0..(Len(script) - 1), Kind(n) \notin {"end", "change"},
         NEW p \in Nat, NEW j \in Nat, p = Start(n) + j, At(p),
         NEW k \in 0..Len(line), j + k <= Len(Written(n))
  PROVE  \A i \in 1..k : line[i] = Written(n)[j + i]
<1>1. TypeOK /\ script \in Seq(Pieces) /\ WellFormed(script)
  BY Zenon DEF Going
<1>2. /\ Start(n) \in Nat /\ Len(Written(n)) \in Nat
      /\ \A i \in 1..Len(Written(n)) : Text[Start(n) + i] = Written(n)[i]
  BY <1>1, WrittenAt
<1>3. Len(line) \in Nat
  BY <1>1 DEF TypeOK
<1> TAKE i \in 1..k
<1>4. i \in 1..Len(line) /\ j + i \in 1..Len(Written(n)) /\ p + i = Start(n) + (j + i)
  BY <1>2, <1>3, SMTT(60)
<1>5. line[i] = Text[p + i]
  BY <1>4 DEF At
<1>6. Text[Start(n) + (j + i)] = Written(n)[j + i]
  BY <1>2, <1>4
<1>7. QED
  BY <1>4, <1>5, <1>6

Associates(s, t, u) == (s \o t) \o u = s \o (t \o u)

LEMMA AssociatesAll ==
  ASSUME NEW S, NEW s \in Seq(S), NEW t \in Seq(S), NEW u \in Seq(S)
  PROVE  Associates(s, t, u)
BY DEF Associates

\* What has been copied and what is copied next are one part of the text.
Continues(c, w, l, j, k) ==
  (c \o SubSeq(w, 1, j)) \o SubSeq(l, 1, k) = c \o SubSeq(w, 1, j + k)

LEMMA CopyIs ==
  ASSUME NEW c \in Seq(Characters), NEW w \in Seq(Characters), NEW l \in Seq(Characters),
         NEW j \in Nat, NEW k \in 0..Len(l), j + k <= Len(w),
         \A i \in 1..k : l[i] = w[j + i]
  PROVE  Continues(c, w, l, j, k)
<1>1. PICK a : a = SubSeq(w, 1, j)
  OBVIOUS
<1>2. PICK b : b = SubSeq(l, 1, k)
  OBVIOUS
<1>3. PICK d : d = SubSeq(w, 1, j + k)
  OBVIOUS
<1>4. /\ a \in Seq(Characters) /\ Len(a) = j /\ \A i \in 1..j : a[i] = w[i]
  BY <1>1
<1>5. /\ b \in Seq(Characters) /\ Len(b) = k /\ \A i \in 1..k : b[i] = l[i]
  BY <1>2
<1>6. /\ d \in Seq(Characters) /\ Len(d) = j + k /\ \A i \in 1..(j + k) : d[i] = w[i]
  BY <1>3
<1>7. a \o b = d
  <2>1. PICK ab : ab = a \o b
    OBVIOUS
  <2>2. Joined(Characters, a, b, ab)
    BY <1>4, <1>5, <2>1, ConcatIs, Zenon
  <2>3. /\ ab \in Seq(Characters) /\ Len(ab) = j + k
        /\ \A i \in 1..j : ab[i] = a[i]
        /\ \A i \in 1..k : ab[j + i] = b[i]
    BY <1>4, <1>5, <2>2, Zenon DEF Joined
  <2> HIDE <2>1
  <2>4. \A i \in 1..(j + k) : ab[i] = d[i]
    <3> TAKE i \in 1..(j + k)
    <3>1. CASE i <= j
      <4>1. i \in 1..j
        BY <3>1
      <4>2. QED
        BY <1>4, <1>6, <2>3, <4>1
    <3>2. CASE ~(i <= j)
      <4>0. PICK m \in 1..k : m = i - j
        BY <3>2
      <4>1. i = j + m
        BY <4>0
      <4>2. ab[i] = l[m] /\ l[m] = w[i] /\ d[i] = w[i]
        BY <1>5, <1>6, <2>3, <4>1
      <4>3. QED
        BY <4>2
    <3>3. QED
      BY <3>1, <3>2
  <2>5. ab = d
    BY <1>6, <2>3, <2>4, SeqEqual
  <2>6. QED
    BY <2>1, <2>5
<1>8. (c \o a) \o b = c \o (a \o b)
  <2>1. Associates(c, a, b)
    BY <1>4, <1>5, AssociatesAll, Zenon
  <2>2. QED
    BY <2>1, Zenon DEF Associates
<1>9. QED
  BY <1>1, <1>2, <1>3, <1>7, <1>8, ZenonT(60) DEF Continues

-----------------------------------------------------------------------------
(* The steps in front of a piece *)

LEMMA AppendIs ==
  ASSUME NEW S, NEW s \in Seq(S), NEW e \in S
  PROVE  Append(s, e) = s \o <<e>> /\ Append(s, e) \in Seq(S)
OBVIOUS

\* What is flushed is the statement, if there is one.
LEMMA FlushedIs ==
  ASSUME TypeOK
  PROVE  /\ Flushed = statements \o Statement(statement)
         /\ Flushed \in Seq(Seq(Characters) \ {<<>>})
<1>1. statement \in Seq(Characters) /\ statements \in Seq(Seq(Characters) \ {<<>>})
  BY DEF TypeOK
<1>2. PICK t : t = TrimSpace(statement) /\ t \in Seq(Characters)
  BY <1>1, TrimSpaceIs
<1>3. CASE t = <<>>
  <2>1. Statement(statement) = <<>> /\ Flushed = statements
    BY <1>2, <1>3, Zenon DEF Flushed, Statement
  <2>2. QED
    BY <1>1, <2>1, NothingAdded
<1>4. CASE t # <<>>
  <2>1. Statement(statement) = <<t>> /\ Flushed = Append(statements, t)
    BY <1>2, <1>4, Zenon DEF Flushed, Statement
  <2>2. t \in Seq(Characters) \ {<<>>}
    BY <1>2, <1>4
  <2>3. /\ Append(statements, t) = statements \o <<t>>
        /\ Append(statements, t) \in Seq(Seq(Characters) \ {<<>>})
    BY <1>1, <2>2, AppendIs
  <2>4. QED
    BY <2>1, <2>3
<1>5. QED
  BY <1>3, <1>4

LEMMA EndStatementStep ==
  ASSUME Going, Position, EndStatement
  PROVE  Position'
<1>1. /\ TypeOK /\ script \in Seq(Pieces) /\ WellFormed(script)
      /\ \A i \in 1..Len(delimiter) : delimiter[i] \notin Space
  BY Zenon DEF Going
<1>2. /\ line # <<>> /\ mode = "code" /\ Begins = "end" /\ Skip(Len(delimiter))
      /\ statements' = Flushed /\ statement' = <<>> /\ mode' = "code"
      /\ UNCHANGED <<script, rest, delimiter>>
  BY DEF EndStatement, Writing
<1>3. PICK n \in 0..(Len(script) - 1), p \in Nat :
        p = Start(n) /\ Understood(n) /\ At(p) /\ Lines(p) /\ InFront(n)
  BY <1>2, InFrontOf
<1>4. /\ delimiter = Before(n).delimiter /\ statements = Before(n).statements
      /\ statement = Before(n).current /\ Kind(n) # "change"
  BY <1>2, <1>3 DEF Understood, InFront
<1>5. Kind(n) \in Kinds
  BY <1>1, AddingIs
<1>6. Kind(n) = "end"
  <2>1. /\ Kind(n) = "character" => Begins = "code"
        /\ Kind(n) \in {"literal", "openLiteral"} => Begins = Written(n)[1]
        /\ Kind(n) = "line" => Begins = "line"
        /\ Kind(n) \in {"kept", "block", "openComment"} =>
             Begins = IF Keeps(Written(n)) THEN "kept" ELSE "block"
    BY <1>1, <1>2, <1>3, <1>4, BeginsIs
  <2>2. Kind(n) \in {"literal", "openLiteral"} => Written(n)[1] \in Quotes
    BY <1>1, LiteralStarts
  <2>3. QED
    BY <1>2, <1>4, <1>5, <2>1, <2>2 DEF Kinds, Copied, Open, Quotes
<1>7. Len(delimiter) \in 1..Len(line)
  <2>1. line \in Seq(Characters) /\ delimiter \in Seq(Characters) \ {<<>>}
    BY <1>1 DEF TypeOK
  <2>2. Ahead(delimiter)
    BY <1>2 DEF Begins, Quotes
  <2>3. Len(delimiter) <= Len(line)
    BY <2>1, <2>2, PrefixIs DEF Ahead
  <2>4. QED
    BY <2>1, <2>3
<1>8. p + Len(delimiter) = Start(n + 1)
  BY <1>1, <1>3, <1>4, <1>6, WrittenAt
<1>9. /\ Before(n + 1).delimiter = delimiter /\ Before(n + 1).result = "ok"
      /\ Before(n + 1).current = <<>>
      /\ Before(n + 1).statements = statements \o Statement(statement)
  <2>1. Before(n + 1).result = ResultOf(script[n + 1]) /\ script[n + 1][1] = "end"
    BY <1>1, <1>6, AddingIs DEF Kind
  <2>2. Before(n + 1).result = "ok"
    BY <2>1 DEF ResultOf
  <2>3. QED
    BY <1>1, <1>4, <1>6, <2>2, AddingIs
<1>10. statements' = Before(n + 1).statements
  BY <1>1, <1>2, <1>9, FlushedIs
<1>11. QED
  BY <1>1, <1>2, <1>3, <1>7, <1>8, <1>9, <1>10, PieceRead

\* A piece that goes on goes on in the same line, except behind a newline.
LEMMA LineHolds ==
  ASSUME Going, NEW n \in 0..(Len(script) - 1), Kind(n) \notin {"end", "change"},
         NEW p \in Nat, NEW j \in Nat, p = Start(n) + j, At(p), Lines(p), line # <<>>,
         j + 2 <= Len(Written(n)), Written(n)[j + 1] # "nl"
  PROVE  2 <= Len(line)
<1>1. TypeOK /\ script \in Seq(Pieces) /\ WellFormed(script)
  BY Zenon DEF Going
<1>2. PICK text \in Seq(Characters), w \in Seq(Characters), o \in Nat :
        text = Text /\ w = Written(n) /\ o = Start(n)
  BY <1>1, WrittenAt, AddingIs
<1>3. text[p + 1] # "nl" /\ 2 \in 1..(Len(text) - p)
  <2>1. /\ o + Len(w) <= Len(text) /\ \A i \in 1..Len(w) : text[o + i] = w[i]
    BY <1>1, <1>2, WrittenAt, ZenonT(60)
  <2>2. Len(w) \in Nat /\ Len(text) \in Nat /\ p = o + j /\ j + 2 <= Len(w)
    BY <1>2, SMTT(60)
  <2>3. j + 1 \in 1..Len(w) /\ p + 1 = o + (j + 1) /\ 2 \in 1..(Len(text) - p)
    BY <2>1, <2>2, SMTT(60)
  <2>4. QED
    BY <1>2, <2>1, <2>3
<1>4. \A i \in 1..(2 - 1) : text[p + i] # "nl"
  BY <1>3
<1>5. QED
  BY <1>1, <1>2, <1>3, <1>4, InLine

LEMMA CopyFirst ==
  ASSUME NEW c \in Seq(Characters), NEW w \in Seq(Characters), NEW l \in Seq(Characters),
         NEW k \in 0..Len(l), k <= Len(w), \A i \in 1..k : l[i] = w[i]
  PROVE  c \o SubSeq(l, 1, k) = c \o SubSeq(w, 1, k)
<1>1. SubSeq(l, 1, k) = SubSeq(w, 1, k)
  <2>1. /\ SubSeq(l, 1, k) \in Seq(Characters) /\ SubSeq(w, 1, k) \in Seq(Characters)
        /\ Len(SubSeq(l, 1, k)) = k /\ Len(SubSeq(w, 1, k)) = k
        /\ \A i \in 1..k : SubSeq(l, 1, k)[i] = l[i] /\ SubSeq(w, 1, k)[i] = w[i]
    OBVIOUS
  <2>2. QED
    BY <2>1, SeqEqual
<1>2. QED
  BY <1>1, Zenon

LEMMA Whole ==
  ASSUME NEW S, NEW w \in Seq(S)
  PROVE  SubSeq(w, 1, Len(w)) = w
OBVIOUS

LEMMA CharacterStep ==
  ASSUME Going, Position, Character
  PROVE  Position'
<1>1. /\ TypeOK /\ script \in Seq(Pieces) /\ WellFormed(script)
      /\ \A i \in 1..Len(delimiter) : delimiter[i] \notin Space
  BY Zenon DEF Going
<1>2. /\ line # <<>> /\ mode = "code" /\ Begins \in {"code"} \cup Quotes /\ Skip(1)
      /\ statement' = statement \o SubSeq(line, 1, 1) /\ mode' = Begins
      /\ UNCHANGED <<script, rest, delimiter, statements>>
  BY DEF Character, Writing, Copy
<1>3. PICK n \in 0..(Len(script) - 1), p \in Nat :
        p = Start(n) /\ Understood(n) /\ At(p) /\ Lines(p) /\ InFront(n)
  BY <1>2, InFrontOf
<1>4. /\ delimiter = Before(n).delimiter /\ statements = Before(n).statements
      /\ statement = Before(n).current /\ Kind(n) # "change"
  BY <1>2, <1>3 DEF Understood, InFront
<1>5. /\ Kind(n) \in Kinds /\ Written(n) \in Seq(Characters)
      /\ Before(n).current \in Seq(Characters)
  BY <1>1, AddingIs DEF KnownType
<1>6. Kind(n) \in {"character", "literal", "openLiteral"}
  <2>1. /\ Kind(n) = "end" => Begins = "end"
        /\ Kind(n) = "line" => Begins = "line"
        /\ Kind(n) \in {"kept", "block", "openComment"} =>
             Begins = IF Keeps(Written(n)) THEN "kept" ELSE "block"
    BY <1>1, <1>2, <1>3, <1>4, BeginsIs
  <2>2. QED
    BY <1>2, <1>4, <1>5, <2>1 DEF Kinds, Copied, Open, Quotes
<1>7. /\ Kind(n) = "character" => Begins = "code"
      /\ Kind(n) \in {"literal", "openLiteral"} => Begins = Written(n)[1]
  BY <1>1, <1>2, <1>3, <1>4, BeginsIs
<1>8. Named(script[n + 1], Following(n))
  BY <1>1, InFrontIs
<1>9. line \in Seq(Characters) /\ 1 \in 1..Len(line) /\ 1 \in 0..Len(line)
  <2>1. line \in Seq(Characters)
    BY <1>1 DEF TypeOK
  <2>2. QED
    BY <1>2, <2>1
<1>10. Len(Written(n)) \in Nat /\ Len(Written(n)) # 0
  BY <1>1, <1>6, WrittenAt
<1>11. statement' = Before(n).current \o SubSeq(Written(n), 1, 1)
  <2>1. Kind(n) \notin {"end", "change"} /\ p = Start(n) + 0 /\ 0 + 1 <= Len(Written(n))
    <3>1. Kind(n) \notin {"end", "change"}
      BY <1>6
    <3>2. p = Start(n) + 0
      BY <1>3
    <3>3. 1 <= Len(Written(n)) /\ 0 + 1 <= Len(Written(n)) /\ 1 = 0 + 1
      BY <1>10
    <3>4. QED
      BY <3>1, <3>2, <3>3
  <2>2. \A i \in 1..1 : line[i] = Written(n)[0 + i]
    BY <1>3, <1>9, <2>1, ReadsOn
  <2>3. \A i \in 1..1 : line[i] = Written(n)[i]
    BY <2>2
  <2>4. Before(n).current \o SubSeq(line, 1, 1) = Before(n).current \o SubSeq(Written(n), 1, 1)
    BY <1>5, <1>9, <1>10, <2>3, CopyFirst, SMTT(60)
  <2>5. QED
    BY <1>2, <1>4, <2>4
<1>12. CASE Kind(n) = "character"
  <2>1. Len(Written(n)) = 1
    BY <1>8, <1>12, NamedIs, Zenon DEF Kind, Written
  <2>2. Written(n) = SubSeq(Written(n), 1, 1)
    BY <1>5, <2>1, Whole
  <2>3. p + 1 = Start(n + 1)
    BY <1>1, <1>3, <1>12, <2>1, WrittenAt
  <2>4. /\ Before(n + 1).delimiter = delimiter /\ Before(n + 1).statements = statements
        /\ Before(n + 1).current = Before(n).current \o Written(n)
    BY <1>1, <1>4, <1>12, AddingIs DEF Copied
  <2>5. Before(n + 1).result = "ok"
    <3>1. Before(n + 1).result = ResultOf(script[n + 1]) /\ script[n + 1][1] = "character"
      BY <1>1, <1>12, AddingIs DEF Kind
    <3>2. QED
      BY <3>1 DEF ResultOf
  <2>6. /\ mode' = "code" /\ statements' = Before(n + 1).statements
        /\ statement' = Before(n + 1).current
    BY <1>2, <1>7, <1>11, <1>12, <2>2, <2>4, Zenon
  <2>7. QED
    BY <1>1, <1>2, <1>3, <1>9, <2>3, <2>4, <2>5, <2>6, PieceRead
<1>13. CASE Kind(n) \in {"literal", "openLiteral"}
  <2>1. PICK w : w = Written(n)
    OBVIOUS
  <2>2. PICK m \in 1..Len(w) :
          /\ \E places \in SUBSET (1..m) : 1 \in places /\ Path(w, m, places)
          /\ IF Kind(n) = "literal" THEN m = Len(w) - 1
             ELSE m = Len(w) \/ (m = Len(w) - 1 /\ w[m + 1] = "\\")
    <3>1. CASE Kind(n) = "literal"
      <4>1. Len(w) > 1 /\ Literal(w, Len(w) - 1)
        BY <1>8, <2>1, <3>1, NamedIs, Zenon DEF Kind, Written
      <4>2. PICK m \in 1..Len(w) : m = Len(w) - 1
        BY <1>10, <2>1, <4>1
      <4>3. \E places \in SUBSET (1..m) : 1 \in places /\ Path(w, m, places)
        BY <4>1, <4>2, Zenon DEF Literal
      <4>4. QED
        BY <3>1, <4>2, <4>3
    <3>2. CASE Kind(n) = "openLiteral"
      <4>1. Literal(w, Len(w)) \/ (w[Len(w)] = "\\" /\ Literal(w, Len(w) - 1))
        BY <1>8, <2>1, <3>2, NamedIs, Zenon DEF Kind, Written
      <4>2. PICK m \in 0..Len(w) :
              /\ Literal(w, m)
              /\ m = Len(w) \/ (m = Len(w) - 1 /\ w[m + 1] = "\\")
        <5>1. Len(w) \in 0..Len(w) /\ Len(w) - 1 \in 0..Len(w) /\ (Len(w) - 1) + 1 = Len(w)
          BY <1>10, <2>1
        <5>2. QED
          BY <4>1, <5>1, Zenon
      <4>3. PICK places \in SUBSET (1..m) : 1 \in places /\ Path(w, m, places)
        BY <4>2, Zenon DEF Literal
      <4>4. m \in 1..Len(w)
        BY <4>3
      <4>5. QED
        BY <3>2, <4>2, <4>3, <4>4
    <3>3. QED
      BY <1>13, <3>1, <3>2
  <2>3. /\ Before(n)' = Before(n) /\ Kind(n)' = Kind(n) /\ Written(n)' = w
    BY <1>2, <2>1, Unchanged
  <2>4. mode' = w[1] /\ statement' = Before(n).current \o SubSeq(w, 1, 1)
    BY <1>2, <1>7, <1>11, <1>13, <2>1
  <2>5. InsideLiteral(n, 1)'
    BY <1>13, <2>2, <2>3, <2>4, Zenon DEF InsideLiteral
  <2>6. Within(n, 1)'
    BY <2>5 DEF Within
  <2>7. Kind(n) \notin {"end", "change"} /\ p = Start(n) + 0 /\ 1 = 0 + 1 /\ 1 <= Len(Written(n))
    <3>1. Kind(n) \notin {"end", "change"}
      BY <1>6
    <3>2. p = Start(n) + 0
      BY <1>3
    <3>3. 1 <= Len(Written(n)) /\ 0 + 1 <= Len(Written(n)) /\ 1 = 0 + 1
      BY <1>10
    <3>4. QED
      BY <3>1, <3>2, <3>3
  <2>8. QED
    BY <1>2, <1>3, <1>9, <2>6, <2>7, GoesOn
<1>14. QED
  BY <1>6, <1>12, <1>13

\* What a comment is known to be.
LEMMA CommentIs ==
  ASSUME script \in Seq(Pieces), WellFormed(script), NEW n \in 0..(Len(script) - 1),
         Kind(n) \in {"kept", "block", "openComment"}
  PROVE  LET w == Written(n)
         IN /\ w \in Seq(Characters) /\ Len(w) \in Nat /\ Len(w) >= 2
            /\ w[1] = "/" /\ w[2] = "*"
            /\ Kind(n) \in {"kept", "block"} =>
                 /\ Len(w) > 3 /\ w[Len(w) - 1] = "*" /\ w[Len(w)] = "/"
                 /\ \A j \in 3..(Len(w) - 2) : ~(w[j] = "*" /\ w[j + 1] = "/")
                 /\ Keeps(w) <=> Kind(n) = "kept"
            /\ Kind(n) = "openComment" =>
                 /\ Start(n) + Len(w) = Len(Text)
                 /\ \A j \in 3..(Len(w) - 1) : ~(w[j] = "*" /\ w[j + 1] = "/")
<1>1. PICK w \in Seq(Characters) : w = Written(n)
  BY AddingIs
<1>2. Named(script[n + 1], Following(n)) /\ script[n + 1][1] = Kind(n) /\ script[n + 1][2] = w
  BY <1>1, InFrontIs DEF Kind, Written
<1>3. Len(w) \in Nat
  OBVIOUS
<1>4. CASE Kind(n) \in {"kept", "block"}
  <2>1. /\ Len(w) > 3 /\ Comment(w, Len(w) - 1) /\ w[Len(w) - 1] = "*" /\ w[Len(w)] = "/"
        /\ w[3] = "!" <=> Kind(n) = "kept"
    BY <1>2, <1>4, BlockIs, SMTT(60)
  <2>2. /\ w[1] = "/" /\ w[2] = "*"
        /\ \A j \in 3..((Len(w) - 1) - 1) : ~(w[j] = "*" /\ w[j + 1] = "/")
    BY <2>1, Zenon DEF Comment
  <2>3. (Len(w) - 1) - 1 = Len(w) - 2 /\ Len(w) >= 2 /\ Len(w) > 2
    BY <1>3, <2>1
  <2>4. Keeps(w) <=> Kind(n) = "kept"
    BY <2>1, <2>3 DEF Keeps
  <2>5. \A j \in 3..(Len(w) - 2) : ~(w[j] = "*" /\ w[j + 1] = "/")
    BY <2>2, <2>3
  <2>6. Kind(n) # "openComment"
    BY <1>4
  <2>7. QED
    BY <1>1, <1>3, <2>1, <2>2, <2>3, <2>4, <2>5, <2>6, Zenon
<1>5. CASE Kind(n) = "openComment"
  <2>1. Comment(w, Len(w)) /\ Following(n) = w
    BY <1>2, <1>5, OpenCommentIs, Zenon
  <2>2. /\ Len(w) >= 2 /\ w[1] = "/" /\ w[2] = "*"
        /\ \A j \in 3..(Len(w) - 1) : ~(w[j] = "*" /\ w[j + 1] = "/")
    BY <2>1, Zenon DEF Comment
  <2>3. Start(n) + Len(w) = Len(Text)
    <3>1. Len(w) = Len(Text) - Start(n) /\ Start(n) \in Nat /\ Text \in Seq(Characters)
      BY <2>1, InFrontIs, WrittenAt
    <3>2. Len(Text) \in Nat
      BY <3>1
    <3>3. QED
      BY <1>3, <3>1, <3>2
  <2>4. Kind(n) \notin {"kept", "block"}
    BY <1>5
  <2>5. QED
    BY <1>1, <1>3, <2>2, <2>3, <2>4, Zenon
<1>6. QED
  BY <1>4, <1>5

\* Where a literal ends, no other quote follows, or nothing at all.
LiteralEnds(n) ==
  LET w == Written(n)
  IN /\ Kind(n) = "literal" =>
          /\ w[Len(w)] = w[1]
          /\ Start(n) + Len(w) < Len(Text) => Text[Start(n) + Len(w) + 1] # w[1]
     /\ Kind(n) = "openLiteral" => Start(n) + Len(w) = Len(Text)

LEMMA LiteralEndsAll ==
  ASSUME script \in Seq(Pieces), WellFormed(script), NEW n \in 0..(Len(script) - 1),
         Kind(n) \in {"literal", "openLiteral"}
  PROVE  LiteralEnds(n)
<1>1. PICK w \in Seq(Characters), ahead \in Seq(Characters) :
        w = Written(n) /\ ahead = Following(n)
  BY AddingIs, InFrontIs
<1>2. Named(script[n + 1], ahead) /\ script[n + 1][1] = Kind(n) /\ script[n + 1][2] = w
  BY <1>1, InFrontIs DEF Kind, Written
<1>3. PICK text \in Seq(Characters), o \in Nat : text = Text /\ o = Start(n)
  BY WrittenAt
<1>4. /\ Len(ahead) = Len(text) - o
      /\ \A i \in 1..Len(ahead) : ahead[i] = text[o + i]
  BY <1>1, <1>3, InFrontIs, Zenon
<1>5. Len(w) \in Nat /\ Len(ahead) \in Nat /\ Len(text) \in Nat
  OBVIOUS
<1>6. ASSUME Kind(n) = "literal"
      PROVE  w[Len(w)] = w[1] /\ (o + Len(w) < Len(text) => text[o + Len(w) + 1] # w[1])
  <2>1. w[Len(w)] = w[1] /\ (Len(ahead) > Len(w) => ahead[Len(w) + 1] # w[1])
    BY <1>2, <1>6, QuotedIs, SMTT(60)
  <2>2. ASSUME o + Len(w) < Len(text) PROVE text[o + Len(w) + 1] # w[1]
    <3>1. Len(ahead) > Len(w) /\ Len(w) + 1 \in 1..Len(ahead)
      BY <1>4, <1>5, <2>2
    <3>2. ahead[Len(w) + 1] = text[o + (Len(w) + 1)]
      BY <1>4, <3>1, Zenon
    <3>3. o + (Len(w) + 1) = o + Len(w) + 1
      BY <1>5
    <3>4. QED
      BY <2>1, <3>1, <3>2, <3>3, Zenon
  <2>3. QED
    BY <2>1, <2>2
<1>7. ASSUME Kind(n) = "openLiteral" PROVE o + Len(w) = Len(text)
  <2>1. ahead = w
    BY <1>2, <1>7, QuotedIs
  <2>2. QED
    BY <1>4, <1>5, <2>1
<1>8. QED
  BY <1>1, <1>3, <1>6, <1>7, Zenon DEF LiteralEnds

LEMMA LineCommentIs ==
  ASSUME script \in Seq(Pieces), WellFormed(script), NEW n \in 0..(Len(script) - 1),
         Kind(n) = "line"
  PROVE  LET w == Written(n)
         IN /\ w \in Seq(Characters) /\ Len(w) \in Nat /\ Len(w) > 0
            /\ w[1] = "#" \/ (Len(w) > 2 /\ w[1] = "-" /\ w[2] = "-")
            /\ \A j \in 1..(Len(w) - 1) : w[j] # "nl"
            /\ w[Len(w)] = "nl" \/ Start(n) + Len(w) = Len(Text)
<1>1. PICK w \in Seq(Characters) : w = Written(n)
  BY AddingIs
<1>2. Named(script[n + 1], Following(n)) /\ script[n + 1][1] = "line" /\ script[n + 1][2] = w
  BY <1>1, InFrontIs DEF Kind, Written
<1>3. Len(w) \in Nat
  OBVIOUS
<1>4. /\ Len(w) > 0 /\ LineComment(w) /\ \A j \in 1..(Len(w) - 1) : w[j] # "nl"
      /\ w[Len(w)] = "nl" \/ Following(n) = w
  BY <1>2, LineIs
<1>5. Following(n) = w => Start(n) + Len(w) = Len(Text)
  <2> SUFFICES ASSUME Following(n) = w PROVE Start(n) + Len(w) = Len(Text)
    OBVIOUS
  <2>1. Len(w) = Len(Text) - Start(n) /\ Start(n) \in Nat /\ Text \in Seq(Characters)
    BY InFrontIs, WrittenAt
  <2>2. Len(Text) \in Nat
    BY <2>1
  <2>3. QED
    BY <1>3, <2>1, <2>2
<1>6. w[1] = "#" \/ (Len(w) > 2 /\ w[1] = "-" /\ w[2] = "-")
  BY <1>4, Zenon DEF LineComment
<1>7. QED
  BY <1>1, <1>3, <1>4, <1>5, <1>6, Zenon

LEMMA BeginCommentStep ==
  ASSUME Going, Position, BeginComment
  PROVE  Position'
<1>1. /\ TypeOK /\ script \in Seq(Pieces) /\ WellFormed(script)
      /\ \A i \in 1..Len(delimiter) : delimiter[i] \notin Space
  BY Zenon DEF Going
<1>2. /\ line # <<>> /\ mode = "code" /\ Begins \in {"line", "block", "kept"}
      /\ mode' = Begins /\ UNCHANGED <<script, rest, delimiter, statements>>
      /\ IF Begins = "kept" THEN Skip(2) /\ statement' = statement \o SubSeq(line, 1, 2)
         ELSE Skip(IF Head(line) = "#" THEN 1 ELSE 2) /\ UNCHANGED statement
  BY DEF BeginComment, Writing, Copy
<1>3. PICK n \in 0..(Len(script) - 1), p \in Nat :
        p = Start(n) /\ Understood(n) /\ At(p) /\ Lines(p) /\ InFront(n)
  BY <1>2, InFrontOf
<1>4. /\ delimiter = Before(n).delimiter /\ statements = Before(n).statements
      /\ statement = Before(n).current /\ Kind(n) # "change"
  BY <1>2, <1>3 DEF Understood, InFront
<1>5. /\ Kind(n) \in Kinds /\ Written(n) \in Seq(Characters)
      /\ Before(n).current \in Seq(Characters)
  BY <1>1, AddingIs DEF KnownType
<1>6. Kind(n) \in {"line", "kept", "block", "openComment"}
  <2>1. /\ Kind(n) = "end" => Begins = "end"
        /\ Kind(n) = "character" => Begins = "code"
        /\ Kind(n) \in {"literal", "openLiteral"} => Begins = Written(n)[1]
    BY <1>1, <1>2, <1>3, <1>4, BeginsIs
  <2>2. Kind(n) \in {"literal", "openLiteral"} => Written(n)[1] \in Quotes
    BY <1>1, LiteralStarts
  <2>3. QED
    BY <1>2, <1>4, <1>5, <2>1, <2>2 DEF Kinds, Copied, Open, Quotes
<1>7. /\ Kind(n) = "line" => Begins = "line"
      /\ Kind(n) \in {"kept", "block", "openComment"} =>
           Begins = IF Keeps(Written(n)) THEN "kept" ELSE "block"
  BY <1>1, <1>2, <1>3, <1>4, BeginsIs
<1>8. line \in Seq(Characters) /\ Len(line) \in Nat /\ 1 \in 1..Len(line) /\ Head(line) = line[1]
  <2>1. line \in Seq(Characters)
    BY <1>1 DEF TypeOK
  <2>2. QED
    BY <1>2, <2>1
<1>9. Kind(n) \notin {"end", "change"} /\ p = Start(n) + 0
  <2>1. p = Start(n) + 0
    BY <1>3
  <2>2. QED
    BY <1>6, <2>1
<1>10. Len(Written(n)) \in Nat /\ Len(Written(n)) # 0
  BY <1>1, <1>9, WrittenAt
<1>11. line[1] = Written(n)[1]
  <2>1. 0 + 1 <= Len(Written(n)) /\ 1 \in 0..Len(line)
    BY <1>8, <1>10
  <2>2. \A i \in 1..1 : line[i] = Written(n)[0 + i]
    BY <1>3, <1>9, <2>1, ReadsOn
  <2>3. QED
    BY <2>2
<1>12. /\ Before(n)' = Before(n) /\ Kind(n)' = Kind(n) /\ Written(n)' = Written(n)
  BY <1>2, Unchanged
<1>13. CASE Kind(n) = "line"
  <2>1. PICK w \in Seq(Characters) : w = Written(n)
    BY <1>5
  <2>2. /\ Len(w) \in Nat /\ Len(w) > 0
        /\ w[1] = "#" \/ (Len(w) > 2 /\ w[1] = "-" /\ w[2] = "-")
    BY <1>1, <1>13, <2>1, LineCommentIs, Zenon
  <2>3. PICK k \in 1..2 : k = IF Head(line) = "#" THEN 1 ELSE 2
    OBVIOUS
  <2>4. k <= Len(w) /\ k <= Len(line) /\ (k = Len(w) => w[k] # "nl")
    <3>1. CASE w[1] = "#"
      BY <1>8, <1>11, <2>1, <2>2, <2>3, <3>1
    <3>2. CASE w[1] # "#"
      <4>1. Len(w) > 2 /\ k = 2 /\ w[1] = "-"
        BY <1>8, <1>11, <2>1, <2>2, <2>3, <3>2
      <4>2. 0 + 2 <= Len(Written(n)) /\ Written(n)[0 + 1] # "nl"
        BY <2>1, <4>1
      <4>3. 2 <= Len(line)
        BY <1>2, <1>3, <1>9, <4>2, LineHolds
      <4>4. QED
        BY <2>2, <4>1, <4>3
    <3>3. QED
      BY <3>1, <3>2
  <2>5. Skip(k) /\ statement' = Before(n).current /\ mode' = "line"
    BY <1>2, <1>4, <1>7, <1>13, <2>3
  <2>6. InsideLine(n, k)'
    BY <1>12, <1>13, <2>1, <2>4, <2>5, Zenon DEF InsideLine
  <2>7. Within(n, k)'
    BY <2>6 DEF Within
  <2>8. k \in 1..Len(line) /\ k \in Nat /\ k = 0 + k /\ k <= Len(Written(n))
    BY <1>8, <2>1, <2>4
  <2>9. QED
    BY <1>2, <1>3, <1>9, <2>5, <2>7, <2>8, GoesOn
<1>14. CASE Kind(n) \in {"kept", "block", "openComment"}
  <2>1. PICK w \in Seq(Characters) : w = Written(n)
    BY <1>5
  <2>2. /\ Len(w) \in Nat /\ Len(w) >= 2 /\ w[1] = "/"
        /\ Kind(n) \in {"kept", "block"} => Len(w) > 3
    BY <1>1, <1>14, <2>1, CommentIs, Zenon
  <2>3. 2 <= Len(line)
    <3>1. 0 + 2 <= Len(Written(n)) /\ Written(n)[0 + 1] # "nl"
      BY <2>1, <2>2
    <3>2. QED
      BY <1>2, <1>3, <1>9, <3>1, LineHolds
  <2>4. Skip(2) /\ mode' = IF Keeps(w) THEN "kept" ELSE "block"
    <3>1. Head(line) # "#"
      BY <1>8, <1>11, <2>1, <2>2
    <3>2. QED
      BY <1>2, <1>7, <1>14, <2>1, <3>1
  <2>5. statement' = Before(n).current \o (IF Keeps(w) THEN SubSeq(w, 1, 2) ELSE <<>>)
    <3>1. CASE Keeps(w)
      <4>1. statement' = Before(n).current \o SubSeq(line, 1, 2)
        BY <1>2, <1>4, <1>7, <1>14, <2>1, <3>1
      <4>2. 0 + 2 <= Len(Written(n)) /\ 2 \in 0..Len(line)
        BY <1>8, <2>1, <2>2, <2>3
      <4>3. \A i \in 1..2 : line[i] = Written(n)[0 + i]
        BY <1>3, <1>9, <4>2, ReadsOn
      <4>4. \A i \in 1..2 : line[i] = w[i]
        BY <2>1, <4>3
      <4>5. Before(n).current \o SubSeq(line, 1, 2) = Before(n).current \o SubSeq(w, 1, 2)
        BY <1>5, <1>8, <2>2, <4>2, <4>4, CopyFirst, ZenonT(60)
      <4>6. QED
        BY <3>1, <4>1, <4>5, Zenon
    <3>2. CASE ~Keeps(w)
      <4>1. statement' = Before(n).current
        BY <1>2, <1>4, <1>7, <1>14, <2>1, <3>2
      <4>2. Before(n).current \o <<>> = Before(n).current
        BY <1>5, NothingAdded
      <4>3. QED
        BY <3>2, <4>1, <4>2, Zenon
    <3>3. QED
      BY <3>1, <3>2
  <2>6. 2 >= 2 /\ (Kind(n) # "openComment" => 2 <= Len(w) - 2)
    BY <1>14, <2>2
  <2>7. InsideComment(n, 2)'
    BY <1>12, <1>14, <2>1, <2>4, <2>5, <2>6, Zenon DEF InsideComment
  <2>8. Within(n, 2)'
    BY <2>7 DEF Within
  <2>9. 2 \in 1..Len(line) /\ 2 = 0 + 2 /\ 2 <= Len(Written(n))
    BY <1>8, <2>1, <2>2, <2>3
  <2>10. QED
    BY <1>2, <1>3, <1>9, <2>4, <2>8, <2>9, GoesOn
<1>15. QED
  BY <1>6, <1>13, <1>14

-----------------------------------------------------------------------------
(* The steps inside of a piece *)

LEMMA NextStart ==
  ASSUME script \in Seq(Pieces), WellFormed(script), NEW n \in 0..(Len(script) - 1),
         Kind(n) \notin {"end", "change"}
  PROVE  /\ Start(n + 1) = Start(n) + Len(Written(n))
         /\ Start(n) \in Nat /\ Len(Written(n)) \in Nat
         /\ Start(n) + Len(Written(n)) <= Len(Text)
BY WrittenAt

LEMMA FirstOf ==
  ASSUME NEW S, NEW l \in Seq(S), l # <<>>
  PROVE  SubSeq(l, 1, 1) = <<l[1]>>
<1>1. Len(l) \in Nat /\ 1 <= Len(l) /\ l[1] \in S
  OBVIOUS
<1>2. SubSeq(l, 1, 1) \in Seq(S) /\ Len(SubSeq(l, 1, 1)) = 1 /\ SubSeq(l, 1, 1)[1] = l[1]
  BY <1>1
<1>3. PICK x \in Seq(S) : x = <<l[1]>> /\ Len(x) = 1 /\ \A i \in 1..Len(x) : x[i] = l[1]
  BY <1>1, TupleTypes, ZenonT(60)
<1>4. PICK y \in Seq(S) : y = SubSeq(l, 1, 1) /\ Len(y) = 1 /\ y[1] = l[1]
  BY <1>2
<1>5. Len(x) = Len(y) /\ \A i \in 1..Len(x) : x[i] = y[i]
  BY <1>3, <1>4
<1>6. x = y
  BY <1>5, SeqEqual
<1>7. QED
  BY <1>3, <1>4, <1>6

LEMMA InLineCommentStep ==
  ASSUME Going, Position, InLineComment
  PROVE  Position'
<1>1. /\ TypeOK /\ script \in Seq(Pieces) /\ WellFormed(script)
  BY Zenon DEF Going
<1>2. /\ line # <<>> /\ mode = "line" /\ UNCHANGED <<script, rest, delimiter, statements>>
      /\ IF Ahead(<<"nl">>)
         THEN mode' = "code" /\ statement' = statement \o SubSeq(line, 1, 1) /\ Skip(1)
         ELSE Skip(1) /\ UNCHANGED <<mode, statement>>
  BY DEF InLineComment, Writing, Copy
<1>3. PICK n \in 0..(Len(script) - 1), p \in Nat, j \in Nat :
        /\ Understood(n) /\ At(p) /\ Lines(p)
        /\ p = Start(n) + j /\ j \in 1..Len(Written(n)) /\ Within(n, j)
  BY <1>2, InsideOf
<1>4. Kind(n) = "line" /\ statement = Before(n).current /\ (j = Len(Written(n)) => Written(n)[j] # "nl")
  <2>1. ~InsideComment(n, j)
    BY <1>2 DEF InsideComment
  <2>2. ~InsideLiteral(n, j)
    <3>1. Kind(n) \in {"literal", "openLiteral"} => Written(n)[1] \in Quotes
      BY <1>1, LiteralStarts
    <3>2. QED
      BY <1>2, <3>1, Zenon DEF InsideLiteral, Quotes
  <2>3. InsideLine(n, j)
    BY <1>3, <2>1, <2>2, Zenon DEF Within
  <2>4. QED
    BY <2>3, Zenon DEF InsideLine
<1>5. PICK w \in Seq(Characters) : w = Written(n) /\ Len(w) \in Nat
  <2>1. Written(n) \in Seq(Characters)
    BY <1>1, AddingIs
  <2>2. QED
    BY <2>1
<1>6. /\ \A i \in 1..(Len(w) - 1) : w[i] # "nl"
      /\ w[Len(w)] = "nl" \/ Start(n) + Len(w) = Len(Text)
  BY <1>1, <1>4, <1>5, LineCommentIs, Zenon
<1>7. p < Len(Text) /\ Start(n) \in Nat
  BY <1>1, <1>2, <1>3, <1>4, AtIsInText, WrittenAt
<1>8. j < Len(w)
  <2>1. CASE j = Len(w)
    BY <1>3, <1>4, <1>5, <1>6, <1>7, <2>1
  <2>2. QED
    BY <1>3, <1>5, <2>1
<1>9. line \in Seq(Characters) /\ Len(line) \in Nat /\ 1 \in 1..Len(line) /\ 1 \in 0..Len(line)
  <2>1. line \in Seq(Characters)
    BY <1>1 DEF TypeOK
  <2>2. QED
    BY <1>2, <2>1
<1>10. line[1] = w[j + 1]
  <2>1. Kind(n) \notin {"end", "change"} /\ j + 1 <= Len(Written(n))
    BY <1>4, <1>5, <1>8
  <2>2. \A i \in 1..1 : line[i] = Written(n)[j + i]
    BY <1>3, <1>9, <2>1, ReadsOn
  <2>3. QED
    BY <1>5, <2>2
<1>11. Ahead(<<"nl">>) <=> line[1] = "nl"
  <2>1. "nl" \in Characters
    BY DEF Characters, Space
  <2>2. PICK x \in Seq(Characters) : x = <<"nl">> /\ Len(x) = 1 /\ \A i \in 1..Len(x) : x[i] = "nl"
    BY <2>1, TupleTypes, ZenonT(60)
  <2>3. IsPrefix(x, line) <=> line[1] = "nl"
    <3>1. IsPrefix(x, line) <=> Len(x) <= Len(line) /\ \A i \in 1..Len(x) : x[i] = line[i]
      BY <1>9, PrefixIs
    <3>2. QED
      BY <1>9, <2>2, <3>1
  <2>4. QED
    BY <2>2, <2>3, Zenon DEF Ahead
<1>12. CASE line[1] = "nl"
  <2>1. j + 1 = Len(w)
    <3>1. j + 1 \in 1..Len(w)
      BY <1>5, <1>8
    <3>2. CASE j + 1 \in 1..(Len(w) - 1)
      BY <1>6, <1>10, <1>12, <3>2
    <3>3. QED
      BY <1>5, <3>1, <3>2
  <2>2. Last(w) = "nl"
    BY <1>10, <1>12, <2>1 DEF Last
  <2>3. SubSeq(line, 1, 1) = <<"nl">>
    BY <1>2, <1>9, <1>12, FirstOf, Zenon
  <2>4. /\ Before(n + 1).delimiter = delimiter /\ Before(n + 1).statements = statements
        /\ Before(n + 1).current = Before(n).current \o <<"nl">>
    BY <1>1, <1>3, <1>4, <1>5, <2>2, AddingIs DEF Understood
  <2>5. Before(n + 1).result = "ok"
    <3>1. Before(n + 1).result = ResultOf(script[n + 1]) /\ script[n + 1][1] = "line"
      BY <1>1, <1>4, AddingIs DEF Kind
    <3>2. QED
      BY <3>1 DEF ResultOf
  <2>6. p + 1 = Start(n + 1)
    <3>1. Start(n + 1) = Start(n) + Len(w)
      BY <1>1, <1>4, <1>5, NextStart
    <3>2. QED
      BY <1>3, <1>5, <1>7, <2>1, <3>1, SMTT(60)
  <2>7. /\ mode' = "code" /\ Skip(1) /\ statements' = Before(n + 1).statements
        /\ statement' = Before(n + 1).current
    BY <1>2, <1>4, <1>11, <1>12, <2>3, <2>4, Zenon
  <2>8. QED
    BY <1>1, <1>2, <1>3, <1>9, <2>4, <2>5, <2>6, <2>7, PieceRead
<1>13. CASE line[1] # "nl"
  <2>1. Skip(1) /\ UNCHANGED <<mode, statement>>
    BY <1>2, <1>11, <1>13
  <2>2. PICK i \in Nat : i = j + 1 /\ i <= Len(Written(n)) /\ w[i] # "nl"
    BY <1>5, <1>8, <1>10, <1>13
  <2>3. /\ Before(n)' = Before(n) /\ Kind(n)' = Kind(n) /\ Written(n)' = w
    BY <1>2, <1>5, Unchanged
  <2>4. InsideLine(n, i)'
    BY <1>2, <1>4, <2>1, <2>2, <2>3 DEF InsideLine
  <2>5. Within(n, i)'
    BY <2>4 DEF Within
  <2>6. Kind(n) \notin {"end", "change"}
    BY <1>4
  <2>7. QED
    BY <1>2, <1>3, <1>9, <2>1, <2>2, <2>5, <2>6, GoesOn
<1>14. QED
  BY <1>12, <1>13

LEMMA NotEmpty ==
  ASSUME NEW S, NEW l \in Seq(S), l # <<>>
  PROVE  Len(l) \in Nat /\ 1 \in 1..Len(l) /\ 1 \in 0..Len(l)
OBVIOUS

\* How a piece that is no end and no change is copied.
LEMMA CopiedOn ==
  ASSUME Going, NEW n \in 0..(Len(script) - 1), Kind(n) \notin {"end", "change"},
         NEW p \in Nat, NEW j \in Nat, p = Start(n) + j, At(p),
         NEW k \in 0..Len(line), j + k <= Len(Written(n)),
         NEW w, w = Written(n), NEW c \in Seq(Characters)
  PROVE  Continues(c, w, line, j, k)
<1>1. \A i \in 1..k : line[i] = w[j + i]
  BY ReadsOn, SMTT(60)
<1>2. w \in Seq(Characters) /\ line \in Seq(Characters)
  BY AddingIs DEF Going, TypeOK
<1>3. j + k <= Len(w)
  OBVIOUS
<1>4. QED
  BY <1>1, <1>2, <1>3, CopyIs

LEMMA InBlockCommentStep ==
  ASSUME Going, Position, InBlockComment
  PROVE  Position'
<1>1. /\ TypeOK /\ script \in Seq(Pieces) /\ WellFormed(script)
  BY Zenon DEF Going
<1>2. /\ line # <<>> /\ mode \in {"block", "kept"}
      /\ UNCHANGED <<script, rest, delimiter, statements>>
      /\ IF Ahead(<<"*", "/">>)
         THEN /\ mode' = "code" /\ Skip(2)
              /\ statement' = IF mode = "kept" THEN statement \o SubSeq(line, 1, 2)
                              ELSE Append(statement, " ")
         ELSE /\ mode' = mode /\ Skip(1)
              /\ statement' = IF mode = "kept" THEN statement \o SubSeq(line, 1, 1) ELSE statement
  BY DEF InBlockComment, Writing, Copy
<1>3. PICK n \in 0..(Len(script) - 1), p \in Nat, j \in Nat :
        /\ Understood(n) /\ At(p) /\ Lines(p)
        /\ p = Start(n) + j /\ j \in 1..Len(Written(n)) /\ Within(n, j)
  BY <1>2, InsideOf
<1>4. InsideComment(n, j)
  <2>1. ~InsideLine(n, j)
    BY <1>2 DEF InsideLine
  <2>2. ~InsideLiteral(n, j)
    <3>1. Kind(n) \in {"literal", "openLiteral"} => Written(n)[1] \in Quotes
      BY <1>1, LiteralStarts
    <3>2. QED
      BY <1>2, <3>1, Zenon DEF InsideLiteral, Quotes
  <2>3. QED
    BY <1>3, <2>1, <2>2, Zenon DEF Within
<1>5. PICK w \in Seq(Characters) : w = Written(n)
  BY <1>1, AddingIs
<1>6. PICK c \in Seq(Characters) : c = Before(n).current
  BY <1>1, AddingIs DEF KnownType
<1>7. /\ Kind(n) \in {"kept", "block", "openComment"} /\ j >= 2
      /\ Kind(n) # "openComment" => j <= Len(w) - 2
      /\ mode = IF Keeps(w) THEN "kept" ELSE "block"
      /\ statement = c \o (IF Keeps(w) THEN SubSeq(w, 1, j) ELSE <<>>)
  BY <1>4, <1>5, <1>6, Zenon DEF InsideComment
<1>8. /\ Len(w) \in Nat
      /\ Kind(n) \in {"kept", "block"} =>
           /\ Len(w) > 3 /\ w[Len(w) - 1] = "*" /\ w[Len(w)] = "/"
           /\ \A i \in 3..(Len(w) - 2) : ~(w[i] = "*" /\ w[i + 1] = "/")
           /\ Keeps(w) <=> Kind(n) = "kept"
      /\ Kind(n) = "openComment" =>
           /\ Start(n) + Len(w) = Len(Text)
           /\ \A i \in 3..(Len(w) - 1) : ~(w[i] = "*" /\ w[i + 1] = "/")
  BY <1>1, <1>5, <1>7, CommentIs, Zenon
<1>9. Kind(n) \notin {"end", "change"}
  BY <1>7
<1>10. PICK text \in Seq(Characters), o \in Nat :
         text = Text /\ o = Start(n) /\ \A i \in 1..Len(w) : text[o + i] = w[i]
  <2>1. Text \in Seq(Characters) /\ Start(n) \in Nat
    BY <1>1, WrittenAt
  <2>2. \A i \in 1..Len(w) : Text[Start(n) + i] = w[i]
    BY <1>1, <1>5, <1>9, WrittenAt, ZenonT(60)
  <2>3. QED
    BY <2>1, <2>2
<1>11. /\ Len(w) \in Nat /\ Len(text) \in Nat /\ p = o + j
       /\ o + Len(w) <= Len(text) /\ p < Len(text)
  <2>1. Start(n) + Len(w) <= Len(Text)
    BY <1>1, <1>5, <1>9, NextStart
  <2>2. p < Len(Text)
    BY <1>2, <1>3, AtIsInText
  <2>3. Len(w) \in Nat /\ Len(text) \in Nat
    OBVIOUS
  <2>4. QED
    BY <1>3, <1>10, <2>1, <2>2, <2>3
<1>12. j < Len(w)
  <2>1. CASE Kind(n) = "openComment"
    <3>1. o + Len(w) = Len(text)
      BY <1>8, <1>10, <2>1
    <3>2. QED
      BY <1>11, <3>1
  <2>2. CASE Kind(n) # "openComment"
    <3>1. j <= Len(w) - 2
      BY <1>7, <2>2
    <3>2. QED
      BY <1>11, <3>1
  <2>3. QED
    BY <2>1, <2>2
<1>13. Ahead(<<"*", "/">>) <=> j + 2 <= Len(w) /\ w[j + 1] = "*" /\ w[j + 2] = "/"
  <2>1. Ahead(<<"*", "/">>) <=> p + 2 <= Len(text) /\ text[p + 1] = "*" /\ text[p + 2] = "/"
    <3>1. "*" \in Characters /\ "/" \in Characters /\ "*" # "nl" /\ "/" # "nl"
      BY DEF Characters
    <3>2. text = Text /\ line # <<>> /\ At(p) /\ Lines(p)
      BY <1>2, <1>3, <1>10, Zenon
    <3>3. \A d, e \in Characters : d # "nl" /\ e # "nl" =>
            (Ahead(<<d, e>>) <=> p + 2 <= Len(text) /\ text[p + 1] = d /\ text[p + 2] = e)
      BY <1>1, <3>2, PairAhead, ZenonT(60)
    <3>4. QED
      BY <3>1, <3>3, Zenon
  <2>2. text[p + 1] = w[j + 1] /\ (j + 2 <= Len(w) => text[p + 2] = w[j + 2])
    <3>1. j + 1 \in 1..Len(w) /\ p + 1 = o + (j + 1)
      BY <1>11, <1>12
    <3>2. j + 2 <= Len(w) => j + 2 \in 1..Len(w) /\ p + 2 = o + (j + 2)
      BY <1>11
    <3>3. QED
      BY <1>10, <3>1, <3>2
  <2>3. j + 2 <= Len(w) => p + 2 <= Len(text)
    BY <1>11
  <2>4. ~(j + 2 <= Len(w)) => Kind(n) = "openComment" /\ ~(p + 2 <= Len(text))
    <3>1. ~(j + 2 <= Len(w)) => Kind(n) = "openComment"
      <4>1. Kind(n) # "openComment" => j <= Len(w) - 2
        BY <1>7
      <4>2. QED
        BY <1>11, <4>1
    <3>2. Kind(n) = "openComment" => o + Len(w) = Len(text)
      BY <1>8, <1>10
    <3>3. QED
      BY <1>11, <3>1, <3>2
  <2>5. QED
    BY <2>1, <2>2, <2>3, <2>4
<1>14. line \in Seq(Characters) /\ Len(line) \in Nat /\ 1 \in 1..Len(line) /\ 1 \in 0..Len(line)
  <2>1. line \in Seq(Characters)
    BY <1>1 DEF TypeOK
  <2>2. QED
    BY <1>2, <2>1, NotEmpty, Zenon
<1>15. CASE Ahead(<<"*", "/">>)
  <2>1. Kind(n) \in {"kept", "block"} /\ j + 2 = Len(w)
    <3>1. j + 1 >= 3 /\ (j + 1) + 1 = j + 2
      BY <1>7
    <3>2. Kind(n) # "openComment"
      <4>1. j + 1 \in 3..(Len(w) - 1)
        BY <1>8, <1>13, <1>15, <3>1
      <4>2. QED
        BY <1>8, <1>13, <1>15, <3>1, <4>1
    <3>3. Kind(n) \in {"kept", "block"} /\ j <= Len(w) - 2
      BY <1>7, <3>2
    <3>4. ~(j + 1 \in 3..(Len(w) - 2))
      BY <1>8, <1>13, <1>15, <3>1, <3>3
    <3>5. QED
      BY <1>8, <3>1, <3>3, <3>4
  <2>2. 2 \in 1..Len(line) /\ 2 \in 0..Len(line)
    <3>1. j + 2 <= Len(Written(n)) /\ Written(n)[j + 1] # "nl"
      BY <1>5, <1>13, <1>15
    <3>2. 2 <= Len(line)
      BY <1>2, <1>3, <1>9, <3>1, LineHolds
    <3>3. QED
      BY <1>14, <3>2
  <2>3. /\ Before(n + 1).delimiter = delimiter /\ Before(n + 1).statements = statements
        /\ Kind(n) = "kept" => Before(n + 1).current = c \o w
        /\ Kind(n) = "block" => Before(n + 1).current = c \o <<" ">>
    BY <1>1, <1>3, <1>5, <1>6, <2>1, AddingIs DEF Understood, Copied
  <2>4. Before(n + 1).result = "ok"
    <3>1. Before(n + 1).result = ResultOf(script[n + 1]) /\ script[n + 1][1] = Kind(n)
      BY <1>1, AddingIs DEF Kind
    <3>2. QED
      BY <2>1, <3>1 DEF ResultOf
  <2>5. p + 2 = Start(n + 1)
    <3>1. Start(n + 1) = o + Len(w)
      BY <1>1, <1>5, <1>9, <1>10, NextStart
    <3>2. QED
      BY <1>11, <2>1, <3>1
  <2>6. statement' = Before(n + 1).current
    <3>1. CASE Kind(n) = "kept"
      <4>1. Keeps(w) /\ mode = "kept"
        BY <1>7, <1>8, <3>1
      <4>2. statement' = (c \o SubSeq(w, 1, j)) \o SubSeq(line, 1, 2)
        BY <1>2, <1>7, <1>15, <4>1, Zenon
      <4>3. (c \o SubSeq(w, 1, j)) \o SubSeq(line, 1, 2) = c \o SubSeq(w, 1, j + 2)
        <5>1. j + 2 <= Len(Written(n))
          BY <1>5, <1>13, <1>15
        <5>2. Continues(c, w, line, j, 2)
          BY <1>3, <1>5, <1>9, <2>2, <5>1, CopiedOn
        <5>3. QED
          BY <5>2, Zenon DEF Continues
      <4>4. SubSeq(w, 1, j + 2) = w
        BY <2>1, Whole
      <4>5. QED
        BY <2>3, <3>1, <4>2, <4>3, <4>4, Zenon
    <3>2. CASE Kind(n) = "block"
      <4>1. ~Keeps(w) /\ mode = "block"
        BY <1>7, <1>8, <3>2
      <4>2. statement = c
        <5>1. statement = c \o <<>>
          BY <1>7, <4>1, Zenon
        <5>2. QED
          BY <5>1, NothingAdded
      <4>3. statement' = Append(c, " ")
        BY <1>2, <1>15, <4>1, <4>2
      <4>4. Append(c, " ") = c \o <<" ">>
        <5>1. " " \in Characters
          BY Zenon DEF Characters, Space
        <5>2. QED
          BY <5>1, AppendIs, Zenon
      <4>5. QED
        BY <2>3, <3>2, <4>3, <4>4, Zenon
    <3>3. QED
      BY <2>1, <3>1, <3>2
  <2>7. mode' = "code" /\ Skip(2) /\ statements' = Before(n + 1).statements
    BY <1>2, <1>15, <2>3
  <2>8. QED
    BY <1>1, <1>2, <1>3, <2>2, <2>3, <2>4, <2>5, <2>6, <2>7, PieceRead
<1>16. CASE ~Ahead(<<"*", "/">>)
  <2>1. PICK i \in Nat : i = j + 1 /\ i <= Len(w)
    BY <1>8, <1>12
  <2>2. /\ mode' = mode /\ Skip(1)
        /\ statement' = IF mode = "kept" THEN statement \o SubSeq(line, 1, 1) ELSE statement
    BY <1>2, <1>16
  <2>3. Kind(n) # "openComment" => i <= Len(w) - 2
    <3> SUFFICES ASSUME Kind(n) # "openComment" PROVE i <= Len(w) - 2
      OBVIOUS
    <3>1. Kind(n) \in {"kept", "block"} /\ j <= Len(w) - 2
      BY <1>7
    <3>2. w[Len(w) - 1] = "*" /\ w[Len(w)] = "/"
      BY <1>8, <3>1
    <3>3. j # Len(w) - 2
      <4> SUFFICES ASSUME j = Len(w) - 2 PROVE FALSE
        OBVIOUS
      <4>1. j + 2 = Len(w) /\ j + 1 = Len(w) - 1 /\ j + 2 <= Len(w)
        BY <1>8
      <4>2. QED
        BY <1>13, <1>16, <3>2, <4>1
    <3>4. QED
      BY <1>8, <2>1, <3>1, <3>3
  <2>4. statement' = c \o (IF Keeps(w) THEN SubSeq(w, 1, i) ELSE <<>>)
    <3>1. CASE Keeps(w)
      <4>1. mode = "kept"
        BY <1>7, <3>1
      <4>2. statement' = (c \o SubSeq(w, 1, j)) \o SubSeq(line, 1, 1)
        BY <1>7, <2>2, <3>1, <4>1, Zenon
      <4>3. (c \o SubSeq(w, 1, j)) \o SubSeq(line, 1, 1) = c \o SubSeq(w, 1, j + 1)
        <5>1. j + 1 <= Len(Written(n))
          BY <1>5, <2>1
        <5>2. Continues(c, w, line, j, 1)
          BY <1>3, <1>5, <1>9, <1>14, <5>1, CopiedOn
        <5>3. QED
          BY <5>2, Zenon DEF Continues
      <4>4. QED
        BY <2>1, <3>1, <4>2, <4>3, Zenon
    <3>2. CASE ~Keeps(w)
      BY <1>7, <2>2, <3>2, Zenon
    <3>3. QED
      BY <3>1, <3>2
  <2>5. /\ Before(n)' = Before(n) /\ Kind(n)' = Kind(n) /\ Written(n)' = w
    BY <1>2, <1>5, Unchanged
  <2>6. InsideComment(n, i)'
    <3>1. i >= 2
      BY <1>7, <2>1
    <3>2. mode' = IF Keeps(w) THEN "kept" ELSE "block"
      BY <1>7, <2>2
    <3>3. QED
      BY <1>6, <1>7, <2>3, <2>4, <2>5, <3>1, <3>2, Zenon DEF InsideComment
  <2>7. Within(n, i)'
    BY <2>6 DEF Within
  <2>8. QED
    BY <1>2, <1>3, <1>5, <1>9, <1>14, <2>1, <2>2, <2>7, GoesOn
<1>17. QED
  BY <1>15, <1>16

\* The literal goes on by a character, an escaped one or a doubled quote, or
\* ends with a quote that is followed by no other.
LEMMA InLiteralStep ==
  ASSUME Going, Position, InLiteral
  PROVE  Position'
<1>1. /\ TypeOK /\ script \in Seq(Pieces) /\ WellFormed(script)
  BY Zenon DEF Going
<1>2. /\ line # <<>> /\ mode \in Quotes
      /\ UNCHANGED <<script, rest, delimiter, statements>>
      /\ IF (Head(line) = "\\" /\ Len(line) > 1) \/ Ahead(<<mode, mode>>)
         THEN statement' = statement \o SubSeq(line, 1, 2) /\ Skip(2) /\ mode' = mode
         ELSE /\ statement' = statement \o SubSeq(line, 1, 1) /\ Skip(1)
              /\ mode' = IF Head(line) = mode THEN "code" ELSE mode
  BY DEF InLiteral, Writing, Copy
<1>3. PICK n \in 0..(Len(script) - 1), p \in Nat, j \in Nat :
        /\ Understood(n) /\ At(p) /\ Lines(p)
        /\ p = Start(n) + j /\ j \in 1..Len(Written(n)) /\ Within(n, j)
  <2>1. mode # "code"
    BY <1>2 DEF Quotes
  <2>2. QED
    BY <2>1, InsideOf
<1>4. InsideLiteral(n, j)
  <2>1. ~InsideLine(n, j) /\ ~InsideComment(n, j)
    BY <1>2 DEF InsideLine, InsideComment, Quotes
  <2>2. QED
    BY <1>3, <2>1, Zenon DEF Within
<1>5. PICK w \in Seq(Characters) : w = Written(n)
  BY <1>1, AddingIs
<1>6. PICK c \in Seq(Characters) : c = Before(n).current
  BY <1>1, AddingIs DEF KnownType
<1>7. /\ Kind(n) \in {"literal", "openLiteral"} /\ mode = w[1]
      /\ statement = c \o SubSeq(w, 1, j)
      /\ \/ \E m \in 1..Len(w) : \E places \in SUBSET (1..m) :
              /\ j \in places /\ Path(w, m, places)
              /\ IF Kind(n) = "literal" THEN m = Len(w) - 1
                 ELSE m = Len(w) \/ (m = Len(w) - 1 /\ w[m + 1] = "\\")
         \/ Kind(n) = "openLiteral" /\ j = Len(w)
  BY <1>4, <1>5, <1>6, Zenon DEF InsideLiteral
<1>8. Kind(n) \notin {"end", "change"}
  BY <1>7
<1>9. PICK text \in Seq(Characters), o \in Nat :
         text = Text /\ o = Start(n) /\ \A i \in 1..Len(w) : text[o + i] = w[i]
  <2>1. Text \in Seq(Characters) /\ Start(n) \in Nat
    BY <1>1, WrittenAt
  <2>2. \A i \in 1..Len(w) : Text[Start(n) + i] = w[i]
    BY <1>1, <1>5, <1>8, WrittenAt, Zenon
  <2>3. QED
    BY <2>1, <2>2
<1>10. /\ Len(w) \in Nat /\ Len(text) \in Nat /\ p = o + j /\ j <= Len(w)
       /\ o + Len(w) <= Len(text) /\ p < Len(text)
  <2>1. Start(n) + Len(w) <= Len(Text)
    BY <1>1, <1>5, <1>8, NextStart
  <2>2. p < Len(Text)
    BY <1>2, <1>3, AtIsInText
  <2>3. Len(w) \in Nat /\ Len(text) \in Nat
    OBVIOUS
  <2>4. QED
    BY <1>3, <1>5, <1>9, <2>1, <2>2, <2>3
<1>11. /\ Kind(n) = "literal" =>
            w[Len(w)] = w[1] /\ (o + Len(w) < Len(text) => text[o + Len(w) + 1] # w[1])
       /\ Kind(n) = "openLiteral" => o + Len(w) = Len(text)
  <2>1. LiteralEnds(n)
    BY <1>1, <1>7, LiteralEndsAll
  <2>2. QED
    BY <1>5, <1>9, <2>1, Zenon DEF LiteralEnds
<1>12. j < Len(w)
  <2>1. CASE Kind(n) = "openLiteral"
    <3>1. o + Len(w) = Len(text)
      BY <1>11, <2>1
    <3>2. QED
      BY <1>10, <3>1
  <2>2. CASE Kind(n) = "literal"
    <3>1. PICK m \in 1..Len(w) : m = Len(w) - 1 /\ j <= m
      BY <1>7, <2>2
    <3>2. QED
      BY <1>10, <3>1
  <2>3. QED
    BY <1>7, <2>1, <2>2
<1>13. PICK m \in 1..Len(w), places \in SUBSET Nat :
         /\ places \subseteq 1..m /\ j \in places /\ Path(w, m, places)
         /\ IF Kind(n) = "literal" THEN m = Len(w) - 1
            ELSE m = Len(w) \/ (m = Len(w) - 1 /\ w[m + 1] = "\\")
  <2>1. j # Len(w)
    BY <1>10, <1>12
  <2>2. PICK m \in 1..Len(w) : \E places \in SUBSET (1..m) :
          /\ j \in places /\ Path(w, m, places)
          /\ IF Kind(n) = "literal" THEN m = Len(w) - 1
             ELSE m = Len(w) \/ (m = Len(w) - 1 /\ w[m + 1] = "\\")
    BY <1>7, <2>1, Zenon
  <2>3. \A places \in SUBSET (1..m) : places \in SUBSET Nat /\ places \subseteq 1..m
    OBVIOUS
  <2>4. QED
    BY <2>2, <2>3, Zenon
<1>14. line \in Seq(Characters) /\ Len(line) \in Nat /\ 1 \in 1..Len(line) /\ 1 \in 0..Len(line)
  <2>1. line \in Seq(Characters)
    BY <1>1 DEF TypeOK
  <2>2. QED
    BY <1>2, <2>1, NotEmpty, Zenon
<1>15. Head(line) = w[j + 1] /\ text[p + 1] = w[j + 1]
  <2>1. Head(line) = text[p + 1]
    <3>1. text = Text
      BY <1>9
    <3>2. QED
      BY <1>1, <1>2, <1>3, <3>1, HeadIs
  <2>2. j + 1 \in 1..Len(w) /\ p + 1 = o + (j + 1)
    BY <1>10, <1>12
  <2>3. QED
    BY <1>9, <2>1, <2>2
<1>16. Ahead(<<mode, mode>>) <=> p + 2 <= Len(text) /\ text[p + 1] = w[1] /\ text[p + 2] = w[1]
  <2>1. mode \in Characters /\ mode # "nl"
    BY <1>2 DEF Characters, Quotes
  <2>2. text = Text /\ line # <<>> /\ At(p) /\ Lines(p)
    BY <1>2, <1>3, <1>9, Zenon
  <2>3. \A d, e \in Characters : d # "nl" /\ e # "nl" =>
          (Ahead(<<d, e>>) <=> p + 2 <= Len(text) /\ text[p + 1] = d /\ text[p + 2] = e)
    BY <1>1, <2>2, PairAhead, ZenonT(60)
  <2>4. QED
    BY <1>7, <2>1, <2>3, Zenon
<1>17. /\ Before(n)' = Before(n) /\ Kind(n)' = Kind(n) /\ Written(n)' = w
  BY <1>2, <1>5, Unchanged
\* A character that is no end of the literal, or two.
<1>18. ASSUME NEW k \in 1..2, j + k \in places,
              mode' = mode, Skip(k), statement' = statement \o SubSeq(line, 1, k),
              k <= Len(line)
       PROVE  Position'
  <2>1. PICK i \in Nat : i = j + k /\ i \in places /\ i <= m /\ i <= Len(w)
    <3>1. j + k <= m
      BY <1>13, <1>18
    <3>2. QED
      BY <1>10, <1>18, <3>1
  <2>2. statement' = c \o SubSeq(w, 1, i)
    <3>1. j + k <= Len(Written(n)) /\ k \in 0..Len(line)
      BY <1>5, <1>14, <1>18, <2>1
    <3>2. Continues(c, w, line, j, k)
      BY <1>3, <1>5, <1>8, <3>1, CopiedOn
    <3>3. QED
      BY <1>7, <1>18, <2>1, <3>2, Zenon DEF Continues
  <2>3. InsideLiteral(n, i)'
    <3>1. places \in SUBSET (1..m)
      BY <1>13
    <3>2. QED
      BY <1>6, <1>7, <1>13, <1>17, <1>18, <2>1, <2>2, <3>1, Zenon DEF InsideLiteral
  <2>4. Within(n, i)'
    BY <2>3 DEF Within
  <2>5. k \in 1..Len(line) /\ i <= Len(Written(n))
    BY <1>5, <1>14, <1>18, <2>1
  <2>6. QED
    BY <1>2, <1>3, <1>8, <1>18, <2>1, <2>4, <2>5, GoesOn
<1>19. CASE j # m
  <2>1. \/ w[j + 1] \notin {w[1], "\\"} /\ j + 1 \in places
        \/ w[j + 1] = "\\" /\ j + 2 \in places
        \/ w[j + 1] = w[1] /\ j + 2 \in places /\ w[j + 2] = w[1]
    BY <1>13, <1>19, Zenon DEF Path
  <2>2. w[1] # "\\" /\ w[1] # "nl"
    BY <1>2, <1>7 DEF Quotes
  <2>3. CASE w[j + 1] \notin {w[1], "\\"} /\ j + 1 \in places
    <3>1. Head(line) # "\\" /\ Head(line) # mode /\ ~Ahead(<<mode, mode>>)
      BY <1>7, <1>15, <1>16, <2>3
    <3>2. mode' = mode /\ Skip(1) /\ statement' = statement \o SubSeq(line, 1, 1)
      BY <1>2, <3>1
    <3>3. 1 <= Len(line)
      BY <1>14
    <3>4. QED
      BY <1>18, <2>3, <3>2, <3>3
  <2>4. ASSUME j + 2 \in places, w[j + 1] # "nl",
               (Head(line) = "\\" \/ (w[j + 1] = w[1] /\ w[j + 2] = w[1]))
        PROVE  Position'
    <3>1. j + 2 <= Len(w)
      BY <1>10, <1>13, <2>4
    <3>2. 2 <= Len(line)
      <4>1. j + 2 <= Len(Written(n)) /\ Written(n)[j + 1] # "nl"
        BY <1>5, <2>4, <3>1
      <4>2. QED
        BY <1>2, <1>3, <1>8, <4>1, LineHolds
    <3>3. (Head(line) = "\\" /\ Len(line) > 1) \/ Ahead(<<mode, mode>>)
      <4>1. Len(line) > 1
        BY <1>14, <3>2
      <4>2. ASSUME w[j + 1] = w[1], w[j + 2] = w[1] PROVE Ahead(<<mode, mode>>)
        <5>1. p + 2 <= Len(text) /\ j + 2 \in 1..Len(w) /\ p + 2 = o + (j + 2)
          BY <1>10, <3>1
        <5>2. text[p + 2] = w[j + 2]
          BY <1>9, <5>1
        <5>3. QED
          BY <1>15, <1>16, <4>2, <5>1, <5>2, Zenon
      <4>3. QED
        BY <2>4, <4>1, <4>2
    <3>4. mode' = mode /\ Skip(2) /\ statement' = statement \o SubSeq(line, 1, 2)
      BY <1>2, <3>3
    <3>5. QED
      BY <1>18, <2>4, <3>2, <3>4
  <2>5. CASE w[j + 1] = "\\" /\ j + 2 \in places
    BY <1>15, <2>4, <2>5
  <2>6. CASE w[j + 1] = w[1] /\ j + 2 \in places /\ w[j + 2] = w[1]
    BY <2>2, <2>4, <2>6
  <2>7. QED
    BY <2>1, <2>3, <2>5, <2>6
<1>20. CASE j = m
  <2>1. w[1] # "\\"
    BY <1>2, <1>7 DEF Quotes
  <2>2. j + 1 = Len(w)
    <3>1. m = Len(w) - 1 \/ m = Len(w)
      BY <1>7, <1>13
    <3>2. QED
      BY <1>10, <1>12, <1>20, <3>1
  <2>3. /\ j + 1 <= Len(Written(n)) /\ 1 \in 1..Len(line) /\ 1 \in 0..Len(line)
        /\ p + 1 = o + Len(w) /\ p + 2 = (o + Len(w)) + 1
    <3>1. j + 1 <= Len(Written(n))
      BY <1>5, <1>10, <2>2
    <3>2. p + 1 = o + Len(w) /\ p + 2 = (o + Len(w)) + 1
      BY <1>10, <2>2, SMTT(60)
    <3>3. QED
      BY <1>14, <3>1, <3>2
  <2>4. (c \o SubSeq(w, 1, j)) \o SubSeq(line, 1, 1) = c \o SubSeq(w, 1, Len(w))
    <3>1. Continues(c, w, line, j, 1)
      BY <1>3, <1>5, <1>8, <2>3, CopiedOn
    <3>2. QED
      BY <2>2, <3>1, Zenon DEF Continues
  <2>5. CASE Kind(n) = "literal"
    <3>1. Head(line) = mode /\ Head(line) # "\\"
      BY <1>7, <1>11, <1>15, <2>1, <2>2, <2>5
    <3>2. ~Ahead(<<mode, mode>>)
      <4> SUFFICES ASSUME Ahead(<<mode, mode>>) PROVE FALSE
        OBVIOUS
      <4>1. p + 2 <= Len(text) /\ text[p + 2] = w[1]
        BY <1>16
      <4>2. o + Len(w) < Len(text)
        BY <1>10, <2>3, <4>1, SMTT(60)
      <4>3. QED
        BY <1>11, <2>3, <2>5, <4>1, <4>2
    <3>3. mode' = "code" /\ Skip(1) /\ statement' = statement \o SubSeq(line, 1, 1)
      BY <1>2, <3>1, <3>2
    <3>4. /\ Before(n + 1).delimiter = delimiter /\ Before(n + 1).statements = statements
          /\ Before(n + 1).current = c \o w
      BY <1>1, <1>3, <1>5, <1>6, <2>5, AddingIs DEF Understood, Copied
    <3>5. Before(n + 1).result = "ok"
      <4>1. Before(n + 1).result = ResultOf(script[n + 1]) /\ script[n + 1][1] = "literal"
        BY <1>1, <2>5, AddingIs DEF Kind
      <4>2. QED
        BY <4>1 DEF ResultOf
    <3>6. p + 1 = Start(n + 1)
      BY <1>1, <1>5, <1>8, <1>9, <2>3, NextStart
    <3>7. statement' = Before(n + 1).current
      <4>1. SubSeq(w, 1, Len(w)) = w
        BY Whole
      <4>2. QED
        BY <1>7, <2>4, <3>3, <3>4, <4>1, Zenon
    <3>8. statements' = Before(n + 1).statements
      BY <1>2, <3>4
    <3>9. QED
      BY <1>1, <1>2, <1>3, <2>3, <3>3, <3>4, <3>5, <3>6, <3>7, <3>8, PieceRead
  <2>6. CASE Kind(n) = "openLiteral"
    <3>1. w[j + 1] = "\\"
      BY <1>10, <1>12, <1>13, <1>20, <2>6
    <3>2. p + 1 = Len(text)
      BY <1>11, <2>3, <2>6
    <3>3. ~Ahead(<<mode, mode>>)
      BY <1>10, <1>16, <3>2
    <3>4. ~(Len(line) > 1)
      <4>1. Len(line) + Len(rest) = Len(text) - p
        BY <1>3, <1>9 DEF At
      <4>2. Len(rest) \in Nat
        BY <1>1 DEF TypeOK
      <4>3. QED
        BY <1>10, <1>14, <3>2, <4>1, <4>2, SMTT(60)
    <3>5. Skip(1) /\ mode' = mode /\ statement' = statement \o SubSeq(line, 1, 1)
      BY <1>2, <1>7, <1>15, <2>1, <3>1, <3>3, <3>4
    <3>6. PICK i \in Nat : i = j + 1 /\ i = Len(w)
      BY <2>2
    <3>7. statement' = c \o SubSeq(w, 1, i)
      BY <1>7, <2>4, <3>5, <3>6, Zenon
    <3>8. InsideLiteral(n, i)'
      BY <1>6, <1>7, <1>17, <2>6, <3>5, <3>6, <3>7, Zenon DEF InsideLiteral
    <3>9. Within(n, i)'
      BY <3>8 DEF Within
    <3>10. i <= Len(Written(n))
      BY <1>5, <1>10, <3>6
    <3>11. QED
      BY <1>2, <1>3, <1>8, <2>3, <3>5, <3>6, <3>9, <3>10, GoesOn
  <2>7. QED
    BY <1>7, <2>5, <2>6
<1>21. QED
  BY <1>19, <1>20

-----------------------------------------------------------------------------
(* The start of a line *)

\* The text between its first and its last character that is no space.
Middle(t, a, b) ==
  /\ a <= b /\ t[a] \notin Space /\ t[b] \notin Space
  /\ \A i \in 1..Len(t) : i < a \/ b < i => t[i] \in Space

LEMMA Between ==
  ASSUME NEW t \in Seq(Characters), NEW a \in 1..Len(t), NEW b \in 1..Len(t), Middle(t, a, b)
  PROVE  \E trimmed \in Seq(Characters) :
           /\ trimmed = TrimSpace(t) /\ Len(trimmed) + a = b + 1
           /\ \A i \in 1..Len(trimmed), j \in 1..Len(t) : j + 1 = i + a => trimmed[i] = t[j]
<1>1. TrimSpace(t) = SubSeq(t, a, b)
  BY Trimmed DEF Middle
<1>2. SubSeq(t, a, b) \in Seq(Characters)
  OBVIOUS
<1>3. PICK s \in Seq(Characters) : s = SubSeq(t, a, b)
  BY <1>2
<1>4. /\ Len(s) + a = b + 1
      /\ \A i \in 1..Len(s), j \in 1..Len(t) : j + 1 = i + a => s[i] = t[j]
  BY <1>3, SMTT(60) DEF Middle
<1>5. QED
  BY <1>1, <1>3, <1>4, Zenon

LEMMA CommandRead ==
  ASSUME NEW k \in Nat, k # 0, NEW new \in Seq(Characters), Len(new) = k,
         \A i \in 1..k : new[i] \notin Space,
         NEW x \in Seq(Characters), Len(x) = k + 3,
         x[1] = "D", x[2] \in Space, x[k + 3] = "nl", \A i \in 1..k : x[i + 2] = new[i]
  PROVE  Changes(x) /\ ChangedTo(x) = new
<1>1. "D" \notin Space /\ "nl" \in Space
  BY Zenon DEF Space
<1>2. PICK fields \in Seq(Characters) :
        /\ fields = TrimSpace(x) /\ Len(fields) = k + 2
        /\ \A i \in 1..(k + 2) : fields[i] = x[i]
  <2>1. PICK last \in 1..Len(x) : last = k + 2
    OBVIOUS
  <2>2. k \in 1..k /\ 1 \in 1..Len(x) /\ 1 <= last
    BY <2>1
  <2>3. x[1] \notin Space /\ x[last] \notin Space
    BY <1>1, <2>1, <2>2
  <2>4. Middle(x, 1, last)
    <3>1. \A i \in 1..Len(x) : i < 1 \/ last < i => i = k + 3
      BY <2>1
    <3>2. \A i \in 1..Len(x) : i < 1 \/ last < i => x[i] \in Space
      BY <1>1, <3>1
    <3>3. QED
      BY <2>2, <2>3, <3>2, Zenon DEF Middle
  <2>5. PICK f \in Seq(Characters) :
          /\ f = TrimSpace(x) /\ Len(f) + 1 = last + 1
          /\ \A i \in 1..Len(f), j \in 1..Len(x) : j + 1 = i + 1 => f[i] = x[j]
    BY <2>2, <2>4, Between, ZenonT(60)
  <2>6. Len(f) = k + 2 /\ \A i \in 1..(k + 2) : f[i] = x[i]
    <3>1. Len(f) = k + 2
      BY <2>1, <2>5
    <3> SUFFICES ASSUME NEW i \in 1..(k + 2) PROVE f[i] = x[i]
      BY <3>1
    <3>2. i \in 1..Len(f) /\ i \in 1..Len(x)
      BY <3>1
    <3>3. QED
      BY <2>5, <3>2, Zenon
  <2>7. QED
    BY <2>1, <2>5, <2>6
<1>3. Len(fields) > 2 /\ fields[1] = "D" /\ fields[2] \in Space
  BY <1>2
<1>4. PICK tail \in Seq(Characters) : tail = Tail(fields) /\ Len(tail) = k + 1
  <2>1. fields # <<>> /\ Len(fields) = (k + 1) + 1 /\ k + 1 \in Nat
    BY <1>2
  <2>2. Tail(fields) \in Seq(Characters) /\ Len(Tail(fields)) = Len(fields) - 1
    BY <2>1
  <2>3. PICK tail \in Seq(Characters) : tail = Tail(fields)
    BY <2>2
  <2>4. Len(tail) = k + 1
    BY <2>1, <2>2, <2>3
  <2>5. QED
    BY <2>3, <2>4
<1>5. \A i \in 1..(k + 1) : tail[i] = fields[i + 1]
  BY <1>2, <1>4
<1>6. tail[1] \in Space /\ \A i \in 1..k : tail[i + 1] = new[i]
  <2>1. tail[1] \in Space
    BY <1>3, <1>5
  <2>2. \A i \in 1..k : tail[i + 1] = new[i]
    <3> TAKE i \in 1..k
    <3>1. i + 1 \in 1..(k + 1) /\ (i + 1) + 1 = i + 2 /\ i + 2 \in 1..(k + 2)
      OBVIOUS
    <3>2. tail[i + 1] = fields[(i + 1) + 1]
      BY <1>5, <3>1, Zenon
    <3>3. fields[i + 2] = x[i + 2]
      BY <1>2, <3>1, Zenon
    <3>4. QED
      BY <3>1, <3>2, <3>3
  <2>3. QED
    BY <2>1, <2>2
<1>7. TrimSpace(tail) = new
  <2>1. PICK two \in 1..Len(tail), last \in 1..Len(tail) : two = 2 /\ last = k + 1
    BY <1>4
  <2>2. tail[two] \notin Space /\ tail[last] \notin Space
    <3>1. 1 \in 1..k /\ k \in 1..k /\ two = 1 + 1 /\ last = k + 1
      BY <2>1
    <3>2. QED
      BY <1>6, <3>1
  <2>3. \A i \in 1..Len(tail) : i < two \/ last < i => tail[i] \in Space
    <3>1. \A i \in 1..Len(tail) : i < two \/ last < i => i = 1
      BY <1>4, <2>1
    <3>2. QED
      BY <1>1, <1>6, <3>1
  <2>4. Middle(tail, two, last)
    <3>1. two <= last
      BY <2>1
    <3>2. QED
      BY <2>2, <2>3, <3>1, Zenon DEF Middle
  <2>5. PICK f \in Seq(Characters) :
          /\ f = TrimSpace(tail) /\ Len(f) + two = last + 1
          /\ \A i \in 1..Len(f), j \in 1..Len(tail) : j + 1 = i + two => f[i] = tail[j]
    BY <2>4, Between, ZenonT(60)
  <2>6. Len(f) = k /\ \A i \in 1..k : f[i] = new[i]
    <3>1. Len(f) = k
      BY <2>1, <2>5
    <3> SUFFICES ASSUME NEW i \in 1..k PROVE f[i] = new[i]
      BY <3>1
    <3>2. i \in 1..Len(f) /\ i + 1 \in 1..Len(tail) /\ (i + 1) + 1 = i + two
      BY <1>4, <2>1, <3>1
    <3>3. f[i] = tail[i + 1]
      BY <2>5, <3>2, ZenonT(60)
    <3>4. QED
      BY <1>6, <3>3
  <2>7. f = new
    BY <2>5, <2>6, SeqEqual
  <2>8. QED
    BY <2>5, <2>7
<1>8. Changes(x)
  <2>1. \A i \in DOMAIN new : new[i] \notin Space
    OBVIOUS
  <2>2. QED
    BY <1>1, <1>2, <1>3, <1>4, <1>7, <2>1, Zenon DEF Changes
<1>9. ChangedTo(x) = new
  BY <1>2, <1>4, <1>7, Zenon DEF ChangedTo
<1>10. QED
  BY <1>8, <1>9

\* A line that is a change of the delimiter is taken for one, up to its end.
LEMMA ChangeLine ==
  ASSUME NEW new \in Seq(Characters), new # <<>>, \A i \in 1..Len(new) : new[i] \notin Space,
         NEW t \in Seq(Characters), Len(new) + 3 <= Len(t),
         \A i \in 1..(Len(new) + 3) : t[i] = CommandText(new)[i]
  PROVE  /\ FirstLine(t) = CommandText(new)
         /\ Changes(FirstLine(t)) /\ ChangedTo(FirstLine(t)) = new
<1>1. PICK k \in Nat : k = Len(new) /\ k # 0
  OBVIOUS
<1>2. PICK x \in Seq(Characters) : x = CommandText(new)
  BY CommandTextIs
<1>3. /\ Len(x) = k + 3 /\ x[1] = "D" /\ x[2] \in Space /\ x[2] # "nl" /\ x[k + 3] = "nl"
      /\ \A i \in 1..k : x[i + 2] = new[i]
  BY <1>1, <1>2, CommandTextIs, ZenonT(60) DEF Space
<1>4. k + 3 <= Len(t) /\ Len(t) \in Nat /\ \A i \in 1..(k + 3) : t[i] = x[i]
  BY <1>1, <1>2
<1>5. \A i \in 1..(k + 2) : x[i] # "nl"
  <2> TAKE i \in 1..(k + 2)
  <2>1. CASE i \in 3..(k + 2)
    <3>1. PICK j \in 1..k : j = i - 2
      BY <2>1
    <3>2. x[i] = new[j] /\ new[j] \notin Space
      BY <1>1, <1>3, <3>1
    <3>3. "nl" \in Space
      BY Zenon DEF Space
    <3>4. QED
      BY <3>2, <3>3
  <2>2. CASE i \in {1, 2}
    BY <1>3, <2>2
  <2>3. QED
    BY <2>1, <2>2
<1>6. FirstLine(t) = x
  <2>1. t # <<>>
    BY <1>4
  <2>2. PICK first \in Seq(Characters) : first = FirstLine(t)
    BY <2>1, FirstLineIs, Zenon
  <2>3. /\ Len(first) \in 1..Len(t)
        /\ \A i \in 1..Len(first) : first[i] = t[i]
        /\ \A i \in 1..(Len(first) - 1) : first[i] # "nl"
        /\ Len(first) < Len(t) => first[Len(first)] = "nl"
    BY <2>1, <2>2, FirstLineIs, Zenon
  <2>4. ~(Len(first) > k + 3)
    <3> SUFFICES ASSUME Len(first) > k + 3 PROVE FALSE
      OBVIOUS
    <3>1. k + 3 \in 1..(Len(first) - 1) /\ k + 3 \in 1..Len(first) /\ k + 3 \in 1..(k + 3)
      BY <2>3
    <3>2. first[k + 3] # "nl" /\ first[k + 3] = t[k + 3] /\ t[k + 3] = x[k + 3]
      BY <1>4, <2>3, <3>1, Zenon
    <3>3. QED
      BY <1>3, <3>2
  <2>5. ~(Len(first) < k + 3)
    <3> SUFFICES ASSUME Len(first) < k + 3 PROVE FALSE
      OBVIOUS
    <3>1. PICK L \in 1..Len(t) : L = Len(first) /\ L < k + 3
      BY <2>3
    <3>2. L < Len(t) /\ L \in 1..(k + 2) /\ L \in 1..L /\ L \in 1..(k + 3)
      BY <1>4, <3>1
    <3>3. first[L] = "nl" /\ first[L] = t[L] /\ t[L] = x[L] /\ x[L] # "nl"
      BY <1>4, <1>5, <2>3, <3>1, <3>2, Zenon
    <3>4. QED
      BY <3>3
  <2>6. Len(first) = k + 3
    BY <2>3, <2>4, <2>5
  <2>7. Len(first) = Len(x) /\ \A i \in 1..Len(first) : first[i] = x[i]
    BY <1>3, <1>4, <2>3, <2>6
  <2>8. first = x
    BY <2>7, SeqEqual
  <2>9. QED
    BY <2>2, <2>8
<1>7. Changes(x) /\ ChangedTo(x) = new
  BY <1>1, <1>3, CommandRead
<1>8. QED
  BY <1>2, <1>6, <1>7, Zenon

\* What is left of the text is what follows.
LEMMA RestIs ==
  ASSUME Going, NEW n \in 0..(Len(script) - 1), NEW p \in Nat, p = Start(n), At(p), line = <<>>
  PROVE  rest = Following(n)
<1>1. PICK text \in Seq(Characters) : text = Text
  BY TextType DEF Going, Text
<1>2. PICK r \in Seq(Characters) : r = rest
  BY DEF Going, TypeOK
<1>3. p \in 0..Len(text)
  BY <1>1, Zenon DEF At
<1>4. PICK ahead \in Seq(Characters) : ahead = SubSeq(text, p + 1, Len(text))
  BY <1>3, AheadOf
<1>5. Len(ahead) = Len(text) - p /\ \A i \in 1..(Len(text) - p) : ahead[i] = text[p + i]
  BY <1>3, <1>4, AheadOf
<1>6. Len(line) = 0
  OBVIOUS
<1>7. Len(r) = Len(text) - p /\ \A i \in 1..Len(r) : r[i] = text[p + i]
  <2>1. 0 + Len(r) = Len(text) - p /\ \A i \in 1..Len(r) : r[i] = text[p + 0 + i]
    BY <1>1, <1>2, <1>6, Zenon DEF At
  <2>2. QED
    BY <2>1, SMTT(60)
<1>8. r = ahead
  BY <1>5, <1>7, SeqEqual
<1>9. QED
  BY <1>1, <1>2, <1>4, <1>8, Zenon DEF Following

\* A line is a change of the delimiter to the splitter when it is one.
LEMMA ChangeSeen ==
  ASSUME Going, NEW n \in 0..(Len(script) - 1), NEW p \in Nat, p = Start(n),
         Understood(n), At(p), Lines(p), InFront(n), line = <<>>, rest # <<>>
  PROVE  /\ Kind(n) = "change" =>
              /\ CanChangeDelimiter /\ Changes(FirstLine(rest))
              /\ FirstLine(rest) = CommandText(Written(n))
              /\ ChangedTo(FirstLine(rest)) = Written(n)
         /\ Kind(n) # "change" => ~(CanChangeDelimiter /\ Changes(FirstLine(rest)))
<1>1. rest = Following(n)
  BY RestIs
<1>2. Before(n).text = <<>> \/ Last(Before(n).text) = "nl"
  <2>1. CASE n = 0
    <3>1. Before(n) = Begun
      BY <2>1, ReadingIs DEF Before, Going
    <3>2. Begun.text = <<>>
      BY DEF Begun
    <3>3. QED
      BY <3>1, <3>2, Zenon
  <2>2. CASE n # 0
    <3>1. PICK m \in 0..(Len(script) - 1) : m + 1 = n
      BY <2>2 DEF Going
    <3>2. /\ Start(m) \in Nat
          /\ Len(TextOf(script[m + 1], Before(m).delimiter)) \in Nat
          /\ Len(TextOf(script[m + 1], Before(m).delimiter)) # 0
          /\ Start(m + 1) = Start(m) + Len(TextOf(script[m + 1], Before(m).delimiter))
          /\ Last(Before(m + 1).text) = Text[Start(m + 1)]
      BY WrittenAt, Zenon DEF Going
    <3>3. p # 0 /\ Last(Before(n).text) = Text[p]
      BY <3>1, <3>2
    <3>4. Text[p] = "nl"
      BY <3>3, Zenon DEF Lines
    <3>5. QED
      BY <3>3, <3>4
  <2>3. QED
    BY <2>1, <2>2
<1>3. CanChangeDelimiter <=> TrimSpace(Before(n).current) = <<>>
  BY Zenon DEF CanChangeDelimiter, InFront
<1>4. Stands(script[n + 1], Before(n), rest)
  BY <1>1, InFrontIs, Zenon DEF Going
<1>5. CASE Kind(n) = "change"
  <2>1. CanChangeDelimiter
    BY <1>3, <1>4, <1>5, Zenon DEF Stands, Kind
  <2>2. PICK new \in Seq(Characters) : new = Written(n)
    BY AddingIs DEF Going
  <2>3. TextOf(script[n + 1], Before(n).delimiter) = CommandText(new)
    BY <1>5, <2>2, WrittenAt, Zenon DEF Going
  <2>4. Len(CommandText(new)) = Len(new) + 3
    BY CommandTextIs, Zenon
  <2>5. /\ rest \in Seq(Characters)
        /\ Len(new) + 3 <= Len(rest)
        /\ \A i \in 1..(Len(new) + 3) : rest[i] = CommandText(new)[i]
    BY <1>1, <2>3, <2>4, InFrontIs, ZenonT(60) DEF Going
  <2>6. Len(new) > 0 /\ \A i \in 1..Len(new) : new[i] \notin Space
    <3>1. Named(script[n + 1], rest)
      BY <1>4, Zenon DEF Stands
    <3>2. QED
      BY <1>5, <2>2, <3>1, NamedIs, Zenon DEF Kind, Written
  <2>7. new # <<>>
    BY <2>6
  <2>8. /\ FirstLine(rest) = CommandText(new)
        /\ Changes(FirstLine(rest)) /\ ChangedTo(FirstLine(rest)) = new
    BY <2>5, <2>6, <2>7, ChangeLine, Zenon
  <2>9. QED
    BY <1>5, <2>1, <2>2, <2>8, Zenon
<1>6. CASE Kind(n) # "change"
  BY <1>2, <1>3, <1>4, <1>6, Zenon DEF Stands, Kind
<1>7. QED
  BY <1>5, <1>6, Zenon

\* The line of the rest is what the splitter stands in front of next.
LEMMA LineTaken ==
  ASSUME Going, NEW p \in Nat, At(p), line = <<>>, rest # <<>>, UNCHANGED script,
         NEW first, first = FirstLine(rest), rest' = SubSeq(rest, Len(first) + 1, Len(rest)),
         line' = first
  PROVE  At(p)' /\ Lines(p)'
<1>1. PICK text \in Seq(Characters) : text = Text
  BY TextType DEF Going, Text
<1>2. PICK r \in Seq(Characters) : r = rest
  BY DEF Going, TypeOK
<1>3. PICK l \in Seq(Characters) : l = first
  BY <1>2, FirstLineIs, Zenon
<1>4. /\ Len(l) \in 1..Len(r)
      /\ \A i \in 1..Len(l) : l[i] = r[i]
      /\ \A i \in 1..(Len(l) - 1) : l[i] # "nl"
      /\ Len(l) < Len(r) => l[Len(l)] = "nl"
  BY <1>2, <1>3, FirstLineIs, Zenon
<1>5. PICK s \in Seq(Characters) : s = SubSeq(r, Len(l) + 1, Len(r))
  <2>1. Len(l) \in 0..Len(r)
    BY <1>4
  <2>2. SubSeq(r, Len(l) + 1, Len(r)) \in Seq(Characters)
    BY <2>1, AheadOf, Zenon
  <2>3. QED
    BY <2>2
<1>6. Len(s) = Len(r) - Len(l) /\ \A i \in 1..Len(s) : s[i] = r[Len(l) + i]
  <2>1. Len(l) \in 0..Len(r)
    BY <1>4
  <2>2. Len(s) = Len(r) - Len(l) /\ \A i \in 1..(Len(r) - Len(l)) : s[i] = r[Len(l) + i]
    BY <1>5, <2>1, AheadOf, Zenon
  <2>3. QED
    BY <2>2, Zenon
<1>7. p \in 0..Len(text) /\ Len(r) = Len(text) - p /\ \A i \in 1..Len(r) : r[i] = text[p + i]
  <2>1. Len(line) = 0
    OBVIOUS
  <2>2. /\ p \in 0..Len(text)
        /\ 0 + Len(r) = Len(text) - p /\ \A i \in 1..Len(r) : r[i] = text[p + 0 + i]
    BY <1>1, <1>2, <2>1, Zenon DEF At
  <2>3. QED
    BY <2>2
<1>8. line' = l /\ rest' = s /\ Text' = text
  BY <1>1, <1>2, <1>3, <1>5, Unchanged, Zenon
<1>9. At(p)'
  <2>1. Len(l) + Len(s) = Len(text) - p
    BY <1>4, <1>6, <1>7
  <2>2. \A i \in 1..Len(l) : l[i] = text[p + i]
    BY <1>4, <1>7
  <2>3. \A i \in 1..Len(s) : s[i] = text[p + Len(l) + i]
    <3> TAKE i \in 1..Len(s)
    <3>1. Len(l) + i \in 1..Len(r) /\ p + (Len(l) + i) = p + Len(l) + i
      BY <1>4, <1>6
    <3>2. s[i] = r[Len(l) + i] /\ r[Len(l) + i] = text[p + (Len(l) + i)]
      BY <1>6, <1>7, <3>1, Zenon
    <3>3. QED
      BY <3>1, <3>2
  <2>4. QED
    BY <1>7, <1>8, <2>1, <2>2, <2>3, Zenon DEF At
<1>10. Lines(p)'
  <2>1. l # <<>>
    BY <1>4
  <2>2. s # <<>> => l[Len(l)] = "nl"
    BY <1>4, <1>6
  <2>3. QED
    BY <1>4, <1>8, <2>1, <2>2, Zenon DEF Lines
<1>11. QED
  BY <1>9, <1>10

\* A command is behind the splitter with its line.
Behind(first, p, q) ==
  /\ first = FirstLine(rest) /\ first[Len(first)] = "nl"
  /\ rest' = SubSeq(rest, Len(first) + 1, Len(rest))
  /\ q = p + Len(first)

LEMMA LineSkipped ==
  ASSUME Going, NEW p \in Nat, At(p), line = <<>>, rest # <<>>, script' = script, line' = line,
         NEW q \in Nat, NEW first, Behind(first, p, q)
  PROVE  At(q)' /\ Lines(q)'
<1>1. PICK text \in Seq(Characters) : text = Text
  BY TextType DEF Going, Text
<1>2. PICK r \in Seq(Characters) : r = rest
  BY DEF Going, TypeOK
<1>3. PICK l \in Seq(Characters) : l = first
  BY <1>2, FirstLineIs, Zenon DEF Behind
<1>4. Len(l) \in 1..Len(r) /\ \A i \in 1..Len(l) : l[i] = r[i]
  BY <1>2, <1>3, FirstLineIs, Zenon DEF Behind
<1>5. PICK s \in Seq(Characters) : s = SubSeq(r, Len(l) + 1, Len(r))
  <2>1. Len(l) \in 0..Len(r)
    BY <1>4
  <2>2. SubSeq(r, Len(l) + 1, Len(r)) \in Seq(Characters)
    BY <2>1, AheadOf, Zenon
  <2>3. QED
    BY <2>2
<1>6. Len(s) = Len(r) - Len(l) /\ \A i \in 1..Len(s) : s[i] = r[Len(l) + i]
  <2>1. Len(l) \in 0..Len(r)
    BY <1>4
  <2>2. Len(s) = Len(r) - Len(l) /\ \A i \in 1..(Len(r) - Len(l)) : s[i] = r[Len(l) + i]
    BY <1>5, <2>1, AheadOf, Zenon
  <2>3. QED
    BY <2>2, Zenon
<1>7. p \in 0..Len(text) /\ Len(r) = Len(text) - p /\ \A i \in 1..Len(r) : r[i] = text[p + i]
  <2>1. Len(line) = 0
    OBVIOUS
  <2>2. /\ p \in 0..Len(text)
        /\ 0 + Len(r) = Len(text) - p /\ \A i \in 1..Len(r) : r[i] = text[p + 0 + i]
    BY <1>1, <1>2, <2>1, Zenon DEF At
  <2>3. QED
    BY <2>2
<1>8. line' = <<>> /\ rest' = s /\ Text' = text
  BY <1>1, <1>2, <1>3, <1>5, Unchanged, Zenon DEF Behind
<1>9. q = p + Len(l)
  BY <1>3, Zenon DEF Behind
<1>10. Len(<<>>) = 0 /\ 1..0 = {} /\ 1..(0 - 1) = {}
  OBVIOUS
<1>11. At(q)'
  <2>1. q \in 0..Len(text) /\ 0 + Len(s) = Len(text) - q
    <3>1. PICK a \in Nat : a = Len(l) /\ a \in 1..Len(r)
      BY <1>4
    <3>2. PICK b \in Nat : b = Len(r)
      OBVIOUS
    <3>3. PICK c \in Nat : c = Len(text)
      OBVIOUS
    <3>4. p <= c /\ b = c - p /\ q = p + a /\ a <= b
      BY <1>7, <1>9, <3>1, <3>2, <3>3
    <3>5. Len(s) = b - a
      BY <1>6, <3>1, <3>2
    <3>6. q \in 0..c
      BY <3>4
    <3>7. 0 + Len(s) = c - q
      BY <3>4, <3>5
    <3>8. QED
      BY <3>3, <3>6, <3>7, Zenon
  <2>2. \A i \in 1..Len(s) : s[i] = text[q + 0 + i]
    <3> TAKE i \in 1..Len(s)
    <3>1. Len(l) + i \in 1..Len(r)
      BY <1>4, <1>6
    <3>5. PICK m \in Nat : m = Len(l) /\ q = p + m
      BY <1>9
    <3>4. p + (m + i) = q + 0 + i
      BY <3>5
    <3>2. s[i] = r[Len(l) + i] /\ r[Len(l) + i] = text[p + (Len(l) + i)]
      BY <1>6, <1>7, <3>1, Zenon
    <3>3. QED
      BY <3>2, <3>4, <3>5, Zenon
  <2>3. QED
    BY <1>8, <1>10, <2>1, <2>2, Zenon DEF At
<1>12. Lines(q)'
  <2>1. Len(l) \in 1..Len(l) /\ q = p + Len(l)
    BY <1>4, <1>9
  <2>2. text[p + Len(l)] = "nl"
    <3>1. Len(l) \in 1..Len(r)
      BY <1>4
    <3>2. l[Len(l)] = r[Len(l)] /\ r[Len(l)] = text[p + Len(l)]
      BY <1>4, <1>7, <2>1, <3>1, Zenon
    <3>3. QED
      BY <1>3, <3>2, Zenon DEF Behind
  <2>3. QED
    BY <1>8, <1>10, <2>1, <2>2, Zenon DEF Lines
<1>13. QED
  BY <1>11, <1>12

\* An action of a line's start, with the line.
LEMMA StartLineIs ==
  ASSUME StartLine, NEW first, first = FirstLine(rest)
  PROVE  /\ result = "none" /\ line = <<>> /\ rest # <<>>
         /\ rest' = SubSeq(rest, Len(first) + 1, Len(rest))
         /\ CanChangeDelimiter /\ Changes(first) =>
              delimiter' = ChangedTo(first) /\ line' = line
         /\ ~(CanChangeDelimiter /\ Changes(first)) => line' = first /\ delimiter' = delimiter
         /\ script' = script /\ statement' = statement /\ statements' = statements
         /\ mode' = mode /\ result' = result
BY DEF StartLine

\* What the splitter stands inside of goes on in its next line.
LEMMA StartLineInside ==
  ASSUME Going, Position, StartLine, mode # "code"
  PROVE  Position'
<1>1. PICK first : first = FirstLine(rest)
  OBVIOUS
<1>2. /\ line = <<>> /\ rest # <<>> /\ rest' = SubSeq(rest, Len(first) + 1, Len(rest))
      /\ script' = script /\ statement' = statement /\ statements' = statements /\ mode' = mode
  BY <1>1, StartLineIs, Zenon
<1>3. line' = first /\ delimiter' = delimiter
  BY <1>1, StartLineIs, Zenon DEF CanChangeDelimiter
<1>4. PICK n \in 0..(Len(script) - 1), p \in Nat, j \in Nat :
        /\ Understood(n) /\ At(p) /\ Lines(p)
        /\ p = Start(n) + j /\ j \in 1..Len(Written(n)) /\ Within(n, j)
  BY InsideOf, Zenon
<1>5. At(p)' /\ Lines(p)'
  BY <1>1, <1>2, <1>3, <1>4, LineTaken, Zenon
<1>6. /\ Text' = Text
      /\ \A m : /\ Before(m)' = Before(m) /\ Start(m)' = Start(m)
                /\ Kind(m)' = Kind(m) /\ Written(m)' = Written(m)
  BY <1>2, Unchanged, Zenon
<1>7. Understood(n)'
  BY <1>2, <1>3, <1>4, <1>6, Zenon DEF Understood
<1>8. Within(n, j)'
  <2>1. CASE InsideLiteral(n, j)
    BY <1>2, <1>6, <2>1, Zenon DEF InsideLiteral, Within
  <2>2. CASE InsideComment(n, j)
    BY <1>2, <1>6, <2>2, Zenon DEF InsideComment, Within
  <2>3. CASE InsideLine(n, j)
    BY <1>2, <1>6, <2>3, Zenon DEF InsideLine, Within
  <2>4. QED
    BY <1>4, <2>1, <2>2, <2>3, Zenon DEF Within
<1>9. /\ n \in 0..Len(script) /\ n < Len(script) /\ p \in 0..Len(Text) /\ j \in 1..Len(Text)
      /\ p = Start(n) + j /\ j \in 1..Len(Written(n))
  <2>1. n \in 0..Len(script) /\ n < Len(script)
    BY DEF Going
  <2>2. p \in 0..Len(Text)
    BY <1>4, Zenon DEF At
  <2>3. Start(n) \in Nat /\ Len(Text) \in Nat
    <3>1. Start(n) \in Nat /\ Text \in Seq(Characters)
      BY WrittenAt, Zenon DEF Going
    <3>2. QED
      BY <3>1
  <2>4. j \in 1..Len(Text)
    BY <1>4, <2>2, <2>3
  <2>5. QED
    BY <1>4, <2>1, <2>2, <2>4, Zenon
<1>10. Inside(n, j)'
  BY <1>2, <1>6, <1>9, Zenon DEF Inside
<1>11. QED
  BY <1>2, <1>5, <1>6, <1>7, <1>8, <1>9, <1>10, Zenon DEF Position

\* A line that is no command stands ahead,
LEMMA StartLineCode ==
  ASSUME Going, StartLine, NEW n \in 0..(Len(script) - 1), NEW p \in Nat, p = Start(n),
         Understood(n), At(p), Lines(p), InFront(n), Kind(n) # "change"
  PROVE  Position'
<1>1. PICK first : first = FirstLine(rest)
  OBVIOUS
<1>2. /\ line = <<>> /\ rest # <<>> /\ rest' = SubSeq(rest, Len(first) + 1, Len(rest))
      /\ script' = script /\ statement' = statement /\ statements' = statements /\ mode' = mode
  BY <1>1, StartLineIs, Zenon
<1>3. line' = first /\ delimiter' = delimiter
  <2>1. ~(CanChangeDelimiter /\ Changes(first))
    BY <1>1, <1>2, ChangeSeen, Zenon
  <2>2. QED
    BY <1>1, <2>1, StartLineIs, Zenon
<1>4. At(p)' /\ Lines(p)'
  BY <1>1, <1>2, <1>3, LineTaken, Zenon
<1>5. /\ Text' = Text
      /\ \A m : /\ Before(m)' = Before(m) /\ Start(m)' = Start(m)
                /\ Kind(m)' = Kind(m) /\ Written(m)' = Written(m)
  BY <1>2, Unchanged, Zenon
<1>6. Understood(n)' /\ InFront(n)'
  BY <1>2, <1>3, <1>5, Zenon DEF Understood, InFront
<1>7. n \in 0..Len(script) /\ p \in 0..Len(Text)
  BY Zenon DEF Understood, At
<1>8. QED
  BY <1>2, <1>4, <1>5, <1>6, <1>7, Zenon DEF Position

\* and a command is understood at once.
LEMMA StartLineChange ==
  ASSUME Going, StartLine, NEW n \in 0..(Len(script) - 1), NEW p \in Nat, p = Start(n),
         Understood(n), At(p), Lines(p), InFront(n), Kind(n) = "change"
  PROVE  Position' /\ delimiter' = Written(n)
<1>1. PICK new \in Seq(Characters) : new = Written(n)
  BY AddingIs, Zenon DEF Going
<1>2. PICK first \in Seq(Characters) : first = CommandText(new)
  BY CommandTextIs, Zenon
<1>3. Len(first) = Len(new) + 3 /\ first[Len(first)] = "nl"
  <2>1. Len(first) = Len(new) + 3
    BY <1>2, CommandTextIs, Zenon
  <2>2. first[Len(new) + 3] = "nl"
    BY <1>2, CommandTextIs, Zenon
  <2>3. QED
    BY <2>1, <2>2
<1>4. line = <<>> /\ rest # <<>>
  BY StartLineIs, Zenon
<1>5. first = FirstLine(rest) /\ CanChangeDelimiter /\ Changes(first) /\ ChangedTo(first) = new
  BY <1>1, <1>2, <1>4, ChangeSeen, Zenon
<1>6. /\ rest' = SubSeq(rest, Len(first) + 1, Len(rest))
      /\ script' = script /\ statement' = statement /\ statements' = statements /\ mode' = mode
      /\ delimiter' = new /\ line' = line
  BY <1>5, StartLineIs, Zenon
<1>7. PICK q \in Nat : q = p + Len(first)
  OBVIOUS
<1>8. At(q)' /\ Lines(q)'
  <2>1. Behind(first, p, q)
    BY <1>3, <1>5, <1>6, <1>7, Zenon DEF Behind
  <2>2. QED
    BY <1>4, <1>6, <2>1, LineSkipped, Zenon
<1>9. q = Start(n + 1) /\ q \in 0..Len(Text)
  <2>1. /\ Start(n + 1) = Start(n) + Len(first) /\ Start(n) + Len(first) <= Len(Text)
        /\ Text \in Seq(Characters)
    BY <1>1, <1>2, WrittenAt, Zenon DEF Going
  <2>2. QED
    BY <1>7, <2>1
<1>10. /\ Text' = Text
       /\ \A m : /\ Before(m)' = Before(m) /\ Start(m)' = Start(m)
                 /\ Kind(m)' = Kind(m) /\ Written(m)' = Written(m)
  BY <1>6, Unchanged, Zenon
<1>11. Understood(n + 1)'
  <2>1. Before(n + 1).result = "ok"
    <3>1. script[n + 1][1] = "change"
      BY Zenon DEF Kind
    <3>2. ResultOf(script[n + 1]) = "ok"
      BY <3>1 DEF ResultOf
    <3>3. QED
      BY <3>2, AddingIs, Zenon DEF Going
  <2>2. Before(n + 1).delimiter = new
    BY <1>1, AddingIs, Zenon DEF Going
  <2>3. Before(n + 1).statements = Before(n).statements
    BY AddingIs, Zenon DEF Going
  <2>4. n + 1 \in 0..Len(script)
    BY DEF Going
  <2>5. QED
    BY <1>6, <1>10, <2>1, <2>2, <2>3, <2>4, Zenon DEF Understood
<1>12. InFront(n + 1)'
  <2>1. Before(n + 1).current = Before(n).current
    BY AddingIs, Zenon DEF Going
  <2>2. QED
    BY <1>4, <1>6, <1>10, <2>1, Zenon DEF InFront
<1>13. n + 1 \in 0..Len(script)
  BY DEF Going
<1>14. QED
  BY <1>1, <1>6, <1>8, <1>9, <1>10, <1>11, <1>12, <1>13, Zenon DEF Position

LEMMA StartLineStep ==
  ASSUME Going, Position, StartLine
  PROVE  /\ Position'
         /\ delimiter' \in Seq(Characters) \ {<<>>}
         /\ \A i \in 1..Len(delimiter') : delimiter'[i] \notin Space
<1>1. CASE mode # "code"
  <2>1. delimiter' = delimiter
    BY <1>1, StartLineIs, Zenon DEF CanChangeDelimiter
  <2>2. Position'
    BY <1>1, StartLineInside
  <2>3. QED
    BY <2>1, <2>2, Zenon DEF Going, TypeOK
<1>2. CASE mode = "code"
  <2>1. line = <<>> /\ rest # <<>>
    BY StartLineIs, Zenon
  <2>2. PICK n \in 0..(Len(script) - 1), p \in Nat :
          p = Start(n) /\ Understood(n) /\ At(p) /\ Lines(p) /\ InFront(n)
    BY <1>2, <2>1, InFrontOf, Zenon
  <2>3. CASE Kind(n) = "change"
    <3>1. Position' /\ delimiter' = Written(n)
      BY <2>2, <2>3, StartLineChange, Zenon
    <3>2. PICK new \in Seq(Characters) : new = Written(n)
      BY AddingIs, Zenon DEF Going
    <3>3. Len(new) > 0 /\ \A i \in 1..Len(new) : new[i] \notin Space
      <4>1. Named(script[n + 1], Following(n))
        BY InFrontIs, Zenon DEF Going
      <4>2. QED
        BY <2>3, <3>2, <4>1, NamedIs, Zenon DEF Kind, Written
    <3>4. new # <<>>
      BY <3>3
    <3>5. QED
      BY <3>1, <3>2, <3>3, <3>4, Zenon
  <2>4. CASE Kind(n) # "change"
    <3>1. Position'
      BY <2>2, <2>4, StartLineCode, Zenon
    <3>2. ~(CanChangeDelimiter /\ Changes(FirstLine(rest)))
      BY <2>1, <2>2, <2>4, ChangeSeen, Zenon
    <3>3. delimiter' = delimiter
      BY <3>2, StartLineIs, Zenon
    <3>4. QED
      BY <3>1, <3>3, Zenon DEF Going, TypeOK
  <2>5. QED
    BY <2>3, <2>4, Zenon
<1>3. QED
  BY <1>1, <1>2, Zenon

-----------------------------------------------------------------------------
(* The end of the script *)

\* With nothing left the splitter stands at the end of the text.
LEMMA NothingLeft ==
  ASSUME Going, NEW p, At(p), line = <<>>, rest = <<>>
  PROVE  Text \in Seq(Characters) /\ p = Len(Text) /\ p \in Nat
<1>1. Text \in Seq(Characters)
  BY TextType DEF Going, Text
<1>2. p \in 0..Len(Text) /\ Len(<<>>) + Len(<<>>) = Len(Text) - p
  BY Zenon DEF At
<1>3. QED
  BY <1>1, <1>2

\* In code all pieces are read then,
LEMMA EndOfCode ==
  ASSUME Going, Position, line = <<>>, rest = <<>>, mode = "code"
  PROVE  Understood(Len(script)) /\ statement = Before(Len(script)).current
<1>1. PICK n \in 0..Len(script), p \in 0..Len(Text) :
        /\ Understood(n) /\ At(p) /\ Lines(p)
        /\ \/ p = Start(n) /\ InFront(n)
           \/ \E j \in 1..Len(Text) : p = Start(n) + j /\ Inside(n, j) /\ Within(n, j)
  BY Zenon DEF Position
<1>2. CASE p = Start(n) /\ InFront(n)
  <2>1. Start(n) = Len(Text)
    BY <1>1, <1>2, NothingLeft, Zenon
  <2>2. n = Len(script)
    BY <2>1, AtTheEnd, Zenon DEF Going, Start, Before, Text
  <2>3. QED
    BY <1>1, <1>2, <2>2, Zenon DEF InFront
<1>3. CASE \E j \in 1..Len(Text) : p = Start(n) + j /\ Inside(n, j) /\ Within(n, j)
  <2>1. PICK j \in 1..Len(Text) : p = Start(n) + j /\ Inside(n, j) /\ Within(n, j)
    BY <1>3
  <2>2. n \in 0..(Len(script) - 1)
    BY <2>1 DEF Inside, Going
  <2>3. ~InsideComment(n, j) /\ ~InsideLine(n, j)
    BY DEF InsideComment, InsideLine
  <2>4. InsideLiteral(n, j)
    BY <2>1, <2>3, Zenon DEF Within
  <2>5. Written(n)[1] \in Quotes /\ mode = Written(n)[1]
    BY <2>2, <2>4, LiteralStarts, Zenon DEF InsideLiteral, Going
  <2>6. QED
    BY <2>5 DEF Quotes
<1>4. QED
  BY <1>1, <1>2, <1>3, Zenon

\* and otherwise all but the last one, of which all is behind the splitter.
LEMMA EndOfPiece ==
  ASSUME Going, Position, line = <<>>, rest = <<>>, mode # "code"
  PROVE  \E n \in 0..(Len(script) - 1) :
           /\ n + 1 = Len(script) /\ Understood(n) /\ Within(n, Len(Written(n)))
<1>1. PICK n \in 0..(Len(script) - 1), p \in Nat, j \in Nat :
        /\ Understood(n) /\ At(p) /\ Lines(p)
        /\ p = Start(n) + j /\ j \in 1..Len(Written(n)) /\ Within(n, j)
  BY InsideOf, Zenon
<1>2. p = Len(Text) /\ p \in Nat
  BY <1>1, NothingLeft, Zenon
<1>3. Kind(n) \notin {"end", "change"}
  BY <1>1 DEF Within, InsideLiteral, InsideComment, InsideLine
<1>4. /\ Start(n + 1) = Start(n) + Len(Written(n))
      /\ Start(n) \in Nat /\ Len(Written(n)) \in Nat
      /\ Start(n) + Len(Written(n)) <= Len(Text)
  BY <1>3, NextStart, Zenon DEF Going
<1>5. j = Len(Written(n)) /\ Start(n + 1) = Len(Text)
  BY <1>1, <1>2, <1>4
<1>6. n + 1 \in 0..Len(script)
  BY DEF Going
<1>7. n + 1 = Len(script)
  BY <1>5, <1>6, AtTheEnd, Zenon DEF Going, Start, Before, Text
<1>8. QED
  BY <1>1, <1>5, <1>7, Zenon

\* What is inside of the last piece at its end has no end.
LEMMA EndOfPieceIs ==
  ASSUME Going, NEW n \in 0..(Len(script) - 1), Understood(n), Within(n, Len(Written(n)))
  PROVE  \/ Kind(n) = "openLiteral" /\ mode \in Quotes
         \/ Kind(n) = "openComment" /\ mode \in {"kept", "block"}
         \/ /\ Kind(n) = "line" /\ mode = "line" /\ Last(Written(n)) # "nl"
            /\ statement = Before(n).current
<1>1. PICK w \in Seq(Characters) : w = Written(n)
  BY AddingIs, Zenon DEF Going
<1>2. Len(w) \in Nat
  BY <1>1
<1>3. CASE InsideLiteral(n, Len(w))
  <2>1. mode \in Quotes
    BY <1>1, <1>3, LiteralStarts, Zenon DEF InsideLiteral, Going
  <2>2. Kind(n) = "openLiteral"
    <3> SUFFICES ASSUME Kind(n) = "literal" PROVE FALSE
      BY <1>3 DEF InsideLiteral
    <3>1. PICK m \in 1..Len(w) : \E places \in SUBSET (1..m) : Len(w) \in places /\ m = Len(w) - 1
      BY <1>1, <1>3 DEF InsideLiteral
    <3>2. QED
      BY <1>2, <3>1
  <2>3. QED
    BY <2>1, <2>2
<1>4. CASE InsideComment(n, Len(w))
  <2>1. Kind(n) = "openComment"
    <3> SUFFICES ASSUME Kind(n) # "openComment" PROVE FALSE
      OBVIOUS
    <3>1. Len(w) <= Len(w) - 2
      BY <1>1, <1>4, Zenon DEF InsideComment
    <3>2. QED
      BY <1>2, <3>1
  <2>2. mode \in {"kept", "block"}
    BY <1>1, <1>4 DEF InsideComment
  <2>3. QED
    BY <2>1, <2>2
<1>5. CASE InsideLine(n, Len(w))
  BY <1>1, <1>5, Zenon DEF InsideLine, Last
<1>6. QED
  BY <1>1, <1>3, <1>4, <1>5, Zenon DEF Within

LEMMA MeaningIs ==
  ASSUME NEW s, NEW all, all = Reading(s)[Len(s)]
  PROVE  /\ Meaning(s).result = all.result
         /\ Meaning(s).statements =
              IF all.result = "ok" THEN all.statements \o Statement(all.current) ELSE <<>>
BY DEF Meaning

LEMMA FinishIs ==
  ASSUME Finish
  PROVE  /\ line = <<>> /\ rest = <<>> /\ line' = <<>> /\ rest' = <<>>
         /\ script' = script /\ delimiter' = delimiter /\ mode' = mode /\ statement' = <<>>
         /\ mode \in Quotes => result' = "literal"
         /\ mode \in {"block", "kept"} => result' = "comment"
         /\ mode \in {"code", "line"} => result' = "ok"
         /\ result' = "ok" => statements' = Flushed
         /\ result' # "ok" => statements' = <<>>
BY DEF Finish, Quotes

\* What the splitter has found then is what the script means.
LEMMA FinishStep ==
  ASSUME Going, Position, Finish
  PROVE  SplitAsWritten'
<1>1. /\ line = <<>> /\ rest = <<>> /\ script' = script
      /\ mode \in Quotes => result' = "literal"
      /\ mode \in {"block", "kept"} => result' = "comment"
      /\ mode \in {"code", "line"} => result' = "ok"
      /\ result' = "ok" => statements' = Flushed
      /\ result' # "ok" => statements' = <<>>
  BY FinishIs, Zenon
<1>2. Flushed = statements \o Statement(statement)
  BY FlushedIs, Zenon DEF Going
<1>3. PICK all : all = Reading(script)[Len(script)]
  OBVIOUS
<1>4. /\ Meaning(script).result = all.result
      /\ Meaning(script).statements =
           IF all.result = "ok" THEN all.statements \o Statement(all.current) ELSE <<>>
  BY <1>3, MeaningIs, Zenon
<1>5. SUFFICES result' = all.result /\ statements' = Meaning(script).statements
  BY <1>1, <1>4, Zenon DEF SplitAsWritten
<1>6. CASE mode = "code"
  <2>1. Understood(Len(script)) /\ statement = Before(Len(script)).current
    BY <1>1, <1>6, EndOfCode, Zenon
  <2>2. all.result = "ok" /\ statements = all.statements /\ statement = all.current
    BY <1>3, <2>1, Zenon DEF Understood, Before
  <2>3. result' = "ok"
    BY <1>1, <1>6, Zenon
  <2>4. QED
    BY <1>1, <1>2, <1>4, <2>2, <2>3, Zenon
<1>7. CASE mode # "code"
  <2>1. PICK n \in 0..(Len(script) - 1) :
           n + 1 = Len(script) /\ Understood(n) /\ Within(n, Len(Written(n)))
    BY <1>1, <1>7, EndOfPiece, Zenon
  <2>2. all = Before(n + 1)
    BY <1>3, <2>1, Zenon DEF Before
  <2>3. all.result = ResultOf(script[n + 1])
    BY <2>2, AddingIs, Zenon DEF Going
  <2>4. CASE Kind(n) = "openLiteral" /\ mode \in Quotes
    <3>1. script[n + 1][1] = "openLiteral"
      BY <2>4, Zenon DEF Kind
    <3>2. all.result = "literal"
      BY <2>3, <3>1 DEF ResultOf
    <3>3. QED
      BY <1>1, <1>4, <2>4, <3>2
  <2>5. CASE Kind(n) = "openComment" /\ mode \in {"kept", "block"}
    <3>1. script[n + 1][1] = "openComment"
      BY <2>5, Zenon DEF Kind
    <3>2. all.result = "comment"
      BY <2>3, <3>1 DEF ResultOf
    <3>3. QED
      BY <1>1, <1>4, <2>5, <3>2
  <2>6. CASE /\ Kind(n) = "line" /\ mode = "line" /\ Last(Written(n)) # "nl"
             /\ statement = Before(n).current
    <3>1. script[n + 1][1] = "line"
      BY <2>6, Zenon DEF Kind
    <3>2. all.result = "ok"
      BY <2>3, <3>1 DEF ResultOf
    <3>3. all.current = Before(n).current
      BY <2>2, <2>6, AddingIs, Zenon DEF Going
    <3>4. all.statements = Before(n).statements
      <4>1. Kind(n) # "end"
        BY <2>6
      <4>2. QED
        BY <2>2, <4>1, AddingIs, Zenon DEF Going
    <3>5. statements = Before(n).statements
      BY <2>1, Zenon DEF Understood
    <3>6. result' = "ok"
      BY <1>1, <2>6, Zenon
    <3>7. QED
      BY <1>1, <1>2, <1>4, <2>6, <3>2, <3>3, <3>4, <3>5, <3>6, Zenon
  <2>7. QED
    BY <2>1, <2>4, <2>5, <2>6, EndOfPieceIs, Zenon
<1>8. QED
  BY <1>6, <1>7, Zenon

-----------------------------------------------------------------------------
(* Types *)

LEMMA SkipType ==
  ASSUME TypeOK, NEW k \in Nat, Skip(k)
  PROVE  line' \in Seq(Characters)
<1>1. PICK l \in Seq(Characters) : l = line
  BY Zenon DEF TypeOK
<1>2. SubSeq(l, k + 1, Len(l)) \in Seq(Characters)
  OBVIOUS
<1>3. QED
  BY <1>1, <1>2, Zenon DEF Skip

LEMMA CopyType ==
  ASSUME TypeOK, NEW k \in Nat, k <= Len(line), Copy(k)
  PROVE  line' \in Seq(Characters) /\ statement' \in Seq(Characters)
<1>1. PICK l \in Seq(Characters) : l = line
  BY Zenon DEF TypeOK
<1>2. PICK s \in Seq(Characters) : s = statement
  BY Zenon DEF TypeOK
<1>3. SubSeq(l, 1, k) \in Seq(Characters)
  BY <1>1
<1>4. s \o SubSeq(l, 1, k) \in Seq(Characters)
  BY <1>3
<1>5. statement' = s \o SubSeq(l, 1, k)
  BY <1>1, <1>2, Zenon DEF Copy
<1>6. QED
  BY <1>4, <1>5, SkipType, Zenon DEF Copy

LEMMA AheadType ==
  ASSUME TypeOK
  PROVE  /\ \A c, d \in Characters : Ahead(<<c, d>>) => 2 <= Len(line)
         /\ \A c, d, e \in Characters : Ahead(<<c, d, e>>) => 2 <= Len(line)
<1>1. PICK l \in Seq(Characters) : l = line
  BY Zenon DEF TypeOK
<1>2. ASSUME NEW c \in Characters, NEW d \in Characters, Ahead(<<c, d>>) PROVE 2 <= Len(line)
  <2>1. PICK x \in Seq(Characters) : x = <<c, d>> /\ Len(x) = 2
    <3>1. <<c, d>> \in Seq(Characters) /\ Len(<<c, d>>) = 2
      OBVIOUS
    <3>2. QED
      BY <3>1
  <2>2. Len(x) <= Len(l)
    BY <1>1, <1>2, <2>1, PrefixIs, Zenon DEF Ahead
  <2>3. QED
    BY <1>1, <2>1, <2>2, Zenon
<1>3. ASSUME NEW c \in Characters, NEW d \in Characters, NEW e \in Characters, Ahead(<<c, d, e>>)
      PROVE  2 <= Len(line)
  <2>1. <<c, d, e>> \in Seq(Characters) /\ Len(<<c, d, e>>) = 3
    OBVIOUS
  <2>2. PICK x \in Seq(Characters) : x = <<c, d, e>> /\ Len(x) = 3
    BY <2>1
  <2>3. Len(x) <= Len(l)
    BY <1>1, <1>3, <2>2, PrefixIs, Zenon DEF Ahead
  <2>4. QED
    BY <1>1, <2>2, <2>3
<1>4. QED
  BY <1>2, <1>3, Zenon

LEMMA Marks ==
  /\ "/" \in Characters /\ "*" \in Characters /\ "!" \in Characters /\ " " \in Characters
  /\ \A q \in Quotes : q \in Characters
BY Zenon DEF Characters, Space, Quotes

LEMMA WritingTypes ==
  ASSUME TypeOK, Writing, line' \in Seq(Characters), statement' \in Seq(Characters),
         statements' \in Seq(Seq(Characters) \ {<<>>}),
         mode' \in {"code", "line", "block", "kept"} \cup Quotes
  PROVE  TypeOK'
BY Zenon DEF TypeOK, Writing

LEMMA Holds ==
  ASSUME TypeOK
  PROVE  /\ line \in Seq(Characters) /\ statement \in Seq(Characters)
         /\ statements \in Seq(Seq(Characters) \ {<<>>})
         /\ mode \in {"code", "line", "block", "kept"} \cup Quotes
         /\ delimiter \in Seq(Characters)
         /\ line # <<>> => 1 <= Len(line)
         /\ "code" \in {"code", "line", "block", "kept"} \cup Quotes
         /\ 1 \in Nat /\ 2 \in Nat /\ Len(delimiter) \in Nat
BY DEF TypeOK

LEMMA InLineCommentType ==
  ASSUME TypeOK, InLineComment
  PROVE  TypeOK'
<1>1. Writing /\ line # <<>> /\ statements' = statements
  BY Zenon DEF InLineComment, Writing
<1>2. CASE mode' = "code" /\ Copy(1)
  BY <1>1, <1>2, Holds, CopyType, WritingTypes, Zenon
<1>3. CASE Skip(1) /\ mode' = mode /\ statement' = statement
  BY <1>1, <1>3, Holds, SkipType, WritingTypes, Zenon
<1>4. QED
  BY <1>2, <1>3, Zenon DEF InLineComment

LEMMA InBlockCommentType ==
  ASSUME TypeOK, InBlockComment
  PROVE  TypeOK'
<1>1. Writing /\ line # <<>> /\ statements' = statements
  BY Zenon DEF InBlockComment, Writing
<1>2. CASE Ahead(<<"*", "/">>) /\ mode' = "code" /\ Copy(2)
  <2>1. 2 <= Len(line)
    BY <1>2, AheadType, Marks, Zenon
  <2>2. QED
    BY <1>1, <1>2, <2>1, Holds, CopyType, WritingTypes, Zenon
<1>3. CASE mode' = "code" /\ Skip(2) /\ statement' = Append(statement, " ")
  <2>1. statement' \in Seq(Characters)
    BY <1>3, AppendIs, Marks, Holds, Zenon
  <2>2. QED
    BY <1>1, <1>3, <2>1, Holds, SkipType, WritingTypes, Zenon
<1>4. CASE Copy(1) /\ mode' = mode
  BY <1>1, <1>4, Holds, CopyType, WritingTypes, Zenon
<1>5. CASE Skip(1) /\ mode' = mode /\ statement' = statement
  BY <1>1, <1>5, Holds, SkipType, WritingTypes, Zenon
<1>6. QED
  BY <1>2, <1>3, <1>4, <1>5, Zenon DEF InBlockComment

LEMMA InLiteralType ==
  ASSUME TypeOK, InLiteral
  PROVE  TypeOK'
<1>1. Writing /\ line # <<>> /\ statements' = statements /\ mode \in Quotes
  BY Zenon DEF InLiteral, Writing
<1>2. CASE /\ (Head(line) = "\\" /\ Len(line) > 1) \/ Ahead(<<mode, mode>>)
           /\ Copy(2) /\ mode' = mode
  <2>1. 2 <= Len(line)
    <3>1. CASE Len(line) > 1
      BY <3>1, Holds
    <3>2. CASE Ahead(<<mode, mode>>)
      BY <1>1, <3>2, AheadType, Marks, Zenon
    <3>3. QED
      BY <1>2, <3>1, <3>2, Zenon
  <2>2. QED
    BY <1>1, <1>2, <2>1, Holds, CopyType, WritingTypes, Zenon
<1>3. CASE Copy(1) /\ mode' = IF Head(line) = mode THEN "code" ELSE mode
  <2>1. mode' \in {"code", "line", "block", "kept"} \cup Quotes
    BY <1>3, Holds, Zenon
  <2>2. QED
    BY <1>1, <1>3, <2>1, Holds, CopyType, WritingTypes, Zenon
<1>4. QED
  BY <1>2, <1>3, Zenon DEF InLiteral

LEMMA EndStatementType ==
  ASSUME TypeOK, EndStatement
  PROVE  TypeOK'
<1>1. /\ Writing /\ statements' = Flushed /\ statement' = <<>> /\ mode' = mode
      /\ Skip(Len(delimiter))
  BY Zenon DEF EndStatement
<1>2. <<>> \in Seq(Characters)
  OBVIOUS
<1>3. QED
  BY <1>1, <1>2, Holds, FlushedIs, SkipType, WritingTypes, Zenon

LEMMA BeginCommentType ==
  ASSUME TypeOK, BeginComment
  PROVE  TypeOK'
<1>1. /\ Writing /\ line # <<>> /\ statements' = statements
      /\ Begins \in {"line", "block", "kept"} /\ mode' = Begins
  BY Zenon DEF BeginComment, Writing
<1>2. mode' \in {"code", "line", "block", "kept"} \cup Quotes
  BY <1>1, Zenon
<1>3. CASE Begins = "kept" /\ Copy(2)
  <2>1. Ahead(<<"/", "*", "!">>)
    BY <1>3 DEF Begins, Quotes
  <2>2. 2 <= Len(line)
    BY <2>1, AheadType, Marks, Zenon
  <2>3. QED
    BY <1>1, <1>2, <1>3, <2>2, Holds, CopyType, WritingTypes, Zenon
<1>4. CASE Skip(IF Head(line) = "#" THEN 1 ELSE 2) /\ statement' = statement
  <2>1. (IF Head(line) = "#" THEN 1 ELSE 2) \in Nat
    OBVIOUS
  <2>2. line' \in Seq(Characters)
    BY <1>4, <2>1, SkipType, Zenon
  <2>3. QED
    BY <1>1, <1>2, <1>4, <2>2, Holds, WritingTypes, Zenon
<1>5. QED
  BY <1>3, <1>4, Zenon DEF BeginComment

LEMMA CharacterType ==
  ASSUME TypeOK, Character
  PROVE  TypeOK'
<1>1. /\ Writing /\ line # <<>> /\ statements' = statements /\ Copy(1)
      /\ Begins \in {"code"} \cup Quotes /\ mode' = Begins
  BY Zenon DEF Character, Writing
<1>2. mode' \in {"code", "line", "block", "kept"} \cup Quotes
  BY <1>1, Zenon
<1>3. QED
  BY <1>1, <1>2, Holds, CopyType, WritingTypes, Zenon

LEMMA StartLineType ==
  ASSUME Going, Position, StartLine
  PROVE  TypeOK'
<1>1. PICK r \in Seq(Characters) : r = rest
  BY Zenon DEF Going, TypeOK
<1>2. PICK first : first = FirstLine(r)
  OBVIOUS
<1>3. /\ line = <<>> /\ r # <<>> /\ rest' = SubSeq(r, Len(first) + 1, Len(r))
      /\ line' = line \/ line' = first
      /\ script' = script /\ statement' = statement /\ statements' = statements
      /\ mode' = mode /\ result' = result
  BY <1>1, <1>2, StartLineIs, Zenon
<1>4. first \in Seq(Characters) /\ Len(first) \in 1..Len(r)
  BY <1>2, <1>3, FirstLineIs, Zenon
<1>5. rest' \in Seq(Characters)
  <2>1. Len(first) \in 0..Len(r)
    BY <1>4
  <2>2. QED
    BY <1>3, <2>1, AheadOf, Zenon
<1>6. delimiter' \in Seq(Characters) \ {<<>>}
  BY StartLineStep, Zenon
<1>7. QED
  BY <1>3, <1>4, <1>5, <1>6, Zenon DEF Going, TypeOK

LEMMA FinishType ==
  ASSUME TypeOK, Finish
  PROVE  TypeOK'
<1>1. result' \in {"none", "ok", "literal", "comment"}
  BY FinishIs DEF TypeOK
<1>2. /\ line' = line /\ rest' = rest /\ script' = script /\ delimiter' = delimiter
      /\ mode' = mode /\ statement' = <<>>
      /\ statements' = Flushed \/ statements' = <<>>
  BY FinishIs, Zenon
<1>3. <<>> \in Seq(Characters) /\ <<>> \in Seq(Seq(Characters) \ {<<>>})
  OBVIOUS
<1>4. statements' \in Seq(Seq(Characters) \ {<<>>})
  BY <1>2, <1>3, FlushedIs, Zenon
<1>5. QED
  BY <1>1, <1>2, <1>3, <1>4, Zenon DEF TypeOK

-----------------------------------------------------------------------------
(* The invariant *)

LEMMA Starts == Init => SInv
<1> SUFFICES ASSUME Init PROVE SInv
  OBVIOUS
<1>1. /\ rest = TextOfAll(script) /\ line = <<>> /\ delimiter = <<";">> /\ statement = <<>>
      /\ statements = <<>> /\ mode = "code" /\ result = "none"
  BY Zenon DEF Init
<1>2. script \in Seq(Pieces) /\ WellFormed(script)
  BY ScriptsAssumption, Zenon DEF Init
<1>3. PICK text \in Seq(Characters) : text = Text
  BY <1>2, TextType DEF Text
<1>4. rest = text
  BY <1>1, <1>3, Zenon DEF Text
<1>5. ";" \in Characters /\ ";" \notin Space
  BY Zenon DEF Characters, Space
<1>6. /\ <<";">> \in Seq(Characters) /\ <<";">> # <<>>
      /\ \A i \in 1..Len(<<";">>) : <<";">>[i] \notin Space
  BY <1>5, TupleTypes
<1>7. TypeOK
  <2>1. <<>> \in Seq(Characters) /\ <<>> \in Seq(Seq(Characters) \ {<<>>})
    OBVIOUS
  <2>2. QED
    BY <1>1, <1>2, <1>4, <1>6, <2>1, Zenon DEF TypeOK
<1>8. Before(0) = Begun
  BY <1>2, ReadingIs, Zenon DEF Before
<1>9. /\ Begun.text = <<>> /\ Begun.delimiter = <<";">> /\ Begun.current = <<>>
      /\ Begun.statements = <<>> /\ Begun.result = "ok"
  BY DEF Begun
<1>10. 0 \in 0..Len(script) /\ 0 \in 0..Len(text) /\ Len(<<>>) = 0
  BY <1>2
<1>11. Understood(0)
  BY <1>1, <1>8, <1>9, <1>10, Zenon DEF Understood
<1>12. InFront(0)
  BY <1>1, <1>8, <1>9, Zenon DEF InFront
<1>13. At(0)
  <2>1. 0 + Len(text) = Len(text) - 0 /\ 1..0 = {}
    OBVIOUS
  <2>2. \A i \in 1..Len(text) : text[i] = text[0 + 0 + i]
    OBVIOUS
  <2>3. QED
    BY <1>1, <1>3, <1>4, <1>10, <2>1, <2>2, Zenon DEF At
<1>14. Lines(0)
  <2>1. 1..(0 - 1) = {}
    OBVIOUS
  <2>2. QED
    BY <1>1, <1>10, <2>1, Zenon DEF Lines
<1>15. 0 = Start(0)
  BY <1>8, <1>9, <1>10, Zenon DEF Start
<1>16. Position
  BY <1>3, <1>10, <1>11, <1>12, <1>13, <1>14, <1>15, Zenon DEF Position
<1>17. QED
  BY <1>1, <1>2, <1>6, <1>7, <1>16, Zenon DEF SInv, SplitAsWritten

\* A step of write goes on from one position to another.
LEMMA WritesOn ==
  ASSUME SInv, Writing, TypeOK', Going /\ Position => Position'
  PROVE  SInv'
<1>1. /\ line # <<>> /\ script' = script /\ delimiter' = delimiter /\ result' = result
  BY Zenon DEF Writing
<1>2. result = "none" /\ Position /\ Going
  BY <1>1, Zenon DEF SInv, Going
<1>3. QED
  BY <1>1, <1>2, Zenon DEF SInv, SplitAsWritten

LEMMA Steps == SInv /\ [Next]_vars => SInv'
<1> SUFFICES ASSUME SInv, [Next]_vars PROVE SInv'
  OBVIOUS
<1>1. Going
  BY Zenon DEF SInv, Going
<1>2. TypeOK
  BY Zenon DEF SInv
<1>3. CASE StartLine
  <2>1. result = "none" /\ result' = result /\ script' = script
    BY <1>3, StartLineIs, Zenon
  <2>2. Position
    BY <2>1, Zenon DEF SInv
  <2>3. /\ Position' /\ \A i \in 1..Len(delimiter') : delimiter'[i] \notin Space
    BY <1>1, <1>3, <2>2, StartLineStep, Zenon
  <2>4. TypeOK'
    BY <1>1, <1>3, <2>2, StartLineType, Zenon
  <2>5. QED
    BY <2>1, <2>3, <2>4, Zenon DEF SInv, SplitAsWritten
<1>4. CASE InLineComment
  <2>1. Writing
    BY <1>4, Zenon DEF InLineComment
  <2>2. QED
    BY <1>2, <1>4, <2>1, InLineCommentStep, InLineCommentType, WritesOn, Zenon
<1>5. CASE InBlockComment
  <2>1. Writing
    BY <1>5, Zenon DEF InBlockComment
  <2>2. QED
    BY <1>2, <1>5, <2>1, InBlockCommentStep, InBlockCommentType, WritesOn, Zenon
<1>6. CASE InLiteral
  <2>1. Writing
    BY <1>6, Zenon DEF InLiteral
  <2>2. QED
    BY <1>2, <1>6, <2>1, InLiteralStep, InLiteralType, WritesOn, Zenon
<1>7. CASE EndStatement
  <2>1. Writing
    BY <1>7, Zenon DEF EndStatement
  <2>2. QED
    BY <1>2, <1>7, <2>1, EndStatementStep, EndStatementType, WritesOn, Zenon
<1>8. CASE BeginComment
  <2>1. Writing
    BY <1>8, Zenon DEF BeginComment
  <2>2. QED
    BY <1>2, <1>8, <2>1, BeginCommentStep, BeginCommentType, WritesOn, Zenon
<1>9. CASE Character
  <2>1. Writing
    BY <1>9, Zenon DEF Character
  <2>2. QED
    BY <1>2, <1>9, <2>1, CharacterStep, CharacterType, WritesOn, Zenon
<1>10. CASE Finish
  <2>1. /\ result = "none" /\ line' = <<>> /\ rest' = <<>> /\ script' = script
        /\ delimiter' = delimiter /\ result' # "none"
    BY <1>10 DEF Finish
  <2>2. Position
    BY <2>1, Zenon DEF SInv
  <2>3. SplitAsWritten' /\ TypeOK'
    BY <1>1, <1>2, <1>10, <2>2, FinishStep, FinishType, Zenon
  <2>4. QED
    BY <2>1, <2>3, Zenon DEF SInv
<1>11. CASE UNCHANGED vars
  <2>1. /\ script' = script /\ rest' = rest /\ line' = line /\ delimiter' = delimiter
        /\ statement' = statement /\ statements' = statements /\ mode' = mode /\ result' = result
    BY <1>11 DEF vars
  <2>2. TypeOK'
    BY <1>2, <2>1, Zenon DEF TypeOK
  <2>3. Position => Position'
    <3>1. /\ Text' = Text
          /\ \A m : /\ Before(m)' = Before(m) /\ Start(m)' = Start(m)
                    /\ Kind(m)' = Kind(m) /\ Written(m)' = Written(m)
      BY <2>1, Unchanged, Zenon
    <3>2. ASSUME NEW n, NEW p, Understood(n), At(p), Lines(p)
          PROVE  Understood(n)' /\ At(p)' /\ Lines(p)'
      BY <2>1, <3>1, <3>2, Zenon DEF Understood, At, Lines
    <3>3. ASSUME NEW n, InFront(n) PROVE InFront(n)'
      BY <2>1, <3>1, <3>3, Zenon DEF InFront
    <3>4. ASSUME NEW n, NEW j, Inside(n, j), Within(n, j) PROVE Inside(n, j)' /\ Within(n, j)'
      <4>1. Inside(n, j)'
        BY <2>1, <3>1, <3>4, Zenon DEF Inside
      <4>2. CASE InsideLiteral(n, j)
        BY <2>1, <3>1, <4>1, <4>2, Zenon DEF InsideLiteral, Within
      <4>3. CASE InsideComment(n, j)
        BY <2>1, <3>1, <4>1, <4>3, Zenon DEF InsideComment, Within
      <4>4. CASE InsideLine(n, j)
        BY <2>1, <3>1, <4>1, <4>4, Zenon DEF InsideLine, Within
      <4>5. QED
        BY <3>4, <4>1, <4>2, <4>3, <4>4, Zenon DEF Within
    <3>5. SUFFICES ASSUME Position PROVE Position'
      OBVIOUS
    <3>6. PICK n \in 0..Len(script), p \in 0..Len(Text) :
            /\ Understood(n) /\ At(p) /\ Lines(p)
            /\ \/ p = Start(n) /\ InFront(n)
               \/ \E j \in 1..Len(Text) : p = Start(n) + j /\ Inside(n, j) /\ Within(n, j)
      BY <3>5, Zenon DEF Position
    <3>7. Understood(n)' /\ At(p)' /\ Lines(p)'
      BY <3>2, <3>6, Zenon
    <3>8. CASE p = Start(n) /\ InFront(n)
      <4>1. InFront(n)'
        BY <3>3, <3>8, Zenon
      <4>2. QED
        BY <2>1, <3>1, <3>6, <3>7, <3>8, <4>1, Zenon DEF Position
    <3>9. CASE \E j \in 1..Len(Text) : p = Start(n) + j /\ Inside(n, j) /\ Within(n, j)
      <4>1. PICK j \in 1..Len(Text) : p = Start(n) + j /\ Inside(n, j) /\ Within(n, j)
        BY <3>9, Zenon
      <4>2. Inside(n, j)' /\ Within(n, j)'
        BY <3>4, <4>1, Zenon
      <4>3. QED
        BY <2>1, <3>1, <3>6, <3>7, <4>1, <4>2, Zenon DEF Position
    <3>10. QED
      BY <3>6, <3>8, <3>9, Zenon
  <2>4. QED
    BY <2>1, <2>2, <2>3, Zenon DEF SInv, SplitAsWritten
<1>12. QED
  BY <1>3, <1>4, <1>5, <1>6, <1>7, <1>8, <1>9, <1>10, <1>11, Zenon DEF Next

\* The splitter always stands where the pieces put it, with all that lies
\* behind it understood.
THEOREM SqlPosition == Spec => []SInv
<1>1. QED
  BY Starts, Steps, PTL DEF Spec

\* Whatever the script, the statement, the statements and the delimiter are
\* texts, no statement is empty, and a delimiter never is: with an empty one
\* write would end statements for ever without going on in its line.
THEOREM SqlTypes == Spec => []TypeOK
<1>1. SInv => TypeOK
  BY Zenon DEF SInv
<1>2. QED
  BY SqlPosition, <1>1, PTL

\* Every well-formed script is split into the statements its pieces make, and
\* one that breaks off inside of a literal or a comment is refused.
THEOREM SplitsAsWritten == Spec => []SplitAsWritten
<1>1. SInv => SplitAsWritten
  BY Zenon DEF SInv
<1>2. QED
  BY SqlPosition, <1>1, PTL
=============================================================================
