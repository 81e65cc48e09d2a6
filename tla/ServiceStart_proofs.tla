------------------------- MODULE ServiceStart_proofs -------------------------
(***************************************************************************)
(* Theorems about the start of a service.                                  *)
(*                                                                         *)
(* First about what it is made from.  The functions of ConfigFiles leave   *)
(* the parameters that were asked for, keep the lines of the user, and     *)
(* change nothing when they are applied once more, whatever the file; what *)
(* those of StorageProviders make of every environment they accept is that *)
(* all the options of its providers arrive, where the server, the proxies  *)
(* or the frontend read them.                                              *)
(*                                                                         *)
(* Then about ServiceStart itself, for any deployments, numbers of         *)
(* attempts and bounds on faults.                                          *)
(***************************************************************************)
EXTENDS ServiceStart, TLAPS, WellFoundedInduction, NaturalsInduction, SequenceTheorems,
        FiniteSetTheorems

-----------------------------------------------------------------------------
(* Induction, with a set in the place of a property. *)

LEMMA NaturalInduction ==
  ASSUME NEW T, 0 \in T, \A n \in Nat : n \in T => n + 1 \in T
  PROVE  Nat \subseteq T
<1> SUFFICES ASSUME Nat \ T # {} PROVE FALSE
  OBVIOUS
<1>1. PICK n \in Nat \ T : \A k \in Nat \ T : <<k, n>> \notin OpToRel(<, Nat)
  BY WFMin, NatLessThanWellFounded
<1>2. \A k \in Nat \ T : ~(k < n)
  BY <1>1, Zenon DEF OpToRel
<1>3. n # 0 /\ n - 1 \in Nat /\ n - 1 + 1 = n /\ n - 1 < n
  OBVIOUS
<1>4. QED
  BY <1>2, <1>3

LEMMA SequenceInduction ==
  ASSUME NEW S, NEW T, <<>> \in T,
         \A s \in Seq(S), e \in S : s \in T => Append(s, e) \in T
  PROVE  Seq(S) \subseteq T
<1> DEFINE N == {n \in Nat : \A s \in Seq(S) : Len(s) = n => s \in T}
<1>1. 0 \in N
  OBVIOUS
<1>2. ASSUME NEW n \in Nat, n \in N PROVE n + 1 \in N
  <2>1. ASSUME NEW s \in Seq(S), Len(s) = n + 1 PROVE s \in T
    <3> DEFINE f == SubSeq(s, 1, n)
    <3>1. f \in Seq(S) /\ Len(f) = n /\ s[n + 1] \in S /\ s = Append(f, s[n + 1])
      BY <2>1
    <3>2. QED
      BY <3>1, <1>2
  <2>2. QED
    BY <2>1
<1>3. Nat \subseteq N
  <2> HIDE DEF N
  <2>1. QED
    BY <1>1, <1>2, NaturalInduction
<1>4. QED
  BY <1>3

-----------------------------------------------------------------------------
(* Only: the recursive function it is made of exists, and so does what is   *)
(* expected of its last value.                                              *)

Keeps(f, seq, set, n) ==
  f = [i \in 0..n |->
         IF i = 0 THEN <<>>
         ELSE IF seq[i] \in set THEN Append(f[i - 1], seq[i]) ELSE f[i - 1]]

\* The function for one more element.
LEMMA KeepsOneMore ==
  ASSUME NEW seq, NEW set, NEW n \in Nat, NEW f, Keeps(f, seq, set, n)
  PROVE  Keeps([i \in 0..n + 1 |->
                  IF i <= n THEN f[i]
                  ELSE IF seq[i] \in set THEN Append(f[n], seq[i]) ELSE f[n]],
               seq, set, n + 1)
<1> DEFINE g == [i \in 0..n + 1 |->
                   IF i <= n THEN f[i]
                   ELSE IF seq[i] \in set THEN Append(f[n], seq[i]) ELSE f[n]]
           G(i) == IF i = 0 THEN <<>>
                   ELSE IF seq[i] \in set THEN Append(g[i - 1], seq[i]) ELSE g[i - 1]
<1>1. \A i \in 0..n : f[i] = IF i = 0 THEN <<>>
                             ELSE IF seq[i] \in set THEN Append(f[i - 1], seq[i]) ELSE f[i - 1]
  BY Zenon DEF Keeps
<1>2. \A i \in 0..n : i \in 0..n + 1 /\ i <= n /\ (i # 0 => i - 1 \in 0..n)
  OBVIOUS
<1>3. \A i \in 0..n : g[i] = f[i]
  BY <1>2
<1>4. \A i \in 0..n : g[i] = G(i)
  BY <1>1, <1>2, <1>3, Zenon
<1>5. g[n + 1] = G(n + 1)
  BY <1>3
<1>6. g = [i \in 0..n + 1 |-> g[i]]
  OBVIOUS
<1> HIDE DEF g
<1>7. \A i \in 0..n + 1 : g[i] = G(i)
  <2>1. \A i \in 0..n + 1 : i \in 0..n \/ i = n + 1
    OBVIOUS
  <2> HIDE DEF G
  <2>2. QED
    BY <1>4, <1>5, <2>1
<1>8. g = [i \in 0..n + 1 |-> G(i)]
  <2> HIDE DEF G
  <2>1. QED
    BY <1>6, <1>7
<1>9. QED
  BY <1>8, Zenon DEF Keeps, g

LEMMA KeepsExists ==
  ASSUME NEW seq, NEW set
  PROVE  \A n \in Nat : \E f : Keeps(f, seq, set, n)
<1> DEFINE T == {n \in Nat : \E f : Keeps(f, seq, set, n)}
<1>1. 0 \in T
  <2>1. Keeps([i \in 0..0 |-> <<>>], seq, set, 0)
    BY DEF Keeps
  <2>2. QED
    BY <2>1
<1>2. ASSUME NEW n \in Nat, n \in T PROVE n + 1 \in T
  <2>1. \E f : Keeps(f, seq, set, n + 1)
    BY <1>2, KeepsOneMore
  <2>2. QED
    BY <2>1
<1>3. Nat \subseteq T
  <2> HIDE DEF T
  <2>1. QED
    BY <1>1, <1>2, NaturalInduction
<1>4. QED
  BY <1>3

\* The functions of a sequence and of one that goes on agree.
LEMMA KeepsUnique ==
  ASSUME NEW seq, NEW more, NEW set, NEW n \in Nat,
         \A i \in 1..n : seq[i] = more[i],
         NEW f, Keeps(f, seq, set, n), NEW g, Keeps(g, more, set, n + 1)
  PROVE  \A i \in 0..n : f[i] = g[i]
<1> DEFINE T == {i \in Nat : i <= n => f[i] = g[i]}
<1>1. /\ \A i \in 0..n : f[i] = IF i = 0 THEN <<>>
                                ELSE IF seq[i] \in set THEN Append(f[i - 1], seq[i]) ELSE f[i - 1]
      /\ \A i \in 0..n + 1 : g[i] = IF i = 0 THEN <<>>
                                ELSE IF more[i] \in set THEN Append(g[i - 1], more[i]) ELSE g[i - 1]
  BY Zenon DEF Keeps
<1>2. 0 \in T
  <2>1. 0 \in 0..n /\ 0 \in 0..n + 1
    OBVIOUS
  <2>2. f[0] = <<>> /\ g[0] = <<>>
    BY <1>1, <2>1, Zenon
  <2>3. QED
    BY <2>2
<1>3. ASSUME NEW i \in Nat, i \in T PROVE i + 1 \in T
  <2> SUFFICES ASSUME i + 1 <= n PROVE f[i + 1] = g[i + 1]
    OBVIOUS
  <2>1. i + 1 \in 0..n /\ i + 1 \in 0..n + 1 /\ i + 1 # 0 /\ (i + 1) - 1 = i /\ i + 1 \in 1..n
    OBVIOUS
  <2>2. /\ f[i + 1] = IF seq[i + 1] \in set THEN Append(f[i], seq[i + 1]) ELSE f[i]
        /\ g[i + 1] = IF more[i + 1] \in set THEN Append(g[i], more[i + 1]) ELSE g[i]
    BY <1>1, <2>1, Zenon
  <2>3. f[i] = g[i] /\ seq[i + 1] = more[i + 1]
    BY <1>3, <2>1
  <2>4. QED
    BY <2>2, <2>3
<1>4. Nat \subseteq T
  <2> HIDE DEF T
  <2>1. QED
    BY <1>2, <1>3, NaturalInduction
<1>5. QED
  BY <1>4

LEMMA OnlyIsKept ==
  ASSUME NEW seq, Len(seq) \in Nat, NEW set
  PROVE  \E f : Keeps(f, seq, set, Len(seq)) /\ Only(seq, set) = f[Len(seq)]
<1> DEFINE f == CHOOSE f : Keeps(f, seq, set, Len(seq))
<1>1. \E g : Keeps(g, seq, set, Len(seq))
  BY KeepsExists
<1>2. Keeps(f, seq, set, Len(seq))
  BY <1>1, Zenon
<1>3. Only(seq, set) = f[Len(seq)]
  BY Zenon DEF Only, Keeps
<1>4. QED
  BY <1>2, <1>3, Zenon

LEMMA OnlyEmpty == ASSUME NEW set PROVE Only(<<>>, set) = <<>>
<1>1. Len(<<>>) = 0
  OBVIOUS
<1>2. PICK f : Keeps(f, <<>>, set, 0) /\ Only(<<>>, set) = f[0]
  BY <1>1, OnlyIsKept
<1>3. QED
  BY <1>2 DEF Keeps

LEMMA OnlyAppend ==
  ASSUME NEW S, NEW s \in Seq(S), NEW e \in S, NEW set
  PROVE  Only(Append(s, e), set) =
           IF e \in set THEN Append(Only(s, set), e) ELSE Only(s, set)
<1> DEFINE t == Append(s, e)
           n == Len(s)
<1>1. n \in Nat /\ Len(t) = n + 1 /\ t[n + 1] = e /\ (\A i \in 1..n : s[i] = t[i])
  OBVIOUS
<1> HIDE DEF t, n
<1>2. PICK f : Keeps(f, s, set, n) /\ Only(s, set) = f[n]
  BY <1>1, OnlyIsKept DEF n
<1>3. PICK g : Keeps(g, t, set, n + 1) /\ Only(t, set) = g[n + 1]
  BY <1>1, OnlyIsKept
<1>4. f[n] = g[n]
  <2>1. /\ n \in Nat /\ n \in 0..n /\ \A i \in 1..n : s[i] = t[i]
        /\ Keeps(f, s, set, n) /\ Keeps(g, t, set, n + 1)
    BY <1>1, <1>2, <1>3
  <2>2. \A i \in 0..n : f[i] = g[i]
    BY <2>1, KeepsUnique
  <2>3. QED
    BY <2>1, <2>2
<1>5. g[n + 1] = IF e \in set THEN Append(g[n], e) ELSE g[n]
  <2>1. n + 1 \in 0..n + 1 /\ n + 1 # 0 /\ (n + 1) - 1 = n
    BY <1>1
  <2>2. QED
    BY <1>1, <1>3, <2>1, Zenon DEF Keeps
<1>6. QED
  BY <1>2, <1>3, <1>4, <1>5, Zenon DEF t

-----------------------------------------------------------------------------
(* The laws of Only. *)

LEMMA RangeAppend ==
  ASSUME NEW S, NEW s \in Seq(S), NEW e \in S
  PROVE  Range(Append(s, e)) = Range(s) \cup {e}
<1>1. /\ DOMAIN Append(s, e) = 1..Len(s) + 1
      /\ \A i \in 1..Len(s) : Append(s, e)[i] = s[i]
      /\ Append(s, e)[Len(s) + 1] = e
      /\ DOMAIN s = 1..Len(s)
  OBVIOUS
<1>2. 1..Len(s) + 1 = 1..Len(s) \cup {Len(s) + 1}
  OBVIOUS
<1>3. QED
  BY <1>1, <1>2, ZenonT(60) DEF Range

LEMMA RangeEmpty == Range(<<>>) = {}
  BY DEF Range

LEMMA OnlyElements ==
  ASSUME NEW S, NEW set
  PROVE  \A s \in Seq(S) : Only(s, set) \in Seq(S) /\ Range(Only(s, set)) = Range(s) \cap set
<1> DEFINE T == {s \in Seq(S) : Only(s, set) \in Seq(S)
                                  /\ Range(Only(s, set)) = Range(s) \cap set}
<1>1. <<>> \in T
  <2>1. Only(<<>>, set) = <<>> /\ Range(<<>>) = {}
    BY OnlyEmpty, RangeEmpty
  <2>2. <<>> \in Seq(S)
    OBVIOUS
  <2>3. QED
    BY <2>1, <2>2, Zenon
<1>2. ASSUME NEW s \in Seq(S), NEW e \in S, s \in T PROVE Append(s, e) \in T
  <2>1. Append(s, e) \in Seq(S) /\ Range(Append(s, e)) = Range(s) \cup {e}
    BY RangeAppend
  <2>2. CASE e \in set
    <3>1. Only(Append(s, e), set) = Append(Only(s, set), e)
      BY <2>2, OnlyAppend
    <3>2. Only(s, set) \in Seq(S) /\ Range(Only(s, set)) = Range(s) \cap set
      BY <1>2
    <3>3. /\ Append(Only(s, set), e) \in Seq(S)
          /\ Range(Append(Only(s, set), e)) = Range(Only(s, set)) \cup {e}
      BY <3>2, RangeAppend
    <3>4. QED
      BY <2>1, <2>2, <3>1, <3>2, <3>3
  <2>3. CASE e \notin set
    <3>1. Only(Append(s, e), set) = Only(s, set)
      BY <2>3, OnlyAppend
    <3>2. QED
      BY <1>2, <2>1, <2>3, <3>1
  <2>4. QED
    BY <2>2, <2>3
<1>3. Seq(S) \subseteq T
  <2> HIDE DEF T
  <2>1. QED
    BY <1>1, <1>2, SequenceInduction
<1>4. QED
  BY <1>3

LEMMA AppendConcat ==
  ASSUME NEW S
  PROVE  \A s, t \in Seq(S) : \A e \in S : s \o Append(t, e) = Append(s \o t, e)
OBVIOUS

LEMMA OnlyConcat ==
  ASSUME NEW S, NEW set
  PROVE  \A s, t \in Seq(S) : Only(s \o t, set) = Only(s, set) \o Only(t, set)
<1> TAKE s, t \in Seq(S)
<1> DEFINE T == {u \in Seq(S) : Only(s \o u, set) = Only(s, set) \o Only(u, set)}
<1>0. \A u \in Seq(S) : Only(u, set) \in Seq(S)
  BY OnlyElements
<1>1. <<>> \in T
  BY <1>0, OnlyEmpty
<1>2. ASSUME NEW u \in Seq(S), NEW e \in S, u \in T PROVE Append(u, e) \in T
  <2>1. Append(u, e) \in Seq(S) /\ s \o u \in Seq(S) /\ s \o Append(u, e) = Append(s \o u, e)
    BY SMTT(60)
  <2>2. Only(s \o Append(u, e), set) =
          IF e \in set THEN Append(Only(s \o u, set), e) ELSE Only(s \o u, set)
    BY <2>1, OnlyAppend, ZenonT(60)
  <2>3. Only(Append(u, e), set) = IF e \in set THEN Append(Only(u, set), e) ELSE Only(u, set)
    BY OnlyAppend
  <2>4. Only(s \o u, set) = Only(s, set) \o Only(u, set)
    BY <1>2
  <2>5. Only(s, set) \in Seq(S) /\ Only(u, set) \in Seq(S)
    BY <1>0
  <2>6. Only(s, set) \o Append(Only(u, set), e) = Append(Only(s, set) \o Only(u, set), e)
    <3> DEFINE a == Only(s, set)
               b == Only(u, set)
    <3> HIDE DEF a, b
    <3>1. a \in Seq(S) /\ b \in Seq(S)
      BY <2>5 DEF a, b
    <3>2. a \o Append(b, e) = Append(a \o b, e)
      BY <3>1, AppendConcat, SMTT(60)
    <3>3. QED
      BY <3>2 DEF a, b
  <2>7. Only(s \o Append(u, e), set) = Only(s, set) \o Only(Append(u, e), set)
    BY <2>2, <2>3, <2>4, <2>6
  <2>8. QED
    BY <2>1, <2>7
<1>3. Seq(S) \subseteq T
  <2> HIDE DEF T
  <2>1. QED
    BY <1>1, <1>2, SequenceInduction
<1>4. QED
  BY <1>3

\* It matters only which of the elements of the sequence are in the set.
LEMMA OnlySame ==
  ASSUME NEW S, NEW x, NEW y
  PROVE  \A s \in Seq(S) : Range(s) \cap x = Range(s) \cap y => Only(s, x) = Only(s, y)
<1> DEFINE T == {s \in Seq(S) : Range(s) \cap x = Range(s) \cap y => Only(s, x) = Only(s, y)}
<1>1. <<>> \in T
  BY OnlyEmpty
<1>2. ASSUME NEW s \in Seq(S), NEW e \in S, s \in T PROVE Append(s, e) \in T
  <2> SUFFICES ASSUME Range(Append(s, e)) \cap x = Range(Append(s, e)) \cap y
               PROVE  Only(Append(s, e), x) = Only(Append(s, e), y)
    OBVIOUS
  <2>1. Range(Append(s, e)) = Range(s) \cup {e}
    BY RangeAppend
  <2>2. Range(s) \cap x = Range(s) \cap y /\ (e \in x <=> e \in y)
    BY <2>1
  <2>3. Only(s, x) = Only(s, y)
    BY <1>2, <2>2
  <2>4. /\ Only(Append(s, e), x) = IF e \in x THEN Append(Only(s, x), e) ELSE Only(s, x)
        /\ Only(Append(s, e), y) = IF e \in y THEN Append(Only(s, y), e) ELSE Only(s, y)
    BY OnlyAppend
  <2>5. QED
    BY <2>2, <2>3, <2>4
<1>3. Seq(S) \subseteq T
  <2> HIDE DEF T
  <2>1. QED
    BY <1>1, <1>2, SequenceInduction
<1>4. QED
  BY <1>3

LEMMA OnlyAll ==
  ASSUME NEW S, NEW set
  PROVE  \A s \in Seq(S) : Range(s) \subseteq set => Only(s, set) = s
<1> DEFINE T == {s \in Seq(S) : Range(s) \subseteq set => Only(s, set) = s}
<1>1. <<>> \in T
  BY OnlyEmpty
<1>2. ASSUME NEW s \in Seq(S), NEW e \in S, s \in T PROVE Append(s, e) \in T
  <2>1. Range(Append(s, e)) = Range(s) \cup {e}
    BY RangeAppend
  <2>2. Only(Append(s, e), set) = IF e \in set THEN Append(Only(s, set), e) ELSE Only(s, set)
    BY OnlyAppend
  <2>3. QED
    BY <1>2, <2>1, <2>2
<1>3. Seq(S) \subseteq T
  <2> HIDE DEF T
  <2>1. QED
    BY <1>1, <1>2, SequenceInduction
<1>4. QED
  BY <1>3

LEMMA OnlyNone ==
  ASSUME NEW S, NEW set
  PROVE  \A s \in Seq(S) : Range(s) \cap set = {} => Only(s, set) = <<>>
<1>1. ASSUME NEW s \in Seq(S), Range(s) \cap set = {} PROVE Only(s, set) = <<>>
  <2>1. Only(s, set) \in Seq(S) /\ Range(Only(s, set)) = {}
    BY <1>1, OnlyElements
  <2>2. DOMAIN Only(s, set) = 1..Len(Only(s, set)) /\ Len(Only(s, set)) \in Nat
    BY <2>1
  <2>3. 1 \notin DOMAIN Only(s, set)
    BY <2>1, Zenon DEF Range
  <2>4. Len(Only(s, set)) = 0
    BY <2>2, <2>3
  <2>5. QED
    BY <2>1, <2>4
<1>2. QED
  BY <1>1

LEMMA OnlyTwice ==
  ASSUME NEW S, NEW x, NEW y
  PROVE  \A s \in Seq(S) : Only(Only(s, x), y) = Only(s, x \cap y)
<1> DEFINE T == {s \in Seq(S) : Only(Only(s, x), y) = Only(s, x \cap y)}
<1>1. <<>> \in T
  BY OnlyEmpty
<1>2. ASSUME NEW s \in Seq(S), NEW e \in S, s \in T PROVE Append(s, e) \in T
  <2>1. Only(s, x) \in Seq(S)
    BY OnlyElements
  <2>2. /\ Only(Append(s, e), x) = IF e \in x THEN Append(Only(s, x), e) ELSE Only(s, x)
        /\ Only(Append(s, e), x \cap y) =
             IF e \in x \cap y THEN Append(Only(s, x \cap y), e) ELSE Only(s, x \cap y)
    BY OnlyAppend
  <2>3. Only(Append(Only(s, x), e), y) =
          IF e \in y THEN Append(Only(Only(s, x), y), e) ELSE Only(Only(s, x), y)
    BY <2>1, OnlyAppend
  <2>4. Only(Only(s, x), y) = Only(s, x \cap y)
    BY <1>2
  <2>5. Only(Only(Append(s, e), x), y) = Only(Append(s, e), x \cap y)
    <3>1. CASE e \in x
      <4>1. Only(Append(s, e), x) = Append(Only(s, x), e) /\ (e \in x \cap y <=> e \in y)
        BY <2>2, <3>1
      <4>2. QED
        BY <2>2, <2>3, <2>4, <4>1, Zenon
    <3>2. CASE e \notin x
      <4>1. Only(Append(s, e), x) = Only(s, x) /\ e \notin x \cap y
        BY <2>2, <3>2
      <4>2. QED
        BY <2>2, <2>4, <4>1, Zenon
    <3>3. QED
      BY <3>1, <3>2
  <2>6. QED
    BY <2>5
<1>3. Seq(S) \subseteq T
  <2> HIDE DEF T
  <2>1. QED
    BY <1>1, <1>2, SequenceInduction
<1>4. QED
  BY <1>3

\* Without is Only with all other elements there may be.
LEMMA WithoutIsOnly ==
  ASSUME NEW S, NEW s \in Seq(S), NEW set
  PROVE  Without(s, set) = Only(s, S \ set)
<1>1. Range(s) \subseteq S
  BY RangeOfSeq
<1>2. Range(s) \cap (Range(s) \ set) = Range(s) \cap (S \ set)
  BY <1>1
<1>3. QED
  BY <1>2, OnlySame DEF Without

-----------------------------------------------------------------------------
(* Places in a file *)

LEMMA MinOfNat ==
  ASSUME NEW T, T \subseteq Nat, T # {}
  PROVE  Min(T) \in T /\ \A y \in T : Min(T) <= y
<1>1. PICK n \in T : \A k \in T : <<k, n>> \notin OpToRel(<, Nat)
  BY WFMin, NatLessThanWellFounded
<1>2. \A k \in T : k \in Nat /\ n \in Nat /\ ~(k < n)
  BY <1>1, Zenon DEF OpToRel
<1>3. \A k \in T : n <= k
  BY <1>2
<1>4. \E x \in T : \A y \in T : x <= y
  BY <1>3
<1>5. QED
  BY <1>4, Zenon DEF Min

LEMMA MaxOfPlaces ==
  ASSUME NEW n \in Nat, NEW T, T \subseteq 1..n, T # {}
  PROVE  Max(T) \in T /\ \A y \in T : y <= Max(T)
<1> DEFINE U == {n - y : y \in T}
<1>1. U \subseteq Nat /\ U # {}
  <2>1. \A y \in T : y \in 1..n
    OBVIOUS
  <2>2. \A y \in 1..n : n - y \in Nat
    OBVIOUS
  <2>3. PICK y \in T : TRUE
    OBVIOUS
  <2>4. n - y \in U
    BY <2>3
  <2>5. QED
    BY <2>1, <2>2, <2>4
<1>2. Min(U) \in U /\ \A y \in U : Min(U) <= y
  BY <1>1, MinOfNat
<1>3. PICK x \in T : Min(U) = n - x
  BY <1>2
<1>4. \A y \in T : n - x <= n - y
  BY <1>2, <1>3
<1>5. \A y \in T : y <= x
  BY <1>4
<1>6. \E z \in T : \A y \in T : z >= y
  BY <1>5
<1>7. Max(T) \in T /\ \A y \in T : Max(T) >= y
  BY <1>6, Zenon DEF Max
<1>8. QED
  BY <1>7

Cuts(S, s, n) ==
  /\ SubSeq(s, 1, n) \in Seq(S) /\ SubSeq(s, n + 1, Len(s)) \in Seq(S)
  /\ s = SubSeq(s, 1, n) \o SubSeq(s, n + 1, Len(s))
  /\ Range(SubSeq(s, 1, n)) = {s[i] : i \in 1..n}
  /\ Range(SubSeq(s, n + 1, Len(s))) = {s[i] : i \in n + 1..Len(s)}

LEMMA SequenceCut ==
  ASSUME NEW S, NEW s \in Seq(S), NEW n \in 0..Len(s)
  PROVE  Cuts(S, s, n)
<1> DEFINE a == SubSeq(s, 1, n)
           b == SubSeq(s, n + 1, Len(s))
<1>1. /\ a \in Seq(S) /\ Len(a) = n /\ \A i \in 1..n : a[i] = s[i]
      /\ b \in Seq(S) /\ Len(b) = Len(s) - n /\ \A i \in 1..Len(s) - n : b[i] = s[n + i]
  OBVIOUS
<1> HIDE DEF a, b
<1>2. a \o b \in Seq(S) /\ Len(a \o b) = Len(s)
  BY <1>1, SMTT(60)
<1>3. \A i \in 1..Len(s) : (a \o b)[i] = s[i]
  <2>1. \A i \in 1..Len(s) : (a \o b)[i] = IF i <= n THEN a[i] ELSE b[i - n]
    BY <1>1, ConcatProperties
  <2>2. ASSUME NEW i \in 1..Len(s), i > n PROVE i - n \in 1..Len(s) - n /\ n + (i - n) = i
    BY <2>2
  <2>3. ASSUME NEW i \in 1..Len(s), i <= n PROVE i \in 1..n
    BY <2>3
  <2>4. QED
    BY <1>1, <2>1, <2>2, <2>3, SMTT(60)
<1>4. s = a \o b
  BY <1>2, <1>3, SeqEqual
<1>5. DOMAIN a = 1..n /\ DOMAIN b = 1..Len(s) - n
  BY <1>1
<1>6. Range(a) = {s[i] : i \in 1..n}
  <2>1. Range(a) = {a[i] : i \in 1..n}
    BY <1>5 DEF Range
  <2>2. QED
    BY <1>1, <2>1
<1>7. Range(b) = {s[i] : i \in n + 1..Len(s)}
  <2>0. Range(b) = {b[i] : i \in 1..Len(s) - n}
    BY <1>5 DEF Range
  <2>1. Range(b) = {s[n + i] : i \in 1..Len(s) - n}
    <3>1. \A i \in 1..Len(s) - n : b[i] = s[n + i]
      BY <1>1
    <3>2. QED
      BY <2>0, <3>1, Zenon
  <2>2. ASSUME NEW i \in 1..Len(s) - n PROVE n + i \in n + 1..Len(s)
    OBVIOUS
  <2>3. ASSUME NEW i \in n + 1..Len(s) PROVE i - n \in 1..Len(s) - n /\ n + (i - n) = i
    OBVIOUS
  <2>4. QED
    BY <2>1, <2>2, <2>3
<1>8. QED
  BY <1>1, <1>4, <1>6, <1>7 DEF a, b, Cuts

-----------------------------------------------------------------------------
(* Lines and parameters *)

LEMMA BlankIsNone ==
  /\ \A names : "" \in names => Blank \in Lines(names)
  /\ \A param : Blank \notin Active(param) /\ Blank \notin Shown(param)
  /\ \A params : Blank \notin Assigning(params)
<1>1. ASSUME NEW names, "" \in names PROVE Blank \in Lines(names)
  <2>1. "blank" \in LineKinds /\ 0 \in Int
    BY DEF LineKinds
  <2>2. QED
    BY <1>1, <2>1 DEF Blank, Lines
<1>2. Blank[1] = "blank"
  BY DEF Blank
<1>3. ASSUME NEW params, NEW line \in Assigning(params) PROVE line[1] \in {"active", "indented"}
  BY <1>3 DEF Assigning
<1>4. ASSUME NEW param, NEW line \in Active(param) PROVE line[1] = "active"
  BY <1>4 DEF Active
<1>5. ASSUME NEW param, NEW line \in Shown(param) PROVE line[1] = "comment"
  BY <1>5 DEF Shown
<1>6. QED
  BY <1>1, <1>2, <1>3, <1>4, <1>5

LEMMA ActiveLineSets ==
  ASSUME NEW names, NEW param \in names, NEW value \in Int
  PROVE  /\ ActiveLine(param, value) \in Lines(names)
         /\ ActiveLine(param, value) \in Active(param)
         /\ ActiveLine(param, value)[3] = value
BY DEF ActiveLine, Lines, LineKinds, Active

LEMMA AssignmentsAre ==
  ASSUME NEW names, NEW param \in names, NEW values \in Seq(Int)
  PROVE  /\ Assignments(param, values) \in Seq(Lines(names))
         /\ Len(Assignments(param, values)) = Len(values)
         /\ \A i \in 1..Len(values) : Assignments(param, values)[i] = ActiveLine(param, values[i])
         /\ Range(Assignments(param, values)) \subseteq Active(param)
<1> DEFINE a == Assignments(param, values)
<1>1. DOMAIN values = 1..Len(values) /\ Len(values) \in Nat
        /\ \A i \in 1..Len(values) : values[i] \in Int
  OBVIOUS
<1>2. a = [i \in 1..Len(values) |-> ActiveLine(param, values[i])]
  BY <1>1 DEF Assignments
<1>3. \A i \in 1..Len(values) : ActiveLine(param, values[i]) \in Lines(names) \cap Active(param)
  BY <1>1, ActiveLineSets
<1> HIDE DEF a
<1>4. DOMAIN a = 1..Len(values) /\ \A i \in 1..Len(values) : a[i] = ActiveLine(param, values[i])
  BY <1>2, Zenon
<1>5. a \in [1..Len(values) -> Lines(names)]
  <2>1. \A i \in 1..Len(values) : ActiveLine(param, values[i]) \in Lines(names)
    BY <1>3
  <2>2. QED
    BY <1>2, <2>1, Zenon
<1>6. a \in Seq(Lines(names)) /\ Len(a) = Len(values)
  BY <1>1, <1>4, <1>5
<1>7. Range(a) \subseteq Active(param)
  BY <1>3, <1>4 DEF Range
<1>8. QED
  BY <1>4, <1>6, <1>7 DEF a

LEMMA ValuesAre ==
  ASSUME NEW names, NEW param
  PROVE  \A lines \in Seq(Lines(names)) :
           /\ Values(lines, param) \in Seq(Int)
           /\ Len(Values(lines, param)) = Len(Only(lines, Active(param)))
           /\ \A i \in 1..Len(Only(lines, Active(param))) :
                Values(lines, param)[i] = Only(lines, Active(param))[i][3]
<1> TAKE lines \in Seq(Lines(names))
<1> DEFINE active == Only(lines, Active(param))
           values == Values(lines, param)
<1>1. active \in Seq(Lines(names))
  BY OnlyElements
<1>2. DOMAIN active = 1..Len(active) /\ Len(active) \in Nat
  BY <1>1
<1>3. \A i \in 1..Len(active) : active[i][3] \in Int
  <2>1. \A line \in Lines(names) : line[3] \in Int
    BY DEF Lines
  <2>2. QED
    BY <1>1, <2>1
<1>4. values = [i \in 1..Len(active) |-> active[i][3]]
  BY <1>2 DEF Values
<1> HIDE DEF active, values
<1>5. DOMAIN values = 1..Len(active) /\ \A i \in 1..Len(active) : values[i] = active[i][3]
  BY <1>4, Zenon
<1>6. values \in [1..Len(active) -> Int]
  BY <1>3, <1>4, Zenon
<1>7. values \in Seq(Int) /\ Len(values) = Len(active)
  BY <1>2, <1>5, <1>6
<1>8. QED
  BY <1>5, <1>7 DEF active, values

LEMMA ValuesConcat ==
  ASSUME NEW names, NEW param
  PROVE  \A s, t \in Seq(Lines(names)) :
           Values(s \o t, param) = Values(s, param) \o Values(t, param)
<1> TAKE s, t \in Seq(Lines(names))
<1> DEFINE a == Only(s, Active(param))
           b == Only(t, Active(param))
           v == Values(s, param)
           w == Values(t, param)
<1>1. a \in Seq(Lines(names)) /\ b \in Seq(Lines(names))
  BY OnlyElements
<1>2. PICK c \in Seq(Lines(names)) : c = s \o t
  <2>1. s \o t \in Seq(Lines(names))
    OBVIOUS
  <2>2. QED
    BY <2>1, Zenon
<1> DEFINE u == Values(c, param)
<1>3. /\ u \in Seq(Int) /\ Len(u) = Len(a \o b)
      /\ \A i \in 1..Len(a \o b) : u[i] = (a \o b)[i][3]
  <2>1. Only(c, Active(param)) = a \o b
    BY <1>2, OnlyConcat
  <2>2. /\ u \in Seq(Int) /\ Len(u) = Len(Only(c, Active(param)))
        /\ \A i \in 1..Len(Only(c, Active(param))) : u[i] = Only(c, Active(param))[i][3]
    BY ValuesAre
  <2> HIDE DEF a, b, u
  <2>3. QED
    BY <2>1, <2>2
<1>4. v \in Seq(Int) /\ Len(v) = Len(a) /\ \A i \in 1..Len(a) : v[i] = a[i][3]
  BY ValuesAre
<1>5. w \in Seq(Int) /\ Len(w) = Len(b) /\ \A i \in 1..Len(b) : w[i] = b[i][3]
  BY ValuesAre
<1> HIDE DEF a, b, v, w, u
<1>6. /\ Len(a \o b) = Len(a) + Len(b)
      /\ \A i \in 1..Len(a) + Len(b) : (a \o b)[i] = IF i <= Len(a) THEN a[i] ELSE b[i - Len(a)]
  BY <1>1, ConcatProperties
<1>7. /\ v \o w \in Seq(Int) /\ Len(v \o w) = Len(a) + Len(b)
      /\ \A i \in 1..Len(a) + Len(b) : (v \o w)[i] = IF i <= Len(a) THEN v[i] ELSE w[i - Len(a)]
  <2>1. v \in Seq(Int) /\ w \in Seq(Int) /\ Len(v) = Len(a) /\ Len(w) = Len(b)
    BY <1>4, <1>5
  <2>2. /\ v \o w \in Seq(Int) /\ Len(v \o w) = Len(v) + Len(w)
        /\ \A i \in 1..Len(v) + Len(w) : (v \o w)[i] = IF i <= Len(v) THEN v[i] ELSE w[i - Len(v)]
    BY <2>1, ConcatProperties
  <2>3. QED
    BY <2>1, <2>2
<1>8. ASSUME NEW i \in 1..Len(a) + Len(b) PROVE u[i] = (v \o w)[i]
  <2>1. Len(a) \in Nat /\ Len(b) \in Nat
    BY <1>1
  <2>2. u[i] = (a \o b)[i][3]
    BY <1>3, <1>6
  <2>3. CASE i <= Len(a)
    <3>1. i \in 1..Len(a)
      BY <2>1, <2>3
    <3>2. QED
      BY <1>4, <1>6, <1>7, <2>2, <2>3, <3>1
  <2>4. CASE ~(i <= Len(a))
    <3>1. i - Len(a) \in 1..Len(b)
      BY <2>1, <2>4
    <3>2. QED
      BY <1>5, <1>6, <1>7, <2>2, <2>4, <3>1
  <2>5. QED
    BY <2>3, <2>4
<1>9. u = v \o w
  BY <1>3, <1>6, <1>7, <1>8, SeqEqual
<1>10. QED
  BY <1>2, <1>9 DEF u, v, w

LEMMA ValuesNone ==
  ASSUME NEW names, NEW param, NEW lines \in Seq(Lines(names)),
         Range(lines) \cap Active(param) = {}
  PROVE  Values(lines, param) = <<>>
<1>1. Only(lines, Active(param)) = <<>>
  BY OnlyNone
<1>2. Values(lines, param) \in Seq(Int) /\ Len(Values(lines, param)) = 0
  BY <1>1, ValuesAre
<1>3. QED
  BY <1>2

LEMMA ValuesOfAssignments ==
  ASSUME NEW names, NEW param \in names, NEW values \in Seq(Int)
  PROVE  Values(Assignments(param, values), param) = values
<1> DEFINE a == Assignments(param, values)
           v == Values(a, param)
<1>1. /\ a \in Seq(Lines(names)) /\ Len(a) = Len(values) /\ Range(a) \subseteq Active(param)
      /\ \A i \in 1..Len(values) : a[i] = ActiveLine(param, values[i])
  BY AssignmentsAre
<1> HIDE DEF a
<1>2. Only(a, Active(param)) = a
  BY <1>1, OnlyAll
<1>3. v \in Seq(Int) /\ Len(v) = Len(a) /\ \A i \in 1..Len(a) : v[i] = a[i][3]
  BY <1>1, <1>2, ValuesAre
<1>4. \A i \in 1..Len(values) : values[i] \in Int
  OBVIOUS
<1> HIDE DEF v
<1>5. \A i \in 1..Len(values) : v[i] = values[i]
  <2>1. \A i \in 1..Len(values) : v[i] = ActiveLine(param, values[i])[3]
    BY <1>1, <1>3
  <2>2. \A i \in 1..Len(values) : ActiveLine(param, values[i])[3] = values[i]
    BY DEF ActiveLine
  <2>3. QED
    BY <2>1, <2>2
<1>6. v = values
  BY <1>1, <1>3, <1>5, SeqEqual
<1>7. QED
  BY <1>6 DEF a, v

-----------------------------------------------------------------------------
(* Insert *)

LEMMA AnchorIs ==
  ASSUME NEW names, NEW param, NEW lines \in Seq(Lines(names))
  PROVE  /\ Anchor(lines, param) \in 0..Len(lines)
         /\ \A i \in 1..Len(lines) : lines[i] \in Active(param) => i <= Anchor(lines, param)
         /\ Anchor(lines, param) = 0 <=>
              \A i \in 1..Len(lines) : lines[i] \notin Active(param) \cup Shown(param)
<1> DEFINE active == {i \in DOMAIN lines : lines[i] \in Active(param)}
           shown == {i \in DOMAIN lines : lines[i] \in Shown(param)}
<1>1. DOMAIN lines = 1..Len(lines) /\ Len(lines) \in Nat
  OBVIOUS
<1>2. active \subseteq 1..Len(lines) /\ shown \subseteq 1..Len(lines) /\ shown \subseteq Nat
  BY <1>1
<1>3. Anchor(lines, param) =
        IF active # {} THEN Max(active) ELSE IF shown # {} THEN Min(shown) ELSE 0
  BY DEF Anchor
<1>4. CASE active # {}
  <2>1. Max(active) \in active /\ \A y \in active : y <= Max(active)
    BY <1>1, <1>2, <1>4, MaxOfPlaces
  <2>2. Max(active) \in 1..Len(lines) /\ lines[Max(active)] \in Active(param)
    BY <1>2, <2>1
  <2>3. QED
    BY <1>1, <1>3, <1>4, <2>1, <2>2
<1>5. CASE active = {} /\ shown # {}
  <2>1. Min(shown) \in shown
    BY <1>2, <1>5, MinOfNat
  <2>2. Min(shown) \in 1..Len(lines) /\ lines[Min(shown)] \in Shown(param)
    BY <1>2, <2>1
  <2>3. QED
    BY <1>1, <1>3, <1>5, <2>2
<1>6. CASE active = {} /\ shown = {}
  BY <1>1, <1>3, <1>6
<1>7. QED
  BY <1>4, <1>5, <1>6

LEMMA SeparatedIs ==
  ASSUME NEW names, Blank \in Lines(names), NEW lines \in Seq(Lines(names))
  PROVE  /\ Separated(lines) \in Seq(Lines(names))
         /\ Separated(lines) = lines \/ Separated(lines) = lines \o <<Blank>>
         /\ Separated(Separated(lines)) = Separated(lines)
         /\ Separated(lines) = <<>> <=> lines = <<>>
<1>1. Blank \in Lines(names)
  OBVIOUS
<1>2. CASE lines = <<>> \/ Last(lines) = Blank
  BY <1>2 DEF Separated
<1>3. CASE ~(lines = <<>> \/ Last(lines) = Blank)
  <2>1. Separated(lines) = Append(lines, Blank)
    BY <1>3 DEF Separated
  <2>2. /\ Append(lines, Blank) \in Seq(Lines(names))
        /\ Append(lines, Blank) = lines \o <<Blank>>
        /\ Append(lines, Blank) # <<>>
        /\ Last(Append(lines, Blank)) = Blank
    <3>1. /\ Append(lines, Blank) \in Seq(Lines(names)) /\ Append(lines, Blank) # <<>>
          /\ Len(Append(lines, Blank)) = Len(lines) + 1
          /\ Append(lines, Blank)[Len(lines) + 1] = Blank
      BY <1>1, AppendProperties
    <3>2. Append(lines, Blank) = lines \o <<Blank>>
      BY <1>1, AppendIsConcat
    <3>3. QED
      BY <3>1, <3>2 DEF Last
  <2>3. QED
    BY <1>3, <2>1, <2>2 DEF Separated
<1>4. QED
  BY <1>2, <1>3

-----------------------------------------------------------------------------
(* The laws of Without follow from those of Only. *)

LEMMA WithoutElements ==
  ASSUME NEW S, NEW set
  PROVE  \A s \in Seq(S) :
           /\ Without(s, set) \in Seq(S)
           /\ Range(Without(s, set)) = Range(s) \ set
<1> TAKE s \in Seq(S)
<1>1. Without(s, set) = Only(s, S \ set)
  BY WithoutIsOnly
<1>2. Only(s, S \ set) \in Seq(S) /\ Range(Only(s, S \ set)) = Range(s) \cap (S \ set)
  BY OnlyElements
<1>3. Range(s) \subseteq S
  BY RangeOfSeq
<1>4. QED
  BY <1>1, <1>2, <1>3

LEMMA WithoutConcat ==
  ASSUME NEW S, NEW set
  PROVE  \A s, t \in Seq(S) : Without(s \o t, set) = Without(s, set) \o Without(t, set)
<1> TAKE s, t \in Seq(S)
<1>1. s \o t \in Seq(S)
  OBVIOUS
<1>2. PICK st \in Seq(S) : st = s \o t
  BY <1>1, Zenon
<1>3. Without(st, set) = Only(st, S \ set)
  BY WithoutIsOnly
<1>4. Without(s, set) = Only(s, S \ set) /\ Without(t, set) = Only(t, S \ set)
  BY WithoutIsOnly
<1>5. Only(s \o t, S \ set) = Only(s, S \ set) \o Only(t, S \ set)
  BY OnlyConcat, ZenonT(60)
<1>6. QED
  BY <1>2, <1>3, <1>4, <1>5

LEMMA WithoutNone ==
  ASSUME NEW S, NEW set
  PROVE  \A s \in Seq(S) : Range(s) \cap set = {} => Without(s, set) = s
<1> TAKE s \in Seq(S)
<1> HAVE Range(s) \cap set = {}
<1>1. Without(s, set) = Only(s, S \ set)
  BY WithoutIsOnly
<1>2. Range(s) \subseteq S \ set
  BY RangeOfSeq
<1>3. QED
  BY <1>1, <1>2, OnlyAll

LEMMA WithoutAll ==
  ASSUME NEW S, NEW set
  PROVE  \A s \in Seq(S) : Range(s) \subseteq set => Without(s, set) = <<>>
<1> TAKE s \in Seq(S)
<1> HAVE Range(s) \subseteq set
<1>1. Without(s, set) = Only(s, S \ set)
  BY WithoutIsOnly
<1>2. QED
  BY <1>1, OnlyNone

LEMMA WithoutTwice ==
  ASSUME NEW S, NEW x, NEW y
  PROVE  \A s \in Seq(S) : Without(Without(s, x), y) = Without(s, x \cup y)
<1> TAKE s \in Seq(S)
<1>1. PICK t \in Seq(S) : t = Without(s, x)
  BY WithoutElements, Zenon
<1>2. Without(t, y) = Only(t, S \ y)
  BY WithoutIsOnly
<1>3. Without(s, x) = Only(s, S \ x) /\ Without(s, x \cup y) = Only(s, S \ (x \cup y))
  BY WithoutIsOnly
<1>4. Only(Only(s, S \ x), S \ y) = Only(s, (S \ x) \cap (S \ y))
  BY OnlyTwice
<1>5. (S \ x) \cap (S \ y) = S \ (x \cup y)
  OBVIOUS
<1>6. QED
  BY <1>1, <1>2, <1>3, <1>4, <1>5

-----------------------------------------------------------------------------
(* Insert adds the lines in one place, behind all that are active, and at   *)
(* most an empty line in front of them.                                     *)

Ahead(kept, at, added) ==
  IF at # 0 THEN SubSeq(kept, 1, at) ELSE IF added = <<>> THEN kept ELSE Separated(kept)
Behind(kept, at) == IF at # 0 THEN SubSeq(kept, at + 1, Len(kept)) ELSE <<>>

Inserted(names, kept, param, at, added) ==
  /\ Ahead(kept, at, added) \in Seq(Lines(names)) /\ Behind(kept, at) \in Seq(Lines(names))
  /\ Insert(kept, at, added) = (Ahead(kept, at, added) \o added) \o Behind(kept, at)
  /\ Range(Behind(kept, at)) \cap Active(param) = {}
  /\ Ahead(kept, at, added) \o Behind(kept, at) =
       IF at # 0 \/ added = <<>> THEN kept ELSE Separated(kept)

LEMMA InsertIs ==
  ASSUME NEW names, Blank \in Lines(names), NEW param, NEW kept \in Seq(Lines(names)),
         NEW at, at = Anchor(kept, param), NEW added \in Seq(Lines(names))
  PROVE  Inserted(names, kept, param, at, added)
<1>1. /\ at \in 0..Len(kept)
      /\ \A i \in 1..Len(kept) : kept[i] \in Active(param) => i <= at
  BY AnchorIs
<1>2. CASE at # 0
  <2> DEFINE pre == SubSeq(kept, 1, at)
             post == SubSeq(kept, at + 1, Len(kept))
  <2>1. Insert(kept, at, added) = (pre \o added) \o post
    BY <1>2 DEF Insert
  <2>2. /\ pre \in Seq(Lines(names)) /\ post \in Seq(Lines(names)) /\ kept = pre \o post
        /\ Range(post) = {kept[i] : i \in at + 1..Len(kept)}
    <3>1. Cuts(Lines(names), kept, at)
      BY <1>1, SequenceCut
    <3>2. QED
      BY <3>1 DEF Cuts
  <2>3. Range(post) \cap Active(param) = {}
    <3>1. \A i \in at + 1..Len(kept) : i \in 1..Len(kept) /\ ~(i <= at)
      BY <1>1
    <3>2. \A i \in at + 1..Len(kept) : kept[i] \notin Active(param)
      BY <1>1, <3>1
    <3> HIDE DEF pre, post
    <3>3. QED
      BY <2>2, <3>2
  <2>4. Ahead(kept, at, added) = pre /\ Behind(kept, at) = post
    BY <1>2 DEF Ahead, Behind
  <2> HIDE DEF pre, post
  <2>5. QED
    BY <1>2, <2>1, <2>2, <2>3, <2>4 DEF Inserted
<1>3. CASE at = 0
  <2>1. Behind(kept, at) = <<>> /\ Range(<<>>) = {}
    BY <1>3, RangeEmpty DEF Behind
  <2>2. PICK pre \in Seq(Lines(names)) :
          pre = Ahead(kept, at, added) /\ pre = IF added = <<>> THEN kept ELSE Separated(kept)
    BY <1>3, SeparatedIs DEF Ahead
  <2>3. Insert(kept, at, added) = pre \o added
    <3>1. kept \o <<>> = kept
      BY ConcatEmptySeq
    <3>2. QED
      BY <1>3, <2>2, <3>1 DEF Insert
  <2>4. pre \o added \in Seq(Lines(names))
    BY ConcatProperties
  <2>5. (pre \o added) \o <<>> = pre \o added /\ pre \o <<>> = pre
    BY <2>4, ConcatEmptySeq
  <2>6. PICK post \in Seq(Lines(names)) : post = Behind(kept, at) /\ post = <<>>
    BY <2>1, EmptySeq
  <2>7. (pre \o added) \o post = pre \o added /\ pre \o post = pre
    BY <2>5, <2>6
  <2>8. QED
    BY <1>3, <2>1, <2>2, <2>3, <2>6, <2>7 DEF Inserted
<1>4. QED
  BY <1>2, <1>3

-----------------------------------------------------------------------------
(* Rewrite *)

LEMMA OneBlank ==
  ASSUME NEW names, Blank \in Lines(names)
  PROVE  <<Blank>> \in Seq(Lines(names)) /\ Range(<<Blank>>) = {Blank}
<1>1. <<Blank>> \in Seq(Lines(names))
  OBVIOUS
<1>2. DOMAIN <<Blank>> = {1} /\ <<Blank>>[1] = Blank
  OBVIOUS
<1>3. QED
  BY <1>1, <1>2, Zenon DEF Range

\* An empty line at the end is no setting and no line of a user.
LEMMA BlankBehind ==
  ASSUME NEW names, Blank \in Lines(names), NEW param
  PROVE  \A lines \in Seq(Lines(names)) :
           /\ lines \o <<Blank>> \in Seq(Lines(names))
           /\ Values(lines \o <<Blank>>, param) = Values(lines, param)
           /\ Others(lines \o <<Blank>>, param) = Others(lines, param)
<1> TAKE lines \in Seq(Lines(names))
<1>1. /\ <<Blank>> \in Seq(Lines(names)) /\ Range(<<Blank>>) = {Blank}
      /\ Blank \notin Active(param)
  BY OneBlank, BlankIsNone
<1>2. Values(<<Blank>>, param) = <<>>
  BY <1>1, ValuesNone
<1>3. Others(<<Blank>>, param) = <<>>
  BY <1>1, WithoutAll DEF Others
<1>4. /\ Values(lines \o <<Blank>>, param) = Values(lines, param) \o <<>>
      /\ Others(lines \o <<Blank>>, param) = Others(lines, param) \o <<>>
  <2>1. Values(lines \o <<Blank>>, param) = Values(lines, param) \o Values(<<Blank>>, param)
    BY <1>1, ValuesConcat, ZenonT(60)
  <2>2. Others(lines \o <<Blank>>, param) = Others(lines, param) \o Others(<<Blank>>, param)
    <3>1. \A set : Without(lines \o <<Blank>>, set) = Without(lines, set) \o Without(<<Blank>>, set)
      BY <1>1, WithoutConcat, ZenonT(60)
    <3>2. QED
      BY <3>1, Zenon DEF Others
  <2>3. QED
    BY <1>2, <1>3, <2>1, <2>2
<1>5. Values(lines, param) \in Seq(Int) /\ Others(lines, param) \in Seq(Lines(names))
  BY ValuesAre, WithoutElements DEF Others
<1>6. /\ Values(lines, param) \o <<>> = Values(lines, param)
      /\ Others(lines, param) \o <<>> = Others(lines, param)
  BY <1>5, ConcatEmptySeq
<1>7. lines \o <<Blank>> \in Seq(Lines(names))
  BY <1>1, ConcatProperties
<1>8. QED
  BY <1>4, <1>6, <1>7

LEMMA WrittenIs ==
  ASSUME NEW names, Blank \in Lines(names), NEW param
  PROVE  \A lines \in Seq(Lines(names)) :
           /\ Written(lines) \in Seq(Lines(names)) /\ Written(lines) # <<>>
           /\ Written(Written(lines)) = Written(lines)
           /\ Values(Written(lines), param) = Values(lines, param)
           /\ Others(Written(lines), param) = Others(lines, param)
<1> TAKE lines \in Seq(Lines(names))
<1>1. CASE lines # <<>>
  BY <1>1 DEF Written
<1>2. CASE lines = <<>>
  <2>1. Written(lines) = lines \o <<Blank>> /\ lines \o <<Blank>> # <<>>
    BY <1>2 DEF Written
  <2>2. Written(lines) = <<Blank>> /\ Written(<<Blank>>) = <<Blank>>
    BY <1>2 DEF Written
  <2>3. QED
    BY <2>1, <2>2, BlankBehind
<1>3. QED
  BY <1>1, <1>2

\* Assignments between others add their values, and that is all.
Adds(pre, post, param, new, added) ==
  /\ Values((pre \o added) \o post, param) = Values(pre \o post, param) \o new
  /\ Others((pre \o added) \o post, param) = Others(pre \o post, param)
  /\ Without((pre \o added) \o post, Active(param)) = Without(pre \o post, Active(param))

LEMMA WithInserted ==
  ASSUME NEW names, NEW param \in names, NEW new \in Seq(Int), NEW added,
         added = Assignments(param, new),
         NEW pre \in Seq(Lines(names)), NEW post \in Seq(Lines(names)),
         Range(post) \cap Active(param) = {}
  PROVE  Adds(pre, post, param, new, added)
<1>1. /\ added \in Seq(Lines(names)) /\ Range(added) \subseteq Active(param)
      /\ Values(added, param) = new
  BY AssignmentsAre, ValuesOfAssignments
<1>2. PICK front \in Seq(Lines(names)) : front = pre \o added
  <2>1. pre \o added \in Seq(Lines(names))
    BY <1>1, ConcatProperties
  <2>2. QED
    BY <2>1, Zenon
<1>3. PICK lines \in Seq(Lines(names)) : lines = front \o post
  <2>1. front \o post \in Seq(Lines(names))
    BY ConcatProperties
  <2>2. QED
    BY <2>1, Zenon
<1>4. /\ Values(lines, param) = (Values(pre, param) \o new) \o Values(post, param)
      /\ Values(post, param) = <<>>
      /\ Values(pre \o post, param) = Values(pre, param) \o Values(post, param)
      /\ Values(pre, param) \in Seq(Int)
  <2>1. Values(front, param) = Values(pre, param) \o new
    <3>1. PICK a \in Seq(Lines(names)) : a = added
      BY <1>1, Zenon
    <3>2. front = pre \o a
      BY <1>2, <3>1, Zenon
    <3>3. Values(front, param) = Values(pre, param) \o Values(a, param)
      BY <3>2, ValuesConcat, SMTT(60)
    <3>4. QED
      BY <1>1, <3>1, <3>3, Zenon
  <2>2. Values(lines, param) = Values(front, param) \o Values(post, param)
    BY <1>3, ValuesConcat, SMTT(60)
  <2>3. Values(post, param) = <<>>
    BY ValuesNone
  <2>4. Values(pre \o post, param) = Values(pre, param) \o Values(post, param)
    BY ValuesConcat, ZenonT(60)
  <2>5. Values(pre, param) \in Seq(Int)
    BY ValuesAre
  <2>6. QED
    BY <2>1, <2>2, <2>3, <2>4, <2>5
<1>5. Values(lines, param) = Values(pre \o post, param) \o new
  <2>1. PICK v \in Seq(Int) : v = Values(pre, param)
    BY <1>4
  <2>2. v \o new \in Seq(Int) /\ (v \o new) \o <<>> = v \o new /\ v \o <<>> = v
    BY ConcatProperties, ConcatEmptySeq
  <2>3. QED
    BY <1>4, <2>1, <2>2
<1>6. ASSUME NEW set, Active(param) \subseteq set
      PROVE  Without(lines, set) = Without(pre \o post, set)
  <2>1. Without(added, set) = <<>>
    BY <1>1, <1>6, WithoutAll
  <2>2. Without(front, set) = Without(pre, set) \o Without(added, set)
    <3>1. \A s, t \in Seq(Lines(names)) : Without(s \o t, set) = Without(s, set) \o Without(t, set)
      BY WithoutConcat, ZenonT(60)
    <3>2. QED
      BY <1>1, <1>2, <3>1
  <2>3. Without(pre, set) \in Seq(Lines(names))
    BY WithoutElements
  <2>4. Without(pre, set) \o <<>> = Without(pre, set)
    BY <2>3, ConcatEmptySeq
  <2>5. /\ Without(lines, set) = Without(front, set) \o Without(post, set)
        /\ Without(pre \o post, set) = Without(pre, set) \o Without(post, set)
    BY <1>3, WithoutConcat, SMTT(60)
  <2>6. QED
    BY <2>1, <2>2, <2>4, <2>5
<1>7. QED
  BY <1>2, <1>3, <1>5, <1>6 DEF Others, Adds

LEMMA AnchorNone ==
  ASSUME NEW names, NEW param
  PROVE  \A lines \in Seq(Lines(names)) :
           Anchor(lines, param) = 0 <=> Range(lines) \cap (Active(param) \cup Shown(param)) = {}
<1> TAKE lines \in Seq(Lines(names))
<1>1. Range(lines) = {lines[i] : i \in 1..Len(lines)}
  <2>1. DOMAIN lines = 1..Len(lines)
    OBVIOUS
  <2>2. QED
    BY <2>1, Zenon DEF Range
<1>2. QED
  BY <1>1, AnchorIs

LEMMA RewriteAs ==
  ASSUME NEW names, NEW param \in names, NEW values \in Seq(Int)
  PROVE  \A lines, kept \in Seq(Lines(names)) :
           kept = Without(lines, Active(param)) =>
             /\ Range(kept) \cap Active(param) = {}
             /\ Values(kept, param) = <<>>
             /\ Others(kept, param) = Others(lines, param)
             /\ Rewrite(lines, param, values, FALSE) =
                  Written(Insert(kept, Anchor(kept, param), Assignments(param, values)))
<1> TAKE lines, kept \in Seq(Lines(names))
<1> HAVE kept = Without(lines, Active(param))
<1>1. Range(kept) \cap Active(param) = {}
  BY WithoutElements
<1>2. Values(kept, param) = <<>>
  BY <1>1, ValuesNone
<1>3. Others(kept, param) = Others(lines, param)
  <2>1. Without(Without(lines, Active(param)), Active(param) \cup {Blank}) =
          Without(lines, Active(param) \cup (Active(param) \cup {Blank}))
    BY WithoutTwice
  <2>2. Active(param) \cup (Active(param) \cup {Blank}) = Active(param) \cup {Blank}
    OBVIOUS
  <2>3. QED
    BY <2>1, <2>2 DEF Others
<1>4. Without(values, Range(Values(kept, param))) = values
  <2>1. Without(values, {}) = values
    BY WithoutNone
  <2>2. QED
    BY <1>2, <2>1, RangeEmpty
<1>5. Rewrite(lines, param, values, FALSE) =
        Written(Insert(kept, Anchor(kept, param), Assignments(param, values)))
  BY <1>4, Zenon DEF Rewrite
<1>6. QED
  BY <1>1, <1>2, <1>3, <1>5

LEMMA SeparatedRange ==
  ASSUME NEW names, Blank \in Lines(names)
  PROVE  \A lines \in Seq(Lines(names)) : Range(Separated(lines)) \subseteq Range(lines) \cup {Blank}
<1> TAKE lines \in Seq(Lines(names))
<1>1. Separated(lines) = lines \/ Separated(lines) = Append(lines, Blank)
  BY DEF Separated
<1>2. Range(Append(lines, Blank)) = Range(lines) \cup {Blank}
  BY RangeAppend
<1>3. QED
  BY <1>1, <1>2

\* Replacing a parameter gives it the values and nothing else, at the first
\* and at every later time.
Replaces(names, lines, param, values) ==
  /\ Rewrite(lines, param, values, FALSE) \in Seq(Lines(names))
  /\ Values(Rewrite(lines, param, values, FALSE), param) = values
  /\ Others(Rewrite(lines, param, values, FALSE), param) = Others(lines, param)
  /\ Rewrite(Rewrite(lines, param, values, FALSE), param, values, FALSE) =
       Rewrite(lines, param, values, FALSE)

\* rewriteParameter without preserving: the parameter has the values that were
\* given and no other, the lines of the user stay, and doing it again changes
\* nothing.
THEOREM RewriteReplaces ==
  ASSUME NEW names, Blank \in Lines(names), NEW param \in names, NEW values \in Seq(Int),
         NEW lines \in Seq(Lines(names))
  PROVE  Replaces(names, lines, param, values)
<1>1. PICK kept \in Seq(Lines(names)) : kept = Without(lines, Active(param))
  BY WithoutElements, Zenon
<1>2. PICK added \in Seq(Lines(names)) : added = Assignments(param, values)
  BY AssignmentsAre, Zenon
<1>0. \A l, k \in Seq(Lines(names)) :
        k = Without(l, Active(param)) =>
          /\ Range(k) \cap Active(param) = {}
          /\ Values(k, param) = <<>>
          /\ Others(k, param) = Others(l, param)
          /\ Rewrite(l, param, values, FALSE) = Written(Insert(k, Anchor(k, param), added))
  <2>1. \A l, k \in Seq(Lines(names)) :
          k = Without(l, Active(param)) =>
            /\ Range(k) \cap Active(param) = {}
            /\ Values(k, param) = <<>>
            /\ Others(k, param) = Others(l, param)
            /\ Rewrite(l, param, values, FALSE) =
                 Written(Insert(k, Anchor(k, param), Assignments(param, values)))
    BY RewriteAs, Zenon
  <2>2. QED
    BY <1>2, <2>1
<1>3. PICK at : at = Anchor(kept, param)
  OBVIOUS
<1>c. Inserted(names, kept, param, at, added)
  BY <1>3, InsertIs
<1>4. PICK pre, post \in Seq(Lines(names)) :
        pre = Ahead(kept, at, added) /\ post = Behind(kept, at)
  BY <1>c DEF Inserted
<1>5. /\ Insert(kept, at, added) = (pre \o added) \o post
      /\ Range(post) \cap Active(param) = {}
      /\ pre \o post = IF at # 0 \/ added = <<>> THEN kept ELSE Separated(kept)
  BY <1>c, <1>4 DEF Inserted
<1>a. PICK q \in Seq(Lines(names)) : q = (pre \o added) \o post
  <2>1. (pre \o added) \o post \in Seq(Lines(names))
    BY ConcatProperties
  <2>2. QED
    BY <2>1, Zenon
<1>b. PICK around \in Seq(Lines(names)) : around = pre \o post
  <2>1. pre \o post \in Seq(Lines(names))
    BY ConcatProperties
  <2>2. QED
    BY <2>1, Zenon
<1>6. /\ Range(kept) \cap Active(param) = {}
      /\ Values(kept, param) = <<>>
      /\ Others(kept, param) = Others(lines, param)
      /\ Rewrite(lines, param, values, FALSE) = Written(q)
  <2>1. /\ Range(kept) \cap Active(param) = {}
        /\ Values(kept, param) = <<>>
        /\ Others(kept, param) = Others(lines, param)
        /\ Rewrite(lines, param, values, FALSE) =
             Written(Insert(kept, at, added))
    BY <1>0, <1>1, <1>3
  <2>2. QED
    BY <1>3, <1>5, <1>a, <2>1
<1>7. around = kept \/ around = kept \o <<Blank>>
  BY <1>5, <1>b, SeparatedIs
<1>8. Values(around, param) = <<>> /\ Others(around, param) = Others(lines, param)
  BY <1>6, <1>7, BlankBehind
<1>9. /\ Values(q, param) = Values(around, param) \o values
      /\ Others(q, param) = Others(around, param)
      /\ Without(q, Active(param)) = Without(around, Active(param))
  <2>1. /\ Values((pre \o added) \o post, param) = Values(pre \o post, param) \o values
        /\ Others((pre \o added) \o post, param) = Others(pre \o post, param)
        /\ Without((pre \o added) \o post, Active(param)) = Without(pre \o post, Active(param))
    <3>1. Adds(pre, post, param, values, added)
      BY <1>2, <1>5, WithInserted
    <3>2. QED
      BY <3>1 DEF Adds
  <2>2. QED
    BY <1>a, <1>b, <2>1
<1>10. Values(q, param) = values /\ Others(q, param) = Others(lines, param)
  BY <1>8, <1>9, ConcatEmptySeq
<1>11. /\ Written(q) \in Seq(Lines(names)) /\ Written(Written(q)) = Written(q)
       /\ Values(Written(q), param) = values /\ Others(Written(q), param) = Others(lines, param)
  BY <1>10, WrittenIs
<1>12. Rewrite(Written(q), param, values, FALSE) = Written(q)
  <2>1. CASE at = 0 /\ added = <<>>
    <3>1. q = kept
      <4>1. Insert(kept, at, added) = kept
        BY <2>1 DEF Insert
      <4>2. QED
        BY <1>5, <1>a, <4>1
    <3>2. PICK r \in Seq(Lines(names)) : r = Written(q)
      BY <1>11, Zenon
    <3>3. Range(kept) \cap (Active(param) \cup Shown(param)) = {}
      BY <1>3, <2>1, AnchorNone
    <3>4. Range(r) \subseteq Range(kept) \cup {Blank}
      <4>1. r = kept \/ r = <<Blank>>
        BY <3>1, <3>2 DEF Written
      <4>2. QED
        BY <4>1, OneBlank
    <3>5. Range(r) \cap (Active(param) \cup Shown(param)) = {}
      BY <3>3, <3>4, BlankIsNone
    <3>6. r = Without(r, Active(param)) /\ Anchor(r, param) = 0
      BY <3>5, WithoutNone, AnchorNone
    <3>7. Rewrite(r, param, values, FALSE) = Written(Insert(r, Anchor(r, param), added))
      BY <1>0, <3>6
    <3>8. Insert(r, Anchor(r, param), added) = r
      BY <2>1, <3>6 DEF Insert
    <3>9. QED
      BY <1>11, <3>2, <3>7, <3>8
  <2>2. CASE at # 0
    <3>1. around = kept
      BY <1>5, <1>b, <2>2
    <3>2. kept # <<>>
      <4>1. Range(<<>>) \cap (Active(param) \cup Shown(param)) = {}
        BY RangeEmpty
      <4>2. QED
        BY <1>3, <2>2, <4>1, AnchorNone
    <3>3. q # <<>>
      <4>1. Len(q) = Len(pre) + Len(added) + Len(post) /\ Len(around) = Len(pre) + Len(post)
        <5>1. Len(pre \o added) = Len(pre) + Len(added) /\ pre \o added \in Seq(Lines(names))
          BY ConcatProperties
        <5>2. QED
          BY <1>a, <1>b, <5>1, ConcatProperties
      <4>2. Len(around) # 0
        BY <3>1, <3>2
      <4>3. Len(q) # 0
        BY <4>1, <4>2
      <4>4. QED
        BY <4>3
    <3>4. Written(q) = q
      BY <3>3 DEF Written
    <3>5. kept = Without(q, Active(param))
      BY <1>6, <1>9, <3>1, WithoutNone
    <3>6. Rewrite(q, param, values, FALSE) = Written(Insert(kept, at, added))
      BY <1>0, <1>3, <3>5
    <3>7. QED
      BY <1>3, <1>5, <1>a, <3>4, <3>6
  <2>3. CASE at = 0 /\ added # <<>>
    <3>1. around = Separated(kept) /\ Separated(around) = around
      BY <1>5, <1>b, <2>3, SeparatedIs
    <3>2. Range(around) \cap (Active(param) \cup Shown(param)) = {}
      <4>1. Range(kept) \cap (Active(param) \cup Shown(param)) = {}
        BY <1>3, <2>3, AnchorNone
      <4>2. Range(around) \subseteq Range(kept) \cup {Blank}
        BY <3>1, SeparatedRange
      <4>3. QED
        BY <4>1, <4>2, BlankIsNone
    <3>3. Anchor(around, param) = 0
      BY <3>2, AnchorNone
    <3>4. Insert(kept, at, added) = around \o added
      BY <2>3, <3>1 DEF Insert
    <3>5. Insert(around, Anchor(around, param), added) = around \o added
      BY <2>3, <3>1, <3>3 DEF Insert
    <3>6. q = around \o added
      BY <1>5, <1>a, <3>4
    <3>7. q # <<>>
      BY <2>3, <3>6, ConcatEqualIffEmpty
    <3>8. Written(q) = q
      BY <3>7 DEF Written
    <3>9. around = Without(q, Active(param))
      <4>1. Range(around) \cap Active(param) = {}
        BY <3>2
      <4>2. QED
        BY <1>9, <4>1, WithoutNone
    <3>10. Rewrite(q, param, values, FALSE) = Written(Insert(around, Anchor(around, param), added))
      BY <1>0, <3>9
    <3>11. QED
      BY <3>5, <3>6, <3>8, <3>10
  <2>4. QED
    BY <2>1, <2>2, <2>3
<1>13. QED
  BY <1>6, <1>11, <1>12 DEF Replaces

\* Merging adds the values that are not there yet, once and for all.
Merges(names, lines, param, values) ==
  /\ Rewrite(lines, param, values, TRUE) \in Seq(Lines(names))
  /\ Values(Rewrite(lines, param, values, TRUE), param) =
       Values(lines, param) \o Without(values, Range(Values(lines, param)))
  /\ Others(Rewrite(lines, param, values, TRUE), param) = Others(lines, param)
  /\ Rewrite(Rewrite(lines, param, values, TRUE), param, values, TRUE) =
       Rewrite(lines, param, values, TRUE)

LEMMA RangeConcat ==
  ASSUME NEW S
  PROVE  \A s, t \in Seq(S) : Range(s \o t) = Range(s) \cup Range(t)
<1> TAKE s, t \in Seq(S)
<1>1. /\ DOMAIN (s \o t) = 1..Len(s) + Len(t) /\ DOMAIN s = 1..Len(s) /\ DOMAIN t = 1..Len(t)
      /\ Len(s) \in Nat /\ Len(t) \in Nat
  BY ConcatProperties
<1>2. ASSUME NEW i \in 1..Len(s) PROVE i \in DOMAIN (s \o t) /\ (s \o t)[i] = s[i]
  BY <1>1
<1>3. ASSUME NEW i \in 1..Len(t)
      PROVE  i + Len(s) \in DOMAIN (s \o t) /\ (s \o t)[i + Len(s)] = t[i]
  BY <1>1
<1>4. ASSUME NEW i \in 1..Len(s) + Len(t)
      PROVE  (i \in 1..Len(s) /\ (s \o t)[i] = s[i])
               \/ (i - Len(s) \in 1..Len(t) /\ (s \o t)[i] = t[i - Len(s)])
  BY <1>1
<1>5. Range(s) \subseteq Range(s \o t)
  BY <1>1, <1>2, Zenon DEF Range
<1>6. Range(t) \subseteq Range(s \o t)
  BY <1>1, <1>3, Zenon DEF Range
<1>7. Range(s \o t) \subseteq Range(s) \cup Range(t)
  BY <1>1, <1>4, Zenon DEF Range
<1>8. QED
  BY <1>5, <1>6, <1>7

\* rewriteParameter preserving: the values that are missing are added behind
\* those of the user, whose lines stay, and doing it again changes nothing.
THEOREM RewriteMerges ==
  ASSUME NEW names, Blank \in Lines(names), NEW param \in names, NEW values \in Seq(Int),
         NEW lines \in Seq(Lines(names))
  PROVE  Merges(names, lines, param, values)
<1>1. PICK old \in Seq(Int) : old = Values(lines, param)
  BY ValuesAre
<1>2. PICK new \in Seq(Int) :
        new = Without(values, Range(old)) /\ Range(new) = Range(values) \ Range(old)
  BY WithoutElements
<1>3. PICK added \in Seq(Lines(names)) : added = Assignments(param, new)
  BY AssignmentsAre, Zenon
<1>4. PICK at : at = Anchor(lines, param)
  OBVIOUS
<1>5. Inserted(names, lines, param, at, added)
  BY <1>4, InsertIs
<1>6. PICK pre, post \in Seq(Lines(names)) :
        pre = Ahead(lines, at, added) /\ post = Behind(lines, at)
  BY <1>5 DEF Inserted
<1>7. /\ Insert(lines, at, added) = (pre \o added) \o post
      /\ Range(post) \cap Active(param) = {}
      /\ pre \o post = IF at # 0 \/ added = <<>> THEN lines ELSE Separated(lines)
  BY <1>5, <1>6 DEF Inserted
<1>8. PICK q \in Seq(Lines(names)) : q = (pre \o added) \o post
  <2>1. (pre \o added) \o post \in Seq(Lines(names))
    BY ConcatProperties
  <2>2. QED
    BY <2>1, Zenon
<1>9. pre \o post = lines \/ pre \o post = lines \o <<Blank>>
  BY <1>7, SeparatedIs
<1>10. /\ Values(pre \o post, param) = Values(lines, param)
       /\ Others(pre \o post, param) = Others(lines, param)
  BY <1>9, BlankBehind
<1>11. /\ Values(q, param) = old \o new
       /\ Others(q, param) = Others(lines, param)
  <2>1. Adds(pre, post, param, new, added)
    BY <1>3, <1>7, WithInserted
  <2>2. QED
    BY <1>1, <1>8, <1>10, <2>1 DEF Adds
<1>12. Rewrite(lines, param, values, TRUE) = Written(q)
  BY <1>1, <1>2, <1>3, <1>4, <1>7, <1>8 DEF Rewrite
<1>13. PICK r \in Seq(Lines(names)) :
         /\ r = Written(q) /\ r # <<>> /\ Written(r) = r
         /\ Values(r, param) = old \o new /\ Others(r, param) = Others(lines, param)
  BY <1>11, WrittenIs, ZenonT(60)
<1>14. Without(values, Range(Values(r, param))) = <<>>
  <2>1. Range(old \o new) = Range(old) \cup Range(new)
    BY RangeConcat
  <2>2. Range(values) \subseteq Range(old \o new)
    BY <1>2, <2>1
  <2>3. QED
    BY <1>13, <2>2, WithoutAll
<1>15. Assignments(param, <<>>) = <<>>
  BY DEF Assignments
<1>16. Insert(r, Anchor(r, param), <<>>) = r
  <2>1. PICK a : a = Anchor(r, param)
    OBVIOUS
  <2>2. Inserted(names, r, param, a, <<>>)
    BY <2>1, EmptySeq, InsertIs
  <2>3. /\ Insert(r, a, <<>>) = (Ahead(r, a, <<>>) \o <<>>) \o Behind(r, a)
        /\ Ahead(r, a, <<>>) \o Behind(r, a) = r
        /\ Ahead(r, a, <<>>) \in Seq(Lines(names))
    BY <2>2 DEF Inserted
  <2>4. Ahead(r, a, <<>>) \o <<>> = Ahead(r, a, <<>>)
    BY <2>3, ConcatEmptySeq
  <2>5. QED
    BY <2>1, <2>3, <2>4
<1>17. Rewrite(r, param, values, TRUE) = r
  BY <1>13, <1>14, <1>15, <1>16 DEF Rewrite
<1>18. QED
  BY <1>1, <1>2, <1>12, <1>13, <1>17 DEF Merges

-----------------------------------------------------------------------------
(* Indexed variables *)

Numbered(names, params, rules) ==
  /\ rules \in Seq(Lines(names))
  /\ Range(rules) \subseteq Assigning(params)
  /\ \A i \in 1..Len(rules) : rules[i][3] = i - 1

LEMMA CollectedIs ==
  ASSUME NEW names, NEW variables, IsFiniteSet(variables),
         variables \subseteq names \X Int \X BOOLEAN,
         NEW params, NEW strict, Collectable(variables, params, strict)
  PROVE  Numbered(names, params, Collected(variables, params))
<1> DEFINE found == Indexed(variables, params)
           n == Cardinality(found)
           V(i) == CHOOSE v \in found : v[2] = i - 1
<1>1. found \subseteq variables /\ \A v \in found : v[1] \in params
  BY DEF Indexed, OfPrefixes
<1>2. n \in Nat
  <2>1. IsFiniteSet(found)
    BY <1>1, FS_Subset
  <2>2. QED
    BY <2>1, FS_CardinalityType
<1>3. {v[2] : v \in found} = 0..(n - 1)
  BY DEF Collectable, Consecutive
<1>4. Collected(variables, params) = [i \in 1..n |-> ActiveLine(V(i)[1], V(i)[2])]
  BY Zenon DEF Collected
<1> HIDE DEF found, n
<1>5. ASSUME NEW i \in 1..n PROVE V(i) \in found /\ V(i)[2] = i - 1
  <2>1. i - 1 \in 0..(n - 1)
    BY <1>2
  <2>2. \E v \in found : v[2] = i - 1
    BY <1>3, <2>1
  <2>3. QED
    BY <2>2, Zenon
<1>6. ASSUME NEW v \in found, NEW i \in 1..n, v[2] = i - 1
      PROVE  /\ ActiveLine(v[1], v[2]) \in Lines(names)
             /\ ActiveLine(v[1], v[2]) \in Assigning(params)
             /\ ActiveLine(v[1], v[2])[3] = i - 1
  <2>1. v[1] \in params /\ v[1] \in names /\ v[2] \in Int
    BY <1>1
  <2>2. QED
    BY <1>6, <2>1 DEF ActiveLine, Lines, LineKinds, Assigning
<1> HIDE DEF V
<1>7. \A i \in 1..n : /\ ActiveLine(V(i)[1], V(i)[2]) \in Lines(names)
                      /\ ActiveLine(V(i)[1], V(i)[2]) \in Assigning(params)
                      /\ ActiveLine(V(i)[1], V(i)[2])[3] = i - 1
  BY <1>5, <1>6
<1>8. PICK rules : rules = Collected(variables, params)
  OBVIOUS
<1>9. DOMAIN rules = 1..n /\ \A i \in 1..n : rules[i] = ActiveLine(V(i)[1], V(i)[2])
  BY <1>4, <1>8, Zenon
<1>10. rules \in [1..n -> Lines(names)]
  BY <1>4, <1>7, <1>8, Zenon
<1>11. rules \in Seq(Lines(names)) /\ Len(rules) = n
  BY <1>2, <1>9, <1>10
<1>12. Range(rules) \subseteq Assigning(params)
  BY <1>7, <1>9, Zenon DEF Range
<1>13. QED
  BY <1>7, <1>8, <1>9, <1>11, <1>12 DEF Numbered

-----------------------------------------------------------------------------
(* Trimmed leaves what comes before the empty lines at the end. *)

EndsAt(lines, m) ==
  /\ m \in 0..Len(lines)
  /\ m # 0 => lines[m] # Blank
  /\ \A i \in m + 1..Len(lines) : lines[i] = Blank

LEMMA TrimmedTo ==
  ASSUME NEW names, NEW lines \in Seq(Lines(names)), NEW m, EndsAt(lines, m)
  PROVE  Trimmed(lines) = SubSeq(lines, 1, m)
<1> DEFINE filled == {i \in DOMAIN lines : lines[i] # Blank}
<1>1. DOMAIN lines = 1..Len(lines) /\ Len(lines) \in Nat
  OBVIOUS
<1>2. m \in 0..Len(lines) /\ filled \subseteq 1..Len(lines)
  BY <1>1 DEF EndsAt
<1>3. ASSUME NEW i \in filled PROVE i <= m
  <2>1. i \in 1..Len(lines) /\ lines[i] # Blank
    BY <1>1
  <2>2. i \notin m + 1..Len(lines)
    BY <2>1 DEF EndsAt
  <2>3. QED
    BY <1>1, <1>2, <2>1, <2>2
<1>4. Trimmed(lines) = IF filled = {} THEN <<>> ELSE SubSeq(lines, 1, Max(filled))
  BY DEF Trimmed
<1>5. CASE m = 0
  <2>1. filled = {}
    BY <1>2, <1>3, <1>5
  <2>2. SubSeq(lines, 1, 0) = <<>>
    OBVIOUS
  <2>3. QED
    BY <1>4, <1>5, <2>1, <2>2
<1>6. CASE m # 0
  <2>1. m \in filled
    BY <1>1, <1>2, <1>6 DEF EndsAt
  <2>2. Max(filled) \in filled /\ \A y \in filled : y <= Max(filled)
    BY <1>1, <1>2, <2>1, MaxOfPlaces
  <2>3. Max(filled) = m
    <3>1. Max(filled) <= m /\ m <= Max(filled)
      BY <1>3, <2>1, <2>2
    <3>2. Max(filled) \in 1..Len(lines)
      BY <1>2, <2>2
    <3> HIDE DEF filled
    <3>3. QED
      BY <1>1, <1>2, <3>1, <3>2
  <2> HIDE DEF filled
  <2>4. QED
    BY <1>4, <2>1, <2>3
<1>7. QED
  BY <1>5, <1>6

LEMMA EndsSomewhere ==
  ASSUME NEW names, NEW lines \in Seq(Lines(names))
  PROVE  \E m : EndsAt(lines, m)
<1> DEFINE filled == {i \in DOMAIN lines : lines[i] # Blank}
<1>1. DOMAIN lines = 1..Len(lines) /\ Len(lines) \in Nat
  OBVIOUS
<1>2. CASE filled = {}
  <2>1. EndsAt(lines, 0)
    BY <1>1, <1>2 DEF EndsAt
  <2>2. QED
    BY <2>1
<1>3. CASE filled # {}
  <2>1. filled \subseteq 1..Len(lines)
    BY <1>1
  <2>2. PICK m \in filled : \A y \in filled : y <= m
    BY <1>1, <1>3, <2>1, MaxOfPlaces
  <2>3. ASSUME NEW i \in m + 1..Len(lines) PROVE lines[i] = Blank
    <3>1. m \in Nat /\ i \in 1..Len(lines) /\ ~(i <= m)
      BY <1>1, <2>1
    <3>2. i \notin filled
      BY <2>2, <3>1
    <3>3. QED
      BY <1>1, <3>1, <3>2
  <2>4. EndsAt(lines, m)
    BY <1>1, <2>1, <2>3 DEF EndsAt
  <2>5. QED
    BY <2>4
<1>4. QED
  BY <1>2, <1>3

Trims(names, lines) ==
  /\ Trimmed(lines) \in Seq(Lines(names))
  /\ Range(Trimmed(lines)) \subseteq Range(lines)
  /\ Trimmed(Trimmed(lines)) = Trimmed(lines)
  /\ Trimmed(lines \o <<Blank>>) = Trimmed(lines)
  /\ \A params : OthersAny(Trimmed(lines), params) = OthersAny(lines, params)

LEMMA TrimmedIs ==
  ASSUME NEW names, Blank \in Lines(names), NEW lines \in Seq(Lines(names))
  PROVE  Trims(names, lines)
<1>1. PICK m : EndsAt(lines, m)
  BY EndsSomewhere
<1>2. m \in 0..Len(lines) /\ Len(lines) \in Nat
  BY <1>1 DEF EndsAt
<1>3. PICK pre, post \in Seq(Lines(names)) :
        /\ pre = SubSeq(lines, 1, m) /\ post = SubSeq(lines, m + 1, Len(lines))
        /\ lines = pre \o post
        /\ Range(pre) = {lines[i] : i \in 1..m}
        /\ Range(post) = {lines[i] : i \in m + 1..Len(lines)}
  <2>1. Cuts(Lines(names), lines, m)
    BY <1>2, SequenceCut
  <2>2. QED
    BY <2>1 DEF Cuts
<1>4. Trimmed(lines) = pre
  BY <1>1, <1>3, TrimmedTo
<1>5. Range(post) \subseteq {Blank}
  BY <1>1, <1>3 DEF EndsAt
<1>6. Range(pre) \subseteq Range(lines)
  <2>1. Range(pre \o post) = Range(pre) \cup Range(post)
    BY RangeConcat
  <2>2. QED
    BY <1>3, <2>1
<1>7. Len(pre) = m /\ \A i \in 1..m : pre[i] = lines[i]
  <2>1. ASSUME NEW S, NEW s \in Seq(S), NEW k \in 0..Len(s)
        PROVE  Len(SubSeq(s, 1, k)) = k /\ \A i \in 1..k : SubSeq(s, 1, k)[i] = s[i]
    OBVIOUS
  <2>2. QED
    BY <1>2, <1>3, <2>1, Zenon
<1>8. EndsAt(pre, m)
  <2>1. \A i \in m + 1..m : FALSE
    BY <1>2
  <2>2. m # 0 => m \in 1..m
    BY <1>2
  <2>3. QED
    BY <1>1, <1>2, <1>7, <2>1, <2>2 DEF EndsAt
<1>9. Trimmed(pre) = pre
  <2>1. Trimmed(pre) = SubSeq(pre, 1, m)
    BY <1>8, TrimmedTo
  <2>2. SubSeq(pre, 1, Len(pre)) = pre
    OBVIOUS
  <2>3. QED
    BY <1>7, <2>1, <2>2
<1>10. Trimmed(lines \o <<Blank>>) = pre
  <2>1. PICK more \in Seq(Lines(names)) : more = lines \o <<Blank>>
    BY BlankBehind, Zenon
  <2>2. /\ Len(more) = Len(lines) + 1
        /\ \A i \in 1..Len(lines) : more[i] = lines[i]
        /\ more[Len(lines) + 1] = Blank
    BY <2>1
  <2>3. EndsAt(more, m)
    <3>1. m # 0 => m \in 1..Len(lines)
      BY <1>2
    <3>2. \A i \in m + 1..Len(lines) + 1 :
            i = Len(lines) + 1 \/ (i \in m + 1..Len(lines) /\ i \in 1..Len(lines))
      BY <1>2
    <3>3. m \in 0..Len(lines) + 1
      BY <1>2
    <3>4. QED
      BY <1>1, <2>2, <3>1, <3>2, <3>3 DEF EndsAt
  <2>4. Trimmed(more) = SubSeq(more, 1, m)
    BY <2>3, TrimmedTo
  <2>5. SubSeq(more, 1, m) = pre
    <3>1. /\ SubSeq(more, 1, m) \in Seq(Lines(names)) /\ Len(SubSeq(more, 1, m)) = m
          /\ \A i \in 1..m : SubSeq(more, 1, m)[i] = more[i]
      BY <1>2, <2>2
    <3>2. \A i \in 1..m : i \in 1..Len(lines)
      BY <1>2
    <3>3. \A i \in 1..m : SubSeq(more, 1, m)[i] = pre[i]
      BY <1>7, <2>2, <3>1, <3>2
    <3>4. QED
      BY <1>7, <3>1, <3>3, SeqEqual
  <2>6. QED
    BY <2>1, <2>4, <2>5
<1>11. ASSUME NEW params PROVE OthersAny(pre, params) = OthersAny(lines, params)
  <2>1. PICK set : set = Assigning(params) \cup {Blank}
    OBVIOUS
  <2>2. Without(post, set) = <<>>
    BY <1>5, <2>1, WithoutAll
  <2>3. Without(lines, set) = Without(pre, set) \o Without(post, set)
    BY <1>3, WithoutConcat, ZenonT(60)
  <2>4. Without(pre, set) \in Seq(Lines(names))
    BY WithoutElements
  <2>5. Without(pre, set) \o <<>> = Without(pre, set)
    BY <2>4, ConcatEmptySeq
  <2>6. QED
    BY <2>1, <2>2, <2>3, <2>5 DEF OthersAny
<1>12. QED
  BY <1>4, <1>6, <1>9, <1>10, <1>11 DEF Trims

-----------------------------------------------------------------------------
(* ReplaceAtEnd *)

\* The rules are the only settings, behind the lines of the user.
ReplacesEnd(names, lines, params, rules) ==
  /\ ReplaceAtEnd(lines, params, rules) \in Seq(Lines(names))
  /\ Settings(ReplaceAtEnd(lines, params, rules), params) = rules
  /\ OthersAny(ReplaceAtEnd(lines, params, rules), params) = OthersAny(lines, params)
  /\ ReplaceAtEnd(ReplaceAtEnd(lines, params, rules), params, rules) =
       ReplaceAtEnd(lines, params, rules)

\* replaceIndexedParamsAtEnd: of all the rules those that were given are left, in
\* their order, the other lines stay, and doing it again changes nothing.
THEOREM ReplaceAtEndIs ==
  ASSUME NEW names, Blank \in Lines(names), NEW params, NEW lines \in Seq(Lines(names)),
         NEW rules \in Seq(Lines(names)), Range(rules) \subseteq Assigning(params)
  PROVE  ReplacesEnd(names, lines, params, rules)
<1>1. PICK own \in Seq(Lines(names)) :
        /\ own = Without(lines, Assigning(params))
        /\ Range(own) = Range(lines) \ Assigning(params)
  BY WithoutElements
<1>2. PICK kept \in Seq(Lines(names)) :
        /\ kept = Trimmed(own) /\ Range(kept) \subseteq Range(own)
        /\ Trimmed(kept) = kept /\ Trimmed(kept \o <<Blank>>) = kept
        /\ OthersAny(kept, params) = OthersAny(own, params)
  <2>1. Trims(names, own)
    BY TrimmedIs
  <2>2. PICK kept \in Seq(Lines(names)) : kept = Trimmed(own) /\ Range(kept) \subseteq Range(own)
    BY <2>1 DEF Trims
  <2>3. Trims(names, kept)
    BY TrimmedIs
  <2>4. QED
    BY <2>1, <2>2, <2>3 DEF Trims
<1>3. Range(kept) \cap Assigning(params) = {}
  BY <1>1, <1>2
<1>4. Blank \notin Assigning(params)
  BY BlankIsNone
<1>5. OthersAny(kept, params) = OthersAny(lines, params)
  <2>1. Without(Without(lines, Assigning(params)), Assigning(params) \cup {Blank}) =
          Without(lines, Assigning(params) \cup (Assigning(params) \cup {Blank}))
    BY WithoutTwice, SMTT(60)
  <2>2. Assigning(params) \cup (Assigning(params) \cup {Blank}) = Assigning(params) \cup {Blank}
    OBVIOUS
  <2>3. QED
    BY <1>1, <1>2, <2>1, <2>2 DEF OthersAny
<1>6. CASE rules = <<>>
  <2>1. PICK r \in Seq(Lines(names)) : r = Written(kept) /\ Written(r) = r
    BY WrittenIs
  <2>2. ReplaceAtEnd(lines, params, rules) = r
    BY <1>1, <1>2, <1>6, <2>1 DEF ReplaceAtEnd
  <2>3. r = kept \/ (kept = <<>> /\ r = <<Blank>>)
    BY <2>1 DEF Written
  <2>4. Range(r) \cap Assigning(params) = {}
    BY <1>3, <1>4, <2>3, OneBlank, SMTT(60)
  <2>5. Settings(r, params) = <<>>
    BY <2>4, OnlyNone DEF Settings
  <2>6. OthersAny(r, params) = OthersAny(kept, params)
    <3>1. CASE r = kept
      BY <3>1
    <3>2. CASE kept = <<>> /\ r = <<Blank>>
      <4>1. Range(r) \subseteq Assigning(params) \cup {Blank}
        BY <3>2, OneBlank
      <4>2. Range(kept) \subseteq Assigning(params) \cup {Blank}
        BY <3>2, RangeEmpty
      <4>3. /\ Without(r, Assigning(params) \cup {Blank}) = <<>>
            /\ Without(kept, Assigning(params) \cup {Blank}) = <<>>
        BY <4>1, <4>2, WithoutAll
      <4>4. QED
        BY <4>3 DEF OthersAny
    <3>3. QED
      BY <2>3, <3>1, <3>2
  <2>7. Without(r, Assigning(params)) = r
    BY <2>4, WithoutNone
  <2>8. Trimmed(r) = kept
    <3>1. kept = <<>> => <<Blank>> = kept \o <<Blank>>
      OBVIOUS
    <3>2. QED
      BY <1>2, <2>3, <3>1
  <2>9. ReplaceAtEnd(r, params, rules) = r
    BY <1>6, <2>1, <2>7, <2>8 DEF ReplaceAtEnd
  <2>10. QED
    BY <1>5, <1>6, <2>2, <2>5, <2>6, <2>9 DEF ReplacesEnd
<1>7. CASE rules # <<>>
  <2>1. PICK front \in Seq(Lines(names)) :
          front = Separated(kept) /\ (front = kept \/ front = kept \o <<Blank>>)
    BY SeparatedIs
  <2>2. PICK r \in Seq(Lines(names)) : r = front \o rules /\ r # <<>>
    <3>1. front \o rules \in Seq(Lines(names)) /\ front \o rules # <<>>
      BY <1>7, ConcatProperties, ConcatEqualIffEmpty
    <3>2. QED
      BY <3>1, Zenon
  <2>3. ReplaceAtEnd(lines, params, rules) = r
    BY <1>1, <1>2, <1>7, <2>1, <2>2 DEF ReplaceAtEnd, Written
  <2>4. Range(front) \subseteq Range(kept) \cup {Blank}
    BY <2>1, SeparatedRange
  <2>5. Range(front) \cap Assigning(params) = {}
    BY <1>3, <1>4, <2>4
  <2>6. Settings(r, params) = rules
    <3>1. Only(front, Assigning(params)) = <<>>
      BY <2>5, OnlyNone
    <3>2. Only(rules, Assigning(params)) = rules
      BY OnlyAll
    <3>3. Only(front \o rules, Assigning(params)) =
            Only(front, Assigning(params)) \o Only(rules, Assigning(params))
      BY OnlyConcat, ZenonT(60)
    <3>4. <<>> \o rules = rules
      BY ConcatEmptySeq
    <3>5. QED
      BY <2>2, <3>1, <3>2, <3>3, <3>4 DEF Settings
  <2>7. OthersAny(r, params) = OthersAny(kept, params)
    <3>1. PICK set : set = Assigning(params) \cup {Blank}
      OBVIOUS
    <3>2. Without(rules, set) = <<>>
      BY <3>1, WithoutAll
    <3>3. Without(front \o rules, set) = Without(front, set) \o Without(rules, set)
      BY WithoutConcat, ZenonT(60)
    <3>4. Without(front, set) \in Seq(Lines(names))
      BY WithoutElements
    <3>5. Without(front, set) \o <<>> = Without(front, set)
      BY <3>4, ConcatEmptySeq
    <3>6. Without(front, set) = Without(kept, set)
      <4>1. CASE front = kept
        BY <4>1
      <4>2. CASE front = kept \o <<Blank>>
        <5>1. <<Blank>> \in Seq(Lines(names)) /\ Without(<<Blank>>, set) = <<>>
          <6>1. <<Blank>> \in Seq(Lines(names)) /\ Range(<<Blank>>) \subseteq set
            BY <3>1, OneBlank
          <6>2. QED
            BY <6>1, WithoutAll
        <5>2. Without(kept \o <<Blank>>, set) = Without(kept, set) \o Without(<<Blank>>, set)
          BY <5>1, WithoutConcat, ZenonT(60)
        <5>3. Without(kept, set) \in Seq(Lines(names))
          BY WithoutElements
        <5>4. Without(kept, set) \o <<>> = Without(kept, set)
          BY <5>3, ConcatEmptySeq
        <5>5. QED
          BY <4>2, <5>1, <5>2, <5>4
      <4>3. QED
        BY <2>1, <4>1, <4>2
    <3>7. QED
      BY <2>2, <3>1, <3>2, <3>3, <3>5, <3>6 DEF OthersAny
  <2>8. Without(r, Assigning(params)) = front
    <3>1. Without(front, Assigning(params)) = front
      BY <2>5, WithoutNone
    <3>2. Without(rules, Assigning(params)) = <<>>
      BY WithoutAll
    <3>3. Without(front \o rules, Assigning(params)) =
            Without(front, Assigning(params)) \o Without(rules, Assigning(params))
      BY WithoutConcat
    <3>4. front \o <<>> = front
      BY ConcatEmptySeq
    <3>5. QED
      BY <2>2, <3>1, <3>2, <3>3, <3>4
  <2>9. Trimmed(front) = kept
    BY <1>2, <2>1
  <2>10. ReplaceAtEnd(r, params, rules) = r
    BY <1>7, <2>1, <2>2, <2>8, <2>9 DEF ReplaceAtEnd, Written
  <2>11. QED
    BY <1>5, <2>3, <2>6, <2>7, <2>10 DEF ReplacesEnd
<1>8. QED
  BY <1>6, <1>7

-----------------------------------------------------------------------------
(* Files of the web servers *)

LEMMA ContainsIs ==
  ASSUME NEW S
  PROVE  \A s \in Seq(S) : \A e : Contains(s, e) <=> e \in Range(s)
<1> TAKE s \in Seq(S)
<1> TAKE e
<1>1. DOMAIN s = 1..Len(s)
  OBVIOUS
<1>2. QED
  BY <1>1, Zenon DEF Contains, Range

\* The value is put in once and for all.
Fills(names, lines, params, value) ==
  /\ Filled(lines, params, value) \in Seq(Lines(names))
  /\ DOMAIN Filled(lines, params, value) = DOMAIN lines
  /\ Filled(Filled(lines, params, value), params, value) = Filled(lines, params, value)

LEMMA FilledIs ==
  ASSUME NEW names, NEW params, NEW value \in Int, NEW lines \in Seq(Lines(names))
  PROVE  Fills(names, lines, params, value)
<1> DEFINE Now(line) == IF line[1] = "placeholder" /\ line[2] \in params
                        THEN <<"text", line[2], value>> ELSE line
<1>1. \A line \in Lines(names) : Now(line) \in Lines(names) /\ Now(Now(line)) = Now(line)
  BY DEF Lines, LineKinds
<1>2. DOMAIN lines = 1..Len(lines) /\ Len(lines) \in Nat
        /\ \A i \in 1..Len(lines) : lines[i] \in Lines(names)
  OBVIOUS
<1>3. \A s : Filled(s, params, value) = [i \in DOMAIN s |-> Now(s[i])]
  BY Zenon DEF Filled
<1> HIDE DEF Now
<1>4. PICK r : r = Filled(lines, params, value)
  OBVIOUS
<1>5. DOMAIN r = 1..Len(lines) /\ \A i \in 1..Len(lines) : r[i] = Now(lines[i])
  BY <1>2, <1>3, <1>4
<1>6. r \in [1..Len(lines) -> Lines(names)]
  <2>1. r = [i \in 1..Len(lines) |-> Now(lines[i])]
    BY <1>2, <1>3, <1>4
  <2>2. QED
    BY <1>1, <1>2, <2>1
<1>7. r \in Seq(Lines(names))
  BY <1>2, <1>6
<1>8. Filled(r, params, value) = r
  <2>1. Filled(r, params, value) = [i \in 1..Len(lines) |-> Now(r[i])]
    BY <1>3, <1>5
  <2>2. r = [i \in 1..Len(lines) |-> r[i]]
    BY <1>6
  <2>3. \A i \in 1..Len(lines) : Now(r[i]) = r[i]
    BY <1>1, <1>2, <1>5
  <2>4. QED
    BY <2>1, <2>2, <2>3, Zenon
<1>9. QED
  BY <1>2, <1>4, <1>5, <1>7, <1>8 DEF Fills

\* Lines are removed in any order, once and for all.
LEMMA RemovedTwice ==
  ASSUME NEW names, NEW x, NEW y
  PROVE  \A lines \in Seq(Lines(names)) :
           RemoveLinesContaining(RemoveLinesContaining(lines, x), y) =
             RemoveLinesContaining(lines, x \cup y)
<1> TAKE lines \in Seq(Lines(names))
<1>1. Lines(x) \cup Lines(y) = Lines(x \cup y)
  BY DEF Lines
<1>2. Without(Without(lines, Lines(x)), Lines(y)) = Without(lines, Lines(x) \cup Lines(y))
  BY WithoutTwice
<1>3. QED
  BY <1>1, <1>2 DEF RemoveLinesContaining

LEMMA RemovedIs ==
  ASSUME NEW names, NEW params
  PROVE  \A lines \in Seq(Lines(names)) :
           /\ RemoveLinesContaining(lines, params) \in Seq(Lines(names))
           /\ \A i \in DOMAIN lines :
                Contains(RemoveLinesContaining(lines, params), lines[i])
                  <=> lines[i][2] \notin params
<1> TAKE lines \in Seq(Lines(names))
<1>1. PICK after \in Seq(Lines(names)) :
        /\ after = RemoveLinesContaining(lines, params)
        /\ Range(after) = Range(lines) \ Lines(params)
  BY WithoutElements DEF RemoveLinesContaining
<1>2. ASSUME NEW i \in DOMAIN lines PROVE Contains(after, lines[i]) <=> lines[i][2] \notin params
  <2>1. lines[i] \in Lines(names) /\ lines[i] \in Range(lines)
    BY DEF Range
  <2>2. \A line \in Lines(names) : line \in Lines(params) <=> line[2] \in params
    BY DEF Lines
  <2>3. Contains(after, lines[i]) <=> lines[i] \in Range(after)
    BY ContainsIs
  <2>4. QED
    BY <1>1, <2>1, <2>2, <2>3
<1>3. QED
  BY <1>1, <1>2

LEMMA AppendedTwice ==
  ASSUME NEW names, NEW line \in Lines(names)
  PROVE  \A lines \in Seq(Lines(names)) :
           /\ AppendMissing(lines, line) \in Seq(Lines(names))
           /\ AppendMissing(AppendMissing(lines, line), line) = AppendMissing(lines, line)
<1> TAKE lines \in Seq(Lines(names))
<1>1. Append(lines, line) \in Seq(Lines(names)) /\ Contains(Append(lines, line), line)
  <2>1. Append(lines, line) \in Seq(Lines(names)) /\ line \in Range(Append(lines, line))
    BY RangeAppend
  <2>2. QED
    BY <2>1, ContainsIs
<1>2. QED
  BY <1>1 DEF AppendMissing


-----------------------------------------------------------------------------
(* Storage providers: the server and the proxies *)

\* One function over another, at every place.
LEMMA OverIs ==
  ASSUME NEW f, NEW g
  PROVE  /\ DOMAIN Over(f, g) = DOMAIN f \cup DOMAIN g
         /\ \A x \in DOMAIN f : Over(f, g)[x] = f[x]
         /\ \A x \in DOMAIN g \ DOMAIN f : Over(f, g)[x] = g[x]
BY DEF Over

\* What is decoded has every option as the operator wants it, next to defaults.
LEMMA DecodedWanted ==
  ASSUME NEW p, NEW i
  PROVE  LET d == Decoded(p.param, p.items[i], p.secrets)
         IN /\ GivenOptions(<<p, i>>) \subseteq DOMAIN d
            /\ DOMAIN d \subseteq GivenOptions(<<p, i>>) \cup DOMAIN Verified
            /\ \A k \in GivenOptions(<<p, i>>) : d[k] = Wanted(<<p, i>>, k)
<1> DEFINE fields == p.items[i]
           given == Over(p.secrets, fields)
           single == [k \in DOMAIN given |->
                        IF k \in TypeOption(p.param) THEN Distinct(given[k]) ELSE given[k]]
           d == Decoded(p.param, fields, p.secrets)
<1>1. Item(<<p, i>>) = fields /\ <<p, i>>[1] = p
  BY DEF Item
<1>2. GivenOptions(<<p, i>>) = DOMAIN given
  <2>1. DOMAIN given = DOMAIN p.secrets \cup DOMAIN fields
    BY OverIs, Zenon
  <2>2. GivenOptions(<<p, i>>) = DOMAIN p.secrets \cup DOMAIN fields
    BY <1>1, Zenon DEF GivenOptions
  <2>3. QED
    BY <2>1, <2>2, Zenon
<1>3. \A k \in DOMAIN given :
        given[k] = IF k \in DOMAIN p.secrets THEN p.secrets[k] ELSE fields[k]
  BY DEF Over
<1>4. \A k \in DOMAIN given : single[k] = Wanted(<<p, i>>, k)
  BY <1>1, <1>3 DEF Wanted
<1>5. d = single \/ d = Over(single, Verified)
  BY DEF Decoded
<1> HIDE DEF given, d, fields
<1>6. DOMAIN single = DOMAIN given
  OBVIOUS
<1> HIDE DEF single
<1>7. CASE d = single
  BY <1>7, <1>2, <1>4, <1>6 DEF d, fields
<1>8. CASE d = Over(single, Verified)
  <2>1. /\ DOMAIN d = DOMAIN single \cup DOMAIN Verified
        /\ \A k \in DOMAIN single : d[k] = single[k]
    BY <1>8, OverIs
  <2>2. QED
    BY <2>1, <1>2, <1>4, <1>6 DEF d, fields
<1>9. QED
  BY <1>5, <1>7, <1>8

LEMMA LocationsDiffer ==
  /\ \A k, l \in TlsFiles : Location(k) = Location(l) => k = l
  /\ \A k \in TlsFiles : Location(k) \in Managed /\ Location(k) # "value_types"
BY DEF TlsFiles, Location, Managed

\* What is rendered has the same providers and files, and locations for paths.
LEMMA RenderedIs ==
  ASSUME NEW param, NEW d, "provider" \in DOMAIN d,
         DOMAIN d \cap {"ssl_cert_location", "ssl_key_location"} = {},
         param = "HistoryProvider" => "value_types" \notin DOMAIN d
  PROVE  LET r == Rendered(param, d)
         IN /\ \A k \in DOMAIN d \ (TypeOption(param) \cup FilesOf(d)) : r[k] = d[k]
            /\ \A k \in DOMAIN d \cap TypeOption(param) : r["value_types"] = d[k]
            /\ \A k \in FilesOf(d) :
                 IF Len(d[k]) = 2
                 THEN /\ Location(k) \in DOMAIN r /\ r[k] = <<d[k][2]>>
                      /\ r[Location(k)] = <<d[k][1]>>
                 ELSE Location(k) \notin DOMAIN r /\ r[k] = d[k]
            /\ DOMAIN d \ TypeOption(param) \subseteq DOMAIN r
<1> DEFINE split == {k \in FilesOf(d) : Len(d[k]) = 2}
           plain == [k \in DOMAIN d \ TypeOption(param) |->
                       IF k \in split THEN <<d[k][2]>> ELSE d[k]]
           places == [l \in {Location(k) : k \in split} |->
                        <<d[CHOOSE k \in split : Location(k) = l][1]>>]
           types == [t \in {"value_types" : k \in DOMAIN d \cap TypeOption(param)} |-> d["types"]]
           r == Rendered(param, d)
<1>1. r = Over(plain, Over(places, types))
  BY Zenon DEF Rendered
<1>2. /\ FilesOf(d) \subseteq DOMAIN d \cap TlsFiles
      /\ TlsFiles \cap TypeOption(param) = {}
  BY DEF FilesOf, TlsFiles, TypeOption
<1>3. /\ \A k \in DOMAIN d \cap TypeOption(param) :
           k = "types" /\ param = "HistoryProvider" /\ "value_types" \notin DOMAIN d
      /\ DOMAIN types \subseteq {"value_types"}
      /\ \A k \in DOMAIN d \cap TypeOption(param) :
           "value_types" \in DOMAIN types /\ types["value_types"] = d[k]
  BY DEF TypeOption
<1>4. \A k \in TlsFiles : Location(k) \notin DOMAIN d
  BY DEF TlsFiles, Location
<1>5. DOMAIN plain = DOMAIN d \ TypeOption(param) /\ DOMAIN places = {Location(k) : k \in split}
  OBVIOUS
<1>6. \A k \in split : places[Location(k)] = <<d[k][1]>>
  BY <1>2, LocationsDiffer
<1>7. \A k \in DOMAIN plain : plain[k] = IF k \in split THEN <<d[k][2]>> ELSE d[k]
  OBVIOUS
<1> HIDE DEF plain, places, types, r
<1>8. /\ DOMAIN r = DOMAIN plain \cup DOMAIN places \cup DOMAIN types
      /\ \A k \in DOMAIN plain : r[k] = plain[k]
      /\ \A k \in DOMAIN places \ DOMAIN plain : r[k] = places[k]
      /\ \A k \in DOMAIN types \ (DOMAIN plain \cup DOMAIN places) : r[k] = types[k]
  <2> DEFINE rest == Over(places, types)
  <2>1. /\ DOMAIN rest = DOMAIN places \cup DOMAIN types
        /\ \A k \in DOMAIN places : rest[k] = places[k]
        /\ \A k \in DOMAIN types \ DOMAIN places : rest[k] = types[k]
    BY OverIs, ZenonT(60)
  <2> HIDE DEF rest
  <2>2. /\ DOMAIN r = DOMAIN plain \cup DOMAIN rest
        /\ \A k \in DOMAIN plain : r[k] = plain[k]
        /\ \A k \in DOMAIN rest \ DOMAIN plain : r[k] = rest[k]
    <3>1. r = Over(plain, rest)
      BY <1>1 DEF rest
    <3>2. /\ DOMAIN Over(plain, rest) = DOMAIN plain \cup DOMAIN rest
          /\ \A k \in DOMAIN plain : Over(plain, rest)[k] = plain[k]
          /\ \A k \in DOMAIN rest \ DOMAIN plain : Over(plain, rest)[k] = rest[k]
      BY OverIs, ZenonT(60)
    <3>3. QED
      BY <3>1, <3>2
  <2>3. QED
    BY <2>1, <2>2
<1>9. ASSUME NEW k \in DOMAIN d \ (TypeOption(param) \cup FilesOf(d)) PROVE r[k] = d[k]
  BY <1>9, <1>5, <1>7, <1>8
<1>10. ASSUME NEW k \in DOMAIN d \cap TypeOption(param) PROVE r["value_types"] = d[k]
  <2>1. "value_types" \notin DOMAIN plain \cup DOMAIN places
    BY <1>10, <1>2, <1>3, <1>5, LocationsDiffer
  <2>2. QED
    BY <2>1, <1>3, <1>8
<1>11. ASSUME NEW k \in FilesOf(d)
       PROVE  IF Len(d[k]) = 2
              THEN /\ Location(k) \in DOMAIN r /\ r[k] = <<d[k][2]>>
                   /\ r[Location(k)] = <<d[k][1]>>
              ELSE Location(k) \notin DOMAIN r /\ r[k] = d[k]
  <2>1. k \in DOMAIN plain /\ Location(k) \notin DOMAIN plain /\ Location(k) \notin DOMAIN types
    BY <1>2, <1>3, <1>4, <1>5, LocationsDiffer
  <2>2. CASE Len(d[k]) = 2
    BY <2>1, <2>2, <1>5, <1>6, <1>7, <1>8
  <2>3. CASE Len(d[k]) # 2
    <3>1. k \notin split /\ Location(k) \notin DOMAIN places
      BY <2>3, <1>2, <1>5, LocationsDiffer
    <3>2. QED
      BY <3>1, <2>1, <2>3, <1>7, <1>8
  <2>4. QED
    BY <2>2, <2>3
<1>12. QED
  BY <1>5, <1>8, <1>9, <1>10, <1>11 DEF r

\* The service joins what was split: it finds the values that were rendered.
LEMMA RenderedUnderstood ==
  ASSUME NEW names, NEW param, NEW d, "provider" \in DOMAIN d,
         DOMAIN d \cap {"ssl_cert_location", "ssl_key_location"} = {},
         param = "HistoryProvider" => "value_types" \notin DOMAIN d,
         \A k \in FilesOf(d) : d[k] \in Seq(names)
  PROVE  \A k \in DOMAIN d : Understood(param, Rendered(param, d), k) = d[k]
<1> DEFINE r == Rendered(param, d)
<1>1. /\ \A k \in DOMAIN d \ (TypeOption(param) \cup FilesOf(d)) : r[k] = d[k]
      /\ \A k \in DOMAIN d \cap TypeOption(param) : r["value_types"] = d[k]
      /\ \A k \in FilesOf(d) :
           IF Len(d[k]) = 2
           THEN /\ Location(k) \in DOMAIN r /\ r[k] = <<d[k][2]>>
                /\ r[Location(k)] = <<d[k][1]>>
           ELSE Location(k) \notin DOMAIN r /\ r[k] = d[k]
      /\ DOMAIN d \ TypeOption(param) \subseteq DOMAIN r
  BY RenderedIs, Zenon
<1> HIDE DEF r
<1>2. "provider" \notin TypeOption(param) \cup TlsFiles
  BY DEF TypeOption, TlsFiles
<1>3. "provider" \in DOMAIN r /\ r["provider"] = d["provider"]
  BY <1>1, <1>2 DEF FilesOf
<1>4. Name(r) = Name(d)
  BY <1>3 DEF Name
<1>5. TlsFiles \cap TypeOption(param) = {}
  BY DEF TypeOption, TlsFiles
<1>6. \A k \in DOMAIN d : k \in FilesOf(r) <=> k \in FilesOf(d)
  BY <1>1, <1>4, <1>5 DEF FilesOf
<1>7. ASSUME NEW k \in DOMAIN d PROVE Understood(param, r, k) = d[k]
  <2>1. CASE k \in TypeOption(param)
    BY <2>1, <1>1 DEF Understood
  <2>2. CASE k \in FilesOf(d)
    <3>1. k \notin TypeOption(param) /\ k \in FilesOf(r)
      BY <2>2, <1>5, <1>6 DEF FilesOf
    <3>2. CASE Len(d[k]) = 2
      <4>1. Understood(param, r, k) = r[Location(k)] \o r[k]
        BY <3>1, <3>2, <2>2, <1>1 DEF Understood
      <4>2. Understood(param, r, k) = <<d[k][1]>> \o <<d[k][2]>>
        BY <4>1, <3>2, <2>2, <1>1
      <4>3. ASSUME NEW s \in Seq(names), Len(s) = 2 PROVE <<s[1]>> \o <<s[2]>> = s
        BY <4>3
      <4>4. QED
        BY <4>2, <4>3, <3>2, <2>2
    <3>3. CASE Len(d[k]) # 2
      BY <3>1, <3>3, <2>2, <1>1 DEF Understood
    <3>4. QED
      BY <3>2, <3>3
  <2>3. CASE k \notin TypeOption(param) \cup FilesOf(d)
    <3>1. k \notin FilesOf(r) /\ r[k] = d[k]
      BY <2>3, <1>1, <1>6
    <3>2. QED
      BY <2>3, <3>1 DEF Understood
  <2>4. QED
    BY <2>1, <2>2, <2>3
<1>8. QED
  BY <1>7 DEF r

\* What is accepted has a provider and no option that only the image sets; its
\* files have names.
LEMMA DecodedIs ==
  ASSUME NEW names, NEW p, WellFormed(p, names), NEW i \in DOMAIN p.items,
         Decodable(p.param, p.items[i], p.secrets)
  PROVE  LET d == Decoded(p.param, p.items[i], p.secrets)
         IN /\ "provider" \in DOMAIN d /\ d["provider"] = p.items[i]["provider"]
            /\ DOMAIN d \cap {"ssl_cert_location", "ssl_key_location"} = {}
            /\ p.param = "HistoryProvider" => "value_types" \notin DOMAIN d
            /\ Name(d) = Name(p.items[i]) /\ Name(d) \in Supported(p.param)
            /\ \A k \in FilesOf(d) :
                 /\ k \in GivenOptions(<<p, i>>)
                 /\ d[k] \in Seq(names) /\ d[k] # <<"">>
<1> DEFINE fields == p.items[i]
           source == <<p, i>>
           d == Decoded(p.param, p.items[i], p.secrets)
<1>1. /\ Name(fields) \in Supported(p.param)
      /\ DOMAIN fields \cap (Managed \cup Reserved(p.param)) = {}
      /\ \A k \in FilesOf(fields) : fields[k] \notin {<<>>, <<"">>}
      /\ HasSecrets(p.secrets) => Name(fields) = "clickhouse"
      /\ FilesOf(fields) \cap DOMAIN p.secrets = {}
  BY DEF Decodable, Applicable
<1>2. /\ DOMAIN p.secrets \subseteq SecretOptions
      /\ \A k \in DOMAIN p.secrets : p.secrets[k] \in Seq(names)
      /\ \A k \in DOMAIN fields : fields[k] \in Seq(names)
      /\ \A k \in DOMAIN p.secrets \cap TlsFiles : p.secrets[k] # <<"">>
  <2>1. fields \in Range(p.items)
    BY DEF Range
  <2>2. QED
    BY <2>1 DEF WellFormed
<1>3. /\ GivenOptions(source) \subseteq DOMAIN d
      /\ DOMAIN d \subseteq GivenOptions(source) \cup DOMAIN Verified
      /\ \A k \in GivenOptions(source) : d[k] = Wanted(source, k)
  BY DecodedWanted, Zenon
<1>4. /\ Item(source) = fields /\ source[1] = p
      /\ GivenOptions(source) = DOMAIN p.secrets \cup DOMAIN fields
  BY DEF Item, GivenOptions
<1> HIDE DEF fields, source, d
<1>5. "provider" \in DOMAIN fields
  <2>1. Name(fields) # ""
    BY <1>1 DEF Supported
  <2>2. QED
    BY <2>1 DEF Name
<1>6. "provider" \notin SecretOptions /\ "provider" \notin TypeOption(p.param)
  BY DEF SecretOptions, TlsFiles, TypeOption
<1>7. d["provider"] = fields["provider"] /\ "provider" \in DOMAIN d
  BY <1>2, <1>3, <1>4, <1>5, <1>6 DEF Wanted
<1>8. Name(d) = Name(fields)
  BY <1>5, <1>7 DEF Name
<1>9. DOMAIN d \cap {"ssl_cert_location", "ssl_key_location"} = {}
  BY <1>1, <1>2, <1>3, <1>4 DEF SecretOptions, TlsFiles, Managed, Verified
<1>10. p.param = "HistoryProvider" => "value_types" \notin DOMAIN d
  BY <1>1, <1>2, <1>3, <1>4 DEF SecretOptions, TlsFiles, Reserved, Verified
<1>11. ASSUME NEW k \in FilesOf(d)
       PROVE  /\ k \in GivenOptions(source)
              /\ d[k] \in Seq(names) /\ d[k] # <<"">>
  <2>1. k \in DOMAIN d /\ k \in TlsFiles /\ Name(fields) = "clickhouse"
    BY <1>8 DEF FilesOf
  <2>2. k \notin DOMAIN Verified /\ k \notin TypeOption(p.param)
    BY <2>1 DEF TlsFiles, Verified, TypeOption
  <2>3. k \in GivenOptions(source)
    BY <2>1, <2>2, <1>3
  <2>4. d[k] = IF k \in DOMAIN p.secrets THEN p.secrets[k] ELSE fields[k]
    BY <2>2, <2>3, <1>3, <1>4 DEF Wanted
  <2>5. QED
    BY <2>1, <2>3, <2>4, <1>1, <1>2, <1>4 DEF FilesOf
<1>12. QED
  BY <1>1, <1>7, <1>8, <1>9, <1>10, <1>11 DEF d, fields, source

\* The server and the proxies find every option of the providers they accept.
THEOREM ServerFindsProviders ==
  ASSUME NEW names, NEW providers, NEW variables, NEW param,
         \A p \in providers : WellFormed(p, names),
         NativeAccepted(variables, providers, param)
  PROVE  NativeIntended(providers, param, Native(providers, param))
<1>1. SUFFICES ASSUME NEW p \in IndexedOf(providers, param)
               PROVE  \E q \in IndexedOf(Native(providers, param), param) :
                        /\ q.index = p.index /\ ~HasSecrets(q.secrets) /\ q.schema = "none"
                        /\ p.items # <<>> =>
                             \A k \in GivenOptions(<<p, 1>>) :
                               Understood(param, q.items[1], k) = Wanted(<<p, 1>>, k)
  BY Zenon DEF NativeIntended
<1> DEFINE d == Decoded(param, p.items[1], p.secrets)
           q == [Cleared(p) EXCEPT !.items = IF @ = <<>> THEN @ ELSE <<Rendered(param, Decoded(param, @[1], p.secrets))>>]
<1>2. p \in providers /\ p.param = param /\ p.index # Plural
  BY DEF IndexedOf, OfParam
<1>3. WellFormed(p, names)
  BY <1>2
<1>4. /\ q.param = param /\ q.index = p.index /\ q.secrets = NoOptions /\ q.schema = "none"
      /\ p.items # <<>> => q.items = <<Rendered(param, d)>>
  BY <1>2, <1>3 DEF Cleared, WellFormed
<1>5. q \in IndexedOf(Native(providers, param), param)
  <2>1. q \in Native(providers, param)
    BY DEF Native
  <2>2. QED
    BY <2>1, <1>2, <1>4 DEF IndexedOf, OfParam
<1>6. ~HasSecrets(q.secrets)
  BY <1>4 DEF HasSecrets
<1>7. ASSUME p.items # <<>>, NEW k \in GivenOptions(<<p, 1>>)
      PROVE  Understood(param, q.items[1], k) = Wanted(<<p, 1>>, k)
  <2>1. 1 \in DOMAIN p.items
    <3>1. p.items \in Seq(Range(p.items))
      BY <1>3 DEF WellFormed
    <3>2. QED
      BY <3>1, <1>7
  <2>2. Decodable(p.param, p.items[1], p.secrets)
    BY <1>2, <1>7, Zenon DEF NativeAccepted
  <2>3. /\ "provider" \in DOMAIN d
        /\ DOMAIN d \cap {"ssl_cert_location", "ssl_key_location"} = {}
        /\ param = "HistoryProvider" => "value_types" \notin DOMAIN d
        /\ \A x \in FilesOf(d) : d[x] \in Seq(names)
    BY <1>2, <1>3, <2>1, <2>2, DecodedIs
  <2>4. \A x \in DOMAIN d : Understood(param, Rendered(param, d), x) = d[x]
    BY <2>3, RenderedUnderstood
  <2>5. k \in DOMAIN d /\ d[k] = Wanted(<<p, 1>>, k)
    BY <1>2, <1>7, DecodedWanted
  <2>6. q.items[1] = Rendered(param, d)
    BY <1>4, <1>7
  <2>7. QED
    BY <2>4, <2>5, <2>6
<1>8. QED
  BY <1>4, <1>5, <1>6, <1>7

-----------------------------------------------------------------------------
(* The frontend *)

\* The frontend has all the options of a provider that are for it, no other,
\* and files with their directories.
LEMMA DeliveredIs ==
  ASSUME NEW names, NEW p, WellFormed(p, names), NEW i \in DOMAIN p.items,
         Decodable(p.param, p.items[i], p.secrets), Name(p.items[i]) # "sql"
  PROVE  Delivered(p.param, <<p, i>>, WebFields(p.param, Decoded(p.param, p.items[i], p.secrets)))
<1> DEFINE param == p.param
           source == <<p, i>>
           d == Decoded(param, p.items[i], p.secrets)
           web == ForWeb(param, Name(d))
           kept == Restrict(d, DOMAIN d \cap web)
           m == Over(kept, WebDefaults(param))
           r == Resolved(param, m)
           given == GivenOptions(source)
<1>1. /\ "provider" \in DOMAIN d
      /\ Name(d) \in Supported(param) \ {"sql"}
      /\ \A k \in FilesOf(d) : d[k] # <<"">>
  BY DecodedIs, ZenonT(60)
<1>2. /\ given \subseteq DOMAIN d
      /\ DOMAIN d \subseteq given \cup DOMAIN Verified
      /\ \A k \in given : d[k] = Wanted(source, k)
  BY DecodedWanted, Zenon
<1>3. WebFields(param, d) = r
  BY Zenon DEF WebFields
<1>4. DOMAIN kept = DOMAIN d \cap web /\ \A k \in DOMAIN d \cap web : kept[k] = d[k]
  BY DEF Restrict
<1> HIDE DEF kept, d, source, given
<1>5. "provider" \in web
  BY <1>1 DEF ForWeb, Supported
<1> HIDE DEF web
<1>6. /\ DOMAIN m = (DOMAIN d \cap web) \cup DOMAIN WebDefaults(param)
      /\ \A k \in DOMAIN d \cap web : m[k] = d[k]
  <2>1. /\ DOMAIN m = DOMAIN kept \cup DOMAIN WebDefaults(param)
        /\ \A k \in DOMAIN kept : m[k] = kept[k]
    BY OverIs, Zenon
  <2>2. QED
    BY <2>1, <1>4
<1> HIDE DEF m
<1>7. /\ DOMAIN r = DOMAIN m
      /\ \A k \in DOMAIN m :
           r[k] = IF param = "TelemetryProvider" /\ k \in FilesOf(m) /\ Len(m[k]) = 1 /\ m[k] # <<"">>
                  THEN <<Location(k)>> \o m[k] ELSE m[k]
  BY DEF Resolved
<1> HIDE DEF r, param
<1>8. Name(m) = Name(d)
  BY <1>1, <1>5, <1>6 DEF Name
<1>9. Name(r) = Name(d) /\ FilesOf(r) = FilesOf(m)
  <2>1. "provider" \in DOMAIN m /\ "provider" \notin FilesOf(m)
    BY <1>1, <1>5, <1>6 DEF FilesOf, TlsFiles
  <2>2. r["provider"] = m["provider"]
    BY <2>1, <1>7
  <2>3. Name(r) = Name(m)
    BY <2>1, <2>2, <1>7 DEF Name
  <2>4. QED
    BY <2>3, <1>7, <1>8 DEF FilesOf
<1>10. ForWeb(param, Name(r)) = web
  BY <1>9 DEF web
<1>11. ASSUME NEW k \in web \cap given
       PROVE  k \in DOMAIN r /\ r[k] = Located(param, r, k, Wanted(source, k))
  <2>1. k \in DOMAIN d /\ k \in DOMAIN m /\ m[k] = d[k] /\ d[k] = Wanted(source, k)
    BY <1>2, <1>6
  <2>2. k \in FilesOf(m) => m[k] # <<"">>
    BY <2>1, <1>1, <1>8 DEF FilesOf
  <2>3. QED
    BY <2>1, <2>2, <1>7, <1>9 DEF Located
<1>12. DOMAIN r \subseteq (web \cap given) \cup DOMAIN WebDefaults(param) \cup DOMAIN Verified
  BY <1>2, <1>6, <1>7
<1>13. Delivered(param, source, r)
  BY <1>10, <1>11, <1>12 DEF Delivered, given
<1>14. QED
  BY <1>3, <1>13 DEF d, source, param

InOrder(s) == \A i, j \in DOMAIN s : i < j => Earlier(s[i], s[j])

\* Leaving out some keeps the order of the others.
LEMMA OnlyInOrder ==
  ASSUME NEW S, NEW set
  PROVE  \A s \in Seq(S) : InOrder(s) => InOrder(Only(s, set))
<1> DEFINE T == {s \in Seq(S) : InOrder(s) => InOrder(Only(s, set))}
<1>1. <<>> \in T
  <2>1. Only(<<>>, set) = <<>>
    BY OnlyEmpty
  <2>2. <<>> \in Seq(S)
    OBVIOUS
  <2>3. QED
    BY <2>1, <2>2
<1>2. ASSUME NEW s \in Seq(S), NEW e \in S, s \in T PROVE Append(s, e) \in T
  <2> DEFINE o == Only(s, set)
             a == Append(s, e)
  <2>1. o \in Seq(S) /\ Range(o) \subseteq Range(s)
    BY OnlyElements
  <2>2. Only(a, set) = IF e \in set THEN Append(o, e) ELSE o
    BY OnlyAppend
  <2> HIDE DEF o
  <2>3. ASSUME InOrder(a) PROVE InOrder(Only(a, set))
    <3>1. /\ DOMAIN s = 1..Len(s) /\ DOMAIN a = 1..(Len(s) + 1) /\ Len(s) \in Nat
          /\ a[Len(s) + 1] = e /\ \A i \in DOMAIN s : a[i] = s[i]
      OBVIOUS
    <3> HIDE DEF a
    <3>2. InOrder(s)
      BY <2>3, <3>1 DEF InOrder
    <3>3. InOrder(o)
      BY <1>2, <3>2 DEF o
    <3>4. \A x \in Range(s) : Earlier(x, e)
      BY <2>3, <3>1 DEF InOrder, Range
    <3>5. InOrder(Append(o, e))
      <4> DEFINE b == Append(o, e)
      <4>1. /\ DOMAIN o = 1..Len(o) /\ DOMAIN b = 1..(Len(o) + 1) /\ Len(o) \in Nat
            /\ b[Len(o) + 1] = e /\ \A i \in DOMAIN o : b[i] = o[i]
        BY <2>1
      <4> HIDE DEF b
      <4>2. ASSUME NEW i \in DOMAIN b, NEW j \in DOMAIN b, i < j PROVE Earlier(b[i], b[j])
        <5>1. i \in DOMAIN o
          BY <4>1, <4>2
        <5>2. CASE j \in DOMAIN o
          BY <5>1, <5>2, <4>1, <4>2, <3>3 DEF InOrder
        <5>3. CASE j = Len(o) + 1
          <6>1. o[i] \in Range(s)
            BY <5>1, <2>1 DEF Range
          <6>2. QED
            BY <6>1, <5>1, <5>3, <4>1, <3>4
        <5>4. QED
          BY <5>2, <5>3, <4>1, <4>2
      <4>3. QED
        BY <4>2 DEF InOrder, b
    <3>6. QED
      BY <2>2, <3>3, <3>5
  <2>4. a \in Seq(S)
    OBVIOUS
  <2>5. QED
    BY <2>3, <2>4
<1> HIDE DEF T
<1>3. Seq(S) \subseteq T
  BY <1>1, <1>2, SequenceInduction
<1>4. QED
  BY <1>3 DEF T

LEMMA ObjectsAre ==
  ASSUME NEW providers, NEW param
  PROVE  /\ \A x \in Objects(providers, param) :
              \E p \in OfParam(providers, param) : \E i \in DOMAIN p.items : x = <<p, i>>
         /\ \A p \in OfParam(providers, param) : \A i \in DOMAIN p.items :
              <<p, i>> \in Objects(providers, param)
BY DEF Objects

\* The indexed providers in the order of their numbers, which have no gaps.
LEMMA IndexedInOrder ==
  ASSUME NEW names, NEW providers, NEW variables, NEW param,
         IsFiniteSet(variables), \A p \in providers : WellFormed(p, names),
         \A p, q \in providers : p.param = q.param /\ p.index = q.index => p = q,
         WebAccepted(variables, providers, param)
  PROVE  LET s == IndexedSources(providers, param)
             indexed == IndexedOf(providers, param)
         IN /\ s \in Seq(Objects(providers, param))
            /\ Range(s) = {<<p, 1>> : p \in indexed}
            /\ \A p \in indexed : DOMAIN p.items = {1}
            /\ InOrder(s)
            /\ indexed = {} => s = <<>>
<1> DEFINE s == IndexedSources(providers, param)
           indexed == IndexedOf(providers, param)
           found == Indexed(variables, {param})
           indices == {p.index : p \in indexed}
           n == Cardinality(indices)
           chosen == [m \in 1..n |-> CHOOSE p \in indexed : p.index = m - 1]
<1>1. indices = 0..(Cardinality(found) - 1) /\ Cardinality(found) \in Nat
  <2>1. indices = {v[2] : v \in found}
    BY Zenon DEF WebAccepted
  <2>2. Consecutive(found)
    BY Zenon DEF WebAccepted, Attached, Collectable
  <2>3. IsFiniteSet(found)
    <3>1. found \subseteq variables
      BY DEF Indexed, OfPrefixes
    <3>2. QED
      BY <3>1, FS_Subset
  <2>4. QED
    BY <2>1, <2>2, <2>3, FS_CardinalityType DEF Consecutive
<1>2. n \in Nat /\ indices = 0..(n - 1)
  <2>1. Cardinality(indices) = Cardinality(found)
    <3>1. ASSUME NEW m \in Nat PROVE Cardinality(0..(m - 1)) = m
      <4>1. 0 \in Int /\ m - 1 \in Int
        OBVIOUS
      <4>2. Cardinality(0..(m - 1)) = IF 0 > m - 1 THEN 0 ELSE (m - 1) - 0 + 1
        BY <4>1, FS_Interval, Zenon
      <4>3. QED
        BY <4>2
    <3>2. QED
      BY <1>1, <3>1, Zenon
  <2>2. QED
    BY <1>1, <2>1
<1> HIDE DEF n, found
<1>3. ASSUME NEW p \in indexed PROVE DOMAIN p.items = {1} /\ p \in OfParam(providers, param) /\ p.index \in indices
  <2>1. p \in providers /\ p.items # <<>> /\ p.index # Plural
    BY DEF WebAccepted, IndexedOf, OfParam
  <2>2. p.items \in Seq(Range(p.items)) /\ Len(p.items) < 2
    BY <2>1 DEF WellFormed
  <2>3. p \in OfParam(providers, param) /\ p.index \in indices
    BY DEF IndexedOf
  <2>4. QED
    BY <2>1, <2>2, <2>3
<1>4. \A p, q \in indexed : p.index = q.index => p = q
  BY DEF IndexedOf, OfParam
<1>5. s = [m \in 1..n |-> <<chosen[m], 1>>]
  BY DEF IndexedSources, n
<1>6. \A m \in 1..n : chosen[m] \in indexed /\ chosen[m].index = m - 1
  <2> TAKE m \in 1..n
  <2>1. m - 1 \in indices
    BY <1>2
  <2>2. \E p \in indexed : p.index = m - 1
    BY <2>1
  <2>3. QED
    BY <2>2
<1> HIDE DEF chosen, s
<1>7. s \in Seq(Objects(providers, param))
  <2>1. \A m \in 1..n : <<chosen[m], 1>> \in Objects(providers, param)
    BY <1>3, <1>6, ObjectsAre
  <2>2. QED
    BY <2>1, <1>2, <1>5
<1>8. Range(s) = {<<p, 1>> : p \in indexed}
  <2>1. ASSUME NEW p \in indexed PROVE \E m \in 1..n : chosen[m] = p
    <3>1. p.index \in 0..(n - 1)
      BY <1>2, <1>3
    <3>2. p.index + 1 \in 1..n /\ (p.index + 1) - 1 = p.index
      BY <3>1, <1>2
    <3>3. QED
      BY <3>2, <1>4, <1>6
  <2>2. DOMAIN s = 1..n /\ \A m \in 1..n : s[m] = <<chosen[m], 1>>
    BY <1>5
  <2>3. ASSUME NEW x \in Range(s) PROVE x \in {<<p, 1>> : p \in indexed}
    <3>1. PICK m \in 1..n : x = s[m]
      BY <2>2, Zenon DEF Range
    <3>2. x = <<chosen[m], 1>> /\ chosen[m] \in indexed
      BY <2>2, <1>6, <3>1, Zenon
    <3>3. QED
      BY <3>2, Zenon
  <2>4. ASSUME NEW p \in indexed PROVE <<p, 1>> \in Range(s)
    BY <2>1, <2>2 DEF Range
  <2>5. QED
    BY <2>3, <2>4
<1>9. InOrder(s)
  <2>1. ASSUME NEW i \in 1..n, NEW j \in 1..n, i < j
        PROVE  Earlier(<<chosen[i], 1>>, <<chosen[j], 1>>)
    BY <2>1, <1>2, <1>6 DEF Earlier
  <2>2. QED
    BY <2>1, <1>5 DEF InOrder
<1>10. ASSUME indexed = {} PROVE s = <<>>
  <2>1. n = 0
    BY <1>10, <1>2
  <2>2. QED
    BY <2>1, <1>5
<1>11. QED
  BY <1>3, <1>7, <1>8, <1>9, <1>10 DEF s

\* The providers of the list, of which there is one variable.
LEMMA ListInOrder ==
  ASSUME NEW names, NEW providers, NEW param,
         \A p \in providers : WellFormed(p, names),
         \A p, q \in providers : p.param = q.param /\ p.index = q.index => p = q
  PROVE  LET s == ListSources(providers, param)
             lists == ListOf(providers, param)
         IN /\ s \in Seq(Objects(providers, param))
            /\ \A p \in lists : \A i \in DOMAIN p.items : <<p, i>> \in Range(s)
            /\ InOrder(s)
            /\ (\A p \in lists : p.items = <<>>) => s = <<>>
<1> DEFINE s == ListSources(providers, param)
           lists == ListOf(providers, param)
           list == CHOOSE p \in lists : TRUE
<1>1. CASE lists = {}
  <2>1. s = <<>>
    BY <1>1 DEF ListSources
  <2> HIDE DEF s
  <2>2. s \in Seq(Objects(providers, param)) /\ InOrder(s)
    BY <2>1 DEF InOrder
  <2>3. QED
    BY <2>1, <2>2, <1>1 DEF s
<1>2. CASE lists # {}
  <2>1. list \in lists
    BY <1>2
  <2>2. s = [i \in DOMAIN list.items |-> <<list, i>>]
    BY <1>2, Zenon DEF ListSources
  <2> HIDE DEF s, list
  <2>3. \A p \in lists : p \in providers /\ p.param = param /\ p.index = Plural /\ p \in OfParam(providers, param)
    BY DEF ListOf, IndexedOf, OfParam
  <2>4. \A p \in lists : p = list
    BY <2>1, <2>3
  <2>5. list.items \in Seq(Range(list.items))
    BY <2>1, <2>3 DEF WellFormed
  <2>6. /\ DOMAIN s = DOMAIN list.items /\ DOMAIN s = 1..Len(list.items) /\ Len(list.items) \in Nat
        /\ \A i \in DOMAIN s : s[i] = <<list, i>>
    BY <2>2, <2>5
  <2>7. s \in Seq(Objects(providers, param))
    <3>1. \A i \in DOMAIN list.items : <<list, i>> \in Objects(providers, param)
      BY <2>1, <2>3, ObjectsAre
    <3>2. QED
      BY <3>1, <2>2, <2>6
  <2>8. InOrder(s)
    <3>1. \A i, j \in DOMAIN s : i < j => Earlier(<<list, i>>, <<list, j>>)
      BY <2>6 DEF Earlier
    <3>2. QED
      BY <3>1, <2>6 DEF InOrder
  <2>9. \A i \in DOMAIN list.items : <<list, i>> \in Range(s)
    BY <2>6 DEF Range
  <2>10. ASSUME \A p \in lists : p.items = <<>> PROVE s = <<>>
    <3>1. DOMAIN list.items = {}
      BY <2>1, <2>10
    <3>2. QED
      BY <3>1, <2>7, <2>6
  <2>11. QED
    BY <2>4, <2>7, <2>8, <2>9, <2>10 DEF s
<1>3. QED
  BY <1>1, <1>2

\* All the objects are read, each where its provider comes.
LEMMA SourcesAre ==
  ASSUME NEW names, NEW providers, NEW variables, NEW param,
         IsFiniteSet(variables), \A p \in providers : WellFormed(p, names),
         \A p, q \in providers : p.param = q.param /\ p.index = q.index => p = q,
         WebAccepted(variables, providers, param)
  PROVE  LET s == Sources(providers, param)
         IN /\ s \in Seq(Objects(providers, param))
            /\ Range(s) = Objects(providers, param)
            /\ InOrder(s)
<1> DEFINE a == IndexedSources(providers, param)
           b == ListSources(providers, param)
           s == Sources(providers, param)
           indexed == IndexedOf(providers, param)
           lists == ListOf(providers, param)
           objects == Objects(providers, param)
<1>1. /\ a \in Seq(objects)
      /\ Range(a) = {<<p, 1>> : p \in indexed}
      /\ \A p \in indexed : DOMAIN p.items = {1}
      /\ InOrder(a)
      /\ indexed = {} => a = <<>>
  BY IndexedInOrder
<1>2. /\ b \in Seq(objects)
      /\ \A p \in lists : \A i \in DOMAIN p.items : <<p, i>> \in Range(b)
      /\ InOrder(b)
      /\ (\A p \in lists : p.items = <<>>) => b = <<>>
  BY ListInOrder
<1>3. s = a \o b
  BY DEF Sources
<1> HIDE DEF a, b, s
<1>4. s \in Seq(objects) /\ Range(s) = Range(a) \cup Range(b)
  BY <1>1, <1>2, <1>3, RangeConcat
<1>5. Range(s) \subseteq objects
  <2>1. ASSUME NEW t \in Seq(objects) PROVE Range(t) \subseteq objects
    BY DEF Range
  <2>2. QED
    BY <1>4, <2>1
<1>6. \A p \in OfParam(providers, param) : p \in indexed \/ p \in lists
  BY DEF ListOf
<1>7. objects \subseteq Range(s)
  <2>1. ASSUME NEW p \in OfParam(providers, param), NEW i \in DOMAIN p.items
        PROVE  <<p, i>> \in Range(s)
    <3>1. CASE p \in indexed
      <4>1. i = 1
        BY <3>1, <1>1
      <4>2. QED
        BY <4>1, <3>1, <1>1, <1>4
    <3>2. CASE p \in lists
      BY <3>2, <1>2, <1>4
    <3>3. QED
      BY <3>1, <3>2, <1>6
  <2>2. QED
    BY <2>1, ObjectsAre
<1>8. InOrder(s)
  <2>1. CASE \A p \in lists : p.items = <<>>
    <3>1. s = a
      BY <2>1, <1>1, <1>2, <1>3
    <3>2. QED
      BY <3>1, <1>1
  <2>2. CASE ~ \A p \in lists : p.items = <<>>
    <3>1. Indexed(variables, {param}) = {}
      BY <2>2 DEF WebAccepted
    <3>2. {p.index : p \in indexed} = {}
      BY <3>1, Zenon DEF WebAccepted
    <3>3. indexed = {}
      <4>1. \A p \in indexed : p.index \in {q.index : q \in indexed}
        OBVIOUS
      <4>2. QED
        BY <3>2, <4>1
    <3>4. s = b
      BY <3>3, <1>1, <1>2, <1>3
    <3>5. QED
      BY <3>4, <1>2
  <2>3. QED
    BY <2>1, <2>2
<1>9. QED
  BY <1>4, <1>5, <1>7, <1>8 DEF s

\* Of a provider that is accepted, the frontend has a use unless it is SQL's.
LEMMA UsedIs ==
  ASSUME NEW param, NEW name \in Supported(param)
  PROVE  ForWeb(param, name) # {} <=> name # "sql"
BY DEF ForWeb, Supported

\* The frontend finds the providers it can use, in their order and complete.
THEOREM FrontendFindsProviders ==
  ASSUME NEW names, NEW providers, NEW variables, NEW param,
         IsFiniteSet(variables), \A p \in providers : WellFormed(p, names),
         \A p, q \in providers : p.param = q.param /\ p.index = q.index => p = q,
         WebAccepted(variables, providers, param)
  PROVE  WebIntended(providers, param, OnWeb(providers, param))
<1> DEFINE all == Sources(providers, param)
           objects == Objects(providers, param)
           useful == {x \in Range(all) : ForWeb(param, Name(Item(x))) # {}}
           used == {x \in objects : Name(Item(x)) # "sql"}
           order == Only(all, useful)
           Fields(x) == WebFields(param, Decoded(param, Item(x), x[1].secrets))
           q == [param |-> param, index |-> Plural, items |-> WebList(providers, param),
                 secrets |-> NoOptions, schema |-> "none"]
<1>1. all \in Seq(objects) /\ Range(all) = objects /\ InOrder(all)
  BY SourcesAre
<1>2. ASSUME NEW x \in objects
      PROVE  \E p \in OfParam(providers, param) : \E i \in DOMAIN p.items :
               /\ x = <<p, i>> /\ WellFormed(p, names) /\ p.param = param
               /\ Decodable(param, p.items[i], p.secrets)
               /\ Item(x) = p.items[i] /\ x[1] = p
  <2>1. PICK p \in OfParam(providers, param) : \E i \in DOMAIN p.items : x = <<p, i>>
    BY ObjectsAre
  <2>2. PICK i \in DOMAIN p.items : x = <<p, i>>
    BY <2>1
  <2>3. p \in providers /\ p.param = param
    BY DEF OfParam
  <2>4. Decodable(param, p.items[i], p.secrets)
    BY Zenon DEF WebAccepted
  <2>5. Item(x) = p.items[i] /\ x[1] = p
    BY <2>2 DEF Item
  <2>6. QED
    BY <2>2, <2>3, <2>4, <2>5
<1>3. \A x \in objects : Name(Item(x)) \in Supported(param)
  BY <1>2 DEF Decodable
<1>4. useful = used
  BY <1>1, <1>3, UsedIs
<1> HIDE DEF all, objects
<1>5. order \in Seq(objects) /\ Range(order) = used /\ InOrder(order)
  <2>1. order \in Seq(objects) /\ Range(order) = Range(all) \cap useful
    BY <1>1, OnlyElements
  <2>2. InOrder(order)
    BY <1>1, OnlyInOrder
  <2>3. QED
    BY <2>1, <2>2, <1>4
<1>6. q.items = [n \in DOMAIN order |-> Fields(order[n])]
  <2>1. WebList(providers, param) = [n \in DOMAIN order |-> Fields(order[n])]
    BY Zenon DEF WebList, all
  <2>2. QED
    BY <2>1
<1> HIDE DEF order, useful
<1>7. ASSUME NEW i \in DOMAIN order PROVE order[i] \in used
  BY <1>5 DEF Range
<1>8. ASSUME NEW x \in used PROVE Delivered(param, x, Fields(x))
  <2>1. PICK p \in OfParam(providers, param) : \E i \in DOMAIN p.items :
               /\ x = <<p, i>> /\ WellFormed(p, names) /\ p.param = param
               /\ Decodable(param, p.items[i], p.secrets)
               /\ Item(x) = p.items[i] /\ x[1] = p
    BY <1>2
  <2>2. PICK i \in DOMAIN p.items :
               /\ x = <<p, i>> /\ WellFormed(p, names) /\ p.param = param
               /\ Decodable(param, p.items[i], p.secrets)
               /\ Item(x) = p.items[i] /\ x[1] = p
    BY <2>1
  <2>3. Name(p.items[i]) # "sql"
    BY <2>2
  <2>4. Delivered(param, <<p, i>>, WebFields(param, Decoded(param, p.items[i], p.secrets)))
    BY <2>2, <2>3, DeliveredIs
  <2>5. QED
    BY <2>2, <2>4
<1> HIDE DEF Fields, used
<1>9. DOMAIN q.items = DOMAIN order /\ \A i \in DOMAIN order : q.items[i] = Fields(order[i])
  BY <1>6
<1>10. ~HasSecrets(q.secrets) /\ OnWeb(providers, param) = {q}
  BY DEF HasSecrets, OnWeb
<1> HIDE DEF q
<1>11. order \in [DOMAIN q.items -> used]
  <2>1. order = [i \in DOMAIN order |-> order[i]]
    BY <1>5
  <2>2. QED
    BY <2>1, <1>7, <1>9
<1>12. /\ \A i, j \in DOMAIN order : i < j => Earlier(order[i], order[j])
       /\ \A i \in DOMAIN order : Delivered(param, order[i], q.items[i])
  BY <1>5, <1>7, <1>8, <1>9 DEF InOrder
<1>13. \E o \in [DOMAIN q.items -> used] :
          /\ Range(o) = used
          /\ \A i, j \in DOMAIN o : i < j => Earlier(o[i], o[j])
          /\ \A i \in DOMAIN o : Delivered(param, o[i], q.items[i])
  BY <1>5, <1>11, <1>12, Zenon
<1>14. QED
  BY <1>10, <1>13, Zenon DEF WebIntended, used, objects

-----------------------------------------------------------------------------
(* ServiceStart *)

USE ScopeAssumption

-----------------------------------------------------------------------------
(* Type correctness is inductive as it stands. *)

\* Every program has steps, numbered from 1.
LEMMA StepsOf ==
  ASSUME NEW p \in Programs
  PROVE  Len(Steps(p)) \in Nat \ {0} /\ DOMAIN Steps(p) = 1..Len(Steps(p))
<1>1. CASE p = "server"
  BY <1>1 DEF Steps, ServerSteps
<1>2. CASE p = "proxy"
  BY <1>2 DEF Steps, ProxySteps
<1>3. CASE p = "agent"
  BY <1>3 DEF Steps, AgentSteps
<1>4. CASE p = "agent2"
  BY <1>4 DEF Steps, Agent2Steps
<1>5. CASE p = "mcp"
  BY <1>5 DEF Steps, McpSteps
<1>6. CASE p = "sqlite"
  BY <1>6 DEF Steps, SqliteSteps
<1>7. CASE p = "nginx"
  BY <1>7 DEF Steps, NginxSteps
<1>8. CASE p = "apache"
  BY <1>8 DEF Steps, ApacheSteps
<1>9. QED
  BY <1>1, <1>2, <1>3, <1>4, <1>5, <1>6, <1>7, <1>8 DEF Programs

LEMMA FirstStep == ASSUME NEW d \in Deployments PROVE 1 \in DOMAIN Steps(d.program)
<1>1. d.program \in Programs
  OBVIOUS
<1>2. QED
  BY <1>1, StepsOf

LEMMA TypeInit == Init => TypeOK
<1> SUFFICES ASSUME Init PROVE TypeOK
  OBVIOUS
<1>1. step \in DOMAIN Steps(deployed.program)
  BY FirstStep DEF Init
<1>2. DOMAIN files = DOMAIN deployed.shipped /\ DOMAIN base = DOMAIN files
  BY Zenon DEF Init
<1>3. /\ calls \in 0..Attempts /\ faults \in 0..MaxFaults /\ deploys \in 0..MaxDeploys
  BY DEF Init
<1>4. QED
  BY <1>1, <1>2, <1>3, Zenon DEF Init, TypeOK, Phases

LEMMA TypeNext == TypeOK /\ [Next]_vars => TypeOK'
<1> SUFFICES ASSUME TypeOK, [Next]_vars PROVE TypeOK'
  OBVIOUS
<1> USE DEF TypeOK, Phases, request
<1> deployed.program \in Programs
  OBVIOUS
<1>1. CASE Redeploy
  <2>1. PICK next \in Deployments :
          /\ next.program = deployed.program /\ deployed' = next
          /\ \E kept \in {files, next.shipped} : files' = kept /\ base' = kept
    BY <1>1, Zenon DEF Redeploy
  <2>2. DOMAIN next.shipped = DOMAIN deployed.shipped
    BY <2>1
  <2>3. DOMAIN files' = DOMAIN deployed'.shipped /\ DOMAIN base' = DOMAIN files'
    BY <2>1, <2>2, Zenon
  <2>4. step' \in DOMAIN Steps(deployed'.program) /\ deployed' \in Deployments
    BY <1>1, <2>1, Zenon DEF Redeploy
  <2>5. /\ phase' = "down" /\ stale' = FALSE /\ deploys' \in 0..MaxDeploys
        /\ UNCHANGED <<stage, calls, cancelled, result, faults>>
    BY <1>1 DEF Redeploy
  <2>6. QED
    BY <2>3, <2>4, <2>5, Zenon
<1>2. CASE Crash
  BY <1>2 DEF Crash, Fault
<1>3. CASE Start
  <2>1. step' \in DOMAIN Steps(deployed'.program)
    BY <1>3, FirstStep DEF Start
  <2>2. CASE UNCHANGED <<stage, calls, cancelled, result>> /\ phase' \in {"configure", "credentials"}
    BY <1>3, <2>1, <2>2 DEF Start
  <2>3. CASE /\ phase' = "attempt" /\ calls' = 1 /\ result' = "none"
             /\ stage' \in {"login", "read"} /\ cancelled' = FALSE
    <3>1. UNCHANGED <<deployed, base, files, stale, faults, deploys>>
      BY <1>3 DEF Start
    <3>2. calls' \in 0..Attempts
      BY <2>3
    <3>3. DOMAIN files' = DOMAIN deployed'.shipped /\ DOMAIN base' = DOMAIN files'
      BY <3>1
    <3>4. deployed' \in Deployments /\ faults' \in 0..MaxFaults /\ deploys' \in 0..MaxDeploys
      BY <3>1
    <3>5. stale' \in BOOLEAN /\ calls' # 0
      BY <2>3, <3>1
    <3>6. QED
      BY <2>1, <2>3, <3>2, <3>3, <3>4, <3>5, Zenon
  <2>4. CASE UsesDatabase(deployed.program) /\ deployed.vault # "none"
    BY <1>3, <2>3, <2>4 DEF Start, BeginRequest
  <2>5. CASE ~(UsesDatabase(deployed.program) /\ deployed.vault # "none")
    BY <1>3, <2>2, <2>5 DEF Start
  <2>6. QED
    BY <2>4, <2>5
<1>4. CASE StopSignal
  BY <1>4 DEF StopSignal, Fault
<1>5. CASE Answered
  <2>1. /\ phase' \in {"token", "credentials", "database", "configure", "down"}
        /\ result' = "nil" /\ faults' \in 0..MaxFaults
        /\ UNCHANGED <<deployed, base, files, step, stage, calls, cancelled, deploys>>
    BY <1>5 DEF Answered, Following, Return, Fault
  <2>2. calls # 0 /\ stale' \in BOOLEAN
    BY <1>5 DEF Answered
  <2>3. QED
    BY <2>1, <2>2
<1>6. CASE Unavailable
  BY <1>6 DEF Unavailable, AttemptFails, Limit, Return, Fault
<1>7. CASE Refused
  BY <1>7 DEF Refused, Return, Fault
<1>8. CASE Interrupted
  BY <1>8 DEF Interrupted, AttemptFails, Limit, Return
<1>9. CASE Resume
  BY <1>9 DEF Resume, Limit
<1>10. CASE GiveUp
  BY <1>10 DEF GiveUp, Return
<1>11. CASE Read
  BY <1>11 DEF Read, BeginRequest
<1>12. CASE Database
  BY <1>12 DEF Database, Fault
<1>13. CASE Write
  BY <1>13, StepsOf DEF Write, Advance
<1>14. CASE Reject
  BY <1>14 DEF Reject, Fails
<1>15. CASE WriteFails
  BY <1>15 DEF WriteFails, Fails, Fault
<1>16. CASE Providers
  BY <1>16, StepsOf, SMTT(60) DEF Providers, Advance, Fails, Fault
<1>17. CASE Hooks
  BY <1>17, StepsOf, SMTT(60) DEF Hooks, Advance, Fails, Fault
<1>18. CASE Connect
  <2>1. /\ phase' = "attempt" /\ stage' = "connect" /\ calls' = 1
        /\ result' = "none" /\ cancelled' = FALSE
        /\ UNCHANGED <<deployed, base, files, step, stale, faults, deploys>>
    BY <1>18 DEF Connect, BeginRequest
  <2>2. /\ calls' # 0 /\ calls' \in 0..Attempts
        /\ DOMAIN files' = DOMAIN deployed'.shipped /\ DOMAIN base' = DOMAIN files'
        /\ step' \in DOMAIN Steps(deployed'.program)
    BY <2>1
  <2>3. QED
    BY <2>1, <2>2, Zenon
<1>19. CASE Rotate
  BY <1>19 DEF Rotate, Fault
<1>20. CASE UNCHANGED vars
  BY <1>20 DEF vars
<1>21. QED
  BY <1>1, <1>2, <1>3, <1>4, <1>5, <1>6, <1>7, <1>8, <1>9, <1>10, <1>11, <1>12,
     <1>13, <1>14, <1>15, <1>16, <1>17, <1>18, <1>19, <1>20 DEF Next

\* The state of every start is well typed: a request that is under way has an
\* attempt of its Retry, a pause between two requests to Vault leaves at least
\* one more attempt, and the files stay those of the image.
THEOREM TypeCorrect == Spec => []TypeOK
<1>1. QED
  BY TypeInit, TypeNext, PTL DEF Spec

-----------------------------------------------------------------------------
(* Both requests to Vault and the wait for the database are calls of Retry. *)

USE DEF RetryOf!Return, RetryOf!vars, Limit

LEMMA RetryInit == Init => RetryOf!Init
  BY DEF Init, RetryOf!Init

\* A request that begins is a call.
LEMMA Called ==
  ASSUME phase \notin {"attempt", "pause"}, phase' = "attempt", calls' = 1,
         cancelled' \in BOOLEAN, result' = "none"
  PROVE  RetryOf!Call
<1>1. Limit' \in Nat
  OBVIOUS
<1>2. calls' # 0 /\ phase # "attempt" /\ phase # "pause"
  OBVIOUS
<1>3. CASE calls = 0
  BY <1>1, <1>2, <1>3, Zenon DEF RetryOf!Call
<1>4. CASE calls # 0
  BY <1>1, <1>2, <1>4, Zenon DEF RetryOf!Call
<1>5. QED
  BY <1>3, <1>4

LEMMA RetryNext == TypeOK /\ [Next]_vars => [RetryOf!Next]_(RetryOf!vars)
<1> SUFFICES ASSUME TypeOK, [Next]_vars PROVE [RetryOf!Next]_(RetryOf!vars)
  OBVIOUS
<1> USE DEF TypeOK, Phases, request
<1>1. CASE Redeploy
  BY <1>1 DEF Redeploy
<1>2. CASE Crash
  <2>1. CASE phase = "attempt"
    BY <1>2, <2>1 DEF Crash, RetryOf!Next, RetryOf!Stop
  <2>2. CASE phase # "attempt"
    BY <1>2, <2>2 DEF Crash
  <2>3. QED
    BY <2>1, <2>2
<1>3. CASE Start
  <2>1. CASE UNCHANGED <<stage, calls, cancelled, result>>
    BY <1>3, <2>1 DEF Start, BeginRequest
  <2>2. CASE UsesDatabase(deployed.program) /\ deployed.vault # "none"
    BY <1>3, <2>2, Called DEF Start, BeginRequest, RetryOf!Next
  <2>3. CASE ~(UsesDatabase(deployed.program) /\ deployed.vault # "none")
    BY <1>3, <2>1, <2>3 DEF Start
  <2>4. QED
    BY <2>2, <2>3
<1>4. CASE StopSignal
  BY <1>4 DEF StopSignal, RetryOf!Next, RetryOf!Cancel
<1>5. CASE Answered
  BY <1>5 DEF Answered, Following, Return, RetryOf!Next, RetryOf!Succeed
<1>6. ASSUME phase = "attempt", AttemptFails PROVE RetryOf!Fail
  BY <1>6 DEF AttemptFails, Return, RetryOf!Fail
<1>7. CASE Unavailable \/ Interrupted
  BY <1>6, <1>7 DEF Unavailable, Interrupted, RetryOf!Next
<1>8. CASE Refused
  BY <1>8 DEF Refused, Return, RetryOf!Next, RetryOf!Stop
<1>9. CASE Resume
  BY <1>9 DEF Resume, RetryOf!Next, RetryOf!Resume
<1>10. CASE GiveUp
  BY <1>10 DEF GiveUp, Return, RetryOf!Next, RetryOf!GiveUp
<1>11. CASE Read
  BY <1>11, Called DEF Read, BeginRequest, RetryOf!Next
<1>12. ASSUME phase \notin {"attempt", "pause"}, phase' \notin {"attempt", "pause"},
              UNCHANGED request
       PROVE  UNCHANGED RetryOf!vars
  BY <1>12
<1>13. CASE Database
  BY <1>12, <1>13 DEF Database
<1>14. CASE Write
  BY <1>12, <1>14 DEF Write, Advance
<1>15. CASE Reject \/ WriteFails
  BY <1>12, <1>15 DEF Reject, WriteFails, Fails
<1>16. CASE Providers \/ Hooks
  BY <1>12, <1>16 DEF Providers, Hooks, At, Advance, Fails
<1>17. CASE Connect
  BY <1>17, Called DEF Connect, BeginRequest, RetryOf!Next
<1>18. CASE Rotate
  BY <1>18 DEF Rotate
<1>19. CASE UNCHANGED vars
  BY <1>19 DEF vars
<1>20. QED
  BY <1>1, <1>2, <1>3, <1>4, <1>5, <1>7, <1>8, <1>9, <1>10, <1>11, <1>13, <1>14,
     <1>15, <1>16, <1>17, <1>18, <1>19 DEF Next

\* The login, the reading of the credentials and the wait for the database
\* follow bootstrap.Retry: the number of attempts, the pause before each but the
\* first, the end with the stop signal, and no attempt after an answer that is
\* final.
THEOREM StartImplementsRetry == Spec => ImplementsRetry
<1>1. QED
  BY TypeCorrect, RetryInit, RetryNext, PTL DEF Spec, ImplementsRetry, RetryOf!Spec
-----------------------------------------------------------------------------
(* Which steps of a program write which files *)

HIDE ScopeAssumption
HIDE DEF RetryOf!Return, RetryOf!vars, Limit

ServerOps(j) ==
  /\ j \in {1, 2, 3, 4, 5, 6}
  /\ ServerSteps[j].op \in {"merge", "providers", "indexed", "hooks"}
  /\ ServerSteps[j].op = "merge" => j = 1
  /\ ServerSteps[j].op = "providers" => j \in {2, 3}
  /\ ServerSteps[j].op = "indexed" => j \in {4, 5}
  /\ ServerSteps[j].op = "hooks" => j = 6

ServerFiles(j) ==
  /\ ServerSteps[j].file = "modules" => j = 1
  /\ ServerSteps[j].file = "history_storage" => j = 4
  /\ ServerSteps[j].file = "telemetry" => j = 5
  /\ ServerSteps[j].file = "" => j \in {2, 3, 6}

LEMMA ServerTable == ASSUME NEW j \in DOMAIN ServerSteps PROVE ServerOps(j) /\ ServerFiles(j)
<1>1. j \in 1..6
  BY DEF ServerSteps
<1>2. j \in {1, 2, 3, 4, 5, 6}
  BY <1>1
<1>3. /\ ServerSteps[1].op = "merge" /\ ServerSteps[2].op = "providers"
      /\ ServerSteps[3].op = "providers" /\ ServerSteps[4].op = "indexed"
      /\ ServerSteps[5].op = "indexed" /\ ServerSteps[6].op = "hooks"
  BY DEF ServerSteps, Step
<1>4. /\ ServerSteps[1].file = "modules" /\ ServerSteps[2].file = ""
      /\ ServerSteps[3].file = "" /\ ServerSteps[4].file = "history_storage"
      /\ ServerSteps[5].file = "telemetry" /\ ServerSteps[6].file = ""
  BY DEF ServerSteps, Step
<1>5. /\ ServerSteps[j].op \in {"merge", "providers", "indexed", "hooks"}
      /\ ServerSteps[j].op = "merge" => j = 1
      /\ ServerSteps[j].op = "providers" => j \in {2, 3}
      /\ ServerSteps[j].op = "indexed" => j \in {4, 5}
      /\ ServerSteps[j].op = "hooks" => j = 6
  BY <1>2, <1>3
<1>6. /\ ServerSteps[j].file = "" => j \in {2, 3, 6}
      /\ ServerSteps[j].file = "modules" => j = 1
      /\ ServerSteps[j].file = "history_storage" => j = 4
      /\ ServerSteps[j].file = "telemetry" => j = 5
  BY <1>2, <1>4
<1>7. QED
  BY <1>2, <1>5, <1>6, Zenon DEF ServerOps, ServerFiles

ProxyOps(j) ==
  /\ j \in {1, 2, 3, 4}
  /\ ProxySteps[j].op \in {"merge", "providers", "indexed", "hooks"}
  /\ ProxySteps[j].op = "merge" => j = 1
  /\ ProxySteps[j].op = "providers" => j = 2
  /\ ProxySteps[j].op = "indexed" => j = 3
  /\ ProxySteps[j].op = "hooks" => j = 4

ProxyFiles(j) ==
  /\ ProxySteps[j].file = "modules" => j = 1
  /\ ProxySteps[j].file = "telemetry" => j = 3
  /\ ProxySteps[j].file = "" => j \in {2, 4}

LEMMA ProxyTable == ASSUME NEW j \in DOMAIN ProxySteps PROVE ProxyOps(j) /\ ProxyFiles(j)
<1>1. j \in 1..4
  BY DEF ProxySteps
<1>2. j \in {1, 2, 3, 4}
  BY <1>1
<1>3. /\ ProxySteps[1].op = "merge" /\ ProxySteps[2].op = "providers"
      /\ ProxySteps[3].op = "indexed" /\ ProxySteps[4].op = "hooks"
  BY DEF ProxySteps, Step
<1>4. /\ ProxySteps[1].file = "modules" /\ ProxySteps[2].file = ""
      /\ ProxySteps[3].file = "telemetry" /\ ProxySteps[4].file = ""
  BY DEF ProxySteps, Step
<1>5. /\ ProxySteps[j].op \in {"merge", "providers", "indexed", "hooks"}
      /\ ProxySteps[j].op = "merge" => j = 1
      /\ ProxySteps[j].op = "providers" => j = 2
      /\ ProxySteps[j].op = "indexed" => j = 3
      /\ ProxySteps[j].op = "hooks" => j = 4
  BY <1>2, <1>3
<1>6. /\ ProxySteps[j].file = "" => j \in {2, 4}
      /\ ProxySteps[j].file = "modules" => j = 1
      /\ ProxySteps[j].file = "telemetry" => j = 3
  BY <1>2, <1>4
<1>7. QED
  BY <1>2, <1>5, <1>6, Zenon DEF ProxyOps, ProxyFiles

AgentOps(j) ==
  /\ j \in {1, 2, 3, 4, 5}
  /\ AgentSteps[j].op \in {"rules", "indexed", "merge", "hooks"}
  /\ AgentSteps[j].op = "rules" => j = 1
  /\ AgentSteps[j].op = "indexed" => j \in {2, 3}
  /\ AgentSteps[j].op = "merge" => j = 4
  /\ AgentSteps[j].op = "hooks" => j = 5

AgentFiles(j) ==
  /\ AgentSteps[j].file = "item_keys" => j = 1
  /\ AgentSteps[j].file = "aliases" => j = 2
  /\ AgentSteps[j].file = "user_parameters" => j = 3
  /\ AgentSteps[j].file = "modules" => j = 4
  /\ AgentSteps[j].file = "" => j = 5

LEMMA AgentTable == ASSUME NEW j \in DOMAIN AgentSteps PROVE AgentOps(j) /\ AgentFiles(j)
<1>1. j \in 1..5
  BY DEF AgentSteps
<1>2. j \in {1, 2, 3, 4, 5}
  BY <1>1
<1>3. /\ AgentSteps[1].op = "rules" /\ AgentSteps[2].op = "indexed"
      /\ AgentSteps[3].op = "indexed" /\ AgentSteps[4].op = "merge"
      /\ AgentSteps[5].op = "hooks"
  BY DEF AgentSteps, Step
<1>4. /\ AgentSteps[1].file = "item_keys" /\ AgentSteps[2].file = "aliases"
      /\ AgentSteps[3].file = "user_parameters" /\ AgentSteps[4].file = "modules"
      /\ AgentSteps[5].file = ""
  BY DEF AgentSteps, Step
<1>5. /\ AgentSteps[j].op \in {"rules", "indexed", "merge", "hooks"}
      /\ AgentSteps[j].op = "rules" => j = 1
      /\ AgentSteps[j].op = "indexed" => j \in {2, 3}
      /\ AgentSteps[j].op = "merge" => j = 4
      /\ AgentSteps[j].op = "hooks" => j = 5
  BY <1>2, <1>3
<1>6. /\ AgentSteps[j].file = "" => j = 5
      /\ AgentSteps[j].file = "item_keys" => j = 1
      /\ AgentSteps[j].file = "aliases" => j = 2
      /\ AgentSteps[j].file = "user_parameters" => j = 3
      /\ AgentSteps[j].file = "modules" => j = 4
  BY <1>2, <1>4
<1>7. QED
  BY <1>2, <1>5, <1>6, Zenon DEF AgentOps, AgentFiles

Agent2Ops(j) ==
  /\ j \in {1, 2, 3, 4, 5, 6, 7, 8}
  /\ Agent2Steps[j].op \in {"rules", "indexed", "set", "hooks"}
  /\ Agent2Steps[j].op = "rules" => j = 1
  /\ Agent2Steps[j].op = "indexed" => j \in {2, 3}
  /\ Agent2Steps[j].op = "set" => j \in {4, 5, 6, 7}
  /\ Agent2Steps[j].op = "hooks" => j = 8

Agent2Files(j) ==
  /\ Agent2Steps[j].file = "item_keys" => j = 1
  /\ Agent2Steps[j].file = "aliases" => j = 2
  /\ Agent2Steps[j].file = "user_parameters" => j = 3
  /\ Agent2Steps[j].file = "mongodb" => j = 4
  /\ Agent2Steps[j].file = "postgresql" => j = 5
  /\ Agent2Steps[j].file = "mssql" => j = 6
  /\ Agent2Steps[j].file = "ember" => j = 7
  /\ Agent2Steps[j].file = "" => j = 8

LEMMA Agent2Table == ASSUME NEW j \in DOMAIN Agent2Steps PROVE Agent2Ops(j) /\ Agent2Files(j)
<1>1. j \in 1..8
  BY DEF Agent2Steps
<1>2. j \in {1, 2, 3, 4, 5, 6, 7, 8}
  BY <1>1
<1>3. /\ Agent2Steps[1].op = "rules" /\ Agent2Steps[2].op = "indexed"
      /\ Agent2Steps[3].op = "indexed" /\ Agent2Steps[4].op = "set"
      /\ Agent2Steps[5].op = "set" /\ Agent2Steps[6].op = "set"
      /\ Agent2Steps[7].op = "set" /\ Agent2Steps[8].op = "hooks"
  BY DEF Agent2Steps, Step
<1>4. /\ Agent2Steps[1].file = "item_keys" /\ Agent2Steps[2].file = "aliases"
      /\ Agent2Steps[3].file = "user_parameters" /\ Agent2Steps[4].file = "mongodb"
      /\ Agent2Steps[5].file = "postgresql" /\ Agent2Steps[6].file = "mssql"
      /\ Agent2Steps[7].file = "ember" /\ Agent2Steps[8].file = ""
  BY DEF Agent2Steps, Step
<1>5. /\ Agent2Steps[j].op \in {"rules", "indexed", "set", "hooks"}
      /\ Agent2Steps[j].op = "rules" => j = 1
      /\ Agent2Steps[j].op = "indexed" => j \in {2, 3}
      /\ Agent2Steps[j].op = "set" => j \in {4, 5, 6, 7}
      /\ Agent2Steps[j].op = "hooks" => j = 8
  BY <1>2, <1>3
<1>6. /\ Agent2Steps[j].file = "" => j = 8
      /\ Agent2Steps[j].file = "item_keys" => j = 1
      /\ Agent2Steps[j].file = "aliases" => j = 2
      /\ Agent2Steps[j].file = "user_parameters" => j = 3
      /\ Agent2Steps[j].file = "mongodb" => j = 4
      /\ Agent2Steps[j].file = "postgresql" => j = 5
      /\ Agent2Steps[j].file = "mssql" => j = 6
      /\ Agent2Steps[j].file = "ember" => j = 7
  BY <1>2, <1>4
<1>7. QED
  BY <1>2, <1>5, <1>6, Zenon DEF Agent2Ops, Agent2Files

McpOps(j) ==
  /\ j \in {1, 2, 3}
  /\ McpSteps[j].op \in {"open", "restore", "replace"}
  /\ McpSteps[j].op = "open" => j = 1
  /\ McpSteps[j].op = "restore" => j = 2
  /\ McpSteps[j].op = "replace" => j = 3

McpFiles(j) ==
  /\ McpSteps[j].file = "tool_access" => j \in {1, 2, 3}

LEMMA McpTable == ASSUME NEW j \in DOMAIN McpSteps PROVE McpOps(j) /\ McpFiles(j)
<1>1. j \in 1..3
  BY DEF McpSteps
<1>2. j \in {1, 2, 3}
  BY <1>1
<1>3. /\ McpSteps[1].op = "open" /\ McpSteps[2].op = "restore"
      /\ McpSteps[3].op = "replace"
  BY DEF McpSteps, Step
<1>4. /\ McpSteps[1].file = "tool_access" /\ McpSteps[2].file = "tool_access"
      /\ McpSteps[3].file = "tool_access"
  BY DEF McpSteps, Step
<1>5. /\ McpSteps[j].op \in {"open", "restore", "replace"}
      /\ McpSteps[j].op = "open" => j = 1
      /\ McpSteps[j].op = "restore" => j = 2
      /\ McpSteps[j].op = "replace" => j = 3
  BY <1>2, <1>3
<1>6. /\ McpSteps[j].file = "tool_access" => j \in {1, 2, 3}
  BY <1>2, <1>4
<1>7. QED
  BY <1>2, <1>5, <1>6, Zenon DEF McpOps, McpFiles

SqliteOps(j) ==
  /\ j \in {1, 2, 3, 4, 5, 6, 7, 8, 9, 10}
  /\ SqliteSteps[j].op \in {"begin", "execute", "commit", "merge", "providers",
                         "indexed", "hooks"}
  /\ SqliteSteps[j].op = "begin" => j = 1
  /\ SqliteSteps[j].op = "execute" => j \in {2, 3, 4, 5}
  /\ SqliteSteps[j].op = "commit" => j = 6
  /\ SqliteSteps[j].op = "merge" => j = 7
  /\ SqliteSteps[j].op = "providers" => j = 8
  /\ SqliteSteps[j].op = "indexed" => j = 9
  /\ SqliteSteps[j].op = "hooks" => j = 10

SqliteFiles(j) ==
  /\ SqliteSteps[j].file = "transaction" => j \in {1, 2, 3, 4, 5}
  /\ SqliteSteps[j].file = "db" => j = 6
  /\ SqliteSteps[j].file = "modules" => j = 7
  /\ SqliteSteps[j].file = "telemetry" => j = 9
  /\ SqliteSteps[j].file = "" => j \in {8, 10}

LEMMA SqliteTable == ASSUME NEW j \in DOMAIN SqliteSteps PROVE SqliteOps(j) /\ SqliteFiles(j)
<1>1. j \in 1..10
  BY DEF SqliteSteps
<1>2. j \in {1, 2, 3, 4, 5, 6, 7, 8, 9, 10}
  BY <1>1
<1>3. /\ SqliteSteps[1].op = "begin" /\ SqliteSteps[2].op = "execute"
      /\ SqliteSteps[3].op = "execute" /\ SqliteSteps[4].op = "execute"
      /\ SqliteSteps[5].op = "execute" /\ SqliteSteps[6].op = "commit"
      /\ SqliteSteps[7].op = "merge" /\ SqliteSteps[8].op = "providers"
      /\ SqliteSteps[9].op = "indexed" /\ SqliteSteps[10].op = "hooks"
  BY DEF SqliteSteps, Step
<1>4. /\ SqliteSteps[1].file = "transaction" /\ SqliteSteps[2].file = "transaction"
      /\ SqliteSteps[3].file = "transaction" /\ SqliteSteps[4].file = "transaction"
      /\ SqliteSteps[5].file = "transaction" /\ SqliteSteps[6].file = "db"
      /\ SqliteSteps[7].file = "modules" /\ SqliteSteps[8].file = ""
      /\ SqliteSteps[9].file = "telemetry" /\ SqliteSteps[10].file = ""
  BY DEF SqliteSteps, Step
<1>5. /\ SqliteSteps[j].op \in {"begin", "execute", "commit", "merge", "providers",
                             "indexed", "hooks"}
      /\ SqliteSteps[j].op = "begin" => j = 1
      /\ SqliteSteps[j].op = "execute" => j \in {2, 3, 4, 5}
      /\ SqliteSteps[j].op = "commit" => j = 6
      /\ SqliteSteps[j].op = "merge" => j = 7
      /\ SqliteSteps[j].op = "providers" => j = 8
      /\ SqliteSteps[j].op = "indexed" => j = 9
      /\ SqliteSteps[j].op = "hooks" => j = 10
  BY <1>2, <1>3
<1>6. /\ SqliteSteps[j].file = "" => j \in {8, 10}
      /\ SqliteSteps[j].file = "transaction" => j \in {1, 2, 3, 4, 5}
      /\ SqliteSteps[j].file = "db" => j = 6
      /\ SqliteSteps[j].file = "modules" => j = 7
      /\ SqliteSteps[j].file = "telemetry" => j = 9
  BY <1>2, <1>4
<1>7. QED
  BY <1>2, <1>5, <1>6, Zenon DEF SqliteOps, SqliteFiles

NginxOps(j) ==
  /\ j \in {1, 2, 3, 4, 5, 6, 7, 8, 9, 10, 11, 12, 13, 14, 15, 16, 17, 18, 19, 20, 21}
  /\ NginxSteps[j].op \in {"providers", "append", "open", "fill", "unlink",
                        "link", "withdraw", "replace_in", "hooks"}
  /\ NginxSteps[j].op = "providers" => j \in {1, 2}
  /\ NginxSteps[j].op = "append" => j = 3
  /\ NginxSteps[j].op = "open" => j \in {4, 5, 6, 7, 8}
  /\ NginxSteps[j].op = "fill" => j \in {9, 12, 15, 19, 20}
  /\ NginxSteps[j].op = "unlink" => j \in {10, 13}
  /\ NginxSteps[j].op = "link" => j \in {11, 14}
  /\ NginxSteps[j].op = "withdraw" => j = 16
  /\ NginxSteps[j].op = "replace_in" => j \in {17, 18}
  /\ NginxSteps[j].op = "hooks" => j = 21

NginxFiles(j) ==
  /\ NginxSteps[j].file = "php" => j = 3
  /\ NginxSteps[j].file = "access_log" => j \in {4, 19}
  /\ NginxSteps[j].file = "user" => j \in {5, 9}
  /\ NginxSteps[j].file = "real_ip" => j \in {6, 20}
  /\ NginxSteps[j].file = "listen_ipv6" => j \in {7, 12}
  /\ NginxSteps[j].file = "listen_ipv6_ssl" => j \in {8, 15}
  /\ NginxSteps[j].file = "http" => j \in {10, 11}
  /\ NginxSteps[j].file = "https" => j \in {13, 14, 16}
  /\ NginxSteps[j].file = "server_common" => j = 17
  /\ NginxSteps[j].file = "nginx_conf" => j = 18
  /\ NginxSteps[j].file = "" => j \in {1, 2, 21}

LEMMA NginxTable == ASSUME NEW j \in DOMAIN NginxSteps PROVE NginxOps(j) /\ NginxFiles(j)
<1>1. j \in 1..21
  BY DEF NginxSteps
<1>2. j \in {1, 2, 3, 4, 5, 6, 7, 8, 9, 10, 11, 12, 13, 14, 15, 16, 17, 18, 19, 20, 21}
  BY <1>1
<1>3. /\ NginxSteps[1].op = "providers" /\ NginxSteps[2].op = "providers"
      /\ NginxSteps[3].op = "append" /\ NginxSteps[4].op = "open"
      /\ NginxSteps[5].op = "open" /\ NginxSteps[6].op = "open"
      /\ NginxSteps[7].op = "open" /\ NginxSteps[8].op = "open"
      /\ NginxSteps[9].op = "fill" /\ NginxSteps[10].op = "unlink"
      /\ NginxSteps[11].op = "link" /\ NginxSteps[12].op = "fill"
      /\ NginxSteps[13].op = "unlink" /\ NginxSteps[14].op = "link"
      /\ NginxSteps[15].op = "fill" /\ NginxSteps[16].op = "withdraw"
      /\ NginxSteps[17].op = "replace_in" /\ NginxSteps[18].op = "replace_in"
      /\ NginxSteps[19].op = "fill" /\ NginxSteps[20].op = "fill"
      /\ NginxSteps[21].op = "hooks"
  BY DEF NginxSteps, Step
<1>4. /\ NginxSteps[1].file = "" /\ NginxSteps[2].file = ""
      /\ NginxSteps[3].file = "php" /\ NginxSteps[4].file = "access_log"
      /\ NginxSteps[5].file = "user" /\ NginxSteps[6].file = "real_ip"
      /\ NginxSteps[7].file = "listen_ipv6" /\ NginxSteps[8].file = "listen_ipv6_ssl"
      /\ NginxSteps[9].file = "user" /\ NginxSteps[10].file = "http"
      /\ NginxSteps[11].file = "http" /\ NginxSteps[12].file = "listen_ipv6"
      /\ NginxSteps[13].file = "https" /\ NginxSteps[14].file = "https"
      /\ NginxSteps[15].file = "listen_ipv6_ssl" /\ NginxSteps[16].file = "https"
      /\ NginxSteps[17].file = "server_common" /\ NginxSteps[18].file = "nginx_conf"
      /\ NginxSteps[19].file = "access_log" /\ NginxSteps[20].file = "real_ip"
      /\ NginxSteps[21].file = ""
  BY DEF NginxSteps, Step
<1>5. /\ NginxSteps[j].op \in {"providers", "append", "open", "fill", "unlink",
                            "link", "withdraw", "replace_in", "hooks"}
      /\ NginxSteps[j].op = "providers" => j \in {1, 2}
      /\ NginxSteps[j].op = "append" => j = 3
      /\ NginxSteps[j].op = "open" => j \in {4, 5, 6, 7, 8}
      /\ NginxSteps[j].op = "fill" => j \in {9, 12, 15, 19, 20}
      /\ NginxSteps[j].op = "unlink" => j \in {10, 13}
      /\ NginxSteps[j].op = "link" => j \in {11, 14}
      /\ NginxSteps[j].op = "withdraw" => j = 16
      /\ NginxSteps[j].op = "replace_in" => j \in {17, 18}
      /\ NginxSteps[j].op = "hooks" => j = 21
  BY <1>2, <1>3
<1>6. /\ NginxSteps[j].file = "" => j \in {1, 2, 21}
      /\ NginxSteps[j].file = "php" => j = 3
      /\ NginxSteps[j].file = "access_log" => j \in {4, 19}
      /\ NginxSteps[j].file = "user" => j \in {5, 9}
      /\ NginxSteps[j].file = "real_ip" => j \in {6, 20}
      /\ NginxSteps[j].file = "listen_ipv6" => j \in {7, 12}
      /\ NginxSteps[j].file = "listen_ipv6_ssl" => j \in {8, 15}
      /\ NginxSteps[j].file = "http" => j \in {10, 11}
      /\ NginxSteps[j].file = "https" => j \in {13, 14, 16}
      /\ NginxSteps[j].file = "server_common" => j = 17
      /\ NginxSteps[j].file = "nginx_conf" => j = 18
  BY <1>2, <1>4, ZenonT(60)
<1>7. QED
  BY <1>2, <1>5, <1>6, Zenon DEF NginxOps, NginxFiles

ApacheOps(j) ==
  /\ j \in {1, 2, 3, 4, 5, 6, 7, 8, 9, 10, 11}
  /\ ApacheSteps[j].op \in {"providers", "append", "unlink", "link", "withdraw",
                         "remove_lines", "hooks"}
  /\ ApacheSteps[j].op = "providers" => j \in {1, 2}
  /\ ApacheSteps[j].op = "append" => j = 3
  /\ ApacheSteps[j].op = "unlink" => j \in {4, 6}
  /\ ApacheSteps[j].op = "link" => j \in {5, 7}
  /\ ApacheSteps[j].op = "withdraw" => j = 8
  /\ ApacheSteps[j].op = "remove_lines" => j \in {9, 10}
  /\ ApacheSteps[j].op = "hooks" => j = 11

ApacheFiles(j) ==
  /\ ApacheSteps[j].file = "php" => j = 3
  /\ ApacheSteps[j].file = "http" => j \in {4, 5}
  /\ ApacheSteps[j].file = "https" => j \in {6, 7, 8}
  /\ ApacheSteps[j].file = "server_common" => j \in {9, 10}
  /\ ApacheSteps[j].file = "" => j \in {1, 2, 11}

LEMMA ApacheTable == ASSUME NEW j \in DOMAIN ApacheSteps PROVE ApacheOps(j) /\ ApacheFiles(j)
<1>1. j \in 1..11
  BY DEF ApacheSteps
<1>2. j \in {1, 2, 3, 4, 5, 6, 7, 8, 9, 10, 11}
  BY <1>1
<1>3. /\ ApacheSteps[1].op = "providers" /\ ApacheSteps[2].op = "providers"
      /\ ApacheSteps[3].op = "append" /\ ApacheSteps[4].op = "unlink"
      /\ ApacheSteps[5].op = "link" /\ ApacheSteps[6].op = "unlink"
      /\ ApacheSteps[7].op = "link" /\ ApacheSteps[8].op = "withdraw"
      /\ ApacheSteps[9].op = "remove_lines" /\ ApacheSteps[10].op = "remove_lines"
      /\ ApacheSteps[11].op = "hooks"
  BY DEF ApacheSteps, Step
<1>4. /\ ApacheSteps[1].file = "" /\ ApacheSteps[2].file = ""
      /\ ApacheSteps[3].file = "php" /\ ApacheSteps[4].file = "http"
      /\ ApacheSteps[5].file = "http" /\ ApacheSteps[6].file = "https"
      /\ ApacheSteps[7].file = "https" /\ ApacheSteps[8].file = "https"
      /\ ApacheSteps[9].file = "server_common" /\ ApacheSteps[10].file = "server_common"
      /\ ApacheSteps[11].file = ""
  BY DEF ApacheSteps, Step
<1>5. /\ ApacheSteps[j].op \in {"providers", "append", "unlink", "link", "withdraw",
                             "remove_lines", "hooks"}
      /\ ApacheSteps[j].op = "providers" => j \in {1, 2}
      /\ ApacheSteps[j].op = "append" => j = 3
      /\ ApacheSteps[j].op = "unlink" => j \in {4, 6}
      /\ ApacheSteps[j].op = "link" => j \in {5, 7}
      /\ ApacheSteps[j].op = "withdraw" => j = 8
      /\ ApacheSteps[j].op = "remove_lines" => j \in {9, 10}
      /\ ApacheSteps[j].op = "hooks" => j = 11
  BY <1>2, <1>3
<1>6. /\ ApacheSteps[j].file = "" => j \in {1, 2, 11}
      /\ ApacheSteps[j].file = "php" => j = 3
      /\ ApacheSteps[j].file = "http" => j \in {4, 5}
      /\ ApacheSteps[j].file = "https" => j \in {6, 7, 8}
      /\ ApacheSteps[j].file = "server_common" => j \in {9, 10}
  BY <1>2, <1>4
<1>7. QED
  BY <1>2, <1>5, <1>6, Zenon DEF ApacheOps, ApacheFiles

Solo == {"merge", "indexed", "set", "rules", "append", "replace_in"}

\* Files that are written once.
AloneIn(steps) ==
  \A i, j \in DOMAIN steps : steps[i].op \in Solo /\ steps[j].file = steps[i].file => j = i

LEMMA ServerAlone == AloneIn(ServerSteps)
<1> SUFFICES ASSUME NEW i \in DOMAIN ServerSteps, NEW j \in DOMAIN ServerSteps,
                    ServerSteps[i].op \in Solo, ServerSteps[j].file = ServerSteps[i].file
             PROVE  j = i
  BY Zenon DEF AloneIn
<1>1. ServerOps(i) /\ ServerFiles(j)
  BY ServerTable, Zenon
<1>2. i \in {1, 4, 5}
  BY <1>1 DEF Solo, ServerOps
<1>3. /\ ServerSteps[1].file = "modules" /\ ServerSteps[4].file = "history_storage"
      /\ ServerSteps[5].file = "telemetry"
  BY DEF ServerSteps, Step
<1>4. CASE i = 1
  BY <1>1, <1>3, <1>4 DEF ServerFiles
<1>5. CASE i = 4
  BY <1>1, <1>3, <1>5 DEF ServerFiles
<1>6. CASE i = 5
  BY <1>1, <1>3, <1>6 DEF ServerFiles
<1>7. QED
  BY <1>2, <1>4, <1>5, <1>6

LEMMA ProxyAlone == AloneIn(ProxySteps)
<1> SUFFICES ASSUME NEW i \in DOMAIN ProxySteps, NEW j \in DOMAIN ProxySteps,
                    ProxySteps[i].op \in Solo, ProxySteps[j].file = ProxySteps[i].file
             PROVE  j = i
  BY Zenon DEF AloneIn
<1>1. ProxyOps(i) /\ ProxyFiles(j)
  BY ProxyTable, Zenon
<1>2. i \in {1, 3}
  BY <1>1 DEF Solo, ProxyOps
<1>3. /\ ProxySteps[1].file = "modules" /\ ProxySteps[3].file = "telemetry"
  BY DEF ProxySteps, Step
<1>4. CASE i = 1
  BY <1>1, <1>3, <1>4 DEF ProxyFiles
<1>5. CASE i = 3
  BY <1>1, <1>3, <1>5 DEF ProxyFiles
<1>6. QED
  BY <1>2, <1>4, <1>5

LEMMA SqliteAlone == AloneIn(SqliteSteps)
<1> SUFFICES ASSUME NEW i \in DOMAIN SqliteSteps, NEW j \in DOMAIN SqliteSteps,
                    SqliteSteps[i].op \in Solo, SqliteSteps[j].file = SqliteSteps[i].file
             PROVE  j = i
  BY Zenon DEF AloneIn
<1>1. SqliteOps(i) /\ SqliteFiles(j)
  BY SqliteTable, Zenon
<1>2. i \in {7, 9}
  BY <1>1 DEF Solo, SqliteOps
<1>3. /\ SqliteSteps[7].file = "modules" /\ SqliteSteps[9].file = "telemetry"
  BY DEF SqliteSteps, Step
<1>4. CASE i = 7
  BY <1>1, <1>3, <1>4 DEF SqliteFiles
<1>5. CASE i = 9
  BY <1>1, <1>3, <1>5 DEF SqliteFiles
<1>6. QED
  BY <1>2, <1>4, <1>5

LEMMA NginxAlone == AloneIn(NginxSteps)
<1> SUFFICES ASSUME NEW i \in DOMAIN NginxSteps, NEW j \in DOMAIN NginxSteps,
                    NginxSteps[i].op \in Solo, NginxSteps[j].file = NginxSteps[i].file
             PROVE  j = i
  BY Zenon DEF AloneIn
<1>1. NginxOps(i) /\ NginxFiles(j)
  BY NginxTable, Zenon
<1>2. i \in {3, 17, 18}
  BY <1>1 DEF Solo, NginxOps
<1>3. /\ NginxSteps[3].file = "php" /\ NginxSteps[17].file = "server_common"
      /\ NginxSteps[18].file = "nginx_conf"
  BY DEF NginxSteps, Step
<1>4. CASE i = 3
  BY <1>1, <1>3, <1>4 DEF NginxFiles
<1>5. CASE i = 17
  BY <1>1, <1>3, <1>5 DEF NginxFiles
<1>6. CASE i = 18
  BY <1>1, <1>3, <1>6 DEF NginxFiles
<1>7. QED
  BY <1>2, <1>4, <1>5, <1>6

LEMMA ApacheAlone == AloneIn(ApacheSteps)
<1> SUFFICES ASSUME NEW i \in DOMAIN ApacheSteps, NEW j \in DOMAIN ApacheSteps,
                    ApacheSteps[i].op \in Solo, ApacheSteps[j].file = ApacheSteps[i].file
             PROVE  j = i
  BY Zenon DEF AloneIn
<1>1. ApacheOps(i) /\ ApacheFiles(j)
  BY ApacheTable, Zenon
<1>2. i = 3
  BY <1>1 DEF Solo, ApacheOps
<1>3. ApacheSteps[3].file = "php"
  BY DEF ApacheSteps, Step
<1>4. CASE i = 3
  BY <1>1, <1>3, <1>4 DEF ApacheFiles
<1>5. QED
  BY <1>2, <1>4

LEMMA AgentAlone == AloneIn(AgentSteps)
<1> SUFFICES ASSUME NEW i \in DOMAIN AgentSteps, NEW j \in DOMAIN AgentSteps,
                    AgentSteps[i].op \in Solo, AgentSteps[j].file = AgentSteps[i].file
             PROVE  j = i
  BY Zenon DEF AloneIn
<1>1. AgentOps(i) /\ AgentFiles(j)
  BY AgentTable, Zenon
<1>2. i \in {1, 2, 3, 4}
  BY <1>1 DEF Solo, AgentOps
<1>3. /\ AgentSteps[1].file = "item_keys" /\ AgentSteps[2].file = "aliases"
      /\ AgentSteps[3].file = "user_parameters" /\ AgentSteps[4].file = "modules"
  BY DEF AgentSteps, Step
<1>4. CASE i = 1
  BY <1>1, <1>3, <1>4 DEF AgentFiles
<1>5. CASE i = 2
  BY <1>1, <1>3, <1>5 DEF AgentFiles
<1>6. CASE i = 3
  BY <1>1, <1>3, <1>6 DEF AgentFiles
<1>7. CASE i = 4
  BY <1>1, <1>3, <1>7 DEF AgentFiles
<1>8. QED
  BY <1>2, <1>4, <1>5, <1>6, <1>7

LEMMA Agent2Alone == AloneIn(Agent2Steps)
<1> SUFFICES ASSUME NEW i \in DOMAIN Agent2Steps, NEW j \in DOMAIN Agent2Steps,
                    Agent2Steps[i].op \in Solo, Agent2Steps[j].file = Agent2Steps[i].file
             PROVE  j = i
  BY Zenon DEF AloneIn
<1>1. Agent2Ops(i) /\ Agent2Files(j)
  BY Agent2Table, Zenon
<1>2. i \in {1, 2, 3, 4, 5, 6, 7}
  BY <1>1 DEF Solo, Agent2Ops
<1>3. /\ Agent2Steps[1].file = "item_keys" /\ Agent2Steps[2].file = "aliases"
      /\ Agent2Steps[3].file = "user_parameters" /\ Agent2Steps[4].file = "mongodb"
      /\ Agent2Steps[5].file = "postgresql" /\ Agent2Steps[6].file = "mssql"
      /\ Agent2Steps[7].file = "ember"
  BY DEF Agent2Steps, Step
<1>4. CASE i = 1
  BY <1>1, <1>3, <1>4 DEF Agent2Files
<1>5. CASE i = 2
  BY <1>1, <1>3, <1>5 DEF Agent2Files
<1>6. CASE i = 3
  BY <1>1, <1>3, <1>6 DEF Agent2Files
<1>7. CASE i = 4
  BY <1>1, <1>3, <1>7 DEF Agent2Files
<1>8. CASE i = 5
  BY <1>1, <1>3, <1>8 DEF Agent2Files
<1>9. CASE i = 6
  BY <1>1, <1>3, <1>9 DEF Agent2Files
<1>10. CASE i = 7
  BY <1>1, <1>3, <1>10 DEF Agent2Files
<1>11. QED
  BY <1>2, <1>4, <1>5, <1>6, <1>7, <1>8, <1>9, <1>10

LEMMA McpAlone == AloneIn(McpSteps)
<1> SUFFICES ASSUME NEW i \in DOMAIN McpSteps, McpSteps[i].op \in Solo PROVE FALSE
  BY Zenon DEF AloneIn
<1>1. McpOps(i)
  BY McpTable, Zenon
<1>2. QED
  BY <1>1 DEF Solo, McpOps

LEMMA StepsAre ==
  ASSUME NEW p \in Programs
  PROVE  \/ p = "server" /\ Steps(p) = ServerSteps
         \/ p = "proxy" /\ Steps(p) = ProxySteps
         \/ p = "sqlite" /\ Steps(p) = SqliteSteps
         \/ p = "nginx" /\ Steps(p) = NginxSteps
         \/ p = "apache" /\ Steps(p) = ApacheSteps
         \/ p = "agent" /\ Steps(p) = AgentSteps
         \/ p = "agent2" /\ Steps(p) = Agent2Steps
         \/ p = "mcp" /\ Steps(p) = McpSteps
  BY DEF Programs, Steps

LEMMA Alone == ASSUME NEW p \in Programs PROVE AloneIn(Steps(p))
  BY StepsAre, ServerAlone, ProxyAlone, SqliteAlone, NginxAlone, ApacheAlone, AgentAlone,
     Agent2Alone, McpAlone

\* A file of includes is emptied by a step, then filled by another.
FillOf(steps, j, i) ==
  /\ j \in DOMAIN steps /\ i \in DOMAIN steps /\ j < i
  /\ steps[j].op = "open" /\ steps[i].op = "fill" /\ steps[j].file = steps[i].file
  /\ \A k \in DOMAIN steps : steps[k].file = steps[i].file => k \in {i, j}

LEMMA NginxDomain == DOMAIN NginxSteps = 1..21
  BY DEF NginxSteps

LEMMA NginxFills ==
  ASSUME NEW i \in DOMAIN NginxSteps, NginxSteps[i].op = "fill"
  PROVE  \E j \in DOMAIN NginxSteps : FillOf(NginxSteps, j, i)
<1>1. i \in {9, 12, 15, 19, 20}
  <2>1. NginxOps(i)
    BY NginxTable, Zenon
  <2>2. QED
    BY <2>1 DEF NginxOps
<1>2. /\ NginxSteps[4].op = "open" /\ NginxSteps[5].op = "open" /\ NginxSteps[6].op = "open"
      /\ NginxSteps[7].op = "open" /\ NginxSteps[8].op = "open"
  BY DEF NginxSteps, Step
<1>3. /\ NginxSteps[4].file = "access_log" /\ NginxSteps[19].file = "access_log"
      /\ NginxSteps[5].file = "user" /\ NginxSteps[9].file = "user"
      /\ NginxSteps[6].file = "real_ip" /\ NginxSteps[20].file = "real_ip"
      /\ NginxSteps[7].file = "listen_ipv6" /\ NginxSteps[12].file = "listen_ipv6"
      /\ NginxSteps[8].file = "listen_ipv6_ssl" /\ NginxSteps[15].file = "listen_ipv6_ssl"
  BY DEF NginxSteps, Step
<1>4. 4 \in DOMAIN NginxSteps /\ 5 \in DOMAIN NginxSteps /\ 6 \in DOMAIN NginxSteps
      /\ 7 \in DOMAIN NginxSteps /\ 8 \in DOMAIN NginxSteps
  BY NginxDomain
<1>5. \A k \in DOMAIN NginxSteps :
        /\ NginxSteps[k].file = "access_log" => k \in {4, 19}
        /\ NginxSteps[k].file = "user" => k \in {5, 9}
        /\ NginxSteps[k].file = "real_ip" => k \in {6, 20}
        /\ NginxSteps[k].file = "listen_ipv6" => k \in {7, 12}
        /\ NginxSteps[k].file = "listen_ipv6_ssl" => k \in {8, 15}
  <2> TAKE k \in DOMAIN NginxSteps
  <2>1. NginxFiles(k)
    BY NginxTable, Zenon
  <2>2. QED
    BY <2>1 DEF NginxFiles
<1>6. ASSUME i = 9 PROVE FillOf(NginxSteps, 5, i)
  <2>1. \A k \in DOMAIN NginxSteps : NginxSteps[k].file = NginxSteps[9].file => k \in {9, 5}
    BY <1>3, <1>5
  <2>2. QED
    BY <1>2, <1>3, <1>4, <1>6, <2>1 DEF FillOf
<1>7. ASSUME i = 12 PROVE FillOf(NginxSteps, 7, i)
  <2>1. \A k \in DOMAIN NginxSteps : NginxSteps[k].file = NginxSteps[12].file => k \in {12, 7}
    BY <1>3, <1>5
  <2>2. QED
    BY <1>2, <1>3, <1>4, <1>7, <2>1 DEF FillOf
<1>8. ASSUME i = 15 PROVE FillOf(NginxSteps, 8, i)
  <2>1. \A k \in DOMAIN NginxSteps : NginxSteps[k].file = NginxSteps[15].file => k \in {15, 8}
    BY <1>3, <1>5
  <2>2. QED
    BY <1>2, <1>3, <1>4, <1>8, <2>1 DEF FillOf
<1>9. ASSUME i = 19 PROVE FillOf(NginxSteps, 4, i)
  <2>1. \A k \in DOMAIN NginxSteps : NginxSteps[k].file = NginxSteps[19].file => k \in {19, 4}
    BY <1>3, <1>5
  <2>2. QED
    BY <1>2, <1>3, <1>4, <1>9, <2>1 DEF FillOf
<1>10. ASSUME i = 20 PROVE FillOf(NginxSteps, 6, i)
  <2>1. \A k \in DOMAIN NginxSteps : NginxSteps[k].file = NginxSteps[20].file => k \in {20, 6}
    BY <1>3, <1>5
  <2>2. QED
    BY <1>2, <1>3, <1>4, <1>10, <2>1 DEF FillOf
<1>11. QED
  BY <1>1, <1>4, <1>6, <1>7, <1>8, <1>9, <1>10

\* A link is removed, then made; that of the certificates may be withdrawn.
LinkOf(steps, u, i) ==
  /\ u \in DOMAIN steps /\ i \in DOMAIN steps /\ u < i
  /\ steps[u].op = "unlink" /\ steps[i].op = "link"
  /\ steps[u].file = steps[i].file /\ steps[u].params = steps[i].params
  /\ \A k \in DOMAIN steps :
       steps[k].file = steps[i].file =>
         \/ k \in {u, i}
         \/ /\ steps[k].op = "withdraw" /\ steps[k].params = {"certs"}
            /\ "certs" \in steps[i].params /\ i < k
  /\ "certs" \in steps[i].params =>
       \E k \in DOMAIN steps : steps[k].op = "withdraw" /\ steps[k].file = steps[i].file

LEMMA NginxLinks ==
  ASSUME NEW i \in DOMAIN NginxSteps, NginxSteps[i].op = "link"
  PROVE  \E u \in DOMAIN NginxSteps : LinkOf(NginxSteps, u, i)
<1>1. i \in {11, 14}
  <2>1. NginxOps(i)
    BY NginxTable, Zenon
  <2>2. QED
    BY <2>1 DEF NginxOps
<1>2. /\ NginxSteps[10] = Step("unlink", "http", {"http"})
      /\ NginxSteps[11] = Step("link", "http", {"http"})
      /\ NginxSteps[13] = Step("unlink", "https", {"certs", "https"})
      /\ NginxSteps[14] = Step("link", "https", {"certs", "https"})
      /\ NginxSteps[16] = Step("withdraw", "https", {"certs"})
  BY DEF NginxSteps
<1>3. {10, 11, 13, 14, 16} \subseteq DOMAIN NginxSteps
  BY NginxDomain
<1>4. \A k \in DOMAIN NginxSteps :
        /\ NginxSteps[k].file = "http" => k \in {10, 11}
        /\ NginxSteps[k].file = "https" => k \in {13, 14, 16}
  <2> TAKE k \in DOMAIN NginxSteps
  <2>1. NginxFiles(k)
    BY NginxTable, Zenon
  <2>2. QED
    BY <2>1 DEF NginxFiles
<1>5. ASSUME i = 11 PROVE LinkOf(NginxSteps, 10, i)
  <2>1. "certs" \notin NginxSteps[i].params
    BY <1>2, <1>5 DEF Step
  <2>2. \A k \in DOMAIN NginxSteps : NginxSteps[k].file = NginxSteps[i].file => k \in {10, i}
    BY <1>2, <1>4, <1>5 DEF Step
  <2>3. QED
    BY <1>2, <1>3, <1>5, <2>1, <2>2 DEF LinkOf, Step
<1>6. ASSUME i = 14 PROVE LinkOf(NginxSteps, 13, i)
  <2>1. "certs" \in NginxSteps[i].params
    BY <1>2, <1>6 DEF Step
  <2>2. \A k \in DOMAIN NginxSteps : NginxSteps[k].file = NginxSteps[i].file => k \in {13, i, 16}
    BY <1>2, <1>4, <1>6 DEF Step
  <2>3. /\ NginxSteps[16].op = "withdraw" /\ NginxSteps[16].params = {"certs"}
        /\ NginxSteps[16].file = NginxSteps[i].file
    BY <1>2, <1>6 DEF Step
  <2>4. /\ NginxSteps[13].op = "unlink" /\ NginxSteps[i].op = "link"
        /\ NginxSteps[13].file = NginxSteps[i].file /\ NginxSteps[13].params = NginxSteps[i].params
    BY <1>2, <1>6 DEF Step
  <2>5. QED
    BY <1>3, <1>6, <2>1, <2>2, <2>3, <2>4 DEF LinkOf
<1>7. QED
  BY <1>1, <1>3, <1>5, <1>6

LEMMA ApacheDomain == DOMAIN ApacheSteps = 1..11
  BY DEF ApacheSteps

LEMMA ApacheLinks ==
  ASSUME NEW i \in DOMAIN ApacheSteps, ApacheSteps[i].op = "link"
  PROVE  \E u \in DOMAIN ApacheSteps : LinkOf(ApacheSteps, u, i)
<1>1. i \in {5, 7}
  <2>1. ApacheOps(i)
    BY ApacheTable, Zenon
  <2>2. QED
    BY <2>1 DEF ApacheOps
<1>2. /\ ApacheSteps[4] = Step("unlink", "http", {"http"})
      /\ ApacheSteps[5] = Step("link", "http", {"http"})
      /\ ApacheSteps[6] = Step("unlink", "https", {"certs", "https"})
      /\ ApacheSteps[7] = Step("link", "https", {"certs", "https"})
      /\ ApacheSteps[8] = Step("withdraw", "https", {"certs"})
  BY DEF ApacheSteps
<1>3. {4, 5, 6, 7, 8} \subseteq DOMAIN ApacheSteps
  BY ApacheDomain
<1>4. \A k \in DOMAIN ApacheSteps :
        /\ ApacheSteps[k].file = "http" => k \in {4, 5}
        /\ ApacheSteps[k].file = "https" => k \in {6, 7, 8}
  <2> TAKE k \in DOMAIN ApacheSteps
  <2>1. ApacheFiles(k)
    BY ApacheTable, Zenon
  <2>2. QED
    BY <2>1 DEF ApacheFiles
<1>5. ASSUME i = 5 PROVE LinkOf(ApacheSteps, 4, i)
  <2>1. "certs" \notin ApacheSteps[i].params
    BY <1>2, <1>5 DEF Step
  <2>2. \A k \in DOMAIN ApacheSteps : ApacheSteps[k].file = ApacheSteps[i].file => k \in {4, i}
    BY <1>2, <1>4, <1>5 DEF Step
  <2>3. QED
    BY <1>2, <1>3, <1>5, <2>1, <2>2 DEF LinkOf, Step
<1>6. ASSUME i = 7 PROVE LinkOf(ApacheSteps, 6, i)
  <2>1. "certs" \in ApacheSteps[i].params
    BY <1>2, <1>6 DEF Step
  <2>2. \A k \in DOMAIN ApacheSteps : ApacheSteps[k].file = ApacheSteps[i].file => k \in {6, i, 8}
    BY <1>2, <1>4, <1>6 DEF Step
  <2>3. /\ ApacheSteps[8].op = "withdraw" /\ ApacheSteps[8].params = {"certs"}
        /\ ApacheSteps[8].file = ApacheSteps[i].file
    BY <1>2, <1>6 DEF Step
  <2>4. /\ ApacheSteps[6].op = "unlink" /\ ApacheSteps[i].op = "link"
        /\ ApacheSteps[6].file = ApacheSteps[i].file /\ ApacheSteps[6].params = ApacheSteps[i].params
    BY <1>2, <1>6 DEF Step
  <2>5. QED
    BY <1>3, <1>6, <2>1, <2>2, <2>3, <2>4 DEF LinkOf
<1>7. QED
  BY <1>1, <1>3, <1>5, <1>6


\* Lines of Apache are removed in two steps.
RemoveOf(steps, i) ==
  /\ \A k \in DOMAIN steps :
       steps[k].file = steps[i].file =>
         steps[k].op = "remove_lines" /\ steps[k].params \in {{"real_ip"}, {"real_ip_header"}}
  /\ \A k \in DOMAIN steps : steps[k].op = "remove_lines" => steps[k].file = steps[i].file
  /\ \A x \in {"real_ip", "real_ip_header"} : \E k \in DOMAIN steps :
       steps[k].op = "remove_lines" /\ steps[k].file = steps[i].file /\ steps[k].params = {x}

LEMMA ApacheRemoves ==
  ASSUME NEW i \in DOMAIN ApacheSteps, ApacheSteps[i].op = "remove_lines"
  PROVE  RemoveOf(ApacheSteps, i)
<1>1. i \in {9, 10}
  <2>1. ApacheOps(i)
    BY ApacheTable, Zenon
  <2>2. QED
    BY <2>1 DEF ApacheOps
<1>2. /\ ApacheSteps[9] = Step("remove_lines", "server_common", {"real_ip"})
      /\ ApacheSteps[10] = Step("remove_lines", "server_common", {"real_ip_header"})
  BY DEF ApacheSteps
<1>3. {9, 10} \subseteq DOMAIN ApacheSteps
  BY ApacheDomain
<1>4. ApacheSteps[i].file = "server_common"
  BY <1>1, <1>2 DEF Step
<1>5. ASSUME NEW k \in DOMAIN ApacheSteps, ApacheSteps[k].file = ApacheSteps[i].file
      PROVE  ApacheSteps[k].op = "remove_lines" /\ ApacheSteps[k].params \in {{"real_ip"}, {"real_ip_header"}}
  <2>1. ApacheFiles(k)
    BY ApacheTable, Zenon
  <2>2. k \in {9, 10}
    BY <1>4, <1>5, <2>1 DEF ApacheFiles
  <2>3. QED
    BY <1>2, <2>2 DEF Step
<1>6. /\ ApacheSteps[9].op = "remove_lines" /\ ApacheSteps[9].file = ApacheSteps[i].file
      /\ ApacheSteps[9].params = {"real_ip"}
      /\ ApacheSteps[10].op = "remove_lines" /\ ApacheSteps[10].file = ApacheSteps[i].file
      /\ ApacheSteps[10].params = {"real_ip_header"}
  BY <1>2, <1>4 DEF Step
<1>7. ASSUME NEW k \in DOMAIN ApacheSteps, ApacheSteps[k].op = "remove_lines"
      PROVE  ApacheSteps[k].file = ApacheSteps[i].file
  <2>1. ApacheOps(k)
    BY ApacheTable, Zenon
  <2>2. k \in {9, 10}
    BY <1>7, <2>1 DEF ApacheOps
  <2>3. QED
    BY <1>2, <1>4, <2>2 DEF Step
<1>8. QED
  BY <1>3, <1>5, <1>6, <1>7 DEF RemoveOf

\* Steps about one parameter.
OneParam(params) == \E x : params = {x}

LEMMA OneName == \A x : OneParam({x})
  BY DEF OneParam

LEMMA ServerOneParam ==
  ASSUME NEW i \in DOMAIN ServerSteps, ServerSteps[i].op \in {"merge", "indexed", "set", "providers"}
  PROVE  OneParam(ServerSteps[i].params)
<1>1. ServerOps(i)
  BY ServerTable, Zenon
<1>2. i \in {1, 2, 3, 4, 5}
  BY <1>1 DEF ServerOps
<1>3. /\ ServerSteps[1].params = {"LoadModule"}
      /\ ServerSteps[2].params = {"HistoryProvider"}
      /\ ServerSteps[3].params = {"TelemetryProvider"}
      /\ ServerSteps[4].params = {"HistoryProvider"}
      /\ ServerSteps[5].params = {"TelemetryProvider"}
  BY DEF ServerSteps, Step
<1>4. /\ OneParam({"HistoryProvider"})
      /\ OneParam({"LoadModule"})
      /\ OneParam({"TelemetryProvider"})
  BY OneName, Zenon
<1>5. QED
  BY <1>2, <1>3, <1>4, ZenonT(60)

LEMMA ProxyOneParam ==
  ASSUME NEW i \in DOMAIN ProxySteps, ProxySteps[i].op \in {"merge", "indexed", "set", "providers"}
  PROVE  OneParam(ProxySteps[i].params)
<1>1. ProxyOps(i)
  BY ProxyTable, Zenon
<1>2. i \in {1, 2, 3}
  BY <1>1 DEF ProxyOps
<1>3. /\ ProxySteps[1].params = {"LoadModule"}
      /\ ProxySteps[2].params = {"TelemetryProvider"}
      /\ ProxySteps[3].params = {"TelemetryProvider"}
  BY DEF ProxySteps, Step
<1>4. /\ OneParam({"LoadModule"})
      /\ OneParam({"TelemetryProvider"})
  BY OneName, Zenon
<1>5. QED
  BY <1>2, <1>3, <1>4

LEMMA SqliteOneParam ==
  ASSUME NEW i \in DOMAIN SqliteSteps, SqliteSteps[i].op \in {"merge", "indexed", "set", "providers"}
  PROVE  OneParam(SqliteSteps[i].params)
<1>1. SqliteOps(i)
  BY SqliteTable, Zenon
<1>2. i \in {7, 8, 9}
  BY <1>1 DEF SqliteOps
<1>3. /\ SqliteSteps[7].params = {"LoadModule"}
      /\ SqliteSteps[8].params = {"TelemetryProvider"}
      /\ SqliteSteps[9].params = {"TelemetryProvider"}
  BY DEF SqliteSteps, Step
<1>4. /\ OneParam({"LoadModule"})
      /\ OneParam({"TelemetryProvider"})
  BY OneName, Zenon
<1>5. QED
  BY <1>2, <1>3, <1>4

LEMMA NginxOneParam ==
  ASSUME NEW i \in DOMAIN NginxSteps, NginxSteps[i].op \in {"merge", "indexed", "set", "providers"}
  PROVE  OneParam(NginxSteps[i].params)
<1>1. NginxOps(i)
  BY NginxTable, Zenon
<1>2. i \in {1, 2}
  BY <1>1 DEF NginxOps
<1>3. /\ NginxSteps[1].params = {"HistoryProvider"}
      /\ NginxSteps[2].params = {"TelemetryProvider"}
  BY DEF NginxSteps, Step
<1>4. /\ OneParam({"HistoryProvider"})
      /\ OneParam({"TelemetryProvider"})
  BY OneName, Zenon
<1>5. QED
  BY <1>2, <1>3, <1>4

LEMMA ApacheOneParam ==
  ASSUME NEW i \in DOMAIN ApacheSteps, ApacheSteps[i].op \in {"merge", "indexed", "set", "providers"}
  PROVE  OneParam(ApacheSteps[i].params)
<1>1. ApacheOps(i)
  BY ApacheTable, Zenon
<1>2. i \in {1, 2}
  BY <1>1 DEF ApacheOps
<1>3. /\ ApacheSteps[1].params = {"HistoryProvider"}
      /\ ApacheSteps[2].params = {"TelemetryProvider"}
  BY DEF ApacheSteps, Step
<1>4. /\ OneParam({"HistoryProvider"})
      /\ OneParam({"TelemetryProvider"})
  BY OneName, Zenon
<1>5. QED
  BY <1>2, <1>3, <1>4

LEMMA AgentOneParam ==
  ASSUME NEW i \in DOMAIN AgentSteps, AgentSteps[i].op \in {"merge", "indexed", "set", "providers"}
  PROVE  OneParam(AgentSteps[i].params)
<1>1. AgentOps(i)
  BY AgentTable, Zenon
<1>2. i \in {2, 3, 4}
  BY <1>1 DEF AgentOps
<1>3. /\ AgentSteps[2].params = {"Alias"}
      /\ AgentSteps[3].params = {"UserParameter"}
      /\ AgentSteps[4].params = {"LoadModule"}
  BY DEF AgentSteps, Step
<1>4. /\ OneParam({"Alias"})
      /\ OneParam({"LoadModule"})
      /\ OneParam({"UserParameter"})
  BY OneName, Zenon
<1>5. QED
  BY <1>2, <1>3, <1>4

LEMMA Agent2OneParam ==
  ASSUME NEW i \in DOMAIN Agent2Steps, Agent2Steps[i].op \in {"merge", "indexed", "set", "providers"}
  PROVE  OneParam(Agent2Steps[i].params)
<1>1. Agent2Ops(i)
  BY Agent2Table, Zenon
<1>2. i \in {2, 3, 4, 5, 6, 7}
  BY <1>1 DEF Agent2Ops
<1>3. /\ Agent2Steps[2].params = {"Alias"}
      /\ Agent2Steps[3].params = {"UserParameter"}
      /\ Agent2Steps[4].params = {"Plugins.MongoDB.System.Path"}
      /\ Agent2Steps[5].params = {"Plugins.PostgreSQL.System.Path"}
      /\ Agent2Steps[6].params = {"Plugins.MSSQL.System.Path"}
      /\ Agent2Steps[7].params = {"Plugins.EmberPlus.System.Path"}
  BY DEF Agent2Steps, Step
<1>4. /\ OneParam({"Alias"})
      /\ OneParam({"Plugins.EmberPlus.System.Path"})
      /\ OneParam({"Plugins.MSSQL.System.Path"})
      /\ OneParam({"Plugins.MongoDB.System.Path"})
      /\ OneParam({"Plugins.PostgreSQL.System.Path"})
      /\ OneParam({"UserParameter"})
  BY OneName, Zenon
<1>5. QED
  BY <1>2, <1>3, <1>4, ZenonT(60)

LEMMA SingleParam ==
  ASSUME NEW p \in Programs, NEW i \in DOMAIN Steps(p)
  PROVE  Steps(p)[i].op \in {"merge", "indexed", "set", "providers"} => OneParam(Steps(p)[i].params)
<1>1. CASE p = "server" /\ Steps(p) = ServerSteps
  <2> DEFINE j == i
  <2>1. j \in DOMAIN ServerSteps /\ Steps(p)[i] = ServerSteps[j]
    BY <1>1
  <2> HIDE DEF j
  <2>2. ServerOps(j)
    BY <2>1, ServerTable, Zenon
  <2>3. ServerSteps[j].op \in {"merge", "indexed", "set", "providers"} => OneParam(ServerSteps[j].params)
    BY <2>1, ServerOneParam
  <2>4. QED
    BY <2>1, <2>3
<1>2. CASE p = "proxy" /\ Steps(p) = ProxySteps
  <2> DEFINE j == i
  <2>1. j \in DOMAIN ProxySteps /\ Steps(p)[i] = ProxySteps[j]
    BY <1>2
  <2> HIDE DEF j
  <2>2. ProxyOps(j)
    BY <2>1, ProxyTable, Zenon
  <2>3. ProxySteps[j].op \in {"merge", "indexed", "set", "providers"} => OneParam(ProxySteps[j].params)
    BY <2>1, ProxyOneParam
  <2>4. QED
    BY <2>1, <2>3
<1>3. CASE p = "agent" /\ Steps(p) = AgentSteps
  <2> DEFINE j == i
  <2>1. j \in DOMAIN AgentSteps /\ Steps(p)[i] = AgentSteps[j]
    BY <1>3
  <2> HIDE DEF j
  <2>2. AgentOps(j)
    BY <2>1, AgentTable, Zenon
  <2>3. AgentSteps[j].op \in {"merge", "indexed", "set", "providers"} => OneParam(AgentSteps[j].params)
    BY <2>1, AgentOneParam
  <2>4. QED
    BY <2>1, <2>3
<1>4. CASE p = "agent2" /\ Steps(p) = Agent2Steps
  <2> DEFINE j == i
  <2>1. j \in DOMAIN Agent2Steps /\ Steps(p)[i] = Agent2Steps[j]
    BY <1>4
  <2> HIDE DEF j
  <2>2. Agent2Ops(j)
    BY <2>1, Agent2Table, Zenon
  <2>3. Agent2Steps[j].op \in {"merge", "indexed", "set", "providers"} => OneParam(Agent2Steps[j].params)
    BY <2>1, Agent2OneParam
  <2>4. QED
    BY <2>1, <2>3
<1>5. CASE p = "mcp" /\ Steps(p) = McpSteps
  <2> DEFINE j == i
  <2>1. j \in DOMAIN McpSteps /\ Steps(p)[i] = McpSteps[j]
    BY <1>5
  <2> HIDE DEF j
  <2>2. McpOps(j)
    BY <2>1, McpTable, Zenon
  <2>3. McpSteps[j].op \notin {"merge", "indexed", "set", "providers"}
    BY <2>2 DEF McpOps
  <2>4. QED
    BY <2>1, <2>3
<1>6. CASE p = "sqlite" /\ Steps(p) = SqliteSteps
  <2> DEFINE j == i
  <2>1. j \in DOMAIN SqliteSteps /\ Steps(p)[i] = SqliteSteps[j]
    BY <1>6
  <2> HIDE DEF j
  <2>2. SqliteOps(j)
    BY <2>1, SqliteTable, Zenon
  <2>3. SqliteSteps[j].op \in {"merge", "indexed", "set", "providers"} => OneParam(SqliteSteps[j].params)
    BY <2>1, SqliteOneParam
  <2>4. QED
    BY <2>1, <2>3
<1>7. CASE p = "nginx" /\ Steps(p) = NginxSteps
  <2> DEFINE j == i
  <2>1. j \in DOMAIN NginxSteps /\ Steps(p)[i] = NginxSteps[j]
    BY <1>7
  <2> HIDE DEF j
  <2>2. NginxOps(j)
    BY <2>1, NginxTable, Zenon
  <2>3. NginxSteps[j].op \in {"merge", "indexed", "set", "providers"} => OneParam(NginxSteps[j].params)
    BY <2>1, NginxOneParam
  <2>4. QED
    BY <2>1, <2>3
<1>8. CASE p = "apache" /\ Steps(p) = ApacheSteps
  <2> DEFINE j == i
  <2>1. j \in DOMAIN ApacheSteps /\ Steps(p)[i] = ApacheSteps[j]
    BY <1>8
  <2> HIDE DEF j
  <2>2. ApacheOps(j)
    BY <2>1, ApacheTable, Zenon
  <2>3. ApacheSteps[j].op \in {"merge", "indexed", "set", "providers"} => OneParam(ApacheSteps[j].params)
    BY <2>1, ApacheOneParam
  <2>4. QED
    BY <2>1, <2>3
<1>9. QED
  BY StepsAre, <1>1, <1>2, <1>3, <1>4, <1>5, <1>6, <1>7, <1>8

\* Which programs have steps of which kind; a step without a file writes none.
Uses(p, op, file) ==
  /\ op = "fill" => p = "nginx"
  /\ op = "link" => p \in {"nginx", "apache"}
  /\ op = "remove_lines" => p = "apache"
  /\ op \in {"restore", "replace"} => p = "mcp"
  /\ op \in {"begin", "execute", "commit"} => p = "sqlite"
  /\ op \in Writing => file # ""

LEMMA UsesOf ==
  ASSUME NEW p \in Programs, NEW i \in DOMAIN Steps(p)
  PROVE  Uses(p, Steps(p)[i].op, Steps(p)[i].file)
<1>1. CASE p = "server" /\ Steps(p) = ServerSteps
  <2>1. PICK j \in DOMAIN ServerSteps : j = i
    BY <1>1
  <2>2. ServerOps(j) /\ ServerFiles(j)
    BY ServerTable, Zenon
  <2>3. ServerSteps[2].op = "providers" /\ ServerSteps[3].op = "providers" /\ ServerSteps[6].op = "hooks"
    BY DEF ServerSteps, Step
  <2>4. ServerSteps[j].file = "" => ServerSteps[j].op \in {"providers", "hooks"}
    BY <2>2, <2>3 DEF ServerFiles
  <2>5. QED
    BY <1>1, <2>1, <2>2, <2>4 DEF ServerOps, Uses, Writing
<1>2. CASE p = "proxy" /\ Steps(p) = ProxySteps
  <2>1. PICK j \in DOMAIN ProxySteps : j = i
    BY <1>2
  <2>2. ProxyOps(j) /\ ProxyFiles(j)
    BY ProxyTable, Zenon
  <2>3. ProxySteps[2].op = "providers" /\ ProxySteps[4].op = "hooks"
    BY DEF ProxySteps, Step
  <2>4. ProxySteps[j].file = "" => ProxySteps[j].op \in {"providers", "hooks"}
    BY <2>2, <2>3 DEF ProxyFiles
  <2>5. QED
    BY <1>2, <2>1, <2>2, <2>4 DEF ProxyOps, Uses, Writing
<1>3. CASE p = "sqlite" /\ Steps(p) = SqliteSteps
  <2>1. PICK j \in DOMAIN SqliteSteps : j = i
    BY <1>3
  <2>2. SqliteOps(j) /\ SqliteFiles(j)
    BY SqliteTable, Zenon
  <2>3. SqliteSteps[8].op = "providers" /\ SqliteSteps[10].op = "hooks"
    BY DEF SqliteSteps, Step
  <2>4. SqliteSteps[j].file = "" => SqliteSteps[j].op \in {"providers", "hooks"}
    BY <2>2, <2>3 DEF SqliteFiles
  <2>5. QED
    BY <1>3, <2>1, <2>2, <2>4 DEF SqliteOps, Uses, Writing
<1>4. CASE p = "nginx" /\ Steps(p) = NginxSteps
  <2>1. PICK j \in DOMAIN NginxSteps : j = i
    BY <1>4
  <2>2. NginxOps(j) /\ NginxFiles(j)
    BY NginxTable, Zenon
  <2>3. NginxSteps[1].op = "providers" /\ NginxSteps[2].op = "providers" /\ NginxSteps[21].op = "hooks"
    BY DEF NginxSteps, Step
  <2>4. NginxSteps[j].file = "" => NginxSteps[j].op \in {"providers", "hooks"}
    BY <2>2, <2>3 DEF NginxFiles
  <2>5. QED
    BY <1>4, <2>1, <2>2, <2>4 DEF NginxOps, Uses, Writing
<1>5. CASE p = "apache" /\ Steps(p) = ApacheSteps
  <2>1. PICK j \in DOMAIN ApacheSteps : j = i
    BY <1>5
  <2>2. ApacheOps(j) /\ ApacheFiles(j)
    BY ApacheTable, Zenon
  <2>3. ApacheSteps[1].op = "providers" /\ ApacheSteps[2].op = "providers" /\ ApacheSteps[11].op = "hooks"
    BY DEF ApacheSteps, Step
  <2>4. ApacheSteps[j].file = "" => ApacheSteps[j].op \in {"providers", "hooks"}
    BY <2>2, <2>3 DEF ApacheFiles
  <2>5. QED
    BY <1>5, <2>1, <2>2, <2>4 DEF ApacheOps, Uses, Writing
<1>6. CASE p = "agent" /\ Steps(p) = AgentSteps
  <2>1. PICK j \in DOMAIN AgentSteps : j = i
    BY <1>6
  <2>2. AgentOps(j) /\ AgentFiles(j)
    BY AgentTable, Zenon
  <2>3. AgentSteps[5].op = "hooks"
    BY DEF AgentSteps, Step
  <2>4. AgentSteps[j].file = "" => AgentSteps[j].op \in {"providers", "hooks"}
    BY <2>2, <2>3 DEF AgentFiles
  <2>5. QED
    BY <1>6, <2>1, <2>2, <2>4 DEF AgentOps, Uses, Writing
<1>7. CASE p = "agent2" /\ Steps(p) = Agent2Steps
  <2>1. PICK j \in DOMAIN Agent2Steps : j = i
    BY <1>7
  <2>2. Agent2Ops(j) /\ Agent2Files(j)
    BY Agent2Table, Zenon
  <2>3. Agent2Steps[8].op = "hooks"
    BY DEF Agent2Steps, Step
  <2>4. Agent2Steps[j].file = "" => Agent2Steps[j].op \in {"providers", "hooks"}
    BY <2>2, <2>3 DEF Agent2Files
  <2>5. QED
    BY <1>7, <2>1, <2>2, <2>4 DEF Agent2Ops, Uses, Writing
<1>8. CASE p = "mcp" /\ Steps(p) = McpSteps
  <2>1. PICK j \in DOMAIN McpSteps : j = i
    BY <1>8
  <2>2. McpOps(j) /\ McpFiles(j)
    BY McpTable, Zenon
  <2>3. McpSteps[1].file = "tool_access" /\ McpSteps[2].file = "tool_access" /\ McpSteps[3].file = "tool_access"
    BY DEF McpSteps, Step
  <2>4. j \in {1, 2, 3} /\ McpSteps[j].file # ""
    BY <2>2, <2>3 DEF McpOps
  <2>5. QED
    BY <1>8, <2>1, <2>2, <2>4 DEF McpOps, Uses, Writing
<1>9. QED
  BY StepsAre, <1>1, <1>2, <1>3, <1>4, <1>5, <1>6, <1>7, <1>8

LEMMA FillSteps ==
  ASSUME NEW p \in Programs, NEW i \in DOMAIN Steps(p), Steps(p)[i].op = "fill"
  PROVE  \E j \in DOMAIN Steps(p) : FillOf(Steps(p), j, i)
<1>1. p = "nginx"
  BY UsesOf DEF Uses
<1>2. Steps(p) = NginxSteps
  BY <1>1 DEF Steps
<1>3. QED
  BY <1>2, NginxFills

LEMMA LinkSteps ==
  ASSUME NEW p \in Programs, NEW i \in DOMAIN Steps(p), Steps(p)[i].op = "link"
  PROVE  \E u \in DOMAIN Steps(p) : LinkOf(Steps(p), u, i)
<1>1. p \in {"nginx", "apache"}
  BY UsesOf DEF Uses
<1>2. CASE p = "nginx"
  <2>1. Steps(p) = NginxSteps
    BY <1>2 DEF Steps
  <2>2. QED
    BY <2>1, NginxLinks
<1>3. CASE p = "apache"
  <2>1. Steps(p) = ApacheSteps
    BY <1>3 DEF Steps
  <2>2. QED
    BY <2>1, ApacheLinks
<1>4. QED
  BY <1>1, <1>2, <1>3

LEMMA RemoveSteps ==
  ASSUME NEW p \in Programs, NEW i \in DOMAIN Steps(p), Steps(p)[i].op = "remove_lines"
  PROVE  RemoveOf(Steps(p), i)
<1>1. p = "apache"
  BY UsesOf DEF Uses
<1>2. Steps(p) = ApacheSteps
  BY <1>1 DEF Steps
<1>3. QED
  BY <1>2, ApacheRemoves

-----------------------------------------------------------------------------
(* What a step makes of a file it alone writes *)

Made(d, s, lines) ==
  CASE s.op = "merge" -> MergeParameterValues(lines, OnlyParam(s), d.given, d.modules)
    [] s.op = "indexed" -> UpdateIndexedParameter(lines, OnlyParam(s), d.variables)
    [] s.op = "set" -> SetParameter(lines, OnlyParam(s), PluginPath)
    [] s.op = "rules" -> ReplaceAtEnd(lines, s.params, Collected(d.variables, s.params))
    [] s.op = "append" ->
         IF s.params \subseteq d.features THEN AppendMissing(lines, Line(s.file)) ELSE lines
    [] s.op = "replace_in" -> Filled(lines, s.params, d.setting)

Usable(d, s) == Collectable(d.variables, s.params, s.op \in {"rules", "open"})

\* What a step of a program may be.
StepOf(s) ==
  /\ s.file \in Names /\ s.params \subseteq Names
  /\ s.op \in {"merge", "indexed", "set", "providers"} => OneParam(s.params)

LEMMA StepOfProgram == ASSUME NEW p \in Programs, NEW i \in DOMAIN Steps(p) PROVE StepOf(Steps(p)[i])
  BY DeploymentAssumption, SingleParam DEF StepOf

LEMMA OnlyParamIs ==
  ASSUME NEW s, StepOf(s), OneParam(s.params)
  PROVE  s.params = {OnlyParam(s)} /\ OnlyParam(s) \in Names
<1>1. PICK x : s.params = {x}
  BY DEF OneParam
<1>2. OnlyParam(s) \in s.params
  BY <1>1 DEF OnlyParam
<1>3. QED
  BY <1>1, <1>2 DEF StepOf

LEMMA BlankLine == Blank \in Lines(Names)
  BY DeploymentAssumption, BlankIsNone

\* A step makes the file the environment asks for, and a second one of the same
\* kind leaves it alone.
MadeWell(d, s, lines) ==
  /\ Made(d, s, lines) \in Seq(Lines(Names))
  /\ Made(d, s, Made(d, s, lines)) = Made(d, s, lines)

Rules(d, s) == Collected(d.variables, s.params)

IntendedOf(d, s, before, after) ==
  CASE s.op = "merge" ->
         /\ Values(after, OnlyParam(s)) =
              IF d.given
              THEN Values(before, OnlyParam(s)) \o Without(d.modules, Range(Values(before, OnlyParam(s))))
              ELSE <<>>
         /\ Others(after, OnlyParam(s)) = Others(before, OnlyParam(s))
    [] s.op = "indexed" ->
         IF Rules(d, s) = <<>> THEN after = before
         ELSE /\ Values(after, OnlyParam(s)) = [i \in DOMAIN Rules(d, s) |-> i - 1]
              /\ Others(after, OnlyParam(s)) = Others(before, OnlyParam(s))
    [] s.op = "set" ->
         /\ Values(after, OnlyParam(s)) = <<PluginPath>>
         /\ Others(after, OnlyParam(s)) = Others(before, OnlyParam(s))
    [] s.op = "rules" ->
         /\ Settings(after, s.params) = Rules(d, s)
         /\ OthersAny(after, s.params) = OthersAny(before, s.params)
    [] s.op = "append" ->
         IF s.params \subseteq d.features /\ ~Contains(before, Line(s.file))
         THEN after = Append(before, Line(s.file)) ELSE after = before
    [] s.op = "replace_in" ->
         /\ DOMAIN after = DOMAIN before
         /\ \A i \in DOMAIN before :
              IF before[i][1] = "placeholder" /\ before[i][2] \in s.params
              THEN after[i] = <<"text", before[i][2], d.setting>>
              ELSE after[i] = before[i]

MadeRight(d, s, lines) == MadeWell(d, s, lines) /\ IntendedOf(d, s, lines, Made(d, s, lines))

LEMMA Merging ==
  ASSUME NEW d \in Deployments, NEW s, StepOf(s), s.op = "merge",
         NEW lines \in Seq(Lines(Names))
  PROVE  MadeRight(d, s, lines)
<1>1. PICK param \in Names : param = OnlyParam(s)
  BY OnlyParamIs DEF StepOf
<1>2. d.modules \in Seq(Int) /\ <<>> \in Seq(Int)
  <2>1. d.modules \in Seq(Int)
    BY DeploymentAssumption, Zenon
  <2>2. QED
    BY <2>1
<1>3. Merges(Names, lines, param, d.modules)
  BY <1>2, BlankLine, RewriteMerges
<1>4. Replaces(Names, lines, param, <<>>)
  BY <1>2, BlankLine, RewriteReplaces
<1>5. \A l : Made(d, s, l) = MergeParameterValues(l, param, d.given, d.modules)
  BY <1>1 DEF Made
<1>6. CASE d.given
  BY <1>1, <1>3, <1>5, <1>6 DEF MadeRight, MadeWell, IntendedOf, MergeParameterValues, Merges
<1>7. CASE ~d.given
  BY <1>1, <1>4, <1>5, <1>7 DEF MadeRight, MadeWell, IntendedOf, MergeParameterValues, Replaces
<1>8. QED
  BY <1>6, <1>7

LEMMA Setting ==
  ASSUME NEW d \in Deployments, NEW s, StepOf(s), s.op = "set",
         NEW lines \in Seq(Lines(Names))
  PROVE  MadeRight(d, s, lines)
<1>1. PICK param \in Names : param = OnlyParam(s)
  BY OnlyParamIs DEF StepOf
<1>2. PICK values \in Seq(Int) : values = <<PluginPath>>
  <2>1. <<PluginPath>> \in Seq(Int)
    BY DEF PluginPath
  <2>2. QED
    BY <2>1, Zenon
<1>3. Replaces(Names, lines, param, values)
  BY BlankLine, RewriteReplaces
<1>4. \A l : Made(d, s, l) = Rewrite(l, param, values, FALSE)
  BY <1>1, <1>2 DEF Made, SetParameter
<1>5. QED
  BY <1>1, <1>2, <1>3, <1>4 DEF MadeRight, MadeWell, IntendedOf, Replaces

LEMMA Indexing ==
  ASSUME NEW d \in Deployments, NEW s, StepOf(s), s.op = "indexed", Usable(d, s),
         NEW lines \in Seq(Lines(Names))
  PROVE  MadeRight(d, s, lines)
<1>1. PICK param \in Names : param = OnlyParam(s) /\ s.params = {param}
  BY OnlyParamIs DEF StepOf
<1>2. Numbered(Names, {param}, Collected(d.variables, {param}))
  <2>1. IsFiniteSet(d.variables) /\ d.variables \subseteq Names \X Int \X BOOLEAN
    BY DeploymentAssumption, Zenon
  <2>2. Collectable(d.variables, {param}, s.op \in {"rules", "open"})
    BY <1>1 DEF Usable
  <2>3. QED
    BY <2>1, <2>2, CollectedIs
<1>3. PICK rules \in Seq(Lines(Names)) :
        rules = Collected(d.variables, {param}) /\ \A i \in 1..Len(rules) : rules[i][3] = i - 1
  BY <1>2, Zenon DEF Numbered
<1>4. PICK values \in Seq(Int) :
        /\ values = [i \in DOMAIN rules |-> rules[i][3]]
        /\ values = [i \in DOMAIN rules |-> i - 1]
  <2>1. DOMAIN rules = 1..Len(rules) /\ Len(rules) \in Nat
    OBVIOUS
  <2>2. [i \in DOMAIN rules |-> rules[i][3]] = [i \in 1..Len(rules) |-> i - 1]
    BY <1>3, <2>1
  <2>3. [i \in 1..Len(rules) |-> i - 1] \in Seq(Int)
    BY <2>1, IsASeq
  <2>4. QED
    BY <2>1, <2>2, <2>3, Zenon
<1>5. Replaces(Names, lines, param, values)
  BY BlankLine, RewriteReplaces
<1>6. \A l : Made(d, s, l) = IF rules = <<>> THEN l ELSE Rewrite(l, param, values, FALSE)
  BY <1>1, <1>3, <1>4, Zenon DEF Made, UpdateIndexedParameter
<1>7. Rules(d, s) = rules
  BY <1>1, <1>3 DEF Rules
<1>8. CASE rules = <<>>
  BY <1>1, <1>6, <1>7, <1>8 DEF MadeRight, MadeWell, IntendedOf
<1>9. CASE rules # <<>>
  <2>1. \A l : Made(d, s, l) = Rewrite(l, param, values, FALSE)
    BY <1>6, <1>9
  <2>2. MadeWell(d, s, lines)
    BY <1>5, <2>1 DEF MadeWell, Replaces
  <2>3. IntendedOf(d, s, lines, Made(d, s, lines))
    BY <1>1, <1>4, <1>5, <1>7, <1>9, <2>1 DEF IntendedOf, Replaces
  <2>4. QED
    BY <2>2, <2>3 DEF MadeRight
<1>10. QED
  BY <1>8, <1>9

LEMMA Ruling ==
  ASSUME NEW d \in Deployments, NEW s, StepOf(s), s.op = "rules", Usable(d, s),
         NEW lines \in Seq(Lines(Names))
  PROVE  MadeRight(d, s, lines)
<1>1. PICK params : params = s.params
  OBVIOUS
<1>2. Numbered(Names, params, Collected(d.variables, params))
  <2>1. IsFiniteSet(d.variables) /\ d.variables \subseteq Names \X Int \X BOOLEAN
    BY DeploymentAssumption, Zenon
  <2>2. Collectable(d.variables, params, s.op \in {"rules", "open"})
    BY <1>1 DEF Usable
  <2>3. QED
    BY <2>1, <2>2, CollectedIs
<1>3. PICK rules \in Seq(Lines(Names)) :
        rules = Collected(d.variables, params) /\ Range(rules) \subseteq Assigning(params)
  BY <1>2, Zenon DEF Numbered
<1>4. ReplacesEnd(Names, lines, params, rules)
  BY <1>3, BlankLine, ReplaceAtEndIs
<1>5. \A l : Made(d, s, l) = ReplaceAtEnd(l, params, rules)
  BY <1>1, <1>3, Zenon DEF Made
<1>6. Rules(d, s) = rules
  BY <1>1, <1>3 DEF Rules
<1>7. QED
  BY <1>1, <1>4, <1>5, <1>6 DEF MadeRight, MadeWell, IntendedOf, ReplacesEnd

LEMMA Appending ==
  ASSUME NEW d \in Deployments, NEW s, StepOf(s), s.op = "append",
         NEW lines \in Seq(Lines(Names))
  PROVE  MadeRight(d, s, lines)
<1>1. PICK line \in Lines(Names) : line = Line(s.file)
  <2>1. "text" \in LineKinds /\ 101 \in Int
    BY DEF LineKinds
  <2>2. QED
    BY <2>1 DEF Line, Lines, StepOf
<1>2. /\ AppendMissing(lines, line) \in Seq(Lines(Names))
      /\ AppendMissing(AppendMissing(lines, line), line) = AppendMissing(lines, line)
  BY AppendedTwice
<1>3. \A l : Made(d, s, l) = IF s.params \subseteq d.features THEN AppendMissing(l, line) ELSE l
  BY <1>1, Zenon DEF Made
<1>4. MadeWell(d, s, lines)
  BY <1>2, <1>3, Zenon DEF MadeWell
<1>5. IntendedOf(d, s, lines, Made(d, s, lines))
  BY <1>1, <1>3 DEF IntendedOf, AppendMissing
<1>6. QED
  BY <1>4, <1>5 DEF MadeRight

LEMMA Replacing ==
  ASSUME NEW d \in Deployments, NEW s, StepOf(s), s.op = "replace_in",
         NEW lines \in Seq(Lines(Names))
  PROVE  MadeRight(d, s, lines)
<1>1. PICK value \in Int : value = d.setting
  <2>1. d.setting \in Int
    BY DeploymentAssumption, Zenon
  <2>2. QED
    BY <2>1
<1>2. PICK params : params = s.params
  OBVIOUS
<1>3. Fills(Names, lines, params, value)
  BY FilledIs
<1>4. \A l : Made(d, s, l) = Filled(l, params, value)
  BY <1>1, <1>2 DEF Made
<1>5. MadeWell(d, s, lines)
  BY <1>3, <1>4 DEF MadeWell, Fills
<1>6. IntendedOf(d, s, lines, Made(d, s, lines))
  BY <1>1, <1>2, <1>4 DEF IntendedOf, Filled
<1>7. QED
  BY <1>5, <1>6 DEF MadeRight

LEMMA MadeIs ==
  ASSUME NEW d \in Deployments, NEW s, StepOf(s), s.op \in Solo, Usable(d, s),
         NEW lines \in Seq(Lines(Names))
  PROVE  MadeRight(d, s, lines)
BY Merging, Setting, Indexing, Ruling, Appending, Replacing DEF Solo

-----------------------------------------------------------------------------
(* How far the files are: what is left of earlier starts, and what the first *)
(* n steps of this one have made of it                                       *)

\* A file with one writer is as the deployment has found it or complete.
SoloState(d, s, before, after, passed) ==
  s.op \in Solo =>
    /\ after = before \/ (Usable(d, s) /\ after = Made(d, s, before))
    /\ passed => Usable(d, s) /\ after = Made(d, s, before)

Solos(d, b, f, n) ==
  \A i \in DOMAIN Steps(d.program) :
    SoloState(d, Steps(d.program)[i], b[Steps(d.program)[i].file], f[Steps(d.program)[i].file], i <= n)

\* Includes are empty until they are filled.
FillState(d, s, after, opened, filled) ==
  /\ opened /\ ~filled => after = <<>>
  /\ filled => after = IF s.params \subseteq d.features THEN <<Line(s.file)>> ELSE <<>>

Includes(d, f, n) ==
  \A j, i \in DOMAIN Steps(d.program) :
    FillOf(Steps(d.program), j, i) =>
      FillState(d, Steps(d.program)[i], f[Steps(d.program)[i].file], j <= n, i <= n)

\* A link that is asked for is removed and made; another one may be withdrawn.
LinkTarget(d, s, before) ==
  IF "certs" \in s.params \ d.features /\ before = <<Link(s.file)>> THEN <<>> ELSE before

LinkState(d, s, before, after, unlinked, linked, withdrawn) ==
  IF s.params \subseteq d.features
  THEN /\ unlinked /\ ~linked => after = <<>>
       /\ linked => after = <<Link(s.file)>>
  ELSE /\ after \in {before, LinkTarget(d, s, before)}
       /\ withdrawn => after = LinkTarget(d, s, before)

Withdrawn(steps, file, n) ==
  \E k \in DOMAIN steps : k <= n /\ steps[k].op = "withdraw" /\ steps[k].file = file

Symlinks(d, b, f, n) ==
  \A u, i \in DOMAIN Steps(d.program) :
    LinkOf(Steps(d.program), u, i) =>
      LinkState(d, Steps(d.program)[i],
                b[Steps(d.program)[i].file], f[Steps(d.program)[i].file], u <= n, i <= n,
                Withdrawn(Steps(d.program), Steps(d.program)[i].file, n))

\* Lines are gone of features that are not set, of those of every step before.
UnsetOf(d) == {"real_ip", "real_ip_header"} \ d.features

RemoveState(d, before, after, n) ==
  \E gone \in SUBSET UnsetOf(d) :
    /\ after = RemoveLinesContaining(before, gone)
    /\ \A k \in DOMAIN Steps(d.program) :
         k <= n /\ Steps(d.program)[k].op = "remove_lines"
           /\ ~(Steps(d.program)[k].params \subseteq d.features)
         => Steps(d.program)[k].params \subseteq gone

Removals(d, b, f, n) ==
  \A i \in DOMAIN Steps(d.program) :
    Steps(d.program)[i].op = "remove_lines" =>
      RemoveState(d, b[Steps(d.program)[i].file], f[Steps(d.program)[i].file], n)

\* The file of the tool access rules is restored before they are replaced.
Replaced(d, s, template) ==
  IF Indexed(d.variables, s.params) = {} THEN template
  ELSE ReplaceAtEnd(template, s.params, Rules(d, s))

ToolAccess(d, f, n) ==
  d.program = "mcp" =>
    /\ n = 2 => f["tool_access"] = f["template"]
    /\ n = 3 => f["tool_access"] = Replaced(d, McpSteps[3], f["template"])

\* The database has the whole schema or what it had before; the transaction has
\* the statements so far.
SchemaState(d, b, f, n) ==
  d.program = "sqlite" =>
    /\ \/ f["db"] = b["db"]
       \/ ~Contains(b["db"], VersionTable) /\ f["db"] = b["db"] \o Schema
    /\ n \in 1..5 =>
         f["transaction"] = IF Contains(f["db"], VersionTable) THEN f["db"]
                            ELSE f["db"] \o SubSeq(Schema, 1, n - 1)
    /\ n >= 6 => Contains(f["db"], VersionTable)

Progress(d, b, f, n) ==
  /\ Solos(d, b, f, n)
  /\ Includes(d, f, n)
  /\ Symlinks(d, b, f, n)
  /\ Removals(d, b, f, n)
  /\ ToolAccess(d, f, n)
  /\ SchemaState(d, b, f, n)

\* The steps that this start has behind it.
Done ==
  IF phase = "running" THEN Len(Steps(deployed.program))
  ELSE IF phase = "configure" THEN step - 1 ELSE 0

Checked ==
  \A i \in DOMAIN Steps(deployed.program) :
    i <= Done /\ Steps(deployed.program)[i].op \in Writing \cup {"providers"} =>
      Valid(Steps(deployed.program)[i])

FilesTyped ==
  \A f \in DOMAIN deployed.shipped :
    files[f] \in Seq(Lines(Names)) /\ base[f] \in Seq(Lines(Names))

StartInv ==
  /\ TypeOK
  /\ FilesTyped
  /\ phase \notin {"down", "configure", "running"} => step = 1
  /\ Checked
  /\ Progress(deployed, base, files, Done)

\* A step that writes has its file.
LEMMA FileOfStep ==
  ASSUME NEW d \in Deployments, NEW i \in DOMAIN Steps(d.program), Steps(d.program)[i].op \in Writing
  PROVE  Steps(d.program)[i].file \in DOMAIN d.shipped
<1>1. d.program \in Programs
  BY ScopeAssumption
<1>2. Steps(d.program)[i].file # ""
  BY <1>1, UsesOf DEF Uses
<1>3. Steps(d.program)[i].file \in DOMAIN d.shipped \cup {""}
  BY DeploymentAssumption, Zenon
<1>4. QED
  BY <1>2, <1>3

LEMMA Counted ==
  ASSUME NEW d \in Deployments, NEW i \in DOMAIN Steps(d.program)
  PROVE  i \in Nat /\ 1 <= i /\ i <= Len(Steps(d.program)) /\ Len(Steps(d.program)) \in Nat
<1>1. d.program \in Programs
  BY ScopeAssumption
<1>2. Len(Steps(d.program)) \in Nat \ {0} /\ DOMAIN Steps(d.program) = 1..Len(Steps(d.program))
  BY <1>1, StepsOf
<1>3. QED
  BY <1>2

LEMMA NoneBehind == ASSUME NEW d \in Deployments PROVE \A i \in DOMAIN Steps(d.program) : ~(i <= 0)
<1> TAKE i \in DOMAIN Steps(d.program)
<1>1. i \in Nat /\ 1 <= i
  BY Counted
<1>2. QED
  BY <1>1

LEMMA RemoveNone ==
  ASSUME NEW lines \in Seq(Lines(Names)) PROVE RemoveLinesContaining(lines, {}) = lines
<1>1. Range(lines) \cap Lines({}) = {}
  BY DEF Lines
<1>2. QED
  BY <1>1, WithoutNone DEF RemoveLinesContaining

LEMMA ProgressStart ==
  ASSUME NEW d \in Deployments, NEW b,
         \A f \in DOMAIN d.shipped : b[f] \in Seq(Lines(Names))
  PROVE  Progress(d, b, b, 0)
<1>1. \A i \in DOMAIN Steps(d.program) : ~(i <= 0)
  BY NoneBehind
<1>2. Solos(d, b, b, 0)
  BY <1>1 DEF Solos, SoloState
<1>3. Includes(d, b, 0)
  BY <1>1 DEF Includes, FillState
<1>4. Symlinks(d, b, b, 0)
  <2>1. \A file : ~Withdrawn(Steps(d.program), file, 0)
    BY <1>1 DEF Withdrawn
  <2>2. QED
    BY <1>1, <2>1 DEF Symlinks, LinkState
<1>5. Removals(d, b, b, 0)
  <2> SUFFICES ASSUME NEW i \in DOMAIN Steps(d.program), Steps(d.program)[i].op = "remove_lines"
               PROVE  RemoveState(d, b[Steps(d.program)[i].file], b[Steps(d.program)[i].file], 0)
    BY Zenon DEF Removals
  <2>1. Steps(d.program)[i].file \in DOMAIN d.shipped
    BY FileOfStep DEF Writing
  <2>2. RemoveLinesContaining(b[Steps(d.program)[i].file], {}) = b[Steps(d.program)[i].file]
    BY <2>1, RemoveNone
  <2>3. QED
    BY <1>1, <2>2 DEF RemoveState
<1>6. ToolAccess(d, b, 0)
  BY DEF ToolAccess
<1>7. SchemaState(d, b, b, 0)
  BY DEF SchemaState
<1>8. QED
  BY <1>2, <1>3, <1>4, <1>5, <1>6, <1>7 DEF Progress

\* Another start has all its steps ahead.
LEMMA ProgressAgain ==
  ASSUME NEW d \in Deployments, NEW b, NEW f, NEW n, Progress(d, b, f, n)
  PROVE  Progress(d, b, f, 0)
<1>1. \A i \in DOMAIN Steps(d.program) : ~(i <= 0)
  BY NoneBehind
<1>2. Solos(d, b, f, 0)
  BY <1>1 DEF Progress, Solos, SoloState
<1>3. Includes(d, f, 0)
  BY <1>1 DEF Includes, FillState
<1>4. Symlinks(d, b, f, 0)
  <2>1. \A file : ~Withdrawn(Steps(d.program), file, 0)
    BY <1>1 DEF Withdrawn
  <2>2. Symlinks(d, b, f, n)
    BY DEF Progress
  <2>3. QED
    BY <1>1, <2>1, <2>2 DEF Symlinks, LinkState
<1>5. Removals(d, b, f, 0)
  <2> SUFFICES ASSUME NEW i \in DOMAIN Steps(d.program), Steps(d.program)[i].op = "remove_lines"
               PROVE  RemoveState(d, b[Steps(d.program)[i].file], f[Steps(d.program)[i].file], 0)
    BY Zenon DEF Removals
  <2>1. RemoveState(d, b[Steps(d.program)[i].file], f[Steps(d.program)[i].file], n)
    BY Zenon DEF Progress, Removals
  <2>2. QED
    BY <1>1, <2>1, Zenon DEF RemoveState
<1>6. ToolAccess(d, f, 0)
  BY DEF ToolAccess
<1>7. SchemaState(d, b, f, 0)
  BY DEF Progress, SchemaState
<1>8. QED
  BY <1>2, <1>3, <1>4, <1>5, <1>6, <1>7 DEF Progress

-----------------------------------------------------------------------------
(* One more step *)

\* What step s of the configuration has made of the files.
Took(s, g) ==
  /\ \A x \in DOMAIN files : x # s.file => g[x] = files[x]
  /\ s.op \in Writing => s.file \in DOMAIN files /\ g[s.file] = Result(s, files[s.file]) /\ Valid(s)
  /\ s.op \notin Writing => g = files

Taken(n, k, g) ==
  /\ n \in Nat /\ k \in DOMAIN Steps(deployed.program) /\ k = n + 1
  /\ Took(Steps(deployed.program)[k], g)

LEMMA Passing ==
  ASSUME deployed \in Deployments, NEW n, NEW k, NEW g, Taken(n, k, g)
  PROVE  /\ \A i \in DOMAIN Steps(deployed.program) : i <= k <=> (i <= n \/ i = k)
         /\ ~(k <= n)
<1>1. n \in Nat /\ k = n + 1
  BY DEF Taken
<1>2. ~(k <= n)
  BY <1>1
<1>3. ASSUME NEW i \in DOMAIN Steps(deployed.program) PROVE i <= k <=> (i <= n \/ i = k)
  <2>1. i \in Nat
    BY Counted
  <2>2. QED
    BY <1>1, <2>1
<1>4. QED
  BY <1>2, <1>3

LEMMA ResultOfSolo ==
  ASSUME NEW s, s.op \in Solo, NEW lines
  PROVE  Result(s, lines) = Made(deployed, s, lines)
<1>1. CASE s.op = "merge"
  BY <1>1 DEF Result, Made
<1>2. CASE s.op = "indexed"
  BY <1>2 DEF Result, Made
<1>3. CASE s.op = "set"
  BY <1>3 DEF Result, Made
<1>4. CASE s.op = "rules"
  BY <1>4 DEF Result, Made
<1>5. CASE s.op = "append"
  BY <1>5 DEF Result, Made, Asked
<1>6. CASE s.op = "replace_in"
  BY <1>6 DEF Result, Made
<1>7. QED
  BY <1>1, <1>2, <1>3, <1>4, <1>5, <1>6 DEF Solo

LEMMA SoloAgain ==
  ASSUME NEW d \in Deployments, NEW s, StepOf(s), s.op \in Solo, Usable(d, s),
         NEW before \in Seq(Lines(Names)), NEW after, NEW passed,
         SoloState(d, s, before, after, passed)
  PROVE  \A now : SoloState(d, s, before, Made(d, s, after), now)
<1>1. Made(d, s, Made(d, s, before)) = Made(d, s, before)
  BY MadeIs DEF MadeRight, MadeWell
<1>2. after = before \/ after = Made(d, s, before)
  BY DEF SoloState
<1>3. Made(d, s, after) = Made(d, s, before)
  BY <1>1, <1>2
<1>4. QED
  BY <1>3, Zenon DEF SoloState

LEMMA SoloTake ==
  ASSUME deployed \in Deployments, FilesTyped, DOMAIN files = DOMAIN deployed.shipped,
         NEW n, NEW k, NEW g, Taken(n, k, g), Solos(deployed, base, files, n)
  PROVE  Solos(deployed, base, g, k)
<1> SUFFICES ASSUME NEW i \in DOMAIN Steps(deployed.program)
             PROVE  SoloState(deployed, Steps(deployed.program)[i], base[Steps(deployed.program)[i].file],
                              g[Steps(deployed.program)[i].file], i <= k)
  BY Zenon DEF Solos
<1>1. PICK s : s = Steps(deployed.program)[i]
  OBVIOUS
<1>2. CASE s.op \notin Solo
  BY <1>1, <1>2 DEF SoloState
<1>3. CASE s.op \in Solo
  <2>1. deployed.program \in Programs
    BY ScopeAssumption
  <2>2. s.op \in Writing
    BY <1>3 DEF Solo, Writing
  <2>3. s.file \in DOMAIN deployed.shipped
    BY <1>1, <2>2, FileOfStep
  <2>4. SoloState(deployed, s, base[s.file], files[s.file], i <= n)
    BY <1>1, Zenon DEF Solos
  <2>5. CASE i = k
    <3>1. Took(s, g)
      BY <1>1, <2>5 DEF Taken
    <3>2. Usable(deployed, s) /\ g[s.file] = Made(deployed, s, files[s.file])
      BY <1>3, <2>2, <3>1, ResultOfSolo DEF Took, Valid, Usable
    <3>3. StepOf(s)
      BY <1>1, <2>1, StepOfProgram
    <3>4. base[s.file] \in Seq(Lines(Names))
      BY <2>3 DEF FilesTyped
    <3>5. QED
      BY <1>1, <1>3, <2>4, <3>2, <3>3, <3>4, SoloAgain
  <2>6. CASE i # k
    <3>1. Steps(deployed.program)[k].file # s.file
      BY <1>1, <1>3, <2>1, <2>6, Alone DEF AloneIn, Taken
    <3>2. g[s.file] = files[s.file]
      BY <2>3, <3>1 DEF Taken, Took
    <3>3. i <= k <=> i <= n
      BY <2>6, Passing
    <3>4. QED
      BY <1>1, <2>4, <3>2, <3>3 DEF SoloState
  <2>7. QED
    BY <2>5, <2>6
<1>4. QED
  BY <1>2, <1>3

\* The file of a step that others write too: unchanged by all but these.
LEMMA Elsewhere ==
  ASSUME deployed \in Deployments, DOMAIN files = DOMAIN deployed.shipped,
         NEW n, NEW k, NEW g, Taken(n, k, g),
         NEW i \in DOMAIN Steps(deployed.program), Steps(deployed.program)[i].op \in Writing,
         Steps(deployed.program)[k].file # Steps(deployed.program)[i].file
  PROVE  g[Steps(deployed.program)[i].file] = files[Steps(deployed.program)[i].file]
<1>1. Steps(deployed.program)[i].file \in DOMAIN files
  BY FileOfStep
<1>2. QED
  BY <1>1 DEF Taken, Took

LEMMA IncludesTake ==
  ASSUME deployed \in Deployments, DOMAIN files = DOMAIN deployed.shipped,
         NEW n, NEW k, NEW g, Taken(n, k, g), Includes(deployed, files, n)
  PROVE  Includes(deployed, g, k)
<1> SUFFICES ASSUME NEW j \in DOMAIN Steps(deployed.program),
                    NEW i \in DOMAIN Steps(deployed.program),
                    FillOf(Steps(deployed.program), j, i)
             PROVE  FillState(deployed, Steps(deployed.program)[i],
                              g[Steps(deployed.program)[i].file], j <= k, i <= k)
  BY Zenon DEF Includes
<1>1. PICK steps : steps = Steps(deployed.program)
  OBVIOUS
<1>2. PICK s : s = steps[i]
  OBVIOUS
<1>3. FillOf(steps, j, i)
  BY <1>1
<1>4. FillState(deployed, s, files[s.file], j <= n, i <= n)
  BY <1>1, <1>2, Zenon DEF Includes
<1>5. /\ j <= k <=> (j <= n \/ j = k)
      /\ i <= k <=> (i <= n \/ i = k)
  BY Passing
<1>6. j # i /\ (i = k => j <= n) /\ (j = k => ~(i <= k))
  <2>1. n \in Nat /\ k = n + 1 /\ j < i /\ i \in Nat /\ j \in Nat
    BY <1>3, Counted DEF Taken, FillOf
  <2>2. QED
    BY <2>1
<1>7. CASE k = j
  <2>1. steps[j].op = "open" /\ steps[j].file = s.file
    BY <1>2, <1>3 DEF FillOf
  <2>2. g[s.file] = Result(steps[j], files[s.file])
    BY <1>1, <1>7, <2>1 DEF Taken, Took, Writing
  <2>3. g[s.file] = <<>>
    BY <2>1, <2>2 DEF Result
  <2>4. QED
    BY <1>1, <1>2, <1>6, <1>7, <2>3 DEF FillState
<1>8. CASE k = i
  <2>1. s.op = "fill"
    BY <1>2, <1>3 DEF FillOf
  <2>2. g[s.file] = Result(s, files[s.file])
    BY <1>1, <1>2, <1>8, <2>1 DEF Taken, Took, Writing
  <2>3. g[s.file] = IF s.params \subseteq deployed.features THEN <<Line(s.file)>> ELSE files[s.file]
    BY <2>1, <2>2 DEF Result, Asked
  <2>4. files[s.file] = <<>>
    <3>1. ~(i <= n)
      BY <1>8, Passing
    <3>2. QED
      BY <1>4, <1>6, <1>8, <3>1 DEF FillState
  <2>5. QED
    BY <1>1, <1>2, <1>5, <1>8, <2>3, <2>4 DEF FillState
<1>9. CASE k # i /\ k # j
  <2>1. steps[k].file # s.file
    BY <1>1, <1>2, <1>3, <1>9 DEF FillOf, Taken
  <2>2. s.op \in Writing
    BY <1>2, <1>3 DEF FillOf, Writing
  <2>3. g[s.file] = files[s.file]
    BY <1>1, <1>2, <2>1, <2>2, Elsewhere
  <2>4. QED
    BY <1>1, <1>2, <1>4, <1>5, <1>9, <2>3 DEF FillState
<1>10. QED
  BY <1>7, <1>8, <1>9

LEMMA SymlinksTake ==
  ASSUME deployed \in Deployments, DOMAIN files = DOMAIN deployed.shipped,
         NEW n, NEW k, NEW g, Taken(n, k, g), Symlinks(deployed, base, files, n)
  PROVE  Symlinks(deployed, base, g, k)
<1> SUFFICES ASSUME NEW u \in DOMAIN Steps(deployed.program),
                    NEW i \in DOMAIN Steps(deployed.program),
                    LinkOf(Steps(deployed.program), u, i)
             PROVE  LinkState(deployed, Steps(deployed.program)[i],
                              base[Steps(deployed.program)[i].file],
                              g[Steps(deployed.program)[i].file], u <= k, i <= k,
                              Withdrawn(Steps(deployed.program), Steps(deployed.program)[i].file, k))
  BY Zenon DEF Symlinks
<1>1. PICK steps : steps = Steps(deployed.program)
  OBVIOUS
<1>2. PICK s : s = steps[i]
  OBVIOUS
<1>3. LinkOf(steps, u, i) /\ s.op = "link"
  BY <1>1, <1>2 DEF LinkOf
<1>4. LinkState(deployed, s, base[s.file], files[s.file], u <= n, i <= n, Withdrawn(steps, s.file, n))
  BY <1>1, <1>2, Zenon DEF Symlinks
<1>5. /\ u <= k <=> (u <= n \/ u = k)
      /\ i <= k <=> (i <= n \/ i = k)
  BY Passing
<1>6. u # i /\ (i = k => u <= n) /\ (u = k => ~(i <= k)) /\ (i < k => i <= n /\ u <= n)
  <2>1. n \in Nat /\ k = n + 1 /\ u < i /\ i \in Nat /\ u \in Nat
    BY <1>3, Counted DEF Taken, LinkOf
  <2>2. QED
    BY <2>1
<1>7. Withdrawn(steps, s.file, k) <=>
        Withdrawn(steps, s.file, n) \/ (steps[k].op = "withdraw" /\ steps[k].file = s.file)
  <2>1. \A l \in DOMAIN steps : l <= k <=> (l <= n \/ l = k)
    BY <1>1, Passing
  <2>2. k \in DOMAIN steps
    BY <1>1 DEF Taken
  <2>3. QED
    BY <2>1, <2>2, Zenon DEF Withdrawn
<1>8. steps[k].op \in Writing /\ steps[k].file = s.file => g[s.file] = Result(steps[k], files[s.file])
  BY <1>1 DEF Taken, Took
<1>9. CASE k = u
  <2>1. steps[k].op = "unlink" /\ steps[k].file = s.file /\ steps[k].params = s.params
    BY <1>2, <1>3, <1>9 DEF LinkOf
  <2>2. g[s.file] = Result(steps[k], files[s.file])
    BY <1>8, <2>1 DEF Writing
  <2>3. g[s.file] = IF s.params \subseteq deployed.features THEN <<>> ELSE files[s.file]
    BY <2>1, <2>2 DEF Result, Asked
  <2>4. Withdrawn(steps, s.file, k) = Withdrawn(steps, s.file, n)
    BY <1>7, <2>1 DEF Withdrawn
  <2>5. QED
    BY <1>1, <1>2, <1>4, <1>6, <1>9, <2>3, <2>4 DEF LinkState
<1>10. CASE k = i
  <2>1. g[s.file] = Result(s, files[s.file])
    BY <1>2, <1>3, <1>8, <1>10 DEF Writing
  <2>2. g[s.file] = IF s.params \subseteq deployed.features THEN <<Link(s.file)>> ELSE files[s.file]
    BY <1>3, <2>1 DEF Result, Asked
  <2>3. Withdrawn(steps, s.file, k) = Withdrawn(steps, s.file, n)
    BY <1>2, <1>3, <1>7, <1>10 DEF Withdrawn
  <2>4. QED
    BY <1>1, <1>2, <1>4, <1>5, <1>10, <2>2, <2>3 DEF LinkState
<1>11. CASE k \notin {u, i} /\ steps[k].file = s.file
  <2>1. /\ steps[k].op = "withdraw" /\ steps[k].params = {"certs"}
        /\ "certs" \in s.params /\ i < k
    BY <1>1, <1>2, <1>3, <1>11 DEF LinkOf, Taken
  <2>2. g[s.file] = Result(steps[k], files[s.file])
    BY <1>8, <1>11, <2>1 DEF Writing
  <2>3. g[s.file] = IF "certs" \in deployed.features THEN files[s.file]
                    ELSE RemoveMatchingSymlink(files[s.file], s.file)
    BY <1>11, <2>1, <2>2 DEF Result, Asked
  <2>4. i <= n /\ u <= n /\ i <= k /\ u <= k
    BY <1>5, <1>6, <2>1
  <2>5. CASE s.params \subseteq deployed.features
    <3>1. g[s.file] = files[s.file]
      BY <2>1, <2>3, <2>5
    <3>2. files[s.file] = <<Link(s.file)>>
      BY <1>4, <2>4, <2>5 DEF LinkState
    <3>3. QED
      BY <1>1, <1>2, <2>4, <2>5, <3>1, <3>2 DEF LinkState
  <2>6. CASE ~(s.params \subseteq deployed.features)
    <3>1. files[s.file] \in {base[s.file], LinkTarget(deployed, s, base[s.file])}
      BY <1>4, <2>6 DEF LinkState
    <3>2. g[s.file] = LinkTarget(deployed, s, base[s.file])
      <4>1. CASE "certs" \in deployed.features
        BY <2>3, <3>1, <4>1 DEF LinkTarget
      <4>2. CASE "certs" \notin deployed.features
        <5>1. "certs" \in s.params \ deployed.features
          BY <2>1, <4>2
        <5>2. <<>> # <<Link(s.file)>>
          OBVIOUS
        <5>3. QED
          BY <2>3, <3>1, <4>2, <5>1, <5>2 DEF LinkTarget, RemoveMatchingSymlink
      <4>3. QED
        BY <4>1, <4>2
    <3>3. QED
      BY <1>1, <1>2, <2>6, <3>2 DEF LinkState
  <2>7. QED
    BY <2>5, <2>6
<1>12. CASE k \notin {u, i} /\ steps[k].file # s.file
  <2>1. s.op \in Writing
    BY <1>3 DEF Writing
  <2>2. g[s.file] = files[s.file]
    BY <1>1, <1>2, <1>12, <2>1, Elsewhere
  <2>3. Withdrawn(steps, s.file, k) = Withdrawn(steps, s.file, n)
    BY <1>7, <1>12 DEF Withdrawn
  <2>4. QED
    BY <1>1, <1>2, <1>4, <1>5, <1>12, <2>2, <2>3 DEF LinkState
<1>13. QED
  BY <1>9, <1>10, <1>11, <1>12

LEMMA RemovalsTake ==
  ASSUME deployed \in Deployments, FilesTyped, DOMAIN files = DOMAIN deployed.shipped,
         NEW n, NEW k, NEW g, Taken(n, k, g), Removals(deployed, base, files, n)
  PROVE  Removals(deployed, base, g, k)
<1> SUFFICES ASSUME NEW i \in DOMAIN Steps(deployed.program),
                    Steps(deployed.program)[i].op = "remove_lines"
             PROVE  RemoveState(deployed, base[Steps(deployed.program)[i].file],
                                g[Steps(deployed.program)[i].file], k)
  BY Zenon DEF Removals
<1>1. PICK steps : steps = Steps(deployed.program)
  OBVIOUS
<1>2. PICK file : file = steps[i].file
  OBVIOUS
<1>3. deployed.program \in Programs
  BY ScopeAssumption
<1>4. RemoveOf(steps, i)
  BY <1>1, <1>3, RemoveSteps
<1>5. PICK gone \in SUBSET UnsetOf(deployed) :
        /\ files[file] = RemoveLinesContaining(base[file], gone)
        /\ \A l \in DOMAIN steps :
             l <= n /\ steps[l].op = "remove_lines" /\ ~(steps[l].params \subseteq deployed.features)
             => steps[l].params \subseteq gone
  <2>1. RemoveState(deployed, base[file], files[file], n)
    BY <1>1, <1>2, Zenon DEF Removals
  <2>2. QED
    BY <1>1, <2>1, Zenon DEF RemoveState
<1>6. file \in DOMAIN deployed.shipped /\ base[file] \in Seq(Lines(Names))
  <2>1. file \in DOMAIN deployed.shipped
    BY <1>1, <1>2, FileOfStep DEF Writing
  <2>2. QED
    BY <2>1 DEF FilesTyped
<1>7. \A l \in DOMAIN steps : l <= k <=> (l <= n \/ l = k)
  BY <1>1, Passing
<1>8. k \in DOMAIN steps
  BY <1>1 DEF Taken
<1>9. CASE steps[k].file = file
  <2>1. steps[k].op = "remove_lines" /\ steps[k].params \in {{"real_ip"}, {"real_ip_header"}}
    BY <1>2, <1>4, <1>8, <1>9 DEF RemoveOf
  <2>2. g[file] = Result(steps[k], files[file])
    BY <1>1, <1>9, <2>1 DEF Taken, Took, Writing
  <2>3. g[file] = IF steps[k].params \subseteq deployed.features THEN files[file]
                  ELSE RemoveLinesContaining(files[file], steps[k].params)
    BY <2>1, <2>2 DEF Result, Asked
  <2>4. CASE steps[k].params \subseteq deployed.features
    <3>1. g[file] = RemoveLinesContaining(base[file], gone)
      BY <1>5, <2>3, <2>4
    <3>2. \A l \in DOMAIN steps :
            l <= k /\ steps[l].op = "remove_lines" /\ ~(steps[l].params \subseteq deployed.features)
            => steps[l].params \subseteq gone
      BY <1>5, <1>7, <2>4, Zenon
    <3>3. QED
      BY <1>1, <1>2, <3>1, <3>2, Zenon DEF RemoveState
  <2>5. CASE ~(steps[k].params \subseteq deployed.features)
    <3>1. PICK more \in SUBSET UnsetOf(deployed) : more = gone \cup steps[k].params
      BY <2>1, <2>5 DEF UnsetOf
    <3>2. g[file] = RemoveLinesContaining(base[file], more)
      BY <1>5, <1>6, <2>3, <2>5, <3>1, RemovedTwice
    <3>3. steps[k].params \subseteq more /\ gone \subseteq more
      BY <3>1
    <3>4. \A l \in DOMAIN steps :
            l <= k /\ steps[l].op = "remove_lines" /\ ~(steps[l].params \subseteq deployed.features)
            => steps[l].params \subseteq more
      <4> TAKE l \in DOMAIN steps
      <4> HAVE l <= k /\ steps[l].op = "remove_lines" /\ ~(steps[l].params \subseteq deployed.features)
      <4>1. l <= n \/ l = k
        BY <1>7
      <4>2. CASE l = k
        BY <3>3, <4>2
      <4>3. CASE l <= n
        <5>1. steps[l].params \subseteq gone
          BY <1>5, <4>3
        <5>2. QED
          BY <3>3, <5>1
      <4>4. QED
        BY <4>1, <4>2, <4>3
    <3>5. QED
      BY <1>1, <1>2, <3>2, <3>4, Zenon DEF RemoveState
  <2>6. QED
    BY <2>4, <2>5
<1>10. CASE steps[k].file # file
  <2>1. steps[k].op # "remove_lines"
    BY <1>2, <1>4, <1>8, <1>10 DEF RemoveOf
  <2>2. g[file] = files[file]
    BY <1>1, <1>2, <1>10, Elsewhere DEF Writing
  <2>3. g[file] = RemoveLinesContaining(base[file], gone)
    BY <1>5, <2>2
  <2>4. \A l \in DOMAIN steps :
          l <= k /\ steps[l].op = "remove_lines" /\ ~(steps[l].params \subseteq deployed.features)
          => steps[l].params \subseteq gone
    BY <1>5, <1>7, <2>1, Zenon
  <2>5. QED
    BY <1>1, <1>2, <2>3, <2>4, Zenon DEF RemoveState
<1>11. QED
  BY <1>9, <1>10

LEMMA McpDomain == DOMAIN McpSteps = 1..3
  BY DEF McpSteps

LEMMA ToolAccessTake ==
  ASSUME deployed \in Deployments, DOMAIN files = DOMAIN deployed.shipped,
         NEW n, NEW k, NEW g, Taken(n, k, g), ToolAccess(deployed, files, n)
  PROVE  ToolAccess(deployed, g, k)
<1> SUFFICES ASSUME deployed.program = "mcp"
             PROVE  /\ k = 2 => g["tool_access"] = g["template"]
                    /\ k = 3 => g["tool_access"] = Replaced(deployed, McpSteps[3], g["template"])
  BY DEF ToolAccess
<1>1. Steps(deployed.program) = McpSteps
  BY DEF Steps
<1>2. "template" \in DOMAIN files
  BY DeploymentAssumption, Zenon
<1>3. Took(McpSteps[k], g) /\ k = n + 1 /\ n \in Nat
  BY <1>1 DEF Taken
<1>4. /\ McpSteps[2].op = "restore" /\ McpSteps[2].file = "tool_access"
      /\ McpSteps[3].op = "replace" /\ McpSteps[3].file = "tool_access"
  BY DEF McpSteps, Step
<1>5. ASSUME k = 2 PROVE g["tool_access"] = g["template"]
  <2>1. g["tool_access"] = Result(McpSteps[2], files["tool_access"])
    BY <1>3, <1>4, <1>5 DEF Took, Writing
  <2>2. Result(McpSteps[2], files["tool_access"]) = files["template"]
    BY <1>4 DEF Result
  <2>3. g["template"] = files["template"]
    BY <1>2, <1>3, <1>4, <1>5 DEF Took
  <2>4. QED
    BY <2>1, <2>2, <2>3
<1>6. ASSUME k = 3 PROVE g["tool_access"] = Replaced(deployed, McpSteps[3], g["template"])
  <2>1. g["tool_access"] = Result(McpSteps[3], files["tool_access"])
    BY <1>3, <1>4, <1>6 DEF Took, Writing
  <2>2. n = 2
    BY <1>3, <1>6
  <2>3. files["tool_access"] = files["template"]
    BY <2>2 DEF ToolAccess
  <2>4. PICK s : s = McpSteps[3]
    OBVIOUS
  <2>5. Result(s, files["template"]) = Replaced(deployed, s, files["template"])
    BY <1>4, <2>4 DEF Result, Replaced, Rules
  <2>6. g["template"] = files["template"]
    BY <1>2, <1>3, <1>4, <1>6 DEF Took
  <2>7. QED
    BY <2>1, <2>3, <2>4, <2>5, <2>6
<1>7. QED
  BY <1>5, <1>6

LEMMA SqliteDomain == DOMAIN SqliteSteps = 1..10
  BY DEF SqliteSteps

LEMMA SqliteLength == Len(SqliteSteps) >= 6
  BY DEF SqliteSteps

\* The statements of the schema, in the order of the steps.
LEMMA StatementsOf ==
  /\ Statement(OnlyParam(SqliteSteps[2])) = Statement("hosts")
  /\ Statement(OnlyParam(SqliteSteps[3])) = VersionTable
  /\ Statement(OnlyParam(SqliteSteps[4])) = VersionRow
  /\ Statement(OnlyParam(SqliteSteps[5])) = Statement("items")
<1>1. /\ SqliteSteps[2].params = {"hosts"} /\ SqliteSteps[3].params = {"dbversion"}
      /\ SqliteSteps[4].params = {"mandatory"} /\ SqliteSteps[5].params = {"items"}
  BY DEF SqliteSteps, Step
<1>2. \A s, x : s.params = {x} => OnlyParam(s) = x
  BY DEF OnlyParam
<1>3. /\ OnlyParam(SqliteSteps[2]) = "hosts" /\ OnlyParam(SqliteSteps[3]) = "dbversion"
      /\ OnlyParam(SqliteSteps[4]) = "mandatory" /\ OnlyParam(SqliteSteps[5]) = "items"
  BY <1>1, <1>2, Zenon
<1>4. QED
  BY <1>3, Zenon DEF VersionTable, VersionRow

LEMMA StatementLine == ASSUME NEW name \in Names PROVE Statement(name) \in Lines(Names)
<1>1. "text" \in LineKinds /\ 102 \in Int
  BY DEF LineKinds
<1>2. QED
  BY <1>1 DEF Statement, Lines

LEMMA SchemaNames == {"hosts", "dbversion", "mandatory", "items"} \subseteq Names
<1>1. "sqlite" \in Programs /\ Steps("sqlite") = SqliteSteps
  BY DEF Programs, Steps
<1>2. {2, 3, 4, 5} \subseteq DOMAIN SqliteSteps
  BY SqliteDomain
<1>3. \A i \in DOMAIN SqliteSteps : SqliteSteps[i].params \subseteq Names
  BY <1>1, DeploymentAssumption, Zenon
<1>4. /\ SqliteSteps[2].params = {"hosts"} /\ SqliteSteps[3].params = {"dbversion"}
      /\ SqliteSteps[4].params = {"mandatory"} /\ SqliteSteps[5].params = {"items"}
  BY DEF SqliteSteps, Step
<1>5. QED
  BY <1>2, <1>3, <1>4

LEMMA PrefixOfOneMore ==
  ASSUME NEW S, NEW s \in Seq(S), NEW m \in 1..Len(s)
  PROVE  SubSeq(s, 1, m) = Append(SubSeq(s, 1, m - 1), s[m]) /\ SubSeq(s, 1, m - 1) \in Seq(S)
OBVIOUS

\* As many statements as steps.
SchemaSteps(k) ==
  /\ k - 1 \in 1..4
  /\ Statement(OnlyParam(SqliteSteps[k])) = Schema[k - 1]

LEMMA SchemaIs ==
  /\ Schema \in Seq(Lines(Names)) /\ Len(Schema) = 4
  /\ \A k \in 2..5 : SchemaSteps(k)
  /\ VersionTable \in Range(Schema)
<1>1. PICK a, b, c, e \in Lines(Names) :
        a = Statement("hosts") /\ b = VersionTable /\ c = VersionRow /\ e = Statement("items")
  BY SchemaNames, StatementLine DEF VersionTable, VersionRow
<1>2. Schema = <<a, b, c, e>>
  BY <1>1 DEF Schema
<1>3. Schema \in Seq(Lines(Names)) /\ Len(Schema) = 4
  BY <1>2
<1>4. Schema[1] = a /\ Schema[2] = b /\ Schema[3] = c /\ Schema[4] = e
  BY <1>2
<1>5. SchemaSteps(2) /\ SchemaSteps(3) /\ SchemaSteps(4) /\ SchemaSteps(5)
  BY <1>1, <1>4, StatementsOf DEF SchemaSteps
<1>6. \A k \in 2..5 : SchemaSteps(k)
  <2> TAKE k \in 2..5
  <2>1. k \in {2, 3, 4, 5}
    OBVIOUS
  <2>2. QED
    BY <1>5, <2>1
<1>7. VersionTable \in Range(Schema)
  <2>1. 2 \in DOMAIN Schema
    BY <1>3
  <2>2. QED
    BY <1>1, <1>4, <2>1 DEF Range
<1>8. QED
  BY <1>3, <1>6, <1>7

\* The whole schema has a version.
LEMMA SchemaComplete ==
  ASSUME NEW db \in Seq(Lines(Names)) PROVE Contains(db \o Schema, VersionTable)
<1>1. PICK s \in Seq(Lines(Names)) : s = Schema
  BY SchemaIs
<1>2. Range(db \o s) = Range(db) \cup Range(s)
  BY RangeConcat
<1>3. VersionTable \in Range(db \o s)
  BY <1>1, <1>2, SchemaIs
<1>4. db \o s \in Seq(Lines(Names))
  OBVIOUS
<1>5. QED
  BY <1>1, <1>3, <1>4, ContainsIs

LEMMA DatabaseFile ==
  ASSUME NEW d \in Deployments, d.program = "sqlite"
  PROVE  Steps(d.program) = SqliteSteps /\ "db" \in DOMAIN d.shipped /\ "transaction" \in DOMAIN d.shipped
<1>1. Steps(d.program) = SqliteSteps
  BY DEF Steps
<1>2. 1 \in DOMAIN SqliteSteps /\ 6 \in DOMAIN SqliteSteps
  BY SqliteDomain
<1>3. \A i \in DOMAIN SqliteSteps : SqliteSteps[i].file \in DOMAIN d.shipped \cup {""}
  BY <1>1, DeploymentAssumption, Zenon
<1>4. SqliteSteps[1].file = "transaction" /\ SqliteSteps[6].file = "db"
  BY DEF SqliteSteps, Step
<1>5. QED
  BY <1>1, <1>2, <1>3, <1>4

\* The parts of the schema's state that a step keeps.
SchemaKept(before, db) ==
  db = before \/ (~Contains(before, VersionTable) /\ db = before \o Schema)

SchemaSoFar(db, transaction, n) ==
  n \in 1..5 =>
    transaction = IF Contains(db, VersionTable) THEN db ELSE db \o SubSeq(Schema, 1, n - 1)

LEMMA SchemaParts ==
  ASSUME NEW d, d.program = "sqlite", NEW b, NEW f, NEW n
  PROVE  SchemaState(d, b, f, n) <=>
           /\ SchemaKept(b["db"], f["db"])
           /\ SchemaSoFar(f["db"], f["transaction"], n)
           /\ n >= 6 => Contains(f["db"], VersionTable)
BY Zenon DEF SchemaState, SchemaKept, SchemaSoFar

LEMMA SchemaBegins ==
  ASSUME NEW db \in Seq(Lines(Names)) PROVE SchemaSoFar(db, db, 1)
<1>1. PICK s \in Seq(Lines(Names)) : s = Schema
  BY SchemaIs
<1>2. SubSeq(s, 1, 1 - 1) = <<>> /\ db \o <<>> = db
  OBVIOUS
<1>3. QED
  BY <1>1, <1>2 DEF SchemaSoFar

LEMMA SchemaGrows ==
  ASSUME NEW db \in Seq(Lines(Names)), NEW k \in 2..5, NEW n, n = k - 1,
         NEW transaction, SchemaSoFar(db, transaction, n)
  PROVE  SchemaSoFar(db, IF Contains(db, VersionTable) THEN transaction
                         ELSE Append(transaction, Schema[k - 1]), k)
<1>1. PICK s \in Seq(Lines(Names)) : s = Schema /\ Len(s) = 4
  BY SchemaIs
<1>2. n \in 1..5 /\ k - 1 \in 1..4 /\ n - 1 = (k - 1) - 1
  OBVIOUS
<1>3. CASE Contains(db, VersionTable)
  BY <1>2, <1>3 DEF SchemaSoFar
<1>4. CASE ~Contains(db, VersionTable)
  <2>1. transaction = db \o SubSeq(s, 1, (k - 1) - 1)
    BY <1>1, <1>2, <1>4 DEF SchemaSoFar
  <2>2. PICK m \in 1..Len(s) : m = k - 1
    BY <1>1, <1>2
  <2>3. PICK pre \in Seq(Lines(Names)) :
          pre = SubSeq(s, 1, m - 1) /\ SubSeq(s, 1, m) = Append(pre, s[m])
    BY PrefixOfOneMore
  <2>4. s[m] \in Lines(Names)
    OBVIOUS
  <2>5. Append(db \o pre, s[m]) = db \o Append(pre, s[m])
    <3>1. \A u, v \in Seq(Lines(Names)) : \A e \in Lines(Names) : u \o Append(v, e) = Append(u \o v, e)
      BY AppendConcat, SMTT(60)
    <3>2. PICK e \in Lines(Names) : e = s[m]
      BY <2>4
    <3>3. Append(db \o pre, e) = db \o Append(pre, e)
      BY <3>1, Zenon
    <3>4. QED
      BY <3>2, <3>3
  <2>6. Append(transaction, Schema[k - 1]) = db \o SubSeq(s, 1, k - 1)
    BY <1>1, <2>1, <2>2, <2>3, <2>5
  <2>7. QED
    BY <1>1, <1>4, <2>6 DEF SchemaSoFar
<1>5. QED
  BY <1>3, <1>4

LEMMA SchemaCommits ==
  ASSUME NEW before \in Seq(Lines(Names)), NEW db \in Seq(Lines(Names)), NEW transaction,
         SchemaKept(before, db), SchemaSoFar(db, transaction, 5),
         NEW after, after = IF Contains(db, VersionTable) THEN db ELSE transaction
  PROVE  SchemaKept(before, after) /\ Contains(after, VersionTable)
<1>1. PICK s \in Seq(Lines(Names)) : s = Schema /\ Len(s) = 4
  BY SchemaIs
<1>2. SubSeq(s, 1, 5 - 1) = s
  BY <1>1
<1>3. CASE Contains(db, VersionTable)
  BY <1>3
<1>4. CASE ~Contains(db, VersionTable)
  <2>1. after = db \o Schema
    <3>1. 5 \in 1..5
      OBVIOUS
    <3>2. transaction = db \o SubSeq(Schema, 1, 5 - 1)
      BY <1>4, <3>1, Zenon DEF SchemaSoFar
    <3>3. QED
      BY <1>1, <1>2, <1>4, <3>2
  <2>2. db = before
    BY <1>4, SchemaComplete DEF SchemaKept
  <2>3. QED
    BY <1>4, <2>1, <2>2, SchemaComplete DEF SchemaKept
<1>5. QED
  BY <1>3, <1>4

LEMMA SchemaTake ==
  ASSUME deployed \in Deployments, FilesTyped, DOMAIN files = DOMAIN deployed.shipped,
         NEW n, NEW k, NEW g, Taken(n, k, g), SchemaState(deployed, base, files, n)
  PROVE  SchemaState(deployed, base, g, k)
<1> SUFFICES ASSUME deployed.program = "sqlite" PROVE SchemaState(deployed, base, g, k)
  BY DEF SchemaState
<1>1. /\ Steps(deployed.program) = SqliteSteps
      /\ "db" \in DOMAIN files /\ "transaction" \in DOMAIN files
  BY DatabaseFile
<1>2. PICK before, db \in Seq(Lines(Names)) : before = base["db"] /\ db = files["db"]
  BY <1>1 DEF FilesTyped
<1>3. PICK transaction : transaction = files["transaction"]
  OBVIOUS
<1>4. /\ SchemaKept(before, db)
      /\ SchemaSoFar(db, transaction, n)
      /\ n >= 6 => Contains(db, VersionTable)
  BY <1>2, <1>3, SchemaParts
<1>5. Took(SqliteSteps[k], g) /\ k \in DOMAIN SqliteSteps
  BY <1>1 DEF Taken
<1>6. n \in Nat /\ k = n + 1 /\ k \in 1..10
  BY <1>5, SqliteDomain DEF Taken
<1>7. Fresh <=> ~Contains(db, VersionTable)
  BY <1>2 DEF Fresh
<1>8. CASE k = 1
  <2>1. SqliteSteps[1].op = "begin" /\ SqliteSteps[1].file = "transaction"
    BY DEF SqliteSteps, Step
  <2>2. g["transaction"] = Result(SqliteSteps[1], transaction)
    BY <1>3, <1>5, <1>8, <2>1 DEF Took, Writing
  <2>3. g["transaction"] = db /\ g["db"] = db
    BY <1>1, <1>2, <1>5, <1>8, <2>1, <2>2 DEF Result, Took
  <2>4. SchemaSoFar(g["db"], g["transaction"], k)
    BY <1>8, <2>3, SchemaBegins
  <2>5. ~(k >= 6)
    BY <1>8
  <2>6. QED
    BY <1>2, <1>4, <2>3, <2>4, <2>5, SchemaParts
<1>9. CASE k \in 2..5
  <2>1. \A i \in 2..5 : SqliteSteps[i].op = "execute" /\ SqliteSteps[i].file = "transaction"
    <3>1. /\ SqliteSteps[2].op = "execute" /\ SqliteSteps[2].file = "transaction"
          /\ SqliteSteps[3].op = "execute" /\ SqliteSteps[3].file = "transaction"
          /\ SqliteSteps[4].op = "execute" /\ SqliteSteps[4].file = "transaction"
          /\ SqliteSteps[5].op = "execute" /\ SqliteSteps[5].file = "transaction"
      BY DEF SqliteSteps, Step
    <3>2. \A i \in 2..5 : i \in {2, 3, 4, 5}
      OBVIOUS
    <3>3. QED
      BY <3>1, <3>2
  <2>2. PICK s : s = SqliteSteps[k] /\ s.op = "execute" /\ s.file = "transaction"
    BY <1>9, <2>1
  <2>3. g["transaction"] = Result(s, transaction)
    BY <1>3, <1>5, <2>2 DEF Took, Writing
  <2>4. Statement(OnlyParam(s)) = Schema[k - 1]
    BY <1>9, <2>2, SchemaIs DEF SchemaSteps
  <2>5. g["transaction"] = IF Contains(db, VersionTable) THEN transaction
                           ELSE Append(transaction, Schema[k - 1])
    BY <1>7, <2>2, <2>3, <2>4 DEF Result
  <2>6. g["db"] = db
    BY <1>1, <1>2, <1>5, <2>2 DEF Took
  <2>7. n = k - 1 /\ ~(k >= 6)
    BY <1>6, <1>9
  <2>8. SchemaSoFar(g["db"], g["transaction"], k)
    BY <1>4, <1>9, <2>5, <2>6, <2>7, SchemaGrows
  <2>9. QED
    BY <1>2, <1>4, <2>6, <2>7, <2>8, SchemaParts
<1>10. CASE k = 6
  <2>1. SqliteSteps[6].op = "commit" /\ SqliteSteps[6].file = "db"
    BY DEF SqliteSteps, Step
  <2>2. g["db"] = Result(SqliteSteps[6], db)
    BY <1>2, <1>5, <1>10, <2>1 DEF Took, Writing
  <2>3. g["db"] = IF Contains(db, VersionTable) THEN db ELSE transaction
    BY <1>3, <1>7, <2>1, <2>2 DEF Result
  <2>4. n = 5
    BY <1>6, <1>10
  <2>5. SchemaKept(before, g["db"]) /\ Contains(g["db"], VersionTable)
    BY <1>4, <2>3, <2>4, SchemaCommits
  <2>6. SchemaSoFar(g["db"], g["transaction"], k)
    BY <1>10 DEF SchemaSoFar
  <2>7. QED
    BY <1>2, <2>5, <2>6, SchemaParts
<1>11. CASE k \in 7..10
  <2>1. SqliteFiles(k)
    BY <1>5, SqliteTable, Zenon
  <2>2. ~(k \in {1, 2, 3, 4, 5}) /\ k # 6
    BY <1>11
  <2>3. "db" # SqliteSteps[k].file
    BY <2>1, <2>2 DEF SqliteFiles
  <2>4. g["db"] = db
    BY <1>1, <1>2, <1>5, <2>3 DEF Took
  <2>5. n >= 6 /\ ~(k \in 1..5)
    BY <1>6, <1>11
  <2>6. SchemaSoFar(g["db"], g["transaction"], k)
    BY <2>5 DEF SchemaSoFar
  <2>7. QED
    BY <1>2, <1>4, <2>4, <2>5, <2>6, SchemaParts
<1>12. k = 1 \/ k \in 2..5 \/ k = 6 \/ k \in 7..10
  BY <1>6
<1>13. QED
  BY <1>8, <1>9, <1>10, <1>11, <1>12

\* One more step is one step further.
LEMMA ProgressTake ==
  ASSUME deployed \in Deployments, FilesTyped, DOMAIN files = DOMAIN deployed.shipped,
         NEW n, NEW k, NEW g, Taken(n, k, g), Progress(deployed, base, files, n)
  PROVE  Progress(deployed, base, g, k)
BY SoloTake, IncludesTake, SymlinksTake, RemovalsTake, ToolAccessTake, SchemaTake DEF Progress

\* What a step writes is a file again.
LEMMA LineTyped ==
  ASSUME NEW file \in Names
  PROVE  /\ <<Line(file)>> \in Seq(Lines(Names))
         /\ <<Link(file)>> \in Seq(Lines(Names))
<1>1. "text" \in LineKinds /\ "link" \in LineKinds /\ 101 \in Int /\ 0 \in Int
  BY DEF LineKinds
<1>2. Line(file) \in Lines(Names) /\ Link(file) \in Lines(Names)
  BY <1>1 DEF Line, Link, Lines
<1>3. QED
  BY <1>2

LEMMA ResultTyped ==
  ASSUME deployed \in Deployments, FilesTyped, DOMAIN files = DOMAIN deployed.shipped,
         NEW i \in DOMAIN Steps(deployed.program),
         NEW s, s = Steps(deployed.program)[i], s.op \in Writing, Valid(s)
  PROVE  Result(s, files[s.file]) \in Seq(Lines(Names))
<1>1. deployed.program \in Programs
  BY ScopeAssumption
<1>2. StepOf(s) /\ Uses(deployed.program, s.op, s.file)
  BY <1>1, StepOfProgram, UsesOf
<1>3. PICK lines \in Seq(Lines(Names)) : lines = files[s.file]
  BY FileOfStep DEF FilesTyped
<1>4. PICK file \in Names : file = s.file
  BY <1>2 DEF StepOf
<1>5. <<>> \in Seq(Lines(Names))
  OBVIOUS
<1>6. CASE s.op \in Solo
  BY <1>2, <1>3, <1>6, ResultOfSolo, MadeIs DEF MadeRight, MadeWell, Valid, Usable
<1>7. CASE s.op = "open"
  BY <1>5, <1>7 DEF Result
<1>8. CASE s.op = "restore"
  <2>1. deployed.program = "mcp"
    BY <1>2, <1>8 DEF Uses
  <2>2. "template" \in DOMAIN deployed.shipped
    BY <2>1, DeploymentAssumption, Zenon
  <2>3. QED
    BY <1>8, <2>2 DEF Result, FilesTyped
<1>9. CASE s.op = "replace"
  <2>1. Numbered(Names, s.params, Collected(deployed.variables, s.params))
    <3>1. IsFiniteSet(deployed.variables) /\ deployed.variables \subseteq Names \X Int \X BOOLEAN
      BY DeploymentAssumption, Zenon
    <3>2. Collectable(deployed.variables, s.params, s.op \in {"rules", "open"})
      BY DEF Valid
    <3>3. QED
      BY <3>1, <3>2, CollectedIs
  <2>2. PICK rules \in Seq(Lines(Names)) :
          rules = Collected(deployed.variables, s.params) /\ Range(rules) \subseteq Assigning(s.params)
    BY <2>1, Zenon DEF Numbered
  <2>3. ReplaceAtEnd(lines, s.params, rules) \in Seq(Lines(Names))
    BY <2>2, BlankLine, ReplaceAtEndIs DEF ReplacesEnd
  <2>4. QED
    BY <1>3, <1>9, <2>2, <2>3 DEF Result
<1>10. CASE s.op = "fill"
  BY <1>3, <1>4, <1>10, LineTyped DEF Result
<1>11. CASE s.op = "unlink"
  BY <1>3, <1>5, <1>11 DEF Result
<1>12. CASE s.op = "link"
  BY <1>3, <1>4, <1>12, LineTyped DEF Result
<1>13. CASE s.op = "withdraw"
  BY <1>3, <1>5, <1>13 DEF Result, RemoveMatchingSymlink
<1>14. CASE s.op = "remove_lines"
  BY <1>3, <1>14, RemovedIs DEF Result
<1>15. CASE s.op \in {"begin", "execute", "commit"}
  <2>1. deployed.program = "sqlite"
    BY <1>2, <1>15 DEF Uses
  <2>2. /\ Steps(deployed.program) = SqliteSteps
        /\ files["db"] \in Seq(Lines(Names)) /\ files["transaction"] \in Seq(Lines(Names))
    BY <2>1, DatabaseFile DEF FilesTyped
  <2>3. CASE s.op = "begin"
    BY <2>2, <2>3 DEF Result
  <2>4. CASE s.op = "commit"
    BY <1>3, <2>2, <2>4 DEF Result
  <2>5. CASE s.op = "execute"
    <3>1. SqliteOps(i) /\ i \in DOMAIN SqliteSteps
      BY <2>2, SqliteTable, Zenon
    <3>2. i \in 2..5
      BY <2>2, <2>5, <3>1 DEF SqliteOps
    <3>3. Statement(OnlyParam(s)) \in Lines(Names)
      <4>1. PICK schema \in Seq(Lines(Names)) : schema = Schema /\ Len(schema) = 4
        BY SchemaIs
      <4>2. SchemaSteps(i)
        BY <3>2, SchemaIs, Zenon
      <4>3. Statement(OnlyParam(SqliteSteps[i])) = schema[i - 1] /\ i - 1 \in 1..4
        BY <4>1, <4>2, Zenon DEF SchemaSteps
      <4>4. schema[i - 1] \in Lines(Names)
        <5>1. PICK m \in 1..4 : m = i - 1
          BY <4>3
        <5>2. m \in DOMAIN schema
          BY <4>1, <5>1
        <5>3. schema[m] \in Lines(Names)
          BY <5>2
        <5>4. QED
          BY <5>1, <5>3
      <4>5. QED
        BY <2>2, <4>3, <4>4, Zenon
    <3>4. PICK statement \in Lines(Names) : statement = Statement(OnlyParam(s))
      BY <3>3
    <3>5. Result(s, lines) = IF Fresh THEN Append(lines, statement) ELSE lines
      BY <2>5, <3>4 DEF Result
    <3>6. Append(lines, statement) \in Seq(Lines(Names))
      OBVIOUS
    <3>7. QED
      BY <1>3, <3>5, <3>6
  <2>6. QED
    BY <1>15, <2>3, <2>4, <2>5
<1>16. QED
  BY <1>6, <1>7, <1>8, <1>9, <1>10, <1>11, <1>12, <1>13, <1>14, <1>15 DEF Writing, Solo

-----------------------------------------------------------------------------
(* The invariant *)

LEMMA StartInit == Init => StartInv
<1> SUFFICES ASSUME Init PROVE StartInv
  OBVIOUS
<1>1. TypeOK
  BY TypeInit
<1>2. deployed \in Deployments /\ base = deployed.shipped /\ files = base /\ Done = 0 /\ phase = "down"
  BY DEF Init, Done
<1>3. \A f \in DOMAIN deployed.shipped : base[f] \in Seq(Lines(Names))
  BY <1>2, DeploymentAssumption, Zenon
<1>4. FilesTyped
  BY <1>2, <1>3 DEF FilesTyped
<1>5. Progress(deployed, base, files, Done)
  <2>1. Progress(deployed, base, base, 0)
    BY <1>2, <1>3, ProgressStart
  <2>2. QED
    BY <1>2, <2>1
<1>6. Checked
  BY <1>2, NoneBehind DEF Checked
<1>7. QED
  BY <1>1, <1>2, <1>4, <1>5, <1>6 DEF StartInv

\* A start that ends, or one that has not come to the configuration, leaves the
\* files as they are.
LEMMA StartOver ==
  ASSUME StartInv, TypeOK', UNCHANGED <<deployed, base, files>>, Done' = 0,
         phase' \notin {"down", "configure", "running"} => step' = 1
  PROVE  StartInv'
<1>1. deployed \in Deployments
  BY DEF StartInv, TypeOK
<1>2. FilesTyped'
  BY DEF StartInv, FilesTyped
<1>3. Progress(deployed, base, files, 0)
  BY <1>1, ProgressAgain DEF StartInv
<1>4. Progress(deployed, base, files, Done)'
  BY <1>3
<1>5. Checked'
  <2>1. \A i \in DOMAIN Steps(deployed'.program) : ~(i <= Done')
    BY <1>1, NoneBehind
  <2>2. QED
    BY <2>1 DEF Checked
<1>6. QED
  BY <1>2, <1>4, <1>5 DEF StartInv

LEMMA StartRedeploy == StartInv /\ Redeploy /\ TypeOK' => StartInv'
<1> SUFFICES ASSUME StartInv, Redeploy, TypeOK' PROVE StartInv'
  OBVIOUS
<1>1. PICK next \in Deployments : 
        /\ deployed' = next /\ next.program = deployed.program
        /\ \E kept \in {files, next.shipped} : files' = kept /\ base' = kept
  BY Zenon DEF Redeploy
<1>2. PICK kept \in {files, next.shipped} : files' = kept /\ base' = kept
  BY <1>1, Zenon
<1>3. DOMAIN next.shipped = DOMAIN deployed.shipped
  BY <1>1, ScopeAssumption DEF StartInv, TypeOK
<1>4. \A f \in DOMAIN next.shipped : kept[f] \in Seq(Lines(Names))
  <2>1. CASE kept = files
    BY <1>3, <2>1 DEF StartInv, FilesTyped
  <2>2. CASE kept = next.shipped
    BY <2>2, DeploymentAssumption, Zenon
  <2>3. QED
    BY <1>2, <2>1, <2>2
<1>5. FilesTyped'
  BY <1>1, <1>2, <1>4 DEF FilesTyped
<1>6. phase' = "down" /\ Done' = 0
  BY DEF Redeploy, Done
<1>7. Progress(deployed, base, files, Done)'
  <2>1. Progress(next, kept, kept, 0)
    BY <1>4, ProgressStart
  <2>2. QED
    BY <1>1, <1>2, <1>6, <2>1
<1>8. Checked'
  <2>1. \A i \in DOMAIN Steps(deployed'.program) : ~(i <= Done')
    BY <1>1, <1>6, NoneBehind
  <2>2. QED
    BY <2>1 DEF Checked
<1>9. QED
  BY <1>5, <1>6, <1>7, <1>8 DEF StartInv

LEMMA ValidStays ==
  ASSUME deployed' = deployed, NEW i, Valid(Steps(deployed.program)[i])
  PROVE  Valid(Steps(deployed.program)[i])'
BY DEF Valid, Convertible, OnFrontend

\* One step further.
LEMMA StartAdvance ==
  ASSUME StartInv, TypeOK', phase = "configure", Advance, Took(Current, files'),
         Current.op \in Writing \cup {"providers"} => Valid(Current)
  PROVE  StartInv'
<1>1. /\ deployed \in Deployments /\ deployed' = deployed /\ base' = base
      /\ DOMAIN files = DOMAIN deployed.shipped /\ FilesTyped
      /\ step \in DOMAIN Steps(deployed.program)
  BY DEF StartInv, TypeOK, Advance
<1>2. Done = step - 1
  BY DEF Done
<1>3. step \in Nat /\ 1 <= step /\ step <= Len(Steps(deployed.program)) /\ Len(Steps(deployed.program)) \in Nat
  BY <1>1, Counted
<1>4. Done' = step
  <2>1. CASE step < Len(Steps(deployed.program))
    <3>1. step' = step + 1 /\ phase' = "configure"
      BY <2>1 DEF Advance
    <3>2. Done' = (step + 1) - 1
      BY <3>1 DEF Done
    <3>3. QED
      BY <1>3, <3>2
  <2>2. CASE ~(step < Len(Steps(deployed.program)))
    <3>1. phase' = "running"
      BY <2>2 DEF Advance
    <3>2. Done' = Len(Steps(deployed.program))
      BY <1>1, <3>1 DEF Done
    <3>3. step = Len(Steps(deployed.program))
      BY <1>3, <2>2
    <3>4. QED
      BY <3>2, <3>3
  <2>3. QED
    BY <2>1, <2>2
<1>5. step - 1 \in Nat /\ step = (step - 1) + 1
  BY <1>3
<1>6. Taken(step - 1, step, files')
  BY <1>1, <1>5 DEF Taken, Current
<1>7. Progress(deployed, base, files, Done)'
  <2>1. Progress(deployed, base, files, step - 1)
    BY <1>2 DEF StartInv
  <2>2. Progress(deployed, base, files', step)
    BY <1>1, <1>6, <2>1, ProgressTake
  <2>3. QED
    BY <1>1, <1>4, <2>2
<1>8. FilesTyped'
  <2> SUFFICES ASSUME NEW f \in DOMAIN deployed.shipped PROVE files'[f] \in Seq(Lines(Names))
    BY <1>1 DEF FilesTyped
  <2>1. PICK s : s = Current
    OBVIOUS
  <2>2. CASE s.op \in Writing /\ f = s.file
    <3>1. Result(s, files[s.file]) \in Seq(Lines(Names))
      BY <1>1, <2>1, <2>2, ResultTyped DEF Current
    <3>2. QED
      BY <2>1, <2>2, <3>1 DEF Took
  <2>3. CASE s.op \in Writing /\ f # s.file
    <3>1. files'[f] = files[f]
      BY <1>1, <2>1, <2>3 DEF Took
    <3>2. QED
      BY <1>1, <3>1 DEF FilesTyped
  <2>4. CASE s.op \notin Writing
    BY <1>1, <2>1, <2>4 DEF Took, FilesTyped
  <2>5. QED
    BY <2>2, <2>3, <2>4
<1>9. Checked'
  <2> SUFFICES ASSUME NEW i \in DOMAIN Steps(deployed.program), i <= step,
                      Steps(deployed.program)[i].op \in Writing \cup {"providers"}
               PROVE  Valid(Steps(deployed.program)[i])'
    BY <1>1, <1>4 DEF Checked
  <2>1. i \in Nat
    BY <1>1, Counted
  <2>2. i = step \/ i <= step - 1
    BY <1>3, <2>1
  <2>3. Valid(Steps(deployed.program)[i])
    <3>1. CASE i = step
      BY <3>1 DEF Current
    <3>2. CASE i <= step - 1
      BY <1>2, <3>2 DEF StartInv, Checked
    <3>3. QED
      BY <2>2, <3>1, <3>2
  <2>4. QED
    BY <1>1, <2>3, ValidStays
<1>10. phase' \in {"configure", "running"}
  BY DEF Advance
<1>11. QED
  BY <1>7, <1>8, <1>9, <1>10 DEF StartInv

LEMMA StartNext == StartInv /\ [Next]_vars => StartInv'
<1> SUFFICES ASSUME StartInv, [Next]_vars PROVE StartInv'
  OBVIOUS
<1>1. TypeOK /\ TypeOK'
  BY TypeNext DEF StartInv
<1>2. phase \notin {"down", "configure", "running"} => step = 1
  BY DEF StartInv
<1>3. phase' = "down" => Done' = 0
  BY DEF Done
<1>4. phase' \notin {"configure", "running"} => Done' = 0
  BY DEF Done
<1>5. phase' = "configure" /\ step' = 1 => Done' = 0
  <2> SUFFICES ASSUME phase' = "configure", step' = 1 PROVE Done' = 0
    OBVIOUS
  <2>1. Done' = 1 - 1
    BY DEF Done
  <2>2. QED
    BY <2>1
<1>6. CASE Redeploy
  BY <1>1, <1>6, StartRedeploy
<1>7. CASE Crash
  <2>1. phase' = "down" /\ UNCHANGED <<deployed, base, files>>
    BY <1>7 DEF Crash
  <2>2. QED
    BY <1>1, <1>3, <2>1, StartOver
<1>8. CASE Start
  <2>1. /\ phase' \in {"configure", "credentials", "attempt"} /\ step' = 1
        /\ UNCHANGED <<deployed, base, files>>
    BY <1>8 DEF Start, BeginRequest
  <2>2. QED
    BY <1>1, <1>4, <1>5, <2>1, StartOver
<1>9. CASE \/ StopSignal \/ Answered \/ Unavailable \/ Refused \/ Interrupted
           \/ Resume \/ GiveUp \/ Read \/ Connect \/ Rotate \/ Database
  <2>1. /\ phase \in {"attempt", "pause", "token", "credentials", "database"}
        /\ UNCHANGED <<deployed, base, files, step>>
        /\ phase' # "running"
    <3>1. CASE StopSignal \/ Rotate
      BY <3>1 DEF StopSignal, Rotate
    <3>2. CASE Answered
      BY <3>2 DEF Answered, Return, Following
    <3>3. CASE Unavailable \/ Interrupted
      BY <3>3 DEF Unavailable, Interrupted, AttemptFails, Return
    <3>4. CASE Refused \/ GiveUp
      BY <3>4 DEF Refused, GiveUp, Return
    <3>5. CASE Resume
      BY <3>5 DEF Resume
    <3>6. CASE Read \/ Connect
      BY <3>6 DEF Read, Connect, BeginRequest
    <3>7. CASE Database
      BY <3>7 DEF Database
    <3>8. QED
      BY <1>9, <3>1, <3>2, <3>3, <3>4, <3>5, <3>6, <3>7
  <2>2. step' = 1
    BY <1>2, <2>1
  <2>3. QED
    BY <1>1, <1>4, <1>5, <2>1, <2>2, StartOver
<1>10. ASSUME Fails, UNCHANGED <<deployed, base, files>> PROVE StartInv'
  BY <1>1, <1>3, <1>10, StartOver DEF Fails
<1>11. CASE Write
  <2>1. Took(Current, files') /\ Valid(Current)
    <3>1. Current.op \in Writing /\ Accepted(Current)
      BY <1>11 DEF Write
    <3>2. files' = [files EXCEPT ![Current.file] = Result(Current, files[Current.file])]
      BY <1>11 DEF Write
    <3>3. Current.file \in DOMAIN files
      BY <1>1, <3>1, FileOfStep DEF TypeOK, Current
    <3>4. QED
      BY <3>1, <3>2, <3>3 DEF Took, Accepted
  <2>2. phase = "configure" /\ Advance
    BY <1>11 DEF Write
  <2>3. QED
    BY <1>1, <2>1, <2>2, StartAdvance
<1>12. CASE Reject \/ WriteFails
  BY <1>10, <1>12 DEF Reject, WriteFails, Fails
<1>13. CASE Providers
  <2>1. CASE Advance /\ UNCHANGED files
    <3>1. phase = "configure" /\ Current.op = "providers" /\ Valid(Current)
      BY <1>13 DEF Providers, At, Accepted
    <3>2. Took(Current, files')
      BY <2>1, <3>1 DEF Took, Writing
    <3>3. QED
      BY <1>1, <2>1, <3>1, <3>2, StartAdvance
  <2>2. CASE Fails
    BY <1>10, <2>2 DEF Fails
  <2>3. QED
    BY <1>13, <2>1, <2>2 DEF Providers
<1>14. CASE Hooks
  <2>1. CASE Advance /\ UNCHANGED files
    <3>1. phase = "configure" /\ Current.op = "hooks"
      BY <1>14 DEF Hooks, At
    <3>2. Took(Current, files') /\ Current.op \notin Writing \cup {"providers"}
      BY <2>1, <3>1 DEF Took, Writing
    <3>3. QED
      BY <1>1, <2>1, <3>1, <3>2, StartAdvance
  <2>2. CASE Fails
    BY <1>10, <2>2 DEF Fails
  <2>3. QED
    BY <1>14, <2>1, <2>2 DEF Hooks
<1>15. CASE UNCHANGED vars
  <2>1. UNCHANGED <<deployed, base, files, phase, step>>
    BY <1>15 DEF vars
  <2>2. Done' = Done
    BY <2>1 DEF Done
  <2>3. FilesTyped' /\ Progress(deployed, base, files, Done)'
    BY <2>1, <2>2 DEF StartInv, FilesTyped
  <2>4. Checked'
    <3> SUFFICES ASSUME NEW i \in DOMAIN Steps(deployed.program), i <= Done,
                        Steps(deployed.program)[i].op \in Writing \cup {"providers"}
                 PROVE  Valid(Steps(deployed.program)[i])'
      BY <2>1, <2>2 DEF Checked
    <3>1. Valid(Steps(deployed.program)[i])
      BY DEF StartInv, Checked
    <3>2. QED
      BY <2>1, <3>1, ValidStays
  <2>5. QED
    BY <1>1, <1>2, <2>1, <2>3, <2>4 DEF StartInv
<1>16. QED
  BY <1>6, <1>7, <1>8, <1>9, <1>11, <1>12, <1>13, <1>14, <1>15 DEF Next

\* At every time each configuration file is what the deployment has found or
\* what the steps behind this start, and those of the starts that were cut
\* short, have made of it: nothing is left half-way that a later step does not
\* replace.
THEOREM StartedAnew == Spec => []StartInv
<1>1. QED
  BY StartInit, StartNext, PTL DEF Spec

-----------------------------------------------------------------------------
(* What a service that runs finds *)

LEMMA AllBehind ==
  ASSUME StartInv, phase = "running"
  PROVE  /\ deployed \in Deployments /\ deployed.program \in Programs
         /\ \A i \in DOMAIN Steps(deployed.program) : i <= Done
         /\ Done = Len(Steps(deployed.program))
<1>1. deployed \in Deployments
  BY DEF StartInv, TypeOK
<1>2. deployed.program \in Programs
  BY <1>1, ScopeAssumption
<1>3. Done = Len(Steps(deployed.program))
  BY DEF Done
<1>4. \A i \in DOMAIN Steps(deployed.program) : i <= Done
  BY <1>1, <1>3, Counted
<1>5. QED
  BY <1>1, <1>2, <1>3, <1>4

\* All the lines that are not wanted are gone.
LEMMA AllRemoved ==
  ASSUME StartInv, phase = "running",
         NEW i \in DOMAIN Steps(deployed.program), Steps(deployed.program)[i].op = "remove_lines",
         NEW file, file = Steps(deployed.program)[i].file
  PROVE  files[file] = RemoveLinesContaining(base[file], UnsetOf(deployed))
<1>1. PICK steps : steps = Steps(deployed.program)
  OBVIOUS
<1>2. RemoveState(deployed, base[file], files[file], Done)
  BY Zenon DEF StartInv, Progress, Removals
<1>3. PICK gone \in SUBSET UnsetOf(deployed) :
        /\ files[file] = RemoveLinesContaining(base[file], gone)
        /\ \A l \in DOMAIN steps :
             l <= Done /\ steps[l].op = "remove_lines" /\ ~(steps[l].params \subseteq deployed.features)
             => steps[l].params \subseteq gone
  BY <1>1, <1>2, Zenon DEF RemoveState
<1>4. RemoveOf(steps, i)
  BY <1>1, AllBehind, RemoveSteps
<1>5. ASSUME NEW x \in UnsetOf(deployed) PROVE x \in gone
  <2>1. x \in {"real_ip", "real_ip_header"} /\ x \notin deployed.features
    BY DEF UnsetOf
  <2>2. PICK l \in DOMAIN steps : steps[l].op = "remove_lines" /\ steps[l].params = {x}
    BY <1>4, <2>1, Zenon DEF RemoveOf
  <2>3. l <= Done
    BY <1>1, AllBehind
  <2>4. steps[l].params \subseteq gone
    BY <1>3, <2>1, <2>2, <2>3
  <2>5. QED
    BY <2>2, <2>4
<1>6. gone = UnsetOf(deployed)
  BY <1>5
<1>7. QED
  BY <1>3, <1>6

LEMMA StableStep ==
  ASSUME StartInv, phase = "running", NEW i \in DOMAIN Steps(deployed.program),
         NEW s, s = Steps(deployed.program)[i],
         s.op \in Solo \cup {"remove_lines", "commit"}
  PROVE  Result(s, files[s.file]) = files[s.file]
<1>1. /\ deployed \in Deployments /\ deployed.program \in Programs /\ i <= Done
      /\ Done = Len(Steps(deployed.program))
  BY AllBehind
<1>2. s.file \in DOMAIN deployed.shipped
  BY <1>1, FileOfStep DEF Writing, Solo
<1>3. PICK before \in Seq(Lines(Names)) : before = base[s.file]
  BY <1>2 DEF StartInv, FilesTyped
<1>4. CASE s.op \in Solo
  <2>1. SoloState(deployed, s, base[s.file], files[s.file], i <= Done)
    BY Zenon DEF StartInv, Progress, Solos
  <2>2. Usable(deployed, s) /\ files[s.file] = Made(deployed, s, before)
    BY <1>1, <1>3, <1>4, <2>1 DEF SoloState
  <2>3. Made(deployed, s, Made(deployed, s, before)) = Made(deployed, s, before)
    BY <1>1, <1>4, <2>2, StepOfProgram, MadeIs DEF MadeRight, MadeWell
  <2>4. QED
    BY <1>4, <2>2, <2>3, ResultOfSolo
<1>5. CASE s.op = "remove_lines"
  <2>1. files[s.file] = RemoveLinesContaining(before, UnsetOf(deployed))
    BY <1>3, <1>5, AllRemoved
  <2>2. CASE s.params \subseteq deployed.features
    BY <1>5, <2>2 DEF Result, Asked
  <2>3. CASE ~(s.params \subseteq deployed.features)
    <3>1. s.params \in {{"real_ip"}, {"real_ip_header"}}
      BY <1>1, <1>5, RemoveSteps DEF RemoveOf
    <3>2. UnsetOf(deployed) \cup s.params = UnsetOf(deployed)
      BY <2>3, <3>1 DEF UnsetOf
    <3>3. RemoveLinesContaining(files[s.file], s.params) = files[s.file]
      BY <2>1, <3>2, RemovedTwice
    <3>4. QED
      BY <1>5, <2>3, <3>3 DEF Result, Asked
  <2>4. QED
    BY <2>2, <2>3
<1>6. CASE s.op = "commit"
  <2>1. deployed.program = "sqlite"
    BY <1>1, <1>6, UsesOf DEF Uses
  <2>2. Len(SqliteSteps) >= 6
    BY SqliteLength
  <2>3. Done >= 6
    BY <1>1, <2>1, <2>2, DatabaseFile
  <2>4. ~Fresh
    BY <2>1, <2>3, SchemaParts DEF StartInv, Progress, Fresh
  <2>5. QED
    BY <1>6, <2>4 DEF Result
<1>7. QED
  BY <1>4, <1>5, <1>6

\* A start of a configured container rewrites none of its files to anything
\* else: no parameter, rule, placeholder or blank line is added, however often
\* it is started.
THEOREM StableFiles == Spec => []Stable
<1>1. StartInv => Stable
  <2> SUFFICES ASSUME StartInv, phase = "running", NEW i \in DOMAIN Steps(deployed.program),
                      Steps(deployed.program)[i].op \in Solo \cup {"remove_lines", "commit"}
               PROVE  Result(Steps(deployed.program)[i], files[Steps(deployed.program)[i].file]) =
                        files[Steps(deployed.program)[i].file]
    BY DEF Stable, Solo
  <2>1. QED
    BY StableStep
<1>2. QED
  BY <1>1, StartedAnew, PTL

\* Without variables there are no rules.
LEMMA NothingCollected ==
  ASSUME NEW d \in Deployments, NEW params
  PROVE  Collected(d.variables, params) = <<>> <=> Indexed(d.variables, params) = {}
<1> DEFINE found == Indexed(d.variables, params)
           n == Cardinality(found)
           V(i) == CHOOSE v \in found : v[2] = i - 1
<1>1. Collected(d.variables, params) = [i \in 1..n |-> ActiveLine(V(i)[1], V(i)[2])]
  BY Zenon DEF Collected
<1>2. IsFiniteSet(found)
  <2>1. IsFiniteSet(d.variables)
    BY DeploymentAssumption, Zenon
  <2>2. found \subseteq d.variables
    BY DEF Indexed, OfPrefixes
  <2>3. QED
    BY <2>1, <2>2, FS_Subset
<1>3. n \in Nat /\ (n = 0 <=> found = {})
  BY <1>2, FS_CardinalityType, FS_EmptySet
<1> HIDE DEF found, n, V
<1>4. PICK F : F = [i \in 1..n |-> ActiveLine(V(i)[1], V(i)[2])]
  OBVIOUS
<1>5. DOMAIN F = 1..n
  BY <1>4, Zenon
<1>6. n = 0 => F = <<>>
  <2> SUFFICES ASSUME n = 0 PROVE F = <<>>
    OBVIOUS
  <2>1. DOMAIN F = {}
    BY <1>5
  <2>2. F = [i \in DOMAIN F |-> F[i]]
    BY <1>4, Zenon
  <2>3. QED
    BY <2>1, <2>2
<1>7. F = <<>> => n = 0
  <2> SUFFICES ASSUME F = <<>> PROVE n = 0
    OBVIOUS
  <2>1. 1..n = {}
    BY <1>5
  <2>2. QED
    BY <1>3, <2>1
<1>8. Collected(d.variables, params) = <<>> <=> found = {}
  BY <1>1, <1>3, <1>4, <1>6, <1>7
<1>9. QED
  BY <1>8 DEF found

LEMMA IntendedSolo ==
  ASSUME NEW s, s.op \in Solo, NEW before, NEW after,
         IntendedOf(deployed, s, before, after)
  PROVE  Intended(s, before, after)
<1>1. CASE s.op = "merge"
  BY <1>1 DEF Intended, IntendedOf
<1>2. CASE s.op = "indexed"
  BY <1>2 DEF Intended, IntendedOf, Rules
<1>3. CASE s.op = "set"
  BY <1>3 DEF Intended, IntendedOf
<1>4. CASE s.op = "rules"
  BY <1>4 DEF Intended, IntendedOf, Rules
<1>5. CASE s.op = "append"
  BY <1>5 DEF Intended, IntendedOf, Asked
<1>6. CASE s.op = "replace_in"
  BY <1>6 DEF Intended, IntendedOf
<1>7. QED
  BY <1>1, <1>2, <1>3, <1>4, <1>5, <1>6 DEF Solo

LEMMA LinkIntended ==
  ASSUME StartInv, phase = "running", NEW i \in DOMAIN Steps(deployed.program),
         NEW s, s = Steps(deployed.program)[i], s.op = "link"
  PROVE  files[s.file] = IF Asked(s) THEN <<Link(s.file)>> ELSE LinkTarget(deployed, s, base[s.file])
<1>1. /\ deployed.program \in Programs /\ Steps(deployed.program)[i].op = "link"
      /\ \A j \in DOMAIN Steps(deployed.program) : j <= Done
  BY AllBehind
<1>2. PICK steps : steps = Steps(deployed.program)
  OBVIOUS
<1>3. PICK u \in DOMAIN steps : LinkOf(steps, u, i)
  BY <1>1, <1>2, LinkSteps
<1>4. LinkState(deployed, s, base[s.file], files[s.file], u <= Done, i <= Done,
                Withdrawn(steps, s.file, Done))
  BY <1>2, <1>3, Zenon DEF StartInv, Progress, Symlinks
<1>5. CASE Asked(s)
  BY <1>1, <1>4, <1>5 DEF LinkState, Asked
<1>6. CASE ~Asked(s) /\ "certs" \in s.params
  <2>1. PICK k \in DOMAIN steps : steps[k].op = "withdraw" /\ steps[k].file = s.file
    BY <1>2, <1>3, <1>6, Zenon DEF LinkOf
  <2>2. Withdrawn(steps, s.file, Done)
    BY <1>1, <1>2, <2>1 DEF Withdrawn
  <2>3. QED
    BY <1>4, <1>6, <2>2 DEF LinkState, Asked
<1>7. CASE ~Asked(s) /\ "certs" \notin s.params
  BY <1>4, <1>7 DEF LinkState, LinkTarget, Asked
<1>8. QED
  BY <1>5, <1>6, <1>7

LEMMA ReplaceIntended ==
  ASSUME StartInv, phase = "running", NEW i \in DOMAIN Steps(deployed.program),
         NEW s, s = Steps(deployed.program)[i], s.op = "replace"
  PROVE  Intended(s, base[s.file], files[s.file])
<1>1. /\ deployed \in Deployments /\ deployed.program \in Programs
      /\ Done = Len(Steps(deployed.program)) /\ i <= Done
  BY AllBehind
<1>2. deployed.program = "mcp" /\ Steps(deployed.program) = McpSteps
  <2>1. deployed.program = "mcp"
    BY <1>1, UsesOf DEF Uses
  <2>2. QED
    BY <2>1 DEF Steps
<1>3. Done = 3
  <2>1. Len(McpSteps) = 3
    BY DEF McpSteps
  <2>2. QED
    BY <1>1, <1>2, <2>1
<1>4. i = 3 /\ s = McpSteps[3] /\ s.file = "tool_access"
  <2>1. McpOps(i)
    BY <1>2, McpTable, Zenon
  <2>2. i = 3
    BY <1>2, <2>1 DEF McpOps
  <2>3. McpSteps[3].file = "tool_access"
    BY DEF McpSteps, Step
  <2>4. QED
    BY <1>2, <2>2, <2>3
<1>5. files[s.file] = Replaced(deployed, s, files["template"])
  BY <1>2, <1>3, <1>4 DEF StartInv, Progress, ToolAccess
<1>6. PICK template \in Seq(Lines(Names)) : template = files["template"]
  <2>1. "template" \in DOMAIN deployed.shipped
    BY <1>1, <1>2, DeploymentAssumption, Zenon
  <2>2. QED
    BY <2>1 DEF StartInv, FilesTyped
<1>7. Numbered(Names, s.params, Collected(deployed.variables, s.params))
  <2>1. Valid(s)
    BY <1>1 DEF StartInv, Checked, Writing
  <2>2. IsFiniteSet(deployed.variables) /\ deployed.variables \subseteq Names \X Int \X BOOLEAN
    BY <1>1, DeploymentAssumption, Zenon
  <2>3. Collectable(deployed.variables, s.params, s.op \in {"rules", "open"})
    BY <2>1 DEF Valid
  <2>4. QED
    BY <2>2, <2>3, CollectedIs
<1>8. PICK rules \in Seq(Lines(Names)) :
        rules = Collected(deployed.variables, s.params) /\ Range(rules) \subseteq Assigning(s.params)
  BY <1>7, Zenon DEF Numbered
<1>9. ReplacesEnd(Names, template, s.params, rules)
  BY <1>8, BlankLine, ReplaceAtEndIs
<1>10. Indexed(deployed.variables, s.params) = {} <=> rules = <<>>
  BY <1>1, <1>8, NothingCollected
<1>11. PICK after : after = files[s.file]
  OBVIOUS
<1>12. after = IF rules = <<>> THEN template ELSE ReplaceAtEnd(template, s.params, rules)
  BY <1>5, <1>6, <1>8, <1>10, <1>11 DEF Replaced, Rules
<1>13. /\ Settings(after, s.params) = IF rules = <<>> THEN Settings(template, s.params) ELSE rules
       /\ OthersAny(after, s.params) = OthersAny(template, s.params)
  BY <1>9, <1>12 DEF ReplacesEnd
<1>14. QED
  BY <1>6, <1>8, <1>11, <1>13 DEF Intended

\* Every file is what its steps ask for.
LEMMA FilesIntended ==
  ASSUME StartInv, phase = "running", NEW i \in DOMAIN Steps(deployed.program),
         NEW s, s = Steps(deployed.program)[i], s.file # ""
  PROVE  Intended(s, base[s.file], files[s.file])
<1>1. /\ deployed \in Deployments /\ deployed.program \in Programs /\ i <= Done
      /\ Done = Len(Steps(deployed.program))
      /\ \A j \in DOMAIN Steps(deployed.program) : j <= Done
  BY AllBehind
<1>2. CASE s.op \in Solo
  <2>1. s.file \in DOMAIN deployed.shipped
    BY <1>1, <1>2, FileOfStep DEF Writing, Solo
  <2>2. PICK before \in Seq(Lines(Names)) : before = base[s.file]
    BY <2>1 DEF StartInv, FilesTyped
  <2>3. SoloState(deployed, s, base[s.file], files[s.file], i <= Done)
    BY Zenon DEF StartInv, Progress, Solos
  <2>4. Usable(deployed, s) /\ files[s.file] = Made(deployed, s, before)
    BY <1>1, <1>2, <2>2, <2>3 DEF SoloState
  <2>5. IntendedOf(deployed, s, before, Made(deployed, s, before))
    BY <1>1, <1>2, <2>4, StepOfProgram, MadeIs DEF MadeRight
  <2>6. QED
    BY <1>2, <2>2, <2>4, <2>5, IntendedSolo
<1>3. CASE s.op = "fill"
  <2>1. PICK steps : steps = Steps(deployed.program)
    OBVIOUS
  <2>2. PICK j \in DOMAIN steps : FillOf(steps, j, i)
    BY <1>1, <1>3, <2>1, FillSteps
  <2>3. FillState(deployed, s, files[s.file], j <= Done, i <= Done)
    BY <2>1, <2>2, Zenon DEF StartInv, Progress, Includes
  <2>4. QED
    BY <1>1, <1>3, <2>3 DEF FillState, Intended, Asked
<1>4. CASE s.op = "link"
  <2>1. files[s.file] = IF Asked(s) THEN <<Link(s.file)>> ELSE LinkTarget(deployed, s, base[s.file])
    BY <1>4, LinkIntended
  <2>2. QED
    BY <1>4, <2>1 DEF LinkTarget, Intended
<1>5. CASE s.op = "replace"
  BY <1>5, ReplaceIntended
<1>6. CASE s.op = "remove_lines"
  <2>1. s.file \in DOMAIN deployed.shipped
    BY <1>1, <1>6, FileOfStep DEF Writing
  <2>2. PICK before \in Seq(Lines(Names)) : before = base[s.file]
    BY <2>1 DEF StartInv, FilesTyped
  <2>3. files[s.file] = RemoveLinesContaining(before, Unset)
    BY <1>6, <2>2, AllRemoved DEF Unset, UnsetOf
  <2>4. \A j \in DOMAIN before :
          Contains(RemoveLinesContaining(before, Unset), before[j]) <=> before[j][2] \notin Unset
    BY RemovedIs
  <2>5. QED
    BY <1>6, <2>2, <2>3, <2>4 DEF Intended
<1>7. CASE s.op = "commit"
  <2>1. deployed.program = "sqlite"
    BY <1>1, <1>7, UsesOf DEF Uses
  <2>2. Len(SqliteSteps) >= 6
    BY SqliteLength
  <2>3. Done >= 6
    BY <1>1, <2>1, <2>2, DatabaseFile
  <2>4. SchemaKept(base["db"], files["db"]) /\ Contains(files["db"], VersionTable)
    BY <2>1, <2>3, SchemaParts DEF StartInv, Progress
  <2>5. s.file = "db"
    <3>1. SqliteOps(i) /\ Steps(deployed.program) = SqliteSteps
      BY <1>1, <2>1, DatabaseFile, SqliteTable, Zenon
    <3>2. i = 6
      BY <1>7, <3>1 DEF SqliteOps
    <3>3. SqliteSteps[6].file = "db"
      BY DEF SqliteSteps, Step
    <3>4. QED
      BY <3>1, <3>2, <3>3
  <2>6. files[s.file] = IF Contains(base[s.file], VersionTable) THEN base[s.file] ELSE base[s.file] \o Schema
    BY <2>4, <2>5 DEF SchemaKept
  <2>7. QED
    BY <1>7, <2>6 DEF Intended
<1>8. CASE s.op \notin Solo \cup {"fill", "link", "replace", "remove_lines", "commit"}
  BY <1>8 DEF Intended, Solo
<1>9. QED
  BY <1>2, <1>3, <1>4, <1>5, <1>6, <1>7, <1>8

\* The service finds its storage providers, for the server and the frontend.
LEMMA ProvidersIntended ==
  ASSUME StartInv, phase = "running", NEW i \in DOMAIN Steps(deployed.program),
         NEW s, s = Steps(deployed.program)[i], s.op = "providers"
  PROVE  IntendedProviders(OnlyParam(s))
<1>1. deployed \in Deployments /\ i <= Done
  BY AllBehind
<1>2. Valid(s)
  BY <1>1, Zenon DEF StartInv, Checked
<1> DEFINE param == OnlyParam(s)
           providers == deployed.providers
<1>3. Convertible(param)
  BY <1>2, Zenon DEF Valid
<1>4. /\ \A p \in providers : WellFormed(p, Names)
      /\ \A p, q \in providers : p.param = q.param /\ p.index = q.index => p = q
  BY <1>1, ProviderAssumption, Zenon
<1>5. IsFiniteSet(deployed.variables)
  BY <1>1, DeploymentAssumption, Zenon
<1> HIDE DEF param, providers
<1>6. CASE OnFrontend
  <2>1. WebAccepted(deployed.variables, providers, param)
    BY <1>3, <1>6 DEF Convertible, providers
  <2>2. WebIntended(providers, param, OnWeb(providers, param))
    BY <2>1, <1>4, <1>5, FrontendFindsProviders
  <2>3. QED
    BY <2>2, <1>6 DEF IntendedProviders, Converted, providers, param
<1>7. CASE ~OnFrontend
  <2>1. NativeAccepted(deployed.variables, providers, param)
    BY <1>3, <1>7 DEF Convertible, providers
  <2>2. NativeIntended(providers, param, Native(providers, param))
    BY <2>1, <1>4, ServerFindsProviders
  <2>3. QED
    BY <2>2, <1>7 DEF IntendedProviders, Converted, providers, param
<1>8. QED
  BY <1>6, <1>7

\* Whatever starts have failed or have been killed half-way, and whatever the
\* container was deployed with before: a service that runs reads the parameters
\* its environment asks for next to all the lines of the user, and finds its
\* storage providers with every option and credential that was given.
THEOREM ConfiguredAnew == Spec => []Configured
<1>1. StartInv => Configured
  <2> SUFFICES ASSUME StartInv, phase = "running", NEW i \in DOMAIN Steps(deployed.program)
               PROVE  LET s == Steps(deployed.program)[i]
                      IN /\ s.file # "" => Intended(s, base[s.file], files[s.file])
                         /\ s.op = "providers" => IntendedProviders(OnlyParam(s))
    BY Zenon DEF Configured
  <2> DEFINE s == Steps(deployed.program)[i]
  <2>1. s.file # "" => Intended(s, base[s.file], files[s.file])
    BY FilesIntended
  <2>2. s.op = "providers" => IntendedProviders(OnlyParam(s))
    BY ProvidersIntended
  <2>3. QED
    BY <2>1, <2>2
<1>2. QED
  BY <1>1, StartedAnew, PTL
=============================================================================
