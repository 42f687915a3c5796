---------------------------- MODULE StringsProofs ----------------------------
(***************************************************************************)
(* Theorems about the text modules of the core library (Strings).          *)
(*                                                                         *)
(* Strings own their blocks (EachBlockOwned), touch no others              *)
(* (StaysInMemory), keep the views over them readable (ViewsSurvive) and   *)
(* implement StrSpec (ImplementsText).  StrInv carries this: blocks are as *)
(* long as strings and the view believe, and disjoint.  It holds between   *)
(* calls; Fine is its counterpart within one, and Does what one part of a  *)
(* call leaves for the next.                                               *)
(*                                                                         *)
(* The command line parser shows what options were given (ParsesArgs):     *)
(* CliInv says what the cells of an option hold after any sequence of      *)
(* values copied over one another.                                         *)
(*                                                                         *)
(* A view stays in its text, is cut in two by a chop, put back by an       *)
(* unchop, and taken apart at a delimiter without loss (CutsText,          *)
(* UnchopUndoes).  ViewInv says how the view was got from the one before *)
(* the last call; SplitInv counts the pieces of a text against its         *)
(* delimiters, half way as well as at the end.  Views compare as their     *)
(* characters do and hold the number they begin with (ReadsAsText): digit  *)
(* by digit, what is parsed is Like the number, modulo 2^64.               *)
(***************************************************************************)
EXTENDS Strings, SequenceTheorems, FiniteSetTheorems, WellFoundedInduction, TLAPS

-----------------------------------------------------------------------------
(* Sequences by their elements. *)

\* A sequence of n elements, whatever they are.
Sized(s, n) == n \in Nat /\ s = [k \in 1 .. n |-> s[k]]

\* A sequence is as long as it says.
LEMMA SizedSeq ==
  ASSUME NEW S, NEW s \in Seq(S)
  PROVE  Sized(s, Len(s))
<1>1. Len(s) \in Nat /\ s = [k \in 1 .. Len(s) |-> s[k]] OBVIOUS
<1> QED BY <1>1 DEF Sized

\* Length and domain of a sized sequence, and what it is a sequence of.
LEMMA SizedIs ==
  ASSUME NEW n, NEW s, Sized(s, n)
  PROVE  n \in Nat /\ DOMAIN s = 1 .. n /\ Len(s) = n
         /\ \A S : (\A k \in 1 .. n : s[k] \in S) => s \in Seq(S)
<1>1. n \in Nat /\ s = [k \in 1 .. n |-> s[k]] BY DEF Sized
<1>2. ASSUME NEW S, \A k \in 1 .. n : s[k] \in S PROVE s \in Seq(S) /\ Len(s) = n
  <2>1. s \in [1 .. n -> S] BY <1>1, <1>2
  <2> QED BY <1>1, <2>1
<1>3. \A k \in 1 .. n : s[k] \in {s[j] : j \in 1 .. n} OBVIOUS
<1>4. Len(s) = n BY <1>2, <1>3
<1>5. DOMAIN s = 1 .. n BY <1>1
<1> QED BY <1>1, <1>2, <1>4, <1>5

\* Sequences with the same elements are the same.
LEMMA SizedSame ==
  ASSUME NEW n, NEW s, NEW t, Sized(s, n), Sized(t, n), \A k \in 1 .. n : s[k] = t[k]
  PROVE  s = t
<1>1. s = [k \in 1 .. n |-> s[k]] /\ t = [k \in 1 .. n |-> t[k]] BY DEF Sized
<1>2. [k \in 1 .. n |-> s[k]] = [k \in 1 .. n |-> t[k]] OBVIOUS
<1> QED BY <1>1, <1>2

\* What stands between two places of a sequence; and two behind one another.
Part(s, a, b) == SubSeq(s, a + 1, b)
Join(s, t)    == s \o t

\* What stands between two places, element by element.
LEMMA SizedPart ==
  ASSUME NEW n, NEW s, Sized(s, n), NEW a \in Nat, NEW b \in Nat, a <= b, b <= n
  PROVE  Sized(Part(s, a, b), b - a) /\ \A k \in 1 .. b - a : Part(s, a, b)[k] = s[a + k]
<1> PICK S : S = {s[k] : k \in 1 .. n} OBVIOUS
<1> PICK i : i = a + 1 OBVIOUS
<1>1. n \in Nat BY SizedIs
<1>2. i \in Int /\ b \in Int /\ b - i + 1 = b - a /\ b - a \in Nat
      /\ \A k \in 1 .. b - a : i + k - 1 = a + k
  OBVIOUS
<1>3. \A k \in i .. b : s[k] \in S BY <1>1
<1> PICK p : p = SubSeq(s, i, b) OBVIOUS
<1>4. p \in Seq(S) /\ \A k \in 1 .. b - a : p[k] = s[a + k]
  BY <1>2, <1>3, SubSeqProperties
<1>5. Len(p) = IF i <= b THEN b - i + 1 ELSE 0
  BY <1>2, <1>3, SubSeqProperties
<1>6. Len(p) = b - a BY <1>2, <1>5
<1>7. Sized(p, Len(p)) BY <1>4, SizedSeq
<1> QED BY <1>4, <1>6, <1>7 DEF Part

\* The beginning of a sequence, element by element.
LEMMA SizedTake ==
  ASSUME NEW n, NEW s, Sized(s, n), NEW b \in Nat, b <= n
  PROVE  Sized(Take(s, b), b) /\ \A k \in 1 .. b : Take(s, b)[k] = s[k]
<1> PICK z : z = 0 OBVIOUS
<1>1. z \in Nat /\ z <= b /\ z + 1 = 1 /\ b - z = b OBVIOUS
<1>2. Sized(Part(s, z, b), b - z) /\ \A k \in 1 .. b - z : Part(s, z, b)[k] = s[z + k]
  BY <1>1, SizedPart
<1>3. \A k \in 1 .. b : z + k = k OBVIOUS
<1>4. Part(s, z, b) = Take(s, b) BY <1>1 DEF Part, Take
<1> QED BY <1>1, <1>2, <1>3, <1>4

\* Two sequences behind one another, element by element.
LEMMA SizedJoin ==
  ASSUME NEW m, NEW s, Sized(s, m), NEW n, NEW t, Sized(t, n)
  PROVE  Sized(Join(s, t), m + n)
         /\ (\A k \in 1 .. m : Join(s, t)[k] = s[k])
         /\ (\A k \in 1 .. n : Join(s, t)[m + k] = t[k])
<1> PICK S : S = {s[k] : k \in 1 .. m} \union {t[k] : k \in 1 .. n} OBVIOUS
<1>1. m \in Nat /\ Len(s) = m /\ s \in Seq(S)
  <2>1. \A k \in 1 .. m : s[k] \in S OBVIOUS
  <2> QED BY <2>1, SizedIs
<1>2. n \in Nat /\ Len(t) = n /\ t \in Seq(S)
  <2>1. \A k \in 1 .. n : t[k] \in S OBVIOUS
  <2> QED BY <2>1, SizedIs
<1> PICK p : p = s \o t OBVIOUS
<1>3. p \in Seq(S) /\ Len(p) = m + n
      /\ \A k \in 1 .. m + n : p[k] = IF k <= m THEN s[k] ELSE t[k - m]
  <2>1. s \in Seq(S) /\ t \in Seq(S) BY <1>1, <1>2
  <2>2. /\ p \in Seq(S) /\ Len(p) = Len(s) + Len(t)
        /\ \A k \in 1 .. Len(s) + Len(t) : p[k] = IF k <= Len(s) THEN s[k] ELSE t[k - Len(s)]
    BY <2>1, ConcatProperties, ZenonT(30)
  <2> QED BY <1>1, <1>2, <2>2
<1>4. \A k \in 1 .. m : p[k] = s[k] BY <1>1, <1>2, <1>3
<1>5. ASSUME NEW k \in 1 .. n PROVE p[m + k] = t[k]
  <2>1. m + k \in 1 .. m + n /\ ~(m + k <= m) /\ (m + k) - m = k BY <1>1, <1>2
  <2> QED BY <1>3, <2>1
<1>6. Sized(p, Len(p)) BY <1>3, SizedSeq
<1> QED BY <1>3, <1>4, <1>5, <1>6 DEF Join

-----------------------------------------------------------------------------
(* The least and the greatest of a set, and what is defined step by step. *)

\* A set of natural numbers has a least element.
LEMMA LeastOf ==
  ASSUME NEW S, S \subseteq Nat, S # {}
  PROVE  \E m \in S : \A y \in S : m <= y
<1>1. PICK m \in S : \A y \in S : ~(<<y, m>> \in OpToRel(<, Nat))
  BY NatLessThanWellFounded, WFMin
<1>2. ASSUME NEW y \in S PROVE m <= y
  <2>1. y \in Nat /\ m \in Nat OBVIOUS
  <2>2. y < m => <<y, m>> \in OpToRel(<, Nat) BY <2>1, Zenon DEF OpToRel
  <2>3. ~(y < m) BY <1>1, <2>2
  <2> QED BY <2>1, <2>3
<1> QED BY <1>2

\* A bounded set of natural numbers has a greatest element.
LEMMA GreatestOf ==
  ASSUME NEW n \in Nat, NEW S, S \subseteq 0 .. n, S # {}
  PROVE  \E m \in S : \A y \in S : y <= m
<1> DEFINE T == {n - y : y \in S}
<1>1. T \subseteq Nat /\ T # {}
  <2>1. \A y \in S : n - y \in Nat OBVIOUS
  <2>2. \E y \in S : n - y \in T OBVIOUS
  <2> QED BY <2>1, <2>2
<1>2. PICK t \in T : \A z \in T : t <= z
  <2> HIDE DEF T
  <2> QED BY <1>1, LeastOf
<1>3. PICK m \in S : t = n - m OBVIOUS
<1>4. ASSUME NEW y \in S PROVE y <= m
  <2>1. n - y \in T OBVIOUS
  <2>2. t <= n - y BY <1>2, <2>1
  <2> QED BY <1>3, <2>2
<1> QED BY <1>4

\* The community module's Min is the least element.
LEMMA MinIs ==
  ASSUME NEW S, S \subseteq Nat, S # {}
  PROVE  V!Min(S) \in S /\ \A y \in S : V!Min(S) <= y
<1>1. \E m \in S : \A y \in S : m <= y BY LeastOf
<1> QED BY <1>1, Zenon DEF V!Min

\* And its Max the greatest.
LEMMA MaxIs ==
  ASSUME NEW n \in Nat, NEW S, S \subseteq 0 .. n, S # {}
  PROVE  V!Max(S) \in S /\ \A y \in S : y <= V!Max(S)
<1>1. \E m \in S : \A y \in S : y <= m BY GreatestOf
<1>2. \E m \in S : \A y \in S : m >= y BY <1>1
<1>3. V!Max(S) \in S /\ \A y \in S : V!Max(S) >= y BY <1>2, Zenon DEF V!Max
<1> QED BY <1>3

\* Induction, as a statement about a set of numbers.
LEMMA NatSet ==
  ASSUME NEW S, 0 \in S, \A n \in Nat : n \in S => n + 1 \in S
  PROVE  Nat \subseteq S
<1> SUFFICES ASSUME Nat \ S # {} PROVE FALSE OBVIOUS
<1>1. PICK m \in Nat \ S : \A y \in Nat \ S : m <= y
  <2>1. Nat \ S \subseteq Nat OBVIOUS
  <2> QED BY <2>1, LeastOf
<1>2. m # 0 /\ m - 1 \in Nat /\ ~(m <= m - 1) OBVIOUS
<1>3. m - 1 \in S BY <1>1, <1>2
<1>4. (m - 1) + 1 = m OBVIOUS
<1> QED BY <1>2, <1>3, <1>4

\* A function can be defined step by step.
Stepped(f, n, R, b, step) ==
  f \in [0 .. n -> R] /\ f[0] = b /\ \A k \in 1 .. n : f[k] = step[<<k, f[k - 1]>>]

\* A value for every number up to n, each got from the one before it.
LEMMA StepByStep ==
  ASSUME NEW R, NEW b \in R, NEW n \in Nat, NEW step \in [Nat \X R -> R]
  PROVE  \E f : Stepped(f, n, R, b, step)
<1> DEFINE Upto(f, m) == f \in [0 .. m -> R] /\ f[0] = b
                           /\ \A k \in 1 .. m : f[k] = step[<<k, f[k - 1]>>]
           S == {m \in Nat : \E f : Upto(f, m)}
<1>1. 0 \in S
  <2>1. Upto([k \in 0 .. 0 |-> b], 0) OBVIOUS
  <2> QED BY <2>1
<1>2. ASSUME NEW m \in Nat, m \in S PROVE m + 1 \in S
  <2>1. PICK f : Upto(f, m) BY <1>2
  <2> DEFINE g == [k \in 0 .. m + 1 |-> IF k = m + 1 THEN step[<<m + 1, f[m]>>] ELSE f[k]]
  <2>2. f[m] \in R /\ <<m + 1, f[m]>> \in Nat \X R BY <2>1
  <2>3. step[<<m + 1, f[m]>>] \in R BY <2>2
  <2>4. \A k \in 0 .. m + 1 : k = m + 1 \/ k \in 0 .. m OBVIOUS
  <2>5. \A k \in 0 .. m + 1 : g[k] = IF k = m + 1 THEN step[<<m + 1, f[m]>>] ELSE f[k]
    OBVIOUS
  <2>6. g \in [0 .. m + 1 -> R] BY <2>1, <2>3, <2>4
  <2> HIDE DEF g
  <2>7. g[0] = b BY <2>1, <2>5
  <2>8. ASSUME NEW k \in 1 .. m + 1 PROVE g[k] = step[<<k, g[k - 1]>>]
    <3>1. k - 1 \in 0 .. m /\ g[k - 1] = f[k - 1] BY <2>5
    <3>2. CASE k = m + 1
      <4>1. k - 1 = m BY <3>2
      <4> QED BY <2>5, <3>1, <3>2, <4>1
    <3>3. CASE k # m + 1
      <4>1. k \in 1 .. m BY <3>3
      <4> QED BY <2>1, <2>5, <3>1, <3>3, <4>1
    <3> QED BY <3>2, <3>3
  <2>9. Upto(g, m + 1) BY <2>6, <2>7, <2>8
  <2> HIDE DEF Upto
  <2> QED BY <2>9
<1>3. n \in S
  <2> HIDE DEF S
  <2> QED BY <1>1, <1>2, NatSet
<1>4. PICK f : Upto(f, n) BY <1>3
<1>5. Stepped(f, n, R, b, step) BY <1>4 DEF Stepped
<1> QED BY <1>5

-----------------------------------------------------------------------------
(* The command line parser. *)

\* The texts on the command line, and those the client or the code has for options.
CliText == Values \union {True, <<>>} \union {Default[o] : o \in C!Options}

\* The texts an option can be given fit into it, with the end behind them.
LEMMA CliTexts ==
  ASSUME NEW t \in CliText
  PROVE  /\ t \in Seq(Range(t)) /\ Len(t) \in Nat /\ Len(t) < ArgLen
         /\ ArgLen \in Nat
         /\ \A k \in 1 .. Len(t) : t[k] # End
<1>1. C!CliConstants BY StringsConstants
<1>2. ArgLen \in Nat BY <1>1 DEF C!CliConstants
<1>3. t \in Seq(C!Range(t)) /\ Len(t) < ArgLen /\ ~C!Contains(t, End)
  <2>1. CASE t # <<>> BY <1>1, <2>1, Zenon DEF C!CliConstants, CliText
  <2>2. CASE t = <<>>
    <3>1. True \in Seq(C!Range(True)) /\ Len(True) < ArgLen
      BY <1>1, Zenon DEF C!CliConstants
    <3>2. Len(True) \in Nat BY <3>1
    <3>3. Len(t) < ArgLen BY <1>2, <2>2, <3>1, <3>2
    <3>4. t \in Seq(C!Range(t)) /\ ~C!Contains(t, End) BY <2>2 DEF C!Contains
    <3> QED BY <3>3, <3>4
  <2> QED BY <2>1, <2>2
<1>4. C!Range(t) = Range(t) BY Zenon DEF C!Range, Range
<1>5. \A k \in 1 .. Len(t) : t[k] # End BY <1>3 DEF C!Contains
<1> QED BY <1>2, <1>3, <1>4, <1>5

\* The array of an option shows the text it was given last, and is NUL from
\* where no text given reached.
ShowsGiven(cells, texts) ==
  /\ Sized(cells, ArgLen)
  /\ texts \in Seq(CliText) /\ Len(texts) > 0
  /\ \A j \in 1 .. Len(texts[Len(texts)]) : cells[j] = texts[Len(texts)][j]
  /\ \A j \in 1 .. ArgLen : cells[j] = End <=> \A k \in 1 .. Len(texts) : Len(texts[k]) < j

\* An option shows its default before anything is given.
LEMMA ShowsDefault ==
  ASSUME NEW d \in CliText
  PROVE  ShowsGiven(d \o [k \in 1 .. ArgLen - Len(d) |-> End], <<d>>)
<1> DEFINE blanks == [k \in 1 .. ArgLen - Len(d) |-> End]
           cells  == d \o blanks
<1>1. /\ d \in Seq(Range(d)) /\ Len(d) \in Nat /\ Len(d) < ArgLen /\ ArgLen \in Nat
      /\ \A k \in 1 .. Len(d) : d[k] # End
  BY CliTexts
<1>2. blanks \in Seq({End}) /\ Len(blanks) = ArgLen - Len(d)
      /\ \A k \in 1 .. ArgLen - Len(d) : blanks[k] = End
  BY <1>1
<1> HIDE DEF blanks
<1>3. /\ DOMAIN cells = 1 .. ArgLen /\ cells \in Seq(Range(d) \union {End})
      /\ \A k \in 1 .. ArgLen : cells[k] = IF k <= Len(d) THEN d[k] ELSE blanks[k - Len(d)]
  BY <1>1, <1>2
<1>3a. Sized(cells, ArgLen)
  <2>1. Sized(d, Len(d)) /\ Sized(blanks, Len(blanks)) BY <1>1, <1>2, SizedSeq
  <2>2. Sized(cells, Len(d) + Len(blanks)) BY <2>1, SizedJoin DEF cells, Join
  <2> QED BY <1>1, <1>2, <2>2
<1> HIDE DEF cells
<1>4. <<d>> \in Seq(CliText) /\ Len(<<d>>) = 1 /\ <<d>>[1] = d OBVIOUS
<1>5. ASSUME NEW j \in 1 .. ArgLen PROVE cells[j] = End <=> Len(d) < j
  <2>1. CASE j <= Len(d) BY <1>1, <1>3, <2>1
  <2>2. CASE ~(j <= Len(d)) 
    <3>1. j - Len(d) \in 1 .. ArgLen - Len(d) BY <1>1, <2>2
    <3> QED BY <1>1, <1>2, <1>3, <2>2, <3>1
  <2> QED BY <2>1, <2>2
<1>6. \A j \in 1 .. Len(d) : cells[j] = d[j] BY <1>1, <1>3
<1> HIDE DEF cells
<1>7. ShowsGiven(cells, <<d>>) BY <1>1, <1>3, <1>3a, <1>4, <1>5, <1>6 DEF ShowsGiven
<1> QED BY <1>7 DEF cells, blanks

\* Copying a text over the cells of an option, with the end behind it.
LEMMA ShowsNext ==
  ASSUME NEW cells, NEW texts, ShowsGiven(cells, texts), NEW t \in CliText
  PROVE  ShowsGiven([k \in DOMAIN cells |-> IF k <= Len(t) THEN t[k] ELSE cells[k]],
                    Append(texts, t))
<1> DEFINE now  == [k \in DOMAIN cells |-> IF k <= Len(t) THEN t[k] ELSE cells[k]]
           more == Append(texts, t)
           n    == Len(texts)
<1>1. /\ Len(t) \in Nat /\ Len(t) < ArgLen /\ ArgLen \in Nat
      /\ \A k \in 1 .. Len(t) : t[k] # End
  BY CliTexts
<1>2. /\ DOMAIN cells = 1 .. ArgLen /\ texts \in Seq(CliText) /\ n \in Nat /\ n > 0
      /\ \A j \in 1 .. ArgLen : cells[j] = End <=> \A k \in 1 .. n : Len(texts[k]) < j
  BY SizedIs DEF ShowsGiven
<1>3. /\ more \in Seq(CliText) /\ Len(more) = n + 1 /\ more[n + 1] = t
      /\ \A k \in 1 .. n : more[k] = texts[k]
  BY <1>2
<1>4. DOMAIN now = 1 .. ArgLen
      /\ \A j \in 1 .. ArgLen : now[j] = IF j <= Len(t) THEN t[j] ELSE cells[j]
  BY <1>2
<1>4a. Sized(now, ArgLen)
  <2>1. now = [k \in 1 .. ArgLen |-> IF k <= Len(t) THEN t[k] ELSE cells[k]] BY <1>2
  <2>2. now = [k \in 1 .. ArgLen |-> now[k]] BY <2>1
  <2> QED BY <1>1, <2>2 DEF Sized
<1> HIDE DEF now, more, n
<1>5. ASSUME NEW j \in 1 .. ArgLen
      PROVE  now[j] = End <=> \A k \in 1 .. n + 1 : Len(more[k]) < j
  <2>1. CASE j <= Len(t)
    <3>1. now[j] # End BY <1>1, <1>4, <2>1
    <3>2. n + 1 \in 1 .. n + 1 /\ ~(Len(more[n + 1]) < j) BY <1>1, <1>2, <1>3, <2>1
    <3> QED BY <3>1, <3>2
  <2>2. CASE ~(j <= Len(t))
    <3>1. now[j] = End <=> \A k \in 1 .. n : Len(texts[k]) < j BY <1>2, <1>4, <2>2
    <3>2. Len(more[n + 1]) < j BY <1>1, <1>3, <2>2
    <3>3. \A k \in 1 .. n + 1 : k = n + 1 \/ k \in 1 .. n BY <1>2
    <3>4. \A k \in 1 .. n : k \in 1 .. n + 1 BY <1>2
    <3> QED BY <1>3, <3>1, <3>2, <3>3, <3>4
  <2> QED BY <2>1, <2>2
<1>6. \A j \in 1 .. Len(t) : now[j] = t[j] BY <1>1, <1>4
<1>7. ShowsGiven(now, more)
  BY <1>2, <1>3, <1>4, <1>4a, <1>5, <1>6 DEF ShowsGiven, n
<1> QED BY <1>7 DEF now, more

\* What the property says of an option follows.
LEMMA ShowsLast ==
  ASSUME NEW cells, NEW texts, ShowsGiven(cells, texts), NEW shown,
         shown = SubSeq(cells, 1, C!Min({k \in DOMAIN cells : cells[k] = End}) - 1)
  PROVE  /\ C!IsPrefix(texts[Len(texts)], shown)
         /\ (\A k \in DOMAIN texts : Len(texts[k]) <= Len(texts[Len(texts)]))
              => shown = texts[Len(texts)]
         /\ cells[1] # End <=> \E k \in DOMAIN texts : texts[k] # <<>>
<1> DEFINE n    == Len(texts)
           now  == texts[n]
           Nuls == {k \in DOMAIN cells : cells[k] = End}
<1>1. /\ DOMAIN cells = 1 .. ArgLen /\ Sized(cells, ArgLen) /\ texts \in Seq(CliText) /\ n \in Nat /\ n > 0
      /\ n \in 1 .. n /\ DOMAIN texts = 1 .. n
      /\ \A k \in 1 .. n : texts[k] \in CliText
      /\ \A j \in 1 .. Len(now) : cells[j] = now[j]
      /\ \A j \in 1 .. ArgLen : cells[j] = End <=> \A k \in 1 .. n : Len(texts[k]) < j
  BY SizedIs DEF ShowsGiven
<1>2. \A k \in 1 .. n : Len(texts[k]) \in Nat /\ Len(texts[k]) < ArgLen /\ ArgLen \in Nat
  BY <1>1, CliTexts
<1>3. now \in Seq(Range(now)) /\ Len(now) \in Nat /\ Len(now) < ArgLen /\ ArgLen \in Nat
  BY <1>1, CliTexts
<1> HIDE DEF now, n
<1>4. ArgLen \in Nuls /\ Nuls \subseteq Nat BY <1>1, <1>2, <1>3
<1>5. PICK e \in Nuls : \A y \in Nuls : e <= y BY <1>4, LeastOf
<1>6. C!Min(Nuls) = e
  <2>1. C!Min(Nuls) \in Nuls /\ \A y \in Nuls : C!Min(Nuls) <= y
    BY <1>5, Zenon DEF C!Min
  <2>2. C!Min(Nuls) \in Nat /\ e \in Nat /\ C!Min(Nuls) <= e /\ e <= C!Min(Nuls)
    BY <1>4, <1>5, <2>1
  <2> QED BY <2>2
<1>7. e \in 1 .. ArgLen /\ Len(now) < e
  BY <1>1, <1>5 DEF now
<1>d. PICK d : d = e - 1 OBVIOUS
<1>l. PICK l : l = Len(now) OBVIOUS
<1>7a. /\ e \in Nat /\ l \in Nat /\ ArgLen \in Nat /\ l <= d
       /\ d \in Nat /\ d < ArgLen /\ 1 \in 1 .. ArgLen
       /\ \A k \in 1 .. d : k \in 1 .. ArgLen
       /\ \A k \in 1 .. l : k \in 1 .. d
  <2>1. Len(now) \in Nat /\ ArgLen \in Nat /\ e \in 1 .. ArgLen /\ Len(now) < e BY <1>3, <1>7
  <2> HIDE DEF Nuls
  <2> QED BY <1>d, <1>l, <2>1
<1> HIDE DEF Nuls
<1>8. shown = Take(cells, d) BY <1>d, <1>6 DEF Nuls, Take
<1>9. Sized(shown, d) /\ \A k \in 1 .. l : shown[k] = now[k]
  <2>1. d \in Nat /\ d <= ArgLen BY <1>7a
  <2>2. Sized(shown, d) /\ \A k \in 1 .. d : shown[k] = cells[k]
    BY <1>1, <1>8, <2>1, SizedTake, Zenon
  <2>3. \A k \in 1 .. l : cells[k] = now[k] BY <1>l, <1>1
  <2> QED BY <2>2, <2>3, <1>7a
<1>9a. Sized(now, l) BY <1>l, <1>3, SizedSeq
<1>10. C!IsPrefix(now, shown)
  <2>1. PICK z : z = Take(shown, l) OBVIOUS
  <2>0. l \in Nat /\ l <= d /\ Sized(shown, d) BY <1>7a, <1>9
  <2>2. Sized(z, l) /\ \A k \in 1 .. l : z[k] = shown[k]
    BY <2>0, <2>1, SizedTake, Zenon
  <2>3. \A k \in 1 .. l : z[k] = now[k] BY <1>9, <2>2
  <2>4. z = now BY <2>2, <2>3, <1>9a, SizedSame
  <2>5. SubSeq(now, 1, Len(now)) = now BY <1>3
  <2>6. Len(now) <= Len(shown) BY <1>l, <1>7a, <1>9, SizedIs
  <2> QED BY <2>1, <2>4, <2>5, <2>6, <1>9a, <1>l, SizedIs, Zenon DEF C!IsPrefix, Take
<1>11. ASSUME \A k \in 1 .. n : Len(texts[k]) <= Len(now) PROVE shown = now
  <2>1. PICK f : f = Len(now) + 1 OBVIOUS
  <2>2. f \in 1 .. ArgLen BY <1>3, <2>1
  <2>3. \A k \in 1 .. n : Len(texts[k]) < f BY <1>1, <1>2, <1>3, <1>11, <2>1
  <2>4. cells[f] = End BY <1>1, <2>2, <2>3
  <2>5. e <= f BY <1>1, <1>5, <2>2, <2>4 DEF Nuls
  <2>6. d = l BY <1>d, <1>l, <1>3, <1>7, <2>1, <2>5
  <2> QED BY <1>9, <1>9a, <2>6, SizedSame
<1>12. cells[1] # End <=> \E k \in 1 .. n : texts[k] # <<>>
  <2>1. 1 \in 1 .. ArgLen BY <1>7a
  <2>2. cells[1] = End <=> \A k \in 1 .. n : Len(texts[k]) < 1 BY <1>1, <2>1
  <2>3. ASSUME NEW k \in 1 .. n PROVE Len(texts[k]) < 1 <=> texts[k] = <<>>
    <3>1. texts[k] \in Seq(Range(texts[k])) BY <1>1, CliTexts
    <3> QED BY <1>2, <3>1
  <2> QED BY <2>2, <2>3
<1>13. /\ C!IsPrefix(now, shown)
       /\ (\A k \in DOMAIN texts : Len(texts[k]) <= Len(now)) => shown = now
       /\ cells[1] # End <=> \E k \in DOMAIN texts : texts[k] # <<>>
  BY <1>1, <1>10, <1>11, <1>12
<1> QED BY <1>13 DEF now, n

-----------------------------------------------------------------------------
(* The command line. *)

CliInv ==
  /\ items \in Seq(C!Item)
  /\ DOMAIN value = C!Options /\ DOMAIN given = C!Options
  /\ \A o \in C!Options : ShowsGiven(value[o], given[o])
  /\ parsed_args \in Nat /\ words \in Nat
  /\ ~attached => parsed_args = words
  /\ state # "called" => (cli_err <=> state = "failed")

\* Every option begins with its default.
LEMMA CliInitially ==
  ASSUME NEW S \in SUBSET Seq(C!Item), C!InitWith(S)
  PROVE  CliInv
<1>1. \A o \in C!Options : Default[o] \in CliText BY DEF CliText
<1>2. ASSUME NEW o \in C!Options PROVE ShowsGiven(value[o], given[o])
  <2>1. /\ value[o] = Default[o] \o [k \in 1 .. ArgLen - Len(Default[o]) |-> End]
        /\ given[o] = <<Default[o]>>
    BY Zenon DEF C!InitWith
  <2> QED BY <1>1, <2>1, ShowsDefault, Zenon
<1>3. items \in Seq(C!Item) BY DEF C!InitWith
<1>4. DOMAIN value = C!Options /\ DOMAIN given = C!Options BY DEF C!InitWith
<1>5. parsed_args \in Nat /\ words \in Nat /\ parsed_args = words /\ state = "called"
  BY DEF C!InitWith
<1> QED BY <1>2, <1>3, <1>4, <1>5 DEF CliInv

\* The command lines are sequences of items.
LEMMA Commands == C!BoundedSeq(C!Item, MaxItems) \in SUBSET Seq(C!Item)
  BY StringsConstants DEF C!CliConstants, C!BoundedSeq, C!SeqOf

\* Copying a value to an option keeps what is known of the cells.
LEMMA CliTook ==
  ASSUME CliInv, items # <<>>, NEW o \in C!Options, NEW t \in CliText, NEW n \in Nat,
         C!Copy(o, t), C!Took(o, t, n), parsed_args' \in Nat,
         ~attached' => parsed_args' = words'
  PROVE  CliInv'
<1>1. ASSUME NEW q \in C!Options PROVE ShowsGiven(value'[q], given'[q])
  <2>1. ShowsGiven(value[q], given[q]) BY <1>1 DEF CliInv
  <2>2. CASE q = o
    <3>1. value'[o] = [k \in DOMAIN value[o] |-> IF k <= Len(t) THEN t[k] ELSE value[o][k]]
      BY DEF C!Copy, CliInv
    <3>2. given'[o] = Append(given[o], t) BY DEF C!Took, CliInv
    <3>3. ShowsGiven(value[o], given[o]) BY <2>1, <2>2
    <3>4. ShowsGiven([k \in DOMAIN value[o] |-> IF k <= Len(t) THEN t[k] ELSE value[o][k]],
                     Append(given[o], t))
      BY <3>3, ShowsNext
    <3> QED BY <2>2, <3>1, <3>2, <3>4, Zenon
  <2>3. CASE q # o
    <3>1. value'[q] = value[q] BY <2>3 DEF C!Copy, CliInv
    <3>2. given'[q] = given[q] BY <2>3 DEF C!Took, CliInv
    <3> QED BY <2>1, <3>1, <3>2
  <2> QED BY <2>2, <2>3
<1>2. DOMAIN value' = C!Options /\ DOMAIN given' = C!Options
  BY DEF C!Copy, C!Took, CliInv
<1>3. items' \in Seq(C!Item) BY DEF C!Took, CliInv
<1>4. words' \in Nat BY DEF C!Took, CliInv
<1>5. state' # "called" => (cli_err' <=> state' = "failed") BY DEF C!Took, CliInv
<1> QED BY <1>1, <1>2, <1>3, <1>4, <1>5 DEF CliInv

\* Every step of the parser leaves the cells as given.
LEMMA CliStep ==
  ASSUME CliInv, C!Next
  PROVE  CliInv'
<1>1. CASE C!BuildOptions BY <1>1 DEF C!BuildOptions, CliInv
<1>2. CASE state = "parsing" /\ C!Return BY <1>2 DEF C!Return, CliInv
<1>3. CASE state = "parsing" /\ C!ParseUnknown BY <1>3 DEF C!ParseUnknown, CliInv
<1>4. ASSUME items # <<>>, C!ParseValue PROVE CliInv'
  <2> PICK item : item = Head(items) OBVIOUS
  <2>1. item \in C!Item BY <1>4 DEF CliInv
  <2>2. item.option \in C!Options /\ item.text \in CliText
    BY <1>4, <2>1 DEF C!ParseValue, C!Item, C!Options, CliText
  <2>3. PICK n : n = IF item.own THEN 2 ELSE 1 OBVIOUS
  <2>4. C!Copy(item.option, item.text) /\ C!Took(item.option, item.text, n)
    BY <1>4, <2>3 DEF C!ParseValue
  <2>5. parsed_args' = parsed_args + 2 /\ attached' = (attached \/ ~item.own)
    BY <1>4 DEF C!ParseValue
  <2>6. n \in Nat /\ parsed_args' \in Nat /\ words' = words + n
    BY <2>3, <2>4, <2>5 DEF C!Took, CliInv
  <2>7. ~attached' => parsed_args' = words' BY <2>3, <2>5, <2>6 DEF CliInv
  <2> QED BY <1>4, <2>2, <2>4, <2>6, <2>7, CliTook
<1>5. ASSUME items # <<>>, C!ParseFlag PROVE CliInv'
  <2> PICK item : item = Head(items) OBVIOUS
  <2>1. item.option \in C!Options /\ True \in CliText
    BY <1>5 DEF C!ParseFlag, C!Options, CliText
  <2>2. PICK n : n = 1 OBVIOUS
  <2>3. C!Copy(item.option, True) /\ C!Took(item.option, True, n)
    BY <1>5, <2>2 DEF C!ParseFlag
  <2>4. parsed_args' = parsed_args + 1 /\ attached' = attached
    BY <1>5 DEF C!ParseFlag
  <2>5. n \in Nat /\ parsed_args' \in Nat /\ words' = words + n
    BY <2>2, <2>3, <2>4 DEF C!Took, CliInv
  <2>6. ~attached' => parsed_args' = words' BY <2>2, <2>4, <2>5 DEF CliInv
  <2> QED BY <1>5, <2>1, <2>3, <2>5, <2>6, CliTook
<1> QED BY <1>1, <1>2, <1>3, <1>4, <1>5 DEF C!Next

\* So does any step of the text modules.
LEMMA CliAny ==
  ASSUME CliInv, [AnyNext /\ UNCHANGED part]_everything
  PROVE  CliInv'
<1>1. CASE UNCHANGED parsing BY <1>1 DEF parsing, CliInv
<1>2. CASE C!Next BY <1>2, CliStep
<1> QED BY <1>1, <1>2 DEF AnyNext, everything

\* What CliInv says of the cells is what ParsesArgs promises.
LEMMA CliParses ==
  ASSUME CliInv
  PROVE  ParsesArgs
<1>1. ASSUME NEW o \in C!Options
      PROVE  /\ C!IsPrefix(C!Last(given[o]), C!uga_cli_get_val(o))
             /\ (\A k \in DOMAIN given[o] : Len(given[o][k]) <= Len(C!Last(given[o])))
                  => C!uga_cli_get_val(o) = C!Last(given[o])
             /\ C!uga_cli_is_set(o) <=> \E k \in DOMAIN given[o] : given[o][k] # <<>>
  <2>1. ShowsGiven(value[o], given[o]) BY DEF CliInv
  <2>2. PICK cells : cells = value[o] OBVIOUS
  <2>3. PICK texts : texts = given[o] OBVIOUS
  <2>4. PICK shown : shown = C!uga_cli_get_val(o) OBVIOUS
  <2>5. shown = SubSeq(cells, 1, C!Min({k \in DOMAIN cells : cells[k] = End}) - 1)
    BY <2>2, <2>4, Zenon DEF C!uga_cli_get_val
  <2>6. ShowsGiven(cells, texts) BY <2>1, <2>2, <2>3
  <2>7. /\ C!IsPrefix(texts[Len(texts)], shown)
        /\ (\A k \in DOMAIN texts : Len(texts[k]) <= Len(texts[Len(texts)]))
              => shown = texts[Len(texts)]
        /\ cells[1] # End <=> \E k \in DOMAIN texts : texts[k] # <<>>
    BY <2>5, <2>6, ShowsLast
  <2>8. C!Last(given[o]) = texts[Len(texts)] BY <2>3, Zenon DEF C!Last
  <2>9. C!uga_cli_is_set(o) <=> cells[1] # End BY <2>2, Zenon DEF C!uga_cli_is_set
  <2> QED BY <2>3, <2>4, <2>7, <2>8, <2>9, Zenon
<1>2. C!ParsesArgs BY <1>1, Zenon DEF C!ParsesArgs, CliInv
<1> QED BY <1>2, Zenon DEF ParsesArgs

(***************************************************************************)
(* Whatever a program is started with, each option of uga_cli shows the    *)
(* value it was given last, or that with the tail of something longer      *)
(* behind it; the words are counted, and -1 is an error.                   *)
(***************************************************************************)
THEOREM StringsParses == AnySpec => []ParsesArgs
<1>1. AnyInit => CliInv
  <2>1. {<<>>} \in SUBSET Seq(C!Item) OBVIOUS
  <2> QED BY <2>1, Commands, CliInitially, Zenon DEF AnyInit, C!Init
<1>2. CliInv /\ [AnyNext /\ UNCHANGED part]_everything => CliInv' BY CliAny
<1>3. CliInv => ParsesArgs BY CliParses
<1> QED BY <1>1, <1>2, <1>3, PTL DEF AnySpec

-----------------------------------------------------------------------------
(* Views: what a call makes of one. *)

IsView(v) == v \in [data : Nat, size : Nat] /\ v.data + v.size <= Len(text)

\* The view w shows what is left of v behind the piece p, and d characters more;
\* or before it.
CutLeft(v, p, w, d) ==
  /\ p.data = v.data /\ w.data = p.data + p.size + d
  /\ p.size + d + w.size = v.size

CutRight(v, p, w) ==
  /\ w.data = v.data /\ p.data = v.data + w.size
  /\ w.size + p.size = v.size

\* The view w shows what v does from its i-th character to the k-th; what is
\* left out are blanks.
Trimmed(v, w, i, k) ==
  /\ i <= k /\ w = V!View(v.data + i, k - i)
  /\ \A j \in 0 .. i - 1 : V!Blank(V!Char(v, j))
  /\ \A j \in k .. v.size - 1 : V!Blank(V!Char(v, j))

\* The parts of a view, and that it lies in the text.
LEMMA ViewIs ==
  ASSUME NEW v
  PROVE  /\ IsView(v) => v.data \in Nat /\ v.size \in Nat /\ v.data + v.size <= Len(text)
         /\ v = V!View(v.data, v.size) \/ ~IsView(v)
  BY DEF IsView, V!View

\* When a pointer and a size make a view.
LEMMA IsViewOf ==
  ASSUME NEW d \in Nat, NEW n \in Nat, d + n <= Len(text)
  PROVE  IsView(V!View(d, n)) /\ V!View(d, n).data = d /\ V!View(d, n).size = n
  BY DEF IsView, V!View

\* The smaller of two numbers, as chop takes it.
LEMMA MinOf ==
  ASSUME NEW a \in Nat, NEW b \in Nat
  PROVE  V!Min({a, b}) \in 0 .. b
<1>1. V!Min({a, b}) \in {a, b} /\ \A y \in {a, b} : V!Min({a, b}) <= y
  BY MinIs
<1> QED BY <1>1

\* Trimming on the left leaves out blanks, up to the first other character.
LEMMA TrimLeftIs ==
  ASSUME NEW v, IsView(v)
  PROVE  \E i \in 0 .. v.size :
           /\ V!TrimLeft(v) = V!View(v.data + i, v.size - i)
           /\ \A j \in 0 .. i - 1 : V!Blank(V!Char(v, j))
           /\ i = v.size \/ ~V!Blank(V!Char(v, i))
<1> DEFINE S == {k \in 0 .. v.size : k = v.size \/ ~V!Blank(V!Char(v, k))}
<1>1. v.size \in Nat BY ViewIs
<1>2. v.size \in S /\ S \subseteq Nat BY <1>1
<1>3. PICK i : i = V!Min(S) OBVIOUS
<1>4. i \in S /\ \A y \in S : i <= y
  <2> HIDE DEF S
  <2> QED BY <1>2, <1>3, MinIs
<1>5. V!TrimLeft(v) = V!View(v.data + i, v.size - i) BY <1>3, Zenon DEF V!TrimLeft
<1>6. ASSUME NEW j \in 0 .. i - 1 PROVE V!Blank(V!Char(v, j))
  <2>1. j \in 0 .. v.size /\ ~(i <= j) BY <1>1, <1>4
  <2>2. j \notin S BY <1>4, <2>1
  <2> QED BY <2>1, <2>2
<1>7. i \in 0 .. v.size /\ (i = v.size \/ ~V!Blank(V!Char(v, i))) BY <1>4
<1> HIDE DEF S
<1> QED BY <1>5, <1>6, <1>7

\* Trimming on the right leaves out blanks, down to the last other character.
LEMMA TrimRightIs ==
  ASSUME NEW v, IsView(v)
  PROVE  \E k \in 0 .. v.size :
           /\ V!TrimRight(v) = V!View(v.data, k)
           /\ \A j \in k .. v.size - 1 : V!Blank(V!Char(v, j))
           /\ k = 0 \/ ~V!Blank(V!Char(v, k - 1))
<1> DEFINE S == {k \in 0 .. v.size : k = 0 \/ ~V!Blank(V!Char(v, k - 1))}
<1>1. v.size \in Nat BY ViewIs
<1>2. 0 \in S /\ S \subseteq 0 .. v.size BY <1>1
<1>3. PICK k : k = V!Max(S) OBVIOUS
<1>4. k \in S /\ \A y \in S : y <= k
  <2> HIDE DEF S
  <2> QED BY <1>1, <1>2, <1>3, MaxIs
<1>5. V!TrimRight(v) = V!View(v.data, k) BY <1>3, Zenon DEF V!TrimRight
<1>6. ASSUME NEW j \in k .. v.size - 1 PROVE V!Blank(V!Char(v, j))
  <2>1. PICK m : m = j + 1 OBVIOUS
  <2>2. m \in 0 .. v.size /\ ~(m <= k) /\ m # 0 /\ m - 1 = j BY <1>1, <1>4, <2>1
  <2>3. m \notin S BY <1>4, <2>2
  <2>4. V!Blank(V!Char(v, m - 1)) BY <2>2, <2>3
  <2> QED BY <2>2, <2>4
<1>7. k \in 0 .. v.size /\ (k = 0 \/ ~V!Blank(V!Char(v, k - 1))) BY <1>4
<1> HIDE DEF S
<1> QED BY <1>5, <1>6, <1>7

\* Trimming on both sides leaves nothing, or what begins and ends without a blank.
LEMMA TrimIs ==
  ASSUME NEW v, IsView(v)
  PROVE  \E i, k \in 0 .. v.size :
           /\ Trimmed(v, V!Trim(v), i, k)
           /\ i # k => (~V!Blank(V!Char(v, i)) /\ ~V!Blank(V!Char(v, k - 1)))
<1>1. v.size \in Nat /\ v.data \in Nat /\ v.data + v.size <= Len(text) BY ViewIs
<1>2. PICK i \in 0 .. v.size :
           /\ V!TrimLeft(v) = V!View(v.data + i, v.size - i)
           /\ \A j \in 0 .. i - 1 : V!Blank(V!Char(v, j))
           /\ i = v.size \/ ~V!Blank(V!Char(v, i))
  BY TrimLeftIs
<1>3. PICK w : w = V!TrimLeft(v) OBVIOUS
<1>4. w.data = v.data + i /\ w.size = v.size - i
  BY <1>2, <1>3 DEF V!View
<1>5. IsView(w)
  <2>1. v.data + i \in Nat /\ v.size - i \in Nat
        /\ (v.data + i) + (v.size - i) = v.data + v.size
    BY <1>1
  <2>2. (v.data + i) + (v.size - i) <= Len(text) BY <1>1, <2>1
  <2>3. IsView(V!View(v.data + i, v.size - i)) BY <2>1, <2>2, IsViewOf
  <2> QED BY <1>2, <1>3, <2>3
<1>6. PICK k \in 0 .. w.size :
           /\ V!TrimRight(w) = V!View(w.data, k)
           /\ \A j \in k .. w.size - 1 : V!Blank(V!Char(w, j))
           /\ k = 0 \/ ~V!Blank(V!Char(w, k - 1))
  BY <1>5, TrimRightIs
<1>7. \A j \in 0 .. w.size - 1 : V!Char(w, j) = V!Char(v, i + j)
  <2>1. ASSUME NEW j \in 0 .. w.size - 1 PROVE w.data + j + 1 = v.data + (i + j) + 1
    BY <1>1, <1>4
  <2> QED BY <2>1, Zenon DEF V!Char
<1>8. PICK m : m = i + k OBVIOUS
<1>9. m \in 0 .. v.size /\ i <= m /\ k = m - i BY <1>1, <1>4, <1>8
<1>10. V!Trim(v) = V!View(v.data + i, m - i)
  BY <1>3, <1>4, <1>6, <1>9 DEF V!Trim
<1>11. ASSUME NEW j \in m .. v.size - 1 PROVE V!Blank(V!Char(v, j))
  <2>1. PICK h : h = j - i OBVIOUS
  <2>2. h \in k .. w.size - 1 /\ h \in 0 .. w.size - 1 /\ i + h = j
    BY <1>1, <1>4, <1>8, <2>1
  <2> QED BY <1>6, <1>7, <2>2
<1>12. i # m => (~V!Blank(V!Char(v, i)) /\ ~V!Blank(V!Char(v, m - 1)))
  <2>1. CASE k = 0
    <3>1. i = m BY <1>8, <1>9, <2>1
    <3> QED BY <3>1
  <2>2. CASE k # 0
    <3>1. i # v.size /\ k - 1 \in 0 .. w.size - 1 /\ i + (k - 1) = m - 1
      BY <1>1, <1>4, <1>9, <2>2
    <3> QED BY <1>2, <1>6, <1>7, <2>2, <3>1
  <2> QED BY <2>1, <2>2
<1>13. Trimmed(v, V!Trim(v), i, m)
  BY <1>2, <1>9, <1>10, <1>11 DEF Trimmed
<1> QED BY <1>9, <1>12, <1>13

\* What a call left of the view v: the piece p and the view w.
Did(op, v, p, w) ==
  /\ op \in {"chop_left", "chop_right", "discard"} => IsView(p)
  /\ op = "chop_left"  => CutLeft(v, p, w, 0)
  /\ op = "discard"    => \/ CutLeft(v, p, w, 0) /\ w.size = 0
                          \/ CutLeft(v, p, w, 1) /\ V!Char(v, p.size) = Delimiter
  /\ op = "chop_right" => CutRight(v, p, w)
  /\ op = "trim"       => \E i, k \in 0 .. v.size : Trimmed(v, w, i, k)

ViewInv ==
  /\ Sized(text, Len(text))
  /\ IsView(this) /\ IsView(last.before)
  /\ last.piece = V!Nothing \/ IsView(last.piece)
  /\ Did(last.op, last.before, last.piece, this)

\* The view begins as the whole text.
LEMMA ViewInitially ==
  ASSUME NEW S \in SUBSET Seq(UNION Alphabets), V!InitOver(S)
  PROVE  ViewInv
<1>1. text \in Seq(UNION Alphabets) BY DEF V!InitOver
<1>2. Sized(text, Len(text)) BY <1>1, SizedSeq
<1>3. PICK z : z = 0 OBVIOUS
<1>4. z \in Nat /\ Len(text) \in Nat /\ z + Len(text) <= Len(text) BY <1>1, <1>3
<1>5. IsView(V!View(z, Len(text))) BY <1>4, IsViewOf
<1>6. /\ IsView(this) /\ last.before = this /\ last.piece = V!Nothing /\ last.op = "none"
  BY <1>3, <1>5 DEF V!InitOver
<1>7. Did(last.op, last.before, last.piece, this) BY <1>6 DEF Did
<1> QED BY <1>2, <1>6, <1>7 DEF ViewInv

\* The texts are sequences over the alphabets.
LEMMA ViewTexts == V!Init => \E S \in SUBSET Seq(UNION Alphabets) : V!InitOver(S)
<1>1. PICK S : S = UNION {V!BoundedSeq(alphabet, MaxLen) : alphabet \in Alphabets} OBVIOUS
<1>2. ASSUME NEW alphabet \in Alphabets, NEW s \in V!BoundedSeq(alphabet, MaxLen)
      PROVE  s \in Seq(UNION Alphabets)
  <2>1. MaxLen \in Nat BY StringsConstants DEF V!StrViewConstants
  <2>2. PICK m \in 0 .. MaxLen : s \in [1 .. m -> alphabet]
    BY <1>2 DEF V!BoundedSeq, V!SeqOf
  <2>3. s \in [1 .. m -> UNION Alphabets] BY <2>2
  <2> QED BY <2>1, <2>3
<1>3. S \in SUBSET Seq(UNION Alphabets) BY <1>1, <1>2
<1> QED BY <1>1, <1>3, Zenon DEF V!Init

\* A call that changes the view.
LEMMA ViewBecomes ==
  ASSUME ViewInv, NEW v, IsView(v), NEW op, NEW p, p = V!Nothing \/ IsView(p),
         V!Becomes(v, op, p), Did(op, this, p, v)
  PROVE  ViewInv'
<1>1. /\ this' = v /\ last' = [op |-> op, before |-> this, piece |-> p] /\ text' = text
  BY DEF V!Becomes
<1>2. last'.op = op /\ last'.before = this /\ last'.piece = p BY <1>1
<1>3. Sized(text, Len(text))' BY <1>1 DEF ViewInv
<1>4. IsView(this)' /\ IsView(last.before)' BY <1>1, <1>2 DEF ViewInv, IsView
<1>5. (last.piece = V!Nothing \/ IsView(last.piece))'
  BY <1>1, <1>2 DEF IsView, V!Nothing, V!View
<1>6. Did(last.op, last.before, last.piece, this)'
  <2>1. ASSUME NEW i, NEW k, Trimmed(this, v, i, k) PROVE Trimmed(last.before, this, i, k)'
    BY <1>1, <1>2, <2>1 DEF Trimmed, V!Char
  <2>2. (op \in {"chop_left", "chop_right", "discard"} => IsView(p))'
    BY <1>1 DEF Did, IsView
  <2>3. V!Char(this, p.size) = V!Char(last.before, last.piece.size)'
    BY <1>1, <1>2 DEF V!Char
  <2>4. op = "chop_left" => CutLeft(last.before, last.piece, this, 0)'
    BY <1>1, <1>2 DEF Did, CutLeft
  <2>5. op = "chop_right" => CutRight(last.before, last.piece, this)'
    BY <1>1, <1>2 DEF Did, CutRight
  <2>6. op = "discard" => \/ CutLeft(last.before, last.piece, this, 0)' /\ this'.size = 0
                          \/ /\ CutLeft(last.before, last.piece, this, 1)'
                             /\ V!Char(last.before, last.piece.size)' = Delimiter
    BY <1>1, <1>2, <2>3 DEF Did, CutLeft
  <2>7. op = "trim" => \E i, k \in 0 .. last'.before.size : Trimmed(last.before, this, i, k)'
    BY <1>2, <2>1 DEF Did
  <2> QED BY <1>1, <1>2, <2>2, <2>4, <2>5, <2>6, <2>7 DEF Did
<1> QED BY <1>3, <1>4, <1>5, <1>6 DEF ViewInv

\* The parts of the client's view.
LEMMA ViewSays ==
  ASSUME ViewInv
  PROVE  /\ this.data \in Nat /\ this.size \in Nat /\ this.data + this.size <= Len(text)
         /\ this = V!View(this.data, this.size)
         /\ Len(text) \in Nat /\ Sized(text, Len(text))
  BY ViewIs, SizedIs DEF ViewInv

\* Trimming keeps the invariant of the view.
LEMMA ViewTrims ==
  ASSUME ViewInv, V!TrimBlanks
  PROVE  ViewInv'
<1>1. PICK v \in {V!TrimLeft(this), V!TrimRight(this), V!Trim(this)} :
        V!Becomes(v, "trim", V!Nothing)
  BY DEF V!TrimBlanks
<1>2. IsView(this) /\ this.data \in Nat /\ this.size \in Nat
      /\ this.data + this.size <= Len(text) /\ Len(text) \in Nat
  BY ViewSays DEF ViewInv
<1>3. \E i, k \in 0 .. this.size : Trimmed(this, v, i, k)
  <2>1. CASE v = V!TrimLeft(this)
    <3>1. PICK i \in 0 .. this.size :
             /\ v = V!View(this.data + i, this.size - i)
             /\ \A j \in 0 .. i - 1 : V!Blank(V!Char(this, j))
      BY <1>2, <2>1, TrimLeftIs
    <3>2. Trimmed(this, v, i, this.size) BY <1>2, <3>1 DEF Trimmed
    <3> QED BY <1>2, <3>2
  <2>2. CASE v = V!TrimRight(this)
    <3>1. PICK k \in 0 .. this.size :
             /\ v = V!View(this.data, k)
             /\ \A j \in k .. this.size - 1 : V!Blank(V!Char(this, j))
      BY <1>2, <2>2, TrimRightIs
    <3>2. PICK i : i = 0 OBVIOUS
    <3>3. i \in 0 .. this.size /\ this.data + i = this.data /\ k - i = k BY <1>2, <3>2
    <3>4. Trimmed(this, v, i, k) BY <1>2, <3>1, <3>2, <3>3 DEF Trimmed
    <3> QED BY <3>3, <3>4
  <2>3. CASE v = V!Trim(this) BY <1>2, <2>3, TrimIs
  <2> QED BY <2>1, <2>2, <2>3
<1>4. IsView(v)
  <2>1. PICK i \in 0 .. this.size, k \in 0 .. this.size : Trimmed(this, v, i, k) BY <1>3
  <2>2. this.data + i \in Nat /\ k - i \in Nat /\ (this.data + i) + (k - i) <= Len(text)
    BY <1>2, <2>1 DEF Trimmed
  <2>3. IsView(V!View(this.data + i, k - i)) BY <2>2, IsViewOf
  <2> QED BY <2>1, <2>3 DEF Trimmed
<1>5. Did("trim", this, V!Nothing, v) BY <1>3 DEF Did
<1> QED BY <1>1, <1>4, <1>5, ViewBecomes

\* So does chopping on the left.
LEMMA ViewChopsLeft ==
  ASSUME ViewInv, NEW count \in Nat, V!ChopLeft(count)
  PROVE  ViewInv'
<1>1. PICK n : n = V!Min({count, this.size}) OBVIOUS
<1>2. V!Becomes(V!View(this.data + n, this.size - n), "chop_left", V!View(this.data, n))
  <2>1. V!Chopped(count, "chop_left") = "chop_left" BY DEF V!Chopped
  <2> QED BY <1>1, <2>1, Zenon DEF V!ChopLeft
<1>3. this.data \in Nat /\ this.size \in Nat /\ this.data + this.size <= Len(text) /\ Len(text) \in Nat
  BY ViewSays
<1>4. n \in 0 .. this.size BY <1>1, <1>3, MinOf
<1>5. PICK v : v = V!View(this.data + n, this.size - n) OBVIOUS
<1>6. PICK p : p = V!View(this.data, n) OBVIOUS
<1>7. IsView(v) /\ v.data = this.data + n /\ v.size = this.size - n
  <2>1. this.data + n \in Nat /\ this.size - n \in Nat /\ (this.data + n) + (this.size - n) <= Len(text)
    BY <1>3, <1>4
  <2> QED BY <1>5, <2>1, IsViewOf
<1>8. IsView(p) /\ p.data = this.data /\ p.size = n
  <2>1. this.data + n <= Len(text) /\ n \in Nat BY <1>3, <1>4
  <2> QED BY <1>3, <1>6, <2>1, IsViewOf
<1>9. CutLeft(this, p, v, 0) BY <1>3, <1>4, <1>7, <1>8 DEF CutLeft
<1>10. Did("chop_left", this, p, v) BY <1>8, <1>9 DEF Did
<1>11. V!Becomes(v, "chop_left", p) BY <1>2, <1>5, <1>6
<1> QED BY <1>7, <1>8, <1>10, <1>11, ViewBecomes

\* So does chopping on the right.
LEMMA ViewChopsRight ==
  ASSUME ViewInv, NEW count \in Nat, V!ChopRight(count)
  PROVE  ViewInv'
<1>1. PICK n : n = V!Min({count, this.size}) OBVIOUS
<1>2. V!Becomes(V!View(this.data, this.size - n), "chop_right",
                V!View(this.data + this.size - n, n))
  <2>1. V!Chopped(count, "chop_right") = "chop_right" BY DEF V!Chopped
  <2> QED BY <1>1, <2>1, Zenon DEF V!ChopRight
<1>3. this.data \in Nat /\ this.size \in Nat /\ this.data + this.size <= Len(text) /\ Len(text) \in Nat
  BY ViewSays
<1>4. n \in 0 .. this.size BY <1>1, <1>3, MinOf
<1>5. PICK v : v = V!View(this.data, this.size - n) OBVIOUS
<1>6. PICK p : p = V!View(this.data + this.size - n, n) OBVIOUS
<1>7. IsView(v) /\ v.data = this.data /\ v.size = this.size - n
  <2>1. this.size - n \in Nat /\ this.data + (this.size - n) <= Len(text)
    BY <1>3, <1>4
  <2> QED BY <1>3, <1>5, <2>1, IsViewOf
<1>8. IsView(p) /\ p.data = this.data + this.size - n /\ p.size = n
  <2>1. this.data + this.size - n \in Nat /\ n \in Nat
        /\ (this.data + this.size - n) + n <= Len(text)
    BY <1>3, <1>4
  <2> QED BY <1>6, <2>1, IsViewOf
<1>9. CutRight(this, p, v) BY <1>3, <1>4, <1>7, <1>8 DEF CutRight
<1>10. Did("chop_right", this, p, v) BY <1>8, <1>9 DEF Did
<1>11. V!Becomes(v, "chop_right", p) BY <1>2, <1>5, <1>6
<1> QED BY <1>7, <1>8, <1>10, <1>11, ViewBecomes

\* The loop stops at the first delimiter, or at the end.
LEMMA IndexIs ==
  ASSUME NEW v, IsView(v), NEW c
  PROVE  /\ V!IndexOf(v, c) \in 0 .. v.size
         /\ \A j \in 0 .. V!IndexOf(v, c) - 1 : V!Char(v, j) # c
         /\ V!IndexOf(v, c) # v.size => V!Char(v, V!IndexOf(v, c)) = c
<1> DEFINE S == {i \in 0 .. v.size : i = v.size \/ V!Char(v, i) = c}
<1>1. v.size \in Nat BY ViewIs
<1>2. v.size \in S /\ S \subseteq Nat BY <1>1
<1>3. PICK i : i = V!IndexOf(v, c) OBVIOUS
<1>4. i = V!Min(S) BY <1>3, Zenon DEF V!IndexOf
<1>5. i \in S /\ \A y \in S : i <= y
  <2> HIDE DEF S
  <2> QED BY <1>2, <1>4, MinIs
<1>6. ASSUME NEW j \in 0 .. i - 1 PROVE V!Char(v, j) # c
  <2>1. j \in 0 .. v.size /\ ~(i <= j) BY <1>1, <1>5
  <2>2. j \notin S BY <1>5, <2>1
  <2> QED BY <2>1, <2>2
<1>7. i \in 0 .. v.size /\ (i # v.size => V!Char(v, i) = c) BY <1>5
<1> HIDE DEF S
<1> QED BY <1>3, <1>6, <1>7

\* What uga_sv_chop_to_delimiter does to the view: n characters are the piece, and
\* `skip' is thrown away.
ChopsTo(n, skip, discard) ==
  /\ n \in 0 .. this.size /\ skip \in {0, 1} /\ n + skip <= this.size
  /\ \A j \in 0 .. n - 1 : V!Char(this, j) # Delimiter
  /\ n # this.size => V!Char(this, n) = Delimiter
  /\ skip = 1 <=> (discard /\ n # this.size)
  /\ this.size > 0
  /\ V!Becomes(V!View(this.data + n + skip, this.size - n - skip),
               IF discard THEN "discard" ELSE "chop_left", V!View(this.data, n))

\* What chopping to a delimiter leaves, with the delimiter or without.
LEMMA ViewChopsTo ==
  ASSUME ViewInv, NEW discard \in BOOLEAN, V!ChopToDelimiter(discard)
  PROVE  \E n \in 0 .. this.size, skip \in {0, 1} :
           /\ n = V!IndexOf(this, Delimiter)
           /\ ChopsTo(n, skip, discard)
<1>1. IsView(this) /\ this.data \in Nat /\ this.size \in Nat BY ViewSays DEF ViewInv
<1>2. PICK n : n = V!IndexOf(this, Delimiter) OBVIOUS
<1>3. /\ n \in 0 .. this.size
      /\ \A j \in 0 .. n - 1 : V!Char(this, j) # Delimiter
      /\ n # this.size => V!Char(this, n) = Delimiter
  BY <1>1, <1>2, IndexIs
<1>4. PICK skip : skip = IF discard /\ n < this.size THEN 1 ELSE 0 OBVIOUS
<1>5. skip \in {0, 1} /\ n + skip <= this.size /\ (skip = 1 <=> (discard /\ n # this.size))
  BY <1>1, <1>3, <1>4
<1>6. V!Becomes(V!View(this.data + n + skip, this.size - n - skip),
                IF discard THEN "discard" ELSE "chop_left", V!View(this.data, n))
  BY <1>2, <1>4, Zenon DEF V!ChopToDelimiter
<1>7. this.size > 0
  <2>1. this.size # 0 BY DEF V!ChopToDelimiter, V!Empty
  <2> QED BY <1>1, <2>1
<1>8. ChopsTo(n, skip, discard) BY <1>3, <1>5, <1>6, <1>7 DEF ChopsTo
<1> QED BY <1>2, <1>3, <1>5, <1>8

\* Chopping to a delimiter keeps the invariant of the view.
LEMMA ViewChopsToDelimiter ==
  ASSUME ViewInv, NEW discard \in BOOLEAN, V!ChopToDelimiter(discard)
  PROVE  ViewInv'
<1>1. PICK n \in 0 .. this.size, skip \in {0, 1} : ChopsTo(n, skip, discard) BY ViewChopsTo
<1>2. this.data \in Nat /\ this.size \in Nat /\ this.data + this.size <= Len(text) /\ Len(text) \in Nat
  BY ViewSays
<1>3. PICK v : v = V!View(this.data + n + skip, this.size - n - skip) OBVIOUS
<1>4. PICK p : p = V!View(this.data, n) OBVIOUS
<1>5. n + skip <= this.size BY <1>1 DEF ChopsTo
<1>6. IsView(v) /\ v.data = this.data + n + skip /\ v.size = this.size - n - skip
  <2>1. /\ this.data + n + skip \in Nat /\ this.size - n - skip \in Nat
        /\ (this.data + n + skip) + (this.size - n - skip) <= Len(text)
    BY <1>2, <1>5
  <2> QED BY <1>3, <2>1, IsViewOf
<1>7. IsView(p) /\ p.data = this.data /\ p.size = n
  <2>1. this.data + n <= Len(text) /\ n \in Nat BY <1>2
  <2> QED BY <1>2, <1>4, <2>1, IsViewOf
<1>8. V!Becomes(v, IF discard THEN "discard" ELSE "chop_left", p)
  BY <1>1, <1>3, <1>4, Zenon DEF ChopsTo
<1>9. CASE discard
  <2>1. CASE skip = 1
    <3>1. V!Char(this, p.size) = Delimiter BY <1>1, <1>7, <2>1 DEF ChopsTo
    <3>2. CutLeft(this, p, v, 1) BY <1>2, <1>6, <1>7, <2>1 DEF CutLeft
    <3>3. Did("discard", this, p, v) BY <1>7, <3>1, <3>2 DEF Did
    <3> QED BY <1>6, <1>7, <1>8, <1>9, <3>3, ViewBecomes
  <2>2. CASE skip = 0
    <3>1. n = this.size BY <1>1, <1>9, <2>2 DEF ChopsTo
    <3>2. CutLeft(this, p, v, 0) /\ v.size = 0
      BY <1>2, <1>6, <1>7, <2>2, <3>1 DEF CutLeft
    <3>3. Did("discard", this, p, v) BY <1>7, <3>2 DEF Did
    <3> QED BY <1>6, <1>7, <1>8, <1>9, <3>3, ViewBecomes
  <2> QED BY <2>1, <2>2
<1>10. CASE ~discard
  <2>1. skip = 0 BY <1>1, <1>10 DEF ChopsTo
  <2>2. CutLeft(this, p, v, 0) BY <1>2, <1>6, <1>7, <2>1 DEF CutLeft
  <2>3. Did("chop_left", this, p, v) BY <1>7, <2>2 DEF Did
  <2> QED BY <1>6, <1>7, <1>8, <1>10, <2>3, ViewBecomes
<1> QED BY <1>9, <1>10

\* Where unchopping the last piece leaves the view.
LEMMA UnchopsLeft ==
  ASSUME ViewInv, V!UnchopLeft(last.piece.size)
  PROVE  \E v : /\ IsView(v) /\ V!Becomes(v, "unchop", V!Nothing)
                /\ \/ v = last.before
                   \/ v = this /\ V!Empty(this)
                   \/ /\ last.op = "discard" /\ v.data = last.before.data + 1
                      /\ v.data + v.size = last.before.data + last.before.size
<1>1. /\ IsView(this) /\ this.data \in Nat /\ this.size \in Nat
      /\ this.data + this.size <= Len(text) /\ Len(text) \in Nat
  BY ViewSays DEF ViewInv
<1>2. last.op \in {"chop_left", "discard"} BY DEF V!UnchopLeft
<1>3. Did(last.op, last.before, last.piece, this) /\ IsView(last.before) BY DEF ViewInv
<1>4. IsView(last.piece) BY <1>2, <1>3 DEF Did
<1>5. PICK n : n = last.piece.size OBVIOUS
<1>6. V!Becomes(IF V!Empty(this) THEN this ELSE V!View(this.data - n, this.size + n),
                "unchop", V!Nothing)
  BY <1>5, Zenon DEF V!UnchopLeft
<1>7. CASE V!Empty(this) BY <1>1, <1>6, <1>7
<1>8. CASE ~V!Empty(this)
  <2>1. this.size # 0 BY <1>8 DEF V!Empty
  <2>2. /\ last.before.data \in Nat /\ last.before.size \in Nat /\ last.before.data + last.before.size <= Len(text)
        /\ last.before = V!View(last.before.data, last.before.size)
        /\ last.piece.data \in Nat /\ n \in Nat
    BY <1>3, <1>4, <1>5, ViewIs
  <2>3. PICK v : v = V!View(this.data - n, this.size + n) OBVIOUS
  <2>4. V!Becomes(v, "unchop", V!Nothing) BY <1>6, <1>8, <2>3
  <2>5. ASSUME NEW d \in {0, 1}, CutLeft(last.before, last.piece, this, d)
        PROVE  /\ IsView(v) /\ v.data = last.before.data + d
               /\ v.data + v.size = last.before.data + last.before.size
               /\ v.size = last.before.size - d
    <3>1. /\ this.data - n = last.before.data + d
          /\ this.size + n = last.before.size - d
          /\ (this.data - n) + (this.size + n) = last.before.data + last.before.size
          /\ this.data - n \in Nat /\ this.size + n \in Nat
      <4>1. /\ this.data = last.before.data + n + d
            /\ n + d + this.size = last.before.size /\ d \in Nat
        BY <1>5, <2>5 DEF CutLeft
      <4> PICK a, b, x, s : /\ a = last.before.data /\ b = last.before.size
                            /\ x = this.data /\ s = this.size
        OBVIOUS
      <4>2. /\ a \in Nat /\ b \in Nat /\ n \in Nat /\ d \in Nat /\ x \in Nat /\ s \in Nat
            /\ x = a + n + d /\ n + d + s = b
        BY <1>1, <2>2, <4>1
      <4>3. /\ x - n = a + d /\ s + n = b - d /\ (x - n) + (s + n) = a + b
            /\ x - n \in Nat /\ s + n \in Nat
        BY <4>2
      <4> QED BY <4>3
    <3>2. (this.data - n) + (this.size + n) <= Len(text) BY <2>2, <3>1
    <3>3. IsView(v) /\ v.data = this.data - n /\ v.size = this.size + n
      BY <2>3, <3>1, <3>2, IsViewOf
    <3> QED BY <3>1, <3>3
  <2>6. CASE CutLeft(last.before, last.piece, this, 0)
    <3>1. PICK z \in {0, 1} : z = 0 OBVIOUS
    <3>2. IsView(v) /\ v.data = last.before.data + z /\ v.size = last.before.size - z
      BY <2>5, <2>6, <3>1
    <3>3. v.data = last.before.data /\ v.size = last.before.size BY <2>2, <3>1, <3>2
    <3>4. v = V!View(v.data, v.size) BY <3>2, ViewIs
    <3>5. v = last.before BY <2>2, <3>3, <3>4
    <3> QED BY <2>4, <3>2, <3>5
  <2>7. CASE last.op = "discard" /\ CutLeft(last.before, last.piece, this, 1)
    <3>1. PICK z \in {0, 1} : z = 1 OBVIOUS
    <3>2. /\ IsView(v) /\ v.data = last.before.data + z
          /\ v.data + v.size = last.before.data + last.before.size
      BY <2>5, <2>7, <3>1
    <3> QED BY <2>4, <2>7, <3>1, <3>2
  <2> QED BY <1>2, <1>3, <2>6, <2>7 DEF Did
<1> QED BY <1>7, <1>8

\* Unchopping on the right gives the view before the chop, or does nothing.
LEMMA UnchopsRight ==
  ASSUME ViewInv, V!UnchopRight(last.piece.size)
  PROVE  \E v : /\ IsView(v) /\ V!Becomes(v, "unchop", V!Nothing)
                /\ \/ v = last.before
                   \/ v = this /\ V!Empty(this)
<1>1. /\ IsView(this) /\ this.data \in Nat /\ this.size \in Nat
      /\ this.data + this.size <= Len(text) /\ Len(text) \in Nat
  BY ViewSays DEF ViewInv
<1>2. last.op = "chop_right" BY DEF V!UnchopRight
<1>3. /\ IsView(last.piece) /\ CutRight(last.before, last.piece, this) /\ IsView(last.before)
  BY <1>2 DEF ViewInv, Did
<1>4. PICK n : n = last.piece.size OBVIOUS
<1>5. V!Becomes(IF V!Empty(this) THEN this ELSE V!View(this.data, this.size + n),
                "unchop", V!Nothing)
  BY <1>4, Zenon DEF V!UnchopRight
<1>6. CASE V!Empty(this) BY <1>1, <1>5, <1>6
<1>7. CASE ~V!Empty(this)
  <2>1. V!View(this.data, this.size + n) = last.before
    <3>1. last.before = V!View(last.before.data, last.before.size) BY <1>3, ViewIs
    <3>2. this.data = last.before.data /\ this.size + n = last.before.size
      BY <1>3, <1>4 DEF CutRight
    <3> QED BY <3>1, <3>2
  <2> QED BY <1>3, <1>5, <1>7, <2>1
<1> QED BY <1>6, <1>7

\* Every call keeps the invariant of the view, or goes astray.
LEMMA ViewStep ==
  ASSUME ViewInv, V!Next, last'.op # "astray"
  PROVE  ViewInv'
<1>1. MaxLen \in Nat BY StringsConstants DEF V!StrViewConstants
<1>2. CASE V!TrimBlanks BY <1>2, ViewTrims
<1>3. ASSUME NEW count \in -1 .. MaxLen, V!ChopLeft(count) \/ V!ChopRight(count) PROVE ViewInv'
  <2>1. CASE count \in Nat BY <1>3, <2>1, ViewChopsLeft, ViewChopsRight
  <2>2. CASE count \notin Nat
    <3>1. count < 0 BY <1>1, <2>2
    <3>2. \A op : V!Chopped(count, op) = "astray" BY <3>1 DEF V!Chopped
    <3>3. last'.op = "astray" BY <1>3, <3>2 DEF V!ChopLeft, V!ChopRight, V!Becomes
    <3> QED BY <3>3
  <2> QED BY <2>1, <2>2
<1>4. ASSUME NEW discard \in BOOLEAN, V!ChopToDelimiter(discard) PROVE ViewInv'
  BY <1>4, ViewChopsToDelimiter
<1>5. ASSUME NEW v, IsView(v), V!Becomes(v, "unchop", V!Nothing) PROVE ViewInv'
  <2>1. Did("unchop", this, V!Nothing, v) BY DEF Did
  <2> QED BY <1>5, <2>1, ViewBecomes
<1>6. CASE V!UnchopLeft(last.piece.size) BY <1>5, <1>6, UnchopsLeft
<1>7. CASE V!UnchopRight(last.piece.size) BY <1>5, <1>7, UnchopsRight
<1>8. CASE V!Ask \/ V!LookBeyond
  <2>1. UNCHANGED <<text, this, last>> BY <1>8 DEF V!Ask, V!LookBeyond
  <2> QED BY <2>1 DEF ViewInv, IsView, Did, Trimmed, V!Char
<1>9. ~V!LookBefore BY DEF V!LookBefore, V!Becomes
<1> QED BY <1>2, <1>3, <1>4, <1>6, <1>7, <1>8, <1>9 DEF V!Next

\* Until a call goes astray.
ViewGood == last.op # "astray" => ViewInv

\* So does any step of the text modules.
LEMMA ViewAny ==
  ASSUME ViewGood, [AnyNext /\ UNCHANGED part]_everything
  PROVE  ViewGood'
<1>1. CASE UNCHANGED viewing
  BY <1>1 DEF viewing, ViewGood, ViewInv, IsView, Did, Trimmed, V!Char
<1>2. CASE V!Next
  <2>1. ViewInv BY <1>2 DEF V!Next, ViewGood
  <2> QED BY <1>2, <2>1, ViewStep DEF ViewGood
<1> QED BY <1>1, <1>2 DEF AnyNext, everything

\* The invariant of the view holds in every reachable state.
LEMMA ViewAlways == AnySpec => []ViewGood
<1>1. AnyInit => ViewGood
  <2>1. {<<>>} \in SUBSET Seq(UNION Alphabets) OBVIOUS
  <2>2. AnyInit => ViewInv BY <2>1, ViewTexts, ViewInitially, Zenon DEF AnyInit
  <2> QED BY <2>2 DEF ViewGood
<1> QED BY <1>1, ViewAny, PTL DEF AnySpec

(***************************************************************************)
(* uga_sv_unchop_left and _right after a chop that threw no delimiter away *)
(* and did not empty the view make it what it was before the chop.         *)
(***************************************************************************)
THEOREM StringsUnchop == AnySpec => UnchopUndoes
<1> DEFINE Undone ==
      /\ V!UnchopLeft(last.piece.size) \/ V!UnchopRight(last.piece.size)
      /\ last.op # "discard" /\ ~V!Empty(this)
      => this' = last.before
<1>1. ViewGood => [Undone]_(V!vars)
  <2> SUFFICES ASSUME ViewGood,
                      V!UnchopLeft(last.piece.size) \/ V!UnchopRight(last.piece.size),
                      last.op # "discard", ~V!Empty(this)
               PROVE  this' = last.before
    OBVIOUS
  <2>1. last.op # "astray" BY DEF V!UnchopLeft, V!UnchopRight
  <2>2. ViewInv BY <2>1 DEF ViewGood
  <2>3. PICK v : V!Becomes(v, "unchop", V!Nothing) /\ v = last.before
    BY <2>2, UnchopsLeft, UnchopsRight
  <2> QED BY <2>3 DEF V!Becomes
<1> QED BY <1>1, ViewAlways, PTL DEF UnchopUndoes, V!UnchopUndoes

-----------------------------------------------------------------------------
(* Views: the characters they show. *)

\* When a sequence is two others behind one another.
LEMMA JoinSame ==
  ASSUME NEW m, NEW s, Sized(s, m), NEW n, NEW t, Sized(t, n), NEW x, Sized(x, m + n),
         \A k \in 1 .. m : x[k] = s[k], \A k \in 1 .. n : x[m + k] = t[k]
  PROVE  x = Join(s, t)
<1>1. /\ Sized(Join(s, t), m + n)
      /\ \A k \in 1 .. m : Join(s, t)[k] = s[k]
      /\ \A k \in 1 .. n : Join(s, t)[m + k] = t[k]
  BY SizedJoin
<1>2. m \in Nat /\ n \in Nat BY SizedIs
<1>3. ASSUME NEW k \in 1 .. m + n PROVE x[k] = Join(s, t)[k]
  <2>1. CASE k \in 1 .. m BY <1>1, <2>1
  <2>2. CASE k \notin 1 .. m
    <3>1. PICK j : j = k - m OBVIOUS
    <3>2. j \in 1 .. n /\ m + j = k BY <1>2, <2>2, <3>1
    <3>3. x[m + j] = Join(s, t)[m + j] BY <1>1, <3>2
    <3> QED BY <3>2, <3>3
  <2> QED BY <2>1, <2>2
<1> QED BY <1>1, <1>3, SizedSame

\* The characters of a view, one by one.
LEMMA CharactersAre ==
  ASSUME Sized(text, Len(text)), NEW v, IsView(v)
  PROVE  /\ Sized(V!Characters(v), v.size) /\ Len(V!Characters(v)) = v.size
         /\ \A k \in 1 .. v.size : V!Characters(v)[k] = V!Char(v, k - 1)
<1>1. PICK a, b : a = v.data /\ b = v.data + v.size OBVIOUS
<1>2. a \in Nat /\ b \in Nat /\ a <= b /\ b <= Len(text) /\ b - a = v.size /\ Len(text) \in Nat
  BY <1>1, ViewIs, SizedIs
<1>3. V!Characters(v) = Part(text, a, b) BY <1>1, Zenon DEF V!Characters, Part
<1>4. Sized(Part(text, a, b), b - a) /\ \A k \in 1 .. b - a : Part(text, a, b)[k] = text[a + k]
  BY <1>2, SizedPart
<1>5. Sized(V!Characters(v), v.size) /\ \A k \in 1 .. v.size : V!Characters(v)[k] = text[a + k]
  BY <1>2, <1>3, <1>4
<1>6. ASSUME NEW k \in 1 .. v.size PROVE V!Char(v, k - 1) = text[a + k]
  <2>1. v.data + (k - 1) + 1 = a + k /\ v.data \in Nat BY <1>1, <1>2, ViewIs
  <2> QED BY <2>1, Zenon DEF V!Char
<1>7. Len(V!Characters(v)) = v.size BY <1>5, SizedIs
<1> QED BY <1>5, <1>6, <1>7

\* A view is what its parts show.
LEMMA ViewJoins ==
  ASSUME Sized(text, Len(text)), NEW v, IsView(v), NEW p, IsView(p), NEW w, IsView(w),
         p.data = v.data, w.data = p.data + p.size, p.size + w.size = v.size
  PROVE  V!Characters(v) = V!Characters(p) \o V!Characters(w)
<1>1. PICK x, s, t, m, n : /\ x = V!Characters(v) /\ s = V!Characters(p) /\ t = V!Characters(w)
                           /\ m = p.size /\ n = w.size
  OBVIOUS
<1>2. Sized(s, m) /\ \A k \in 1 .. m : s[k] = V!Char(p, k - 1) BY <1>1, CharactersAre
<1>3. Sized(t, n) /\ \A k \in 1 .. n : t[k] = V!Char(w, k - 1) BY <1>1, CharactersAre
<1>4. Sized(x, m + n) /\ \A k \in 1 .. m + n : x[k] = V!Char(v, k - 1) BY <1>1, CharactersAre
<1>5. m \in Nat /\ n \in Nat /\ v.data \in Nat BY <1>1, ViewIs
<1>6. ASSUME NEW k \in 1 .. m PROVE x[k] = s[k]
  <2>1. k \in 1 .. m + n BY <1>5
  <2>2. V!Char(v, k - 1) = V!Char(p, k - 1) BY Zenon DEF V!Char
  <2> QED BY <1>2, <1>4, <2>1, <2>2
<1>7. ASSUME NEW k \in 1 .. n PROVE x[m + k] = t[k]
  <2>1. PICK j : j = m + k OBVIOUS
  <2>2. j \in 1 .. m + n /\ v.data + (j - 1) + 1 = w.data + (k - 1) + 1
    BY <1>1, <1>5, <2>1
  <2>3. V!Char(v, j - 1) = V!Char(w, k - 1) BY <2>2, Zenon DEF V!Char
  <2>4. x[j] = t[k] BY <1>3, <1>4, <2>2, <2>3
  <2> QED BY <2>1, <2>4
<1>8. x = Join(s, t) BY <1>2, <1>3, <1>4, <1>6, <1>7, JoinSame
<1> QED BY <1>1, <1>8 DEF Join

\* A view of one character.
LEMMA ViewOfOne ==
  ASSUME Sized(text, Len(text)), NEW v, IsView(v), NEW i \in 0 .. v.size - 1
  PROVE  V!Characters(V!View(v.data + i, 1)) = <<V!Char(v, i)>>
<1>1. PICK o : o = 1 OBVIOUS
<1>2. PICK w : w = V!View(v.data + i, o) OBVIOUS
<1>3. v.data \in Nat /\ v.size \in Nat /\ v.data + v.size <= Len(text) /\ Len(text) \in Nat
  BY ViewIs, SizedIs
<1>4. IsView(w) /\ w.data = v.data + i /\ w.size = 1
  <2>1. v.data + i \in Nat /\ o \in Nat /\ (v.data + i) + o <= Len(text) BY <1>1, <1>3
  <2> QED BY <1>1, <1>2, <2>1, IsViewOf
<1>5. Sized(V!Characters(w), 1) /\ \A k \in 1 .. 1 : V!Characters(w)[k] = V!Char(w, k - 1)
  BY <1>4, CharactersAre
<1>6. V!Char(w, 0) = V!Char(v, i)
  <2>1. w.data + 0 + 1 = v.data + i + 1 BY <1>3, <1>4
  <2> QED BY <2>1, Zenon DEF V!Char
<1>7. PICK one : one = <<V!Char(v, i)>> OBVIOUS
<1>8. Sized(one, 1) /\ \A k \in 1 .. 1 : one[k] = V!Char(w, 0)
  <2>1. one \in Seq({V!Char(v, i)}) /\ Len(one) = 1 /\ one[1] = V!Char(v, i) BY <1>7
  <2>2. Sized(one, 1) BY <2>1, SizedSeq
  <2>3. \A k \in 1 .. 1 : k = 1 OBVIOUS
  <2> QED BY <1>6, <2>1, <2>2, <2>3, Zenon
<1>9. \A k \in 1 .. 1 : V!Characters(w)[k] = one[k] BY <1>5, <1>8
<1>10. V!Characters(w) = one BY <1>5, <1>8, <1>9, SizedSame
<1> QED BY <1>1, <1>2, <1>7, <1>10

\* A delimiter between the two.
LEMMA ViewJoinsAround ==
  ASSUME Sized(text, Len(text)), NEW v, IsView(v), NEW p, IsView(p), NEW w, IsView(w),
         CutLeft(v, p, w, 1)
  PROVE  V!Characters(v) = V!Characters(p) \o <<V!Char(v, p.size)>> \o V!Characters(w)
<1>1. v.data \in Nat /\ v.size \in Nat /\ v.data + v.size <= Len(text) /\ Len(text) \in Nat
      /\ p.data \in Nat /\ p.size \in Nat /\ w.data \in Nat /\ w.size \in Nat
  BY ViewIs, SizedIs
<1>2. PICK o : o = 1 OBVIOUS
<1>3. p.data = v.data /\ w.data = p.data + p.size + o /\ p.size + o + w.size = v.size
  BY <1>2 DEF CutLeft
<1>4. PICK b : b = V!View(v.data, p.size + o) OBVIOUS
<1>5. PICK d : d = V!View(v.data + p.size, o) OBVIOUS
<1>6. IsView(b) /\ b.data = v.data /\ b.size = p.size + o
  <2>1. p.size + o \in Nat /\ v.data + (p.size + o) <= Len(text) BY <1>1, <1>2, <1>3
  <2> QED BY <1>1, <1>4, <2>1, IsViewOf
<1>7. IsView(d) /\ d.data = v.data + p.size /\ d.size = o
  <2>1. v.data + p.size \in Nat /\ o \in Nat /\ (v.data + p.size) + o <= Len(text)
    BY <1>1, <1>2, <1>3
  <2> QED BY <1>5, <2>1, IsViewOf
<1>8. V!Characters(b) = V!Characters(p) \o V!Characters(d)
  BY <1>3, <1>6, <1>7, ViewJoins
<1>9. V!Characters(v) = V!Characters(b) \o V!Characters(w)
  <2>1. w.data = b.data + b.size /\ b.size + w.size = v.size BY <1>1, <1>2, <1>3, <1>6
  <2> QED BY <1>6, <2>1, ViewJoins
<1>10. V!Characters(d) = <<V!Char(v, p.size)>>
  <2>1. p.size \in 0 .. v.size - 1 BY <1>1, <1>2, <1>3
  <2> QED BY <1>2, <1>5, <2>1, ViewOfOne
<1> QED BY <1>8, <1>9, <1>10

\* The characters of a trimmed view are a part of those before.
LEMMA ViewTrimmed ==
  ASSUME Sized(text, Len(text)), NEW v, IsView(v), NEW w, IsView(w),
         NEW i \in 0 .. v.size, NEW k \in 0 .. v.size, Trimmed(v, w, i, k)
  PROVE  /\ V!Characters(w) = SubSeq(V!Characters(v), i + 1, k)
         /\ \A j \in 1 .. i : V!Blank(V!Characters(v)[j])
         /\ \A j \in k + 1 .. Len(V!Characters(v)) : V!Blank(V!Characters(v)[j])
<1>1. v.data \in Nat /\ v.size \in Nat /\ w.data \in Nat /\ w.size \in Nat BY ViewIs
<1>2. i <= k /\ w.data = v.data + i /\ w.size = k - i
      /\ (\A j \in 0 .. i - 1 : V!Blank(V!Char(v, j)))
      /\ (\A j \in k .. v.size - 1 : V!Blank(V!Char(v, j)))
  BY DEF Trimmed, V!View
<1>3. PICK old, new : old = V!Characters(v) /\ new = V!Characters(w) OBVIOUS
<1>4. Sized(old, v.size) /\ Len(old) = v.size /\ \A j \in 1 .. v.size : old[j] = V!Char(v, j - 1)
  BY <1>3, CharactersAre
<1>5. Sized(new, k - i) /\ \A j \in 1 .. k - i : new[j] = V!Char(w, j - 1)
  BY <1>2, <1>3, CharactersAre
<1>6. Sized(Part(old, i, k), k - i) /\ \A j \in 1 .. k - i : Part(old, i, k)[j] = old[i + j]
  <2>1. i \in Nat /\ k \in Nat /\ i <= k /\ k <= v.size BY <1>1, <1>2
  <2> QED BY <1>4, <2>1, SizedPart
<1>7. ASSUME NEW j \in 1 .. k - i PROVE new[j] = Part(old, i, k)[j]
  <2>1. i + j \in 1 .. v.size /\ w.data + (j - 1) + 1 = v.data + (i + j - 1) + 1
    BY <1>1, <1>2
  <2>2. V!Char(w, j - 1) = V!Char(v, i + j - 1) BY <2>1, Zenon DEF V!Char
  <2> QED BY <1>4, <1>5, <1>6, <2>1, <2>2
<1>8. new = Part(old, i, k) BY <1>5, <1>6, <1>7, SizedSame
<1>9. ASSUME NEW j \in 1 .. i PROVE V!Blank(old[j])
  <2>1. j \in 1 .. v.size /\ j - 1 \in 0 .. i - 1 BY <1>1
  <2> QED BY <1>2, <1>4, <2>1
<1>10. ASSUME NEW j \in k + 1 .. v.size PROVE V!Blank(old[j])
  <2>1. j \in 1 .. v.size /\ j - 1 \in k .. v.size - 1 BY <1>1
  <2> QED BY <1>2, <1>4, <2>1
<1> QED BY <1>3, <1>4, <1>8, <1>9, <1>10 DEF Part

\* The client's view and its pieces lie in the text.
LEMMA ViewStaysInText ==
  ASSUME ViewInv
  PROVE  V!StaysInText
<1>1. this.data \in Nat /\ this.size \in Nat /\ this.data + this.size <= Len(text)
  BY ViewSays
<1>2. V!InText(this) BY <1>1 DEF V!InText
<1>3. last.piece # V!Nothing => V!InText(last.piece)
  <2>1. \A p : IsView(p) => V!InText(p) BY ViewIs DEF V!InText
  <2> QED BY <2>1 DEF ViewInv
<1>4. ASSUME NEW start \in -1 .. MaxLen, NEW len \in -1 .. MaxLen,
             V!Substr(this, start, len) # V!Nothing, ~(start < 0)
      PROVE  /\ V!Substr(this, start, len).data >= this.data
             /\ V!Substr(this, start, len).data + V!Substr(this, start, len).size
                  <= this.data + this.size
  <2>1. MaxLen \in Nat /\ start \in Nat BY <1>4, StringsConstants DEF V!StrViewConstants
  <2>2. V!Substr(this, start, len) = V!View(this.data + start, len) /\ ~(start + len >= this.size)
    BY <1>4, Zenon DEF V!Substr
  <2>3. /\ V!Substr(this, start, len).data = this.data + start
        /\ V!Substr(this, start, len).size = len
    BY <2>2 DEF V!View
  <2>4. this.data + start >= this.data /\ (this.data + start) + len <= this.data + this.size
    BY <1>1, <2>1, <2>2
  <2> QED BY <2>3, <2>4
<1> QED BY <1>2, <1>3, <1>4, Zenon DEF V!StaysInText

\* The last call cut the view in two, or trimmed it.
LEMMA ViewCutsInTwo ==
  ASSUME ViewInv
  PROVE  V!CutsInTwo
<1>1. /\ Sized(text, Len(text)) /\ IsView(this) /\ IsView(last.before)
      /\ Did(last.op, last.before, last.piece, this)
  BY DEF ViewInv
<1>1a. Sized(text, Len(text)) /\ IsView(this) /\ IsView(last.before) BY <1>1
<1>2. PICK old, new, piece : /\ old = V!Characters(last.before) /\ new = V!Characters(this)
                             /\ piece = V!Characters(last.piece)
  OBVIOUS
<1>3. CASE last.op = "chop_left"
  <2>1. IsView(last.piece) /\ CutLeft(last.before, last.piece, this, 0) BY <1>1, <1>3 DEF Did
  <2>1a. IsView(last.piece) BY <2>1
  <2>2. /\ last.piece.data \in Nat /\ last.piece.size \in Nat /\ this.data \in Nat /\ this.size \in Nat
    BY <1>1, <2>1, ViewIs
  <2>3. /\ last.piece.data = last.before.data /\ this.data = last.piece.data + last.piece.size
        /\ last.piece.size + this.size = last.before.size
    BY <2>1, <2>2 DEF CutLeft
  <2>4a. V!Characters(last.before) = V!Characters(last.piece) \o V!Characters(this)
    BY <1>1a, <2>1a, <2>3, ViewJoins
  <2>4. old = piece \o new BY <1>2, <2>4a
  <2> QED BY <1>2, <1>3, <2>4 DEF V!CutsInTwo
<1>4. CASE last.op = "chop_right"
  <2>1. IsView(last.piece) /\ CutRight(last.before, last.piece, this) BY <1>1, <1>4 DEF Did
  <2>1a. IsView(last.piece) BY <2>1
  <2>2. /\ this.data = last.before.data /\ last.piece.data = this.data + this.size
        /\ this.size + last.piece.size = last.before.size
    BY <2>1 DEF CutRight
  <2>3a. V!Characters(last.before) = V!Characters(this) \o V!Characters(last.piece)
    BY <1>1a, <2>1a, <2>2, ViewJoins
  <2>3. old = new \o piece BY <1>2, <2>3a
  <2> QED BY <1>2, <1>4, <2>3, Zenon DEF V!CutsInTwo
<1>5. CASE last.op = "discard"
  <2>1. IsView(last.piece) BY <1>1, <1>5 DEF Did
  <2>2. CASE CutLeft(last.before, last.piece, this, 0)
    <3>1. /\ last.piece.data \in Nat /\ last.piece.size \in Nat /\ this.data \in Nat /\ this.size \in Nat
      BY <1>1, <2>1, ViewIs
    <3>2. /\ last.piece.data = last.before.data /\ this.data = last.piece.data + last.piece.size
          /\ last.piece.size + this.size = last.before.size
      BY <2>2, <3>1 DEF CutLeft
    <3>3a. V!Characters(last.before) = V!Characters(last.piece) \o V!Characters(this)
    BY <1>1a, <2>1, <3>2, ViewJoins
    <3>3. old = piece \o new BY <1>2, <3>3a
    <3> QED BY <1>2, <1>5, <3>3, Zenon DEF V!CutsInTwo
  <2>3. CASE CutLeft(last.before, last.piece, this, 1)
             /\ V!Char(last.before, last.piece.size) = Delimiter
    <3>0. CutLeft(last.before, last.piece, this, 1) BY <2>3
    <3>1b. V!Characters(last.before) =
             V!Characters(last.piece) \o <<V!Char(last.before, last.piece.size)>> \o V!Characters(this)
      BY <1>1a, <2>1, <3>0, ViewJoinsAround
    <3>1a. V!Characters(last.before) = V!Characters(last.piece) \o <<Delimiter>> \o V!Characters(this)
    BY <2>3, <3>1b
    <3>1. old = piece \o <<Delimiter>> \o new BY <1>2, <3>1a
    <3> QED BY <1>2, <1>5, <3>1, Zenon DEF V!CutsInTwo
  <2> QED BY <1>1, <1>5, <2>2, <2>3 DEF Did
<1>6. CASE last.op = "trim"
  <2>1. last.before.size \in Nat /\ Sized(old, last.before.size) /\ Len(old) = last.before.size
        /\ \A k \in 1 .. last.before.size : old[k] = V!Char(last.before, k - 1)
    BY <1>1, <1>2, CharactersAre, ViewIs
  <2>2. \E i, k \in 0 .. Len(old) :
          /\ new = SubSeq(old, i + 1, k)
          /\ \A j \in 1 .. i : V!Blank(old[j])
          /\ \A j \in k + 1 .. Len(old) : V!Blank(old[j])
    <3>1. PICK i \in 0 .. last.before.size, k \in 0 .. last.before.size :
            Trimmed(last.before, this, i, k)
      BY <1>1, <1>6 DEF Did
    <3>2. /\ new = SubSeq(old, i + 1, k)
          /\ \A j \in 1 .. i : V!Blank(old[j])
          /\ \A j \in k + 1 .. Len(old) : V!Blank(old[j])
      BY <1>1, <1>2, <3>1, ViewTrimmed
    <3> QED BY <2>1, <3>2
  <2>3. PICK both : both = V!Characters(V!Trim(last.before)) OBVIOUS
  <2>4. both # <<>> => ~V!Blank(both[1]) /\ ~V!Blank(both[Len(both)])
    <3>1. PICK i \in 0 .. last.before.size, k \in 0 .. last.before.size :
            /\ Trimmed(last.before, V!Trim(last.before), i, k)
            /\ i # k => (/\ ~V!Blank(V!Char(last.before, i))
                         /\ ~V!Blank(V!Char(last.before, k - 1)))
      BY <1>1, TrimIs
    <3>2. PICK w : w = V!Trim(last.before) OBVIOUS
    <3>3. i <= k /\ w = V!View(last.before.data + i, k - i) BY <3>1, <3>2 DEF Trimmed
    <3>4. last.before.data \in Nat /\ last.before.data + last.before.size <= Len(text)
          /\ Len(text) \in Nat
      BY <1>1, ViewIs, SizedIs
    <3>5. IsView(w) /\ w.data = last.before.data + i /\ w.size = k - i
      <4>1. /\ last.before.data + i \in Nat /\ k - i \in Nat
            /\ (last.before.data + i) + (k - i) <= Len(text)
        BY <2>1, <3>3, <3>4
      <4> QED BY <3>3, <4>1, IsViewOf
    <3>6. Sized(both, k - i) /\ Len(both) = k - i /\ \A j \in 1 .. k - i : both[j] = V!Char(w, j - 1)
      BY <1>1, <2>3, <3>2, <3>5, CharactersAre
    <3>7. ASSUME both # <<>> PROVE ~V!Blank(both[1]) /\ ~V!Blank(both[Len(both)])
      <4>1. PICK m : m = k - i OBVIOUS
      <4>2. m # 0 BY <3>6, <3>7, <4>1 DEF Sized
      <4>3. m \in Nat /\ i # k /\ 1 \in 1 .. m /\ m \in 1 .. m BY <2>1, <3>3, <4>1, <4>2
      <4>4. both[1] = V!Char(last.before, i)
        <5>1. both[1] = V!Char(w, 0) BY <3>6, <4>1, <4>3
        <5>2. w.data + 0 + 1 = last.before.data + i + 1 BY <3>4, <3>5
        <5> QED BY <5>1, <5>2, Zenon DEF V!Char
      <4>5. both[m] = V!Char(last.before, k - 1)
        <5>1. both[m] = V!Char(w, m - 1) BY <3>6, <4>1, <4>3
        <5>2. w.data + (m - 1) + 1 = last.before.data + (k - 1) + 1
          BY <3>4, <3>5, <4>1, <4>3
        <5> QED BY <5>1, <5>2, Zenon DEF V!Char
      <4> QED BY <3>1, <3>6, <4>1, <4>3, <4>4, <4>5
    <3> QED BY <3>7
  <2> QED BY <1>2, <1>6, <2>2, <2>3, <2>4, Zenon DEF V!CutsInTwo
<1>7. CASE last.op \notin {"chop_left", "chop_right", "discard", "trim"}
  BY <1>7, Zenon DEF V!CutsInTwo
<1> QED BY <1>3, <1>4, <1>5, <1>6, <1>7

-----------------------------------------------------------------------------
(* Views: comparing them. *)

\* Being a prefix, element by element.
LEMMA PrefixIs ==
  ASSUME NEW m, NEW s, Sized(s, m), NEW n, NEW t, Sized(t, n)
  PROVE  V!IsPrefix(t, s) <=> n <= m /\ \A k \in 1 .. n : s[k] = t[k]
<1>1. m \in Nat /\ n \in Nat /\ Len(s) = m /\ Len(t) = n BY SizedIs
<1>2. V!IsPrefix(t, s) <=> Len(t) <= Len(s) /\ SubSeq(t, 1, Len(t)) = SubSeq(s, 1, Len(t))
  BY Zenon DEF V!IsPrefix
<1>3. V!IsPrefix(t, s) <=> n <= m /\ Take(t, n) = Take(s, n) BY <1>1, <1>2, Zenon DEF Take
<1>4. PICK f, g : f = Take(t, n) /\ g = Take(s, n) OBVIOUS
<1>5. n <= n BY <1>1
<1>6. Sized(f, n) /\ \A k \in 1 .. n : f[k] = t[k] BY <1>1, <1>4, <1>5, SizedTake
<1>7. ASSUME n <= m PROVE Take(t, n) = Take(s, n) <=> \A k \in 1 .. n : s[k] = t[k]
  <2>1. Sized(g, n) /\ \A k \in 1 .. n : g[k] = s[k] BY <1>1, <1>4, <1>7, SizedTake
  <2>2. ASSUME \A k \in 1 .. n : s[k] = t[k] PROVE f = g
    <3>1. \A k \in 1 .. n : f[k] = g[k] BY <1>6, <2>1, <2>2
    <3> QED BY <1>6, <2>1, <3>1, SizedSame
  <2>3. ASSUME f = g PROVE \A k \in 1 .. n : s[k] = t[k] BY <1>6, <2>1, <2>3
  <2> QED BY <1>4, <2>2, <2>3
<1> QED BY <1>3, <1>7

\* A reversed sequence, element by element.
LEMMA ReverseIs ==
  ASSUME NEW m, NEW s, Sized(s, m)
  PROVE  Sized(V!Reverse(s), m) /\ \A k \in 1 .. m : V!Reverse(s)[k] = s[(m - k) + 1]
<1>1. m \in Nat /\ Len(s) = m BY SizedIs
<1>2. V!Reverse(s) = [k \in 1 .. m |-> s[(m - k) + 1]] BY <1>1, Zenon DEF V!Reverse
<1>3. PICK r : r = V!Reverse(s) OBVIOUS
<1>4. r = [k \in 1 .. m |-> s[(m - k) + 1]] BY <1>2, <1>3
<1>5. \A k \in 1 .. m : r[k] = s[(m - k) + 1] BY <1>4
<1>6. r = [k \in 1 .. m |-> r[k]] BY <1>4
<1> QED BY <1>1, <1>3, <1>5, <1>6 DEF Sized

\* Being a suffix, element by element.
LEMMA SuffixIs ==
  ASSUME NEW m, NEW s, Sized(s, m), NEW n, NEW t, Sized(t, n)
  PROVE  V!IsSuffix(t, s) <=> n <= m /\ \A k \in 1 .. n : s[(m - n) + k] = t[k]
<1>1. m \in Nat /\ n \in Nat BY SizedIs
<1>2. PICK f, g : f = V!Reverse(t) /\ g = V!Reverse(s) OBVIOUS
<1>3. Sized(f, n) /\ \A k \in 1 .. n : f[k] = t[(n - k) + 1] BY <1>2, ReverseIs
<1>4. Sized(g, m) /\ \A k \in 1 .. m : g[k] = s[(m - k) + 1] BY <1>2, ReverseIs
<1>5. V!IsSuffix(t, s) <=> V!IsPrefix(f, g) BY <1>2, Zenon DEF V!IsSuffix
<1>6. V!IsPrefix(f, g) <=> n <= m /\ \A k \in 1 .. n : g[k] = f[k] BY <1>3, <1>4, PrefixIs
<1>7. ASSUME n <= m PROVE (\A k \in 1 .. n : g[k] = f[k]) <=> \A k \in 1 .. n : s[(m - n) + k] = t[k]
  <2>1. \A k \in 1 .. n : k \in 1 .. m BY <1>1, <1>7
  <2>2. ASSUME \A k \in 1 .. n : g[k] = f[k], NEW k \in 1 .. n PROVE s[(m - n) + k] = t[k]
    <3>1. PICK j : j = (n - k) + 1 OBVIOUS
    <3>2. j \in 1 .. n /\ (n - j) + 1 = k /\ (m - j) + 1 = (m - n) + k BY <1>1, <3>1
    <3>3. g[j] = f[j] BY <2>2, <3>2
    <3> QED BY <1>3, <1>4, <2>1, <3>2, <3>3
  <2>3. ASSUME \A k \in 1 .. n : s[(m - n) + k] = t[k], NEW k \in 1 .. n PROVE g[k] = f[k]
    <3>1. PICK j : j = (n - k) + 1 OBVIOUS
    <3>2. j \in 1 .. n /\ (m - k) + 1 = (m - n) + j BY <1>1, <3>1
    <3>3. s[(m - n) + j] = t[j] BY <2>3, <3>2
    <3> QED BY <1>3, <1>4, <2>1, <3>1, <3>2, <3>3
  <2> QED BY <2>2, <2>3
<1> QED BY <1>5, <1>6, <1>7

\* Being equal, element by element.
LEMMA EqualIs ==
  ASSUME NEW m, NEW s, Sized(s, m), NEW n, NEW t, Sized(t, n)
  PROVE  s = t <=> n = m /\ \A k \in 1 .. n : s[k] = t[k]
<1>1. Len(s) = m /\ Len(t) = n BY SizedIs
<1>2. ASSUME n = m, \A k \in 1 .. n : s[k] = t[k] PROVE s = t BY <1>2, SizedSame
<1> QED BY <1>1, <1>2

\* What is compared: the characters, or their lower case.
Folded(s, fold) == IF fold THEN V!LowerCase(s) ELSE s

\* The lower case of a sequence, element by element.
LEMMA FoldedIs ==
  ASSUME NEW m, NEW s, Sized(s, m), NEW fold \in BOOLEAN
  PROVE  /\ Sized(Folded(s, fold), m)
         /\ \A k \in 1 .. m : Folded(s, fold)[k] = IF fold THEN V!Lower(s[k]) ELSE s[k]
<1>1. CASE ~fold BY <1>1 DEF Folded
<1>2. CASE fold
  <2>1. DOMAIN s = 1 .. m /\ m \in Nat BY SizedIs
  <2>2. PICK r : r = V!LowerCase(s) OBVIOUS
  <2>3. r = [k \in 1 .. m |-> V!Lower(s[k])] BY <2>1, <2>2, Zenon DEF V!LowerCase
  <2>4. r = [k \in 1 .. m |-> r[k]] /\ \A k \in 1 .. m : r[k] = V!Lower(s[k]) BY <2>3
  <2>5. Sized(r, m) BY <2>1, <2>4 DEF Sized
  <2>6. Folded(s, fold) = r BY <1>2, <2>2 DEF Folded
  <2> QED BY <1>2, <2>4, <2>5, <2>6
<1> QED BY <1>1, <1>2

\* Comparing two characters, or their lower case.
LEMMA SameIs ==
  ASSUME NEW fold \in BOOLEAN, NEW a, NEW b
  PROVE  V!Same(a, b, fold) <=> (IF fold THEN V!Lower(a) ELSE a) = (IF fold THEN V!Lower(b) ELSE b)
<1>1. CASE fold BY <1>1, Zenon DEF V!Same
<1>2. CASE ~fold BY <1>2, Zenon DEF V!Same
<1> QED BY <1>1, <1>2

\* The loop over the characters.
LEMMA MatchesIs ==
  ASSUME Sized(text, Len(text)), NEW v, IsView(v), NEW w, IsView(w), NEW o \in Nat,
         o + w.size <= v.size, NEW fold \in BOOLEAN,
         NEW s, s = Folded(V!Characters(v), fold), NEW t, t = Folded(V!Characters(w), fold)
  PROVE  /\ V!Matches(v, o, w, fold) <=> \A k \in 1 .. w.size : s[o + k] = t[k]
         /\ v.data + o = w.data => V!Matches(v, o, w, fold)
<1>1. PICK x, y : x = V!Characters(v) /\ y = V!Characters(w) OBVIOUS
<1>2. Sized(x, v.size) /\ \A k \in 1 .. v.size : x[k] = V!Char(v, k - 1) BY <1>1, CharactersAre
<1>3. Sized(y, w.size) /\ \A k \in 1 .. w.size : y[k] = V!Char(w, k - 1) BY <1>1, CharactersAre
<1>4. \A k \in 1 .. v.size : s[k] = IF fold THEN V!Lower(x[k]) ELSE x[k]
  BY <1>1, <1>2, FoldedIs
<1>5. \A k \in 1 .. w.size : t[k] = IF fold THEN V!Lower(y[k]) ELSE y[k]
  BY <1>1, <1>3, FoldedIs
<1>6. v.size \in Nat /\ w.size \in Nat /\ v.data \in Nat /\ w.data \in Nat BY ViewIs
<1>7. ASSUME NEW k \in 1 .. w.size
      PROVE  V!Same(V!Char(v, o + (k - 1)), V!Char(w, k - 1), fold) <=> s[o + k] = t[k]
  <2>1. o + k \in 1 .. v.size /\ (o + k) - 1 = o + (k - 1) BY <1>6
  <2>2. x[o + k] = V!Char(v, o + (k - 1)) /\ y[k] = V!Char(w, k - 1) BY <1>2, <1>3, <2>1
  <2>3. PICK a, b : a = V!Char(v, o + (k - 1)) /\ b = V!Char(w, k - 1) OBVIOUS
  <2>4. s[o + k] = IF fold THEN V!Lower(a) ELSE a BY <1>4, <2>1, <2>2, <2>3
  <2>5. t[k] = IF fold THEN V!Lower(b) ELSE b BY <1>5, <2>2, <2>3
  <2>6. V!Same(a, b, fold) <=> (IF fold THEN V!Lower(a) ELSE a) = (IF fold THEN V!Lower(b) ELSE b)
    BY SameIs
  <2> QED BY <2>3, <2>4, <2>5, <2>6, Zenon
<1>8. V!Matches(v, o, w, fold) <=>
        \A i \in 0 .. w.size - 1 : V!Same(V!Char(v, o + i), V!Char(w, i), fold)
  BY Zenon DEF V!Matches
<1>9. ASSUME NEW i \in 0 .. w.size - 1 PROVE i + 1 \in 1 .. w.size /\ (i + 1) - 1 = i BY <1>6
<1>10. ASSUME NEW k \in 1 .. w.size PROVE k - 1 \in 0 .. w.size - 1 BY <1>6
<1>11. (\A i \in 0 .. w.size - 1 : V!Same(V!Char(v, o + i), V!Char(w, i), fold)) <=>
         \A k \in 1 .. w.size : s[o + k] = t[k]
  <2>1. ASSUME \A i \in 0 .. w.size - 1 : V!Same(V!Char(v, o + i), V!Char(w, i), fold),
               NEW k \in 1 .. w.size
        PROVE  s[o + k] = t[k]
    BY <1>7, <1>10, <2>1, Zenon
  <2>2. ASSUME \A k \in 1 .. w.size : s[o + k] = t[k], NEW i \in 0 .. w.size - 1
        PROVE  V!Same(V!Char(v, o + i), V!Char(w, i), fold)
    <3>1. PICK k \in 1 .. w.size : k - 1 = i BY <1>9
    <3>2. V!Same(V!Char(v, o + (k - 1)), V!Char(w, k - 1), fold) BY <1>7, <2>2
    <3> QED BY <3>1, <3>2
  <2> QED BY <2>1, <2>2, Zenon
<1>12. ASSUME v.data + o = w.data, NEW i \in 0 .. w.size - 1
       PROVE  V!Same(V!Char(v, o + i), V!Char(w, i), fold)
  <2>1. v.data + (o + i) + 1 = w.data + i + 1 BY <1>6, <1>12
  <2>2. V!Char(v, o + i) = V!Char(w, i) BY <2>1, Zenon DEF V!Char
  <2> QED BY <2>2, SameIs, Zenon
<1> QED BY <1>8, <1>11, <1>12, Zenon

\* The comparisons ask about the characters, or their lower case.
LEMMA ComparesFolded ==
  ASSUME Sized(text, Len(text)), NEW v, IsView(v), NEW w, IsView(w),
         NEW aliased \in BOOLEAN, NEW fold \in BOOLEAN,
         NEW s, s = Folded(V!Characters(v), fold), NEW t, t = Folded(V!Characters(w), fold)
  PROVE  /\ V!Equal(v, w, aliased, fold) <=> s = t
         /\ V!StartsWith(v, w, aliased, fold) <=> V!IsPrefix(t, s)
         /\ V!EndsWith(v, w, aliased, fold) <=> V!IsSuffix(t, s)
<1>1. PICK m, n, z : m = v.size /\ n = w.size /\ z = 0 OBVIOUS
<1>2. m \in Nat /\ n \in Nat /\ z \in Nat /\ v.data \in Nat /\ w.data \in Nat BY <1>1, ViewIs
<1>3. Sized(V!Characters(v), m) /\ Sized(V!Characters(w), n) BY <1>1, CharactersAre
<1>4. Sized(s, m) /\ Sized(t, n)
  <2>1. PICK x, y : x = V!Characters(v) /\ y = V!Characters(w) OBVIOUS
  <2>2. Sized(Folded(x, fold), m) /\ Sized(Folded(y, fold), n) BY <1>3, <2>1, FoldedIs
  <2> QED BY <2>1, <2>2
<1>5. ASSUME NEW o \in Nat, o + n <= m
      PROVE  /\ V!Matches(v, o, w, fold) <=> \A k \in 1 .. n : s[o + k] = t[k]
             /\ v.data + o = w.data => V!Matches(v, o, w, fold)
  BY <1>1, <1>5, MatchesIs
<1>6. ASSUME n <= m
      PROVE  /\ V!Matches(v, z, w, fold) <=> \A k \in 1 .. n : s[k] = t[k]
             /\ v.data = w.data => V!Matches(v, z, w, fold)
  <2>1. z + n <= m /\ v.data + z = v.data /\ \A k \in 1 .. n : z + k = k BY <1>1, <1>2, <1>6
  <2>2. /\ V!Matches(v, z, w, fold) <=> \A k \in 1 .. n : s[z + k] = t[k]
        /\ v.data + z = w.data => V!Matches(v, z, w, fold)
    BY <1>2, <1>5, <2>1
  <2>3. (\A k \in 1 .. n : s[z + k] = t[k]) <=> \A k \in 1 .. n : s[k] = t[k] BY <2>1
  <2> QED BY <2>1, <2>2, <2>3
<1>7. V!Equal(v, w, aliased, fold) <=> s = t
  <2>1. V!Equal(v, w, aliased, fold) <=>
          m = n /\ ((aliased /\ v.data = w.data) \/ V!Matches(v, z, w, fold))
    BY <1>1, Zenon DEF V!Equal
  <2>2. s = t <=> n = m /\ \A k \in 1 .. n : s[k] = t[k] BY <1>4, EqualIs
  <2>3. m = n => n <= m BY <1>2
  <2> QED BY <1>6, <2>1, <2>2, <2>3, Zenon
<1>8. V!StartsWith(v, w, aliased, fold) <=> V!IsPrefix(t, s)
  <2>1. V!StartsWith(v, w, aliased, fold) <=>
          m >= n /\ ((aliased /\ v.data = w.data) \/ V!Matches(v, z, w, fold))
    BY <1>1, Zenon DEF V!StartsWith
  <2>2. V!IsPrefix(t, s) <=> n <= m /\ \A k \in 1 .. n : s[k] = t[k] BY <1>4, PrefixIs
  <2>3. m >= n <=> n <= m BY <1>2
  <2> QED BY <1>6, <2>1, <2>2, <2>3, Zenon
<1>9. V!EndsWith(v, w, aliased, fold) <=> V!IsSuffix(t, s)
  <2>1. PICK o : o = m - n OBVIOUS
  <2>2. V!EndsWith(v, w, aliased, fold) <=>
          m >= n /\ ((aliased /\ v.data + o = w.data) \/ V!Matches(v, o, w, fold))
    BY <1>1, <2>1, Zenon DEF V!EndsWith
  <2>3. V!IsSuffix(t, s) <=> n <= m /\ \A k \in 1 .. n : s[o + k] = t[k]
    BY <1>4, <2>1, SuffixIs
  <2>4. m >= n <=> n <= m BY <1>2
  <2>5. n <= m => o \in Nat /\ o + n <= m BY <1>2, <2>1
  <2> QED BY <1>5, <2>2, <2>3, <2>4, <2>5, Zenon
<1> QED BY <1>7, <1>8, <1>9

\* The comparisons of the client's view with any window of the text.
LEMMA ViewCompares ==
  ASSUME ViewInv
  PROVE  V!ComparesCharacters
<1>1. Sized(text, Len(text)) /\ IsView(this) /\ Len(text) \in Nat BY ViewSays DEF ViewInv
<1>2. ASSUME NEW w \in V!Windows, V!InText(w) PROVE IsView(w)
  <2>1. PICK d \in 0 .. Len(text), n \in 0 .. Len(text) : w = V!View(d, n)
    BY <1>2 DEF V!Windows
  <2>2. d \in Nat /\ n \in Nat BY <1>1
  <2>3. w.data = d /\ w.size = n BY <2>1, Zenon DEF V!View
  <2>4. d + n <= Len(text) BY <1>2, <2>3 DEF V!InText
  <2> QED BY <2>1, <2>2, <2>4, IsViewOf
<1>3. ASSUME NEW w \in V!Windows, V!InText(w), NEW aliased \in BOOLEAN,
             NEW s, s = V!Characters(this), NEW t, t = V!Characters(w)
      PROVE  /\ V!Equal(this, w, aliased, FALSE) <=> s = t
             /\ V!StartsWith(this, w, aliased, FALSE) <=> V!IsPrefix(t, s)
             /\ V!EndsWith(this, w, aliased, FALSE) <=> V!IsSuffix(t, s)
             /\ V!Equal(this, w, aliased, TRUE) <=> V!LowerCase(s) = V!LowerCase(t)
             /\ V!StartsWith(this, w, aliased, TRUE) <=> V!IsPrefix(V!LowerCase(t), V!LowerCase(s))
             /\ V!EndsWith(this, w, aliased, TRUE) <=> V!IsSuffix(V!LowerCase(t), V!LowerCase(s))
  <2>1. IsView(w) BY <1>2, <1>3
  <2>2. \A fold \in BOOLEAN :
          /\ V!Equal(this, w, aliased, fold) <=> Folded(s, fold) = Folded(t, fold)
          /\ V!StartsWith(this, w, aliased, fold) <=> V!IsPrefix(Folded(t, fold), Folded(s, fold))
          /\ V!EndsWith(this, w, aliased, fold) <=> V!IsSuffix(Folded(t, fold), Folded(s, fold))
    BY <1>1, <1>3, <2>1, ComparesFolded
  <2>3. /\ Folded(s, FALSE) = s /\ Folded(t, FALSE) = t
        /\ Folded(s, TRUE) = V!LowerCase(s) /\ Folded(t, TRUE) = V!LowerCase(t)
    BY Zenon DEF Folded
  <2> QED BY <2>2, <2>3, Zenon
<1> QED BY <1>3, Zenon DEF V!ComparesCharacters

-----------------------------------------------------------------------------
(* Views: the number one begins with. *)

\* The function that TwoTo is defined by.
Doubling(f) == f = [k \in 0 .. Width |-> IF k = 0 THEN 1 ELSE 2 * f[k - 1]]

\* There is such a function.
LEMMA DoublingExists == \E f : Doubling(f)
<1>1. Width \in Nat BY StringsConstants DEF V!StrViewConstants
<1>2. PICK R, b, step : R = Nat /\ b = 1 /\ step = [a \in Nat \X Nat |-> 2 * a[2]] OBVIOUS
<1>3. step \in [Nat \X R -> R] /\ b \in R
  <2>1. \A a \in Nat \X Nat : 2 * a[2] \in Nat OBVIOUS
  <2> QED BY <1>2, <2>1
<1>4. PICK f : Stepped(f, Width, R, b, step) BY <1>1, <1>3, StepByStep
<1>5. f \in [0 .. Width -> Nat] /\ f[0] = 1 /\ \A k \in 1 .. Width : f[k] = step[<<k, f[k - 1]>>]
  BY <1>2, <1>4 DEF Stepped
<1>6. ASSUME NEW k \in 1 .. Width PROVE f[k] = 2 * f[k - 1]
  <2>1. k - 1 \in 0 .. Width /\ k \in Nat BY <1>1
  <2>2. <<k, f[k - 1]>> \in Nat \X Nat /\ <<k, f[k - 1]>>[2] = f[k - 1] BY <1>5, <2>1
  <2> QED BY <1>2, <1>5, <2>2
<1>7. \A k \in 0 .. Width : f[k] = IF k = 0 THEN 1 ELSE 2 * f[k - 1] BY <1>1, <1>5, <1>6
<1>8. f = [k \in 0 .. Width |-> f[k]] BY <1>5
<1>9. f = [k \in 0 .. Width |-> IF k = 0 THEN 1 ELSE 2 * f[k - 1]] BY <1>7, <1>8
<1> QED BY <1>9, Zenon DEF Doubling

\* The number of the values of an i64_t, and of those of one sign.
Values64 == V!TwoTo[Width]
Half64   == V!TwoTo[Width - 1]

\* There are two times as many values as values of one sign.
LEMMA PowersOfTwo ==
  Values64 \in Nat /\ Half64 \in Nat /\ Half64 > 0 /\ Values64 = 2 * Half64
<1>1. Width \in Nat /\ Width # 0 BY StringsConstants DEF V!StrViewConstants
<1>2. PICK f : f = CHOOSE g : Doubling(g) OBVIOUS
<1>3. f = V!TwoTo BY <1>2, Zenon DEF V!TwoTo, Doubling
<1>4. Doubling(f) BY <1>2, DoublingExists
<1>5. \A k \in 0 .. Width : f[k] = IF k = 0 THEN 1 ELSE 2 * f[k - 1] BY <1>4, Zenon DEF Doubling
<1>6. PICK S : S = {n \in Nat : n <= Width => f[n] \in Nat /\ f[n] > 0} OBVIOUS
<1>7. 0 \in S
  <2>1. 0 \in 0 .. Width BY <1>1
  <2>2. f[0] = 1 BY <1>5, <2>1
  <2> QED BY <1>6, <2>2
<1>8. ASSUME NEW n \in Nat, n \in S PROVE n + 1 \in S
  <2>1. CASE n + 1 <= Width
    <3>1. n + 1 \in 0 .. Width /\ n + 1 # 0 /\ (n + 1) - 1 = n /\ n <= Width BY <1>1, <2>1
    <3>2. f[n + 1] = 2 * f[n] BY <1>5, <3>1
    <3>3. f[n] \in Nat /\ f[n] > 0 BY <1>6, <1>8, <3>1
    <3> QED BY <1>6, <3>2, <3>3
  <2>2. CASE ~(n + 1 <= Width) BY <1>6, <2>2
  <2> QED BY <2>1, <2>2
<1>9. Nat \subseteq S BY <1>7, <1>8, NatSet
<1>10. /\ Width \in 0 .. Width /\ Width \in Nat /\ Width - 1 \in Nat
       /\ Width <= Width /\ Width - 1 <= Width
  BY <1>1
<1>11. f[Width] = 2 * f[Width - 1] BY <1>1, <1>5, <1>10
<1>12. f[Width] \in Nat /\ f[Width - 1] \in Nat /\ f[Width - 1] > 0 BY <1>6, <1>9, <1>10
<1> QED BY <1>3, <1>11, <1>12 DEF Values64, Half64

\* Two numbers that differ by a multiple of 2^64.
Like(a, b) == a \in Int /\ b \in Int /\ \E q \in Int : a = b - Values64 * q

\* Every number is like itself.
LEMMA LikeSame ==
  ASSUME NEW a \in Int
  PROVE  Like(a, a)
<1>1. Values64 \in Int /\ a = a - Values64 * 0 BY PowersOfTwo
<1> QED BY <1>1 DEF Like

\* Like numbers stay like when both are multiplied and added to.
LEMMA LikeScaled ==
  ASSUME NEW a, NEW b, Like(a, b), NEW c \in Int, NEW d \in Int
  PROVE  Like(a * c + d, b * c + d)
<1>1. a \in Int /\ b \in Int /\ Values64 \in Int BY PowersOfTwo DEF Like
<1>2. PICK q \in Int : a = b - Values64 * q BY DEF Like
<1>3. PICK m : m = Values64 OBVIOUS
<1>4. ASSUME NEW x \in Int, NEW y \in Int PROVE (b - x * y) * c + d = (b * c + d) - x * (y * c)
  BY <1>1
<1>5. a * c + d = (b * c + d) - m * (q * c) BY <1>1, <1>2, <1>3, <1>4
<1>6. q * c \in Int /\ a * c + d \in Int /\ b * c + d \in Int BY <1>1
<1> QED BY <1>3, <1>5, <1>6 DEF Like

\* What is like a number that is like another is like that.
LEMMA LikeLike ==
  ASSUME NEW a, NEW b, NEW c, Like(a, b), Like(b, c)
  PROVE  Like(a, c)
<1>1. a \in Int /\ b \in Int /\ c \in Int /\ Values64 \in Int BY PowersOfTwo DEF Like
<1>2. PICK p \in Int : a = b - Values64 * p BY DEF Like
<1>3. PICK q \in Int : b = c - Values64 * q BY DEF Like
<1>4. ASSUME NEW x \in Int PROVE (c - x * q) - x * p = c - x * (p + q) BY <1>1
<1>5. a = c - Values64 * (p + q) BY <1>1, <1>2, <1>3, <1>4
<1>6. p + q \in Int OBVIOUS
<1> QED BY <1>1, <1>5, <1>6 DEF Like

\* Quotient and rest.
LEMMA DividedBy ==
  ASSUME NEW m \in Nat, m > 0, NEW n \in Int
  PROVE  n % m \in 0 .. m - 1 /\ \E q \in Int : n = m * q + (n % m)
<1>1. n % m \in 0 .. m - 1 /\ n \div m \in Int OBVIOUS
<1>2. ASSUME NEW q \in Int, NEW r \in Int, q = n \div m, r = n % m PROVE n = m * q + r
  BY <1>2, SMT
<1>3. n = m * (n \div m) + (n % m) BY <1>1, <1>2
<1> QED BY <1>1, <1>3

\* The difference of like numbers is divided without rest.
LEMMA LikeRest ==
  ASSUME NEW a, NEW b, Like(a, b)
  PROVE  (a - b) % Values64 = 0
<1>1. a \in Int /\ b \in Int /\ Values64 \in Nat /\ Values64 > 0 BY PowersOfTwo DEF Like
<1>2. PICK q \in Int : a = b - Values64 * q BY DEF Like
<1>3. PICK m, r : m = Values64 /\ r = (a - b) % Values64 OBVIOUS
<1>4. r \in 0 .. m - 1 /\ \E p \in Int : a - b = m * p + r BY <1>1, <1>3, DividedBy
<1>5. PICK p \in Int : a - b = m * p + r BY <1>4
<1>6. a - b = -(m * q) BY <1>1, <1>2, <1>3
<1>7. PICK x : x = p + q OBVIOUS
<1>8. x \in Int /\ m * x + r = 0 BY <1>1, <1>3, <1>4, <1>5, <1>6, <1>7
<1>9. ASSUME x >= 1 PROVE m * x >= m BY <1>1, <1>3, <1>8, <1>9
<1>10. ASSUME x <= -1 PROVE m * x <= -m BY <1>1, <1>3, <1>8, <1>10
<1>11. m * x = -r /\ m \in Int /\ r \in Int /\ r >= 0 /\ r < m /\ m > 0 BY <1>1, <1>3, <1>4, <1>8
<1>12. x = 0
  <2>1. PICK y : y = m * x OBVIOUS
  <2>2. y = -r BY <1>11, <2>1
  <2>3. x >= 1 => y >= m BY <1>9, <2>1
  <2>4. x <= -1 => y <= -m BY <1>10, <2>1
  <2> QED BY <1>8, <1>11, <2>2, <2>3, <2>4
<1>13. m * x = 0 BY <1>11, <1>12
<1>14. r = 0 BY <1>11, <1>13
<1> QED BY <1>3, <1>14

\* What the arithmetic of an i64_t makes of a number.
LEMMA WrapIs ==
  ASSUME NEW n \in Int
  PROVE  Like(V!Wrap(n), n) /\ V!Wrap(n) \in -Half64 .. Half64 - 1
<1>1. PICK m, h, r : m = Values64 /\ h = Half64 /\ r = (n + h) % m OBVIOUS
<1>2. m \in Nat /\ h \in Nat /\ m > 0 /\ m = 2 * h BY <1>1, PowersOfTwo
<1>3. n + h \in Int BY <1>2
<1>4. r \in 0 .. m - 1 /\ \E q \in Int : n + h = m * q + r BY <1>1, <1>2, <1>3, DividedBy
<1>5. PICK q \in Int : n + h = m * q + r BY <1>4
<1>6. V!Wrap(n) = r - h BY <1>1, Zenon DEF V!Wrap, Values64, Half64
<1>7. r \in Int /\ r - h = n - m * q /\ r - h \in Int /\ r - h \in -h .. h - 1
  BY <1>2, <1>4, <1>5
<1> QED BY <1>1, <1>6, <1>7 DEF Like

\* The digits from a place of a view on; u are the characters from there.
Following(w, pos, u) ==
  /\ pos \in 0 .. w.size
  /\ Sized(u, w.size - pos)
  /\ \A k \in 1 .. w.size - pos : u[k] = V!Char(w, pos + k - 1)

Stop(w, pos) ==
  V!Min({i \in pos .. w.size : i = w.size \/ V!Char(w, i) \notin DOMAIN Digit})

Digits(u) == V!Max({k \in 0 .. Len(u) : \A j \in 1 .. k : u[j] \in DOMAIN Digit})

\* uga_sv_parse_int looks at the digits, all of them and nothing else.
LEMMA StopIs ==
  ASSUME NEW w, IsView(w), NEW pos, NEW u, Following(w, pos, u)
  PROVE  /\ Digits(u) \in 0 .. w.size - pos /\ Stop(w, pos) - pos = Digits(u)
         /\ \A k \in 1 .. Digits(u) : u[k] \in DOMAIN Digit
<1>1. PICK m, len : m = w.size /\ len = w.size - pos OBVIOUS
<1>2. /\ pos \in Nat /\ m \in Nat /\ len \in Nat /\ pos <= m /\ len = m - pos
      /\ Sized(u, len) /\ \A k \in 1 .. len : u[k] = V!Char(w, pos + k - 1)
  BY <1>1, ViewIs DEF Following
<1>3. Len(u) = len BY <1>2, SizedIs
<1>4. PICK S, T : /\ S = {i \in pos .. m : i = m \/ V!Char(w, i) \notin DOMAIN Digit}
                  /\ T = {k \in 0 .. len : \A j \in 1 .. k : u[j] \in DOMAIN Digit}
  OBVIOUS
<1>5. PICK s, n : s = V!Min(S) /\ n = V!Max(T) OBVIOUS
<1>6. s = Stop(w, pos) /\ n = Digits(u) BY <1>1, <1>3, <1>4, <1>5, Zenon DEF Stop, Digits
<1>7. S \subseteq Nat /\ m \in S BY <1>2, <1>4
<1>8. T \subseteq 0 .. len /\ 0 \in T BY <1>2, <1>4
<1>9. s \in S /\ \A i \in S : s <= i BY <1>5, <1>7, MinIs
<1>10. n \in T /\ \A k \in T : k <= n BY <1>2, <1>5, <1>8, MaxIs
<1>11. /\ s \in pos .. m /\ (s = m \/ V!Char(w, s) \notin DOMAIN Digit)
       /\ n \in 0 .. len /\ \A j \in 1 .. n : u[j] \in DOMAIN Digit
  BY <1>4, <1>9, <1>10
<1>12. PICK d : d = s - pos OBVIOUS
<1>13. d \in 0 .. len /\ s = pos + d BY <1>2, <1>11, <1>12
<1>14. ASSUME NEW j \in 1 .. d PROVE u[j] \in DOMAIN Digit
  <2>1. PICK i : i = pos + j - 1 OBVIOUS
  <2>2. i \in pos .. m /\ ~(s <= i) /\ i # m /\ j \in 1 .. len BY <1>2, <1>13, <2>1
  <2>3. i \notin S BY <1>9, <2>2
  <2>4. V!Char(w, i) \in DOMAIN Digit BY <1>4, <2>2, <2>3
  <2> QED BY <1>2, <2>1, <2>2, <2>4
<1>15. d \in T BY <1>4, <1>13, <1>14
<1>16. d <= n BY <1>10, <1>15
<1>17. ~(d < n)
  <2> SUFFICES ASSUME d < n PROVE FALSE OBVIOUS
  <2>1. PICK j : j = d + 1 OBVIOUS
  <2>2. j \in 1 .. n /\ j \in 1 .. len /\ pos + j - 1 = s /\ s # m
    BY <1>2, <1>11, <1>13, <2>1
  <2>3. u[j] \in DOMAIN Digit /\ u[j] = V!Char(w, s) BY <1>2, <1>11, <2>2
  <2> QED BY <1>11, <2>2, <2>3
<1>18. d = n BY <1>11, <1>13, <1>16, <1>17
<1> QED BY <1>1, <1>6, <1>11, <1>12, <1>18

\* The functions that Denoted and ParseInt are defined by.
Numbering(f, n, u) ==
  f = [k \in 0 .. n |-> IF k = 0 THEN 0 ELSE f[k - 1] * 10 + Digit[u[k]]]

Parsing(f, n, w, pos) ==
  f = [i \in 0 .. n |->
         IF i = 0 THEN 0 ELSE V!Wrap(f[i - 1] * 10 + Digit[V!Char(w, pos + i - 1)])]

Numbered(n, u) == CHOOSE f : Numbering(f, n, u)

Parsed(n, w, pos) == CHOOSE f : Parsing(f, n, w, pos)

\* Numbers made up of n digits, one by one, whatever is done to them on the way.
Built(f, n, u, Through) ==
  /\ f \in [0 .. n -> Int] /\ f[0] = 0
  /\ \A k \in 1 .. n : /\ f[k - 1] * 10 + Digit[u[k]] \in Int
                       /\ f[k] = Through[f[k - 1] * 10 + Digit[u[k]]]

\* A digit has a value.
LEMMA DigitIs ==
  ASSUME NEW c \in DOMAIN Digit
  PROVE  Digit[c] \in Int
BY StringsConstants DEF V!StrViewConstants

\* There is such a function, whatever the digits.
LEMMA BuiltExists ==
  ASSUME NEW n \in Nat, NEW u, \A k \in 1 .. n : u[k] \in DOMAIN Digit,
         NEW Through \in [Int -> Int]
  PROVE  \E f : Built(f, n, u, Through)
<1>1. PICK b, step :
        /\ b = 0
        /\ step = [a \in Nat \X Int |->
                     IF a[1] \in 1 .. n THEN Through[a[2] * 10 + Digit[u[a[1]]]] ELSE 0]
  OBVIOUS
<1>2. ASSUME NEW a \in Nat \X Int
      PROVE  (IF a[1] \in 1 .. n THEN Through[a[2] * 10 + Digit[u[a[1]]]] ELSE 0) \in Int
  <2>1. CASE a[1] \in 1 .. n
    <3>1. Digit[u[a[1]]] \in Int BY <2>1, DigitIs
    <3>2. a[2] * 10 + Digit[u[a[1]]] \in Int BY <3>1
    <3> QED BY <2>1, <3>2
  <2>2. CASE a[1] \notin 1 .. n BY <2>2
  <2> QED BY <2>1, <2>2
<1>3. b \in Int /\ step \in [Nat \X Int -> Int] BY <1>1, <1>2
<1>4. PICK R : R = Int OBVIOUS
<1>5. \E f : Stepped(f, n, R, b, step)
  <2>1. b \in R /\ step \in [Nat \X R -> R] BY <1>3, <1>4
  <2> QED BY <2>1, StepByStep
<1>6. PICK f \in [0 .. n -> Int] : f[0] = 0 /\ \A k \in 1 .. n : f[k] = step[<<k, f[k - 1]>>]
  BY <1>1, <1>4, <1>5 DEF Stepped
<1>7. ASSUME NEW k \in 1 .. n
      PROVE  /\ f[k - 1] * 10 + Digit[u[k]] \in Int
             /\ f[k] = Through[f[k - 1] * 10 + Digit[u[k]]]
  <2>1. k - 1 \in 0 .. n /\ k \in Nat OBVIOUS
  <2>2. PICK a : a = <<k, f[k - 1]>> OBVIOUS
  <2>3. a \in Nat \X Int /\ a[1] = k /\ a[2] = f[k - 1] BY <1>6, <2>1, <2>2
  <2>4. step[a] = Through[a[2] * 10 + Digit[u[a[1]]]] BY <1>1, <2>3
  <2>5. f[k - 1] \in Int /\ Digit[u[k]] \in Int BY <1>6, <2>1, DigitIs
  <2>6. f[k - 1] * 10 + Digit[u[k]] \in Int
    <3>1. \A x \in Int, y \in Int : x * 10 + y \in Int OBVIOUS
    <3> QED BY <2>5, <3>1, Zenon
  <2>7. f[k] = step[a] BY <1>6, <2>2
  <2>8. f[k] = Through[f[k - 1] * 10 + Digit[u[k]]] BY <2>3, <2>4, <2>7
  <2> QED BY <2>6, <2>8
<1> QED BY <1>6, <1>7 DEF Built

\* Digit by digit, what has been parsed is like the number.
LEMMA ParsesDigits ==
  ASSUME NEW n \in Nat, NEW u, \A k \in 1 .. n : u[k] \in DOMAIN Digit, NEW w, NEW pos,
         \A k \in 1 .. n : u[k] = V!Char(w, pos + k - 1)
  PROVE  Like(Parsed(n, w, pos)[n], Numbered(n, u)[n])
<1>0. PICK f, h : f = Parsed(n, w, pos) /\ h = Numbered(n, u) OBVIOUS
<1>1. PICK wrap, same : wrap = [x \in Int |-> V!Wrap(x)] /\ same = [x \in Int |-> x] OBVIOUS
<1>2. wrap \in [Int -> Int] /\ same \in [Int -> Int]
  <2>1. \A x \in Int : V!Wrap(x) \in Int BY WrapIs DEF Like
  <2> QED BY <1>1, <2>1
<1>3. PICK p : Built(p, n, u, wrap) BY <1>2, BuiltExists
<1>4. PICK q : Built(q, n, u, same) BY <1>2, BuiltExists
<1>6. \E g : Parsing(g, n, w, pos)
  <2>1. ASSUME NEW k \in 0 .. n
        PROVE  p[k] = IF k = 0 THEN 0 ELSE V!Wrap(p[k - 1] * 10 + Digit[V!Char(w, pos + k - 1)])
    <3>1. CASE k = 0 BY <1>3, <3>1 DEF Built
    <3>2. CASE k # 0
      <4>1. k \in 1 .. n BY <3>2
      <4>2. /\ p[k - 1] * 10 + Digit[u[k]] \in Int
            /\ p[k] = wrap[p[k - 1] * 10 + Digit[u[k]]]
        BY <1>3, <4>1 DEF Built
      <4>3. p[k] = V!Wrap(p[k - 1] * 10 + Digit[u[k]]) BY <1>1, <4>2
      <4> QED BY <3>2, <4>1, <4>3
    <3> QED BY <3>1, <3>2
  <2>2. p = [k \in 0 .. n |-> p[k]] BY <1>3 DEF Built
  <2>3. p = [k \in 0 .. n |->
               IF k = 0 THEN 0 ELSE V!Wrap(p[k - 1] * 10 + Digit[V!Char(w, pos + k - 1)])]
    BY <2>1, <2>2
  <2>4. Parsing(p, n, w, pos) BY <2>3, Zenon DEF Parsing
  <2> QED BY <2>4
<1>7. Parsing(f, n, w, pos) BY <1>0, <1>6, Zenon DEF Parsed
<1>8. \A k \in 0 .. n :
        f[k] = IF k = 0 THEN 0 ELSE V!Wrap(f[k - 1] * 10 + Digit[V!Char(w, pos + k - 1)])
  BY <1>7, Zenon DEF Parsing
<1>9. \E g : Numbering(g, n, u)
  <2>1. ASSUME NEW k \in 0 .. n PROVE q[k] = IF k = 0 THEN 0 ELSE q[k - 1] * 10 + Digit[u[k]]
    <3>1. CASE k = 0 BY <1>4, <3>1 DEF Built
    <3>2. CASE k # 0
      <4>1. k \in 1 .. n BY <3>2
      <4>2. /\ q[k - 1] * 10 + Digit[u[k]] \in Int
            /\ q[k] = same[q[k - 1] * 10 + Digit[u[k]]]
        BY <1>4, <4>1 DEF Built
      <4> QED BY <1>1, <3>2, <4>2
    <3> QED BY <3>1, <3>2
  <2>2. q = [k \in 0 .. n |-> q[k]] BY <1>4 DEF Built
  <2>3. q = [k \in 0 .. n |-> IF k = 0 THEN 0 ELSE q[k - 1] * 10 + Digit[u[k]]] BY <2>1, <2>2
  <2>4. Numbering(q, n, u) BY <2>3, Zenon DEF Numbering
  <2> QED BY <2>4
<1>10. Numbering(h, n, u) BY <1>0, <1>9, Zenon DEF Numbered
<1>11. \A k \in 0 .. n : h[k] = IF k = 0 THEN 0 ELSE h[k - 1] * 10 + Digit[u[k]]
  BY <1>10, Zenon DEF Numbering
<1>12. PICK S : S = {k \in Nat : k <= n => Like(f[k], h[k])} OBVIOUS
<1>13. 0 \in S
  <2>1. f[0] = 0 /\ h[0] = 0 BY <1>8, <1>11
  <2>2. PICK z : z = 0 OBVIOUS
  <2>3. Like(z, z) BY <2>2, LikeSame
  <2> QED BY <1>12, <2>1, <2>2, <2>3
<1>14. ASSUME NEW k \in Nat, k \in S PROVE k + 1 \in S
  <2>1. CASE k + 1 <= n
    <3>1. k + 1 \in 1 .. n /\ k + 1 \in 0 .. n /\ k + 1 # 0 /\ (k + 1) - 1 = k /\ k <= n BY <2>1
    <3>2. PICK d : d = Digit[u[k + 1]] OBVIOUS
    <3>3. Like(f[k], h[k]) /\ d \in Int BY <1>12, <1>14, <3>1, <3>2, DigitIs
    <3>4. f[k + 1] = V!Wrap(f[k] * 10 + d) /\ h[k + 1] = h[k] * 10 + d
      <4>1. f[k + 1] = V!Wrap(f[k] * 10 + Digit[V!Char(w, pos + (k + 1) - 1)]) BY <1>8, <3>1
      <4>2. u[k + 1] = V!Char(w, pos + (k + 1) - 1) BY <3>1
      <4> QED BY <1>11, <3>1, <3>2, <4>1, <4>2
    <3>5. PICK ten : ten = 10 OBVIOUS
    <3>6. ten \in Int BY <3>5
    <3>7. PICK x, y : x = f[k] * ten + d /\ y = h[k] * ten + d OBVIOUS
    <3>8. Like(x, y) BY <3>3, <3>6, <3>7, LikeScaled
    <3>9. x \in Int BY <3>8 DEF Like
    <3>10. Like(V!Wrap(x), x) BY <3>9, WrapIs
    <3>11. Like(V!Wrap(x), y) BY <3>8, <3>10, LikeLike
    <3>12. f[k + 1] = V!Wrap(x) /\ h[k + 1] = y BY <3>4, <3>5, <3>7
    <3> QED BY <1>12, <3>11, <3>12
  <2>2. CASE ~(k + 1 <= n) BY <1>12, <2>2
  <2> QED BY <2>1, <2>2
<1>15. Nat \subseteq S BY <1>13, <1>14, NatSet
<1>16. n \in S /\ n <= n BY <1>15
<1> QED BY <1>0, <1>12, <1>16

\* uga_sv_parse_int in terms of its digits and its sign.
LEMMA ParseIntIs ==
  ASSUME NEW v, NEW w, w = V!Trim(v),
         NEW pos, pos = (IF ~V!Empty(w) /\ V!Char(w, 0) \in {"+", "-"} THEN 1 ELSE 0),
         NEW sign, sign = (IF ~V!Empty(w) /\ V!Char(w, 0) = "-" THEN -1 ELSE 1),
         NEW n, n = Stop(w, pos) - pos
  PROVE  V!ParseInt(v) = V!Wrap(sign * Parsed(n, w, pos)[n])
<1> DEFINE digits == V!Trim(v)
           place  == IF ~V!Empty(digits) /\ V!Char(digits, 0) \in {"+", "-"} THEN 1 ELSE 0
           minus  == IF ~V!Empty(digits) /\ V!Char(digits, 0) = "-" THEN -1 ELSE 1
           stop   == V!Min({i \in place .. digits.size :
                              i = digits.size \/ V!Char(digits, i) \notin DOMAIN Digit})
           val    == CHOOSE f : f = [i \in 0 .. stop - place |->
                       IF i = 0 THEN 0
                       ELSE V!Wrap(f[i - 1] * 10 + Digit[V!Char(digits, place + i - 1)])]
<1>1. V!ParseInt(v) = V!Wrap(minus * val[stop - place]) BY Zenon DEF V!ParseInt
<1>2. stop = Stop(digits, place) BY Zenon DEF Stop
<1>3. val = Parsed(stop - place, digits, place) BY Zenon DEF Parsed, Parsing
<1>4. digits = w /\ place = pos /\ minus = sign BY Zenon
<1> HIDE DEF digits, place, minus, stop, val
<1>5. stop - place = n BY <1>2, <1>4
<1> QED BY <1>1, <1>3, <1>4, <1>5

\* The number denoted, in terms of its digits.
LEMMA DenotedIs ==
  ASSUME NEW u, NEW n, n = Digits(u)
  PROVE  V!Denoted(u) = Numbered(n, u)[n]
<1> DEFINE most == V!Max({k \in 0 .. Len(u) : \A j \in 1 .. k : u[j] \in DOMAIN Digit})
           number == CHOOSE f : f = [k \in 0 .. most |->
                       IF k = 0 THEN 0 ELSE f[k - 1] * 10 + Digit[u[k]]]
<1>1. V!Denoted(u) = number[most] BY Zenon DEF V!Denoted
<1>2. most = n BY Zenon DEF Digits
<1>3. number = Numbered(most, u) BY Zenon DEF Numbered, Numbering
<1> HIDE DEF most, number
<1> QED BY <1>1, <1>2, <1>3

\* The number found is like the one that the characters behind the sign denote.
LEMMA ParsesFollowing ==
  ASSUME NEW v, NEW w, w = V!Trim(v), IsView(w),
         NEW pos, pos = (IF ~V!Empty(w) /\ V!Char(w, 0) \in {"+", "-"} THEN 1 ELSE 0),
         NEW sign, sign = (IF ~V!Empty(w) /\ V!Char(w, 0) = "-" THEN -1 ELSE 1),
         NEW u, Following(w, pos, u)
  PROVE  /\ Like(V!ParseInt(v), sign * V!Denoted(u))
         /\ V!Denoted(u) \in Int /\ V!ParseInt(v) \in -Half64 .. Half64 - 1
<1>1. PICK n, len : n = Digits(u) /\ len = w.size - pos OBVIOUS
<1>2. /\ n \in 0 .. len /\ n = Stop(w, pos) - pos
      /\ \A k \in 1 .. n : u[k] \in DOMAIN Digit
  BY <1>1, StopIs
<1>3. len \in Nat /\ \A k \in 1 .. len : u[k] = V!Char(w, pos + k - 1)
  BY <1>1, ViewIs DEF Following
<1>4. n \in Nat /\ \A k \in 1 .. n : u[k] = V!Char(w, pos + k - 1) BY <1>2, <1>3
<1>5. PICK f, h : f = Parsed(n, w, pos) /\ h = Numbered(n, u) OBVIOUS
<1>6. Like(f[n], h[n])
  <2>1. n \in Nat /\ \A k \in 1 .. n : u[k] \in DOMAIN Digit BY <1>2, <1>4
  <2> QED BY <1>4, <1>5, <2>1, ParsesDigits
<1>7. V!ParseInt(v) = V!Wrap(sign * f[n]) BY <1>2, <1>5, ParseIntIs
<1>8. V!Denoted(u) = h[n] BY <1>1, <1>5, DenotedIs
<1>9. PICK a, b, c, z : a = f[n] /\ b = h[n] /\ c = sign /\ z = 0 OBVIOUS
<1>10. a \in Int /\ b \in Int BY <1>6, <1>9 DEF Like
<1>11. c \in Int /\ z \in Int BY <1>9
<1>12. Like(a * c + z, b * c + z) BY <1>6, <1>9, <1>11, LikeScaled
<1>13. a * c + z = c * a /\ b * c + z = c * b BY <1>9, <1>10, <1>11
<1>14. PICK x, y : x = c * a /\ y = c * b OBVIOUS
<1>15. Like(x, y) BY <1>12, <1>13, <1>14
<1>16. x \in Int BY <1>15 DEF Like
<1>17. Like(V!Wrap(x), x) /\ V!Wrap(x) \in -Half64 .. Half64 - 1 BY <1>16, WrapIs
<1>18. Like(V!Wrap(x), y) BY <1>15, <1>17, LikeLike
<1>19. V!ParseInt(v) = V!Wrap(x) /\ sign * V!Denoted(u) = y BY <1>7, <1>8, <1>9, <1>14
<1> QED BY <1>8, <1>9, <1>10, <1>17, <1>18, <1>19

\* What follows the first element of a sequence.
LEMMA TailIs ==
  ASSUME NEW m \in Nat, m > 0, NEW s, Sized(s, m)
  PROVE  Sized(Tail(s), m - 1) /\ (\A k \in 1 .. m - 1 : Tail(s)[k] = s[k + 1]) /\ Head(s) = s[1]
<1>1. PICK one : one = 1 OBVIOUS
<1>2. one \in Nat /\ one <= m /\ m <= m BY <1>1
<1>3. Len(s) = m BY SizedIs
<1>4. Part(s, one, m) = SubSeq(s, 2, Len(s))
  <2>1. one + 1 = 2 BY <1>1
  <2> QED BY <1>3, <2>1 DEF Part
<1>5. PICK S : S = {s[k] : k \in 1 .. m} OBVIOUS
<1>6. s \in Seq(S)
  <2>1. \A k \in 1 .. m : s[k] \in S BY <1>5
  <2> QED BY <2>1, SizedIs
<1>7. s # <<>> BY <1>3
<1>8. Tail(s) = Part(s, one, m)
  <2>1. Tail(s) = SubSeq(s, 2, Len(s)) BY <1>6, <1>7, TailIsSubSeq
  <2> QED BY <1>4, <2>1
<1>9. Head(s) = s[1] BY <1>6, <1>7
<1>10. Sized(Part(s, one, m), m - one) /\ \A k \in 1 .. m - one : Part(s, one, m)[k] = s[one + k]
  BY <1>2, SizedPart
<1>11. m - one = m - 1 /\ \A k \in 1 .. m - one : one + k = k + 1 BY <1>1
<1> QED BY <1>8, <1>9, <1>10, <1>11

\* The only sequence without elements.
LEMMA SizedNone ==
  ASSUME NEW m, NEW s, Sized(s, m)
  PROVE  s # <<>> <=> m # 0
<1>1. m \in Nat /\ Len(s) = m BY SizedIs
<1>2. ASSUME m = 0 PROVE s = <<>>
  <2>1. PICK S : S = {s[k] : k \in 1 .. m} OBVIOUS
  <2>2. \A k \in 1 .. m : s[k] \in S BY <2>1
  <2>3. s \in Seq(S) BY <2>2, SizedIs
  <2> QED BY <1>1, <1>2, <2>3
<1> QED BY <1>1, <1>2

\* uga_sv_parse_int: the number at the beginning of the client's view.
LEMMA ViewParses ==
  ASSUME ViewInv
  PROVE  V!ParsesNumber
<1>1. Sized(text, Len(text)) /\ IsView(this) BY DEF ViewInv
<1>2. PICK w, m, s : w = V!Trim(this) /\ m = w.size /\ s = V!Characters(w) OBVIOUS
<1>3. IsView(w) BY <1>1, <1>2, TrimIs, ViewIs, IsViewOf DEF Trimmed
<1>4. m \in Nat /\ Sized(s, m) /\ Len(s) = m /\ \A k \in 1 .. m : s[k] = V!Char(w, k - 1)
  BY <1>1, <1>2, <1>3, ViewIs, CharactersAre
<1>5. V!Empty(w) <=> m = 0 BY <1>2, Zenon DEF V!Empty
<1>6. PICK pos, sign :
        /\ pos = (IF ~V!Empty(w) /\ V!Char(w, 0) \in {"+", "-"} THEN 1 ELSE 0)
        /\ sign = (IF ~V!Empty(w) /\ V!Char(w, 0) = "-" THEN -1 ELSE 1)
  OBVIOUS
<1>7. PICK u : u = IF pos = 1 THEN Tail(s) ELSE s OBVIOUS
<1>8. PICK n : n = IF s # <<>> /\ Head(s) = "-" THEN -V!Denoted(Tail(s))
                   ELSE IF s # <<>> /\ Head(s) = "+" THEN V!Denoted(Tail(s)) ELSE V!Denoted(s)
  OBVIOUS
<1>9. s # <<>> <=> m # 0 BY <1>4, SizedNone
<1>10. ASSUME m # 0
       PROVE  /\ Head(s) = V!Char(w, 0) /\ Sized(Tail(s), m - 1)
              /\ \A k \in 1 .. m - 1 : Tail(s)[k] = s[k + 1]
  <2>1. m > 0 /\ 1 \in 1 .. m /\ 1 - 1 = 0 BY <1>4, <1>10
  <2>2. s[1] = V!Char(w, 1 - 1) BY <1>4, <2>1
  <2>3. Sized(Tail(s), m - 1) /\ (\A k \in 1 .. m - 1 : Tail(s)[k] = s[k + 1]) /\ Head(s) = s[1]
    BY <1>4, <2>1, TailIs
  <2> QED BY <2>1, <2>2, <2>3
<1>11. Following(w, pos, u)
  <2>1. CASE pos = 1
    <3>1. m # 0 /\ u = Tail(s) BY <1>5, <1>6, <1>7, <2>1
    <3>2. pos \in 0 .. m /\ m - pos = m - 1 BY <1>4, <2>1, <3>1
    <3>3. ASSUME NEW k \in 1 .. m - pos PROVE u[k] = V!Char(w, pos + k - 1)
      <4>1. k \in 1 .. m - 1 /\ k + 1 \in 1 .. m /\ (k + 1) - 1 = pos + k - 1
        BY <1>4, <2>1, <3>2
      <4>2. u[k] = s[k + 1] BY <1>10, <3>1, <4>1
      <4>3. s[k + 1] = V!Char(w, (k + 1) - 1) BY <1>4, <4>1
      <4> QED BY <4>1, <4>2, <4>3
    <3>4. Sized(u, m - pos) BY <1>10, <3>1, <3>2
    <3> QED BY <1>2, <3>2, <3>3, <3>4 DEF Following
  <2>2. CASE pos # 1
    <3>1. pos = 0 /\ u = s BY <1>6, <1>7, <2>2
    <3>2. pos \in 0 .. m /\ m - pos = m BY <1>4, <3>1
    <3>3. ASSUME NEW k \in 1 .. m - pos PROVE u[k] = V!Char(w, pos + k - 1)
      <4>1. k \in 1 .. m /\ pos + k - 1 = k - 1 BY <1>4, <3>1
      <4> QED BY <1>4, <3>1, <4>1
    <3>4. Sized(u, m - pos) BY <1>4, <3>1, <3>2
    <3> QED BY <1>2, <3>2, <3>3, <3>4 DEF Following
  <2> QED BY <2>1, <2>2
<1>12. n = IF sign = -1 THEN -V!Denoted(u) ELSE V!Denoted(u)
  <2>1. CASE m = 0
    <3>1. pos # 1 /\ sign = 1 BY <1>5, <1>6, <2>1
    <3> QED BY <1>7, <1>8, <1>9, <2>1, <3>1
  <2>2. CASE m # 0
    <3>1. PICK c : c = V!Char(w, 0) OBVIOUS
    <3>2. Head(s) = c /\ s # <<>> BY <1>9, <1>10, <2>2, <3>1
    <3>3. pos = (IF c \in {"+", "-"} THEN 1 ELSE 0) /\ sign = (IF c = "-" THEN -1 ELSE 1)
      BY <1>5, <1>6, <2>2, <3>1
    <3>4. CASE c = "-" BY <1>7, <1>8, <3>2, <3>3, <3>4
    <3>5. CASE c = "+" BY <1>7, <1>8, <3>2, <3>3, <3>5
    <3>6. CASE c \notin {"+", "-"} BY <1>7, <1>8, <3>2, <3>3, <3>6
    <3> QED BY <3>4, <3>5, <3>6
  <2> QED BY <2>1, <2>2
<1>13. /\ Like(V!ParseInt(this), sign * V!Denoted(u))
       /\ V!Denoted(u) \in Int /\ V!ParseInt(this) \in -Half64 .. Half64 - 1
  BY <1>2, <1>3, <1>6, <1>11, ParsesFollowing
<1>14. sign * V!Denoted(u) = n BY <1>6, <1>12, <1>13
<1>15. (V!ParseInt(this) - n) % Values64 = 0 BY <1>13, <1>14, LikeRest
<1> QED BY <1>2, <1>8, <1>13, <1>15, Zenon DEF V!ParsesNumber, Values64, Half64

(***************************************************************************)
(* The comparisons of views ask about their characters, also where the     *)
(* short cut by pointer is taken, and uga_sv_parse_int gives the number    *)
(* that stands at the beginning of a view, modulo 2^64.                    *)
(***************************************************************************)
THEOREM StringsRead == AnySpec => []ReadsAsText
<1>1. ViewGood => ReadsAsText BY ViewCompares, ViewParses DEF ReadsAsText, Viewing, ViewGood
<1> QED BY <1>1, ViewAlways, PTL

-----------------------------------------------------------------------------
(* Taking a text apart at a delimiter. *)

\* What a text and the pieces of it are made of.
Letters == (UNION Alphabets) \union {Delimiter}

Pieces == Seq(Seq(Letters))

\* The function that Joined is defined by.
Joining(f, pieces) ==
  f = [k \in 0 .. Len(pieces) |->
         IF k = 0 THEN <<>> ELSE f[k - 1] \o pieces[k] \o <<Delimiter>>]

\* There is such a function.
LEMMA JoiningExists ==
  ASSUME NEW pieces \in Pieces
  PROVE  \E f : Joining(f, pieces)
<1> DEFINE R == Seq(Letters)
           step == [a \in Nat \X R |->
                      IF a[1] \in 1 .. Len(pieces) THEN a[2] \o pieces[a[1]] \o <<Delimiter>> ELSE <<>>]
<1>1. Len(pieces) \in Nat /\ \A k \in 1 .. Len(pieces) : pieces[k] \in R BY DEF Pieces
<1>2. <<Delimiter>> \in R /\ <<>> \in R
  <2>1. Delimiter \in Letters BY DEF Letters
  <2> QED BY <2>1
<1>3. step \in [Nat \X R -> R]
  <2>1. ASSUME NEW a \in Nat \X R
        PROVE  (IF a[1] \in 1 .. Len(pieces) THEN a[2] \o pieces[a[1]] \o <<Delimiter>> ELSE <<>>) \in R
    <3>1. a[2] \in R OBVIOUS
    <3>2. CASE a[1] \in 1 .. Len(pieces)
      <4>1. pieces[a[1]] \in R BY <1>1, <3>2
      <4>2. \A s \in R, t \in R : s \o t \in R OBVIOUS
      <4> HIDE DEF R
      <4>3. a[2] \o pieces[a[1]] \in R BY <3>1, <4>1, <4>2
      <4>4. (a[2] \o pieces[a[1]]) \o <<Delimiter>> \in R BY <1>2, <4>2, <4>3
      <4> QED BY <3>2, <4>4
    <3>3. CASE a[1] \notin 1 .. Len(pieces) BY <1>2, <3>3
    <3> QED BY <3>2, <3>3
  <2> HIDE DEF R
  <2> QED BY <2>1
<1>4. \A k \in 1 .. Len(pieces), s \in R : step[<<k, s>>] = s \o pieces[k] \o <<Delimiter>>
  <2>1. ASSUME NEW k \in 1 .. Len(pieces), NEW s \in R
        PROVE  step[<<k, s>>] = s \o pieces[k] \o <<Delimiter>>
    <3>1. <<k, s>> \in Nat \X R /\ <<k, s>>[1] = k /\ <<k, s>>[2] = s BY <1>1
    <3> HIDE DEF R
    <3> QED BY <3>1
  <2> QED BY <2>1
<1>5. PICK f \in [0 .. Len(pieces) -> R] :
        f[0] = <<>> /\ \A k \in 1 .. Len(pieces) : f[k] = step[<<k, f[k - 1]>>]
  <2> HIDE DEF R, step
  <2>1. PICK Q, st, b, n : Q = R /\ st = step /\ b = <<>> /\ n = Len(pieces) OBVIOUS
  <2>2. b \in Q /\ n \in Nat /\ st \in [Nat \X Q -> Q] BY <1>1, <1>2, <1>3, <2>1
  <2>3. \E f : Stepped(f, n, Q, b, st) BY <2>2, StepByStep
  <2> QED BY <2>1, <2>3 DEF Stepped
<1> HIDE DEF R, step
<1>6. ASSUME NEW k \in 0 .. Len(pieces)
      PROVE  f[k] = IF k = 0 THEN <<>> ELSE f[k - 1] \o pieces[k] \o <<Delimiter>>
  <2>1. CASE k = 0 BY <1>5, <2>1
  <2>2. CASE k # 0
    <3>1. k \in 1 .. Len(pieces) /\ k - 1 \in 0 .. Len(pieces) BY <1>1, <2>2
    <3>2. f[k - 1] \in R BY <1>5, <3>1
    <3> QED BY <1>4, <1>5, <2>2, <3>1, <3>2
  <2> QED BY <2>1, <2>2
<1>7. f = [k \in 0 .. Len(pieces) |-> f[k]] BY <1>5
<1>8. Joining(f, pieces)
  <2>1. f = [k \in 0 .. Len(pieces) |->
               IF k = 0 THEN <<>> ELSE f[k - 1] \o pieces[k] \o <<Delimiter>>]
    BY <1>6, <1>7
  <2> QED BY <2>1, Zenon DEF Joining
<1> QED BY <1>8

\* Joined is defined by one of them.
LEMMA JoinedBy ==
  ASSUME NEW pieces \in Pieces
  PROVE  \E f : Joining(f, pieces) /\ V!Joined(pieces) = f[Len(pieces)]
<1>1. PICK f : f = CHOOSE g : Joining(g, pieces) OBVIOUS
<1>2. Joining(f, pieces) BY <1>1, JoiningExists
<1>3. V!Joined(pieces) = f[Len(pieces)] BY <1>1, Zenon DEF V!Joined, Joining
<1> QED BY <1>2, <1>3

\* Its values, step by step.
LEMMA JoiningIs ==
  ASSUME NEW pieces \in Pieces, NEW f, Joining(f, pieces)
  PROVE  /\ f[0] = <<>>
         /\ \A k \in 1 .. Len(pieces) : f[k] = f[k - 1] \o pieces[k] \o <<Delimiter>>
<1>1. Len(pieces) \in Nat BY DEF Pieces
<1>2. \A k \in 0 .. Len(pieces) :
        f[k] = IF k = 0 THEN <<>> ELSE f[k - 1] \o pieces[k] \o <<Delimiter>>
  BY Zenon DEF Joining
<1>3. 0 \in 0 .. Len(pieces) /\ \A k \in 1 .. Len(pieces) : k \in 0 .. Len(pieces) /\ k # 0
  BY <1>1
<1> QED BY <1>2, <1>3, Zenon

\* No pieces make no text.
LEMMA JoinedNone == V!Joined(<<>>) = <<>>
<1>1. <<>> \in Pieces /\ Len(<<>>) = 0 BY DEF Pieces
<1>2. PICK f : Joining(f, <<>>) /\ V!Joined(<<>>) = f[Len(<<>>)] BY <1>1, JoinedBy
<1> QED BY <1>1, <1>2, JoiningIs

\* One more piece adds its characters and a delimiter.
LEMMA JoinedNext ==
  ASSUME NEW pieces \in Pieces, NEW p \in Seq(Letters)
  PROVE  V!Joined(Append(pieces, p)) = V!Joined(pieces) \o p \o <<Delimiter>>
<1>1. PICK n, more : n = Len(pieces) /\ more = Append(pieces, p) OBVIOUS
<1>2. /\ n \in Nat /\ more \in Pieces /\ Len(more) = n + 1 /\ more[n + 1] = p
      /\ \A k \in 1 .. n : more[k] = pieces[k]
  BY <1>1 DEF Pieces
<1>3. PICK f : Joining(f, pieces) /\ V!Joined(pieces) = f[n] BY <1>1, JoinedBy
<1>4. PICK g : Joining(g, more) /\ V!Joined(more) = g[n + 1] BY <1>2, JoinedBy
<1>5. /\ f[0] = <<>>
      /\ \A k \in 1 .. n : f[k] = f[k - 1] \o pieces[k] \o <<Delimiter>>
  BY <1>1, <1>3, JoiningIs
<1>6. /\ g[0] = <<>>
      /\ \A k \in 1 .. n + 1 : g[k] = g[k - 1] \o more[k] \o <<Delimiter>>
  <2>1. more \in Pieces /\ Joining(g, more) /\ Len(more) = n + 1 BY <1>2, <1>4
  <2>2. /\ g[0] = <<>>
        /\ \A k \in 1 .. Len(more) : g[k] = g[k - 1] \o more[k] \o <<Delimiter>>
    BY <2>1, JoiningIs, Zenon
  <2> QED BY <2>1, <2>2, Zenon
<1> DEFINE S == {k \in Nat : k <= n => g[k] = f[k]}
<1>7. 0 \in S BY <1>5, <1>6
<1>8. ASSUME NEW k \in Nat, k \in S PROVE k + 1 \in S
  <2>1. ASSUME k + 1 <= n PROVE g[k + 1] = f[k + 1]
    <3>1. PICK j : j = k + 1 OBVIOUS
    <3>2. j \in 1 .. n /\ j \in 1 .. n + 1 /\ j - 1 = k /\ k <= n BY <1>2, <2>1, <3>1
    <3>3. g[k] = f[k] BY <1>8, <3>2
    <3>4. f[j] = f[k] \o pieces[j] \o <<Delimiter>> BY <1>5, <3>2
    <3>5. g[j] = g[k] \o more[j] \o <<Delimiter>> BY <1>6, <3>2
    <3>6. more[j] = pieces[j] BY <1>2, <3>2
    <3> QED BY <3>1, <3>3, <3>4, <3>5, <3>6
  <2> QED BY <2>1
<1>9. g[n] = f[n]
  <2>1. n \in S
    <3> HIDE DEF S
    <3> QED BY <1>2, <1>7, <1>8, NatSet
  <2> QED BY <1>2, <2>1
<1>10. g[n + 1] = g[n] \o p \o <<Delimiter>>
  <2>1. PICK j : j = n + 1 OBVIOUS
  <2>2. j \in 1 .. n + 1 /\ j - 1 = n BY <1>2, <2>1
  <2>3. g[j] = g[n] \o more[j] \o <<Delimiter>> BY <1>6, <2>2
  <2> QED BY <1>2, <2>1, <2>3
<1> QED BY <1>1, <1>3, <1>4, <1>9, <1>10

\* The delimiters among the first d characters.
Delims(d) == {i \in 0 .. d - 1 : text[i + 1] = Delimiter}

Consumed == V!Characters(V!View(0, this.data))

SplitInv ==
  /\ text \in Seq(Letters)
  /\ split \in [going : BOOLEAN, pieces : Pieces]
  /\ split.going =>
       /\ \A k \in 1 .. Len(split.pieces) : ~V!Contains(split.pieces[k], Delimiter)
       /\ this.data + this.size = Len(text)
       /\ \/ /\ Consumed = V!Joined(split.pieces)
             /\ Len(split.pieces) = Cardinality(Delims(this.data))
             /\ this.data = 0 \/ text[this.data] = Delimiter
          \/ /\ this.size = 0 /\ this.data # 0 /\ text[this.data] # Delimiter
             /\ Consumed \o <<Delimiter>> = V!Joined(split.pieces)
             /\ Len(split.pieces) = Cardinality(Delims(this.data)) + 1

\* Before the first chop nothing is consumed.
LEMMA NothingConsumed ==
  ASSUME Sized(text, Len(text)), this.data = 0
  PROVE  Consumed = <<>> /\ Cardinality(Delims(this.data)) = 0
<1>1. PICK z : z = 0 OBVIOUS
<1>2. z \in Nat /\ Len(text) \in Nat /\ z + z <= Len(text) BY <1>1, SizedIs
<1>3. PICK v : v = V!View(z, z) OBVIOUS
<1>4. IsView(v) /\ v.size = 0 BY <1>1, <1>2, <1>3, IsViewOf
<1>5. PICK s : s = V!Characters(v) OBVIOUS
<1>6. Sized(s, 0) BY <1>2, <1>4, <1>5, CharactersAre, ViewSays
<1>7. s = <<>> BY <1>6 DEF Sized
<1>8. Delims(this.data) = {} BY DEF Delims
<1> QED BY <1>1, <1>3, <1>5, <1>7, <1>8, FS_EmptySet, Zenon DEF Consumed

\* A text that nothing was chopped off yet.
LEMMA SplitInitially ==
  ASSUME NEW S \in SUBSET Seq(UNION Alphabets), V!InitOver(S)
  PROVE  SplitInv
<1>1. text \in Seq(UNION Alphabets) /\ this = V!View(0, Len(text))
      /\ split = [going |-> TRUE, pieces |-> <<>>]
  BY DEF V!InitOver
<1>2. text \in Seq(Letters) /\ <<>> \in Pieces /\ Len(<<>>) = 0 BY <1>1 DEF Letters, Pieces
<1>3. this.data = 0 /\ this.size = Len(text) /\ Len(text) \in Nat BY <1>1 DEF V!View
<1>4. Consumed = <<>> /\ Cardinality(Delims(this.data)) = 0
  BY <1>2, <1>3, SizedSeq, NothingConsumed
<1>5. split.going /\ split.pieces = <<>> /\ split \in [going : BOOLEAN, pieces : Pieces]
  BY <1>1, <1>2
<1> QED BY <1>2, <1>3, <1>4, <1>5, JoinedNone DEF SplitInv

\* The delimiters of a text can be counted.
LEMMA DelimsFinite ==
  ASSUME NEW d \in Nat
  PROVE  IsFiniteSet(Delims(d))
<1>1. IsFiniteSet(0 .. d - 1) BY FS_Interval
<1>2. Delims(d) \in SUBSET (0 .. d - 1) BY DEF Delims
<1> QED BY <1>1, <1>2, FS_Subset

\* What a chop adds to the delimiters seen: none in the piece, and the one behind it.
LEMMA DelimsOf ==
  ASSUME NEW d \in Nat, NEW n \in Nat, \A j \in 0 .. n - 1 : text[d + j + 1] # Delimiter
  PROVE  /\ Cardinality(Delims(d + n)) = Cardinality(Delims(d))
         /\ text[d + n + 1] = Delimiter
              => Cardinality(Delims(d + n + 1)) = Cardinality(Delims(d)) + 1
<1>1. Delims(d + n) = Delims(d)
  <2>1. ASSUME NEW i \in Delims(d + n) PROVE i \in Delims(d)
    <3>1. i \in 0 .. d + n - 1 /\ text[i + 1] = Delimiter BY DEF Delims
    <3>2. CASE i < d BY <3>1, <3>2 DEF Delims
    <3>3. CASE ~(i < d)
      <4>1. PICK j : j = i - d OBVIOUS
      <4>2. j \in 0 .. n - 1 /\ d + j = i BY <3>1, <3>3, <4>1
      <4>3. text[d + j + 1] # Delimiter BY <4>2
      <4> QED BY <3>1, <4>2, <4>3
    <3> QED BY <3>2, <3>3
  <2>2. ASSUME NEW i \in Delims(d) PROVE i \in Delims(d + n) BY DEF Delims
  <2> QED BY <2>1, <2>2
<1>2. ASSUME text[d + n + 1] = Delimiter
      PROVE  Cardinality(Delims(d + n + 1)) = Cardinality(Delims(d)) + 1
  <2>1. PICK e : e = d + n OBVIOUS
  <2>2. e \in Nat /\ text[e + 1] = Delimiter /\ Delims(e) = Delims(d) BY <1>1, <1>2, <2>1
  <2>3. Delims(e + 1) = Delims(e) \union {e}
    <3>1. ASSUME NEW i \in Delims(e + 1) PROVE i \in Delims(e) \union {e} BY <2>2 DEF Delims
    <3>2. ASSUME NEW i \in Delims(e) \union {e} PROVE i \in Delims(e + 1) BY <2>2 DEF Delims
    <3> QED BY <3>1, <3>2
  <2>4. e \notin Delims(e) BY <2>2 DEF Delims
  <2>5. IsFiniteSet(Delims(e)) BY <2>2, DelimsFinite
  <2>6. Cardinality(Delims(e + 1)) = Cardinality(Delims(e)) + 1
    BY <2>3, <2>4, <2>5, FS_AddElement
  <2> QED BY <2>1, <2>2, <2>6
<1> QED BY <1>1, <1>2

\* What is consumed grows by the piece.
LEMMA PrefixJoins ==
  ASSUME Sized(text, Len(text)), NEW d \in Nat, NEW n \in Nat, d + n <= Len(text)
  PROVE  V!Characters(V!View(0, d + n)) = V!Characters(V!View(0, d)) \o V!Characters(V!View(d, n))
<1>1. PICK z, e : z = 0 /\ e = d + n OBVIOUS
<1>2. /\ Len(text) \in Nat /\ z \in Nat /\ e \in Nat /\ z + e <= Len(text) /\ z + d <= Len(text)
      /\ z + d = d
  BY <1>1, SizedIs
<1>3. PICK v, p, w : v = V!View(z, e) /\ p = V!View(z, d) /\ w = V!View(d, n) OBVIOUS
<1>4. IsView(v) /\ v.data = z /\ v.size = e BY <1>2, <1>3, IsViewOf
<1>5. IsView(p) /\ p.data = z /\ p.size = d BY <1>2, <1>3, IsViewOf
<1>6. IsView(w) /\ w.data = d /\ w.size = n BY <1>2, <1>3, IsViewOf
<1>7. p.data = v.data /\ w.data = p.data + p.size /\ p.size + w.size = v.size
  BY <1>1, <1>2, <1>4, <1>5, <1>6
<1>8. IsView(v) /\ IsView(p) /\ IsView(w) BY <1>4, <1>5, <1>6
<1>9. V!Characters(v) = V!Characters(p) \o V!Characters(w) BY <1>7, <1>8, ViewJoins
<1> QED BY <1>1, <1>3, <1>9

\* And by the delimiter behind it.
LEMMA PrefixNext ==
  ASSUME Sized(text, Len(text)), NEW d \in Nat, d < Len(text)
  PROVE  V!Characters(V!View(0, d + 1)) = V!Characters(V!View(0, d)) \o <<text[d + 1]>>
<1>1. PICK z, o, n : z = 0 /\ o = 1 /\ n = Len(text) OBVIOUS
<1>2. n \in Nat /\ z \in Nat /\ o \in Nat /\ d + o <= n /\ z + n <= n BY <1>1, SizedIs
<1>3. V!Characters(V!View(0, d + o)) = V!Characters(V!View(0, d)) \o V!Characters(V!View(d, o))
  BY <1>1, <1>2, PrefixJoins
<1>4. PICK v : v = V!View(z, n) OBVIOUS
<1>5. IsView(v) /\ v.data = z /\ v.size = n BY <1>1, <1>2, <1>4, IsViewOf
<1>6. d \in 0 .. v.size - 1 BY <1>1, <1>2, <1>5
<1>7. V!Characters(V!View(v.data + d, 1)) = <<V!Char(v, d)>> BY <1>5, <1>6, ViewOfOne
<1>8. v.data + d = d /\ v.data + d + 1 = d + 1 BY <1>1, <1>5
<1>9. V!Char(v, d) = text[d + 1] BY <1>8, Zenon DEF V!Char
<1> QED BY <1>1, <1>3, <1>7, <1>8, <1>9

\* Chopping to a delimiter keeps the count of pieces and delimiters.
LEMMA SplitChops ==
  ASSUME ViewInv, SplitInv, split.going, V!ChopToDelimiter(TRUE)
  PROVE  SplitInv'
<1>1. PICK n \in 0 .. this.size, skip \in {0, 1} :
        n = V!IndexOf(this, Delimiter) /\ ChopsTo(n, skip, TRUE)
  BY ViewChopsTo
<1>2. PICK d, m, pieces : d = this.data /\ m = this.size /\ pieces = split.pieces OBVIOUS
<1>3. /\ d \in Nat /\ m \in Nat /\ d + m = Len(text) /\ m > 0 /\ n \in Nat /\ n <= m
      /\ n + skip <= m /\ Len(text) \in Nat /\ d + n <= Len(text)
      /\ (skip = 1 <=> n # m)
  <2>1. d \in Nat /\ m \in Nat /\ Len(text) \in Nat BY <1>2, ViewSays
  <2>2. d + m = Len(text) /\ m > 0 /\ n + skip <= m /\ (skip = 1 <=> n # m)
    BY <1>1, <1>2 DEF SplitInv, ChopsTo
  <2> QED BY <1>2, <2>1, <2>2
<1>4. PICK p : p = V!Characters(V!View(d, n)) OBVIOUS
<1>5. /\ this' = V!View(d + n + skip, m - n - skip) /\ text' = text
      /\ split' = [split EXCEPT !.pieces = Append(@, p)]
  <2>1. /\ this' = V!View(d + n + skip, m - n - skip) /\ text' = text
    BY <1>1, <1>2 DEF ChopsTo, V!Becomes
  <2>2. split' = [split EXCEPT !.pieces = Append(@, V!Characters(V!View(this.data, V!IndexOf(this, Delimiter))))]
    BY Zenon DEF V!ChopToDelimiter
  <2> QED BY <1>1, <1>2, <1>4, <2>1, <2>2
<1>6. Sized(text, Len(text)) /\ text \in Seq(Letters) BY DEF ViewInv, SplitInv
<1>7. IsView(V!View(d, n)) /\ V!View(d, n).data = d /\ V!View(d, n).size = n
  BY <1>3, IsViewOf
<1>8. Sized(p, n) /\ \A k \in 1 .. n : p[k] = V!Char(V!View(d, n), k - 1)
  BY <1>4, <1>6, <1>7, CharactersAre
<1>9. \A k \in 1 .. n : d + k \in 1 .. Len(text) /\ p[k] = text[d + k]
  <2>1. ASSUME NEW k \in 1 .. n PROVE d + k \in 1 .. Len(text) /\ p[k] = text[d + k]
    <3>1. d + k \in 1 .. Len(text) /\ d + (k - 1) + 1 = d + k BY <1>3
    <3>2. V!Char(V!View(d, n), k - 1) = text[d + k] BY <1>7, <3>1, Zenon DEF V!Char
    <3> QED BY <1>8, <3>1, <3>2
  <2> QED BY <2>1
<1>10. p \in Seq(Letters)
  <2>1. \A k \in 1 .. Len(text) : text[k] \in Letters BY <1>6
  <2>2. \A k \in 1 .. n : p[k] \in Letters BY <1>9, <2>1
  <2> QED BY <1>8, <2>2, SizedIs
<1>11. \A j \in 0 .. n - 1 : text[d + j + 1] # Delimiter
  <2>1. ASSUME NEW j \in 0 .. n - 1 PROVE text[d + j + 1] # Delimiter
    <3>1. V!Char(this, j) # Delimiter BY <1>1 DEF ChopsTo
    <3> QED BY <1>2, <3>1, Zenon DEF V!Char
  <2> QED BY <2>1
<1>12. ~V!Contains(p, Delimiter)
  <2>1. ASSUME NEW k \in 1 .. n PROVE p[k] # Delimiter
    <3>1. PICK j : j = k - 1 OBVIOUS
    <3>2. j \in 0 .. n - 1 /\ d + j + 1 = d + k BY <1>3, <3>1
    <3>3. text[d + j + 1] # Delimiter BY <1>11, <3>2
    <3> QED BY <1>9, <3>2, <3>3
  <2>2. Len(p) = n BY <1>8, SizedIs
  <2> QED BY <2>1, <2>2, Zenon DEF V!Contains
<1>13. pieces \in Pieces /\ split'.pieces = Append(pieces, p) /\ split'.going
       /\ split' \in [going : BOOLEAN, pieces : Pieces]
  <2>1. split \in [going : BOOLEAN, pieces : Pieces] /\ split.going BY DEF SplitInv
  <2>2. pieces \in Pieces BY <1>2, <2>1
  <2>3. Append(pieces, p) \in Pieces BY <1>10, <2>2 DEF Pieces
  <2>4. split' = [split EXCEPT !.pieces = Append(pieces, p)] BY <1>2, <1>5
  <2> QED BY <2>1, <2>2, <2>3, <2>4
<1>14. /\ Len(pieces) \in Nat /\ Len(Append(pieces, p)) = Len(pieces) + 1
       /\ \A k \in 1 .. Len(pieces) + 1 :
            Append(pieces, p)[k] = IF k = Len(pieces) + 1 THEN p ELSE pieces[k]
  BY <1>10, <1>13 DEF Pieces
<1>15. \A k \in 1 .. Len(split'.pieces) : ~V!Contains(split'.pieces[k], Delimiter)
  <2>1. \A k \in 1 .. Len(pieces) : ~V!Contains(pieces[k], Delimiter) BY <1>2 DEF SplitInv
  <2>2. ASSUME NEW k \in 1 .. Len(pieces) + 1 PROVE ~V!Contains(Append(pieces, p)[k], Delimiter)
    <3>1. k = Len(pieces) + 1 \/ k \in 1 .. Len(pieces) BY <1>14
    <3> QED BY <1>12, <1>14, <2>1, <3>1
  <2> QED BY <1>13, <1>14, <2>2
<1>16. this'.data = d + n + skip /\ this'.size = m - n - skip BY <1>5 DEF V!View
<1>17. this'.data + this'.size = Len(text) BY <1>3, <1>16
<1>18. PICK before : before = V!Characters(V!View(0, d)) OBVIOUS
<1>19. before = V!Joined(pieces) /\ Len(pieces) = Cardinality(Delims(d))
  BY <1>2, <1>3, <1>18 DEF SplitInv, Consumed
<1>20. V!Joined(Append(pieces, p)) = before \o p \o <<Delimiter>>
  BY <1>10, <1>13, <1>19, JoinedNext
<1>21. V!Characters(V!View(0, d + n)) = before \o p
  BY <1>3, <1>4, <1>6, <1>18, PrefixJoins
<1>22. Consumed' = V!Characters(V!View(0, d + n + skip))
  BY <1>5, <1>16 DEF Consumed, V!Characters, V!View
<1>23. Delims(this.data)' = Delims(d + n + skip) BY <1>5, <1>16 DEF Delims
<1>24. CASE skip = 0
  <2>1. n = m /\ d + n + skip = d + n /\ n # 0 BY <1>3, <1>24
  <2>2. this'.size = 0 /\ this'.data = d + n BY <1>3, <1>16, <1>24, <2>1
  <2>3. Consumed' \o <<Delimiter>> = V!Joined(split'.pieces)
    BY <1>13, <1>20, <1>21, <1>22, <2>1
  <2>4. Cardinality(Delims(d + n)) = Cardinality(Delims(d)) BY <1>3, <1>11, DelimsOf
  <2>5. Len(split'.pieces) = Cardinality(Delims(this.data)') + 1
    BY <1>13, <1>14, <1>19, <1>23, <2>1, <2>4
  <2>6. text[this'.data] # Delimiter /\ this'.data # 0
    <3>1. PICK j : j = n - 1 OBVIOUS
    <3>2. j \in 0 .. n - 1 /\ d + j + 1 = d + n BY <1>3, <2>1, <3>1
    <3>3. text[d + j + 1] # Delimiter BY <1>11, <3>2
    <3>4. d + n # 0 BY <1>3, <2>1
    <3> QED BY <2>2, <3>2, <3>3, <3>4
  <2> QED BY <1>5, <1>6, <1>13, <1>15, <1>17, <2>2, <2>3, <2>5, <2>6 DEF SplitInv
<1>25. CASE skip = 1
  <2>1. n # m /\ d + n + skip = d + n + 1 /\ d + n < Len(text) /\ d + n \in Nat BY <1>3, <1>25
  <2>2. V!Char(this, n) = Delimiter BY <1>1, <1>2, <2>1 DEF ChopsTo
  <2>3. text[d + n + 1] = Delimiter BY <1>2, <2>2, Zenon DEF V!Char
  <2>4. PICK e : e = d + n OBVIOUS
  <2>5. e \in Nat /\ e < Len(text) /\ text[e + 1] = Delimiter BY <2>1, <2>3, <2>4
  <2>6. V!Characters(V!View(0, e + 1)) = V!Characters(V!View(0, e)) \o <<Delimiter>>
    BY <1>6, <2>5, PrefixNext
  <2>7. Consumed' = V!Joined(split'.pieces)
    BY <1>13, <1>20, <1>21, <1>22, <2>1, <2>4, <2>6
  <2>8. Cardinality(Delims(d + n + 1)) = Cardinality(Delims(d)) + 1
    BY <1>3, <1>11, <2>3, DelimsOf
  <2>9. Len(split'.pieces) = Cardinality(Delims(this.data)')
    BY <1>13, <1>14, <1>19, <1>23, <2>1, <2>8
  <2>10. this'.data = d + n + 1 BY <1>16, <2>1
  <2>11. text[this'.data] = Delimiter BY <2>3, <2>10
  <2> QED BY <1>5, <1>6, <1>13, <1>15, <1>17, <2>7, <2>9, <2>11 DEF SplitInv
<1> QED BY <1>24, <1>25

\* What changes neither the view nor the pieces keeps it.
LEMMA SplitStays ==
  ASSUME SplitInv, text' = text, this' = this, split' = split
  PROVE  SplitInv'
<1>1. Consumed' = Consumed /\ Delims(this.data)' = Delims(this.data)
  BY DEF Consumed, V!Characters, V!View, Delims
<1> QED BY <1>1 DEF SplitInv

\* What gives up splitting keeps it.
LEMMA SplitStops ==
  ASSUME SplitInv, text' = text, V!NoSplit
  PROVE  SplitInv'
<1>1. <<>> \in Pieces BY DEF Pieces
<1>2. ~split'.going /\ split' \in [going : BOOLEAN, pieces : Pieces] BY <1>1 DEF V!NoSplit
<1> QED BY <1>2 DEF SplitInv

\* Every call keeps it.
LEMMA SplitStep ==
  ASSUME ViewInv, SplitInv, V!Next
  PROVE  SplitInv'
<1>1. CASE V!TrimBlanks BY <1>1, SplitStops DEF V!TrimBlanks, V!Becomes
<1>2. ASSUME NEW count, V!ChopLeft(count) PROVE SplitInv'
  BY <1>2, SplitStops DEF V!ChopLeft, V!Becomes
<1>3. ASSUME NEW count, V!ChopRight(count) PROVE SplitInv'
  BY <1>3, SplitStops DEF V!ChopRight, V!Becomes
<1>4. ASSUME NEW count, V!UnchopLeft(count) PROVE SplitInv'
  BY <1>4, SplitStops DEF V!UnchopLeft, V!Becomes
<1>5. ASSUME NEW count, V!UnchopRight(count) PROVE SplitInv'
  BY <1>5, SplitStops DEF V!UnchopRight, V!Becomes
<1>6. CASE V!Ask \/ V!LookBeyond BY <1>6, SplitStays DEF V!Ask, V!LookBeyond
<1>8. CASE V!LookBefore BY <1>8, SplitStops DEF V!LookBefore, V!Becomes
<1>7. ASSUME NEW discard \in BOOLEAN, V!ChopToDelimiter(discard) PROVE SplitInv'
  <2>1. CASE discard /\ split.going BY <1>7, <2>1, SplitChops
  <2>2. CASE ~(discard /\ split.going)
    BY <1>7, <2>2, SplitStops DEF V!ChopToDelimiter, V!Becomes
  <2> QED BY <2>1, <2>2
<1> QED BY <1>1, <1>2, <1>3, <1>4, <1>5, <1>6, <1>7, <1>8 DEF V!Next

\* So does any step of the text modules.
LEMMA SplitAny ==
  ASSUME ViewGood, SplitInv, [AnyNext /\ UNCHANGED part]_everything
  PROVE  SplitInv'
<1>1. CASE UNCHANGED viewing BY <1>1, SplitStays DEF viewing
<1>2. CASE V!Next
  <2>1. ViewInv BY <1>2 DEF V!Next, ViewGood
  <2> QED BY <1>2, <2>1, SplitStep
<1> QED BY <1>1, <1>2 DEF AnyNext, everything

\* What has been consumed is the text before the view.
LEMMA ConsumedIs ==
  ASSUME ViewInv
  PROVE  Consumed = SubSeq(text, 1, this.data)
<1>1. Sized(text, Len(text)) /\ IsView(this) BY DEF ViewInv
<1>2. PICK z, d : z = 0 /\ d = this.data OBVIOUS
<1>3. /\ d \in Nat /\ z \in Nat /\ Len(text) \in Nat /\ z + d <= Len(text)
      /\ d <= Len(text) /\ z <= d /\ z + 1 = 1 /\ d - z = d
  BY <1>2, ViewSays
<1>4. PICK v : v = V!View(z, d) OBVIOUS
<1>5. IsView(v) /\ v.data = z /\ v.size = d BY <1>3, <1>4, IsViewOf
<1>6. PICK s, t : s = V!Characters(v) /\ t = Part(text, z, d) OBVIOUS
<1>7. Sized(s, d) /\ \A k \in 1 .. d : s[k] = V!Char(v, k - 1)
  BY <1>1, <1>5, <1>6, CharactersAre
<1>8. Sized(t, d) /\ \A k \in 1 .. d : t[k] = text[z + k]
  BY <1>1, <1>3, <1>6, SizedPart
<1>9. ASSUME NEW k \in 1 .. d PROVE s[k] = t[k]
  <2>1. z + (k - 1) + 1 = z + k BY <1>2
  <2>2. V!Char(v, k - 1) = text[z + k] BY <1>5, <2>1, Zenon DEF V!Char
  <2> QED BY <1>7, <1>8, <2>2
<1>10. s = t BY <1>7, <1>8, <1>9, SizedSame
<1>11. t = SubSeq(text, 1, d) BY <1>3, <1>6 DEF Part
<1>12. Consumed = s BY <1>2, <1>4, <1>6 DEF Consumed
<1> QED BY <1>2, <1>10, <1>11, <1>12

\* Count of the whole text.
LEMMA CountIs ==
  ASSUME NEW n \in Nat
  PROVE  V!Count(V!View(0, n), Delimiter) = Cardinality(Delims(n))
<1>1. PICK v : v = V!View(0, n) OBVIOUS
<1>2. v.data = 0 /\ v.size = n BY <1>1 DEF V!View
<1>3. \A i \in 0 .. n - 1 : V!Char(v, i) = text[i + 1]
  <2>1. ASSUME NEW i \in 0 .. n - 1 PROVE V!Char(v, i) = text[i + 1]
    <3>1. v.data + i + 1 = i + 1 BY <1>2
    <3> QED BY <3>1, Zenon DEF V!Char
  <2> QED BY <2>1
<1>4. {i \in 0 .. v.size - 1 : V!Char(v, i) = Delimiter} = Delims(n) BY <1>2, <1>3 DEF Delims
<1>5. V!Count(v, Delimiter) = V!Cardinality(Delims(n)) BY <1>4, Zenon DEF V!Count
<1> QED BY <1>1, <1>5, Zenon DEF V!Cardinality, Cardinality

\* What SplitInv says is what SplitJoins promises.
LEMMA SplitJoinsHold ==
  ASSUME ViewInv, SplitInv
  PROVE  V!SplitJoins
<1> SUFFICES ASSUME split.going PROVE V!SplitJoins BY DEF V!SplitJoins
<1>1. PICK consumed : consumed = SubSeq(text, 1, this.data) OBVIOUS
<1>2. Consumed = consumed BY <1>1, ConsumedIs
<1>3. split.pieces \in Pieces /\ text \in Seq(Letters) BY DEF SplitInv
<1>4. DOMAIN split.pieces = 1 .. Len(split.pieces) /\ Len(split.pieces) \in Nat
  BY <1>3 DEF Pieces
<1>5. \A k \in DOMAIN split.pieces : ~V!Contains(split.pieces[k], Delimiter)
  BY <1>4 DEF SplitInv
<1>6. \/ consumed = V!Joined(split.pieces)
      \/ V!Empty(this) /\ consumed \o <<Delimiter>> = V!Joined(split.pieces)
  BY <1>2 DEF SplitInv, V!Empty
<1>7. ASSUME V!Empty(this)
      PROVE  /\ consumed = text
             /\ Len(split.pieces) - V!Count(V!View(0, Len(text)), Delimiter) =
                  (IF text = <<>> \/ text[Len(text)] = Delimiter THEN 0 ELSE 1)
  <2>1. this.data = Len(text) /\ Len(text) \in Nat BY <1>7, ViewSays DEF V!Empty, SplitInv
  <2>2. consumed = text BY <1>1, <1>3, <2>1
  <2>3. V!Count(V!View(0, Len(text)), Delimiter) = Cardinality(Delims(this.data))
    BY <2>1, CountIs
  <2>4. PICK c : c = Cardinality(Delims(this.data)) OBVIOUS
  <2>5. c \in Nat BY <2>1, <2>4, DelimsFinite, FS_CardinalityType
  <2>6. text = <<>> <=> this.data = 0 BY <1>3, <2>1
  <2>7. \/ Len(split.pieces) = c /\ (this.data = 0 \/ text[this.data] = Delimiter)
        \/ Len(split.pieces) = c + 1 /\ this.data # 0 /\ text[this.data] # Delimiter
    BY <2>4 DEF SplitInv
  <2>8. PICK n, zero : n = Len(split.pieces) /\ zero = (text = <<>> \/ text[Len(text)] = Delimiter)
    OBVIOUS
  <2>9. CASE this.data = 0 \/ text[this.data] = Delimiter
    <3>1. Len(split.pieces) = c BY <2>7, <2>9
    <3>2. Len(split.pieces) - c = 0 BY <2>5, <3>1
    <3> QED BY <2>1, <2>2, <2>3, <2>4, <2>6, <2>9, <3>2
  <2>10. CASE ~(this.data = 0 \/ text[this.data] = Delimiter)
    <3>1. Len(split.pieces) = c + 1 BY <2>7, <2>10
    <3>2. Len(split.pieces) - c = 1 BY <2>5, <3>1
    <3> QED BY <2>1, <2>2, <2>3, <2>4, <2>6, <2>10, <3>2
  <2> QED BY <2>9, <2>10
<1> QED BY <1>1, <1>5, <1>6, <1>7, Zenon DEF V!SplitJoins

(***************************************************************************)
(* Views lie in the text they were taken from, a chop cuts one in two and  *)
(* a trim takes off the blanks at its ends; the pieces of a text that was  *)
(* chopped up at a delimiter are the text (uga_strview.c), until a call    *)
(* goes astray.                                                            *)
(***************************************************************************)
THEOREM StringsCut == AnySpec => []CutsText
<1>1. AnyInit => SplitInv
  <2>1. {<<>>} \in SUBSET Seq(UNION Alphabets) OBVIOUS
  <2> QED BY <2>1, ViewTexts, SplitInitially, Zenon DEF AnyInit
<1>2. ViewGood /\ SplitInv /\ [AnyNext /\ UNCHANGED part]_everything => SplitInv'
  BY SplitAny
<1>3. ViewGood /\ SplitInv => CutsText
  BY ViewStaysInText, ViewCutsInTwo, SplitJoinsHold DEF CutsText, Viewing, ViewGood
<1> QED BY <1>1, <1>2, <1>3, ViewAlways, PTL DEF AnySpec

-----------------------------------------------------------------------------
(* Strings: blocks and what is written to them. *)

\* The block of a string, if it has one.
Blocks(s) == {s.data} \ {Null}

\* A string and the memory: its block is there, and as long as it believes.
IsStr(s, m) ==
  /\ s \in [data : Block \union {Null}, size : Nat, capacity : Nat]
  /\ s.data = Null => s.size = 0 /\ s.capacity = 0
  /\ s.data # Null => s.data \in DOMAIN m /\ s.size <= Len(m[s.data]) /\ s.capacity <= Len(m[s.data])

IsMem(m) == DOMAIN m \subseteq Block /\ \A b \in DOMAIN m : Sized(m[b], Len(m[b]))

IsRange(m, v) ==
  /\ v \in [data : Block \union {Null}, size : Nat]
  /\ v.data = Null => v.size = 0
  /\ v.data # Null => v.data \in DOMAIN m /\ v.size <= Len(m[v.data])

StrInv ==
  /\ DOMAIN str = Names
  /\ fault = "none" =>
     /\ err \in BOOLEAN
     /\ IsMem(mem) /\ IsRange(mem, view)
     /\ \A n \in Names : IsStr(str[n], mem)
     /\ DOMAIN mem = UNION {Blocks(str[n]) : n \in Names}
     /\ \A n, m \in Names : n # m => Blocks(str[n]) \intersect Blocks(str[m]) = {}

\* The state of a call is a record.
IsCall(c) == DOMAIN c = {"str", "block", "mem", "err", "failures", "fault"}

\* What an allocation leaves: nothing, or a block of cells more (and `gone' less).
Refused(c, a) ==
  /\ IsCall(a) /\ a.str = c.str /\ a.mem = c.mem /\ a.fault = c.fault
  /\ a.err = TRUE /\ a.failures = c.failures + 1

Got(c, a, cells, gone) ==
  /\ IsCall(a) /\ a.str = c.str /\ a.failures = c.failures /\ a.fault = c.fault /\ a.err = FALSE
  /\ a.block \in Block /\ a.block \notin DOMAIN c.mem \ gone
  /\ DOMAIN a.mem = (DOMAIN c.mem \ gone) \union {a.block}
  /\ a.mem[a.block] = cells
  /\ \A d \in DOMAIN c.mem \ gone : a.mem[d] = c.mem[d]

\* A block that is realloc'ed keeps its cells, and has as many as were asked for.
Grown(old, new, n) ==
  /\ Sized(new, Len(new)) /\ Len(old) <= Len(new) /\ n <= Len(new)
  /\ \A k \in 1 .. Len(old) : new[k] = old[k]

\* New cells, one by one; none if less than one is asked for.
LEMMA CellsAre ==
  ASSUME NEW n \in Int, NEW x
  PROVE  IF n \in Nat THEN Sized(Cells(n, x), n) /\ \A k \in 1 .. n : Cells(n, x)[k] = x
                      ELSE Sized(Cells(n, x), 0)
<1>1. CASE n \in Nat BY <1>1 DEF Sized, Cells
<1>2. CASE n \notin Nat
  <2>1. 1 .. n = 1 .. 0 BY <1>2
  <2>2. Cells(n, x) = [k \in 1 .. 0 |-> Cells(n, x)[k]] BY <2>1 DEF Cells
  <2> QED BY <1>2, <2>2 DEF Sized
<1> QED BY <1>1, <1>2

\* Running out of memory is being refused.
LEMMA RefusedIs ==
  ASSUME NEW c, IsCall(c)
  PROVE  Refused(c, OutOfMemory(c))
BY DEF IsCall, OutOfMemory, Refused

\* Allocating is refused or gets a new block of unwritten cells.
LEMMA AllocateIs ==
  ASSUME NEW c, IsCall(c), NEW n, NEW a \in Allocate(c, n)
  PROVE  Refused(c, a) \/ Got(c, a, Cells(n, Garbage), {})
<1>1. CASE a = OutOfMemory(c) BY <1>1, RefusedIs
<1>2. ASSUME NEW b \in NewBlocks(c),
             a = [c EXCEPT !.err = FALSE, !.block = b, !.mem = With(@, b, Cells(n, Garbage))]
      PROVE  Got(c, a, Cells(n, Garbage), {})
  <2>1. b \in Block /\ b \notin DOMAIN c.mem BY DEF NewBlocks
  <2>2. /\ IsCall(a) /\ a.str = c.str /\ a.block = b /\ a.err = FALSE
        /\ a.failures = c.failures /\ a.fault = c.fault
        /\ a.mem = With(c.mem, b, Cells(n, Garbage))
    BY <1>2 DEF IsCall
  <2>3. PICK m, cells : m = c.mem /\ cells = Cells(n, Garbage) OBVIOUS
  <2>4. a.mem = With(m, b, cells) BY <2>2, <2>3
  <2>5. DOMAIN a.mem = DOMAIN m \union {b} /\ a.mem[b] = cells
        /\ \A d \in DOMAIN m \ {b} : a.mem[d] = m[d]
    BY <2>4 DEF With
  <2> QED BY <2>1, <2>2, <2>3, <2>5 DEF Got
<1> QED BY <1>1, <1>2 DEF Allocate

\* A block made larger keeps its cells.
LEMMA GrownIs ==
  ASSUME NEW old, Sized(old, Len(old)), NEW n \in Nat
  PROVE  Grown(old, old \o Cells(n - Len(old), Garbage), n)
<1>1. PICK m, more, new : /\ m = Len(old) /\ more = Cells(n - Len(old), Garbage)
                          /\ new = Join(old, more)
  OBVIOUS
<1>2. m \in Nat /\ Sized(old, m) BY <1>1, SizedIs
<1>3. PICK e \in Nat : Sized(more, e) /\ n <= m + e
  <2>1. CASE n - m \in Nat
    <3>1. Sized(more, n - m) BY <1>1, <2>1, CellsAre
    <3>2. n <= m + (n - m) BY <1>2
    <3> QED BY <2>1, <3>1, <3>2
  <2>2. CASE n - m \notin Nat
    <3>1. n - m \in Int BY <1>2
    <3>2. Sized(more, 0) BY <1>1, <2>2, <3>1, CellsAre
    <3>3. n <= m + 0 BY <1>2, <2>2
    <3> QED BY <3>2, <3>3
  <2> QED BY <2>1, <2>2
<1>3a. new = Join(old, more) /\ Sized(old, m) /\ Sized(more, e) BY <1>1, <1>2, <1>3
<1>4. Sized(new, m + e) /\ \A k \in 1 .. m : new[k] = old[k] BY <1>3a, SizedJoin
<1>5. Len(new) = m + e BY <1>4, SizedIs
<1>6. m <= m + e /\ n <= m + e BY <1>2, <1>3
<1>7. Grown(old, new, n)
  <2>1. Sized(new, Len(new)) BY <1>4, <1>5
  <2>2. Len(old) = m BY <1>1
  <2>3. Len(old) <= Len(new) /\ n <= Len(new) BY <1>5, <1>6, <2>2
  <2>4. \A k \in 1 .. Len(old) : new[k] = old[k] BY <1>4, <2>2
  <2> QED BY <2>1, <2>3, <2>4 DEF Grown
<1> QED BY <1>1, <1>7 DEF Join

\* One block instead of another.
Replaced(m, b, d, cells, v) ==
  /\ DOMAIN v = (DOMAIN m \ {b}) \union {d} /\ v[d] = cells
  /\ \A e \in (DOMAIN m \ {b}) \ {d} : v[e] = m[e]

\* Memory after a block was replaced by another.
LEMMA BlockMoves ==
  ASSUME NEW m, NEW b, NEW d, NEW cells, NEW v, v = With(Without(m, b), d, cells)
  PROVE  Replaced(m, b, d, cells, v)
<1>1. PICK w : w = Without(m, b) OBVIOUS
<1>2. DOMAIN w = DOMAIN m \ {b} /\ \A e \in DOMAIN m \ {b} : w[e] = m[e]
  BY <1>1 DEF Without, Restrict
<1>3. v = With(w, d, cells) BY <1>1
<1>4. DOMAIN v = DOMAIN w \union {d} /\ v[d] = cells /\ \A e \in DOMAIN w \ {d} : v[e] = w[e]
  BY <1>3 DEF With
<1> QED BY <1>2, <1>4 DEF Replaced

\* Reallocating is refused or moves the cells to a block that fits.
LEMMA ReallocateIs ==
  ASSUME NEW c, IsCall(c), c.str.data # Null, c.str.data \in DOMAIN c.mem,
         DOMAIN c.mem \subseteq Block,
         Sized(c.mem[c.str.data], Len(c.mem[c.str.data])),
         NEW n \in Nat, NEW a \in Reallocate(c, n)
  PROVE  \/ Refused(c, a)
         \/ \E cells : Grown(c.mem[c.str.data], cells, n) /\ Got(c, a, cells, {c.str.data})
<1>1. PICK b, old, kept, m :
        b = c.str.data /\ old = c.mem[b] /\ kept = old \o Cells(n - Len(old), Garbage) /\ m = c.mem
  OBVIOUS
<1>2. CASE a = OutOfMemory(c) BY <1>2, RefusedIs
<1>3. ASSUME NEW d \in NewBlocks(c) \union {b},
             a = [c EXCEPT !.err = FALSE, !.block = d, !.mem = With(Without(@, b), d, kept)]
      PROVE  Grown(old, kept, n) /\ Got(c, a, kept, {b})
  <2>1. Grown(old, kept, n) BY <1>1, GrownIs
  <2>2. /\ IsCall(a) /\ a.str = c.str /\ a.block = d /\ a.err = FALSE
        /\ a.failures = c.failures /\ a.fault = c.fault
        /\ a.mem = With(Without(m, b), d, kept)
    BY <1>1, <1>3 DEF IsCall
  <2>3. PICK v : v = a.mem OBVIOUS
  <2>4. v = With(Without(m, b), d, kept) BY <2>2, <2>3, Zenon
  <2>5. /\ DOMAIN v = (DOMAIN m \ {b}) \union {d} /\ v[d] = kept
        /\ \A e \in (DOMAIN m \ {b}) \ {d} : v[e] = m[e]
    <3>1. Replaced(m, b, d, kept, v) BY <2>4, BlockMoves
    <3> QED BY <3>1 DEF Replaced
  <2>7. d \in Block /\ d \notin DOMAIN m \ {b}
    <3>1. b \in Block BY <1>1
    <3>2. d \in (Block \ DOMAIN m) \union {b} BY <1>1, Zenon DEF NewBlocks
    <3> QED BY <3>1, <3>2, Zenon
  <2>8. \A e \in DOMAIN m \ {b} : v[e] = m[e] BY <2>5, <2>7, Zenon
  <2>10. /\ a.block \in Block /\ a.block \notin DOMAIN c.mem \ {b}
         /\ DOMAIN a.mem = (DOMAIN c.mem \ {b}) \union {a.block} /\ a.mem[a.block] = kept
         /\ \A e \in DOMAIN c.mem \ {b} : a.mem[e] = c.mem[e]
    BY <1>1, <2>2, <2>3, <2>5, <2>7, <2>8, Zenon
  <2> QED BY <2>1, <2>2, <2>10 DEF Got
<1>4. \/ a = OutOfMemory(c)
      \/ \E d \in NewBlocks(c) \union {b} :
           a = [c EXCEPT !.err = FALSE, !.block = d, !.mem = With(Without(@, b), d, kept)]
  BY <1>1, Zenon DEF Reallocate
<1> QED BY <1>1, <1>2, <1>3, <1>4, Zenon

\* The state of a call in good order; B are the blocks of the other strings.
Fine(c, B) ==
  /\ IsCall(c) /\ c.fault = "none" /\ c.failures \in Nat /\ c.err \in BOOLEAN
  /\ IsMem(c.mem) /\ IsStr(c.str, c.mem)
  /\ DOMAIN c.mem = B \union Blocks(c.str) /\ c.str.data \notin B

ShownBy(s, m) == IF s.data = Null THEN <<>> ELSE Take(m[s.data], s.size)

\* What a call from c to a leaves: the blocks of others, no block shorter, the text t.
Does(c, a, B, t) ==
  /\ Fine(a, B)
  /\ \A b \in B : a.mem[b] = c.mem[b]
  /\ \A b \in DOMAIN c.mem \intersect DOMAIN a.mem : Len(c.mem[b]) <= Len(a.mem[b])
  /\ ShownBy(a.str, a.mem) = t

\* What is to be copied is there, and is the text t.
Reads(m, src, t) ==
  /\ Sized(t, src.size)
  /\ src.size # 0 => ~Dangling(m, src) /\ Characters(m, src) = t
  /\ src.data # Null /\ src.data \in DOMAIN m => src.size <= Len(m[src.data])

Overwritten(old, new, o, t, n) ==
  /\ Sized(new, Len(old))
  /\ \A k \in 1 .. o : new[k] = old[k]
  /\ \A k \in 1 .. n : new[o + k] = t[k]

Wrote(c, a, o, t, n) ==
  /\ IsCall(a) /\ a.str = c.str /\ a.block = c.block
  /\ a.err = c.err /\ a.failures = c.failures /\ a.fault = c.fault
  /\ DOMAIN a.mem = DOMAIN c.mem
  /\ \A d \in DOMAIN c.mem \ {c.str.data} : a.mem[d] = c.mem[d]
  /\ Overwritten(c.mem[c.str.data], a.mem[c.str.data], o, t, n)

\* A call from c to z that wrote the n characters of t behind the first o of its string.
Rewrites(c, z, B, o, t, n) ==
  /\ Does(c, z, B, Take(ShownBy(c.str, c.mem), o) \o t)
  /\ z.err = c.err /\ z.failures = c.failures
  /\ z.str.data = c.str.data /\ z.str.capacity = c.str.capacity /\ z.str.size = o + n
  /\ \A k \in 1 .. o : z.mem[c.str.data][k] = c.mem[c.str.data][k]
  /\ Len(z.mem[c.str.data]) = Len(c.mem[c.str.data])

\* The cells after memcpy.
LEMMA OverwrittenIs ==
  ASSUME NEW old, NEW l, Sized(old, l), NEW o \in Nat, NEW n, NEW t, Sized(t, n), o + n <= l
  PROVE  Overwritten(old, Take(old, o) \o t \o SubSeq(old, o + n + 1, Len(old)), o, t, n)
<1>1. n \in Nat /\ l \in Nat /\ Len(old) = l BY SizedIs
<1>2. PICK e, r : e = o + n /\ r = l - e OBVIOUS
<1>3. e \in Nat /\ e <= l /\ r \in Nat /\ o <= l /\ e + r = l BY <1>1, <1>2
<1>4. PICK front, back : front = Take(old, o) /\ back = Part(old, e, l) OBVIOUS
<1>5. Sized(front, o) /\ \A k \in 1 .. o : front[k] = old[k] BY <1>3, <1>4, SizedTake
<1>6. Sized(back, r)
  <2>1. l \in Nat /\ e \in Nat /\ e <= l /\ l <= l BY <1>1, <1>3
  <2> QED BY <1>2, <1>4, <2>1, SizedPart
<1>7. PICK both, new : both = Join(front, t) /\ new = Join(both, back) OBVIOUS
<1>8. /\ Sized(both, e) /\ (\A k \in 1 .. o : both[k] = front[k])
      /\ \A k \in 1 .. n : both[o + k] = t[k]
  BY <1>2, <1>5, <1>7, SizedJoin
<1>9. Sized(new, l) /\ \A k \in 1 .. e : new[k] = both[k]
  <2>1. Sized(both, e) /\ Sized(back, r) /\ new = Join(both, back) BY <1>6, <1>7, <1>8
  <2>2. Sized(new, e + r) /\ \A k \in 1 .. e : new[k] = both[k] BY <2>1, SizedJoin
  <2> QED BY <1>3, <2>2
<1>10. \A k \in 1 .. o : new[k] = old[k]
  <2>1. \A k \in 1 .. o : k \in 1 .. e BY <1>1, <1>2
  <2> QED BY <1>5, <1>8, <1>9, <2>1
<1>11. \A k \in 1 .. n : new[o + k] = t[k]
  <2>1. \A k \in 1 .. n : o + k \in 1 .. e BY <1>1, <1>2
  <2> QED BY <1>8, <1>9, <2>1
<1>12. new = Take(old, o) \o t \o SubSeq(old, o + n + 1, Len(old))
  BY <1>1, <1>2, <1>4, <1>7 DEF Join, Part
<1>13. Overwritten(old, new, o, t, n) BY <1>1, <1>9, <1>10, <1>11 DEF Overwritten
<1> QED BY <1>12, <1>13

\* Writing behind o cells of the string's block, if there is room for it.
LEMMA WriteIs ==
  ASSUME NEW c, IsCall(c), c.str.data # Null, c.str.data \in DOMAIN c.mem,
         Sized(c.mem[c.str.data], Len(c.mem[c.str.data])),
         NEW o \in Nat, NEW src, NEW t, Reads(c.mem, src, t),
         o + src.size <= Len(c.mem[c.str.data])
  PROVE  Wrote(c, Write(c, o, src), o, t, src.size)
<1>1. PICK b, old, n, m : b = c.str.data /\ old = c.mem[b] /\ n = src.size /\ m = c.mem OBVIOUS
<1>2. Sized(t, n) /\ Sized(old, Len(old)) /\ o + n <= Len(old) BY <1>1 DEF Reads
<1>3. n \in Nat /\ Len(old) \in Nat BY <1>2, SizedIs
<1>4. PICK a : a = Write(c, o, src) OBVIOUS
<1>5. CASE n = 0
  <2>1. a = c BY <1>1, <1>4, <1>5 DEF Write
  <2>2. Overwritten(old, old, o, t, n) BY <1>2, <1>5 DEF Overwritten
  <2> QED BY <1>1, <1>4, <2>1, <2>2 DEF Wrote
<1>6. CASE n # 0
  <2>1. PICK new : new = Take(old, o) \o t \o SubSeq(old, o + n + 1, Len(old)) OBVIOUS
  <2>2. a = [c EXCEPT !.mem[c.str.data] =
               Take(@, o) \o Characters(c.mem, src) \o SubSeq(@, o + src.size + 1, Len(@))]
    <3>1. ~(o + src.size > Len(c.mem[c.str.data])) /\ src.size # 0 BY <1>1, <1>2, <1>3, <1>6
    <3>2. ~Dangling(c.mem, src) BY <3>1 DEF Reads
    <3> QED BY <1>4, <3>1, <3>2, Zenon DEF Write
  <2>3. Characters(c.mem, src) = t
    <3>1. src.size = n BY <1>1
    <3>2. src.size # 0 BY <1>6, <3>1
    <3> QED BY <3>2, Zenon DEF Reads
  <2>4. /\ IsCall(a) /\ a.str = c.str /\ a.block = c.block
        /\ a.err = c.err /\ a.failures = c.failures /\ a.fault = c.fault
        /\ a.mem = [c.mem EXCEPT ![b] = new]
    BY <1>1, <2>1, <2>2, <2>3 DEF IsCall
  <2>5. a.mem = [m EXCEPT ![b] = new] /\ b \in DOMAIN m BY <1>1, <2>4
  <2>6. DOMAIN a.mem = DOMAIN m /\ a.mem[b] = new /\ \A d \in DOMAIN m \ {b} : a.mem[d] = m[d]
    BY <2>5
  <2>7. Overwritten(old, new, o, t, n) BY <1>2, <2>1, OverwrittenIs
  <2> QED BY <1>1, <1>4, <2>4, <2>6, <2>7 DEF Wrote
<1> QED BY <1>5, <1>6

\* A call that writes to its own block, beginning at o, and then has size s.
LEMMA WroteDoes ==
  ASSUME NEW c, NEW B, Fine(c, B), c.str.data # Null, NEW a, NEW o \in Nat, NEW t, NEW n, Sized(t, n),
         Wrote(c, a, o, t, n), o + n <= Len(c.mem[c.str.data]),
         o <= c.str.size, NEW z, z = [a EXCEPT !.str.size = o + n]
  PROVE  Rewrites(c, z, B, o, t, n)
<1>1. PICK b, old, l, s, m : b = c.str.data /\ old = c.mem[b] /\ l = Len(old) /\ s = c.str.size /\ m = c.mem
  OBVIOUS
<1>2. /\ c.str \in [data : Block \union {Null}, size : Nat, capacity : Nat]
      /\ b \in DOMAIN m /\ Sized(old, l) /\ s <= l /\ c.str.capacity <= l
      /\ DOMAIN m \subseteq Block
  BY <1>1 DEF Fine, IsStr, IsMem
<1>3. n \in Nat /\ l \in Nat /\ s \in Nat BY <1>1, <1>2, SizedIs
<1>4. /\ IsCall(a) /\ a.str = c.str /\ a.err = c.err /\ a.failures = c.failures /\ a.fault = c.fault
      /\ DOMAIN a.mem = DOMAIN m /\ (\A d \in DOMAIN m \ {b} : a.mem[d] = m[d])
      /\ Overwritten(old, a.mem[b], o, t, n)
  BY <1>1 DEF Wrote
<1>5. PICK new : new = a.mem[b] OBVIOUS
<1>6. /\ IsCall(z) /\ z.err = c.err /\ z.failures = c.failures /\ z.fault = c.fault
      /\ z.mem = a.mem /\ z.str = [c.str EXCEPT !.size = o + n]
  BY <1>4 DEF IsCall
<1>7. /\ z.str \in [data : Block \union {Null}, size : Nat, capacity : Nat]
      /\ z.str.data = b /\ z.str.size = o + n /\ z.str.capacity = c.str.capacity
  BY <1>1, <1>2, <1>3, <1>6
<1>8. Sized(new, l) /\ (\A k \in 1 .. o : new[k] = old[k]) /\ \A k \in 1 .. n : new[o + k] = t[k]
  BY <1>1, <1>4, <1>5 DEF Overwritten
<1>9. Len(new) = l BY <1>8, SizedIs
<1>10. \A d \in DOMAIN m : Sized(z.mem[d], Len(z.mem[d])) /\ Len(z.mem[d]) = Len(m[d])
  <2>1. \A d \in DOMAIN m : Sized(m[d], Len(m[d])) BY <1>1 DEF Fine, IsMem
  <2>2. ASSUME NEW d \in DOMAIN m PROVE Sized(z.mem[d], Len(z.mem[d])) /\ Len(z.mem[d]) = Len(m[d])
    <3>1. CASE d = b BY <1>1, <1>5, <1>6, <1>8, <1>9, <3>1
    <3>2. CASE d # b
      <4>1. z.mem[d] = m[d] BY <1>4, <1>6, <3>2
      <4> QED BY <2>1, <4>1
    <3> QED BY <3>1, <3>2
  <2> QED BY <2>2
<1>11. IsMem(z.mem) BY <1>2, <1>4, <1>6, <1>10 DEF IsMem
<1>12. IsStr(z.str, z.mem)
  <2>1. z.mem[z.str.data] = new BY <1>5, <1>6, <1>7
  <2>2. z.str.size <= Len(new) /\ z.str.capacity <= Len(new) BY <1>1, <1>2, <1>7, <1>9
  <2> QED BY <1>1, <1>2, <1>4, <1>6, <1>7, <2>1, <2>2 DEF IsStr
<1>13. Fine(z, B)
  <2>1. Blocks(z.str) = Blocks(c.str) BY <1>1, <1>7 DEF Blocks
  <2> QED BY <1>1, <1>4, <1>6, <1>7, <1>11, <1>12, <2>1 DEF Fine
<1>14. ShownBy(z.str, z.mem) = Take(ShownBy(c.str, c.mem), o) \o t
  <2>1. PICK shown, front, both : /\ shown = Take(old, s) /\ front = Take(shown, o)
                                  /\ both = Join(front, t)
    OBVIOUS
  <2>2. Sized(shown, s) /\ \A k \in 1 .. s : shown[k] = old[k] BY <1>2, <1>3, <2>1, SizedTake
  <2>3. o <= s BY <1>1
  <2>4. Sized(front, o) /\ \A k \in 1 .. o : front[k] = shown[k] BY <2>1, <2>2, <2>3, SizedTake
  <2>5. /\ Sized(both, o + n) /\ (\A k \in 1 .. o : both[k] = front[k])
        /\ \A k \in 1 .. n : both[o + k] = t[k]
    BY <2>1, <2>4, SizedJoin
  <2>6. PICK e : e = o + n OBVIOUS
  <2>7. e \in Nat /\ e <= l BY <1>1, <1>3, <2>6
  <2>8. PICK now : now = Take(new, e) OBVIOUS
  <2>9. Sized(now, e) /\ \A k \in 1 .. e : now[k] = new[k] BY <1>8, <2>7, <2>8, SizedTake
  <2>10. ASSUME NEW k \in 1 .. e PROVE now[k] = both[k]
    <3>1. CASE k \in 1 .. o
      <4>1. k \in 1 .. s BY <1>3, <2>3, <3>1
      <4> QED BY <1>8, <2>2, <2>4, <2>5, <2>9, <3>1, <4>1
    <3>2. CASE k \notin 1 .. o
      <4>1. PICK j : j = k - o OBVIOUS
      <4>2. j \in 1 .. n /\ o + j = k BY <1>3, <2>6, <3>2, <4>1
      <4>3. new[o + j] = t[j] /\ both[o + j] = t[j] BY <1>8, <2>5, <4>2
      <4> QED BY <2>9, <4>2, <4>3
    <3> QED BY <3>1, <3>2
  <2>11. now = both BY <2>5, <2>6, <2>9, <2>10, SizedSame
  <2>12. ShownBy(z.str, z.mem) = now BY <1>1, <1>5, <1>6, <1>7, <2>6, <2>8 DEF ShownBy
  <2>13. ShownBy(c.str, c.mem) = shown BY <1>1, <2>1 DEF ShownBy
  <2> QED BY <2>1, <2>11, <2>12, <2>13 DEF Join
<1>15. \A d \in B : z.mem[d] = c.mem[d]
  <2>1. B \subseteq DOMAIN m /\ b \notin B BY <1>1 DEF Fine
  <2> QED BY <1>1, <1>4, <1>6, <2>1
<1>16. \A d \in DOMAIN c.mem \intersect DOMAIN z.mem : Len(c.mem[d]) <= Len(z.mem[d])
  <2>1. ASSUME NEW d \in DOMAIN m PROVE Len(m[d]) <= Len(z.mem[d])
    <3>1. Len(z.mem[d]) = Len(m[d]) /\ Len(z.mem[d]) \in Nat BY <1>10, SizedIs
    <3> QED BY <3>1
  <2> QED BY <1>1, <2>1
<1>17. Does(c, z, B, Take(ShownBy(c.str, c.mem), o) \o t) BY <1>13, <1>14, <1>15, <1>16 DEF Does
<1>18. \A k \in 1 .. o : z.mem[b][k] = c.mem[b][k] BY <1>1, <1>5, <1>6, <1>8
<1>19. Len(z.mem[b]) = Len(c.mem[b]) BY <1>1, <1>5, <1>6, <1>9
<1> QED BY <1>1, <1>6, <1>7, <1>17, <1>18, <1>19 DEF Rewrites

-----------------------------------------------------------------------------
(* Strings: the parts calls are made of. *)

\* memcpy behind the last character.
LEMMA ExtendIs ==
  ASSUME NEW c, NEW B, Fine(c, B), c.str.data # Null, NEW src, NEW t, Reads(c.mem, src, t),
         c.str.size + src.size <= Len(c.mem[c.str.data])
  PROVE  /\ Does(c, Extend(c, src), B, ShownBy(c.str, c.mem) \o t)
         /\ Extend(c, src).err = c.err /\ Extend(c, src).failures = c.failures
         /\ Extend(c, src).str.data = c.str.data
         /\ Extend(c, src).str.capacity = c.str.capacity
         /\ Extend(c, src).str.size = c.str.size + src.size
         /\ \A k \in 1 .. c.str.size : Extend(c, src).mem[c.str.data][k] = c.mem[c.str.data][k]
<1>1. PICK b, s, n, l, old :
        b = c.str.data /\ s = c.str.size /\ n = src.size /\ l = Len(c.mem[b]) /\ old = c.mem[b]
  OBVIOUS
<1>2. /\ c.str \in [data : Block \union {Null}, size : Nat, capacity : Nat] /\ IsCall(c)
      /\ b \in DOMAIN c.mem /\ Sized(c.mem[b], l) /\ s <= l
  BY <1>1 DEF Fine, IsStr, IsMem
<1>3. s \in Nat /\ l \in Nat /\ Sized(t, n) /\ s + n <= l /\ Sized(old, l)
  BY <1>1, <1>2, SizedIs DEF Reads
<1>4. PICK a, z : a = Write(c, c.str.size, src) /\ z = Extend(c, src) OBVIOUS
<1>5. Wrote(c, a, s, t, n) BY <1>1, <1>2, <1>3, <1>4, WriteIs
<1>6. a.str = c.str BY <1>5 DEF Wrote
<1>7. z = [a EXCEPT !.str.size = @ + n] BY <1>1, <1>4, Zenon DEF Extend
<1>8. z = [a EXCEPT !.str.size = s + n] BY <1>1, <1>6, <1>7
<1>9a. Rewrites(c, z, B, s, t, n)
  <2>1. s <= c.str.size /\ s + n <= Len(c.mem[c.str.data]) /\ s \in Nat /\ Sized(t, n)
    BY <1>1, <1>3
  <2> QED BY <1>5, <1>8, <2>1, WroteDoes
<1>9. /\ Does(c, z, B, Take(ShownBy(c.str, c.mem), s) \o t)
      /\ z.err = c.err /\ z.failures = c.failures
      /\ z.str.data = c.str.data /\ z.str.capacity = c.str.capacity /\ z.str.size = s + n
      /\ \A k \in 1 .. s : z.mem[c.str.data][k] = c.mem[c.str.data][k]
  BY <1>9a DEF Rewrites
<1>10. Take(ShownBy(c.str, c.mem), s) = ShownBy(c.str, c.mem)
  <2>1. PICK shown : shown = Take(old, s) OBVIOUS
  <2>2. Sized(shown, s) /\ \A k \in 1 .. s : shown[k] = old[k] BY <1>2, <1>3, <2>1, SizedTake
  <2>3. s <= s BY <1>3
  <2>4. Sized(Take(shown, s), s) /\ \A k \in 1 .. s : Take(shown, s)[k] = shown[k]
    <3>1. Sized(shown, s) /\ s \in Nat BY <1>3, <2>2
    <3> QED BY <2>3, <3>1, SizedTake
  <2>5. Take(shown, s) = shown BY <2>2, <2>4, SizedSame
  <2> QED BY <1>1, <2>1, <2>5 DEF ShownBy
<1> QED BY <1>1, <1>4, <1>9, <1>10

\* What was there to be read is still there when blocks were added.
LEMMA ReadsOn ==
  ASSUME NEW m, NEW w, NEW src, NEW t, Reads(m, src, t),
         src.data \in DOMAIN m => src.data \in DOMAIN w /\ w[src.data] = m[src.data]
  PROVE  Reads(w, src, t)
BY DEF Reads, Dangling, Characters

\* A string with a capacity and no characters, or none.
LEMMA Create1Is ==
  ASSUME NEW c, NEW B, Fine(c, B), c.str = NullStr, NEW n \in Nat, NEW a \in Create1(c, n)
  PROVE  /\ Does(c, a, B, <<>>)
         /\ \/ a.str = NullStr /\ a.err /\ a.failures = c.failures + 1
            \/ /\ ~a.err /\ a.failures = c.failures /\ a.str.data # Null
               /\ a.str.size = 0 /\ a.str.capacity = n /\ Len(a.mem[a.str.data]) = n
               /\ \A d \in DOMAIN c.mem : d \in DOMAIN a.mem /\ a.mem[d] = c.mem[d]
<1>1. PICK x \in Allocate(c, n) :
        a = IF x.err THEN [x EXCEPT !.str = NullStr]
            ELSE [x EXCEPT !.str = [data |-> x.block, size |-> 0, capacity |-> n],
                           !.mem[x.block] = Cells(n, Nul)]
  BY Zenon DEF Create1
<1>2. IsCall(c) /\ IsMem(c.mem) /\ DOMAIN c.mem = B /\ Null \notin B
      /\ c.fault = "none" /\ c.failures \in Nat /\ c.err \in BOOLEAN
  BY DEF Fine, NullStr, Blocks
<1>3. Refused(c, x) \/ Got(c, x, Cells(n, Garbage), {}) BY <1>2, AllocateIs
<1>4. Null \notin Block BY StrConstants
<1>5. CASE Refused(c, x)
  <2>1. x.err = TRUE /\ IsCall(x) /\ x.mem = c.mem /\ x.failures = c.failures + 1 /\ x.fault = c.fault
    BY <1>5 DEF Refused
  <2>2. a = [x EXCEPT !.str = NullStr] BY <1>1, <2>1
  <2>3. /\ IsCall(a) /\ a.str = NullStr /\ a.mem = c.mem /\ a.err = TRUE
        /\ a.failures = c.failures + 1 /\ a.fault = c.fault
    BY <2>1, <2>2 DEF IsCall
  <2>4. IsStr(a.str, a.mem) /\ Blocks(a.str) = {} /\ a.str.data = Null
    BY <2>3 DEF IsStr, NullStr, Blocks
  <2>5. Fine(a, B)
    <3>1. c.failures + 1 \in Nat BY <1>2
    <3> QED BY <1>2, <2>3, <2>4, <3>1 DEF Fine
  <2>6. ShownBy(a.str, a.mem) = <<>> BY <2>3 DEF ShownBy, NullStr
  <2>7. \A d \in DOMAIN c.mem : Len(c.mem[d]) <= Len(c.mem[d])
    <3>1. \A d \in DOMAIN c.mem : Len(c.mem[d]) \in Nat BY <1>2 DEF IsMem, Sized
    <3> QED BY <3>1
  <2>8. Does(c, a, B, <<>>) BY <2>3, <2>5, <2>6, <2>7 DEF Does
  <2> QED BY <2>3, <2>8
<1>6. CASE Got(c, x, Cells(n, Garbage), {})
  <2>1. PICK b : b = x.block OBVIOUS
  <2>2. /\ IsCall(x) /\ x.failures = c.failures /\ x.fault = c.fault /\ x.err = FALSE
        /\ b \in Block /\ b \notin DOMAIN c.mem
        /\ DOMAIN x.mem = DOMAIN c.mem \union {b}
        /\ \A d \in DOMAIN c.mem : x.mem[d] = c.mem[d]
    BY <1>6, <2>1 DEF Got
  <2>3. a = [x EXCEPT !.str = [data |-> b, size |-> 0, capacity |-> n], !.mem[b] = Cells(n, Nul)]
    BY <1>1, <2>1, <2>2
  <2>4. /\ IsCall(a) /\ a.str = [data |-> b, size |-> 0, capacity |-> n]
        /\ a.mem = [x.mem EXCEPT ![b] = Cells(n, Nul)]
        /\ a.err = FALSE /\ a.failures = c.failures /\ a.fault = c.fault
    BY <2>2, <2>3 DEF IsCall
  <2>5. PICK w, new : w = x.mem /\ new = Cells(n, Nul) OBVIOUS
  <2>6. a.mem = [w EXCEPT ![b] = new] /\ b \in DOMAIN w BY <2>2, <2>4, <2>5
  <2>7. DOMAIN a.mem = DOMAIN w /\ a.mem[b] = new /\ \A d \in DOMAIN w \ {b} : a.mem[d] = w[d]
    BY <2>6
  <2>8. Sized(new, n) BY <2>5, CellsAre
  <2>9. Len(new) = n BY <2>8, SizedIs
  <2>10. \A d \in DOMAIN c.mem : d \in DOMAIN a.mem /\ a.mem[d] = c.mem[d]
    BY <2>2, <2>5, <2>7
  <2>11. DOMAIN a.mem = DOMAIN c.mem \union {b} BY <2>2, <2>5, <2>7
  <2>12. IsMem(a.mem)
    <3>1. \A d \in DOMAIN c.mem : Sized(a.mem[d], Len(a.mem[d])) BY <1>2, <2>10 DEF IsMem
    <3>2. Sized(a.mem[b], Len(a.mem[b])) BY <2>7, <2>8, <2>9
    <3> QED BY <1>2, <2>2, <2>11, <3>1, <3>2 DEF IsMem
  <2>13. a.str.data = b /\ a.str.size = 0 /\ a.str.capacity = n /\ b # Null
         /\ a.str \in [data : Block \union {Null}, size : Nat, capacity : Nat]
    BY <1>4, <2>2, <2>4
  <2>14. IsStr(a.str, a.mem) BY <2>7, <2>9, <2>11, <2>13 DEF IsStr
  <2>15. Fine(a, B)
    <3>1. Blocks(a.str) = {b} BY <2>13 DEF Blocks
    <3> QED BY <1>2, <2>2, <2>4, <2>11, <2>12, <2>13, <2>14, <3>1 DEF Fine
  <2>16. ShownBy(a.str, a.mem) = <<>>
    <3>1. PICK z, t : z = 0 /\ t = Take(new, z) OBVIOUS
    <3>2. z \in Nat /\ z <= n BY <3>1
    <3>3. Sized(t, z) BY <2>8, <3>1, <3>2, SizedTake
    <3>4. t = <<>> BY <3>1, <3>3 DEF Sized
    <3> QED BY <2>7, <2>13, <3>1, <3>4 DEF ShownBy
  <2>17. \A d \in DOMAIN c.mem : Len(c.mem[d]) <= Len(a.mem[d])
    <3>1. \A d \in DOMAIN c.mem : Len(c.mem[d]) \in Nat BY <1>2 DEF IsMem, Sized
    <3> QED BY <2>10, <3>1
  <2>18. Does(c, a, B, <<>>) BY <1>2, <2>10, <2>15, <2>16, <2>17 DEF Does
  <2>19. Len(a.mem[a.str.data]) = n BY <2>7, <2>9, <2>13
  <2> QED BY <2>4, <2>10, <2>13, <2>18, <2>19
<1> QED BY <1>3, <1>5, <1>6

\* One call behind another, on a string that had no block when the first began.
LEMMA DoesThen ==
  ASSUME NEW c, NEW B, Fine(c, B), c.str = NullStr, NEW a, NEW s, Does(c, a, B, s),
         NEW z, NEW t, Does(a, z, B, t)
  PROVE  Does(c, z, B, t)
<1>1. DOMAIN c.mem = B BY DEF Fine, NullStr, Blocks
<1>2. \A d \in B : z.mem[d] = c.mem[d] BY DEF Does
<1>3. \A d \in DOMAIN c.mem : Len(c.mem[d]) <= Len(z.mem[d])
  <2>1. \A d \in DOMAIN c.mem : Len(c.mem[d]) \in Nat BY DEF Fine, IsMem, Sized
  <2> QED BY <1>1, <1>2, <2>1
<1> QED BY <1>2, <1>3 DEF Does

\* What uga_str_create_from leaves: an empty string and an error, or the text.
CreatedFrom(c, a, B, src, t) ==
  \/ Does(c, a, B, <<>>) /\ a.str = NullStr /\ a.err /\ a.failures = c.failures + 1
  \/ /\ Does(c, a, B, t) /\ ~a.err /\ a.failures = c.failures
     /\ a.str.data # Null /\ a.str.size = src.size /\ a.str.capacity = src.size

\* Nothing in front of a text.
LEMMA NothingJoined ==
  ASSUME NEW t, NEW n, Sized(t, n)
  PROVE  <<>> \o t = t
<1>1. PICK e, g, z : e = <<>> /\ g = Join(e, t) /\ z = 0 OBVIOUS
<1>2. Sized(e, z) BY <1>1 DEF Sized
<1>3. g = Join(e, t) /\ n \in Nat BY <1>1, SizedIs
<1>4. Sized(g, z + n) /\ \A k \in 1 .. n : g[z + k] = t[k] BY <1>2, <1>3, SizedJoin
<1>5. z + n = n /\ \A k \in 1 .. n : z + k = k BY <1>1, <1>3
<1>6. g = t BY <1>4, <1>5, SizedSame
<1> QED BY <1>1, <1>6 DEF Join

\* A string with the characters it is created from, or none.
LEMMA CreateFromIs ==
  ASSUME NEW c, NEW B, Fine(c, B), c.str = NullStr, NEW src, NEW t, Reads(c.mem, src, t),
         NEW a \in CreateFrom(c, src)
  PROVE  CreatedFrom(c, a, B, src, t)
<1>1. PICK n : n = src.size OBVIOUS
<1>2. n \in Nat /\ Sized(t, n) BY <1>1, SizedIs DEF Reads
<1>3. PICK x \in Create1(c, n) :
        a = IF x.err THEN x ELSE [Write(x, 0, src) EXCEPT !.str.size = n]
  BY <1>1, Zenon DEF CreateFrom
<1>4. /\ Does(c, x, B, <<>>)
      /\ \/ x.str = NullStr /\ x.err /\ x.failures = c.failures + 1
         \/ /\ ~x.err /\ x.failures = c.failures /\ x.str.data # Null
            /\ x.str.size = 0 /\ x.str.capacity = n /\ Len(x.mem[x.str.data]) = n
            /\ \A d \in DOMAIN c.mem : d \in DOMAIN x.mem /\ x.mem[d] = c.mem[d]
  BY <1>2, <1>3, Create1Is
<1>5. CASE x.err
  <2>1. a = x BY <1>3, <1>5, Zenon
  <2> QED BY <1>4, <1>5, <2>1 DEF CreatedFrom
<1>6. CASE ~x.err
  <2>1. PICK z, y : z = 0 /\ y = Write(x, z, src) OBVIOUS
  <2>2. a = [y EXCEPT !.str.size = z + n] BY <1>2, <1>3, <1>6, <2>1
  <2>3. Fine(x, B) BY <1>4 DEF Does
  <2>4. Reads(x.mem, src, t)
    <3>1. src.data \in DOMAIN c.mem => src.data \in DOMAIN x.mem /\ x.mem[src.data] = c.mem[src.data]
      BY <1>4, <1>6
    <3> QED BY <3>1, ReadsOn
  <2>5. /\ IsCall(x) /\ x.str.data # Null /\ x.str.data \in DOMAIN x.mem
        /\ Sized(x.mem[x.str.data], Len(x.mem[x.str.data]))
    BY <1>4, <1>6, <2>3 DEF Fine, IsStr, IsMem
  <2>6. z \in Nat /\ z + n <= Len(x.mem[x.str.data]) /\ z <= x.str.size BY <1>2, <1>4, <1>6, <2>1
  <2>7. Wrote(x, y, z, t, n) BY <1>1, <2>1, <2>4, <2>5, <2>6, WriteIs
  <2>8a. Rewrites(x, a, B, z, t, n)
    <3>1. Sized(t, n) /\ x.str.data # Null BY <1>2, <2>5
    <3> QED BY <2>2, <2>3, <2>6, <2>7, <3>1, WroteDoes
  <2>8. /\ Does(x, a, B, Take(ShownBy(x.str, x.mem), z) \o t)
        /\ a.err = x.err /\ a.failures = x.failures
        /\ a.str.data = x.str.data /\ a.str.capacity = x.str.capacity /\ a.str.size = z + n
    BY <2>8a DEF Rewrites
  <2>9. Take(ShownBy(x.str, x.mem), z) \o t = t
    <3>1. ShownBy(x.str, x.mem) = <<>> BY <1>4 DEF Does
    <3>2. PICK e, f : e = <<>> /\ f = Take(e, z) OBVIOUS
    <3>3. Sized(e, z) /\ z <= z BY <2>1, <3>2 DEF Sized
    <3>4. Sized(f, z) BY <2>6, <3>2, <3>3, SizedTake
    <3>5. f = <<>> BY <2>1, <3>4 DEF Sized
    <3>6. <<>> \o t = t BY <1>2, NothingJoined
    <3> QED BY <3>1, <3>2, <3>5, <3>6
  <2>10. Does(x, a, B, t) BY <2>8, <2>9
  <2>11. Does(c, a, B, t) BY <1>4, <2>10, DoesThen
  <2>12. a.str.size = n BY <1>2, <2>1, <2>8
  <2> QED BY <1>1, <1>4, <1>6, <2>8, <2>11, <2>12 DEF CreatedFrom
<1> QED BY <1>5, <1>6

\* The parts of Fine.
LEMMA FineIs ==
  ASSUME NEW c, NEW B, Fine(c, B)
  PROVE  /\ IsCall(c) /\ c.fault = "none" /\ c.failures \in Nat /\ c.err \in BOOLEAN
         /\ c.str \in [data : Block \union {Null}, size : Nat, capacity : Nat]
         /\ c.str.size \in Nat /\ c.str.capacity \in Nat
         /\ (c.str.data = Null => c.str = NullStr)
         /\ DOMAIN c.mem \subseteq Block /\ Null \notin Block
         /\ (\A d \in DOMAIN c.mem : Sized(c.mem[d], Len(c.mem[d])) /\ Len(c.mem[d]) \in Nat)
         /\ B \subseteq DOMAIN c.mem /\ c.str.data \notin B
         /\ DOMAIN c.mem = B \union Blocks(c.str)
         /\ (c.str.data # Null =>
               /\ c.str.data \in DOMAIN c.mem
               /\ c.str.size <= Len(c.mem[c.str.data]) /\ c.str.capacity <= Len(c.mem[c.str.data]))
<1>1. c.str \in [data : Block \union {Null}, size : Nat, capacity : Nat] BY DEF Fine, IsStr
<1>2. c.str.data = Null => c.str = NullStr BY <1>1 DEF Fine, IsStr, NullStr
<1>3. \A d \in DOMAIN c.mem : Sized(c.mem[d], Len(c.mem[d])) /\ Len(c.mem[d]) \in Nat
  <2>1. \A d \in DOMAIN c.mem : Sized(c.mem[d], Len(c.mem[d])) BY DEF Fine, IsMem
  <2> QED BY <2>1, SizedIs
<1> QED BY <1>1, <1>2, <1>3, StrConstants DEF Fine, IsMem, IsStr

\* A call that changed nothing of the string or the memory.
LEMMA DoesNothing ==
  ASSUME NEW c, NEW B, Fine(c, B), NEW a, IsCall(a), a.str = c.str, a.mem = c.mem,
         a.fault = c.fault, a.err \in BOOLEAN, a.failures \in Nat
  PROVE  Does(c, a, B, ShownBy(c.str, c.mem))
<1>1. Fine(a, B) BY DEF Fine
<1>2. \A d \in DOMAIN c.mem : Len(c.mem[d]) <= Len(c.mem[d])
  <2>1. \A d \in DOMAIN c.mem : Len(c.mem[d]) \in Nat BY FineIs
  <2> QED BY <2>1
<1> QED BY <1>1, <1>2 DEF Does

\* The string goes on in a block that took over from its own.
Moved(c, a, B, n, cells) ==
  /\ Does(c, a, B, ShownBy(c.str, c.mem))
  /\ a.str.size = c.str.size /\ a.str.capacity = n /\ a.str.data \in Block
  /\ ~a.err /\ a.failures = c.failures /\ a.mem[a.str.data] = cells

\* A string that was moved to a larger block shows the same text.
LEMMA MovesTo ==
  ASSUME NEW c, NEW B, Fine(c, B), NEW x, NEW cells, NEW n \in Nat,
         Got(c, x, cells, Blocks(c.str)), Sized(cells, Len(cells)),
         n <= Len(cells), c.str.size <= Len(cells),
         c.str.data # Null => Grown(c.mem[c.str.data], cells, n),
         NEW a, a = [x EXCEPT !.str.data = x.block, !.str.capacity = n]
  PROVE  Moved(c, a, B, n, cells)
<1>1. PICK b, d, s : b = c.str.data /\ d = x.block /\ s = c.str.size OBVIOUS
<1>2. /\ c.str \in [data : Block \union {Null}, size : Nat, capacity : Nat]
      /\ s \in Nat /\ B \subseteq DOMAIN c.mem /\ b \notin B /\ DOMAIN c.mem = B \union Blocks(c.str)
      /\ DOMAIN c.mem \subseteq Block /\ Null \notin Block
      /\ \A e \in DOMAIN c.mem : Sized(c.mem[e], Len(c.mem[e])) /\ Len(c.mem[e]) \in Nat
  BY <1>1, FineIs
<1>3. DOMAIN c.mem \ Blocks(c.str) = B BY <1>1, <1>2 DEF Blocks
<1>4. /\ IsCall(x) /\ x.str = c.str /\ x.failures = c.failures /\ x.fault = c.fault /\ x.err = FALSE
      /\ d \in Block /\ d \notin B /\ DOMAIN x.mem = B \union {d} /\ x.mem[d] = cells
      /\ \A e \in B : x.mem[e] = c.mem[e]
  BY <1>1, <1>3 DEF Got
<1>5. /\ IsCall(a) /\ a.failures = c.failures /\ a.fault = c.fault /\ a.err = FALSE /\ a.mem = x.mem
      /\ a.str = [c.str EXCEPT !.data = d, !.capacity = n]
  BY <1>1, <1>4 DEF IsCall
<1>6. /\ a.str \in [data : Block \union {Null}, size : Nat, capacity : Nat]
      /\ a.str.data = d /\ a.str.size = s /\ a.str.capacity = n /\ d # Null
  <2>1. PICK r, q : r = c.str /\ q = a.str OBVIOUS
  <2>2. q = [r EXCEPT !.data = d, !.capacity = n] BY <1>5, <2>1
  <2>3. r \in [data : Block \union {Null}, size : Nat, capacity : Nat] /\ r.size = s BY <1>1, <1>2, <2>1
  <2>4. d \in Block \union {Null} /\ d # Null BY <1>2, <1>4
  <2>5. q.data = d /\ q.size = s /\ q.capacity = n BY <2>2, <2>3
  <2>6. q \in [data : Block \union {Null}, size : Nat, capacity : Nat] BY <2>2, <2>3, <2>4
  <2> QED BY <2>1, <2>4, <2>5, <2>6
<1>7. IsMem(a.mem)
  <2>1. \A e \in B : Sized(a.mem[e], Len(a.mem[e])) BY <1>2, <1>4, <1>5
  <2>2. Sized(a.mem[d], Len(a.mem[d])) BY <1>4, <1>5
  <2> QED BY <1>2, <1>4, <1>5, <2>1, <2>2 DEF IsMem
<1>8. IsStr(a.str, a.mem) BY <1>1, <1>4, <1>5, <1>6 DEF IsStr
<1>9. Fine(a, B)
  <2>1. Blocks(a.str) = {d} BY <1>6 DEF Blocks
  <2>2. c.fault = "none" /\ c.failures \in Nat BY FineIs
  <2> QED BY <1>4, <1>5, <1>6, <1>7, <1>8, <2>1, <2>2 DEF Fine
<1>10. \A e \in B : a.mem[e] = c.mem[e] BY <1>4, <1>5
<1>11. ASSUME NEW e \in DOMAIN c.mem \intersect DOMAIN a.mem PROVE Len(c.mem[e]) <= Len(a.mem[e])
  <2>1. CASE e \in B
    <3>1. a.mem[e] = c.mem[e] /\ Len(c.mem[e]) \in Nat BY <1>2, <1>10, <2>1
    <3> QED BY <3>1
  <2>2. CASE e \notin B
    <3>1. e = b /\ e = d /\ e # Null
      <4>1. e \in Blocks(c.str) BY <1>2, <2>2
      <4>2. e = b /\ e # Null BY <1>1, <4>1 DEF Blocks
      <4>3. e \in B \union {d} BY <1>4, <1>5
      <4> QED BY <2>2, <4>2, <4>3
    <3>2. Len(c.mem[b]) <= Len(cells) BY <1>1, <3>1 DEF Grown
    <3> QED BY <1>4, <1>5, <3>1, <3>2
  <2> QED BY <2>1, <2>2
<1>12. ShownBy(a.str, a.mem) = ShownBy(c.str, c.mem)
  <2>1. ShownBy(a.str, a.mem) = Take(cells, s) BY <1>4, <1>5, <1>6 DEF ShownBy
  <2>2. PICK l, now : l = Len(cells) /\ now = Take(cells, s) OBVIOUS
  <2>3. Sized(cells, l) /\ s <= l BY <1>1, <2>2
  <2>4. Sized(now, s) /\ \A k \in 1 .. s : now[k] = cells[k] BY <1>2, <2>2, <2>3, SizedTake
  <2>5. CASE b = Null
    <3>1. c.str = NullStr BY <1>1, <2>5, FineIs
    <3>2. s = 0 /\ ShownBy(c.str, c.mem) = <<>> BY <1>1, <3>1 DEF NullStr, ShownBy
    <3>3. now = <<>> BY <2>4, <3>2 DEF Sized
    <3> QED BY <2>1, <2>2, <3>2, <3>3
  <2>6. CASE b # Null
    <3>1. PICK old, m, was : old = c.mem[b] /\ m = Len(old) /\ was = Take(old, s) OBVIOUS
    <3>2. Sized(old, m) /\ s <= m /\ m \in Nat BY <1>1, <2>6, <3>1, FineIs
    <3>3. Sized(was, s) /\ \A k \in 1 .. s : was[k] = old[k] BY <1>2, <3>1, <3>2, SizedTake
    <3>4. \A k \in 1 .. m : cells[k] = old[k] BY <1>1, <2>6, <3>1 DEF Grown
    <3>5. \A k \in 1 .. s : now[k] = was[k] BY <1>2, <2>4, <3>2, <3>3, <3>4
    <3>6. now = was BY <2>4, <3>3, <3>5, SizedSame
    <3>7. ShownBy(c.str, c.mem) = was BY <1>1, <2>6, <3>1 DEF ShownBy
    <3> QED BY <2>1, <2>2, <3>6, <3>7
  <2> QED BY <2>5, <2>6
<1>13. Does(c, a, B, ShownBy(c.str, c.mem)) BY <1>9, <1>10, <1>11, <1>12 DEF Does
<1> QED BY <1>1, <1>4, <1>5, <1>6, <1>13 DEF Moved

\* What uga_str_reserve leaves.
Reserved(c, a, B, n) ==
  /\ Does(c, a, B, ShownBy(c.str, c.mem)) /\ a.str.size = c.str.size
  /\ \/ a = c /\ n <= c.str.capacity
     \/ a.str = c.str /\ a.mem = c.mem /\ a.err /\ a.failures = c.failures + 1
     \/ /\ ~a.err /\ a.failures = c.failures /\ a.str.data \in Block /\ a.str.capacity = n
        /\ n <= Len(a.mem[a.str.data])
        /\ c.str.data # Null => Grown(c.mem[c.str.data], a.mem[a.str.data], n)

\* Reserving leaves the string its text and makes room, or is refused.
LEMMA ReserveIs ==
  ASSUME NEW c, NEW B, Fine(c, B), NEW n \in Nat, NEW a \in Reserve(c, n)
  PROVE  Reserved(c, a, B, n)
<1>1. /\ IsCall(c) /\ c.failures \in Nat /\ c.err \in BOOLEAN
      /\ c.str.size \in Nat /\ c.str.capacity \in Nat
      /\ DOMAIN c.mem \subseteq Block
  BY FineIs
<1>2. CASE n <= c.str.capacity
  <2>1. a = c BY <1>2 DEF Reserve
  <2>2. Does(c, c, B, ShownBy(c.str, c.mem)) BY <1>1, DoesNothing
  <2> QED BY <1>2, <2>1, <2>2 DEF Reserved
<1>3. CASE ~(n <= c.str.capacity)
  <2>1. PICK x \in Reallocate(c, n) :
          a = IF x.err THEN x ELSE [x EXCEPT !.str.data = x.block, !.str.capacity = n]
    BY <1>3, Zenon DEF Reserve
  <2>2. CASE Refused(c, x)
    <3>1. /\ IsCall(x) /\ x.str = c.str /\ x.mem = c.mem /\ x.fault = c.fault
          /\ x.err = TRUE /\ x.failures = c.failures + 1
      BY <2>2 DEF Refused
    <3>2. x.failures \in Nat /\ x.err \in BOOLEAN
      <4>1. x.failures \in Nat BY <1>1, <3>1
      <4>2. x.err \in BOOLEAN BY <3>1, Zenon
      <4> QED BY <4>1, <4>2
    <3>3. Does(c, x, B, ShownBy(c.str, c.mem)) BY <3>1, <3>2, DoesNothing
    <3>4. a = x BY <2>1, <3>1, Zenon
    <3> QED BY <3>1, <3>3, <3>4 DEF Reserved
  <2>3. ASSUME NEW cells, Got(c, x, cells, Blocks(c.str)), Sized(cells, Len(cells)), n <= Len(cells),
               c.str.data # Null => Grown(c.mem[c.str.data], cells, n)
        PROVE  Reserved(c, a, B, n)
    <3>1. x.err = FALSE BY <2>3 DEF Got
    <3>2. a = [x EXCEPT !.str.data = x.block, !.str.capacity = n] BY <2>1, <3>1
    <3>3. c.str.size <= Len(cells)
      <4>1. CASE c.str.data = Null
        <5>1. c.str.size = 0 BY <4>1, FineIs DEF NullStr
        <5>2. Len(cells) \in Nat BY <2>3, SizedIs
        <5> QED BY <5>1, <5>2
      <4>2. CASE c.str.data # Null
        <5>1. Len(c.mem[c.str.data]) <= Len(cells) BY <2>3, <4>2 DEF Grown
        <5>2. c.str.size <= Len(c.mem[c.str.data]) /\ Len(c.mem[c.str.data]) \in Nat BY <4>2, FineIs
        <5>3. Len(cells) \in Nat BY <2>3, SizedIs
        <5> QED BY <1>1, <5>1, <5>2, <5>3
      <4> QED BY <4>1, <4>2
    <3>4. Moved(c, a, B, n, cells) BY <2>3, <3>2, <3>3, MovesTo
    <3> QED BY <2>3, <3>4 DEF Moved, Reserved
  <2>4. CASE c.str.data = Null
    <3>1. x \in Allocate(c, n) BY <2>1, <2>4, Zenon DEF Reallocate
    <3>2. Refused(c, x) \/ Got(c, x, Cells(n, Garbage), {}) BY <1>1, <3>1, AllocateIs
    <3>3. PICK cells : cells = Cells(n, Garbage) OBVIOUS
    <3>4. Sized(cells, n) BY <3>3, CellsAre
    <3>5. Len(cells) = n BY <3>4, SizedIs
    <3>6. Blocks(c.str) = {} BY <2>4 DEF Blocks
    <3>7. Sized(cells, Len(cells)) /\ n <= Len(cells) BY <3>4, <3>5
    <3> QED BY <2>2, <2>3, <2>4, <3>2, <3>3, <3>6, <3>7
  <2>5. CASE c.str.data # Null
    <3>1. c.str.data \in DOMAIN c.mem /\ Sized(c.mem[c.str.data], Len(c.mem[c.str.data]))
      BY <2>5, FineIs
    <3>2. \/ Refused(c, x)
          \/ \E cells : Grown(c.mem[c.str.data], cells, n) /\ Got(c, x, cells, {c.str.data})
      BY <1>1, <2>1, <2>5, <3>1, ReallocateIs
    <3>3. Blocks(c.str) = {c.str.data} BY <2>5 DEF Blocks
    <3>4. \A cells : Grown(c.mem[c.str.data], cells, n) => Sized(cells, Len(cells)) /\ n <= Len(cells)
      BY DEF Grown
    <3> QED BY <2>2, <2>3, <3>2, <3>3, <3>4
  <2> QED BY <2>4, <2>5
<1> QED BY <1>2, <1>3

\* One call behind another that left the string where it was.
LEMMA DoesInPlace ==
  ASSUME NEW c, NEW B, Fine(c, B), NEW a, NEW s, Does(c, a, B, s),
         NEW z, NEW t, Does(a, z, B, t), z.str.data = a.str.data
  PROVE  Does(c, z, B, t)
<1>1. \A d \in B : z.mem[d] = c.mem[d] BY DEF Does
<1>2. DOMAIN z.mem = DOMAIN a.mem
  <2>1. Fine(a, B) /\ Fine(z, B) BY DEF Does
  <2>2. DOMAIN a.mem = B \union Blocks(a.str) /\ DOMAIN z.mem = B \union Blocks(z.str) BY <2>1, FineIs
  <2> QED BY <2>2 DEF Blocks
<1>3. \A d \in DOMAIN c.mem \intersect DOMAIN z.mem : Len(c.mem[d]) <= Len(z.mem[d])
  <2>1. ASSUME NEW d \in DOMAIN c.mem \intersect DOMAIN z.mem PROVE Len(c.mem[d]) <= Len(z.mem[d])
    <3>1. d \in DOMAIN c.mem /\ d \in DOMAIN a.mem /\ d \in DOMAIN z.mem BY <1>2
    <3>2. Len(c.mem[d]) <= Len(a.mem[d]) /\ Len(a.mem[d]) <= Len(z.mem[d]) BY <3>1 DEF Does
    <3>3. Fine(a, B) /\ Fine(z, B) BY DEF Does
    <3>4. Len(c.mem[d]) \in Nat /\ Len(a.mem[d]) \in Nat /\ Len(z.mem[d]) \in Nat
      BY <3>1, <3>3, FineIs
    <3> QED BY <3>2, <3>4
  <2> QED BY <2>1
<1> QED BY <1>1, <1>3 DEF Does

\* Once the block has grown, what was to be read is there, or it was in the block that moved.
LEMMA ReadsAfter ==
  ASSUME NEW c, NEW B, Fine(c, B), NEW src, NEW t, Reads(c.mem, src, t),
         NEW x, Fine(x, B), \A d \in B : x.mem[d] = c.mem[d],
         NEW n, c.str.data # Null => Grown(c.mem[c.str.data], x.mem[x.str.data], n),
         x.str.data # Null
  PROVE  \/ Reads(x.mem, src, t)
         \/ src.size # 0 /\ c.str.data # Null /\ src.data = c.str.data /\ Dangling(x.mem, src)
<1>1. Sized(t, src.size) /\ src.size \in Nat BY SizedIs DEF Reads
<1>2. /\ (\A d \in DOMAIN x.mem : Len(x.mem[d]) \in Nat)
      /\ DOMAIN x.mem = B \union {x.str.data} /\ x.str.data \notin B
      /\ B \subseteq DOMAIN x.mem
  BY FineIs DEF Blocks
<1>3. DOMAIN c.mem = B \union Blocks(c.str) /\ B \subseteq DOMAIN c.mem /\ c.str.data \notin B
      /\ Null \notin Block /\ DOMAIN c.mem \subseteq Block
  BY FineIs
<1>4. CASE src.size = 0
  <2>1. src.data \in DOMAIN x.mem => src.size <= Len(x.mem[src.data]) BY <1>2, <1>4
  <2> QED BY <1>1, <1>4, <2>1 DEF Reads
<1>5. CASE src.size # 0 /\ src.data = Null
  BY <1>1, <1>5 DEF Reads, Dangling, Characters
<1>6. CASE src.size # 0 /\ src.data \in B
  <2>1. x.mem[src.data] = c.mem[src.data] /\ src.data \in DOMAIN x.mem /\ src.data \in DOMAIN c.mem
    BY <1>2, <1>3, <1>6
  <2> QED BY <2>1, ReadsOn
<1>7. CASE src.size # 0 /\ src.data \in Blocks(c.str)
  <2>1. PICK b, r, l, old, new : /\ b = c.str.data /\ r = src.size /\ old = c.mem[b]
                                 /\ l = Len(old) /\ new = x.mem[b]
    OBVIOUS
  <2>2. src.data = b /\ b # Null /\ b \in DOMAIN c.mem BY <1>3, <1>7, <2>1 DEF Blocks
  <2>3. CASE b \notin DOMAIN x.mem BY <1>7, <2>1, <2>2, <2>3 DEF Dangling
  <2>4. CASE b \in DOMAIN x.mem
    <3>1. b = x.str.data BY <1>2, <1>3, <2>1, <2>4
    <3>2. Grown(old, new, n) BY <2>1, <2>2, <3>1
    <3>3. /\ Sized(old, l) /\ l \in Nat /\ r \in Nat /\ r <= l
      <4>1. Sized(old, l) /\ l \in Nat BY <2>1, <2>2, FineIs
      <4>2. r <= l BY <2>1, <2>2 DEF Reads
      <4> QED BY <1>1, <2>1, <4>1, <4>2
    <3>4. PICK k : k = Len(new) OBVIOUS
    <3>5. Sized(new, k) /\ l <= k /\ \A j \in 1 .. l : new[j] = old[j]
      BY <2>1, <3>2, <3>4 DEF Grown
    <3>6. k \in Nat BY <3>5, SizedIs
    <3>7. r <= k BY <3>3, <3>5, <3>6
    <3>8. PICK was, now : was = Take(old, r) /\ now = Take(new, r) OBVIOUS
    <3>9. Sized(was, r) /\ \A j \in 1 .. r : was[j] = old[j] BY <3>3, <3>8, SizedTake
    <3>10. Sized(now, r) /\ \A j \in 1 .. r : now[j] = new[j] BY <3>3, <3>5, <3>7, <3>8, SizedTake
    <3>11. \A j \in 1 .. r : now[j] = was[j]
      <4>1. \A j \in 1 .. r : j \in 1 .. l BY <3>3
      <4> QED BY <3>5, <3>9, <3>10, <4>1
    <3>12. now = was BY <3>9, <3>10, <3>11, SizedSame
    <3>13. t = was BY <1>7, <2>1, <2>2, <3>8 DEF Reads, Characters
    <3>14. Characters(x.mem, src) = t BY <2>1, <2>2, <3>8, <3>12, <3>13 DEF Characters
    <3> QED BY <1>1, <2>1, <2>2, <2>4, <3>4, <3>7, <3>14 DEF Reads, Dangling
  <2> QED BY <2>3, <2>4
<1>8. src.size # 0 => src.data = Null \/ src.data \in DOMAIN c.mem BY DEF Reads, Dangling
<1> QED BY <1>3, <1>4, <1>5, <1>6, <1>7, <1>8

\* What uga_str_append leaves: the text with another behind it; or without it, and an
\* error; or it read what was in its own block.
Appended(c, a, B, src, t) ==
  \/ /\ Does(c, a, B, ShownBy(c.str, c.mem)) /\ a.str = c.str
     /\ a.err /\ a.failures = c.failures + 1
  \/ /\ Does(c, a, B, ShownBy(c.str, c.mem) \o t)
     /\ (a.err => c.err) /\ a.failures = c.failures
     /\ c.str.data = Null => ~a.err /\ a.str.size = src.size /\ a.str.capacity = src.size
  \/ /\ a.fault = "stale" /\ c.str.data # Null /\ src.data = c.str.data
     /\ c.str.capacity - c.str.size < src.size

\* When there is room nothing moves, and nothing is allocated.
Roomy(c, a, B, src, t) ==
  /\ Does(c, a, B, ShownBy(c.str, c.mem) \o t)
  /\ a.err = c.err /\ a.failures = c.failures
  /\ a.str.data = c.str.data /\ a.str.capacity = c.str.capacity
  /\ a.str.size = c.str.size + src.size
  /\ \A k \in 1 .. c.str.size : a.mem[c.str.data][k] = c.mem[c.str.data][k]

\* With room in the block, what is appended stands behind the text.
LEMMA ExtendRoomy ==
  ASSUME NEW c, NEW B, Fine(c, B), c.str.data # Null, NEW src, NEW t, Reads(c.mem, src, t),
         c.str.size + src.size <= Len(c.mem[c.str.data])
  PROVE  Roomy(c, Extend(c, src), B, src, t)
BY ExtendIs DEF Roomy

\* With space left, append does nothing else.
LEMMA AppendRoomy ==
  ASSUME NEW c, NEW B, Fine(c, B), c.str.data # Null, NEW src, NEW t, Reads(c.mem, src, t),
         SpaceLeft(c) >= src.size, NEW a \in Append1(c, src)
  PROVE  Roomy(c, a, B, src, t)
<1>1. a = Extend(c, src) BY DEF Append1
<1>2. PICK s, n, p, l : /\ s = c.str.size /\ n = src.size /\ p = c.str.capacity
                        /\ l = Len(c.mem[c.str.data])
  OBVIOUS
<1>3. s \in Nat /\ p \in Nat /\ p <= l /\ l \in Nat BY <1>2, FineIs
<1>4. n \in Nat BY <1>2, SizedIs DEF Reads
<1>5. s + n <= l BY <1>2, <1>3, <1>4 DEF SpaceLeft
<1> QED BY <1>1, <1>2, <1>5, ExtendRoomy

\* What goes wrong when the source dangles or there is no block.
LEMMA ExtendFaults ==
  ASSUME NEW c, IsCall(c), NEW src
  PROVE  /\ Extend(c, src).failures = c.failures /\ Extend(c, src).err = c.err
         /\ (c.str.data # Null /\ src.size # 0 /\ Dangling(c.mem, src) => Extend(c, src).fault = "stale")
         /\ (c.str.data = Null /\ src.size # 0 => Extend(c, src).fault = "null")
<1>1. PICK a, z : a = Write(c, c.str.size, src) /\ z = Extend(c, src) OBVIOUS
<1>2. IsCall(a) /\ a.failures = c.failures /\ a.err = c.err
  <2>1. PICK new : a = c \/ a = [c EXCEPT !.mem = new] \/ \E what : a = [c EXCEPT !.fault = what]
    <3>1. CASE \E new : a = [c EXCEPT !.mem = new] BY <3>1
    <3>2. CASE a = c \/ \E what : a = Faulty(c, what) BY <3>2 DEF Faulty
    <3>3. \/ a = c \/ \E what : a = Faulty(c, what)
          \/ a = [c EXCEPT !.mem[c.str.data] =
                    Take(@, c.str.size) \o Characters(c.mem, src)
                      \o SubSeq(@, c.str.size + src.size + 1, Len(@))]
      BY <1>1, ZenonT(30) DEF Write
    <3>4. \/ a = c \/ \E what : a = Faulty(c, what)
          \/ \E new : a = [c EXCEPT !.mem = new]
      BY <3>3, Zenon
    <3> QED BY <3>1, <3>2, <3>4
  <2> QED BY <2>1 DEF IsCall
<1>3. c.str.data # Null /\ src.size # 0 /\ Dangling(c.mem, src) => a.fault = "stale"
  <2>1. c.str.data # Null /\ src.size # 0 /\ Dangling(c.mem, src) => a = Faulty(c, "stale")
    BY <1>1, Zenon DEF Write
  <2> QED BY <2>1 DEF Faulty, IsCall
<1>3a. src.size # 0 /\ c.str.data = Null => a.fault = "null"
  <2>1. src.size # 0 /\ c.str.data = Null => a = Faulty(c, "null") BY <1>1, Zenon DEF Write
  <2> QED BY <2>1 DEF Faulty, IsCall
<1>4. z = [a EXCEPT !.str.size = @ + src.size] BY <1>1, Zenon DEF Extend
<1>5. PICK s : z = [a EXCEPT !.str = s] BY <1>4
<1>6. z.failures = a.failures /\ z.err = a.err /\ z.fault = a.fault BY <1>2, <1>5 DEF IsCall
<1>7. Extend(c, src).failures = c.failures /\ Extend(c, src).err = c.err
      /\ Extend(c, src).fault = a.fault
  BY <1>1, <1>2, <1>6
<1>8. c.str.data # Null /\ src.size # 0 /\ Dangling(c.mem, src) => Extend(c, src).fault = "stale"
  BY <1>3, <1>7
<1>9. c.str.data = Null /\ src.size # 0 => Extend(c, src).fault = "null" BY <1>3a, <1>7
<1> QED BY <1>7, <1>8, <1>9

\* Without room in the block, appending writes beyond its end.
LEMMA ExtendOverruns ==
  ASSUME NEW c, IsCall(c), NEW src, src.size # 0, c.str.data # Null, ~Dangling(c.mem, src),
         c.str.size + src.size > Len(c.mem[c.str.data])
  PROVE  Extend(c, src).fault = "overrun"
<1>1. PICK a, z : a = Write(c, c.str.size, src) /\ z = Extend(c, src) OBVIOUS
<1>2. a = Faulty(c, "overrun") BY <1>1, Zenon DEF Write
<1>3. IsCall(a) /\ a.fault = "overrun" BY <1>2 DEF Faulty, IsCall
<1>4. z = [a EXCEPT !.str.size = @ + src.size] BY <1>1, Zenon DEF Extend
<1>5. PICK s : z = [a EXCEPT !.str = s] BY <1>4
<1>6. z.fault = a.fault BY <1>3, <1>5 DEF IsCall
<1> QED BY <1>1, <1>3, <1>6

\* Appending adds the text, is refused, or reads what lay in the block it freed.
LEMMA AppendIs ==
  ASSUME NEW c, NEW B, Fine(c, B), NEW src, NEW t, Reads(c.mem, src, t), NEW a \in Append1(c, src)
  PROVE  Appended(c, a, B, src, t)
<1>1. PICK s, n, p : s = c.str.size /\ n = src.size /\ p = c.str.capacity OBVIOUS
<1>2. s \in Nat /\ p \in Nat /\ c.failures \in Nat /\ Null \notin Block BY <1>1, FineIs
<1>3. n \in Nat /\ Sized(t, n) BY <1>1, SizedIs DEF Reads
<1>4. CASE c.str.data = Null
  <2>1. a \in CreateFrom(c, src) BY <1>4 DEF Append1
  <2>2. c.str = NullStr BY <1>4, FineIs
  <2>3a. CreatedFrom(c, a, B, src, t) BY <2>1, <2>2, CreateFromIs
  <2>3. \/ Does(c, a, B, <<>>) /\ a.str = NullStr /\ a.err /\ a.failures = c.failures + 1
        \/ /\ Does(c, a, B, t) /\ ~a.err /\ a.failures = c.failures
           /\ a.str.data # Null /\ a.str.size = src.size /\ a.str.capacity = src.size
    BY <2>3a DEF CreatedFrom
  <2>4. ShownBy(c.str, c.mem) = <<>> BY <1>4 DEF ShownBy
  <2>5. <<>> \o t = t BY <1>3, NothingJoined
  <2> QED BY <1>4, <2>2, <2>3, <2>4, <2>5 DEF Appended
<1>5. CASE c.str.data # Null /\ SpaceLeft(c) >= src.size
  <2>1. Roomy(c, a, B, src, t) BY <1>5, AppendRoomy
  <2> QED BY <1>5, <2>1 DEF Roomy, Appended
<1>6. CASE c.str.data # Null /\ ~(SpaceLeft(c) >= src.size)
  <2>1. PICK x \in Reserve(c, s + n) : a = IF x.err THEN x ELSE Extend(x, src)
    BY <1>1, <1>6, Zenon DEF Append1
  <2>2. s + n \in Nat /\ ~(s + n <= p) /\ p - s < n BY <1>1, <1>2, <1>3, <1>6 DEF SpaceLeft
  <2>3. Reserved(c, x, B, s + n) BY <2>1, <2>2, ReserveIs
  <2>4. CASE x.str = c.str /\ x.mem = c.mem /\ x.err /\ x.failures = c.failures + 1
    <3>1. a = x BY <2>1, <2>4, Zenon
    <3>2. Does(c, a, B, ShownBy(c.str, c.mem)) BY <2>3, <3>1 DEF Reserved
    <3> QED BY <2>4, <3>1, <3>2 DEF Appended
  <2>5. CASE /\ ~x.err /\ x.failures = c.failures /\ x.str.data \in Block /\ x.str.capacity = s + n
             /\ s + n <= Len(x.mem[x.str.data])
             /\ c.str.data # Null => Grown(c.mem[c.str.data], x.mem[x.str.data], s + n)
    <3>1. a = Extend(x, src) BY <2>1, <2>5, Zenon
    <3>2. Does(c, x, B, ShownBy(c.str, c.mem)) /\ x.str.size = s BY <1>1, <2>3 DEF Reserved
    <3>3. Fine(x, B) /\ (\A d \in B : x.mem[d] = c.mem[d])
          /\ ShownBy(x.str, x.mem) = ShownBy(c.str, c.mem)
      BY <3>2 DEF Does
    <3>4. x.str.data # Null BY <1>2, <2>5
    <3>5. PICK m : m = s + n OBVIOUS
    <3>6. c.str.data # Null => Grown(c.mem[c.str.data], x.mem[x.str.data], m) BY <2>5, <3>5
    <3>7. \/ Reads(x.mem, src, t)
          \/ src.size # 0 /\ c.str.data # Null /\ src.data = c.str.data /\ Dangling(x.mem, src)
      BY <3>3, <3>4, <3>6, ReadsAfter
    <3>8. CASE Reads(x.mem, src, t)
      <4>1. x.str.size + src.size <= Len(x.mem[x.str.data]) BY <1>1, <2>5, <3>2
      <4>2. Roomy(x, a, B, src, t) BY <3>1, <3>3, <3>4, <3>8, <4>1, ExtendRoomy
      <4>3. Does(x, a, B, ShownBy(c.str, c.mem) \o t) /\ a.str.data = x.str.data
            /\ a.err = x.err /\ a.failures = x.failures
        BY <3>3, <4>2 DEF Roomy
      <4>4. Does(c, a, B, ShownBy(c.str, c.mem) \o t) BY <3>2, <4>3, DoesInPlace
      <4> QED BY <1>6, <2>5, <4>3, <4>4 DEF Appended
    <3>9. CASE src.size # 0 /\ c.str.data # Null /\ src.data = c.str.data /\ Dangling(x.mem, src)
      <4>1. IsCall(x) BY <3>3, FineIs
      <4>2. a.fault = "stale" BY <3>1, <3>4, <3>9, <4>1, ExtendFaults
      <4> QED BY <1>1, <2>2, <3>9, <4>2 DEF Appended
    <3> QED BY <3>7, <3>8, <3>9
  <2> QED BY <1>1, <2>2, <2>3, <2>4, <2>5 DEF Reserved
<1> QED BY <1>4, <1>5, <1>6

\* After a call the string shows what the call left.
LEMMA CallHolds ==
  ASSUME NEW c, NEW B, Fine(c, B), NEW a, NEW t, Does(c, a, B, t)
  PROVE  Does(c, a, B, ShownBy(a.str, a.mem)) /\ Fine(a, B) /\ ShownBy(a.str, a.mem) = t
BY DEF Does

\* What uga_str_push_back leaves: the character behind the text; after a failed request what
\* may be well or a fault; and a fault when size had gone beyond capacity.
Pushed(c, a, B, t) ==
  \/ Does(c, a, B, ShownBy(c.str, c.mem) \o t) /\ (a.err => c.err) /\ a.failures = c.failures
  \/ /\ a.failures = c.failures + 1
     /\ a.fault = "none" => Does(c, a, B, ShownBy(a.str, a.mem))
  \/ a.fault # "none" /\ a.failures = c.failures /\ c.str.size > c.str.capacity

\* Pushing a character back, with room for it or without.
LEMMA PushBackIs ==
  ASSUME NEW c, NEW B, Fine(c, B), NEW src, NEW t, Sized(t, 1),
         src.size = 1, src.data = Null, \A m : Reads(m, src, t),
         NEW a \in PushBack(c, src)
  PROVE  Pushed(c, a, B, t)
<1>1. PICK s, p, one : s = c.str.size /\ p = c.str.capacity /\ one = 1 OBVIOUS
<1>2. s \in Nat /\ p \in Nat /\ c.failures \in Nat /\ Null \notin Block /\ IsCall(c) BY <1>1, FineIs
<1>3. \A m : ~Dangling(m, src) BY DEF Dangling
<1>4. CASE c.str.data = Null
  <2>1. PICK x \in Create1(c, 1) : a = Extend(x, src) BY <1>4, Zenon DEF PushBack
  <2>2. c.str = NullStr /\ one \in Nat BY <1>1, <1>4, FineIs
  <2>3. x \in Create1(c, one) BY <1>1, <2>1
  <2>4. /\ Does(c, x, B, <<>>)
        /\ \/ x.str = NullStr /\ x.err /\ x.failures = c.failures + 1
           \/ /\ ~x.err /\ x.failures = c.failures /\ x.str.data # Null
              /\ x.str.size = 0 /\ x.str.capacity = one /\ Len(x.mem[x.str.data]) = one
    BY <2>2, <2>3, Create1Is
  <2>5. Fine(x, B) /\ ShownBy(x.str, x.mem) = <<>> BY <2>4, CallHolds
  <2>6. CASE x.str = NullStr /\ x.failures = c.failures + 1
    <3>1. IsCall(x) /\ x.str.data = Null /\ src.size # 0 BY <2>5, <2>6, FineIs DEF NullStr
    <3>2. Extend(x, src).failures = x.failures /\ Extend(x, src).fault = "null"
      BY <3>1, ExtendFaults
    <3> QED BY <2>1, <2>6, <3>2 DEF Pushed
  <2>7. CASE ~x.err /\ x.failures = c.failures /\ x.str.data # Null
             /\ x.str.size = 0 /\ Len(x.mem[x.str.data]) = one
    <3>1. x.str.size + src.size <= Len(x.mem[x.str.data]) BY <1>1, <2>7
    <3>2. Roomy(x, a, B, src, t) BY <2>1, <2>5, <2>7, <3>1, ExtendRoomy
    <3>3. /\ Does(x, a, B, <<>> \o t) /\ a.str.data = x.str.data
          /\ a.err = x.err /\ a.failures = x.failures
      BY <2>5, <3>2 DEF Roomy
    <3>4. Does(c, a, B, <<>> \o t) BY <2>4, <3>3, DoesInPlace
    <3>5. ShownBy(c.str, c.mem) = <<>> BY <1>4 DEF ShownBy
    <3> QED BY <2>7, <3>3, <3>4, <3>5 DEF Pushed
  <2> QED BY <2>4, <2>6, <2>7
<1>5. CASE c.str.data # Null /\ SpaceLeft(c) = 0
  <2>1. PICK x \in Reserve(c, s + 1) : a = Extend(x, src) BY <1>1, <1>5, Zenon DEF PushBack
  <2>2. s + 1 \in Nat /\ ~(s + 1 <= p) BY <1>1, <1>2, <1>5 DEF SpaceLeft
  <2>3. Reserved(c, x, B, s + 1) BY <2>1, <2>2, ReserveIs
  <2>4. Does(c, x, B, ShownBy(c.str, c.mem)) /\ x.str.size = s BY <1>1, <2>3 DEF Reserved
  <2>5. Fine(x, B) /\ ShownBy(x.str, x.mem) = ShownBy(c.str, c.mem) BY <2>4, CallHolds
  <2>6. \/ x.str = c.str /\ x.mem = c.mem /\ x.err /\ x.failures = c.failures + 1
        \/ /\ ~x.err /\ x.failures = c.failures /\ x.str.data \in Block
           /\ s + 1 <= Len(x.mem[x.str.data])
    BY <1>1, <2>2, <2>3 DEF Reserved
  <2>7. x.str.data # Null BY <1>2, <1>5, <2>6
  <2>8. CASE s + 1 <= Len(x.mem[x.str.data])
    <3>1. x.str.size + src.size <= Len(x.mem[x.str.data]) BY <2>4, <2>8
    <3>2. Roomy(x, a, B, src, t) BY <2>1, <2>5, <2>7, <3>1, ExtendRoomy
    <3>3. /\ Does(x, a, B, ShownBy(c.str, c.mem) \o t) /\ a.str.data = x.str.data
          /\ a.err = x.err /\ a.failures = x.failures
      BY <2>5, <3>2 DEF Roomy
    <3>4. Does(c, a, B, ShownBy(c.str, c.mem) \o t) BY <2>4, <3>3, DoesInPlace
    <3>5. Does(c, a, B, ShownBy(a.str, a.mem)) BY <3>4, CallHolds
    <3> QED BY <2>6, <3>3, <3>4, <3>5 DEF Pushed
  <2>9. CASE ~(s + 1 <= Len(x.mem[x.str.data]))
    <3>1. x.failures = c.failures + 1 BY <2>6, <2>9
    <3>2. Len(x.mem[x.str.data]) \in Nat /\ IsCall(x) BY <2>5, <2>7, FineIs
    <3>3. x.str.size + src.size > Len(x.mem[x.str.data]) /\ src.size # 0 BY <1>2, <2>4, <2>9, <3>2
    <3>4. Extend(x, src).failures = x.failures BY <3>2, ExtendFaults
    <3>5. Extend(x, src).fault = "overrun" BY <1>3, <2>7, <3>2, <3>3, ExtendOverruns
    <3> QED BY <2>1, <3>1, <3>4, <3>5 DEF Pushed
  <2> QED BY <2>8, <2>9
<1>6. CASE c.str.data # Null /\ SpaceLeft(c) # 0
  <2>1. a = Extend(c, src) BY <1>6 DEF PushBack
  <2>2. PICK l : l = Len(c.mem[c.str.data]) OBVIOUS
  <2>3. l \in Nat /\ s <= l /\ p <= l BY <1>1, <1>6, <2>2, FineIs
  <2>4. CASE s + 1 <= l
    <3>1. c.str.size + src.size <= Len(c.mem[c.str.data]) BY <1>1, <2>2, <2>4
    <3>2. Roomy(c, a, B, src, t) BY <1>6, <2>1, <3>1, ExtendRoomy
    <3> QED BY <3>2 DEF Roomy, Pushed
  <2>5. CASE ~(s + 1 <= l)
    <3>1. s > p BY <1>1, <1>2, <1>6, <2>3, <2>5 DEF SpaceLeft
    <3>2. c.str.size + src.size > Len(c.mem[c.str.data]) /\ src.size # 0
      BY <1>1, <1>2, <2>2, <2>3, <2>5
    <3>3. Extend(c, src).failures = c.failures BY <1>2, ExtendFaults
    <3>4. Extend(c, src).fault = "overrun" BY <1>2, <1>3, <1>6, <3>2, ExtendOverruns
    <3> QED BY <1>1, <2>1, <3>1, <3>3, <3>4 DEF Pushed
  <2> QED BY <2>4, <2>5
<1> QED BY <1>4, <1>5, <1>6

\* A text of the client can be read at any time.
LEMMA GivenReads ==
  ASSUME NEW t, Sized(t, Len(t)), NEW m
  PROVE  Reads(m, Given(t), t) /\ Given(t).size = Len(t) /\ Given(t).data = Null
BY DEF Reads, Given, Dangling, Characters

AppendedGiven(c, a, B, t) ==
  \/ Does(c, a, B, ShownBy(c.str, c.mem)) /\ a.str = c.str /\ a.err /\ a.failures = c.failures + 1
  \/ /\ Does(c, a, B, ShownBy(c.str, c.mem) \o t)
     /\ (a.err => c.err) /\ a.failures = c.failures
     /\ c.str.data = Null => ~a.err

\* Appending what does not lie in the string's own block reads no freed one.
LEMMA AppendGiven ==
  ASSUME NEW c, NEW B, Fine(c, B), NEW t, Sized(t, Len(t)), NEW a \in Append1(c, Given(t))
  PROVE  AppendedGiven(c, a, B, t)
<1>1. PICK src : src = Given(t) OBVIOUS
<1>2. Reads(c.mem, src, t) /\ src.data = Null BY <1>1, GivenReads
<1>3. Appended(c, a, B, src, t) BY <1>1, <1>2, AppendIs
<1> QED BY <1>1, <1>2, <1>3 DEF Appended, AppendedGiven

\* uga_str_create_cstr: with one failed request at most it is the text and its end.
LEMMA CstrIs ==
  ASSUME NEW c, NEW B, Fine(c, B), c.str = NullStr, c.failures = 0, NEW t, Sized(t, Len(t)),
         NEW a \in CreateCstr(c, Given(t))
  PROVE  /\ Does(c, a, B, ShownBy(a.str, a.mem)) /\ a.failures \in Nat
         /\ a.failures <= 1 => ShownBy(a.str, a.mem) = t \o <<Nul>> /\ ~a.err
<1>1. PICK src, nul, n, m, nulsrc : /\ src = Given(t) /\ nul = <<Nul>> /\ n = Len(t) /\ m = n + 1
                                    /\ nulsrc = Given(nul)
  OBVIOUS
<1>2. Sized(nul, 1) /\ Len(nul) = 1 BY <1>1 DEF Sized
<1>3. n \in Nat /\ m \in Nat /\ Sized(t, n) BY <1>1, SizedIs
<1>4. Sized(nul, Len(nul)) BY <1>2
<1>5. src.size = n /\ src.data = Null /\ \A w : Reads(w, src, t) BY <1>1, GivenReads
<1>6. nulsrc.size = 1 /\ \A w : Reads(w, nulsrc, nul)
  BY <1>1, <1>2, <1>4, GivenReads
<1>7a. PICK x \in Create1(c, m) : \E y \in Append1(x, src) : a \in Append1(y, nulsrc)
  <2>1. a \in UNION {UNION {Append1(b, Given(<<Nul>>)) : b \in Append1(e, src)} :
                        e \in Create1(c, src.size + 1)}
    BY <1>1, Zenon DEF CreateCstr
  <2>2. src.size + 1 = m BY <1>1, <1>5
  <2> QED BY <1>1, <2>1, <2>2
<1>7. PICK y \in Append1(x, src) : a \in Append1(y, nulsrc) BY <1>7a
<1>8. /\ Does(c, x, B, <<>>)
      /\ \/ x.str = NullStr /\ x.err /\ x.failures = c.failures + 1
         \/ /\ ~x.err /\ x.failures = c.failures /\ x.str.data # Null
            /\ x.str.size = 0 /\ x.str.capacity = m
  BY <1>3, <1>7, Create1Is
<1>9. Fine(x, B) /\ ShownBy(x.str, x.mem) = <<>> BY <1>8, CallHolds
<1>10. y \in Append1(x, Given(t)) BY <1>1, <1>7
<1>11. AppendedGiven(x, y, B, t) BY <1>9, <1>10, AppendGiven
<1>12. <<>> \o t = t BY <1>3, NothingJoined
<1>13. \/ /\ Does(x, y, B, <<>>) /\ y.str = x.str
          /\ y.err /\ y.failures = x.failures + 1
       \/ /\ Does(x, y, B, t)
          /\ (y.err => x.err) /\ y.failures = x.failures
          /\ x.str.data = Null => ~y.err
  BY <1>9, <1>11, <1>12 DEF AppendedGiven
<1>14. PICK u : Does(x, y, B, u) BY <1>13
<1>15. Fine(y, B) /\ ShownBy(y.str, y.mem) = u BY <1>9, <1>14, CallHolds
<1>16. Does(c, y, B, u) BY <1>8, <1>14, DoesThen
<1>17. \/ /\ Does(y, a, B, u)
          /\ a.err /\ a.failures = y.failures + 1
       \/ /\ Does(y, a, B, u \o nul)
          /\ (a.err => y.err) /\ a.failures = y.failures
  <2>1. a \in Append1(y, Given(nul)) BY <1>1, <1>7
  <2>2. AppendedGiven(y, a, B, nul) BY <1>4, <1>15, <2>1, AppendGiven
  <2> QED BY <1>15, <2>2 DEF AppendedGiven
<1>18. PICK v : Does(y, a, B, v) BY <1>17
<1>19. Does(c, a, B, v) BY <1>16, <1>18, DoesThen
<1>20. Does(c, a, B, ShownBy(a.str, a.mem)) /\ Fine(a, B) BY <1>19, CallHolds
<1>21. a.failures \in Nat BY <1>20, FineIs
<1>22. ASSUME a.failures <= 1 PROVE ShownBy(a.str, a.mem) = t \o <<Nul>> /\ ~a.err
  <2>1. CASE x.str = NullStr /\ x.err /\ x.failures = c.failures + 1
    <3>1. y.failures = 1 /\ a.failures = 1 BY <1>13, <1>17, <1>22, <2>1
    <3>2. Does(x, y, B, t) /\ ~y.err BY <1>13, <2>1, <3>1 DEF NullStr
    <3>3. u = t BY <1>9, <1>15, <3>2, CallHolds
    <3>4. Does(y, a, B, u \o nul) /\ ~a.err BY <1>17, <3>1, <3>2
    <3>5. ShownBy(a.str, a.mem) = u \o nul BY <3>4 DEF Does
    <3> QED BY <1>1, <3>3, <3>4, <3>5
  <2>2. CASE /\ ~x.err /\ x.failures = c.failures /\ x.str.data # Null
             /\ x.str.size = 0 /\ x.str.capacity = m
    <3>1. SpaceLeft(x) >= src.size BY <1>1, <1>3, <1>5, <2>2 DEF SpaceLeft
    <3>2. Roomy(x, y, B, src, t) BY <1>5, <1>7, <1>9, <2>2, <3>1, AppendRoomy
    <3>3. /\ Does(x, y, B, t) /\ y.err = x.err /\ y.str.data = x.str.data
          /\ y.str.capacity = m /\ y.str.size = n /\ y.failures = x.failures
      BY <1>3, <1>5, <1>9, <1>12, <2>2, <3>2 DEF Roomy
    <3>4. SpaceLeft(y) >= nulsrc.size BY <1>1, <1>3, <1>6, <3>3 DEF SpaceLeft
    <3>5. Roomy(y, a, B, nulsrc, nul) BY <1>6, <1>7, <1>15, <2>2, <3>3, <3>4, AppendRoomy
    <3>6. u = t BY <1>9, <1>15, <3>3, CallHolds
    <3>7. Does(y, a, B, u \o nul) /\ a.err = y.err BY <1>15, <3>5 DEF Roomy
    <3>8. ShownBy(a.str, a.mem) = u \o nul BY <3>7 DEF Does
    <3> QED BY <1>1, <2>2, <3>3, <3>6, <3>7, <3>8
  <2> QED BY <1>8, <2>1, <2>2
<1> QED BY <1>20, <1>21, <1>22

\* What is shown has as many characters as the string has.
LEMMA ShownIs ==
  ASSUME NEW c, NEW B, Fine(c, B)
  PROVE  Sized(ShownBy(c.str, c.mem), c.str.size)
<1>1. PICK s, old : s = c.str.size /\ old = c.mem[c.str.data] OBVIOUS
<1>2. s \in Nat BY <1>1, FineIs
<1>3. CASE c.str.data = Null
  <2>1. s = 0 BY <1>1, <1>3, FineIs DEF NullStr
  <2> QED BY <1>1, <1>3, <2>1 DEF ShownBy, Sized
<1>4. CASE c.str.data # Null
  <2>1. PICK l, t : l = Len(old) /\ t = Take(old, s) OBVIOUS
  <2>2. Sized(old, l) /\ s <= l BY <1>1, <1>4, <2>1, FineIs
  <2>3. Sized(t, s) BY <1>2, <2>1, <2>2, SizedTake
  <2> QED BY <1>1, <1>4, <2>1, <2>3 DEF ShownBy
<1> QED BY <1>3, <1>4

\* A call that wrote to the beginning of its block, over what was there.
LEMMA RewritesAll ==
  ASSUME NEW c, NEW B, Fine(c, B), NEW a, NEW t, NEW n, Sized(t, n), Rewrites(c, a, B, 0, t, n)
  PROVE  Does(c, a, B, t)
<1>1. PICK z, s, f : z = 0 /\ s = ShownBy(c.str, c.mem) /\ f = Take(s, z) OBVIOUS
<1>2. PICK k : k = c.str.size OBVIOUS
<1>3. Sized(s, k) BY <1>1, <1>2, ShownIs
<1>4. z \in Nat /\ z <= k BY <1>1, <1>2, FineIs
<1>5. Sized(f, z) BY <1>1, <1>3, <1>4, SizedTake
<1>6. f = <<>> BY <1>1, <1>5 DEF Sized
<1>7. <<>> \o t = t BY NothingJoined
<1> QED BY <1>1, <1>6, <1>7 DEF Rewrites

\* A call that changes nothing but the memory: the same text, and no error but with a failure.
KeepsText(c, a, B) ==
  /\ Does(c, a, B, ShownBy(c.str, c.mem))
  /\ \/ (a.err => c.err) /\ a.failures = c.failures
     \/ a.err /\ a.failures = c.failures + 1

\* Reserving keeps the text, refused or not.
LEMMA ReserveKeeps ==
  ASSUME NEW c, NEW B, Fine(c, B), NEW n \in Nat, NEW a \in Reserve(c, n)
  PROVE  KeepsText(c, a, B)
<1>1. Reserved(c, a, B, n) BY ReserveIs
<1> QED BY <1>1 DEF Reserved, KeepsText

\* Clearing leaves no characters, and always succeeds.
LEMMA ClearIs ==
  ASSUME NEW c, NEW B, Fine(c, B)
  PROVE  Does(c, Clear(c), B, <<>>) /\ Clear(c).err = c.err /\ Clear(c).failures = c.failures
<1>1. PICK a, b, old, l, p, s, m :
        /\ a = Clear(c) /\ b = c.str.data /\ old = c.mem[b] /\ l = Len(old) /\ p = c.str.capacity
        /\ s = c.str.size /\ m = c.mem
  OBVIOUS
<1>2. IsCall(c) /\ c.failures \in Nat /\ c.err \in BOOLEAN BY FineIs
<1>3. CASE b = Null
  <2>1. a = c BY <1>1, <1>3 DEF Clear
  <2>2. Does(c, c, B, ShownBy(c.str, c.mem)) BY <1>2, DoesNothing
  <2>3. ShownBy(c.str, c.mem) = <<>> BY <1>1, <1>3 DEF ShownBy
  <2> QED BY <1>1, <2>1, <2>2, <2>3
<1>4. CASE b # Null
  <2>1. b \in DOMAIN m /\ Sized(old, l) /\ l \in Nat /\ p \in Nat /\ s \in Nat /\ p <= l
    BY <1>1, <1>4, FineIs
  <2>2. PICK new : new = Cells(p, Nul) \o SubSeq(old, p + 1, l) OBVIOUS
  <2>3. Sized(new, l)
    <3>1. PICK front, back, r : front = Cells(p, Nul) /\ back = Part(old, p, l) /\ r = l - p OBVIOUS
    <3>2. Sized(front, p) BY <2>1, <3>1, CellsAre
    <3>3. p \in Nat /\ l \in Nat /\ p <= l /\ l <= l /\ Sized(old, l) BY <2>1
    <3>4. Sized(back, r) BY <3>1, <3>3, SizedPart
    <3>5. Sized(Join(front, back), p + r) BY <3>2, <3>4, SizedJoin
    <3>6. p + r = l BY <2>1, <3>1
    <3> QED BY <2>2, <3>1, <3>5, <3>6 DEF Join, Part
  <2>4. Len(new) = l BY <2>3, SizedIs
  <2>5. PICK x : x = [c EXCEPT !.mem[b] = new] OBVIOUS
  <2>6. a = [x EXCEPT !.str.size = 0]
    <3>1. a = [c EXCEPT !.str.size = 0,
                 !.mem[c.str.data] = Cells(c.str.capacity, Nul) \o SubSeq(@, c.str.capacity + 1, Len(@))]
      BY <1>1, <1>4, ZenonT(30) DEF Clear
    <3>2. a = [c EXCEPT !.str.size = 0, !.mem[b] = new] BY <1>1, <2>2, <3>1, Zenon
    <3> QED BY <1>2, <2>5, <3>2 DEF IsCall
  <2>7. /\ IsCall(x) /\ x.str = c.str /\ x.block = c.block /\ x.err = c.err /\ x.failures = c.failures
        /\ x.fault = c.fault /\ x.mem = [m EXCEPT ![b] = new]
    BY <1>1, <1>2, <2>5 DEF IsCall
  <2>8. DOMAIN x.mem = DOMAIN m /\ x.mem[b] = new /\ \A d \in DOMAIN m \ {b} : x.mem[d] = m[d]
    BY <2>1, <2>7
  <2>9. PICK z, e : z = 0 /\ e = <<>> OBVIOUS
  <2>10. Sized(e, z) /\ z \in Nat BY <2>9 DEF Sized
  <2>11. Overwritten(old, new, z, e, z) BY <1>1, <2>3, <2>9 DEF Overwritten
  <2>12. Wrote(c, x, z, e, z) BY <1>1, <2>7, <2>8, <2>11 DEF Wrote
  <2>13. a = [x EXCEPT !.str.size = z + z] BY <2>6, <2>9
  <2>14. z <= c.str.size /\ z + z <= Len(c.mem[c.str.data]) BY <1>1, <2>1, <2>9
  <2>15. Rewrites(c, a, B, z, e, z) BY <1>1, <1>4, <2>10, <2>12, <2>13, <2>14, WroteDoes
  <2>16. a.err = c.err /\ a.failures = c.failures BY <2>15 DEF Rewrites
  <2>17. Does(c, a, B, e) BY <2>9, <2>10, <2>15, RewritesAll
  <2> QED BY <1>1, <2>9, <2>16, <2>17
<1> QED BY <1>3, <1>4

\* Shrinking keeps the text, refused or not.
LEMMA ShrinkIs ==
  ASSUME NEW c, NEW B, Fine(c, B), NEW a \in ShrinkToFit(c)
  PROVE  KeepsText(c, a, B)
<1>1. PICK b, s, p, m, t : /\ b = c.str.data /\ s = c.str.size /\ p = c.str.capacity /\ m = c.mem
                           /\ t = ShownBy(c.str, c.mem)
  OBVIOUS
<1>2. /\ IsCall(c) /\ c.failures \in Nat /\ c.err \in BOOLEAN /\ s \in Nat /\ p \in Nat
      /\ c.fault = "none" /\ B \subseteq DOMAIN m /\ DOMAIN m = B \union Blocks(c.str) /\ b \notin B
      /\ DOMAIN m \subseteq Block /\ Null \notin Block
      /\ c.str \in [data : Block \union {Null}, size : Nat, capacity : Nat]
  BY <1>1, FineIs
<1>3. CASE s >= p
  <2>1. a = c BY <1>1, <1>3 DEF ShrinkToFit
  <2>2. Does(c, c, B, ShownBy(c.str, c.mem)) BY <1>2, DoesNothing
  <2> QED BY <2>1, <2>2 DEF KeepsText
<1>4. CASE ~(s >= p)
  <2>1. b # Null
    <3>1. c.str.data = Null => c.str = NullStr BY FineIs
    <3>2. NullStr.capacity = 0 BY DEF NullStr
    <3>3. b = Null => p = 0 BY <1>1, <3>1, <3>2
    <3> QED BY <1>2, <1>4, <3>3
  <2>2. PICK x \in Allocate(c, s) :
          a = IF x.err THEN x
              ELSE [Write([x EXCEPT !.str.data = x.block], 0, Memory(c.str)) EXCEPT
                      !.mem = Without(@, c.str.data), !.str.capacity = c.str.size]
    BY <1>1, <1>4, Zenon DEF ShrinkToFit
  <2>3. Refused(c, x) \/ Got(c, x, Cells(s, Garbage), {}) BY <1>2, AllocateIs
  <2>4. CASE Refused(c, x)
    <3>1. /\ IsCall(x) /\ x.str = c.str /\ x.mem = c.mem /\ x.fault = c.fault
          /\ x.err = TRUE /\ x.failures = c.failures + 1
      BY <2>4 DEF Refused
    <3>2. a = x BY <2>2, <3>1, Zenon
    <3>3. x.failures \in Nat BY <1>2, <3>1
    <3>4. x.err \in BOOLEAN BY <3>1, Zenon
    <3>5. Does(c, x, B, ShownBy(c.str, c.mem)) BY <3>1, <3>3, <3>4, DoesNothing
    <3> QED BY <3>1, <3>2, <3>5 DEF KeepsText
  <2>5. CASE Got(c, x, Cells(s, Garbage), {})
    <3>1. PICK d, cells, y, w, src, z : /\ d = x.block /\ cells = Cells(s, Garbage)
                                        /\ y = [x EXCEPT !.str.data = d]
                                        /\ src = Memory(c.str) /\ z = 0 /\ w = Write(y, z, src)
      OBVIOUS
    <3>2. /\ IsCall(x) /\ x.str = c.str /\ x.failures = c.failures /\ x.fault = c.fault /\ x.err = FALSE
          /\ d \in Block /\ d \notin DOMAIN m /\ DOMAIN x.mem = DOMAIN m \union {d}
          /\ x.mem[d] = cells /\ \A e \in DOMAIN m : x.mem[e] = m[e]
      BY <1>1, <2>5, <3>1 DEF Got
    <3>3. a = [w EXCEPT !.mem = Without(@, b), !.str.capacity = s]
      <4>1. ~x.err BY <3>2
      <4>2. a = [Write([x EXCEPT !.str.data = x.block], 0, Memory(c.str)) EXCEPT
                   !.mem = Without(@, c.str.data), !.str.capacity = c.str.size]
        BY <2>2, <4>1, Zenon
      <4> QED BY <1>1, <3>1, <4>2
    <3>4. /\ IsCall(y) /\ y.failures = c.failures /\ y.fault = c.fault /\ y.err = FALSE
          /\ y.mem = x.mem /\ y.str = [c.str EXCEPT !.data = d]
      BY <3>1, <3>2 DEF IsCall
    <3>5. y.str \in [data : Block \union {Null}, size : Nat, capacity : Nat]
          /\ y.str.data = d /\ y.str.size = s /\ d # Null
      <4>1. PICK r, q : r = c.str /\ q = y.str OBVIOUS
      <4>2. q = [r EXCEPT !.data = d] BY <3>4, <4>1
      <4>3. r \in [data : Block \union {Null}, size : Nat, capacity : Nat] /\ r.size = s
        BY <1>1, <1>2, <4>1
      <4>4. d \in Block \union {Null} /\ d # Null BY <1>2, <3>2
      <4> QED BY <4>1, <4>2, <4>3, <4>4
    <3>6. Sized(cells, s) BY <1>2, <3>1, CellsAre
    <3>7. Len(cells) = s BY <3>6, SizedIs
    <3>8. /\ b \in DOMAIN m /\ s <= Len(m[b]) /\ b # d BY <1>1, <2>1, <3>2, FineIs
    <3>9. src.size = s /\ src.data = b BY <1>1, <3>1 DEF Memory
    <3>10. Sized(t, s) BY <1>1, ShownIs
    <3>11. x.mem[b] = m[b] /\ b \in DOMAIN x.mem BY <3>2, <3>8
    <3>12. Characters(x.mem, src) = t BY <1>1, <2>1, <3>9, <3>11 DEF Characters, ShownBy
    <3>13. Reads(y.mem, src, t) BY <3>4, <3>8, <3>9, <3>10, <3>11, <3>12 DEF Reads, Dangling
    <3>14. y.str.data # Null /\ y.str.data \in DOMAIN y.mem /\ y.mem[y.str.data] = cells
      BY <3>2, <3>4, <3>5
    <3>15. Sized(y.mem[y.str.data], Len(y.mem[y.str.data])) BY <3>6, <3>7, <3>14
    <3>16. z \in Nat /\ z + src.size <= Len(y.mem[y.str.data]) BY <1>2, <3>1, <3>7, <3>9, <3>14
    <3>17. Wrote(y, w, z, t, src.size) BY <3>1, <3>4, <3>13, <3>14, <3>15, <3>16, WriteIs
    <3>18. /\ IsCall(w) /\ w.str = y.str /\ w.err = FALSE /\ w.failures = c.failures
           /\ w.fault = c.fault /\ DOMAIN w.mem = DOMAIN m \union {d}
           /\ (\A e \in DOMAIN m : w.mem[e] = m[e]) /\ Overwritten(cells, w.mem[d], z, t, s)
      <4>1. /\ IsCall(w) /\ w.str = y.str /\ w.err = y.err /\ w.failures = y.failures
            /\ w.fault = y.fault /\ DOMAIN w.mem = DOMAIN y.mem
            /\ (\A e \in DOMAIN y.mem \ {y.str.data} : w.mem[e] = y.mem[e])
            /\ Overwritten(y.mem[y.str.data], w.mem[y.str.data], z, t, src.size)
        BY <3>17 DEF Wrote
      <4> QED BY <3>2, <3>4, <3>5, <3>9, <3>14, <4>1
    <3>19. PICK new : new = w.mem[d] OBVIOUS
    <3>20. new = t
      <4>1. Sized(new, s) /\ \A k \in 1 .. s : new[z + k] = t[k] BY <3>7, <3>18, <3>19 DEF Overwritten
      <4>2. \A k \in 1 .. s : z + k = k BY <1>2, <3>1
      <4>3. \A k \in 1 .. s : new[k] = t[k] BY <4>1, <4>2
      <4> QED BY <3>10, <4>1, <4>3, SizedSame
    <3>21. /\ IsCall(a) /\ a.err = FALSE /\ a.failures = c.failures /\ a.fault = c.fault
           /\ a.mem = Without(w.mem, b) /\ a.str = [y.str EXCEPT !.capacity = s]
      BY <3>3, <3>18 DEF IsCall
    <3>22. PICK v : v = w.mem OBVIOUS
    <3>23. a.mem = Without(v, b) BY <3>21, <3>22
    <3>24. DOMAIN a.mem = DOMAIN v \ {b} /\ \A e \in DOMAIN v \ {b} : a.mem[e] = v[e]
      BY <3>23 DEF Without, Restrict
    <3>25. Blocks(c.str) = {b} BY <1>1, <2>1 DEF Blocks
    <3>26. DOMAIN v \ {b} = B \union {d} BY <1>2, <3>8, <3>18, <3>22, <3>25
    <3>27. DOMAIN a.mem = B \union {d} /\ a.mem[d] = t /\ \A e \in B : a.mem[e] = m[e]
      BY <1>2, <3>18, <3>19, <3>20, <3>22, <3>24, <3>26
    <3>28. a.str \in [data : Block \union {Null}, size : Nat, capacity : Nat]
           /\ a.str.data = d /\ a.str.size = s /\ a.str.capacity = s
      <4>1. PICK r, q : r = y.str /\ q = a.str OBVIOUS
      <4>2. q = [r EXCEPT !.capacity = s] BY <3>21, <4>1
      <4>3. r \in [data : Block \union {Null}, size : Nat, capacity : Nat] /\ r.size = s /\ r.data = d
        BY <3>5, <4>1
      <4> QED BY <1>2, <4>1, <4>2, <4>3
    <3>29. Len(t) = s BY <3>10, SizedIs
    <3>30. IsMem(a.mem)
      <4>1. \A e \in DOMAIN m : Sized(m[e], Len(m[e])) BY <1>1, FineIs
      <4>2. \A e \in B : Sized(a.mem[e], Len(a.mem[e])) BY <1>2, <3>27, <4>1
      <4>3. Sized(a.mem[d], Len(a.mem[d])) BY <3>10, <3>27, <3>29
      <4> QED BY <1>2, <3>2, <3>27, <4>2, <4>3 DEF IsMem
    <3>31. IsStr(a.str, a.mem)
      <4>1. s <= s BY <1>2
      <4> QED BY <3>5, <3>27, <3>28, <3>29, <4>1 DEF IsStr
    <3>32. Fine(a, B)
      <4>1. Blocks(a.str) = {d} BY <3>5, <3>28 DEF Blocks
      <4>2. d \notin B BY <1>2, <3>2
      <4> QED BY <1>2, <3>21, <3>27, <3>28, <3>30, <3>31, <4>1, <4>2 DEF Fine
    <3>33. ASSUME NEW e \in DOMAIN c.mem \intersect DOMAIN a.mem PROVE Len(c.mem[e]) <= Len(a.mem[e])
      <4>1. e \in B BY <1>1, <3>2, <3>27
      <4>2. a.mem[e] = c.mem[e] /\ Len(c.mem[e]) \in Nat BY <1>1, <1>2, <3>27, <4>1, FineIs
      <4> QED BY <4>2
    <3>34. ShownBy(a.str, a.mem) = t
      <4>1. ShownBy(a.str, a.mem) = Take(t, s) BY <3>5, <3>27, <3>28 DEF ShownBy
      <4>2. PICK u : u = Take(t, s) OBVIOUS
      <4>3. s <= s /\ s \in Nat BY <1>2
      <4>4. Sized(u, s) /\ \A k \in 1 .. s : u[k] = t[k] BY <3>10, <4>2, <4>3, SizedTake
      <4>5. u = t BY <3>10, <4>4, SizedSame
      <4> QED BY <4>1, <4>2, <4>5
    <3>35. Does(c, a, B, t) BY <1>1, <3>27, <3>32, <3>33, <3>34 DEF Does
    <3> QED BY <1>1, <3>21, <3>35 DEF KeepsText
  <2> QED BY <2>3, <2>4, <2>5
<1> QED BY <1>3, <1>4

\* Destroying frees the block, and always succeeds.
LEMMA DestroyIs ==
  ASSUME NEW c, NEW B, Fine(c, B)
  PROVE  Does(c, Destroy(c), B, <<>>) /\ Destroy(c).err = c.err /\ Destroy(c).failures = c.failures
<1>1. PICK a, b, m : a = Destroy(c) /\ b = c.str.data /\ m = c.mem OBVIOUS
<1>2. /\ IsCall(c) /\ c.failures \in Nat /\ c.err \in BOOLEAN /\ c.fault = "none"
      /\ B \subseteq DOMAIN m /\ DOMAIN m = B \union Blocks(c.str) /\ b \notin B
      /\ DOMAIN m \subseteq Block /\ Null \notin Block
  BY <1>1, FineIs
<1>3. /\ IsCall(a) /\ a.err = c.err /\ a.failures = c.failures /\ a.fault = c.fault
      /\ a.str = NullStr /\ a.mem = Without(m, b)
  BY <1>1, <1>2 DEF IsCall, Destroy
<1>4. DOMAIN a.mem = DOMAIN m \ {b} /\ \A e \in DOMAIN m \ {b} : a.mem[e] = m[e]
  BY <1>3 DEF Without, Restrict
<1>5. DOMAIN m \ {b} = B BY <1>1, <1>2 DEF Blocks
<1>6. DOMAIN a.mem = B /\ \A e \in B : a.mem[e] = m[e] BY <1>4, <1>5
<1>7. IsMem(a.mem)
  <2>1. \A e \in DOMAIN m : Sized(m[e], Len(m[e])) BY <1>1, FineIs
  <2> QED BY <1>2, <1>6, <2>1 DEF IsMem
<1>8. IsStr(a.str, a.mem) /\ Blocks(a.str) = {} /\ a.str.data = Null
  BY <1>3 DEF IsStr, NullStr, Blocks
<1>9. Fine(a, B)
  <2>1. Null \notin B BY <1>2
  <2> QED BY <1>2, <1>3, <1>6, <1>7, <1>8, <2>1 DEF Fine
<1>10. ASSUME NEW e \in DOMAIN c.mem \intersect DOMAIN a.mem PROVE Len(c.mem[e]) <= Len(a.mem[e])
  <2>1. a.mem[e] = c.mem[e] /\ Len(c.mem[e]) \in Nat BY <1>1, <1>6, FineIs
  <2> QED BY <2>1
<1>11. ShownBy(a.str, a.mem) = <<>> BY <1>3 DEF ShownBy, NullStr
<1>12. Does(c, a, B, <<>>) BY <1>1, <1>6, <1>9, <1>10, <1>11 DEF Does
<1> QED BY <1>1, <1>3, <1>12

\* A C function fills the block, and uga_str_check_size finds the end of what it wrote.
LEMMA FillIs ==
  ASSUME NEW c, NEW B, Fine(c, B), NEW t \in Texts, Len(t) + 1 <= c.str.capacity,
         NEW a, a = CheckSize(Write(c, 0, Given(t \o <<Nul>>)))
  PROVE  Does(c, a, B, t) /\ a.err = c.err /\ a.failures = c.failures
<1>1. PICK b, old, n, p, z : /\ b = c.str.data /\ old = c.mem[b] /\ n = Len(t) /\ p = c.str.capacity
                             /\ z = 0
  OBVIOUS
<1>2. t \in Seq(Range(t)) /\ \A k \in 1 .. n : t[k] # Nul
  <2>1. t \in Seq(Range(t)) /\ Nul \notin Range(t) BY StrConstants
  <2>2. DOMAIN t = 1 .. n BY <1>1, <2>1
  <2> QED BY <2>1, <2>2 DEF Range
<1>3. Sized(t, n) /\ n \in Nat BY <1>1, <1>2, SizedSeq, SizedIs
<1>4. PICK nul, u, w : nul = <<Nul>> /\ u = Join(t, nul) /\ w = Write(c, z, Given(u)) OBVIOUS
<1>5. Sized(nul, 1) /\ nul[1] = Nul BY <1>4 DEF Sized
<1>6. /\ Sized(u, n + 1) /\ (\A k \in 1 .. n : u[k] = t[k]) /\ u[n + 1] = Nul
  <2>1. PICK one : one = 1 OBVIOUS
  <2>2. Sized(nul, one) /\ one \in 1 .. one BY <1>5, <2>1
  <2>3. /\ Sized(u, n + one) /\ (\A k \in 1 .. n : u[k] = t[k])
        /\ (\A k \in 1 .. one : u[n + k] = nul[k])
    BY <1>3, <1>4, <2>2, SizedJoin
  <2> QED BY <1>5, <2>1, <2>2, <2>3
<1>7. Len(u) = n + 1 BY <1>6, SizedIs
<1>8. Sized(u, Len(u)) BY <1>6, <1>7
<1>9. PICK src : src = Given(u) OBVIOUS
<1>10. Reads(c.mem, src, u) /\ src.size = n + 1 BY <1>7, <1>8, <1>9, GivenReads
<1>11. b # Null
  <2>1. c.str.data = Null => c.str = NullStr BY FineIs
  <2>2. NullStr.capacity = 0 BY DEF NullStr
  <2>3. b = Null => p = 0 BY <1>1, <2>1, <2>2
  <2> QED BY <1>1, <1>3, <2>3
<1>12. /\ b \in DOMAIN c.mem /\ Sized(old, Len(old)) /\ p <= Len(old) /\ IsCall(c)
       /\ Len(old) \in Nat /\ p \in Nat /\ c.str.size \in Nat
  BY <1>1, <1>11, FineIs
<1>13. z \in Nat /\ z + src.size <= Len(old) /\ z + n <= Len(old)
  BY <1>1, <1>3, <1>10, <1>12
<1>14. Wrote(c, w, z, u, src.size)
  <2>1. /\ c.str.data # Null /\ c.str.data \in DOMAIN c.mem
        /\ Sized(c.mem[c.str.data], Len(c.mem[c.str.data]))
        /\ z + src.size <= Len(c.mem[c.str.data])
    BY <1>1, <1>11, <1>12, <1>13
  <2> QED BY <1>4, <1>9, <1>10, <1>12, <1>13, <2>1, WriteIs
<1>15. PICK new : new = w.mem[b] OBVIOUS
<1>16. /\ IsCall(w) /\ w.str = c.str /\ Overwritten(old, new, z, u, n + 1)
  BY <1>1, <1>10, <1>14, <1>15 DEF Wrote
<1>17. /\ Sized(new, Len(old)) /\ \A k \in 1 .. n + 1 : new[k] = u[k]
  <2>1. Sized(new, Len(old)) /\ \A k \in 1 .. n + 1 : new[z + k] = u[k] BY <1>16 DEF Overwritten
  <2>2. \A k \in 1 .. n + 1 : z + k = k BY <1>1, <1>3
  <2> QED BY <2>1, <2>2
<1>18. DOMAIN new = 1 .. Len(old) BY <1>17, SizedIs
<1>19. n + 1 \in DOMAIN new /\ new[n + 1] = Nul /\ \A k \in 1 .. n : new[k] # Nul
  <2>1. n + 1 \in 1 .. Len(old) /\ n + 1 \in 1 .. n + 1 BY <1>1, <1>3, <1>10, <1>12, <1>13
  <2>2. \A k \in 1 .. n : k \in 1 .. n + 1 BY <1>3
  <2> QED BY <1>2, <1>6, <1>17, <1>18, <2>1, <2>2
<1>20. FirstNul(new) = n + 1
  <2>1. /\ n + 1 \in DOMAIN new /\ new[n + 1] = Nul
        /\ \A j \in 1 .. (n + 1) - 1 : new[j] # Nul
    <3>1. (n + 1) - 1 = n BY <1>3
    <3> QED BY <1>19, <3>1
  <2>2. PICK f : f = FirstNul(new) OBVIOUS
  <2>3. f \in DOMAIN new /\ new[f] = Nul /\ \A j \in 1 .. f - 1 : new[j] # Nul
    BY <2>1, <2>2, Zenon DEF FirstNul
  <2>4. f \in 1 .. Len(old) BY <1>18, <2>3
  <2>5. ~(f <= n) BY <1>3, <1>19, <2>3, <2>4
  <2>6. ~(n + 1 <= f - 1)
    <3>1. n + 1 \in 1 .. Len(old) BY <1>18, <1>19
    <3> QED BY <1>3, <1>19, <2>3, <2>4, <3>1
  <2>7. f = n + 1 BY <1>3, <2>4, <2>5, <2>6
  <2> QED BY <2>2, <2>7
<1>21. a = [w EXCEPT !.str.size = z + n]
  <2>1. Nul \in Range(new) BY <1>19 DEF Range
  <2>2. a = CheckSize(w) BY <1>1, <1>4 DEF Join
  <2>3. w.mem[w.str.data] = new BY <1>1, <1>15, <1>16
  <2>4. a = [w EXCEPT !.str.size = FirstNul(new) - 1] BY <2>1, <2>2, <2>3, Zenon DEF CheckSize
  <2>5. FirstNul(new) - 1 = z + n BY <1>1, <1>3, <1>20
  <2> QED BY <2>4, <2>5
<1>22. Wrote(c, w, z, t, n)
  <2>1. Overwritten(old, new, z, t, n)
    <3>1. \A k \in 1 .. n : k \in 1 .. n + 1 /\ z + k = k BY <1>1, <1>3
    <3>2. \A k \in 1 .. n : new[z + k] = t[k] BY <1>6, <1>17, <3>1
    <3>3. Sized(new, Len(old)) /\ \A k \in 1 .. z : new[k] = old[k] BY <1>16 DEF Overwritten
    <3> QED BY <3>2, <3>3 DEF Overwritten
  <2> QED BY <1>1, <1>14, <1>15, <2>1 DEF Wrote
<1>23. Rewrites(c, a, B, z, t, n)
  <2>1. z <= c.str.size /\ z + n <= Len(c.mem[c.str.data]) /\ c.str.data # Null
    BY <1>1, <1>11, <1>12, <1>13
  <2> QED BY <1>3, <1>13, <1>21, <1>22, <2>1, WroteDoes
<1>24. Does(c, a, B, t) BY <1>1, <1>3, <1>23, RewritesAll
<1> QED BY <1>23, <1>24 DEF Rewrites

-----------------------------------------------------------------------------
(* Strings: the calls of a client. *)

\* The blocks of the strings a call is not about.
Others(n) == UNION {Blocks(str[m]) : m \in Names \ {n}}

\* A call begins in good order.
LEMMA BeginIs ==
  ASSUME StrInv, fault = "none", NEW n \in Names
  PROVE  /\ Fine(Begin(str[n]), Others(n))
         /\ Begin(str[n]).str = str[n] /\ Begin(str[n]).mem = mem /\ Begin(str[n]).err = err
         /\ Begin(str[n]).failures = 0
<1>1. PICK c : c = Begin(str[n]) OBVIOUS
<1>2. /\ IsCall(c) /\ c.str = str[n] /\ c.mem = mem /\ c.err = err /\ c.failures = 0
      /\ c.fault = "none"
  BY <1>1 DEF Begin, IsCall
<1>3. /\ IsMem(mem) /\ IsStr(str[n], mem) /\ err \in BOOLEAN
      /\ DOMAIN mem = UNION {Blocks(str[m]) : m \in Names}
      /\ \A k, m \in Names : k # m => Blocks(str[k]) \intersect Blocks(str[m]) = {}
  BY DEF StrInv
<1>4. DOMAIN mem = Others(n) \union Blocks(str[n]) BY <1>3 DEF Others
<1>5. str[n].data \notin Others(n)
  <2> SUFFICES ASSUME str[n].data \in Others(n) PROVE FALSE OBVIOUS
  <2>1. PICK m \in Names \ {n} : str[n].data \in Blocks(str[m]) BY DEF Others
  <2>2. str[n].data \in Blocks(str[n]) BY <2>1 DEF Blocks
  <2> QED BY <1>3, <2>1, <2>2
<1>6. c.err \in BOOLEAN BY <1>2, <1>3, Zenon
<1>7. c.failures \in Nat BY <1>2
<1>8. Fine(c, Others(n)) BY <1>2, <1>3, <1>4, <1>5, <1>6, <1>7 DEF Fine
<1> QED BY <1>1, <1>2, <1>8

\* A string without a block is the null string.
LEMMA UnusedIs ==
  ASSUME StrInv, fault = "none", NEW n \in Names, Unused(n)
  PROVE  str[n] = NullStr
<1>1. Fine(Begin(str[n]), Others(n)) /\ Begin(str[n]).str = str[n] BY BeginIs
<1>2. Begin(str[n]).str.data = Null => Begin(str[n]).str = NullStr BY <1>1, FineIs
<1> QED BY <1>1, <1>2 DEF Unused

\* How a call ends that left c.
Ended(n, op, arg, c) ==
  /\ str' = [str EXCEPT ![n] = c.str]
  /\ mem' = c.mem /\ err' = c.err /\ failures' = c.failures /\ fault' = c.fault
  /\ call' = [op |-> op, on |-> n, arg |-> arg]
  /\ ViewsForgotten

\* A call ends in one of its outcomes.
LEMMA EndsIn ==
  ASSUME NEW n, NEW op, NEW arg, NEW outcomes, Ends(n, op, arg, outcomes)
  PROVE  \E c \in outcomes : Ended(n, op, arg, c)
BY DEF Ends, Ended

\* It leaves the other strings alone.
LEMMA EndedIs ==
  ASSUME StrInv, fault = "none", NEW n \in Names, NEW op, NEW arg, NEW c, Ended(n, op, arg, c),
         c.fault = "none", NEW t, Does(Begin(str[n]), c, Others(n), t)
  PROVE  /\ DOMAIN str' = Names /\ str'[n] = c.str /\ \A m \in Names \ {n} : str'[m] = str[m]
         /\ Fine(c, Others(n)) /\ mem' = c.mem /\ Others(n) \subseteq DOMAIN mem
         /\ \A b \in Others(n) : b \in DOMAIN mem' /\ mem'[b] = mem[b]
         /\ \A b \in DOMAIN mem \intersect DOMAIN mem' : Len(mem[b]) <= Len(mem'[b])
         /\ \A m \in Names \ {n} : str[m].data # Null => str[m].data \in Others(n)
<1>1. PICK z, B : z = Begin(str[n]) /\ B = Others(n) OBVIOUS
<1>2. Fine(z, B) /\ z.str = str[n] /\ z.mem = mem BY <1>1, BeginIs
<1>3. str' = [str EXCEPT ![n] = c.str] /\ mem' = c.mem BY DEF Ended
<1>4. DOMAIN str = Names BY DEF StrInv
<1>5. Does(z, c, B, t) BY <1>1
<1>6. Fine(c, B) /\ (\A b \in B : c.mem[b] = z.mem[b])
      /\ \A b \in DOMAIN z.mem \intersect DOMAIN c.mem : Len(z.mem[b]) <= Len(c.mem[b])
  BY <1>5 DEF Does
<1>7. B \subseteq DOMAIN c.mem BY <1>6, FineIs
<1>8. B \subseteq DOMAIN z.mem BY <1>2, FineIs
<1>9. \A m \in Names \ {n} : str[m].data # Null => str[m].data \in Others(n) BY DEF Others, Blocks
<1>10. DOMAIN str' = Names /\ str'[n] = c.str /\ \A m \in Names \ {n} : str'[m] = str[m]
  BY <1>3, <1>4
<1> QED BY <1>1, <1>2, <1>3, <1>6, <1>7, <1>8, <1>9, <1>10

\* A call that does what it should to its own string keeps the invariant of all.
LEMMA StrKept ==
  ASSUME StrInv, fault = "none", NEW n \in Names, NEW op, NEW arg, NEW c, Ended(n, op, arg, c),
         c.fault = "none" => Does(Begin(str[n]), c, Others(n), ShownBy(c.str, c.mem))
  PROVE  StrInv'
<1>1. fault' = c.fault /\ mem' = c.mem /\ err' = c.err /\ ViewsForgotten
      /\ str' = [str EXCEPT ![n] = c.str]
  BY DEF Ended
<1>2. CASE fault' # "none"
  <2>1. DOMAIN str = Names BY DEF StrInv
  <2>2. DOMAIN str' = Names BY <1>1, <2>1
  <2> QED BY <1>2, <2>2 DEF StrInv
<1>3. CASE fault' = "none"
  <2>1. Does(Begin(str[n]), c, Others(n), ShownBy(c.str, c.mem)) BY <1>1, <1>3
  <2>2. c.fault = "none" BY <1>1, <1>3
  <2>3. /\ DOMAIN str' = Names /\ str'[n] = c.str /\ \A m \in Names \ {n} : str'[m] = str[m]
        /\ Fine(c, Others(n)) /\ Others(n) \subseteq DOMAIN mem
        /\ \A b \in Others(n) : b \in DOMAIN mem' /\ mem'[b] = mem[b]
        /\ \A b \in DOMAIN mem \intersect DOMAIN mem' : Len(mem[b]) <= Len(mem'[b])
        /\ \A m \in Names \ {n} : str[m].data # Null => str[m].data \in Others(n)
    BY <2>1, <2>2, EndedIs
  <2>4. /\ IsMem(mem') /\ IsStr(c.str, mem') /\ c.err \in BOOLEAN
        /\ DOMAIN mem' = Others(n) \union Blocks(c.str) /\ c.str.data \notin Others(n)
    BY <1>1, <2>3 DEF Fine
  <2>5. /\ IsMem(mem) /\ IsRange(mem, view) /\ (\A m \in Names : IsStr(str[m], mem))
        /\ \A k, m \in Names : k # m => Blocks(str[k]) \intersect Blocks(str[m]) = {}
    BY DEF StrInv
  <2>6. err' \in BOOLEAN BY <1>1, <2>4, Zenon
  <2>7. Null \notin DOMAIN mem' BY <2>4, StrConstants DEF IsMem
  <2>8. IsRange(mem', view')
    <3>1. CASE view.data \in DOMAIN mem'
      <4>1. view' = view BY <1>1, <3>1 DEF ViewsForgotten
      <4>2. view.data # Null BY <2>7, <3>1
      <4>3. /\ view \in [data : Block \union {Null}, size : Nat] /\ view.data \in DOMAIN mem
            /\ view.size <= Len(mem[view.data])
        BY <2>5, <4>2 DEF IsRange
      <4>4. Len(mem[view.data]) <= Len(mem'[view.data]) BY <2>3, <3>1, <4>3
      <4>5. Len(mem[view.data]) \in Nat BY <2>5, <4>3, SizedIs DEF IsMem
      <4>6. Len(mem'[view.data]) \in Nat BY <2>4, <3>1, SizedIs DEF IsMem
      <4>7. view.size \in Nat BY <4>3
      <4>8. view.size <= Len(mem'[view.data]) BY <4>3, <4>4, <4>5, <4>6, <4>7
      <4> QED BY <3>1, <4>1, <4>2, <4>3, <4>8 DEF IsRange
    <3>2. CASE view.data \notin DOMAIN mem'
      <4>1. view' = NullView BY <1>1, <3>2 DEF ViewsForgotten
      <4> QED BY <4>1 DEF IsRange, NullView
    <3> QED BY <3>1, <3>2
  <2>9. ASSUME NEW m \in Names PROVE IsStr(str'[m], mem')
    <3>1. CASE m = n BY <2>3, <2>4, <3>1
    <3>2. CASE m # n
      <4>1. str'[m] = str[m] /\ IsStr(str[m], mem) BY <2>3, <2>5, <3>2
      <4>2. str[m].data # Null => str[m].data \in DOMAIN mem' /\ mem'[str[m].data] = mem[str[m].data]
        BY <2>3, <3>2
      <4>3. IsStr(str[m], mem') BY <4>1, <4>2 DEF IsStr
      <4> QED BY <4>1, <4>3
    <3> QED BY <3>1, <3>2
  <2>10. \A m \in Names : Blocks(str'[m]) = IF m = n THEN Blocks(c.str) ELSE Blocks(str[m])
    BY <2>3
  <2>11. DOMAIN mem' = UNION {Blocks(str'[m]) : m \in Names} BY <2>4, <2>10 DEF Others
  <2>12. \A m \in Names \ {n} : Blocks(str[m]) \subseteq Others(n) BY DEF Others
  <2>13. Blocks(c.str) \intersect Others(n) = {} BY <2>4 DEF Blocks
  <2>14. ASSUME NEW k \in Names, NEW m \in Names, k # m
         PROVE  Blocks(str'[k]) \intersect Blocks(str'[m]) = {}
    BY <2>5, <2>10, <2>12, <2>13, <2>14
  <2> QED BY <2>3, <2>4, <2>6, <2>8, <2>9, <2>11, <2>14 DEF StrInv
<1> QED BY <1>2, <1>3

\* The text of a string is what its block shows.
LEMMA TextIs ==
  ASSUME StrInv, fault = "none", NEW n \in Names
  PROVE  /\ Text(n) = ShownBy(str[n], mem) /\ Sized(Text(n), str[n].size)
         /\ Len(Text(n)) = str[n].size /\ str[n].size \in Nat /\ str[n].capacity \in Nat
<1>1. PICK c, B : c = Begin(str[n]) /\ B = Others(n) OBVIOUS
<1>2. Fine(c, B) /\ c.str = str[n] /\ c.mem = mem BY <1>1, BeginIs
<1>3. Sized(ShownBy(c.str, c.mem), c.str.size) BY <1>2, ShownIs
<1>4. c.str.size \in Nat /\ c.str.capacity \in Nat BY <1>2, FineIs
<1>5. Text(n) = ShownBy(str[n], mem) BY DEF Text, ShownBy
<1>6. Sized(Text(n), str[n].size) BY <1>2, <1>3, <1>5
<1>7. Len(Text(n)) = str[n].size BY <1>6, SizedIs
<1> QED BY <1>2, <1>4, <1>5, <1>6, <1>7

\* The texts after a call that did not fault.
LEMMA TextsAfter ==
  ASSUME StrInv, fault = "none", NEW n \in Names, NEW op, NEW arg, NEW c, Ended(n, op, arg, c),
         c.fault = "none", NEW t, Does(Begin(str[n]), c, Others(n), t)
  PROVE  [m \in Names |-> Text(m)]' = [[m \in Names |-> Text(m)] EXCEPT ![n] = t]
<1>1. /\ str'[n] = c.str /\ (\A m \in Names \ {n} : str'[m] = str[m]) /\ mem' = c.mem
      /\ (\A b \in Others(n) : mem'[b] = mem[b])
      /\ \A m \in Names \ {n} : str[m].data # Null => str[m].data \in Others(n)
  BY EndedIs
<1>2. ShownBy(c.str, c.mem) = t BY DEF Does
<1>3. Text(n)' = t BY <1>1, <1>2 DEF Text, ShownBy
<1>4. ASSUME NEW m \in Names \ {n} PROVE Text(m)' = Text(m)
  <2>1. str'[m] = str[m] BY <1>1
  <2>2. str[m].data # Null => mem'[str[m].data] = mem[str[m].data] BY <1>1
  <2> QED BY <2>1, <2>2 DEF Text
<1> QED BY <1>3, <1>4

\* A call that went astray: the four that may.
Astray(n, op, arg, c) ==
  \/ c.failures > 0 /\ op \in {"push_back", "new"}
  \/ op = "push_back" /\ str[n].size > str[n].capacity
  \/ /\ c.fault = "stale" /\ op = "append" /\ str[n].capacity - str[n].size < Len(arg)
     /\ arg = Text(n) \/ view.data = str[n].data
  \/ c.fault = "before" /\ op = "at" /\ arg < 0

\* An append with room writes behind the characters.
InPlace(n, op, arg, c) ==
  op = "append" /\ str[n].data # Null /\ str[n].capacity - str[n].size >= Len(arg) =>
    /\ c.str.data = str[n].data
    /\ \A k \in 1 .. str[n].size : c.mem[str[n].data][k] = mem[str[n].data][k]

\* What StrSpec says of a call.
Granted(n, op, arg, c) ==
  \/ /\ op # "at" /\ ShownBy(c.str, c.mem) = Promise!Outcome(op, Text(n), arg) /\ (c.err => err)
  \/ /\ op # "at" /\ c.failures > 0 /\ c.err
     /\ ShownBy(c.str, c.mem) = IF op \in Promise!Creating THEN <<>> ELSE Text(n)
  \/ /\ op = "at" /\ ShownBy(c.str, c.mem) = Text(n)
     /\ c.err = (err \/ arg >= Len(Text(n)))

\* How a call serves a client.
Served(n, op, arg, c) ==
  /\ c.fault # "none" => Astray(n, op, arg, c)
  /\ c.fault = "none" =>
       /\ Does(Begin(str[n]), c, Others(n), ShownBy(c.str, c.mem))
       /\ InPlace(n, op, arg, c)
       /\ c.failures > 1 \/ (c.failures > 0 /\ op = "push_back") \/ Granted(n, op, arg, c)

\* The three step properties.
StepInMemory ==
  fault' # "none" =>
    \/ failures' > 0 /\ call'.op \in {"push_back", "new"}
    \/ call'.op = "push_back" /\ str[call'.on].size > str[call'.on].capacity
    \/ fault' = "stale" /\ \E n \in Names : AppendsItself(n)
    \/ fault' = "before" /\ call'.op = "at" /\ call'.arg < 0

StepViewed ==
  LET n == call'.on IN
    /\ view.data # Null /\ str' # str /\ fault' = "none"
    /\ \/ str[n].data # view.data
       \/ /\ call'.op = "append" /\ view.size <= str[n].size
          /\ str[n].capacity - str[n].size >= Len(call'.arg)
    => view' = view /\ Shown' = Shown

StepPromised ==
  \/ fault' # "none"
  \/ failures' > 1
  \/ failures' > 0 /\ call'.op = "push_back"
  \/ Promise!Next

GoodStep == StrInv' /\ StepInMemory /\ StepViewed /\ StepPromised

\* A call that served its purpose touched no memory but its own.
LEMMA ServedInMemory ==
  ASSUME NEW n \in Names, NEW op, NEW arg, NEW c, Ended(n, op, arg, c), Served(n, op, arg, c)
  PROVE  StepInMemory
<1> SUFFICES ASSUME fault' # "none"
             PROVE  \/ failures' > 0 /\ call'.op \in {"push_back", "new"}
                    \/ call'.op = "push_back" /\ str[call'.on].size > str[call'.on].capacity
                    \/ fault' = "stale" /\ \E m \in Names : AppendsItself(m)
                    \/ fault' = "before" /\ call'.op = "at" /\ call'.arg < 0
  BY DEF StepInMemory
<1>1. /\ fault' = c.fault /\ failures' = c.failures
      /\ call' = [op |-> op, on |-> n, arg |-> arg]
  BY DEF Ended
<1>2. call'.op = op /\ call'.on = n /\ call'.arg = arg BY <1>1
<1>3. Astray(n, op, arg, c) BY <1>1 DEF Served
<1>4. CASE c.failures > 0 /\ op \in {"push_back", "new"} BY <1>1, <1>2, <1>4
<1>5. CASE op = "push_back" /\ str[n].size > str[n].capacity BY <1>2, <1>5
<1>6. CASE /\ c.fault = "stale" /\ op = "append" /\ str[n].capacity - str[n].size < Len(arg)
           /\ arg = Text(n) \/ view.data = str[n].data
  <2>1. AppendsItself(n) BY <1>2, <1>6, Zenon DEF AppendsItself
  <2> QED BY <1>1, <1>6, <2>1
<1>7. CASE c.fault = "before" /\ op = "at" /\ arg < 0 BY <1>1, <1>2, <1>7
<1> QED BY <1>3, <1>4, <1>5, <1>6, <1>7 DEF Astray

\* And it did what StrSpec promises of it.
LEMMA ServedPromised ==
  ASSUME StrInv, fault = "none", NEW n \in Names, NEW op, NEW arg, NEW c,
         Ended(n, op, arg, c), Served(n, op, arg, c)
  PROVE  StepPromised
<1>1. /\ fault' = c.fault /\ failures' = c.failures /\ err' = c.err
      /\ call' = [op |-> op, on |-> n, arg |-> arg]
  BY DEF Ended
<1>2. call'.op = op /\ call'.on = n /\ call'.arg = arg BY <1>1
<1> SUFFICES ASSUME c.fault = "none", ~(c.failures > 1), ~(c.failures > 0 /\ op = "push_back")
             PROVE  Promise!Next
  BY <1>1, <1>2 DEF StepPromised
<1>3. Granted(n, op, arg, c) /\ Does(Begin(str[n]), c, Others(n), ShownBy(c.str, c.mem))
  BY DEF Served
<1>4. PICK t : t = ShownBy(c.str, c.mem) OBVIOUS
<1>5. [m \in Names |-> Text(m)]' = [[m \in Names |-> Text(m)] EXCEPT ![n] = t]
  BY <1>3, <1>4, TextsAfter
<1>6. [m \in Names |-> Text(m)][n] = Text(n) OBVIOUS
<1>7. CASE /\ op # "at" /\ t = Promise!Outcome(op, Text(n), arg) /\ (c.err => err)
  <2>1. t = Promise!Outcome(call'.op, [m \in Names |-> Text(m)][n], call'.arg) BY <1>2, <1>6, <1>7
  <2>2. [m \in Names |-> Text(m)]' =
          [[m \in Names |-> Text(m)] EXCEPT
             ![n] = Promise!Outcome(call'.op, [m \in Names |-> Text(m)][n], call'.arg)]
    BY <1>5, <2>1
  <2>3. err' => err BY <1>1, <1>7
  <2>4. Promise!Done(n) BY <2>2, <2>3, Zenon DEF Promise!Done
  <2> QED BY <1>2, <1>7, <2>4, Zenon DEF Promise!Next
<1>8. CASE /\ op # "at" /\ c.failures > 0 /\ c.err
           /\ t = IF op \in Promise!Creating THEN <<>> ELSE Text(n)
  <2>1. t = IF call'.op \in Promise!Creating THEN <<>> ELSE [m \in Names |-> Text(m)][n]
    BY <1>2, <1>6, <1>8
  <2>2. [m \in Names |-> Text(m)]' =
          [[m \in Names |-> Text(m)] EXCEPT
             ![n] = IF call'.op \in Promise!Creating THEN <<>> ELSE [m \in Names |-> Text(m)][n]]
    BY <1>5, <2>1
  <2>3. err' BY <1>1, <1>8
  <2>4. failures' > 0 BY <1>1, <1>8
  <2>5. Promise!OutOfMemory(n) BY <2>2, <2>3, <2>4, Zenon DEF Promise!OutOfMemory
  <2> QED BY <1>2, <1>8, <2>5, Zenon DEF Promise!Next
<1>9. CASE op = "at" /\ t = Text(n) /\ c.err = (err \/ arg >= Len(Text(n)))
  <2>1. [m \in Names |-> Text(m)]' = [m \in Names |-> Text(m)] BY <1>5, <1>9
  <2>2. err' = (err \/ call'.arg >= Len([m \in Names |-> Text(m)][n]))
    <3>1. call'.arg >= Len([m \in Names |-> Text(m)][n]) <=> arg >= Len(Text(n)) BY <1>2, <1>6
    <3>2. err' = (err \/ arg >= Len(Text(n))) BY <1>1, <1>9, Zenon
    <3> QED BY <3>1, <3>2, Zenon
  <2>3. Promise!At(n) BY <1>2, <1>9, <2>1, <2>2, Zenon DEF Promise!At
  <2> QED BY <1>2, <2>3, Zenon DEF Promise!Next
<1> QED BY <1>3, <1>4, <1>7, <1>8, <1>9 DEF Granted

\* And the client's view shows what it did, if the call left the block.
LEMMA ServedViewed ==
  ASSUME StrInv, fault = "none", NEW n \in Names, NEW op, NEW arg, NEW c,
         Ended(n, op, arg, c), Served(n, op, arg, c)
  PROVE  StepViewed
<1>1. /\ fault' = c.fault /\ call' = [op |-> op, on |-> n, arg |-> arg] /\ ViewsForgotten
      /\ mem' = c.mem
  BY DEF Ended
<1>2. call'.op = op /\ call'.on = n /\ call'.arg = arg BY <1>1
<1> SUFFICES ASSUME view.data # Null, c.fault = "none",
                    \/ str[n].data # view.data
                    \/ /\ op = "append" /\ view.size <= str[n].size
                       /\ str[n].capacity - str[n].size >= Len(arg)
             PROVE  view' = view /\ Shown' = Shown
  BY <1>1, <1>2 DEF StepViewed
<1>3. Does(Begin(str[n]), c, Others(n), ShownBy(c.str, c.mem)) /\ InPlace(n, op, arg, c)
  BY DEF Served
<1>4. /\ Fine(c, Others(n)) /\ Others(n) \subseteq DOMAIN mem
      /\ \A b \in Others(n) : b \in DOMAIN mem' /\ mem'[b] = mem[b]
  BY <1>3, EndedIs
<1>5. /\ IsMem(mem) /\ DOMAIN mem = UNION {Blocks(str[m]) : m \in Names}
      /\ IsStr(str[n], mem)
      /\ view \in [data : Block \union {Null}, size : Nat]
      /\ view.data \in DOMAIN mem /\ view.size <= Len(mem[view.data])
  BY DEF StrInv, IsRange
<1>6. PICK d, s : d = view.data /\ s = view.size OBVIOUS
<1>7. s \in Nat BY <1>5, <1>6
<1>8. CASE str[n].data # view.data
  <2>1. d \in Others(n) BY <1>5, <1>6, <1>8 DEF Others, Blocks
  <2>2. d \in DOMAIN mem' /\ mem'[d] = mem[d] BY <1>4, <2>1
  <2>3. view' = view BY <1>1, <1>6, <2>2 DEF ViewsForgotten
  <2> QED BY <1>6, <2>2, <2>3 DEF Shown, Characters, Memory
<1>9. CASE /\ op = "append" /\ view.size <= str[n].size
           /\ str[n].capacity - str[n].size >= Len(arg) /\ str[n].data = view.data
  <2>1. PICK o, old, new : o = str[n].size /\ old = mem[d] /\ new = mem'[d] OBVIOUS
  <2>2. c.str.data = d /\ \A k \in 1 .. o : new[k] = old[k] BY <1>1, <1>3, <1>6, <1>9, <2>1 DEF InPlace
  <2>3. d \in DOMAIN mem' /\ Sized(new, Len(new)) /\ DOMAIN mem' \subseteq Block
    BY <1>1, <1>4, <1>6, <2>1, <2>2, FineIs
  <2>4. view' = view BY <1>1, <1>6, <2>3 DEF ViewsForgotten
  <2>5. Sized(old, Len(old)) /\ s <= Len(old) BY <1>5, <1>6, <2>1 DEF IsMem
  <2>6. o \in Nat /\ s <= o BY <1>5, <1>6, <1>9, <2>1 DEF IsStr
  <2>7. s <= Len(new)
    <3>1. c.str.size <= Len(c.mem[c.str.data]) BY <1>4, <1>6, <2>2, FineIs
    <3>2. Len(old) <= Len(new)
      <4>1. \A b \in DOMAIN mem \intersect DOMAIN mem' : Len(mem[b]) <= Len(mem'[b]) BY <1>3, EndedIs
      <4> QED BY <1>5, <1>6, <2>1, <2>3, <4>1
    <3>3. Len(old) \in Nat /\ Len(new) \in Nat BY <2>3, <2>5, SizedIs
    <3> QED BY <1>7, <2>5, <3>2, <3>3
  <2>8. PICK f, g : f = Take(old, s) /\ g = Take(new, s) OBVIOUS
  <2>9. Sized(f, s) /\ \A k \in 1 .. s : f[k] = old[k] BY <1>7, <2>5, <2>8, SizedTake
  <2>10. Sized(g, s) /\ \A k \in 1 .. s : g[k] = new[k] BY <1>7, <2>3, <2>7, <2>8, SizedTake
  <2>11. \A k \in 1 .. s : k \in 1 .. o BY <1>7, <2>6
  <2>12. \A k \in 1 .. s : f[k] = g[k] BY <2>2, <2>9, <2>10, <2>11
  <2>13. f = g BY <2>9, <2>10, <2>12, SizedSame
  <2>14. Shown = f /\ Shown' = g
    BY <1>6, <2>1, <2>4, <2>8 DEF Shown, Characters, Memory
  <2> QED BY <2>4, <2>13, <2>14
<1> QED BY <1>8, <1>9

\* And so it is a good step.
LEMMA ServedGood ==
  ASSUME StrInv, fault = "none", NEW n \in Names, NEW op, NEW arg, NEW c,
         Ended(n, op, arg, c), Served(n, op, arg, c)
  PROVE  GoodStep
<1>1. c.fault = "none" => Does(Begin(str[n]), c, Others(n), ShownBy(c.str, c.mem)) BY DEF Served
<1>2. StrInv' BY <1>1, StrKept
<1> QED BY <1>2, ServedInMemory, ServedPromised, ServedViewed DEF GoodStep

\* What StrSpec promises of each kind of call.
LEMMA OutcomeIs ==
  ASSUME NEW old, NEW arg
  PROVE  /\ Promise!Outcome("create", old, arg) = arg
         /\ Promise!Outcome("new", old, arg) = arg
         /\ Promise!Outcome("append", old, arg) = old \o arg
         /\ Promise!Outcome("push_back", old, arg) = old \o arg
         /\ Promise!Outcome("clear", old, arg) = <<>>
         /\ Promise!Outcome("keep", old, arg) = old
         /\ "create" \in Promise!Creating /\ "new" \in Promise!Creating
         /\ "append" \notin Promise!Creating /\ "keep" \notin Promise!Creating
BY DEF Promise!Outcome, Promise!Creating

\* A text of the client, by its length.
LEMMA GivenIs ==
  ASSUME NEW t \in Texts
  PROVE  Sized(t, Len(t)) /\ Len(t) \in Nat
<1>1. t \in Seq(Range(t)) BY StrConstants
<1>2. Sized(t, Len(t)) BY <1>1, SizedSeq
<1> QED BY <1>2, SizedIs

\* A call all of whose outcomes serve their purpose is a good step.
LEMMA EndsGood ==
  ASSUME StrInv, fault = "none", NEW n \in Names, NEW op, NEW arg, NEW outcomes,
         Ends(n, op, arg, outcomes), \A c \in outcomes : Served(n, op, arg, c)
  PROVE  GoodStep
<1>1. PICK c \in outcomes : Ended(n, op, arg, c) BY EndsIn
<1> QED BY <1>1, ServedGood

\* Calls that do not append, and go well.
LEMMA ServedWell ==
  ASSUME StrInv, fault = "none", NEW n \in Names, NEW op, op \notin {"append", "at"}, NEW arg,
         NEW c, NEW t, Does(Begin(str[n]), c, Others(n), t),
         \/ t = Promise!Outcome(op, Text(n), arg) /\ (c.err => err)
         \/ c.failures > 0 /\ c.err /\ t = IF op \in Promise!Creating THEN <<>> ELSE Text(n)
  PROVE  Served(n, op, arg, c)
<1>1. PICK z, B, u : z = Begin(str[n]) /\ B = Others(n) /\ u = ShownBy(c.str, c.mem) OBVIOUS
<1>2. Fine(z, B) BY <1>1, BeginIs
<1>3. Does(z, c, B, t) BY <1>1
<1>4. Does(z, c, B, u) /\ Fine(c, B) /\ u = t BY <1>1, <1>2, <1>3, CallHolds
<1>5. c.fault = "none" BY <1>4, FineIs
<1>6. InPlace(n, op, arg, c) BY DEF InPlace
<1>7. Granted(n, op, arg, c) BY <1>1, <1>4 DEF Granted
<1> QED BY <1>1, <1>4, <1>5, <1>6, <1>7 DEF Served

\* Creating a string from what can be read serves its purpose.
LEMMA CreatedGood ==
  ASSUME StrInv, fault = "none", NEW n \in Names, Unused(n), NEW op \in {"create", "new"},
         NEW src, NEW t, Reads(mem, src, t), NEW c \in CreateFrom(Begin(NullStr), src)
  PROVE  Served(n, op, t, c)
<1>1. PICK z, B : z = Begin(str[n]) /\ B = Others(n) OBVIOUS
<1>2. Fine(z, B) /\ z.str = NullStr /\ z.mem = mem /\ z.failures = 0 BY <1>1, BeginIs, UnusedIs
<1>3. c \in CreateFrom(z, src) BY <1>1, UnusedIs
<1>4. Reads(z.mem, src, t) BY <1>2
<1>5. CreatedFrom(z, c, B, src, t) BY <1>2, <1>3, <1>4, CreateFromIs
<1>6. Promise!Outcome(op, Text(n), t) = t /\ op \in Promise!Creating BY OutcomeIs
<1>7. CASE Does(z, c, B, <<>>) /\ c.err /\ c.failures = z.failures + 1
  <2>1. c.failures > 0 BY <1>2, <1>7
  <2> QED BY <1>1, <1>6, <1>7, <2>1, ServedWell
<1>8. CASE Does(z, c, B, t) /\ ~c.err
  BY <1>1, <1>6, <1>8, ServedWell
<1> QED BY <1>5, <1>7, <1>8 DEF CreatedFrom

\* Creating a string is a good step.
LEMMA CreateGood ==
  ASSUME StrInv, fault = "none", NEW n \in Names, Create(n)
  PROVE  GoodStep
<1>1. PICK z, B : z = Begin(str[n]) /\ B = Others(n) OBVIOUS
<1>2. Unused(n) BY DEF Create
<1>3. Fine(z, B) /\ z.str = NullStr /\ z.mem = mem /\ z.failures = 0 /\ Begin(NullStr) = z
  BY <1>1, <1>2, BeginIs, UnusedIs
<1>4. ASSUME NEW cap \in 0 .. MaxCap, Ends(n, "create", <<>>, Create1(Begin(NullStr), cap))
      PROVE  GoodStep
  <2>1. ASSUME NEW c \in Create1(z, cap) PROVE Served(n, "create", <<>>, c)
    <3>1. cap \in Nat BY StrConstants
    <3>2. /\ Does(z, c, B, <<>>)
          /\ \/ c.err /\ c.failures = z.failures + 1
             \/ ~c.err
      BY <1>3, <2>1, <3>1, Create1Is
    <3>3. Promise!Outcome("create", Text(n), <<>>) = <<>> BY OutcomeIs
    <3>4. "create" \in Promise!Creating BY OutcomeIs
    <3>5. c.failures = z.failures + 1 => c.failures > 0 BY <1>3
    <3> QED BY <1>1, <3>2, <3>3, <3>4, <3>5, ServedWell
  <2> QED BY <1>3, <1>4, <2>1, EndsGood
<1>5. ASSUME NEW t \in Texts, Ends(n, "create", t, CreateFrom(Begin(NullStr), Given(t)))
      PROVE  GoodStep
  <2>1. Reads(mem, Given(t), t) BY GivenIs, GivenReads
  <2>2. \A c \in CreateFrom(Begin(NullStr), Given(t)) : Served(n, "create", t, c)
    BY <1>2, <2>1, CreatedGood
  <2> QED BY <1>5, <2>2, EndsGood
<1>6. ASSUME NEW t \in Texts, Ends(n, "create", t \o <<Nul>>, CreateCstr(Begin(NullStr), Given(t)))
      PROVE  GoodStep
  <2>1. PICK u : u = t \o <<Nul>> OBVIOUS
  <2>2. ASSUME NEW c \in CreateCstr(z, Given(t)) PROVE Served(n, "create", u, c)
    <3>1. PICK s : s = ShownBy(c.str, c.mem) OBVIOUS
    <3>2. /\ Does(z, c, B, s) /\ c.failures \in Nat
          /\ c.failures <= 1 => s = u /\ ~c.err
      BY <1>3, <2>1, <2>2, <3>1, GivenIs, CstrIs
    <3>3. c.fault = "none" BY <3>2, FineIs DEF Does
    <3>4. InPlace(n, "create", u, c) BY DEF InPlace
    <3>5. CASE c.failures <= 1
      <4>1. Promise!Outcome("create", Text(n), u) = u BY OutcomeIs
      <4> QED BY <1>1, <3>2, <3>5, <4>1, ServedWell
    <3>6. CASE ~(c.failures <= 1)
      <4>1. c.failures > 1 BY <3>2, <3>6
      <4> QED BY <1>1, <3>1, <3>2, <3>3, <3>4, <4>1 DEF Served
    <3> QED BY <3>5, <3>6
  <2>3. Ends(n, "create", u, CreateCstr(z, Given(t))) BY <1>3, <1>6, <2>1
  <2> QED BY <2>2, <2>3, EndsGood
<1> QED BY <1>4, <1>5, <1>6 DEF Create

\* A piece of memory with an owner can be read.
LEMMA MemoryReads ==
  ASSUME StrInv, fault = "none", NEW v, v.size \in Nat, v.data = Null => v.size = 0,
         v.data # Null => v.data \in DOMAIN mem /\ v.size <= Len(mem[v.data])
  PROVE  /\ Reads(mem, Memory(v), Characters(mem, Memory(v)))
         /\ Len(Characters(mem, Memory(v))) = v.size
<1>1. PICK src, t, d, n : src = Memory(v) /\ t = Characters(mem, src) /\ d = v.data /\ n = v.size
  OBVIOUS
<1>2. src.data = d /\ src.size = n /\ src.text = <<>> BY <1>1 DEF Memory
<1>3. IsMem(mem) BY DEF StrInv
<1>4. Sized(t, n)
  <2>1. CASE d = Null
    <3>1. t = <<>> BY <1>1, <1>2, <2>1 DEF Characters
    <3>2. n = 0 BY <1>1, <2>1
    <3> QED BY <3>1, <3>2 DEF Sized
  <2>2. CASE d # Null
    <3>1. PICK old : old = mem[d] OBVIOUS
    <3>2. t = Take(old, n) BY <1>1, <1>2, <2>2, <3>1 DEF Characters
    <3>3. Sized(old, Len(old)) /\ n \in Nat /\ n <= Len(old) BY <1>1, <1>3, <2>2, <3>1 DEF IsMem
    <3> QED BY <3>2, <3>3, SizedTake
  <2> QED BY <2>1, <2>2
<1>5. Len(t) = n BY <1>4, SizedIs
<1>6. ~Dangling(mem, src) BY <1>1, <1>2 DEF Dangling
<1>7. src.data # Null => src.size <= Len(mem[src.data]) BY <1>1, <1>2
<1>8. Reads(mem, src, t) BY <1>1, <1>2, <1>4, <1>6, <1>7 DEF Reads
<1> QED BY <1>1, <1>5, <1>8

\* The text of a string can be read.
LEMMA NamesRead ==
  ASSUME StrInv, fault = "none", NEW n \in Names
  PROVE  Reads(mem, Memory(str[n]), Text(n)) /\ Len(Text(n)) = str[n].size
<1>1. PICK v : v = str[n] OBVIOUS
<1>2. IsStr(v, mem) BY <1>1 DEF StrInv
<1>3. /\ v.size \in Nat /\ (v.data = Null => v.size = 0)
      /\ v.data # Null => v.data \in DOMAIN mem /\ v.size <= Len(mem[v.data])
  BY <1>2 DEF IsStr
<1>4. Characters(mem, Memory(v)) = Text(n) BY <1>1 DEF Characters, Memory, Text
<1>5. Reads(mem, Memory(v), Text(n)) BY <1>3, <1>4, MemoryReads
<1> QED BY <1>1, <1>5, TextIs

\* So can what the client's view shows.
LEMMA ViewReads ==
  ASSUME StrInv, fault = "none"
  PROVE  /\ Reads(mem, Memory(view), Characters(mem, Memory(view)))
         /\ Len(Characters(mem, Memory(view))) = view.size
<1>1. IsRange(mem, view) BY DEF StrInv
<1>2. /\ view.size \in Nat /\ (view.data = Null => view.size = 0)
      /\ view.data # Null => view.data \in DOMAIN mem /\ view.size <= Len(mem[view.data])
  BY <1>1 DEF IsRange
<1>3. PICK v : v = view OBVIOUS
<1>4. /\ v.size \in Nat /\ (v.data = Null => v.size = 0)
      /\ v.data # Null => v.data \in DOMAIN mem /\ v.size <= Len(mem[v.data])
  BY <1>2, <1>3
<1> QED BY <1>3, <1>4, MemoryReads

\* Copies of a string, which may be of the null string.
LEMMA CopiedGood ==
  ASSUME StrInv, fault = "none", NEW n \in Names, NEW m \in Names, Unused(m),
         NEW op \in {"create", "new"},
         Ends(m, op, Text(n), CreateFrom(Begin(NullStr), Memory(str[n])))
  PROVE  GoodStep
<1>1. PICK t : t = Text(n) OBVIOUS
<1>2. Reads(mem, Memory(str[n]), t) BY <1>1, NamesRead
<1>3. \A c \in CreateFrom(Begin(NullStr), Memory(str[n])) : Served(m, op, t, c)
  BY <1>2, CreatedGood
<1>4. Ends(m, op, t, CreateFrom(Begin(NullStr), Memory(str[n]))) BY <1>1
<1> QED BY <1>3, <1>4, EndsGood

\* Copying a string is a good step.
LEMMA CopyGood ==
  ASSUME StrInv, fault = "none", NEW n \in Names, NEW m \in Names, Copy(n, m)
  PROVE  GoodStep
<1>1. Unused(m) /\ Ends(m, "create", Text(n), CreateFrom(Begin(NullStr), Memory(str[n])))
  BY DEF Copy
<1> QED BY <1>1, CopiedGood

\* An append, whatever it reads.
LEMMA AppendServes ==
  ASSUME StrInv, fault = "none", NEW n \in Names, NEW src, NEW t, Reads(mem, src, t),
         src.size = Len(t),
         src.data # Null /\ src.data = str[n].data => t = Text(n) \/ view.data = str[n].data,
         NEW c \in Append1(Begin(str[n]), src)
  PROVE  Served(n, "append", t, c)
<1>1. PICK z, B, op, w, u : z = Begin(str[n]) /\ B = Others(n) /\ op = "append"
                            /\ w = Text(n) /\ u = ShownBy(c.str, c.mem)
  OBVIOUS
<1>2. Fine(z, B) /\ z.str = str[n] /\ z.mem = mem /\ z.err = err /\ z.failures = 0 BY <1>1, BeginIs
<1>3. ShownBy(z.str, z.mem) = w BY <1>1, <1>2, TextIs
<1>4. Reads(z.mem, src, t) BY <1>2
<1>5. c \in Append1(z, src) BY <1>1
<1>6. Appended(z, c, B, src, t) BY <1>2, <1>4, <1>5, AppendIs
<1>7. c.fault = "none" => InPlace(n, op, t, c)
  <2> SUFFICES ASSUME str[n].data # Null, str[n].capacity - str[n].size >= Len(t)
               PROVE  /\ c.str.data = str[n].data
                      /\ \A k \in 1 .. str[n].size : c.mem[str[n].data][k] = mem[str[n].data][k]
    BY DEF InPlace
  <2>1. SpaceLeft(z) >= src.size BY <1>2 DEF SpaceLeft
  <2>2. Roomy(z, c, B, src, t) BY <1>2, <1>4, <1>5, <2>1, AppendRoomy
  <2> QED BY <1>2, <2>2 DEF Roomy
<1>8. Promise!Outcome(op, w, t) = w \o t /\ op \notin Promise!Creating BY <1>1, OutcomeIs
<1>9. CASE Does(z, c, B, w) /\ c.err /\ c.failures = z.failures + 1
  <2>1. Does(z, c, B, u) /\ Fine(c, B) /\ u = w BY <1>1, <1>2, <1>9, CallHolds
  <2>2. c.fault = "none" BY <2>1, FineIs
  <2>3. c.failures > 0 BY <1>2, <1>9
  <2>4. op # "at" BY <1>1
  <2>5. Granted(n, op, t, c) BY <1>1, <1>8, <1>9, <2>1, <2>3, <2>4 DEF Granted
  <2> QED BY <1>1, <1>7, <2>1, <2>2, <2>5 DEF Served
<1>10. CASE Does(z, c, B, w \o t) /\ (c.err => z.err)
  <2>1. Does(z, c, B, u) /\ Fine(c, B) /\ u = w \o t BY <1>1, <1>2, <1>10, CallHolds
  <2>2. c.fault = "none" BY <2>1, FineIs
  <2>3. c.err => err BY <1>2, <1>10
  <2>4. op # "at" BY <1>1
  <2>5. Granted(n, op, t, c) BY <1>1, <1>8, <2>1, <2>3, <2>4 DEF Granted
  <2> QED BY <1>1, <1>7, <2>1, <2>2, <2>5 DEF Served
<1>11. CASE /\ c.fault = "stale" /\ z.str.data # Null /\ src.data = z.str.data
            /\ z.str.capacity - z.str.size < src.size
  <2>1. str[n].capacity - str[n].size < Len(t) BY <1>2, <1>11
  <2>2. t = Text(n) \/ view.data = str[n].data BY <1>2, <1>11
  <2>3. Astray(n, op, t, c) BY <1>1, <1>11, <2>1, <2>2, Zenon DEF Astray
  <2>4. c.fault # "none" BY <1>11
  <2> QED BY <1>1, <2>3, <2>4 DEF Served
<1> QED BY <1>3, <1>6, <1>9, <1>10, <1>11 DEF Appended

\* Appending to a string is a good step, whatever is appended.
LEMMA AppendGood ==
  ASSUME StrInv, fault = "none", NEW n \in Names, AppendTo(n)
  PROVE  GoodStep
<1>1. ASSUME NEW t \in Texts, Ends(n, "append", t, Append1(Begin(str[n]), Given(t)))
      PROVE  GoodStep
  <2>1. Reads(mem, Given(t), t) /\ Given(t).size = Len(t) /\ Given(t).data = Null
    BY GivenIs, GivenReads
  <2>2. \A c \in Append1(Begin(str[n]), Given(t)) : Served(n, "append", t, c)
    BY <2>1, AppendServes
  <2> QED BY <1>1, <2>2, EndsGood
<1>2. ASSUME NEW m \in Names, Ends(n, "append", Text(m), Append1(Begin(str[n]), Memory(str[m])))
      PROVE  GoodStep
  <2>1. PICK t, src : t = Text(m) /\ src = Memory(str[m]) OBVIOUS
  <2>2. Reads(mem, src, t) /\ Len(t) = str[m].size BY <2>1, NamesRead
  <2>3. src.size = str[m].size /\ src.data = str[m].data BY <2>1 DEF Memory
  <2>4. src.data # Null /\ src.data = str[n].data => t = Text(n) \/ view.data = str[n].data
    <3>1. \A k, l \in Names : k # l => Blocks(str[k]) \intersect Blocks(str[l]) = {} BY DEF StrInv
    <3>2. str[m].data # Null /\ str[m].data = str[n].data => m = n BY <3>1 DEF Blocks
    <3> QED BY <2>1, <2>3, <3>2
  <2>5. \A c \in Append1(Begin(str[n]), src) : Served(n, "append", t, c)
    BY <2>2, <2>3, <2>4, AppendServes
  <2>6. Ends(n, "append", t, Append1(Begin(str[n]), src)) BY <1>2, <2>1
  <2> QED BY <2>5, <2>6, EndsGood
<1>3. ASSUME Ends(n, "append", Characters(mem, Memory(view)), Append1(Begin(str[n]), Memory(view)))
      PROVE  GoodStep
  <2>1. PICK t, src : t = Characters(mem, Memory(view)) /\ src = Memory(view) OBVIOUS
  <2>2. Reads(mem, src, t) /\ Len(t) = view.size BY <2>1, ViewReads
  <2>3. src.size = view.size /\ src.data = view.data BY <2>1 DEF Memory
  <2>4. src.data # Null /\ src.data = str[n].data => t = Text(n) \/ view.data = str[n].data
    BY <2>3
  <2>5. \A c \in Append1(Begin(str[n]), src) : Served(n, "append", t, c)
    BY <2>2, <2>3, <2>4, AppendServes
  <2>6. Ends(n, "append", t, Append1(Begin(str[n]), src)) BY <1>3, <2>1
  <2> QED BY <2>5, <2>6, EndsGood
<1> QED BY <1>1, <1>2, <1>3 DEF AppendTo

\* Pushing a character back is a good step.
LEMMA PushBackGood ==
  ASSUME StrInv, fault = "none", NEW n \in Names, PushBackTo(n)
  PROVE  GoodStep
<1>1. PICK t \in Texts : Len(t) = 1 /\ Ends(n, "push_back", t, PushBack(Begin(str[n]), Given(t)))
  BY DEF PushBackTo
<1>2. PICK z, B, op, w, src : z = Begin(str[n]) /\ B = Others(n) /\ op = "push_back"
                              /\ w = Text(n) /\ src = Given(t)
  OBVIOUS
<1>3. Fine(z, B) /\ z.str = str[n] /\ z.mem = mem /\ z.err = err /\ z.failures = 0 BY <1>2, BeginIs
<1>4. ShownBy(z.str, z.mem) = w BY <1>2, <1>3, TextIs
<1>5. Sized(t, 1) BY <1>1, GivenIs
<1>6. (\A m : Reads(m, src, t)) /\ src.size = 1 /\ src.data = Null
  BY <1>1, <1>2, GivenIs, GivenReads
<1>7. ASSUME NEW c \in PushBack(z, src) PROVE Served(n, op, t, c)
  <2>1. Pushed(z, c, B, t) BY <1>3, <1>5, <1>6, <1>7, PushBackIs
  <2>2. InPlace(n, op, t, c) BY <1>2 DEF InPlace
  <2>3. CASE Does(z, c, B, w \o t) /\ (c.err => z.err)
    <3>1. Promise!Outcome(op, w, t) = w \o t BY <1>2, OutcomeIs
    <3>2. op \notin {"append", "at"} BY <1>2
    <3>3. c.err => err BY <1>3, <2>3
    <3> QED BY <1>2, <2>3, <3>1, <3>2, <3>3, ServedWell
  <2>4. CASE /\ c.failures = z.failures + 1
             /\ c.fault = "none" => Does(z, c, B, ShownBy(c.str, c.mem))
    <3>1. c.failures > 0 BY <1>3, <2>4
    <3>2. Astray(n, op, t, c) BY <1>2, <3>1, Zenon DEF Astray
    <3> QED BY <1>2, <2>2, <2>4, <3>1, <3>2, Zenon DEF Served
  <2>5. CASE c.fault # "none" /\ z.str.size > z.str.capacity
    <3>1. Astray(n, op, t, c) BY <1>2, <1>3, <2>5 DEF Astray
    <3> QED BY <2>5, <3>1 DEF Served
  <2> QED BY <1>4, <2>1, <2>3, <2>4, <2>5 DEF Pushed
<1>8. Ends(n, op, t, PushBack(z, src)) BY <1>1, <1>2
<1> QED BY <1>7, <1>8, EndsGood

\* A call that keeps the text is a good step.
LEMMA KeptGood ==
  ASSUME StrInv, fault = "none", NEW n \in Names, NEW outcomes, Ends(n, "keep", <<>>, outcomes),
         \A c \in outcomes : KeepsText(Begin(str[n]), c, Others(n))
  PROVE  GoodStep
<1>1. PICK z, B, op, w : z = Begin(str[n]) /\ B = Others(n) /\ op = "keep" /\ w = Text(n) OBVIOUS
<1>2. Fine(z, B) /\ z.str = str[n] /\ z.mem = mem /\ z.err = err /\ z.failures = 0 BY <1>1, BeginIs
<1>3. ShownBy(z.str, z.mem) = w BY <1>1, <1>2, TextIs
<1>4. op \notin Promise!Creating /\ op \notin {"append", "at"} /\ Promise!Outcome(op, w, <<>>) = w
  BY <1>1, OutcomeIs
<1>5. ASSUME NEW c \in outcomes PROVE Served(n, op, <<>>, c)
  <2>1. KeepsText(z, c, B) BY <1>1
  <2>2. Does(z, c, B, w) BY <1>3, <2>1 DEF KeepsText
  <2>3. CASE c.err => z.err
    <3>1. c.err => err BY <1>2, <2>3
    <3> QED BY <1>1, <1>4, <2>2, <3>1, ServedWell
  <2>4. CASE c.err /\ c.failures = z.failures + 1
    <3>1. c.failures > 0 BY <1>2, <2>4
    <3> QED BY <1>1, <1>4, <2>2, <2>4, <3>1, ServedWell
  <2> QED BY <2>1, <2>3, <2>4 DEF KeepsText
<1> QED BY <1>1, <1>5, EndsGood

\* Reserving is a good step.
LEMMA ReserveGood ==
  ASSUME StrInv, fault = "none", NEW n \in Names, ReserveIn(n)
  PROVE  GoodStep
<1>1. PICK cap \in 0 .. MaxCap : Ends(n, "keep", <<>>, Reserve(Begin(str[n]), cap)) BY DEF ReserveIn
<1>2. cap \in Nat BY StrConstants
<1>3. \A c \in Reserve(Begin(str[n]), cap) : KeepsText(Begin(str[n]), c, Others(n))
  BY <1>2, BeginIs, ReserveKeeps
<1> QED BY <1>1, <1>3, KeptGood

\* Shrinking is a good step.
LEMMA ShrinkGood ==
  ASSUME StrInv, fault = "none", NEW n \in Names, Shrink(n)
  PROVE  GoodStep
<1>1. Ends(n, "keep", <<>>, ShrinkToFit(Begin(str[n]))) BY DEF Shrink
<1>2. \A c \in ShrinkToFit(Begin(str[n])) : KeepsText(Begin(str[n]), c, Others(n))
  BY BeginIs, ShrinkIs
<1> QED BY <1>1, <1>2, KeptGood

\* Calls with one outcome, which is what they are for.
LEMMA OneGood ==
  ASSUME StrInv, fault = "none", NEW n \in Names, NEW op \in {"create", "clear"}, NEW arg, NEW c,
         Ends(n, op, arg, {c}), Does(Begin(str[n]), c, Others(n), IF op = "clear" THEN <<>> ELSE arg),
         c.err => err
  PROVE  GoodStep
<1>1. PICK t : t = IF op = "clear" THEN <<>> ELSE arg OBVIOUS
<1>2. Does(Begin(str[n]), c, Others(n), t) BY <1>1
<1>3. t = Promise!Outcome(op, Text(n), arg) BY <1>1, OutcomeIs
<1>4. op \notin {"append", "at"} OBVIOUS
<1>5. Served(n, op, arg, c) BY <1>2, <1>3, <1>4, ServedWell
<1> QED BY <1>5, EndsGood

\* Clearing or destroying a string is a good step.
LEMMA ClearGood ==
  ASSUME StrInv, fault = "none", NEW n \in Names, ClearIt(n) \/ DestroyIt(n)
  PROVE  GoodStep
<1>1. PICK z, B : z = Begin(str[n]) /\ B = Others(n) OBVIOUS
<1>2. Fine(z, B) /\ z.err = err BY <1>1, BeginIs
<1>3. PICK op : op = "clear" OBVIOUS
<1>4. ASSUME NEW c, Ends(n, op, <<>>, {c}), Does(z, c, B, <<>>), c.err = z.err PROVE GoodStep
  <2>1. Does(z, c, B, IF op = "clear" THEN <<>> ELSE <<>>) BY <1>4
  <2>2. c.err => err BY <1>2, <1>4
  <2>3. op \in {"create", "clear"} BY <1>3
  <2> QED BY <1>1, <1>4, <2>1, <2>2, <2>3, OneGood
<1>5. CASE ClearIt(n)
  <2>1. Ends(n, op, <<>>, {Clear(z)}) BY <1>1, <1>3, <1>5 DEF ClearIt
  <2>2. Does(z, Clear(z), B, <<>>) /\ Clear(z).err = z.err BY <1>2, ClearIs
  <2> QED BY <1>4, <2>1, <2>2
<1>6. CASE DestroyIt(n)
  <2>1. Ends(n, op, <<>>, {Destroy(z)}) BY <1>1, <1>3, <1>6 DEF DestroyIt
  <2>2. Does(z, Destroy(z), B, <<>>) /\ Destroy(z).err = z.err BY <1>2, DestroyIs
  <2> QED BY <1>4, <2>1, <2>2
<1> QED BY <1>5, <1>6

\* Filling a string in place is a good step.
LEMMA FillGood ==
  ASSUME StrInv, fault = "none", NEW n \in Names, Fill(n)
  PROVE  GoodStep
<1>1. PICK t \in Texts :
        /\ Len(t) + 1 <= str[n].capacity
        /\ Ends(n, "create", t, {CheckSize(Write(Begin(str[n]), 0, Given(t \o <<Nul>>)))})
  BY DEF Fill
<1>2. PICK z, B, c, op : /\ z = Begin(str[n]) /\ B = Others(n) /\ op = "create"
                         /\ c = CheckSize(Write(z, 0, Given(t \o <<Nul>>)))
  OBVIOUS
<1>3. Fine(z, B) /\ z.str = str[n] /\ z.err = err BY <1>2, BeginIs
<1>4. Len(t) + 1 <= z.str.capacity BY <1>1, <1>3
<1>5. Does(z, c, B, t) /\ c.err = z.err BY <1>2, <1>3, <1>4, FillIs
<1>6. Does(z, c, B, IF op = "clear" THEN <<>> ELSE t) BY <1>2, <1>5
<1>7. op \in {"create", "clear"} /\ (c.err => err) BY <1>2, <1>3, <1>5
<1>8. Ends(n, op, t, {c}) BY <1>1, <1>2
<1> QED BY <1>2, <1>6, <1>7, <1>8, OneGood

\* The buffer of a client becomes the block of the string.
LEMMA AssignGood ==
  ASSUME StrInv, fault = "none", NEW n \in Names, Assign(n)
  PROVE  GoodStep
<1>1. PICK t \in Texts, rest \in {<<>>, <<Nul>>}, b \in Block \ DOMAIN mem :
        Ends(n, "create", t,
             {[Begin([data |-> b, size |-> Len(t), capacity |-> Len(t)]) EXCEPT
                 !.mem = With(@, b, t \o rest)]})
  BY DEF Assign
<1>2. PICK z, B, c, op, s, l, cells :
        /\ z = Begin(str[n]) /\ B = Others(n) /\ op = "create"
        /\ s = [data |-> b, size |-> Len(t), capacity |-> Len(t)] /\ l = Len(t) /\ cells = t \o rest
        /\ c = [Begin(s) EXCEPT !.mem = With(@, b, t \o rest)]
  OBVIOUS
<1>3. Unused(n) BY DEF Assign
<1>4. Fine(z, B) /\ z.str = NullStr /\ z.mem = mem /\ z.err = err BY <1>2, <1>3, BeginIs, UnusedIs
<1>5. /\ IsCall(c) /\ c.str = s /\ c.mem = With(mem, b, cells) /\ c.err = err /\ c.failures = 0
      /\ c.fault = "none"
  BY <1>2 DEF Begin, IsCall
<1>6. /\ DOMAIN c.mem = DOMAIN mem \union {b} /\ c.mem[b] = cells
      /\ \A d \in DOMAIN mem : c.mem[d] = mem[d]
  BY <1>1, <1>5 DEF With
<1>7. DOMAIN mem = B
  <2>1. DOMAIN z.mem = B \union Blocks(z.str) BY <1>4, FineIs
  <2>2. Blocks(z.str) = {} BY <1>4 DEF Blocks, NullStr
  <2> QED BY <1>4, <2>1, <2>2
<1>8. Sized(t, l) /\ l \in Nat BY <1>2, GivenIs
<1>9. PICK r : Sized(rest, r)
  <2>1. Sized(<<>>, 0) /\ Sized(<<Nul>>, 1) BY DEF Sized
  <2> QED BY <2>1
<1>10. cells = Join(t, rest) BY <1>2 DEF Join
<1>11. Sized(cells, l + r) /\ \A k \in 1 .. l : cells[k] = t[k] BY <1>8, <1>9, <1>10, SizedJoin
<1>12. r \in Nat /\ Len(cells) = l + r BY <1>9, <1>11, SizedIs
<1>13. Sized(cells, Len(cells)) /\ l <= Len(cells) BY <1>8, <1>11, <1>12
<1>14. b \in Block /\ b \notin B /\ b # Null /\ Null \notin Block BY <1>1, <1>7, StrConstants
<1>15. /\ c.str \in [data : Block \union {Null}, size : Nat, capacity : Nat]
       /\ c.str.data = b /\ c.str.size = l /\ c.str.capacity = l
  BY <1>2, <1>5, <1>8, <1>14
<1>16. IsMem(mem) /\ err \in BOOLEAN BY DEF StrInv
<1>17. IsMem(c.mem)
  <2>1. \A d \in DOMAIN mem : Sized(c.mem[d], Len(c.mem[d])) BY <1>6, <1>16 DEF IsMem
  <2>2. Sized(c.mem[b], Len(c.mem[b])) BY <1>6, <1>13
  <2> QED BY <1>6, <1>14, <1>16, <2>1, <2>2 DEF IsMem
<1>18. IsStr(c.str, c.mem) BY <1>6, <1>13, <1>14, <1>15 DEF IsStr
<1>19. Fine(c, B)
  <2>1. Blocks(c.str) = {b} BY <1>14, <1>15 DEF Blocks
  <2>2. c.err \in BOOLEAN BY <1>5, <1>16, Zenon
  <2>3. c.failures \in Nat BY <1>5
  <2> QED BY <1>5, <1>6, <1>7, <1>14, <1>15, <1>17, <1>18, <2>1, <2>2, <2>3 DEF Fine
<1>20. ShownBy(c.str, c.mem) = t
  <2>1. ShownBy(c.str, c.mem) = Take(cells, l) BY <1>6, <1>14, <1>15 DEF ShownBy
  <2>2. PICK u : u = Take(cells, l) OBVIOUS
  <2>3. Sized(u, l) /\ \A k \in 1 .. l : u[k] = cells[k] BY <1>8, <1>13, <2>2, SizedTake
  <2>4. u = t BY <1>8, <1>11, <2>3, SizedSame
  <2> QED BY <2>1, <2>2, <2>4
<1>21. Does(z, c, B, t)
  <2>1. ASSUME NEW d \in DOMAIN z.mem \intersect DOMAIN c.mem PROVE Len(z.mem[d]) <= Len(c.mem[d])
    <3>1. c.mem[d] = z.mem[d] /\ Len(z.mem[d]) \in Nat BY <1>4, <1>6, FineIs
    <3> QED BY <3>1
  <2> QED BY <1>4, <1>6, <1>7, <1>19, <1>20, <2>1 DEF Does
<1>22. Does(z, c, B, IF op = "clear" THEN <<>> ELSE t) BY <1>2, <1>21
<1>23. op \in {"create", "clear"} /\ (c.err => err) BY <1>2, <1>5
<1>24. Ends(n, op, t, {c}) BY <1>1, <1>2
<1> QED BY <1>2, <1>22, <1>23, <1>24, OneGood

\* Looking at a character, or beyond, is a good step.
LEMMA AtGood ==
  ASSUME StrInv, fault = "none", NEW n \in Names, At(n)
  PROVE  GoodStep
<1>1. ASSUME NEW pos \in -1 .. MaxCap, pos < 0,
             Ends(n, "at", pos, {Faulty(Begin(str[n]), "before")})
      PROVE  GoodStep
  <2>1. PICK c : c = Faulty(Begin(str[n]), "before") OBVIOUS
  <2>2. c.fault = "before"
    <3>1. IsCall(Begin(str[n])) BY BeginIs, FineIs
    <3> QED BY <2>1, <3>1 DEF Faulty, IsCall
  <2>3. Served(n, "at", pos, c) BY <1>1, <2>2 DEF Served, Astray
  <2> QED BY <1>1, <2>1, <2>3, EndsGood
<1>2. ASSUME NEW pos \in -1 .. MaxCap,
             Ends(n, "at", pos, {[Begin(str[n]) EXCEPT !.err = @ \/ pos >= str[n].size]})
      PROVE  GoodStep
  <2>1. PICK z, B, c, op, w, u : /\ z = Begin(str[n]) /\ B = Others(n) /\ op = "at" /\ w = Text(n)
                                 /\ c = [z EXCEPT !.err = @ \/ pos >= str[n].size]
                                 /\ u = ShownBy(c.str, c.mem)
    OBVIOUS
  <2>2. Fine(z, B) /\ z.str = str[n] /\ z.mem = mem /\ z.err = err /\ z.failures = 0 BY <2>1, BeginIs
  <2>3. ShownBy(z.str, z.mem) = w BY <2>1, <2>2, TextIs
  <2>4. IsCall(z) /\ z.fault = "none" BY <2>2, FineIs
  <2>5. /\ IsCall(c) /\ c.str = z.str /\ c.mem = z.mem /\ c.fault = z.fault /\ c.failures = 0
    BY <2>1, <2>2, <2>4 DEF IsCall
  <2>6. c.err = (err \/ pos >= str[n].size) BY <2>1, <2>2, <2>4, Zenon DEF IsCall
  <2>7. c.err \in BOOLEAN BY <2>6, Zenon
  <2>8. c.failures \in Nat BY <2>5
  <2>9. Does(z, c, B, w) BY <2>2, <2>3, <2>5, <2>7, <2>8, DoesNothing
  <2>10. Does(z, c, B, u) /\ u = w BY <2>1, <2>2, <2>9, CallHolds
  <2>11. c.fault = "none" BY <2>4, <2>5
  <2>12. InPlace(n, op, pos, c) BY <2>1 DEF InPlace
  <2>13. Len(Text(n)) = str[n].size BY TextIs
  <2>14. c.err = (err \/ pos >= Len(Text(n))) BY <2>6, <2>13, Zenon
  <2>15. Granted(n, op, pos, c) BY <2>1, <2>10, <2>14, Zenon DEF Granted
  <2>16. Served(n, op, pos, c) BY <2>1, <2>10, <2>11, <2>12, <2>15, Zenon DEF Served
  <2>17. Ends(n, op, pos, {c}) BY <1>2, <2>1
  <2> QED BY <2>16, <2>17, EndsGood
<1> QED BY <1>1, <1>2 DEF At

\* A block changes hands.
LEMMA HandedGood ==
  ASSUME StrInv, fault = "none", NEW n \in Names, NEW m \in Names, n # m, Unused(m),
         str' = [str EXCEPT ![m] = str[n], ![n] = NullStr], mem' = mem, view' = view,
         err' \in BOOLEAN, err' => err, failures' = 0, fault' = "none",
         call' = [op |-> "move", on |-> m, arg |-> Text(n)]
  PROVE  GoodStep
<1>1. DOMAIN str = Names BY DEF StrInv
<1>2. /\ DOMAIN str' = Names /\ str'[m] = str[n] /\ str'[n] = NullStr
      /\ \A k \in Names \ {n, m} : str'[k] = str[k]
  BY <1>1
<1>3. /\ IsMem(mem) /\ IsRange(mem, view) /\ (\A k \in Names : IsStr(str[k], mem))
      /\ DOMAIN mem = UNION {Blocks(str[k]) : k \in Names}
      /\ \A k, l \in Names : k # l => Blocks(str[k]) \intersect Blocks(str[l]) = {}
  BY DEF StrInv
<1>4. str[m] = NullStr BY UnusedIs
<1>5. Blocks(NullStr) = {} /\ IsStr(NullStr, mem) BY DEF Blocks, NullStr, IsStr
<1>6. /\ Blocks(str'[m]) = Blocks(str[n]) /\ Blocks(str'[n]) = {} /\ Blocks(str[m]) = {}
      /\ \A k \in Names \ {n, m} : Blocks(str'[k]) = Blocks(str[k])
  BY <1>2, <1>4, <1>5
<1>7. StrInv'
  <2>1. \A k \in Names : IsStr(str'[k], mem') BY <1>2, <1>3, <1>5
  <2>2. UNION {Blocks(str'[k]) : k \in Names} = UNION {Blocks(str[k]) : k \in Names}
    <3>1. ASSUME NEW d, NEW k \in Names, d \in Blocks(str'[k])
          PROVE  \E l \in Names : d \in Blocks(str[l])
      BY <1>6, <3>1
    <3>2. ASSUME NEW d, NEW k \in Names, d \in Blocks(str[k])
          PROVE  \E l \in Names : d \in Blocks(str'[l])
      <4>1. CASE k = n BY <1>6, <3>2, <4>1
      <4>2. CASE k # n
        <5>1. k # m BY <1>6, <3>2
        <5> QED BY <1>6, <3>2, <4>2, <5>1
      <4> QED BY <4>1, <4>2
    <3> QED BY <3>1, <3>2
  <2>3. ASSUME NEW k \in Names, NEW l \in Names, k # l
        PROVE  Blocks(str'[k]) \intersect Blocks(str'[l]) = {}
    <3>1. CASE k = n \/ l = n BY <1>6, <3>1
    <3>2. CASE k # n /\ l # n
      <4>1. CASE k = m BY <1>3, <1>6, <2>3, <3>2, <4>1
      <4>2. CASE l = m BY <1>3, <1>6, <2>3, <3>2, <4>2
      <4>3. CASE k # m /\ l # m BY <1>3, <1>6, <2>3, <3>2, <4>3
      <4> QED BY <4>1, <4>2, <4>3
    <3> QED BY <3>1, <3>2
  <2>4. IsMem(mem') /\ IsRange(mem', view') BY <1>3
  <2>5. DOMAIN mem' = UNION {Blocks(str'[k]) : k \in Names} BY <1>3, <2>2
  <2> QED BY <1>2, <2>1, <2>3, <2>4, <2>5 DEF StrInv
<1>8. call'.op = "move" /\ call'.on = m /\ call'.arg = Text(n) OBVIOUS
<1>9. StepInMemory BY DEF StepInMemory
<1>10. StepViewed
  <2>1. Shown' = Shown BY DEF Shown, Characters, Memory
  <2> QED BY <2>1 DEF StepViewed
<1>11. StepPromised
  <2>1. Text(m)' = Text(n) BY <1>2 DEF Text
  <2>2. Text(n)' = <<>> BY <1>2 DEF Text, NullStr
  <2>3. \A k \in Names \ {n, m} : Text(k)' = Text(k) BY <1>2 DEF Text
  <2>4. [k \in Names |-> Text(k)]' = [[k \in Names |-> Text(k)] EXCEPT ![m] = Text(n), ![n] = <<>>]
    BY <2>1, <2>2, <2>3
  <2>5. [k \in Names |-> Text(k)][n] = Text(n) OBVIOUS
  <2>6. Promise!Move(n, m) BY <1>8, <2>4, <2>5, Zenon DEF Promise!Move
  <2>7. n \in Names \ {m} OBVIOUS
  <2>8. Promise!Next BY <1>8, <2>6, <2>7, Zenon DEF Promise!Next
  <2> QED BY <2>8 DEF StepPromised
<1> QED BY <1>7, <1>9, <1>10, <1>11 DEF GoodStep

\* Moving a string to another name is a good step.
LEMMA MoveGood ==
  ASSUME StrInv, fault = "none", NEW n \in Names, NEW m \in Names, Move(n, m)
  PROVE  GoodStep
<1>1. err \in BOOLEAN BY DEF StrInv
<1>2. err' \in BOOLEAN /\ (err' => err) BY <1>1, Zenon DEF Move
<1>3. /\ n # m /\ Unused(m) /\ str' = [str EXCEPT ![m] = str[n], ![n] = NullStr]
      /\ mem' = mem /\ view' = view /\ failures' = 0 /\ fault' = "none"
      /\ call' = [op |-> "move", on |-> m, arg |-> Text(n)]
  BY DEF Move
<1> QED BY <1>2, <1>3, HandedGood

\* Making a new string of another is a good step.
LEMMA NewGood ==
  ASSUME StrInv, fault = "none", NEW n \in Names, NEW m \in Names, New(n, m)
  PROVE  GoodStep
<1>1. n # m /\ Unused(m) BY DEF New
<1>2. ASSUME Ends(m, "new", Text(n), {Faulty(OutOfMemory(Begin(NullStr)), "null")})
      PROVE  GoodStep
  <2>1. PICK z, c, t, op : /\ z = Begin(NullStr) /\ t = Text(n) /\ op = "new"
                           /\ c = Faulty(OutOfMemory(z), "null")
    OBVIOUS
  <2>2. c.fault = "null" /\ c.failures = 1 BY <2>1 DEF Begin, OutOfMemory, Faulty
  <2>3. Astray(m, op, t, c) BY <2>1, <2>2 DEF Astray
  <2>4. c.fault # "none" BY <2>2
  <2>5. Served(m, op, t, c) BY <2>3, <2>4, Zenon DEF Served
  <2>6. Ends(m, op, t, {c}) BY <1>2, <2>1
  <2> QED BY <2>5, <2>6, EndsGood
<1>3. ASSUME Ends(m, "new", Text(n), CreateFrom(Begin(NullStr), Memory(str[n])))
      PROVE  GoodStep
  BY <1>1, <1>3, CopiedGood
<1>4. ASSUME str' = [str EXCEPT ![m] = str[n], ![n] = NullStr],
             failures' = 0 /\ fault' = "none" /\ err' = FALSE,
             call' = [op |-> "move", on |-> m, arg |-> Text(n)],
             UNCHANGED <<mem, view>>
      PROVE  GoodStep
  <2>1. err' \in BOOLEAN /\ (err' => err) BY <1>4
  <2> QED BY <1>1, <1>4, <2>1, HandedGood
<1> QED BY <1>2, <1>3, <1>4, Zenon DEF New

\* Taking a view of a string is a good step.
LEMMA TakeViewGood ==
  ASSUME StrInv, fault = "none", NEW n \in Names, TakeView(n)
  PROVE  GoodStep
<1>1. /\ view' = [data |-> str[n].data, size |-> str[n].size]
      /\ failures' = 0 /\ call' = [op |-> "keep", on |-> n, arg |-> <<>>]
      /\ str' = str /\ mem' = mem /\ err' = err /\ fault' = fault
  BY DEF TakeView
<1>2. StrInv'
  <2>1. IsStr(str[n], mem) BY DEF StrInv
  <2>2. /\ view'.data = str[n].data /\ view'.size = str[n].size
        /\ view' \in [data : Block \union {Null}, size : Nat]
    BY <1>1, <2>1 DEF IsStr
  <2>3. IsRange(mem', view') BY <1>1, <2>1, <2>2 DEF IsStr, IsRange
  <2>4. err' \in BOOLEAN BY <1>1, Zenon DEF StrInv
  <2> QED BY <1>1, <2>3, <2>4 DEF StrInv
<1>3. StepInMemory BY <1>1 DEF StepInMemory
<1>4. StepViewed BY <1>1 DEF StepViewed
<1>5. StepPromised
  <2>1. call'.op = "keep" /\ call'.on = n /\ call'.arg = <<>> BY <1>1
  <2>2. PICK op, arg : op = "keep" /\ arg = <<>> OBVIOUS
  <2>3. Promise!Outcome(op, [k \in Names |-> Text(k)][n], arg) = [k \in Names |-> Text(k)][n]
    BY <2>2, OutcomeIs
  <2>4. [k \in Names |-> Text(k)]' = [k \in Names |-> Text(k)] BY <1>1 DEF Text
  <2>5. [k \in Names |-> Text(k)]' =
          [[k \in Names |-> Text(k)] EXCEPT
             ![n] = Promise!Outcome(call'.op, [k \in Names |-> Text(k)][n], call'.arg)]
    BY <2>1, <2>2, <2>3, <2>4
  <2>6. err' => err BY <1>1
  <2>7. Promise!Done(n) BY <2>5, <2>6, Zenon DEF Promise!Done
  <2>8. call'.op # "at" BY <2>1
  <2>9. Promise!Next BY <2>1, <2>7, <2>8, Zenon DEF Promise!Next
  <2> QED BY <2>9 DEF StepPromised
<1> QED BY <1>2, <1>3, <1>4, <1>5 DEF GoodStep

\* Every call.
LEMMA CallsGood ==
  ASSUME StrInv, Next
  PROVE  GoodStep
<1>1. fault = "none" BY DEF Next
<1>2. PICK n \in Names :
        \/ Create(n) \/ Assign(n) \/ AppendTo(n) \/ PushBackTo(n) \/ ReserveIn(n)
        \/ Shrink(n) \/ ClearIt(n) \/ DestroyIt(n) \/ Fill(n) \/ At(n) \/ TakeView(n)
        \/ \E m \in Names : Copy(n, m) \/ Move(n, m) \/ New(n, m)
  BY DEF Next
<1>3. CASE Create(n) BY <1>1, <1>3, CreateGood
<1>4. CASE Assign(n) BY <1>1, <1>4, AssignGood
<1>5. CASE AppendTo(n) BY <1>1, <1>5, AppendGood
<1>6. CASE PushBackTo(n) BY <1>1, <1>6, PushBackGood
<1>7. CASE ReserveIn(n) BY <1>1, <1>7, ReserveGood
<1>8. CASE Shrink(n) BY <1>1, <1>8, ShrinkGood
<1>9. CASE ClearIt(n) \/ DestroyIt(n) BY <1>1, <1>9, ClearGood
<1>10. CASE Fill(n) BY <1>1, <1>10, FillGood
<1>11. CASE At(n) BY <1>1, <1>11, AtGood
<1>12. CASE TakeView(n) BY <1>1, <1>12, TakeViewGood
<1>13. ASSUME NEW m \in Names, Copy(n, m) \/ Move(n, m) \/ New(n, m) PROVE GoodStep
  <2>1. CASE Copy(n, m) BY <1>1, <2>1, CopyGood
  <2>2. CASE Move(n, m) BY <1>1, <2>2, MoveGood
  <2>3. CASE New(n, m) BY <1>1, <2>3, NewGood
  <2> QED BY <1>13, <2>1, <2>2, <2>3
<1> QED BY <1>2, <1>3, <1>4, <1>5, <1>6, <1>7, <1>8, <1>9, <1>10, <1>11, <1>12, <1>13

\* There are no strings and no blocks at first.
LEMMA StrInitially == Init => StrInv
<1> SUFFICES ASSUME Init PROVE StrInv OBVIOUS
<1>1. DOMAIN str = Names /\ \A n \in Names : str[n] = NullStr BY DEF Init
<1>2. mem = <<>> /\ view = NullView /\ err = FALSE BY DEF Init
<1>3. DOMAIN mem = {} BY <1>2
<1>4. IsMem(mem) BY <1>3 DEF IsMem
<1>5. IsRange(mem, view) BY <1>2 DEF IsRange, NullView
<1>6. IsStr(NullStr, mem) /\ Blocks(NullStr) = {} BY DEF IsStr, Blocks, NullStr
<1>7. DOMAIN mem = UNION {Blocks(str[n]) : n \in Names} BY <1>1, <1>3, <1>6
<1> QED BY <1>1, <1>2, <1>4, <1>5, <1>6, <1>7 DEF StrInv

\* The other parts leave the strings as they are.
LEMMA AnyStep ==
  ASSUME StrInv, [AnyNext /\ UNCHANGED part]_everything
  PROVE  StrInv' /\ [StepInMemory]_vars /\ [StepViewed]_vars /\ [StepPromised]_vars
<1>1. CASE Next BY <1>1, CallsGood DEF GoodStep
<1>2. CASE vars' = vars
  <2>1. StrInv' BY <1>2 DEF vars, StrInv
  <2> QED BY <1>2, <2>1
<1>3. Next \/ vars' = vars BY DEF AnyNext, everything
<1> QED BY <1>1, <1>2, <1>3

\* EachBlockOwned from the invariant.
LEMMA OwnedIs == StrInv => EachBlockOwned
<1> SUFFICES ASSUME StrInv, fault = "none"
             PROVE  /\ DOMAIN mem = {str[n].data : n \in Names} \ {Null}
                    /\ \A n, m \in Names : n # m /\ str[n].data = str[m].data => str[n].data = Null
                    /\ \A n \in Names : str[n].data # Null =>
                         {str[n].size, str[n].capacity} \subseteq 0 .. Len(mem[str[n].data])
  BY DEF EachBlockOwned
<1>1. /\ IsMem(mem) /\ (\A k \in Names : IsStr(str[k], mem))
      /\ DOMAIN mem = UNION {Blocks(str[k]) : k \in Names}
      /\ \A k, l \in Names : k # l => Blocks(str[k]) \intersect Blocks(str[l]) = {}
  BY DEF StrInv
<1>2. DOMAIN mem = {str[n].data : n \in Names} \ {Null} BY <1>1 DEF Blocks
<1>3. \A n, m \in Names : n # m /\ str[n].data = str[m].data => str[n].data = Null
  BY <1>1 DEF Blocks
<1>4. ASSUME NEW n \in Names, str[n].data # Null
      PROVE  {str[n].size, str[n].capacity} \subseteq 0 .. Len(mem[str[n].data])
  <2>1. PICK s, p, l : s = str[n].size /\ p = str[n].capacity /\ l = Len(mem[str[n].data]) OBVIOUS
  <2>2. str[n].data \in DOMAIN mem /\ s \in Nat /\ p \in Nat /\ s <= l /\ p <= l
    BY <1>1, <1>4, <2>1 DEF IsStr
  <2>3. l \in Nat BY <1>1, <2>1, <2>2, SizedIs DEF IsMem
  <2>4. s \in 0 .. l /\ p \in 0 .. l BY <2>2, <2>3
  <2> QED BY <2>1, <2>4
<1> QED BY <1>2, <1>3, <1>4

\* The invariant of the strings holds in every reachable state.
LEMMA StrAlways == AnySpec => []StrInv
<1>1. AnyInit => StrInv BY StrInitially DEF AnyInit
<1>2. StrInv /\ [AnyNext /\ UNCHANGED part]_everything => StrInv' BY AnyStep
<1> QED BY <1>1, <1>2, PTL DEF AnySpec

(***************************************************************************)
(* Under any pattern of failing allocations, and however blocks move, the  *)
(* allocated blocks are those of the strings, one each, and as long as     *)
(* these believe (uga_str.c and uga_alloc.c).                              *)
(***************************************************************************)
THEOREM StringsOwn == AnySpec => []EachBlockOwned
<1>1. StrInv => EachBlockOwned BY OwnedIs
<1> QED BY <1>1, StrAlways, PTL

(***************************************************************************)
(* No call of uga_str touches memory that is not its own but a push_back   *)
(* or a new that was refused memory, a push_back to a string whose size    *)
(* has gone beyond its capacity, an append of a string to itself, and a    *)
(* look at a negative index.                                               *)
(***************************************************************************)
THEOREM StringsInMemory == AnySpec => StaysInMemory
<1>1. StrInv /\ [AnyNext /\ UNCHANGED part]_everything => [StepInMemory]_vars BY AnyStep
<1> QED BY <1>1, StrAlways, PTL DEF AnySpec, StaysInMemory, StepInMemory

(***************************************************************************)
(* A view over a string shows the same characters after every append the   *)
(* capacity has room for and every call on another string.                 *)
(***************************************************************************)
THEOREM StringsViewed == AnySpec => ViewsSurvive
<1>1. StrInv /\ [AnyNext /\ UNCHANGED part]_everything => [StepViewed]_vars BY AnyStep
<1> QED BY <1>1, StrAlways, PTL DEF AnySpec, ViewsSurvive, StepViewed

(***************************************************************************)
(* uga_str implements StrSpec: a call without an error did what its name   *)
(* says and one with an error left its string alone, save where            *)
(* ImplementsText names the calls that do not look at the error.           *)
(***************************************************************************)
THEOREM StringsImplement == AnySpec => ImplementsText
<1>1. AnyInit => Promise!Init
  <2> SUFFICES ASSUME Init PROVE Promise!Init BY DEF AnyInit
  <2>1. \A n \in Names : str[n] = NullStr BY DEF Init
  <2>2. [n \in Names |-> Text(n)] = [n \in Names |-> <<>>] BY <2>1 DEF Text, NullStr
  <2>3. err = FALSE /\ (failures > 0) = FALSE /\ call.op = "none" BY DEF Init
  <2> QED BY <2>2, <2>3, Zenon DEF Promise!Init
<1>2. StrInv /\ [AnyNext /\ UNCHANGED part]_everything => [StepPromised]_vars BY AnyStep
<1> QED BY <1>1, <1>2, StrAlways, PTL DEF AnySpec, ImplementsText, StepPromised
=============================================================================
