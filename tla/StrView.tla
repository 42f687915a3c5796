------------------------------- MODULE StrView -------------------------------
(***************************************************************************)
(* uga_strview: a view is a pointer into a text somebody else owns and a   *)
(* size.  `this' is a view a client takes apart piece by piece; pointers   *)
(* are offsets from the beginning of the text, as in C they count from 0.  *)
(* The functions that only answer a question are operators on a view.      *)
(*                                                                         *)
(* One step is one call.  The client is the parsing loop of README: what   *)
(* it puts back with unchop is what the call before chopped off.  A call   *)
(* that takes the view, or reads, where it may be no text any more goes    *)
(* astray and is the last one.                                             *)
(***************************************************************************)
EXTENDS Integers, SequencesExt

CONSTANTS Alphabets,  \* sets of characters; a text is made of one of them
          MaxLen,     \* bound: length of the text
          Delimiter,  \* the character pieces are separated by
          Digit,      \* the value of the digits among the characters
          ToLower,    \* tolower(3): lower case of the letters among them
          Width       \* bits of an i64_t

\* What the constants have to satisfy; Strings assumes it.
StrViewConstants ==
  /\ MaxLen \in Nat /\ Width \in Nat \ {0}
  /\ \A c \in DOMAIN Digit : Digit[c] \in 0 .. 9

VARIABLES text,   \* the characters viewed
          this,   \* the client's view: data and size
          err,    \* uga_had_errs()
          last,   \* history: the call that chopped: [op, before, piece]
          split   \* history: the pieces chop_to_delimiter made of the text so far

vars == <<text, this, err, last, split>>

View(data, size) == [data |-> data, size |-> size]

Nothing == View(-1, 0)   \* uga_sv_create_0: a null pointer

\* uga_sv_empty; the client's view never is the null pointer.
Empty(v) == v.size = 0

\* data[ i ]
Char(v, i) == text[v.data + i + 1]

Characters(v) == SubSeq(text, v.data + 1, v.data + v.size)

InitOver(texts) ==
  /\ text \in texts
  /\ this = View(0, Len(text))
  /\ err = FALSE
  /\ last = [op |-> "none", before |-> this, piece |-> Nothing]
  /\ split = [going |-> TRUE, pieces |-> <<>>]

Init == InitOver(UNION {BoundedSeq(alphabet, MaxLen) : alphabet \in Alphabets})

-----------------------------------------------------------------------------
(* Comparing.  `aliased': both views point into the same text, so that     *)
(* equal pointers mean equal offsets.                                      *)

Lower(c) == IF c \in DOMAIN ToLower THEN ToLower[c] ELSE c

\* `fold': in the _insensitive functions.
Same(a, b, fold) == IF fold THEN Lower(a) = Lower(b) ELSE a = b

\* for( i = 0; i < size; ++i ) if( this.data[ start + i ] != other.data[ i ] ) return 0
Matches(v, start, w, fold) == \A i \in 0 .. w.size - 1 : Same(Char(v, start + i), Char(w, i), fold)

Equal(v, w, aliased, fold) ==
  /\ v.size = w.size
  /\ (aliased /\ v.data = w.data) \/ Matches(v, 0, w, fold)

StartsWith(v, w, aliased, fold) ==
  /\ v.size >= w.size
  /\ (aliased /\ v.data = w.data) \/ Matches(v, 0, w, fold)

\* Mutant: the short cut compares the beginnings.
EndsWithShortcut(v, w, aliased, fold) ==
  /\ v.size >= w.size
  /\ LET start == v.size - w.size IN
       (aliased /\ v.data = w.data) \/ Matches(v, start, w, fold)

EndsWith(v, w, aliased, fold) ==
  /\ v.size >= w.size
  /\ LET start == v.size - w.size IN
       (aliased /\ v.data + start = w.data) \/ Matches(v, start, w, fold)

-----------------------------------------------------------------------------
(* Trimming, cutting, searching, parsing. *)

Blank(c) == c \in {" ", "\t"}

\* How many characters the loop takes off before it stops, or leaves.
TrimLeft(v) ==
  LET left == Min({k \in 0 .. v.size : k = v.size \/ ~Blank(Char(v, k))}) IN
    View(v.data + left, v.size - left)

TrimRight(v) ==
  View(v.data, Max({k \in 0 .. v.size : k = 0 \/ ~Blank(Char(v, k - 1))}))

Trim(v) == TrimRight(TrimLeft(v))

\* Nothing is what one gets for a piece that reaches the end, too.
Substr(v, start, len) ==
  IF start >= v.size \/ start + len >= v.size THEN Nothing ELSE View(v.data + start, len)

\* The index the loop over the characters stops at.
IndexOf(v, c) == Min({i \in 0 .. v.size : i = v.size \/ Char(v, i) = c})

Count(v, c) == Cardinality({i \in 0 .. v.size - 1 : Char(v, i) = c})

\* Two's complement; the overflow of a signed integer, undefined in C, wraps
\* in the unoptimised build of the Makefile.
TwoTo[k \in 0 .. Width] == IF k = 0 THEN 1 ELSE 2 * TwoTo[k - 1]

Wrap(n) == ((n + TwoTo[Width - 1]) % TwoTo[Width]) - TwoTo[Width - 1]

ParseInt(v) ==
  LET digits == Trim(v)
      pos    == IF ~Empty(digits) /\ Char(digits, 0) \in {"+", "-"} THEN 1 ELSE 0
      sign   == IF ~Empty(digits) /\ Char(digits, 0) = "-" THEN -1 ELSE 1
      stop   == Min({i \in pos .. digits.size :
                       i = digits.size \/ Char(digits, i) \notin DOMAIN Digit})
      val[i \in 0 .. stop - pos] ==
        IF i = 0 THEN 0 ELSE Wrap(val[i - 1] * 10 + Digit[Char(digits, pos + i - 1)]) IN
    Wrap(sign * val[stop - pos])

-----------------------------------------------------------------------------
(* The calls that change the view. *)

\* Reading a character within the view clears the error.
LooksAt(v) == err' = (err /\ Empty(v))

Becomes(v, op, piece) ==
  /\ this' = v
  /\ last' = [op |-> op, before |-> this, piece |-> piece]
  /\ UNCHANGED text

NoSplit == split' = [going |-> FALSE, pieces |-> <<>>]

TrimBlanks ==
  \E v \in {TrimLeft(this), TrimRight(this), Trim(this)} :
    Becomes(v, "trim", Nothing) /\ LooksAt(this) /\ NoSplit

\* A negative count is not looked at: the piece has a negative size, and the view
\* grows over what is beside it.
Chopped(count, op) == IF count < 0 THEN "astray" ELSE op

ChopLeft(count) ==
  LET n == Min({count, this.size}) IN
    /\ Becomes(View(this.data + n, this.size - n), Chopped(count, "chop_left"), View(this.data, n))
    /\ NoSplit /\ UNCHANGED err

ChopRight(count) ==
  LET n == Min({count, this.size}) IN
    /\ Becomes(View(this.data, this.size - n), Chopped(count, "chop_right"),
               View(this.data + this.size - n, n))
    /\ NoSplit /\ UNCHANGED err

\* Mutant: a delimiter that is the last character stays.
ChopToDelimiterLast(discard) ==
  LET n     == IndexOf(this, Delimiter)
      piece == View(this.data, n)
      skip  == IF discard /\ n < this.size - 1 THEN 1 ELSE 0 IN
    /\ ~Empty(this)
    /\ Becomes(View(this.data + n + skip, this.size - n - skip),
               IF discard THEN "discard" ELSE "chop_left", piece)
    /\ LooksAt(this)
    /\ IF discard /\ split.going
       THEN split' = [split EXCEPT !.pieces = Append(@, Characters(piece))]
       ELSE NoSplit

\* uga_sv_chop_to_delimiter
ChopToDelimiter(discard) ==
  LET n     == IndexOf(this, Delimiter)
      piece == View(this.data, n)
      skip  == IF discard /\ n < this.size THEN 1 ELSE 0 IN
    /\ ~Empty(this)
    /\ Becomes(View(this.data + n + skip, this.size - n - skip),
               IF discard THEN "discard" ELSE "chop_left", piece)
    /\ LooksAt(this)
    /\ IF discard /\ split.going
       THEN split' = [split EXCEPT !.pieces = Append(@, Characters(piece))]
       ELSE NoSplit

\* Mutant: the pointer goes back, the size stays.
UnchopLeftHalf(count) ==
  /\ last.op \in {"chop_left", "discard"} /\ ~Empty(this)
  /\ Becomes(View(this.data - count, this.size), "unchop", Nothing)
  /\ NoSplit /\ UNCHANGED err

\* Both do nothing to a view that is empty.
UnchopLeft(count) ==
  /\ last.op \in {"chop_left", "discard"}
  /\ Becomes(IF Empty(this) THEN this ELSE View(this.data - count, this.size + count),
             "unchop", Nothing)
  /\ NoSplit /\ UNCHANGED err

UnchopRight(count) ==
  /\ last.op = "chop_right"
  /\ Becomes(IF Empty(this) THEN this ELSE View(this.data, this.size + count), "unchop", Nothing)
  /\ NoSplit /\ UNCHANGED err

\* contains, index_of, count, parse_int and the trimmed copies clear the error
\* with the first character they look at.
Ask == LooksAt(this) /\ UNCHANGED <<text, this, last, split>>

\* uga_sv_at beyond the end, uga_sv_front of an empty view.
LookBeyond == err' = TRUE /\ UNCHANGED <<text, this, last, split>>

\* uga_sv_at of a negative index, which is no error; and uga_sv_back of an empty
\* view, which is one, and goes on to read data[ -1 ].
LookBefore ==
  /\ \/ err' = FALSE
     \/ Empty(this) /\ err' = TRUE
  /\ Becomes(this, "astray", Nothing)
  /\ NoSplit

Next ==
  /\ last.op # "astray"
  /\ \/ TrimBlanks
     \/ \E count \in -1 .. MaxLen : ChopLeft(count) \/ ChopRight(count)
     \/ \E discard \in BOOLEAN : ChopToDelimiter(discard)
     \/ UnchopLeft(last.piece.size)
     \/ UnchopRight(last.piece.size)
     \/ Ask
     \/ LookBeyond
     \/ LookBefore

Spec == Init /\ [][Next]_vars

-----------------------------------------------------------------------------
Windows == {View(data, size) : data \in 0 .. Len(text), size \in 0 .. Len(text)}

InText(v) == v.data >= 0 /\ v.size >= 0 /\ v.data + v.size <= Len(text)

(***************************************************************************)
(* However a client chops, trims and puts back what it chopped, its view   *)
(* and the pieces it got lie within the text they were taken from: no      *)
(* character before or behind it is ever read through them.  A substring   *)
(* asked for lies within the view.  This is so as long as no count, start  *)
(* or length is negative, which no function looks for.                     *)
(***************************************************************************)
StaysInText ==
  /\ InText(this)
  /\ last.piece # Nothing => InText(last.piece)
  /\ \A start, len \in -1 .. MaxLen :
       LET piece == Substr(this, start, len) IN
         \/ piece = Nothing
         \/ piece.data >= this.data /\ piece.data + piece.size <= this.data + this.size
         \/ start < 0 \/ len < 0

(***************************************************************************)
(* README: a line that could not be parsed is put back with                *)
(* uga_sv_unchop_left( &view, line.size ), to be chopped off again.        *)
(* Putting back what the call before chopped off restores the view.        *)
(***************************************************************************)
UnchopRestores ==
  [][UnchopLeft(last.piece.size) \/ UnchopRight(last.piece.size) => this' = last.before]_vars

(***************************************************************************)
(* It does for a chop that threw no delimiter away and left something of   *)
(* the view, at either end and wherever the view begins in the text.       *)
(***************************************************************************)
UnchopUndoes ==
  [][/\ UnchopLeft(last.piece.size) \/ UnchopRight(last.piece.size)
     /\ last.op # "discard" /\ ~Empty(this)
     => this' = last.before]_vars

(***************************************************************************)
(* Chopping a text up at a delimiter loses and invents nothing: the pieces *)
(* hold no delimiter, and joined by it they are what has been consumed.  A *)
(* delimiter at the very end makes no last, empty piece, so there are as   *)
(* many pieces as delimiters or one more.                                  *)
(***************************************************************************)
Joined(pieces) ==
  LET joined[k \in 0 .. Len(pieces)] ==
        IF k = 0 THEN <<>> ELSE joined[k - 1] \o pieces[k] \o <<Delimiter>> IN
    joined[Len(pieces)]

SplitJoins ==
  split.going =>
    LET consumed == SubSeq(text, 1, this.data) IN
      /\ \A k \in DOMAIN split.pieces : ~Contains(split.pieces[k], Delimiter)
      /\ \/ consumed = Joined(split.pieces)
         \/ Empty(this) /\ consumed \o <<Delimiter>> = Joined(split.pieces)
      /\ Empty(this) =>
           /\ consumed = text
           /\ Len(split.pieces) - Count(View(0, Len(text)), Delimiter) =
                (IF text = <<>> \/ text[Len(text)] = Delimiter THEN 0 ELSE 1)

(***************************************************************************)
(* A chop cuts the view in two: the piece and what is left, in the order   *)
(* of the text, are what the view showed (with the delimiter between them  *)
(* when it was thrown away).  Trimming takes off blanks, all of them at    *)
(* the ends it trims, and nothing else.                                    *)
(***************************************************************************)
CutsInTwo ==
  LET old == Characters(last.before) new == Characters(this) piece == Characters(last.piece) IN
    CASE last.op = "chop_left"  -> old = piece \o new
      [] last.op = "chop_right" -> old = new \o piece
      [] last.op = "discard"    -> old \in {piece \o new, piece \o <<Delimiter>> \o new}
      [] last.op = "trim"       ->
           /\ \E i, k \in 0 .. Len(old) :
                /\ new = SubSeq(old, i + 1, k)
                /\ \A j \in 1 .. i : Blank(old[j])
                /\ \A j \in k + 1 .. Len(old) : Blank(old[j])
           /\ LET both == Characters(Trim(last.before)) IN
                both # <<>> => ~Blank(both[1]) /\ ~Blank(both[Len(both)])
      [] OTHER -> TRUE

(***************************************************************************)
(* The comparisons ask about characters, not about pointers: comparing     *)
(* views of the same text, where the short cut by pointer may apply, gives *)
(* the same answer as comparing copies, and it is the right one.           *)
(***************************************************************************)
LowerCase(s) == [k \in DOMAIN s |-> Lower(s[k])]

ComparesCharacters ==
  \A w \in {x \in Windows : InText(x)}, aliased \in BOOLEAN :
    LET s == Characters(this) t == Characters(w) IN
      /\ Equal(this, w, aliased, FALSE) <=> s = t
      /\ StartsWith(this, w, aliased, FALSE) <=> IsPrefix(t, s)
      /\ EndsWith(this, w, aliased, FALSE) <=> IsSuffix(t, s)
      /\ Equal(this, w, aliased, TRUE) <=> LowerCase(s) = LowerCase(t)
      /\ StartsWith(this, w, aliased, TRUE) <=> IsPrefix(LowerCase(t), LowerCase(s))
      /\ EndsWith(this, w, aliased, TRUE) <=> IsSuffix(LowerCase(t), LowerCase(s))

(***************************************************************************)
(* uga_sv_parse_int gives the number that stands at the beginning of the   *)
(* view, behind blanks and a sign, modulo 2^64: exactly that number        *)
(* whenever an i64_t can hold it, the least one included, whose digits     *)
(* alone no i64_t holds.                                                   *)
(***************************************************************************)
Denoted(s) ==
  LET n == Max({k \in 0 .. Len(s) : \A j \in 1 .. k : s[j] \in DOMAIN Digit})
      number[k \in 0 .. n] == IF k = 0 THEN 0 ELSE number[k - 1] * 10 + Digit[s[k]] IN
    number[n]

ParsesNumber ==
  LET s == Characters(Trim(this))
      n == IF s # <<>> /\ Head(s) = "-" THEN -Denoted(Tail(s))
           ELSE IF s # <<>> /\ Head(s) = "+" THEN Denoted(Tail(s)) ELSE Denoted(s) IN
    /\ (ParseInt(this) - n) % TwoTo[Width] = 0
    /\ ParseInt(this) \in -TwoTo[Width - 1] .. TwoTo[Width - 1] - 1
=============================================================================
