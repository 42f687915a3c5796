------------------------------- MODULE Strings -------------------------------
(***************************************************************************)
(* The text modules of the core library side by side: strings (Str), views *)
(* (StrView) and the command line parser (Cli).  A behaviour is about one  *)
(* of them, `part' says which; the variables of the others keep the value  *)
(* they began with.  Str has a client's view over a string of its own;     *)
(* what StrView takes apart is a text that stays where it is.              *)
(***************************************************************************)
EXTENDS Str

CONSTANTS Alphabets, MaxLen, Delimiter, Digit, ToLower, Width,        \* of StrView
          Flags, Valued, Unknown, Default, Values, True, End, ArgLen, MaxItems   \* of Cli

VARIABLES part,
          text, this, last, split, sv_err,                            \* of StrView
          items, value, parsed_args, state, words, attached, given, cli_err   \* of Cli

V == INSTANCE StrView WITH err <- sv_err
C == INSTANCE Cli WITH err <- cli_err

ASSUME StringsConstants == V!StrViewConstants /\ C!CliConstants

viewing    == <<text, this, last, split, sv_err>>
parsing    == <<items, value, parsed_args, state, words, attached, given, cli_err>>
everything == <<vars, part, viewing, parsing>>

AnyInit ==
  /\ Init
  /\ \/ part = "string" /\ V!InitOver({<<>>}) /\ C!InitWith({<<>>}) /\ ~cli_err
     \/ part = "view"   /\ V!Init            /\ C!InitWith({<<>>}) /\ ~cli_err
     \/ part = "cli"    /\ V!InitOver({<<>>}) /\ C!Init

AnyNext ==
  \/ part = "string" /\ Next   /\ UNCHANGED <<viewing, parsing>>
  \/ part = "view"   /\ V!Next /\ UNCHANGED <<vars, parsing>>
  \/ part = "cli"    /\ C!Next /\ UNCHANGED <<vars, viewing>>

AnySpec == AnyInit /\ [][AnyNext /\ UNCHANGED part]_everything

-----------------------------------------------------------------------------
(***************************************************************************)
(* However a client chops, trims and puts back what it chopped, its view   *)
(* and the pieces it got lie within the text they were taken from.  A chop *)
(* cuts the view in two, a trim takes off all the blanks at its ends and   *)
(* nothing else, and chopping a text up at a delimiter loses and invents   *)
(* nothing: the pieces joined by it are what has been consumed.  This      *)
(* holds until the client passes a negative count or index or asks for the *)
(* last character of an empty view: these no function refuses.             *)
(***************************************************************************)
Viewing == part = "view" /\ last.op # "astray"

CutsText == Viewing => V!StaysInText /\ V!CutsInTwo /\ V!SplitJoins

(***************************************************************************)
(* Views are what their characters are: two that overlap, or are the same, *)
(* compare as these do, whether or not the short cut by pointer is taken,  *)
(* and uga_sv_parse_int gives the number they denote, exactly if an i64_t  *)
(* can hold it and modulo its width if not; for views as above.            *)
(***************************************************************************)
ReadsAsText == Viewing => V!ComparesCharacters /\ V!ParsesNumber

(***************************************************************************)
(* README's parsing loop: putting back what was chopped restores the view. *)
(***************************************************************************)
UnchopRestores == V!UnchopRestores

(***************************************************************************)
(* Putting back what was chopped restores the view, if the chop threw no   *)
(* delimiter away and left something of the view.                          *)
(***************************************************************************)
UnchopUndoes == V!UnchopUndoes

(***************************************************************************)
(* Each option shows what it was given last, or that with the tail of      *)
(* something longer behind it; the words are counted and -1 is an error.   *)
(***************************************************************************)
ParsesArgs == part = "cli" => C!ParsesArgs
=============================================================================
