--------------------------------- MODULE Cli ---------------------------------
(***************************************************************************)
(* uga_cli_parse_args: a loop over getopt(3) that copies each value to the *)
(* array of its option.  One step is one turn of the loop.  What getopt    *)
(* finds is a sequence of items: an option, its value if it takes one, and *)
(* whether the value is a word of its own.  A value fits its array with    *)
(* the NUL that ends it; the code does not check.  Memory for the string   *)
(* of options getopt wants is taken to be there.                           *)
(***************************************************************************)
EXTENDS Integers, SequencesExt

CONSTANTS Flags,      \* options without a value
          Valued,     \* options with one
          Unknown,    \* a letter that is no option
          Default,    \* what the client put into each array before
          Values,     \* values on the command line
          True,       \* the text "true"
          End,        \* NUL
          ArgLen,     \* UGA_CLI_ARG_LEN
          MaxItems    \* bound: items on the command line

Options == Flags \union Valued

\* What the constants have to satisfy; Strings assumes it.
CliConstants ==
  /\ ArgLen \in Nat /\ MaxItems \in Nat
  /\ \A text \in Values \union {True} \union {Default[o] : o \in Options} :
       text \in Seq(Range(text)) /\ Len(text) < ArgLen /\ ~Contains(text, End)

VARIABLES items,        \* what getopt has not looked at yet
          value,        \* the array of each option
          parsed_args,  \* what is to be returned
          state,        \* "called", "parsing", "done" or "failed"
          err,          \* uga_had_errs()
          words,        \* history: words of the command line gone through
          attached,     \* history: a value was attached to its option
          given         \* history: the texts each option was given, the default first

vars == <<items, value, parsed_args, state, err, words, attached, given>>

Item == [option : Flags \union {Unknown}, text : {<<>>}, own : {FALSE}]
          \union [option : Valued, text : Values, own : BOOLEAN]

InitWith(commands) ==
  /\ items \in commands
  /\ value = [o \in Options |-> Default[o] \o [k \in 1 .. ArgLen - Len(Default[o]) |-> End]]
  /\ parsed_args = 0 /\ state = "called" /\ err \in BOOLEAN
  /\ words = 0 /\ attached = FALSE
  /\ given = [o \in Options |-> <<Default[o]>>]

Init == InitWith(BoundedSeq(Item, MaxItems))

\* The string of options is built; allocating it clears the error.
BuildOptions ==
  /\ state = "called"
  /\ state' = "parsing" /\ err' = FALSE
  /\ UNCHANGED <<items, value, parsed_args, words, attached, given>>

\* Mutant: the array is not written beyond what is in it.
CopyWithin(o, text) ==
  value' = [value EXCEPT ![o] = [k \in DOMAIN @ |->
              IF k <= Len(text) /\ @[k] # End THEN text[k] ELSE @[k]]]

\* memcpy( value, text, strlen( text ) ): the NUL is not copied.
Copy(o, text) ==
  value' = [value EXCEPT ![o] = [k \in DOMAIN @ |-> IF k <= Len(text) THEN text[k] ELSE @[k]]]

Took(o, text, n) ==
  /\ given' = [given EXCEPT ![o] = Append(@, text)]
  /\ words' = words + n
  /\ items' = Tail(items)
  /\ UNCHANGED <<state, err>>

ParseValue ==
  LET item == Head(items) IN
    /\ item.option \in Valued
    /\ Copy(item.option, item.text)
    /\ parsed_args' = parsed_args + 2
    /\ Took(item.option, item.text, IF item.own THEN 2 ELSE 1)
    /\ attached' = (attached \/ ~item.own)

ParseFlag ==
  LET item == Head(items) IN
    /\ item.option \in Flags
    /\ Copy(item.option, True)
    /\ parsed_args' = parsed_args + 1
    /\ Took(item.option, True, 1)
    /\ UNCHANGED attached

\* getopt answers '?'.
ParseUnknown ==
  /\ Head(items).option = Unknown
  /\ state' = "failed" /\ err' = TRUE
  /\ UNCHANGED <<items, value, parsed_args, words, attached, given>>

Return ==
  /\ items = <<>>
  /\ state' = "done"
  /\ UNCHANGED <<err, items, value, parsed_args, words, attached, given>>

Next ==
  \/ BuildOptions
  \/ /\ state = "parsing"
     /\ \/ items # <<>> /\ (ParseValue \/ ParseFlag \/ ParseUnknown)
        \/ Return

Spec == Init /\ [][Next]_vars

-----------------------------------------------------------------------------
uga_cli_is_set(o) == value[o][1] # End

\* The characters before the first NUL.
uga_cli_get_val(o) == SubSeq(value[o], 1, Min({k \in DOMAIN value[o] : value[o][k] = End}) - 1)

(***************************************************************************)
(* After every item an option shows the text it was given last, unless a   *)
(* longer one was there before, the default or an earlier one, of which it *)
(* then keeps the tail; an option is set if it was ever given a text, a    *)
(* default included.  The count is that of the words read, as long as no   *)
(* value was attached to its option (-p80), and uga_had_errs tells whether *)
(* -1 was returned.                                                        *)
(***************************************************************************)
ParsesArgs ==
  /\ \A o \in Options :
       LET now  == Last(given[o])
           tail == uga_cli_get_val(o) IN
         /\ IsPrefix(now, tail)
         /\ (\A k \in DOMAIN given[o] : Len(given[o][k]) <= Len(now)) => tail = now
         /\ uga_cli_is_set(o) <=> \E k \in DOMAIN given[o] : given[o][k] # <<>>
  /\ ~attached => parsed_args = words
  /\ state # "called" => (err <=> state = "failed")
=============================================================================
