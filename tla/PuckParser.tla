------------------------------ MODULE PuckParser ------------------------------
(***************************************************************************)
(* The puck's command-line parser, src/native/msp430/puck/parser.c, with   *)
(* the puckCmds table of commands.c and main's dispatch of a line.         *)
(*                                                                         *)
(* A line is a sequence of one-character strings; the end of the C string  *)
(* ('\0') is the end of the sequence, and reading at or past it gives NUL. *)
(* The parser is pure, so it is checked against a reference definition    *)
(* over a bounded set of lines (Lines): every command name as written, in  *)
(* lower case, cut short or misspelt, with blanks before it and a blank   *)
(* and number, a name character or nothing after it.                       *)
(***************************************************************************)
EXTENDS Integers, Sequences

CONSTANT Lines          \* the lines the parser is checked on

NUL == "nul"
SP == " "
TAB == "tab"

Upper == {"A", "B", "C", "D", "E", "F", "G", "H", "I", "J", "K", "L", "M",
          "N", "O", "P", "Q", "R", "S", "T", "U", "V", "W", "X", "Y", "Z"}
Lower == {"a", "b", "c", "e", "h", "i", "k", "l", "m", "o", "p", "r", "t",
          "u", "y"}
Digits == {"0", "1", "2", "3", "4", "5", "6", "7", "8", "9"}

\* The characters at index k of s, NUL past its end.
At(s, k) == IF k \in 1 .. Len(s) THEN s[k] ELSE NUL

\* ctype's toupper on the lower-case letters the lines use.
UpperOf == [c \in Lower |->
              CASE c = "a" -> "A" [] c = "b" -> "B" [] c = "c" -> "C"
                [] c = "e" -> "E" [] c = "h" -> "H" [] c = "i" -> "I"
                [] c = "k" -> "K" [] c = "l" -> "L" [] c = "m" -> "M"
                [] c = "o" -> "O" [] c = "p" -> "P" [] c = "r" -> "R"
                [] c = "t" -> "T" [] c = "u" -> "U" [] c = "y" -> "Y"]
toupper(c) == IF c \in Lower THEN UpperOf[c] ELSE c

\* isvalid_name_char: isalnum(c) || c == '_'.
isvalid_name_char(c) == c \in Upper \cup Lower \cup Digits \cup {"_"}

\* skip(s, ignore): s without its leading characters that occur in ignore.
RECURSIVE skip(_, _)
skip(s, ignore) == IF s # <<>> /\ Head(s) \in ignore THEN skip(Tail(s), ignore) ELSE s

\* After a mismatch: the index where the option after the one starting at
\* r begins (the character after the next '|'), or 0 when ref ends first.
RECURSIVE NextOption(_, _)
NextOption(ref, r) ==
    CASE At(ref, r + 1) = NUL -> 0
      [] At(ref, r + 1) = "|" -> r + 2
      [] OTHER -> NextOption(ref, r + 1)

\* Mutant: a name that begins the line matches whatever follows it.
RECURSIVE MatchFrom_prefix(_, _, _, _)
MatchFrom_prefix(s, ref, r, n) ==
    IF toupper(At(ref, r + n)) # toupper(At(s, n + 1))
    THEN IF NextOption(ref, r) = 0 THEN 0
         ELSE MatchFrom_prefix(s, ref, NextOption(ref, r), 0)
    ELSE IF At(ref, r + n + 1) \in {NUL, "|"} THEN n + 1
    ELSE IF n + 1 < 40 THEN MatchFrom_prefix(s, ref, r, n + 1) ELSE n + 1
name_match_prefix(s, ref) == IF At(s, 1) = NUL THEN 0 ELSE MatchFrom_prefix(s, ref, 1, 0)

\* The do ... while (n < 40) loop of name_match: ref's current option
\* starts at r and n characters of it have matched s.
RECURSIVE MatchFrom(_, _, _, _)
MatchFrom(s, ref, r, n) ==
    IF toupper(At(ref, r + n)) # toupper(At(s, n + 1))
    THEN IF NextOption(ref, r) = 0 THEN 0
         ELSE MatchFrom(s, ref, NextOption(ref, r), 0)
    ELSE IF At(ref, r + n + 1) \in {NUL, "|"} /\ ~isvalid_name_char(At(s, n + 2))
         THEN n + 1
    ELSE IF n + 1 < 40 THEN MatchFrom(s, ref, r, n + 1) ELSE n + 1

\* name_match(s, ref): the number of characters of s that match an option
\* of ref ("A|B") followed by a non-name character, 0 for no match.
name_match(s, ref) == IF At(s, 1) = NUL THEN 0 ELSE MatchFrom(s, ref, 1, 0)

\* puckCmds, in table order; the debug entries are commented out.
PuckName(a, b) == <<"P", "U", "C", "K", a, b>>
puckCmds ==
    << [name |-> PuckName("R", "M"), func |-> "funcReadMemCmd"],
       [name |-> PuckName("W", "M"), func |-> "funcWriteMemCmd"],
       [name |-> PuckName("F", "M"), func |-> "funcFlushMemCmd"],
       [name |-> PuckName("E", "M"), func |-> "funcClearMemCmd"],
       [name |-> PuckName("G", "A"), func |-> "funcGetAddressCmd"],
       [name |-> PuckName("I", "M"), func |-> "funcSensorModeCmd"],
       [name |-> PuckName("S", "A"), func |-> "funcSetAddressCmd"],
       [name |-> PuckName("S", "Z"), func |-> "funcMemSizeCmd"],
       [name |-> PuckName("G", "B"), func |-> "funcGetBaudCmd"],
       [name |-> PuckName("S", "B"), func |-> "funcSetBaudCmd"],
       [name |-> PuckName("T", "Y"), func |-> "funcGetTypeCmd"],
       [name |-> PuckName("V", "B"), func |-> "funcIsBaudValidCmd"],
       [name |-> PuckName("V", "R"), func |-> "funcVersionCmd"],
       [name |-> <<"E", "C", "H", "O">>, func |-> "funcToggleEchoCmd"],
       [name |-> <<"H", "E", "L", "P">>, func |-> "funcShowHelpCmd"],
       [name |-> <<"H", "E", "L", "L", "O", SP, "K", "I", "T", "T", "Y">>,
        func |-> "funcHelloKittyCmd"] >>

\* parse's loop over the table from entry i: the first entry whose name
\* matches gets the rest of the line after its blanks (ln is parse's
\* parameter line, renamed apart from Puck's variable line).
RECURSIVE ParseFrom(_, _, _, _)
ParseFrom(ln, cmds, err_code, i) ==
    IF i > Len(cmds) THEN [func |-> err_code, arg |-> <<>>]
    ELSE LET chars == name_match(ln, cmds[i].name)
         IN  IF chars # 0
             THEN [func |-> cmds[i].func,
                   arg |-> skip(SubSeq(ln, chars + 1, Len(ln)), {SP, TAB})]
             ELSE ParseFrom(ln, cmds, err_code, i + 1)

parse(ln, cmds, err_code) == ParseFrom(skip(ln, {SP, TAB}), cmds, err_code, 1)

\* main: blanks skipped, an empty line answered ERR_EMPTY_LINE, any other
\* line parsed against puckCmds with ERR_NO_COMMAND for no match.
Dispatch(cmd) ==
    LET cmd_ptr == skip(cmd, {SP, TAB})
    IN  IF cmd_ptr = <<>> THEN [func |-> "ERR_EMPTY_LINE", arg |-> <<>>]
        ELSE parse(cmd_ptr, puckCmds, "ERR_NO_COMMAND")

-----------------------------------------------------------------------------
(* The reference: after the leading blanks, the first table entry whose   *)
(* name is, ignoring case, the first characters of the line and is not    *)
(* followed by a letter, digit or '_'; its handler gets what follows the  *)
(* name and the blanks after it.                                           *)

\* The least of a set of indexes.
Least(S) == CHOOSE i \in S : \A j \in S : i <= j

\* s from its first character that is not a blank.
Unblanked(s) ==
    IF \A i \in 1 .. Len(s) : s[i] \in {SP, TAB} THEN <<>>
    ELSE SubSeq(s, Least({i \in 1 .. Len(s) : s[i] \notin {SP, TAB}}), Len(s))

NamesLine(l, nm) ==
    /\ Len(l) >= Len(nm)
    /\ \A k \in 1 .. Len(nm) : toupper(l[k]) = nm[k]
    /\ ~isvalid_name_char(At(l, Len(nm) + 1))

\* The table entries whose name begins l.
Hits(l) == {i \in 1 .. Len(puckCmds) : NamesLine(l, puckCmds[i].name)}

\* Entry i's handler with the rest of l after the name and its blanks.
Call(l, i) ==
    [func |-> puckCmds[i].func,
     arg |-> Unblanked(SubSeq(l, Len(puckCmds[i].name) + 1, Len(l)))]

RefParse(l) ==
    CASE l = <<>> -> [func |-> "ERR_EMPTY_LINE", arg |-> <<>>]
      [] Hits(l) = {} -> [func |-> "ERR_NO_COMMAND", arg |-> <<>>]
      [] OTHER -> Call(l, Least(Hits(l)))

RefDispatch(cmd) == RefParse(Unblanked(cmd))

\* Every line of Lines is dispatched by main, parse and name_match to the
\* handler, and with the argument, that the reference names: a command is
\* recognised whatever its case and leading blanks, a longer word that
\* begins with a command name (PUCKRMX, ECHO_) is not that command, and an
\* earlier table entry wins.
DispatchAgrees == \A l \in Lines : Dispatch(l) = RefDispatch(l)
=============================================================================
