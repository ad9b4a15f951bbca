------------------------------- MODULE MC_Puck -------------------------------
(***************************************************************************)
(* A puck with a four-byte receive buffer (three bytes of room), a        *)
(* two-byte command line and two pages of two bytes, and a host that      *)
(* sends protocol messages and may power-cycle it at any point.          *)
(***************************************************************************)
EXTENDS Puck, TLC

\* Command tokens: the command word and the number strtol reads after it.
MC_Commands ==
    ("WM1" :> [name |-> "PUCKWM", arg |-> 1]) @@
    ("WM5" :> [name |-> "PUCKWM", arg |-> 5]) @@
    ("WM40" :> [name |-> "PUCKWM", arg |-> 40]) @@
    ("RM1" :> [name |-> "PUCKRM", arg |-> 1]) @@
    ("RM2000" :> [name |-> "PUCKRM", arg |-> 2000]) @@
    ("RM33" :> [name |-> "PUCKRM", arg |-> 33]) @@
    ("SA1" :> [name |-> "PUCKSA", arg |-> 1]) @@
    ("SA9" :> [name |-> "PUCKSA", arg |-> 9]) @@
    ("FM" :> [name |-> "PUCKFM", arg |-> 0]) @@
    ("EM" :> [name |-> "PUCKEM", arg |-> 0]) @@
    ("IM" :> [name |-> "PUCKIM", arg |-> 0]) @@
    ("GA" :> [name |-> "PUCKGA", arg |-> 0]) @@
    ("SB19200" :> [name |-> "PUCKSB", arg |-> 19200]) @@
    ("SB1200" :> [name |-> "PUCKSB", arg |-> 1200]) @@
    ("ECHO" :> [name |-> "ECHO", arg |-> 0])

MC_ReadMsgs ==
    {<<"EM", "CR">>, <<"SA1", "CR">>, <<"SA9", "CR">>, <<"RM1", "CR">>,
     <<"RM2000", "CR">>, <<"RM33", "CR">>, <<"GA", "CR">>, <<"IM", "CR">>, <<"SB19200", "CR">>,
     <<"SB1200", "CR">>, <<"ECHO", "CR">>,
     <<"d1", "BS", "CR">>, <<"d1", "d1", "d1", "CR">>}

MC_WriteMsgs ==
    {<<"WM1", "CR", "d1">>, <<"WM5", "CR">>, <<"WM40", "CR">>, <<"FM", "CR">>}
\* Lines for the parser: each command name as the table has it, in lower
\* case (three of them), cut one character short, and with its last
\* letter changed; each after no blanks, a blank, or a tab and a blank, and
\* followed by nothing, a blank and a digit, a letter, '_', or a tab and a
\* digit; and lines of blanks only.
LOCAL PP == INSTANCE PuckParser WITH Lines <- {}
MC_LineBodies ==
    LET names == {PP!puckCmds[i].name : i \in 1 .. Len(PP!puckCmds)}
        cut(nm) == SubSeq(nm, 1, Len(nm) - 1)
    IN  names \cup {cut(nm) : nm \in names}
              \cup {cut(nm) \o <<"Q">> : nm \in names}
              \cup {<<"p", "u", "c", "k", "r", "m">>, <<"e", "c", "h", "o">>,
                    <<"h", "e", "l", "l", "o", " ", "k", "i", "t", "t", "y">>}
MC_Lines ==
    {<<>>, <<" ">>, <<"tab", " ">>} \cup
    {pre \o body \o post :
        pre \in {<<>>, <<" ">>, <<"tab", " ">>},
        body \in MC_LineBodies,
        post \in {<<>>, <<" ", "1">>, <<"X">>, <<"_">>, <<"tab", "5">>}}
Parser == INSTANCE PuckParser WITH Lines <- MC_Lines

\* The characters of each command word MC_Commands uses.
MC_Words ==
    ("PUCKRM" :> PP!PuckName("R", "M")) @@ ("PUCKWM" :> PP!PuckName("W", "M")) @@
    ("PUCKFM" :> PP!PuckName("F", "M")) @@ ("PUCKEM" :> PP!PuckName("E", "M")) @@
    ("PUCKGA" :> PP!PuckName("G", "A")) @@ ("PUCKIM" :> PP!PuckName("I", "M")) @@
    ("PUCKSA" :> PP!PuckName("S", "A")) @@ ("PUCKSB" :> PP!PuckName("S", "B")) @@
    ("ECHO" :> <<"E", "C", "H", "O">>)

\* main, parse and name_match send every line of MC_Lines to the handler,
\* and with the argument, that the reference definition names.
ParserMatchesReference ==
    \A l \in MC_Lines : Parser!Dispatch(l) = Parser!RefDispatch(l)

\* The command words parse recognises, with a blank and a number after them.
WordsRecognised ==
    {n \in DOMAIN MC_Words :
        Parser!Dispatch(MC_Words[n] \o <<" ", "1">>).func \notin {"ERR_NO_COMMAND", "ERR_EMPTY_LINE"}}

\* main, parse and name_match dispatch every line as the reference says (a
\* command word in any case after any blanks, never a longer word that
\* begins with one, the first table entry first), and the command word of
\* every line the puck holds is one that parse recognises, so the token
\* abstraction of Puck's parse stands for lines the firmware accepts.
ParseAgrees ==
    /\ ParserMatchesReference
    /\ line # <<>> /\ parse(line) \in DOMAIN MC_Words => parse(line) \in WordsRecognised
=============================================================================
