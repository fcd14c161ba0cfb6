------------------------------ MODULE MCShell -------------------------------
(***************************************************************************)
(* A small instance of Shell: the shell, another task and a handler.       *)
(***************************************************************************)
EXTENDS Shell

CONSTANTS Task

AllPrinters == {Console, Task, Isr}
SomeMessages == Task :> <<"t", "\n">> @@ Isr :> <<"i", "i", "i", "i", "i", "i", "i", "i">>

\* "%d", "%02d", "%4d", "%-4d", "%+d", "% 04d", "%u", "%x", "%02x", "%4lx", "%X"
SomeFormats == {<<"d">>, <<"0", "2", "d">>, <<"4", "d">>, <<"-", "4", "d">>, <<"+", "d">>,
                <<" ", "0", "4", "d">>, <<"u">>, <<"x">>, <<"0", "2", "x">>, <<"4", "l", "x">>, <<"X">>}
AllInts == -128..127
TwoDigits == <<"0", "2", "x">>

\* base10 and base16
OneLetter == <<"a">>
TwoLetters == <<"a", "a">>
=============================================================================
