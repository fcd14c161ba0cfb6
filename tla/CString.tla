------------------------------ MODULE CString -------------------------------
(***************************************************************************)
(* src/main/string.c on arrays of characters: functions from 0 on, with a  *)
(* Nul where no length is given; an upper-case letter is its lower-case    *)
(* one.  strcasecmp is in FileCall.                                        *)
(***************************************************************************)
EXTENDS Integers, SequencesExt

Nul == "nul"
Blank == " "

strlen(s) == Min({i \in DOMAIN s : s[i] = Nul})

\* the string of a sequence
StringOf(seq) == [i \in 0..Len(seq) |-> IF i = Len(seq) THEN Nul ELSE seq[i + 1]]

memcpy(to, from, n) == [i \in DOMAIN to |-> IF i < n THEN from[i] ELSE to[i]]

\* the offset of the first ch, or -1
strchr(s, ch) ==
  LET places == {i \in 0..(strlen(s) - 1) : s[i] = ch}
  IN  IF places = {} THEN -1 ELSE Min(places)
=============================================================================
