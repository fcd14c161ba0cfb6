------------------------------- MODULE Shell --------------------------------
(***************************************************************************)
(* The shell (src/main/shell.c): gets, which edits a line and keeps the    *)
(* last one for recall, and str2hex, which reads a command's numbers.      *)
(* Every key is answered by a printk, while other tasks and interrupt      *)
(* handlers print too.                                                     *)
(*                                                                         *)
(* What the shell prints is one mark per character; several printk of one  *)
(* key are one.  Of the commands only those that set the base of numbers   *)
(* change the shell; the others are left out: they read and write memory   *)
(* or start a driver.                                                      *)
(*                                                                         *)
(* Bounds: others print MaxPrints times each, while at most MaxKeys keys   *)
(* come; when nobody else prints, keys are not counted.                    *)
(***************************************************************************)
EXTENDS Printk

CONSTANTS
  Console,        \* the task that runs the shell
  LineLen,        \* len, the size of cmd and of hbuf
  Letters,        \* the characters typed in a line
  Others,         \* what each other printer prints
  MaxKeys, MaxPrints,
  Base10, Base16, \* the words that stand for the commands base10 and base16
  Formats, Ints,  \* formats with one '%', and values of an int
  FullHex,        \* "08x": all the digits of a word
  MaxDump         \* the longest dump

ASSUME ShellAssumption ==
  /\ Console \in Printers \ {Isr} /\ LineLen \in Nat \ {0}
  /\ Others \in [Printers \ {Console} -> Seq({"t", "i", "\n"})]
  /\ MaxKeys \in Nat /\ MaxPrints \in Nat /\ MaxDump \in Nat

VARIABLES
  pc,             \* "prompt", "gets", "command"; "broken": written behind buf
  buf, n, esc,    \* gets: the line, its length and the place in a sequence
  hbuf, hblen,    \* the line before
  typed, last,    \* what buf and hbuf should hold
  longer,         \* "no", or hblen ("hblen") or n too ("n") have been made longer
  arg_base,       \* in which the numbers of a command are read
  quiet, keys, prints    \* bounds

historyVars == <<hbuf, hblen, last>>
lineVars == <<buf, n, esc, typed>>
shellVars == <<pc, lineVars, historyVars, longer, arg_base>>
bounds == <<quiet, keys, prints>>
vars == <<printVars, shellVars, bounds>>
-----------------------------------------------------------------------------
(* str2hex                                                                 *)

\* '0' to '9' in any base
DigitsOf(base) == Range(SubSeq(DigitChars, 1, IF base = 16 THEN 16 ELSE 10))

\* hex[n] = hex[n]*base + ch, in a word
Shifted(r, v) ==
  [r EXCEPT !.hex[r.n + 1] = ((@ * r.base) + v) % Word, !.p = @ + 1]

\* One character: a blank ends a number; "0x" makes the base 16 from here on,
\* and adds '0' itself, 48, to the number; what is no digit ends the line.
ReadChar(str, r, i) ==
  LET ch == str[i]
      prefix == ch = "0" /\ str[i + 1] = "x"
  IN  IF r.done THEN r
      ELSE IF r.skip THEN [r EXCEPT !.skip = FALSE]
      ELSE IF ch = Blank
           THEN IF r.p = 0 THEN r ELSE [r EXCEPT !.n = @ + 1, !.hex = Append(@, 0), !.p = 0]
      ELSE IF prefix THEN Shifted([r EXCEPT !.base = 16, !.skip = TRUE], 48)
      ELSE IF ch \in DigitsOf(r.base) THEN Shifted(r, DigitValue(ch))
      ELSE [r EXCEPT !.n = IF r.p > 0 THEN @ + 1 ELSE @, !.done = TRUE]

str2hex(str, base) ==
  LET start == [base |-> base, n |-> 0, p |-> 0, hex |-> <<0>>,
                skip |-> FALSE, done |-> FALSE]
      upto[i \in 0..(strlen(str) + 1)] == IF i = 0 THEN start ELSE ReadChar(str, upto[i - 1], i - 1)
      r == upto[strlen(str) + 1]
  IN  SubSeq(r.hex, 1, r.n)
-----------------------------------------------------------------------------
(* dump                                                                    *)

\* the bytes of a word of memory
BytesAt(mem, addr, width) == [i \in 1..width |-> mem[addr + i - 1]]

\* A line begins with its address, and ends with the characters of its bytes.
\* addr and width are those of the dump before when it has no arguments.
Dump(mem, addr, len, width) ==
  LET words == IF len <= 0 THEN 0 ELSE (len + width - 1) \div width
      Turn(r, k) ==
        LET p == k * width
            over == k = words
            breaks == p % 16 = 0 \/ over
            chars == IF breaks /\ r.sbuf # <<>> THEN <<[kind |-> "chars", of |-> r.sbuf]>> ELSE <<>>
            head == IF breaks /\ ~over THEN <<[kind |-> "addr", of |-> <<addr + p>>]>> ELSE <<>>
            word == IF over THEN <<>> ELSE BytesAt(mem, addr + p, width)
        IN  [sbuf |-> (IF breaks THEN <<>> ELSE r.sbuf) \o word,
             out |-> r.out \o chars \o head
                     \o IF over THEN <<>> ELSE <<[kind |-> "word", of |-> word]>>]
      upto[k \in 0..(words + 1)] == IF k = 0 THEN [sbuf |-> <<>>, out |-> <<>>] ELSE Turn(upto[k - 1], k - 1)
  IN  [out |-> upto[words + 1].out, addr |-> addr + (words * width)]
-----------------------------------------------------------------------------
(* gets                                                                    *)

Marks(k) == [i \in 1..k |-> "s"]
Show(k) == Call(Console, Marks(k))

\* gets reads a key when all it has printed has been put
Reads(s) ==
  /\ pc = "gets" /\ phase[Console] = "idle" /\ Runs(Console)
  /\ s
  /\ quiet \/ keys < MaxKeys
Read == keys' = (IF quiet THEN 0 ELSE keys + 1) /\ UNCHANGED <<quiet, prints, arg_base>>

Prompt ==
  /\ pc = "prompt" /\ phase[Console] = "idle"
  /\ pc' = "gets"
  /\ Show(1)
  /\ UNCHANGED <<lineVars, historyVars, longer, arg_base, bounds>>

\* mutant: the Nul is missing, and a shorter line keeps the end of a longer one
RememberLonger(line, k) ==
  hbuf' = memcpy(hbuf, line, k) /\ hblen' = IF hblen > k THEN hblen ELSE k

Remember(line, k) == hbuf' = [memcpy(hbuf, line, k) EXCEPT ![k] = Nul] /\ hblen' = k

\* The line is complete: k characters of line, and should be s.
End(line, k, s, garbled) ==
  /\ pc' = "command" /\ esc' = 0 /\ n' = k
  /\ buf' = [line EXCEPT ![k] = Nul]
  /\ typed' = s
  /\ IF k = 0 THEN UNCHANGED <<historyVars, longer>>
     ELSE /\ Remember(line, k)
          /\ last' = s
          /\ longer' = IF garbled THEN "n" ELSE "no"

Continue == UNCHANGED <<pc, historyVars, longer>>

Enter == Reads(TRUE) /\ Read /\ End(buf, n, typed, longer = "n") /\ Show(1)

\* n==len is looked for after a letter only
Letter(ch) ==
  LET line == [buf EXCEPT ![n] = ch]
      s == IF longer = "n" THEN typed ELSE Append(typed, ch)
  IN  /\ Reads(esc = 0) /\ Read
      /\ IF n >= LineLen
         THEN pc' = "broken" /\ UNCHANGED <<lineVars, historyVars, longer>>
         ELSE IF n + 1 = LineLen THEN End(line, n + 1, s, longer = "n")
         ELSE buf' = line /\ n' = n + 1 /\ typed' = s /\ Continue /\ UNCHANGED esc
      /\ Show(1)

Backspace ==
  /\ Reads(esc = 0) /\ Read
  /\ IF n = 0 THEN UNCHANGED <<lineVars, printVars>>
     ELSE /\ n' = n - 1
          /\ typed' = IF longer = "n" THEN typed ELSE Front(typed)
          /\ UNCHANGED <<buf, esc>>
          /\ Show(1)
  /\ Continue

Control == Reads(esc = 0) /\ Read /\ Continue /\ UNCHANGED lineVars /\ Show(1)

Escape == Reads(esc = 0) /\ Read /\ esc' = 1 /\ Continue /\ UNCHANGED <<buf, n, typed, printVars>>
Bracket == Reads(esc = 1) /\ Read /\ esc' = 2 /\ Continue /\ UNCHANGED <<buf, n, typed, printVars>>

\* a key that ends no known sequence
Unknown == Reads(esc # 0) /\ Read /\ esc' = 0 /\ Continue /\ UNCHANGED <<buf, n, typed>> /\ Show(1)

\* UP and RIGHT: the last line again; RIGHT enters it
Recall(enter) ==
  LET line == memcpy(buf, hbuf, hblen)
      blanks == Max({n - hblen, 0})
      s == IF longer = "no" THEN last ELSE <<>>
  IN  /\ Reads(esc = 2) /\ Read
      /\ IF hblen = 0
         THEN esc' = 0 /\ Continue /\ UNCHANGED <<buf, n, typed, printVars>>
         ELSE /\ IF enter THEN End(line, hblen, s, longer # "no")
                 ELSE /\ buf' = line /\ n' = hblen /\ esc' = 0 /\ typed' = s
                      /\ hblen' = hblen + blanks
                      /\ longer' = IF longer # "no" THEN "n"
                                   ELSE IF blanks > 0 THEN "hblen" ELSE "no"
                      /\ UNCHANGED <<pc, hbuf, last>>
              /\ Show(1 + strlen(hbuf) + blanks)

\* simple_shell: the numbers of a command; base is arg_base
ArgsOf(cmd, base) ==
  LET sp == strchr(cmd, Blank)
  IN  IF sp = -1 THEN <<>>
      ELSE str2hex([i \in 0..(strlen(cmd) - sp - 1) |-> cmd[sp + 1 + i]], base)

FirstOf(s, k) == [i \in 1..k |-> s[i - 1]]

\* base10, base16, or another command
BaseAfter(cmd) ==
  CASE cmd = Base10 -> 10 [] cmd = Base16 -> 16 [] OTHER -> arg_base

Command ==
  LET sp == strchr(buf, Blank)
  IN
  /\ pc = "command" /\ phase[Console] = "idle" /\ Runs(Console)
  /\ pc' = "prompt" /\ n' = 0 /\ typed' = <<>>
  /\ buf' = [i \in DOMAIN buf |-> IF i = sp THEN Nul ELSE buf[i]]
  /\ arg_base' = BaseAfter(FirstOf(buf, IF sp = -1 THEN strlen(buf) ELSE sp))
  /\ longer' = IF longer = "n" THEN "hblen" ELSE longer
  /\ UNCHANGED <<esc, historyVars, printVars, bounds>>
-----------------------------------------------------------------------------
\* another task, or a handler, prints
OtherPrints(a) ==
  /\ ~quiet /\ prints[a] < MaxPrints
  /\ prints' = [prints EXCEPT ![a] = @ + 1]
  /\ Call(a, Others[a])
  /\ UNCHANGED <<shellVars, quiet, keys>>

Init ==
  /\ PrintkInit
  /\ pc = "prompt" /\ n = 0 /\ esc = 0 /\ typed = <<>>
  /\ buf = [i \in 0..LineLen |-> Nul]
  /\ hbuf = [i \in 0..LineLen |-> Nul]
  /\ hblen = 0 /\ last = <<>> /\ longer = "no" /\ arg_base = 16
  /\ quiet \in BOOLEAN /\ keys = 0
  /\ prints = [a \in Printers \ {Console} |-> 0]

Key ==
  \/ Enter \/ Backspace \/ Control \/ Escape \/ Bracket \/ Unknown
  \/ \E ch \in Letters : Letter(ch)
  \/ \E enter \in BOOLEAN : Recall(enter)

Next ==
  \/ Prompt \/ Key \/ Command
  \/ \E a \in Printers \ {Console} : OtherPrints(a)
  \/ \E a \in Printers : PrintkStep(a) /\ UNCHANGED <<shellVars, bounds>>

Spec == Init /\ [][Next]_vars
-----------------------------------------------------------------------------
\* However a line is typed, corrected and recalled, gets returns what it should
\* hold, and a recall brings back the last line; unless UP has been pressed on a
\* line longer than the last one, which makes hblen too long.  Nothing is typed
\* behind buf unless a full line has been recalled.
LineHonest ==
  /\ longer # "n" => FirstOf(buf, n) = typed
  /\ longer = "no" => FirstOf(hbuf, hblen) = last
  /\ pc = "broken" => hblen = LineLen

\* how many numbers k hexadecimal digits write
Hexes[k \in Nat] == IF k = 0 THEN 1 ELSE 16 * Hexes[k - 1]

\* Values fit a word, and FullHex shows all the digits of one.
ASSUME FormatsAssumption ==
  /\ Formats \cup {FullHex} \subseteq Seq(STRING)
  /\ \A v \in Ints : v \in Int /\ -Word < v /\ v < Word
  /\ LET d == Directive(FullHex)
     IN  /\ d.end = Len(FullHex) /\ d.conv \in DOMAIN Conversions
         /\ Conversions[d.conv] = 16 /\ d.zero /\ ~d.left /\ Hexes[d.width] % Word = 0

\* printk takes the whole format for a directive; one whose width has a 0 it does not.
Taken(fmt) == Directive(fmt).end = Len(fmt) /\ Directive(fmt).conv \in DOMAIN Conversions

NumbersRead(base) ==
  \A fmt \in Formats, v \in Ints :
    LET d == Directive(fmt)
        shown == Number(fmt, v)
        unsigned == [i \in DOMAIN shown |-> IF shown[i] \in {"-", "+"} THEN Blank ELSE shown[i]]
        typedTwice == StringOf(<<"w", Blank>> \o unsigned \o <<Blank>> \o unsigned)
        m == Magnitude(d, v)
    IN  Taken(fmt) =>
        /\ Conversions[d.conv] = base => ArgsOf(typedTwice, base) = <<m, m>>
        /\ Signed(d) /\ v < 0 => "-" \in Range(shown) \/ d.left
        /\ Len(shown) >= d.width
        /\ v # 0 /\ Len(shown) > d.width => shown[1] \notin {Blank, "0"} \/ shown[1] = SignOf(d, v)
        /\ str2hex(StringOf(<<"0", "x">> \o Number(FullHex, v)), base) = <<v % Word>>

\* the values of arg_base in which all that is shown in that base is read again
BasesRead == {base \in {10, 16} : NumbersRead(base)}

Of(items, kind) ==
  LET upto[i \in 0..Len(items)] ==
        IF i = 0 THEN <<>> ELSE IF items[i].kind = kind THEN upto[i - 1] \o items[i].of ELSE upto[i - 1]
  IN  upto[Len(items)]

\* Each byte here is its own address.
DumpsRead ==
  LET mem == [a \in 0..(2 * MaxDump + 16) |-> a]
  IN  \A width \in {1, 2, 4}, len \in 0..MaxDump :
        LET first == Dump(mem, 8, len, width)
            second == Dump(mem, first.addr, len, width)
            shown == first.out \o second.out
            total == second.addr - 8
            bytes == [i \in 1..total |-> i + 7]
        IN  /\ Of(shown, "word") = bytes /\ Of(shown, "chars") = bytes
            /\ 2 * len <= total /\ total < 2 * (len + width)
            /\ \A i \in 1..(Len(shown) - 1) :
                 shown[i].kind = "addr" => shown[i].of[1] = shown[i + 1].of[1]
            /\ \A i \in 1..Len(shown) :
                 shown[i].kind = "chars" => Len(shown[i].of) <= 16

\* What printk shows of a number fills its field, and typed in a command while the
\* shell reads numbers in that base, with a blank for the sign, is read as that
\* number again, also with others; and in either base with a "0x" before all its
\* hexadecimal digits.  A left-adjusted field loses the sign (itostr, vsnprintk and
\* str2hex).  Excepted are formats that printk does not take for a directive.  A
\* dump shows every byte of its range once, behind its address and as a character,
\* with no more than 16 in sbuf, and one without arguments goes on where the last
\* one has ended.
PrintedIsRead == pc = "command" => arg_base \in BasesRead /\ DumpsRead
=============================================================================
