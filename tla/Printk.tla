------------------------------- MODULE Printk -------------------------------
(***************************************************************************)
(* printk (src/main/printk.c): the text of a number as functions, and the  *)
(* one buffer in which every task and interrupt handler formats its        *)
(* messages and from which it puts them, as steps of one character.        *)
(*                                                                         *)
(* A message is the text its format makes of its arguments.  What has been *)
(* put of it is kept in out, as the UART has it.                           *)
(***************************************************************************)
EXTENDS CString

CONSTANTS
  Printers,       \* the tasks that print, and Isr
  Isr,            \* an interrupt handler: no task runs until it is done
  Size,           \* sizeof(printk_buf)
  Word            \* the number of values of an int

ASSUME PrintkAssumption ==
  Isr \in Printers /\ Size \in Nat \ {0} /\ Word \in Nat \ {0}

VARIABLES
  printk_buf,
  phase,          \* "idle", "format" or "puts"
  text,           \* the message a printer formats
  at,             \* str, in vsnprintk and in puts: an offset
  out,            \* what a printer has put
  alone,          \* no other printk has overlapped this one
  filled          \* a message has taken the last place, which the Nul needs

printVars == <<printk_buf, phase, text, at, out, alone, filled>>
-----------------------------------------------------------------------------
(* The text of a number.                                                   *)

DigitChars == <<"0", "1", "2", "3", "4", "5", "6", "7",
                "8", "9", "a", "b", "c", "d", "e", "f">>
DigitValue(ch) == CHOOSE v \in 0..15 : DigitChars[v + 1] = ch

\* mutant: the digits are not reversed
itostrReversed(data, base) ==
  LET rest[v \in 0..data] ==
        <<DigitChars[(v % base) + 1]>> \o IF v < base THEN <<>> ELSE rest[v \div base]
  IN  rest[data]

itostr(data, base) ==
  LET rest[v \in 0..data] ==
        (IF v < base THEN <<>> ELSE rest[v \div base]) \o <<DigitChars[(v % base) + 1]>>
  IN  rest[data]

NoSign == ""
Flags == {"0", "-", "#", Blank, "+"}
WidthDigits == Range(SubSeq(DigitChars, 2, 10))
Lengths == {"l", "L", "h", "j", "z", "t"}
Conversions == [conv \in {"d", "i", "u", "x", "X", "p", "o"} |->
                  IF conv \in {"x", "X", "p"} THEN 16 ELSE IF conv = "o" THEN 8 ELSE 10]

\* the first place from i on that holds no member of S
Skip(fmt, i, S) ==
  Min({j \in i..(Len(fmt) + 1) : j = Len(fmt) + 1 \/ fmt[j] \notin S})

Decimal(digits) ==
  LET upto[i \in 0..Len(digits)] == IF i = 0 THEN 0 ELSE 10 * upto[i - 1] + DigitValue(digits[i])
  IN  upto[Len(digits)]

\* What follows a '%': flags, a width, a precision that is ignored, and
\* length modifiers.  A width has no 0 in it.
Directive(fmt) ==
  LET width == Skip(fmt, 1, Flags)
      dot == Skip(fmt, width, WidthDigits)
      mod == IF dot <= Len(fmt) /\ fmt[dot] = "." THEN Skip(fmt, dot + 1, WidthDigits)
             ELSE dot
      conv == Skip(fmt, mod, Lengths)
      flags == Range(SubSeq(fmt, 1, width - 1))
  IN  [zero |-> "0" \in flags, left |-> "-" \in flags,
       sign |-> IF "+" \in flags THEN "+" ELSE IF Blank \in flags THEN Blank ELSE NoSign,
       width |-> Decimal(SubSeq(fmt, width, dot - 1)),
       conv |-> fmt[conv], end |-> conv]

Signed(d) == d.conv \in {"d", "i"}
Magnitude(d, v) == IF Signed(d) /\ v < 0 THEN -v ELSE v % Word
SignOf(d, v) == IF ~Signed(d) THEN NoSign ELSE IF v < 0 THEN "-" ELSE d.sign

\* s in a field of the directive's width; a left-adjusted one has no sign
Field(d, sign, s) ==
  LET width == IF Len(s) < d.width THEN d.width
               ELSE IF sign = NoSign THEN Len(s) ELSE Len(s) + 1
      pad == width - Len(s)
  IN  [i \in 1..width |->
         CASE d.left -> IF i <= Len(s) THEN s[i] ELSE Blank
           [] ~d.left /\ sign # NoSign /\ i = (IF d.zero THEN 1 ELSE pad) -> sign
           [] OTHER -> IF i > pad THEN s[i - pad] ELSE IF d.zero THEN "0" ELSE Blank]

\* what printk makes of one '%' and a number; a bad format is printed itself
Number(fmt, v) ==
  LET d == Directive(fmt)
      rest == SubSeq(fmt, d.end + 1, Len(fmt))
  IN  (IF d.conv \in DOMAIN Conversions
       THEN Field(d, SignOf(d, v), itostr(Magnitude(d, v), Conversions[d.conv]))
       ELSE Field([d EXCEPT !.zero = FALSE], NoSign, <<"%">> \o SubSeq(fmt, 1, d.end)))
      \o rest
-----------------------------------------------------------------------------
(* The shared buffer.                                                      *)

\* OUT_C('\r') before a '\n'; puts does it once more
Returned(ch) == IF ch = "\n" THEN <<"\r", ch>> ELSE <<ch>>
WithReturns(s) ==
  LET r[i \in 0..Len(s)] == IF i = 0 THEN <<>> ELSE r[i - 1] \o Returned(s[i])
  IN  r[Len(s)]

Busy == {a \in Printers : phase[a] # "idle"}
Runs(a) == a = Isr \/ phase[Isr] = "idle"

\* a calls printk
Call(a, s) ==
  /\ phase[a] = "idle" /\ Runs(a)
  /\ phase' = [phase EXCEPT ![a] = "format"]
  /\ text' = [text EXCEPT ![a] = WithReturns(s)]
  /\ at' = [at EXCEPT ![a] = 0]
  /\ out' = [out EXCEPT ![a] = <<>>]
  /\ alone' = [b \in Printers |-> IF b = a THEN Busy = {} ELSE phase[b] = "idle"]
  /\ UNCHANGED <<printk_buf, filled>>

\* mutant: one character more
PlacesOneMore == Size + 1

\* OUT_C writes while str < end
Places == Size

\* vsnprintk puts one character, or the Nul, into the buffer
Format(a) ==
  LET i == at[a]
      more == i < Len(text[a])
  IN  /\ phase[a] = "format" /\ Runs(a) /\ i < Places
      /\ printk_buf' = [printk_buf EXCEPT ![i] = IF more THEN text[a][i + 1] ELSE Nul]
      /\ IF more THEN at' = [at EXCEPT ![a] = i + 1] /\ UNCHANGED phase
         ELSE at' = [at EXCEPT ![a] = 0] /\ phase' = [phase EXCEPT ![a] = "puts"]
      /\ filled' = (filled \/ (more /\ i + 1 = Places))
      /\ UNCHANGED <<text, out, alone>>

\* no place is left, not even for the Nul
Full(a) ==
  /\ phase[a] = "format" /\ Runs(a) /\ at[a] >= Places
  /\ phase' = [phase EXCEPT ![a] = "puts"]
  /\ at' = [at EXCEPT ![a] = 0]
  /\ UNCHANGED <<printk_buf, text, out, alone, filled>>

\* puts sends one character; what lies behind the buffer ends it at once
Put(a) ==
  LET i == at[a]
  IN  /\ phase[a] = "puts" /\ Runs(a)
      /\ IF i < Size /\ printk_buf[i] # Nul
         THEN /\ out' = [out EXCEPT ![a] = @ \o WithReturns(<<printk_buf[i]>>)]
              /\ at' = [at EXCEPT ![a] = i + 1]
              /\ UNCHANGED <<phase, text>>
         ELSE /\ phase' = [phase EXCEPT ![a] = "idle"]
              /\ text' = [text EXCEPT ![a] = <<>>]
              /\ out' = [out EXCEPT ![a] = <<>>]
              /\ at' = [at EXCEPT ![a] = 0]
      /\ UNCHANGED <<printk_buf, alone, filled>>

PrintkStep(a) == Format(a) \/ Full(a) \/ Put(a)

PrintkInit ==
  /\ printk_buf = [i \in 0..(Size - 1) |-> Nul]
  /\ phase = [a \in Printers |-> "idle"]
  /\ text = [a \in Printers |-> <<>>]
  /\ at = [a \in Printers |-> 0]
  /\ out = [a \in Printers |-> <<>>]
  /\ alone = [a \in Printers |-> TRUE]
  /\ filled = FALSE
-----------------------------------------------------------------------------
\* A printk that no other has overlapped puts the whole of its message and
\* nothing else, if the buffer holds it; and whatever the tasks and handlers do
\* to each other's messages, puts ends inside printk_buf until a message has
\* filled it (printk and puts share printk_buf without a lock).
MessagesHold ==
  [][\A a \in Printers : phase[a] = "puts" /\ phase'[a] = "idle" =>
       /\ alone[a] /\ Len(text[a]) < Size => out[a] = WithReturns(text[a])
       /\ at[a] >= Size => filled]_printVars
=============================================================================
