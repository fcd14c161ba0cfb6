---------------------------- MODULE ShellProofs ------------------------------
(***************************************************************************)
(* What holds of the shell's lines and of the messages in printk_buf for   *)
(* any sizes of the buffers, any number of printers, keys and messages;    *)
(* and that what is printed is read, for any directives, values and dumps. *)
(***************************************************************************)
EXTENDS Shell, SequenceTheorems, WellFoundedInduction, TLAPS

-----------------------------------------------------------------------------
(* Lines                                                                   *)

LineChars == Letters \cup {Nul}

ShellTyped ==
  /\ pc \in {"prompt", "gets", "command", "broken"}
  /\ buf \in [0..LineLen -> LineChars] /\ hbuf \in [0..LineLen -> LineChars]
  /\ n \in 0..LineLen /\ hblen \in 0..LineLen
  /\ longer \in {"no", "hblen", "n"}

\* gets begins with an empty line, and has a full one only as a recalled one; a
\* Nul is in hbuf.
LineFits ==
  /\ pc = "prompt" => n = 0
  /\ pc = "gets" /\ n = LineLen => hblen = LineLen
  /\ \E i \in 0..LineLen : hbuf[i] = Nul

LineInv == ShellTyped /\ LineFits /\ LineHonest

LEMMA LineInit == Init => LineInv
<1> SUFFICES ASSUME Init PROVE LineInv
  OBVIOUS
<1>1. LineLen \in Nat \ {0}
  BY ShellAssumption
<1>2. ShellTyped /\ LineFits
  BY <1>1 DEF Init, ShellTyped, LineFits, LineChars
<1>3. LineHonest
  BY <1>1 DEF Init, LineHonest, FirstOf
<1> QED BY <1>2, <1>3 DEF LineInv

LEMMA MaxWithZero ==
  ASSUME NEW i \in Int
  PROVE  Max({i, 0}) = IF i > 0 THEN i ELSE 0
BY DEF Max

LEMMA FirstShorter ==
  ASSUME NEW line \in [0..LineLen -> LineChars], NEW k \in 1..LineLen
  PROVE  Front(FirstOf(line, k)) = FirstOf(line, k - 1)
<1>1. LineLen \in Nat \ {0}
  BY ShellAssumption
<1>2. FirstOf(line, k) \in Seq(LineChars) /\ Len(FirstOf(line, k)) = k
  BY <1>1 DEF FirstOf
<1> QED BY <1>1, <1>2 DEF Front, FirstOf

LEMMA FirstLonger ==
  ASSUME NEW line \in [0..LineLen -> LineChars], NEW k \in 0..(LineLen - 1), NEW ch \in LineChars
  PROVE  FirstOf([line EXCEPT ![k] = ch], k + 1) = Append(FirstOf(line, k), ch)
<1>1. LineLen \in Nat \ {0}
  BY ShellAssumption
<1>2. FirstOf(line, k) \in Seq(LineChars) /\ Len(FirstOf(line, k)) = k
  BY <1>1 DEF FirstOf
<1>3. FirstOf([line EXCEPT ![k] = ch], k + 1) \in Seq(LineChars)
      /\ Len(FirstOf([line EXCEPT ![k] = ch], k + 1)) = k + 1
  BY <1>1 DEF FirstOf
<1>4. Append(FirstOf(line, k), ch) \in Seq(LineChars)
      /\ Len(Append(FirstOf(line, k), ch)) = k + 1
  BY <1>2
<1>5. ASSUME NEW i \in 1..(k + 1)
      PROVE  FirstOf([line EXCEPT ![k] = ch], k + 1)[i] = Append(FirstOf(line, k), ch)[i]
  BY <1>1, <1>2, <1>5 DEF FirstOf
<1> QED BY <1>3, <1>4, <1>5, SeqEqual

\* A Nul behind the first k characters, and a copy of them.
LEMMA NulKept ==
  ASSUME NEW line \in [0..LineLen -> LineChars], NEW k \in 0..LineLen
  PROVE  /\ [line EXCEPT ![k] = Nul] \in [0..LineLen -> LineChars]
         /\ FirstOf([line EXCEPT ![k] = Nul], k) = FirstOf(line, k)
<1>1. LineLen \in Nat \ {0}
  BY ShellAssumption
<1> QED BY <1>1 DEF FirstOf, LineChars

LEMMA CopyKept ==
  ASSUME NEW to \in [0..LineLen -> LineChars], NEW line \in [0..LineLen -> LineChars],
         NEW k \in 0..LineLen
  PROVE  /\ memcpy(to, line, k) \in [0..LineLen -> LineChars]
         /\ FirstOf(memcpy(to, line, k), k) = FirstOf(line, k)
<1>1. LineLen \in Nat \ {0}
  BY ShellAssumption
<1>2. memcpy(to, line, k) \in [0..LineLen -> LineChars]
  BY <1>1 DEF memcpy
<1>3. FirstOf(memcpy(to, line, k), k) = FirstOf(line, k)
  BY <1>1 DEF memcpy, FirstOf
<1> QED BY <1>2, <1>3

\* A line that has ended is what it should be, and is remembered.
LEMMA EndHonest ==
  ASSUME ShellTyped, LineFits, LineHonest, NEW line \in [0..LineLen -> LineChars], NEW k \in 0..LineLen,
         NEW s, NEW garbled \in BOOLEAN, ~garbled => FirstOf(line, k) = s,
         k = 0 /\ garbled => longer = "n",
         End(line, k, s, garbled)
  PROVE  LineInv'
<1>0. LineLen \in Nat \ {0}
  BY ShellAssumption
<1>1. /\ pc' = "command" /\ n' = k /\ buf' = [line EXCEPT ![k] = Nul] /\ typed' = s
  BY DEF End
<1>2. buf' \in [0..LineLen -> LineChars] /\ FirstOf(buf', k) = FirstOf(line, k)
  BY <1>1, NulKept
<1>3. CASE k = 0
  <2>1. hbuf' = hbuf /\ hblen' = hblen /\ last' = last /\ longer' = longer
    BY <1>3 DEF End, historyVars
  <2>2. LineHonest'
    BY <1>0, <1>1, <1>2, <1>3, <2>1 DEF LineHonest, ShellTyped
  <2> QED BY <1>0, <1>1, <1>2, <2>1, <2>2 DEF LineInv, ShellTyped, LineFits
<1>4. CASE k # 0
  <2>1. /\ hbuf' = [memcpy(hbuf, line, k) EXCEPT ![k] = Nul] /\ hblen' = k /\ last' = s
        /\ longer' = IF garbled THEN "n" ELSE "no"
    BY <1>4 DEF End, Remember
  <2>2. /\ memcpy(hbuf, line, k) \in [0..LineLen -> LineChars]
        /\ FirstOf(memcpy(hbuf, line, k), k) = FirstOf(line, k)
    <3>1. hbuf \in [0..LineLen -> LineChars]
      BY DEF ShellTyped
    <3> QED BY <3>1, CopyKept
  <2>3. hbuf' \in [0..LineLen -> LineChars] /\ FirstOf(hbuf', k) = FirstOf(line, k)
    BY <2>1, <2>2, NulKept
  <2>4. LineHonest'
    BY <1>1, <1>2, <2>1, <2>3 DEF LineHonest
  <2> QED BY <1>0, <1>1, <1>2, <2>1, <2>3, <2>4 DEF LineInv, ShellTyped, LineFits
<1> QED BY <1>3, <1>4

LEMMA LineStep ==
  ASSUME LineInv, [Next]_vars
  PROVE  LineInv'
<1>0. LineLen \in Nat \ {0} /\ ShellTyped /\ LineFits /\ LineHonest
  BY ShellAssumption DEF LineInv
<1> DEFINE Same == UNCHANGED <<pc, buf, n, hbuf, hblen, typed, last, longer>>
<1>1. ASSUME Same
      PROVE  LineInv'
  BY <1>0, <1>1 DEF LineInv, ShellTyped, LineFits, LineHonest
<1>2. CASE Prompt
  BY <1>0, <1>2 DEF Prompt, lineVars, historyVars, LineInv, ShellTyped, LineFits, LineHonest
<1>3. CASE Enter
  <2>1. End(buf, n, typed, longer = "n")
    BY <1>3 DEF Enter
  <2>2. longer # "n" => FirstOf(buf, n) = typed
    BY <1>0 DEF LineHonest
  <2>3. buf \in [0..LineLen -> LineChars] /\ n \in 0..LineLen
    BY <1>0 DEF ShellTyped
  <2> QED BY <1>0, <2>1, <2>2, <2>3, EndHonest
<1>4. CASE Backspace
  <2>1. CASE n = 0
    <3>1. Same
      BY <1>4, <2>1 DEF Backspace, Continue, lineVars, historyVars
    <3> QED BY <1>1, <3>1
  <2>2. CASE n # 0
    <3>1. /\ UNCHANGED <<pc, buf, hbuf, hblen, last, longer>> /\ n' = n - 1
          /\ typed' = IF longer = "n" THEN typed ELSE Front(typed)
      BY <1>4, <2>2 DEF Backspace, Continue, historyVars
    <3>2. n \in 1..LineLen /\ buf \in [0..LineLen -> LineChars]
      BY <1>0, <2>2 DEF ShellTyped
    <3>3. Front(FirstOf(buf, n)) = FirstOf(buf, n - 1)
      BY <3>2, FirstShorter
    <3>4. LineHonest'
      BY <1>0, <3>1, <3>3 DEF LineHonest, FirstOf
    <3>5. ShellTyped' /\ LineFits'
      BY <1>0, <1>4, <3>1, <3>2 DEF ShellTyped, LineFits, Backspace, Reads
    <3> QED BY <3>4, <3>5 DEF LineInv
  <2> QED BY <2>1, <2>2
<1>5. ASSUME NEW ch \in Letters, Letter(ch)
      PROVE  LineInv'
  <2> DEFINE line == [buf EXCEPT ![n] = ch]
             s == IF longer = "n" THEN typed ELSE Append(typed, ch)
  <2>0. pc = "gets"
    BY <1>5 DEF Letter, Reads
  <2>1. CASE n >= LineLen
    <3>1. pc' = "broken" /\ UNCHANGED <<buf, n, hbuf, hblen, typed, last, longer>>
      BY <1>5, <2>1 DEF Letter, lineVars, historyVars
    <3>2. n = LineLen
      BY <1>0, <2>1 DEF ShellTyped
    <3>3. hblen = LineLen
      BY <1>0, <2>0, <3>2 DEF LineFits
    <3> QED BY <1>0, <3>1, <3>3 DEF LineInv, ShellTyped, LineFits, LineHonest, FirstOf
  <2>2. CASE ~(n >= LineLen)
    <3>1. n \in 0..(LineLen - 1) /\ ch \in LineChars /\ buf \in [0..LineLen -> LineChars]
      BY <1>0, <2>2 DEF ShellTyped, LineChars
    <3>2. line \in [0..LineLen -> LineChars]
      BY <3>1
    <3>3. longer # "n" => FirstOf(line, n + 1) = s
      <4>1. FirstOf(line, n + 1) = Append(FirstOf(buf, n), ch)
        BY <3>1, FirstLonger
      <4>2. longer # "n" => FirstOf(buf, n) = typed
        BY <1>0 DEF LineHonest
      <4> QED BY <4>1, <4>2
    <3>4. CASE n + 1 = LineLen
      <4>1. End(line, n + 1, s, longer = "n")
        BY <1>5, <2>2, <3>4 DEF Letter
      <4>2. n + 1 \in 0..LineLen /\ n + 1 # 0
        BY <1>0, <3>1
      <4> HIDE DEF line, s
      <4> QED BY <1>0, <3>2, <3>3, <4>1, <4>2, EndHonest
    <3>5. CASE n + 1 # LineLen
      <4>1. /\ buf' = line /\ n' = n + 1 /\ typed' = s
            /\ UNCHANGED <<pc, hbuf, hblen, last, longer>>
        BY <1>5, <2>2, <3>5 DEF Letter, Continue, historyVars
      <4>2. LineHonest'
        BY <1>0, <3>3, <4>1 DEF LineHonest, FirstOf
      <4>3. ShellTyped' /\ LineFits'
        BY <1>0, <2>0, <3>1, <3>2, <3>5, <4>1 DEF ShellTyped, LineFits
      <4> QED BY <4>2, <4>3 DEF LineInv
    <3> QED BY <3>4, <3>5
  <2> QED BY <2>1, <2>2
<1>6. CASE Control \/ Escape \/ Bracket \/ Unknown
  <2>1. Same
    BY <1>6 DEF Control, Escape, Bracket, Unknown, Continue, lineVars, historyVars
  <2> QED BY <1>1, <2>1
<1>7. ASSUME NEW enter \in BOOLEAN, Recall(enter)
      PROVE  LineInv'
  <2> DEFINE line == memcpy(buf, hbuf, hblen)
             blanks == Max({n - hblen, 0})
             s == IF longer = "no" THEN last ELSE <<>>
  <2>0. /\ pc = "gets" /\ n \in 0..LineLen /\ hblen \in 0..LineLen
        /\ buf \in [0..LineLen -> LineChars] /\ hbuf \in [0..LineLen -> LineChars]
        /\ longer \in {"no", "hblen", "n"}
    BY <1>0, <1>7 DEF Recall, Reads, ShellTyped
  <2>1. line \in [0..LineLen -> LineChars] /\ FirstOf(line, hblen) = FirstOf(hbuf, hblen)
    BY <2>0, CopyKept
  <2>2. longer = "no" => FirstOf(line, hblen) = s
    BY <1>0, <2>1 DEF LineHonest
  <2>3. CASE hblen = 0
    <3>1. Same
      BY <1>7, <2>3 DEF Recall, Continue, historyVars
    <3> QED BY <1>1, <3>1
  <2>4. CASE hblen # 0 /\ enter
    <3>1. End(line, hblen, s, longer # "no")
      BY <1>7, <2>4 DEF Recall
    <3> HIDE DEF line, s
    <3> QED BY <1>0, <2>0, <2>1, <2>2, <2>4, <3>1, EndHonest
  <2>5. CASE hblen # 0 /\ ~enter
    <3>1. /\ buf' = line /\ n' = hblen /\ typed' = s
          /\ hblen' = hblen + blanks
          /\ longer' = IF longer # "no" THEN "n" ELSE IF blanks > 0 THEN "hblen" ELSE "no"
          /\ UNCHANGED <<pc, hbuf, last>>
      BY <1>7, <2>5 DEF Recall
    <3>2. blanks = IF n > hblen THEN n - hblen ELSE 0
      BY <2>0, MaxWithZero
    <3> HIDE DEF line, s, blanks
    <3>3. LineHonest'
      BY <1>0, <2>0, <2>1, <2>2, <3>1, <3>2 DEF LineHonest
    <3>4. ShellTyped' /\ LineFits'
      BY <1>0, <2>0, <2>1, <3>1, <3>2 DEF ShellTyped, LineFits
    <3> QED BY <3>3, <3>4 DEF LineInv
  <2> QED BY <2>3, <2>4, <2>5
<1>8. CASE Command
  <2>1. /\ pc' = "prompt" /\ n' = 0 /\ typed' = <<>>
        /\ buf' = [i \in DOMAIN buf |-> IF i = strchr(buf, Blank) THEN Nul ELSE buf[i]]
        /\ longer' = IF longer = "n" THEN "hblen" ELSE longer
        /\ hbuf' = hbuf /\ hblen' = hblen /\ last' = last
    BY <1>8 DEF Command, historyVars
  <2>2. buf' \in [0..LineLen -> LineChars]
    BY <1>0, <2>1 DEF ShellTyped, LineChars
  <2>3. FirstOf(buf', 0) = <<>>
    BY DEF FirstOf
  <2>4. LineHonest'
    BY <1>0, <2>1, <2>3 DEF LineHonest, ShellTyped
  <2>5. longer' \in {"no", "hblen", "n"} /\ hbuf' = hbuf /\ hblen' \in 0..LineLen
    BY <1>0, <2>1 DEF ShellTyped
  <2>6. pc' = "prompt" /\ n' = 0
    BY <2>1
  <2>7. ShellTyped' /\ LineFits'
    BY <1>0, <2>2, <2>5, <2>6 DEF ShellTyped, LineFits
  <2> QED BY <2>4, <2>7 DEF LineInv
<1>9. CASE (\E a \in Printers \ {Console} : OtherPrints(a)) \/ UNCHANGED vars
           \/ \E a \in Printers : PrintkStep(a) /\ UNCHANGED <<shellVars, bounds>>
  <2>1. Same
    BY <1>9 DEF OtherPrints, vars, shellVars, lineVars, historyVars
  <2> QED BY <1>1, <2>1
<1> QED BY <1>2, <1>3, <1>4, <1>5, <1>6, <1>7, <1>8, <1>9 DEF Next, Key

\* However a line is typed, corrected and recalled, gets returns what it should
\* hold, and a recall brings back the last line, for lines of any length, until UP
\* makes hblen too long; only a full line that has been recalled lets a key write
\* behind buf (gets).
THEOREM LinesAlwaysHonest == Spec => []LineHonest
<1>1. LineInv /\ [Next]_vars => LineInv'
  BY LineStep
<1>2. LineInv => LineHonest
  BY DEF LineInv
<1> QED BY <1>1, <1>2, LineInit, PTL DEF Spec
-----------------------------------------------------------------------------
(* Messages                                                                *)

MsgChars == {"t", "i", "s", "\n", "\r"}

\* WithReturns, character by character
Upto(s) ==
  CHOOSE r : r = [i \in 0..Len(s) |-> IF i = 0 THEN <<>> ELSE r[i - 1] \o Returned(s[i])]

LEMMA HasLeast ==
  ASSUME NEW T, T \subseteq Nat, T # {}
  PROVE  \E m \in T : \A y \in T : m <= y
<1> DEFINE R == {ss \in Nat \X Nat : ss[1] < ss[2]}
<1>1. IsWellFoundedOn(R, Nat)
  BY NatLessThanWellFounded DEF OpToRel
<1>2. PICK x \in T : \A y \in T : ~ (<<y, x>> \in R)
  BY <1>1, WFMin
<1>3. \A y \in T : ~(y < x)
  BY <1>2
<1>4. \A y \in T : x <= y
  BY <1>3
<1> QED BY <1>4

\* The function that Upto chooses exists for every sequence.
LEMMA UptoDef ==
  ASSUME NEW s \in Seq(MsgChars)
  PROVE  /\ Upto(s)[0] = <<>>
         /\ \A i \in 1..Len(s) : Upto(s)[i] = Upto(s)[i - 1] \o Returned(s[i])
<1> DEFINE Good(r, k) == r = [i \in 0..k |-> IF i = 0 THEN <<>> ELSE r[i - 1] \o Returned(s[i])]
           T == {k \in Nat : ~\E r : Good(r, k)}
<1>0. Len(s) \in Nat
  OBVIOUS
<1>1. T = {}
  <2> SUFFICES ASSUME T # {} PROVE FALSE
    OBVIOUS
  <2>1. PICK k \in T : \A y \in T : k <= y
    BY HasLeast
  <2>2. k \in Nat /\ ~\E r : Good(r, k)
    BY <2>1
  <2>3. CASE k = 0
    <3>1. Good([i \in 0..0 |-> <<>>], 0)
      OBVIOUS
    <3> QED BY <2>2, <2>3, <3>1
  <2>4. CASE k # 0
    <3>0. k - 1 \in Nat /\ ~(k <= k - 1)
      BY <2>2, <2>4
    <3>1. k - 1 \in Nat /\ k - 1 \notin T
      BY <2>1, <3>0
    <3>2. PICK q : Good(q, k - 1)
      BY <3>1
    <3> DEFINE r == [i \in 0..k |-> IF i = k THEN q[k - 1] \o Returned(s[k]) ELSE q[i]]
    <3>3. ASSUME NEW i \in 0..k
          PROVE  r[i] = IF i = 0 THEN <<>> ELSE r[i - 1] \o Returned(s[i])
      <4>1. CASE i = k
        <5>1. k - 1 \in 0..k /\ k - 1 # k /\ i # 0
          BY <2>2, <2>4, <4>1
        <5>2. r[k - 1] = q[k - 1] /\ r[i] = q[k - 1] \o Returned(s[i])
          BY <4>1, <5>1
        <5> QED BY <4>1, <5>1, <5>2
      <4>2. CASE i # k
        <5>1. i \in 0..(k - 1) /\ (i # 0 => i - 1 \in 0..(k - 1) /\ i - 1 # k /\ i - 1 \in 0..k)
          BY <2>2, <4>2
        <5>2. q[i] = IF i = 0 THEN <<>> ELSE q[i - 1] \o Returned(s[i])
          BY <3>2, <5>1
        <5> QED BY <4>2, <5>1, <5>2
      <4> QED BY <4>1, <4>2
    <3>4. Good(r, k)
      BY <3>3
    <3> QED BY <2>2, <3>4
  <2> QED BY <2>3, <2>4
<1>2. \E r : Good(r, Len(s))
  BY <1>0, <1>1, Zenon
<1>3. Good(Upto(s), Len(s))
  BY <1>2, Zenon DEF Upto
<1> HIDE DEF T
<1>4. ASSUME NEW i \in 0..Len(s)
      PROVE  Upto(s)[i] = IF i = 0 THEN <<>> ELSE Upto(s)[i - 1] \o Returned(s[i])
  BY <1>3
<1> HIDE DEF Good
<1>5. 0 \in 0..Len(s) /\ \A i \in 1..Len(s) : i \in 0..Len(s) /\ i # 0
  BY <1>0
<1> QED BY <1>4, <1>5

LEMMA UptoAll == \A s : WithReturns(s) = Upto(s)[Len(s)]
BY DEF WithReturns, Upto

LEMMA ReturnedTyped == \A ch \in MsgChars : Returned(ch) \in Seq(MsgChars)
<1> SUFFICES ASSUME NEW ch \in MsgChars PROVE Returned(ch) \in Seq(MsgChars)
  OBVIOUS
<1>1. "\r" \in MsgChars
  BY DEF MsgChars
<1>2. <<"\r", ch>> \in Seq(MsgChars) /\ <<ch>> \in Seq(MsgChars)
  BY <1>1
<1> QED BY <1>2 DEF Returned

LEMMA UptoTyped ==
  ASSUME NEW s \in Seq(MsgChars)
  PROVE  \A i \in 0..Len(s) : Upto(s)[i] \in Seq(MsgChars)
<1> DEFINE T == {i \in 0..Len(s) : Upto(s)[i] \notin Seq(MsgChars)}
<1>0. Len(s) \in Nat /\ T \subseteq Nat
  OBVIOUS
<1> SUFFICES ASSUME T # {} PROVE FALSE
  OBVIOUS
<1>1. PICK k \in T : \A y \in T : k <= y
  BY <1>0, HasLeast
<1>2. k \in 0..Len(s) /\ Upto(s)[k] \notin Seq(MsgChars)
  BY <1>1
<1>3. k # 0
  <2>1. <<>> \in Seq(MsgChars)
    OBVIOUS
  <2> QED BY <1>2, <2>1, UptoDef
<1>4. k \in 1..Len(s) /\ k - 1 \in 0..Len(s) /\ ~(k <= k - 1)
  BY <1>0, <1>2, <1>3
<1>5. Upto(s)[k - 1] \in Seq(MsgChars)
  BY <1>1, <1>4
<1>6. s[k] \in MsgChars /\ Upto(s)[k] = Upto(s)[k - 1] \o Returned(s[k])
  <2>1. s[k] \in MsgChars
    BY <1>4
  <2>2. \A i \in 1..Len(s) : Upto(s)[i] = Upto(s)[i - 1] \o Returned(s[i])
    BY UptoDef
  <2> QED BY <1>4, <2>1, <2>2
<1>7. Upto(s)[k] \in Seq(MsgChars)
  <2>1. Returned(s[k]) \in Seq(MsgChars)
    BY <1>6, ReturnedTyped
  <2> QED BY <1>5, <1>6, <2>1
<1> QED BY <1>2, <1>7

LEMMA ReturnsTyped ==
  ASSUME NEW s \in Seq(MsgChars)
  PROVE  WithReturns(s) \in Seq(MsgChars)
BY UptoTyped, UptoAll

LEMMA ReturnsOne ==
  ASSUME NEW ch \in MsgChars
  PROVE  WithReturns(<<ch>>) = Returned(ch)
<1>1. <<ch>> \in Seq(MsgChars) /\ Len(<<ch>>) = 1 /\ <<ch>>[1] = ch
  OBVIOUS
<1> DEFINE one == <<ch>>
<1> HIDE DEF one
<1>2. one \in Seq(MsgChars) /\ Len(one) = 1 /\ one[1] = ch
  BY <1>1 DEF one
<1>3. 1 \in 1..Len(one) /\ 1 - 1 = 0
  BY <1>2
<1>4. Upto(one)[0] = <<>> /\ Upto(one)[1] = Upto(one)[1 - 1] \o Returned(one[1])
  BY <1>2, <1>3, UptoDef
<1>5. Upto(one)[1] = <<>> \o Returned(ch)
  BY <1>2, <1>3, <1>4
<1>6. <<>> \o Returned(ch) = Returned(ch)
  <2>1. Returned(ch) \in Seq(MsgChars)
    BY ReturnedTyped
  <2> QED BY <2>1
<1>7. WithReturns(one) = Returned(ch)
  BY <1>2, <1>5, <1>6, UptoAll
<1> QED BY <1>7 DEF one

MsgTyped ==
  /\ printk_buf \in [0..(Size - 1) -> MsgChars \cup {Nul}]
  /\ phase \in [Printers -> {"idle", "format", "puts"}]
  /\ text \in [Printers -> Seq(MsgChars)] /\ out \in [Printers -> Seq(MsgChars)]
  /\ at \in [Printers -> Nat] /\ alone \in [Printers -> BOOLEAN] /\ filled \in BOOLEAN

\* The last place has a Nul until a message takes it, and puts does not pass it.
NulThere ==
  ~filled => /\ printk_buf[Size - 1] = Nul
             /\ \A a \in Printers : phase[a] = "puts" => at[a] < Size

\* A printk that is alone is the only one.
AloneIs ==
  \A a, b \in Printers : alone[a] /\ phase[a] # "idle" /\ b # a => phase[b] = "idle"

\* What such a printk has formatted, and put.
Formatted(a, k) == \A i \in 0..(k - 1) : printk_buf[i] = text[a][i + 1]

Whole(a) ==
  alone[a] /\ Len(text[a]) < Size =>
    /\ phase[a] = "format" => at[a] <= Len(text[a]) /\ Formatted(a, at[a]) /\ out[a] = <<>>
    /\ phase[a] = "puts" =>
         /\ at[a] <= Len(text[a]) /\ Formatted(a, Len(text[a]))
         /\ printk_buf[Len(text[a])] = Nul
         /\ out[a] = Upto(text[a])[at[a]]

MsgInv == MsgTyped /\ NulThere /\ AloneIs /\ \A a \in Printers : Whole(a)

LEMMA MsgInit == Init => MsgInv
<1> SUFFICES ASSUME Init PROVE MsgInv
  OBVIOUS
<1>1. Size \in Nat \ {0}
  BY PrintkAssumption
<1>2. /\ printk_buf = [i \in 0..(Size - 1) |-> Nul] /\ phase = [a \in Printers |-> "idle"]
      /\ text = [a \in Printers |-> <<>>] /\ at = [a \in Printers |-> 0]
      /\ out = [a \in Printers |-> <<>>] /\ alone = [a \in Printers |-> TRUE] /\ filled = FALSE
  BY DEF Init, PrintkInit
<1>3. <<>> \in Seq(MsgChars)
  OBVIOUS
<1>4. MsgTyped
  BY <1>1, <1>2, <1>3 DEF MsgTyped
<1>5. NulThere /\ AloneIs /\ \A a \in Printers : Whole(a)
  BY <1>1, <1>2 DEF NulThere, AloneIs, Whole
<1> QED BY <1>4, <1>5 DEF MsgInv

\* A message that begins, of which nothing is in the buffer yet.
LEMMA CallStep ==
  ASSUME MsgInv, NEW a \in Printers, NEW s \in Seq(MsgChars), Call(a, s)
  PROVE  MsgInv'
<1>1. /\ phase[a] = "idle" /\ phase' = [phase EXCEPT ![a] = "format"]
      /\ text' = [text EXCEPT ![a] = WithReturns(s)] /\ at' = [at EXCEPT ![a] = 0]
      /\ out' = [out EXCEPT ![a] = <<>>]
      /\ alone' = [b \in Printers |-> IF b = a THEN Busy = {} ELSE phase[b] = "idle"]
      /\ printk_buf' = printk_buf /\ filled' = filled
  BY DEF Call
<1>2. WithReturns(s) \in Seq(MsgChars) /\ <<>> \in Seq(MsgChars)
  BY ReturnsTyped
<1>3. MsgTyped'
  <2>1. alone' \in [Printers -> BOOLEAN]
    BY <1>1
  <2>2. text' \in [Printers -> Seq(MsgChars)] /\ out' \in [Printers -> Seq(MsgChars)]
    BY <1>1, <1>2 DEF MsgInv, MsgTyped
  <2>3. phase' \in [Printers -> {"idle", "format", "puts"}] /\ at' \in [Printers -> Nat]
    BY <1>1 DEF MsgInv, MsgTyped
  <2> QED BY <1>1, <2>1, <2>2, <2>3 DEF MsgInv, MsgTyped
<1>4. NulThere'
  BY <1>1 DEF MsgInv, MsgTyped, NulThere
<1>5. \A b \in Printers : b # a => phase'[b] = phase[b] /\ (alone'[b] <=> phase[b] = "idle")
  BY <1>1 DEF MsgInv, MsgTyped
<1>6. alone'[a] => \A b \in Printers : phase[b] = "idle"
  BY <1>1 DEF Busy
<1>7. AloneIs'
  BY <1>5, <1>6 DEF AloneIs
<1>8. Whole(a)'
  <2>1. phase'[a] = "format" /\ at'[a] = 0 /\ text'[a] = WithReturns(s) /\ out'[a] = <<>>
    BY <1>1 DEF MsgInv, MsgTyped
  <2>2. Len(text'[a]) \in Nat
    BY <1>2, <2>1
  <2> QED BY <2>1, <2>2 DEF Whole, Formatted
<1>9. ASSUME NEW b \in Printers, b # a
      PROVE  Whole(b)'
  BY <1>5, <1>9 DEF Whole
<1> QED BY <1>3, <1>4, <1>7, <1>8, <1>9 DEF MsgInv

\* While one formats or puts, the others that are busy are not alone.
LEMMA OthersWhole ==
  ASSUME MsgInv, NEW a \in Printers, phase[a] # "idle",
         \A b \in Printers : b # a => phase'[b] = phase[b], alone' = alone
  PROVE  \A b \in Printers : b # a => Whole(b)'
<1>1. \A b \in Printers : b # a /\ alone[b] => phase[b] = "idle"
  BY DEF MsgInv, AloneIs
<1> QED BY <1>1 DEF Whole

LEMMA FormatStep ==
  ASSUME MsgInv, NEW a \in Printers, Format(a)
  PROVE  MsgInv'
<1> DEFINE i == at[a]
           more == i < Len(text[a])
<1>0. Size \in Nat \ {0} /\ MsgTyped
  BY PrintkAssumption DEF MsgInv
<1>1. /\ phase[a] = "format" /\ i \in 0..(Size - 1)
      /\ printk_buf' = [printk_buf EXCEPT ![i] = IF more THEN text[a][i + 1] ELSE Nul]
      /\ filled' = (filled \/ (more /\ i + 1 = Size))
      /\ text' = text /\ out' = out /\ alone' = alone
  BY <1>0 DEF Format, Places, MsgTyped
<1>2. more => at' = [at EXCEPT ![a] = i + 1] /\ phase' = phase
  BY DEF Format
<1>3. ~more => at' = [at EXCEPT ![a] = 0] /\ phase' = [phase EXCEPT ![a] = "puts"]
  BY DEF Format
<1>4. text[a] \in Seq(MsgChars) /\ Len(text[a]) \in Nat /\ i \in Nat
  BY <1>0 DEF MsgTyped
<1>5. more => text[a][i + 1] \in MsgChars
  BY <1>4
<1>6. \A b \in Printers : b # a => phase'[b] = phase[b] /\ at'[b] = at[b]
  BY <1>0, <1>2, <1>3 DEF MsgTyped
<1>7. MsgTyped'
  <2>1. printk_buf' \in [0..(Size - 1) -> MsgChars \cup {Nul}]
    BY <1>0, <1>1, <1>5 DEF MsgTyped
  <2>2. phase' \in [Printers -> {"idle", "format", "puts"}] /\ at' \in [Printers -> Nat]
    <3>1. phase \in [Printers -> {"idle", "format", "puts"}] /\ at \in [Printers -> Nat] /\ i + 1 \in Nat
      BY <1>0, <1>4 DEF MsgTyped
    <3>2. CASE more
      BY <1>2, <3>1, <3>2
    <3>3. CASE ~more
      BY <1>3, <3>1, <3>3
    <3> QED BY <3>2, <3>3
  <2>3. filled' \in BOOLEAN
    BY <1>1
  <2> QED BY <1>0, <1>1, <2>1, <2>2, <2>3 DEF MsgTyped
<1>8. NulThere'
  <2> SUFFICES ASSUME ~filled'
               PROVE  /\ printk_buf'[Size - 1] = Nul
                      /\ \A b \in Printers : phase'[b] = "puts" => at'[b] < Size
    BY DEF NulThere
  <2>1. ~filled /\ (more => i + 1 # Size)
    BY <1>1
  <2>2. printk_buf[Size - 1] = Nul /\ \A b \in Printers : phase[b] = "puts" => at[b] < Size
    BY <2>1 DEF MsgInv, NulThere
  <2>3. printk_buf'[Size - 1] = Nul
    BY <1>0, <1>1, <2>1, <2>2 DEF MsgTyped
  <2>4. phase'[a] = "puts" => at'[a] < Size
    BY <1>0, <1>1, <1>2, <1>3 DEF MsgTyped
  <2> QED BY <1>6, <2>2, <2>3, <2>4
<1>9. AloneIs'
  BY <1>0, <1>1, <1>2, <1>3 DEF AloneIs, MsgInv, MsgTyped
<1>10. Whole(a)'
  <2> SUFFICES ASSUME alone[a], Len(text[a]) < Size
               PROVE  Whole(a)'
    BY <1>1 DEF Whole
  <2>1. i <= Len(text[a]) /\ Formatted(a, i) /\ out[a] = <<>>
    BY <1>1 DEF MsgInv, Whole
  <2>2. CASE more
    <3>1. phase'[a] = "format" /\ at'[a] = i + 1 /\ i + 1 <= Len(text[a])
      BY <1>0, <1>1, <1>2, <1>4, <2>2 DEF MsgTyped
    <3>2. \A j \in 0..(i + 1 - 1) : printk_buf'[j] = text[a][j + 1]
      <4>1. /\ printk_buf' = [printk_buf EXCEPT ![i] = text[a][i + 1]]
            /\ printk_buf \in [0..(Size - 1) -> MsgChars \cup {Nul}]
        BY <1>0, <1>1, <2>2 DEF MsgTyped
      <4>2. \A j \in 0..(i - 1) : printk_buf[j] = text[a][j + 1]
        BY <2>1 DEF Formatted
      <4> HIDE DEF i, more
      <4>3. SUFFICES ASSUME NEW j \in 0..(i + 1 - 1)
                     PROVE  printk_buf'[j] = text[a][j + 1]
        OBVIOUS
      <4>4. j \in 0..(Size - 1) /\ (j # i => j \in 0..(i - 1))
        BY <1>0, <1>1, <1>4
      <4> QED BY <4>1, <4>2, <4>4
    <3> QED BY <1>1, <2>1, <3>1, <3>2 DEF Whole, Formatted
  <2>3. CASE ~more
    <3>1. phase'[a] = "puts" /\ at'[a] = 0 /\ i = Len(text[a])
      BY <1>0, <1>3, <1>4, <2>1, <2>3 DEF MsgTyped
    <3>2. \A j \in 0..(Len(text[a]) - 1) : printk_buf'[j] = text[a][j + 1]
      BY <1>0, <1>1, <1>4, <2>1, <3>1 DEF Formatted, MsgTyped
    <3>3. printk_buf'[Len(text[a])] = Nul
      BY <1>0, <1>1, <2>3, <3>1 DEF MsgTyped
    <3>4. Upto(text[a])[0] = <<>>
      BY <1>4, UptoDef
    <3> QED BY <1>1, <1>4, <2>1, <3>1, <3>2, <3>3, <3>4 DEF Whole, Formatted
  <2> QED BY <2>2, <2>3
<1>11. \A b \in Printers : b # a => Whole(b)'
  BY <1>1, <1>6, OthersWhole
<1> QED BY <1>7, <1>8, <1>9, <1>10, <1>11 DEF MsgInv

LEMMA FullStep ==
  ASSUME MsgInv, NEW a \in Printers, Full(a)
  PROVE  MsgInv'
<1>0. Size \in Nat \ {0} /\ MsgTyped
  BY PrintkAssumption DEF MsgInv
<1>1. /\ phase[a] = "format" /\ at[a] >= Size
      /\ phase' = [phase EXCEPT ![a] = "puts"] /\ at' = [at EXCEPT ![a] = 0]
      /\ printk_buf' = printk_buf /\ text' = text /\ out' = out /\ alone' = alone /\ filled' = filled
  BY DEF Full, Places
<1>2. MsgTyped'
  BY <1>0, <1>1 DEF MsgTyped
<1>3. NulThere'
  BY <1>0, <1>1 DEF NulThere, MsgInv, MsgTyped
<1>4. AloneIs'
  BY <1>0, <1>1 DEF AloneIs, MsgInv, MsgTyped
<1>5. Whole(a)'
  <2>1. alone[a] /\ Len(text[a]) < Size => at[a] <= Len(text[a])
    BY <1>1 DEF MsgInv, Whole
  <2>2. Len(text[a]) \in Nat /\ at[a] \in Nat
    BY <1>0 DEF MsgTyped
  <2> QED BY <1>0, <1>1, <2>1, <2>2 DEF Whole
<1>6. \A b \in Printers : b # a => Whole(b)'
  BY <1>0, <1>1, OthersWhole DEF MsgTyped
<1> QED BY <1>2, <1>3, <1>4, <1>5, <1>6 DEF MsgInv

\* Where puts is in a message that is alone.
LEMMA PutsThere ==
  ASSUME MsgInv, NEW a \in Printers, phase[a] = "puts", alone[a], Len(text[a]) < Size
  PROVE  /\ at[a] \in 0..Len(text[a]) /\ out[a] = Upto(text[a])[at[a]]
         /\ at[a] < Size
         /\ printk_buf[at[a]] = Nul <=> at[a] = Len(text[a])
         /\ at[a] < Len(text[a]) => printk_buf[at[a]] = text[a][at[a] + 1]
<1>0. Size \in Nat \ {0} /\ MsgTyped
  BY PrintkAssumption DEF MsgInv
<1>1. /\ at[a] <= Len(text[a]) /\ Formatted(a, Len(text[a]))
      /\ printk_buf[Len(text[a])] = Nul /\ out[a] = Upto(text[a])[at[a]]
  BY DEF MsgInv, Whole
<1>2. text[a] \in Seq(MsgChars) /\ Len(text[a]) \in Nat /\ at[a] \in Nat
  BY <1>0 DEF MsgTyped
<1>3. at[a] < Len(text[a]) => printk_buf[at[a]] = text[a][at[a] + 1] /\ text[a][at[a] + 1] \in MsgChars
  BY <1>1, <1>2 DEF Formatted
<1>4. Nul \notin MsgChars
  BY DEF Nul, MsgChars
<1> QED BY <1>0, <1>1, <1>2, <1>3, <1>4

LEMMA PutStep ==
  ASSUME MsgInv, NEW a \in Printers, Put(a)
  PROVE  MsgInv'
<1> DEFINE i == at[a]
           goes == i < Size /\ printk_buf[i] # Nul
<1>0. Size \in Nat \ {0} /\ MsgTyped /\ i \in Nat
  BY PrintkAssumption DEF MsgInv, MsgTyped
<1>1. phase[a] = "puts" /\ printk_buf' = printk_buf /\ alone' = alone /\ filled' = filled
  BY DEF Put
<1>2. CASE goes
  <2>1. /\ out' = [out EXCEPT ![a] = @ \o WithReturns(<<printk_buf[i]>>)]
        /\ at' = [at EXCEPT ![a] = i + 1] /\ phase' = phase /\ text' = text
    BY <1>2 DEF Put
  <2>2. printk_buf[i] \in MsgChars
    BY <1>0, <1>2 DEF MsgTyped
  <2>3. WithReturns(<<printk_buf[i]>>) = Returned(printk_buf[i]) /\ Returned(printk_buf[i]) \in Seq(MsgChars)
    BY <2>2, ReturnsOne, ReturnedTyped
  <2>4. out'[a] = out[a] \o Returned(printk_buf[i]) /\ at'[a] = i + 1 /\ out'[a] \in Seq(MsgChars)
    <3>1. out[a] \in Seq(MsgChars)
      BY <1>0 DEF MsgTyped
    <3>2. out'[a] = out[a] \o Returned(printk_buf[i]) /\ at'[a] = i + 1
      BY <1>0, <2>1, <2>3 DEF MsgTyped
    <3> HIDE DEF i
    <3>3. out[a] \o Returned(printk_buf[i]) \in Seq(MsgChars)
      BY <2>3, <3>1
    <3> QED BY <3>2, <3>3
  <2>5. MsgTyped'
    <3>1. out' \in [Printers -> Seq(MsgChars)]
      BY <1>0, <2>1, <2>4 DEF MsgTyped
    <3> QED BY <1>0, <1>1, <2>1, <3>1 DEF MsgTyped
  <2>6. NulThere'
    <3>1. ~filled => i + 1 < Size
      BY <1>0, <1>2 DEF MsgInv, NulThere
    <3> QED BY <1>0, <1>1, <2>1, <3>1 DEF NulThere, MsgInv, MsgTyped
  <2>7. AloneIs'
    BY <1>1, <2>1 DEF AloneIs, MsgInv
  <2>8. Whole(a)'
    <3> SUFFICES ASSUME alone[a], Len(text[a]) < Size
                 PROVE  Whole(a)'
      BY <1>1, <2>1 DEF Whole
    <3>1. i \in 0..Len(text[a]) /\ out[a] = Upto(text[a])[i] /\ i # Len(text[a])
          /\ (i < Len(text[a]) => printk_buf[i] = text[a][i + 1])
      BY <1>1, <1>2, PutsThere
    <3>2. text[a] \in Seq(MsgChars) /\ Len(text[a]) \in Nat
      BY <1>0 DEF MsgTyped
    <3>3. i + 1 \in 1..Len(text[a]) /\ (i + 1) - 1 = i /\ i < Len(text[a])
      BY <3>1, <3>2
    <3>4. \A j \in 1..Len(text[a]) : Upto(text[a])[j] = Upto(text[a])[j - 1] \o Returned(text[a][j])
      BY <3>2, UptoDef
    <3>5. Upto(text[a])[i + 1] = Upto(text[a])[(i + 1) - 1] \o Returned(text[a][i + 1])
      BY <3>3, <3>4
    <3>6. out'[a] = Upto(text[a])[i + 1]
      BY <2>4, <3>1, <3>3, <3>5
    <3>7. Formatted(a, Len(text[a])) /\ printk_buf[Len(text[a])] = Nul
      BY <1>1 DEF MsgInv, Whole
    <3> QED BY <1>1, <2>1, <2>4, <3>2, <3>3, <3>6, <3>7 DEF Whole, Formatted
  <2>9. \A b \in Printers : b # a => Whole(b)'
    BY <1>1, <2>1, OthersWhole
  <2> QED BY <2>5, <2>6, <2>7, <2>8, <2>9 DEF MsgInv
<1>3. CASE ~goes
  <2>1. /\ phase' = [phase EXCEPT ![a] = "idle"] /\ text' = [text EXCEPT ![a] = <<>>]
        /\ out' = [out EXCEPT ![a] = <<>>] /\ at' = [at EXCEPT ![a] = 0]
    BY <1>3 DEF Put
  <2>2. <<>> \in Seq(MsgChars)
    OBVIOUS
  <2>3. MsgTyped'
    BY <1>0, <1>1, <2>1, <2>2 DEF MsgTyped
  <2>4. NulThere' /\ AloneIs' /\ Whole(a)'
    BY <1>0, <1>1, <2>1 DEF NulThere, AloneIs, Whole, MsgInv, MsgTyped
  <2>5. \A b \in Printers : b # a => Whole(b)'
    BY <1>0, <1>1, <2>1, OthersWhole DEF MsgTyped
  <2> QED BY <2>3, <2>4, <2>5 DEF MsgInv
<1> QED BY <1>2, <1>3

\* What the shell and the others print are characters.
LEMMA ShowsMarks ==
  ASSUME NEW k \in Nat, Show(k)
  PROVE  \E a \in Printers, s \in Seq(MsgChars) : Call(a, s)
<1>1. Marks(k) \in Seq(MsgChars)
  BY DEF Marks, MsgChars
<1> QED BY <1>1, ShellAssumption DEF Show

LEMMA OtherShows ==
  ASSUME NEW a \in Printers \ {Console}, OtherPrints(a)
  PROVE  Call(a, Others[a]) /\ Others[a] \in Seq(MsgChars)
<1>1. Others[a] \in Seq({"t", "i", "\n"})
  BY ShellAssumption
<1>2. Others[a] \in Seq(MsgChars)
  BY <1>1 DEF MsgChars
<1> QED BY <1>2 DEF OtherPrints

LEMMA LengthIs ==
  ASSUME LineInv
  PROVE  strlen(hbuf) \in Nat
<1> DEFINE S == {i \in DOMAIN hbuf : hbuf[i] = Nul}
<1>1. S \subseteq Nat /\ S # {}
  <2>1. hbuf \in [0..LineLen -> LineChars] /\ \E i \in 0..LineLen : hbuf[i] = Nul
    BY DEF LineInv, ShellTyped, LineFits
  <2>2. DOMAIN hbuf = 0..LineLen
    BY <2>1
  <2> QED BY <2>1, <2>2
<1>2. \E m \in S : \A y \in S : m <= y
  BY <1>1, HasLeast
<1>3. Min(S) \in S
  BY <1>1, <1>2 DEF Min
<1> QED BY <1>1, <1>3 DEF strlen

\* What a step does to the messages.
LEMMA PrintsOrNot ==
  ASSUME LineInv, [Next]_vars
  PROVE  \/ UNCHANGED printVars
         \/ \E a \in Printers, s \in Seq(MsgChars) : Call(a, s)
         \/ \E a \in Printers : PrintkStep(a)
<1> DEFINE Calls == \E a \in Printers, s \in Seq(MsgChars) : Call(a, s)
           Goal == UNCHANGED printVars \/ Calls \/ \E a \in Printers : PrintkStep(a)
<1> SUFFICES Goal
  OBVIOUS
<1> HIDE DEF Goal
<1>1. 1 \in Nat /\ (Show(1) => Calls)
  BY ShowsMarks
<1>2. CASE Prompt \/ Enter \/ Control \/ Unknown \/ \E ch \in Letters : Letter(ch)
  <2>1. Show(1)
    BY <1>2 DEF Prompt, Enter, Control, Unknown, Letter
  <2> QED BY <1>1, <2>1 DEF Goal
<1>3. CASE Backspace
  <2>1. UNCHANGED printVars \/ Show(1)
    BY <1>3 DEF Backspace
  <2> QED BY <1>1, <2>1 DEF Goal
<1>4. CASE Escape \/ Bracket \/ Command
  <2>1. UNCHANGED printVars
    BY <1>4 DEF Escape, Bracket, Command
  <2> QED BY <2>1 DEF Goal
<1>5. ASSUME NEW enter \in BOOLEAN, Recall(enter)
      PROVE  Goal
  <2> DEFINE blanks == Max({n - hblen, 0})
  <2>1. UNCHANGED printVars \/ Show(1 + strlen(hbuf) + blanks)
    BY <1>5 DEF Recall
  <2>2. n - hblen \in Int
    BY ShellAssumption DEF LineInv, ShellTyped
  <2>3. blanks \in Nat
    BY <2>2, MaxWithZero
  <2>4. 1 + strlen(hbuf) + blanks \in Nat
    BY <2>3, LengthIs
  <2> HIDE DEF blanks
  <2>5. Show(1 + strlen(hbuf) + blanks) => Calls
    BY <2>4, ShowsMarks
  <2> QED BY <2>1, <2>5 DEF Goal
<1>6. ASSUME NEW a \in Printers \ {Console}, OtherPrints(a)
      PROVE  Goal
  BY <1>6, OtherShows DEF Goal
<1>7. CASE UNCHANGED vars
  BY <1>7 DEF vars, Goal
<1>8. CASE \E a \in Printers : PrintkStep(a) /\ UNCHANGED <<shellVars, bounds>>
  BY <1>8 DEF Goal
<1> QED BY <1>2, <1>3, <1>4, <1>5, <1>6, <1>7, <1>8 DEF Next, Key

LEMMA MsgStep ==
  ASSUME LineInv, MsgInv, [Next]_vars
  PROVE  MsgInv'
<1>1. CASE UNCHANGED printVars
  BY <1>1 DEF printVars, MsgInv, MsgTyped, NulThere, AloneIs, Whole, Formatted
<1>2. CASE \E a \in Printers, s \in Seq(MsgChars) : Call(a, s)
  BY <1>2, CallStep
<1>3. CASE \E a \in Printers : PrintkStep(a)
  BY <1>3, FormatStep, FullStep, PutStep DEF PrintkStep
<1> QED BY <1>1, <1>2, <1>3, PrintsOrNot

\* A printk that no other has overlapped puts the whole of its message and
\* nothing else, if the buffer holds it, and puts stays inside printk_buf until a
\* message has filled it: for any number of tasks and handlers, any messages and
\* any size of the buffer (printk, vsnprintk, puts).
THEOREM MessagesAlwaysHold == Spec => MessagesHold
<1> DEFINE A == \A a \in Printers : phase[a] = "puts" /\ phase'[a] = "idle" =>
                  /\ alone[a] /\ Len(text[a]) < Size => out[a] = WithReturns(text[a])
                  /\ at[a] >= Size => filled
<1>1. ASSUME LineInv, MsgInv, [Next]_vars
      PROVE  A
  <2> SUFFICES ASSUME NEW a \in Printers, phase[a] = "puts", phase'[a] = "idle"
               PROVE  /\ alone[a] /\ Len(text[a]) < Size => out[a] = WithReturns(text[a])
                      /\ at[a] >= Size => filled
    OBVIOUS
  <2>0. Size \in Nat \ {0} /\ MsgTyped
    BY <1>1, PrintkAssumption DEF MsgInv
  <2>1. at[a] >= Size => filled
    BY <1>1, <2>0 DEF MsgInv, NulThere, MsgTyped
  <2>2. Put(a)
    <3>1. CASE UNCHANGED printVars
      BY <3>1 DEF printVars
    <3>2. ASSUME NEW b \in Printers, NEW s, Call(b, s)
          PROVE  FALSE
      BY <2>0, <3>2 DEF Call, MsgTyped
    <3>3. ASSUME NEW b \in Printers, Format(b) \/ Full(b)
          PROVE  FALSE
      BY <2>0, <3>3 DEF Format, Full, MsgTyped
    <3>4. ASSUME NEW b \in Printers, Put(b)
          PROVE  b = a
      BY <2>0, <3>4 DEF Put, MsgTyped
    <3> QED BY <1>1, <3>1, <3>2, <3>3, <3>4, PrintsOrNot DEF PrintkStep
  <2>3. ASSUME alone[a], Len(text[a]) < Size
        PROVE  out[a] = WithReturns(text[a])
    <3>1. /\ at[a] \in 0..Len(text[a]) /\ out[a] = Upto(text[a])[at[a]] /\ at[a] < Size
          /\ printk_buf[at[a]] = Nul <=> at[a] = Len(text[a])
      BY <1>1, <2>3, PutsThere
    <3>2. printk_buf[at[a]] = Nul
      BY <2>0, <2>2, <3>1 DEF Put, MsgTyped
    <3> QED BY <3>1, <3>2, UptoAll
  <2> QED BY <2>1, <2>3
<1>2. LineInv /\ MsgInv /\ [Next]_vars => LineInv' /\ MsgInv'
  BY LineStep, MsgStep
<1>3. LineInv /\ MsgInv /\ [Next]_vars => [A]_printVars
  BY <1>1
<1> QED BY <1>2, <1>3, LineInit, MsgInit, PTL DEF Spec, MessagesHold
-----------------------------------------------------------------------------
(* Recursive functions                                                     *)

\* Induction over 0..top, of a set.
LEMMA Reaches ==
  ASSUME NEW top \in Nat, NEW T, 0 \in T, \A k \in 1..top : k - 1 \in T => k \in T
  PROVE  0..top \subseteq T
<1> DEFINE Rest == {k \in 0..top : k \notin T}
<1> SUFFICES ASSUME Rest # {} PROVE FALSE
  OBVIOUS
<1>1. Rest \subseteq Nat
  OBVIOUS
<1>2. PICK k \in Rest : \A y \in Rest : k <= y
  BY <1>1, HasLeast
<1>3. k \in 1..top /\ k - 1 \in 0..top /\ ~(k <= k - 1)
  BY <1>2
<1>4. k - 1 \in T
  BY <1>2, <1>3
<1> QED BY <1>2, <1>3, <1>4

\* Values that come one from another
Comes(f, top, base, F) == f[0] = base /\ \A k \in 1..top : f[k] = F[<<f[k - 1], k>>]

\* are those of a function.
LEMMA Recursion ==
  ASSUME NEW top \in Nat, NEW S, NEW base \in S, NEW F \in [S \X Nat -> S]
  PROVE  \E f \in [0..top -> S] : Comes(f, top, base, F)
<1> DEFINE Fits(f, k) == Comes(f, k, base, F)
           T == {k \in Nat : \E f \in [0..k -> S] : Fits(f, k)}
<1>1. 0 \in T
  <2>1. [i \in 0..0 |-> base] \in [0..0 -> S] /\ Fits([i \in 0..0 |-> base], 0)
    BY DEF Comes
  <2> QED BY <2>1
<1>2. ASSUME NEW k \in 1..top, k - 1 \in T
      PROVE  k \in T
  <2>1. PICK f \in [0..(k - 1) -> S] : f[0] = base /\ \A i \in 1..(k - 1) : f[i] = F[<<f[i - 1], i>>]
    BY <1>2 DEF Comes
  <2> DEFINE latest == F[<<f[k - 1], k>>]
             g == [i \in 0..k |-> IF i = k THEN latest ELSE f[i]]
  <2>2. latest \in S
    BY <2>1
  <2>3. \A i \in 0..k : i # k => i \in 0..(k - 1)
    OBVIOUS
  <2>4. g \in [0..k -> S]
    BY <2>2, <2>3
  <2>5. g[0] = base
    BY <2>1
  <2>6. ASSUME NEW i \in 1..k
        PROVE  g[i] = F[<<g[i - 1], i>>]
    <3>1. i - 1 \in 0..k /\ i - 1 # k /\ i \in 0..k
      OBVIOUS
    <3>2. g[i - 1] = f[i - 1]
      BY <3>1
    <3>3. CASE i = k
      BY <3>1, <3>2, <3>3
    <3>4. CASE i # k
      <4>1. i \in 1..(k - 1)
        BY <3>4
      <4> QED BY <2>1, <3>1, <3>2, <3>4, <4>1
    <3> QED BY <3>3, <3>4
  <2> HIDE DEF g
  <2>7. Fits(g, k)
    BY <2>5, <2>6 DEF Comes
  <2> QED BY <2>4, <2>7
<1> HIDE DEF T
<1>3. top \in T
  <2>1. 0..top \subseteq T
    BY <1>1, <1>2, Reaches
  <2> QED BY <2>1
<1> QED BY <1>3 DEF T
-----------------------------------------------------------------------------
(* Digits                                                                  *)

Bases == {8, 10, 16}
Digit(d) == DigitChars[d + 1]
Figures == {"0", "1", "2", "3", "4", "5", "6", "7", "8", "9", "a", "b", "c", "d", "e", "f"}

LEMMA DigitsThere ==
  /\ DigitChars \in Seq(Figures) /\ DOMAIN DigitChars = 1..16 /\ Len(DigitChars) = 16
  /\ \A d, e \in 0..15 : Digit(d) = Digit(e) => d = e
  /\ Digit(0) = "0"
  /\ \A d \in 0..15 : Digit(d) \in Figures
  /\ Blank \notin Figures /\ "x" \notin Figures /\ "-" \notin Figures
  /\ "+" \notin Figures /\ NoSign \notin Figures /\ Nul \notin Figures
<1> USE DEF DigitChars, Digit, Nul
<1>1. DOMAIN DigitChars = 1..16 /\ Len(DigitChars) = 16
  OBVIOUS
<1>6. DigitChars \in Seq(Figures)
  BY DEF Figures
<1>2. /\ Digit(0) = "0" /\ Digit(1) = "1" /\ Digit(2) = "2" /\ Digit(3) = "3"
      /\ Digit(4) = "4" /\ Digit(5) = "5" /\ Digit(6) = "6" /\ Digit(7) = "7"
      /\ Digit(8) = "8" /\ Digit(9) = "9" /\ Digit(10) = "a" /\ Digit(11) = "b"
      /\ Digit(12) = "c" /\ Digit(13) = "d" /\ Digit(14) = "e" /\ Digit(15) = "f"
  OBVIOUS
<1> HIDE DEF DigitChars, Digit
<1>3. \A d \in 0..15 : d \in {0, 1, 2, 3, 4, 5, 6, 7, 8, 9, 10, 11, 12, 13, 14, 15}
  OBVIOUS
<1>4. \A d, e \in 0..15 : Digit(d) = Digit(e) => d = e
  BY <1>2, <1>3
<1>5. \A d \in 0..15 : Digit(d) \in Figures
  BY <1>2, <1>3 DEF Figures
<1>7. Blank \notin Figures /\ "x" \notin Figures /\ "-" \notin Figures
  BY DEF Figures, Blank
<1>8. "+" \notin Figures /\ NoSign \notin Figures /\ Nul \notin Figures
  BY DEF Figures, NoSign
<1> QED BY <1>1, <1>2, <1>4, <1>5, <1>6, <1>7, <1>8

LEMMA PartIs ==
  ASSUME NEW S, NEW s \in Seq(S), NEW m \in 1..(Len(s) + 1), NEW k \in (m - 1)..Len(s)
  PROVE  /\ SubSeq(s, m, k) \in Seq(S) /\ Len(SubSeq(s, m, k)) = k - m + 1
         /\ DOMAIN SubSeq(s, m, k) = 1..(k - m + 1)
         /\ \A i \in 1..(k - m + 1) : SubSeq(s, m, k)[i] = s[m + i - 1]
<1>0. Len(s) \in Nat
  OBVIOUS
<1>1. m \in Int /\ k \in Int /\ (m <= k \/ k - m + 1 = 0) /\ \A i \in m..k : i \in 1..Len(s)
  BY <1>0
<1>2. \A i \in m..k : s[i] \in S
  BY <1>1
<1>3. SubSeq(s, m, k) \in Seq(S) /\ Len(SubSeq(s, m, k)) = IF m <= k THEN k - m + 1 ELSE 0
  BY <1>1, <1>2, SubSeqProperties
<1>4. \A i \in 1..(k - m + 1) : SubSeq(s, m, k)[i] = s[m + i - 1]
  BY <1>1, <1>2, SubSeqProperties
<1> QED BY <1>1, <1>3, <1>4

LEMMA DigitsBelow ==
  ASSUME NEW base \in 1..16
  PROVE  LET s == SubSeq(DigitChars, 1, base) IN DOMAIN s = 1..base /\ \A i \in 1..base : s[i] = DigitChars[i]
<1> DEFINE s == SubSeq(DigitChars, 1, base)
<1>0. DigitChars \in Seq(Figures) /\ Len(DigitChars) = 16
  BY DigitsThere
<1>1. 1 \in 1..(Len(DigitChars) + 1) /\ base \in (1 - 1)..Len(DigitChars)
  BY <1>0
<1>2. DOMAIN s = 1..(base - 1 + 1) /\ \A i \in 1..(base - 1 + 1) : s[i] = DigitChars[1 + i - 1]
  <2> DEFINE D == DigitChars
  <2>1. D \in Seq(Figures) /\ 1 \in 1..(Len(D) + 1) /\ base \in (1 - 1)..Len(D)
    BY <1>0, <1>1
  <2> HIDE DEF D
  <2>2. DOMAIN SubSeq(D, 1, base) = 1..(base - 1 + 1)
    BY <2>1, PartIs
  <2>3. \A i \in 1..(base - 1 + 1) : SubSeq(D, 1, base)[i] = D[1 + i - 1]
    BY <2>1, PartIs
  <2> QED BY <2>2, <2>3 DEF D
<1>3. base - 1 + 1 = base /\ \A i \in 1..base : 1 + i - 1 = i
  OBVIOUS
<1> QED BY <1>2, <1>3

\* The digits that itostr writes in a base, and str2hex reads in the bases it has
FigsOf(base) == Range(SubSeq(DigitChars, 1, base))

LEMMA FigsAre ==
  ASSUME NEW base \in Bases, base # 8
  PROVE  FigsOf(base) = DigitsOf(base)
BY DEF FigsOf, DigitsOf, Bases

LEMMA DigitIs ==
  ASSUME NEW base \in Bases, NEW d \in 0..(base - 1)
  PROVE  Digit(d) \in FigsOf(base) /\ DigitValue(Digit(d)) = d
<1>1. base \in 1..16 /\ d \in 0..15 /\ d + 1 \in 1..base
  BY DEF Bases
<1>2. DigitValue(Digit(d)) = d
  <2>1. \A v \in 0..15 : DigitChars[v + 1] = Digit(d) <=> v = d
    BY <1>1, DigitsThere DEF Digit
  <2> QED BY <1>1, <2>1 DEF DigitValue
<1>3. Digit(d) \in FigsOf(base)
  <2> DEFINE s == SubSeq(DigitChars, 1, base)
  <2>1. DOMAIN s = 1..base /\ \A i \in 1..base : s[i] = DigitChars[i]
    BY <1>1, DigitsBelow
  <2>2. d + 1 \in DOMAIN s /\ s[d + 1] = Digit(d)
    BY <1>1, <2>1 DEF Digit
  <2> QED BY <2>2 DEF FigsOf, Range
<1> QED BY <1>2, <1>3

\* A character is a digit of a base if its value is below it.
LEMMA DigitOf ==
  ASSUME NEW base \in Bases, NEW ch \in FigsOf(base)
  PROVE  DigitValue(ch) \in 0..(base - 1) /\ ch = Digit(DigitValue(ch))
<1>1. base \in 1..16
  BY DEF Bases
<1> DEFINE s == SubSeq(DigitChars, 1, base)
<1>2. DOMAIN s = 1..base /\ \A i \in 1..base : s[i] = DigitChars[i]
  BY <1>1, DigitsBelow
<1>3. PICK i \in 1..base : ch = DigitChars[i]
  BY <1>2 DEF FigsOf, Range
<1>4. i - 1 \in 0..(base - 1) /\ ch = Digit(i - 1)
  BY <1>1, <1>3 DEF Digit
<1> QED BY <1>4, DigitIs
-----------------------------------------------------------------------------
(* Numbers                                                                 *)

\* The digits of s, read from h on, make m.
Reads0(s, base, h, m, val) ==
  /\ val \in [0..Len(s) -> Nat] /\ val[0] = h /\ val[Len(s)] = m
  /\ \A k \in 1..Len(s) : s[k] \in FigsOf(base) /\ val[k] = (val[k - 1] * base) + DigitValue(s[k])
Writes(s, base, h, m) == s \in Seq(Figures) /\ \E val : Reads0(s, base, h, m, val)

LEMMA WritesMore ==
  ASSUME NEW base \in Bases, NEW s, NEW h, NEW q \in Nat, Writes(s, base, h, q), NEW d \in 0..(base - 1)
  PROVE  Writes(s \o <<Digit(d)>>, base, h, (q * base) + d)
<1> DEFINE l == Len(s)
           t == s \o <<Digit(d)>>
<1>1. s \in Seq(Figures) /\ l \in Nat /\ Digit(d) \in Figures /\ base \in Nat
  <2>1. s \in Seq(Figures) /\ base \in 1..16
    BY DEF Writes, Bases
  <2>2. d \in 0..15 /\ Len(s) \in Nat /\ base \in Nat
    BY <2>1
  <2>3. Digit(d) \in Figures
    BY <2>2, DigitsThere
  <2> QED BY <2>1, <2>2, <2>3
<1>2. PICK val : Reads0(s, base, h, q, val)
  BY DEF Writes
<1>3. t \in Seq(Figures) /\ Len(t) = l + 1 /\ t[l + 1] = Digit(d) /\ \A k \in 1..l : t[k] = s[k]
  BY <1>1
<1> DEFINE w == [k \in 0..(l + 1) |-> IF k = l + 1 THEN (q * base) + d ELSE val[k]]
<1>4. val \in [0..l -> Nat] /\ val[0] = h /\ val[l] = q /\ (q * base) + d \in Nat
  <2>1. q * base \in Nat /\ d \in Nat
    BY <1>1
  <2> QED BY <1>2, <2>1 DEF Reads0
<1>5. w \in [0..(l + 1) -> Nat] /\ w[0] = h /\ w[l + 1] = (q * base) + d
  BY <1>1, <1>4
<1>6. ASSUME NEW k \in 1..(l + 1)
      PROVE  t[k] \in FigsOf(base) /\ w[k] = (w[k - 1] * base) + DigitValue(t[k])
  <2>1. CASE k = l + 1
    <3>1. k - 1 = l /\ l \in 0..(l + 1) /\ l # l + 1
      <4>1. l \in Nat /\ k = l + 1
        BY <1>1, <2>1
      <4> HIDE DEF l
      <4> QED BY <4>1
    <3>2. w[k - 1] = q /\ w[k] = (q * base) + d
      BY <1>4, <1>5, <2>1, <3>1, Zenon
    <3> QED BY <1>3, <2>1, <3>2, DigitIs
  <2>2. CASE k # l + 1
    <3>1. k \in 1..l /\ k \in 0..(l + 1) /\ k - 1 \in 0..(l + 1) /\ k - 1 # l + 1
      BY <1>1, <2>2
    <3>2. w[k - 1] = val[k - 1] /\ w[k] = val[k] /\ t[k] = s[k]
      BY <1>3, <2>2, <3>1
    <3> QED BY <1>2, <3>1, <3>2 DEF Reads0
  <2> QED BY <2>1, <2>2
<1> HIDE DEF t, w
<1>7. Reads0(t, base, h, (q * base) + d, w)
  BY <1>3, <1>5, <1>6 DEF Reads0
<1> QED BY <1>3, <1>7 DEF Writes, t

LEMMA WritesNone ==
  ASSUME NEW base, NEW h \in Nat
  PROVE  Writes(<<>>, base, h, h)
<1>1. Reads0(<<>>, base, h, h, [k \in 0..0 |-> h])
  BY DEF Reads0
<1> QED BY <1>1 DEF Writes

\* Zeros before a number change nothing.
LEMMA WritesPadded ==
  ASSUME NEW base \in Bases, NEW s, NEW m, Writes(s, base, 0, m), NEW z \in Nat
  PROVE  Writes([k \in 1..(z + Len(s)) |-> IF k <= z THEN "0" ELSE s[k - z]], base, 0, m)
<1> DEFINE l == Len(s)
           t == [k \in 1..(z + l) |-> IF k <= z THEN "0" ELSE s[k - z]]
<1>1. s \in Seq(Figures) /\ l \in Nat /\ base \in Nat /\ 0 \in 0..(base - 1)
  <2>1. s \in Seq(Figures) /\ base \in 1..16
    BY DEF Writes, Bases
  <2> QED BY <2>1
<1>2. PICK val : Reads0(s, base, 0, m, val)
  BY DEF Writes
<1>3. val \in [0..l -> Nat] /\ val[0] = 0 /\ val[l] = m
  BY <1>2 DEF Reads0
<1>4. "0" \in FigsOf(base) /\ DigitValue("0") = 0 /\ "0" \in Figures
  BY <1>1, DigitIs, DigitsThere DEF Figures
<1>5. \A k \in 1..(z + l) : ~(k <= z) => k - z \in 1..l
  BY <1>1
<1>6. t \in Seq(Figures) /\ Len(t) = z + l
  <2>1. \A k \in 1..(z + l) : t[k] \in Figures
    BY <1>1, <1>4, <1>5
  <2>2. z + l \in Nat /\ t \in [1..(z + l) -> Figures]
    BY <1>1, <2>1
  <2> HIDE DEF t
  <2> QED BY <2>2
<1> DEFINE w == [k \in 0..(z + l) |-> IF k <= z THEN 0 ELSE val[k - z]]
<1>7. w \in [0..(z + l) -> Nat] /\ w[0] = 0 /\ w[z + l] = m
  <2>1. \A k \in 0..(z + l) : w[k] \in Nat
    BY <1>1, <1>3
  <2>2. z + l \in 0..(z + l) /\ 0 \in 0..(z + l) /\ (z + l <= z => l = 0) /\ (z + l) - z = l
    BY <1>1
  <2> QED BY <1>3, <2>1, <2>2
<1>8. ASSUME NEW k \in 1..(z + l)
      PROVE  t[k] \in FigsOf(base) /\ w[k] = (w[k - 1] * base) + DigitValue(t[k])
  <2>1. k \in 0..(z + l) /\ k - 1 \in 0..(z + l)
    BY <1>1
  <2>2. CASE k <= z
    <3>1. k - 1 <= z
      BY <2>2
    <3>2. w[k] = 0 /\ w[k - 1] = 0 /\ t[k] = "0"
      BY <2>1, <2>2, <3>1
    <3>3. 0 = (0 * base) + 0
      BY <1>1
    <3> QED BY <1>4, <3>2, <3>3
  <2>3. CASE ~(k <= z)
    <3>1. k - z \in 1..l /\ (k - 1) - z = (k - z) - 1 /\ (k - 1 <= z => k - 1 = z /\ (k - z) - 1 = 0)
      BY <1>1, <2>3
    <3>2. w[k] = val[k - z] /\ t[k] = s[k - z]
      BY <2>1, <2>3
    <3>3. w[k - 1] = val[(k - z) - 1]
      BY <1>3, <2>1, <3>1
    <3> HIDE DEF w, t
    <3>4. s[k - z] \in FigsOf(base) /\ val[k - z] = (val[(k - z) - 1] * base) + DigitValue(s[k - z])
      BY <1>2, <3>1 DEF Reads0
    <3> QED BY <3>2, <3>3, <3>4
  <2> QED BY <2>2, <2>3
<1> HIDE DEF t, w
<1>9. Reads0(t, base, 0, m, w)
  BY <1>6, <1>7, <1>8 DEF Reads0
<1> QED BY <1>6, <1>9 DEF Writes, t

\* The function Hexes exists: it is made of those up to each number of digits.
LEMMA HexesDef ==
  /\ \A top \in Nat : Hexes[top] \in Nat \ {0}
  /\ Hexes[0] = 1 /\ \A top \in Nat \ {0} : Hexes[top] = 16 * Hexes[top - 1]
<1> DEFINE F == [x \in Nat \X Nat |-> 16 * x[1]]
           Tower(top) == CHOOSE f \in [0..top -> Nat] : Comes(f, top, 1, F)
           p == [top \in Nat |-> Tower(top)[top]]
           Is(f) == f = [top \in Nat |-> IF top = 0 THEN 1 ELSE 16 * f[top - 1]]
<1>1. ASSUME NEW top \in Nat
      PROVE  /\ Tower(top) \in [0..top -> Nat] /\ Tower(top)[0] = 1
             /\ \A k \in 1..top : Tower(top)[k] = 16 * Tower(top)[k - 1]
  <2>1. F \in [Nat \X Nat -> Nat]
    OBVIOUS
  <2>2. \E f \in [0..top -> Nat] : Comes(f, top, 1, F)
    BY <2>1, Recursion
  <2>3. Tower(top) \in [0..top -> Nat] /\ Comes(Tower(top), top, 1, F)
    BY <2>2
  <2> HIDE DEF Tower
  <2>4. ASSUME NEW k \in 1..top
        PROVE  Tower(top)[k] = 16 * Tower(top)[k - 1]
    <3>1. <<Tower(top)[k - 1], k>> \in Nat \X Nat
      BY <2>3
    <3> QED BY <2>3, <3>1 DEF Comes
  <2> QED BY <2>3, <2>4 DEF Comes
<1> HIDE DEF Tower
<1>2. ASSUME NEW top \in Nat \ {0}
      PROVE  Tower(top)[top - 1] = Tower(top - 1)[top - 1]
  <2> DEFINE T == {k \in Nat : k <= top - 1 => Tower(top)[k] = Tower(top - 1)[k]}
             m == top - 1
  <2>1. top - 1 \in Nat
    OBVIOUS
  <2>2. 0 \in T
    BY <1>1, <2>1
  <2>3. ASSUME NEW k \in 1..m, k - 1 \in T
        PROVE  k \in T
    <3>1. k \in 1..top /\ k \in 1..(top - 1) /\ k - 1 <= top - 1
      OBVIOUS
    <3>2. Tower(top)[k] = 16 * Tower(top)[k - 1] /\ Tower(top - 1)[k] = 16 * Tower(top - 1)[k - 1]
      BY <1>1, <2>1, <3>1
    <3> QED BY <2>3, <3>1, <3>2
  <2> HIDE DEF T
  <2>4. 0..m \subseteq T
    BY <2>1, <2>2, <2>3, Reaches
  <2>5. m \in T
    BY <2>1, <2>4
  <2> QED BY <2>1, <2>5 DEF T
<1>3. ASSUME NEW top \in Nat
      PROVE  p[top] = IF top = 0 THEN 1 ELSE 16 * p[top - 1]
  <2>1. CASE top = 0
    BY <1>1, <2>1
  <2>2. CASE top # 0
    <3>1. top - 1 \in Nat /\ top \in 1..top
      BY <2>2
    <3>2. Tower(top)[top] = 16 * Tower(top)[top - 1]
      BY <1>1, <3>1
    <3> QED BY <1>2, <2>2, <3>1, <3>2
  <2> QED BY <2>1, <2>2
<1> HIDE DEF p
<1>4. Is(p)
  <2>1. p = [top \in Nat |-> p[top]]
    BY DEF p
  <2> QED BY <1>3, <2>1
<1>5. Is(Hexes)
  BY <1>4 DEF Hexes
<1> HIDE DEF Is
<1>6. Hexes[0] = 1 /\ \A top \in Nat \ {0} : Hexes[top] = 16 * Hexes[top - 1]
  BY <1>5 DEF Is
<1> DEFINE P == {top \in Nat : Hexes[top] \in Nat \ {0}}
<1>7. ASSUME NEW top \in Nat
      PROVE  Hexes[top] \in Nat \ {0}
  <2>1. 0 \in P
    BY <1>6
  <2>2. ASSUME NEW k \in 1..top, k - 1 \in P
        PROVE  k \in P
    <3>1. k \in Nat \ {0}
      OBVIOUS
    <3> QED BY <1>6, <2>2, <3>1
  <2> HIDE DEF P
  <2>3. 0..top \subseteq P
    BY <2>1, <2>2, Reaches
  <2> QED BY <2>3 DEF P
<1> QED BY <1>6, <1>7

\* What comes before a number in hexadecimal is shifted by all its digits.
LEMMA WritesBehind ==
  ASSUME NEW s, NEW m, Writes(s, 16, 0, m)
  PROVE  Writes(s, 16, 48, (48 * Hexes[Len(s)]) + m)
<1> DEFINE l == Len(s)
<1>1. s \in Seq(Figures) /\ l \in Nat
  <2>1. s \in Seq(Figures)
    BY DEF Writes
  <2> QED BY <2>1
<1>2. PICK val : Reads0(s, 16, 0, m, val)
  BY DEF Writes
<1> DEFINE w == [k \in 0..l |-> (48 * Hexes[k]) + val[k]]
<1>3. val \in [0..l -> Nat] /\ val[0] = 0 /\ val[l] = m
  BY <1>2 DEF Reads0
<1>4. w \in [0..l -> Nat] /\ w[0] = 48 /\ w[l] = (48 * Hexes[l]) + m
  <2>1. \A k \in 0..l : k \in Nat /\ Hexes[k] \in Nat
    BY HexesDef
  <2>2. Hexes[0] = 1 /\ 0 \in 0..l /\ l \in 0..l
    BY <1>1, HexesDef
  <2> QED BY <1>3, <2>1, <2>2
<1>5. ASSUME NEW k \in 1..l
      PROVE  s[k] \in FigsOf(16) /\ w[k] = (w[k - 1] * 16) + DigitValue(s[k])
  <2>1. k \in 0..l /\ k - 1 \in 0..l /\ k \in Nat \ {0} /\ k - 1 \in Nat
    BY <1>1
  <2>2. s[k] \in FigsOf(16) /\ val[k] = (val[k - 1] * 16) + DigitValue(s[k])
    BY <1>2 DEF Reads0
  <2>3. Hexes[k] = 16 * Hexes[k - 1] /\ Hexes[k] \in Nat /\ Hexes[k - 1] \in Nat
    <3>1. \A j \in Nat : Hexes[j] \in Nat
      BY HexesDef
    <3>2. \A j \in Nat \ {0} : Hexes[j] = 16 * Hexes[j - 1]
      BY HexesDef
    <3>3. Hexes[k] = 16 * Hexes[k - 1]
      BY <2>1, <3>2, Zenon
    <3> QED BY <2>1, <3>1, <3>3
  <2>4. DigitValue(s[k]) \in Nat
    <3>1. 16 \in Bases
      BY DEF Bases
    <3> QED BY <2>2, <3>1, DigitOf
  <2>5. w[k] = (48 * Hexes[k]) + val[k] /\ w[k - 1] = (48 * Hexes[k - 1]) + val[k - 1]
    BY <2>1
  <2>6. val[k - 1] \in Nat /\ val[k] \in Nat
    BY <1>3, <2>1
  <2>7. w[k] = (w[k - 1] * 16) + DigitValue(s[k])
    <3> DEFINE h == Hexes[k - 1]
               g == val[k - 1]
               d == DigitValue(s[k])
    <3>1. h \in Nat /\ g \in Nat /\ d \in Nat
      BY <2>3, <2>4, <2>6
    <3>2. w[k] = (48 * (16 * h)) + ((g * 16) + d) /\ w[k - 1] = (48 * h) + g
      <4> HIDE DEF w
      <4> QED BY <2>2, <2>3, <2>5
    <3> HIDE DEF h, g, d, w
    <3>3. (48 * (16 * h)) + ((g * 16) + d) = (((48 * h) + g) * 16) + d
      BY <3>1
    <3> QED BY <3>2, <3>3 DEF d
  <2> QED BY <2>2, <2>7
<1> HIDE DEF w
<1>6. Reads0(s, 16, 48, (48 * Hexes[l]) + m, w)
  BY <1>4, <1>5, SMTT(30) DEF Reads0
<1> QED BY <1>1, <1>6 DEF Writes

\* The texts of all numbers up to one
Rest(data, base) ==
  CHOOSE r : r = [v \in 0..data |->
                    (IF v < base THEN <<>> ELSE r[v \div base]) \o <<DigitChars[(v % base) + 1]>>]

LEMMA RestDef ==
  ASSUME NEW base \in Bases, NEW data \in Nat
  PROVE  \A v \in 0..data :
           Rest(data, base)[v] = (IF v < base THEN <<>> ELSE Rest(data, base)[v \div base]) \o <<Digit(v % base)>>
<1> DEFINE Good0(r, k) ==
             r = [v \in 0..k |-> (IF v < base THEN <<>> ELSE r[v \div base]) \o <<DigitChars[(v % base) + 1]>>]
           T == {k \in Nat : \E r : Good0(r, k)}
<1>1. base \in Nat /\ base > 1
  BY DEF Bases
<1>2. 0 \in T
  <2>1. Good0([v \in 0..0 |-> <<>> \o <<DigitChars[(v % base) + 1]>>], 0)
    BY <1>1
  <2> QED BY <2>1
<1>3. ASSUME NEW k \in 1..data, k - 1 \in T
      PROVE  k \in T
  <2>1. PICK q : Good0(q, k - 1)
    <3> HIDE DEF Good0
    <3> QED BY <1>3
  <2> DEFINE Body(f, v) == (IF v < base THEN <<>> ELSE f[v \div base]) \o <<DigitChars[(v % base) + 1]>>
             r == [v \in 0..k |-> IF v = k THEN Body(q, k) ELSE q[v]]
  <2>2. ASSUME NEW v \in 0..k
        PROVE  r[v] = Body(r, v)
    <3>1. ~(v < base) => v \div base \in 0..k /\ v \div base # k
      <4> SUFFICES ASSUME ~(v < base) PROVE v \div base \in 0..k /\ v \div base # k
        OBVIOUS
      <4>1. /\ v \div base \in Nat /\ v % base \in 0..(base - 1) /\ v = (v \div base) * base + (v % base)
            /\ v \in Nat /\ base \in Nat /\ base > 1
        BY <1>1
      <4>2. base \in {8, 10, 16}
        BY DEF Bases
      <4>3. v \div base < v
        BY <4>1, <4>2
      <4> QED BY <4>1, <4>3
    <3>2. ~(v < base) => r[v \div base] = q[v \div base]
      <4> DEFINE x == v \div base
      <4>1. ~(v < base) => x \in 0..k /\ x # k
        BY <3>1
      <4> HIDE DEF x, Body
      <4>2. ~(v < base) => r[x] = q[x]
        BY <4>1
      <4> QED BY <4>2 DEF x
    <3>3. Body(r, v) = Body(q, v)
      <4> HIDE DEF r
      <4>1. CASE v < base
        BY <4>1, Zenon
      <4>2. CASE ~(v < base)
        BY <3>2, <4>2, Zenon
      <4> QED BY <4>1, <4>2
    <3>4. CASE v = k
      <4> HIDE DEF Body
      <4>1. r[v] = Body(q, v)
        BY <3>4
      <4> QED BY <3>3, <4>1
    <3>5. CASE v # k
      <4>1. v \in 0..(k - 1)
        BY <3>5, SMT
      <4>2. q[v] = Body(q, v)
        BY <2>1, <4>1
      <4> QED BY <3>3, <3>5, <4>2, Zenon
    <3> HIDE DEF r, Body
    <3> QED BY <3>4, <3>5
  <2>3. Good0(r, k)
    <3> HIDE DEF Body
    <3>1. r = [v \in 0..k |-> Body(r, v)]
      BY <2>2
    <3> HIDE DEF r
    <3> QED BY <3>1, Zenon DEF Body
  <2> HIDE DEF Good0
  <2>4. k \in Nat
    OBVIOUS
  <2> QED BY <2>3, <2>4
<1>4. 0..data \subseteq T
  <2> HIDE DEF T
  <2> QED BY <1>2, <1>3, Reaches
<1>5. \E r : Good0(r, data)
  <2> HIDE DEF Good0
  <2> QED BY <1>4
<1>6. Good0(Rest(data, base), data)
  BY <1>5, Zenon DEF Rest
<1> QED BY <1>6 DEF Digit

\* itostr writes its number, without a zero in front.
LEMMA ItostrWrites ==
  ASSUME NEW base \in Bases, NEW data \in Nat
  PROVE  LET s == itostr(data, base)
         IN  Writes(s, base, 0, data) /\ Len(s) > 0 /\ (data # 0 => s[1] # "0")
<1> DEFINE R == Rest(data, base)
           Fine(v) == Writes(R[v], base, 0, v) /\ Len(R[v]) > 0 /\ (v # 0 => R[v][1] # "0")
           T == {v \in 0..data : ~Fine(v)}
<1>1. base \in Nat /\ base > 1
  BY DEF Bases
<1>2. itostr(data, base) = R[data]
  BY DEF itostr, Rest
<1>3. T = {}
  <2> SUFFICES ASSUME T # {} PROVE FALSE
    OBVIOUS
  <2>0. T \subseteq Nat
    OBVIOUS
  <2>1. PICK v \in T : \A y \in T : v <= y
    BY <2>0, HasLeast
  <2> DEFINE q == v \div base
             d == v % base
             s == IF v < base THEN <<>> ELSE R[q]
  <2>2. v \in 0..data /\ ~Fine(v)
    BY <2>1
  <2>3. q \in Nat /\ d \in 0..(base - 1) /\ v = (q * base) + d /\ v \in Nat
    BY <1>1, <2>2
  <2>4. R[v] = s \o <<Digit(d)>>
    BY <2>2, RestDef
  <2>5. (v < base <=> q = 0) /\ (~(v < base) => q < v)
    <3>1. base \in {8, 10, 16}
      BY DEF Bases
    <3> HIDE DEF q, d
    <3>2. q \in Nat /\ d \in Nat /\ d < base /\ v = (q * base) + d
      BY <1>1, <2>3
    <3>3. CASE base = 8
      BY <3>2, <3>3
    <3>4. CASE base = 10
      BY <3>2, <3>4
    <3>5. CASE base = 16
      BY <3>2, <3>5
    <3> QED BY <3>1, <3>3, <3>4, <3>5
  <2> HIDE DEF q, d, Fine
  <2>6. Writes(s, base, 0, q) /\ (q # 0 => Len(s) > 0 /\ s[1] # "0") /\ (q = 0 => s = <<>>)
    <3>1. CASE v < base
      BY <2>5, <3>1, WritesNone
    <3>2. CASE ~(v < base)
      <4>1. q \in 0..data /\ ~(v <= q)
        BY <2>2, <2>3, <2>5, <3>2
      <4>2. Fine(q)
        BY <2>1, <4>1
      <4>3. q # 0
        BY <2>5, <3>2
      <4> QED BY <3>2, <4>2, <4>3 DEF Fine
    <3> QED BY <3>1, <3>2
  <2> HIDE DEF s
  <2>7. Writes(R[v], base, 0, v)
    BY <2>3, <2>4, <2>6, WritesMore
  <2>8. s \in Seq(Figures) /\ Digit(d) \in Figures
    <3>1. s \in Seq(Figures) /\ base \in 1..16
      BY <2>6 DEF Writes, Bases
    <3>2. d \in 0..15
      BY <2>3, <3>1
    <3> QED BY <3>1, <3>2, DigitsThere
  <2>9. Len(R[v]) > 0 /\ R[v][1] = IF q = 0 THEN Digit(d) ELSE s[1]
    <3>1. CASE q = 0
      BY <2>4, <2>6, <2>8, <3>1
    <3>2. CASE q # 0
      BY <2>4, <2>6, <2>8, <3>2
    <3> QED BY <3>1, <3>2
  <2>10. v # 0 => R[v][1] # "0"
    <3>1. CASE q = 0
      <4>1. d = v /\ d \in 0..15
        <5>1. base \in 1..16
          BY DEF Bases
        <5> QED BY <2>3, <3>1, <5>1
      <4>2. v # 0 => Digit(d) # Digit(0)
        <5>1. 0 \in 0..15
          OBVIOUS
        <5>2. Digit(d) = Digit(0) => d = 0
          BY <4>1, <5>1, DigitsThere
        <5> QED BY <4>1, <5>2
      <4> QED BY <2>9, <3>1, <4>2, DigitsThere
    <3>2. CASE q # 0
      BY <2>6, <2>9, <3>2
    <3> QED BY <3>1, <3>2
  <2> QED BY <2>2, <2>7, <2>9, <2>10 DEF Fine
<1>4. Fine(data)
  BY <1>3
<1> QED BY <1>2, <1>4
-----------------------------------------------------------------------------
(* A field                                                                 *)

Marked == Figures \cup {Blank, "-", "+"}
\* A field, with a blank for its sign
Plain(F) == [i \in DOMAIN F |-> IF F[i] \in {"-", "+"} THEN Blank ELSE F[i]]

\* A number stands in P behind a blanks, with blanks behind c.
Stands(P, a, c, base, m) ==
  /\ a \in 0..Len(P) /\ c \in 0..Len(P) /\ a < c
  /\ \A i \in 1..Len(P) : i <= a \/ i > c => P[i] = Blank
  /\ Writes([k \in 1..(c - a) |-> P[a + k]], base, 0, m)

\* The field of a sign and the digits s: to the left, or behind zeros or blanks
InField(left, zero, least, signed, sign, s) ==
  LET l == Len(s)
      width == IF l < least THEN least ELSE IF signed THEN l + 1 ELSE l
      pad == width - l
  IN  [i \in 1..width |->
         IF left THEN (IF i <= l THEN s[i] ELSE Blank)
         ELSE IF signed /\ i = (IF zero THEN 1 ELSE pad) THEN sign
         ELSE IF i > pad THEN s[i - pad] ELSE IF zero THEN "0" ELSE Blank]

LEMMA SameField ==
  ASSUME NEW d, NEW sign, NEW s
  PROVE  Field(d, sign, s) = InField(d.left, d.zero, d.width, sign # NoSign, sign, s)
<1> DEFINE width == IF Len(s) < d.width THEN d.width ELSE IF sign = NoSign THEN Len(s) ELSE Len(s) + 1
           pad == width - Len(s)
<1> QED BY DEF Field, InField

\* What the field F of a number shows
FieldShows(F, left, zero, least, signed, sign, base, m, first) ==
  /\ F \in Seq(Marked) /\ Len(F) >= least /\ Len(F) > 0
  /\ Len(F) > least => (signed /\ F[1] = sign) \/ F[1] = first
  /\ signed /\ sign = "-" => "-" \in Range(F) \/ left
  /\ \E a, c : Stands(Plain(F), a, c, base, m)
  /\ ~left /\ zero /\ ~signed => Writes(F, base, 0, m)

LEMMA FieldIs ==
  ASSUME NEW left \in BOOLEAN, NEW zero \in BOOLEAN, NEW least \in Nat,
         NEW signed \in BOOLEAN, NEW sign \in {"-", "+", Blank},
         NEW base \in Bases, NEW m, NEW s, Writes(s, base, 0, m), Len(s) > 0
  PROVE  FieldShows(InField(left, zero, least, signed, sign, s), left, zero, least, signed, sign,
                    base, m, s[1])
<1> DEFINE l == Len(s)
           width == IF l < least THEN least ELSE IF signed THEN l + 1 ELSE l
           pad == width - l
           F == [i \in 1..width |->
                   IF left THEN (IF i <= l THEN s[i] ELSE Blank)
                   ELSE IF signed /\ i = (IF zero THEN 1 ELSE pad) THEN sign
                   ELSE IF i > pad THEN s[i - pad] ELSE IF zero THEN "0" ELSE Blank]
<1>1. InField(left, zero, least, signed, sign, s) = F
  BY DEF InField
<1>2. s \in Seq(Figures) /\ l \in Nat \ {0} /\ \A i \in 1..l : s[i] \in Figures
  <2>1. s \in Seq(Figures)
    BY DEF Writes
  <2> QED BY <2>1
<1>3. /\ width \in Nat /\ width >= l /\ width >= least /\ pad \in Nat /\ width = pad + l
      /\ (signed => pad > 0) /\ (width > least => pad = IF signed THEN 1 ELSE 0)
  BY <1>2
<1> HIDE DEF width, pad
<1>4. F \in [1..width -> Marked]
  <2>1. \A i \in 1..width : i > pad => i - pad \in 1..l
    BY <1>2, <1>3
  <2>2. "0" \in Figures
    BY DEF Figures
  <2> QED BY <1>2, <2>1, <2>2 DEF Marked
<1>5. F \in Seq(Marked) /\ Len(F) = width /\ DOMAIN F = 1..width
  <2> HIDE DEF F
  <2> QED BY <1>3, <1>4
<1>6. width > 0 /\ 1 \in 1..width
  BY <1>2, <1>3
<1>7. width > least => (signed /\ F[1] = sign) \/ F[1] = s[1]
  BY <1>2, <1>3, <1>6
<1>8. signed /\ sign = "-" => "-" \in Range(F) \/ left
  <2> SUFFICES ASSUME signed, sign = "-", ~left PROVE "-" \in Range(F)
    OBVIOUS
  <2> DEFINE i == IF zero THEN 1 ELSE pad
  <2>1. i \in 1..width
    BY <1>2, <1>3
  <2>2. F[i] = "-"
    BY <2>1
  <2> HIDE DEF F, i
  <2> QED BY <1>5, <2>1, <2>2 DEF Range
<1> DEFINE P == Plain(F)
           Spaced(i) == P[i] = Blank
<1>9. /\ P \in [1..width -> Marked] /\ Len(P) = width
      /\ \A i \in 1..width : P[i] = IF F[i] \in {"-", "+"} THEN Blank ELSE F[i]
  <2> HIDE DEF F
  <2>1. P = [i \in 1..width |-> IF F[i] \in {"-", "+"} THEN Blank ELSE F[i]]
    BY <1>5 DEF Plain
  <2>2. \A i \in 1..width : F[i] \in Marked /\ Blank \in Marked
    BY <1>4 DEF Marked
  <2> QED BY <1>3, <2>1, <2>2
<1> HIDE DEF P
<1>10. \A ch \in Figures : ch \notin {"-", "+"}
  BY DigitsThere
<1>11. \E a, c : Stands(P, a, c, base, m)
  <2>1. CASE left
    <3>1. \A i \in 1..width : F[i] = IF i <= l THEN s[i] ELSE Blank
      BY <2>1
    <3> HIDE DEF F
    <3>2. \A i \in 1..width : P[i] = IF i <= l THEN s[i] ELSE Blank
      BY <1>2, <1>9, <1>10, <3>1
    <3>3. s = [k \in 1..(l - 0) |-> P[0 + k]]
      <4>1. \A k \in 1..(l - 0) : P[0 + k] = s[k]
        BY <1>2, <1>3, <3>2
      <4>2. s = [k \in 1..l |-> s[k]] /\ l - 0 = l
        BY <1>2
      <4> QED BY <4>1, <4>2
    <3>4. Writes([k \in 1..(l - 0) |-> P[0 + k]], base, 0, m)
      BY <3>3
    <3>5. \A i \in 1..Len(P) : i <= 0 \/ i > l => P[i] = Blank
      BY <1>2, <1>3, <1>9, <3>2
    <3>6. Stands(P, 0, l, base, m)
      BY <1>2, <1>3, <1>9, <3>4, <3>5 DEF Stands
    <3> QED BY <3>6
  <2>2. CASE ~left
    <3> DEFINE z == IF zero THEN (IF signed THEN pad - 1 ELSE pad) ELSE 0
               a == pad - z
               t == [k \in 1..(z + l) |-> IF k <= z THEN "0" ELSE s[k - z]]
    <3>1. z \in Nat /\ a \in Nat /\ a + z = pad /\ width - a = z + l
      BY <1>2, <1>3
    <3>2. \A i \in 1..width : i <= a => P[i] = Blank
      <4> SUFFICES ASSUME NEW i \in 1..width, i <= a PROVE P[i] = Blank
        OBVIOUS
      <4>1. i <= pad /\ (signed /\ zero => i = 1) /\ (~signed => ~zero)
        BY <1>2, <1>3
      <4> HIDE DEF a
      <4>2. F[i] = IF signed /\ i = (IF zero THEN 1 ELSE pad) THEN sign
                   ELSE IF i > pad THEN s[i - pad] ELSE IF zero THEN "0" ELSE Blank
        BY <2>2
      <4>3. F[i] \in {sign, Blank} /\ (signed \/ F[i] = Blank)
        <5> HIDE DEF F
        <5>1. ~(i > pad)
          BY <1>3, <4>1
        <5>2. CASE zero
          BY <4>1, <4>2, <5>1, <5>2
        <5>3. CASE ~zero
          BY <4>1, <4>2, <5>1, <5>3
        <5> QED BY <5>2, <5>3
      <4> HIDE DEF F
      <4> QED BY <1>9, <4>3
    <3>3. ASSUME NEW k \in 1..(z + l)
          PROVE  P[a + k] = t[k]
      <4>1. a + k \in 1..width /\ (a + k > pad <=> ~(k <= z)) /\ (a + k) - pad = k - z
            /\ (~(k <= z) => k - z \in 1..l)
        BY <1>2, <1>3, <3>1
      <4>2. signed => a + k # (IF zero THEN 1 ELSE pad)
        <5>1. CASE zero
          BY <1>3, <5>1
        <5>2. CASE ~zero
          BY <1>3, <5>2
        <5> QED BY <5>1, <5>2
      <4>3. k <= z => zero
        OBVIOUS
      <4> HIDE DEF a, z
      <4>4. F[a + k] = IF k <= z THEN "0" ELSE s[k - z]
        BY <2>2, <4>1, <4>2, <4>3
      <4>5. F[a + k] \in Figures
        BY <1>2, <4>1, <4>4 DEF Figures
      <4> HIDE DEF F
      <4> QED BY <1>9, <1>10, <4>1, <4>4, <4>5
    <3> HIDE DEF z, a
    <3>4. Writes(t, base, 0, m)
      BY <3>1, WritesPadded
    <3>5. t = [k \in 1..(width - a) |-> P[a + k]]
      BY <3>1, <3>3
    <3>6. Writes([k \in 1..(width - a) |-> P[a + k]], base, 0, m)
      BY <3>4, <3>5
    <3> HIDE DEF t
    <3>7. a \in 0..Len(P) /\ width \in 0..Len(P) /\ a < width
          /\ \A i \in 1..Len(P) : i <= a \/ i > width => P[i] = Blank
      BY <1>2, <1>3, <1>9, <3>1, <3>2
    <3>8. Stands(P, a, width, base, m)
      BY <3>6, <3>7 DEF Stands
    <3> QED BY <3>8
  <2> QED BY <2>1, <2>2
<1>12. ~left /\ zero /\ ~signed => Writes(F, base, 0, m)
  <2> SUFFICES ASSUME ~left, zero, ~signed PROVE Writes(F, base, 0, m)
    OBVIOUS
  <2>1. F = [k \in 1..(pad + l) |-> IF k <= pad THEN "0" ELSE s[k - pad]]
    BY <1>2, <1>3
  <2> HIDE DEF F
  <2> QED BY <1>3, <2>1, WritesPadded
<1> HIDE DEF F
<1> QED BY <1>1, <1>3, <1>5, <1>6, <1>7, <1>8, <1>11, <1>12 DEF P, FieldShows
-----------------------------------------------------------------------------
(* A directive                                                             *)

LEMMA LeastIs ==
  ASSUME NEW T, T \subseteq Nat, T # {}
  PROVE  Min(T) \in T /\ \A y \in T : Min(T) <= y
<1>1. \E x \in T : \A y \in T : x <= y
  BY HasLeast
<1> QED BY <1>1 DEF Min

LEMMA SkipIs ==
  ASSUME NEW fmt, Len(fmt) \in Nat, NEW i \in 1..(Len(fmt) + 1), NEW S
  PROVE  Skip(fmt, i, S) \in i..(Len(fmt) + 1) /\ \A j \in i..(Skip(fmt, i, S) - 1) : fmt[j] \in S
<1> DEFINE T == {j \in i..(Len(fmt) + 1) : j = Len(fmt) + 1 \/ fmt[j] \notin S}
<1>1. T \subseteq Nat /\ Len(fmt) + 1 \in T
  OBVIOUS
<1>2. Skip(fmt, i, S) \in T /\ \A y \in T : Skip(fmt, i, S) <= y
  <2> HIDE DEF T
  <2>1. Min(T) \in T /\ \A y \in T : Min(T) <= y
    BY <1>1, LeastIs
  <2> QED BY <2>1 DEF Skip, T
<1>3. ASSUME NEW j \in i..(Skip(fmt, i, S) - 1)
      PROVE  fmt[j] \in S
  <2>1. j \in i..(Len(fmt) + 1) /\ ~(Skip(fmt, i, S) <= j)
    BY <1>2
  <2> QED BY <1>2, <2>1
<1> QED BY <1>2, <1>3

LEMMA DecimalNat ==
  ASSUME NEW digits, Len(digits) \in Nat, \A i \in 1..Len(digits) : DigitValue(digits[i]) \in Nat
  PROVE  Decimal(digits) \in Nat
<1> DEFINE l == Len(digits)
           Is(f) == f = [i \in 0..l |-> IF i = 0 THEN 0 ELSE 10 * f[i - 1] + DigitValue(digits[i])]
           F == [x \in Nat \X Nat |-> 10 * x[1] + (IF x[2] \in 1..l THEN DigitValue(digits[x[2]]) ELSE 0)]
           upto == CHOOSE f : Is(f)
<1>1. F \in [Nat \X Nat -> Nat]
  OBVIOUS
<1>2. \A x \in Nat, k \in 1..l : F[<<x, k>>] = 10 * x + DigitValue(digits[k])
  OBVIOUS
<1> HIDE DEF F
<1>3. PICK f \in [0..l -> Nat] : Comes(f, l, 0, F)
  BY <1>1, Recursion
<1>4. Is(f)
  <2>1. ASSUME NEW i \in 0..l
        PROVE  f[i] = IF i = 0 THEN 0 ELSE 10 * f[i - 1] + DigitValue(digits[i])
    <3>1. CASE i = 0
      BY <1>3, <3>1 DEF Comes
    <3>2. CASE i # 0
      <4>1. i \in 1..l /\ f[i - 1] \in Nat
        BY <3>2
      <4> QED BY <1>2, <1>3, <3>2, <4>1 DEF Comes
    <3> QED BY <3>1, <3>2
  <2> QED BY <2>1
<1>5. Is(upto)
  <2> HIDE DEF Is
  <2> QED BY <1>4
<1> HIDE DEF upto
<1> DEFINE T == {i \in 0..l : upto[i] \in Nat}
<1>6. 0 \in T
  BY <1>5
<1>7. ASSUME NEW k \in 1..l, k - 1 \in T
      PROVE  k \in T
  <2>1. k \in 0..l /\ k # 0 /\ upto[k - 1] \in Nat /\ DigitValue(digits[k]) \in Nat
    BY <1>7
  <2>2. upto[k] = 10 * upto[k - 1] + DigitValue(digits[k])
    BY <1>5, <2>1
  <2> QED BY <2>1, <2>2
<1>8. 0..l \subseteq T
  <2> HIDE DEF T
  <2> QED BY <1>6, <1>7, Reaches
<1>9. upto[l] \in Nat
  BY <1>8
<1> QED BY <1>9 DEF Decimal, upto

LEMMA SignsApart ==
  /\ NoSign # "-" /\ NoSign # "+" /\ NoSign # Blank
  /\ Blank # "-" /\ Blank # "+" /\ Blank # "x" /\ Blank # Nul /\ Blank # "0" /\ Blank # "w"
  /\ Nul # "w" /\ Nul # "0" /\ Nul # "x" /\ Nul # "-" /\ Nul # "+"
BY DEF NoSign, Blank, Nul

LEMMA BasesAre == \A conv \in DOMAIN Conversions : Conversions[conv] \in Bases
BY DEF Conversions, Bases

LEMMA DirectiveIs ==
  ASSUME NEW fmt \in Formats \cup {FullHex}, Taken(fmt)
  PROVE  LET d == Directive(fmt)
         IN  /\ d.left \in BOOLEAN /\ d.zero \in BOOLEAN /\ d.width \in Nat
             /\ d.sign \in {"+", Blank, NoSign} /\ Conversions[d.conv] \in Bases
             /\ d.conv \in DOMAIN Conversions /\ d.end = Len(fmt)
<1> DEFINE d == Directive(fmt)
           width == Skip(fmt, 1, Flags)
           dot == Skip(fmt, width, WidthDigits)
           part == SubSeq(fmt, width, dot - 1)
           flags == Range(SubSeq(fmt, 1, width - 1))
<1>1. fmt \in Seq(STRING) /\ Len(fmt) \in Nat /\ d.conv \in DOMAIN Conversions /\ d.end = Len(fmt)
  BY FormatsAssumption DEF Taken
<1>2. width \in 1..(Len(fmt) + 1)
  BY <1>1, SkipIs
<1>3. dot \in width..(Len(fmt) + 1) /\ \A j \in width..(dot - 1) : fmt[j] \in WidthDigits
  <2> HIDE DEF width
  <2> QED BY <1>1, <1>2, SkipIs
<1> HIDE DEF width, dot
<1>4. Len(part) = dot - width /\ \A i \in 1..Len(part) : part[i] = fmt[width + i - 1]
  <2>1. (dot - 1) \in (width - 1)..Len(fmt)
    BY <1>1, <1>2, <1>3
  <2>2. Len(part) = (dot - 1) - width + 1 /\ \A i \in 1..((dot - 1) - width + 1) : part[i] = fmt[width + i - 1]
    BY <1>1, <1>2, <2>1, PartIs
  <2>3. (dot - 1) - width + 1 = dot - width
    BY <1>2, <1>3
  <2> HIDE DEF part
  <2> QED BY <2>2, <2>3
<1> HIDE DEF part
<1>5. \A ch \in WidthDigits : DigitValue(ch) \in Nat
  <2> SUFFICES ASSUME NEW ch \in WidthDigits PROVE DigitValue(ch) \in Nat
    OBVIOUS
  <2> DEFINE D == DigitChars
             t == SubSeq(D, 2, 10)
  <2>1. D \in Seq(Figures) /\ Len(D) = 16
    BY DigitsThere
  <2>2. 2 \in 1..(Len(D) + 1) /\ 10 \in (2 - 1)..Len(D)
    BY <2>1
  <2> HIDE DEF D
  <2>3. DOMAIN t = 1..(10 - 2 + 1) /\ \A i \in 1..(10 - 2 + 1) : t[i] = D[2 + i - 1]
    BY <2>1, <2>2, PartIs
  <2>4. PICK i \in 1..9 : ch = D[2 + i - 1]
    <3>1. ch \in Range(t)
      BY DEF WidthDigits, D
    <3> HIDE DEF t
    <3> QED BY <2>3, <3>1 DEF Range
  <2>5. ch = Digit(i) /\ i \in 0..(10 - 1) /\ 10 \in Bases
    <3>1. 2 + i - 1 = i + 1
      OBVIOUS
    <3> QED BY <2>4, <3>1 DEF Digit, D, Bases
  <2>6. DigitValue(ch) = i
    BY <2>5, DigitIs
  <2> QED BY <2>6
<1>6. Decimal(part) \in Nat
  <2>1. ASSUME NEW i \in 1..Len(part)
        PROVE  DigitValue(part[i]) \in Nat
    <3>1. width + i - 1 \in width..(dot - 1)
      BY <1>2, <1>3, <1>4
    <3> QED BY <1>3, <1>4, <1>5, <3>1
  <2>2. Len(part) \in Nat
    BY <1>2, <1>3, <1>4
  <2> QED BY <2>1, <2>2, DecimalNat
<1>7. /\ d.left = ("-" \in flags) /\ d.zero = ("0" \in flags) /\ d.width = Decimal(part)
      /\ d.sign = IF "+" \in flags THEN "+" ELSE IF Blank \in flags THEN Blank ELSE NoSign
  BY DEF Directive, width, dot, part
<1> HIDE DEF flags
<1>8. Conversions[d.conv] \in Bases
  <2> HIDE DEF d
  <2> QED BY <1>1, BasesAre
<1> HIDE DEF d
<1>9. d.left \in BOOLEAN /\ d.zero \in BOOLEAN /\ d.sign \in {"+", Blank, NoSign}
  BY <1>7
<1> QED BY <1>1, <1>6, <1>7, <1>8, <1>9 DEF d
-----------------------------------------------------------------------------
(* Words                                                                   *)

LEMMA QuotientIs ==
  ASSUME NEW w \in Nat \ {0}, NEW q \in Int, NEW r \in 0..(w - 1), NEW x \in Int, x = (q * w) + r
  PROVE  x % w = r
<1> DEFINE y == x \div w
           s == x % w
<1>1. y \in Int /\ s \in 0..(w - 1) /\ x = (y * w) + s
  OBVIOUS
<1> HIDE DEF y, s
<1>2. (y - q) * w = r - s
  BY <1>1
<1>3. r = s
  <2> DEFINE t == y - q
  <2>1. t \in Int
    BY <1>1
  <2>2. t * w = r - s
    BY <1>2
  <2> HIDE DEF t
  <2>3. t >= 1 => t * w >= w
    BY <2>1
  <2>4. t <= -1 => t * w <= -w
    BY <2>1
  <2>5. t = 0
    BY <1>1, <2>1, <2>2, <2>3, <2>4
  <2> QED BY <1>1, <2>2, <2>5
<1> QED BY <1>3 DEF s

LEMMA WordKept ==
  ASSUME NEW w \in Nat \ {0}, NEW r \in 0..(w - 1)
  PROVE  r % w = r
<1>1. w \in Nat \ {0} /\ 0 \in Int /\ r \in 0..(w - 1) /\ r \in Int /\ r = (0 * w) + r
  OBVIOUS
<1> QED BY <1>1, QuotientIs

LEMMA WordsAdd ==
  ASSUME NEW w \in Nat \ {0}, NEW x \in Int, NEW k \in Int
  PROVE  ((k * w) + x) % w = x % w
<1> DEFINE q == x \div w
           r == x % w
           y == (k * w) + x
<1>1. q \in Int /\ r \in 0..(w - 1) /\ x = (q * w) + r
  OBVIOUS
<1> HIDE DEF q, r
<1>2. y \in Int /\ y = ((k + q) * w) + r /\ k + q \in Int
  BY <1>1
<1> HIDE DEF y
<1>3. y % w = r
  BY <1>1, <1>2, QuotientIs
<1> QED BY <1>3 DEF y, r

\* A digit more, in a word.
LEMMA WordMore ==
  ASSUME NEW w \in Nat \ {0}, NEW h \in Nat, NEW base \in Nat, NEW d \in Nat
  PROVE  (((h % w) * base) + d) % w = ((h * base) + d) % w
<1> DEFINE q == h \div w
           r == h % w
           x == (r * base) + d
           k == q * base
<1>1. q \in Int /\ r \in 0..(w - 1) /\ h = (q * w) + r
  OBVIOUS
<1> HIDE DEF q, r
<1>2. x \in Int /\ k \in Int /\ (h * base) + d = (k * w) + x
  BY <1>1
<1> HIDE DEF x, k
<1>3. ((k * w) + x) % w = x % w
  BY <1>2, WordsAdd
<1> QED BY <1>2, <1>3 DEF x, r

\* A number h and a digit d behind it, in a word
WithDigit(h, base, d, w) == ((h * base) + d) % w

LEMMA WordWithDigit ==
  ASSUME NEW w \in Nat \ {0}, NEW h \in Nat, NEW base \in Nat, NEW d \in Nat
  PROVE  WithDigit(h % w, base, d, w) = WithDigit(h, base, d, w)
<1> DEFINE a == ((h % w) * base) + d
           b == (h * base) + d
<1>1. a % w = b % w
  BY WordMore, ZenonT(30)
<1>2. WithDigit(h % w, base, d, w) = a % w /\ WithDigit(h, base, d, w) = b % w
  BY Zenon DEF WithDigit
<1> HIDE DEF a, b
<1> QED BY <1>1, <1>2

\* So many hexadecimal digits write as many numbers as words have, or several
\* times as many;
Fills(l) == \E k \in Int : Hexes[l] = k * Word

\* then more do.
LEMMA WordsFilled ==
  ASSUME NEW least \in Nat, NEW l \in Nat, l >= least, Hexes[least] % Word = 0
  PROVE  Fills(l)
<1> DEFINE T == {k \in Nat : \E j \in Int : Hexes[least + k] = j * Word}
           more == l - least
<1>1. Word \in Nat \ {0}
  BY PrintkAssumption
<1>2. 0 \in T
  <2> DEFINE x == Hexes[least]
             q == x \div Word
  <2>1. x \in Nat
    BY HexesDef
  <2>2. x % Word = 0
    OBVIOUS
  <2> HIDE DEF x
  <2>3. q \in Int /\ x = (q * Word) + (x % Word)
    BY <1>1, <2>1
  <2> HIDE DEF q
  <2>4. x = q * Word
    BY <1>1, <2>2, <2>3
  <2>5. least + 0 = least
    OBVIOUS
  <2> QED BY <2>3, <2>4, <2>5 DEF x
<1>3. ASSUME NEW k \in 1..more, k - 1 \in T
      PROVE  k \in T
  <2>1. PICK j \in Int : Hexes[least + (k - 1)] = j * Word
    BY <1>3
  <2>2. least + k \in Nat \ {0} /\ (least + k) - 1 = least + (k - 1)
    OBVIOUS
  <2>3. Hexes[least + k] = 16 * Hexes[least + (k - 1)]
    BY <2>2, HexesDef
  <2>4. Hexes[least + k] = (16 * j) * Word /\ 16 * j \in Int
    BY <1>1, <2>1, <2>3
  <2> QED BY <2>4
<1> HIDE DEF T
<1>4. more \in Nat
  OBVIOUS
<1>5. more \in T
  <2>1. 0..more \subseteq T
    BY <1>2, <1>3, <1>4, Reaches
  <2> QED BY <1>4, <2>1
<1> QED BY <1>5 DEF T, Fills

LEMMA MagnitudeIs ==
  ASSUME NEW d, NEW v \in Ints
  PROVE  /\ Magnitude(d, v) \in 0..(Word - 1) /\ (v # 0 => Magnitude(d, v) # 0)
         /\ v % Word \in 0..(Word - 1)
<1>1. Word \in Nat \ {0} /\ v \in Int /\ -Word < v /\ v < Word
  BY PrintkAssumption, FormatsAssumption
<1>2. v % Word \in 0..(Word - 1)
  BY <1>1
<1>3. v >= 0 => v % Word = v
  <2>1. v >= 0 => v \in 0..(Word - 1) /\ v = (0 * Word) + v
    BY <1>1
  <2> QED BY <1>1, <2>1, QuotientIs
<1>4. v < 0 => v % Word = v + Word
  <2>1. v < 0 => v + Word \in 0..(Word - 1) /\ v = (-1 * Word) + (v + Word)
    BY <1>1
  <2> QED BY <1>1, <2>1, QuotientIs
<1> DEFINE u == v % Word
<1> HIDE DEF u
<1>5. Magnitude(d, v) = IF Signed(d) /\ v < 0 THEN -v ELSE u
  BY DEF Magnitude, u
<1>6. u = IF v < 0 THEN v + Word ELSE v
  BY <1>1, <1>3, <1>4 DEF u
<1> QED BY <1>1, <1>2, <1>5, <1>6 DEF u

LEMMA SignIs ==
  ASSUME NEW fmt \in Formats \cup {FullHex}, Taken(fmt), NEW v
  PROVE  SignOf(Directive(fmt), v) \in {"-", "+", Blank, NoSign}
<1> DEFINE d == Directive(fmt)
<1>1. d.sign \in {"+", Blank, NoSign}
  BY DirectiveIs
<1> HIDE DEF d
<1> QED BY <1>1 DEF SignOf, d

\* What printk shows of a number
LEMMA NumberIs ==
  ASSUME NEW fmt \in Formats \cup {FullHex}, Taken(fmt), NEW v \in Ints
  PROVE  LET d == Directive(fmt)
             F == Number(fmt, v)
             base == Conversions[d.conv]
             m == Magnitude(d, v)
         IN  /\ F \in Seq(Marked) /\ Len(F) >= d.width /\ Len(F) > 0
             /\ v # 0 /\ Len(F) > d.width => F[1] \notin {Blank, "0"} \/ F[1] = SignOf(d, v)
             /\ Signed(d) /\ v < 0 => "-" \in Range(F) \/ d.left
             /\ \E a, c : Stands(Plain(F), a, c, base, m)
             /\ ~d.left /\ d.zero /\ ~Signed(d) => Writes(F, base, 0, m)
<1> DEFINE d == Directive(fmt)
           F == Number(fmt, v)
           base == Conversions[d.conv]
           m == Magnitude(d, v)
           sign == SignOf(d, v)
           s == itostr(m, base)
           G == Field(d, sign, s)
           signed == sign # NoSign
           shown == IF signed THEN sign ELSE "-"
           H == InField(d.left, d.zero, d.width, signed, shown, s)
<1>1. /\ d.left \in BOOLEAN /\ d.zero \in BOOLEAN /\ d.width \in Nat
      /\ base \in Bases /\ d.conv \in DOMAIN Conversions /\ d.end = Len(fmt)
  BY DirectiveIs
<1>2. m \in Nat /\ (v # 0 => m # 0)
  <2>1. m \in 0..(Word - 1) /\ (v # 0 => m # 0)
    BY MagnitudeIs
  <2> QED BY <2>1, PrintkAssumption
<1>3. sign \in {"-", "+", Blank, NoSign}
  BY SignIs
<1>4. SubSeq(fmt, d.end + 1, Len(fmt)) = <<>>
  <2>1. fmt \in Seq(STRING)
    BY FormatsAssumption
  <2> HIDE DEF d
  <2> QED BY <1>1, <2>1
<1>5. F = G \o <<>>
  <2> HIDE DEF d
  <2>1. F = Field(d, SignOf(d, v), itostr(Magnitude(d, v), Conversions[d.conv])) \o SubSeq(fmt, d.end + 1, Len(fmt))
    BY <1>1 DEF Number, d
  <2> QED BY <1>4, <2>1
<1> HIDE DEF d, F, base, m, sign
<1>6. Writes(s, base, 0, m) /\ Len(s) > 0 /\ (m # 0 => s[1] # "0")
  BY <1>1, <1>2, ItostrWrites
<1> HIDE DEF s
<1>7. signed \in BOOLEAN /\ shown \in {"-", "+", Blank} /\ (signed => shown = sign)
  BY <1>3
<1>8. G = H
  <2>1. G = InField(d.left, d.zero, d.width, signed, sign, s)
    BY SameField
  <2> QED BY <2>1 DEF InField
<1> HIDE DEF G, signed, shown
<1> DEFINE left == d.left
           zero == d.zero
           least == d.width
<1>15. FieldShows(H, left, zero, least, signed, shown, base, m, s[1])
  <2>1. left \in BOOLEAN /\ zero \in BOOLEAN /\ least \in Nat
    BY <1>1
  <2>2. H = InField(left, zero, least, signed, shown, s)
    OBVIOUS
  <2> HIDE DEF left, zero, least, H
  <2>3. FieldShows(InField(left, zero, least, signed, shown, s), left, zero, least, signed, shown, base, m, s[1])
    BY <1>1, <1>6, <1>7, <2>1, FieldIs
  <2> QED BY <2>2, <2>3
<1> HIDE DEF H
<1>9. /\ H \in Seq(Marked) /\ Len(H) >= d.width /\ Len(H) > 0
      /\ Len(H) > d.width => (signed /\ H[1] = shown) \/ H[1] = s[1]
      /\ signed /\ shown = "-" => "-" \in Range(H) \/ d.left
      /\ \E a, c : Stands(Plain(H), a, c, base, m)
      /\ ~d.left /\ d.zero /\ ~signed => Writes(H, base, 0, m)
  BY <1>15 DEF FieldShows
<1>10. F = H
  BY <1>5, <1>8, <1>9
<1>11. s[1] \in Figures
  BY <1>6 DEF Writes
<1>12. v # 0 /\ Len(F) > d.width => F[1] \notin {Blank, "0"} \/ F[1] = sign
  <2> SUFFICES ASSUME v # 0, Len(F) > d.width PROVE F[1] \notin {Blank, "0"} \/ F[1] = sign
    OBVIOUS
  <2>1. CASE signed /\ H[1] = shown
    BY <1>7, <1>10, <2>1
  <2>2. CASE H[1] = s[1]
    BY <1>2, <1>6, <1>10, <1>11, <2>2, DigitsThere
  <2> QED BY <1>9, <1>10, <2>1, <2>2
<1>13. Signed(d) /\ v < 0 => "-" \in Range(F) \/ d.left
  <2>1. Signed(d) /\ v < 0 => sign = "-"
    BY DEF SignOf, sign
  <2>2. Signed(d) /\ v < 0 => signed
    BY <2>1, SignsApart DEF signed
  <2> QED BY <1>7, <1>9, <1>10, <2>1, <2>2
<1>14. ~Signed(d) => ~signed
  BY DEF SignOf, sign, signed
<1> QED BY <1>9, <1>10, <1>12, <1>13, <1>14 DEF d, F, base, m, sign
-----------------------------------------------------------------------------
(* Numbers read                                                            *)

LEMMA StrlenIs ==
  ASSUME NEW s, DOMAIN s \subseteq Nat, NEW l \in DOMAIN s, s[l] = Nul, \A i \in 0..(l - 1) : s[i] # Nul
  PROVE  strlen(s) = l
<1> DEFINE T == {i \in DOMAIN s : s[i] = Nul}
<1>1. l \in T /\ T \subseteq Nat
  OBVIOUS
<1>2. \A i \in T : l <= i
  <2>1. \A i \in T : i \in Nat /\ l \in Nat /\ i \notin 0..(l - 1)
    BY <1>1
  <2> HIDE DEF T
  <2> QED BY <2>1
<1> HIDE DEF T
<1>3. Min(T) \in T /\ \A y \in T : Min(T) <= y
  BY <1>1, LeastIs
<1>4. Min(T) = l
  BY <1>1, <1>2, <1>3
<1> QED BY <1>4 DEF strlen, T

\* No: with FALSE itself in a record SMT finds no proof.
No == FALSE
State(base, k, p, hex) ==
  [base |-> base, n |-> k, p |-> p, hex |-> hex, skip |-> No, done |-> No]

LEMMA StrHexIs ==
  ASSUME NEW str, NEW base, NEW len \in Nat, strlen(str) = len,
         NEW f, f[0] = State(base, 0, 0, << 0 >>),
         \A i \in 1..(len + 1) : f[i] = ReadChar(str, f[i - 1], i - 1)
  PROVE  str2hex(str, base) = SubSeq(f[len + 1].hex, 1, f[len + 1].n)
<1> DEFINE start == [base |-> base, n |-> 0, p |-> 0, hex |-> <<0>>, skip |-> FALSE, done |-> FALSE]
           Is(u) == u = [i \in 0..(len + 1) |-> IF i = 0 THEN start ELSE ReadChar(str, u[i - 1], i - 1)]
           g == [i \in 0..(len + 1) |-> f[i]]
           upto == CHOOSE u : Is(u)
<1>1. f[0] = start
  BY DEF State, No
<1> HIDE DEF start
<1>2. Is(g)
  <2>1. ASSUME NEW i \in 0..(len + 1)
        PROVE  f[i] = IF i = 0 THEN start ELSE ReadChar(str, g[i - 1], i - 1)
    <3>1. CASE i = 0
      BY <1>1, <3>1
    <3>2. CASE i # 0
      <4>1. i \in 1..(len + 1) /\ i - 1 \in 0..(len + 1)
        BY <3>2
      <4>2. g[i - 1] = f[i - 1]
        BY <4>1
      <4> QED BY <3>2, <4>1, <4>2
    <3> QED BY <3>1, <3>2
  <2>2. g = [i \in 0..(len + 1) |-> IF i = 0 THEN start ELSE ReadChar(str, g[i - 1], i - 1)]
    BY <2>1
  <2> QED BY <2>2
<1>3. Is(upto)
  <2> HIDE DEF Is
  <2> QED BY <1>2
<1> HIDE DEF upto, g
<1>4. /\ upto[0] = start
      /\ \A i \in 1..(len + 1) : upto[i] = ReadChar(str, upto[i - 1], i - 1)
  <2>1. 0 \in 0..(len + 1) /\ \A i \in 1..(len + 1) : i \in 0..(len + 1) /\ i # 0
    OBVIOUS
  <2> QED BY <1>3, <2>1
<1> DEFINE T == {i \in 0..(len + 1) : upto[i] = f[i]}
           top == len + 1
<1>5. 0 \in T
  BY <1>1, <1>4
<1>6. ASSUME NEW k \in 1..top, k - 1 \in T
      PROVE  k \in T
  <2>1. k \in 1..(len + 1) /\ k \in 0..(len + 1) /\ upto[k - 1] = f[k - 1]
    BY <1>6
  <2> QED BY <1>4, <2>1
<1>7. top \in Nat
  OBVIOUS
<1>8. top \in T
  <2> HIDE DEF T
  <2>1. 0..top \subseteq T
    <3> HIDE DEF top
    <3> QED BY <1>5, <1>6, <1>7, Reaches
  <2> QED BY <1>7, <2>1
<1>9. upto[len + 1] = f[len + 1]
  BY <1>8
<1> QED BY <1>9 DEF str2hex, upto, start

LEMMA DigitFigure ==
  ASSUME NEW base \in Bases, NEW ch \in FigsOf(base)
  PROVE  ch \in Figures /\ DigitValue(ch) \in Nat /\ ch # Blank /\ ch # Nul
<1>1. DigitValue(ch) \in 0..(base - 1) /\ ch = Digit(DigitValue(ch)) /\ base \in 1..16
  BY DigitOf DEF Bases
<1>2. DigitValue(ch) \in 0..15
  BY <1>1
<1>3. ch \in Figures
  BY <1>1, <1>2, DigitsThere
<1> QED BY <1>2, <1>3, DigitsThere

LEMMA LatestIs ==
  ASSUME NEW hs \in Seq(Nat), NEW x \in Nat, NEW y \in Nat
  PROVE  Append(hs, x)[Len(hs) + 1] = x /\ [Append(hs, x) EXCEPT ![Len(hs) + 1] = y] = Append(hs, y)
<1> DEFINE A == [Append(hs, x) EXCEPT ![Len(hs) + 1] = y]
           B == Append(hs, y)
<1>1. Append(hs, x) \in Seq(Nat) /\ Len(Append(hs, x)) = Len(hs) + 1 /\ Len(hs) \in Nat
  OBVIOUS
<1>2. A \in Seq(Nat) /\ Len(A) = Len(hs) + 1 /\ B \in Seq(Nat) /\ Len(B) = Len(hs) + 1
  <2> DEFINE C == Append(hs, x)
  <2>1. C \in Seq(Nat) /\ Len(C) = Len(hs) + 1
    BY <1>1
  <2> HIDE DEF C
  <2>2. [C EXCEPT ![Len(hs) + 1] = y] \in Seq(Nat) /\ Len([C EXCEPT ![Len(hs) + 1] = y]) = Len(C)
    BY <1>1, <2>1
  <2> QED BY <2>1, <2>2 DEF C
<1>3. ASSUME NEW i \in 1..(Len(hs) + 1)
      PROVE  A[i] = B[i]
  <2> DEFINE C == Append(hs, x)
  <2>1. i # Len(hs) + 1 => i \in 1..Len(hs)
    BY <1>1
  <2>2. C[i] = (IF i = Len(hs) + 1 THEN x ELSE hs[i]) /\ B[i] = (IF i = Len(hs) + 1 THEN y ELSE hs[i])
    BY <1>1, <2>1
  <2>3. DOMAIN C = 1..(Len(hs) + 1)
    BY <1>1
  <2> HIDE DEF C, B
  <2>4. [C EXCEPT ![Len(hs) + 1] = y][i] = IF i = Len(hs) + 1 THEN y ELSE C[i]
    BY <2>3
  <2> QED BY <2>2, <2>4 DEF C
<1> HIDE DEF A, B
<1>4. A = B
  BY <1>2, <1>3, SeqEqual
<1> QED BY <1>1, <1>4 DEF A, B

LEMMA ReadDigit ==
  ASSUME NEW base \in Bases, base # 8, NEW str, NEW i, str[i] \in FigsOf(base), str[i + 1] # "x",
         NEW hs \in Seq(Nat), NEW x \in Nat, NEW p \in Nat
  PROVE  ReadChar(str, State(base, Len(hs), p, Append(hs, x)), i)
           = State(base, Len(hs), p + 1, Append(hs, ((x * base) + DigitValue(str[i])) % Word))
<1> DEFINE r == State(base, Len(hs), p, Append(hs, x))
           v == DigitValue(str[i])
           y == ((x * base) + v) % Word
<1>1. str[i] # Blank /\ v \in Nat
  BY DigitFigure
<1>2. /\ r.base = base /\ r.n = Len(hs) /\ r.p = p /\ r.hex = Append(hs, x)
      /\ r.skip = FALSE /\ r.done = FALSE
  BY DEF State, No
<1>3. ReadChar(str, r, i) = Shifted(r, v)
  <2> HIDE DEF r
  <2>1. str[i] \in DigitsOf(base)
    BY FigsAre
  <2> QED BY <1>1, <1>2, <2>1 DEF ReadChar
<1> HIDE DEF v
<1>4. y \in Nat
  <2>1. base \in Nat /\ Word \in Nat \ {0}
    BY PrintkAssumption DEF Bases
  <2> DEFINE z == (x * base) + v
  <2>2. z \in Nat
    BY <1>1, <2>1
  <2> HIDE DEF z
  <2>3. z % Word \in Nat
    BY <2>1, <2>2
  <2> QED BY <2>3 DEF z
<1>5. /\ Append(hs, x)[Len(hs) + 1] = x
      /\ [Append(hs, x) EXCEPT ![Len(hs) + 1] = y] = Append(hs, y)
  <2> HIDE DEF y
  <2> QED BY <1>4, LatestIs
<1>6. Shifted(r, v) = State(base, Len(hs), p + 1, Append(hs, y))
  <2> DEFINE A == Append(hs, x)
  <2>1. Shifted(r, v) =
          [State(base, Len(hs), p, A) EXCEPT
             !.hex = [A EXCEPT ![Len(hs) + 1] = ((A[Len(hs) + 1] * base) + v) % Word], !.p = p + 1]
    BY DEF Shifted, State
  <2>2. [A EXCEPT ![Len(hs) + 1] = ((A[Len(hs) + 1] * base) + v) % Word] = Append(hs, y)
    BY <1>5
  <2> HIDE DEF A, y
  <2>3. Shifted(r, v) = [State(base, Len(hs), p, A) EXCEPT !.hex = Append(hs, y), !.p = p + 1]
    BY <2>1, <2>2
  <2> QED BY <2>3 DEF State
<1> QED BY <1>3, <1>6 DEF v

LEMMA ReadBlank ==
  ASSUME NEW base, NEW str, NEW i, str[i] = Blank, NEW k, NEW p, NEW hex
  PROVE  ReadChar(str, State(base, k, p, hex), i) =
           IF p = 0 THEN State(base, k, p, hex) ELSE State(base, k + 1, 0, Append(hex, 0))
<1> DEFINE r == State(base, k, p, hex)
<1>1. /\ r.p = p /\ r.skip = FALSE /\ r.done = FALSE
      /\ r.n = k /\ r.hex = hex
  BY DEF State, No
<1>3. [r EXCEPT !.n = r.n + 1, !.hex = Append(r.hex, 0), !.p = 0] = State(base, k + 1, 0, Append(hex, 0))
  <2> DEFINE wider == Append(hex, 0)
             more == k + 1
  <2>1. r.n + 1 = more /\ Append(r.hex, 0) = wider
    BY <1>1
  <2> HIDE DEF wider, more
  <2>2. [r EXCEPT !.n = more] = State(base, more, p, hex)
    BY DEF State
  <2>3. [State(base, more, p, hex) EXCEPT !.hex = wider] = State(base, more, p, wider)
    BY DEF State
  <2>4. [State(base, more, p, wider) EXCEPT !.p = 0] = State(base, more, 0, wider)
    BY DEF State
  <2> HIDE DEF r
  <2>5. [r EXCEPT !.n = more, !.hex = wider, !.p = 0] = [[[r EXCEPT !.n = more] EXCEPT !.hex = wider] EXCEPT !.p = 0]
    OBVIOUS
  <2>6. [[[r EXCEPT !.n = more] EXCEPT !.hex = wider] EXCEPT !.p = 0] = State(base, more, 0, wider)
    BY <2>2, <2>3, <2>4
  <2>7. [r EXCEPT !.n = r.n + 1, !.hex = Append(r.hex, 0), !.p = 0] = [r EXCEPT !.n = more, !.hex = wider, !.p = 0]
    BY <2>1
  <2>8. [r EXCEPT !.n = r.n + 1, !.hex = Append(r.hex, 0), !.p = 0] = State(base, more, 0, wider)
    BY <2>5, <2>6, <2>7
  <2> QED BY <2>8 DEF wider, more
<1> HIDE DEF r
<1>2. ReadChar(str, r, i) = IF r.p = 0 THEN r ELSE [r EXCEPT !.n = r.n + 1, !.hex = Append(r.hex, 0), !.p = 0]
  BY <1>1 DEF ReadChar
<1> QED BY <1>1, <1>2, <1>3 DEF r

LEMMA ReadNul ==
  ASSUME NEW base \in Bases, base # 8, NEW str, NEW i, str[i] = Nul, NEW k, NEW p, NEW hex
  PROVE  LET r == ReadChar(str, State(base, k, p, hex), i)
         IN  r.hex = hex /\ r.n = IF p > 0 THEN k + 1 ELSE k
<1>1. Nul \notin DigitsOf(base) /\ Nul # "0" /\ Nul # Blank
  BY DigitFigure, FigsAre, SignsApart
<1> QED BY <1>1 DEF ReadChar, State, No

\* The states of str2hex in the field P of a number that follows the numbers hs:
\* after j of its characters.
InBlock(base, hs, a, c, w, j) ==
  IF j <= a THEN State(base, Len(hs), 0, Append(hs, 0))
  ELSE IF j <= c THEN State(base, Len(hs), j - a, Append(hs, w[j - a] % Word))
  ELSE State(base, Len(hs) + 1, 0, Append(Append(hs, w[c - a] % Word), 0))

\* In P the number m stands between blanks; w has the value of its first digits.
Numeral(P, a, c, base, m, w) ==
  /\ Len(P) \in Nat /\ a \in 0..Len(P) /\ c \in 0..Len(P) /\ a < c
  /\ \A i \in 1..Len(P) : i <= a \/ i > c => P[i] = Blank
  /\ Reads0([k \in 1..(c - a) |-> P[a + k]], base, 0, m, w)

\* Reading one character more goes on from InBlock to InBlock.
BlockReads(base, hs, a, c, w, j, str, i) ==
  ReadChar(str, InBlock(base, hs, a, c, w, j - 1), i) = InBlock(base, hs, a, c, w, j)

LEMMA BlockStep ==
  ASSUME NEW base \in Bases, base # 8, NEW P, NEW a, NEW c, NEW m, NEW w, Numeral(P, a, c, base, m, w),
         NEW hs \in Seq(Nat), NEW j \in 1..Len(P), NEW str, NEW i, str[i] = P[j], str[i + 1] # "x"
  PROVE  BlockReads(base, hs, a, c, w, j, str, i)
<1> DEFINE s == [k \in 1..(c - a) |-> P[a + k]]
           l == Len(hs)
<1> SUFFICES ReadChar(str, InBlock(base, hs, a, c, w, j - 1), i) = InBlock(base, hs, a, c, w, j)
  BY DEF BlockReads
<1>0. /\ Len(P) \in Nat /\ a \in 0..Len(P) /\ c \in 0..Len(P) /\ a < c
      /\ \A k \in 1..Len(P) : k <= a \/ k > c => P[k] = Blank
      /\ Reads0(s, base, 0, m, w)
  BY DEF Numeral
<1>1. Len(s) = c - a /\ Word \in Nat \ {0} /\ base \in Nat /\ l \in Nat
  BY <1>0, PrintkAssumption DEF Bases
<1>2. /\ w \in [0..(c - a) -> Nat] /\ w[0] = 0
      /\ \A k \in 1..(c - a) : s[k] \in FigsOf(base) /\ w[k] = (w[k - 1] * base) + DigitValue(s[k])
  <2> HIDE DEF s
  <2> QED BY <1>0, <1>1 DEF Reads0
<1> HIDE DEF s
<1>3. CASE j <= a
  <2>1. P[j] = Blank /\ j - 1 <= a
    BY <1>0, <1>3
  <2>2. ReadChar(str, State(base, l, 0, Append(hs, 0)), i) = State(base, l, 0, Append(hs, 0))
    BY <2>1, ReadBlank
  <2> QED BY <1>3, <2>1, <2>2 DEF InBlock
<1>4. CASE ~(j <= a) /\ j <= c
  <2> DEFINE k == j - a
             x == w[k - 1] % Word
  <2>1. k \in 1..(c - a) /\ k - 1 \in 0..(c - a) /\ (j - 1) - a = k - 1 /\ k - 1 \in Nat /\ a + k = j
    BY <1>0, <1>4
  <2>2. str[i] \in FigsOf(base) /\ w[k] = (w[k - 1] * base) + DigitValue(str[i])
    <3>1. s[k] = P[a + k]
      BY <2>1 DEF s
    <3> HIDE DEF k
    <3> QED BY <1>2, <2>1, <3>1
  <2>3. w[k - 1] \in Nat /\ x \in Nat
    <3>1. w[k - 1] \in Nat
      BY <1>2, <2>1
    <3> HIDE DEF k
    <3> QED BY <1>1, <3>1
  <2>4. InBlock(base, hs, a, c, w, j - 1) = State(base, l, k - 1, Append(hs, x))
    <3>1. CASE j - 1 <= a
      <4>1. k - 1 = 0
        BY <1>0, <1>4, <3>1
      <4>2. 0 % Word = 0
        BY <1>1, QuotientIs
      <4>3. x = 0
        BY <1>2, <4>1, <4>2
      <4> HIDE DEF x, k
      <4> QED BY <3>1, <4>1, <4>3 DEF InBlock
    <3>2. CASE ~(j - 1 <= a)
      <4>1. j - 1 <= c
        BY <1>0, <1>4
      <4> QED BY <2>1, <3>2, <4>1 DEF InBlock
    <3> QED BY <3>1, <3>2
  <2>5. InBlock(base, hs, a, c, w, j) = State(base, l, k, Append(hs, w[k] % Word))
    BY <1>4 DEF InBlock
  <2> DEFINE y == ((x * base) + DigitValue(str[i])) % Word
             p == k - 1
  <2>6. ReadChar(str, State(base, l, p, Append(hs, x)), i) = State(base, l, p + 1, Append(hs, y))
    <3>1. p \in Nat
      BY <2>1
    <3> HIDE DEF x, p
    <3> QED BY <2>2, <2>3, <3>1, ReadDigit
  <2>7. y = w[k] % Word
    <3>1. DigitValue(str[i]) \in Nat
      BY <2>2, DigitFigure
    <3> DEFINE h == w[k - 1]
               v == DigitValue(str[i])
    <3>2. h \in Nat /\ v \in Nat /\ w[k] = (h * base) + v
      BY <2>2, <2>3, <3>1
    <3>3. Word \in Nat \ {0} /\ h \in Nat /\ base \in Nat /\ v \in Nat
      BY <1>1, <3>2
    <3> HIDE DEF h, v, x, y, p, k
    <3>4. WithDigit(h % Word, base, v, Word) = WithDigit(h, base, v, Word)
      BY <3>3, WordWithDigit
    <3> QED BY <3>2, <3>4 DEF h, v, x, y, WithDigit
  <2>8. p + 1 = k
    BY <2>1
  <2> HIDE DEF k, x, y, p
  <2> QED BY <2>4, <2>5, <2>6, <2>7, <2>8 DEF p
<1>5. CASE j > c
  <2>1. P[j] = Blank /\ ~(j <= a) /\ ~(j <= c)
    BY <1>0, <1>5
  <2> DEFINE A == Append(hs, w[c - a] % Word)
  <2>2. InBlock(base, hs, a, c, w, j) = State(base, l + 1, 0, Append(A, 0))
    BY <2>1 DEF InBlock
  <2>3. CASE j - 1 <= c
    <3>1. j - 1 = c /\ ~(j - 1 <= a) /\ c - a # 0 /\ (j - 1) - a = c - a
      BY <1>0, <1>5, <2>3
    <3>2. InBlock(base, hs, a, c, w, j - 1) = State(base, l, c - a, A)
      BY <2>3, <3>1 DEF InBlock
    <3> DEFINE p == c - a
    <3> HIDE DEF A, p
    <3>3. ReadChar(str, State(base, l, p, A), i) = State(base, l + 1, 0, Append(A, 0))
      <4>1. p # 0
        BY <3>1 DEF p
      <4> QED BY <2>1, <4>1, ReadBlank
    <3> QED BY <2>2, <3>2, <3>3 DEF p
  <2>4. CASE ~(j - 1 <= c)
    <3>1. ~(j - 1 <= a)
      BY <1>0, <2>4
    <3>2. InBlock(base, hs, a, c, w, j - 1) = State(base, l + 1, 0, Append(A, 0))
      BY <2>4, <3>1 DEF InBlock
    <3> HIDE DEF A
    <3>3. ReadChar(str, State(base, l + 1, 0, Append(A, 0)), i) = State(base, l + 1, 0, Append(A, 0))
      BY <2>1, ReadBlank
    <3> QED BY <2>2, <3>2, <3>3
  <2> QED BY <2>3, <2>4
<1> QED BY <1>0, <1>3, <1>4, <1>5

LEMMA MarkedIs ==
  \A ch \in Marked : ch # "x" /\ ch # Nul
BY DigitsThere, SignsApart DEF Marked

LEMMA GrownIs ==
  ASSUME NEW q \in Seq(Nat), NEW v \in Nat
  PROVE  /\ Append(q, v) \in Seq(Nat) /\ Len(q) \in Nat /\ Len(Append(q, v)) = Len(q) + 1
         /\ \A i \in 1..Len(q) : Append(q, v)[i] = q[i]
         /\ Append(q, v)[Len(q) + 1] = v
BY AppendProperties

LEMMA TwoOf ==
  ASSUME NEW m \in Nat, NEW hex, hex = Append(<<m>>, m) \/ hex = Append(Append(<<m>>, m), 0)
  PROVE  SubSeq(hex, 1, 2) = <<m, m>>
<1> DEFINE one == <<m>>
           two == <<m, m>>
<1>1. one \in Seq(Nat) /\ Len(one) = 1 /\ one[1] = m /\ two \in Seq(Nat) /\ Len(two) = 2 /\ two[1] = m /\ two[2] = m
  OBVIOUS
<1> HIDE DEF one, two
<1>2. hex = Append(one, m) \/ hex = Append(Append(one, m), 0)
  BY DEF one
<1>3. hex \in Seq(Nat) /\ Len(hex) >= 2 /\ Len(hex) \in Nat /\ hex[1] = m /\ hex[2] = m
  <2> DEFINE first == Append(one, m)
  <2>1. first \in Seq(Nat) /\ Len(first) = 2 /\ first[1] = m /\ first[2] = m
    <3>1. one \in Seq(Nat) /\ m \in Nat
      BY <1>1
    <3>2. /\ first \in Seq(Nat) /\ Len(first) = Len(one) + 1
          /\ \A i \in 1..Len(one) : first[i] = one[i]
          /\ first[Len(one) + 1] = m
      BY <3>1, GrownIs
    <3>3. 1 \in 1..Len(one) /\ Len(one) + 1 = 2
      BY <1>1
    <3> HIDE DEF first
    <3> QED BY <1>1, <3>2, <3>3
  <2> HIDE DEF first
  <2>2. /\ Append(first, 0) \in Seq(Nat) /\ Len(Append(first, 0)) = 3
        /\ Append(first, 0)[1] = m /\ Append(first, 0)[2] = m
    <3>1. first \in Seq(Nat) /\ 0 \in Nat
      BY <2>1
    <3>2. /\ Append(first, 0) \in Seq(Nat) /\ Len(Append(first, 0)) = Len(first) + 1
          /\ \A i \in 1..Len(first) : Append(first, 0)[i] = first[i]
      BY <3>1, GrownIs
    <3>3. 1 \in 1..Len(first) /\ 2 \in 1..Len(first) /\ Len(first) + 1 = 3
      BY <2>1
    <3> QED BY <2>1, <3>2, <3>3
  <2>3. hex = first \/ hex = Append(first, 0)
    BY <1>2 DEF first
  <2>4. CASE hex = first
    BY <2>1, <2>4, SMTT(30)
  <2>5. CASE hex = Append(first, 0)
    BY <2>2, <2>5
  <2> QED BY <2>3, <2>4, <2>5
<1>4. 1 \in 1..(Len(hex) + 1) /\ 2 \in (1 - 1)..Len(hex)
  BY <1>3
<1>5. /\ SubSeq(hex, 1, 2) \in Seq(Nat) /\ Len(SubSeq(hex, 1, 2)) = 2 - 1 + 1
      /\ \A i \in 1..(2 - 1 + 1) : SubSeq(hex, 1, 2)[i] = hex[1 + i - 1]
  BY <1>3, <1>4, PartIs
<1>6. SubSeq(hex, 1, 2) = two
  BY <1>1, <1>3, <1>5, SeqEqual
<1> QED BY <1>6 DEF two

\* A number typed twice
LEMMA TwiceRead ==
  ASSUME NEW base \in Bases, base # 8, NEW P \in Seq(Marked), NEW a, NEW c, NEW m \in 0..(Word - 1),
         Stands(P, a, c, base, m),
         NEW str, strlen(str) = 2 * Len(P) + 1,
         \A i \in 1..Len(P) : str[i - 1] = P[i] /\ str[Len(P) + i] = P[i],
         str[Len(P)] = Blank, str[2 * Len(P) + 1] = Nul
  PROVE  str2hex(str, base) = <<m, m>>
<1> DEFINE l == Len(P)
           s == [k \in 1..(c - a) |-> P[a + k]]
<1>1. /\ l \in Nat /\ a \in 0..l /\ c \in 0..l /\ a < c
      /\ \A i \in 1..l : P[i] \in Marked
      /\ \A i \in 1..l : i <= a \/ i > c => P[i] = Blank
      /\ Word \in Nat \ {0} /\ m \in Nat
  BY PrintkAssumption DEF Stands
<1>2. PICK w : Reads0(s, base, 0, m, w)
  BY DEF Stands, Writes
<1>3. w[c - a] % Word = m
  <2>1. Len(s) = c - a
    BY <1>1
  <2> HIDE DEF s
  <2>2. w[c - a] = m
    BY <1>2, <2>1 DEF Reads0
  <2>3. m % Word = m
    BY <1>1, WordKept
  <2> QED BY <2>2, <2>3
<1>4. \A i \in 0..(2 * l + 1) : str[i] # "x"
  <2> SUFFICES ASSUME NEW i \in 0..(2 * l + 1) PROVE str[i] # "x"
    OBVIOUS
  <2>1. CASE i < l
    <3>1. i + 1 \in 1..l /\ (i + 1) - 1 = i
      BY <1>1, <2>1
    <3>2. str[(i + 1) - 1] = P[i + 1]
      BY <3>1
    <3> QED BY <1>1, <3>1, <3>2, MarkedIs
  <2>2. CASE i = l \/ i = 2 * l + 1
    BY <2>2, SignsApart
  <2>3. CASE l < i /\ i < 2 * l + 1
    <3>1. i - l \in 1..l /\ l + (i - l) = i
      BY <1>1, <2>3
    <3>2. str[l + (i - l)] = P[i - l]
      BY <3>1
    <3> QED BY <1>1, <3>1, <3>2, MarkedIs
  <2>4. i < l \/ (i = l \/ i = 2 * l + 1) \/ (l < i /\ i < 2 * l + 1)
    <3> HIDE DEF l
    <3> QED BY <1>1
  <2> QED BY <2>1, <2>2, <2>3, <2>4
<1>15. Numeral(P, a, c, base, m, w)
  BY <1>1, <1>2 DEF Numeral
<1> DEFINE A(j) == InBlock(base, <<>>, a, c, w, j)
           B(j) == InBlock(base, <<m>>, a, c, w, j)
<1>5. ASSUME NEW j \in 1..l
      PROVE  ReadChar(str, A(j - 1), j - 1) = A(j)
  <2> DEFINE i == j - 1
  <2>1. str[i] = P[j] /\ str[i + 1] # "x"
    <3>1. i + 1 \in 0..(2 * l + 1)
      BY <1>1
    <3> QED BY <1>4, <3>1
  <2> HIDE DEF i
  <2>2. ReadChar(str, A(j - 1), i) = A(j)
    <3> DEFINE hs == <<>>
    <3>1. hs \in Seq(Nat)
      OBVIOUS
    <3> HIDE DEF hs
    <3>2. BlockReads(base, hs, a, c, w, j, str, i)
      BY <1>15, <2>1, <3>1, BlockStep
    <3> QED BY <3>2 DEF hs, BlockReads
  <2> QED BY <2>2 DEF i
<1>6. ASSUME NEW j \in 1..l
      PROVE  ReadChar(str, B(j - 1), l + j) = B(j)
  <2> DEFINE i == l + j
  <2>1. str[i] = P[j] /\ str[i + 1] # "x"
    <3>1. i + 1 \in 0..(2 * l + 1)
      BY <1>1
    <3> QED BY <1>4, <3>1
  <2> HIDE DEF i
  <2>2. ReadChar(str, B(j - 1), i) = B(j)
    <3> DEFINE hs == <<m>>
    <3>1. hs \in Seq(Nat)
      BY <1>1
    <3> HIDE DEF hs
    <3>2. BlockReads(base, hs, a, c, w, j, str, i)
      BY <1>15, <2>1, <3>1, BlockStep
    <3> QED BY <3>2 DEF hs, BlockReads
  <2> QED BY <2>2 DEF i
<1> DEFINE one == <<m>>
<1>16. one \in Seq(Nat) /\ Len(one) = 1 /\ Append(<<>>, m) = one
  BY <1>1
<1> HIDE DEF one
<1>7. /\ A(0) = State(base, 0, 0, <<0>>) /\ B(0) = State(base, 1, 0, Append(one, 0))
      /\ A(l) = IF l = c THEN State(base, 0, l - a, one) ELSE State(base, 1, 0, Append(one, 0))
      /\ B(l) = IF l = c THEN State(base, 1, l - a, Append(one, m)) ELSE State(base, 2, 0, Append(Append(one, m), 0))
  <2>1. 0 <= a /\ ~(l <= a) /\ (l <= c <=> l = c)
    BY <1>1
  <2>2. Len(<<>>) = 0 /\ Append(<<>>, 0) = <<0>>
    OBVIOUS
  <2> HIDE DEF l
  <2>3. A(0) = State(base, 0, 0, <<0>>)
    BY <2>1, <2>2 DEF InBlock
  <2>4. B(0) = State(base, 1, 0, Append(one, 0))
    BY <1>16, <2>1 DEF InBlock, one
  <2>5. A(l) = IF l = c THEN State(base, 0, l - a, one) ELSE State(base, 1, 0, Append(one, 0))
    BY <1>3, <1>16, <2>1, <2>2 DEF InBlock
  <2>6. B(l) = IF l = c THEN State(base, 1, l - a, Append(one, m)) ELSE State(base, 2, 0, Append(Append(one, m), 0))
    <3>1. InBlock(base, one, a, c, w, l) = IF l = c THEN State(base, 1, l - a, Append(one, m)) ELSE State(base, 2, 0, Append(Append(one, m), 0))
      BY <1>3, <1>16, <2>1 DEF InBlock
    <3> QED BY <3>1 DEF one
  <2> QED BY <2>3, <2>4, <2>5, <2>6
<1>8. ReadChar(str, A(l), l) = B(0)
  <2> HIDE DEF A, B
  <2>1. CASE l = c
    <3> DEFINE p == l - a
    <3>1. p # 0
      BY <1>1, <2>1
    <3>2. A(l) = State(base, 0, p, one)
      BY <1>7, <2>1
    <3> HIDE DEF p, l
    <3>3. ReadChar(str, State(base, 0, p, one), l) = State(base, 0 + 1, 0, Append(one, 0))
      BY <3>1, ReadBlank DEF l
    <3>4. 0 + 1 = 1
      OBVIOUS
    <3> QED BY <1>7, <3>2, <3>3, <3>4
  <2>2. CASE l # c
    <3> DEFINE hex == Append(one, 0)
    <3>1. A(l) = State(base, 1, 0, hex)
      BY <1>7, <2>2
    <3> HIDE DEF hex, l
    <3>2. ReadChar(str, State(base, 1, 0, hex), l) = State(base, 1, 0, hex)
      BY ReadBlank DEF l
    <3> QED BY <1>7, <3>1, <3>2 DEF hex
  <2> QED BY <2>1, <2>2
<1> HIDE DEF A, B
<1> DEFINE len == 2 * l + 1
           g(i) == IF i <= l THEN A(i) ELSE B(i - (l + 1))
           f == [i \in 0..(len + 1) |-> IF i <= len THEN g(i) ELSE ReadChar(str, g(len), len)]
<1>9. ASSUME NEW i \in 1..len
      PROVE  g(i) = ReadChar(str, g(i - 1), i - 1)
  <2>1. CASE i <= l
    <3>1. i \in 1..l /\ i - 1 <= l
      BY <2>1
    <3> QED BY <1>5, <2>1, <3>1
  <2>2. CASE i = l + 1
    <3>1. i - 1 = l /\ ~(i <= l) /\ i - (l + 1) = 0 /\ l <= l
      BY <1>1, <2>2
    <3> QED BY <1>8, <3>1
  <2>3. CASE i > l + 1
    <3> DEFINE j == i - (l + 1)
    <3>1. j \in 1..l /\ (i - 1) - (l + 1) = j - 1 /\ l + j = i - 1 /\ ~(i <= l) /\ ~(i - 1 <= l)
      BY <1>1, <2>3
    <3>2. ReadChar(str, B(j - 1), l + j) = B(j)
      <4> HIDE DEF j
      <4> QED BY <1>6, <3>1
    <3> QED BY <3>1, <3>2
  <2>4. i <= l \/ i = l + 1 \/ i > l + 1
    <3>1. l \in Nat /\ len \in Nat
      BY <1>1
    <3> HIDE DEF l, len
    <3> QED BY <3>1
  <2> HIDE DEF g
  <2> QED BY <2>1, <2>2, <2>3, <2>4
<1>10. /\ f[0] = State(base, 0, 0, <<0>>) /\ f[len + 1] = ReadChar(str, B(l), len)
       /\ \A i \in 1..(len + 1) : f[i] = ReadChar(str, f[i - 1], i - 1)
  <2>1. len \in Nat /\ l \in Nat /\ len - (l + 1) = l /\ ~(len <= l) /\ ~(len + 1 <= len)
    BY <1>1
  <2>2. g(0) = A(0) /\ g(len) = B(l)
    BY <2>1
  <2> HIDE DEF len, g, l
  <2>3. f[0] = g(0) /\ f[len + 1] = ReadChar(str, g(len), len) /\ \A i \in 0..len : f[i] = g(i)
    BY <2>1
  <2>4. ASSUME NEW i \in 1..(len + 1)
        PROVE  f[i] = ReadChar(str, f[i - 1], i - 1)
    <3> HIDE DEF f
    <3>1. CASE i = len + 1
      <4>1. i - 1 = len /\ len \in 0..len
        BY <2>1, <3>1
      <4> QED BY <2>3, <3>1, <4>1
    <3>2. CASE i # len + 1
      <4>1. i \in 1..len /\ i \in 0..len /\ i - 1 \in 0..len
        BY <2>1, <3>2
      <4> QED BY <1>9, <2>3, <4>1
    <3> QED BY <3>1, <3>2
  <2> HIDE DEF f
  <2> QED BY <1>7, <2>2, <2>3, <2>4
<1> HIDE DEF f, g
<1>11. str2hex(str, base) = SubSeq(f[len + 1].hex, 1, f[len + 1].n)
  <2>1. len \in Nat /\ strlen(str) = len
    BY <1>1
  <2> HIDE DEF len
  <2> QED BY <1>10, <2>1, StrHexIs
<1>12. str[len] = Nul
  OBVIOUS
<1> HIDE DEF len, l
<1>13. f[len + 1].n = 2 /\ (f[len + 1].hex = Append(one, m) \/ f[len + 1].hex = Append(Append(one, m), 0))
  <2>1. CASE l = c
    <3> DEFINE p == l - a
               hex == Append(one, m)
    <3>1. p > 0
      BY <1>1, <2>1 DEF l
    <3>2. B(l) = State(base, 1, p, hex)
      BY <1>7, <2>1
    <3> HIDE DEF p, hex
    <3>3. f[len + 1].hex = hex /\ f[len + 1].n = 1 + 1
      BY <1>10, <1>12, <3>1, <3>2, ReadNul
    <3> QED BY <3>3 DEF hex
  <2>2. CASE l # c
    <3> DEFINE hex == Append(Append(one, m), 0)
    <3>1. B(l) = State(base, 2, 0, hex)
      BY <1>7, <2>2
    <3> HIDE DEF hex
    <3>2. f[len + 1].hex = hex /\ f[len + 1].n = 2
      BY <1>10, <1>12, <3>1, ReadNul
    <3> QED BY <3>2 DEF hex
  <2> QED BY <2>1, <2>2
<1>14. SubSeq(f[len + 1].hex, 1, 2) = <<m, m>>
  BY <1>1, <1>13, TwoOf DEF one
<1> QED BY <1>11, <1>13, <1>14

\* str is P, a blank and P again.
Twice(str, P) ==
  /\ strlen(str) = 2 * Len(P) + 1
  /\ \A i \in 1..Len(P) : str[i - 1] = P[i] /\ str[Len(P) + i] = P[i]
  /\ str[Len(P)] = Blank /\ str[2 * Len(P) + 1] = Nul

LEMMA TwiceIsRead ==
  ASSUME NEW base \in Bases, base # 8, NEW P \in Seq(Marked), NEW a, NEW c, NEW m \in 0..(Word - 1),
         Stands(P, a, c, base, m), NEW str, Twice(str, P)
  PROVE  str2hex(str, base) = <<m, m>>
<1>1. /\ strlen(str) = 2 * Len(P) + 1
      /\ \A i \in 1..Len(P) : str[i - 1] = P[i] /\ str[Len(P) + i] = P[i]
      /\ str[Len(P)] = Blank /\ str[2 * Len(P) + 1] = Nul
  BY DEF Twice
<1> QED BY <1>1, TwiceRead

\* What printk shows of a number, typed twice in a command
LEMMA ArgsTwice ==
  ASSUME NEW base \in Bases, base # 8, NEW P \in Seq(Marked), NEW a, NEW c, NEW m \in 0..(Word - 1),
         Stands(P, a, c, base, m)
  PROVE  ArgsOf(StringOf(<<"w", Blank>> \o P \o <<Blank>> \o P), base) = <<m, m>>
<1> DEFINE l == Len(P)
           S == Marked \cup {"w"}
           whole == <<"w", Blank>> \o P \o <<Blank>> \o P
           top == 2 * l + 3
           cmd == StringOf(whole)
<1>1. l \in Nat /\ top \in Nat /\ P \in Seq(S) /\ Blank \in S /\ "w" \in S /\ \A i \in 1..l : P[i] \in Marked
  BY DEF Marked
<1> HIDE DEF S
<1>2. /\ whole \in Seq(S) /\ Len(whole) = top
      /\ whole[1] = "w" /\ whole[2] = Blank /\ whole[l + 3] = Blank
      /\ \A i \in 1..l : whole[2 + i] = P[i] /\ whole[l + 3 + i] = P[i]
  <2> DEFINE A == <<"w", Blank>>
             B == A \o P
             C == B \o <<Blank>>
  <2>1. A \in Seq(S) /\ Len(A) = 2 /\ A[1] = "w" /\ A[2] = Blank
    BY <1>1
  <2> HIDE DEF A
  <2>2. /\ B \in Seq(S) /\ Len(B) = 2 + l /\ B[1] = "w" /\ B[2] = Blank
        /\ \A i \in 1..l : B[2 + i] = P[i]
    <3>1. /\ B \in Seq(S) /\ Len(B) = Len(A) + Len(P)
          /\ \A i \in 1..(Len(A) + Len(P)) : B[i] = IF i <= Len(A) THEN A[i] ELSE P[i - Len(A)]
      BY <1>1, <2>1, ConcatProperties
    <3>2. /\ B[1] = "w" /\ B[2] = Blank
          /\ \A i \in 1..l : B[2 + i] = P[i]
      <4>1. 1 \in 1..(2 + l) /\ 2 \in 1..(2 + l)
        BY <1>1
      <4>2. \A i \in 1..l : 2 + i \in 1..(2 + l) /\ ~(2 + i <= 2) /\ (2 + i) - 2 = i
        BY <1>1
      <4> HIDE DEF B
      <4> QED BY <2>1, <3>1, <4>1, <4>2
    <3> HIDE DEF B
    <3> QED BY <2>1, <3>1, <3>2
  <2> HIDE DEF B
  <2>3. /\ C \in Seq(S) /\ Len(C) = l + 3 /\ C[l + 3] = Blank
        /\ \A i \in 1..(l + 2) : C[i] = B[i]
    BY <1>1, <2>2
  <2> HIDE DEF C
  <2>4. whole = C \o P
    BY DEF A, B, C
  <2>5. /\ C \o P \in Seq(S) /\ Len(C \o P) = l + 3 + l
        /\ \A i \in 1..(l + 3) : (C \o P)[i] = C[i]
        /\ \A i \in 1..l : (C \o P)[l + 3 + i] = P[i]
    BY <1>1, <2>3, SMTT(30)
  <2>6. l + 3 + l = top /\ 1 \in 1..(l + 2) /\ 2 \in 1..(l + 2) /\ l + 3 \in 1..(l + 3)
        /\ (\A i \in 1..(l + 2) : i \in 1..(l + 3))
        /\ (\A i \in 1..l : 2 + i \in 1..(l + 2))
    BY <1>1
  <2> HIDE DEF whole, l, top
  <2> QED BY <2>2, <2>3, <2>4, <2>5, <2>6
<1> HIDE DEF whole
<1>3. \A i \in 1..top : whole[i] # Nul
  <2>1. \A ch \in S : ch # Nul
    BY MarkedIs, SignsApart DEF S
  <2> HIDE DEF top
  <2> QED BY <1>2, <2>1
<1>4. /\ DOMAIN cmd = 0..top /\ cmd[top] = Nul
      /\ \A i \in 0..(top - 1) : cmd[i] = whole[i + 1]
  <2> HIDE DEF top
  <2> QED BY <1>1, <1>2 DEF StringOf
<1> HIDE DEF cmd
<1>5. strlen(cmd) = top
  <2>1. \A i \in 0..(top - 1) : cmd[i] # Nul
    <3>1. \A i \in 0..(top - 1) : i + 1 \in 1..top
      BY <1>1
    <3> HIDE DEF top
    <3> QED BY <1>3, <1>4, <3>1
  <2> HIDE DEF top
  <2> QED BY <1>1, <1>4, <2>1, StrlenIs
<1>6. strchr(cmd, Blank) = 1
  <2> DEFINE places == {i \in 0..(top - 1) : cmd[i] = Blank}
  <2>1. cmd[0] = "w" /\ cmd[1] = Blank /\ 0 \in 0..(top - 1) /\ 1 \in 0..(top - 1)
    <3>1. 0 \in 0..(top - 1) /\ 1 \in 0..(top - 1) /\ 0 + 1 = 1 /\ 1 + 1 = 2
      BY <1>1
    <3> HIDE DEF top
    <3> QED BY <1>2, <1>4, <3>1
  <2>2. 1 \in places /\ places \subseteq Nat /\ 0 \notin places
    <3> HIDE DEF top
    <3> QED BY <1>1, <2>1, SignsApart
  <2> HIDE DEF places
  <2>3. Min(places) \in places /\ \A y \in places : Min(places) <= y
    BY <2>2, LeastIs
  <2>4. Min(places) = 1
    <3> DEFINE least == Min(places)
    <3>1. least \in Nat /\ least # 0 /\ least <= 1
      BY <2>2, <2>3
    <3> HIDE DEF least
    <3>2. least = 1
      BY <3>1
    <3> QED BY <3>2 DEF least
  <2>5. places # {}
    BY <2>2
  <2> QED BY <1>5, <2>4, <2>5 DEF strchr, places
<1> DEFINE str == [i \in 0..(strlen(cmd) - 1 - 1) |-> cmd[1 + 1 + i]]
<1>7. ArgsOf(cmd, base) = str2hex(str, base)
  BY <1>6 DEF ArgsOf
<1>8. /\ DOMAIN str = 0..(2 * l + 1)
      /\ \A i \in 0..(2 * l + 1) : str[i] = cmd[2 + i]
  <2>1. strlen(cmd) - 1 - 1 = 2 * l + 1 /\ \A i \in 0..(2 * l + 1) : 1 + 1 + i = 2 + i
    BY <1>1, <1>5
  <2> QED BY <2>1
<1> HIDE DEF str
<1>9. \A i \in 0..(2 * l) : str[i] = whole[3 + i] /\ str[i] # Nul
  <2>1. \A i \in 0..(2 * l) : i \in 0..(2 * l + 1) /\ 2 + i \in 0..(top - 1) /\ (2 + i) + 1 = 3 + i /\ 3 + i \in 1..top
    BY <1>1
  <2> HIDE DEF top, l
  <2> QED BY <1>3, <1>4, <1>8, <2>1
<1>10. str[2 * l + 1] = Nul /\ 2 * l + 1 \in DOMAIN str
  <2>1. 2 * l + 1 \in 0..(2 * l + 1) /\ 2 + (2 * l + 1) = top
    BY <1>1
  <2> HIDE DEF top, l
  <2> QED BY <1>4, <1>8, <2>1
<1>11. strlen(str) = 2 * l + 1
  <2> DEFINE k == 2 * l + 1
  <2>1. k - 1 = 2 * l /\ k \in Nat
    BY <1>1
  <2>2. DOMAIN str \subseteq Nat /\ k \in DOMAIN str /\ str[k] = Nul /\ \A i \in 0..(k - 1) : str[i] # Nul
    BY <1>8, <1>9, <1>10, <2>1
  <2> HIDE DEF k
  <2>3. strlen(str) = k
    BY <2>2, StrlenIs
  <2> QED BY <2>3 DEF k
<1>12. /\ str[l] = Blank
       /\ \A i \in 1..l : str[i - 1] = P[i] /\ str[l + i] = P[i]
  <2>1. l \in 0..(2 * l) /\ 3 + l = l + 3
    BY <1>1
  <2>2. \A i \in 1..l : /\ i - 1 \in 0..(2 * l) /\ 3 + (i - 1) = 2 + i
                        /\ l + i \in 0..(2 * l) /\ 3 + (l + i) = l + 3 + i
    BY <1>1
  <2> HIDE DEF l, top
  <2>3. str[l] = Blank
    BY <1>2, <1>9, <2>1
  <2>4. ASSUME NEW i \in 1..l
        PROVE  str[i - 1] = P[i] /\ str[l + i] = P[i]
    <3>1. str[i - 1] = whole[3 + (i - 1)] /\ str[l + i] = whole[3 + (l + i)]
      BY <1>9, <2>2
    <3>2. str[i - 1] = whole[2 + i] /\ str[l + i] = whole[l + 3 + i]
      BY <2>2, <3>1
    <3> QED BY <1>2, <3>2
  <2> QED BY <2>3, <2>4
<1>14. Twice(str, P)
  BY <1>10, <1>11, <1>12 DEF Twice
<1>13. str2hex(str, base) = <<m, m>>
  BY <1>14, TwiceIsRead
<1> QED BY <1>7, <1>13 DEF cmd, whole

\* "0x": from here on digits are hexadecimal, and the number begins with '0'.
LEMMA PrefixRead ==
  ASSUME NEW from, NEW str, str[0] = "0", str[1] = "x"
  PROVE  LET r == ReadChar(str, State(from, 0, 0, <<0>>), 0)
         IN  ReadChar(str, r, 1) = State(16, 0, 1, <<48 % Word>>)
<1> DEFINE q == State(from, 0, 0, <<0>>)
           yes == TRUE
           first == <<0>>
           t == [q EXCEPT !.base = 16, !.skip = yes]
           r == Shifted(t, 48)
<1>1. first \in Seq(Nat) /\ Len(first) = 1 /\ first[1] = 0 /\ DOMAIN first = 1..1
  OBVIOUS
<1>2. q.done = FALSE /\ q.skip = FALSE
  BY DEF State, No
<1> HIDE DEF q
<1>3. ReadChar(str, q, 0) = r
  <2>1. str[0] # Blank /\ str[0 + 1] = "x"
    BY SignsApart
  <2> QED BY <1>2, <2>1 DEF ReadChar
<1> HIDE DEF yes, first
<1>4. /\ t = [base |-> 16, n |-> 0, p |-> 0, hex |-> first, skip |-> yes, done |-> No]
  <2>1. [q EXCEPT !.base = 16] = State(16, 0, 0, first)
    BY DEF State, q, first
  <2>2. [State(16, 0, 0, first) EXCEPT !.skip = yes]
          = [base |-> 16, n |-> 0, p |-> 0, hex |-> first, skip |-> yes, done |-> No]
    BY DEF State
  <2>3. t = [[q EXCEPT !.base = 16] EXCEPT !.skip = yes]
    OBVIOUS
  <2> HIDE DEF t
  <2> QED BY <2>1, <2>2, <2>3
<1> DEFINE hex == [first EXCEPT ![0 + 1] = ((first[0 + 1] * 16) + 48) % Word]
<1> HIDE DEF t
<1>5. r = [base |-> 16, n |-> 0, p |-> 0 + 1, hex |-> hex, skip |-> yes, done |-> No]
  <2> DEFINE u == [base |-> 16, n |-> 0, p |-> 0, hex |-> hex, skip |-> yes, done |-> No]
  <2>1. t.n = 0 /\ t.p = 0 /\ t.hex = first /\ t.base = 16
    BY <1>4
  <2>2. r = [t EXCEPT !.hex = [t.hex EXCEPT ![t.n + 1] = ((t.hex[t.n + 1] * t.base) + 48) % Word], !.p = t.p + 1]
    BY DEF Shifted
  <2>3. [t.hex EXCEPT ![t.n + 1] = ((t.hex[t.n + 1] * t.base) + 48) % Word] = hex
    BY <2>1
  <2> HIDE DEF hex, r
  <2>4. r = [t EXCEPT !.hex = hex, !.p = 0 + 1]
    BY <2>1, <2>2, <2>3
  <2>5. r = [[t EXCEPT !.hex = hex] EXCEPT !.p = 0 + 1]
    BY <2>4
  <2>6. [t EXCEPT !.hex = hex] = u
    BY <1>4
  <2>7. [u EXCEPT !.p = 0 + 1] = [base |-> 16, n |-> 0, p |-> 0 + 1, hex |-> hex, skip |-> yes, done |-> No]
    OBVIOUS
  <2> HIDE DEF u
  <2> QED BY <2>5, <2>6, <2>7
<1>6. hex = <<48 % Word>>
  <2> DEFINE x == 48 % Word
  <2>1. 0 + 1 = 1 /\ (first[0 + 1] * 16) + 48 = 48
    BY <1>1
  <2>2. hex = [first EXCEPT ![1] = x]
    BY <2>1
  <2> HIDE DEF x, hex
  <2>3. hex = <<x>>
    BY <1>1, <2>2
  <2> QED BY <2>3 DEF x
<1> HIDE DEF hex, r
<1>7. ReadChar(str, r, 1) = State(16, 0, 1, hex)
  <2>1. r.done = FALSE /\ r.skip = TRUE
    BY <1>5 DEF No, yes
  <2>2. ReadChar(str, r, 1) = [r EXCEPT !.skip = FALSE]
    BY <2>1 DEF ReadChar
  <2>3. [r EXCEPT !.skip = No] = [base |-> 16, n |-> 0, p |-> 0 + 1, hex |-> hex, skip |-> No, done |-> No]
    BY <1>5
  <2>4. [r EXCEPT !.skip = No] = [r EXCEPT !.skip = FALSE]
    BY DEF No
  <2>5. 0 + 1 = 1
    OBVIOUS
  <2> QED BY <2>2, <2>3, <2>4, <2>5 DEF State
<1> QED BY <1>3, <1>6, <1>7 DEF q

LEMMA FullRead ==
  ASSUME NEW from, NEW F, NEW m \in 0..(Word - 1), Writes(F, 16, 0, m), Fills(Len(F))
  PROVE  str2hex(StringOf(<<"0", "x">> \o F), from) = <<m>>
<1> DEFINE l == Len(F)
           S == Figures \cup {"x"}
           whole == <<"0", "x">> \o F
           top == l + 2
           str == StringOf(whole)
           h == (48 * Hexes[l]) + m
<1>1. /\ F \in Seq(Figures) /\ l \in Nat /\ Word \in Nat \ {0} /\ m \in Nat
      /\ \A k \in 1..l : F[k] \in Figures
  BY PrintkAssumption DEF Writes
<1>2. PICK w : Reads0(F, 16, 48, h, w)
  <2>1. Writes(F, 16, 48, h)
    BY WritesBehind
  <2> QED BY <2>1 DEF Writes
<1>3. h % Word = m
  <2>1. PICK k \in Int : Hexes[l] = k * Word
    BY DEF Fills
  <2> DEFINE j == 48 * k
  <2>2. j \in Int /\ h = (j * Word) + m /\ h \in Int
    BY <1>1, <2>1
  <2> HIDE DEF j, h
  <2> QED BY <1>1, <2>2, QuotientIs
<1> HIDE DEF h
<1>4. /\ w \in [0..l -> Nat] /\ w[0] = 48 /\ w[l] = h
      /\ \A k \in 1..l : F[k] \in FigsOf(16) /\ w[k] = (w[k - 1] * 16) + DigitValue(F[k])
  BY <1>2 DEF Reads0
<1>5. /\ whole \in Seq(S) /\ Len(whole) = top /\ whole[1] = "0" /\ whole[2] = "x"
      /\ \A k \in 1..l : whole[2 + k] = F[k]
  <2> DEFINE A == <<"0", "x">>
             B == A \o F
  <2>1. A \in Seq(S) /\ Len(A) = 2 /\ A[1] = "0" /\ A[2] = "x"
    BY DEF Figures
  <2>2. F \in Seq(S)
    BY <1>1
  <2> HIDE DEF A, S
  <2>3. /\ B \in Seq(S) /\ Len(B) = Len(A) + Len(F)
        /\ \A i \in 1..(Len(A) + Len(F)) : B[i] = IF i <= Len(A) THEN A[i] ELSE F[i - Len(A)]
    <3> HIDE DEF B, l
    <3>1. /\ A \o F \in Seq(S) /\ Len(A \o F) = Len(A) + Len(F)
          /\ \A i \in 1..(Len(A) + Len(F)) : (A \o F)[i] = IF i <= Len(A) THEN A[i] ELSE F[i - Len(A)]
      BY <2>1, <2>2, ConcatProperties
    <3> QED BY <3>1 DEF B
  <2>4. 1 \in 1..(2 + l) /\ 2 \in 1..(2 + l) /\ 2 + l = top
    BY <1>1
  <2>5. \A i \in 1..l : 2 + i \in 1..(2 + l) /\ ~(2 + i <= 2) /\ (2 + i) - 2 = i
    BY <1>1
  <2>6. whole = B
    BY DEF A
  <2> HIDE DEF B, whole, top
  <2> QED BY <2>1, <2>3, <2>4, <2>5, <2>6
<1> HIDE DEF whole, S
<1>6. /\ DOMAIN str = 0..top /\ str[top] = Nul
      /\ \A i \in 0..(top - 1) : str[i] = whole[i + 1]
  <2>1. top \in Nat
    BY <1>1
  <2> HIDE DEF top
  <2> QED BY <1>5, <2>1 DEF StringOf
<1> HIDE DEF str
<1>7. /\ str[0] = "0" /\ str[1] = "x"
      /\ \A k \in 1..l : str[1 + k] = F[k]
  <2>1. 0 \in 0..(top - 1) /\ 1 \in 0..(top - 1) /\ 0 + 1 = 1 /\ 1 + 1 = 2
    BY <1>1
  <2>2. \A k \in 1..l : 1 + k \in 0..(top - 1) /\ (1 + k) + 1 = 2 + k
    BY <1>1
  <2> HIDE DEF top
  <2> QED BY <1>5, <1>6, <2>1, <2>2
<1>8. strlen(str) = top
  <2>1. \A i \in 0..(top - 1) : i = 0 \/ i = 1 \/ (i - 1 \in 1..l /\ 1 + (i - 1) = i)
    BY <1>1
  <2>2. \A i \in 0..(top - 1) : str[i] # Nul
    <3> SUFFICES ASSUME NEW i \in 0..(top - 1) PROVE str[i] # Nul
      OBVIOUS
    <3>1. CASE i = 0 \/ i = 1
      BY <1>7, <3>1, SignsApart
    <3>2. CASE i - 1 \in 1..l /\ 1 + (i - 1) = i
      <4>1. str[1 + (i - 1)] = F[i - 1]
        BY <1>7, <3>2
      <4> QED BY <1>1, <3>2, <4>1, DigitsThere
    <3> QED BY <2>1, <3>1, <3>2
  <2>3. top \in Nat
    BY <1>1
  <2> HIDE DEF top
  <2> QED BY <1>6, <2>2, <2>3, StrlenIs, SMTT(30)
<1> DEFINE D(k) == State(16, 0, 1 + k, <<w[k] % Word>>)
<1>9. ASSUME NEW k \in 1..l
      PROVE  ReadChar(str, D(k - 1), 1 + k) = D(k)
  <2> DEFINE i == 1 + k
             hs == <<>>
             p == 1 + (k - 1)
             x == w[k - 1] % Word
             v == DigitValue(str[i])
             y == ((x * 16) + v) % Word
  <2>1. str[i] = F[k] /\ str[i] \in FigsOf(16) /\ 16 \in Bases
    BY <1>4, <1>7 DEF Bases
  <2>2. str[i + 1] # "x"
    <3>1. CASE k = l
      <4>1. i + 1 = top
        BY <1>1, <3>1
      <4> HIDE DEF i
      <4> QED BY <1>6, <4>1, SignsApart, DigitsThere
    <3>2. CASE k # l
      <4>1. k + 1 \in 1..l /\ i + 1 = 1 + (k + 1)
        BY <1>1, <3>2
      <4>2. str[1 + (k + 1)] = F[k + 1]
        BY <1>7, <4>1
      <4> HIDE DEF i
      <4> QED BY <1>1, <4>1, <4>2, DigitsThere
    <3> QED BY <3>1, <3>2
  <2>3. w[k - 1] \in Nat /\ x \in Nat /\ p \in Nat
    <3>1. k - 1 \in 0..l /\ p \in Nat
      BY <1>1
    <3>2. w[k - 1] \in Nat
      BY <1>4, <3>1
    <3> QED BY <1>1, <3>1, <3>2
  <2>4. hs \in Seq(Nat) /\ Len(hs) = 0 /\ Append(hs, x) = <<x>> /\ Append(hs, y) = <<y>>
    OBVIOUS
  <2>5. ReadChar(str, State(16, Len(hs), p, Append(hs, x)), i) = State(16, Len(hs), p + 1, Append(hs, y))
    <3> DEFINE base == 16
    <3>1. base \in Bases /\ base # 8 /\ str[i] \in FigsOf(base) /\ hs \in Seq(Nat) /\ x \in Nat /\ p \in Nat
      BY <2>1, <2>3
    <3> HIDE DEF i, hs, p, x, base
    <3>2. ReadChar(str, State(base, Len(hs), p, Append(hs, x)), i)
            = State(base, Len(hs), p + 1, Append(hs, ((x * base) + DigitValue(str[i])) % Word))
      BY <2>2, <3>1, ReadDigit
    <3> QED BY <3>2 DEF base
  <2>6. y = w[k] % Word
    <3> DEFINE g == w[k - 1]
    <3>1. v \in Nat /\ g \in Nat /\ w[k] = (g * 16) + v
      <4> HIDE DEF i
      <4> QED BY <1>4, <2>1, <2>3, DigitFigure
    <3> DEFINE base == 16
    <3>2. Word \in Nat \ {0} /\ g \in Nat /\ base \in Nat /\ v \in Nat
      <4> HIDE DEF g, v
      <4> QED BY <1>1, <3>1
    <3> HIDE DEF g, v, base, D, i, hs, p, x, y, l, top
    <3>3. WithDigit(g % Word, base, v, Word) = WithDigit(g, base, v, Word)
      BY <3>2, WordWithDigit
    <3> QED BY <3>1, <3>3 DEF g, base, x, y, WithDigit
  <2>7. p + 1 = 1 + k
    OBVIOUS
  <2>8. D(k - 1) = State(16, Len(hs), p, Append(hs, x))
    BY <2>4
  <2>9. D(k) = State(16, Len(hs), p + 1, Append(hs, y))
    <3> HIDE DEF hs, p, x, y
    <3> QED BY <2>4, <2>6, <2>7
  <2> HIDE DEF hs, p, x, y, D
  <2> QED BY <2>5, <2>8, <2>9 DEF i
<1>10. ReadChar(str, ReadChar(str, State(from, 0, 0, <<0>>), 0), 1) = D(0)
  <2>1. D(0) = State(16, 0, 1, <<48 % Word>>)
    <3>1. 1 + 0 = 1
      OBVIOUS
    <3> QED BY <1>4, <3>1
  <2> HIDE DEF D
  <2> QED BY <1>7, <2>1, PrefixRead
<1>11. ReadChar(str, D(l), top).hex = <<m>> /\ ReadChar(str, D(l), top).n = 1
  <2> DEFINE p == 1 + l
             hex == <<m>>
  <2>1. D(l) = State(16, 0, p, hex)
    BY <1>3, <1>4
  <2>2. p > 0 /\ 16 \in Bases
    BY <1>1 DEF Bases
  <2> HIDE DEF D, p, hex, top
  <2>3. ReadChar(str, State(16, 0, p, hex), top).hex = hex /\ ReadChar(str, State(16, 0, p, hex), top).n = 0 + 1
    <3> DEFINE base == 16
               none == 0
               r == ReadChar(str, State(base, none, p, hex), top)
    <3>1. base \in Bases /\ base # 8 /\ str[top] = Nul
      BY <1>6, <2>2
    <3> HIDE DEF base, none
    <3>2. r.hex = hex /\ r.n = IF p > 0 THEN none + 1 ELSE none
      BY <3>1, ReadNul
    <3> HIDE DEF r
    <3>3. r.hex = hex /\ r.n = none + 1
      BY <2>2, <3>2
    <3> QED BY <3>3 DEF base, none, r
  <2>4. 0 + 1 = 1
    OBVIOUS
  <2> QED BY <2>1, <2>3, <2>4 DEF hex
<1> HIDE DEF D
<1> DEFINE first == State(from, 0, 0, <<0>>)
           f == [i \in 0..(top + 1) |->
                   IF i = 0 THEN first ELSE IF i = 1 THEN ReadChar(str, first, 0)
                   ELSE IF i <= top THEN D(i - 2) ELSE ReadChar(str, D(l), top)]
<1>12. /\ f[0] = first /\ f[top + 1] = ReadChar(str, D(l), top)
       /\ \A i \in 1..(top + 1) : f[i] = ReadChar(str, f[i - 1], i - 1)
  <2> HIDE DEF first
  <2>1. l \in Nat /\ top = l + 2
    BY <1>1
  <2>2. f[0] = first
    BY <2>1
  <2>3. f[1] = ReadChar(str, first, 0) /\ f[1] = ReadChar(str, f[1 - 1], 1 - 1)
    BY <2>1
  <2>4. f[2] = D(0) /\ D(0) = ReadChar(str, f[2 - 1], 2 - 1)
    <3>1. 2 \in 0..(top + 1) /\ 2 <= top /\ 2 - 2 = 0 /\ 2 - 1 = 1
      BY <2>1
    <3>2. f[2] = D(0)
      BY <3>1
    <3> QED BY <1>10, <2>3, <3>1, <3>2 DEF first
  <2>5. f[top + 1] = ReadChar(str, D(l), top)
    BY <2>1
  <2>6. \A k \in 0..l : f[2 + k] = D(k)
    <3>1. \A k \in 0..l : 2 + k \in 0..(top + 1) /\ 2 + k <= top /\ 2 + k # 0 /\ 2 + k # 1 /\ (2 + k) - 2 = k
      BY <2>1
    <3> QED BY <3>1
  <2>7. \A i \in 1..(top + 1) : i = 1 \/ i = 2 \/ (i - 2 \in 1..l) \/ i = top + 1
    <3> HIDE DEF l
    <3> QED BY <2>1
  <2> HIDE DEF f
  <2>8. ASSUME NEW i \in 1..(top + 1)
        PROVE  f[i] = ReadChar(str, f[i - 1], i - 1)
    <3>1. CASE i = 1
      BY <2>3, <3>1
    <3>2. CASE i = 2
      BY <2>4, <3>2
    <3>3. CASE i - 2 \in 1..l
      <4> DEFINE k == i - 2
      <4>1. k \in 1..l /\ k \in 0..l /\ k - 1 \in 0..l /\ 2 + k = i /\ 2 + (k - 1) = i - 1 /\ 1 + k = i - 1
        BY <2>1, <3>3
      <4> HIDE DEF k
      <4>2. f[2 + k] = D(k) /\ f[2 + (k - 1)] = D(k - 1)
        BY <2>6, <4>1
      <4> QED BY <1>9, <4>1, <4>2
    <3>4. CASE i = top + 1
      <4>1. i - 1 = top /\ 2 + l = top /\ l \in 0..l
        BY <2>1, <3>4
      <4> QED BY <2>5, <2>6, <3>4, <4>1
    <3> QED BY <2>7, <3>1, <3>2, <3>3, <3>4
  <2> QED BY <2>2, <2>5, <2>8
<1> HIDE DEF f
<1>13. str2hex(str, from) = SubSeq(f[top + 1].hex, 1, f[top + 1].n)
  <2>1. top \in Nat
    BY <1>1
  <2> HIDE DEF top
  <2> QED BY <1>8, <1>12, <2>1, StrHexIs
<1>14. SubSeq(<<m>>, 1, 1) = <<m>>
  <2> DEFINE s == <<m>>
  <2>1. s \in Seq(Nat) /\ Len(s) = 1
    BY <1>1
  <2> HIDE DEF s
  <2>2. SubSeq(s, 1, Len(s)) = s
    BY <2>1, SubSeqFull
  <2> QED BY <2>1, <2>2 DEF s
<1> HIDE DEF top
<1>15. str2hex(str, from) = <<m>>
  BY <1>11, <1>12, <1>13, <1>14
<1> QED BY <1>15 DEF str, whole

LEMMA FullHexIs ==
  LET d == Directive(FullHex)
  IN  Taken(FullHex) /\ Conversions[d.conv] = 16 /\ d.zero /\ ~d.left /\ Hexes[d.width] % Word = 0 /\ ~Signed(d)
<1> DEFINE d == Directive(FullHex)
<1>1. Conversions[d.conv] = 16 /\ d.zero /\ ~d.left /\ Hexes[d.width] % Word = 0
  BY FormatsAssumption
<1>2. \A conv \in {"d", "i"} : Conversions[conv] = 10
  BY DEF Conversions
<1>4. Taken(FullHex)
  BY FormatsAssumption DEF Taken
<1> HIDE DEF d
<1>3. ~Signed(d)
  BY <1>1, <1>2 DEF Signed
<1> QED BY <1>1, <1>3, <1>4 DEF d

LEMMA PlainMarked ==
  ASSUME NEW F \in Seq(Marked)
  PROVE  Plain(F) \in Seq(Marked)
<1>1. \A i \in DOMAIN F : F[i] \in Marked /\ Blank \in Marked
  BY DEF Marked
<1>2. DOMAIN F = 1..Len(F) /\ Len(F) \in Nat
  OBVIOUS
<1>3. Plain(F) \in [1..Len(F) -> Marked]
  BY <1>1, <1>2 DEF Plain
<1> QED BY <1>2, <1>3

LEMMA NumberRead ==
  ASSUME NEW fmt \in Formats, Taken(fmt), Conversions[Directive(fmt).conv] # 8, NEW v \in Ints
  PROVE  LET d == Directive(fmt)
             shown == Number(fmt, v)
             m == Magnitude(d, v)
         IN  ArgsOf(StringOf(<<"w", Blank>> \o Plain(shown) \o <<Blank>> \o Plain(shown)),
                    Conversions[d.conv]) = <<m, m>>
<1> DEFINE d == Directive(fmt)
           F == Number(fmt, v)
           base == Conversions[d.conv]
           m == Magnitude(d, v)
           P == Plain(F)
<1>1. base \in Bases /\ base # 8
  BY DirectiveIs
<1>2. F \in Seq(Marked) /\ \E a, c : Stands(P, a, c, base, m)
  BY NumberIs
<1>3. m \in 0..(Word - 1)
  BY MagnitudeIs
<1>4. P \in Seq(Marked)
  <2> HIDE DEF F
  <2> QED BY <1>2, PlainMarked
<1>5. PICK a, c : Stands(P, a, c, base, m)
  BY <1>2
<1> HIDE DEF base, m, P
<1>6. ArgsOf(StringOf(<<"w", Blank>> \o P \o <<Blank>> \o P), base) = <<m, m>>
  BY <1>1, <1>3, <1>4, <1>5, ArgsTwice
<1> QED BY <1>6 DEF base, m, P

LEMMA FullHexRead ==
  ASSUME NEW from, NEW v \in Ints
  PROVE  str2hex(StringOf(<<"0", "x">> \o Number(FullHex, v)), from) = <<v % Word>>
<1> DEFINE d == Directive(FullHex)
           F == Number(FullHex, v)
           m == v % Word
           least == d.width
<1>1. Taken(FullHex) /\ Conversions[d.conv] = 16 /\ d.zero /\ ~d.left /\ Hexes[least] % Word = 0 /\ ~Signed(d)
  BY FullHexIs
<1>2. Magnitude(d, v) = m
  <2> HIDE DEF d
  <2> QED BY <1>1 DEF Magnitude
<1>3. F \in Seq(Marked) /\ Len(F) >= least
      /\ (~d.left /\ d.zero /\ ~Signed(d) => Writes(F, Conversions[d.conv], 0, Magnitude(d, v)))
  BY <1>1, NumberIs
<1>4. m \in 0..(Word - 1)
  BY MagnitudeIs
<1>5. least \in Nat
  BY <1>1, DirectiveIs
<1> HIDE DEF d, F, m, least
<1>6. Writes(F, 16, 0, m)
  BY <1>1, <1>2, <1>3
<1>7. Len(F) \in Nat
  BY <1>3
<1>8. Fills(Len(F))
  BY <1>1, <1>3, <1>5, <1>7, WordsFilled
<1>9. str2hex(StringOf(<<"0", "x">> \o F), from) = <<m>>
  BY <1>4, <1>6, <1>8, FullRead
<1> QED BY <1>9 DEF F, m

\* What PrintedIsRead says of numbers holds of all directives and values.
LEMMA NumbersAreRead ==
  ASSUME NEW from \in {10, 16}
  PROVE  NumbersRead(from)
<1> SUFFICES ASSUME NEW fmt \in Formats, NEW v \in Ints, Taken(fmt)
             PROVE  LET d == Directive(fmt)
                        shown == Number(fmt, v)
                        unsigned == [i \in DOMAIN shown |-> IF shown[i] \in {"-", "+"} THEN Blank ELSE shown[i]]
                        typedTwice == StringOf(<<"w", Blank>> \o unsigned \o <<Blank>> \o unsigned)
                        m == Magnitude(d, v)
                    IN  /\ Conversions[d.conv] = from => ArgsOf(typedTwice, from) = <<m, m>>
                        /\ Signed(d) /\ v < 0 => "-" \in Range(shown) \/ d.left
                        /\ Len(shown) >= d.width
                        /\ v # 0 /\ Len(shown) > d.width => shown[1] \notin {Blank, "0"} \/ shown[1] = SignOf(d, v)
                        /\ str2hex(StringOf(<<"0", "x">> \o Number(FullHex, v)), from) = <<v % Word>>
  BY DEF NumbersRead
<1> DEFINE d == Directive(fmt)
           shown == Number(fmt, v)
           m == Magnitude(d, v)
<1>1. Conversions[d.conv] = from =>
        ArgsOf(StringOf(<<"w", Blank>> \o Plain(shown) \o <<Blank>> \o Plain(shown)), from) = <<m, m>>
  <2> SUFFICES ASSUME Conversions[d.conv] = from
               PROVE  ArgsOf(StringOf(<<"w", Blank>> \o Plain(shown) \o <<Blank>> \o Plain(shown)), from) = <<m, m>>
    OBVIOUS
  <2>1. Conversions[Directive(fmt).conv] # 8
    OBVIOUS
  <2>2. ArgsOf(StringOf(<<"w", Blank>> \o Plain(shown) \o <<Blank>> \o Plain(shown)), Conversions[d.conv]) = <<m, m>>
    BY <2>1, NumberRead
  <2> QED BY <2>2
<1>2. /\ Len(shown) >= d.width
      /\ v # 0 /\ Len(shown) > d.width => shown[1] \notin {Blank, "0"} \/ shown[1] = SignOf(d, v)
      /\ Signed(d) /\ v < 0 => "-" \in Range(shown) \/ d.left
  BY NumberIs
<1>3. str2hex(StringOf(<<"0", "x">> \o Number(FullHex, v)), from) = <<v % Word>>
  BY FullHexRead
<1> HIDE DEF d, shown, m
<1> QED BY <1>1, <1>2, <1>3 DEF Plain, d, shown, m
-----------------------------------------------------------------------------
(* What a dump shows                                                       *)

Items == [kind : {"addr", "word", "chars"}, of : Seq(Int)]

\* Of, item by item
OfTo(items, kind) ==
  CHOOSE upto : upto = [i \in 0..Len(items) |->
    IF i = 0 THEN <<>> ELSE IF items[i].kind = kind THEN upto[i - 1] \o items[i].of ELSE upto[i - 1]]

LEMMA OfToIs ==
  ASSUME NEW items \in Seq(Items), NEW kind
  PROVE  /\ Of(items, kind) = OfTo(items, kind)[Len(items)]
         /\ OfTo(items, kind)[0] = <<>>
         /\ \A i \in 0..Len(items) : OfTo(items, kind)[i] \in Seq(Int)
         /\ \A i \in 1..Len(items) :
              OfTo(items, kind)[i] = IF items[i].kind = kind THEN OfTo(items, kind)[i - 1] \o items[i].of
                                     ELSE OfTo(items, kind)[i - 1]
<1> DEFINE l == Len(items)
           Here(i) == items[i].kind = kind
           More(i) == items[i].of
           none == <<>>
           Is(u) == u = [i \in 0..l |-> IF i = 0 THEN none ELSE IF Here(i) THEN u[i - 1] \o More(i) ELSE u[i - 1]]
           G(q, i) == IF i \in 1..l /\ Here(i) THEN q \o More(i) ELSE q
           F == [x \in Seq(Int) \X Nat |-> G(x[1], x[2])]
           upto == CHOOSE u : Is(u)
<1>1. l \in Nat /\ none \in Seq(Int) /\ \A i \in 1..l : More(i) \in Seq(Int)
  <2>1. \A i \in 1..l : items[i] \in Items
    OBVIOUS
  <2> QED BY <2>1 DEF Items
<1>2. OfTo(items, kind) = upto /\ Of(items, kind) = upto[l]
  BY DEF OfTo, Of
<1> HIDE DEF l, Here, More
<1>3. \A q \in Seq(Int), i \in Nat : G(q, i) \in Seq(Int)
  BY <1>1
<1>4. F \in [Seq(Int) \X Nat -> Seq(Int)] /\ \A q \in Seq(Int), i \in Nat : F[<<q, i>>] = G(q, i)
  <2> HIDE DEF G
  <2> QED BY <1>3
<1> HIDE DEF F
<1>5. PICK f \in [0..l -> Seq(Int)] : Comes(f, l, none, F)
  <2> HIDE DEF none
  <2> QED BY <1>1, <1>4, Recursion
<1> HIDE DEF none
<1>6. Is(f)
  <2>1. ASSUME NEW i \in 0..l
        PROVE  f[i] = IF i = 0 THEN none ELSE IF Here(i) THEN f[i - 1] \o More(i) ELSE f[i - 1]
    <3>1. CASE i = 0
      BY <1>5, <3>1 DEF Comes
    <3>2. CASE i # 0
      <4>1. i \in 1..l /\ i - 1 \in 0..l /\ i \in Nat
        BY <1>1, <3>2
      <4>2. f[i - 1] \in Seq(Int)
        BY <1>5, <4>1
      <4>3. f[i] = F[<<f[i - 1], i>>]
        BY <1>5, <4>1 DEF Comes
      <4>4. f[i] = G(f[i - 1], i)
        <5> HIDE DEF G
        <5> QED BY <1>4, <4>1, <4>2, <4>3
      <4> QED BY <3>2, <4>1, <4>4
    <3> QED BY <3>1, <3>2
  <2> QED BY <2>1
<1>7. Is(upto)
  <2> HIDE DEF Is
  <2> QED BY <1>6
<1> HIDE DEF upto
<1>8. /\ upto[0] = none
      /\ \A i \in 1..l : upto[i] = IF Here(i) THEN upto[i - 1] \o More(i) ELSE upto[i - 1]
  <2>1. 0 \in 0..l /\ \A i \in 1..l : i \in 0..l /\ i # 0
    BY <1>1
  <2> QED BY <1>7, <2>1
<1> DEFINE T == {i \in 0..l : upto[i] \in Seq(Int)}
<1>9. 0 \in T
  BY <1>1, <1>8
<1>10. ASSUME NEW i \in 1..l, i - 1 \in T
       PROVE  i \in T
  <2>1. upto[i - 1] \in Seq(Int) /\ i \in 0..l
    BY <1>10
  <2>2. upto[i - 1] \o More(i) \in Seq(Int)
    <3> DEFINE s1 == upto[i - 1]
               s2 == More(i)
    <3>1. s1 \in Seq(Int) /\ s2 \in Seq(Int)
      BY <1>1, <2>1
    <3> HIDE DEF s1, s2
    <3>2. s1 \o s2 \in Seq(Int)
      BY <3>1, ConcatProperties
    <3> QED BY <3>2 DEF s1, s2
  <2>3. upto[i] = upto[i - 1] \o More(i) \/ upto[i] = upto[i - 1]
    BY <1>8
  <2> QED BY <2>1, <2>2, <2>3
<1>11. \A i \in 0..l : upto[i] \in Seq(Int)
  <2> HIDE DEF T
  <2>1. 0..l \subseteq T
    BY <1>1, <1>9, <1>10, Reaches
  <2> QED BY <2>1 DEF T
<1> QED BY <1>2, <1>8, <1>11 DEF l, none, Here, More

LEMMA Regrouped ==
  ASSUME NEW x \in Seq(Int), NEW y \in Seq(Int), NEW z \in Seq(Int)
  PROVE  (x \o y) \o z = x \o (y \o z)
BY ConcatAssociative, SMTT(30)

LEMMA ItemsRegrouped ==
  ASSUME NEW x \in Seq(Items), NEW y \in Seq(Items), NEW z \in Seq(Items)
  PROVE  (x \o y) \o z = x \o (y \o z)
BY ConcatAssociative, SMTT(30)

LEMMA OfSeq ==
  ASSUME NEW items \in Seq(Items), NEW kind
  PROVE  Of(items, kind) \in Seq(Int)
<1>1. Len(items) \in 0..Len(items)
  OBVIOUS
<1> QED BY <1>1, OfToIs

LEMMA OfNone == \A kind : Of(<<>>, kind) = <<>>
<1> SUFFICES ASSUME NEW kind PROVE Of(<<>>, kind) = <<>>
  OBVIOUS
<1> DEFINE none == <<>>
<1>1. none \in Seq(Items) /\ Len(none) = 0
  OBVIOUS
<1> HIDE DEF none
<1>2. Of(none, kind) = OfTo(none, kind)[0] /\ OfTo(none, kind)[0] = <<>>
  <2>1. none \in Seq(Items)
    BY <1>1
  <2>2. Of(none, kind) = OfTo(none, kind)[Len(none)] /\ OfTo(none, kind)[0] = <<>>
    BY <2>1, OfToIs
  <2> QED BY <1>1, <2>2
<1> QED BY <1>2 DEF none

LEMMA OfOne ==
  ASSUME NEW it \in Items, NEW kind
  PROVE  Of(<<it>>, kind) = IF it.kind = kind THEN it.of ELSE <<>>
<1> DEFINE one == <<it>>
<1>1. one \in Seq(Items) /\ Len(one) = 1 /\ one[1] = it /\ 1 \in 1..Len(one) /\ 1 - 1 = 0
  OBVIOUS
<1> HIDE DEF one
<1>2. /\ Of(one, kind) = OfTo(one, kind)[1]
      /\ OfTo(one, kind)[0] = <<>>
      /\ OfTo(one, kind)[1] = IF it.kind = kind THEN OfTo(one, kind)[1 - 1] \o it.of ELSE OfTo(one, kind)[1 - 1]
  BY <1>1, OfToIs, SMTT(30)
<1>3. <<>> \o it.of = it.of
  <2>1. it.of \in Seq(Int)
    BY DEF Items
  <2> QED BY <2>1, ConcatEmptySeq
<1>4. Of(one, kind) = IF it.kind = kind THEN it.of ELSE <<>>
  <2>1. 1 - 1 = 0
    BY <1>1
  <2> QED BY <1>2, <1>3, <2>1, Zenon
<1> QED BY <1>4 DEF one

\* What two outputs show is what one shows, then the other.
LEMMA OfJoined ==
  ASSUME NEW s \in Seq(Items), NEW t \in Seq(Items), NEW kind
  PROVE  Of(s \o t, kind) = Of(s, kind) \o Of(t, kind)
<1> DEFINE u == s \o t
           l == Len(s)
           m == Len(t)
           S(i) == OfTo(s, kind)[i]
           R(i) == OfTo(t, kind)[i]
           U(i) == OfTo(u, kind)[i]
<1>1. l \in Nat /\ m \in Nat /\ \A i \in 1..m : t[i] \in Items
  OBVIOUS
<1>2. /\ u \in Seq(Items) /\ Len(u) = l + m
      /\ \A i \in 1..(l + m) : u[i] = IF i <= l THEN s[i] ELSE t[i - l]
  BY ConcatProperties
<1> HIDE DEF u
<1>3. /\ Of(s, kind) = S(l) /\ S(0) = <<>> /\ \A i \in 0..l : S(i) \in Seq(Int)
      /\ \A i \in 1..l : S(i) = IF s[i].kind = kind THEN S(i - 1) \o s[i].of ELSE S(i - 1)
  BY OfToIs
<1>4. /\ Of(t, kind) = R(m) /\ R(0) = <<>> /\ \A i \in 0..m : R(i) \in Seq(Int)
      /\ \A i \in 1..m : R(i) = IF t[i].kind = kind THEN R(i - 1) \o t[i].of ELSE R(i - 1)
  BY OfToIs
<1>5. /\ Of(u, kind) = U(l + m) /\ U(0) = <<>>
      /\ \A i \in 1..(l + m) : U(i) = IF u[i].kind = kind THEN U(i - 1) \o u[i].of ELSE U(i - 1)
  <2> DEFINE k == l + m
  <2>1. Len(u) = k
    BY <1>2
  <2> HIDE DEF k
  <2>2. /\ Of(u, kind) = OfTo(u, kind)[k] /\ OfTo(u, kind)[0] = <<>>
        /\ \A i \in 1..k : OfTo(u, kind)[i] = IF u[i].kind = kind THEN OfTo(u, kind)[i - 1] \o u[i].of
                                              ELSE OfTo(u, kind)[i - 1]
    <3>1. u \in Seq(Items)
      BY <1>2
    <3>2. /\ Of(u, kind) = OfTo(u, kind)[Len(u)] /\ OfTo(u, kind)[0] = <<>>
          /\ \A i \in 1..Len(u) : OfTo(u, kind)[i] = IF u[i].kind = kind THEN OfTo(u, kind)[i - 1] \o u[i].of
                                                     ELSE OfTo(u, kind)[i - 1]
      BY <3>1, OfToIs
    <3> QED BY <2>1, <3>2
  <2> QED BY <2>2 DEF k
<1> HIDE DEF S, R, U, l, m
<1>6. U(l) = S(l)
  <2> DEFINE T == {i \in 0..l : U(i) = S(i)}
  <2>1. 0 \in T
    BY <1>1, <1>3, <1>5
  <2>2. ASSUME NEW i \in 1..l, i - 1 \in T
        PROVE  i \in T
    <3>1. i \in 1..(l + m) /\ i <= l /\ i \in 0..l /\ U(i - 1) = S(i - 1)
      BY <1>1, <2>2
    <3>2. u[i] = s[i]
      BY <1>2, <3>1
    <3>3. U(i) = S(i)
      BY <1>3, <1>5, <3>1, <3>2
    <3> QED BY <3>1, <3>3
  <2> HIDE DEF T
  <2>3. 0..l \subseteq T
    BY <1>1, <2>1, <2>2, Reaches
  <2>4. l \in T
    BY <1>1, <2>3
  <2> QED BY <2>4 DEF T
<1>7. U(l + m) = S(l) \o R(m)
  <2> DEFINE T == {i \in 0..m : U(l + i) = S(l) \o R(i)}
  <2>0. S(l) \in Seq(Int)
    BY <1>1, <1>3
  <2>1. 0 \in T
    <3>1. S(l) \o <<>> = S(l) /\ l + 0 = l /\ 0 \in 0..m
      BY <1>1, <2>0, ConcatEmptySeq
    <3> QED BY <1>4, <1>6, <3>1
  <2>2. ASSUME NEW i \in 1..m, i - 1 \in T
        PROVE  i \in T
    <3>1. /\ l + i \in 1..(l + m) /\ ~(l + i <= l) /\ (l + i) - l = i /\ i \in 0..m
          /\ (l + i) - 1 = l + (i - 1) /\ i - 1 \in 0..m
      BY <1>1
    <3>2. u[l + i] = t[i]
      BY <1>2, <3>1
    <3>3. U(l + (i - 1)) = S(l) \o R(i - 1)
      BY <2>2
    <3>4. U(l + i) = IF t[i].kind = kind THEN U(l + (i - 1)) \o t[i].of ELSE U(l + (i - 1))
      BY <1>5, <3>1, <3>2
    <3>5. R(i - 1) \in Seq(Int) /\ t[i].of \in Seq(Int)
      BY <1>1, <1>4, <3>1 DEF Items
    <3>6. (S(l) \o R(i - 1)) \o t[i].of = S(l) \o (R(i - 1) \o t[i].of)
      <4> DEFINE x == S(l)
                 y == R(i - 1)
                 z == t[i].of
      <4>1. x \in Seq(Int) /\ y \in Seq(Int) /\ z \in Seq(Int)
        BY <2>0, <3>5
      <4> HIDE DEF x, y, z
      <4>2. (x \o y) \o z = x \o (y \o z)
        BY <4>1, Regrouped
      <4> QED BY <4>2 DEF x, y, z
    <3>7. U(l + i) = S(l) \o R(i)
      BY <1>4, <3>3, <3>4, <3>6
    <3> QED BY <3>1, <3>7
  <2> HIDE DEF T
  <2>3. 0..m \subseteq T
    BY <1>1, <2>1, <2>2, Reaches
  <2>4. m \in T
    BY <1>1, <2>3
  <2> QED BY <2>4 DEF T
<1> QED BY <1>3, <1>4, <1>5, <1>7 DEF u

\* Bytes that are their own addresses
Stretch(a, k) == [i \in 1..k |-> a + i - 1]

LEMMA StretchIs ==
  ASSUME NEW a \in Int, NEW k \in Nat
  PROVE  /\ Stretch(a, k) \in Seq(Int) /\ Len(Stretch(a, k)) = k
         /\ \A i \in 1..k : Stretch(a, k)[i] = a + i - 1
<1>1. Stretch(a, k) \in [1..k -> Int]
  BY DEF Stretch
<1>2. \A i \in 1..k : Stretch(a, k)[i] = a + i - 1
  BY DEF Stretch
<1> QED BY <1>1, <1>2

LEMMA StretchJoined ==
  ASSUME NEW a \in Int, NEW k \in Nat, NEW j \in Nat
  PROVE  Stretch(a, k) \o Stretch(a + k, j) = Stretch(a, k + j)
<1> DEFINE s == Stretch(a, k)
           t == Stretch(a + k, j)
           u == Stretch(a, k + j)
<1>1. a + k \in Int /\ k + j \in Nat
  OBVIOUS
<1>2. s \in Seq(Int) /\ Len(s) = k /\ \A i \in 1..k : s[i] = a + i - 1
  BY StretchIs
<1>3. t \in Seq(Int) /\ Len(t) = j /\ \A i \in 1..j : t[i] = (a + k) + i - 1
  BY <1>1, StretchIs
<1>4. u \in Seq(Int) /\ Len(u) = k + j /\ \A i \in 1..(k + j) : u[i] = a + i - 1
  BY <1>1, StretchIs
<1> HIDE DEF s, t, u
<1>5. /\ s \o t \in Seq(Int) /\ Len(s \o t) = k + j
      /\ \A i \in 1..(k + j) : (s \o t)[i] = IF i <= k THEN s[i] ELSE t[i - k]
  <2>1. /\ s \o t \in Seq(Int) /\ Len(s \o t) = Len(s) + Len(t)
        /\ \A i \in 1..(Len(s) + Len(t)) : (s \o t)[i] = IF i <= Len(s) THEN s[i] ELSE t[i - Len(s)]
    BY <1>2, <1>3, ConcatProperties
  <2> QED BY <1>2, <1>3, <2>1
<1>6. ASSUME NEW i \in 1..(k + j)
      PROVE  (s \o t)[i] = u[i]
  <2>1. CASE i <= k
    BY <1>2, <1>4, <1>5, <2>1
  <2>2. CASE ~(i <= k)
    <3>1. i - k \in 1..j /\ (a + k) + (i - k) - 1 = a + i - 1
      BY <2>2
    <3>2. t[i - k] = (a + k) + (i - k) - 1
      BY <1>3, <3>1
    <3> QED BY <1>4, <1>5, <2>2, <3>1, <3>2
  <2> QED BY <2>1, <2>2
<1>7. s \o t = u
  BY <1>4, <1>5, <1>6, SeqEqual
<1> QED BY <1>7 DEF s, t, u

\* An address stands before its byte, and a line has 16 characters at most.
Shaped(o) ==
  \A i \in 1..Len(o) :
    /\ o[i].kind = "addr" => i < Len(o) /\ o[i].of[1] = o[i + 1].of[1]
    /\ o[i].kind = "chars" => Len(o[i].of) <= 16

LEMMA ShapedJoined ==
  ASSUME NEW s \in Seq(Items), NEW t \in Seq(Items), Shaped(s), Shaped(t)
  PROVE  s \o t \in Seq(Items) /\ Shaped(s \o t)
<1> DEFINE l == Len(s)
           m == Len(t)
           u == s \o t
<1>1. l \in Nat /\ m \in Nat
  OBVIOUS
<1>2. /\ u \in Seq(Items) /\ Len(u) = l + m
      /\ \A i \in 1..(l + m) : u[i] = IF i <= l THEN s[i] ELSE t[i - l]
  BY ConcatProperties
<1> HIDE DEF u, l, m
<1>3. ASSUME NEW i \in 1..(l + m)
      PROVE  /\ u[i].kind = "addr" => i < l + m /\ u[i].of[1] = u[i + 1].of[1]
             /\ u[i].kind = "chars" => Len(u[i].of) <= 16
  <2>1. CASE i <= l
    <3>1. i \in 1..l /\ u[i] = s[i]
      BY <1>1, <1>2, <2>1
    <3>2. /\ s[i].kind = "addr" => i < l /\ s[i].of[1] = s[i + 1].of[1]
          /\ s[i].kind = "chars" => Len(s[i].of) <= 16
      BY <3>1 DEF Shaped, l
    <3>3. i < l => i < l + m /\ u[i + 1] = s[i + 1]
      <4>1. i < l => i < l + m /\ i + 1 \in 1..(l + m) /\ i + 1 <= l
        BY <1>1
      <4> QED BY <1>2, <4>1
    <3> QED BY <3>1, <3>2, <3>3
  <2>2. CASE ~(i <= l)
    <3> DEFINE k == i - l
    <3>1. k \in 1..m /\ u[i] = t[k]
      BY <1>1, <1>2, <2>2
    <3> HIDE DEF k
    <3>2. /\ t[k].kind = "addr" => k < m /\ t[k].of[1] = t[k + 1].of[1]
          /\ t[k].kind = "chars" => Len(t[k].of) <= 16
      BY <3>1 DEF Shaped, m
    <3>3. k < m => i < l + m /\ u[i + 1] = t[k + 1]
      <4>1. k < m => i < l + m /\ i + 1 \in 1..(l + m) /\ ~(i + 1 <= l) /\ (i + 1) - l = k + 1
        BY <1>1, <2>2 DEF k
      <4> QED BY <1>2, <4>1
    <3> QED BY <3>1, <3>2, <3>3
  <2> QED BY <2>1, <2>2
<1>4. Shaped(u)
  BY <1>2, <1>3 DEF Shaped
<1> QED BY <1>2, <1>4 DEF u

LEMMA ShapedFew ==
  /\ <<>> \in Seq(Items) /\ Shaped(<<>>)
  /\ \A it \in Items : <<it>> \in Seq(Items)
                       /\ (it.kind = "word" \/ (it.kind = "chars" /\ Len(it.of) <= 16) => Shaped(<<it>>))
  /\ \A it, next \in Items :
       it.kind = "addr" /\ next.kind = "word" /\ it.of[1] = next.of[1]
         => <<it>> \o <<next>> \in Seq(Items) /\ Shaped(<<it>> \o <<next>>)
<1>1. <<>> \in Seq(Items) /\ Shaped(<<>>)
  BY DEF Shaped
<1>2. ASSUME NEW it \in Items
      PROVE  <<it>> \in Seq(Items)
             /\ (it.kind = "word" \/ (it.kind = "chars" /\ Len(it.of) <= 16) => Shaped(<<it>>))
  <2> DEFINE one == <<it>>
  <2>1. one \in Seq(Items) /\ Len(one) = 1 /\ one[1] = it
    OBVIOUS
  <2> HIDE DEF one
  <2>2. \A i \in 1..1 : i = 1
    OBVIOUS
  <2>3. it.kind = "word" \/ (it.kind = "chars" /\ Len(it.of) <= 16) => Shaped(one)
    BY <2>1, <2>2 DEF Shaped
  <2> QED BY <2>1, <2>3 DEF one
<1>3. ASSUME NEW it \in Items, NEW next \in Items,
             it.kind = "addr", next.kind = "word", it.of[1] = next.of[1]
      PROVE  <<it>> \o <<next>> \in Seq(Items) /\ Shaped(<<it>> \o <<next>>)
  <2> DEFINE two == <<it>> \o <<next>>
  <2>1. two \in Seq(Items) /\ Len(two) = 2 /\ two[1] = it /\ two[2] = next
    OBVIOUS
  <2> HIDE DEF two
  <2>2. \A i \in 1..2 : i = 1 \/ i = 2
    OBVIOUS
  <2>3. 1 + 1 = 2 /\ 1 < 2
    OBVIOUS
  <2>4. Shaped(two)
    BY <1>3, <2>1, <2>2, <2>3 DEF Shaped
  <2> QED BY <2>1, <2>4 DEF two
<1> QED BY <1>1, <1>2, <1>3

\* A turn of dump's loop
DumpTurn(mem, addr, width, words, r, k) ==
  LET p == k * width
      over == k = words
      breaks == p % 16 = 0 \/ over
      chars == IF breaks /\ r.sbuf # <<>> THEN <<[kind |-> "chars", of |-> r.sbuf]>> ELSE <<>>
      head == IF breaks /\ ~over THEN <<[kind |-> "addr", of |-> <<addr + p>>]>> ELSE <<>>
      word == IF over THEN <<>> ELSE BytesAt(mem, addr + p, width)
  IN  [sbuf |-> (IF breaks THEN <<>> ELSE r.sbuf) \o word,
       out |-> r.out \o chars \o head
               \o IF over THEN <<>> ELSE <<[kind |-> "word", of |-> word]>>]

\* What the loop keeps from turn to turn
Turned == [sbuf : Seq(Int), out : Seq(Items)]

CharsItem(s) == [kind |-> "chars", of |-> s]
AddrItem(a) == [kind |-> "addr", of |-> <<a>>]
WordItem(s) == [kind |-> "word", of |-> s]
Line(s) == IF s # <<>> THEN <<CharsItem(s)>> ELSE <<>>

\* q comes from r in turn k.
Turns(addr, width, words, r, k, q) ==
  LET p == k * width
      w == Stretch(addr + p, width)
  IN  /\ k = words => q.sbuf = <<>> /\ q.out = r.out \o Line(r.sbuf)
      /\ k < words /\ p % 16 = 0 =>
           q.sbuf = w /\ q.out = (r.out \o Line(r.sbuf)) \o (<<AddrItem(addr + p)>> \o <<WordItem(w)>>)
      /\ k < words /\ p % 16 # 0 => q.sbuf = r.sbuf \o w /\ q.out = r.out \o <<WordItem(w)>>

LEMMA TurnCases ==
  ASSUME NEW mem, NEW addr \in Int, NEW width \in Nat, NEW words \in Nat, NEW k \in 0..words,
         NEW r \in Turned,
         k < words => BytesAt(mem, addr + (k * width), width) = Stretch(addr + (k * width), width)
  PROVE  Turns(addr, width, words, r, k, DumpTurn(mem, addr, width, words, r, k))
<1> DEFINE p == k * width
           q == DumpTurn(mem, addr, width, words, r, k)
           w == Stretch(addr + p, width)
           line == Line(r.sbuf)
           none == <<>>
<1>1. p \in Int /\ w \in Seq(Int)
  <2>1. p \in Int
    OBVIOUS
  <2> HIDE DEF p
  <2>2. addr + p \in Int
    BY <2>1
  <2> QED BY <2>1, <2>2, StretchIs
<1>2. r.sbuf \in Seq(Int) /\ r.out \in Seq(Items)
  BY DEF Turned
<1>3. CharsItem(r.sbuf) \in Items /\ AddrItem(addr + p) \in Items /\ WordItem(w) \in Items
  <2> HIDE DEF p, w
  <2> QED BY <1>1, <1>2 DEF CharsItem, AddrItem, WordItem, Items
<1>4. line \in Seq(Items)
  <2>1. <<CharsItem(r.sbuf)>> \in Seq(Items) /\ <<>> \in Seq(Items)
    BY <1>3
  <2> QED BY <2>1 DEF Line
<1>5. <<AddrItem(addr + p)>> \in Seq(Items) /\ <<WordItem(w)>> \in Seq(Items)
  BY <1>3
<1> DEFINE Out == /\ k = words => q.sbuf = <<>> /\ q.out = r.out \o line
                  /\ k < words /\ p % 16 = 0 =>
                       q.sbuf = w /\ q.out = (r.out \o line) \o (<<AddrItem(addr + p)>> \o <<WordItem(w)>>)
                  /\ k < words /\ p % 16 # 0 => q.sbuf = r.sbuf \o w /\ q.out = r.out \o <<WordItem(w)>>
<1> SUFFICES Out
  BY DEF Turns
<1>6. CASE k = words
  <2>1. q.sbuf = none \o none /\ q.out = ((r.out \o line) \o none) \o none
    BY <1>6 DEF DumpTurn, Line, CharsItem
  <2>2. none \in Seq(Int) /\ none \in Seq(Items)
    OBVIOUS
  <2> HIDE DEF none, line, q
  <2>3. r.out \o line \in Seq(Items)
    BY <1>2, <1>4, ConcatProperties
  <2>4. none \o none = none /\ (r.out \o line) \o none = r.out \o line
    BY <2>2, <2>3, ConcatEmptySeq DEF none
  <2>5. q.sbuf = none /\ q.out = r.out \o line
    BY <2>1, <2>4
  <2>6. ~(k < words)
    BY <1>6
  <2> HIDE DEF p, w
  <2> QED BY <1>6, <2>5, <2>6 DEF none, line, q, p
<1>7. CASE k < words /\ p % 16 = 0
  <2>1. k # words
    BY <1>7
  <2>2. BytesAt(mem, addr + p, width) = w
    BY <1>7
  <2>3. q.sbuf = none \o w /\ q.out = ((r.out \o line) \o <<AddrItem(addr + p)>>) \o <<WordItem(w)>>
    <3> HIDE DEF p, w
    <3> QED BY <1>7, <2>1, <2>2 DEF DumpTurn, Line, CharsItem, AddrItem, WordItem, p
  <2> DEFINE A == <<AddrItem(addr + p)>>
             B == <<WordItem(w)>>
  <2>4. r.out \o line \in Seq(Items) /\ A \in Seq(Items) /\ B \in Seq(Items)
    <3>1. r.out \o line \in Seq(Items)
      <4> HIDE DEF line
      <4> QED BY <1>2, <1>4, ConcatProperties
    <3> QED BY <1>5, <3>1
  <2> HIDE DEF A, B, line, none, q, w, p
  <2>5. ((r.out \o line) \o A) \o B = (r.out \o line) \o (A \o B)
    <3> DEFINE C == r.out \o line
    <3>1. C \in Seq(Items) /\ A \in Seq(Items) /\ B \in Seq(Items)
      BY <2>4
    <3> HIDE DEF C
    <3>2. (C \o A) \o B = C \o (A \o B)
      BY <3>1, ItemsRegrouped
    <3> QED BY <3>2 DEF C
  <2>6. none \o w = w
    BY <1>1, ConcatEmptySeq DEF none
  <2>7. q.sbuf = w /\ q.out = (r.out \o line) \o (A \o B)
    BY <2>3, <2>5, <2>6 DEF A, B
  <2> QED BY <1>7, <2>1, <2>7 DEF A, B, line, q, w, p
<1>8. CASE k < words /\ p % 16 # 0
  <2>1. k # words
    BY <1>8
  <2>2. BytesAt(mem, addr + p, width) = w
    BY <1>8
  <2>3. q.sbuf = r.sbuf \o w /\ q.out = ((r.out \o none) \o none) \o <<WordItem(w)>>
    <3> HIDE DEF p, w
    <3> QED BY <1>8, <2>1, <2>2 DEF DumpTurn, WordItem, p
  <2> HIDE DEF none, q, w, p
  <2>4. r.out \o none = r.out
    BY <1>2, ConcatEmptySeq DEF none
  <2>5. q.sbuf = r.sbuf \o w /\ q.out = r.out \o <<WordItem(w)>>
    BY <2>3, <2>4
  <2> QED BY <1>8, <2>1, <2>5 DEF q, w, p
<1>9. k = words \/ k < words
  OBVIOUS
<1> HIDE DEF Out
<1> QED BY <1>6, <1>7, <1>8, <1>9

LEMMA LineIs ==
  ASSUME NEW s \in Seq(Int)
  PROVE  /\ Line(s) \in Seq(Items) /\ Of(Line(s), "chars") = s /\ Of(Line(s), "word") = <<>>
         /\ Len(s) <= 16 => Shaped(Line(s))
<1> DEFINE it == CharsItem(s)
<1>1. it \in Items /\ it.kind = "chars" /\ it.of = s
  BY DEF CharsItem, Items
<1> HIDE DEF it
<1>2. CASE s = <<>>
  <2>1. Line(s) = <<>>
    BY <1>2 DEF Line
  <2> QED BY <1>2, <2>1, OfNone, ShapedFew
<1>3. CASE s # <<>>
  <2>1. Line(s) = <<it>>
    BY <1>3 DEF Line, it
  <2>2. Of(<<it>>, "chars") = s /\ Of(<<it>>, "word") = <<>>
    BY <1>1, OfOne
  <2>3. <<it>> \in Seq(Items) /\ (Len(s) <= 16 => Shaped(<<it>>))
    BY <1>1, ShapedFew
  <2> QED BY <2>1, <2>2, <2>3
<1> QED BY <1>2, <1>3

LEMMA WordIs ==
  ASSUME NEW w \in Seq(Int)
  PROVE  LET o == <<WordItem(w)>>
         IN  o \in Seq(Items) /\ Of(o, "word") = w /\ Of(o, "chars") = <<>> /\ Shaped(o)
<1> DEFINE it == WordItem(w)
<1>1. it \in Items /\ it.kind = "word" /\ it.of = w
  BY DEF WordItem, Items
<1> HIDE DEF it
<1>2. Of(<<it>>, "word") = w /\ Of(<<it>>, "chars") = <<>>
  BY <1>1, OfOne
<1>3. <<it>> \in Seq(Items) /\ Shaped(<<it>>)
  BY <1>1, ShapedFew
<1> QED BY <1>2, <1>3 DEF it

LEMMA HeadedIs ==
  ASSUME NEW a \in Int, NEW w \in Seq(Int), w[1] = a
  PROVE  LET o == <<AddrItem(a)>> \o <<WordItem(w)>>
         IN  o \in Seq(Items) /\ Of(o, "word") = w /\ Of(o, "chars") = <<>> /\ Shaped(o)
<1> DEFINE it == AddrItem(a)
           next == WordItem(w)
<1>1. it \in Items /\ it.kind = "addr" /\ it.of[1] = a
  BY DEF AddrItem, Items
<1>2. next \in Items /\ next.kind = "word" /\ next.of = w
  BY DEF WordItem, Items
<1> HIDE DEF it, next
<1>3. <<it>> \o <<next>> \in Seq(Items) /\ Shaped(<<it>> \o <<next>>)
  BY <1>1, <1>2, ShapedFew
<1>4. \A kind : Of(<<it>> \o <<next>>, kind) = Of(<<it>>, kind) \o Of(<<next>>, kind)
  <2> DEFINE s == <<it>>
             t == <<next>>
  <2>1. s \in Seq(Items) /\ t \in Seq(Items)
    BY <1>1, <1>2
  <2> HIDE DEF s, t
  <2>2. \A kind : Of(s \o t, kind) = Of(s, kind) \o Of(t, kind)
    BY <2>1, OfJoined
  <2> QED BY <2>2 DEF s, t
<1>5. /\ Of(<<it>>, "word") = <<>> /\ Of(<<it>>, "chars") = <<>>
      /\ Of(<<next>>, "word") = w /\ Of(<<next>>, "chars") = <<>>
  BY <1>1, <1>2, OfOne
<1>6. <<>> \o w = w
  BY ConcatEmptySeq
<1>7. <<>> \o <<>> = <<>>
  <2> DEFINE none == <<>>
  <2>1. none \in Seq(Int)
    OBVIOUS
  <2> HIDE DEF none
  <2>2. none \o <<>> = none
    BY <2>1, ConcatEmptySeq
  <2> QED BY <2>2 DEF none
<1> DEFINE o == <<it>> \o <<next>>
<1>8. Of(o, "word") = w /\ Of(o, "chars") = <<>>
  BY <1>4, <1>5, <1>6, <1>7
<1> HIDE DEF o
<1>9. o \in Seq(Items) /\ Of(o, "word") = w /\ Of(o, "chars") = <<>> /\ Shaped(o)
  BY <1>3, <1>8 DEF o
<1> QED BY <1>9 DEF o, it, next

\* What a dump of words of a width has shown, and keeps in sbuf, before turn k
Shown(addr, width, k, r) ==
  /\ r \in Turned /\ Shaped(r.out)
  /\ Of(r.out, "word") = Stretch(addr, k * width)
  /\ Of(r.out, "chars") \o r.sbuf = Stretch(addr, k * width)
  /\ Len(r.sbuf) <= 16
  /\ \E j \in Nat : Len(r.sbuf) = width * j
  /\ \E t \in Int : k * width = (16 * t) + Len(r.sbuf)

\* What sbuf holds leaves room for a word within a line.
LEMMA RoomIs ==
  ASSUME NEW width \in {1, 2, 4}, NEW p \in Int, p % 16 # 0, NEW l \in Nat, l <= 16,
         NEW j \in Nat, l = width * j, NEW t \in Int, p = (16 * t) + l
  PROVE  l + width <= 16 /\ l + width = width * (j + 1)
<1>1. l # 16
  <2> SUFFICES ASSUME l = 16 PROVE FALSE
    OBVIOUS
  <2>1. p = 16 * (t + 1)
    OBVIOUS
  <2> QED BY <2>1
<1>2. CASE width = 1
  BY <1>1, <1>2
<1>3. CASE width = 2
  BY <1>1, <1>3
<1>4. CASE width = 4
  BY <1>1, <1>4
<1> QED BY <1>2, <1>3, <1>4

Widths == {1, 2, 4}

LEMMA PlaceIs ==
  ASSUME NEW width \in Widths, NEW k \in Nat
  PROVE  /\ width \in Nat /\ k * width \in Nat /\ (k + 1) * width = (k * width) + width
BY DEF Widths

LEMMA TurnTyped ==
  ASSUME NEW mem, NEW addr \in Int, NEW width \in Widths, NEW words \in Nat, NEW k \in 0..words,
         NEW r \in Turned,
         k < words => BytesAt(mem, addr + (k * width), width) = Stretch(addr + (k * width), width)
  PROVE  DumpTurn(mem, addr, width, words, r, k) \in Turned
<1> DEFINE q == DumpTurn(mem, addr, width, words, r, k)
           p == k * width
           w == Stretch(addr + p, width)
           line == Line(r.sbuf)
           word == <<WordItem(w)>>
           head == <<AddrItem(addr + p)>>
<1>1. width \in Nat /\ p \in Nat /\ k \in Nat
  BY PlaceIs
<1>2. w \in Seq(Int) /\ addr + p \in Int
  <2> HIDE DEF p
  <2>1. addr + p \in Int
    BY <1>1
  <2> QED BY <1>1, <2>1, StretchIs
<1>3. r.sbuf \in Seq(Int) /\ r.out \in Seq(Items) /\ line \in Seq(Items)
  <2>1. r.sbuf \in Seq(Int) /\ r.out \in Seq(Items)
    BY DEF Turned
  <2> QED BY <2>1, LineIs
<1>4. /\ k = words => q.sbuf = <<>> /\ q.out = r.out \o line
      /\ k < words /\ p % 16 = 0 => q.sbuf = w /\ q.out = (r.out \o line) \o (head \o word)
      /\ k < words /\ p % 16 # 0 => q.sbuf = r.sbuf \o w /\ q.out = r.out \o word
  <2>1. Turns(addr, width, words, r, k, q)
    BY <1>1, TurnCases
  <2> HIDE DEF q
  <2> QED BY <2>1 DEF Turns
<1>5. q = [sbuf |-> q.sbuf, out |-> q.out]
  BY DEF DumpTurn
<1>6. word \in Seq(Items) /\ head \o word \in Seq(Items)
  <2>1. WordItem(w) \in Items /\ AddrItem(addr + p) \in Items
    <3> HIDE DEF w, p
    <3> QED BY <1>2 DEF WordItem, AddrItem, Items
  <2>2. word \in Seq(Items) /\ head \in Seq(Items)
    BY <2>1
  <2> HIDE DEF word, head
  <2> QED BY <2>2, ConcatProperties
<1> HIDE DEF q, w, line, word, head, p
<1>7. /\ r.out \o line \in Seq(Items) /\ r.out \o word \in Seq(Items) /\ r.sbuf \o w \in Seq(Int)
  BY <1>2, <1>3, <1>6, ConcatProperties
<1>8. (r.out \o line) \o (head \o word) \in Seq(Items)
  <2> DEFINE s1 == r.out \o line
             s2 == head \o word
  <2>1. s1 \in Seq(Items) /\ s2 \in Seq(Items)
    BY <1>6, <1>7
  <2> HIDE DEF s1, s2
  <2>2. s1 \o s2 \in Seq(Items)
    BY <2>1, ConcatProperties
  <2> QED BY <2>2 DEF s1, s2
<1>9. q.sbuf \in Seq(Int) /\ q.out \in Seq(Items)
  <2>1. k = words \/ k < words
    BY <1>1
  <2>2. <<>> \in Seq(Int)
    OBVIOUS
  <2> QED BY <1>2, <1>4, <1>7, <1>8, <2>1, <2>2
<1>10. q \in Turned
  BY <1>5, <1>9 DEF Turned
<1> QED BY <1>10 DEF q

\* A turn shows a word more; the last turn shows the characters that are left.
LEMMA TurnMiddle ==
  ASSUME NEW mem, NEW addr \in Int, NEW width \in Widths, NEW words \in Nat, NEW k \in Nat, k < words,
         NEW r, Shown(addr, width, k, r),
         BytesAt(mem, addr + (k * width), width) = Stretch(addr + (k * width), width)
  PROVE  Shown(addr, width, k + 1, DumpTurn(mem, addr, width, words, r, k))
<1> DEFINE q == DumpTurn(mem, addr, width, words, r, k)
           p == k * width
           a == addr + p
           w == Stretch(a, width)
           line == Line(r.sbuf)
           word == <<WordItem(w)>>
           headed == <<AddrItem(a)>> \o <<WordItem(w)>>
           s == r.sbuf
           o == r.out
<1>1. width \in Nat /\ p \in Nat /\ (k + 1) * width = p + width /\ width \in 1..16 /\ k \in 0..words
  <2>1. width \in 1..16
    BY DEF Widths
  <2> QED BY <2>1, PlaceIs
<1>2. /\ r \in Turned /\ Shaped(o)
      /\ Of(o, "word") = Stretch(addr, p) /\ Of(o, "chars") \o s = Stretch(addr, p)
      /\ Len(s) <= 16
  BY DEF Shown
<1>3. PICK j \in Nat, t \in Int : Len(s) = width * j /\ p = (16 * t) + Len(s)
  BY DEF Shown
<1>4. s \in Seq(Int) /\ o \in Seq(Items) /\ Len(s) \in Nat
  BY <1>2 DEF Turned
<1>5. q \in Turned
  BY <1>1, <1>2, TurnTyped
<1>6. /\ p % 16 = 0 => q.sbuf = w /\ q.out = (o \o line) \o headed
      /\ p % 16 # 0 => q.sbuf = s \o w /\ q.out = o \o word
  <2>1. Turns(addr, width, words, r, k, q)
    BY <1>1, <1>2, TurnCases
  <2> HIDE DEF q
  <2> QED BY <2>1 DEF Turns
<1> HIDE DEF p, q
<1>7. a \in Int
  BY <1>1
<1>8. w \in Seq(Int) /\ Len(w) = width /\ w[1] = a
  <2>1. 1 \in 1..width /\ a + 1 - 1 = a
    BY <1>1, <1>7
  <2> HIDE DEF a
  <2> QED BY <1>1, <1>7, <2>1, StretchIs
<1>9. Stretch(addr, p) \o w = Stretch(addr, p + width)
  BY <1>1, StretchJoined
<1> HIDE DEF a, w
<1>10. /\ word \in Seq(Items) /\ Of(word, "word") = w /\ Of(word, "chars") = <<>> /\ Shaped(word)
       /\ headed \in Seq(Items) /\ Of(headed, "word") = w /\ Of(headed, "chars") = <<>> /\ Shaped(headed)
  BY <1>7, <1>8, WordIs, HeadedIs
<1>11. line \in Seq(Items) /\ Of(line, "chars") = s /\ Of(line, "word") = <<>> /\ Shaped(line)
  BY <1>2, <1>4, LineIs
<1> HIDE DEF line, word, headed, s, o
<1>12. Of(o, "word") \in Seq(Int) /\ Of(o, "chars") \in Seq(Int)
  BY <1>4, OfSeq
<1>13. Stretch(addr, p) \in Seq(Int)
  BY <1>1, StretchIs
<1>14. CASE p % 16 = 0
  <2> DEFINE u == o \o line
  <2>1. u \in Seq(Items) /\ Shaped(u)
    BY <1>2, <1>4, <1>11, ShapedJoined
  <2>2. Of(u, "word") = Stretch(addr, p) /\ Of(u, "chars") = Stretch(addr, p)
    <3>1. o \in Seq(Items) /\ line \in Seq(Items)
      BY <1>4, <1>11
    <3>2. \A kind : Of(o \o line, kind) = Of(o, kind) \o Of(line, kind)
      BY <3>1, OfJoined
    <3>3. Of(u, "word") = Of(o, "word") \o <<>> /\ Of(u, "chars") = Of(o, "chars") \o s
      BY <1>11, <3>2
    <3>4. Of(o, "word") \o <<>> = Of(o, "word")
      BY <1>12, ConcatEmptySeq
    <3> HIDE DEF u
    <3> QED BY <1>2, <3>3, <3>4
  <2> HIDE DEF u
  <2>3. u \o headed \in Seq(Items) /\ Shaped(u \o headed)
    BY <1>10, <2>1, ShapedJoined
  <2>4. Of(u \o headed, "word") = Stretch(addr, p) \o w /\ Of(u \o headed, "chars") = Stretch(addr, p) \o <<>>
    <3>1. u \in Seq(Items) /\ headed \in Seq(Items)
      BY <1>10, <2>1
    <3>2. \A kind : Of(u \o headed, kind) = Of(u, kind) \o Of(headed, kind)
      BY <3>1, OfJoined
    <3> QED BY <1>10, <2>2, <3>2
  <2>5. Stretch(addr, p) \o <<>> = Stretch(addr, p)
    BY <1>13, ConcatEmptySeq
  <2>6. q.sbuf = w /\ q.out = u \o headed
    BY <1>6, <1>14 DEF u
  <2>7. /\ Shaped(q.out) /\ Of(q.out, "word") = Stretch(addr, p + width)
        /\ Of(q.out, "chars") \o q.sbuf = Stretch(addr, p + width)
    BY <1>9, <2>3, <2>4, <2>5, <2>6
  <2>8. Len(q.sbuf) <= 16 /\ Len(q.sbuf) = width * 1 /\ Len(q.sbuf) = width
    BY <1>1, <1>8, <2>6
  <2>9. \E e \in Int : p + width = (16 * e) + Len(q.sbuf)
    <3> DEFINE e == p \div 16
    <3>1. e \in Int /\ p = 16 * e
      BY <1>1, <1>14
    <3> HIDE DEF e
    <3>2. p + width = (16 * e) + Len(q.sbuf)
      BY <1>1, <2>8, <3>1
    <3> QED BY <3>1, <3>2
  <2>10. \E i \in Nat : Len(q.sbuf) = width * i
    BY <2>8
  <2>11. Shown(addr, width, k + 1, q)
    BY <1>1, <1>5, <2>7, <2>8, <2>9, <2>10 DEF Shown
  <2> QED BY <2>11 DEF q
<1>15. CASE p % 16 # 0
  <2>1. o \o word \in Seq(Items) /\ Shaped(o \o word)
    BY <1>2, <1>4, <1>10, ShapedJoined
  <2>2. Of(o \o word, "word") = Of(o, "word") \o w /\ Of(o \o word, "chars") = Of(o, "chars") \o <<>>
    <3>1. o \in Seq(Items) /\ word \in Seq(Items)
      BY <1>4, <1>10
    <3>2. \A kind : Of(o \o word, kind) = Of(o, kind) \o Of(word, kind)
      BY <3>1, OfJoined
    <3> QED BY <1>10, <3>2
  <2>3. Of(o, "chars") \o <<>> = Of(o, "chars")
    BY <1>12, ConcatEmptySeq
  <2>4. Of(o, "chars") \o (s \o w) = (Of(o, "chars") \o s) \o w
    <3> DEFINE x == Of(o, "chars")
    <3>1. x \in Seq(Int) /\ s \in Seq(Int) /\ w \in Seq(Int)
      BY <1>4, <1>8, <1>12
    <3> HIDE DEF x
    <3>2. (x \o s) \o w = x \o (s \o w)
      BY <3>1, Regrouped
    <3> QED BY <3>2 DEF x
  <2>5. q.sbuf = s \o w /\ q.out = o \o word
    BY <1>6, <1>15
  <2>6. /\ Shaped(q.out) /\ Of(q.out, "word") = Stretch(addr, p + width)
        /\ Of(q.out, "chars") \o q.sbuf = Stretch(addr, p + width)
    BY <1>2, <1>9, <2>1, <2>2, <2>3, <2>4, <2>5
  <2>7. Len(q.sbuf) = Len(s) + width
    BY <1>4, <1>8, <2>5, ConcatProperties
  <2>8. Len(s) + width <= 16 /\ Len(s) + width = width * (j + 1)
    <3> DEFINE l == Len(s)
    <3>1. width \in {1, 2, 4} /\ l \in Nat /\ l <= 16 /\ l = width * j /\ p = (16 * t) + l /\ p \in Int
      BY <1>1, <1>2, <1>3, <1>4 DEF Widths
    <3> HIDE DEF l
    <3>2. l + width <= 16 /\ l + width = width * (j + 1)
      BY <1>15, <3>1, RoomIs
    <3> QED BY <3>2 DEF l
  <2>9. \E e \in Int : p + width = (16 * e) + Len(q.sbuf)
    <3>1. p + width = (16 * t) + Len(q.sbuf)
      BY <1>1, <1>3, <1>4, <2>7
    <3> QED BY <3>1
  <2>10. \E i \in Nat : Len(q.sbuf) = width * i
    <3>1. j + 1 \in Nat
      OBVIOUS
    <3> QED BY <2>7, <2>8, <3>1
  <2>11. Shown(addr, width, k + 1, q)
    BY <1>1, <1>5, <2>6, <2>7, <2>8, <2>9, <2>10 DEF Shown
  <2> QED BY <2>11 DEF q
<1> QED BY <1>14, <1>15

LEMMA TurnLast ==
  ASSUME NEW mem, NEW addr \in Int, NEW width \in Widths, NEW words \in Nat,
         NEW r, Shown(addr, width, words, r)
  PROVE  LET q == DumpTurn(mem, addr, width, words, r, words)
         IN  /\ q.out \in Seq(Items) /\ Shaped(q.out)
             /\ Of(q.out, "word") = Stretch(addr, words * width)
             /\ Of(q.out, "chars") = Stretch(addr, words * width)
<1> DEFINE q == DumpTurn(mem, addr, width, words, r, words)
           p == words * width
           line == Line(r.sbuf)
           s == r.sbuf
           o == r.out
<1>1. width \in Nat /\ words \in 0..words /\ ~(words < words)
  BY PlaceIs
<1>2. /\ r \in Turned /\ Shaped(o)
      /\ Of(o, "word") = Stretch(addr, p) /\ Of(o, "chars") \o s = Stretch(addr, p)
      /\ Len(s) <= 16
  BY DEF Shown
<1>3. s \in Seq(Int) /\ o \in Seq(Items)
  BY <1>2 DEF Turned
<1>4. q.out = o \o line
  <2>1. Turns(addr, width, words, r, words, q)
    BY <1>1, <1>2, TurnCases
  <2> HIDE DEF q
  <2> QED BY <2>1 DEF Turns
<1>5. line \in Seq(Items) /\ Of(line, "chars") = s /\ Of(line, "word") = <<>> /\ Shaped(line)
  BY <1>2, <1>3, LineIs
<1> HIDE DEF q, p, line, s, o
<1>6. o \o line \in Seq(Items) /\ Shaped(o \o line)
  BY <1>2, <1>3, <1>5, ShapedJoined
<1>7. Of(o \o line, "word") = Of(o, "word") \o <<>> /\ Of(o \o line, "chars") = Of(o, "chars") \o s
  <2>1. o \in Seq(Items) /\ line \in Seq(Items)
    BY <1>3, <1>5
  <2>2. \A kind : Of(o \o line, kind) = Of(o, kind) \o Of(line, kind)
    BY <2>1, OfJoined
  <2> QED BY <1>5, <2>2
<1>8. Of(o, "word") \o <<>> = Of(o, "word")
  BY <1>3, OfSeq, ConcatEmptySeq
<1> QED BY <1>2, <1>4, <1>6, <1>7, <1>8 DEF q, p

WordsOf(len, width) == IF len <= 0 THEN 0 ELSE (len + width - 1) \div width

\* Dump, of a number of words
DumpOf(mem, addr, words, width) ==
  LET upto == CHOOSE u : u = [k \in 0..(words + 1) |->
                IF k = 0 THEN [sbuf |-> <<>>, out |-> <<>>] ELSE DumpTurn(mem, addr, width, words, u[k - 1], k - 1)]
  IN  [out |-> upto[words + 1].out, addr |-> addr + (words * width)]

LEMMA DumpWords ==
  ASSUME NEW mem, NEW addr, NEW len, NEW width
  PROVE  Dump(mem, addr, len, width) = DumpOf(mem, addr, WordsOf(len, width), width)
BY Zenon DEF Dump, DumpOf, WordsOf, DumpTurn

LEMMA StartIs ==
  ASSUME NEW addr \in Int, NEW width \in Widths
  PROVE  [sbuf |-> <<>>, out |-> <<>>] \in Turned /\ Shown(addr, width, 0, [sbuf |-> <<>>, out |-> <<>>])
<1> DEFINE none == <<>>
           r == [sbuf |-> none, out |-> none]
<1>1. none \in Seq(Int) /\ none \in Seq(Items) /\ Len(none) = 0 /\ Shaped(none)
  BY DEF Shaped
<1>2. width \in Nat /\ 0 * width = 0
  BY DEF Widths
<1>3. Stretch(addr, 0) = none
  <2>1. Stretch(addr, 0) \in Seq(Int) /\ Len(Stretch(addr, 0)) = 0
    BY StretchIs
  <2> QED BY <2>1, EmptySeq
<1>4. Of(none, "word") = none /\ Of(none, "chars") = none
  BY OfNone
<1> HIDE DEF none
<1>5. none \o none = none
  BY <1>1, ConcatEmptySeq DEF none
<1>6. r \in Turned /\ r.sbuf = none /\ r.out = none
  BY <1>1 DEF Turned
<1> HIDE DEF r
<1>7. \E j \in Nat : Len(r.sbuf) = width * j
  <2>1. 0 \in Nat /\ Len(r.sbuf) = width * 0
    BY <1>1, <1>2, <1>6
  <2> QED BY <2>1
<1>8. \E t \in Int : 0 * width = (16 * t) + Len(r.sbuf)
  <2>1. 0 \in Int /\ 0 * width = (16 * 0) + Len(r.sbuf)
    BY <1>1, <1>2, <1>6
  <2> QED BY <2>1
<1>9. Len(r.sbuf) <= 16
  BY <1>1, <1>6
<1>10. Of(r.out, "word") = Stretch(addr, 0 * width) /\ Of(r.out, "chars") \o r.sbuf = Stretch(addr, 0 * width)
  BY <1>2, <1>3, <1>4, <1>5, <1>6
<1>11. Shown(addr, width, 0, r)
  BY <1>1, <1>6, <1>7, <1>8, <1>9, <1>10 DEF Shown
<1> QED BY <1>6, <1>11 DEF r, none

\* A dump shows its stretch of memory, once.
Dumped(addr, words, width, r) ==
  /\ r.addr = addr + (words * width)
  /\ r.out \in Seq(Items) /\ Shaped(r.out)
  /\ Of(r.out, "word") = Stretch(addr, words * width)
  /\ Of(r.out, "chars") = Stretch(addr, words * width)

LEMMA DumpIs ==
  ASSUME NEW mem, NEW addr \in Int, NEW width \in Widths, NEW words \in Nat,
         \A k \in 0..words :
           k < words => BytesAt(mem, addr + (k * width), width) = Stretch(addr + (k * width), width)
  PROVE  Dumped(addr, words, width, DumpOf(mem, addr, words, width))
<1> DEFINE top == words + 1
           start == [sbuf |-> <<>>, out |-> <<>>]
           Turn(r, k) == DumpTurn(mem, addr, width, words, r, k)
           Is(u) == u = [k \in 0..top |-> IF k = 0 THEN start ELSE Turn(u[k - 1], k - 1)]
           upto == CHOOSE u : Is(u)
           G(r, k) == IF k \in 1..top THEN Turn(r, k - 1) ELSE r
           F == [x \in Turned \X Nat |-> G(x[1], x[2])]
<1>1. DumpOf(mem, addr, words, width) = [out |-> upto[words + 1].out, addr |-> addr + (words * width)]
  BY DEF DumpOf
<1>2. top \in Nat /\ start \in Turned /\ Shown(addr, width, 0, start)
  BY StartIs
<1>3. \A r \in Turned, k \in 0..words : Turn(r, k) \in Turned
  <2> SUFFICES ASSUME NEW r \in Turned, NEW k \in 0..words PROVE Turn(r, k) \in Turned
    OBVIOUS
  <2> QED BY TurnTyped
<1>4. \A k \in 1..top : k - 1 \in 0..words /\ k - 1 \in 0..top /\ k \in Nat /\ k \in 0..top /\ k # 0
  OBVIOUS
<1>5. \A k \in 0..words : \A r :
        k < words /\ Shown(addr, width, k, r) => Shown(addr, width, k + 1, Turn(r, k))
  <2> SUFFICES ASSUME NEW k \in 0..words, NEW r, k < words, Shown(addr, width, k, r)
               PROVE  Shown(addr, width, k + 1, Turn(r, k))
    OBVIOUS
  <2>1. k \in Nat
    OBVIOUS
  <2> QED BY <2>1, TurnMiddle
<1>6. \A r : Shown(addr, width, words, r) =>
        /\ Turn(r, words).out \in Seq(Items) /\ Shaped(Turn(r, words).out)
        /\ Of(Turn(r, words).out, "word") = Stretch(addr, words * width)
        /\ Of(Turn(r, words).out, "chars") = Stretch(addr, words * width)
  BY TurnLast
<1>7. /\ words \in 0..words /\ words + 1 = top /\ top - 1 = words /\ top \in 1..top
      /\ \A k \in 1..words : k - 1 \in 0..words /\ k - 1 < words /\ (k - 1) + 1 = k /\ k \in 1..top /\ k \in 0..words
      /\ 0 \in 0..words /\ 0 \in 0..top
  OBVIOUS
<1> HIDE DEF Turn, start, top
<1>8. \A r \in Turned, k \in Nat : G(r, k) \in Turned
  BY <1>3, <1>4
<1>9. F \in [Turned \X Nat -> Turned] /\ \A r \in Turned, k \in Nat : F[<<r, k>>] = G(r, k)
  <2> HIDE DEF G
  <2> QED BY <1>8
<1> HIDE DEF F
<1>10. PICK f \in [0..top -> Turned] : Comes(f, top, start, F)
  BY <1>2, <1>9, Recursion
<1>11. Is(f)
  <2>1. ASSUME NEW k \in 0..top
        PROVE  f[k] = IF k = 0 THEN start ELSE Turn(f[k - 1], k - 1)
    <3>1. CASE k = 0
      BY <1>10, <3>1 DEF Comes
    <3>2. CASE k # 0
      <4>1. k \in 1..top
        BY <1>2, <3>2
      <4>2. f[k - 1] \in Turned
        BY <1>4, <1>10, <4>1
      <4>3. f[k] = F[<<f[k - 1], k>>]
        BY <1>10, <4>1 DEF Comes
      <4>4. f[k] = G(f[k - 1], k)
        <5> HIDE DEF G
        <5> QED BY <1>4, <1>9, <4>1, <4>2, <4>3
      <4> QED BY <3>2, <4>1, <4>4
    <3> QED BY <3>1, <3>2
  <2> QED BY <2>1
<1>12. Is(upto)
  <2> HIDE DEF Is
  <2> QED BY <1>11
<1> HIDE DEF upto
<1>13. upto[0] = start /\ \A k \in 1..top : upto[k] = Turn(upto[k - 1], k - 1)
  BY <1>4, <1>7, <1>12
<1> DEFINE T == {k \in 0..words : Shown(addr, width, k, upto[k])}
<1>14. 0 \in T
  BY <1>2, <1>7, <1>13
<1>15. ASSUME NEW k \in 1..words, k - 1 \in T
       PROVE  k \in T
  <2>1. Shown(addr, width, k - 1, upto[k - 1])
    BY <1>15
  <2>2. Shown(addr, width, (k - 1) + 1, Turn(upto[k - 1], k - 1))
    BY <1>5, <1>7, <2>1
  <2> QED BY <1>7, <1>13, <2>2
<1>16. Shown(addr, width, words, upto[words])
  <2> HIDE DEF T
  <2>1. 0..words \subseteq T
    BY <1>14, <1>15, Reaches
  <2> QED BY <1>7, <2>1 DEF T
<1>17. upto[words + 1] = Turn(upto[words], words)
  BY <1>7, <1>13
<1> DEFINE o == upto[words + 1].out
           d == DumpOf(mem, addr, words, width)
<1>18. /\ o \in Seq(Items) /\ Shaped(o)
       /\ Of(o, "word") = Stretch(addr, words * width) /\ Of(o, "chars") = Stretch(addr, words * width)
  BY <1>6, <1>16, <1>17
<1>19. d.out = o /\ d.addr = addr + (words * width)
  BY <1>1
<1> HIDE DEF o, d
<1>20. Dumped(addr, words, width, d)
  BY <1>18, <1>19 DEF Dumped
<1> QED BY <1>20 DEF d

LEMMA WordsAre ==
  ASSUME NEW width \in Widths, NEW len \in Nat
  PROVE  /\ WordsOf(len, width) \in Nat /\ WordsOf(len, width) * width \in Nat
         /\ len <= WordsOf(len, width) * width /\ WordsOf(len, width) * width < len + width
<1>1. CASE width = 1
  BY <1>1 DEF WordsOf
<1>2. CASE width = 2
  BY <1>2 DEF WordsOf
<1>3. CASE width = 4
  BY <1>3 DEF WordsOf
<1> QED BY <1>1, <1>2, <1>3 DEF Widths

\* Memory whose bytes are their own addresses
Own(top) == [a \in 0..top |-> a]

LEMMA BytesAre ==
  ASSUME NEW top \in Nat, NEW addr \in Nat, NEW width \in Nat, addr + width <= top + 1
  PROVE  BytesAt(Own(top), addr, width) = Stretch(addr, width)
BY DEF BytesAt, Own, Stretch

LEMMA WordWithin ==
  ASSUME NEW width \in Widths, NEW words \in Nat, NEW k \in Nat, k < words
  PROVE  (k * width) + width <= words * width
BY DEF Widths

LEMMA DumpShows ==
  ASSUME NEW top \in Nat, NEW addr \in Nat, NEW width \in Widths, NEW len \in Nat,
         addr + (WordsOf(len, width) * width) <= top + 1
  PROVE  Dumped(addr, WordsOf(len, width), width, Dump(Own(top), addr, len, width))
<1> DEFINE words == WordsOf(len, width)
           mem == Own(top)
<1>1. words \in Nat /\ words * width \in Nat /\ addr + (words * width) <= top + 1
  BY WordsAre
<1>2. Dump(mem, addr, len, width) = DumpOf(mem, addr, words, width)
  BY DumpWords
<1> HIDE DEF words, mem
<1>3. ASSUME NEW k \in 0..words, k < words
      PROVE  BytesAt(mem, addr + (k * width), width) = Stretch(addr + (k * width), width)
  <2> DEFINE p == k * width
             t == words * width
  <2>1. p \in Nat /\ width \in Nat /\ t \in Nat /\ p + width <= t /\ addr + t <= top + 1
    <3>1. k \in Nat
      BY <1>1
    <3>2. p \in Nat /\ width \in Nat
      BY <3>1, PlaceIs
    <3>3. p + width <= t
      BY <1>1, <1>3, <3>1, WordWithin
    <3> QED BY <1>1, <3>2, <3>3
  <2> HIDE DEF p, t
  <2>2. addr + p \in Nat /\ (addr + p) + width <= top + 1
    BY <2>1
  <2>3. BytesAt(mem, addr + p, width) = Stretch(addr + p, width)
    BY <2>1, <2>2, BytesAre DEF mem
  <2> QED BY <2>3 DEF p
<1>4. Dumped(addr, words, width, DumpOf(mem, addr, words, width))
  BY <1>1, <1>3, DumpIs
<1> QED BY <1>2, <1>4 DEF words, mem

\* What DumpsRead says of two dumps, of memory from 8
TwoShow(first, second, len, width) ==
  LET shown == first.out \o second.out
      total == second.addr - 8
      bytes == [i \in 1..total |-> i + 7]
  IN  /\ Of(shown, "word") = bytes /\ Of(shown, "chars") = bytes
      /\ 2 * len <= total /\ total < 2 * (len + width)
      /\ \A i \in 1..(Len(shown) - 1) :
           shown[i].kind = "addr" => shown[i].of[1] = shown[i + 1].of[1]
      /\ \A i \in 1..Len(shown) :
           shown[i].kind = "chars" => Len(shown[i].of) <= 16

LEMMA TwoAre ==
  ASSUME NEW width \in Widths, NEW len \in Nat, NEW words \in Nat, NEW first, NEW second,
         words = WordsOf(len, width),
         Dumped(8, words, width, first), Dumped(first.addr, words, width, second)
  PROVE  TwoShow(first, second, len, width)
<1> DEFINE t == words * width
           a == first.out
           b == second.out
           shown == a \o b
           total == second.addr - 8
           bytes == [i \in 1..total |-> i + 7]
<1>1. t \in Nat /\ len <= t /\ t < len + width /\ width \in Nat
  BY WordsAre, PlaceIs
<1>2. /\ first.addr = 8 + t /\ a \in Seq(Items) /\ Shaped(a)
      /\ Of(a, "word") = Stretch(8, t) /\ Of(a, "chars") = Stretch(8, t)
  BY DEF Dumped
<1>3. /\ second.addr = (8 + t) + t /\ b \in Seq(Items) /\ Shaped(b)
      /\ Of(b, "word") = Stretch(8 + t, t) /\ Of(b, "chars") = Stretch(8 + t, t)
  BY <1>2 DEF Dumped
<1> HIDE DEF t, a, b
<1>4. total = t + t /\ 2 * len <= total /\ total < 2 * (len + width)
  BY <1>1, <1>3
<1>5. Stretch(8, t) \o Stretch(8 + t, t) = Stretch(8, t + t)
  <2>1. 8 \in Int /\ t \in Nat
    BY <1>1
  <2> QED BY <2>1, StretchJoined
<1>6. bytes = Stretch(8, t + t)
  <2>1. \A i \in 1..(t + t) : i + 7 = 8 + i - 1
    BY <1>1
  <2>2. Stretch(8, t + t) = [i \in 1..(t + t) |-> i + 7]
    BY <2>1 DEF Stretch
  <2> HIDE DEF total
  <2> QED BY <1>4, <2>2
<1>7. \A kind : Of(shown, kind) = Of(a, kind) \o Of(b, kind)
  <2>1. a \in Seq(Items) /\ b \in Seq(Items)
    BY <1>2, <1>3
  <2> QED BY <2>1, OfJoined
<1> HIDE DEF bytes, total
<1>8. Of(shown, "word") = bytes /\ Of(shown, "chars") = bytes
  BY <1>2, <1>3, <1>5, <1>6, <1>7
<1>9. shown \in Seq(Items) /\ Shaped(shown)
  BY <1>2, <1>3, ShapedJoined
<1> HIDE DEF shown
<1>10. \A i \in 1..(Len(shown) - 1) : shown[i].kind = "addr" => shown[i].of[1] = shown[i + 1].of[1]
  <2>1. \A i \in 1..(Len(shown) - 1) : i \in 1..Len(shown)
    BY <1>9
  <2> QED BY <1>9, <2>1 DEF Shaped
<1>11. \A i \in 1..Len(shown) : shown[i].kind = "chars" => Len(shown[i].of) <= 16
  BY <1>9, SMTT(30) DEF Shaped
<1> QED BY <1>4, <1>8, <1>10, <1>11 DEF TwoShow, shown, total, bytes, a, b

\* What PrintedIsRead says of dumps holds of any length.
LEMMA DumpsAreRead == DumpsRead
<1> DEFINE top == 2 * MaxDump + 16
           mem == [a \in 0..top |-> a]
<1>1. ASSUME NEW width \in {1, 2, 4}, NEW len \in 0..MaxDump
      PROVE  LET first == Dump(mem, 8, len, width)
             IN  TwoShow(first, Dump(mem, first.addr, len, width), len, width)
  <2> DEFINE first == Dump(mem, 8, len, width)
             second == Dump(mem, first.addr, len, width)
             words == WordsOf(len, width)
             t == words * width
  <2>1. /\ MaxDump \in Nat /\ len \in Nat /\ len <= MaxDump /\ top = 2 * MaxDump + 16 /\ top \in Nat
        /\ width \in Widths /\ width <= 4
    BY ShellAssumption DEF Widths
  <2>2. words \in Nat /\ t \in Nat /\ t < len + width
    BY <2>1, WordsAre
  <2>3. mem = Own(top)
    BY DEF Own
  <2> HIDE DEF top, t
  <2>4. 8 \in Nat /\ 8 + t <= top + 1 /\ 8 + t \in Nat /\ (8 + t) + t <= top + 1
    BY <2>1, <2>2 DEF Widths
  <2>5. Dumped(8, words, width, first)
    <3>1. 8 + (WordsOf(len, width) * width) <= top + 1
      BY <2>4 DEF t
    <3>2. Dumped(8, WordsOf(len, width), width, Dump(Own(top), 8, len, width))
      BY <2>1, <2>4, <3>1, DumpShows
    <3> QED BY <2>3, <3>2
  <2>6. first.addr = 8 + t
    BY <2>5 DEF Dumped, t
  <2>7. Dumped(first.addr, words, width, second)
    <3>1. (8 + t) + (WordsOf(len, width) * width) <= top + 1
      BY <2>4 DEF t
    <3>2. Dumped(8 + t, WordsOf(len, width), width, Dump(Own(top), 8 + t, len, width))
      BY <2>1, <2>4, <3>1, DumpShows
    <3> QED BY <2>3, <2>6, <3>2
  <2> HIDE DEF first, second
  <2>8. TwoShow(first, second, len, width)
    BY <2>1, <2>2, <2>5, <2>7, TwoAre
  <2> QED BY <2>8 DEF first, second
<1> QED BY <1>1 DEF DumpsRead, TwoShow

\* arg_base is 10 or 16 (simple_shell).
LEMMA BasesStep == Spec => [](arg_base \in {10, 16})
<1>1. Init => arg_base \in {10, 16}
  BY DEF Init
<1>2. arg_base \in {10, 16} /\ [Next]_vars => (arg_base \in {10, 16})'
  <2> SUFFICES ASSUME arg_base \in {10, 16}, [Next]_vars
               PROVE  arg_base' \in {10, 16}
    OBVIOUS
  <2>1. CASE UNCHANGED vars
    BY <2>1 DEF vars, shellVars
  <2>2. CASE Prompt
    BY <2>2 DEF Prompt
  <2>3. CASE Key
    BY <2>3 DEF Key, Enter, Backspace, Control, Escape, Bracket, Unknown, Letter, Recall, Read
  <2>4. CASE Command
    BY <2>4 DEF Command, BaseAfter
  <2>5. CASE \E a \in Printers \ {Console} : OtherPrints(a)
    BY <2>5 DEF OtherPrints, shellVars
  <2>6. CASE \E a \in Printers : PrintkStep(a) /\ UNCHANGED <<shellVars, bounds>>
    BY <2>6 DEF shellVars
  <2> QED BY <2>1, <2>2, <2>3, <2>4, <2>5, <2>6 DEF Next
<1> QED BY <1>1, <1>2, PTL DEF Spec

\* Whatever itostr and vsnprintk show of a number, in a directive that printk takes
\* for one, str2hex reads as that number when it is typed in a command while
\* arg_base is its base, with a blank for the sign, alone or with others, or, in
\* any base, with all hexadecimal digits behind "0x"; and dump shows each byte of
\* its range once, behind the right address and as a character.  For any values in
\* a word, and for dumps of any length.
THEOREM PrintsAlwaysRead == Spec => []PrintedIsRead
<1>1. arg_base \in {10, 16} => PrintedIsRead
  <2>1. \A from \in {10, 16} : NumbersRead(from)
    BY NumbersAreRead
  <2> QED BY <2>1, DumpsAreRead DEF PrintedIsRead, BasesRead
<1> QED BY <1>1, BasesStep, PTL
=============================================================================
