--------------------------- MODULE SdDriverProofs ---------------------------
(***************************************************************************)
(* What holds of the SD card driver for any sizes and any start of its     *)
(* transfers, whenever the card answers.                                   *)
(***************************************************************************)
EXTENDS SdDriver, TLAPS

T == tokens[sd_sem]
D == deaf[sd_sem]

\* The signals that end a command.
Ends == {"CMDONE", "DTDONE", "TIMEOUT"}

\* The task waits for the card's answer to the command, or reads it.
Waiting == pc \in {"take", "taking"}
Open == pc \in {"take", "taking", "flags"}

TypeOK ==
  /\ inten \subseteq Ends \cup {"RESP"} /\ flags \subseteq Ends \cup {"RESP"}
  /\ cmd \in Int /\ dev \in {"idle", "busy", "done", "failed"}
  /\ words \in Nat /\ respp \in Nat
  /\ tokens \in [{sd_sem} -> {0, 1}] /\ deaf \in [{sd_sem} -> BOOLEAN]
  /\ taking \in [{Shell} -> {sd_sem, None}]
  /\ phase \in [{Shell} -> {"asked", "parked", "parkedTimed"}]
  /\ result \in [{Shell} -> {0, -1}]
  /\ pc \in {"idle", "start", "issue", "take", "taking", "flags", "clear", "end", "ret"}
  /\ seenFlags \subseteq Ends \cup {"RESP"} /\ retv \in {0, -1, 4}
  /\ op \in {"none", "identify", "read", "write"} /\ step \in Nat
  /\ start \in Nat /\ size \in Nat /\ buf \in Nat /\ count \in Nat /\ total \in Nat
  /\ dma \in Nat /\ inited \in BOOLEAN

\* The task is inside a take exactly while it is at the take's pc.
TakeHere == taking[Shell] = IF pc = "taking" THEN sd_sem ELSE None

\* An interrupt that is still enabled has not given the semaphore; outside the
\* take there is no token, and what an interrupt still gives is lost.
Handshake ==
  /\ inten # {} => T = 0
  /\ ~Waiting => T = 0 /\ (inten # {} => D)

\* A token that the task has, or can have, was given for the end of the command
\* that runs.
AnswerHere ==
  /\ Waiting /\ T = 1 => flags \cap Ends # {}
  /\ pc = "flags" /\ result[Shell] = 0 => flags \cap Ends # {}
  /\ pc \in {"flags", "clear", "end"} /\ result[Shell] = 0 => inten = {}
  /\ Open =>
       /\ flags \cap {"CMDONE", "DTDONE"} # {} => dev = "done"
       /\ "TIMEOUT" \in flags <=> dev = "failed"
       /\ dev # "idle"
  /\ pc = "clear" /\ result[Shell] = 0 => dev \in {"done", "failed"}

\* The words of a long response are still to come, announced, or counted.
WordsCounted ==
  /\ cmd \in Long /\ Open /\ dev \in {"busy", "done"} =>
       respp + words + (IF "RESP" \in flags THEN 1 ELSE 0) = RespWords
  /\ pc \in {"take", "taking", "flags", "clear", "end"} /\ dev = "done" =>
       words = 0 /\ "RESP" \notin flags
  /\ pc \in {"idle", "start", "issue", "ret"} => dev = "idle"

\* A word of an earlier command is not counted for a long command: those are
\* sent behind commands whose words are all there, or that have none, as the
\* first command of an identification.
NoOldWords ==
  /\ pc \in {"take", "taking", "flags", "clear", "end", "ret"} /\ "RESP" \in inten => ~Ignored
  /\ pc = "ret" /\ retv = 0 => inten = {}
  /\ pc \in {"start", "issue"} /\ op = "identify" /\ step # 1 => "RESP" \notin inten
  /\ pc = "issue" /\ op = "identify" /\ step # 1 => respp = 0

\* The task is at a command of its script, or has none.
StepInside ==
  /\ pc = "idle" <=> op = "none"
  /\ op # "none" => step \in 1..Len(Script)

\* What relates the signals, the words and the tokens.
Rest == TakeHere /\ Handshake /\ AnswerHere /\ WordsCounted /\ NoOldWords /\ OwnAnswer

\* The inductive invariant.
SdInv == TypeOK /\ StepInside /\ Rest

\* The part of a transfer is where the request is.
PartsInv ==
  op \in {"read", "write"} =>
    /\ count = PartCount(op, size) /\ size > 0
    /\ start + size = Lba + total /\ Lba <= start /\ buf = start - Lba

\* The task is behind the data command of its part, which has succeeded.
DataDone ==
  \/ cmd \in Data /\ dev = "done"
  \/ pc = "ret" /\ retv = 0 /\ Script[step] \in Data
  \/ \E k \in 1..(step - 1) : k <= Len(Script) /\ Script[k] \in Data

\* The sectors of earlier parts are carried or known to be missing, and so are
\* those of this part once its data command has succeeded.
MovedInv ==
  /\ pc \in {"take", "taking", "flags", "clear", "end"} => cmd = Script[step]
  /\ pc \in {"idle", "start", "issue", "ret"} => cmd = NoCmd
  /\ cmd \in Data => op \in {"read", "write"} /\ dma = DmaWords(count)
  /\ op \in {"read", "write"} /\ DmaSuffices =>
       /\ \A i \in 0..(buf - 1) : <<Lba + i, i>> \in moved \/ i \in spoilt
       /\ DataDone => \A i \in 0..(count - 1) : <<start + i, buf + i>> \in moved
-----------------------------------------------------------------------------
(* The scripts: their commands are numbers, and the ignored ones are short. *)

LEMMA ScriptIs ==
  /\ op = "identify" => Script = <<0, 0, 8, 55, 41, 2, 3, 9, 7, 16, 55, 6, 13>>
  /\ op = "read" => Script = IF count = 1 THEN <<17>> ELSE <<18, 12>>
  /\ op = "write" => Script = IF count = 1 THEN <<24>> ELSE <<55, 23, 25, 12>>
<1>1. /\ "identify" # "read" /\ "identify" # "write" /\ "read" # "write"
  OBVIOUS
<1> QED BY <1>1, Zenon DEF Script

LEMMA ScriptCommands ==
  ASSUME op \in {"identify", "read", "write"}
  PROVE  /\ Len(Script) \in 1..13 
         /\ op = "identify" => Len(Script) = 13
         /\ step \in 1..Len(Script) =>
              /\ Script[step] \in Nat
              /\ Ignored \/ op \in {"read", "write"} => Script[step] \notin Long
<1>1. CASE op = "identify"
  <2>1. Len(Script) = 13
    BY <1>1, ScriptIs
  <2>2. ASSUME step \in 1..13
        PROVE  Script[step] \in Nat /\ (Ignored => Script[step] \notin Long)
    BY <1>1, <2>2, ScriptIs DEF Ignored, Long
  <2> QED BY <1>1, <2>1, <2>2
<1>2. CASE op = "read"
  BY <1>2, ScriptIs DEF Ignored, Long
<1>3. CASE op = "write"
  BY <1>3, ScriptIs DEF Ignored, Long
<1> QED BY <1>1, <1>2, <1>3
-----------------------------------------------------------------------------
(* Types                                                                   *)

LEMMA TypeInit == Init => TypeOK
<1> SUFFICES ASSUME Init PROVE TypeOK
  OBVIOUS
<1>1. /\ tokens = [s \in {sd_sem} |-> 0] /\ deaf = [s \in {sd_sem} |-> FALSE]
      /\ taking = [t \in {Shell} |-> None] /\ phase = [t \in {Shell} |-> "asked"]
      /\ result = [t \in {Shell} |-> 0]
  BY DEF Init, Sem!Init
<1>2. /\ tokens \in [{sd_sem} -> {0, 1}] /\ deaf \in [{sd_sem} -> BOOLEAN]
      /\ taking \in [{Shell} -> {sd_sem, None}]
      /\ phase \in [{Shell} -> {"asked", "parked", "parkedTimed"}]
      /\ result \in [{Shell} -> {0, -1}]
  BY <1>1
<1>3. /\ inten = {} /\ flags = {} /\ cmd = -1 /\ dev = "idle" /\ words = 0 /\ dma = 0 /\ respp = 0
      /\ pc = "idle" /\ seenFlags = {} /\ retv = 0 /\ op = "none" /\ step = 0
      /\ start = Lba /\ size = 0 /\ buf = 0 /\ count = 0 /\ total = 0 /\ inited = FALSE
  BY DEF Init, NoCmd
<1>4. inited \in BOOLEAN
  BY <1>3, Zenon
<1> QED BY <1>2, <1>3, <1>4, SdAssumption, SMT DEF TypeOK

LEMMA PartCountNat ==
  ASSUME NEW what, NEW rest \in Nat
  PROVE  PartCount(what, rest) \in Nat
BY DEF PartCount, Chunk

LEMMA TypeStep ==
  ASSUME TypeOK, Handshake, StepInside, [Next]_vars
  PROVE  TypeOK'
<1> USE DEF TypeOK, semVars, regs, partVars, others, ghosts, Ends
<1>1. CASE DevWord
  BY <1>1 DEF DevWord
<1>2. CASE DevDone
  BY <1>2 DEF DevDone
<1>3. CASE DevTimeout
  BY <1>3 DEF DevTimeout
<1>4. CASE Irq
  <2>1. flags' \subseteq flags /\ respp' \in Nat
    BY <1>4 DEF Irq
  <2>2. UNCHANGED <<cmd, dev, words, dma, pc, seenFlags, retv, op, step, partVars, others>>
    BY <1>4 DEF Irq
  <2>3. CASE UNCHANGED <<inten, semVars>>
    BY <2>1, <2>2, <2>3
  <2>4. CASE inten' = {} /\ GiveSem
    <3>1. T = 0
      BY <1>4 DEF Irq, Raised, Handshake
    <3>2. CASE Sem!Give(sd_sem)
      BY <2>1, <2>2, <2>4, <3>1, <3>2 DEF Sem!Give, T
    <3>3. CASE Sem!LostGive(sd_sem)
      BY <2>1, <2>2, <2>4, <3>1, <3>3 DEF Sem!LostGive, T
    <3> QED BY <2>4, <3>2, <3>3 DEF GiveSem
  <2> QED BY <1>4, <2>3, <2>4 DEF Irq
<1>5. CASE CmdStart
  BY <1>5 DEF CmdStart
<1>6. CASE CmdIssue
  <2>1. Script[step] \in Nat
    BY <1>6, ScriptCommands DEF CmdIssue, StepInside
  <2>3. DmaWords(count) \in Nat
    BY DEF DmaWords, SectorWords, DmaField
  <2>2. words' \in Nat /\ inten' \subseteq Ends \cup {"RESP"} /\ dma' \in Nat
    BY <1>6, <2>3 DEF CmdIssue, RespWords, Wants
  <2> QED BY <1>6, <2>1, <2>2 DEF CmdIssue
<1>7. CASE CmdTake
  BY <1>7 DEF CmdTake, Sem!Ask
<1>8. CASE CmdPark
  BY <1>8 DEF CmdPark, Sem!Park
<1>9. CASE CmdTaken
  <2> SUFFICES ASSUME UNCHANGED <<regs, respp, seenFlags, retv, op, step, partVars, others>>, pc' = "flags"
               PROVE  TypeOK'
    BY <1>9 DEF CmdTaken
  <2>1. CASE Sem!Succeed(Shell, sd_sem)
    BY <2>1 DEF Sem!Succeed
  <2>2. CASE Sem!TimeOut(Shell, sd_sem)
    BY <2>2 DEF Sem!TimeOut
  <2> QED BY <1>9, <2>1, <2>2 DEF CmdTaken
<1>10. CASE CmdFlags
  BY <1>10 DEF CmdFlags
<1>11. CASE CmdClear
  BY <1>11 DEF CmdClear
<1>12. CASE CmdEnd
  BY <1>12 DEF CmdEnd, NoCmd
<1>13. CASE NextCommand
  BY <1>13 DEF NextCommand, GoOn
<1>14. CASE AskAgain
  BY <1>14 DEF AskAgain, GoOn, AcmdReady
<1>15. CASE IdentifyEnds
  BY <1>15 DEF IdentifyEnds, Finish
<1>16. CASE SectorsEnd
  BY <1>16 DEF SectorsEnd, Finish
<1>17. CASE NextPart
  <2>1. size - Chunk \in Nat /\ start + Chunk \in Nat /\ buf + Chunk \in Nat
    BY <1>17 DEF NextPart, Chunk
  <2>2. PartCount(op, size - Chunk) \in Nat
    BY <2>1, PartCountNat
  <2> QED BY <1>17, <2>1, <2>2 DEF NextPart
<1>18. CASE SdInit \/ SdTest
  <2>1. op' \in {"none", "identify", "read", "write"} /\ step' \in Nat
        /\ pc' \in {"idle", "start", "issue", "take", "taking", "flags", "clear", "end", "ret"}
        /\ UNCHANGED <<cmd, dev, words, dma, respp, taking, phase, result, seenFlags, retv, partVars>>
    BY <1>18 DEF SdInit, SdTest, IdentifyCard
  <2>2. /\ inten' \in {inten, {}} /\ flags' \in {flags, {}} /\ inited' \in BOOLEAN
        /\ tokens' \in [{sd_sem} -> {0, 1}] /\ deaf' \in [{sd_sem} -> BOOLEAN]
    BY <1>18 DEF SdInit, SdTest, Reset
  <2> QED BY <2>1, <2>2
<1>19. ASSUME NEW what \in {"read", "write"}, NEW n \in Sizes, Begin(what, n)
       PROVE  TypeOK'
  BY <1>19, SdAssumption, PartCountNat DEF Begin
<1>20. CASE UNCHANGED vars
  BY <1>20 DEF vars
<1> QED
  BY <1>1, <1>2, <1>3, <1>4, <1>5, <1>6, <1>7, <1>8, <1>9, <1>10, <1>11, <1>12, <1>13,
     <1>14, <1>15, <1>16, <1>17, <1>18, <1>19, <1>20
  DEF Next, DevNext, CmdNext, CallerNext
-----------------------------------------------------------------------------
(* The task and its script                                                 *)

\* The lengths of the scripts.
ScriptFits ==
  /\ op \in {"identify", "read", "write"} => Len(Script) \in 1..13
  /\ op = "identify" => Len(Script) = 13

LEMMA ScriptFitsNow == ScriptFits
BY ScriptCommands DEF ScriptFits

LEMMA ScriptFitsNext == ScriptFits'
BY ScriptFitsNow, PTL

LEMMA ScriptStays ==
  ASSUME UNCHANGED <<op, count>>
  PROVE  Script' = Script
BY Zenon DEF Script

LEMMA InsideStep ==
  ASSUME TypeOK, TypeOK', StepInside, [Next]_vars
  PROVE  StepInside'
<1> USE DEF StepInside, partVars, others, ghosts
<1>1. CASE UNCHANGED <<pc, op, step, count>>
  BY <1>1, ScriptStays
<1>2. CASE pc # "idle" /\ pc' # "idle" /\ UNCHANGED <<op, step, count>>
  BY <1>2, ScriptStays
<1>3. CASE NextCommand
  BY <1>3, ScriptStays, ScriptFitsNow DEF NextCommand, GoOn, ScriptFits, TypeOK
<1>4. CASE AskAgain
  <2>1. Script' = Script /\ Len(Script) = 13 /\ step' = 4 /\ op' # "none" /\ pc' # "idle"
    BY <1>4, ScriptStays, ScriptFitsNow DEF AskAgain, GoOn, ScriptFits, AcmdReady
  <2> QED BY <2>1
<1>5. CASE op' = "none" /\ pc' = "idle"
  BY <1>5
<1>6. CASE op' # "none" /\ pc' # "idle" /\ step' = 1
  <2>1. op' \in {"identify", "read", "write"}
    BY <1>6 DEF TypeOK
  <2>2. Len(Script') \in 1..13
    BY <2>1, ScriptFitsNext DEF ScriptFits
  <2>3. ASSUME NEW n \in 1..13 PROVE 1 \in 1..n
    OBVIOUS
  <2>4. step' \in 1..Len(Script')
    BY <1>6, <2>2, <2>3
  <2> QED BY <1>6, <2>4
<1>7. CASE DevNext
  BY <1>1, <1>7 DEF DevNext, DevWord, DevDone, DevTimeout
<1>8. CASE Irq
  BY <1>1, <1>8 DEF Irq
<1>9. CASE CmdNext
  BY <1>2, <1>9 DEF CmdNext, CmdStart, CmdIssue, CmdTake, CmdPark, CmdTaken, CmdFlags, CmdClear, CmdEnd
<1>10. CASE IdentifyEnds \/ SectorsEnd
  BY <1>5, <1>10 DEF IdentifyEnds, SectorsEnd, Finish
<1>11. CASE NextPart
  BY <1>6, <1>11 DEF NextPart, BlocksDone
<1>12. CASE SdInit \/ SdTest
  BY <1>1, <1>6, <1>12 DEF SdInit, SdTest, IdentifyCard
<1>13. ASSUME NEW what \in {"read", "write"}, NEW n \in Sizes, Begin(what, n)
       PROVE  StepInside'
  BY <1>6, <1>13 DEF Begin
<1>14. CASE UNCHANGED vars
  BY <1>1, <1>14 DEF vars
<1> QED
  BY <1>3, <1>4, <1>7, <1>8, <1>9, <1>10, <1>11, <1>12, <1>13, <1>14 DEF Next, CallerNext
-----------------------------------------------------------------------------
(* Signals, words and tokens                                               *)

LEMMA AnswerStep ==
  ASSUME SdInv, TypeOK', [Next]_vars
  PROVE  Rest'
<1> USE DEF SdInv, Rest, TypeOK, TakeHere, Handshake, AnswerHere, WordsCounted, NoOldWords, OwnAnswer,
            semVars, regs, partVars, others, ghosts, Ends, T, D, Waiting, Open, Ignored, RespWords
<1>1. CASE DevWord
  BY <1>1 DEF DevWord
<1>2. CASE DevDone
  BY <1>2 DEF DevDone
<1>3. CASE DevTimeout
  BY <1>3 DEF DevTimeout
<1>4. CASE Irq
  <2>1. UNCHANGED <<cmd, dev, words, dma, pc, seenFlags, retv, op, step, partVars, others>>
    BY <1>4 DEF Irq
  <2>2. Raised # {} /\ T = 0 /\ (~Waiting => D) /\ ~(pc \in {"flags", "clear", "end"} /\ result[Shell] = 0)
    BY <1>4 DEF Irq, Raised
  <2>3. CASE UNCHANGED <<inten, semVars>> /\ Raised = {"RESP"}
    <3>1. respp' = respp + 1 /\ flags' = flags \ {"RESP"} /\ "RESP" \in flags /\ "RESP" \in inten
      BY <1>4, <2>3 DEF Irq, Raised
    <3> QED BY <2>1, <2>2, <2>3, <3>1
  <2>4. CASE inten' = {} /\ GiveSem /\ Raised \cap Ends # {}
    <3>1. UNCHANGED <<taking, phase, result>>
      BY <2>4 DEF GiveSem, Sem!Give, Sem!LostGive
    <3>2. T' \in {0, 1} /\ (T' = 1 => ~D) /\ (~Waiting => T' = 0)
      BY <2>2, <2>4 DEF GiveSem, Sem!Give, Sem!LostGive
    <3>3. CASE "RESP" \in Raised
      <4>1. respp' = respp + 1 /\ flags' = flags \ {"RESP"} /\ "RESP" \in flags /\ "RESP" \in inten
        BY <1>4, <3>3 DEF Irq, Raised
      <4> QED BY <2>1, <2>2, <2>4, <3>1, <3>2, <4>1 DEF Raised
    <3>4. CASE "RESP" \notin Raised
      <4>1. UNCHANGED <<respp, flags>>
        BY <1>4, <3>4 DEF Irq, Raised
      <4> QED BY <2>1, <2>2, <2>4, <3>1, <3>2, <4>1 DEF Raised
    <3> QED BY <3>3, <3>4
  <2> QED BY <1>4, <2>3, <2>4 DEF Irq, Raised
<1>5. CASE CmdStart
  BY <1>5 DEF CmdStart, StepInside
<1>6. CASE CmdIssue
  <2> DEFINE c == Script[step]
  <2>1. pc = "issue" /\ pc' = "take" /\ flags' = {} /\ inten' = Wants(c) /\ cmd' = c /\ dev' = "busy"
    BY <1>6 DEF CmdIssue
  <2>2. words' = IF c \in Long THEN 5 ELSE 0
    BY <1>6 DEF CmdIssue
  <2>3. UNCHANGED <<respp, semVars, seenFlags, retv, op, step, partVars, others>>
    BY <1>6 DEF CmdIssue
  <2>4. Ignored \/ op \in {"read", "write"} => c \notin Long
    BY <2>1, ScriptCommands DEF StepInside
  <2>5. "RESP" \in Wants(c) => c \in Long
    BY DEF Wants
  <2>6. T = 0
    BY <2>1
  <2> QED BY <2>1, <2>2, <2>3, <2>4, <2>5, <2>6 DEF StepInside
<1>7. CASE CmdTake
  BY <1>7 DEF CmdTake, Sem!Ask
<1>8. CASE CmdPark
  BY <1>8 DEF CmdPark, Sem!Park
<1>9. CASE CmdTaken
  <2> SUFFICES ASSUME UNCHANGED <<regs, respp, seenFlags, retv, op, step, partVars, others>>, pc = "taking", pc' = "flags"
               PROVE  Rest'
    BY <1>9 DEF CmdTaken
  <2>1. CASE Sem!Succeed(Shell, sd_sem)
    BY <2>1 DEF Sem!Succeed
  <2>2. CASE Sem!TimeOut(Shell, sd_sem)
    BY <2>2 DEF Sem!TimeOut
  <2> QED BY <1>9, <2>1, <2>2 DEF CmdTaken
<1>10. CASE CmdFlags
  BY <1>10 DEF CmdFlags
<1>11. CASE CmdClear
  BY <1>11 DEF CmdClear
<1>12. CASE CmdEnd
  BY <1>12 DEF CmdEnd, NoCmd
<1>13. CASE NextCommand
  BY <1>13 DEF NextCommand, GoOn, Succeeded
<1>14. CASE AskAgain
  BY <1>14 DEF AskAgain, GoOn, AcmdReady
<1>15. CASE IdentifyEnds
  BY <1>15 DEF IdentifyEnds, Finish
<1>16. CASE SectorsEnd
  BY <1>16 DEF SectorsEnd, Finish, BlocksDone
<1>17. CASE NextPart
  BY <1>17 DEF NextPart, BlocksDone
<1>18. CASE SdInit \/ SdTest
  <2>1. pc = "idle" /\ UNCHANGED <<cmd, dev, words, respp, taking, phase, result, seenFlags, retv>>
        /\ \/ pc' = "start" /\ op' = "identify" /\ step' = 1
           \/ UNCHANGED <<op, step, pc>>
    BY <1>18 DEF SdInit, SdTest, IdentifyCard
  <2>2. \/ inten' = {} /\ flags' = {} /\ T' = 0
        \/ UNCHANGED <<inten, flags, tokens, deaf>>
    BY <1>18 DEF SdInit, SdTest, Reset
  <2> QED BY <2>1, <2>2 DEF StepInside
<1>19. ASSUME NEW what \in {"read", "write"}, NEW n \in Sizes, Begin(what, n)
       PROVE  Rest'
  BY <1>19 DEF Begin
<1>20. CASE UNCHANGED vars
  BY <1>20 DEF vars
<1> QED
  BY <1>1, <1>2, <1>3, <1>4, <1>5, <1>6, <1>7, <1>8, <1>9, <1>10, <1>11, <1>12, <1>13,
     <1>14, <1>15, <1>16, <1>17, <1>18, <1>19, <1>20
  DEF Next, DevNext, CmdNext, CallerNext
-----------------------------------------------------------------------------
(* Theorems                                                                *)

LEMMA InvInit == Init => SdInv
BY TypeInit, SdAssumption
DEF Init, SdInv, StepInside, Rest, TakeHere, Handshake, AnswerHere, WordsCounted, NoOldWords,
    OwnAnswer, Sem!Init, T, D, Waiting, Open, NoCmd, Long

LEMMA InvStep == SdInv /\ [Next]_vars => SdInv'
<1> SUFFICES ASSUME SdInv, [Next]_vars PROVE SdInv'
  OBVIOUS
<1>1. TypeOK'
  BY TypeStep DEF SdInv, Rest
<1>2. StepInside'
  BY <1>1, InsideStep DEF SdInv
<1>3. Rest'
  BY <1>1, AnswerStep
<1> QED BY <1>1, <1>2, <1>3 DEF SdInv

\* Every variable of the driver keeps its type; the semaphore never holds more
\* than one token (sd_cmd, sd_irq).
THEOREM TypeCorrect == Spec => []TypeOK
<1>1. SdInv => TypeOK
  BY DEF SdInv
<1> QED BY <1>1, InvInit, InvStep, PTL DEF Spec

\* A command that returns 0 was completed by the card itself, with all words of
\* its response, whatever was answered late or never (sd_cmd, sd_irq).
THEOREM AnswersAlwaysOwn == Spec => []OwnAnswer
<1>1. SdInv => OwnAnswer
  BY DEF SdInv, Rest
<1> QED BY <1>1, InvInit, InvStep, PTL DEF Spec

\* When a command begins no token of an earlier one is left (sd_cmd, sd_irq).
THEOREM TokensNeverLeft == Spec => []NoTokenLeft
<1>1. SdInv => NoTokenLeft
  BY DEF SdInv, Rest, Handshake, NoTokenLeft, T, Waiting
<1> QED BY <1>1, InvInit, InvStep, PTL DEF Spec
-----------------------------------------------------------------------------
(* The parts of a transfer                                                 *)

LEMMA PartsInit == Init => PartsInv
BY DEF Init, PartsInv

LEMMA PartCountFits ==
  ASSUME NEW what, NEW rest \in Nat
  PROVE  /\ PartCount(what, rest) \in Nat /\ PartCount(what, rest) <= rest
         /\ rest > Chunk => PartCount(what, rest) >= Chunk
         /\ rest <= Chunk => PartCount(what, rest) = rest
BY DEF PartCount, Chunk

LEMMA PartsStep ==
  ASSUME TypeOK, TypeOK', StepInside, PartsInv, [Next]_vars
  PROVE  PartsInv'
<1> USE DEF PartsInv, partVars, others, ghosts
<1>1. CASE UNCHANGED <<op, partVars>>
  BY <1>1 DEF PartCount
<1>2. CASE op' \in {"none", "identify"}
  BY <1>2
<1>3. CASE NextPart
  <2>1. UNCHANGED <<op, total>> /\ size > 16 /\ op \in {"read", "write"}
    BY <1>3 DEF NextPart, BlocksDone, Chunk
  <2>2. start' = start + 16 /\ size' = size - 16 /\ buf' = buf + 16 /\ count' = PartCount(op, size')
    BY <1>3 DEF NextPart, Chunk
  <2> QED BY <2>1, <2>2, SdAssumption DEF TypeOK, PartCount
<1>4. ASSUME NEW what \in {"read", "write"}, NEW n \in Sizes, Begin(what, n)
      PROVE  PartsInv'
  BY <1>4, SdAssumption DEF Begin, PartCount
<1> QED
  <2>1. CASE DevNext
    BY <1>1, <2>1 DEF DevNext, DevWord, DevDone, DevTimeout
  <2>2. CASE Irq
    BY <1>1, <2>2 DEF Irq
  <2>3. CASE CmdNext
    BY <1>1, <2>3 DEF CmdNext, CmdStart, CmdIssue, CmdTake, CmdPark, CmdTaken, CmdFlags, CmdClear, CmdEnd
  <2>4. CASE NextCommand \/ AskAgain
    BY <1>1, <2>4 DEF NextCommand, AskAgain, GoOn
  <2>5. CASE IdentifyEnds \/ SectorsEnd
    BY <1>2, <2>5 DEF IdentifyEnds, SectorsEnd, Finish
  <2>6. CASE SdInit \/ SdTest
    BY <1>1, <1>2, <2>6 DEF SdInit, SdTest, IdentifyCard
  <2>7. CASE UNCHANGED vars
    BY <1>1, <2>7 DEF vars
  <2> QED BY <1>3, <1>4, <2>1, <2>2, <2>3, <2>4, <2>5, <2>6, <2>7 DEF Next, CallerNext

\* What the parts of a transfer need besides SdInv.
TransferInv == PartsInv /\ MovedInv

LEMMA DmaCarriesAll ==
  ASSUME NEW n \in Nat, n * SectorWords < DmaField
  PROVE  DmaWords(n) = n * SectorWords
<1> DEFINE w == n * 128
<1>1. w \in Nat /\ w < 4096
  BY DEF SectorWords, DmaField
<1>2. ASSUME NEW x \in Nat, x < 4096 PROVE x % 4096 = x
  BY <1>2
<1> HIDE DEF w
<1>3. w % 4096 = w
  BY <1>1, <1>2
<1> QED BY <1>3 DEF w, DmaWords, SectorWords, DmaField

\* Where a transfer is in its script.
LEMMA DataPlace ==
  ASSUME op \in {"read", "write"}, step \in 1..Len(Script)
  PROVE  /\ step = Len(Script) =>
              \/ Script[step] \in Data
              \/ \E k \in 1..(step - 1) : k <= Len(Script) /\ Script[k] \in Data
<1>1. CASE op = "read"
  BY <1>1, ScriptIs DEF Data
<1>2. CASE op = "write"
  BY <1>2, ScriptIs DEF Data
<1> QED BY <1>1, <1>2

\* The data command of a part carries all of it, when the DMA suffices.
LEMMA CarriedAll ==
  ASSUME TypeOK, PartsInv, op \in {"read", "write"}, DmaSuffices, dma = DmaWords(count)
  PROVE  \A i \in 0..(count - 1) : <<start + i, buf + i>> \in Carried
<1>1. count \in Nat /\ size \in Nat /\ total \in Nat /\ start \in Nat /\ Lba \in Nat
  BY SdAssumption DEF TypeOK
<1>2. count * 128 < 4096
  <2>1. CASE op = "read"
    BY <1>1, <2>1 DEF PartsInv, PartCount, Chunk
  <2>2. CASE op = "write"
    <3>1. count <= total
      BY <1>1, <2>2 DEF PartsInv, PartCount, Chunk
    <3>2. total * 128 < 4096
      BY <2>2 DEF DmaSuffices, SectorWords, DmaField
    <3> QED BY <1>1, <3>1, <3>2
  <2> QED BY <2>1, <2>2
<1>3. dma = count * 128
  BY <1>1, <1>2, DmaCarriesAll DEF SectorWords, DmaField
<1>4. ASSUME NEW i \in 0..(count - 1) PROVE (i + 1) * 128 <= dma
  BY <1>1, <1>3, <1>4
<1> QED BY <1>4 DEF Carried, SectorWords

LEMMA MovedInit == Init => MovedInv
BY DEF Init, MovedInv, NoCmd, Data

LEMMA NoDataInIdentify ==
  ASSUME op = "identify", step \in 1..Len(Script)
  PROVE  Script[step] \notin Data
<1>1. Len(Script) = 13
  BY ScriptIs
<1>2. step \in 1..13
  BY <1>1
<1>3. Script = <<0, 0, 8, 55, 41, 2, 3, 9, 7, 16, 55, 6, 13>>
  BY ScriptIs
<1>4. ASSUME NEW k \in 1..13
      PROVE  <<0, 0, 8, 55, 41, 2, 3, 9, 7, 16, 55, 6, 13>>[k] \notin {17, 18, 24, 25}
  BY <1>4, SMTT(30)
<1> QED BY <1>2, <1>3, <1>4, Zenon DEF Data

\* The steps that neither end a data command nor leave a part.
LEMMA MovedStays ==
  ASSUME MovedInv, UNCHANGED <<cmd, dma, op, step, partVars, ghosts>>, dev' = "done" => dev = "done",
         pc' \in {"take", "taking", "flags", "clear", "end"} => pc \in {"take", "taking", "flags", "clear", "end"},
         pc' \in {"idle", "start", "issue", "ret"} => pc \in {"idle", "start", "issue", "ret"},
         pc' = "ret" => pc = "ret" /\ retv' = retv
  PROVE  MovedInv'
<1>1. Script' = Script
  BY ScriptStays DEF partVars
<1>2. DataDone' => DataDone
  BY <1>1 DEF DataDone
<1>3. DmaSuffices' = DmaSuffices
  BY DEF DmaSuffices, partVars
<1> QED BY <1>1, <1>2, <1>3 DEF MovedInv, partVars, ghosts

LEMMA MovedDone ==
  ASSUME TypeOK, PartsInv, MovedInv, DevDone
  PROVE  MovedInv'
<1>1. /\ UNCHANGED <<cmd, dma, op, step, pc, retv, count, start, size, buf, total, spoilt>>
      /\ moved' = IF cmd \in Data THEN moved \cup Carried ELSE moved
  BY DEF DevDone, partVars
<1>2. Script' = Script /\ DmaSuffices' = DmaSuffices
  BY <1>1, ScriptStays DEF DmaSuffices
<1>3. ASSUME op \in {"read", "write"}, DmaSuffices, DataDone'
      PROVE  \A i \in 0..(count - 1) : <<start + i, buf + i>> \in moved'
  <2>1. CASE cmd \in Data
    BY <1>1, <1>3, <2>1, CarriedAll DEF MovedInv
  <2>2. CASE cmd \notin Data
    <3>1. DataDone
      BY <1>1, <1>2, <1>3, <2>2 DEF DataDone
    <3> QED BY <1>1, <1>3, <3>1 DEF MovedInv
  <2> QED BY <2>1, <2>2
<1>4. moved \subseteq moved'
  BY <1>1
<1>5. op \in {"read", "write"} /\ DmaSuffices =>
        \A i \in 0..(buf - 1) : <<Lba + i, i>> \in moved' \/ i \in spoilt
  BY <1>4 DEF MovedInv
<1>6. /\ pc \in {"take", "taking", "flags", "clear", "end"} => cmd = Script[step]
      /\ pc \in {"idle", "start", "issue", "ret"} => cmd = NoCmd
      /\ cmd \in Data => op \in {"read", "write"} /\ dma = DmaWords(count)
  BY DEF MovedInv
<1> QED BY <1>1, <1>2, <1>3, <1>5, <1>6 DEF MovedInv

LEMMA MovedIssue ==
  ASSUME TypeOK, StepInside, MovedInv, CmdIssue
  PROVE  MovedInv'
<1>1. /\ pc = "issue" /\ pc' = "take" /\ cmd' = Script[step] /\ dev' = "busy"
      /\ dma' = IF Script[step] \in Data THEN DmaWords(count) ELSE dma
      /\ UNCHANGED <<op, step, retv, count, start, size, buf, total, moved, spoilt>>
  BY DEF CmdIssue, partVars, others, ghosts
<1>2. Script' = Script /\ DmaSuffices' = DmaSuffices
  BY <1>1, ScriptStays DEF DmaSuffices
<1>3. DataDone' => DataDone
  BY <1>1, <1>2 DEF DataDone
<1>4. op # "none" /\ step \in 1..Len(Script)
  BY <1>1 DEF StepInside
<1>5. Script[step] \in Data => op \in {"read", "write"}
  BY <1>4, NoDataInIdentify DEF TypeOK
<1> QED BY <1>1, <1>2, <1>3, <1>5 DEF MovedInv

LEMMA MovedEnd ==
  ASSUME TypeOK, Rest, MovedInv, CmdEnd
  PROVE  MovedInv'
<1>1. /\ pc = "end" /\ pc' = "ret" /\ cmd' = NoCmd /\ dev' = "idle"
      /\ retv' = 0 => result[Shell] = 0 /\ "TIMEOUT" \notin seenFlags
      /\ UNCHANGED <<dma, op, step, count, start, size, buf, total, moved, spoilt>>
  BY DEF CmdEnd, partVars, others, ghosts
<1>2. Script' = Script /\ DmaSuffices' = DmaSuffices
  BY <1>1, ScriptStays DEF DmaSuffices
<1>3. retv' = 0 => dev = "done"
  BY <1>1 DEF Rest, OwnAnswer
<1>4. cmd = Script[step]
  BY <1>1 DEF MovedInv
<1>5. DataDone' => DataDone
  BY <1>1, <1>2, <1>3, <1>4 DEF DataDone
<1>6. cmd' \notin Data
  BY <1>1 DEF NoCmd, Data
<1> QED BY <1>1, <1>2, <1>5, <1>6 DEF MovedInv

LEMMA MovedCommand ==
  ASSUME TypeOK, StepInside, MovedInv, NextCommand
  PROVE  MovedInv'
<1>1. /\ pc = "ret" /\ pc' = "start" /\ step' = step + 1 /\ (retv = 0 \/ op = "identify")
      /\ UNCHANGED <<cmd, dev, dma, op, retv, count, start, size, buf, total, moved, spoilt>>
  BY DEF NextCommand, GoOn, Succeeded, Ignored, regs, partVars, others, ghosts
<1>2. Script' = Script /\ DmaSuffices' = DmaSuffices
  BY <1>1, ScriptStays DEF DmaSuffices
<1>3. cmd = NoCmd /\ cmd \notin Data
  BY <1>1 DEF MovedInv, NoCmd, Data
<1>4. ASSUME op \in {"read", "write"}, DataDone' PROVE DataDone
  <2>1. PICK k \in 1..step : k <= Len(Script) /\ Script[k] \in Data
    BY <1>1, <1>2, <1>3, <1>4 DEF DataDone, TypeOK
  <2>2. retv = 0
    BY <1>1, <1>4
  <2>3. k = step \/ k \in 1..(step - 1)
    BY <2>1 DEF TypeOK
  <2> QED BY <1>1, <2>1, <2>2, <2>3 DEF DataDone
<1> QED BY <1>1, <1>2, <1>3, <1>4 DEF MovedInv

\* A part whose script is done, and that has succeeded, is carried.
LEMMA PartDone ==
  ASSUME StepInside, MovedInv, BlocksDone, retv = 0, DmaSuffices
  PROVE  \A i \in 0..(count - 1) : <<start + i, buf + i>> \in moved
<1>1. pc = "ret" /\ op \in {"read", "write"} /\ step = Len(Script)
  BY DEF BlocksDone
<1>2. step \in 1..Len(Script)
  BY <1>1 DEF StepInside
<1>3. DataDone
  BY <1>1, <1>2, DataPlace DEF DataDone
<1> QED BY <1>1, <1>3 DEF MovedInv

LEMMA MovedPart ==
  ASSUME TypeOK, StepInside, PartsInv, MovedInv, NextPart
  PROVE  MovedInv'
<1>1. /\ BlocksDone /\ size > 16 /\ retv >= 0
      /\ start' = start + 16 /\ buf' = buf + 16 /\ step' = 1 /\ pc' = "start"
      /\ spoilt' = IF retv > 0 THEN spoilt \cup buf..(buf + 15) ELSE spoilt
      /\ UNCHANGED <<cmd, dev, dma, op, total, retv, moved>>
  <2>1. \A b \in Nat : b + Chunk - 1 = b + 15
    BY DEF Chunk
  <2> QED BY <2>1 DEF NextPart, Chunk, regs, TypeOK
<1>2. pc = "ret" /\ op \in {"read", "write"}
  BY <1>1 DEF BlocksDone
<1>3. cmd = NoCmd /\ cmd \notin Data
  BY <1>2 DEF MovedInv, NoCmd, Data
<1>4. ~DataDone'
  BY <1>1, <1>3 DEF DataDone
<1>5. DmaSuffices' = DmaSuffices
  BY <1>1 DEF DmaSuffices
<1>6. ASSUME DmaSuffices, NEW i \in 0..(buf + 15)
      PROVE  <<Lba + i, i>> \in moved \/ i \in spoilt'
  <2>1. buf \in Nat /\ start \in Nat /\ size \in Nat /\ Lba \in Nat
    BY SdAssumption DEF TypeOK
  <2>2. CASE i < buf
    <3>1. i \in 0..(buf - 1)
      BY <1>6, <2>1, <2>2
    <3>2. <<Lba + i, i>> \in moved \/ i \in spoilt
      BY <1>2, <1>6, <3>1 DEF MovedInv
    <3> QED BY <1>1, <3>2
  <2>3. CASE i >= buf /\ retv > 0
    BY <1>1, <1>6, <2>1, <2>3
  <2>4. CASE i >= buf /\ retv = 0
    <3>1. count >= 16
      BY <1>1, <1>2, PartCountFits DEF PartsInv, TypeOK, Chunk
    <3>2. i - buf \in 0..(count - 1)
      BY <1>6, <2>1, <2>4, <3>1 DEF TypeOK
    <3>3. <<start + (i - buf), buf + (i - buf)>> \in moved
      BY <1>1, <1>6, <2>4, <3>2, PartDone
    <3>4. start + (i - buf) = Lba + i /\ buf + (i - buf) = i
      BY <1>2, <2>1 DEF PartsInv
    <3> QED BY <3>3, <3>4
  <2> QED BY <1>1, <2>1, <2>2, <2>3, <2>4 DEF TypeOK
<1>7. \A b \in Nat : b + 16 - 1 = b + 15
  OBVIOUS
<1>8. buf' - 1 = buf + 15
  BY <1>1, <1>7 DEF TypeOK
<1> QED BY <1>1, <1>2, <1>3, <1>4, <1>5, <1>6, <1>8 DEF MovedInv

LEMMA MovedStep ==
  ASSUME SdInv, PartsInv, TypeOK', MovedInv, [Next]_vars
  PROVE  MovedInv'
<1> USE DEF SdInv
<1>1. CASE DevWord \/ DevTimeout
  BY <1>1, MovedStays DEF DevWord, DevTimeout, others
<1>2. CASE Irq
  BY <1>2, MovedStays DEF Irq, others
<1>3. CASE CmdStart \/ CmdTake \/ CmdPark \/ CmdTaken \/ CmdFlags \/ CmdClear
  BY <1>3, MovedStays DEF CmdStart, CmdTake, CmdPark, CmdTaken, CmdFlags, CmdClear, others, regs
<1>4. CASE op' \in {"none", "identify"} /\ pc' \in {"idle", "start"} /\ cmd' = NoCmd
  BY <1>4 DEF MovedInv, NoCmd, Data
<1>5. CASE AskAgain \/ IdentifyEnds \/ SectorsEnd
  <2>1. pc = "ret" /\ op' \in {"none", "identify"} /\ pc' \in {"idle", "start"} /\ cmd' = cmd
    BY <1>5 DEF AskAgain, GoOn, IdentifyEnds, SectorsEnd, BlocksDone, Finish, regs
  <2> QED BY <1>4, <2>1 DEF MovedInv
<1>6. CASE SdInit \/ SdTest
  <2>1. pc = "idle" /\ op' \in {op, "identify"} /\ pc' \in {"idle", "start"} /\ cmd' = cmd
    BY <1>6 DEF SdInit, SdTest, IdentifyCard
  <2> QED BY <1>4, <2>1 DEF MovedInv, StepInside
<1>7. ASSUME NEW what \in {"read", "write"}, NEW n \in Sizes, Begin(what, n)
      PROVE  MovedInv'
  <2>1. pc = "idle" /\ pc' = "start" /\ step' = 1 /\ buf' = 0 /\ cmd' = cmd
    BY <1>7 DEF Begin, regs
  <2>2. cmd' = NoCmd /\ cmd' \notin Data
    BY <2>1 DEF MovedInv, NoCmd, Data
  <2>3. ~DataDone'
    BY <2>1, <2>2 DEF DataDone
  <2> QED BY <2>1, <2>2, <2>3 DEF MovedInv
<1>8. CASE UNCHANGED vars
  BY <1>8, MovedStays DEF vars, partVars, ghosts
<1> QED
  BY <1>1, <1>2, <1>3, <1>5, <1>6, <1>7, <1>8, MovedDone, MovedIssue, MovedEnd, MovedCommand, MovedPart
  DEF Next, DevNext, CmdNext, CallerNext

LEMMA EndInside ==
  ASSUME NEW s \in Nat, NEW z \in Nat, NEW c \in Nat, NEW l \in Nat, NEW t \in Nat,
         c <= z, s + z = l + t
  PROVE  s + c <= l + t
OBVIOUS

\* What PartsCover says of a step.
PartsStepRight ==
  /\ PartInside'
  /\ op \in {"read", "write"} /\ op' = "none" /\ retv = 0 /\ DmaSuffices =>
       \A i \in 0..(total - 1) : <<Lba + i, i>> \in moved \/ i \in spoilt

LEMMA InsideRight ==
  ASSUME TypeOK, PartsInv
  PROVE  PartInside
<1> SUFFICES ASSUME op \in {"read", "write"} PROVE PartInside
  BY DEF PartInside
<1>1. count <= size
  BY DEF PartsInv, TypeOK, PartCount, Chunk
<1>2. start + size = Lba + total /\ Lba <= start /\ buf = start - Lba
  BY DEF PartsInv
<1>3. start \in Nat /\ size \in Nat /\ count \in Nat /\ total \in Nat /\ Lba \in Nat
  BY SdAssumption DEF TypeOK
<1>4. start + count <= Lba + total
  BY <1>1, <1>2, <1>3, EndInside
<1> QED BY <1>2, <1>4 DEF PartInside

LEMMA LastPart ==
  ASSUME TypeOK, StepInside, TransferInv, SectorsEnd, retv = 0, DmaSuffices
  PROVE  \A i \in 0..(total - 1) : <<Lba + i, i>> \in moved \/ i \in spoilt
<1>1. BlocksDone /\ op \in {"read", "write"} /\ size <= 16
  BY DEF SectorsEnd, BlocksDone, Chunk
<1>2. count = size /\ start + size = Lba + total /\ buf = start - Lba
  BY <1>1, PartCountFits DEF TransferInv, PartsInv, TypeOK, Chunk
<1>3. buf \in Nat /\ start \in Nat /\ size \in Nat /\ total \in Nat /\ Lba \in Nat
  BY SdAssumption DEF TypeOK
<1> SUFFICES ASSUME NEW i \in 0..(total - 1)
             PROVE  <<Lba + i, i>> \in moved \/ i \in spoilt
  OBVIOUS
<1>4. CASE i < buf
  <2>1. i \in 0..(buf - 1)
    BY <1>3, <1>4
  <2> QED BY <1>1, <2>1 DEF TransferInv, MovedInv
<1>5. CASE i >= buf
  <2>1. i - buf \in 0..(count - 1)
    BY <1>2, <1>3, <1>5
  <2>2. <<start + (i - buf), buf + (i - buf)>> \in moved
    BY <1>1, <2>1, PartDone DEF TransferInv
  <2>3. start + (i - buf) = Lba + i /\ buf + (i - buf) = i
    BY <1>2, <1>3
  <2> QED BY <2>2, <2>3
<1> QED BY <1>3, <1>4, <1>5

LEMMA PartsRight ==
  ASSUME TypeOK, TypeOK', StepInside, TransferInv, PartsInv', [Next]_vars
  PROVE  PartsStepRight
<1>1. PartInside'
  BY InsideRight, PTL
<1>2. CASE SectorsEnd
  BY <1>1, <1>2, LastPart DEF PartsStepRight
<1>3. CASE ~SectorsEnd
  <2>1. op \in {"read", "write"} => op' # "none"
    <3>1. CASE DevNext
      BY <3>1 DEF DevNext, DevWord, DevDone, DevTimeout
    <3>2. CASE Irq
      BY <3>2 DEF Irq
    <3>3. CASE CmdNext
      BY <3>3 DEF CmdNext, CmdStart, CmdIssue, CmdTake, CmdPark, CmdTaken, CmdFlags, CmdClear, CmdEnd
    <3>4. CASE NextCommand \/ AskAgain \/ NextPart
      BY <3>4 DEF NextCommand, AskAgain, GoOn, NextPart
    <3>5. CASE IdentifyEnds
      BY <3>5 DEF IdentifyEnds
    <3>6. CASE SdInit \/ SdTest
      BY <3>6 DEF SdInit, SdTest, IdentifyCard
    <3>7. ASSUME NEW what \in {"read", "write"}, NEW n \in Sizes, Begin(what, n)
          PROVE  op' # "none"
      BY <3>7 DEF Begin
    <3>8. CASE UNCHANGED vars
      BY <3>8 DEF vars
    <3> QED BY <1>3, <3>1, <3>2, <3>3, <3>4, <3>5, <3>6, <3>7, <3>8 DEF Next, CallerNext
  <2> QED BY <1>1, <2>1 DEF PartsStepRight
<1> QED BY <1>2, <1>3

\* Whatever size a caller asks for, and whatever is answered late or never: each
\* part of a transfer stays inside the request, and a call that returns 0 has had
\* each sector carried to or from its own place by a command that the card
\* completed, but for the parts that ended with the card's timeout and for writes
\* longer than the DMA's limit (sd_read_sector, sd_write_sector, sd_cmd).
THEOREM PartsAlwaysCover == Spec => PartsCover
<1> DEFINE Inv == SdInv /\ TransferInv
<1>1. Init => Inv
  BY InvInit, PartsInit, MovedInit DEF TransferInv
<1>2. Inv /\ [Next]_vars => Inv'
  BY InvStep, PartsStep, MovedStep DEF SdInv, TransferInv
<1>3. Inv /\ Inv' /\ [Next]_vars =>
        [/\ PartInside'
         /\ op \in {"read", "write"} /\ op' = "none" /\ retv = 0 /\ DmaSuffices =>
              \A i \in 0..(total - 1) : <<Lba + i, i>> \in moved \/ i \in spoilt]_vars
  BY PartsRight DEF SdInv, TransferInv, PartsStepRight
<1> QED BY <1>1, <1>2, <1>3, PTL DEF Spec, PartsCover
=============================================================================
