------------------------------ MODULE SdDriver ------------------------------
(***************************************************************************)
(* The SD card driver (src/main/spi_sd.c): one task, the interrupt handler *)
(* of the controller, and between them a semaphore that keeps the promises *)
(* of XosSemaphore.                                                        *)
(*                                                                         *)
(* The controller and the card are external: what they do is read off the  *)
(* driver's use of the registers.  A command runs from the write of cmd to *)
(* the write of 0.  It ends with CMDONE, DTDONE or TIMEOUT, or never; the  *)
(* words of a long response come one by one, each with RESP.               *)
(*                                                                         *)
(* Addresses are in sectors, and so is buf, the place in the caller's      *)
(* buffer.  What the card says of itself (rca, capacity, addressing) is    *)
(* left out, but for the bit that says it is ready.  moved and spoilt are  *)
(* no variables of the code: they record what became of each sector.       *)
(***************************************************************************)
EXTENDS Integers, Sequences

CONSTANTS
  Shell,        \* the task that uses the card
  sd_sem,       \* the semaphore
  None,         \* no semaphore
  Sizes,        \* numbers of sectors that readers and writers ask for
  Lba           \* the sector they start at

ASSUME SdAssumption ==
  /\ Sizes \subseteq Nat \ {0} /\ Lba \in Nat
  /\ None # sd_sem

VARIABLES
  inten, flags,                 \* SDCTRL->inten, SDCTRL->flags
  cmd,                          \* the command the controller runs; NoCmd: none
  dev,                          \* how far it is: "idle", "busy", "done", "failed"
  words,                        \* the words of its response that are still to come
  dma,                          \* the length field of DMAC->CH[0].Control, in words
  respp,                        \* how many words the handler has stored
  tokens, taking, phase, deaf, result,   \* the semaphore
  pc,                           \* where the task is inside sd_cmd
  seenFlags,                    \* flags, read after the take
  retv,                         \* what the last sd_cmd returned
  op, step,                     \* what the task does, and its place in Script
  start, size, buf, count,      \* locals of sd_read_sector, sd_write_sector
  total,                        \* the size that the caller asked for
  inited,                       \* sd_inited
  moved,                        \* <<sector, place in the buffer>> of the data that was carried
  spoilt                        \* the places of the parts that ended with the card's timeout

semVars == <<tokens, taking, phase, deaf, result>>
regs == <<inten, flags, cmd, dev, words, dma>>
partVars == <<start, size, buf, count, total>>
ghosts == <<moved, spoilt>>
others == <<inited, ghosts>>
vars == <<inten, flags, cmd, dev, words, dma, respp, tokens, taking, phase, deaf, result,
          pc, seenFlags, retv, op, step, start, size, buf, count, total, inited, moved, spoilt>>

Sem == INSTANCE XosSemaphore WITH Tasks <- {Shell}, Sems <- {sd_sem}
-----------------------------------------------------------------------------
(* Commands.                                                               *)

NoCmd == -1
Data == {17, 18, 24, 25}
Long == {2, 9}

\* The words of a long response: cmd_resp has no place for more.
RespWords == 5
\* The sectors that one part of a long transfer has.
Chunk == 16

\* A DMA word has four bytes, and the length field of Control twelve bits: what
\* is longer spills into the width of a burst.
SectorWords == 128
DmaField == 4096
DmaWords(sectors) == (sectors * SectorWords) % DmaField

\* c_inten
Wants(c) ==
  {"TIMEOUT"} \cup IF c \in Data THEN {"DTDONE"}
                   ELSE {"CMDONE"} \cup IF c \in Long THEN {"RESP"} ELSE {}

\* The commands of sd_identify, and those of sd_read_blocks and sd_write_blocks.
\* The commands 41, 6 and 23 are sent by sd_acmd, behind a command 55.
Script ==
  CASE op = "identify" -> <<0, 0, 8, 55, 41, 2, 3, 9, 7, 16, 55, 6, 13>>
    [] op = "read"     -> IF count = 1 THEN <<17>> ELSE <<18, 12>>
    [] op = "write"    -> IF count = 1 THEN <<24>> ELSE <<55, 23, 25, 12>>

\* Places in Script: the results of these commands are ignored ...
Ignored == op = "identify" /\ step \in {1, 2, 3, 10}
\* ... and these two are repeated until the card is ready.
AcmdReady == 4
AskReady == 5
-----------------------------------------------------------------------------
(* The controller and the card.                                            *)

\* One word of a long response
DevWord ==
  /\ dev = "busy" /\ words > 0 /\ "RESP" \notin flags
  /\ flags' = flags \cup {"RESP"}
  /\ words' = words - 1
  /\ UNCHANGED <<inten, cmd, dev, dma, respp, semVars, pc, seenFlags, retv, op, step, partVars, others>>

\* What the DMA carries: a sector of the card and its place in the buffer.
Carried == {<<start + i, buf + i>> : i \in {j \in 0..(count - 1) : (j + 1) * SectorWords <= dma}}

DevDone ==
  /\ dev = "busy" /\ words = 0 /\ "RESP" \notin flags
  /\ flags' = flags \cup {IF cmd \in Data THEN "DTDONE" ELSE "CMDONE"}
  /\ dev' = "done"
  /\ moved' = IF cmd \in Data THEN moved \cup Carried ELSE moved
  /\ UNCHANGED <<inten, cmd, words, dma, respp, semVars, pc, seenFlags, retv, op, step, partVars,
                 inited, spoilt>>

DevTimeout ==
  /\ dev = "busy"
  /\ flags' = flags \cup {"TIMEOUT"}
  /\ dev' = "failed"
  /\ UNCHANGED <<inten, cmd, words, dma, respp, semVars, pc, seenFlags, retv, op, step, partVars, others>>
-----------------------------------------------------------------------------
(* sd_irq.  One action is one turn of its loop; a turn that ends with no   *)
(* flag left is the end of the handler.                                    *)

Raised == flags \cap inten

\* xos_sem_give
GiveSem == Sem!Give(sd_sem) \/ Sem!LostGive(sd_sem)

\* mutant: the handler leaves its interrupt enabled
IrqKeepsEnabled ==
  /\ Raised # {}
  /\ respp' = IF "RESP" \in Raised THEN respp + 1 ELSE respp
  /\ flags' = IF "RESP" \in Raised THEN flags \ {"RESP"} ELSE flags
  /\ IF Raised \subseteq {"RESP"} THEN UNCHANGED semVars ELSE GiveSem
  /\ UNCHANGED <<inten, cmd, dev, words, dma, pc, seenFlags, retv, op, step, partVars, others>>

Irq ==
  /\ Raised # {}
  /\ respp' = IF "RESP" \in Raised THEN respp + 1 ELSE respp
  /\ flags' = IF "RESP" \in Raised THEN flags \ {"RESP"} ELSE flags
  /\ IF Raised \subseteq {"RESP"} THEN UNCHANGED <<inten, semVars>>
     ELSE inten' = {} /\ GiveSem
  /\ UNCHANGED <<cmd, dev, words, dma, pc, seenFlags, retv, op, step, partVars, others>>
-----------------------------------------------------------------------------
(* sd_cmd                                                                  *)

CmdStart ==
  /\ pc = "start"
  /\ respp' = 0
  /\ pc' = "issue"
  /\ UNCHANGED <<regs, semVars, seenFlags, retv, op, step, partVars, others>>

\* mutant: the flags of the last command are not cleared
CmdIssueKeepsFlags ==
  LET c == Script[step]
  IN  /\ pc = "issue"
      /\ UNCHANGED flags
      /\ inten' = Wants(c)
      /\ cmd' = c /\ dev' = "busy"
      /\ words' = IF c \in Long THEN RespWords ELSE 0
      /\ dma' = IF c \in Data THEN DmaWords(count) ELSE dma
      /\ pc' = "take"
      /\ UNCHANGED <<respp, semVars, seenFlags, retv, op, step, partVars, others>>

\* The channel of the DMA is set up, the interrupt enabled, the command written.
CmdIssue ==
  LET c == Script[step]
  IN  /\ pc = "issue"
      /\ flags' = {}
      /\ inten' = Wants(c)
      /\ cmd' = c /\ dev' = "busy"
      /\ words' = IF c \in Long THEN RespWords ELSE 0
      /\ dma' = IF c \in Data THEN DmaWords(count) ELSE dma
      /\ pc' = "take"
      /\ UNCHANGED <<respp, semVars, seenFlags, retv, op, step, partVars, others>>

\* xos_sem_take(&sd_sem, 100), as far as the wait
CmdTake ==
  /\ pc = "take"
  /\ Sem!Ask(Shell, sd_sem)
  /\ pc' = "taking"
  /\ UNCHANGED <<regs, respp, seenFlags, retv, op, step, partVars, others>>

\* mutant: a take without timeout
CmdParkForEver ==
  /\ pc = "taking"
  /\ Sem!Park(Shell, sd_sem, FALSE)
  /\ UNCHANGED <<regs, respp, pc, seenFlags, retv, op, step, partVars, others>>

CmdPark ==
  /\ pc = "taking"
  /\ Sem!Park(Shell, sd_sem, TRUE)
  /\ UNCHANGED <<regs, respp, pc, seenFlags, retv, op, step, partVars, others>>

CmdTaken ==
  /\ pc = "taking"
  /\ Sem!Succeed(Shell, sd_sem) \/ Sem!TimeOut(Shell, sd_sem)
  /\ pc' = "flags"
  /\ UNCHANGED <<regs, respp, seenFlags, retv, op, step, partVars, others>>

CmdFlags ==
  /\ pc = "flags"
  /\ seenFlags' = flags
  /\ pc' = "clear"
  /\ UNCHANGED <<regs, respp, semVars, retv, op, step, partVars, others>>

CmdClear ==
  /\ pc = "clear"
  /\ flags' = {}
  /\ pc' = "end"
  /\ UNCHANGED <<inten, cmd, dev, words, dma, respp, semVars, seenFlags, retv, op, step, partVars, others>>

\* The controller drops the command; the result of the take goes before the
\* error flag, whose value is 4.
CmdEnd ==
  /\ pc = "end"
  /\ cmd' = NoCmd /\ dev' = "idle" /\ words' = 0
  /\ retv' = IF result[Shell] # 0 THEN result[Shell]
             ELSE IF "TIMEOUT" \in seenFlags THEN 4 ELSE 0
  /\ pc' = "ret"
  /\ UNCHANGED <<inten, flags, dma, respp, semVars, seenFlags, op, step, partVars, others>>
-----------------------------------------------------------------------------
(* The callers of sd_cmd.                                                  *)

\* the next command of Script
GoOn(s) ==
  /\ step' = s
  /\ pc' = "start"
  /\ UNCHANGED <<regs, respp, semVars, seenFlags, retv, op, partVars, others>>

\* The caller returns retv: it is the result of the last command.
Finish ==
  /\ op' = "none"
  /\ step' = 0
  /\ pc' = "idle"
  /\ UNCHANGED <<regs, respp, semVars, seenFlags, retv, partVars, others>>

Succeeded == retv = 0 \/ Ignored

\* sd_identify, sd_read_blocks, sd_write_blocks: the next command
NextCommand ==
  /\ pc = "ret" /\ Succeeded /\ step < Len(Script)
  /\ GoOn(step + 1)

\* ACMD41: the card is not ready yet
AskAgain ==
  /\ pc = "ret" /\ op = "identify" /\ step = AskReady /\ retv = 0
  /\ GoOn(AcmdReady)

IdentifyEnds ==
  /\ pc = "ret" /\ op = "identify"
  /\ ~Succeeded \/ step = Len(Script)
  /\ Finish

\* sd_read_blocks or sd_write_blocks has returned retv: the last one of its
\* commands has failed, or all have succeeded.
BlocksDone == pc = "ret" /\ op \in {"read", "write"} /\ (retv # 0 \/ step = Len(Script))

\* mutant: one block too few
PartCountShort(what, rest) == IF rest > Chunk /\ what = "read" THEN Chunk - 1 ELSE rest

\* The blocks that a loop asks for: sd_write_sector passes the whole rest.
PartCount(what, rest) == IF rest > Chunk /\ what = "read" THEN Chunk ELSE rest

\* the loop goes on, after a failure with a positive result too
NextPart ==
  LET rest == size - Chunk
  IN  /\ BlocksDone /\ size > Chunk /\ retv >= 0
      /\ start' = start + Chunk /\ size' = rest /\ buf' = buf + Chunk
      /\ count' = PartCount(op, rest)
      /\ step' = 1 /\ pc' = "start"
      /\ spoilt' = IF retv > 0 THEN spoilt \cup buf..(buf + Chunk - 1) ELSE spoilt
      /\ UNCHANGED <<regs, respp, semVars, seenFlags, retv, op, total, inited, moved>>

SectorsEnd ==
  /\ BlocksDone
  /\ size <= Chunk \/ retv < 0
  /\ Finish

\* sd_read_sector, sd_write_sector
Begin(what, n) ==
  /\ pc = "idle"
  /\ op' = what /\ step' = 1 /\ pc' = "start"
  /\ start' = Lba /\ size' = n /\ buf' = 0 /\ total' = n
  /\ count' = PartCount(what, n)
  /\ moved' = {} /\ spoilt' = {}
  /\ UNCHANGED <<regs, respp, semVars, seenFlags, retv, inited>>

\* The controller and the semaphore are initialized ...
Reset ==
  /\ inten' = {} /\ flags' = {}
  /\ tokens' = [tokens EXCEPT ![sd_sem] = 0]
  /\ deaf' = [deaf EXCEPT ![sd_sem] = FALSE]

\* ... and the card, if there is one, is identified.
IdentifyCard ==
  /\ pc = "idle"
  /\ \/ op' = "identify" /\ step' = 1 /\ pc' = "start"
     \/ UNCHANGED <<op, step, pc>>
  /\ UNCHANGED <<cmd, dev, words, dma, respp, taking, phase, result, seenFlags, retv, partVars, ghosts>>

SdInit == Reset /\ IdentifyCard /\ UNCHANGED inited

\* sd_test resets only the first time: what an earlier command has left enabled
\* stays so.
SdTest ==
  /\ IF inited THEN UNCHANGED <<inten, flags, tokens, deaf>> ELSE Reset
  /\ IdentifyCard
  /\ inited' = TRUE
-----------------------------------------------------------------------------
Init ==
  /\ inten = {} /\ flags = {} /\ cmd = NoCmd /\ dev = "idle" /\ words = 0 /\ dma = 0
  /\ respp = 0
  /\ Sem!Init
  /\ pc = "idle" /\ seenFlags = {} /\ retv = 0
  /\ op = "none" /\ step = 0
  /\ start = Lba /\ size = 0 /\ buf = 0 /\ count = 0 /\ total = 0
  /\ inited = FALSE /\ moved = {} /\ spoilt = {}

DevNext == DevWord \/ DevDone \/ DevTimeout

CmdNext ==
  \/ CmdStart \/ CmdIssue \/ CmdTake \/ CmdPark \/ CmdTaken
  \/ CmdFlags \/ CmdClear \/ CmdEnd

CallerNext == NextCommand \/ AskAgain \/ IdentifyEnds \/ NextPart \/ SectorsEnd

Next ==
  \/ DevNext \/ Irq \/ CmdNext \/ CallerNext
  \/ SdInit \/ SdTest
  \/ \E what \in {"read", "write"}, n \in Sizes : Begin(what, n)

Spec == Init /\ [][Next]_vars

\* The task runs when nothing more urgent does, and a timed take ends, which is
\* what SleeperWoken says of the kernel.  Of the card nothing is assumed.
FairSpec == Spec /\ WF_vars(CmdNext \/ CallerNext)
-----------------------------------------------------------------------------
(* Properties.                                                             *)

\* A command that returns 0 was completed by the card itself, and the words of
\* its response are all there: no answer, flag or token of an earlier command,
\* one that has timed out perhaps, is taken for its own (sd_cmd, sd_irq).
OwnAnswer ==
  pc \in {"clear", "end"} /\ result[Shell] = 0 /\ "TIMEOUT" \notin seenFlags =>
    dev = "done" /\ (cmd \in Long => respp = RespWords)

\* The handler gives the semaphore once for each take, whatever times out: no
\* token is left over when the next command begins.
NoTokenLeft == pc \in {"idle", "start", "issue"} => tokens[sd_sem] = 0

\* A transfer stays inside the request, and each sector has its own place in the
\* caller's buffer, in every part of a long transfer.
PartInside ==
  op \in {"read", "write"} =>
    /\ Lba <= start /\ start + count <= Lba + total
    /\ buf = start - Lba

\* No part of the transfer is too long for the DMA.
DmaSuffices == op = "write" => total * SectorWords < DmaField

\* The parts stay inside the request, and when the call returns 0, each sector has
\* been carried to or from its own place by a command that the card completed;
\* missing are at most those of the parts that ended with the card's timeout, a
\* positive result, which does not end the loop (sd_read_sector, sd_write_sector).
PartsCover ==
  [][/\ PartInside'
     /\ op \in {"read", "write"} /\ op' = "none" /\ retv = 0 /\ DmaSuffices =>
          \A i \in 0..(total - 1) : <<Lba + i, i>> \in moved \/ i \in spoilt]_vars

\* One DMA transfer has at most 4095 words (the comment at line 131), and long
\* transfers are split for it (the comment at line 426).
DmaInLimit ==
  pc = "issue" /\ Script[step] \in Data => count * SectorWords <= 4095

\* A read or a write returns, even if the card never answers.
SectorsReturn == op \in {"read", "write"} ~> op = "none"
=============================================================================
