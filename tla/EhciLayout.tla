----------------------------- MODULE EhciLayout ------------------------------
(***************************************************************************)
(* What the EHCI driver computes for the controller                        *)
(* (src/cherryusb/usb_hc_ehci.c): the frame list, the place of an          *)
(* interrupt endpoint in it, and how a buffer is cut into descriptors and  *)
(* pages.  Pure functions, checked against what they are for.              *)
(***************************************************************************)
EXTENDS Integers, Sequences, SequencesExt

CONSTANTS
  Heads,        \* EHCI_PERIOIDIC_QH_NUM; the frame list has Pow2[Heads - 1] frames
  Page,         \* the bytes of a page
  ChunkMax,     \* the most bytes that the driver gives one descriptor
  MaxLen        \* bound: the longest buffer that is checked

\* A descriptor has five page pointers: four whole pages, and a begun one.
ASSUME LayoutAssumption ==
  /\ Heads \in Nat \ {0} /\ Page \in Nat \ {0} /\ MaxLen \in Nat
  /\ ChunkMax \in 1..(4 * Page)

\* 1 << n
Pow2[n \in Nat] == IF n = 0 THEN 1 ELSE 2 * Pow2[n - 1]

Frames == 0..(Pow2[Heads - 1] - 1)
End == -1

\* The heads that the controller visits from head h on, given the links.
Chain(next, h) ==
  LET from[n \in -1..(Heads - 1)] == IF n = End THEN <<>> ELSE <<n>> \o from[next[n]]
  IN  from[h]

FirstFrame(i) == Pow2[i] - 1

\* usb_hc_init: head i is hung behind what the frames of its interval hold
HangHead(list, i) ==
  LET mine == {j \in Frames : j >= FirstFrame(i) /\ (j - FirstFrame(i)) % Pow2[i] = 0}
      last(j) == Last(Chain(list.next, list.entry[j]))
      tails == {last(j) : j \in {k \in mine : list.entry[k] # End}}
  IN  [entry |-> [j \in Frames |-> IF j \in mine /\ list.entry[j] = End THEN i ELSE list.entry[j]],
       next |-> [h \in DOMAIN list.next |-> IF h \in tails \ {i} THEN i ELSE list.next[h]]]

FrameList ==
  LET hung[n \in 0..Heads] ==
        IF n = 0 THEN [entry |-> [j \in Frames |-> End], next |-> [h \in 0..(Heads - 1) |-> End]]
        ELSE HangHead(hung[n - 1], Heads - n)
  IN  hung[Heads]

Log2Floor(n) == CHOOSE k \in 0..8 : Pow2[k] <= n /\ n < Pow2[k + 1]

\* mutant: an interval in microframes taken for one in frames
PeriodicHeadUnscaled(interval) ==
  LET k == IF interval = 0 THEN 0 ELSE Log2Floor(interval)
  IN  IF k < Heads - 1 THEN k ELSE Heads - 1

\* ehci_get_periodic_qhead, whose argument is a uint8_t
PeriodicHead(interval) ==
  LET v == interval \div 8
      k == IF v = 0 THEN 0 ELSE Log2Floor(v)
  IN  IF k < Heads - 1 THEN k ELSE Heads - 1

\* the head of an endpoint: a full or low speed interval is in frames
HeadOf(speed, bInterval) ==
  IF speed = "high" THEN PeriodicHead(bInterval) ELSE PeriodicHead((bInterval * 8) % 256)

\* ehci_caculate_smask: the microframes of a frame in which a high speed endpoint
\* is polled
Smask(bInterval) ==
  CASE bInterval = 1 -> 0..7
    [] bInterval = 2 -> {0, 2, 4, 6}
    [] bInterval = 3 -> {1, 5}
    [] OTHER         -> {(bInterval - 1) % 8}

\* ehci_qh_fill: the same for any endpoint; a start split is sent in microframe 1
StartMask(speed, bInterval) == IF speed = "high" THEN Smask(bInterval) ELSE {1}

\* The frames between two polls that the endpoint asks for at most, at least 1.
Asked(speed, bInterval) ==
  IF speed = "high" THEN IF bInterval <= 4 THEN 1 ELSE Pow2[bInterval - 4] ELSE bInterval
-----------------------------------------------------------------------------
\* mutant: the whole length at once
ChunkLensOne(len) == <<len>>

\* ehci_bulk_urb_init, ehci_intr_urb_init: the lengths of the descriptors
ChunkLens(len) ==
  LET full == IF len = 0 THEN 0 ELSE (len - 1) \div ChunkMax
  IN  [i \in 1..(full + 1) |-> IF i <= full THEN ChunkMax ELSE len - full * ChunkMax]

\* the descriptors that must be free for the transfer to begin
ChunksNeeded(len) == (len + ChunkMax - 1) \div ChunkMax

\* ehci_qtd_bpl_fill: the bytes that the five page pointers reach
Reached(offset, len) ==
  LET rest == Page - offset
      more == (len - rest + Page - 1) \div Page
  IN  IF len < rest THEN len
      ELSE IF more <= 4 THEN len ELSE rest + 4 * Page
-----------------------------------------------------------------------------
\* The frame list visits head i in the frames of its interval and no others,
\* once, and every interrupt endpoint has a head that is visited at least as
\* often as it asks, a wrapped interval included, and in a frame its microframes.
PeriodsKept ==
  /\ \A j \in Frames :
       LET visited == Chain(FrameList.next, FrameList.entry[j])
       IN  /\ IsInjective(visited)
           /\ \A i \in 0..(Heads - 1) : i \in ToSet(visited) <=> (j + 1) % Pow2[i] = 0
  /\ \A speed \in {"low", "full", "high"} :
       \A b \in 1..(IF speed = "high" THEN 16 ELSE 255) :
         /\ Pow2[HeadOf(speed, b)] <= Asked(speed, b)
         /\ StartMask(speed, b) # {}
         /\ speed = "high" /\ b <= 4 =>
              \A t \in 0..7 : \E d \in 0..(Pow2[b - 1] - 1) : (t + d) % 8 \in StartMask(speed, b)

\* The descriptors of every transfer cover its buffer, wherever that begins in a
\* page, and are no more than the driver has found free; a transfer of no bytes
\* needs one that nobody has counted.
ChunksCover ==
  \A len \in 1..MaxLen, offset \in 0..(Page - 1) :
    LET lens == ChunkLens(len)
        upto[i \in 0..Len(lens)] == IF i = 0 THEN 0 ELSE upto[i - 1] + lens[i]
    IN  /\ upto[Len(lens)] = len
        /\ Len(lens) = ChunksNeeded(len)
        /\ \A i \in DOMAIN lens :
             Reached((offset + (i - 1) * ChunkMax) % Page, lens[i]) = lens[i]
=============================================================================
