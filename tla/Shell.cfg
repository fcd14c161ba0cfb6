SPECIFICATION Spec

CONSTANTS
  Console = console
  Task = task
  Isr = isr
  Printers <- AllPrinters
  Others <- SomeMessages
  Size = 8
  Word = 256
  LineLen = 3
  Letters = {"a", " "}
  MaxKeys = 3
  MaxPrints = 1
  Base10 <- OneLetter
  Base16 <- TwoLetters
  Formats <- SomeFormats
  Ints <- AllInts
  FullHex <- TwoDigits
  MaxDump = 36

INVARIANTS
  LineHonest
  PrintedIsRead

PROPERTIES
  MessagesHold

\* Others print, and keys come, a bounded number of times.
CHECK_DEADLOCK FALSE
