SPECIFICATION FairStreamSpec
CONSTANTS
  Sendable <- MCSendable
  Foreign  <- MCForeign
  Arrivals = {9, 600}
  MaxSent  = 2
INVARIANTS BuiltReadsBack
PROPERTIES DeliversInOrder EveryTelegramArrives
