CONSTANTS
  Tokens = {"(", ")", "[", "]", "'", "sym", "num", "str", "str...", "nl"}
  MaxLength = 6
  MaxNoted = 2
SPECIFICATION Spec
CHECK_DEADLOCK FALSE
INVARIANTS
  ReadsWhatIsMeant
  NothingIsLostSilently
  LoopWaitsForLists
  QuotesReadBack
