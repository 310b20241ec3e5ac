SPECIFICATION Spec
CONSTANTS
  Letters <- MCLetters
  QuoteEscape <- MCQuoteEscape
  Jobs <- MCJobs
INVARIANTS
  ColumnsComeBack
  LinesComeBack
PROPERTIES
  CallsReturn
CHECK_DEADLOCK FALSE
