SPECIFICATION FairSpec
INVARIANTS
  ReceiptIsFinal
  ReceiptIsExact
  SuccessIsWhole
PROPERTIES
  ReceiptWrittenOnce
  BuildStops
CHECK_DEADLOCK FALSE
