SPECIFICATION FairSpec
CONSTANTS
  Plain <- MCPlain
  Arrows <- MCArrows
  Shift = "shift"
  Caps = "caps"
  MaxKeys = 3
INVARIANTS LastKeyReturned ModifiersFollow
PROPERTY ReadyIsConsumed
