SPECIFICATION Spec
CONSTANTS
  Plain <- MCPlain
  Arrows <- MCArrows
  Shift = "shift"
  Caps = "caps"
  MaxKeys = 1
INVARIANT ArrowsDelivered
