SPECIFICATION Spec
CONSTANTS
  NumRx = 4
  NumTx = 3
  MaxFrames = 6
INVARIANTS DescriptorsDivided FramesTransmitted
PROPERTY RefinesRxFifo
