CONSTANTS
  Blocks <- MCBlocks
  Zero <- MCZero
  Xor <- MCXor
  Enc <- MCEnc
  Dec <- MCDec
  CtrAdd <- MCCtrAdd
  Message <- MCMessage
  IVs <- MCIVs
  Threads = {2, 3}
  MinBlocks = 1
  MaxBlocks = 5
  LargeSerial = FALSE
SPECIFICATION Spec
INVARIANTS AsStandard JobsDisjoint KeyFits
