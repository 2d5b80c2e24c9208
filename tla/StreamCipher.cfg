CONSTANTS
  BlockSize = 3
  Size = 4
  WordBytes = 2
  Xor <- MCXor
  Nonces <- MCNonces
  Keys <- MCKeys
  KeyLengths = {1, 2, 3}
  None = None
  MaxBytes = 7
SPECIFICATION Spec
INVARIANTS TypeOK BlockStream Arc4Stream
