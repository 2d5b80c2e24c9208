CONSTANTS
  Bytes256 = 2
  Bytes512 = 3
  Bytes1024 = 4
  Sha1Bytes = 4
  LengthBytes = 1
  Sha1DigestBytes = 2
  LowCount = 8
  OutputBits = {16, 40}
  Passes <- MCPasses
  Salts <- MCSalts
  MaxRounds = 2
  MaxBytes = 13
  MaxCall = 7
SPECIFICATION Spec
INVARIANTS SkeinDigest Sha1Digest DerivedKey
