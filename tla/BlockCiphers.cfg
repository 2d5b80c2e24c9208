CONSTANTS
    Word <- Word64
    Zero <- MCZero
    Parity <- MCParity
    Number <- Number64
    Plus <- Plus64
    Minus <- Minus64
    Xor <- Xor64
    Rotl <- Rotl64
    Rotr <- Rotr64
    Ciphers = {256, 512, 1024}
    Keys <- MCKeys
    Tweaks <- MCTweaks
    Blocks <- MCBlocks
    MaxBlocks = 2
    AesMaxBlocks = 2
    AesKeys <- MCAesKeys
    AesBlocks <- MCAesBlocks
SPECIFICATION BlockSpec
INVARIANTS UnitTests AsSpecified RoundTrip AesAsSpecified AesRoundTrip
CHECK_DEADLOCK FALSE
