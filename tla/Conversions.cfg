CONSTANTS
  Base = 16
  Ten = 10
  OpOne = 6
  OpDup = 7
  OpHash160 = 8
  OpEqual = 9
  OpEqualVerify = 10
  OpCheckSig = 11
  OpCoin = 12
  TxHashLen = 2
  HashLen = 2
  ProgramLen = 3
  CoordinateLen = 2
  MaxPush = 5
  MaxOps = 4
  Unnamed <- MCUnnamed
  SolveY <- MCSolveY
  CodeBase = 7
  CheckLen = 1
  Checksum <- MCChecksum
  AddressLen = 4
  ByteBits = 4
  Numbers <- MCNumbers
  Amounts <- MCAmounts
  Rows <- MCRows
  Programs <- MCPrograms
  Messages <- MCMessages
  HashBlockLen = 6
  HashWordLen = 1
  KeyDigits = 3
  DecBase = 3
  PointKeys <- MCPointKeys
  Given <- MCGiven
  Strays <- MCStrays
  Obfuscations <- MCObfuscations
  InputListLen = 3
  Coins <- MCCoins
  Blocks <- MCBlocks
  CommandLines <- MCCommandLines
  Traces <- MCTraces
SPECIFICATION Spec
INVARIANTS NumbersReadBack TextsReadBack DigestsAgree KeysReadBack OutputsAgree OptionsOneMeaning TraceFaithful
