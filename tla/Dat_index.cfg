CONSTANTS
  us = us
  ca = ca
  private = private
  Unknown = Unknown
  Width4 = 2
  Bytes = 2
  ByteBits = 2
  Countries <- TwoCountries
  Files <- MCFiles
SPECIFICATION DatSpec
INVARIANT LongestPrefixWins
CHECK_DEADLOCK FALSE
