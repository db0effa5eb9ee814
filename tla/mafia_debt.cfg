SPECIFICATION ThreeSpec
CONSTANTS
  MaxId = 3
  MaxMoves = 0
  MaxVotes = 3
  MaxGames = 1
  W = 65536
CHECK_DEADLOCK FALSE
INVARIANT
  DebtIsNoPrize
