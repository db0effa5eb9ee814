SPECIFICATION Spec
CONSTANTS
  MaxId = 4
  MaxMoves = 2
  MaxVotes = 3
  MaxGames = 1
  W = 1
  n1 = n1
  n2 = n2
  la = la
  lb = lb
  Nick = {n1, n2}
  Login = {la, lb}
  LoginOf <- MCLoginOf
  NoLogin = NoLogin
  NoNick = NoNick
  Tip = {"num", "odd"}
  Credits = 1
  MaxStakes = 2
  MaxFaults = 1
  QNick = {n1, n2}
  MaxQuestions = 2
  MaxAnswers = 2
  MaxErrors = 1
CHECK_DEADLOCK FALSE
INVARIANTS
  
  StakesKept
  WonOnce

  
  
