SPECIFICATION Spec
CONSTANTS
  c1 = c1
  c2 = c2
  LeftWords = {"zen"}
  RightWords = {"turing"}
  OtherWords = {"my"}
  Digits = {"7"}
  Containers = {c1, c2}
  UserNames <- MCUserNames
  Id <- MCId
  MaxTries = 2
INVARIANTS
  AutogeneratedAreMarked
