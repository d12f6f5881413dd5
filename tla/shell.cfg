SPECIFICATION Spec
CHECK_DEADLOCK FALSE
CONSTANTS
  Lines <- MCLines
  MaxInts = 1
INVARIANTS
 ParsesGrammar
 ChainsFollowed
 ForegroundReturns
 NoEndsLeft
PROPERTIES
 Settles
