SPECIFICATION SpokenFairSpec
CONSTANTS
  MaxTurns = 3
  MaxReconnects = 1
  MaxFrames = 2
INVARIANTS ClosesOnLastAnswer SessionsAreClosed
PROPERTIES OnlyGreetingIsTalkedOver MirrorsGraph ClosingEndsCall
CHECK_DEADLOCK FALSE
