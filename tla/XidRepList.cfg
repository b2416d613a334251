SPECIFICATION ListSpec
CONSTANTS
  MaxXid = 6
  MaxLen = 7
INVARIANT FrontIsAnsweredPrefix
PROPERTY ListImplementsSet
