CONSTANTS
  Members = {A, B}
  Unread = Unread
  MaxSent = 3
SPECIFICATION ConsoleSpec
INVARIANTS ConfirmedIsSettled
PROPERTIES NothingSentAgain
SYMMETRY Symmetry
CHECK_DEADLOCK FALSE
