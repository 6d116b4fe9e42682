SPECIFICATION Spec
CONSTANTS
  own = own
  other = other
  cut = cut
  Repos <- AllRepos
  Pieces <- OneCut
  Commands <- AllCommands
  StartSeats <- AllSeats
  Sources <- ChangedSeats
  MaxChanges = 2
INVARIANTS TypeOK SettledSeatDecidesRight MergesStayInDomain
CHECK_DEADLOCK FALSE
