SYMMETRY MCSymmetry
SPECIFICATION DraftSpec
CONSTANTS
  a = a  b = b  c = c  d = d  e = e  f = f
  Member <- MCMember
  Team <- MCTeam
  NoTeam = NoTeam
  NumPicks = 30
  sizeToDraftOrder <- draftOrders
  NoPool = NoPool
  MaxDeal = 1
INVARIANTS
  EveryRoundHasEveryone
  SomebodyCanPick
CHECK_DEADLOCK FALSE
