SPECIFICATION Spec
CONSTANTS
  ann = ann  bob = bob  cat = cat
  hawks = hawks  nets = nets  suns = suns  jazz = jazz
  Member <- MCMember
  Team <- MCTeam
  NoTeam = NoTeam
  NumPicks = 4
  sizeToDraftOrder <- MCDraftOrder
  NoPool = NoPool
  MaxDeal = 2
SYMMETRY MCSymmetry
INVARIANTS
  TypeOK
  PicksInOrder
  FullPoolIsDealt
  TeamsUnique
  CompleteIsWholeLeague
PROPERTY
  MadePickIsFinal
CHECK_DEADLOCK FALSE
