\* Two API instances settle beside the tills and the platform console.
CONSTANTS
  big = big
  small = small
  Sales = {big, small}
  Points <- MCPoints
  Workers = {w1, w2}
  BatchSize = 2
  Rules <- MCRules
  MaxFunds = 4
  None = None
SPECIFICATION FairSpec
INVARIANTS
  TypeOK
  DrawnDownOnce
  WalletIsExplained
PROPERTIES
  EverySaleSettles
