SPECIFICATION FairSpec
CONSTANTS
  Codes = {c1, c2}
  MaxCrashes = 2
  MaxDowngrades = 2
INVARIANTS HeadInv CodesAreUnique SavedWithEvents HeadIsTheModels
PROPERTIES TornForGood UpgradeReachesHead
CHECK_DEADLOCK FALSE
