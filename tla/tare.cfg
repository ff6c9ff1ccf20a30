SPECIFICATION Spec
CONSTANTS
  Junk <- MCJunk
  Programs = {"full"}
  Sources = {0}
  MaxCrashes = 0
  MaxRestarts = 0
INVARIANTS
  TareAtZeroFlow
