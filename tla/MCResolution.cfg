SPECIFICATION BootSpec
CONSTANTS
  Configs <- MCConfigs
  Hosts <- MCHosts
  Folded <- MCFolded
  Labels <- MCLabels
  MaxStarts = 2
INVARIANTS LongestZoneWins ScanFindsSteadyToken TrieInSync TokenIsServed
CHECK_DEADLOCK FALSE
