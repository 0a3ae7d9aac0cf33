SPECIFICATION Spec
CONSTANTS
  log4shell = log4shell
  other = other
  CVEs <- MCCVEs
  Handcrafted <- MCHandcrafted
  NvdKey = TRUE
  MaxAge = 2
  Window = 1
  Skews <- MCSkews
  MaxClock = 3
  MaxPasses = 2
  MaxRestarts = 1
INVARIANTS
  RecentSetScanned
  OnlyBlindSkipped
\* The clock is bounded.
CHECK_DEADLOCK FALSE
