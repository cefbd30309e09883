SPECIFICATION FairSpec
CONSTANTS
  d1 = d1
  d2 = d2
  old = old
  new = new
  none = none
  Device <- FleetDevice_mc
  Version <- Version_mc
  Stock <- FleetStock_mc
  Ext <- FleetExt_mc
  Latest = new
  None = none
  MaxConnects = 2
  MaxVerify = 1
  MaxJobs = 1
  MaxRequests = 1
CHECK_DEADLOCK FALSE
PROPERTY UpdatesGoOn
