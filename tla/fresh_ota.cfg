SPECIFICATION Spec
CONSTANTS
  d1 = d1
  d2 = d2
  old = old
  new = new
  none = none
  Device <- Device_mc
  Version <- Version_mc
  Stock <- Stock_mc
  Ext <- Ext_mc
  Latest = new
  None = none
  MaxConnects = 2
  MaxVerify = 1
  MaxJobs = 1
  MaxRequests = 2
CHECK_DEADLOCK FALSE
INVARIANT FreshOta
