CONSTANTS
  wifi = wifi
  usb = usb
  dhcp = dhcp
  lease1 = lease1
  lease2 = lease2
  Service <- MCService
  Value = {dhcp, lease1}
  Server = {lease1}
  NoValue = NoValue
  Off = Off
  LeaseTime = 2
  RetryTime = 1
  MaxEntries = 2
  ReadMayFail = FALSE
  MaxFired = 2
  MaxRequests = 2
  MaxFaults = 2
  MaxEdits = 1
  MaxCrashes = 1
SPECIFICATION FairSpec
CHECK_DEADLOCK FALSE
INVARIANTS TypeOK RecordCoversOwned
PROPERTIES NotTakenEarly RestoresOriginal ArmedLeaseExpires CrashRestores LeaseIsBorrowing
