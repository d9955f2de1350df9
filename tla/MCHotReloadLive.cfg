SPECIFICATION FairSpec
CONSTANTS
  usb = usb
  wifi = wifi
  Receivers = {usb}
  MaxChanges = 2
  MaxRequests = 2
  LoadsMayFail = TRUE
INVARIANTS TypeOK SettledBeforeReload OneReloadAtATime
PROPERTIES ReloadsEnd AcceptedIsShown
CHECK_DEADLOCK FALSE
