SPECIFICATION Spec
CONSTANTS
  usb = usb
  wifi = wifi
  Receivers = {usb}
  MaxChanges = 1
  MaxRequests = 2
  LoadsMayFail = FALSE
INVARIANT NotStuck
CHECK_DEADLOCK FALSE
