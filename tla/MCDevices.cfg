SPECIFICATION DevicesSpec
INVARIANTS   UsbSound  DecodedExact 
CHECK_DEADLOCK FALSE
