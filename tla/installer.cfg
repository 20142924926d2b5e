CONSTANTS
  Listing <- MCListing
  DVDs = {"dvd"}
  Kexts <- MCKexts
  None = None
  MaxMounts = 1
  MaxEdits = 1
  MaxInstalls = 2
  MaxFaults = 1
SPECIFICATION FairSpec
CHECK_DEADLOCK FALSE
INVARIANTS NothingLost CarriedOver
PROPERTY InstallEnds
