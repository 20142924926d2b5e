CONSTANTS
  Listing <- MCListing
  DVDs = {"dvd"}
  Kexts <- MCKexts
  None = None
  MaxMounts = 0
  MaxEdits = 1
  MaxInstalls = 3
  MaxFaults = 0
SPECIFICATION Spec
CHECK_DEADLOCK FALSE
INVARIANT PreservesExtensions
