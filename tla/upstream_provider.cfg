SPECIFICATION FairSpec
CONSTANTS
  a1 = a1
  a2 = a2
  r1 = r1
  r2 = r2
  u1 = u1
  u2 = u2
  k1 = k1
  k2 = k2
  Admins <- MCAdmins
  Requests <- MCRequests
  Worlds <- MCWorlds
  Urls <- MCUrls
  Keys <- MCKeys
  Inputs <- MCInputs
  Absent = Absent
  Torn = Torn
  MaxSaves = 3
  MaxCrashes = 1
INVARIANT AcknowledgedLasts
PROPERTIES FetchKeeps NothingLeft SwitchedBack
