CONSTANTS
  Uploads = {w1}
  Jobs = {j1}
  Users = {u1}
  Quota = 5
  Guest = Guest
  Nobody = Nobody
  Gone = Gone
SPECIFICATION Spec
PROPERTIES
  PurgeSparesAccounts
CHECK_DEADLOCK FALSE
