\* One message, one STOP and one revocation through the API.
CONSTANTS
  ta = ta
  tb = tb
  b1 = b1
  b2 = b2
  p1 = p1
  p2 = p2
  Tenant = {ta, tb}
  Business = {b1, b2}
  Phone = {p1, p2}
  TenantOf <- MCTenantOf
  PhoneOf <- MCPhoneOf
  Message = {m1}
  Inbound = {i1}
  Revoker = {v1}
  MaxGrants = 2
  MaxCrashes = 1
SPECIFICATION HistorySpec
CHECK_DEADLOCK FALSE
INVARIANTS
  SmsTypeOK
  RowsTruthful
  StopRevokesWhatItRead
  NoTextAfterStop
  TextConsented
PROPERTY StopSettles
