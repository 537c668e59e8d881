\* One request at a time while the business is vetted from nothing on file and
\* its KYB and KYC are run again; its suitability is settled.
CONSTANTS
  Channel = {document}
  Owner = {o1}
  OnFile = {"suitability"}
  App = {a1}
  Req = {r1}
  User = {u1, u2}
  NoUser = NoUser
  Idle = Idle
  Gate = {"acknowledgment", "consent_timestamp", "consent_record", "kyb", "owners"}
  Ops = {"sign", "grant", "revoke", "kyb", "compliance", "owner", "kyc", "create", "put", "submit"}
SPECIFICATION WindowSpec
SYMMETRY Symmetry
INVARIANTS
  EveryGateHeldInWindow
  VerifiedOwnersHadKyb
