\* Two requests in flight on one application of a vetted business.
CONSTANTS
  Channel = {document}
  Owner = {o1}
  OnFile = {"suitability", "kyb", "owners"}
  App = {a1}
  Req = {r1, r2}
  User = {u1, u2}
  NoUser = NoUser
  Idle = Idle
  Gate = {"acknowledgment", "consent_timestamp", "consent_record"}
  Ops = {"sign", "grant", "revoke", "create", "put", "submit", "cancel", "decline", "resolve"}
SPECIFICATION Spec
SYMMETRY Symmetry
INVARIANTS
  TypeOK
  SubmittedWithPrerequisites
  FourEyes
  LedgerSound
