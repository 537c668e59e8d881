\* A cancelled application whose decline recovery is then won, one request at a time.
CONSTANTS
  Channel = {document}
  Owner = {o1}
  OnFile = {"suitability", "kyb", "owners"}
  App = {a1}
  Req = {r1}
  User = {u1, u2}
  NoUser = NoUser
  Idle = Idle
  Gate = {"acknowledgment", "consent_timestamp", "consent_record"}
  Ops = {"create", "put", "cancel", "decline", "resolve"}
SPECIFICATION Spec
PROPERTY CancelledIsTerminal
