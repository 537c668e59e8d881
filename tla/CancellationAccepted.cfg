\* An application approved with a granted limit, then cancelled, one request at a time.
CONSTANTS
  Channel = {document}
  Owner = {o1}
  OnFile = {"suitability", "kyb", "owners"}
  App = {a1}
  Req = {r1}
  User = {u1, u2}
  NoUser = NoUser
  Idle = Idle
  Gate = {"acknowledgment", "consent_timestamp", "consent_record"}
  Ops = {"sign", "grant", "create", "put", "cancel"}
SPECIFICATION Spec
INVARIANT CancellationAccepted
