\* Requests one at a time on an application of a business whose KYB and KYC are
\* settled; no recovery is resolved.
CONSTANTS
  Channel = {document}
  Owner = {o1}
  OnFile = {"suitability", "kyb", "owners"}
  App = {a1}
  Req = {r1}
  User = {u1, u2}
  NoUser = NoUser
  Idle = Idle
  Gate = {"acknowledgment", "consent_timestamp", "consent_record", "suitability"}
  Ops = {"sign", "grant", "revoke", "assess", "override", "create", "wizard", "patch", "capture", "put", "submit", "cancel", "decline", "stage"}
SPECIFICATION Spec
PROPERTY FollowsLifecycle
