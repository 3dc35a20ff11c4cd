\* A person with two OAuth clients; modes, clients, memberships and rules change.
SPECIFICATION Spec
CONSTANTS
  Email = {ann}
  Admins = {}
  App = {app1, app2}
  Source = {scan}
  Slug = {default, acme}
  Default = default
  None = None
  Limit = {1}
  DefaultLimit = 1
  AdminWork = {"set_mode", "create_client", "set_member", "remove_member", "allow_source", "revoke_source"}
  MaxLog = 4
  Request = {r1}
  Content = {c1}
  Kinds = {"record", "assert", "review"}
  MaxOffer = 0
\* Nobody may open a client any more when the log has reached its bound.
CHECK_DEADLOCK FALSE
INVARIANTS LogTellsTables WritesWhereAllowed ReviewersDecide TrustFollowsEvidence
SYMMETRY Symmetry
