\* Two requests of one principal against a limit that changes, in two clients.
SPECIFICATION Spec
CONSTANTS
  Email = {admin}
  Admins = {admin}
  App = {app}
  Source = {scan}
  Slug = {default, acme}
  Default = default
  None = None
  Limit = {1}
  DefaultLimit = 2
  AdminWork = {"set_write_limit", "set_mode", "create_client"}
  MaxLog = 3
  Request = {r1, r2}
  Content = {c1}
  Kinds = {"record", "suggest"}
  MaxOffer = 1
INVARIANTS WritesWithinLimit
SYMMETRY Symmetry
