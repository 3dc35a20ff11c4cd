\* What a model's answer loses between parsing and the reply.
SPECIFICATION Spec
CONSTANTS
  Email = {ann}
  Admins = {}
  App = {app}
  Source = {scan}
  Slug = {default}
  Default = default
  None = None
  Limit = {1}
  DefaultLimit = 2
  AdminWork = {}
  MaxLog = 0
  Request = {r1}
  Content = {c1}
  Kinds = {"record", "suggest"}
  MaxOffer = 1
INVARIANTS DroppedAreCounted
