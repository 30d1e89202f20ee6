SPECIFICATION Spec
CONSTANTS
  Clients = {c1, c2}
  Users = {u1, u2}
  Roles = {admin, editor}
  Orgs = {o1, o2}
  Slugs = {acme, initech}
  Keys = {k1, k2}
  Modules = {{"rbac"}, {"org"}, {"apiKeys"}}
SYMMETRY Symmetry
INVARIANTS
  AccessTypeOK
  PermissionsFresh
PROPERTIES
  RightsHold
CONSTRAINT FewRoles
