SPECIFICATION Spec
CONSTANTS
  Clients = {c1, c2}
  Users = {u1, u2}
  OAuthIds = {google, apple}
  SsoIds = {okta}
  MaxGen = 2
  None = None
  Configurations = {
    {"credentials", "registration", "otp", "magicLink"},
    {"credentials", "twoFactor"},
    {"oauth", "oauthRegistration", "sso", "ssoRegistration", "onelink"},
    {"credentials", "registration", "oauth"},
    {"credentials", "registration"},
    {"passkey", "credentials"}}
SYMMETRY Symmetry
INVARIANTS
  TypeOK
  OneUse
PROPERTIES
  UsersKept
CONSTRAINT Bounds
CHECK_DEADLOCK FALSE
