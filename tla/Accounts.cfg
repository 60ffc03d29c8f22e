SPECIFICATION Spec
CONSTANTS
  home = home
  other = other
  ana = ana
  bia = bia
  cai = cai
  dora = dora
  r1 = r1
  r2 = r2
  r3 = r3
  Nobody = Nobody
  NoUser = NoUser
  Emails = {ana, bia, cai, dora}
  Founded = {home, other}
  Requests = {r1, r2, r3}
  Members <- People
  Asks <- Clients
  SignedIn <- NobodyOrAna
  Typed = {cai, dora}
  MaxFailures = 1
SYMMETRY Symmetric
INVARIANTS
  PagesAndAccountsTypeOK
  UsersHaveTenants
  TenantsAreInhabited
  OneWinnerPerEmail
  SessionHasItsToken
  TeamIsOfTheSession
PROPERTIES
  AdminsAreLostByOverlapOnly
  DeactivationSticks
  FailuresKeepTheSession
CHECK_DEADLOCK FALSE
