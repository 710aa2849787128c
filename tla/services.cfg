CONSTANTS
  Uploads = {u1, u2, u3}
  MaxFiles = 2
  Validations = {v1, v2, v3}
  NoValidation = none
  Mode = "code"
  Packages = {p}
  Fields = {"f"}
  Values = {1, 2}
  MaxRows = 2
  Requests = {r1, r2}
  Envs = {e1}
  Homes = {h1}
  Keys = {1}
  Paths = {1}
  Types = {"cloudflare", "gondolin"}
  MaxOpens = 2
  MaxProbes = 1
  Variables = {w1}
  Domains = {d1, d2}
  BadDomains = {d2}
  MaxUnderWay = 2
  Apps = {a1, a2}
  Pats = {t1, t2}
  Jobs = {j1}
  Inputs = {i1, i2}
  Sources = {s1}
  Askers = {q1, q2}
  MaxRefreshes = 1
  Gets = {g1, g2}
  Ttl = 2
  MaxTime = 3
  Queries = {n1, n2}
  PageScopes = {c1, c2}
  Loads = {l1, l2}
  MaxEdits = 2
SPECIFICATION ServicesSpec
INVARIANTS
  ServicesTypeOK
  OnlyOverlappedUploadsAreLost
  
  OnlyRacesRunBeside
  OutOfDateIsMarked
  SavedWasProbed
  
  
  TokenAndIdentityAreOne
  ServedModelsAreCurrent
  CatalogIsAsOldAsItSays
  OnlyOvertakenListsMislead
CHECK_DEADLOCK FALSE
