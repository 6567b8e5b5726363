\* One document, four kinds of token, two of everything else.
CONSTANTS
  a = a  b = b  o1 = o1  o2 = o2
  Clients = {c1}
  DocIds = {d1}
  Tenants = {a, b}
  References = {r1, r2}
  Owners = {o1, o2}
  Versions = {v1, v2}
  Tokens <- MCTokens
  Parties <- MCParties
  Environment = "production"
SPECIFICATION Spec
INVARIANTS TypeOK OwnersExist SessionCanComplete
SYMMETRY Symmetry
PROPERTY ImplementsPolicy
