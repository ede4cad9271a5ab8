SPECIFICATION Spec
CONSTANTS
  Requests = {r1, r2}
  Urls = {u, full}
  FullUrls = {full}
  NULL = NULL
  MaxObjects = 1
SYMMETRY Symmetry
INVARIANTS
  TypeOK
  WebpOnlyToSupporting
  OwnKind
