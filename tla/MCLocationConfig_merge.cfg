SPECIFICATION Spec
CONSTANTS
  s1 = s1
  s2 = s2
  s3 = s3
  la = la
  lb = lb
  v1 = v1
  v2 = v2
  NULL = NULL
  DefaultProvider = shmcb
  Sections = {s1, s2, s3}
  Locations = {la, lb}
  LocationOf <- MCLocationOf
  Directives = {"GrassrootsRoot", "GrassrootsJobManagersPath", "GrassrootsCache"}
  Values = {v1, v2}
INVARIANT TypeOK
INVARIANT LastSectionWins
INVARIANT ServerOfMatchedSection
INVARIANT MergeAssociates
SYMMETRY Interchangeable
