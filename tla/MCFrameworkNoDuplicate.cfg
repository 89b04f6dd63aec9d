CONSTANTS
  j1 = j1
  j2 = j2
  j3 = j3
  Job = {j1, j2, j3}
  NoJob = NoJob
  partner = partner
  other = other
  category = category
  Record = {partner, other, category}
  Needs <- Dependencies
  MaxRetries = 2
  version = version
  generic = generic
  Backend = {version, generic}
  Parent <- VersionOfGeneric
  NoBackend = NoBackend
  Class = {k1, k2, k3}
  EntryBound = 4
  m1 = m1
  m2 = m2
  m3 = m3
  m4 = m4
  Mapper = {m1, m2, m3, m4}
  NoMapper = NoMapper
  f = f
  Field = {f, g}
SPECIFICATION MCSpec
CHECK_DEADLOCK FALSE
CONSTRAINT Small
INVARIANT NoDuplicate
