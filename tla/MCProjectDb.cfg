SPECIFICATION ProjectDbSpec
CONSTANTS
  a = a
  b = b
  Openers = {a, b}
  Procs = {a, b}
  old = old
  new = new
  Passphrases = {old, new}
  Creds = {"gh"}
  NoKey = NoKey
  Absent = Absent
  LastVersion = 2
  SlotVersion = 2
  Bodies <- MCBodies
  SchemaOf <- MCSchemaOf
  Superseded <- MCSuperseded
  Embeds <- OneRelease
  Ledgers <- Past
  Casts <- MCCasts
  MaxKeys = 4
  MaxSlots = 4
SYMMETRY Symmetry
INVARIANTS
  OpenedIsCurrent
  OpenersDoNotCollide
  EveryRowOpens
  NeverBricked
CHECK_DEADLOCK FALSE
