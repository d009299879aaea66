SPECIFICATION Spec
CONSTANTS
  h1 = h1
  h2 = h2
  Handlers = {h1}
  n1 = n1
  n2 = n2
  Names = {n1}
  kBoot = kBoot
  kGood = kGood
  kBad = kBad
  kIo = kIo
  kGone = kGone
  Keys = {kGood, kBad, kGone}
  BootKey = kGone
  NoKey = NoKey
  KeyKind <- MCKeyKind
  a1 = a1
  a2 = a2
  Addrs = {a1}
  Entry = a1
  Ops <- AllOps
  Insns <- AllInsns
  None = None
  Careful = TRUE
  RedisMayFail = TRUE
INVARIANTS TypeOK CreditIsEarned ResetRestores

CHECK_DEADLOCK FALSE
