SPECIFICATION Spec
CONSTANTS
  h1 = h1
  h2 = h2
  Handlers = {h1, h2}
  n1 = n1
  n2 = n2
  Names = {n1}
  kBoot = kBoot
  kGood = kGood
  kBad = kBad
  kIo = kIo
  kGone = kGone
  Keys = {kGood}
  BootKey = kGood
  NoKey = NoKey
  KeyKind <- MCKeyKind
  a1 = a1
  a2 = a2
  Addrs = {a1}
  Entry = a1
  Ops = {"boot", "stop", "continue", "step", "event", "load"}
  Insns = {"plain", "fault", "input"}
  None = None
  Careful = FALSE
  RedisMayFail = FALSE
SYMMETRY Symmetry
PROPERTIES KeepsSession
