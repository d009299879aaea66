\* Two handlers of one CPU, or one handler of two.
SPECIFICATION SceneSpec
CONSTANTS
  h1 = h1
  h2 = h2
  Handlers = {h1, h2}
  n1 = n1
  n2 = n2
  Names = {n1, n2}
  kBoot = kBoot
  kGood = kGood
  kBad = kBad
  kIo = kIo
  kGone = kGone
  Keys = {kGood}
  BootKey = kGood
  NoKey = NoKey
  KeyKind <- MCKeyKind
  a1 = a1
  a2 = a2
  Addrs = {a1}
  Entry = a1
  Ops = {"boot", "step", "load"}
  Insns = {"plain", "input"}
  None = None
  Careful = FALSE
  RedisMayFail = FALSE
PROPERTIES TypedAnswered TypedWakes AnsweredOrAsleep
