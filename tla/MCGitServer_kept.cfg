CONSTANTS
  dev = dev
  feat = feat
  master = master
  Sessions = {s1, s2}
  Branches = {dev, master}
  Master = master
  Commands = {"receive"}
  Levels = {2}
  InitialDirs = {"repo"}
SPECIFICATION Spec
INVARIANT PushKept
CHECK_DEADLOCK FALSE
