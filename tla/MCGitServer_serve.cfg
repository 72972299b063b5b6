CONSTANTS
  dev = dev
  feat = feat
  master = master
  Sessions = {s1, s2}
  Branches = {dev, feat, master}
  Master = master
  Commands = {"receive", "upload", "deep", "other"}
  Levels = {0, 1, 2, 3}
  InitialDirs = {"absent", "plain", "partial", "repo"}
SPECIFICATION Spec
INVARIANTS TypeOK DefaultBranchSet OnlyAuthorised
PROPERTY HeadStays
CHECK_DEADLOCK FALSE
