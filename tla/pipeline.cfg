SPECIFICATION FairSpec
CONSTANTS
  Self = self
  Writers = {self, other}
  NoOne = NoOne
  Before = Before
  Modes = {"overwrite", "suffix"}
  MaxCounter = 2
  MaxMinute = 0
  Earlier = {0}
  Faults = {"replace"}
  MaxAttempts = 3
  Engines = {"skip", "unknown", "unlimited"}
INVARIANTS
  TypeOK
  GateBeforePublish
  ExitCodeTellsTruth
  SkippedIsTold
  EvidenceExplains
PROPERTIES
  ImplementsRelease
  RunCountsDown
  Ends
CHECK_DEADLOCK FALSE
