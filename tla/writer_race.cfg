SPECIFICATION Spec
CONSTANTS
  Writers = {w1, w2}
  NoOne = NoOne
  Before = Before
  Modes = {"overwrite", "suffix", "prompt", "no_callback"}
  MaxCounter = 3
  MaxMinute = 1
  Earlier = {0, 1}
  Faults = {"enter", "rmtree", "replace"}
SYMMETRY Symmetry
INVARIANTS
  TypeOK
  NoLeftovers
  LiveStagingKept
  PublishedIsWhole
  CommitPublishes
  BailOutKeepsEvidence
  DistinctResults
  HandlersRestored
  GivesUpWhenFull
PROPERTIES
  OnlyOverwriteDestroys
  CountsDown
CHECK_DEADLOCK FALSE
