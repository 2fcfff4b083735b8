SPECIFICATION FairSpec
CONSTANTS
  Writers = {w1, w2}
  NoOne = NoOne
  Before = Before
  Modes = {"prompt"}
  MaxCounter = 3
  MaxMinute = 0
  Earlier = {1}
  Faults = {"replace"}
PROPERTIES
  ImplementsOutputDir
  Terminates
  OrphanReclaimed
CHECK_DEADLOCK FALSE
