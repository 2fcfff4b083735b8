SPECIFICATION Spec
CONSTANTS
  Writers = {w1}
  NoOne = NoOne
  Before = Before
  Modes = {"overwrite"}
  MaxCounter = 3
  MaxMinute = 0
  Earlier = {0}
  Faults = {}
INVARIANT OutputSurvives
CHECK_DEADLOCK FALSE
