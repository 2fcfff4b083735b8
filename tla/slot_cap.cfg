SPECIFICATION Spec
CONSTANTS
  Writers = {w1}
  NoOne = NoOne
  Before = Before
  Modes = {"suffix"}
  MaxCounter = 4
  MaxMinute = 0
  Earlier = {0, 1, 2, 3}
  Faults = {}
INVARIANT AbortOnlyPastCap
CHECK_DEADLOCK FALSE
