SPECIFICATION Spec
CONSTANTS
  Self = self
  Writers = {self}
  NoOne = NoOne
  Before = Before
  Modes = {"suffix"}
  MaxCounter = 2
  MaxMinute = 0
  Earlier = {0}
  Faults = {}
  MaxAttempts = 3
  Engines = {"skip"}
INVARIANT SummaryIsOfThisRun
CHECK_DEADLOCK FALSE
