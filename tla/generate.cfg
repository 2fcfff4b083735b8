CONSTANTS
  Labels <- MCLabels
  StorageClasses <- MCStorageClasses
  GoEntrypoints <- MCGoEntrypoints
  PythonEntrypoints <- MCPythonEntrypoints
  ProbePaths <- MCProbePaths
  ModuleSegments <- MCModuleSegments
  Images <- MCImages
  Peers <- MCPeers
  MaxModules = 4
  DirNames <- MCDirNames
  LabelOf <- MCLabelOf
  OrgFiles <- MCOrgFiles
  ProjectFiles <- MCProjectFiles
  Projects <- MCProjects
  Replies <- MCReplies
  Answers <- MCAnswers
  Edits <- MCEdits
  MaxEdits = 2
SPECIFICATION Spec
CHECK_DEADLOCK FALSE
INVARIANTS
  TypeOK
  Precedence
  UnusableLayerIsWarned
  AnswersAreKept
  
  GapsAreTold
  GoNeverGuesses
  StatefulMeansEvidence
  FilesAgree
  TagIsValidAtTheGate
  GateVerdict
  AuditSound
  PortsAreNotCompared
  StartedServerIsDeclared
