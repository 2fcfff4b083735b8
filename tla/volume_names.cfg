CONSTANTS
  Labels <- MCLabels
  StorageClasses <- MCStorageClasses
  GoEntrypoints <- MCGoEntrypoints
  PythonEntrypoints <- MCPythonEntrypoints
  ProbePaths <- MCProbePaths
  ModuleSegments <- MCModuleSegments
  Images <- MCImages
  Peers <- MCPeers
  MaxModules = 4
  DirNames <- MCDirNames
  LabelOf <- MCLabelOf
  OrgFiles <- MCOrgFiles
  ProjectFiles <- MCProjectFiles
  Projects <- MCProjects
  Replies <- MCReplies
  Answers <- MCAnswers
  Edits <- MCEdits
  MaxEdits = 0
SPECIFICATION Spec
CHECK_DEADLOCK FALSE
INVARIANT VolumeNamesAreLabels
