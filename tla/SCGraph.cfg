SPECIFICATION Spec
CONSTANTS
  Args <- PluginArgs
  GraphOf <- PluginGraph
  Decision <- PluginDecision
  CanDecide <- PluginCanDecide
  ArgReady <- PluginArgReady
  LinkSet <- PluginLinks
  Depends <- PluginDepends
INVARIANTS
  NoStaleDecision
  DependenciesKept
PROPERTIES
  ImplementsPreIssue
  UsesEngine
