SPECIFICATION Spec
CONSTANTS
  Parts = {"control", "scoping", "methods", "dispatch", "arithmetic", "multifields", "slots",
           "calls", "globals", "modules", "templates"}
  MaxIterations = 2
  MaxDepth = 3
  Spans = {0, 2}
  Vals = {0, 5}
  Modes = {"first", "all", "delayed", "result"}
  Forms = {"block", "while", "count", "progn$", "query", "operand", "head", "call", "test", "funcall"}
  Fuel = 5
  MaxRoots = 2
  Methods <- MCMethods
  Indexes = {0, 1, 2, 3}
  ArgLists <- MCArgLists
  FunctionArity = 1
  Modules = {"MAIN", "A"}
  MaxMethods = 3
  MaxCallDepth = 2
  MaxFrames = 3
  Width = 5
  Precision = 3
  Values <- MCValues
  Checked = TRUE
  Fields = {1, 2}
  MaxLen = 4
  Indices <- MCIndices
  Predicates <- MCPredicates
  Requests <- MCRequests
  HostRequests <- MCHostRequests
  Defaults <- MCDefaults
  EvalMaxDepth = 2
  EvalMaxIterations = 1
  NameModules = {1, 2, 3}
  Visibilities <- MCVisibilities
  Callables <- MCCallables
  Globals <- MCGlobals
  MaxVersion = 2
  NameMaxFrames = 2
  ModuleNames = {"MAIN", "A", "B"}
  Types = {"deffunction", "defgeneric"}
  Locals = {"f"}
  Exports <- MCExports
  Imports <- MCImports
  MaxFocus = 1
  TemplateModules = {"MAIN", "A", "B"}
  TemplateNames = {"t"}
  Visible <- MCTemplatesSeen
  MaxTemplates = 2
  MaxLayouts = 2
  TemplateMaxFrames = 4
  MaxConstructs = 1
INVARIANTS ValuesExact NamesExact
PROPERTY ExecutionExact
CHECK_DEADLOCK FALSE
