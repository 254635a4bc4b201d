SPECIFICATION Spec
CONSTANTS
  Parts = {"text", "actions", "patterns", "constructs", "slots", "scopes", "load", "callables",
           "shared", "mixed", "compared", "alternated"}
  Alphabet <- MCAlphabet
  MaxLength = 5
  MaxNesting = 2
  Heads <- MCHeads
  ItemsOf <- MCItems
  MaxItems <- MCMaxItems
  ConstructMaxNesting = 3
  Attributes <- MCAttributes
  Values <- MCValues
  MaxAttributes = 3
  MaxExact = 8
  Simple <- MCSimple
  Wraps <- MCWraps
  ScopeKinds = {"rule", "function", "root", "salience", "deffacts", "assert", "default", "method"}
  MaxSteps = 3
  Sources <- MCSources
  Reloads <- MCReloads
  Snippets <- MCSnippets
  MaxLoads = 2
  Keys <- MCKeys
  Definitions <- MCDefinitions
  Visible <- MCVisible
  MaxDefs <- MCMaxDefs
  Patterns <- MCPatterns
  Tested = {"x", "y"}
  Address = "f"
  Facts <- MCFacts
  MaxNodes = 6
  MaxDepth = 3
  MinInt <- MCMinInt
  MaxInt = 1
  Floats = {0}
  Strings = {1}
  LoweringLiterals <- MCLiterals
  NameOrder <- MCNames
  Earlier = "e"
  Offsets = {1}
  Ops = {"neq", ">"}
  MaxAlphaTests = 3
  MaxFields = 2
  MaxTerms = 4
  MaxExprs = 1
  MaxGrow = 1
  LoweringForms = {"var", "nvar", "lit", "or", "pred", "ret", "lex"}
INVARIANTS  ConditionsExact LoweringExact
PROPERTY ReadingExact
CHECK_DEADLOCK FALSE
