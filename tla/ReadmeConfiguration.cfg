\* The configuration file of the README.
SPECIFICATION Spec
CONSTANTS
  FileKind <- ReadmeFile
  Text = {"good", "fixme", "large", "bad", "nul"}
  Parsable = {"good", "fixme", "large"}
  Large = {"large"}
  InitFiles = {"good", "bad"}
  CStr <- MCCStr
  Fixed <- MCFixed
  MaxMutants = 2
INVARIANT BuiltinObjFileIsOptional
CHECK_DEADLOCK FALSE
