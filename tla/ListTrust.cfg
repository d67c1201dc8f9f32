CONSTANTS
  None = None
  V10Fields <- MCV10
  V11ExtraFields <- MCV11
  UnknownFields <- MCUnknown
  Keys = {"k1", "k2"}
  Clients = {"c"}
  ClientBuilds <- MCClientBuilds
  SignerFields <- MCSignerFields
  Bodies <- MCBodies
  FieldSets <- MCFieldSets
  Rosters <- MCRosters
  Forms = {"intact", "oversized", "not_json", "bad_hex", "off_curve"}
  MaxGeneration = 2
SPECIFICATION Spec
INVARIANTS GatedIsReadable SkewIsNamed OneReadingPerExit
PROPERTIES IsTrustedDocument
