SPECIFICATION Spec
CONSTANTS
  haley = haley
  asteria = asteria
  FluxModels = {haley}
  AuraModels = {asteria}
  GridSpeeds = {}
  OtherSpeeds = {}
  Rates = {}
  None = None
  Name <- SameName
  Listings <- OneOrBoth
  Keys = {k1, k2}
  Flows = {f1, f2}
  EntryIds = {e1, e2}
INVARIANT
  TitleNamesTheVoice
