SPECIFICATION Spec
CONSTANTS
  FluxModels = {haley}
  AuraModels = {celeste}
  GridSpeeds = {slow}
  OtherSpeeds = {offgrid}
  Rates = {r24000}
  None = None
  DefaultVoice = haley
INVARIANT
  ExtensionIsNeverWrong
