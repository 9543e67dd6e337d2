SPECIFICATION PickerSpec
CONSTANTS
  FluxListings <- MCFluxListings
  AuraListings <- MCAuraListings
  Ids <- MCIds
  FluxIds <- MCFluxIds
  DefaultVoice = "flux-haley-en"
  Languages <- MCLanguages
  Codes <- MCCodes
  English = "en"
  Base <- MCBase
  Lower <- MCLower
  Junk = Junk
  None = None
  IdRank <- MCIdRank
  CodeRank <- MCCodeRank
PROPERTY
  VoiceListIsStable
