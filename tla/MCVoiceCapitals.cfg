SPECIFICATION PickerSpec
CONSTANTS
  FluxListings <- MCFluxListings
  AuraListings <- Capitals
  Ids <- MCIds
  FluxIds <- MCFluxIds
  DefaultVoice = "flux-haley-en"
  Languages <- MCLanguages
  Codes <- MCCodes
  English = "en"
  Base <- MCBase
  Lower <- MCLower
  Junk = Junk
  None = None
  IdRank <- MCIdRank
  CodeRank <- MCCodeRank
INVARIANT
  NoLanguageTwice
