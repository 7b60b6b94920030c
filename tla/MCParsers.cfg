CONSTANTS
  Texts <- MCTexts
  GeneratorTexts <- MCGeneratorTexts
  Behinds <- MCBehinds
  EcidModulus = 4096
  GenLen = 4
  DrawnBytes = {0, 1, 16, 171, 255}
SPECIFICATION Spec
INVARIANTS
  EcidMeant
  HexMeansValue
  GeneratorRead
  GeneratorReproduces
CHECK_DEADLOCK FALSE
