SPECIFICATION Spec
CONSTANTS
  blank = blank
  s1 = s1
  s2 = s2
  s1padded = s1padded
  p1 = p1
  p2 = p2
  d1 = d1
  d2 = d2
  d1upper = d1upper
  devnet = devnet
  mainnet = mainnet
  SignatureTexts <- MCSignatureTexts
  ProgramTexts <- MCProgramTexts
  DiscriminatorTexts <- MCDiscriminatorTexts
  Clean <- MCClean
  Signatures <- MCSignatures
  Programs <- MCPrograms
  Discriminators <- MCDiscriminators
  Clusters <- MCClusters
  Empty <- MCEmpty
  Example <- MCExample
  MaxCandidates = 2
  None = None
INVARIANTS OutcomesBelongToFields ErrorExcludesVerdict
