CONSTANTS
  Forms <- MCForms
  Answers <- MCAnswers
  Deployments <- AllOrMOSS
  MaxTries = 2
SPECIFICATION Spec
INVARIANTS TypeOK ContractMet AcceptedIsBuildable RequestKept VerdictMatchesAnswer StaysWithItsEngine
