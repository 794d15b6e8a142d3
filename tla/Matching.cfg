CONSTANTS
  small = small
  large = large
  ivy = ivy
  demo = demo
  beta = beta
  Investors = {ivy}
  Projects = {demo, beta}
  Screened = {beta}
  Ranges = {small, large}
  MinAmount <- MCMinAmount
  MaxAmount <- MCMaxAmount
  NoProject = NoProject
  MaxTerms = 2
  MaxSubmits = 2
  MaxEvents = 2
SPECIFICATION Spec
INVARIANTS
  TotalsMatchProposals
  ConsentIsAudited
  ScreenedAfterMatch
