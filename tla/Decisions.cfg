SPECIFICATION Spec
CONSTANTS
  Blank <- MCBlank
  Options <- MCOptions
  Areas <- MCAreas
  MaxAreas = 3
  ClaudeAnswers <- MCClaudeAnswers
  Creators = {c1, c2}
  Abilities = {{}, {"web"}, {"diseno"}}
  Work = {"web"}
  Availabilities = {5, 10}
  MaxOpen = 5
  MaxDelivered = 1
  Files <- MCFiles
  Holdings <- MCHoldings
  Lower <- MCLower
  Views <- MCViews
  Sections <- MCSections
  Business <- MCBusiness
  Replies <- MCReplies
INVARIANTS OffersStand PanelStands
PROPERTIES AskingMoreWidens PickSparesTheBusier ImportStands
CHECK_DEADLOCK FALSE
