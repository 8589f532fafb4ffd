SPECIFICATION Spec
CONSTANTS
  WorldSize = 300
  NodeSize = 20
  GroupScale = 5
  NumBots = 1
  FirstBotSession = 1000
  Clients = {1, 2}
  Points <- MCPoints
  Destinations <- MCDestinations
  MaxTurns = 0
  WanderRange = 250
  VisibleRange = 150
  NearRange = 75
  InfoNumbers = {1}
  Deltas = {1}
  SinglePeriod = 1
  NearPeriod = 0
  FarPeriod = 1
PROPERTIES
  FarViewersGetNoPath
VIEW MCView
