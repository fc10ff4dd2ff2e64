SPECIFICATION Spec
CONSTANTS
  MaxDay = 3
  Deployments = {"blue", "green"}
  Paths = {"stop", "moved"}
  Cadences = {1}
  Ahead = 1
INVARIANT PassMeansRecentStop
PROPERTIES ChangeInvalidates
