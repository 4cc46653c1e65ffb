CONSTANTS
  Subjects <- Sound
  Values = {"a", "b"}
  MaxEdits = 2
  MaxDrifts = 2
SPECIFICATION Spec
INVARIANT Honoured
INVARIANT AppliedAsPlanned
PROPERTY PlansComeToRest
PROPERTY ImportKeepsWhenOmitted
