SPECIFICATION Spec
CONSTANT TornTimes = {"utc", "local"}
PROPERTY MarkerAfterReadBack
