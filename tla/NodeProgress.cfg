SPECIFICATION Spec
CONSTANTS
  Omitted = Omitted
  Nothing = Nothing
CHECK_DEADLOCK FALSE
PROPERTIES EventsArrive DownIsAlerted StatusConverges Converges StreamsEnd
