SPECIFICATION Spec
CONSTANTS
    Nodes = {n1, n2, n3}
    Messages = {m1, m2, m3}
    MaxStops = 2
    NULL = NULL
INVARIANTS Inv SleepsOnlyWhenEmpty
PROPERTIES DequeSpec StopNoticed AllTaken
