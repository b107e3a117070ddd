SPECIFICATION Spec
CONSTANTS
    Lines <- MCLines
    MaxLines = 2
    MaxProcs = 9
INVARIANTS WaitsForOne RunsAsWritten
PROPERTY LinesEnd
