CONSTANTS
    Decisions <- LabelDecisions
    Checks = {}
    Edits <- LabelEdits
    MaxEdits = 3
    MaxFaults = 1
    MaxCrashes = 1
SPECIFICATION CaseSpec
INVARIANT LabelsCatchUp
PROPERTY DecisionsBecomeCases
PROPERTY BreachesAreAlerted
\* The analysts may do nothing more.
CHECK_DEADLOCK FALSE
