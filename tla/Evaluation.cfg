SPECIFICATION EvaluationSpec
CONSTANTS
    RuleId = {1, 2, 3}
    Requests <- NoRequests
    Arguments <- Catalogue
    us = 1
    MaxNesting = 3
INVARIANTS
    ErrorsExactlyOnDefects
    EveryGapIsDisclosed
    ExplainsWhatFired
    SelectionsAgree
    OverridesAreReplayable
    ContradictionsAreExact
    ChangesRebuildTheTree
