\* Httpcheck's message against Substitute, over every MsgJsonpath of up to
\* five tokens with at most one marker.
SPECIFICATION Spec
CONSTANTS
    ExtractOutcomes = {"ok"}
    MaxScale = 0
    MaxTemplate = 5
INVARIANTS
    MessageMeetsContract
