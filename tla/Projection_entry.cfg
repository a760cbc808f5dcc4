\* The prompt of the configuration: four numbers, with commas and a slice
\* without a key.
SPECIFICATION Spec
CHECK_DEADLOCK FALSE
CONSTANTS
    Values = 4
    Corners = 4
    MaxInput = 8
    MaxClicks = 0
PROPERTY EnteredIsConfigured
