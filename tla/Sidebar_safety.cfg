CONSTANTS
    Projects <- ThreeProjects
    Menu <- Addresses
    Cells <- Widths
    MetaWidth = 16
    Self = "a"
    AgentsOf <- Agents
    ServicesOf <- Services
    SidecarsOf <- Sidecars
    Facts <- SomeFacts
    Starts <- Found
    Heights = {2, 6, 9, 12, 16, 24}
    MaxWindows = 2
    MaxEvents = 3
SPECIFICATION Spec
INVARIANTS DrawnIsClicked QuietFoldsFirst SignalsSurvive OneDoor
CHECK_DEADLOCK FALSE
