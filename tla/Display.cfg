SPECIFICATION DisplaySpec
CONSTANTS
    Width = 2
    Pages = 2
    PageRows = 3
    Cell = 1
    Font <- MCFont
    PowerUpPanels <- MCPowerUpPanels
    MaxDraws = 2
INVARIANTS
    UnmarkedIsShown
PROPERTY
    ImplementsPicture
