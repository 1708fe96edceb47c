SPECIFICATION PruningSpec
CONSTANTS
    x = x
    y = y
    Names = {x, y}
PROPERTY PrunedOnFreshList
