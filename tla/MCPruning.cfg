SPECIFICATION PruningSpec
CONSTANTS
    x = x
    y = y
    Names = {x, y}
PROPERTIES PrunedWasMissing PrunedIsGone
