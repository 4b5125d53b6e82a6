SPECIFICATION Spec
CONSTANTS
    Glyphs = {a, b}
    Others = {tab}
    GLYPH_WIDTH = 2
    GLYPH_HEIGHT = 2
    Modes <- UnpaddedModes
    MAX_ROWS = 5
INVARIANTS TypeOK DrawsInside ShowsNewestRows
PROPERTY NewLineScrolls
