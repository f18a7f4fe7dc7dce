CONSTANTS
    vga_height = 2
    vga_width = 2
    Glyphs = {"a", "w"}
    Newline = "nl"
    Controls = {"ctl"}
    Blank = " "
    Colors = {7}
    LightGrey = 7
    Warning <- ShortWarning
    MaxIrqs = 2
    MaxRow = 4
SPECIFICATION IrqSpec
INVARIANT RowInBoundsAtRest
CHECK_DEADLOCK FALSE
