CONSTANTS
    vga_height = 2
    vga_width = 2
    Glyphs = {"a"}
    Newline = "nl"
    Controls = {"ctl"}
    Blank = " "
    Colors = {7, 31}
    LightGrey = 7
    MaxText = 7
SPECIFICATION TextSpec
INVARIANTS CursorInBounds ScreenShowsText
