\* Two focus grabs over two surfaces, two popups and an ordinary surface.
CONSTANTS
    FocusGrabs = {g1, g2}
    Surfs = {x1, x2}
    Popups = {p1, p2}
    App = app
    Xdg = xdg
    None = none
SPECIFICATION Spec
INVARIANTS TypeOK GrabsAgree
PROPERTY KeyboardStaysInGrab
