SPECIFICATION Spec
CONSTANTS
    f30 = f30
    f60 = f60
    u1 = u1
    u2 = u2
    c1 = c1
    c2 = c2
    c3 = c3
    d1 = d1
    Url = {u1, u2}
    Figure = {f30, f60}
    Chunk = {c1, c2, c3}
    Document = {d1}
    UrlOf <- MCUrlOf
    FiguresOf <- MCFiguresOf
    Entry <- MCEntry
    Held <- MCHeld
    Text <- MCText
    TopK = 2
    Companions = 1
    MaxDay = 2
    MaxEdits = 1
INVARIANT
    OnlyScheduledIsAnnounced
