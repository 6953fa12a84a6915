CONSTANTS
    None = None
    SanMoves = {m1, m2, m3, m4, m5, m6}
    Texts = {hint, remark}
    Results = {won, drawn}
    m1 = m1
    m2 = m2
    m3 = m3
    m4 = m4
    m5 = m5
    m6 = m6
    hint = hint
    remark = remark
    won = won
    drawn = drawn
    event = event
    other = other
    FirstDocument <- TheDocument
    Imported <- Pasted
    Tags = {other}
    Variations <- NewLines
    Notes <- NewNotes
    MaxRevision = 1
    MaxDocument = 1
    MaxMoves = 6
SPECIFICATION Spec
INVARIANTS SourceAdvances
