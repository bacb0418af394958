SPECIFICATION Spec
CONSTANTS
    p = p
    q = q
    s = s
    t = t
    begin = begin
    Page = {p, q}
    Val = {1, 2}
    Name = {s, t}
    BeginName = begin
    Caps = {1, 2}
    MaxDepth = 2
PROPERTY RollbackRestores
