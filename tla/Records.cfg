CONSTANTS
    x = x
    y = y
    s = s
    None = None
    Literal = Literal
    Things = {x, y, s}
    Adapters = {"figure_official_site", "lovehotel_couples"}
    Pages <- MCPages
    MaxPages = 2
SYMMETRY Symmetry
SPECIFICATION Spec
INVARIANTS IdsApart JsonLdPrevails SubjectKept
