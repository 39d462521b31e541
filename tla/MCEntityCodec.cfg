CONSTANTS
    s1 = s1
    s2 = s2
    n0 = n0
    n30 = n30
    n40 = n40
    c0 = c0
    c1 = c1
    l0 = l0
    l1 = l1
    a1 = a1
    i1 = i1
    h1 = h1
    o0 = o0
    o1 = o1
    p1 = p1
    p2 = p2
    p3 = p3
    d1 = d1
    d2 = d2
    m1 = m1
    yes = yes
    no = no
    f1 = f1
    f2 = f2
    st0 = st0
    st1 = st1
    Null = Null
    NoDefault = NoDefault
    Values <- MCValues
    NodeClasses <- MCPlainNodes
    RelClasses <- MCRels
SPECIFICATION Spec
INVARIANTS
    TypeOK
    RoundTrip
