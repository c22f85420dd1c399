\* What PUT is documented to do, next to seeds.py.
SPECIFICATION Spec
CONSTANTS
    title = title
    score = score
    v1 = v1
    v2 = v2
    t1 = t1
    t2 = t2
    c1 = c1
    Columns = {title, score}
    Values = {v1, v2}
    Tags = {t1, t2}
    Categories = {c1}
    Requests = {r1, r2}
    None = None
    Absent = Absent
    Documents <- EveryDocument
    Seeds <- TheSeed
SYMMETRY Symmetry
PROPERTIES PutReplaces
\* The handlers may all be idle with the resource gone and its id used.
CHECK_DEADLOCK FALSE
