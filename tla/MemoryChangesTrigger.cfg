CONSTANTS
    Topics = {c1, c2}
    MemoryTopics = {c1}
    Owners = {o1}
    Editors = {}
    MaxTime = 3
    Second = 2
    MaxRows = 1
    MaxEdits = 0
    Members = {m1, m2}
    Answers = {a1}
    MaxInvites = 1
SPECIFICATION TeamSpec
INVARIANT MemoryChangesTrigger
CHECK_DEADLOCK FALSE
