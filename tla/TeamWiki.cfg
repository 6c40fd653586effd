CONSTANTS
    Topics = {c1, c2}
    MemoryTopics = {c1}
    Owners = {o1}
    Editors = {e1}
    MaxTime = 3
    Second = 2
    MaxRows = 2
    MaxEdits = 1
    Members = {m1, m2}
    Answers = {a1, a2}
    MaxInvites = 2
SPECIFICATION TeamSpec
INVARIANTS
    TeamTypeOK
    
PROPERTIES
    HumanArticlesAreNotSwept
    JoinsAreInvited
VIEW View
CONSTRAINT FewEvents
CHECK_DEADLOCK FALSE
