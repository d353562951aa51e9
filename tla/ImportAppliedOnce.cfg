CONSTANTS
    Session = {r1, r2}
    MaxLines = 3
    MaxCommits = 2
SPECIFICATION Spec
INVARIANT AppliedOnceEver
CHECK_DEADLOCK FALSE
