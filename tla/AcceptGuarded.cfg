CONSTANTS
    Quote = {q1}
    Caller = {c1, c2}
SPECIFICATION Spec
PROPERTY AcceptGuarded
