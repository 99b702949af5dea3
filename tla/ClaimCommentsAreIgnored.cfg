\* As many comments in a row as MAX_EMPTY_LOOP, beside a query.
SPECIFICATION Spec
CONSTANTS
    Kinds = {"comment", "normal"}
    MaxLines = 3
    MaxEmpty = 2
    MaxServed = 2
INVARIANT
    CommentsAreIgnored
