SPECIFICATION Spec
CONSTANTS
    left = left  right = right  middle = middle  all = all  far = far
    Reads <- LiveReads
    Want <- LiveWant
    MaxCache = 4
    MaxConcurrency = 1
PROPERTIES
    ReadSettles
CHECK_DEADLOCK FALSE
