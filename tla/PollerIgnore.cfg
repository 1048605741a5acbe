SPECIFICATION Spec
CONSTANTS
    Channels = {c1, c2, c3}
    Revents = {"IN", "HUP"}
    Fds = {0, 3, 4}
INVARIANT IgnoredIffNoEvents
