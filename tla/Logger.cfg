SPECIFICATION Spec
CONSTANTS
    Threads = {main, worker}
    Paths = {log}
    NoLine = NoLine
    Levels = {0, 1}
PROPERTIES
    LineIsWritten
