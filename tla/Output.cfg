CONSTANTS
    stdout = stdout  stderr = stderr
    Uploaders = {stdout, stderr}
    Main = Main
    None = None
    Faults = {"cancel", "drop"}
    MaxWrites = 3
SPECIFICATION FairSpec
INVARIANTS LastIsComplete OutputBeforeLast
PROPERTIES KeepsNumbering LastIsSent
