CONSTANTS
    Main = Main
    Nil = Nil
    Worker = {w1, w2}
    Caller = {Main}
    Destroyer = {}
    Task = {t1}
SPECIFICATION Spec
PROPERTIES
    AddedIsRun
CHECK_DEADLOCK FALSE
