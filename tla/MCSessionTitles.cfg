SPECIFICATION TitlesSpec
CONSTANT Writers = {t1, t2}
PROPERTY RenamePermanent
CHECK_DEADLOCK FALSE
