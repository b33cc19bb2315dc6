SPECIFICATION Spec
CONSTANTS
  Tasks = {t1, t2}
INVARIANTS TypeOK OwnersTold ClosingTells NothingUnaccounted
PROPERTIES ExitEnds
