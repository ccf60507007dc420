CONSTANT Sources <- MCSources
SPECIFICATION Spec
CHECK_DEADLOCK FALSE
INVARIANTS TypeOK LinksTrue NetworkServed ZonesTrue
