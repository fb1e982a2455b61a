SPECIFICATION Spec
CHECK_DEADLOCK FALSE
INVARIANTS ListsAndAspects JsonReadsBack ValuesReadBack
