CONSTANT Loads <- MCLoads
SPECIFICATION Spec
CHECK_DEADLOCK FALSE
INVARIANT RowsSound
 
INVARIANT SearchFinds
 
 
