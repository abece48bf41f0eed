\* Two processes at a time, started again as often as they like.
SPECIFICATION Spec
CONSTANTS
  p1 = p1  p2 = p2
  Processes = {p1, p2}
  Databases <- MCDatabases
SYMMETRY Symmetry
INVARIANTS
  SchemaComplete ViewsAgree 
PROPERTIES
  NewerUntouched
