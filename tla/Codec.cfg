\* A chat frame of 11 cells and buffers of 8, two of them for text, as 1072
\* bytes and buffers of 1024 leave 976 for text.
CONSTANTS
  NameLen = 2
  ContextLen = 5
  BufferSize = 8
  Letters = {a, b}
  Nul = Nul
SPECIFICATION Spec
SYMMETRY Symmetry
INVARIANTS TypeOK RoutedAsTyped ShownAsTyped
\* A message that is on the screen is at its end.
CHECK_DEADLOCK FALSE
