\* A first upload, and two more that race.
CONSTANTS
  Upload = {first, second, third}
  File = {notes, tests}
  Missing = Missing
  Broken = Broken
  Empty = Empty
SPECIFICATION Spec
PROPERTY TemplateFilesKept
CHECK_DEADLOCK FALSE
