SPECIFICATION Spec
CONSTANTS
  MaxTextChars = 30
  MaxPages = 2
  MaxParagraphs = 1
  Aliases <- MCAliases
  SkillNames <- MCSkillNames
  Inside <- MCInside
  Headings <- MCHeadings
  Calendar <- MCCalendar
  RoleWords <- MCRoleWords
  DegreeWords <- MCDegreeWords
  InstitutionWords <- MCInstitutionWords
  TaskVerbs <- MCTaskVerbs
  Capitals <- MCCapitals
  Paragraphs <- MCParagraphs
  Uploads <- MCUploads
  PagesOf <- MCPagesOf
  Backends <- MCBackends
  Languages = {"en", "th", "none"}
  Similarities = {0, 501, 502}
  Now <- MCNow
  None = None
INVARIANT SortedUnrounded
CHECK_DEADLOCK FALSE
