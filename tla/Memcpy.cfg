\* Every alignment, every size up to eight pages, and up to two pages with an error.
SPECIFICATION Spec
CONSTANTS
  vm_page_size = 3
  VMCOPY_PAGES = 2
  WINDOW_PAGES = 3
  MAX_SIZE = 24
  MAX_BAD = 2
  SIZE_T = 256
CHECK_DEADLOCK FALSE
INVARIANTS Cursors InWindow SizeActual AssertionsHold
