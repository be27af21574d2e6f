SPECIFICATION Spec
CONSTANTS
  Boots <- HighBitmaps
  Devices = {15}
  LEVELS = 3
  ENTRIES = 5
  HHDM = 3
  LOW_FRAMES = 2
  BITMAP_FRAMES = 2
  HEAP_MIN = 3
  MMIO_PAGES = 3
  UserPages <- Pages
  MaxSpaces = 2
INVARIANTS   MmioStays
PROPERTIES PagesKept
