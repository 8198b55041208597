SPECIFICATION Spec
CONSTANTS
  Blocks = 3
  BLOCK_SIZE = 2
  BLOCK_CACHE_SIZE = 2
  Value = {0, 1}
  MaxLen = 2
INVARIANTS CacheCoherent FlushedIsDurable
PROPERTIES ImplementsDisk LoopsProgress
