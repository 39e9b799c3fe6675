\* Two concurrent callers of the handle, and a shutdown or none: everything
\* announced is published, and every call returns.
SPECIFICATION FairSpec
CONSTANTS
  Writers = {w1, w2}
  NoWriter = NoWriter
PROPERTIES EventuallyPublished CallsReturn
CHECK_DEADLOCK FALSE
