SPECIFICATION Spec
CONSTANTS
  u1 = u1
  u2 = u2
  k1 = k1
  a = a
  b = b
  Uploads <- MCUploads
  Deletions = {x1, x2}
  Keys <- MCKeys
  Contents <- MCContents
  Requested <- MCRequested
  NoKey = NoKey
  NoDoc = NoDoc
  NoContent = NoContent
PROPERTY RetryGetsOriginal
CHECK_DEADLOCK FALSE
