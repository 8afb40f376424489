\* Two workers and the log thread.  Workers start a line while fewer than five parts
\* are theirs, so up to eight are, one of them asks for an upload, and a stream
\* longer than ten parts is cut off.  For a chunk the log thread logs two lines and
\* the worker one (curl does not start) and, when its queue is empty, another one:
\* eight parts in all, so that some chunks are cut off because of earlier uploads.
CONSTANTS
  Workers = {"mh", "http"}
  Http = "http"
  LogThread = "log_thread"
  None = None
  MaxLog = 10
  UploadLines = {1}
  MaxParts = 5
  MaxAsks = 1
SPECIFICATION FairSpec
INVARIANTS TypeOK NoCircularWait StampedLines Conserved
PROPERTY ComesToRest
CHECK_DEADLOCK FALSE
