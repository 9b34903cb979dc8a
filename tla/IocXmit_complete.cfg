\* The spec's promise that EAGAIN is retried until the buffer is written.
CONSTANT MaxSize = 7
SPECIFICATION Spec
INVARIANT XmitComplete
CHECK_DEADLOCK FALSE
