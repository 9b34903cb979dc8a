\* Buffers of up to seven bytes, every split into short writes, EAGAIN and
\* hard errors at every point.
CONSTANT MaxSize = 7
SPECIFICATION Spec
INVARIANT XmitWritesPrefix
PROPERTY XmitTerminates
\* ioc_ch_xmit returns: nothing happens after its return.
CHECK_DEADLOCK FALSE
