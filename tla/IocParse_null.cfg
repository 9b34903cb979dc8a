\* Option strings without a boot reason: strtoul receives NULL.
CONSTANTS
    MaxLen = 5
    PathSize = 32
SPECIFICATION Spec
INVARIANT StrtoulNeverNull
\* ioc_parse returns, or the DM has crashed: nothing follows either.
CHECK_DEADLOCK FALSE
