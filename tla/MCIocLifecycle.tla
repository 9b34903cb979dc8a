--------------------------- MODULE MCIocLifecycle ---------------------------
(* The channel table for TLC: the first entries of ioc_ch_tbl (PMT off,   *)
(* LFCC and SIGNAL on, one RAW channel) and the virtual UART last, as in  *)
(* the table.  The other RAW channels behave as raw0 does.                *)
EXTENDS IocLifecycle

CONSTANTS pmt, lfcc, sig, raw0, uart

MCTable == <<pmt, lfcc, sig, raw0, uart>>
MCOn == {lfcc, sig, raw0, uart}
MCCritical == {lfcc, uart}
=============================================================================
