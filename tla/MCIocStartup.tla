---------------------------- MODULE MCIocStartup ----------------------------
(* The channel table of MCIocLifecycle: PMT off, LFCC and SIGNAL on, one   *)
(* RAW channel, and the virtual UART last.                                 *)
EXTENDS IocStartup

CONSTANTS pmt, lfcc, sig, raw0, uart

MCTable == <<pmt, lfcc, sig, raw0, uart>>
MCOn == {lfcc, sig, raw0, uart}
MCCritical == {lfcc, uart}
=============================================================================
