------------------------------- MODULE IocParse -------------------------------
(***************************************************************************)
(* ioc_parse (src/hw/platform/ioc.c): the option string                    *)
(* "<virtual-uart-path>,<boot-reason>" is strdup'd, cut by strtok at the   *)
(* commas, the path copied with snprintf into virtual_uart_path[32], and   *)
(* the second token given to strtoul(tmp, 0, 0).  Strings are sequences   *)
(* over a small alphabet: a path character "p", the delimiter "," and the  *)
(* digits "0" and "1"; strtok's writes of NUL into the copy are the        *)
(* element NUL.  Positions are 1-based; a NULL pointer is 0.               *)
(***************************************************************************)
EXTENDS Naturals, Sequences, SequencesExt

CONSTANTS
    MaxLen,     \* bound: length of the option string
    PathSize    \* sizeof(virtual_uart_path)

Alphabet == {"p", ",", "0", "1"}
NUL == "nul"
NULL == 0
Digits == {"0", "1"}

VARIABLES
    opts,        \* the option string
    param,       \* the strdup'd copy, as strtok leaves it
    save,        \* strtok's saved position
    tmp,         \* the token strtok returned, or NULL
    path,        \* virtual_uart_path
    bootReason,  \* ioc_boot_reason
    pc           \* "tok", "copy", "tok2", "strtoul", "free", "done", "crashed"

vars == <<opts, param, save, tmp, path, bootReason, pc>>

\* The end of the C string at p: the first NUL, or the end of the buffer.
RECURSIVE CStrEnd(_, _)
CStrEnd(s, p) == IF p > Len(s) \/ s[p] = NUL THEN p ELSE CStrEnd(s, p + 1)

\* The C string starting at p.
CStr(s, p) == SubSeq(s, p, CStrEnd(s, p) - 1)

\* strtok's strspn: the first position from p that is not a delimiter.
RECURSIVE SkipDelims(_, _)
SkipDelims(s, p) ==
    IF p <= Len(s) /\ s[p] = "," THEN SkipDelims(s, p + 1) ELSE p

\* strtok's strcspn: the first delimiter or NUL from p.
RECURSIVE TokenEnd(_, _)
TokenEnd(s, p) ==
    IF p > Len(s) \/ s[p] \in {",", NUL} THEN p ELSE TokenEnd(s, p + 1)

\* strtok from position p, glibc's: skip delimiters; at the end of the
\* string return NULL; else end the token with a NUL at its delimiter and
\* save the position after it.  The result is [tok, buf, save].
StrtokFrom(s, p) ==
    LET b == SkipDelims(s, p)
        e == TokenEnd(s, b)
    IN IF b > Len(s) \/ s[b] = NUL
       THEN [tok |-> NULL, buf |-> s, save |-> b]
       ELSE IF e <= Len(s) /\ s[e] = ","
            THEN [tok |-> b, buf |-> [s EXCEPT ![e] = NUL], save |-> e + 1]
            ELSE [tok |-> b, buf |-> s, save |-> e]

\* strtoul(s, 0, 0) over the alphabet: a leading "0" selects octal, the
\* digits run up to the first non-digit.  The result is stored in a
\* uint32_t; values of MaxLen digits stay far below 2^32, so the
\* truncation is the identity here.
StrtoulValue(s) ==
    LET base == IF Len(s) > 0 /\ s[1] = "0" THEN 8 ELSE 10
        run  == SubSeq(s, 1, LET RECURSIVE D(_)
                                 D(k) == IF k <= Len(s) /\ s[k] \in Digits
                                         THEN D(k + 1) ELSE k - 1
                             IN D(1))
        Acc(v, d) == v * base + (IF d = "1" THEN 1 ELSE 0)
    IN FoldLeft(Acc, 0, run)

Init ==
    /\ opts \in BoundedSeq(Alphabet, MaxLen)
    /\ param = opts /\ save = 1 /\ tmp = NULL
    /\ path = <<>> /\ bootReason = 0 /\ pc = "tok"

\* Mutant: strtok that does not terminate the token.
StrtokPathNoNul ==
    /\ pc = "tok"
    /\ LET r == StrtokFrom(param, 1)
       IN tmp' = r.tok /\ save' = r.save /\ UNCHANGED param
    /\ pc' = "copy"
    /\ UNCHANGED <<opts, path, bootReason>>

\* param = strdup(opts); tmp = strtok(param, ",").
StrtokPath ==
    /\ pc = "tok"
    /\ LET r == StrtokFrom(param, 1)
       IN tmp' = r.tok /\ param' = r.buf /\ save' = r.save
    /\ pc' = "copy"
    /\ UNCHANGED <<opts, path, bootReason>>

\* Mutant: the copy is bounded by sizeof - 1, as if the NUL were not
\* counted by snprintf.
CopyPathShort ==
    /\ pc = "copy"
    /\ path' = LET s == CStr(param, 1)
               IN SubSeq(s, 1, IF Len(s) < PathSize - 1 THEN Len(s) ELSE PathSize - 2)
    /\ pc' = IF tmp /= NULL THEN "tok2" ELSE "free"
    /\ UNCHANGED <<opts, param, save, tmp, bootReason>>

\* snprintf(virtual_uart_path, sizeof, "%s", param): param, not tmp, is
\* copied, truncated to sizeof - 1 characters.
CopyPath ==
    /\ pc = "copy"
    /\ path' = LET s == CStr(param, 1)
               IN SubSeq(s, 1, IF Len(s) < PathSize THEN Len(s) ELSE PathSize - 1)
    /\ pc' = IF tmp /= NULL THEN "tok2" ELSE "free"
    /\ UNCHANGED <<opts, param, save, tmp, bootReason>>

\* tmp = strtok(NULL, ",").
StrtokReason ==
    /\ pc = "tok2"
    /\ LET r == StrtokFrom(param, save)
       IN tmp' = r.tok /\ param' = r.buf /\ save' = r.save
    /\ pc' = "strtoul"
    /\ UNCHANGED <<opts, path, bootReason>>

\* ioc_boot_reason = strtoul(tmp, 0, 0).
Strtoul ==
    /\ pc = "strtoul" /\ tmp /= NULL
    /\ bootReason' = StrtoulValue(CStr(param, tmp))
    /\ pc' = "free"
    /\ UNCHANGED <<opts, param, save, tmp, path>>

\* strtoul(NULL, 0, 0) dereferences NULL: the DM takes SIGSEGV.
StrtoulNull ==
    /\ pc = "strtoul" /\ tmp = NULL
    /\ pc' = "crashed"
    /\ UNCHANGED <<opts, param, save, tmp, path, bootReason>>

\* free(param); return 0.
Free ==
    /\ pc = "free" /\ pc' = "done"
    /\ UNCHANGED <<opts, param, save, tmp, path, bootReason>>

Next == StrtokPath \/ CopyPath \/ StrtokReason \/ Strtoul \/ StrtoulNull \/ Free

\* ioc_parse runs on the DM thread; only invariants are checked, so no
\* fairness is assumed.
Spec == Init /\ [][Next]_vars

-----------------------------------------------------------------------------
\* The option strings the spec (section 6) describes: a path without
\* commas that fits the 32-byte buffer with its NUL, a comma, and the boot
\* reason's digits.
WellFormed(s) ==
    \E k \in 2..(Len(s) - 1) :
        /\ s[k] = "," /\ k - 1 < PathSize
        /\ \A j \in 1..(k - 1) : s[j] /= ","
        /\ \A j \in (k + 1)..Len(s) : s[j] \in Digits

\* The number the digits ds denote in the base their first digit selects
\* (a leading 0 is octal), reading the last digit last.
RECURSIVE Number(_, _)
Number(ds, base) ==
    IF ds = <<>> THEN 0
    ELSE Number(Front(ds), base) * base + (IF Last(ds) = "1" THEN 1 ELSE 0)

\* A well-formed option string sets virtual_uart_path to the path part
\* and ioc_boot_reason to the number after the comma.
ParsesWellFormed ==
    (pc = "done" /\ WellFormed(opts)) =>
        LET k == CHOOSE j \in 1..Len(opts) : opts[j] = ","
            ds == SubSeq(opts, k + 1, Len(opts))
        IN /\ path = SubSeq(opts, 1, k - 1)
           /\ bootReason = Number(ds, IF ds[1] = "0" THEN 8 ELSE 10)

\* ioc_parse never hands strtoul a NULL token (spec S4 runs init with
\* ",0" and expects NULL back, not a crash; section 4.6 asks for a path
\* and a boot reason, and an option with none must be rejected).
StrtoulNeverNull == pc /= "crashed"
=============================================================================
