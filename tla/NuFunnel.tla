------------------------------ MODULE NuFunnel ------------------------------
(***************************************************************************)
(* The funnel of nufxlib/Funnel.c: expanded data is collected in a buffer  *)
(* and passed on to the data sink in pieces, with its line ends converted   *)
(* when the sink asks for that.  In auto mode the first piece decides.      *)
(* A funnel is a record: buf, first (no piece passed on yet), conv and to   *)
(* (what the sink asked for), lastCR, out (what the sink was given).        *)
(* Stripping of high ASCII is left out.                                    *)
(***************************************************************************)
EXTENDS Integers, Sequences, SequencesExt, FiniteSets

CONSTANTS
    CR, LF,         \* the line-end characters
    Binary,         \* gNuIsBinary: characters that do not belong in text
    FunnelBufSize,  \* kNuFunnelBufSize (16384)
    MinConv,        \* kNuMinConvThreshold (40)
    MaxBinary       \* binary characters text may have (1, in the short form)

\* What the constants have to be; assumed by NuCodec.
FunnelAssumption ==
    /\ CR # LF /\ FunnelBufSize \in Nat \ {0} /\ MinConv \in Nat /\ MaxBinary \in Nat

FunnelNew(conv, to) ==
    [buf |-> <<>>, first |-> TRUE, conv |-> conv, to |-> to, lastCR |-> FALSE,
     out |-> <<>>]

Count(data, chars) == Cardinality({i \in DOMAIN data : data[i] \in chars})

\* The kind of line end a piece of text has, "unknown" when it is mixed.
LineEndOf(data) ==
    LET lf == Count(data, {LF})
        cr == Count(data, {CR})
    IN  CASE lf > 0 /\ cr = 0  -> "LF"
          [] lf = 0 /\ cr > 0  -> "CR"
          [] lf > 0 /\ lf = cr -> "CRLF"
          [] OTHER             -> "unknown"

\* Nu_DetermineConversion, and the converter switched off when it is redundant.
DetermineConversion(data, to) ==
    IF \/ Len(data) < MinConv
       \/ Count(data, Binary) > MaxBinary
       \/ LineEndOf(data) = to
    THEN "off" ELSE "on"

EOL(to) == CASE to = "CR" -> <<CR>> [] to = "LF" -> <<LF>> [] to = "CRLF" -> <<CR, LF>>

\* One character through the converter: an LF right after a CR belongs to it.
convertChar(f, c) ==
    [f EXCEPT !.lastCR = (c = CR),
              !.out = @ \o (IF c = CR \/ (c = LF /\ ~f.lastCR) THEN EOL(f.to)
                            ELSE IF c = LF THEN <<>> ELSE <<c>>)]

\* mutant: every piece starts without remembering the CR before it
FunnelWriteConvertAnew(f, data) ==
    LET conv == IF f.first /\ f.conv = "auto" THEN DetermineConversion(data, f.to)
                ELSE f.conv
        start == [f EXCEPT !.first = FALSE, !.conv = conv, !.lastCR = FALSE]
        after[i \in 0 .. Len(data)] ==
            IF i = 0 THEN start ELSE convertChar(after[i - 1], data[i])
    IN  IF conv = "off" THEN [start EXCEPT !.out = @ \o data] ELSE after[Len(data)]

FunnelWriteConvert(f, data) ==
    LET conv == IF f.first /\ f.conv = "auto" THEN DetermineConversion(data, f.to)
                ELSE f.conv
        start == [f EXCEPT !.first = FALSE, !.conv = conv]
        after[i \in 0 .. Len(data)] ==
            IF i = 0 THEN start ELSE convertChar(after[i - 1], data[i])
    IN  IF conv = "off" THEN [start EXCEPT !.out = @ \o data] ELSE after[Len(data)]

FunnelFlush(f) ==
    IF f.buf = <<>> THEN f ELSE [FunnelWriteConvert(f, f.buf) EXCEPT !.buf = <<>>]

\* Data that does not fit flushes the buffer; a large piece then goes straight
\* to the sink and a small one starts the buffer again.
FunnelWrite(f, data) ==
    IF Len(f.buf) + Len(data) < FunnelBufSize THEN [f EXCEPT !.buf = @ \o data]
    ELSE IF Len(data) >= FunnelBufSize \div 4
         THEN FunnelWriteConvert(FunnelFlush(f), data)
         ELSE [FunnelFlush(f) EXCEPT !.buf = data]

\* The expanders that decode one character at a time write each by itself.
FunnelWriteEach(f, data) ==
    LET after[i \in 0 .. Len(data)] ==
            IF i = 0 THEN f ELSE FunnelWrite(after[i - 1], <<data[i]>>)
    IN  after[Len(data)]

(***************************************************************************)
(* What a conversion means, whatever the pieces: every CR, LF and CR LF of  *)
(* the text is one line end, everything else is kept.                      *)
(***************************************************************************)
Converted(text, to) ==
    FlattenSeq([i \in DOMAIN text |->
        IF text[i] \notin {CR, LF} THEN <<text[i]>>
        ELSE IF text[i] = LF /\ i > 1 /\ text[i - 1] = CR THEN <<>>
        ELSE EOL(to)])
=============================================================================
