------------------------------ MODULE OutputText ------------------------------
(***************************************************************************)
(* What becomes of the output of a terminal (PtyHandlerImpl.Write): each   *)
(* chunk goes through the filter of Utf8StreamFilter, and what comes out   *)
(* into the ring of LineRingBuffer and to the connections.                 *)
(***************************************************************************)
EXTENDS Utf8StreamFilter, LineRingBuffer

\* A fragment has at least a byte.
ASSUME OutputAssumption == MaxBytes <= MaxWrites

VARIABLE pieces  \* (history) the fragments of the ring, as they were sent

vars == <<filterVars, ringVars, pieces>>

Init == FilterInit /\ RingInit /\ pieces = <<>>

\* A piece ends behind each newline, and at the end.
Pieces(s) ==
    LET piece[i \in 0 .. Len(s)] ==
            IF i = 0 THEN <<>>
            ELSE IF i = 1 \/ s[i - 1] = "nl" THEN Append(piece[i - 1], <<s[i]>>)
            ELSE [piece[i - 1] EXCEPT ![Len(piece[i - 1])] = Append(@, s[i])]
    IN  piece[Len(s)]

PtyWrite(chunk, scanned) ==
    /\ ProcessRaw(chunk)
    /\ pieces' = pieces \o Pieces(out')
    /\ LET p == Pieces(out')
           fragments == [i \in DOMAIN p |-> [n |-> Len(text) + i, ended |-> Last(p[i]) = "nl"]]
       IN  scanned <= Len(p) /\ Write(fragments, scanned)

Next ==
    \E chunk \in UNION {[1 .. n -> Bytes] : n \in 1 .. MaxChunk}, scanned \in 0 .. MaxBytes :
        /\ Len(given) + Len(chunk) <= MaxBytes
        /\ PtyWrite(chunk, scanned)

Spec == Init /\ [][Next]_vars

-----------------------------------------------------------------------------
(***************************************************************************)
(* Properties.                                                             *)
(***************************************************************************)

\* Every variable has its type.
TypeOK ==
    /\ FilterTypeOK /\ RingTypeOK
    /\ Len(pieces) = Len(text)

\* Who attaches later is shown the last Size lines of what those who were there
\* have been sent, in their order, each once and whole, however the output was cut
\* into chunks: a line that came in pieces is one line, and a chunk longer than the
\* ring overwrites itself.  Only what the scanner has given up is missing
\* (exec/pty_handler.go:37-47, output/line-buffer/line_ringe_buffer.go:36-76).
ReplayIsWhatWasSent ==
    LET stored      == FlattenSeq([i \in DOMAIN text |-> IF i \in lost THEN <<>> ELSE pieces[i]])
        replayed    == FlattenSeq([i \in DOMAIN GetContent |-> pieces[GetContent[i].n]])
        newlines(i) == Cardinality({j \in i .. Len(stored) - 1 : stored[j] = "nl"})
    IN  /\ lost = {} => stored = sent
        /\ replayed = From(stored, Min({i \in 1 .. Len(stored) + 1 : newlines(i) < Size}))
=============================================================================
