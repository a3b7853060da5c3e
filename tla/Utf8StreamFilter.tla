--------------------------- MODULE Utf8StreamFilter ---------------------------
(***************************************************************************)
(* The filter of an exec's output (package utf8stream): invalid bytes      *)
(* become placeholders, and the bytes of a character cut in two by a chunk *)
(* wait in rest for the next chunk.                                        *)
(*                                                                         *)
(* A byte is known by its class: "char" or "nl", a character of its own;   *)
(* "lead2" to "lead4", the first byte of a longer one; "cont", another     *)
(* byte of it; "bad", a byte no character has.  A lead3 is "leadFFFD" if   *)
(* what follows can only make it U+FFFD, which as a rune is RuneError      *)
(* itself.  The bytes after a lead byte that UTF-8 excludes although they  *)
(* are continuations are left out.                                         *)
(*                                                                         *)
(* ProcessRaw does not copy what it keeps: rest is a slice of the buffer   *)
(* of io.Copy, into which the next chunk is read before ProcessRaw sees    *)
(* it.  This is the filter of a terminal; without one, stdout and stderr   *)
(* share it, with a lock no more than here.                                *)
(***************************************************************************)
EXTENDS Integers, SequencesExt

CONSTANTS
    Bytes,       \* classes of bytes that occur
    BufferSize,  \* of io.Copy, 32 KB in the code
    MaxChunk,    \* bound: bytes of one chunk
    MaxBytes     \* bound: bytes in all

Widths == [char |-> 1, nl |-> 1, lead2 |-> 2, lead3 |-> 3, leadFFFD |-> 3, lead4 |-> 4,
           cont |-> 0, bad |-> 0]
UTFMax == 4
Placeholder == "fffd"

ASSUME FilterAssumption ==
    /\ Bytes \subseteq DOMAIN Widths
    /\ BufferSize \in Nat /\ MaxChunk \in 1 .. BufferSize /\ MaxBytes \in Nat

VARIABLES
    rest,       \* sf.rest
    at,         \* where in the buffer it begins, or Own if it is a slice of something else
    out,        \* what the last call returned
    given,      \* (history) all bytes received
    sent,       \* (history) everything returned
    overwritten \* (history) a byte of rest was overwritten by a chunk

filterVars == <<rest, at, out, given, sent, overwritten>>

Own == -1

FilterInit ==
    /\ rest = <<>> /\ at = Own /\ out = <<>>
    /\ given = <<>> /\ sent = <<>> /\ overwritten = FALSE

-----------------------------------------------------------------------------
\* The character at j is there as a whole, but for its end if that may be cut off.
Whole(s, j, cut) ==
    /\ s[j] # Placeholder /\ Widths[s[j]] > 0
    /\ \A k \in j + 1 .. j + Widths[s[j]] - 1 : IF k <= Len(s) THEN s[k] = "cont" ELSE cut

\* Text: each byte is a placeholder or belongs to such a character.  This is what
\* utf8.Valid finds, with no end cut off.
Text(s, cut) ==
    \A i \in DOMAIN s :
        \/ s[i] = Placeholder
        \/ \E j \in 1 .. i : Whole(s, j, cut) /\ i < j + Widths[s[j]]

\* The bytes from i on, and a result with something in front.
From(s, i) == SubSeq(s, i, Len(s))
Before(prefix, result) == [out |-> prefix \o result.out, rest |-> result.rest]

\* ReadRune: the width of the character at i, 0 if there is none.
RuneWidth(s, i) ==
    LET n == Widths[s[i]]
    IN  IF i + n - 1 <= Len(s) /\ \A k \in i + 1 .. i + n - 1 : s[k] = "cont" THEN n ELSE 0

RuneStart(b) == b # "cont"

\* Mutant: what may be the beginning of a character is sent.
HandleLastBytesSends(s) == [out |-> s, rest |-> <<>>]

\* handleLastBytes, for the bytes s at the end of the data.  Only the second byte and
\* the third are looked at, whatever the first one is.
HandleLastBytes(s) ==
    LET last[i \in 1 .. Len(s)] ==
            IF ~RuneStart(s[i])
              THEN IF i = Len(s) THEN [out |-> <<Placeholder>>, rest |-> <<>>]
                   ELSE Before(<<Placeholder>>, last[i + 1])
            ELSE IF i = Len(s)
              THEN IF Widths[s[i]] = 1 THEN [out |-> <<s[i]>>, rest |-> <<>>]
                   ELSE [out |-> <<>>, rest |-> <<s[i]>>]
            ELSE IF s[i + 1] # "cont" THEN Before(<<Placeholder>>, last[i + 1])
            ELSE IF i + 2 <= Len(s) /\ s[i + 2] # "cont"
              THEN Before(<<Placeholder, Placeholder>>, last[i + 2])
            ELSE [out |-> <<>>, rest |-> From(s, i)]
    IN  last[1]

\* Mutant: only two bytes may wait.
TwoBytesLeft(dataLen, i) == dataLen - i < UTFMax - 2

\* The distance to the end is that of the chunk, although data may begin with what
\* was kept.
CloseToTheEnd(dataLen, i) == dataLen - (i - 1) < UTFMax

\* The loop of ProcessRaw over data.  U+FFFD in the input looks like an error.
Filter(data, dataLen) ==
    LET loop[i \in 1 .. Len(data) + 1] ==
            IF i > Len(data) THEN [out |-> <<>>, rest |-> <<>>]
            ELSE IF /\ RuneWidth(data, i) = 0 \/ data[i] = "leadFFFD"
                    /\ CloseToTheEnd(dataLen, i) /\ RuneStart(data[i])
              THEN HandleLastBytes(From(data, i))
            ELSE IF RuneWidth(data, i) = 0 THEN Before(<<Placeholder>>, loop[i + 1])
            ELSE Before(SubSeq(data, i, i + RuneWidth(data, i) - 1), loop[i + RuneWidth(data, i)])
    IN  loop[1]

Filtered(data, dataLen) ==
    IF Text(data, FALSE) THEN [out |-> data, rest |-> <<>>] ELSE Filter(data, dataLen)

\* What rest says once the chunk has been read into the buffer.
Kept(chunk) ==
    [i \in DOMAIN rest |-> IF at # Own /\ at + i <= Len(chunk) THEN chunk[at + i] ELSE rest[i]]

\* Mutant: what was kept is put behind the chunk.
ProcessRawAppends(chunk) ==
    LET data   == chunk \o Kept(chunk)
        result == Filtered(data, Len(chunk))
    IN  /\ rest' = result.rest /\ out' = result.out
        /\ at' = Own
        /\ given' = given \o chunk /\ sent' = sent \o result.out
        /\ overwritten' = (overwritten \/ Kept(chunk) # rest)

\* append stays in the buffer if there is room behind rest.
ProcessRaw(chunk) ==
    LET data    == Kept(chunk) \o chunk
        result  == Filtered(data, Len(chunk))
        start   == IF rest = <<>> THEN 0 ELSE at
        inPlace == start # Own /\ start + Len(data) <= BufferSize
    IN  /\ rest' = result.rest /\ out' = result.out
        /\ at' = IF inPlace /\ rest' # <<>> THEN start + Len(data) - Len(rest') ELSE Own
        /\ given' = given \o chunk /\ sent' = sent \o result.out
        /\ overwritten' = (overwritten \/ Kept(chunk) # rest)

-----------------------------------------------------------------------------
(***************************************************************************)
(* Properties.                                                             *)
(***************************************************************************)

\* Every variable has its type.
FilterTypeOK ==
    /\ {rest, given} \subseteq Seq(Bytes)
    /\ {out, sent} \subseteq Seq(Bytes \cup {Placeholder})
    /\ at \in {Own} \cup 0 .. BufferSize - 1
    /\ overwritten \in BOOLEAN

\* What goes to the websocket connections in one message is valid UTF-8, whatever
\* bytes come and however they are cut (utf8-stream-filter.go:30-143).
OutputIsText == Text(out, FALSE)

\* No byte is lost, doubled or moved: what has been sent is what was received, with
\* some bytes replaced one by one, and the remainder is the end of it; rests that
\* were overwritten apart (utf8-stream-filter.go:30-143).
OnlyReplaces ==
    /\ Len(sent) + Len(rest) = Len(given)
    /\ ~overwritten =>
          /\ \A i \in DOMAIN sent : sent[i] \in {given[i], Placeholder}
          /\ \A i \in DOMAIN rest : rest[i] = given[Len(sent) + i]

\* Valid text comes through as it is, wherever it is cut.  What is held back meanwhile
\* is a character not yet complete, or begins with a U+FFFD that was taken for an
\* error, and nothing is once all characters are complete; rests that were overwritten
\* apart (utf8-stream-filter.go:35-82, 84-143).
TextComesThrough ==
    ~overwritten /\ Text(given, TRUE) =>
        /\ sent \o rest = given
        /\ rest # <<>> => rest[1] = "leadFFFD" \/ Len(rest) < Widths[rest[1]]
        /\ Text(given, FALSE) => rest = <<>>

\* "holds remainder of data in buffer. is used when a rune is splitted between two
\* data pieces." (output/utf8stream/utf8-stream-filter.go:23-24)
SplitRunesSurvive == Text(given, TRUE) => sent \o rest = given
=============================================================================
