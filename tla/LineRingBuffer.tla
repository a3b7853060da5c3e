---------------------------- MODULE LineRingBuffer ----------------------------
(***************************************************************************)
(* The buffer of an exec's output (package line_buffer), replayed to the   *)
(* clients that attach later: a ring of Size lines, filled by Write with   *)
(* chunks that begin and end anywhere in a line, and read by GetContent.   *)
(* Both run under one lock, hence one action for Write and an operator for *)
(* GetContent.                                                             *)
(*                                                                         *)
(* Text is abstracted to fragments, the tokens scanLinesNoDropCR cuts a    *)
(* chunk into: each is a piece of a line that ends with a newline or not,  *)
(* and only the last of a chunk may not.  A line is the sequence of its    *)
(* fragments, and n numbers them to tell them apart.                       *)
(***************************************************************************)
EXTENDS Integers, SequencesExt

CONSTANTS
    Size,       \* lineBufferSize
    MaxWrites   \* bound: fragments written in all

ASSUME RingAssumption == Size \in Nat \ {0} /\ MaxWrites \in Nat

VARIABLES
    ring,   \* the values of the ring's elements; <<>> is nil
    next,   \* the element lineBuff.ring points to, the next one to be written
    text,   \* history: every fragment ever passed to Write
    lost    \* history: the numbers of those the scanner did not deliver

ringVars == <<ring, next, text, lost>>

Slots     == 0 .. Size - 1
Fragments == [n : 1 .. MaxWrites, ended : BOOLEAN]

RingInit ==
    /\ ring = [p \in Slots |-> <<>>]
    /\ next = 0
    /\ text = <<>>
    /\ lost = {}

-----------------------------------------------------------------------------
\* The element i steps after p (Next and Prev of container/ring).
Beyond(p, i) == (p + i) % Size

\* Mutant: the last line is never continued.
NeverContinue(line) == FALSE

\* shouldContinueLastRing: the line last written exists and is not ended.
ShouldContinue(line) == line # <<>> /\ ~Last(line).ended

\* Mutant: the ring grows instead of coming round.
PutGrows(r, from, tokens) ==
    [p \in DOMAIN r \cup {from + i - 1 : i \in DOMAIN tokens} |->
        IF p \in from .. from + Len(tokens) - 1 THEN <<tokens[p - from + 1]>> ELSE r[p]]

\* Each token is put at the next element, over what was there: the last token that
\* comes to p stays.
Put(r, from, tokens) ==
    [p \in Slots |->
        LET hits == {i \in DOMAIN tokens : Beyond(from, i - 1) = p}
        IN  IF hits = {} THEN r[p] ELSE <<tokens[Max(hits)]>>]

\* Write, of which the scanner delivers the first scanned fragments: all of them,
\* unless one reaches bufio.MaxScanTokenSize, 64 KB, which ends the scan without
\* a word.  (A chunk is read into 32 KB, but each invalid byte of it becomes a
\* placeholder of three.)
Write(chunk, scanned) ==
    LET last   == Beyond(next, Size - 1)
        tokens == SubSeq(chunk, 1, scanned)
        joined == tokens # <<>> /\ ShouldContinue(ring[last])
        rest   == IF joined THEN Tail(tokens) ELSE tokens
        ring1  == IF joined THEN [ring EXCEPT ![last] = Append(@, Head(tokens))] ELSE ring
    IN  /\ ring' = Put(ring1, next, rest)
        /\ next' = Beyond(next, Len(rest))
        /\ text' = text \o chunk
        /\ lost' = lost \cup {chunk[i].n : i \in scanned + 1 .. Len(chunk)}

GetContent == FlattenSeq([i \in 1 .. Size |-> ring[Beyond(next, i - 1)]])

-----------------------------------------------------------------------------
(***************************************************************************)
(* Properties.                                                             *)
(***************************************************************************)

\* Every variable has its type.
RingTypeOK ==
    /\ ring \in [Slots -> Seq(Fragments)]
    /\ next \in Slots
    /\ text \in Seq(Fragments)
    /\ lost \subseteq 1 .. MaxWrites
=============================================================================
