-------------------------------- MODULE Redactor --------------------------------
(***************************************************************************)
(* The redaction of one stream of bytes (identity/diagnostics.py Redactor, *)
(* Writer.refresh and Writer.feed).  The bytes arrive in chunks, while     *)
(* values are registered; what the redactor lets through is the set of the *)
(* positions it shows.                                                     *)
(***************************************************************************)
EXTENDS Naturals, Sequences, FiniteSetsExt

CONSTANTS
  Bytes,        \* the bytes a program prints
  Newline,      \* the one that ends a line
  SecretValues, \* the values that can be registered
  MaxBytes      \* bound: the length of the stream

\* A value is not empty: Registry.save and the vault refuse one that is.
ASSUME RedactionAssumption == SecretValues \subseteq Seq(Bytes) \ {<<>>} /\ MaxBytes \in Nat

VARIABLES
  source,   \* "build", or "runtime" for a stream that docker splits into lines
  text,     \* what the program prints
  known,    \* the registered values, each with the bytes that had arrived before
  arrived,  \* how many bytes have arrived
  held,     \* the first byte that is held back (Redactor.pending starts there)
  shown,    \* the bytes that were let through
  closed    \* whether the last feed was the final one

redactionVars == <<source, text, known, arrived, held, shown, closed>>

\* Docker splits a text into lines, and their ends do not arrive.
Survives(byte) == source = "build" \/ byte # Newline

\* What is left of a text.
Wire(bytes) ==
  LET wire[n \in 0..Len(bytes)] ==
        IF n = 0 THEN <<>>
        ELSE IF Survives(bytes[n]) THEN Append(wire[n - 1], bytes[n])
        ELSE wire[n - 1]
  IN  wire[Len(bytes)]

Stream == Wire(text)

\* The values as they are and as they arrive.
Patterns == DOMAIN known \cup ({Wire(v) : v \in DOMAIN known} \ {<<>>})

\* The value stands in the stream at i, and has arrived whole.
Occurs(value, i, last) ==
  i + Len(value) - 1 <= last /\ \A k \in DOMAIN value : Stream[i + k - 1] = value[k]

\* All that has arrived from i on is a beginning of the value.
MayFollow(value, i, last) ==
  last - i + 1 < Len(value) /\ \A k \in 1..(last - i + 1) : Stream[i + k - 1] = value[k]

\* A faulty variant that hides a value at once, however it may go on.
EagerWait(i, last) ==
  /\ \E v \in Patterns : MayFollow(v, i, last)
  /\ ~\E v \in Patterns : Occurs(v, i, last)

\* A longer value can span the next chunk, including a shorter full match.
MustWait(i, last) == \E v \in Patterns : MayFollow(v, i, last)

\* How long the values are that stand at i.
Full(i, last) == {Len(v) : v \in {w \in Patterns : Occurs(w, i, last)}}

\* The longest value at i is hidden; what may become one is held back, or hidden
\* at the end of the stream; any other byte is shown.
Scan(first, last, final) ==
  LET scan[i \in 1..last + 1] ==
        IF i = last + 1 THEN [shown |-> {}, held |-> i]
        ELSE IF MustWait(i, last)
             THEN [shown |-> {}, held |-> IF final THEN last + 1 ELSE i]
        ELSE IF Full(i, last) # {} THEN scan[i + Max(Full(i, last))]
        ELSE [scan[i + 1] EXCEPT !.shown = @ \cup {i}]
  IN  scan[first]

RedactionInit ==
  /\ source \in {"build", "runtime"}
  /\ text \in UNION {[1..n -> Bytes] : n \in 0..MaxBytes}
  /\ \E values \in SUBSET SecretValues : known = [v \in values |-> 0]
  /\ arrived = 0 /\ held = 1 /\ shown = {} /\ closed = FALSE

\* Registry.save, by any process; each feed begins with a refresh.
Register(value) ==
  /\ ~closed /\ value \notin DOMAIN known
  /\ known' = [v \in DOMAIN known \cup {value} |-> IF v = value THEN arrived ELSE known[v]]
  /\ UNCHANGED <<source, text, arrived, held, shown, closed>>

FeedTo(last, final) ==
  LET scanned == Scan(held, last, final)
  IN  /\ arrived' = last
      /\ held' = scanned.held
      /\ shown' = shown \cup scanned.shown
      /\ closed' = final
      /\ UNCHANGED <<source, text, known>>

Feed == ~closed /\ \E last \in arrived + 1..Len(Stream) : FeedTo(last, FALSE)

\* The end of the stream: no more bytes, but what was held back must be settled.
FeedFinal == ~closed /\ arrived = Len(Stream) /\ FeedTo(arrived, TRUE)

RedactionNext == Feed \/ FeedFinal \/ \E v \in SecretValues : Register(v)

RedactionSpec == RedactionInit /\ [][RedactionNext]_redactionVars

-----------------------------------------------------------------------------
(***************************************************************************)
(* Properties                                                              *)
(***************************************************************************)

\* Where the byte that is printed at k arrives.
Arrival(k) == Len(Wire(SubSeq(text, 1, k)))

\* The positions in the stream of a value that is printed at i.
Arrivals(value, i) ==
  {Arrival(k) : k \in {j \in i..i + Len(value) - 1 : Survives(text[j])}}

IsPrinted(value, i) ==
  /\ i + Len(value) - 1 <= Len(text)
  /\ SubSeq(text, i, i + Len(value) - 1) = value

\* No value that was registered before its first byte arrived comes out whole.
NothingLeaks ==
  \A v \in DOMAIN known, i \in DOMAIN text :
    IsPrinted(v, i) /\ Arrivals(v, i) # {} /\ (\A p \in Arrivals(v, i) : p > known[v])
      => ~(Arrivals(v, i) \subseteq shown)

\* Whatever is hidden is part of a value, or the stream ended in the middle of one.
NothingElseHidden ==
  closed => \A p \in 1..Len(Stream) \ shown : \E i \in 1..p :
    \/ \E v \in Patterns : Occurs(v, i, Len(Stream)) /\ p < i + Len(v)
    \/ MustWait(i, Len(Stream))

\* Where the chunks end makes no difference.
SplitIsInvisible ==
  closed /\ (\A v \in DOMAIN known : known[v] = 0)
    => shown = Scan(1, Len(Stream), TRUE).shown

\* The redaction is exact however the stream is cut into chunks: nothing leaks,
\* nothing else is hidden, and the result does not depend on the cuts
\* (diagnostics.py:142-167 and 192-203).
RedactionExact == NothingLeaks /\ NothingElseHidden /\ SplitIsInvisible

=============================================================================
