------------------------------ MODULE Diagnostics ------------------------------
(***************************************************************************)
(* One app's runtime log (identity/diagnostics.py): what its container     *)
(* prints goes over a connection to the collector (identity/collector.py), *)
(* which stores it in records of bounded total size, and a reader pages    *)
(* through them.                                                           *)
(***************************************************************************)
EXTENDS Naturals, SequencesExt

CONSTANTS
  Volume,       \* VOLUME["runtime"]
  Sizes,        \* what a record may take
  PageLimit,    \* the most records of a page, by number or by size
  MaxLines,     \* bound: the lines the container prints
  MaxFailures   \* bound: broken connections and ends of the collector

\* A record takes some bytes.
ASSUME LogAssumption == Volume \in Nat /\ Sizes \subseteq Nat \ {0} /\ PageLimit \in Nat

VARIABLES
  printed,      \* how many lines the container has printed
  flight,       \* the lines on the connection
  connection,   \* "open", "broken" while the collector has not seen the end, or "none"
  named,        \* whether a line has arrived on it: Connection.writer
  collector,    \* "up" or "down"
  records,      \* diagnostic_records of the stream
  lastId,       \* its AUTOINCREMENT id
  aged,         \* how many of the oldest records are a week old
  retained, dropped, interrupted,   \* diagnostic_streams
  reader,       \* a reader and what the pages it got contain
  failures

containerVars == <<printed, flight, connection, named, collector, failures>>
streamVars == <<records, lastId, aged, retained, dropped, interrupted>>
logVars == <<containerVars, streamVars, reader>>

Marker == 0
SizeOf(recs) == FoldLeft(LAMBDA sum, r : sum + r.size, 0, recs)

LogInit ==
  /\ printed = 0 /\ flight = <<>> /\ connection = "open" /\ named = FALSE
  /\ collector = "up" /\ failures = 0
  /\ records = <<>> /\ lastId = 0 /\ aged = 0
  /\ retained = 0 /\ dropped = 0 /\ interrupted = 0
  /\ reader = [state |-> "idle", after |-> 0, through |-> 0, read |-> <<>>,
               snapshot |-> {}, before |-> 0, dropped |-> 0, truncated |-> FALSE]

(***************************************************************************)
(* The stream                                                              *)
(***************************************************************************)

\* Every transaction on the log begins with prune: what is a week old is dropped.
Kept == SubSeq(records, aged + 1, Len(records))
AgedSize == SizeOf(SubSeq(records, 1, aged))

Pruned ==
  /\ records' = Kept /\ aged' = 0
  /\ retained' = retained - AgedSize
  /\ dropped' = dropped + AgedSize

\* A faulty variant that makes room by the oldest record alone.
EvictedOldest(recs, total) == IF total > Volume THEN 1 ELSE 0

\* How many of the oldest records must go.
Evicted(recs, total) ==
  CHOOSE n \in 0..Len(recs) :
    /\ total - SizeOf(SubSeq(recs, 1, n)) <= Volume
    /\ \A m \in 0..n - 1 : total - SizeOf(SubSeq(recs, 1, m)) > Volume

\* A faulty variant: the id of a table without AUTOINCREMENT, which is used again.
ReusedId == IF records = <<>> THEN 1 ELSE Last(records).id + 1

NextId == lastId + 1

\* Writer.append: the record is stored, and the oldest make room for it.
AppendRecord(line, size, cut) ==
  LET recs == Append(Kept, [id |-> NextId, line |-> line, size |-> size, cut |-> cut])
      total == retained - AgedSize + size
      n == Evicted(recs, total)
      gone == SizeOf(SubSeq(recs, 1, n))
  IN  /\ records' = SubSeq(recs, n + 1, Len(recs)) /\ aged' = 0
      /\ lastId' = NextId
      /\ retained' = total - gone
      /\ dropped' = dropped + AgedSize + cut + gone
      /\ interrupted' = interrupted + (IF line = Marker THEN 1 ELSE 0)

\* A week has passed since the next record was stored.
Age ==
  /\ aged < Len(records) /\ aged' = aged + 1
  /\ UNCHANGED <<containerVars, records, lastId, retained, dropped, interrupted, reader>>

\* Another stream's writer or reader, or the collector's maintenance, prunes.
Prune ==
  /\ aged > 0 /\ Pruned
  /\ UNCHANGED <<containerVars, lastId, interrupted, reader>>

(***************************************************************************)
(* The container and the collector                                         *)
(***************************************************************************)

\* Docker keeps no copy: a line that cannot be sent is lost.
LogLine ==
  /\ printed < MaxLines /\ printed' = printed + 1
  /\ flight' = IF connection = "open" THEN Append(flight, printed + 1) ELSE flight
  /\ UNCHANGED <<connection, named, collector, failures, streamVars, reader>>

\* Docker opens a new connection; the collector has seen the end of the old one.
Connect ==
  /\ connection = "none" /\ collector = "up"
  /\ connection' = "open"
  /\ UNCHANGED <<printed, flight, named, collector, failures, streamVars, reader>>

\* The tunnel or the connection breaks, or the container stops; the last lines on
\* the way may be lost.
Break ==
  /\ connection = "open" /\ failures < MaxFailures
  /\ connection' = "broken" /\ failures' = failures + 1
  /\ \E n \in 0..Len(flight) : flight' = SubSeq(flight, 1, n)
  /\ UNCHANGED <<printed, named, collector, streamVars, reader>>

\* Connection.feed: a line becomes a record, cut when it is too long.  Left out are
\* empty lines, which make none, and lines joined while the first ends in what may be
\* the beginning of a value.
Receive ==
  /\ collector = "up" /\ flight # <<>>
  /\ flight' = Tail(flight) /\ named' = TRUE
  /\ \E size \in Sizes : \E cut \in {0} \cup (IF size = 1 THEN {} ELSE {1}) :
       AppendRecord(Head(flight), size, cut)
  /\ UNCHANGED <<printed, connection, collector, failures, reader>>

DropConnection == connection' = "none" /\ flight' = <<>> /\ named' = FALSE

\* A faulty variant that closes it without a word.
ForgetConnection == UNCHANGED streamVars

\* Connection.close: a connection on which no line has arrived belongs to no stream.
MarkConnection == IF named THEN AppendRecord(Marker, 1, 0) ELSE UNCHANGED streamVars

\* At the end of the connection, or after a malformed frame.
CloseConnection ==
  /\ collector = "up"
  /\ \/ connection = "broken" /\ flight = <<>>
     \/ connection = "open" /\ flight # <<>> /\ failures < MaxFailures
  /\ DropConnection /\ MarkConnection
  /\ failures' = IF connection = "open" THEN failures + 1 ELSE failures
  /\ UNCHANGED <<printed, collector, reader>>

\* Collector.close: what was not received is lost, and each connection is marked.
CollectorExits ==
  /\ collector = "up" /\ failures < MaxFailures
  /\ collector' = "down" /\ failures' = failures + 1
  /\ DropConnection /\ MarkConnection
  /\ UNCHANGED <<printed, reader>>

\* The collector is killed, or loses its host.
CollectorCrashes ==
  /\ collector = "up" /\ failures < MaxFailures
  /\ collector' = "down" /\ failures' = failures + 1
  /\ DropConnection
  /\ UNCHANGED <<printed, streamVars, reader>>

\* The app has an active deployment, or one that is starting or cleaning, as long
\* as its container runs: the collector marks its stream when it starts.
CollectorStarts ==
  /\ collector = "down" /\ collector' = "up"
  /\ AppendRecord(Marker, 1, 0)
  /\ UNCHANGED <<printed, flight, connection, named, failures, reader>>

(***************************************************************************)
(* The reader                                                              *)
(***************************************************************************)

Limited(recs, n) == IF Len(recs) > n THEN SubSeq(recs, 1, n) ELSE recs

\* How many of the records have an id up to this one; they are in the order of their ids.
Upto(recs, id) ==
  CHOOSE n \in 0..Len(recs) : \A i \in DOMAIN recs : i <= n <=> recs[i].id <= id

\* What a page tells of the loss.
Truncated(droppedNow, more) == droppedNow > 0 \/ more \/ interrupted > 0

\* snapshot without a cursor fixes the last record; with one it goes on after the
\* record where the last page ended.  n is what the limit and the size allow.
ReadPage ==
  /\ reader.state \in {"idle", "reading"}
  /\ Pruned
  /\ \E n \in 1..PageLimit :
       LET first == reader.state = "idle"
           through == IF ~first THEN reader.through
                      ELSE IF Kept = <<>> THEN 0 ELSE Last(Kept).id
           rows == SubSeq(Kept, Upto(Kept, reader.after) + 1, Upto(Kept, through))
           page == Limited(rows, n)
           more == Len(rows) > n
       IN  reader' =
             [state |-> IF more THEN "reading" ELSE "done",
              after |-> IF page = <<>> THEN reader.after ELSE Last(page).id,
              through |-> through,
              read |-> reader.read \o page,
              snapshot |-> IF first THEN ToSet(Kept) ELSE reader.snapshot,
              before |-> IF first THEN dropped' ELSE reader.before,
              dropped |-> dropped',
              truncated |-> Truncated(dropped', more)]
  /\ UNCHANGED <<containerVars, lastId, interrupted>>

\* snapshot with tail: the last records, oldest first.
ReadTail ==
  /\ reader.state = "idle"
  /\ Pruned
  /\ \E n \in 1..PageLimit :
       LET page == Reverse(Limited(Reverse(Kept), n))
       IN  reader' =
             [state |-> "tail", after |-> 0, through |-> 0, read |-> page,
              snapshot |-> ToSet(Kept), before |-> dropped', dropped |-> dropped',
              truncated |-> Truncated(dropped', Len(Kept) > n)]
  /\ UNCHANGED <<containerVars, lastId, interrupted>>

\* Ten minutes are over, or 999 newer cursors have pushed this one out.
CursorGone ==
  /\ reader.state = "reading"
  /\ reader' = [reader EXCEPT !.state = "refused"]
  /\ UNCHANGED <<containerVars, streamVars>>

LogNext ==
  \/ Age \/ Prune
  \/ LogLine \/ Connect \/ Break
  \/ Receive \/ CloseConnection
  \/ CollectorExits \/ CollectorCrashes \/ CollectorStarts
  \/ ReadPage \/ ReadTail \/ CursorGone

LogSpec == LogInit /\ [][LogNext]_logVars

-----------------------------------------------------------------------------
(***************************************************************************)
(* Properties                                                              *)
(***************************************************************************)

\* The counter that eviction relies on is the size of what is stored, and neither
\* exceeds the volume, whatever aging and eviction take away
\* (diagnostics.py:42-47 and 233-250).
VolumeBound == retained = SizeOf(records) /\ retained <= Volume

\* What a reader has not got of the snapshot, up to where its pages have come.
Missing ==
  {r \in reader.snapshot : /\ r \notin ToSet(reader.read)
                           /\ reader.state = "reading" => r.id <= reader.after}

\* The pages are the snapshot of the first one in order: no record comes twice or
\* from after it, and what is missing is in the growth of the dropped bytes from
\* page to page (diagnostics.py:275-315).
PagesExact ==
  reader.state \in {"reading", "done"} =>
    /\ \A i, j \in DOMAIN reader.read : i < j => reader.read[i].id < reader.read[j].id
    /\ ToSet(reader.read) \subseteq reader.snapshot
    /\ SizeOf(SetToSeq(Missing)) <= reader.dropped - reader.before

\* A last page, or a tail, that does not say that it is truncated has every line
\* from the first that was ever collected, whole and without a gap, whatever was
\* lost on the way (diagnostics.py:309-315, collector.py:49-52 and 118-123).
GaplessUnlessTold ==
  reader.state \in {"done", "tail"} /\ ~reader.truncated =>
    \A i \in DOMAIN reader.read :
      reader.read[i].line = reader.read[1].line + i - 1 /\ reader.read[i].cut = 0

=============================================================================
