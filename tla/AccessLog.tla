----------------------------- MODULE AccessLog -----------------------------
(***************************************************************************)
(* tasks.py: parse_access_log, which copies the lines of the nginx access  *)
(* log to RequestLog rows from an offset kept in the Django cache, and     *)
(* prune_request_logs.                                                     *)
(*                                                                         *)
(* A line is written, and can be read, in two halves; positions in the     *)
(* file count halves.  nginx, logrotate and the eviction of cache entries  *)
(* are external.                                                           *)
(***************************************************************************)
EXTENDS Integers, Sequences, FiniteSets

CONSTANTS
    Parsers,      \* runs of the task that may go on at the same time
    Lines,        \* records of id, matches, ip, status, challenge and time
    Times,        \* the times of lines
    MaxLines      \* bound: lines of a file

VARIABLES
    file,         \* the log: a sequence of lines
    half,         \* only the first half of its last line is written
    offset,       \* the cached offset, or Evicted
    offsetFresh,  \* history: the cached offset was read from this file
    rows,         \* RequestLog rows of source nginx_log, by source_event_id
    step, start, startFresh, batch,  \* of each run
    ingested,     \* history: the source event ids that ever had a row
    cut           \* history: the lines of this file that a run read half of, in vain

logVars == <<file, half, offset, offsetFresh, rows, step, start, startFresh, batch, ingested, cut>>
log == <<file, half>>
run == <<start, startFresh, batch>>

Evicted == -1

Size == 2 * Len(file) - (IF half THEN 1 ELSE 0)

_MAX_SMALLINT == 32767

Recordable(line) == line.matches /\ line.ip /\ line.status <= _MAX_SMALLINT

_infer_verdict_from_status(line) ==
    IF line.status = 403 THEN "blocked"
    ELSE IF line.status = 429 THEN "throttled"
    ELSE IF line.status = 302 /\ line.challenge THEN "challenged" ELSE "allowed"

\* _build_source_event_id is a digest of the fields but the user agent: two like lines
\* have one id, and so has a line of which only the first half was read.
Row(line, whole) ==
    [id |-> line.id, time |-> line.time, verdict |-> _infer_verdict_from_status(line), ua |-> whole]

LogTypeOK ==
    /\ file \in Seq(Lines) /\ Len(file) <= MaxLines /\ half \in BOOLEAN
    /\ offset \in Evicted..(2 * MaxLines) /\ offsetFresh \in BOOLEAN
    /\ \A r, q \in rows : r.id = q.id => r = q
    /\ step \in [Parsers -> {"idle", "opened", "read", "stored"}]
    /\ start \in [Parsers -> 0..(2 * MaxLines)] /\ startFresh \in [Parsers -> BOOLEAN]
    /\ \A p \in Parsers : batch[p] \subseteq {Row(l, whole) : l \in Lines, whole \in BOOLEAN}
    /\ ingested \subseteq {l.id : l \in Lines} /\ cut \subseteq 1..MaxLines

LogInit ==
    /\ file = <<>> /\ half = FALSE
    /\ offset = Evicted /\ offsetFresh = FALSE /\ rows = {}
    /\ step = [p \in Parsers |-> "idle"]
    /\ start = [p \in Parsers |-> 0] /\ startFresh = [p \in Parsers |-> FALSE]
    /\ batch = [p \in Parsers |-> {}]
    /\ ingested = {} /\ cut = {}

----------------------------------------------------------------------------
(* parse_access_log *)

Resume == IF offset = Evicted \/ Size < offset THEN 0 ELSE offset

\* The offset is looked up and compared with the size of the file.
Stat(p) ==
    /\ step[p] = "idle" /\ step' = [step EXCEPT ![p] = "opened"]
    /\ start' = [start EXCEPT ![p] = Resume]
    /\ startFresh' = [startFresh EXCEPT ![p] = Resume = 0 \/ offsetFresh]
    /\ UNCHANGED <<log, offset, offsetFresh, rows, batch, ingested, cut>>

WholeFrom(from) == {i \in DOMAIN file : 2 * (i - 1) >= from /\ 2 * i <= Size}
HalfFrom(from)  == {i \in DOMAIN file : 2 * (i - 1) >= from /\ 2 * i > Size}

\* The file is opened and read to its end from there.  The first half of a line may
\* match (the referer and the user agent are optional); the second does not.
Read(p) ==
    /\ step[p] = "opened" /\ step' = [step EXCEPT ![p] = "read"]
    /\ \E matched \in SUBSET HalfFrom(start[p]) :
          /\ batch' = [batch EXCEPT ![p] =
                {Row(file[i], i \notin matched) :
                    i \in {j \in WholeFrom(start[p]) \cup matched : Recordable(file[j])}}]
          /\ cut' = cut \cup (HalfFrom(start[p]) \ matched)
    /\ start' = [start EXCEPT ![p] = IF Size > @ THEN Size ELSE @]
    /\ startFresh' = [startFresh EXCEPT ![p] = @ \/ start[p] = 0]
    /\ UNCHANGED <<log, offset, offsetFresh, rows, ingested>>

\* bulk_create(ignore_conflicts=True): the rows whose id is not there yet, in the order of
\* the file.
NewRows(p) ==
    {r \in batch[p] : /\ \A q \in rows : q.id # r.id
                      /\ \A q \in batch[p] : q.id = r.id /\ q.ua => r.ua}

Store(p) ==
    /\ step[p] = "read" /\ step' = [step EXCEPT ![p] = "stored"]
    /\ rows' = rows \cup NewRows(p)
    /\ ingested' = ingested \cup {r.id : r \in batch[p]}
    /\ batch' = [batch EXCEPT ![p] = {}]
    /\ UNCHANGED <<log, offset, offsetFresh, start, startFresh, cut>>

\* Mutant: the offset is the size that the file has by now.
SizeByNow(p) == Size

new_offset(p) == start[p]

SaveOffset(p) ==
    /\ step[p] = "stored" /\ step' = [step EXCEPT ![p] = "idle"]
    /\ offset' = new_offset(p) /\ offsetFresh' = startFresh[p]
    /\ start' = [start EXCEPT ![p] = 0]
    /\ startFresh' = [startFresh EXCEPT ![p] = FALSE]
    /\ UNCHANGED <<log, rows, batch, ingested, cut>>

\* The worker dies, or reading the file raises OSError.
Stop(p) ==
    /\ step[p] # "idle" /\ step' = [step EXCEPT ![p] = "idle"]
    /\ start' = [start EXCEPT ![p] = 0]
    /\ startFresh' = [startFresh EXCEPT ![p] = FALSE]
    /\ batch' = [batch EXCEPT ![p] = {}]
    /\ UNCHANGED <<log, offset, offsetFresh, rows, ingested, cut>>

----------------------------------------------------------------------------
prune_request_logs ==
    /\ \E cutoff \in Times : rows' = {r \in rows : r.time >= cutoff}
    /\ UNCHANGED <<log, offset, offsetFresh, step, run, ingested, cut>>

LogLine ==
    /\ IF half THEN half' = FALSE /\ UNCHANGED file
       ELSE /\ Len(file) < MaxLines
            /\ \E l \in Lines : file' = Append(file, l)
            /\ half' = TRUE
    /\ UNCHANGED <<offset, offsetFresh, rows, step, run, ingested, cut>>

Rotate ==
    /\ file # <<>> /\ ~half
    /\ file' = <<>> /\ cut' = {}
    /\ offsetFresh' = FALSE /\ startFresh' = [p \in Parsers |-> FALSE]
    /\ UNCHANGED <<half, offset, rows, step, start, batch, ingested>>

Evict ==
    /\ offset # Evicted /\ offset' = Evicted /\ offsetFresh' = FALSE
    /\ UNCHANGED <<log, rows, step, run, ingested, cut>>

LogNext ==
    \/ \E p \in Parsers : Stat(p) \/ Read(p) \/ Store(p) \/ SaveOffset(p) \/ Stop(p)
    \/ prune_request_logs \/ LogLine \/ Rotate \/ Evict

LogSpec == LogInit /\ [][LogNext]_logVars

----------------------------------------------------------------------------
(* Properties *)

\* No line is passed over: an offset that was read from the file that is there now has
\* behind it only lines that were recorded at some time, that cannot be, or of which a run
\* had found but the first half, whatever runs overlapped, stopped or started anew.
NoLinePassedOver ==
    offsetFresh =>
        \A i \in DOMAIN file :
            2 * i <= offset /\ Recordable(file[i]) => file[i].id \in ingested \/ i \in cut
=============================================================================
