------------------------------ MODULE Storage -------------------------------
(***************************************************************************)
(* One storage medium under record(): the JSONL backend                    *)
(* (partly-proxy-storage-jsonl/src/lib.rs), the SQLite backend             *)
(* (partly-proxy-storage-sqlite/src/lib.rs) and InMemoryStorage            *)
(* (partly-proxy-types/src/storage.rs), with the failures each can meet:   *)
(* a write that fails half-way, an append whose future is dropped, the     *)
(* death of the process, a loss of power.                                  *)
(*                                                                         *)
(* A JSONL append passes three places. Lines that fit are collected in the *)
(* BufWriter (buf); longer ones are handed over from write_all's own       *)
(* cursor (todo), up to 2 MB at a time. tokio's File gives what it is      *)
(* handed to a blocking thread (inflight), which writes on when the future *)
(* that started it is gone. What it wrote is in the operating system's     *)
(* cache (file), a prefix of it on disk (synced).                          *)
(*                                                                         *)
(* A line is three pieces, so that a write can be cut in the text and      *)
(* between the text and its newline. A SQLite row or an element of the     *)
(* in-memory vector is a line that is never cut. One append runs at a      *)
(* time: record() holds the recorder's write lock across it.               *)
(***************************************************************************)
EXTENDS Naturals, Sequences, Functions

CONSTANTS
    Exchanges,    \* what record() is called with, once each
    Large,        \* those whose line is longer than one hand-over of File
    Kinds,        \* the backends to consider
    MaxCrashes,   \* bound: how often the process or the machine goes down
    Nobody,       \* no operation holds the medium
    Flusher       \* SnapshotStorage::flush

ASSUME StorageAssumption ==
    /\ Large \subseteq Exchanges
    /\ Kinds \subseteq {"jsonl", "sqlite", "memory"}
    /\ MaxCrashes \in Nat
    /\ Nobody # Flusher
    /\ {Nobody, Flusher} \cap Exchanges = {}

VARIABLES
    kind,       \* the backend of this behaviour
    up,         \* the process runs and has the medium open
    op,         \* who holds the medium: an append, flush(), or Nobody
    todo,       \* JSONL: of a long line, what write_all has not handed over
    buf,        \* JSONL: the BufWriter's buffer
    inflight,   \* JSONL: what the blocking thread still has to write
    failed,     \* JSONL: a write failed and no call has been told yet
    queued,     \* SQLite: INSERTs on their way to the database
    file,       \* the medium's content, as every process sees it
    synced,     \* how much of it survives a loss of power
    started,    \* exchanges whose append was called
    promised,   \* those acknowledged and not excused by a crash, in order
    fenced,     \* how many of them the last flush() promised to keep
    crashes,    \* crashes so far
    faulty      \* a write has failed, or the process or the machine went down

jsonlVars == <<todo, buf, inflight, failed>>
ghosts == <<started, promised, fenced, crashes, faulty>>
vars == <<kind, up, op, jsonlVars, queued, file, synced, ghosts>>

Piece(e, part) == [of |-> e, part |-> part]
Text(e) == <<Piece(e, "head"), Piece(e, "rest")>>

\* The JSON of an exchange and the newline append() pushes behind it.
Line(e) == Append(Text(e), Piece(e, "newline"))

Pieces == [of : Exchanges, part : {"head", "rest", "newline"}]

TypeOK ==
    /\ kind \in Kinds
    /\ up \in BOOLEAN
    /\ op \in Exchanges \cup {Flusher, Nobody}
    /\ todo \in Seq(Pieces) /\ buf \in Seq(Pieces) /\ inflight \in Seq(Pieces)
    /\ todo # <<>> => op \in Exchanges
    /\ failed \in BOOLEAN
    /\ queued \in SUBSET Exchanges
    /\ file \in Seq(Pieces)
    /\ synced \in 0..Len(file)
    /\ started \in SUBSET Exchanges
    /\ promised \in Seq(Exchanges)
    /\ fenced \in 0..Len(promised)
    /\ crashes \in 0..MaxCrashes
    /\ faulty \in BOOLEAN

Init ==
    /\ kind \in Kinds
    /\ up = TRUE
    /\ op = Nobody
    /\ todo = <<>> /\ buf = <<>> /\ inflight = <<>>
    /\ failed = FALSE
    /\ queued = {}
    /\ file = <<>>
    /\ synced = 0
    /\ started = {}
    /\ promised = <<>>
    /\ fenced = 0
    /\ crashes = 0
    /\ faulty = FALSE

----------------------------------------------------------------------------
\* append() of the JSONL backend.

\* Mutant of Buffered: no line goes through the BufWriter.
BufferedNever(e) == FALSE

\* A line shorter than the BufWriter is copied into it without an await.
Buffered(e) == e \notin Large

\* The mutex is taken and write_all starts.
StartLine(e) ==
    /\ kind = "jsonl" /\ up /\ op = Nobody
    /\ e \notin started
    /\ started' = started \cup {e}
    /\ op' = e
    /\ IF Buffered(e) THEN buf' = buf \o Line(e) /\ UNCHANGED todo
                      ELSE todo' = Line(e) /\ UNCHANGED buf
    /\ UNCHANGED <<kind, up, inflight, failed, queued, file, synced, promised, fenced,
                   crashes, faulty>>

\* The holder polls File::write, which is ready once the previous write is done:
\* the BufWriter is emptied first, then a long line follows in parts.
HandOver ==
    /\ kind = "jsonl" /\ up /\ op # Nobody
    /\ inflight = <<>> /\ ~failed
    /\ IF buf # <<>>
       THEN inflight' = buf /\ buf' = <<>> /\ UNCHANGED todo
       ELSE /\ \E n \in 1..Len(todo) :
                 /\ inflight' = SubSeq(todo, 1, n)
                 /\ todo' = SubSeq(todo, n + 1, Len(todo))
            /\ UNCHANGED buf
    /\ UNCHANGED <<kind, up, op, failed, queued, file, synced, ghosts>>

\* The blocking thread writes some of what it was given, whoever still waits.
Write ==
    /\ kind = "jsonl" /\ up
    /\ \E n \in 1..Len(inflight) :
         /\ file' = file \o SubSeq(inflight, 1, n)
         /\ inflight' = SubSeq(inflight, n + 1, Len(inflight))
    /\ UNCHANGED <<kind, up, op, todo, buf, failed, queued, synced, ghosts>>

\* Mutant of WriteFails: the result of the write is lost.
WriteFailsSilently ==
    /\ kind = "jsonl" /\ up
    /\ inflight # <<>>
    /\ inflight' = <<>>
    /\ faulty' = TRUE
    /\ UNCHANGED <<kind, up, op, todo, buf, failed, queued, file, synced, started,
                   promised, fenced, crashes>>

\* It cannot (disk full, I/O error): the rest of what it was given is dropped.
WriteFails ==
    /\ kind = "jsonl" /\ up
    /\ inflight # <<>>
    /\ inflight' = <<>>
    /\ failed' = TRUE
    /\ faulty' = TRUE
    /\ UNCHANGED <<kind, up, op, todo, buf, queued, file, synced, started, promised,
                   fenced, crashes>>

\* Mutant of ReportError: only flush() looks for the error.
ReportErrorToFlush ==
    /\ kind = "jsonl" /\ up /\ op = Flusher
    /\ failed
    /\ failed' = FALSE
    /\ op' = Nobody
    /\ todo' = <<>>
    /\ UNCHANGED <<kind, up, buf, inflight, queued, file, synced, ghosts>>

\* The next call to poll the File gets the error, also when the bytes were an
\* earlier call's. What is still in the BufWriter stays there.
ReportError ==
    /\ kind = "jsonl" /\ up /\ op # Nobody
    /\ failed
    /\ failed' = FALSE
    /\ op' = Nobody
    /\ todo' = <<>>
    /\ UNCHANGED <<kind, up, buf, inflight, queued, file, synced, ghosts>>

\* Everything has been handed over and written, and no write failed.
Drained == todo = <<>> /\ buf = <<>> /\ inflight = <<>> /\ ~failed

\* BufWriter::flush returns Ok and so does append().
AppendOk ==
    /\ kind = "jsonl" /\ up /\ op \in Exchanges
    /\ Drained
    /\ promised' = Append(promised, op)
    /\ op' = Nobody
    /\ UNCHANGED <<kind, up, jsonlVars, queued, file, synced, started, fenced, crashes,
                   faulty>>

\* Mutant of Cancel: the next call goes on with the rest of the long line.
CancelKeepsRest ==
    /\ up /\ op \in Exchanges
    /\ op' = Nobody
    /\ UNCHANGED <<kind, up, jsonlVars, queued, file, synced, ghosts>>

\* The future of append() is dropped: the rest of a long line is never handed
\* over; the BufWriter keeps what it has for the next call.
Cancel ==
    /\ up /\ op \in Exchanges
    /\ op' = Nobody
    /\ todo' = <<>>
    /\ UNCHANGED <<kind, up, buf, inflight, failed, queued, file, synced, ghosts>>

----------------------------------------------------------------------------
\* flush().

FlushStarts ==
    /\ kind = "jsonl" /\ up /\ op = Nobody
    /\ op' = Flusher
    /\ UNCHANGED <<kind, up, jsonlVars, queued, file, synced, ghosts>>

\* Mutant of FlushOk: no sync_data.
FlushOkUnsynced ==
    /\ kind = "jsonl" /\ up /\ op = Flusher
    /\ Drained
    /\ fenced' = Len(promised)
    /\ op' = Nobody
    /\ UNCHANGED <<kind, up, jsonlVars, queued, file, synced, started, promised, crashes,
                   faulty>>

\* BufWriter::flush, then sync_data.
FlushOk ==
    /\ kind = "jsonl" /\ up /\ op = Flusher
    /\ Drained
    /\ synced' = Len(file)
    /\ fenced' = Len(promised)
    /\ op' = Nobody
    /\ UNCHANGED <<kind, up, jsonlVars, queued, file, started, promised, crashes, faulty>>

\* sync_data fails, or the future of flush() is dropped: nothing is promised.
FlushFails ==
    /\ kind = "jsonl" /\ up /\ op = Flusher
    /\ op' = Nobody
    /\ UNCHANGED <<kind, up, jsonlVars, queued, file, synced, ghosts>>

----------------------------------------------------------------------------
\* append() of the other two. Their flush() does nothing.

\* The statement is sent to the thread of a pooled connection.
SendInsert(e) ==
    /\ kind = "sqlite" /\ up /\ op = Nobody
    /\ e \notin started
    /\ started' = started \cup {e}
    /\ queued' = queued \cup {e}
    /\ op' = e
    /\ UNCHANGED <<kind, up, jsonlVars, file, synced, promised, fenced, crashes, faulty>>

\* The database commits it, whoever still waits: a new last row.
Insert(e) ==
    /\ kind = "sqlite" /\ up
    /\ e \in queued
    /\ queued' = queued \ {e}
    /\ file' = file \o Line(e)
    /\ op' = IF op = e THEN Nobody ELSE op
    /\ promised' = IF op = e THEN Append(promised, e) ELSE promised
    /\ UNCHANGED <<kind, up, jsonlVars, synced, started, fenced, crashes, faulty>>

\* Or rejects it (database locked, disk full): no trace of it is left.
InsertFails(e) ==
    /\ kind = "sqlite" /\ up
    /\ e \in queued
    /\ queued' = queued \ {e}
    /\ op' = IF op = e THEN Nobody ELSE op
    /\ UNCHANGED <<kind, up, jsonlVars, file, synced, ghosts>>

\* InMemoryStorage::append: a push under a std mutex, which never suspends.
Push(e) ==
    /\ kind = "memory" /\ up
    /\ e \notin started
    /\ started' = started \cup {e}
    /\ file' = file \o Line(e)
    /\ promised' = Append(promised, e)
    /\ UNCHANGED <<kind, up, op, jsonlVars, queued, synced, fenced, crashes, faulty>>

----------------------------------------------------------------------------
\* Crashes.

\* What happens to the process's memory either way.
Down ==
    /\ up
    /\ crashes < MaxCrashes
    /\ crashes' = crashes + 1
    /\ up' = FALSE
    /\ op' = Nobody
    /\ todo' = <<>> /\ buf' = <<>> /\ inflight' = <<>>
    /\ failed' = FALSE
    /\ queued' = {}
    /\ faulty' = TRUE
    /\ UNCHANGED <<kind, started>>

\* The process dies: the operating system keeps what was written.
ProcessDies ==
    /\ Down
    /\ IF kind = "memory"
       THEN file' = <<>> /\ synced' = 0 /\ promised' = <<>> /\ fenced' = 0
       ELSE UNCHANGED <<file, synced, promised, fenced>>

\* The lengths the content can be cut to by a loss of power. Unsynced rows of the
\* WAL (synchronous=NORMAL) roll back one transaction at a time.
Cuts ==
    CASE kind = "jsonl"  -> synced..Len(file)
      [] kind = "sqlite" -> {n \in 0..Len(file) : n = 0 \/ file[n].part = "newline"}
      [] kind = "memory" -> {0}

\* The machine goes down: only a flush() that returned Ok promises anything, and
\* SQLite's does nothing.
PowerLoss ==
    /\ Down
    /\ \E n \in Cuts :
         /\ file' = SubSeq(file, 1, n)
         /\ synced' = IF kind = "jsonl" THEN n ELSE 0
    /\ promised' = IF kind = "jsonl" THEN SubSeq(promised, 1, fenced) ELSE <<>>
    /\ fenced' = Len(promised')

\* A line that ended: blank ones are skipped, anything but the text of one
\* exchange is a parse error.
EndLine(reader) ==
    IF reader.line = <<>> THEN reader
    ELSE LET e == Head(reader.line).of IN
         [line |-> <<>>,
          read |-> Append(reader.read, e),
          ok   |-> reader.ok /\ reader.line = Text(e)]

\* load(): the exchanges of the medium in order. ok is false when some line does
\* not parse; the stream ends with that error, and so does from_storage.
Load(content) ==
    LET after[i \in 0..Len(content)] ==
            IF i = 0 THEN [line |-> <<>>, read |-> <<>>, ok |-> TRUE]
            ELSE IF content[i].part = "newline" THEN EndLine(after[i - 1])
            ELSE [after[i - 1] EXCEPT !.line = Append(@, content[i])]
    IN  EndLine(after[Len(content)])

\* The medium is opened again: JSONL in append mode, SQLite with a migration that
\* leaves an existing table alone. run() goes on only if load() succeeds.
Reopen ==
    /\ ~up
    /\ Load(file).ok
    /\ up' = TRUE
    /\ UNCHANGED <<kind, op, jsonlVars, queued, file, synced, ghosts>>

Next ==
    \/ \E e \in Exchanges :
         StartLine(e) \/ SendInsert(e) \/ Insert(e) \/ InsertFails(e) \/ Push(e)
    \/ HandOver \/ Write \/ WriteFails \/ ReportError \/ AppendOk \/ Cancel
    \/ FlushStarts \/ FlushOk \/ FlushFails
    \/ ProcessDies \/ PowerLoss \/ Reopen

Spec == Init /\ [][Next]_vars

\* The holder is polled, the blocking thread and the database get their work done.
Fairness ==
    /\ WF_vars(HandOver \/ ReportError \/ AppendOk \/ FlushOk)
    /\ WF_vars(Write \/ WriteFails)
    /\ \A e \in Exchanges : WF_vars(Insert(e) \/ InsertFails(e))

FairSpec == Spec /\ Fairness

----------------------------------------------------------------------------
\* Properties.

\* The exchanges of kept are in read, once each and in that order.
Within(kept, read) ==
    /\ Range(kept) \subseteq Range(read)
    /\ \A i, j \in 1..Len(kept), m, n \in 1..Len(read) :
         kept[i] = read[m] /\ kept[j] = read[n] => (i < j <=> m < n)

\* The line of e is on the medium, unbroken, up to its newline at n.
EndsAt(e, n) == \A i \in 1..3 : file[n - 3 + i] = Line(e)[i]

\* What append() acknowledged stays on the medium unbroken, whatever failed, was
\* dropped or crashed around it; and from a medium that can still be read it loads
\* back, once and in the order of the acknowledgements, and nothing else is loaded
\* twice. (Power loss excuses what no flush() fenced.)
AckedLoadBack ==
    /\ \A e \in Range(promised) : \E n \in 3..Len(file) : EndsAt(e, n)
    /\ LET medium == Load(file) IN
       medium.ok =>
        /\ Within(promised, medium.read)
        /\ \A i, j \in 1..Len(medium.read) : medium.read[i] = medium.read[j] => i = j

\* The medium becomes unreadable only in the ways the JSONL backend leaves open:
\* a failed write, a crash, or a long line that was cut. Dropping the append of a
\* short line, or racing it with flush(), never tears the file.
UnreadableOnlyIfTorn ==
    ~Load(file).ok =>
        /\ kind = "jsonl"
        /\ \/ faulty \/ inflight # <<>>
           \/ \E e \in Large : e \in started /\ e \notin Range(promised)

\* A fence: what was acknowledged before the last successful flush() of a JSONL
\* medium is within the part that a loss of power spares, also after crashes.
FlushIsDurable ==
    LET safe == Load(SubSeq(file, 1, synced)) IN
    kind = "jsonl" /\ safe.ok => Within(SubSeq(promised, 1, fenced), safe.read)

\* No append hangs: it returns Ok or an error, though the write of an earlier,
\* dropped append fails first.
AppendEnds == \A e \in Exchanges : op = e ~> op # e
============================================================================
