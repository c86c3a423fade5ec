----------------------------- MODULE RunArchive -----------------------------
(***************************************************************************)
(* The run archive of twinflow.storage (adapters/files.py): write_run puts *)
(* a sealed run into the four files of its directory, one after the other, *)
(* and read_run builds a historian from them.  The writer may crash at any *)
(* point of a write and a later write_run of the same run id reuses the    *)
(* directory.  A reader in another process opens the files one by one at   *)
(* any time.                                                               *)
(*                                                                         *)
(* Recordings are runs of one run id: their events have the same ids (they *)
(* are functions of run, producer and number), and their stamps, arrivals  *)
(* and configuration may differ.  An event keeps its id and stamp.         *)
(***************************************************************************)
EXTENDS Integers, Sequences, Functions

CONSTANTS
    Recordings,     \* [snapshot, events : Seq([id, ts]), arrivals : Seq(Nat)]
    MaxWrites       \* bound on the calls of write_run

\* What a sealed historian hands over (ArrivalsReplayable of module Historian):
\* distinct ids, and arrivals that never fall and are never before the stamp.
ASSUME RecordingsAssumption ==
    /\ MaxWrites \in Nat
    /\ \A r \in Recordings :
          /\ r.events \in Seq(Range(r.events)) /\ r.arrivals \in Seq(Nat)
          /\ Len(r.events) = Len(r.arrivals)
          /\ \A i, j \in 1..Len(r.events) :
                /\ i < j => r.arrivals[i] <= r.arrivals[j] /\ r.events[i].id # r.events[j].id
                /\ r.events[i].ts <= r.arrivals[i]

VARIABLES
    disk,       \* the contents of each file
    writing,    \* the recording of the running write_run
    step,       \* which file it is at, 0 when none runs
    opened,     \* that file has been opened, which truncates it
    begun,      \* the recordings of all calls so far
    complete,   \* the recording of a call that ran to its end, with none since
    writes,
    pc, got,    \* read_run: its next step and what it has read
    basis       \* complete when read_run began, while no call has begun since

writer_vars == <<writing, step, opened, begun, complete, writes>>
reader_vars == <<pc, got, basis>>
archive_vars == <<disk, writer_vars, reader_vars>>

\* In the order they are written.
Files == <<"snapshot", "events", "arrivals", "provenance">>
File  == Range(Files)
Lines == {"events", "arrivals"}     \* the files of one record per line

NoRecording == <<>>
NoFile == <<"absent">>
Torn ==    <<"torn">>           \* does not parse
Holds(v) == <<"holds", v>>
-----------------------------------------------------------------------------
log_hash(events) == Range(events)

\* The records of arrivals.jsonl.
arrival_records(r) == [i \in 1..Len(r.events) |-> [id |-> r.events[i].id, at |-> r.arrivals[i]]]

sidecar(r) == [event_log_hash |-> log_hash(r.events), event_count |-> Len(r.events)]

content(r, f) == CASE f = "snapshot"   -> r.snapshot
                   [] f = "events"     -> r.events
                   [] f = "arrivals"   -> arrival_records(r)
                   [] f = "provenance" -> sidecar(r)

\* What a reader may find while a file is written: whole lines, or less.
Partial(r, f) ==
    {Torn} \cup IF f \in Lines
                THEN {Holds(SubSeq(content(r, f), 1, n)) : n \in 0..Len(content(r, f))}
                ELSE {}
-----------------------------------------------------------------------------
(* write_run.                                                              *)

\* The historian is sealed and the sidecar is its own.
BeginWrite(r) ==
    /\ step = 0 /\ writes < MaxWrites
    /\ writing' = r /\ step' = 1 /\ opened' = FALSE
    /\ begun' = begun \cup {r}
    /\ complete' = NoRecording /\ basis' = NoRecording
    /\ writes' = writes + 1
    /\ UNCHANGED <<disk, pc, got>>

\* open(..., "w") of write_text truncates; buffers reach the file in pieces.
OpenFile ==
    /\ step # 0 /\ ~opened
    /\ opened' = TRUE
    /\ \E part \in Partial(writing, Files[step]) : disk' = [disk EXCEPT ![Files[step]] = part]
    /\ UNCHANGED <<writing, step, begun, complete, writes, reader_vars>>

FinishFile ==
    /\ step # 0 /\ opened
    /\ disk' = [disk EXCEPT ![Files[step]] = Holds(content(writing, Files[step]))]
    /\ opened' = FALSE
    /\ IF step < Len(Files)
       THEN step' = step + 1 /\ UNCHANGED <<writing, complete>>
       ELSE step' = 0 /\ writing' = NoRecording /\ complete' = writing
    /\ UNCHANGED <<begun, writes, reader_vars>>

\* The writing process ends within write_run.
Crash ==
    /\ step # 0
    /\ step' = 0 /\ writing' = NoRecording /\ opened' = FALSE
    /\ UNCHANGED <<disk, begun, complete, writes, reader_vars>>
-----------------------------------------------------------------------------
(* read_run.                                                               *)

Empty == [f \in File |-> NoRecording]

BeginRead ==
    /\ pc \in {"idle", "loaded", "refused"}
    /\ pc' = IF \E f \in File : disk[f] = NoFile THEN "refused" ELSE "snapshot"
    /\ got' = Empty /\ basis' = complete
    /\ UNCHANGED <<disk, writer_vars>>

\* One file is opened, read and parsed.
ReadFile(f, next) ==
    /\ pc = f
    /\ IF disk[f] = Torn
       THEN pc' = "refused" /\ UNCHANGED got
       ELSE pc' = next /\ got' = [got EXCEPT ![f] = disk[f][2]]
    /\ UNCHANGED <<disk, writer_vars, basis>>

\* The arrival read for an event.
arrival_of(e) == (CHOOSE a \in Range(got["arrivals"]) : a.id = e.id).at

\* Every event has an arrival, and neither advance_to() nor append() refuses.
replays ==
    LET events == got["events"]
    IN  /\ \A e \in Range(events) : \E a \in Range(got["arrivals"]) : a.id = e.id
        /\ \A i \in 1..Len(events) : events[i].ts <= arrival_of(events[i])
        /\ \A i, j \in 1..Len(events) : i < j => arrival_of(events[i]) <= arrival_of(events[j])

\* Mutant: the log is not compared with the sidecar.
VerifyNothing == disk["snapshot"] = Holds(got["snapshot"])

\* _verify: the hash and the count against the sidecar, and the snapshot that was
\* read against the snapshot on disk.
verified ==
    /\ log_hash(got["events"]) = got["provenance"].event_log_hash
    /\ Len(got["events"]) = got["provenance"].event_count
    /\ disk["snapshot"] = Holds(got["snapshot"])

ReplayAndVerify ==
    /\ pc = "replay"
    /\ pc' = IF replays /\ verified THEN "loaded" ELSE "refused"
    /\ UNCHANGED <<disk, writer_vars, got, basis>>
-----------------------------------------------------------------------------
ArchiveInit ==
    /\ disk = [f \in File |-> NoFile]
    /\ writing = NoRecording /\ step = 0 /\ opened = FALSE
    /\ begun = {} /\ complete = NoRecording /\ writes = 0
    /\ pc = "idle" /\ got = Empty /\ basis = NoRecording

ArchiveNext ==
    \/ \E r \in Recordings : BeginWrite(r)
    \/ OpenFile \/ FinishFile \/ Crash
    \/ BeginRead
    \/ ReadFile("snapshot", "provenance") \/ ReadFile("provenance", "events")
    \/ ReadFile("events", "arrivals")     \/ ReadFile("arrivals", "replay")
    \/ ReplayAndVerify

ArchiveSpec == ArchiveInit /\ [][ArchiveNext]_archive_vars
-----------------------------------------------------------------------------
(* Properties.                                                             *)

\* A log that loads is the whole log of one recording, and the one whose hash is
\* in the sidecar it was loaded with, whatever crashes and writes fell between.
LoadedLogIsWhole ==
    pc = "loaded" =>
        \E r \in begun : got["events"] = r.events /\ got["provenance"] = sidecar(r)

\* A directory that only one recording was ever written to, by however many calls
\* with however many crashes, loads as that recording or not at all.
LoadsAsWritten ==
    \A r \in begun :
        pc = "loaded" /\ begun = {r} => \A f \in File : got[f] = content(r, f)

\* What read_run returns is what write_run was given.
LoadsOneRecording == LoadedLogIsWhole /\ LoadsAsWritten

\* A run whose write_run ended reads back as it was written, for every reader that
\* starts afterwards and no write overtakes, even over an older or a torn run.
CompleteReadsBack ==
    basis # NoRecording =>
        /\ pc # "refused"
        /\ pc = "loaded" => \A f \in File : got[f] = content(basis, f)

\* A run directory that has been half-written fails to load: what loads is the
\* snapshot, the events and the arrivals of one recording.
HalfWrittenFails ==
    pc = "loaded" => \E r \in begun : \A f \in File : got[f] = content(r, f)
=============================================================================
