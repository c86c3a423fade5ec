---------------------------- MODULE CommandPath ----------------------------
(***************************************************************************)
(* The dashboard's write path: POST /api/command of twinflow.dashboard     *)
(* (app.py, commands.py) between browser pages that number their commands  *)
(* (assets/index.html) and the historian behind the sink.  Requests are    *)
(* delayed and repeated and answers are lost; the server numbers what it   *)
(* accepts, remembers it by command id and hands it on.                    *)
(*                                                                         *)
(* A command keeps the page that issued it, its number, its kind and which *)
(* fields it carries.  The handler runs to its end once the body is read,  *)
(* so one request is one step.                                             *)
(***************************************************************************)
EXTENDS Integers, Sequences, Functions

CONSTANTS
    Payloads,       \* [ours, kind, fields, blank_reason] a page may send
    Mode,           \* config.mode of the server
    MaxPages,       \* bound on the pages loaded
    MaxCommands,    \* bound on the commands of one page
    MaxTime,        \* bound on the clock
    Lag,            \* how far the historian's clock may be behind
    Sealing,        \* the run may be sealed while pages are open
    MaxRestarts     \* bound on the restarts of the server

ASSUME CommandAssumption ==
    /\ {MaxPages, MaxCommands, MaxTime, Lag, MaxRestarts} \subseteq Nat
    /\ Mode \in {"live", "replay"}
    /\ Sealing \in BOOLEAN

VARIABLES
    counter,            \* TF.commandCounter of each page, Closed before it is loaded
    wire,               \* the commands posted; each may be handled again
    answers,            \* [command, status, seq] the pages have received
    seq, by_command_id, \* CommandLog
    restarts,
    clock, lag, sealed, events  \* what the sink is: the historian of the run

page_vars   == <<counter, wire>>
server_vars == <<seq, by_command_id, restarts>>
sink_vars   == <<clock, lag, sealed, events>>
vars == <<page_vars, answers, server_vars, sink_vars>>

Pages      == 1..MaxPages
Numbers    == 1..MaxCommands
Closed     == -1
NoPosition == -1
Command    == [page : Pages, number : Numbers, payload : Payloads]
-----------------------------------------------------------------------------
(* The dispatch table and the checks on a request.                         *)

Row(required, optional, mode, handled_by) ==
    [required |-> required, optional |-> optional, mode |-> mode, handled_by |-> handled_by]

COMMAND_KINDS ==
    [ack_finding    |-> Row({"finding_id"}, {}, "live", "server"),
     approve_whatif |-> Row({"request_id"}, {"note"}, "live", "server"),
     ask_agent      |-> Row({"text"}, {"context"}, "live", "server"),
     pause          |-> Row({}, {}, "both", "server"),
     reject_whatif  |-> Row({"request_id"}, {"note"}, "live", "server"),
     resume         |-> Row({}, {}, "both", "server"),
     seek           |-> Row({"sim_time"}, {}, "replay", "browser"),
     set_pref       |-> Row({"key", "value"}, {}, "both", "browser"),
     set_speed      |-> Row({"speed"}, {}, "both", "server"),
     shelve_alarm   |-> Row({"key", "duration_s", "reason"}, {}, "live", "server"),
     step           |-> Row({"steps"}, {}, "both", "both"),
     unshelve_alarm |-> Row({"key"}, {}, "live", "server")]

COMMAND_NAMES == DOMAIN COMMAND_KINDS

SERVER_HANDLED == {k \in COMMAND_NAMES : COMMAND_KINDS[k].handled_by \in {"server", "both"}}

\* The request is the dashboard's own, and validate_command finds no reason; ids
\* that a page builds have the form it asks for.
validate_command(p) ==
    /\ p.ours
    /\ p.kind \in SERVER_HANDLED
    /\ LET kind == COMMAND_KINDS[p.kind]
       IN  /\ kind.mode \in {"both", Mode}
           /\ kind.required \subseteq p.fields
           /\ p.fields \subseteq kind.required \cup kind.optional
    /\ p.kind = "shelve_alarm" => ~p.blank_reason
-----------------------------------------------------------------------------
(* The pages.                                                              *)

Load(page) ==
    /\ counter[page] = Closed
    /\ page > 1 => counter[page-1] # Closed
    /\ counter' = [counter EXCEPT ![page] = 0]
    /\ UNCHANGED <<wire, answers, server_vars, sink_vars>>

\* buildCommand and post.
Issue(page, payload) ==
    /\ counter[page] \in 0..MaxCommands-1
    /\ counter' = [counter EXCEPT ![page] = @ + 1]
    /\ wire' = wire \cup {[page |-> page, number |-> counter[page] + 1, payload |-> payload]}
    /\ UNCHANGED <<answers, server_vars, sink_vars>>

\* The answer is received or lost.
Answer(c, status, position) ==
    \/ answers' = answers \cup {[command |-> c, status |-> status, seq |-> position]}
    \/ UNCHANGED answers
-----------------------------------------------------------------------------
(* The server.                                                             *)

\* The historian's clock and its append: not sealed, no stamp from the future,
\* no number out of turn (the ids are the numbers).
sink_accepts == ~sealed /\ lag = 0 /\ seq = Len(events)

Refuse(c) ==
    /\ ~validate_command(c.payload)
    /\ Answer(c, IF c.payload.ours THEN 422 ELSE 403, NoPosition)
    /\ UNCHANGED <<page_vars, server_vars, sink_vars>>

\* The command id holds a position: the answer is that position, and nothing is
\* handed on.
Replay(c) ==
    /\ validate_command(c.payload)
    /\ by_command_id[c.number] # NoPosition
    /\ Answer(c, 202, by_command_id[c.number])
    /\ UNCHANGED <<page_vars, server_vars, sink_vars>>

\* Mutant: the id is not remembered.
PositionForgotten(c) ==
    /\ seq' = seq + 1
    /\ UNCHANGED <<by_command_id, restarts>>

\* Mutant: the position is read after the counter has moved.
PositionLate(c) ==
    /\ seq' = seq + 1
    /\ by_command_id' = [by_command_id EXCEPT ![c.number] = seq']
    /\ UNCHANGED restarts

\* CommandLog.record of an id it does not hold.
record(c) ==
    /\ seq' = seq + 1
    /\ by_command_id' = [by_command_id EXCEPT ![c.number] = seq]
    /\ UNCHANGED restarts

\* record, publish and the answer.
Accept(c) ==
    /\ validate_command(c.payload)
    /\ by_command_id[c.number] = NoPosition
    /\ sink_accepts
    /\ record(c)
    /\ events' = Append(events, [seq |-> seq, ts |-> clock, command |-> c])
    /\ Answer(c, 202, seq)
    /\ UNCHANGED <<page_vars, clock, lag, sealed>>

\* The sink raises after record: the position is taken and the page gets a 500.
SinkRefuses(c) ==
    /\ validate_command(c.payload)
    /\ by_command_id[c.number] = NoPosition
    /\ ~sink_accepts
    /\ record(c)
    /\ Answer(c, 500, NoPosition)
    /\ UNCHANGED <<page_vars, sink_vars>>

\* A new process: CommandLog begins again, for the same run.
RestartServer ==
    /\ restarts < MaxRestarts
    /\ restarts' = restarts + 1
    /\ seq' = 0 /\ by_command_id' = [n \in Numbers |-> NoPosition]
    /\ UNCHANGED <<page_vars, answers, sink_vars>>

\* The clock the dashboard reads goes on; the historian's may follow later.
Tick ==
    /\ clock < MaxTime
    /\ clock' = clock + 1
    /\ lag' \in 0..(IF lag < Lag THEN lag + 1 ELSE Lag)
    /\ UNCHANGED <<page_vars, answers, server_vars, sealed, events>>

CatchUp ==
    /\ lag > 0
    /\ lag' = lag - 1
    /\ UNCHANGED <<page_vars, answers, server_vars, clock, sealed, events>>

Seal ==
    /\ Sealing /\ ~sealed
    /\ sealed' = TRUE
    /\ UNCHANGED <<page_vars, answers, server_vars, clock, lag, events>>
-----------------------------------------------------------------------------
Init ==
    /\ counter = [page \in Pages |-> Closed]
    /\ wire = {} /\ answers = {}
    /\ seq = 0 /\ by_command_id = [n \in Numbers |-> NoPosition] /\ restarts = 0
    /\ clock = 0 /\ lag = 0 /\ sealed = FALSE /\ events = <<>>

Handle(c) == Refuse(c) \/ Replay(c) \/ Accept(c) \/ SinkRefuses(c)

Next ==
    \/ \E page \in Pages : Load(page) \/ \E payload \in Payloads : Issue(page, payload)
    \/ \E c \in wire : Handle(c)
    \/ RestartServer \/ Tick \/ CatchUp \/ Seal

Spec == Init /\ [][Next]_vars
-----------------------------------------------------------------------------
(* Properties.                                                             *)

\* The events of a command.
EventsOf(c) == {i \in DOMAIN events : events[i].command = c}

\* A command that was answered with a 202 is on the log, at the position of the
\* answer: a retry after a lost answer neither repeats nor loses it, and a 202
\* is never an audit-log hole.
AcknowledgedIsRecorded ==
    \A a \in answers : a.status = 202 =>
        \E i \in EventsOf(a.command) : events[i].seq = a.seq

\* The same, where the code gives it: one page, a server that has not restarted
\* and a sink that has refused nothing, whatever is repeated, delayed or lost.
AcknowledgedWhileInStep ==
    /\ restarts = 0 /\ seq = Len(events)
    /\ \A page \in Pages \ {1} : counter[page] = Closed
    => AcknowledgedIsRecorded

\* However often it is posted, by pages that share its id, to a sink that refuses
\* some, a command is on the log at most once while the server has not restarted,
\* and never if a page was told that it is refused.
RecordedOnce ==
    \A c \in wire :
        /\ restarts = 0 => \A i, j \in EventsOf(c) : i = j
        /\ \A a \in answers : a.command = c /\ a.status \in {403, 422} => EventsOf(c) = {}

\* While the server has not restarted, every 202 for a command id names the same
\* position, in whatever order posts and answers come.
RetryKeepsPosition ==
    restarts = 0 =>
        \A a, b \in answers :
            /\ a.status = 202 /\ b.status = 202
            /\ a.command.number = b.command.number
            => a.seq = b.seq
=============================================================================
