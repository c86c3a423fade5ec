-------------------------- MODULE CommandPathProofs --------------------------
(***************************************************************************)
(* Theorems about CommandPath, for any number of pages, commands, restarts *)
(* and repetitions, and any set of payloads.                               *)
(***************************************************************************)
EXTENDS CommandPath, TLAPS

PathTypes ==
    /\ counter \in [Pages -> {Closed} \cup Nat]
    /\ restarts \in Nat /\ seq \in Nat
    /\ by_command_id \in [Numbers -> {NoPosition} \cup Nat]
    /\ events \in Seq([seq : Nat, ts : Nat, command : Command])
    /\ clock \in Nat
    /\ wire \subseteq Command

\* A page numbers its commands: what it has posted is below its counter, and its
\* number tells a command of a page from the others.
NumberInv ==
    /\ \A c \in wire : c.number <= counter[c.page]
    /\ \A c, d \in wire : c.page = d.page /\ c.number = d.number => c = d

\* What was answered and what was recorded has been posted, and the dispatch
\* table has decided it the same way each time.
SourceInv ==
    /\ \A a \in answers :
          /\ a.command \in wire
          /\ a.status = 202 => validate_command(a.command.payload)
          /\ a.status \in {403, 422} => ~validate_command(a.command.payload)
    /\ \A i \in DOMAIN events :
          /\ events[i].command \in wire
          /\ validate_command(events[i].command.payload)
          /\ events[i].seq = i - 1

\* CommandLog's memory, while the server has not restarted: a 202 named the
\* position that the id still holds, an event lies at the position its id holds,
\* the counter is never behind the log, and until a sink has refused a position
\* every position that an id holds is on the log, under that id.
MemoryInv ==
    restarts = 0 =>
        /\ \A a \in answers : a.status = 202 =>
              /\ by_command_id[a.command.number] # NoPosition
              /\ by_command_id[a.command.number] = a.seq
        /\ \A i \in DOMAIN events : by_command_id[events[i].command.number] = i - 1
        /\ Len(events) <= seq
        /\ seq = Len(events) =>
              \A n \in Numbers : by_command_id[n] # NoPosition =>
                  /\ by_command_id[n] + 1 \in DOMAIN events
                  /\ events[by_command_id[n] + 1].command.number = n

PathInv == PathTypes /\ NumberInv /\ SourceInv /\ MemoryInv
-----------------------------------------------------------------------------
\* The answers after a request are the ones before and perhaps the one it got.
LEMMA AnswerAdds ==
    ASSUME NEW c, NEW status, NEW position, Answer(c, status, position), NEW a \in answers'
    PROVE  a \in answers \/ a = [command |-> c, status |-> status, seq |-> position]
  BY DEF Answer

\* A page that loads has posted nothing.
LEMMA LoadStep ==
    ASSUME PathInv, NEW page \in Pages, Load(page)
    PROVE  PathInv'
  <1> USE DEF Load, server_vars, sink_vars
  <1>1. PathTypes' BY DEF PathInv, PathTypes
  <1>2. NumberInv'
    <2>1. \A c \in wire : c.page # page
      BY DEF PathInv, PathTypes, NumberInv, Command, Numbers, Closed
    <2>2. \A q \in Pages : q # page => counter'[q] = counter[q] BY DEF PathInv, PathTypes
    <2>3. \A c \in wire : c.page \in Pages BY DEF PathInv, PathTypes, Command
    <2> QED BY <2>1, <2>2, <2>3 DEF PathInv, NumberInv
  <1>3. SourceInv' BY DEF PathInv, SourceInv
  <1>4. MemoryInv' BY DEF PathInv, MemoryInv
  <1> QED BY <1>1, <1>2, <1>3, <1>4 DEF PathInv

\* A page that posts a command gives it a number of its own.
LEMMA IssueStep ==
    ASSUME PathInv, NEW page \in Pages, NEW payload \in Payloads, Issue(page, payload)
    PROVE  PathInv'
  <1> USE DEF Issue, server_vars, sink_vars
  <1> DEFINE new == [page |-> page, number |-> counter[page] + 1, payload |-> payload]
  <1>1. new \in Command
    BY CommandAssumption DEF Command, Numbers
  <1>2. counter[page] \in Nat /\ new.number = counter[page] + 1 /\ new.page = page
    BY CommandAssumption
  <1>3. wire' = wire \cup {new} OBVIOUS
  <1>4. /\ counter' \in [Pages -> {Closed} \cup Nat]
        /\ counter'[page] = counter[page] + 1
        /\ \A q \in Pages : q # page => counter'[q] = counter[q]
    BY <1>2 DEF PathInv, PathTypes
  <1> HIDE DEF new
  <1>5. PathTypes' BY <1>1, <1>3, <1>4 DEF PathInv, PathTypes
  <1>6. NumberInv'
    <2>1. \A c \in wire : c.page \in Pages /\ c.number \in Nat /\ c.number <= counter[c.page]
      BY CommandAssumption DEF PathInv, PathTypes, NumberInv, Command, Numbers
    <2>2. \A c \in wire' : c.number <= counter'[c.page]
      BY <1>2, <1>3, <1>4, <2>1
    <2>3. \A c \in wire : c.page = new.page => c.number # new.number
      BY <1>2, <2>1
    <2> QED BY <1>3, <2>2, <2>3 DEF PathInv, NumberInv
  <1>7. SourceInv' BY <1>3 DEF PathInv, SourceInv
  <1>8. MemoryInv' BY DEF PathInv, MemoryInv
  <1> QED BY <1>5, <1>6, <1>7, <1>8 DEF PathInv

\* A request that is refused changes nothing but the answers.
LEMMA RefuseStep ==
    ASSUME PathInv, NEW c \in wire, Refuse(c)
    PROVE  PathInv'
  <1> USE DEF page_vars, server_vars, sink_vars
  <1> DEFINE status == IF c.payload.ours THEN 422 ELSE 403
             got == [command |-> c, status |-> status, seq |-> NoPosition]
  <1>1. Answer(c, status, NoPosition) BY DEF Refuse
  <1>2. status # 202 OBVIOUS
  <1> HIDE DEF status
  <1>3. \A a \in answers' : a \in answers \/ a = got BY <1>1, AnswerAdds
  <1>4. got.command = c /\ got.status # 202 BY <1>2
  <1> HIDE DEF got
  <1>5. UNCHANGED <<counter, wire, seq, by_command_id, restarts, clock, lag, sealed, events>>
    BY DEF Refuse
  <1>6. PathTypes' /\ NumberInv' BY <1>5 DEF PathInv, PathTypes, NumberInv
  <1>7. SourceInv'
    BY <1>3, <1>4, <1>5 DEF PathInv, SourceInv, Refuse
  <1>8. MemoryInv' BY <1>3, <1>4, <1>5 DEF PathInv, MemoryInv
  <1> QED BY <1>6, <1>7, <1>8 DEF PathInv

\* A repeated id is answered with the position it holds.
LEMMA ReplayStep ==
    ASSUME PathInv, NEW c \in wire, Replay(c)
    PROVE  PathInv'
  <1> USE DEF page_vars, server_vars, sink_vars
  <1> DEFINE got == [command |-> c, status |-> 202, seq |-> by_command_id[c.number]]
  <1>1. \A a \in answers' : a \in answers \/ a = got BY AnswerAdds DEF Replay
  <1>2. got.command = c /\ got.status = 202 /\ got.seq = by_command_id[c.number] OBVIOUS
  <1> HIDE DEF got
  <1>3. UNCHANGED <<counter, wire, seq, by_command_id, restarts, clock, lag, sealed, events>>
    BY DEF Replay
  <1>4. PathTypes' /\ NumberInv' BY <1>3 DEF PathInv, PathTypes, NumberInv
  <1>5. SourceInv' BY <1>1, <1>2, <1>3 DEF PathInv, SourceInv, Replay
  <1>6. MemoryInv' BY <1>1, <1>2, <1>3 DEF PathInv, MemoryInv, Replay
  <1> QED BY <1>4, <1>5, <1>6 DEF PathInv

\* record takes a position for an id that holds none.
LEMMA RecordTakes ==
    ASSUME PathInv, NEW c \in wire, record(c), by_command_id[c.number] = NoPosition
    PROVE  /\ c.number \in Numbers /\ seq' = seq + 1 /\ seq' \in Nat /\ restarts' = restarts
           /\ by_command_id' \in [Numbers -> {NoPosition} \cup Nat]
           /\ by_command_id'[c.number] = seq /\ seq # NoPosition
           /\ \A n \in Numbers : n # c.number => by_command_id'[n] = by_command_id[n]
           /\ \A n \in Numbers : by_command_id[n] # NoPosition => n # c.number
  <1>1. c.number \in Numbers BY DEF PathInv, PathTypes, Command
  <1> QED BY <1>1 DEF PathInv, PathTypes, record, NoPosition

\* A command that is recorded, published and answered.
LEMMA AcceptStep ==
    ASSUME PathInv, NEW c \in wire, Accept(c)
    PROVE  PathInv'
  <1> USE DEF page_vars
  <1> DEFINE got == [command |-> c, status |-> 202, seq |-> seq]
             e == [seq |-> seq, ts |-> clock, command |-> c]
  <1>1. \A a \in answers' : a \in answers \/ a = got BY AnswerAdds DEF Accept
  <1>2. got.command = c /\ got.status = 202 /\ got.seq = seq OBVIOUS
  <1>3. /\ c.number \in Numbers /\ seq' = seq + 1 /\ seq' \in Nat /\ restarts' = restarts
        /\ by_command_id' \in [Numbers -> {NoPosition} \cup Nat]
        /\ by_command_id'[c.number] = seq /\ seq # NoPosition
        /\ \A n \in Numbers : n # c.number => by_command_id'[n] = by_command_id[n]
        /\ \A n \in Numbers : by_command_id[n] # NoPosition => n # c.number
    BY RecordTakes DEF Accept
  <1>4. UNCHANGED <<counter, wire, clock, lag, sealed>> BY DEF Accept
  <1>5. seq = Len(events) /\ seq \in Nat
    BY DEF Accept, sink_accepts, PathInv, PathTypes
  <1>6. /\ e \in [seq : Nat, ts : Nat, command : Command]
        /\ e.seq = seq /\ e.command = c
    BY DEF PathInv, PathTypes
  <1>7. /\ events' = Append(events, e)
        /\ events \in Seq([seq : Nat, ts : Nat, command : Command])
    BY DEF Accept, PathInv, PathTypes
  <1> HIDE DEF got, e
  <1>8. /\ events' \in Seq([seq : Nat, ts : Nat, command : Command])
        /\ Len(events') = Len(events) + 1
        /\ DOMAIN events' = DOMAIN events \cup {Len(events) + 1}
        /\ events'[Len(events) + 1] = e
        /\ \A i \in DOMAIN events : events'[i] = events[i]
        /\ \A i \in DOMAIN events : i \in Nat /\ i <= Len(events)
    BY <1>6, <1>7
  <1>9. PathTypes' BY <1>3, <1>4, <1>8 DEF PathInv, PathTypes
  <1>10. NumberInv' BY <1>4 DEF PathInv, NumberInv
  <1>11. SourceInv'
    <2>1. \A a \in answers' :
            /\ a.command \in wire'
            /\ a.status = 202 => validate_command(a.command.payload)
            /\ a.status \in {403, 422} => ~validate_command(a.command.payload)
      BY <1>1, <1>2, <1>4 DEF PathInv, SourceInv, Accept
    <2>2. ASSUME NEW i \in DOMAIN events'
          PROVE  /\ events'[i].command \in wire'
                 /\ validate_command(events'[i].command.payload)
                 /\ events'[i].seq = i - 1
      <3>1. CASE i \in DOMAIN events BY <1>4, <1>8, <3>1 DEF PathInv, SourceInv
      <3>2. CASE i = Len(events) + 1
        BY <1>4, <1>5, <1>6, <1>8, <3>2 DEF Accept
      <3> QED BY <1>8, <3>1, <3>2
    <2> QED BY <2>1, <2>2 DEF SourceInv
  <1>12. MemoryInv'
    <2> SUFFICES ASSUME restarts = 0
                 PROVE  /\ \A a \in answers' : a.status = 202 =>
                              /\ by_command_id'[a.command.number] # NoPosition
                              /\ by_command_id'[a.command.number] = a.seq
                        /\ \A i \in DOMAIN events' :
                              by_command_id'[events'[i].command.number] = i - 1
                        /\ Len(events') <= seq'
                        /\ \A n \in Numbers : by_command_id'[n] # NoPosition =>
                              /\ by_command_id'[n] + 1 \in DOMAIN events'
                              /\ events'[by_command_id'[n] + 1].command.number = n
      BY <1>3 DEF MemoryInv
    <2>1. \A a \in answers : a.command.number \in Numbers
      BY DEF PathInv, PathTypes, SourceInv, Command
    <2>2. \A i \in DOMAIN events : events[i].command.number \in Numbers
      BY DEF PathInv, PathTypes, SourceInv, Command
    <2>3. ASSUME NEW a \in answers', a.status = 202
          PROVE  /\ by_command_id'[a.command.number] # NoPosition
                 /\ by_command_id'[a.command.number] = a.seq
      <3>1. CASE a \in answers BY <1>3, <2>1, <2>3, <3>1 DEF PathInv, MemoryInv
      <3>2. CASE a = got BY <1>2, <1>3, <3>2
      <3> QED BY <1>1, <3>1, <3>2
    <2>4. ASSUME NEW i \in DOMAIN events'
          PROVE  by_command_id'[events'[i].command.number] = i - 1
      <3>1. CASE i \in DOMAIN events
        <4>1. by_command_id[events[i].command.number] = i - 1 BY <3>1 DEF PathInv, MemoryInv
        <4>2. i - 1 # NoPosition BY <3>1, <1>7 DEF NoPosition
        <4> QED BY <1>3, <1>8, <2>2, <3>1, <4>1, <4>2
      <3>2. CASE i = Len(events) + 1 BY <1>3, <1>5, <1>6, <1>8, <3>2
      <3> QED BY <1>8, <3>1, <3>2
    <2>5. Len(events') <= seq' BY <1>3, <1>5, <1>8
    <2>6. ASSUME NEW n \in Numbers, by_command_id'[n] # NoPosition
          PROVE  /\ by_command_id'[n] + 1 \in DOMAIN events'
                 /\ events'[by_command_id'[n] + 1].command.number = n
      <3>1. CASE n = c.number BY <1>3, <1>5, <1>6, <1>8, <3>1
      <3>2. CASE n # c.number
        BY <1>3, <1>5, <1>8, <2>6, <3>2, SMTT(60) DEF PathInv, MemoryInv
      <3> QED BY <3>1, <3>2
    <2> QED BY <2>3, <2>4, <2>5, <2>6
  <1> QED BY <1>9, <1>10, <1>11, <1>12 DEF PathInv

\* A position that the sink refuses puts the counter ahead of the log for good.
LEMMA SinkRefusesStep ==
    ASSUME PathInv, NEW c \in wire, SinkRefuses(c)
    PROVE  PathInv'
  <1> USE DEF page_vars, sink_vars
  <1> DEFINE got == [command |-> c, status |-> 500, seq |-> NoPosition]
  <1>1. \A a \in answers' : a \in answers \/ a = got BY AnswerAdds DEF SinkRefuses
  <1>2. got.command = c /\ got.status = 500 OBVIOUS
  <1> HIDE DEF got
  <1>3. /\ c.number \in Numbers /\ seq' = seq + 1 /\ seq' \in Nat /\ restarts' = restarts
        /\ by_command_id' \in [Numbers -> {NoPosition} \cup Nat]
        /\ by_command_id'[c.number] = seq /\ seq # NoPosition
        /\ \A n \in Numbers : n # c.number => by_command_id'[n] = by_command_id[n]
        /\ \A n \in Numbers : by_command_id[n] # NoPosition => n # c.number
    BY RecordTakes DEF SinkRefuses
  <1>4. UNCHANGED <<counter, wire, clock, lag, sealed, events>> BY DEF SinkRefuses
  <1>5. PathTypes' /\ NumberInv' BY <1>3, <1>4 DEF PathInv, PathTypes, NumberInv
  <1>6. SourceInv' BY <1>1, <1>2, <1>4 DEF PathInv, SourceInv
  <1>7. MemoryInv'
    <2> SUFFICES ASSUME restarts = 0
                 PROVE  /\ \A a \in answers' : a.status = 202 =>
                              /\ by_command_id'[a.command.number] # NoPosition
                              /\ by_command_id'[a.command.number] = a.seq
                        /\ \A i \in DOMAIN events' :
                              by_command_id'[events'[i].command.number] = i - 1
                        /\ Len(events') <= seq' /\ seq' # Len(events')
      BY <1>3 DEF MemoryInv
    <2>1. \A a \in answers : a.command.number \in Numbers
      BY DEF PathInv, PathTypes, SourceInv, Command
    <2>2. \A i \in DOMAIN events : events[i].command.number \in Numbers /\ i - 1 # NoPosition
      BY DEF PathInv, PathTypes, SourceInv, Command, NoPosition
    <2>3. \A a \in answers' : a.status = 202 =>
              /\ by_command_id'[a.command.number] # NoPosition
              /\ by_command_id'[a.command.number] = a.seq
      BY <1>1, <1>2, <1>3, <2>1 DEF PathInv, MemoryInv
    <2>4. \A i \in DOMAIN events' : by_command_id'[events'[i].command.number] = i - 1
      BY <1>3, <1>4, <2>2 DEF PathInv, MemoryInv
    <2>5. Len(events) \in Nat /\ Len(events) <= seq /\ seq \in Nat
      BY DEF PathInv, PathTypes, MemoryInv
    <2> QED BY <1>3, <1>4, <2>3, <2>4, <2>5
  <1> QED BY <1>5, <1>6, <1>7 DEF PathInv

\* Every step of the pages, the server and the sink keeps the invariant.
LEMMA PathStep ==
    ASSUME PathInv, [Next]_vars
    PROVE  PathInv'
  <1>1. ASSUME NEW page \in Pages, Load(page) PROVE PathInv' BY <1>1, LoadStep
  <1>2. ASSUME NEW page \in Pages, NEW payload \in Payloads, Issue(page, payload)
        PROVE  PathInv'
    BY <1>2, IssueStep
  <1>3. ASSUME NEW c \in wire, Handle(c) PROVE PathInv'
    BY <1>3, RefuseStep, ReplayStep, AcceptStep, SinkRefusesStep DEF Handle
  <1>4. CASE RestartServer
    <2>1. restarts' \in Nat /\ restarts' # 0 BY <1>4 DEF RestartServer, PathInv, PathTypes
    <2>2. UNCHANGED <<counter, wire, answers, clock, events>>
      BY <1>4 DEF RestartServer, page_vars, sink_vars
    <2>3. PathTypes' BY <1>4, <2>1, <2>2 DEF RestartServer, PathInv, PathTypes
    <2>4. NumberInv' /\ SourceInv' BY <2>2 DEF PathInv, NumberInv, SourceInv
    <2>5. MemoryInv' BY <2>1 DEF MemoryInv
    <2> QED BY <2>3, <2>4, <2>5 DEF PathInv
  <1>5. CASE Tick \/ CatchUp \/ Seal \/ UNCHANGED vars
    <2>1. UNCHANGED <<counter, wire, answers, seq, by_command_id, restarts, events>>
      BY <1>5 DEF Tick, CatchUp, Seal, vars, page_vars, server_vars, sink_vars
    <2>2. clock' \in Nat
      BY <1>5 DEF Tick, CatchUp, Seal, vars, sink_vars, PathInv, PathTypes
    <2>3. PathTypes' BY <2>1, <2>2 DEF PathInv, PathTypes
    <2>4. NumberInv' /\ SourceInv' /\ MemoryInv'
      BY <2>1 DEF PathInv, NumberInv, SourceInv, MemoryInv
    <2> QED BY <2>3, <2>4 DEF PathInv
  <1> QED BY <1>1, <1>2, <1>3, <1>4, <1>5 DEF Next
-----------------------------------------------------------------------------
\* Pages, server and log agree on what every command id means, whatever is
\* repeated, delayed, lost or refused.
THEOREM PathCorrect == Spec => []PathInv
  <1>1. ASSUME Init PROVE PathInv
    <2>1. PathTypes BY <1>1 DEF Init, PathTypes
    <2>2. NumberInv BY <1>1 DEF Init, NumberInv
    <2>3. SourceInv BY <1>1 DEF Init, SourceInv
    <2>4. MemoryInv BY <1>1 DEF Init, MemoryInv
    <2> QED BY <2>1, <2>2, <2>3, <2>4 DEF PathInv
  <1>2. PathInv /\ [Next]_vars => PathInv' BY PathStep
  <1> QED BY <1>1, <1>2, PTL DEF Spec

\* CommandLog answers every 202 for an id with the same position, until the server
\* restarts.
THEOREM RetriesKeepPosition == Spec => []RetryKeepsPosition
  <1>1. PathInv => RetryKeepsPosition
    BY DEF PathInv, MemoryInv, RetryKeepsPosition
  <1> QED BY <1>1, PathCorrect, PTL

\* A command is on the log at most once until the server restarts, and never when a
\* page was told that it is refused.
THEOREM CommandsRecordedOnce == Spec => []RecordedOnce
  <1>1. ASSUME PathInv, NEW c \in wire, restarts = 0, NEW i \in EventsOf(c), NEW j \in EventsOf(c)
        PROVE  i = j
    <2>1. i \in Int /\ j \in Int /\ i \in DOMAIN events /\ j \in DOMAIN events
      BY <1>1 DEF EventsOf, PathInv, PathTypes
    <2>2. i - 1 = j - 1 BY <1>1, <2>1 DEF EventsOf, PathInv, MemoryInv
    <2> QED BY <2>1, <2>2
  <1>2. ASSUME PathInv, NEW c \in wire, NEW a \in answers, a.command = c, a.status \in {403, 422}
        PROVE  EventsOf(c) = {}
    BY <1>2 DEF EventsOf, PathInv, SourceInv
  <1>3. PathInv => RecordedOnce BY <1>1, <1>2 DEF RecordedOnce
  <1> QED BY <1>3, PathCorrect, PTL

\* With one page, a server that has not restarted and a sink that has refused
\* nothing, a 202 is never a hole in the audit log.
THEOREM AcknowledgedAreRecorded == Spec => []AcknowledgedWhileInStep
  <1>1. ASSUME PathInv, restarts = 0, seq = Len(events),
               \A page \in Pages \ {1} : counter[page] = Closed,
               NEW a \in answers, a.status = 202
        PROVE  \E i \in EventsOf(a.command) : events[i].seq = a.seq
    <2> DEFINE n == a.command.number
               i == by_command_id[n] + 1
    <2>1. a.command \in wire BY <1>1 DEF PathInv, SourceInv
    <2>2. n \in Numbers BY <1>1, <2>1 DEF PathInv, PathTypes, Command
    <2>3. by_command_id[n] # NoPosition /\ by_command_id[n] = a.seq
      BY <1>1 DEF PathInv, MemoryInv
    <2>4. i \in DOMAIN events /\ events[i].command.number = n
      BY <1>1, <2>2, <2>3 DEF PathInv, MemoryInv
    <2>5. by_command_id[n] \in Nat BY <1>1, <2>2, <2>3 DEF PathInv, PathTypes
    <2>6. events[i].command \in wire /\ events[i].seq = a.seq
      BY <1>1, <2>3, <2>4, <2>5 DEF PathInv, SourceInv
    <2>7. ASSUME NEW c \in wire PROVE c.page = 1
      BY <1>1, <2>7 DEF PathInv, PathTypes, NumberInv, Command, Numbers, Closed
    <2>8. events[i].command = a.command
      BY <1>1, <2>1, <2>4, <2>6, <2>7 DEF PathInv, NumberInv
    <2> QED BY <2>4, <2>6, <2>8 DEF EventsOf
  <1>2. PathInv => AcknowledgedWhileInStep
    BY <1>1 DEF AcknowledgedWhileInStep, AcknowledgedIsRecorded
  <1> QED BY <1>2, PathCorrect, PTL
=============================================================================
