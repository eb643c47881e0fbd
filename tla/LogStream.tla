------------------------------ MODULE LogStream ------------------------------
(***************************************************************************)
(* The log of one execution: internal/api/logs.go and the execution_logs   *)
(* table.  The goroutines that copy the output of a server append lines;   *)
(* each line is stamped, inserted and then published to the channels of    *)
(* the clients that follow the execution over server-sent events.  A       *)
(* client is first sent the table and subscribes afterwards, so that lines *)
(* which are appended meanwhile may reach it twice, or not at all.         *)
(*                                                                         *)
(* phase[c] follows handleExecutionStream for client c:                    *)
(*   away       not connected                                              *)
(*   listed     the history has been read                                  *)
(*   replayed   the history has been sent                                  *)
(*   live       subscribed                                                 *)
(*   leaving    its channel is removed and not yet closed                  *)
(***************************************************************************)
EXTENDS SequencesExt, FiniteSets, Naturals

CONSTANTS
  Writers,   \* goroutines that append lines
  MaxLines,  \* bound: the lines a writer appends
  MaxClock,  \* bound: the milliseconds that pass
  Clients,
  MaxConns,  \* bound: the connections a client makes
  LastIds,   \* the values of Last-Event-ID, 0 for none
  Buffer     \* capacity of a client's channel (128)

ASSUME LogStreamAssumption ==
  /\ MaxLines \in Nat /\ MaxClock \in Nat /\ MaxConns \in Nat /\ Buffer \in Nat
  /\ LastIds \subseteq Nat

VARIABLES
  clock,     \* the wall clock, in milliseconds
  stored,    \* execution_logs, in the order in which it is listed
  appending, \* appending[w]: where writer w is in appendExecutionLog
  line,      \* line[w]: the line it appends, or has appended last
  streams,   \* Server.streams: the clients whose channel is registered
  buf,       \* buf[c]: the content of the channel
  closed,    \* clients whose channel is closed
  phase,
  history,   \* history[c]: the part of the table that c is to be sent
  received,  \* received[c]: the lines of the current connection
  \* history
  conns,     \* conns[c]: connections made so far
  due,       \* due[c]: lines of its history whose append was complete by then
  begun,     \* begun[c][w]: the last line w had stamped when c subscribed
  dropped    \* dropped[c]: lines that found its channel full

table   == <<clock, stored>>
writers == <<appending, line>>
channel == <<streams, buf, closed, dropped>>
session == <<phase, history, received, conns, due, begun>>
vars    == <<table, writers, channel, session>>

Lines == [by : Writers, nr : 0..MaxLines, ts : 0..MaxClock]

(* Whether writer w has finished appending its line n.                     *)
Published(w, n) == n < line[w].nr \/ (n = line[w].nr /\ appending[w] = "idle")

Init ==
  /\ clock = 0 /\ stored = <<>>
  /\ appending = [w \in Writers |-> "idle"]
  /\ line = [w \in Writers |-> [by |-> w, nr |-> 0, ts |-> 0]]
  /\ streams = {} /\ closed = {}
  /\ buf = [c \in Clients |-> <<>>]
  /\ dropped = [c \in Clients |-> {}]
  /\ phase = [c \in Clients |-> "away"]
  /\ history = [c \in Clients |-> <<>>]
  /\ received = [c \in Clients |-> <<>>]
  /\ conns = [c \in Clients |-> 0]
  /\ due = [c \in Clients |-> {}]
  /\ begun = [c \in Clients |-> [w \in Writers |-> 0]]

-----------------------------------------------------------------------------
(* appendExecutionLog.  The line is stamped before it is inserted, so that *)
(* two writers may insert in the other order.                              *)

Stamp(w) ==
  /\ appending[w] = "idle" /\ line[w].nr < MaxLines
  /\ line' = [line EXCEPT ![w].nr = @ + 1, ![w].ts = clock]
  /\ clock' \in {clock, clock + 1} \intersect 0..MaxClock
  /\ appending' = [appending EXCEPT ![w] = "stamped"]
  /\ UNCHANGED <<stored, channel, session>>

InsertTied(w) ==  \* a mutant: the listing orders by timestamp alone
  /\ appending[w] = "stamped"
  /\ \E i \in 1..(Len(stored) + 1) :
       /\ \A k \in DOMAIN stored : /\ k < i => stored[k].ts <= line[w].ts
                                   /\ k >= i => stored[k].ts >= line[w].ts
       /\ stored' = InsertAt(stored, i, line[w])
  /\ appending' = [appending EXCEPT ![w] = "inserted"]
  /\ UNCHANGED <<clock, line, channel, session>>

(* ORDER BY timestamp, id: after the rows that are not younger.  An insert *)
(* that fails is ignored, and the line published all the same.             *)
Insert(w) ==
  /\ appending[w] = "stamped"
  /\ \/ LET older == {i \in DOMAIN stored : stored[i].ts <= line[w].ts}
        IN  stored' = InsertAt(stored, Cardinality(older) + 1, line[w])
     \/ UNCHANGED stored
  /\ appending' = [appending EXCEPT ![w] = "inserted"]
  /\ UNCHANGED <<clock, line, channel, session>>

Full(c) == Len(buf[c]) >= Buffer

PublishOverfull(w) ==  \* a mutant: room for one line too many
  /\ appending[w] = "inserted"
  /\ buf' = [c \in Clients |-> IF c \in streams /\ Len(buf[c]) <= Buffer
                               THEN Append(buf[c], line[w]) ELSE buf[c]]
  /\ appending' = [appending EXCEPT ![w] = "idle"]
  /\ UNCHANGED <<table, line, streams, closed, dropped, session>>

PublishEvicts(w) ==  \* a mutant: a full channel loses its oldest line
  /\ appending[w] = "inserted"
  /\ buf' = [c \in Clients |->
               IF c \notin streams THEN buf[c]
               ELSE Append(IF Full(c) THEN Tail(buf[c]) ELSE buf[c], line[w])]
  /\ appending' = [appending EXCEPT ![w] = "idle"]
  /\ UNCHANGED <<table, line, streams, closed, dropped, session>>

PublishWaits(w) ==  \* a mutant: the send blocks while a channel is full
  /\ appending[w] = "inserted"
  /\ \A c \in streams : ~Full(c)
  /\ buf' = [c \in Clients |->
               IF c \in streams THEN Append(buf[c], line[w]) ELSE buf[c]]
  /\ appending' = [appending EXCEPT ![w] = "idle"]
  /\ UNCHANGED <<table, line, streams, closed, dropped, session>>

(* publishExecutionLog, under the mutex: a full channel misses the line.   *)
Publish(w) ==
  /\ appending[w] = "inserted"
  /\ buf' = [c \in Clients |-> IF c \in streams /\ ~Full(c)
                               THEN Append(buf[c], line[w]) ELSE buf[c]]
  /\ dropped' = [c \in Clients |-> IF c \in streams /\ Full(c)
                                   THEN dropped[c] \union {line[w]} ELSE dropped[c]]
  /\ appending' = [appending EXCEPT ![w] = "idle"]
  /\ UNCHANGED <<table, line, streams, closed, session>>

-----------------------------------------------------------------------------
(* handleExecutionStream.                                                  *)

(* The first index that is replayed: a Last-Event-ID counts only when it   *)
(* lies inside the history.                                                *)
StartIndex(lastId, len) == IF 0 < lastId /\ lastId < len THEN lastId ELSE 0

(* A client connects, with a Last-Event-ID or without one (0).  A listing  *)
(* that fails counts as an empty history.                                  *)
List(c) ==
  /\ phase[c] = "away" /\ conns[c] < MaxConns
  /\ \E lastId \in LastIds, listed \in {stored, <<>>} :
       /\ history' = [history EXCEPT ![c] =
            SubSeq(listed, StartIndex(lastId, Len(listed)) + 1, Len(listed))]
       /\ due' = [due EXCEPT ![c] =
            {l \in ToSet(history'[c]) : Published(l.by, l.nr)}]
  /\ conns' = [conns EXCEPT ![c] = @ + 1]
  /\ phase' = [phase EXCEPT ![c] = "listed"]
  /\ UNCHANGED <<table, writers, channel, received, begun>>

(* The history is written out; the handler returns when a write fails.     *)
Replay(c) ==
  /\ phase[c] = "listed"
  /\ \/ /\ received' = [received EXCEPT ![c] = history[c]]
        /\ phase' = [phase EXCEPT ![c] = "replayed"]
        /\ UNCHANGED due
     \/ /\ history[c] # <<>>
        /\ due' = [due EXCEPT ![c] = {}]
        /\ phase' = [phase EXCEPT ![c] = "away"]
        /\ UNCHANGED received
  /\ history' = [history EXCEPT ![c] = <<>>]
  /\ UNCHANGED <<table, writers, channel, conns, begun>>

(* subscribeExecutionLog: a new channel is registered under the mutex.     *)
Subscribe(c) ==
  /\ phase[c] = "replayed"
  /\ streams' = streams \union {c}
  /\ buf' = [buf EXCEPT ![c] = <<>>]
  /\ closed' = closed \ {c}
  /\ dropped' = [dropped EXCEPT ![c] = {}]
  /\ begun' = [begun EXCEPT ![c] = [w \in Writers |-> line[w].nr]]
  /\ phase' = [phase EXCEPT ![c] = "live"]
  /\ UNCHANGED <<table, writers, history, received, conns, due>>

(* The handler has returned.                                               *)
ForgetSession(c) ==
  /\ received' = [received EXCEPT ![c] = <<>>]
  /\ due' = [due EXCEPT ![c] = {}]
  /\ begun' = [begun EXCEPT ![c] = [w \in Writers |-> 0]]
  /\ dropped' = [dropped EXCEPT ![c] = {}]

Deliver(c) ==
  /\ phase[c] = "live" /\ buf[c] # <<>>
  /\ received' = [received EXCEPT ![c] = Append(@, Head(buf[c]))]
  /\ buf' = [buf EXCEPT ![c] = Tail(@)]
  /\ UNCHANGED <<table, writers, streams, closed, dropped, phase, history,
                 conns, due, begun>>

LeaveClosing(c) ==  \* a mutant: the channel is closed before it is removed
  /\ phase[c] = "live"
  /\ closed' = closed \union {c}
  /\ phase' = [phase EXCEPT ![c] = "leaving"]
  /\ UNCHANGED <<table, writers, streams, buf, dropped, history,
                 received, conns, due, begun>>

(* The client is gone, or a write failed: the deferred unsubscribe removes *)
(* the channel under the mutex and closes it afterwards; what it holds is  *)
(* never read.                                                             *)
Leave(c) ==
  /\ phase[c] = "live"
  /\ streams' = streams \ {c}
  /\ buf' = [buf EXCEPT ![c] = <<>>]
  /\ phase' = [phase EXCEPT ![c] = "leaving"]
  /\ ForgetSession(c)
  /\ UNCHANGED <<table, writers, closed, history, conns>>

Close(c) ==
  /\ phase[c] = "leaving"
  /\ closed' = closed \union {c}
  /\ phase' = [phase EXCEPT ![c] = "away"]
  /\ UNCHANGED <<table, writers, streams, buf, dropped, history,
                 received, conns, due, begun>>

-----------------------------------------------------------------------------
AppendLine(w) == Insert(w) \/ Publish(w)

Next ==
  \/ \E w \in Writers : Stamp(w) \/ AppendLine(w)
  \/ \E c \in Clients : \/ List(c) \/ Replay(c) \/ Subscribe(c)
                        \/ Deliver(c) \/ Leave(c) \/ Close(c)

Spec == Init /\ [][Next]_vars

(* A goroutine that has started an append goes on with it; clients need    *)
(* not read, and output need not come.                                     *)
FairSpec == Spec /\ \A w \in Writers : WF_vars(AppendLine(w))

-----------------------------------------------------------------------------
(* What client c has been sent in this connection, and is going to be.     *)
Sent(c) == received[c] \o buf[c]

Times(c, w, n) ==
  Cardinality({i \in DOMAIN Sent(c) : Sent(c)[i].by = w /\ Sent(c)[i].nr = n})

(* The types of the variables.                                             *)
TypeOK ==
  /\ clock \in 0..MaxClock
  /\ stored \in Seq(Lines)
  /\ appending \in [Writers -> {"idle", "stamped", "inserted"}]
  /\ line \in [Writers -> Lines]
  /\ streams \subseteq Clients /\ closed \subseteq Clients
  /\ buf \in [Clients -> Seq(Lines)]
  /\ \A c \in Clients : Len(buf[c]) <= Buffer
  /\ phase \in [Clients -> {"away", "listed", "replayed", "live", "leaving"}]
  /\ history \in [Clients -> Seq(Lines)]
  /\ received \in [Clients -> Seq(Lines)]
  /\ conns \in [Clients -> 0..MaxConns]
  /\ due \in [Clients -> SUBSET Lines]
  /\ begun \in [Clients -> [Writers -> 0..MaxLines]]
  /\ dropped \in [Clients -> SUBSET Lines]

(* publishExecutionLog never sends on a closed channel, which would panic, *)
(* although clients come and go while lines are published.                 *)
StreamsAreOpen == streams \intersect closed = {}

(* What a live client may rely on.  A line of the history whose append was *)
(* complete when the history was read comes exactly once; so does a line   *)
(* whose append began after the client had subscribed, unless the channel  *)
(* was full; and of the appends that overlap both, at most one line per    *)
(* writer comes twice.                                                     *)
DeliveredOnce ==
  \A c \in streams :
    /\ \A l \in due[c] : Times(c, l.by, l.nr) = 1
    /\ \A w \in Writers :
         /\ \A n \in (begun[c][w] + 1)..line[w].nr :
              Published(w, n) /\ (\A l \in dropped[c] : l.by # w \/ l.nr # n)
                => Times(c, w, n) = 1
         /\ \A n \in 1..line[w].nr :
              Times(c, w, n) > 1 => Times(c, w, n) = 2 /\ n = begun[c][w]

(* In one connection the lines of one writer, the output of one server,    *)
(* come in the order in which it wrote them.                               *)
WriterOrderKept ==
  \A c \in Clients : \A i, k \in DOMAIN Sent(c) :
    i < k /\ Sent(c)[i].by = Sent(c)[k].by => Sent(c)[i].nr <= Sent(c)[k].nr

(* "Avoid blocking runner on slow stream consumers" (logs.go:34): an       *)
(* append that has begun ends, whatever the clients do.                    *)
AppendsEnd == \A w \in Writers : appending[w] = "stamped" ~> appending[w] = "idle"
=============================================================================
