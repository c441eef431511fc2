------------------------------- MODULE Console -------------------------------
(***************************************************************************)
(* The consoles of the Cells (internal/cell/console.go,                    *)
(* console_sessions.go, SendCommand in lifecycle.go) and the WebSocket     *)
(* handler that shows one to a client (ConsoleWebSocket in                 *)
(* internal/api/handlers.go): the lines each Cell keeps, the channels that *)
(* are told of new ones, and the one-time tokens a client opens with.      *)
(*                                                                         *)
(* What the manager does holds m.mutex and is one action.  A connection    *)
(* has two goroutines: the handler, which hands lines to the client, and a *)
(* reader, which takes its commands.  A line is its number.                *)
(***************************************************************************)
EXTENDS Naturals, Sequences

CONSTANTS
  Cells,      \* Cell IDs
  Clients,    \* connections
  Tokens,     \* session tokens; a UUID is never given out twice
  NoToken,
  Capacity,   \* lines a channel holds (100)
  MaxLines,   \* lines a Cell keeps (300)
  LineBound   \* how many lines a Cell says in a run

ASSUME ConsoleAssumption ==
  /\ Cells # {}
  /\ Capacity \in Nat \ {0}
  /\ MaxLines \in Nat \ {0}
  /\ LineBound \in Nat
  /\ NoToken \notin Tokens

VARIABLES
  known,        \* the Cells in m.cells
  said,         \* lines each Cell ID has said
  console,      \* cell.console
  subscribers,  \* cell.subscribers: the connections whose channel is told
  session,      \* m.consoleSessions, and the tokens not yet or no longer in it
  handler,      \* the handler of each connection: its step, Cell, token and line in hand
  channel,      \* its channel
  shown,        \* the lines the client was handed
  lost,         \* the lines that found the channel full
  reader,       \* the goroutine that reads the client's messages
  gone          \* the clients that have closed their end

record == <<known, said, console>>
link == <<channel, lost>>
consoleVars ==
  <<record, subscribers, session, handler, link, shown, reader, gone>>

Lines == 1..LineBound
HandlerSteps == {"off", "open", "greet", "loop", "write", "leave"}
ReaderSteps == {"off", "read", "echo", "sent", "refused", "done"}
Idle == [pc |-> "off", cell |-> CHOOSE id \in Cells : TRUE, token |-> NoToken, line |-> 0]

ConsoleTypeOK ==
  /\ known \subseteq Cells
  /\ said \in [Cells -> 0..LineBound]
  /\ console \in [Cells -> Seq(Lines)]
  /\ \A id \in Cells : Len(console[id]) <= MaxLines
  /\ subscribers \in [Cells -> SUBSET Clients]
  /\ session \in [Tokens -> [state : {"unused", "fresh", "spent"}, cell : Cells]]
  /\ handler \in [Clients -> [pc : HandlerSteps, cell : Cells,
                              token : Tokens \cup {NoToken}, line : 0..LineBound]]
  /\ channel \in [Clients -> Seq(Lines)]
  /\ \A c \in Clients : Len(channel[c]) <= Capacity
  /\ shown \in [Clients -> SUBSET Lines]
  /\ lost \in [Clients -> SUBSET Lines]
  /\ reader \in [Clients -> ReaderSteps]
  /\ gone \subseteq Clients

ConsoleInit ==
  /\ known = {}
  /\ said = [id \in Cells |-> 0]
  /\ console = [id \in Cells |-> <<>>]
  /\ subscribers = [id \in Cells |-> {}]
  /\ session = [t \in Tokens |-> [state |-> "unused", cell |-> Idle.cell]]
  /\ handler = [c \in Clients |-> Idle]
  /\ channel = [c \in Clients |-> <<>>]
  /\ shown = [c \in Clients |-> {}]
  /\ lost = [c \in Clients |-> {}]
  /\ reader = [c \in Clients |-> "off"]
  /\ gone = {}

-----------------------------------------------------------------------------
LinesOf(s) == {s[i] : i \in 1..Len(s)}
InStep(c, pc) == handler[c].pc = pc
Step(c, pc) == handler' = [handler EXCEPT ![c].pc = pc]
Read(c, pc) == reader' = [reader EXCEPT ![c] = pc]

\* Slips: the oldest waiting line makes room for the new one; no line is ever cut;
\* the token outlives its use; nothing tells the handler that the reader has
\* ended; a failing write leaves the channel behind.
Displace(s, line) ==
  IF Len(s) < Capacity THEN Append(s, line) ELSE Append(Tail(s), line)
TokenStays(t) == UNCHANGED session
DoneUnheard(c) == FALSE
LeaveAtOnce(c) == handler' = [handler EXCEPT ![c] = Idle]
EndlessConsole(s) == s

\* select { case ch <- line: default: }
Offer(s, line) == IF Len(s) < Capacity THEN Append(s, line) ELSE s

\* trimConsole
Trim(s) == IF Len(s) > MaxLines THEN SubSeq(s, Len(s) - MaxLines + 1, Len(s)) ELSE s

\* broadcast, of a Cell that is there
Broadcast(id) ==
  LET line == said[id] + 1 IN
  /\ said[id] < LineBound
  /\ said' = [said EXCEPT ![id] = line]
  /\ console' = [console EXCEPT ![id] = Trim(Append(@, line))]
  /\ channel' = [c \in Clients |-> IF c \in subscribers[id] THEN Offer(channel[c], line)
                                   ELSE channel[c]]
  /\ lost' = [c \in Clients |-> IF c \in subscribers[id] /\ Len(channel[c]) = Capacity
                                THEN lost[c] \cup {line} ELSE lost[c]]

\* Any line of the game server, an installation or the manager itself.
Say(id) ==
  /\ id \in known
  /\ Broadcast(id)
  /\ UNCHANGED <<known, subscribers, session, handler, shown, reader, gone>>

Clear(id) ==
  /\ id \in known
  /\ console' = [console EXCEPT ![id] = <<>>]
  /\ UNCHANGED <<known, said, subscribers, session, handler, link, shown, reader, gone>>

\* Create makes a record with no lines and no subscribers; Delete drops the
\* record, channels and all, and tells nobody.
CreateCell(id) ==
  /\ id \notin known
  /\ known' = known \cup {id}
  /\ UNCHANGED <<said, console, subscribers, session, handler, link, shown, reader, gone>>

DeleteCell(id) ==
  /\ id \in known
  /\ known' = known \ {id}
  /\ console' = [console EXCEPT ![id] = <<>>]
  /\ subscribers' = [subscribers EXCEPT ![id] = {}]
  /\ UNCHANGED <<said, session, handler, link, shown, reader, gone>>

-----------------------------------------------------------------------------
CreateConsoleSession(t, id) ==
  /\ id \in known
  /\ session[t].state = "unused"
  /\ session' = [session EXCEPT ![t] = [state |-> "fresh", cell |-> id]]
  /\ UNCHANGED <<record, subscribers, handler, link, shown, reader, gone>>

\* delete(m.consoleSessions, token), before anything else is looked at
Spend(t) == session' = [session EXCEPT ![t].state = "spent"]

\* A token of another Cell, or one older than thirty seconds, is spent for nothing;
\* one that nobody comes with stays.
ValidateConsoleSession(c, id, t) ==
  /\ InStep(c, "off") /\ reader[c] = "off" /\ c \notin gone
  /\ session[t].state = "fresh"
  /\ Spend(t)
  /\ \/ /\ session[t].cell = id
        /\ handler' = [handler EXCEPT ![c] = [pc |-> "open", cell |-> id, token |-> t, line |-> 0]]
     \/ UNCHANGED handler
  /\ UNCHANGED <<record, subscribers, link, shown, reader, gone>>

-----------------------------------------------------------------------------
\* SubscribeWithHistory registers the channel and fills it with the lines kept,
\* oldest first, until it is full.
SubscribeWithHistory(c, includeHistory) ==
  LET id == handler[c].cell
      history == IF includeHistory THEN console[id] ELSE <<>>
      room == IF Len(history) < Capacity THEN Len(history) ELSE Capacity
  IN
  /\ InStep(c, "open")
  /\ IF id \in known
     THEN /\ subscribers' = [subscribers EXCEPT ![id] = @ \cup {c}]
          /\ channel' = [channel EXCEPT ![c] = SubSeq(history, 1, room)]
          /\ lost' = [lost EXCEPT ![c] = LinesOf(SubSeq(history, room + 1, Len(history)))]
          /\ Step(c, "greet")
     ELSE /\ handler' = [handler EXCEPT ![c] = Idle]
          /\ UNCHANGED <<subscribers, link>>
  /\ UNCHANGED <<record, session, shown, reader, gone>>

\* return, with the deferred Unsubscribe and Close to come
GiveUp(c) == Step(c, "leave")

\* A write fails only once the client has gone, and need not even then.
Greet(c) ==
  /\ InStep(c, "greet")
  /\ \/ Step(c, "loop") /\ Read(c, "read")
     \/ c \in gone /\ GiveUp(c) /\ UNCHANGED reader
  /\ UNCHANGED <<record, subscribers, session, link, shown, gone>>

TakeLine(c) ==
  /\ InStep(c, "loop")
  /\ channel[c] # <<>>
  /\ channel' = [channel EXCEPT ![c] = Tail(@)]
  /\ handler' = [handler EXCEPT ![c].pc = "write", ![c].line = Head(channel[c])]
  /\ UNCHANGED <<record, subscribers, session, lost, shown, reader, gone>>

WriteLine(c) ==
  /\ InStep(c, "write")
  /\ \/ /\ shown' = [shown EXCEPT ![c] = @ \cup {handler[c].line}]
        /\ handler' = [handler EXCEPT ![c].pc = "loop", ![c].line = 0]
     \/ c \in gone /\ GiveUp(c) /\ UNCHANGED shown
  /\ UNCHANGED <<record, subscribers, session, link, reader, gone>>

\* The reader has closed done.
Done(c) == reader[c] = "done"

HearDone(c) ==
  /\ InStep(c, "loop")
  /\ Done(c)
  /\ GiveUp(c)
  /\ UNCHANGED <<record, subscribers, session, link, shown, reader, gone>>

\* Unsubscribe of a Cell that is gone does nothing; a Cell made again under its
\* ID does not have the channel.  Close follows.
Leave(c) ==
  LET id == handler[c].cell IN
  /\ InStep(c, "leave")
  /\ subscribers' = [subscribers EXCEPT ![id] = @ \ {c}]
  /\ handler' = [handler EXCEPT ![c] = [Idle EXCEPT !.cell = id]]
  /\ channel' = [channel EXCEPT ![c] = <<>>]
  /\ shown' = [shown EXCEPT ![c] = {}]
  /\ lost' = [lost EXCEPT ![c] = {}]
  /\ UNCHANGED <<record, session, reader, gone>>

-----------------------------------------------------------------------------
\* The reader gets an error when the connection is closed at either end, or for a
\* message that is not one.
ReadFails(c) ==
  /\ reader[c] = "read"
  /\ Read(c, "done")
  /\ UNCHANGED <<record, subscribers, session, handler, link, shown, gone>>

\* Or it gets a command: SendCommand looks for the Cell, shows the command to every
\* subscriber (up to LineBound), and asks the runtime, which answers once the game
\* has room.
SendCommand(c) ==
  /\ reader[c] = "read" /\ ~InStep(c, "off") /\ c \notin gone
  /\ Read(c, IF handler[c].cell \in known THEN "echo" ELSE "refused")
  /\ UNCHANGED <<record, subscribers, session, handler, link, shown, gone>>

Echo(c) ==
  LET id == handler[c].cell IN
  /\ reader[c] = "echo"
  /\ Read(c, "sent")
  /\ IF id \in known /\ said[id] < LineBound THEN Broadcast(id)
     ELSE UNCHANGED <<said, console, link>>
  /\ UNCHANGED <<known, subscribers, session, handler, shown, gone>>

CommandAnswered(c) ==
  /\ reader[c] = "sent"
  /\ Read(c, "read") \/ Read(c, "refused")
  /\ UNCHANGED <<record, subscribers, session, handler, link, shown, gone>>

\* The error is written to the connection from this goroutine too.
WriteRefusal(c) ==
  /\ reader[c] = "refused"
  /\ Read(c, "read")
  /\ UNCHANGED <<record, subscribers, session, handler, link, shown, gone>>

\* The client closes its end; once both goroutines are over, its place is free.
GoAway(c) ==
  /\ ~InStep(c, "off") /\ c \notin gone
  /\ gone' = gone \cup {c}
  /\ UNCHANGED <<record, subscribers, session, handler, link, shown, reader>>

Over(c) ==
  /\ InStep(c, "off") /\ reader[c] \in {"off", "done"}
  /\ c \in gone \/ reader[c] = "done"
  /\ gone' = gone \ {c}
  /\ Read(c, "off")
  /\ handler' = [handler EXCEPT ![c] = Idle]
  /\ UNCHANGED <<record, subscribers, session, link, shown>>

\* The worker ends and Load makes every Cell again, with an empty console.  One
\* cause is the WebSocket library, which panics when the two goroutines of a
\* connection write at once: WriteRefusal beside WriteLine.
ConsoleCrash ==
  /\ console' = [id \in Cells |-> <<>>]
  /\ subscribers' = [id \in Cells |-> {}]
  /\ session' = [t \in Tokens |-> IF session[t].state = "unused" THEN session[t]
                                  ELSE [session[t] EXCEPT !.state = "spent"]]
  /\ handler' = [c \in Clients |-> Idle]
  /\ channel' = [c \in Clients |-> <<>>]
  /\ shown' = [c \in Clients |-> {}]
  /\ lost' = [c \in Clients |-> {}]
  /\ reader' = [c \in Clients |-> "off"]
  /\ gone' = {}
  /\ UNCHANGED <<known, said>>

HandlerStep(c) ==
  \/ \E includeHistory \in BOOLEAN : SubscribeWithHistory(c, includeHistory)
  \/ Greet(c) \/ TakeLine(c) \/ WriteLine(c) \/ HearDone(c) \/ Leave(c)

ReaderStep(c) ==
  ReadFails(c) \/ Echo(c) \/ CommandAnswered(c) \/ WriteRefusal(c)

ConsoleNext ==
  \/ \E id \in Cells : Say(id) \/ Clear(id) \/ CreateCell(id) \/ DeleteCell(id)
  \/ \E t \in Tokens, id \in Cells : CreateConsoleSession(t, id)
  \/ \E c \in Clients, id \in Cells, t \in Tokens : ValidateConsoleSession(c, id, t)
  \/ \E c \in Clients : HandlerStep(c) \/ ReaderStep(c) \/ SendCommand(c) \/ GoAway(c) \/ Over(c)
  \/ ConsoleCrash

\* The goroutines of a connection whose client has gone are scheduled, a write to
\* it returns, and so does a command (ManagerLocks says when).  Between a line and
\* done, select chooses at random; lines end with LineBound, so that no more need
\* be said of the choice here.
ConsoleFairness ==
  \A c \in Clients : /\ WF_consoleVars(c \in gone /\ HandlerStep(c))
                     /\ WF_consoleVars(c \in gone /\ ReaderStep(c))

ConsoleSpec == ConsoleInit /\ [][ConsoleNext]_consoleVars /\ ConsoleFairness

-----------------------------------------------------------------------------
Rising(s) == \A i, j \in 1..Len(s) : i < j => s[i] < s[j]
InHand(c) == {handler[c].line} \ {0}

\* What a connection has been handed, is about to be, or has had dropped for a
\* full channel is every line of its Cell from the first of them to the last
\* said, and what is still to come is in order and later than what was shown: a
\* line that falls between the history and the subscription, or overtakes
\* another, would break it (console.go:54, :93).
ConsoleFaithful ==
  \A id \in Cells : \A c \in subscribers[id] :
    LET queued == LinesOf(channel[c])
        there == shown[c] \cup InHand(c) \cup queued \cup lost[c]
    IN
    /\ \A n \in there : n..said[id] \subseteq there
    /\ Rising(channel[c])
    /\ \A n \in shown[c], m \in InHand(c) \cup queued : n < m
    /\ \A n \in InHand(c), m \in queued : n < m

\* A channel in a Cell's table is that of a handler that will take it out again,
\* whatever ends the connection (handlers.go:925): no Cell is left telling a
\* channel nobody empties.
SubscribersAlive ==
  \A id \in Cells : \A c \in subscribers[id] :
    handler[c].cell = id /\ handler[c].pc \in {"greet", "loop", "write", "leave"}

\* The open connections hold tokens of their own, made for their Cell and of no
\* further use, whatever tried them before (console_sessions.go:50).
OneConsolePerToken ==
  \A c \in Clients : ~InStep(c, "off") =>
    /\ session[handler[c].token] = [state |-> "spent", cell |-> handler[c].cell]
    /\ \A d \in Clients \ {c} : handler[d].token # handler[c].token

\* A client that goes away does not leave its handler behind, whether or not its
\* Cell ever says another line (handlers.go:938, :979).
ConsoleEnds == \A c \in Clients : c \in gone ~> InStep(c, "off")
=============================================================================
