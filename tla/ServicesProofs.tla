--------------------------- MODULE ServicesProofs ---------------------------
(***************************************************************************)
(* Proofs about the services of a worker, for any number of Cells, clients *)
(* and tokens, any slots and updates, and any sizes.                       *)
(*                                                                         *)
(* Console: a client sees the lines of its Cell in order and without a gap *)
(* but for those its full channel dropped, a Cell tells no channel nobody  *)
(* empties, a token opens one console, and neither goroutine of a console  *)
(* ends without the other hearing of it.                                   *)
(* WorkerConfig: what a worker runs with, live and in memory, is what a    *)
(* restart brings back, where updates of the list come one at a time.      *)
(* Importer: an import leaves the files of its source in the places the    *)
(* panel asked for, and the percentage it reports only grows.              *)
(* Detection: the place that is answered is one no other beats.            *)
(* Services: each of them keeps these beside the others.                   *)
(***************************************************************************)
EXTENDS Services, Sums, SequenceTheorems, TLAPS

-----------------------------------------------------------------------------
(* Console.                                                                *)

LEMMA IdleType ==
  /\ Idle \in [pc : HandlerSteps, cell : Cells, token : Tokens \cup {NoToken}, line : 0..LineBound]
  /\ Idle.pc = "off" /\ Idle.line = 0 /\ Idle.token = NoToken
<1>1. (CHOOSE id \in Cells : TRUE) \in Cells
  BY ConsoleAssumption
<1> QED
  BY <1>1, ConsoleAssumption DEF Idle, HandlerSteps

-----------------------------------------------------------------------------
(* What the channels and the kept lines are made of.                       *)

\* The last lines of a Cell that has said n.
Consecutive(s, n) == \A i \in 1..Len(s) : s[i] = n - Len(s) + i

LEMMA OfferLines ==
  ASSUME NEW s \in Seq(Lines), NEW n \in Lines, Len(s) <= Capacity
  PROVE  /\ Offer(s, n) \in Seq(Lines) /\ Len(Offer(s, n)) <= Capacity
         /\ LinesOf(Offer(s, n)) = LinesOf(s) \cup (IF Len(s) = Capacity THEN {} ELSE {n})
         /\ Rising(s) /\ (\A m \in LinesOf(s) : m < n) => Rising(Offer(s, n))
<1> USE ConsoleAssumption DEF Offer, LinesOf, Rising, Lines
<1>1. CASE Len(s) = Capacity
  BY <1>1
<1>2. CASE Len(s) < Capacity
  <2>1. /\ Append(s, n) \in Seq(Lines) /\ Len(Append(s, n)) = Len(s) + 1
        /\ \A i \in 1..Len(s) : Append(s, n)[i] = s[i]
        /\ Append(s, n)[Len(s) + 1] = n
    OBVIOUS
  <2>2. LinesOf(Append(s, n)) = LinesOf(s) \cup {n}
    BY <2>1
  <2>3. ASSUME Rising(s), \A m \in LinesOf(s) : m < n
        PROVE  Rising(Append(s, n))
    <3> DEFINE t == Append(s, n)
    <3>1. \A i \in 1..Len(s) : s[i] < n
      BY <2>3
    <3> SUFFICES ASSUME NEW i \in 1..Len(t), NEW j \in 1..Len(t), i < j
                 PROVE  t[i] < t[j]
      BY DEF Rising
    <3>2. i \in 1..Len(s)
      BY <2>1
    <3>3. CASE j \in 1..Len(s)
      BY <2>1, <2>3, <3>2, <3>3 DEF Rising
    <3>4. CASE j = Len(s) + 1
      BY <2>1, <3>1, <3>2, <3>4
    <3>5. j \in 1..Len(s) \/ j = Len(s) + 1
      BY <2>1
    <3> QED BY <3>3, <3>4, <3>5
  <2>4. Offer(s, n) = Append(s, n) /\ Len(s) # Capacity /\ Len(s) + 1 <= Capacity
    BY <1>2
  <2> HIDE DEF Offer, LinesOf, Rising, Lines
  <2> QED BY <2>1, <2>2, <2>3, <2>4
<1>3. Len(s) \in Nat /\ (Len(s) = Capacity \/ Len(s) < Capacity)
  OBVIOUS
<1> HIDE DEF Offer, LinesOf, Rising, Lines
<1> QED BY <1>1, <1>2, <1>3

LEMMA TailLines ==
  ASSUME NEW s \in Seq(Lines), s # <<>>
  PROVE  /\ Head(s) \in Lines /\ Tail(s) \in Seq(Lines) /\ Len(Tail(s)) = Len(s) - 1
         /\ LinesOf(s) = {Head(s)} \cup LinesOf(Tail(s))
         /\ Rising(s) => Rising(Tail(s)) /\ \A m \in LinesOf(Tail(s)) : Head(s) < m
<1> DEFINE t == Tail(s)
<1>1. /\ Head(s) \in Lines /\ t \in Seq(Lines) /\ Len(t) = Len(s) - 1 /\ Len(s) \in Nat \ {0}
      /\ Head(s) = s[1]
      /\ \A i \in 1..Len(t) : t[i] = s[i + 1]
  BY HeadTailProperties, EmptySeq
<1> HIDE DEF t
<1>2. LinesOf(s) = {Head(s)} \cup LinesOf(t)
  <2>1. ASSUME NEW i \in 1..Len(s), i # 1
        PROVE  s[i] \in LinesOf(t)
    <3>1. i - 1 \in 1..Len(t) /\ s[i] = t[i - 1]
      BY <1>1, <2>1
    <3> QED BY <3>1 DEF LinesOf
  <2>2. ASSUME NEW i \in 1..Len(t)
        PROVE  t[i] \in LinesOf(s)
    <3>1. i + 1 \in 1..Len(s) /\ t[i] = s[i + 1]
      BY <1>1
    <3> QED BY <3>1 DEF LinesOf
  <2>3. Head(s) \in LinesOf(s)
    BY <1>1 DEF LinesOf
  <2>4. LinesOf(s) \subseteq {Head(s)} \cup LinesOf(t)
    BY <1>1, <2>1 DEF LinesOf
  <2>5. LinesOf(t) \subseteq LinesOf(s)
    BY <2>2 DEF LinesOf
  <2> QED BY <2>3, <2>4, <2>5
<1>3. Rising(s) => Rising(t) /\ \A m \in LinesOf(t) : Head(s) < m
  BY <1>1 DEF Rising, LinesOf
<1> QED BY <1>1, <1>2, <1>3 DEF t

LEMMA SplitLines ==
  ASSUME NEW s \in Seq(Lines), NEW k \in 0..Len(s)
  PROVE  /\ SubSeq(s, 1, k) \in Seq(Lines) /\ Len(SubSeq(s, 1, k)) = k
         /\ LinesOf(s) = LinesOf(SubSeq(s, 1, k)) \cup LinesOf(SubSeq(s, k + 1, Len(s)))
         /\ Rising(s) => Rising(SubSeq(s, 1, k))
<1> DEFINE p == SubSeq(s, 1, k)
           q == SubSeq(s, k + 1, Len(s))
<1>1. p \in Seq(Lines) /\ Len(p) = k /\ \A i \in 1..k : p[i] = s[i]
  <2>1. \A i \in 1..k : s[i] \in Lines
    OBVIOUS
  <2> QED BY <2>1, SubSeqProperties
<1>2. Len(q) = Len(s) - k /\ \A i \in 1..(Len(s) - k) : q[i] = s[k + i]
  <2>1. \A i \in (k + 1)..Len(s) : s[i] \in Lines
    OBVIOUS
  <2>2. /\ Len(q) = IF k + 1 <= Len(s) THEN Len(s) - (k + 1) + 1 ELSE 0
        /\ \A i \in 1..(Len(s) - (k + 1) + 1) : q[i] = s[k + 1 + i - 1]
    BY <2>1, SubSeqProperties
  <2> QED BY <2>2
<1> HIDE DEF p, q
<1>3. LinesOf(s) = LinesOf(p) \cup LinesOf(q)
  <2>1. ASSUME NEW i \in 1..Len(s)
        PROVE  s[i] \in LinesOf(p) \cup LinesOf(q)
    <3>1. CASE i <= k
      BY <1>1, <3>1 DEF LinesOf
    <3>2. CASE i > k
      <4>1. i - k \in 1..Len(q) /\ s[i] = q[i - k]
        BY <1>2, <3>2
      <4> QED BY <4>1 DEF LinesOf
    <3> QED BY <3>1, <3>2
  <2>2. ASSUME NEW i \in 1..Len(p)
        PROVE  p[i] \in LinesOf(s)
    BY <1>1 DEF LinesOf
  <2>3. ASSUME NEW i \in 1..Len(q)
        PROVE  q[i] \in LinesOf(s)
    <3>1. k + i \in 1..Len(s) /\ q[i] = s[k + i]
      BY <1>2
    <3> QED BY <3>1 DEF LinesOf
  <2> QED BY <2>1, <2>2, <2>3 DEF LinesOf
<1>4. Rising(s) => Rising(p)
  BY <1>1 DEF Rising
<1> QED BY <1>1, <1>3, <1>4 DEF p, q

LEMMA TrimLines ==
  ASSUME NEW s \in Seq(Lines), NEW n \in Nat, n + 1 \in Lines,
         Len(s) <= MaxLines, Consecutive(s, n)
  PROVE  /\ Trim(Append(s, n + 1)) \in Seq(Lines)
         /\ Len(Trim(Append(s, n + 1))) <= MaxLines
         /\ Consecutive(Trim(Append(s, n + 1)), n + 1)
<1> USE ConsoleAssumption DEF Consecutive, Lines
<1> DEFINE t == Append(s, n + 1)
<1>1. /\ t \in Seq(Lines) /\ Len(t) = Len(s) + 1
      /\ \A i \in 1..Len(s) : t[i] = s[i]
      /\ t[Len(s) + 1] = n + 1
  OBVIOUS
<1>2. Consecutive(t, n + 1)
  <2> HIDE DEF t
  <2>1. ASSUME NEW i \in 1..Len(t)
        PROVE  t[i] = (n + 1) - Len(t) + i
    <3>1. CASE i \in 1..Len(s)
      BY <1>1, <3>1
    <3>2. CASE i = Len(s) + 1
      BY <1>1, <3>2
    <3> QED BY <1>1, <3>1, <3>2
  <2> QED BY <2>1
<1>3. CASE Len(t) > MaxLines
  <2>1. Len(t) = MaxLines + 1
    BY <1>1, <1>3
  <2> DEFINE u == SubSeq(t, 2, Len(t))
  <2>2. \A i \in 2..Len(t) : t[i] \in Lines
    BY <1>1
  <2>3. u \in Seq(Lines) /\ Len(u) = MaxLines /\ \A i \in 1..MaxLines : u[i] = t[i + 1]
    BY <2>1, <2>2, SubSeqProperties
  <2>4. Trim(t) = u
    <3> HIDE DEF t, Consecutive, Lines
    <3>1. Len(t) - MaxLines + 1 = 2
      BY <2>1
    <3> QED BY <1>3, <3>1 DEF Trim, u
  <2> HIDE DEF t, u
  <2>5. Consecutive(u, n + 1)
    BY <1>2, <2>1, <2>3
  <2> HIDE DEF Consecutive, Lines
  <2>6. Trim(t) \in Seq(Lines) /\ Len(Trim(t)) <= MaxLines /\ Consecutive(Trim(t), n + 1)
    BY <2>3, <2>4, <2>5
  <2> QED BY <2>6 DEF t
<1>4. CASE ~(Len(t) > MaxLines)
  BY <1>1, <1>2, <1>4 DEF Trim
<1> QED BY <1>3, <1>4

\* Consecutive lines are all lines from the first of them on, in order.
LEMMA ConsecutiveLines ==
  ASSUME NEW s \in Seq(Lines), NEW n \in Nat, Consecutive(s, n)
  PROVE  Rising(s) /\ LinesOf(s) = (n - Len(s) + 1)..n
<1> USE DEF Consecutive, LinesOf, Rising
<1>1. \A m \in (n - Len(s) + 1)..n : m - n + Len(s) \in 1..Len(s) /\ s[m - n + Len(s)] = m
  OBVIOUS
<1>2. \A i \in 1..Len(s) : s[i] \in (n - Len(s) + 1)..n
  OBVIOUS
<1> QED BY <1>1, <1>2

-----------------------------------------------------------------------------
(* What one client has been told of a Cell that has said n lines.          *)
Told(seen, hand, queue, dropped, n) ==
  LET there == seen \cup ({hand} \ {0}) \cup LinesOf(queue) \cup dropped IN
  /\ there \subseteq 1..n
  /\ \A m \in there : m..n \subseteq there
  /\ Rising(queue)
  /\ \A l \in seen, m \in ({hand} \ {0}) \cup LinesOf(queue) : l < m
  /\ \A l \in {hand} \ {0}, m \in LinesOf(queue) : l < m

LEMMA ToldMore ==
  ASSUME NEW seen \in SUBSET Lines, NEW hand \in 0..LineBound, NEW queue \in Seq(Lines),
         NEW dropped \in SUBSET Lines, NEW n \in Nat, n + 1 \in Lines, Len(queue) <= Capacity,
         Told(seen, hand, queue, dropped, n)
  PROVE  Told(seen, hand, Offer(queue, n + 1),
              IF Len(queue) = Capacity THEN dropped \cup {n + 1} ELSE dropped, n + 1)
<1> DEFINE there == seen \cup ({hand} \ {0}) \cup LinesOf(queue) \cup dropped
           dropped1 == IF Len(queue) = Capacity THEN dropped \cup {n + 1} ELSE dropped
           queue1 == Offer(queue, n + 1)
<1>1. /\ LinesOf(queue1) = LinesOf(queue) \cup (IF Len(queue) = Capacity THEN {} ELSE {n + 1})
      /\ Rising(queue) /\ (\A m \in LinesOf(queue) : m < n + 1) => Rising(queue1)
  BY OfferLines
<1>2. seen \cup ({hand} \ {0}) \cup LinesOf(queue1) \cup dropped1 = there \cup {n + 1}
  BY <1>1
<1>3. there \subseteq 1..n /\ \A m \in there : m..n \subseteq there
  BY DEF Told
<1>4. there \cup {n + 1} \subseteq 1..(n + 1)
  BY <1>3
<1>5. \A m \in there \cup {n + 1} : m..(n + 1) \subseteq there \cup {n + 1}
  BY <1>3
<1>6. Rising(queue1)
  BY <1>1, <1>3 DEF Told
<1>7. /\ \A l \in seen, m \in ({hand} \ {0}) \cup LinesOf(queue1) : l < m
      /\ \A l \in {hand} \ {0}, m \in LinesOf(queue1) : l < m
  <2>1. /\ \A l \in seen, m \in ({hand} \ {0}) \cup LinesOf(queue) : l < m
        /\ \A l \in {hand} \ {0}, m \in LinesOf(queue) : l < m
    BY DEF Told
  <2>2. \A l \in seen \cup ({hand} \ {0}) : l < n + 1
    BY <1>3
  <2>3. \A m \in LinesOf(queue1) : m \in LinesOf(queue) \/ m = n + 1
    BY <1>1
  <2> HIDE DEF there, queue1, dropped1
  <2> QED BY <2>1, <2>2, <2>3
<1> HIDE DEF queue1, dropped1
<1> QED
  <2>1. Told(seen, hand, queue1, dropped1, n + 1)
    BY <1>2, <1>4, <1>5, <1>6, <1>7 DEF Told
  <2> QED BY <2>1 DEF queue1, dropped1

LEMMA ToldTaken ==
  ASSUME NEW seen, NEW queue \in Seq(Lines), NEW dropped, NEW n \in Nat, queue # <<>>,
         Told(seen, 0, queue, dropped, n)
  PROVE  Told(seen, Head(queue), Tail(queue), dropped, n)
<1>1. Head(queue) # 0
  BY TailLines DEF Lines
<1>2. {0} \ {0} = {} /\ {Head(queue)} \ {0} = {Head(queue)}
  BY <1>1
<1> QED BY <1>2, TailLines DEF Told

LEMMA ToldWritten ==
  ASSUME NEW seen, NEW hand \in Lines, NEW queue, NEW dropped, NEW n \in Nat,
         Told(seen, hand, queue, dropped, n)
  PROVE  Told(seen \cup {hand}, 0, queue, dropped, n)
<1>1. {0} \ {0} = {} /\ {hand} \ {0} = {hand}
  BY DEF Lines
<1> QED BY <1>1 DEF Told

LEMMA ToldFirst ==
  ASSUME NEW s \in Seq(Lines), NEW n \in Nat, Consecutive(s, n), NEW k \in 0..Len(s)
  PROVE  Told({}, 0, SubSeq(s, 1, k), LinesOf(SubSeq(s, k + 1, Len(s))), n)
<1>1. Rising(s) /\ LinesOf(s) = (n - Len(s) + 1)..n
  BY ConsecutiveLines
<1>2. LinesOf(s) \subseteq Lines
  BY DEF LinesOf
<1>3. LinesOf(s) \subseteq 1..n /\ \A m \in LinesOf(s) : m..n \subseteq LinesOf(s)
  BY <1>1, <1>2 DEF Lines
<1>4. {} \cup ({0} \ {0}) \cup LinesOf(SubSeq(s, 1, k)) \cup LinesOf(SubSeq(s, k + 1, Len(s)))
        = LinesOf(s)
  BY SplitLines
<1>5. {0} \ {0} = {} /\ Rising(SubSeq(s, 1, k))
  BY <1>1, SplitLines
<1> QED BY <1>3, <1>4, <1>5 DEF Told

-----------------------------------------------------------------------------
\* The kept lines of a Cell are the last it has said.
KeptLines == \A id \in Cells : Consecutive(console[id], said[id])

\* A line is in hand only on its way to the client, and a connection that is not yet
\* subscribed has shown nothing.
HandlerShape == \A c \in Clients :
  /\ handler[c].pc = "write" => handler[c].line # 0
  /\ handler[c].pc \in {"off", "open", "greet", "loop"} => handler[c].line = 0
  /\ handler[c].pc \in {"off", "open"} => shown[c] = {}

ConsoleBase == ConsoleTypeOK /\ KeptLines /\ HandlerShape

HandlerType ==
  [pc : HandlerSteps, cell : Cells, token : Tokens \cup {NoToken}, line : 0..LineBound]

LEMMA BroadcastBase ==
  ASSUME ConsoleBase, NEW id \in Cells, Broadcast(id)
  PROVE  /\ said' \in [Cells -> 0..LineBound]
         /\ console' \in [Cells -> Seq(Lines)]
         /\ \A i \in Cells : Len(console'[i]) <= MaxLines /\ Consecutive(console'[i], said'[i])
         /\ channel' \in [Clients -> Seq(Lines)]
         /\ \A c \in Clients : Len(channel'[c]) <= Capacity
         /\ lost' \in [Clients -> SUBSET Lines]
<1> DEFINE line == said[id] + 1
           kept == Trim(Append(console[id], line))
<1>1. said[id] \in Nat /\ line \in Lines /\ line \in 0..LineBound
  BY ConsoleAssumption DEF Broadcast, ConsoleBase, ConsoleTypeOK, Lines
<1>2. kept \in Seq(Lines) /\ Len(kept) <= MaxLines /\ Consecutive(kept, line)
  BY <1>1, TrimLines DEF ConsoleBase, ConsoleTypeOK, KeptLines
<1>3. /\ said' = [said EXCEPT ![id] = line]
      /\ console' = [console EXCEPT ![id] = kept]
      /\ channel' = [c \in Clients |-> IF c \in subscribers[id] THEN Offer(channel[c], line)
                                       ELSE channel[c]]
      /\ lost' = [c \in Clients |-> IF c \in subscribers[id] /\ Len(channel[c]) = Capacity
                                    THEN lost[c] \cup {line} ELSE lost[c]]
  BY DEF Broadcast
<1> HIDE DEF line, kept
<1>4. \A c \in Clients : Offer(channel[c], line) \in Seq(Lines)
                         /\ Len(Offer(channel[c], line)) <= Capacity
  BY <1>1, OfferLines DEF ConsoleBase, ConsoleTypeOK
<1>5. said' \in [Cells -> 0..LineBound] /\ console' \in [Cells -> Seq(Lines)]
  BY <1>1, <1>2, <1>3 DEF ConsoleBase, ConsoleTypeOK
<1>6. \A i \in Cells : Len(console'[i]) <= MaxLines /\ Consecutive(console'[i], said'[i])
  BY <1>1, <1>2, <1>3 DEF ConsoleBase, ConsoleTypeOK, KeptLines
<1>7. channel' \in [Clients -> Seq(Lines)] /\ \A c \in Clients : Len(channel'[c]) <= Capacity
  BY <1>3, <1>4 DEF ConsoleBase, ConsoleTypeOK
<1>8. lost' \in [Clients -> SUBSET Lines]
  BY <1>1, <1>3 DEF ConsoleBase, ConsoleTypeOK
<1> QED BY <1>5, <1>6, <1>7, <1>8

LEMMA EmptyConsole ==
  <<>> \in Seq(Lines) /\ Len(<<>>) = 0 /\ \A n : Consecutive(<<>>, n) /\ LinesOf(<<>>) = {}
  BY DEF Consecutive, LinesOf

LEMMA ConsoleBaseInit == ConsoleInit => ConsoleBase
<1> SUFFICES ASSUME ConsoleInit PROVE ConsoleBase
  OBVIOUS
<1>1. Idle.cell \in Cells /\ Idle \in HandlerType
  BY IdleType DEF HandlerType
<1>2. session \in [Tokens -> [state : {"unused", "fresh", "spent"}, cell : Cells]]
  BY <1>1 DEF ConsoleInit
<1>3. handler \in [Clients -> HandlerType]
  BY <1>1 DEF ConsoleInit
<1>4. /\ console \in [Cells -> Seq(Lines)] /\ channel \in [Clients -> Seq(Lines)]
      /\ \A id \in Cells : Len(console[id]) <= MaxLines
      /\ \A c \in Clients : Len(channel[c]) <= Capacity
      /\ KeptLines
  BY EmptyConsole, ConsoleAssumption DEF ConsoleInit, KeptLines
<1>5. /\ known \subseteq Cells /\ said \in [Cells -> 0..LineBound]
      /\ subscribers \in [Cells -> SUBSET Clients]
      /\ shown \in [Clients -> SUBSET Lines] /\ lost \in [Clients -> SUBSET Lines]
      /\ reader \in [Clients -> ReaderSteps] /\ gone \subseteq Clients
  BY ConsoleAssumption DEF ConsoleInit, ReaderSteps
<1>6. HandlerShape
  BY IdleType DEF HandlerShape, ConsoleInit
<1> QED BY <1>2, <1>3, <1>4, <1>5, <1>6 DEF ConsoleBase, ConsoleTypeOK, HandlerType

\* The steps of a connection's goroutine that reads its commands, and of the client.
ReaderOrClient(c) ==
  ReadFails(c) \/ SendCommand(c) \/ CommandAnswered(c) \/ WriteRefusal(c) \/ GoAway(c)

\* A handler goes to another step.
LEMMA StepTyped ==
  ASSUME handler \in [Clients -> HandlerType], NEW c \in Clients, NEW pc \in HandlerSteps,
         handler' = [handler EXCEPT ![c].pc = pc]
  PROVE  /\ handler' \in [Clients -> HandlerType]
         /\ handler'[c].pc = pc /\ handler'[c].cell = handler[c].cell
         /\ handler'[c].token = handler[c].token /\ handler'[c].line = handler[c].line
         /\ \A d \in Clients \ {c} : handler'[d] = handler[d]
<1>1. handler[c] \in HandlerType
  OBVIOUS
<1>2. PICK h : h = [handler[c] EXCEPT !.pc = pc]
  OBVIOUS
<1>3. /\ h \in HandlerType /\ h.pc = pc
      /\ h.cell = handler[c].cell /\ h.token = handler[c].token /\ h.line = handler[c].line
  BY <1>1, <1>2 DEF HandlerType
<1>4. handler' = [handler EXCEPT ![c] = h]
  BY <1>2
<1> QED BY <1>3, <1>4

\* What the handlers do to their own state.
LEMMA HandlerStepBase ==
  ASSUME ConsoleBase, [ConsoleNext]_consoleVars
  PROVE  handler' \in [Clients -> HandlerType] /\ shown' \in [Clients -> SUBSET Lines] /\ HandlerShape'
<1> USE DEF HandlerShape, InStep, Step, GiveUp
<1>0. /\ handler \in [Clients -> HandlerType] /\ shown \in [Clients -> SUBSET Lines]
      /\ channel \in [Clients -> Seq(Lines)] /\ HandlerShape
  BY DEF ConsoleBase, ConsoleTypeOK, HandlerType
<1>a. Idle \in HandlerType /\ Idle.pc = "off" /\ Idle.line = 0
  BY IdleType DEF HandlerType
<1>b. LineBound \in Nat /\ Lines \subseteq 0..LineBound /\ 0 \notin Lines /\ 0 \in 0..LineBound
  BY ConsoleAssumption DEF Lines
<1> USE DEF HandlerType, HandlerSteps
<1>1. CASE UNCHANGED <<handler, shown>>
  BY <1>0, <1>1
<1>2. ASSUME NEW c \in Clients, NEW id \in Cells, NEW t \in Tokens, ValidateConsoleSession(c, id, t),
             ~UNCHANGED handler
      PROVE  handler' \in [Clients -> HandlerType] /\ shown' \in [Clients -> SUBSET Lines]
             /\ HandlerShape'
  <2>1. /\ handler[c].pc = "off" /\ shown' = shown
        /\ handler' = [handler EXCEPT ![c] = [pc |-> "open", cell |-> id, token |-> t, line |-> 0]]
    BY <1>2 DEF ValidateConsoleSession, link
  <2>2. [pc |-> "open", cell |-> id, token |-> t, line |-> 0] \in HandlerType
    BY <1>b
  <2> QED BY <1>0, <2>1, <2>2
<1>3. ASSUME NEW c \in Clients, NEW b \in BOOLEAN, SubscribeWithHistory(c, b)
      PROVE  handler' \in [Clients -> HandlerType] /\ shown' \in [Clients -> SUBSET Lines]
             /\ HandlerShape'
  <2>1. /\ handler[c].pc = "open" /\ shown' = shown
        /\ \/ handler' = [handler EXCEPT ![c].pc = "greet"]
           \/ handler' = [handler EXCEPT ![c] = Idle]
    BY <1>3 DEF SubscribeWithHistory
  <2>2. CASE handler' = [handler EXCEPT ![c].pc = "greet"]
    <3>1. "greet" \in HandlerSteps
      OBVIOUS
    <3> HIDE DEF HandlerType, HandlerSteps
    <3>2. /\ handler' \in [Clients -> HandlerType]
          /\ handler'[c].pc = "greet" /\ handler'[c].line = handler[c].line
          /\ \A d \in Clients \ {c} : handler'[d] = handler[d]
      BY <1>0, <2>2, <3>1, StepTyped
    <3> QED BY <1>0, <2>1, <3>2
  <2>3. CASE handler' = [handler EXCEPT ![c] = Idle]
    BY <1>0, <1>a, <2>1, <2>3
  <2> QED BY <2>1, <2>2, <2>3
<1>4. ASSUME NEW c \in Clients, Greet(c)
      PROVE  handler' \in [Clients -> HandlerType] /\ shown' \in [Clients -> SUBSET Lines]
             /\ HandlerShape'
  <2>1. handler[c].pc = "greet" /\ shown' = shown
    BY <1>4 DEF Greet
  <2>2. PICK pc \in {"loop", "leave"} : handler' = [handler EXCEPT ![c].pc = pc]
    BY <1>4 DEF Greet
  <2>3. pc \in HandlerSteps
    OBVIOUS
  <2> HIDE DEF HandlerType, HandlerSteps
  <2>4. /\ handler' \in [Clients -> HandlerType]
        /\ handler'[c].pc = pc /\ handler'[c].line = handler[c].line
        /\ \A d \in Clients \ {c} : handler'[d] = handler[d]
    BY <1>0, <2>2, <2>3, StepTyped
  <2> QED BY <1>0, <2>1, <2>4
<1>5. ASSUME NEW c \in Clients, TakeLine(c)
      PROVE  handler' \in [Clients -> HandlerType] /\ shown' \in [Clients -> SUBSET Lines]
             /\ HandlerShape'
  <2>1. /\ Head(channel[c]) \in Lines /\ shown' = shown /\ handler[c].pc = "loop"
        /\ handler' = [handler EXCEPT ![c].pc = "write", ![c].line = Head(channel[c])]
    BY <1>0, <1>5, TailLines DEF TakeLine
  <2>2. PICK line \in Lines :
          handler' = [handler EXCEPT ![c].pc = "write", ![c].line = line]
    BY <2>1
  <2> QED BY <1>0, <1>b, <2>1, <2>2
<1>6. ASSUME NEW c \in Clients, WriteLine(c)
      PROVE  handler' \in [Clients -> HandlerType] /\ shown' \in [Clients -> SUBSET Lines]
             /\ HandlerShape'
  <2>1. handler[c].line \in Lines /\ handler[c].pc = "write"
    BY <1>0, <1>b, <1>6 DEF WriteLine, Lines
  <2>2. CASE /\ shown' = [shown EXCEPT ![c] = @ \cup {handler[c].line}]
             /\ handler' = [handler EXCEPT ![c].pc = "loop", ![c].line = 0]
    BY <1>0, <1>b, <2>1, <2>2
  <2>3. CASE shown' = shown /\ handler' = [handler EXCEPT ![c].pc = "leave"]
    BY <1>0, <2>1, <2>3
  <2> QED BY <1>6, <2>2, <2>3 DEF WriteLine
<1>7. ASSUME NEW c \in Clients, HearDone(c)
      PROVE  handler' \in [Clients -> HandlerType] /\ shown' \in [Clients -> SUBSET Lines]
             /\ HandlerShape'
  BY <1>0, <1>7 DEF HearDone
<1>8. ASSUME NEW c \in Clients, Leave(c)
      PROVE  handler' \in [Clients -> HandlerType] /\ shown' \in [Clients -> SUBSET Lines]
             /\ HandlerShape'
  BY <1>0, <1>a, <1>8 DEF Leave
<1>9. ASSUME NEW c \in Clients, Over(c)
      PROVE  handler' \in [Clients -> HandlerType] /\ shown' \in [Clients -> SUBSET Lines]
             /\ HandlerShape'
  BY <1>0, <1>a, <1>9 DEF Over
<1>10. CASE ConsoleCrash
  BY <1>a, <1>10 DEF ConsoleCrash
<1>11. ASSUME NEW id \in Cells, Say(id) \/ Clear(id) \/ CreateCell(id) \/ DeleteCell(id)
       PROVE  UNCHANGED <<handler, shown>>
  BY <1>11 DEF Say, Clear, CreateCell, DeleteCell
<1>12. ASSUME NEW c \in Clients, ReaderOrClient(c) \/ Echo(c)
       PROVE  UNCHANGED <<handler, shown>>
  BY <1>12 DEF ReaderOrClient, ReadFails, SendCommand, CommandAnswered, WriteRefusal, GoAway, Echo
<1>13. ASSUME NEW t \in Tokens, NEW id \in Cells, CreateConsoleSession(t, id)
       PROVE  UNCHANGED <<handler, shown>>
  BY <1>13 DEF CreateConsoleSession
<1>14. ASSUME NEW c \in Clients, NEW id \in Cells, NEW t \in Tokens, ValidateConsoleSession(c, id, t)
       PROVE  shown' = shown
  BY <1>14 DEF ValidateConsoleSession
<1>15. CASE UNCHANGED consoleVars
  BY <1>1, <1>15 DEF consoleVars
<1> HIDE DEF HandlerShape, InStep, Step, GiveUp, HandlerType, HandlerSteps
<1> QED
  BY <1>1, <1>2, <1>3, <1>4, <1>5, <1>6, <1>7, <1>8, <1>9, <1>10, <1>11, <1>12, <1>13, <1>14, <1>15
  DEF ConsoleNext, HandlerStep, ReaderStep, ReaderOrClient

\* The conjuncts of ConsoleTypeOK about everything else.
RecordType ==
  /\ known \subseteq Cells
  /\ said \in [Cells -> 0..LineBound]
  /\ console \in [Cells -> Seq(Lines)]
  /\ \A id \in Cells : Len(console[id]) <= MaxLines
  /\ KeptLines

LinkType ==
  /\ channel \in [Clients -> Seq(Lines)]
  /\ \A c \in Clients : Len(channel[c]) <= Capacity
  /\ lost \in [Clients -> SUBSET Lines]

OtherType ==
  /\ subscribers \in [Cells -> SUBSET Clients]
  /\ session \in [Tokens -> [state : {"unused", "fresh", "spent"}, cell : Cells]]
  /\ reader \in [Clients -> ReaderSteps]
  /\ gone \subseteq Clients

LEMMA BaseParts ==
  ConsoleBase <=> /\ RecordType /\ LinkType /\ OtherType /\ HandlerShape
                  /\ handler \in [Clients -> HandlerType] /\ shown \in [Clients -> SUBSET Lines]
  BY DEF ConsoleBase, ConsoleTypeOK, RecordType, LinkType, OtherType, HandlerType

LEMMA RecordStepBase ==
  ASSUME ConsoleBase, [ConsoleNext]_consoleVars
  PROVE  RecordType' /\ LinkType' /\ OtherType'
<1> USE DEF record, link, Step, Read, ReaderSteps
<1>0. /\ RecordType /\ LinkType /\ OtherType
      /\ \A c \in Clients : handler[c].cell \in Cells
  BY BaseParts DEF HandlerType
<1>a. <<>> \in Seq(Lines) /\ Len(<<>>) <= Capacity /\ Len(<<>>) <= MaxLines
      /\ \A n : Consecutive(<<>>, n)
  BY EmptyConsole, ConsoleAssumption
<1>b. ASSUME UNCHANGED record PROVE RecordType'
  BY <1>0, <1>b DEF RecordType, KeptLines
<1>c. ASSUME UNCHANGED link PROVE LinkType'
  BY <1>0, <1>c DEF LinkType
<1>d. ASSUME UNCHANGED <<subscribers, session, gone>>,
             UNCHANGED reader \/ \E c \in Clients, pc \in ReaderSteps : Read(c, pc)
      PROVE  OtherType'
  BY <1>0, <1>d DEF OtherType
<1>1. ASSUME NEW id \in Cells, Broadcast(id), known' = known
      PROVE  RecordType' /\ LinkType'
  BY <1>0, <1>1, BroadcastBase DEF RecordType, KeptLines, LinkType
<1>2. ASSUME NEW id \in Cells, Say(id)
      PROVE  RecordType' /\ LinkType' /\ OtherType'
  BY <1>1, <1>2, <1>d DEF Say
<1>3. ASSUME NEW id \in Cells, Clear(id) \/ CreateCell(id) \/ DeleteCell(id)
      PROVE  RecordType' /\ LinkType' /\ OtherType'
  <2>1. RecordType'
    BY <1>0, <1>a, <1>3 DEF Clear, CreateCell, DeleteCell, RecordType, KeptLines
  <2>2. OtherType'
    BY <1>0, <1>3 DEF Clear, CreateCell, DeleteCell, OtherType
  <2>3. LinkType'
    BY <1>c, <1>3 DEF Clear, CreateCell, DeleteCell
  <2> QED BY <2>1, <2>2, <2>3
<1>4. ASSUME NEW t \in Tokens, NEW id \in Cells, CreateConsoleSession(t, id)
      PROVE  RecordType' /\ LinkType' /\ OtherType'
  <2>1. OtherType'
    BY <1>0, <1>4 DEF CreateConsoleSession, OtherType
  <2> QED BY <1>b, <1>c, <1>4, <2>1 DEF CreateConsoleSession
<1>5. ASSUME NEW c \in Clients, NEW id \in Cells, NEW t \in Tokens, ValidateConsoleSession(c, id, t)
      PROVE  RecordType' /\ LinkType' /\ OtherType'
  <2>1. OtherType'
    BY <1>0, <1>5 DEF ValidateConsoleSession, Spend, OtherType
  <2> QED BY <1>b, <1>c, <1>5, <2>1 DEF ValidateConsoleSession
<1>6. ASSUME NEW c \in Clients, NEW b \in BOOLEAN, SubscribeWithHistory(c, b)
      PROVE  RecordType' /\ LinkType' /\ OtherType'
  <2> DEFINE history == IF b THEN console[handler[c].cell] ELSE <<>>
             room == IF Len(history) < Capacity THEN Len(history) ELSE Capacity
             first == SubSeq(history, 1, room)
             rest == SubSeq(history, room + 1, Len(history))
  <2>1. history \in Seq(Lines) /\ room \in 0..Len(history) /\ room <= Capacity
    BY <1>0, <1>a, ConsoleAssumption DEF RecordType
  <2>2. /\ \/ UNCHANGED <<subscribers, channel, lost>>
           \/ /\ subscribers' = [subscribers EXCEPT ![handler[c].cell] = @ \cup {c}]
              /\ channel' = [channel EXCEPT ![c] = first]
              /\ lost' = [lost EXCEPT ![c] = LinesOf(rest)]
        /\ UNCHANGED <<known, said, console, session, reader, gone>>
    BY <1>6 DEF SubscribeWithHistory
  <2> HIDE DEF history, room
  <2>3. first \in Seq(Lines) /\ Len(first) = room /\ LinesOf(rest) \subseteq LinesOf(history)
    BY <2>1, SplitLines
  <2>4. LinesOf(history) \subseteq Lines
    BY <2>1 DEF LinesOf
  <2> HIDE DEF first, rest
  <2>5. LinkType'
    BY <1>0, <2>1, <2>2, <2>3, <2>4 DEF LinkType
  <2>6. OtherType'
    BY <1>0, <2>2 DEF OtherType
  <2> QED BY <1>b, <2>2, <2>5, <2>6
<1>7. ASSUME NEW c \in Clients, Greet(c) \/ WriteLine(c) \/ HearDone(c) \/ ReaderOrClient(c) \/ Over(c)
      PROVE  RecordType' /\ LinkType' /\ OtherType'
  <2>1. UNCHANGED record /\ UNCHANGED link
    BY <1>7 DEF Greet, WriteLine, HearDone, ReaderOrClient, Over, ReadFails, SendCommand,
                CommandAnswered, WriteRefusal, GoAway
  <2>2. OtherType'
    BY <1>0, <1>7 DEF Greet, WriteLine, HearDone, ReaderOrClient, Over, ReadFails, SendCommand,
                      CommandAnswered, WriteRefusal, GoAway, OtherType
  <2> QED BY <1>b, <1>c, <2>1, <2>2
<1>8. ASSUME NEW c \in Clients, TakeLine(c)
      PROVE  RecordType' /\ LinkType' /\ OtherType'
  <2> DEFINE rest == Tail(channel[c])
  <2>1. rest \in Seq(Lines) /\ Len(rest) = Len(channel[c]) - 1 /\ Len(channel[c]) \in Nat
    BY <1>0, <1>8, TailLines DEF TakeLine, LinkType
  <2>2. channel' = [channel EXCEPT ![c] = rest] /\ lost' = lost
    BY <1>8 DEF TakeLine
  <2> HIDE DEF rest
  <2>3. LinkType'
    BY <1>0, <2>1, <2>2, ConsoleAssumption DEF LinkType
  <2> QED BY <1>b, <1>d, <1>8, <2>3 DEF TakeLine
<1>9. ASSUME NEW c \in Clients, Leave(c)
      PROVE  RecordType' /\ LinkType' /\ OtherType'
  <2>1. LinkType'
    BY <1>0, <1>a, <1>9 DEF Leave, LinkType
  <2>2. OtherType'
    BY <1>0, <1>9 DEF Leave, OtherType
  <2> QED BY <1>b, <1>9, <2>1, <2>2 DEF Leave
<1>10. ASSUME NEW c \in Clients, Echo(c)
       PROVE  RecordType' /\ LinkType' /\ OtherType'
  <2>1. \/ Broadcast(handler[c].cell) /\ known' = known
        \/ UNCHANGED <<known, said, console, channel, lost>>
    BY <1>10 DEF Echo
  <2>2. RecordType' /\ LinkType'
    BY <1>0, <1>1, <1>b, <1>c, <2>1
  <2> QED BY <1>d, <1>10, <2>2 DEF Echo
<1>11. CASE ConsoleCrash
  <2>1. OtherType'
    BY <1>0, <1>11 DEF ConsoleCrash, OtherType
  <2>2. LinkType' /\ RecordType'
    BY <1>0, <1>a, <1>11 DEF ConsoleCrash, LinkType, RecordType, KeptLines
  <2> QED BY <2>1, <2>2
<1>12. CASE UNCHANGED consoleVars
  BY <1>b, <1>c, <1>d, <1>12 DEF consoleVars
<1> HIDE DEF record, link, Step, Read, ReaderSteps
<1> QED
  BY <1>2, <1>3, <1>4, <1>5, <1>6, <1>7, <1>8, <1>9, <1>10, <1>11, <1>12
  DEF ConsoleNext, HandlerStep, ReaderStep, ReaderOrClient

LEMMA ConsoleBaseStep ==
  ASSUME ConsoleBase, [ConsoleNext]_consoleVars
  PROVE  ConsoleBase'
  BY RecordStepBase, HandlerStepBase
  DEF ConsoleBase, ConsoleTypeOK, RecordType, LinkType, OtherType, HandlerType

\* The consoles keep the types of their state, for any number of Cells, clients and
\* tokens, any capacity and any number of lines kept (cell/console.go, console_sessions.go).
THEOREM ConsoleTypeCorrect == ConsoleSpec => []ConsoleTypeOK
<1>1. ConsoleBase => ConsoleTypeOK
  BY DEF ConsoleBase
<1> QED
  BY <1>1, ConsoleBaseInit, ConsoleBaseStep, PTL DEF ConsoleSpec

-----------------------------------------------------------------------------
\* A connection that is not open holds no token, an open one holds a real one.
TokenHeld == \A c \in Clients :
  IF InStep(c, "off") THEN handler[c].token = NoToken ELSE handler[c].token \in Tokens

\* Where the handlers, the tables and the tokens can go in a step.
LEMMA SubscribersStep ==
  ASSUME ConsoleBase, SubscribersAlive, [ConsoleNext]_consoleVars
  PROVE  SubscribersAlive'
<1> USE DEF SubscribersAlive, InStep, Step, GiveUp
<1>0. /\ handler \in [Clients -> HandlerType] /\ subscribers \in [Cells -> SUBSET Clients]
  BY BaseParts DEF OtherType
<1>1. ASSUME NEW id \in Cells, Say(id) \/ Clear(id) \/ CreateCell(id) \/ DeleteCell(id)
      PROVE  SubscribersAlive'
  BY <1>0, <1>1 DEF Say, Clear, CreateCell, DeleteCell
<1>2. ASSUME NEW t \in Tokens, NEW id \in Cells, CreateConsoleSession(t, id)
      PROVE  SubscribersAlive'
  BY <1>2 DEF CreateConsoleSession
<1>3. ASSUME NEW c \in Clients, NEW id \in Cells, NEW t \in Tokens, ValidateConsoleSession(c, id, t)
      PROVE  SubscribersAlive'
  BY <1>0, <1>3 DEF ValidateConsoleSession
<1>4. ASSUME NEW c \in Clients, NEW b \in BOOLEAN, SubscribeWithHistory(c, b)
      PROVE  SubscribersAlive'
  <2>1. /\ handler[c].pc = "open" /\ handler[c] \in HandlerType
        /\ \/ subscribers' = subscribers /\ handler' = [handler EXCEPT ![c] = Idle]
           \/ /\ subscribers' = [subscribers EXCEPT ![handler[c].cell] = @ \cup {c}]
              /\ handler' = [handler EXCEPT ![c].pc = "greet"]
    BY <1>0, <1>4 DEF SubscribeWithHistory
  <2>2. \A id \in Cells : c \notin subscribers[id]
    BY <2>1
  <2>3. CASE subscribers' = subscribers /\ handler' = [handler EXCEPT ![c] = Idle]
    BY <1>0, <2>2, <2>3
  <2>4. CASE /\ subscribers' = [subscribers EXCEPT ![handler[c].cell] = @ \cup {c}]
             /\ handler' = [handler EXCEPT ![c].pc = "greet"]
    <3>0. "greet" \in HandlerSteps
      BY DEF HandlerSteps
    <3>1. /\ handler'[c].pc = "greet" /\ handler'[c].cell = handler[c].cell
          /\ \A d \in Clients \ {c} : handler'[d] = handler[d]
      BY <1>0, <2>4, <3>0, StepTyped
    <3>2. \A id \in Cells, d \in Clients \ {c} : d \in subscribers'[id] => d \in subscribers[id]
      BY <1>0, <2>4
    <3>3. \A id \in Cells : c \in subscribers'[id] => id = handler[c].cell
      BY <1>0, <2>2, <2>4
    <3>4. \A id \in Cells : subscribers'[id] \subseteq Clients
      BY <1>0, <2>4
    <3> QED BY <3>1, <3>2, <3>3, <3>4
  <2> QED BY <2>1, <2>3, <2>4
<1>5. ASSUME NEW c \in Clients, Greet(c) \/ TakeLine(c) \/ WriteLine(c) \/ HearDone(c)
      PROVE  SubscribersAlive'
  <2>1. /\ subscribers' = subscribers
        /\ \A d \in Clients : handler'[d].cell = handler[d].cell
        /\ \A d \in Clients : handler'[d].pc = handler[d].pc
                              \/ handler'[d].pc \in {"greet", "loop", "write", "leave"}
    <3> HIDE DEF SubscribersAlive
    <3>1. CASE Greet(c)
      BY <1>0, <3>1 DEF Greet, HandlerType
    <3>2. CASE TakeLine(c)
      BY <1>0, <3>2 DEF TakeLine, HandlerType
    <3>3. CASE WriteLine(c)
      BY <1>0, <3>3 DEF WriteLine, HandlerType
    <3>4. CASE HearDone(c)
      BY <1>0, <3>4 DEF HearDone, HandlerType
    <3> QED BY <1>5, <3>1, <3>2, <3>3, <3>4
  <2> QED BY <1>0, <2>1
<1>6. ASSUME NEW c \in Clients, Leave(c)
      PROVE  SubscribersAlive'
  BY <1>0, <1>6 DEF Leave, HandlerType
<1>7. ASSUME NEW c \in Clients, ReaderOrClient(c) \/ Echo(c)
      PROVE  SubscribersAlive'
  BY <1>7 DEF ReaderOrClient, ReadFails, SendCommand, CommandAnswered, WriteRefusal, GoAway, Echo
<1>8. ASSUME NEW c \in Clients, Over(c)
      PROVE  SubscribersAlive'
  BY <1>0, <1>8 DEF Over
<1>9. CASE ConsoleCrash
  BY <1>9 DEF ConsoleCrash
<1>10. CASE UNCHANGED consoleVars
  BY <1>10 DEF consoleVars
<1> HIDE DEF SubscribersAlive
<1> QED
  BY <1>1, <1>2, <1>3, <1>4, <1>5, <1>6, <1>7, <1>8, <1>9, <1>10
  DEF ConsoleNext, HandlerStep, ReaderStep, ReaderOrClient

\* Whatever ends a connection or a Cell, no Cell is left telling a channel that no handler
\* will take out of its table again (cell/console.go:119, api/handlers.go:925).
THEOREM SubscribersStayAlive == ConsoleSpec => []SubscribersAlive
<1>1. ConsoleInit => SubscribersAlive
  BY DEF ConsoleInit, SubscribersAlive
<1> QED
  BY <1>1, ConsoleBaseInit, ConsoleBaseStep, SubscribersStep, PTL DEF ConsoleSpec

-----------------------------------------------------------------------------
\* The two goroutines of a connection: the reader is there once the handler waits
\* for lines, and neither goes before the client has, or a message of the client's
\* was none.
BesideReader(c) ==
  /\ handler[c].pc \in {"open", "greet"} => reader[c] = "off"
  /\ handler[c].pc \in {"loop", "write"} => reader[c] # "off"
  /\ handler[c].pc = "leave" => c \in gone \/ reader[c] = "done"
  /\ handler[c].pc = "off" /\ reader[c] # "off" => c \in gone \/ reader[c] = "done"

HandlersBesideReaders == \A c \in Clients : BesideReader(c)

\* One step changes the goroutines of one connection, or ends them all.
LEMMA ReadersStep ==
  ASSUME ConsoleBase, HandlersBesideReaders, [ConsoleNext]_consoleVars
  PROVE  HandlersBesideReaders'
<1> USE DEF BesideReader, HandlersBesideReaders, InStep, Step, Read, GiveUp
<1>0. /\ handler \in [Clients -> HandlerType] /\ reader \in [Clients -> ReaderSteps]
      /\ gone \subseteq Clients
  BY BaseParts DEF OtherType
<1>a. Idle.pc = "off"
  BY IdleType
<1>1. ASSUME NEW id \in Cells, Say(id) \/ Clear(id) \/ CreateCell(id) \/ DeleteCell(id)
      PROVE  HandlersBesideReaders'
  BY <1>1 DEF Say, Clear, CreateCell, DeleteCell
<1>2. ASSUME NEW t \in Tokens, NEW id \in Cells, CreateConsoleSession(t, id)
      PROVE  HandlersBesideReaders'
  BY <1>2 DEF CreateConsoleSession
<1>3. ASSUME NEW c \in Clients, NEW id \in Cells, NEW t \in Tokens, ValidateConsoleSession(c, id, t)
      PROVE  HandlersBesideReaders'
  BY <1>0, <1>3 DEF ValidateConsoleSession
<1>4. ASSUME NEW c \in Clients,
             \/ \E b \in BOOLEAN : SubscribeWithHistory(c, b)
             \/ Greet(c) \/ TakeLine(c) \/ WriteLine(c) \/ HearDone(c) \/ Leave(c)
      PROVE  HandlersBesideReaders'
  <2>1. /\ gone' = gone
        /\ \A d \in Clients \ {c} : handler'[d] = handler[d] /\ reader'[d] = reader[d]
        /\ BesideReader(c)'
    <3>0. BesideReader(c) /\ handler[c] \in HandlerType
      BY <1>0
    <3> HIDE DEF HandlersBesideReaders
    <3>1. CASE \E b \in BOOLEAN : SubscribeWithHistory(c, b)
      BY <1>0, <1>a, <3>0, <3>1 DEF SubscribeWithHistory, HandlerType
    <3>2. CASE Greet(c)
      BY <1>0, <3>0, <3>2 DEF Greet, HandlerType, ReaderSteps
    <3>3. CASE TakeLine(c)
      BY <1>0, <3>0, <3>3 DEF TakeLine, HandlerType
    <3>4. CASE WriteLine(c)
      BY <1>0, <3>0, <3>4 DEF WriteLine, HandlerType
    <3>5. CASE HearDone(c)
      BY <1>0, <3>0, <3>5 DEF HearDone, Done, HandlerType
    <3>6. CASE Leave(c)
      BY <1>0, <1>a, <3>0, <3>6 DEF Leave, HandlerType
    <3> QED BY <1>4, <3>1, <3>2, <3>3, <3>4, <3>5, <3>6
  <2> QED BY <2>1
<1>5. ASSUME NEW c \in Clients, ReaderOrClient(c) \/ Echo(c)
      PROVE  HandlersBesideReaders'
  <2>1. CASE ReadFails(c) \/ SendCommand(c) \/ CommandAnswered(c) \/ WriteRefusal(c)
    BY <1>0, <2>1 DEF ReadFails, SendCommand, CommandAnswered, WriteRefusal
  <2>2. CASE GoAway(c)
    BY <1>0, <2>2 DEF GoAway
  <2>3. CASE Echo(c)
    BY <1>0, <2>3 DEF Echo
  <2> QED BY <1>5, <2>1, <2>2, <2>3 DEF ReaderOrClient
<1>6. ASSUME NEW c \in Clients, Over(c)
      PROVE  HandlersBesideReaders'
  <2>1. /\ \A d \in Clients \ {c} : /\ handler'[d] = handler[d] /\ reader'[d] = reader[d]
                                    /\ d \in gone' <=> d \in gone
        /\ handler'[c].pc = "off" /\ reader'[c] = "off"
    BY <1>0, <1>a, <1>6 DEF Over
  <2> QED BY <2>1
<1>7. CASE ConsoleCrash
  BY <1>a, <1>7 DEF ConsoleCrash
<1>8. CASE UNCHANGED consoleVars
  BY <1>8 DEF consoleVars
<1> HIDE DEF HandlersBesideReaders
<1> QED
  BY <1>1, <1>2, <1>3, <1>4, <1>5, <1>6, <1>7, <1>8
  DEF ConsoleNext, HandlerStep, ReaderStep, ReaderOrClient

\* A handler that waits for lines has a reader whose end it hears of, and it leaves a
\* client that is still there only for a message that is none: what ConsoleEnds needs
\* besides goroutines that are scheduled (api/handlers.go:938-984).
THEOREM ConsolesHaveReaders == ConsoleSpec => []HandlersBesideReaders
<1>1. ConsoleInit => HandlersBesideReaders
  BY IdleType DEF ConsoleInit, HandlersBesideReaders, BesideReader
<1> QED
  BY <1>1, ConsoleBaseInit, ConsoleBaseStep, ReadersStep, PTL DEF ConsoleSpec

-----------------------------------------------------------------------------
TokenInv == ConsoleBase /\ OneConsolePerToken /\ TokenHeld

LEMMA TokenStep ==
  ASSUME TokenInv, [ConsoleNext]_consoleVars
  PROVE  OneConsolePerToken' /\ TokenHeld'
<1> USE ConsoleAssumption DEF OneConsolePerToken, TokenHeld, InStep, Step, GiveUp
<1>0. /\ handler \in [Clients -> HandlerType]
      /\ session \in [Tokens -> [state : {"unused", "fresh", "spent"}, cell : Cells]]
      /\ OneConsolePerToken /\ TokenHeld
  BY BaseParts DEF OtherType, TokenInv
<1>a. Idle \in HandlerType /\ Idle.pc = "off" /\ Idle.token = NoToken
  BY IdleType DEF HandlerType
<1>1. ASSUME UNCHANGED <<handler, session>>
      PROVE  OneConsolePerToken' /\ TokenHeld'
  BY <1>0, <1>1
<1>2. ASSUME NEW id \in Cells, Say(id) \/ Clear(id) \/ CreateCell(id) \/ DeleteCell(id)
      PROVE  UNCHANGED <<handler, session>>
  BY <1>2 DEF Say, Clear, CreateCell, DeleteCell
<1>3. ASSUME NEW c \in Clients, ReaderOrClient(c) \/ Echo(c)
      PROVE  UNCHANGED <<handler, session>>
  BY <1>3 DEF ReaderOrClient, ReadFails, SendCommand, CommandAnswered, WriteRefusal, GoAway, Echo
<1>4. ASSUME NEW t \in Tokens, NEW id \in Cells, CreateConsoleSession(t, id)
      PROVE  OneConsolePerToken' /\ TokenHeld'
  BY <1>0, <1>4 DEF CreateConsoleSession
<1>5. ASSUME NEW c \in Clients, NEW id \in Cells, NEW t \in Tokens, ValidateConsoleSession(c, id, t)
      PROVE  OneConsolePerToken' /\ TokenHeld'
  <2>1. /\ session[t].state = "fresh" /\ handler[c].pc = "off"
        /\ session' = [session EXCEPT ![t].state = "spent"]
        /\ \/ session[t].cell = id
              /\ handler' = [handler EXCEPT ![c] = [pc |-> "open", cell |-> id, token |-> t, line |-> 0]]
           \/ handler' = handler
    BY <1>5 DEF ValidateConsoleSession, Spend
  <2>2. \A d \in Clients : handler[d].pc # "off" =>
          handler[d].token # t /\ session'[handler[d].token] = session[handler[d].token]
    <3> SUFFICES ASSUME NEW d \in Clients, handler[d].pc # "off"
                 PROVE  handler[d].token # t /\ session'[handler[d].token] = session[handler[d].token]
      OBVIOUS
    <3>1. /\ handler[d].token \in Tokens
          /\ session[handler[d].token] = [state |-> "spent", cell |-> handler[d].cell]
      BY <1>0
    <3>2. session[handler[d].token].state = "spent"
      BY <3>1
    <3>3. handler[d].token # t
      BY <2>1, <3>2
    <3> QED BY <1>0, <2>1, <3>1, <3>3
  <2>3. session'[t] = [state |-> "spent", cell |-> session[t].cell]
    BY <1>0, <2>1
  <2>4. CASE handler' = handler
    BY <1>0, <2>2, <2>4
  <2>5. CASE /\ session[t].cell = id
             /\ handler' = [handler EXCEPT ![c] = [pc |-> "open", cell |-> id, token |-> t, line |-> 0]]
    <3>1. /\ handler'[c].pc = "open" /\ handler'[c].token = t /\ handler'[c].cell = id
          /\ \A d \in Clients \ {c} : handler'[d] = handler[d]
      BY <1>0, <2>5
    <3>2. \A d \in Clients \ {c} : handler[d].token # t
      BY <1>0, <2>2
    <3>3. TokenHeld'
      BY <1>0, <3>1
    <3>4. OneConsolePerToken'
      <4>1. session'[t] = [state |-> "spent", cell |-> id]
        BY <2>3, <2>5
      <4> QED BY <1>0, <2>2, <3>1, <3>2, <4>1
    <3> QED BY <3>3, <3>4
  <2> QED BY <2>1, <2>4, <2>5
<1>6. ASSUME NEW c \in Clients,
             \/ \E b \in BOOLEAN : SubscribeWithHistory(c, b)
             \/ Greet(c) \/ TakeLine(c) \/ WriteLine(c) \/ HearDone(c) \/ Leave(c) \/ Over(c)
      PROVE  OneConsolePerToken' /\ TokenHeld'
  <2>1. /\ session' = session
        /\ \A d \in Clients \ {c} : handler'[d] = handler[d]
        /\ \/ handler'[c].pc = "off" /\ handler'[c].token = NoToken
           \/ /\ handler[c].pc # "off" /\ handler'[c].pc # "off"
              /\ handler'[c].token = handler[c].token /\ handler'[c].cell = handler[c].cell
    <3>1. CASE \E b \in BOOLEAN : SubscribeWithHistory(c, b)
      BY <1>0, <1>a, <3>1 DEF SubscribeWithHistory, HandlerType
    <3>2. CASE Greet(c) \/ WriteLine(c) \/ HearDone(c)
      BY <1>0, <3>2 DEF Greet, WriteLine, HearDone, HandlerType
    <3>3. CASE TakeLine(c)
      BY <1>0, <3>3 DEF TakeLine, HandlerType
    <3>4. CASE Leave(c) \/ Over(c)
      BY <1>0, <1>a, <3>4 DEF Leave, Over, HandlerType
    <3> QED BY <1>6, <3>1, <3>2, <3>3, <3>4
  <2> QED BY <1>0, <2>1
<1>7. CASE ConsoleCrash
  BY <1>a, <1>7 DEF ConsoleCrash
<1>8. CASE UNCHANGED consoleVars
  BY <1>1, <1>8 DEF consoleVars
<1> HIDE DEF OneConsolePerToken, TokenHeld
<1> QED
  BY <1>1, <1>2, <1>3, <1>4, <1>5, <1>6, <1>7, <1>8
  DEF ConsoleNext, HandlerStep, ReaderStep, ReaderOrClient

\* A token opens at most one console, that of the Cell it was made for, and is of no
\* further use (cell/console_sessions.go:50).
THEOREM TokensOpenOneConsole == ConsoleSpec => []OneConsolePerToken
<1>1. ConsoleInit => OneConsolePerToken /\ TokenHeld
  BY IdleType DEF ConsoleInit, OneConsolePerToken, TokenHeld, InStep
<1>2. TokenInv /\ [ConsoleNext]_consoleVars => TokenInv'
  BY ConsoleBaseStep, TokenStep DEF TokenInv
<1>3. TokenInv => OneConsolePerToken
  BY DEF TokenInv
<1> QED
  BY <1>1, <1>2, <1>3, ConsoleBaseInit, PTL DEF ConsoleSpec, TokenInv

-----------------------------------------------------------------------------
\* What has been told through a connection of the lines of a Cell.
ToldOf(c, id) == Told(shown[c], handler[c].line, channel[c], lost[c], said[id])

AllTold == \A id \in Cells : \A c \in subscribers[id] : ToldOf(c, id)

FaithInv == ConsoleBase /\ SubscribersAlive /\ AllTold

LEMMA BroadcastTold ==
  ASSUME FaithInv, NEW id \in Cells, Broadcast(id), UNCHANGED <<subscribers, handler, shown>>
  PROVE  AllTold'
<1>0. /\ channel \in [Clients -> Seq(Lines)] /\ \A c \in Clients : Len(channel[c]) <= Capacity
      /\ lost \in [Clients -> SUBSET Lines] /\ shown \in [Clients -> SUBSET Lines]
      /\ handler \in [Clients -> HandlerType] /\ subscribers \in [Cells -> SUBSET Clients]
      /\ said \in [Cells -> 0..LineBound]
  BY BaseParts DEF FaithInv, LinkType, OtherType, RecordType
<1> DEFINE line == said[id] + 1
<1>1. said[id] \in Nat /\ line \in Lines /\ said' = [said EXCEPT ![id] = line]
  BY <1>0, ConsoleAssumption DEF Broadcast, Lines
<1> SUFFICES ASSUME NEW i \in Cells, NEW c \in subscribers[i]
             PROVE  Told(shown[c], handler[c].line, channel'[c], lost'[c], said'[i])
  BY DEF AllTold, ToldOf
<1>2. c \in Clients /\ handler[c].cell = i /\ handler[c].line \in 0..LineBound
      /\ Told(shown[c], handler[c].line, channel[c], lost[c], said[i])
  BY <1>0 DEF FaithInv, SubscribersAlive, AllTold, ToldOf, HandlerType
<1>3. CASE i = id
  <2>1. /\ channel'[c] = Offer(channel[c], line)
        /\ lost'[c] = IF Len(channel[c]) = Capacity THEN lost[c] \cup {line} ELSE lost[c]
    BY <1>2, <1>3 DEF Broadcast
  <2>2. said'[i] = line
    BY <1>0, <1>1, <1>3
  <2>3. Told(shown[c], handler[c].line, Offer(channel[c], line),
             IF Len(channel[c]) = Capacity THEN lost[c] \cup {line} ELSE lost[c], line)
    BY <1>0, <1>1, <1>2, <1>3, ToldMore
  <2> HIDE DEF line
  <2> QED BY <2>1, <2>2, <2>3
<1>4. CASE i # id
  <2>1. c \notin subscribers[id]
    BY <1>0, <1>2, <1>4 DEF FaithInv, SubscribersAlive
  <2>2. channel'[c] = channel[c] /\ lost'[c] = lost[c]
    BY <1>2, <2>1 DEF Broadcast
  <2>3. said'[i] = said[i]
    BY <1>0, <1>1, <1>4
  <2> QED BY <1>2, <2>2, <2>3
<1> QED BY <1>3, <1>4

\* A step that touches nothing a subscribed connection was told keeps what it was told.
LEMMA ToldKept ==
  ASSUME FaithInv, UNCHANGED said,
         \A id \in Cells : \A c \in subscribers'[id] :
           /\ c \in subscribers[id]
           /\ shown'[c] = shown[c] /\ handler'[c].line = handler[c].line
           /\ channel'[c] = channel[c] /\ lost'[c] = lost[c]
  PROVE  AllTold'
  BY DEF FaithInv, AllTold, ToldOf

LEMMA ToldStep ==
  ASSUME FaithInv, [ConsoleNext]_consoleVars
  PROVE  AllTold'
<1> USE DEF record, link, InStep, Step, GiveUp
<1>0. /\ handler \in [Clients -> HandlerType] /\ subscribers \in [Cells -> SUBSET Clients]
      /\ channel \in [Clients -> Seq(Lines)] /\ \A c \in Clients : Len(channel[c]) <= Capacity
      /\ shown \in [Clients -> SUBSET Lines] /\ lost \in [Clients -> SUBSET Lines]
      /\ said \in [Cells -> 0..LineBound] /\ console \in [Cells -> Seq(Lines)]
      /\ HandlerShape /\ KeptLines
  BY BaseParts DEF FaithInv, LinkType, OtherType, RecordType
<1>a. \A id \in Cells : \A c \in subscribers[id] :
        c \in Clients /\ handler[c].cell = id /\ handler[c].pc \in {"greet", "loop", "write", "leave"}
  BY <1>0 DEF FaithInv, SubscribersAlive
<1>1. ASSUME UNCHANGED <<said, subscribers, handler, channel, lost, shown>>
      PROVE  AllTold'
  BY <1>1, ToldKept
<1>2. ASSUME NEW id \in Cells, Say(id)
      PROVE  AllTold'
  BY <1>2, BroadcastTold DEF Say
<1>3. ASSUME NEW id \in Cells, Clear(id) \/ CreateCell(id)
      PROVE  AllTold'
  BY <1>1, <1>3 DEF Clear, CreateCell
<1>4. ASSUME NEW id \in Cells, DeleteCell(id)
      PROVE  AllTold'
  BY <1>0, <1>4, ToldKept DEF DeleteCell
<1>5. ASSUME NEW t \in Tokens, NEW id \in Cells, CreateConsoleSession(t, id)
      PROVE  AllTold'
  BY <1>1, <1>5 DEF CreateConsoleSession
<1>6. ASSUME NEW c \in Clients, NEW id \in Cells, NEW t \in Tokens, ValidateConsoleSession(c, id, t)
      PROVE  AllTold'
  <2>1. /\ UNCHANGED <<said, subscribers, shown, channel, lost>> /\ handler[c].pc = "off"
        /\ \A d \in Clients \ {c} : handler'[d] = handler[d]
    BY <1>0, <1>6 DEF ValidateConsoleSession
  <2> QED BY <1>a, <2>1, ToldKept
<1>7. ASSUME NEW c \in Clients, NEW b \in BOOLEAN, SubscribeWithHistory(c, b)
      PROVE  AllTold'
  <2> DEFINE id == handler[c].cell
             history == IF b THEN console[id] ELSE <<>>
             room == IF Len(history) < Capacity THEN Len(history) ELSE Capacity
             first == SubSeq(history, 1, room)
             rest == SubSeq(history, room + 1, Len(history))
  <2>1. /\ id \in Cells /\ history \in Seq(Lines) /\ room \in 0..Len(history)
        /\ Consecutive(history, said[id]) /\ said[id] \in Nat
    BY <1>0, EmptyConsole, ConsoleAssumption DEF HandlerType, KeptLines
  <2>2. /\ UNCHANGED <<said, shown>> /\ handler[c].pc = "open"
        /\ \A d \in Clients \ {c} : handler'[d] = handler[d]
    BY <1>0, <1>7 DEF SubscribeWithHistory
  <2>3. \/ UNCHANGED <<subscribers, channel, lost>>
        \/ /\ subscribers' = [subscribers EXCEPT ![id] = @ \cup {c}]
           /\ channel' = [channel EXCEPT ![c] = first]
           /\ lost' = [lost EXCEPT ![c] = LinesOf(rest)]
           /\ handler' = [handler EXCEPT ![c].pc = "greet"]
    BY <1>7 DEF SubscribeWithHistory
  <2>4. Told({}, 0, first, LinesOf(rest), said[id])
    BY <2>1, ToldFirst
  <2> HIDE DEF history, room, first, rest
  <2>5. CASE UNCHANGED <<subscribers, channel, lost>>
    BY <1>a, <2>2, <2>5, ToldKept
  <2>6. CASE /\ subscribers' = [subscribers EXCEPT ![id] = @ \cup {c}]
             /\ channel' = [channel EXCEPT ![c] = first]
             /\ lost' = [lost EXCEPT ![c] = LinesOf(rest)]
             /\ handler' = [handler EXCEPT ![c].pc = "greet"]
    <3> SUFFICES ASSUME NEW i \in Cells, NEW d \in subscribers'[i]
                 PROVE  Told(shown'[d], handler'[d].line, channel'[d], lost'[d], said'[i])
      BY DEF AllTold, ToldOf
    <3>1. CASE d = c
      <4>1. i = id
        BY <1>0, <1>a, <2>1, <2>2, <2>6, <3>1
      <4>2. /\ channel'[c] = first /\ lost'[c] = LinesOf(rest)
            /\ handler'[c].line = 0 /\ shown'[c] = {}
        BY <1>0, <2>2, <2>6 DEF HandlerShape, HandlerType
      <4>3. Told(shown'[c], handler'[c].line, channel'[c], lost'[c], said'[id])
        BY <2>2, <2>4, <4>2
      <4> QED BY <3>1, <4>1, <4>3
    <3>2. CASE d # c
      <4>1. d \in subscribers[i] /\ d \in Clients
        BY <1>0, <1>a, <2>6, <3>2
      <4>2. channel'[d] = channel[d] /\ lost'[d] = lost[d]
        BY <1>0, <2>6, <3>2, <4>1
      <4>3. handler'[d] = handler[d] /\ shown' = shown /\ said' = said
        BY <2>2, <3>2, <4>1
      <4>4. Told(shown[d], handler[d].line, channel[d], lost[d], said[i])
        BY <4>1 DEF FaithInv, AllTold, ToldOf
      <4> QED BY <4>2, <4>3, <4>4
    <3> QED BY <3>1, <3>2
  <2> QED BY <2>3, <2>5, <2>6
<1>8. ASSUME NEW c \in Clients, Greet(c) \/ HearDone(c)
      PROVE  AllTold'
  <2>1. /\ UNCHANGED <<said, subscribers, shown, channel, lost>>
        /\ \A d \in Clients : handler'[d].line = handler[d].line
    <3>1. \/ handler' = [handler EXCEPT ![c].pc = "loop"]
          \/ handler' = [handler EXCEPT ![c].pc = "leave"]
      BY <1>8 DEF Greet, HearDone
    <3>2. UNCHANGED <<said, subscribers, shown, channel, lost>>
      BY <1>8 DEF Greet, HearDone
    <3>3. ASSUME NEW d \in Clients
          PROVE  handler'[d].line = handler[d].line
      <4>1. handler[d] \in HandlerType
        BY <1>0
      <4>2. CASE d = c
        BY <1>0, <3>1, <4>1, <4>2 DEF HandlerType
      <4>3. CASE d # c
        BY <1>0, <3>1, <4>3
      <4> QED BY <4>2, <4>3
    <3> QED BY <3>2, <3>3
  <2> QED BY <1>a, <2>1, ToldKept
<1>9. ASSUME NEW c \in Clients, TakeLine(c)
      PROVE  AllTold'
  <2> DEFINE first == Head(channel[c])
             rest == Tail(channel[c])
  <2>1. /\ channel[c] # <<>> /\ handler[c].line = 0
        /\ channel' = [channel EXCEPT ![c] = rest]
        /\ handler' = [handler EXCEPT ![c].pc = "write", ![c].line = first]
        /\ UNCHANGED <<said, subscribers, lost, shown>>
    BY <1>0, <1>9 DEF TakeLine, HandlerShape
  <2>2. \A i \in Cells : c \in subscribers[i] => Told(shown[c], first, rest, lost[c], said[i])
    <3> SUFFICES ASSUME NEW i \in Cells, c \in subscribers[i]
                 PROVE  Told(shown[c], first, rest, lost[c], said[i])
      OBVIOUS
    <3>1. Told(shown[c], 0, channel[c], lost[c], said[i]) /\ said[i] \in Nat
      BY <1>0, <2>1 DEF FaithInv, AllTold, ToldOf
    <3> QED BY <1>0, <2>1, <3>1, ToldTaken
  <2> HIDE DEF first, rest
  <2>3. /\ channel'[c] = rest /\ handler'[c].line = first
        /\ \A d \in Clients \ {c} : channel'[d] = channel[d] /\ handler'[d] = handler[d]
    BY <1>0, <2>1 DEF HandlerType
  <2> SUFFICES ASSUME NEW i \in Cells, NEW d \in subscribers[i]
               PROVE  Told(shown[d], handler'[d].line, channel'[d], lost[d], said[i])
    BY <2>1 DEF AllTold, ToldOf
  <2>4. CASE d = c
    BY <2>2, <2>3, <2>4
  <2>5. CASE d # c
    <3>1. Told(shown[d], handler[d].line, channel[d], lost[d], said[i])
      BY DEF FaithInv, AllTold, ToldOf
    <3> QED BY <1>a, <2>3, <2>5, <3>1
  <2> QED BY <2>4, <2>5
<1>10. ASSUME NEW c \in Clients, WriteLine(c)
       PROVE  AllTold'
  <2>1. /\ handler[c].line \in Lines /\ UNCHANGED <<said, subscribers, lost, channel>>
        /\ \A d \in Clients \ {c} : handler'[d] = handler[d] /\ shown'[d] = shown[d]
        /\ \/ shown'[c] = shown[c] \cup {handler[c].line} /\ handler'[c].line = 0
           \/ shown'[c] = shown[c] /\ handler'[c].line = handler[c].line
    BY <1>0, <1>10, ConsoleAssumption DEF WriteLine, HandlerShape, HandlerType, Lines
  <2> SUFFICES ASSUME NEW i \in Cells, NEW d \in subscribers[i]
               PROVE  Told(shown'[d], handler'[d].line, channel[d], lost[d], said[i])
    BY <2>1 DEF AllTold, ToldOf
  <2>2. Told(shown[d], handler[d].line, channel[d], lost[d], said[i]) /\ said[i] \in Nat
    BY <1>0 DEF FaithInv, AllTold, ToldOf
  <2>3. CASE d = c /\ shown'[c] = shown[c] \cup {handler[c].line} /\ handler'[c].line = 0
    BY <2>1, <2>2, <2>3, ToldWritten
  <2>4. CASE d # c \/ (shown'[c] = shown[c] /\ handler'[c].line = handler[c].line)
    BY <1>a, <2>1, <2>2, <2>4
  <2> QED BY <2>1, <2>3, <2>4
<1>11. ASSUME NEW c \in Clients, Leave(c)
       PROVE  AllTold'
  <2>1. \A i \in Cells : subscribers'[i] \subseteq subscribers[i] /\ c \notin subscribers'[i]
    BY <1>0, <1>a, <1>11 DEF Leave, HandlerType
  <2>2. /\ said' = said
        /\ \A d \in Clients \ {c} : /\ shown'[d] = shown[d] /\ handler'[d] = handler[d]
                                    /\ channel'[d] = channel[d] /\ lost'[d] = lost[d]
    BY <1>0, <1>11 DEF Leave
  <2> QED BY <1>a, <2>1, <2>2, ToldKept
<1>12. ASSUME NEW c \in Clients, ReaderOrClient(c)
       PROVE  AllTold'
  BY <1>1, <1>12 DEF ReaderOrClient, ReadFails, SendCommand, CommandAnswered, WriteRefusal, GoAway
<1>13. ASSUME NEW c \in Clients, Echo(c)
       PROVE  AllTold'
  <2>1. handler[c].cell \in Cells
    BY <1>0 DEF HandlerType
  <2>2. /\ UNCHANGED <<subscribers, handler, shown>>
        /\ Broadcast(handler[c].cell) \/ UNCHANGED <<said, channel, lost>>
    BY <1>13 DEF Echo
  <2> QED BY <1>1, <2>1, <2>2, BroadcastTold
<1>14. ASSUME NEW c \in Clients, Over(c)
       PROVE  AllTold'
  <2>1. /\ UNCHANGED <<said, subscribers, shown, channel, lost>> /\ handler[c].pc = "off"
        /\ \A d \in Clients \ {c} : handler'[d] = handler[d]
    BY <1>0, <1>14 DEF Over
  <2> QED BY <1>a, <2>1, ToldKept
<1>15. CASE ConsoleCrash
  BY <1>15 DEF ConsoleCrash, AllTold
<1>16. CASE UNCHANGED consoleVars
  BY <1>1, <1>16 DEF consoleVars
<1> HIDE DEF record, link, InStep, Step, GiveUp
<1> QED
  BY <1>2, <1>3, <1>4, <1>5, <1>6, <1>7, <1>8, <1>9, <1>10, <1>11, <1>12, <1>13, <1>14, <1>15, <1>16
  DEF ConsoleNext, HandlerStep, ReaderStep, ReaderOrClient

LEMMA ToldIsFaithful == ASSUME FaithInv PROVE ConsoleFaithful
<1> SUFFICES ASSUME NEW id \in Cells, NEW c \in subscribers[id]
             PROVE  LET queued == LinesOf(channel[c])
                        there == shown[c] \cup InHand(c) \cup queued \cup lost[c]
                    IN /\ \A n \in there : n..said[id] \subseteq there
                       /\ Rising(channel[c])
                       /\ \A n \in shown[c], m \in InHand(c) \cup queued : n < m
                       /\ \A n \in InHand(c), m \in queued : n < m
  BY DEF ConsoleFaithful
<1>1. Told(shown[c], handler[c].line, channel[c], lost[c], said[id])
  BY DEF FaithInv, AllTold, ToldOf
<1> QED BY <1>1 DEF Told, InHand

\* A client is shown the lines of its Cell in order, from the first it saw on and without
\* a gap but for those that found its channel full, however many others the Cell tells
\* and whatever is cleared, deleted and made again (cell/console.go:54, :93).
THEOREM LinesArriveInOrder == ConsoleSpec => []ConsoleFaithful
<1>1. ConsoleInit => FaithInv
  BY ConsoleBaseInit DEF ConsoleInit, FaithInv, SubscribersAlive, AllTold
<1>2. FaithInv /\ [ConsoleNext]_consoleVars => FaithInv'
  BY ConsoleBaseStep, SubscribersStep, ToldStep DEF FaithInv
<1> QED
  BY <1>1, <1>2, ToldIsFaithful, PTL DEF ConsoleSpec

-----------------------------------------------------------------------------
(* WorkerConfig.                                                           *)

At(u, steps) == update[u].pc \in steps

\* Updates follow each other, in a worker that runs.
UpdatesAlone == \A u \in Updates : ~Stopped(u) =>
  worker = "up" /\ \A v \in Updates : v # u => Stopped(v)

\* An update knows the list it would go back to, and where it is on its way: first
\* the live list, then the one in memory.
OldIsKept == \A u \in Updates :
  /\ At(u, {"reconfigure"}) => update[u].old = live /\ (strayed \/ live = loaded.list)
  /\ At(u, {"assign", "reinstate"})
       => live = update[u].new /\ (strayed \/ update[u].old = loaded.list)
  /\ At(u, {"save", "restore"})
       => /\ live = update[u].new /\ loaded.list = update[u].new
          /\ strayed \/ update[u].old = update[u].config.list

\* The file is what memory holds but between the assignment and the end of the save,
\* or of the way back.
FileFollows == worker = "up" /\ ~cut /\ env = Unset =>
  /\ (\A u \in Updates : ~At(u, {"save", "restore"})) => file = loaded
  /\ \A u \in Updates : At(u, {"save", "restore"}) => file = update[u].config

LiveFollows == AtRest => strayed \/ live = loaded.list

ConfigInv == ConfigTypeOK /\ UpdatesAlone /\ OldIsKept /\ FileFollows /\ LiveFollows

LEMMA NoUpdateType == NoUpdate \in [pc : UpdateSteps, new : Lists, old : Lists, config : Configs]
  BY WorkerConfigAssumption DEF NoUpdate, Configs, Lists, Identities, UpdateSteps

LEMMA ConfigTypeInit == ConfigInit => ConfigTypeOK
<1> SUFFICES ASSUME ConfigInit PROVE ConfigTypeOK
  OBVIOUS
<1>1. DefaultSlots \in Lists
  BY WorkerConfigAssumption DEF Lists
<1>2. file \in Configs
  BY <1>1 DEF ConfigInit, Configs, Identities
<1>3. loaded \in Configs
  BY NoUpdateType DEF ConfigInit
<1>4. update \in [Updates -> [pc : UpdateSteps, new : Lists, old : Lists, config : Configs]]
  BY NoUpdateType DEF ConfigInit
<1> QED
  BY <1>1, <1>2, <1>3, <1>4 DEF ConfigInit, ConfigTypeOK

\* What a failing write leaves is a configuration, or no YAML.
LEMMA CutsAreFiles ==
  ASSUME NEW c \in Configs, NEW f \in Cuts(c)
  PROVE  f = Garbled \/ f \in Configs
  BY WorkerConfigAssumption DEF Cuts, Configs, Lists, Identities

LEMMA ConfigTypeStep ==
  ASSUME ConfigTypeOK, [ConfigNext]_configVars
  PROVE  ConfigTypeOK'
<1> USE WorkerConfigAssumption DEF ConfigTypeOK, UpdateSteps, Stopped, Advance
<1>1. NoUpdate \in [pc : UpdateSteps, new : Lists, old : Lists, config : Configs]
  BY NoUpdateType
<1>2. \A c \in Configs, l \in Lists : [c EXCEPT !.list = l] \in Configs
  BY DEF Configs
<1>3. CASE Start
  <2>1. Override(file) \in Configs
    BY <1>2, <1>3 DEF Start, Override
  <2>2. /\ [Override(file) EXCEPT !.identity = "registered"] \in Configs
        /\ Override(file).list \in Lists
    BY <2>1 DEF Configs, Identities
  <2> QED BY <1>3, <2>1, <2>2 DEF Start, Run
<1>4. CASE RegisterSave
  <2>1. loaded.list \in Lists
    BY DEF Configs
  <2> QED BY <1>4, <2>1, CutsAreFiles DEF RegisterSave, Write, WriteFails, Run
<1>5. ASSUME NEW u \in Updates, NEW new \in Lists, UpdateAllocationConfiguration(u, new)
      PROVE  ConfigTypeOK'
  BY <1>1, <1>5 DEF UpdateAllocationConfiguration
<1>6. ASSUME NEW u \in Updates, LiveReconfigure(u)
      PROVE  ConfigTypeOK'
  BY <1>1, <1>6 DEF LiveReconfigure
<1>7. ASSUME NEW u \in Updates, ConfigAssign(u)
      PROVE  ConfigTypeOK'
  BY <1>2, <1>7 DEF ConfigAssign
<1>8. ASSUME NEW u \in Updates, ConfigSave(u)
      PROVE  ConfigTypeOK'
  <2>1. (file = Garbled \/ file \in Configs)' /\ cut' \in BOOLEAN /\ strayed' \in BOOLEAN
    BY <1>8, CutsAreFiles DEF ConfigSave, Write, WriteFails
  <2>2. update' \in [Updates -> [pc : UpdateSteps, new : Lists, old : Lists, config : Configs]]
    BY <1>1, <1>8 DEF ConfigSave
  <2> QED BY <1>8, <2>1, <2>2 DEF ConfigSave
<1>9. ASSUME NEW u \in Updates, ConfigRestore(u)
      PROVE  ConfigTypeOK'
  BY <1>9 DEF ConfigRestore, PutBack
<1>10. ASSUME NEW u \in Updates, LiveReinstate(u)
       PROVE  ConfigTypeOK'
  BY <1>1, <1>10 DEF LiveReinstate
<1>11. ASSUME NEW s \in Slots, Reserve(s)
       PROVE  ConfigTypeOK'
  BY <1>11 DEF Reserve
<1>12. CASE ConfigCrash
  BY <1>1, <1>12, CutsAreFiles DEF ConfigCrash, WriteFails
<1>13. ASSUME NEW list \in Lists \cup {Unset}, SetEnvironment(list)
       PROVE  ConfigTypeOK'
  BY <1>13 DEF SetEnvironment
<1>14. CASE UNCHANGED configVars
  BY <1>14 DEF configVars
<1> QED
  BY <1>3, <1>4, <1>5, <1>6, <1>7, <1>8, <1>9, <1>10, <1>11, <1>12, <1>13, <1>14
  DEF ConfigNext, Lists

\* Every variable of the worker's configuration keeps its type, for any lists and any number
\* of updates in flight (config/config.go, api/configuration.go).
THEOREM ConfigTypeCorrect == ConfigSpec => []ConfigTypeOK
  BY ConfigTypeInit, ConfigTypeStep, PTL DEF ConfigSpec

-----------------------------------------------------------------------------
LEMMA ConfigInvInit == ConfigInit => ConfigInv
  BY ConfigTypeInit
  DEF ConfigInit, ConfigInv, UpdatesAlone, OldIsKept, FileFollows, LiveFollows, AtRest, At,
      Stopped, NoUpdate

LEMMA ConfigInvStep ==
  ASSUME SerialUpdates, ConfigInv, ConfigTypeOK', [ConfigNext]_configVars
  PROVE  ConfigInv'
<1> USE DEF ConfigInv, ConfigTypeOK, UpdatesAlone, OldIsKept, FileFollows, LiveFollows, AtRest,
            At, Stopped, Advance, UpdateSteps
<1>1. NoUpdate.pc = "idle"
  BY DEF NoUpdate
<1>2. CASE Start
  BY <1>2 DEF Start, Run, Override
<1>3. CASE RegisterSave
  BY <1>3 DEF RegisterSave, Write, WriteFails, Run
<1>4. ASSUME NEW u \in Updates, NEW new \in Lists, UpdateAllocationConfiguration(u, new)
      PROVE  ConfigInv'
  BY <1>4 DEF UpdateAllocationConfiguration
<1>5. ASSUME NEW u \in Updates, LiveReconfigure(u)
      PROVE  ConfigInv'
  BY <1>1, <1>5 DEF LiveReconfigure
<1>6. ASSUME NEW u \in Updates, ConfigAssign(u)
      PROVE  ConfigInv'
  BY <1>6 DEF ConfigAssign, Configs
<1>7. ASSUME NEW u \in Updates, ConfigSave(u)
      PROVE  ConfigInv'
  BY <1>1, <1>7 DEF ConfigSave, Write, WriteFails
<1>8. ASSUME NEW u \in Updates, ConfigRestore(u)
      PROVE  ConfigInv'
  BY <1>8 DEF ConfigRestore, PutBack
<1>9. ASSUME NEW u \in Updates, LiveReinstate(u)
      PROVE  ConfigInv'
  BY <1>1, <1>9 DEF LiveReinstate
<1>10. ASSUME NEW s \in Slots, Reserve(s)
       PROVE  ConfigInv'
  BY <1>10 DEF Reserve
<1>11. CASE ConfigCrash
  BY <1>1, <1>11 DEF ConfigCrash
<1>12. ASSUME NEW list \in Lists \cup {Unset}, SetEnvironment(list)
       PROVE  ConfigInv'
  BY <1>12 DEF SetEnvironment
<1>13. CASE UNCHANGED configVars
  BY <1>13 DEF configVars
<1> QED
  BY <1>2, <1>3, <1>4, <1>5, <1>6, <1>7, <1>8, <1>9, <1>10, <1>11, <1>12, <1>13
  DEF ConfigNext, Lists

\* Where the panel has one update in flight, a restart brings back the identity, the
\* settings and the allocation list the worker runs with, whatever saves failed and
\* whatever was reserved meanwhile (api/configuration.go:36-60, config/config.go:181).
THEOREM RestartKeepsAll == ASSUME SerialUpdates PROVE ConfigSpec => []RestartKeeps
<1>1. ConfigInv /\ [ConfigNext]_configVars => ConfigInv'
  BY ConfigTypeStep, ConfigInvStep DEF ConfigInv
<1>2. ConfigInv => RestartKeeps
  BY DEF ConfigInv, RestartKeeps, FileFollows, LiveFollows, AtRest, Stopped, At
<1> QED
  BY <1>1, <1>2, ConfigInvInit, PTL DEF ConfigSpec

-----------------------------------------------------------------------------
(* Importer.                                                               *)

\* What the scan added up is a sum of natural numbers (sftp.go:451).
LEMMA TotalIsNat ==
  ASSUME NEW size, IsFiniteSet(DOMAIN size), \A f \in DOMAIN size : size[f] \in Nat
  PROVE  Total(size) \in Nat
<1> DEFINE S == DOMAIN size
           Is(f) == f = [s \in SUBSET S |-> IF s = {} THEN 0
                        ELSE size[CHOOSE x \in s : TRUE] + f[s \ {CHOOSE x \in s : TRUE}]]
           g == CHOOSE f : Is(f)
<1>1. Total(size) = g[S]
  BY DEF Total, MapThenSumSet, MapThenFoldSet
<1>2. PartialSums(size, S) \in [SUBSET S -> Nat] /\ IsSum(PartialSums(size, S), size, S)
  BY PartialSumsExist DEF Weighs
<1>3. Is(PartialSums(size, S))
  <2> DEFINE f == PartialSums(size, S)
  <2>1. f = [s \in SUBSET S |-> f[s]]
    BY <1>2
  <2>2. \A s \in SUBSET S : f[s] = IF s = {} THEN 0
                        ELSE size[CHOOSE x \in s : TRUE] + f[s \ {CHOOSE x \in s : TRUE}]
    BY <1>2 DEF IsSum, Pick
  <2> HIDE DEF f, S
  <2>3. [s \in SUBSET S |-> f[s]] = [s \in SUBSET S |-> IF s = {} THEN 0
                        ELSE size[CHOOSE x \in s : TRUE] + f[s \ {CHOOSE x \in s : TRUE}]]
    BY <2>2
  <2> QED
    BY <2>1, <2>3 DEF f
<1>4. Is(g)
  <2> HIDE DEF Is
  <2> QED
    BY <1>3
<1>5. IsSum(g, size, S)
  <2> HIDE DEF g, S
  <2> QED
    BY <1>4 DEF IsSum, Pick
<1>6. g[S] = Sum(size, S) /\ Sum(size, S) \in Nat
  <2> HIDE DEF g
  <2>1. Weighs(size, S)
    BY DEF Weighs
  <2> QED
    BY <1>5, <2>1, SumIs, SumType
<1> QED
  BY <1>1, <1>6


\* The quotient of natural numbers.
LEMMA Quotient ==
  ASSUME NEW a \in Nat, NEW t \in Nat, t > 0
  PROVE  a \div t \in Nat
<1>1. a \div t \in Int
  OBVIOUS
<1>2. a \div t >= 0
  OBVIOUS
<1> QED
  BY <1>1, <1>2

LEMMA QuotientGrows ==
  ASSUME NEW a \in Nat, NEW b \in Nat, NEW t \in Nat, t > 0, a <= b
  PROVE  a \div t <= b \div t
  OBVIOUS

LEMMA QuotientBound ==
  ASSUME NEW a \in Nat, NEW t \in Nat, t > 0, a <= t
  PROVE  (a * 65) \div t <= 65
  OBVIOUS

\* A percentage of a transfer is a number, and no more than 90 for what the scan
\* added up (sftp.go:451).
LEMMA PercentIsNat ==
  ASSUME NEW i \in Nat, NEW n \in Nat, NEW c \in Nat, NEW t \in Nat
  PROVE  /\ TransferPercent(i, n, c, t) \in Nat
         /\ i <= n /\ c <= t => TransferPercent(i, n, c, t) \in 25 .. 90
<1>1. ASSUME NEW a \in Nat, NEW b \in Nat, b > 0
      PROVE  (a * 65) \div b \in Nat /\ (a <= b => (a * 65) \div b <= 65)
  <2>1. a * 65 \in Nat
    OBVIOUS
  <2> QED
    BY <1>1, <2>1, Quotient, QuotientBound
<1>2. t > 0 => (c * 65) \div t \in Nat /\ (c <= t => (c * 65) \div t <= 65)
  BY <1>1
<1>3. n > 0 => (i * 65) \div n \in Nat /\ (i <= n => (i * 65) \div n <= 65)
  BY <1>1
<1> QED
  BY <1>2, <1>3 DEF TransferPercent

\* It does not go back when more has been copied.
LEMMA PercentGrows ==
  ASSUME NEW i \in Nat, NEW j \in Nat, NEW n \in Nat, NEW c \in Nat, NEW d \in Nat, NEW t \in Nat,
         i <= j, c <= d
  PROVE  TransferPercent(i, n, c, t) <= TransferPercent(j, n, d, t)
<1>1. ASSUME NEW a \in Nat, NEW b \in Nat, NEW k \in Nat, k > 0, a <= b
      PROVE  (a * 65) \div k <= (b * 65) \div k /\ (a * 65) \div k \in Nat /\ (b * 65) \div k \in Nat
  <2>1. a * 65 \in Nat /\ b * 65 \in Nat /\ a * 65 <= b * 65
    BY <1>1
  <2> QED
    BY <1>1, <2>1, Quotient, QuotientGrows
<1>2. t > 0 => /\ (c * 65) \div t <= (d * 65) \div t
               /\ (c * 65) \div t \in Nat /\ (d * 65) \div t \in Nat
  BY <1>1
<1>3. n > 0 => /\ (i * 65) \div n <= (j * 65) \div n
               /\ (i * 65) \div n \in Nat /\ (j * 65) \div n \in Nat
  BY <1>1
<1> QED
  BY <1>2, <1>3 DEF TransferPercent

-----------------------------------------------------------------------------
Trees(V, T) == UNION {[D -> T] : D \in SUBSET V}

Jobs == [pc : ImportSteps, wanted : SUBSET FileKinds, wipe : BOOLEAN, found : SUBSET Files,
         size : Trees(Files, 0 .. MaxSize), todo : SUBSET Files, file : Files \cup {Hive},
         copied : Nat, percent : Nat]

\* The state, with what is due among the files the scan chose.
ImportBase ==
  /\ source \in Trees(Files, 0 .. MaxSize)
  /\ dest \in Trees(Files \cup {Hive}, Stands) /\ before \in Trees(Files \cup {Hive}, Stands)
  /\ job \in Jobs
  /\ DOMAIN job.size \subseteq job.found
  /\ job.pc \in {"copy", "read"} => job.todo \subseteq DOMAIN job.size
  /\ job.pc = "read" => job.file \in job.todo

LEMMA TreeFacts ==
  ASSUME NEW V, NEW T, NEW g \in Trees(V, T)
  PROVE  DOMAIN g \in SUBSET V /\ g \in [DOMAIN g -> T] /\ \A x \in DOMAIN g : g[x] \in T
  BY DEF Trees

LEMMA TreeOf ==
  ASSUME NEW V, NEW T, NEW D \in SUBSET V, NEW g \in [D -> T]
  PROVE  g \in Trees(V, T)
  BY DEF Trees

LEMMA WithTree ==
  ASSUME NEW V, NEW T, NEW g \in Trees(V, T), NEW x \in V, NEW v \in T
  PROVE  /\ With(g, x, v) \in Trees(V, T)
         /\ DOMAIN With(g, x, v) = DOMAIN g \cup {x} /\ With(g, x, v)[x] = v
         /\ \A y \in DOMAIN g \ {x} : With(g, x, v)[y] = g[y]
<1>1. DOMAIN g \in SUBSET V /\ g \in [DOMAIN g -> T]
  BY TreeFacts
<1>2. With(g, x, v) \in [DOMAIN g \cup {x} -> T]
  BY <1>1 DEF With
<1>3. With(g, x, v) \in Trees(V, T)
  BY <1>1, <1>2, TreeOf
<1> QED
  BY <1>1, <1>2, <1>3 DEF With

LEMMA WithoutTree ==
  ASSUME NEW V, NEW T, NEW g \in Trees(V, T), NEW D
  PROVE  /\ Without(g, D) \in Trees(V, T)
         /\ DOMAIN Without(g, D) = DOMAIN g \ D
         /\ \A y \in DOMAIN g \ D : Without(g, D)[y] = g[y]
<1>1. DOMAIN g \in SUBSET V /\ g \in [DOMAIN g -> T]
  BY TreeFacts
<1>2. Without(g, D) \in [DOMAIN g \ D -> T]
  BY <1>1 DEF Without
<1>3. Without(g, D) \in Trees(V, T)
  BY <1>1, <1>2, TreeOf
<1> QED
  BY <1>1, <1>2, <1>3 DEF Without

LEMMA DestWith ==
  ASSUME ImportBase, NEW x \in Files, NEW v \in Stands
  PROVE  /\ With(dest, x, v) \in Trees(Files \cup {Hive}, Stands)
         /\ DOMAIN With(dest, x, v) = DOMAIN dest \cup {x} /\ With(dest, x, v)[x] = v
         /\ \A y \in DOMAIN dest \ {x} : With(dest, x, v)[y] = dest[y]
<1>1. dest \in Trees(Files \cup {Hive}, Stands) /\ x \in Files \cup {Hive}
  BY DEF ImportBase
<1> QED
  BY <1>1, WithTree

LEMMA DestWithout ==
  ASSUME ImportBase, NEW f \in Files
  PROVE  /\ Without(dest, {f}) \in Trees(Files \cup {Hive}, Stands)
         /\ DOMAIN Without(dest, {f}) = DOMAIN dest \ {f}
         /\ \A y \in DOMAIN dest \ {f} : Without(dest, {f})[y] = dest[y]
<1> DEFINE V == Files \cup {Hive}
<1>1. dest \in Trees(V, Stands)
  BY DEF ImportBase
<1> HIDE DEF V
<1>2. Without(dest, {f}) \in Trees(V, Stands)
  BY <1>1, WithoutTree
<1>3. /\ DOMAIN Without(dest, {f}) = DOMAIN dest \ {f}
      /\ \A y \in DOMAIN dest \ {f} : Without(dest, {f})[y] = dest[y]
  BY DEF Without
<1> QED
  BY <1>2, <1>3 DEF V

LEMMA SourceTrees ==
  ASSUME ImportBase, NEW f \in Files
  PROVE  /\ \A n \in 0 .. MaxSize : With(source, f, n) \in Trees(Files, 0 .. MaxSize)
         /\ Without(source, {f}) \in Trees(Files, 0 .. MaxSize)
<1>1. source \in Trees(Files, 0 .. MaxSize)
  BY DEF ImportBase
<1>2. \A n \in 0 .. MaxSize : With(source, f, n) \in Trees(Files, 0 .. MaxSize)
  BY <1>1, WithTree
<1>3. Without(source, {f}) \in Trees(Files, 0 .. MaxSize)
  BY <1>1, WithoutTree
<1> QED
  BY <1>2, <1>3

LEMMA BaseIsTyped == ASSUME ImportBase PROVE ImportTypeOK
<1>1. DOMAIN source \in SUBSET Files /\ source \in [DOMAIN source -> 0 .. MaxSize]
  BY TreeFacts DEF ImportBase
<1>2. \A d \in {dest, before} : DOMAIN d \in SUBSET (Files \cup {Hive}) /\ d \in [DOMAIN d -> Stands]
  BY TreeFacts DEF ImportBase
<1>3. job \in Jobs /\ DOMAIN job.size \subseteq job.found
  BY DEF ImportBase
<1>4. job.size \in Trees(Files, 0 .. MaxSize)
  BY <1>3 DEF Jobs
<1>5. job.size \in [DOMAIN job.size -> 0 .. MaxSize]
  BY <1>4, TreeFacts
<1> QED
  BY <1>1, <1>2, <1>3, <1>5 DEF ImportTypeOK, Jobs

LEMMA EmptyTree == [f \in {} |-> 0] \in Trees(Files, 0 .. MaxSize) /\ DOMAIN [f \in {} |-> 0] = {}
<1>1. [f \in {} |-> 0] \in [{} -> 0 .. MaxSize]
  OBVIOUS
<1> QED
  BY <1>1, TreeOf

LEMMA NoJobTyped ==
  /\ NoJob \in Jobs
  /\ NoJob.pc = "none" /\ DOMAIN NoJob.size = {} /\ NoJob.found = {} /\ NoJob.copied = 0
  BY EmptyTree DEF NoJob, ImportSteps, Jobs

LEMMA ImportBaseInit == ImportInit => ImportBase
<1> SUFFICES ASSUME ImportInit PROVE ImportBase
  OBVIOUS
<1>1. 1 \in 0 .. MaxSize
  BY ImporterAssumption
<1>2. source \in Trees(Files, 0 .. MaxSize) /\ dest \in Trees(Files \cup {Hive}, Stands)
  <2>1. source \in [Files -> 0 .. MaxSize] /\ dest \in [Files \cup {Hive} -> Stands]
    BY <1>1 DEF ImportInit, Stands
  <2> QED
    BY <2>1, TreeOf
<1> QED
  BY <1>2, NoJobTyped DEF ImportInit, ImportBase

\* A job that fails or dies keeps what it has.
LEMMA FailedTyped ==
  ASSUME ImportBase
  PROVE  /\ Failed(job) \in Jobs /\ Failed(job).pc = "failed" /\ Failed(job).percent = 100
         /\ Failed(job).size = job.size /\ Failed(job).found = job.found
         /\ Failed(job).wanted = job.wanted /\ Failed(job).wipe = job.wipe
         /\ Failed(job).copied = job.copied
  BY DEF ImportBase, Jobs, Failed, ImportSteps

LEMMA ScanTyped ==
  ASSUME ImportBase, Scan, job' # Failed(job)
  PROVE  /\ job' \in Jobs /\ job'.found = DOMAIN source
         /\ job'.wanted = job.wanted /\ job'.wipe = job.wipe /\ job'.copied = job.copied
         /\ DOMAIN job'.size = {f \in DOMAIN source : ShouldImport(Relative(f), job.wanted)}
         /\ \/ /\ job.wipe /\ job'.pc = "wipe" /\ job'.percent = 20
               /\ job'.todo = DOMAIN dest \ {Hive}
            \/ /\ ~job.wipe /\ job'.pc = "copy" /\ job'.percent = job.percent
               /\ job'.todo = DOMAIN job'.size
<1> DEFINE files == {f \in DOMAIN source : ShouldImport(Relative(f), job.wanted)}
           size == [f \in files |-> source[f]]
           scanned == [job EXCEPT !.found = DOMAIN source, !.size = size]
<1>1. DOMAIN source \in SUBSET Files /\ \A f \in DOMAIN source : source[f] \in 0 .. MaxSize
  BY TreeFacts DEF ImportBase
<1>2. size \in Trees(Files, 0 .. MaxSize) /\ DOMAIN size = files
  <2>1. size \in [files -> 0 .. MaxSize] /\ files \in SUBSET Files
    BY <1>1
  <2> HIDE DEF files, size
  <2> QED
    BY <2>1, TreeOf
<1>3. job' = IF job.wipe THEN [scanned EXCEPT !.pc = "wipe", !.percent = 20, !.todo = DOMAIN dest \ {Hive}]
             ELSE [scanned EXCEPT !.pc = "copy", !.todo = files]
  BY DEF Scan
<1>4. job \in Jobs /\ DOMAIN dest \in SUBSET (Files \cup {Hive}) /\ files \in SUBSET Files
  BY <1>1, TreeFacts DEF ImportBase
<1> HIDE DEF files, size
<1>5. CASE job.wipe
  BY <1>1, <1>2, <1>3, <1>4, <1>5 DEF Jobs, ImportSteps, files
<1>6. CASE ~job.wipe
  BY <1>1, <1>2, <1>3, <1>4, <1>6 DEF Jobs, ImportSteps, files
<1> QED
  BY <1>5, <1>6

LEMMA WipeTyped ==
  ASSUME ImportBase, Wipe, job' # Failed(job)
  PROVE  /\ job' \in Jobs /\ job'.found = job.found /\ job'.size = job.size
         /\ job'.wanted = job.wanted /\ job'.wipe = job.wipe /\ job'.copied = job.copied
         /\ job'.percent = job.percent
         /\ \/ \E f \in job.todo : /\ dest' = Without(dest, {f})
                                   /\ job'.pc = "wipe" /\ job'.todo = job.todo \ {f}
            \/ /\ job.todo = {} /\ UNCHANGED dest
               /\ job'.pc = "copy" /\ job'.todo = DOMAIN job.size
<1>1. job \in Jobs /\ DOMAIN job.size \in SUBSET Files /\ job.pc = "wipe"
  BY TreeFacts DEF ImportBase, Jobs, Wipe
<1>2. CASE \E f \in job.todo : dest' = Without(dest, {f}) /\ job' = [job EXCEPT !.todo = @ \ {f}]
  <2>1. PICK f \in job.todo : dest' = Without(dest, {f}) /\ job' = [job EXCEPT !.todo = @ \ {f}]
    BY <1>2
  <2>2. /\ job' \in Jobs /\ job'.found = job.found /\ job'.size = job.size
        /\ job'.wanted = job.wanted /\ job'.wipe = job.wipe /\ job'.copied = job.copied
        /\ job'.percent = job.percent /\ job'.pc = "wipe" /\ job'.todo = job.todo \ {f}
    BY <1>1, <2>1 DEF Jobs
  <2> QED
    BY <2>1, <2>2
<1>3. CASE job.todo = {} /\ job' = [job EXCEPT !.pc = "copy", !.todo = DOMAIN job.size] /\ UNCHANGED dest
  BY <1>1, <1>3 DEF Jobs, ImportSteps
<1> QED
  BY <1>2, <1>3 DEF Wipe

\* How far the files are counted.
Index(j) == Cardinality(DOMAIN j.size) - Cardinality(j.todo)
PercentOf(j) == TransferPercent(Index(j), Cardinality(DOMAIN j.size), j.copied, Total(j.size))

LEMMA Counted ==
  ASSUME IsFiniteSet(Files), NEW j \in Jobs, j.todo \subseteq DOMAIN j.size
  PROVE  /\ Index(j) \in Nat /\ Cardinality(DOMAIN j.size) \in Nat /\ Index(j) <= Cardinality(DOMAIN j.size)
         /\ Total(j.size) \in Nat /\ PercentOf(j) \in Nat
         /\ j.copied <= Total(j.size) => PercentOf(j) \in 25 .. 90
<1>1. j.size \in Trees(Files, 0 .. MaxSize) /\ j.copied \in Nat
  BY DEF Jobs
<1>2. DOMAIN j.size \in SUBSET Files /\ \A f \in DOMAIN j.size : j.size[f] \in 0 .. MaxSize
  BY <1>1, TreeFacts
<1>3. IsFiniteSet(DOMAIN j.size)
  BY <1>2, FS_Subset
<1>4. /\ Cardinality(DOMAIN j.size) \in Nat /\ Cardinality(j.todo) \in Nat
      /\ Cardinality(j.todo) <= Cardinality(DOMAIN j.size)
  BY <1>3, FS_Subset, FS_CardinalityType
<1>5. Index(j) \in Nat /\ Index(j) <= Cardinality(DOMAIN j.size)
  BY <1>4 DEF Index
<1>6. Total(j.size) \in Nat
  BY <1>2, <1>3, TotalIsNat
<1> QED
  BY <1>1, <1>4, <1>5, <1>6, PercentIsNat DEF PercentOf

LEMMA CopyBeginTyped ==
  ASSUME IsFiniteSet(Files), ImportBase, NEW f \in Files, CopyBegin(f), job' # Failed(job)
  PROVE  /\ job' \in Jobs /\ job'.found = job.found /\ job'.size = job.size /\ job'.todo = job.todo
         /\ job'.wanted = job.wanted /\ job'.wipe = job.wipe /\ job'.copied = job.copied
         /\ job'.pc = "read" /\ job'.file = f /\ f \in job.todo /\ job'.percent = PercentOf(job)
         /\ dest' = With(dest, Relative(f), "part") /\ UNCHANGED <<source, before>>
<1>1. job \in Jobs /\ job.pc = "copy" /\ job.todo \subseteq DOMAIN job.size /\ f \in job.todo
  BY DEF ImportBase, CopyBegin
<1>2. PercentOf(job) \in Nat
  BY <1>1, Counted
<1>3. /\ job' = [job EXCEPT !.pc = "read", !.file = f, !.percent = PercentOf(job)]
      /\ dest' = With(dest, Relative(f), "part") /\ UNCHANGED <<source, before>>
  BY DEF CopyBegin, PercentOf, Index
<1> QED
  BY <1>1, <1>2, <1>3 DEF Jobs, ImportSteps

LEMMA CopyEndTyped ==
  ASSUME ImportBase, CopyEnd
  PROVE  /\ job' \in Jobs /\ job'.found = job.found /\ job'.size = job.size
         /\ job'.wanted = job.wanted /\ job'.wipe = job.wipe
         /\ job'.copied >= job.copied /\ job'.percent = job.percent
         /\ job'.pc = "copy" /\ job'.todo = job.todo \ {job.file}
         /\ dest' = With(dest, Relative(job.file), "copy") /\ UNCHANGED <<source, before>>
<1>1. PICK n \in IF job.file \in DOMAIN source THEN {source[job.file]} ELSE 0..MaxSize :
        job' = [job EXCEPT !.pc = "copy", !.copied = @ + n, !.todo = @ \ {job.file}, !.file = Hive]
  BY DEF CopyEnd
<1>2. n \in Nat
  <2>1. \A f \in DOMAIN source : source[f] \in 0 .. MaxSize
    BY TreeFacts DEF ImportBase
  <2> QED
    BY <1>1, <2>1, ImporterAssumption
<1>3. job \in Jobs /\ job.copied \in Nat
  BY DEF ImportBase, Jobs
<1>4. job.copied + n \in Nat /\ job.copied + n >= job.copied
  BY <1>2, <1>3
<1>5. /\ job' \in Jobs /\ job'.found = job.found /\ job'.size = job.size
      /\ job'.wanted = job.wanted /\ job'.wipe = job.wipe
      /\ job'.copied = job.copied + n /\ job'.percent = job.percent
      /\ job'.pc = "copy" /\ job'.todo = job.todo \ {job.file}
  BY <1>1, <1>3, <1>4 DEF Jobs, ImportSteps
<1> QED
  BY <1>4, <1>5 DEF CopyEnd

LEMMA FinishTypedJob ==
  ASSUME ImportBase, Finish
  PROVE  /\ job' \in Jobs /\ job'.found = job.found /\ job'.size = job.size
         /\ job'.wanted = job.wanted /\ job'.wipe = job.wipe /\ job'.copied = job.copied
         /\ \/ job.pc = "copy" /\ job.todo = {} /\ job'.pc = "finish" /\ job'.percent = 92
            \/ job.pc = "finish" /\ job'.pc = "complete" /\ job'.percent = 100
         /\ UNCHANGED <<source, dest, before>>
<1>1. job \in Jobs
  BY DEF ImportBase
<1>2. CASE job.pc = "copy" /\ job.todo = {} /\ job' = [job EXCEPT !.pc = "finish", !.percent = 92]
  BY <1>1, <1>2 DEF Jobs, ImportSteps, Finish
<1>3. CASE job.pc = "finish" /\ job' = [job EXCEPT !.pc = "complete", !.percent = 100]
  <2>1. /\ job' \in Jobs /\ job'.found = job.found /\ job'.size = job.size
        /\ job'.wanted = job.wanted /\ job'.wipe = job.wipe /\ job'.copied = job.copied
        /\ job'.pc = "complete" /\ job'.percent = 100
    BY <1>1, <1>3 DEF Jobs, ImportSteps
  <2> QED
    BY <1>3, <2>1 DEF Finish
<1> QED
  BY <1>2, <1>3 DEF Finish

LEMMA CrashTyped ==
  ASSUME ImportBase, ImportCrash
  PROVE  /\ job' \in Jobs /\ job'.found = job.found /\ job'.size = job.size
         /\ job'.wanted = job.wanted /\ job'.wipe = job.wipe /\ job'.copied = job.copied
         /\ job'.pc = "dead" /\ job'.percent = job.percent
         /\ UNCHANGED <<source, dest, before>>
  BY DEF ImportBase, Jobs, ImportSteps, ImportCrash

LEMMA StartTyped ==
  ASSUME ImportBase, NEW wanted \in SUBSET FileKinds, NEW wipe \in BOOLEAN, StartImporter(wanted, wipe)
  PROVE  /\ job' \in Jobs /\ job'.pc = "queued" /\ job'.percent = 5 /\ job'.found = {}
         /\ DOMAIN job'.size = {} /\ before' = dest /\ UNCHANGED <<source, dest>> /\ Resting
  BY NoJobTyped DEF StartImporter, Jobs, ImportSteps

LEMMA ConnectTyped ==
  ASSUME ImportBase, Connect
  PROVE  /\ job.pc = "queued" /\ UNCHANGED <<source, dest, before>>
         /\ \/ job' = Failed(job)
            \/ /\ job' \in Jobs /\ job'.pc = "scan" /\ job'.percent = 15 /\ job'.found = job.found
               /\ job'.size = job.size
<1>1. job \in Jobs
  BY DEF ImportBase
<1>2. ASSUME job' = [job EXCEPT !.pc = "scan", !.percent = 15]
      PROVE  /\ job' \in Jobs /\ job'.pc = "scan" /\ job'.percent = 15 /\ job'.found = job.found
             /\ job'.size = job.size
  BY <1>1, <1>2 DEF Jobs, ImportSteps
<1> QED
  BY <1>2 DEF Connect

LEMMA ImportBaseStep ==
  ASSUME IsFiniteSet(Files), ImportBase, [ImportNext]_importVars
  PROVE  ImportBase'
<1> USE ImporterAssumption
<1>0. {"own", "part", "copy"} \subseteq Stands
  BY DEF Stands
<1>1. ASSUME UNCHANGED <<source, dest, before>>, job' = Failed(job) PROVE ImportBase'
  BY <1>1, FailedTyped DEF ImportBase
<1>2. ASSUME NEW wanted \in SUBSET FileKinds, NEW wipe \in BOOLEAN, StartImporter(wanted, wipe)
      PROVE  ImportBase'
  BY <1>2, StartTyped DEF ImportBase
<1>3. CASE Connect
  BY <1>1, <1>3, ConnectTyped DEF ImportBase
<1>4. CASE Scan
  <2>1. CASE job' = Failed(job)
    BY <1>1, <1>4, <2>1 DEF Scan
  <2>2. CASE job' # Failed(job)
    <3>1. job.pc = "scan" /\ UNCHANGED <<source, dest, before>>
      BY <1>4 DEF Scan
    <3> QED
      BY <1>4, <2>2, <3>1, ScanTyped DEF ImportBase
  <2> QED
    BY <2>1, <2>2
<1>5. CASE Wipe
  <2>1. CASE job' = Failed(job)
    <3>1. dest' = dest \/ \E f \in job.todo : dest' = Without(dest, {f})
      BY <1>5 DEF Wipe
    <3>2. dest' \in Trees(Files \cup {Hive}, Stands)
      <4>1. job.todo \subseteq Files
        BY DEF ImportBase, Jobs
      <4> QED
        BY <3>1, <4>1, DestWithout DEF ImportBase
    <3>3. UNCHANGED <<source, before>>
      BY <1>5 DEF Wipe
    <3> QED
      BY <2>1, <3>2, <3>3, FailedTyped DEF ImportBase
  <2>2. CASE job' # Failed(job)
    <3>1. UNCHANGED <<source, before>>
      BY <1>5 DEF Wipe
    <3>2. dest' \in Trees(Files \cup {Hive}, Stands)
      <4>1. job.todo \subseteq Files
        BY DEF ImportBase, Jobs
      <4> QED
        BY <1>5, <2>2, <4>1, WipeTyped, DestWithout DEF ImportBase
    <3> QED
      BY <1>5, <2>2, <3>1, <3>2, WipeTyped DEF ImportBase
  <2> QED
    BY <2>1, <2>2
<1>6. \A f \in Files : Relative(f) \in Files
  BY DEF Relative
<1>7. ASSUME NEW f \in Files, CopyBegin(f) PROVE ImportBase'
  <2>1. CASE job' = Failed(job)
    <3>1. dest' = dest \/ dest' = With(dest, Relative(f), "part")
      BY <1>7 DEF CopyBegin
    <3>2. dest' \in Trees(Files \cup {Hive}, Stands)
      <4>1. With(dest, Relative(f), "part") \in Trees(Files \cup {Hive}, Stands)
        BY <1>0, <1>6, DestWith
      <4> QED
        BY <3>1, <4>1 DEF ImportBase
    <3>3. UNCHANGED <<source, before>>
      BY <1>7 DEF CopyBegin
    <3> QED
      BY <2>1, <3>2, <3>3, FailedTyped DEF ImportBase
  <2>2. CASE job' # Failed(job)
    <3>1. With(dest, Relative(f), "part") \in Trees(Files \cup {Hive}, Stands)
      BY <1>0, <1>6, DestWith
    <3>2. job.pc = "copy"
      BY <1>7 DEF CopyBegin
    <3> QED
      BY <1>7, <2>2, <3>1, <3>2, CopyBeginTyped DEF ImportBase
  <2> QED
    BY <2>1, <2>2
<1>8. CASE CopyEnd
  <2>1. job.pc = "read" /\ job.file \in job.todo /\ job.todo \subseteq Files
    BY <1>8 DEF CopyEnd, ImportBase, Jobs
  <2>2. With(dest, Relative(job.file), "copy") \in Trees(Files \cup {Hive}, Stands)
    BY <1>0, <1>6, <2>1, DestWith
  <2> QED
    BY <1>8, <2>1, <2>2, CopyEndTyped DEF ImportBase
<1>9. CASE CopyFails
  BY <1>1, <1>9 DEF CopyFails, AfterError
<1>10. CASE Finish
  BY <1>10, FinishTypedJob DEF ImportBase
<1>11. CASE ImportCrash
  BY <1>11, CrashTyped DEF ImportBase
<1>12. ASSUME NEW f \in Files, SourceChanges(f) PROVE ImportBase'
  <2>1. source' \in Trees(Files, 0 .. MaxSize)
    BY <1>12, SourceTrees DEF SourceChanges
  <2> QED
    BY <1>12, <2>1 DEF SourceChanges, ImportBase
<1>13. ASSUME NEW f \in Files, CellChanges(f) PROVE ImportBase'
  <2>1. dest' \in Trees(Files \cup {Hive}, Stands)
    <3>1. With(dest, f, "own") \in Trees(Files \cup {Hive}, Stands)
      BY <1>0, DestWith
    <3>2. Without(dest, {f}) \in Trees(Files \cup {Hive}, Stands)
      BY DestWithout
    <3> QED
      BY <1>13, <3>1, <3>2 DEF CellChanges
  <2> QED
    BY <1>13, <2>1, NoJobTyped DEF CellChanges, ImportBase
<1>14. CASE UNCHANGED importVars
  BY <1>14 DEF importVars, ImportBase
<1> QED
  BY <1>2, <1>3, <1>4, <1>5, <1>7, <1>8, <1>9, <1>10, <1>11, <1>12, <1>13, <1>14 DEF ImportNext

\* An import, the Cell directory and the source keep their types, for any finite set
\* of files, of any sizes and kinds (sftp.go:19, local.go:20).
THEOREM ImportTypeCorrect ==
  ASSUME IsFiniteSet(Files)
  PROVE  ImportSpec => []ImportTypeOK
<1>1. ImportBase /\ [ImportNext]_importVars => ImportBase'
  BY ImportBaseStep
<1>2. ImportBase => ImportTypeOK
  BY BaseIsTyped
<1> QED
  BY <1>1, <1>2, ImportBaseInit, PTL DEF ImportSpec

-----------------------------------------------------------------------------
\* What an import has still to do accounts for what the Cell is not yet.
SameAsBefore(f) ==
  \/ f \notin DOMAIN dest /\ (job.wipe \/ f \notin DOMAIN before)
  \/ f \in DOMAIN dest \cap DOMAIN before /\ dest[f] = before[f]

ExactInv ==
  /\ Hive \in DOMAIN dest /\ dest[Hive] = "own"
  /\ \A f \in Files \ Chosen : SameAsBefore(f)
  /\ job.pc \in {"queued", "scan"} => job.found = {}
  /\ job.pc \in {"wipe", "copy", "read", "finish", "complete"} => DOMAIN job.size = Chosen
  /\ job.pc = "wipe" => job.wipe /\ DOMAIN dest \subseteq job.todo \cup {Hive}
  /\ job.pc \in {"copy", "read", "finish", "complete"} =>
       /\ \A f \in Chosen \ job.todo : f \in DOMAIN dest /\ dest[f] = "copy"
       /\ job.wipe => DOMAIN dest \subseteq Chosen \cup {Hive}
  /\ job.pc \in {"finish", "complete"} => job.todo = {}

LEMMA ExactIsExact == ImportBase /\ ExactInv => ImportExact
<1> SUFFICES ASSUME ImportBase, ExactInv PROVE ImportExact
  OBVIOUS
<1>1. dest[Hive] = "own"
  BY DEF ExactInv
<1>2. \A f \in Files \ Chosen :
         \/ f \notin DOMAIN dest /\ (job.wipe \/ f \notin DOMAIN before)
         \/ f \in DOMAIN dest \cap DOMAIN before /\ dest[f] = before[f]
  BY DEF ExactInv, SameAsBefore
<1>3. ASSUME job.pc \in {"finish", "complete"}
      PROVE  /\ \A f \in Chosen : f \in DOMAIN dest /\ dest[f] = "copy"
             /\ job.wipe => DOMAIN dest = Chosen \cup {Hive}
  BY <1>3 DEF ExactInv
<1> QED
  BY <1>1, <1>2, <1>3 DEF ImportExact

\* The two ways to ask for a file's kinds agree where the root is named.
LEMMA ScanChooses ==
  ASSUME RootGiven, ImportBase, Scan, job' # Failed(job)
  PROVE  DOMAIN job'.size = Chosen'
<1>1. /\ job'.found = DOMAIN source /\ job'.wanted = job.wanted
      /\ DOMAIN job'.size = {f \in DOMAIN source : ShouldImport(Relative(f), job.wanted)}
  BY ScanTyped
<1>2. DOMAIN source \in SUBSET Files
  BY TreeFacts DEF ImportBase
<1>3. \A f \in DOMAIN source : KindsOf[f] \subseteq FileKinds
  BY <1>2, ImporterAssumption
<1> QED
  BY <1>1, <1>3 DEF Chosen, ShouldImport, Relative

LEMMA ChosenSame ==
  ASSUME job'.found = job.found, job'.wanted = job.wanted
  PROVE  Chosen' = Chosen
  BY DEF Chosen

\* Failing, or dying, leaves what is done.
LEMMA ExactEnds ==
  ASSUME ImportBase, ExactInv, UNCHANGED <<dest, before>>, job'.pc \in {"failed", "dead"},
         job'.found = job.found, job'.wanted = job.wanted, job'.wipe = job.wipe
  PROVE  ExactInv'
  BY ChosenSame DEF ExactInv, SameAsBefore

LEMMA ExactCopies ==
  ASSUME ImportBase, ExactInv, NEW f \in Chosen, NEW v \in Stands,
         dest' = With(dest, f, v), UNCHANGED before,
         job'.found = job.found, job'.wanted = job.wanted, job'.wipe = job.wipe,
         job'.size = job.size, job.pc \in {"copy", "read"}, job'.pc \in {"copy", "read"},
         job'.todo = IF v = "copy" THEN job.todo \ {f} ELSE job.todo,
         f \in job.todo
  PROVE  ExactInv'
<1>1. Chosen' = Chosen /\ Chosen \subseteq Files /\ Hive \notin Files
  BY ChosenSame, ImporterAssumption DEF Chosen, ImportBase, Jobs
<1>2. /\ DOMAIN dest' = DOMAIN dest \cup {f} /\ dest'[f] = v
      /\ \A y \in DOMAIN dest \ {f} : dest'[y] = dest[y]
  <2>1. /\ DOMAIN With(dest, f, v) = DOMAIN dest \cup {f} /\ With(dest, f, v)[f] = v
        /\ \A y \in DOMAIN dest \ {f} : With(dest, f, v)[y] = dest[y]
    <3>1. f \in Files
      BY <1>1
    <3> QED
      BY <3>1, DestWith
  <2> QED
    BY <2>1
<1>3. Hive \in DOMAIN dest' /\ dest'[Hive] = "own"
  BY <1>1, <1>2 DEF ExactInv
<1>4. ASSUME NEW g \in Files \ Chosen PROVE SameAsBefore(g)'
  BY <1>2 DEF ExactInv, SameAsBefore
<1>5. \A g \in Chosen \ job'.todo : g \in DOMAIN dest' /\ dest'[g] = "copy"
  BY <1>2 DEF ExactInv
<1>6. job'.wipe => DOMAIN dest' \subseteq Chosen \cup {Hive}
  BY <1>2 DEF ExactInv
<1>7. DOMAIN job'.size = Chosen'
  BY <1>1 DEF ExactInv
<1> QED
  BY <1>1, <1>3, <1>4, <1>5, <1>6, <1>7 DEF ExactInv

LEMMA ExactStep ==
  ASSUME IsFiniteSet(Files), RootGiven, ImportBase, ExactInv, [ImportNext]_importVars
  PROVE  ExactInv'
<1> USE ImporterAssumption
<1>0. ImportBase' /\ {"own", "part", "copy"} \subseteq Stands
  BY ImportBaseStep DEF Stands
<1>1. ASSUME UNCHANGED <<dest, before>>, job' = Failed(job) PROVE ExactInv'
  BY <1>1, FailedTyped, ExactEnds
<1>2. ASSUME NEW wanted \in SUBSET FileKinds, NEW wipe \in BOOLEAN, StartImporter(wanted, wipe)
      PROVE  ExactInv'
  <2>1. /\ job'.pc = "queued" /\ job'.found = {} /\ before' = dest /\ dest' = dest
    BY <1>2, StartTyped
  <2>2. Chosen' = {}
    BY <2>1 DEF Chosen
  <2> QED
    BY <2>1, <2>2 DEF ExactInv, SameAsBefore
<1>3. CASE Connect
  <2>1. CASE job' = Failed(job)
    BY <1>1, <1>3, <2>1, ConnectTyped
  <2>2. CASE job' # Failed(job)
    <3>1. job.pc = "queued" /\ job'.pc = "scan" /\ job'.found = job.found /\ UNCHANGED <<dest, before>>
      BY <1>3, <2>2, ConnectTyped
    <3>2. Chosen = {} /\ Chosen' = {} /\ job'.found = {}
      BY <3>1 DEF Chosen, ExactInv
    <3>3. job'.wipe = job.wipe
      BY <1>3, <2>2 DEF Connect, ImportBase, Jobs
    <3> QED
      BY <3>1, <3>2, <3>3 DEF ExactInv, SameAsBefore
  <2> QED
    BY <2>1, <2>2
<1>4. CASE Scan
  <2>1. CASE job' = Failed(job)
    BY <1>1, <1>4, <2>1 DEF Scan
  <2>2. CASE job' # Failed(job)
    <3>1. job.pc = "scan" /\ UNCHANGED <<dest, before>> /\ DOMAIN job'.size = Chosen'
      BY <1>4, <2>2, ScanChooses DEF Scan
    <3>2. Chosen = {}
      BY <3>1 DEF ExactInv, Chosen
    <3>3. /\ job'.wipe = job.wipe
          /\ \/ job.wipe /\ job'.pc = "wipe" /\ job'.todo = DOMAIN dest \ {Hive}
             \/ ~job.wipe /\ job'.pc = "copy" /\ job'.todo = DOMAIN job'.size
      BY <1>4, <2>2, ScanTyped
    <3>4. \A f \in Files \ Chosen' : SameAsBefore(f)'
      BY <3>1, <3>2, <3>3 DEF ExactInv, SameAsBefore
    <3> QED
      BY <3>1, <3>3, <3>4 DEF ExactInv
  <2> QED
    BY <2>1, <2>2
<1>5. CASE Wipe
  <2>1. job.pc = "wipe" /\ UNCHANGED before /\ job.todo \subseteq Files
    BY <1>5 DEF Wipe, ImportBase, Jobs
  <2>2. CASE job' = Failed(job) /\ UNCHANGED dest
    BY <1>1, <2>1, <2>2
  <2>3. ASSUME NEW f \in job.todo, dest' = Without(dest, {f}), job' = Failed(job) \/ job'.pc = "wipe",
               job'.found = job.found, job'.wanted = job.wanted, job'.wipe = job.wipe,
               job'.size = job.size, job'.pc = "wipe" => job'.todo = job.todo \ {f}
        PROVE  ExactInv'
    <3>1. DOMAIN dest' = DOMAIN dest \ {f} /\ \A g \in DOMAIN dest \ {f} : dest'[g] = dest[g]
      BY <2>1, <2>3, DestWithout
    <3>2. f # Hive /\ job.wipe /\ Chosen' = Chosen /\ DOMAIN job.size = Chosen
      BY <2>1, <2>3, ChosenSame DEF ExactInv
    <3>3. \A g \in Files \ Chosen : SameAsBefore(g)'
      BY <2>1, <2>3, <3>1, <3>2 DEF ExactInv, SameAsBefore
    <3>4. job'.pc \in {"failed", "wipe"}
      BY <2>3, FailedTyped
    <3> QED
      BY <2>1, <2>3, <3>1, <3>2, <3>3, <3>4 DEF ExactInv
  <2>4. CASE job' # Failed(job)
    <3>1. CASE \E f \in job.todo : dest' = Without(dest, {f}) /\ job'.pc = "wipe" /\ job'.todo = job.todo \ {f}
      BY <1>5, <2>3, <2>4, <3>1, WipeTyped
    <3>2. CASE job.todo = {} /\ UNCHANGED dest /\ job'.pc = "copy" /\ job'.todo = DOMAIN job.size
      <4>1. job'.found = job.found /\ job'.wanted = job.wanted /\ job'.wipe = job.wipe /\ job'.size = job.size
        BY <1>5, <2>4, WipeTyped
      <4>2. Chosen' = Chosen
        BY <4>1, ChosenSame
      <4> QED
        BY <2>1, <3>2, <4>1, <4>2 DEF ExactInv, SameAsBefore
    <3> QED
      BY <1>5, <2>4, <3>1, <3>2, WipeTyped
  <2>5. CASE job' = Failed(job) /\ dest' # dest
    <3>1. \E f \in job.todo : dest' = Without(dest, {f})
      BY <1>5, <2>5 DEF Wipe
    <3> QED
      BY <2>3, <2>5, <3>1, FailedTyped
  <2> QED
    BY <2>2, <2>4, <2>5
<1>6. \A f \in Files : Relative(f) = f
  BY DEF Relative
<1>7. ASSUME NEW f \in Files, CopyBegin(f) PROVE ExactInv'
  <2>1. /\ UNCHANGED before /\ job.pc = "copy" /\ f \in job.todo /\ f \in Chosen
    BY <1>7 DEF CopyBegin, ImportBase, ExactInv
  <2>2. CASE job' = Failed(job) /\ UNCHANGED dest
    BY <1>1, <2>1, <2>2
  <2>3. CASE job' # Failed(job)
    BY <1>0, <1>6, <1>7, <2>1, <2>3, CopyBeginTyped, ExactCopies
  <2>4. CASE job' = Failed(job) /\ dest' # dest
    <3>1. job'.pc = "read"
      BY <1>7, <2>4 DEF CopyBegin, ImportBase, Jobs
    <3> QED
      BY <2>4, <3>1, FailedTyped
  <2> QED
    BY <2>2, <2>3, <2>4
<1>8. CASE CopyEnd
  <2>1. job.pc = "read" /\ job.file \in job.todo /\ job.file \in Chosen /\ job.file \in Files
    BY <1>8 DEF CopyEnd, ImportBase, Jobs, ExactInv, Chosen
  <2> QED
    BY <1>0, <1>6, <1>8, <2>1, CopyEndTyped, ExactCopies
<1>9. CASE CopyFails
  BY <1>1, <1>9 DEF CopyFails, AfterError
<1>10. CASE Finish
  <2>1. Chosen' = Chosen
    BY <1>10, FinishTypedJob, ChosenSame
  <2>2. job'.todo = job.todo
    BY <1>10 DEF Finish, ImportBase, Jobs
  <2> QED
    BY <1>10, <2>1, <2>2, FinishTypedJob DEF ExactInv, SameAsBefore
<1>11. CASE ImportCrash
  BY <1>11, CrashTyped, ExactEnds
<1>12. ASSUME NEW f \in Files, SourceChanges(f) PROVE ExactInv'
  BY <1>12 DEF SourceChanges, ExactInv, SameAsBefore, Chosen
<1>13. ASSUME NEW f \in Files, CellChanges(f) PROVE ExactInv'
  <2>1. Hive \in DOMAIN dest' /\ dest'[Hive] = "own"
    <3>1. dest' = Without(dest, {f}) \/ dest' = With(dest, f, "own")
      BY <1>13 DEF CellChanges
    <3>2. Hive \in DOMAIN dest /\ dest[Hive] = "own" /\ Hive # f
      BY DEF ExactInv
    <3>3. CASE dest' = Without(dest, {f})
      BY <3>2, <3>3, DestWithout
    <3>4. CASE dest' = With(dest, f, "own")
      <4>1. /\ DOMAIN With(dest, f, "own") = DOMAIN dest \cup {f}
            /\ \A y \in DOMAIN dest \ {f} : With(dest, f, "own")[y] = dest[y]
        BY DEF With
      <4> QED
        BY <3>2, <3>4, <4>1
    <3> QED
      BY <3>1, <3>3, <3>4
  <2>2. job' = NoJob /\ before' = dest'
    BY <1>13 DEF CellChanges
  <2> QED
    BY <2>1, <2>2, NoJobTyped DEF ExactInv, SameAsBefore
<1>14. CASE UNCHANGED importVars
  BY <1>14 DEF importVars, ExactInv, SameAsBefore, Chosen
<1> QED
  BY <1>2, <1>3, <1>4, <1>5, <1>7, <1>8, <1>9, <1>10, <1>11, <1>12, <1>13, <1>14 DEF ImportNext

\* What an import reports done is done, and what it does not bring or remove it has
\* not touched, for any finite set of files, where the request names the source's
\* directory (sftp.go:93, local.go:66).
THEOREM ImportsAreExact ==
  ASSUME IsFiniteSet(Files), RootGiven
  PROVE  ImportSpec => []ImportExact
<1>1. ImportInit => ImportBase /\ ExactInv
  BY ImportBaseInit, NoJobTyped DEF ImportInit, ExactInv, SameAsBefore
<1>2. ImportBase /\ ExactInv /\ [ImportNext]_importVars => ImportBase' /\ ExactInv'
  BY ImportBaseStep, ExactStep
<1> QED
  BY <1>1, <1>2, ExactIsExact, PTL DEF ImportSpec

-----------------------------------------------------------------------------
\* What is reported is no more than what has been copied comes to.
Within(j) == j.copied <= Total(j.size)
ProgressInv ==
  /\ job.pc = "queued" => job.percent = 5
  /\ job.pc = "scan" => job.percent = 15
  /\ job.pc = "wipe" => job.percent = 20
  /\ job.pc \in {"copy", "read"} /\ Within(job) => job.percent <= PercentOf(job)
  /\ job.pc = "finish" => job.percent = 92

\* A step of a job that runs either fails or reports at least as much.
Reports == ~Resting /\ Within(job') => job'.percent >= job.percent

LEMMA PercentSame ==
  ASSUME NEW j, NEW k, k.size = j.size, k.todo = j.todo, k.copied = j.copied
  PROVE  PercentOf(k) = PercentOf(j) /\ (Within(k) <=> Within(j))
  BY DEF PercentOf, Index, Within

\* More copied and less to do is no lower percentage (sftp.go:451).
LEMMA PercentMore ==
  ASSUME IsFiniteSet(Files), NEW j \in Jobs, NEW k \in Jobs, j.todo \subseteq DOMAIN j.size,
         k.size = j.size, k.todo \subseteq j.todo, k.copied >= j.copied
  PROVE  PercentOf(j) <= PercentOf(k) /\ (Within(k) => Within(j))
<1> DEFINE n == Cardinality(DOMAIN j.size)
           t == Total(j.size)
<1>1. Index(j) \in Nat /\ n \in Nat /\ t \in Nat /\ Index(k) \in Nat
  BY Counted
<1>2. j.copied \in Nat /\ k.copied \in Nat
  BY DEF Jobs
<1>3. Index(j) <= Index(k)
  <2>1. DOMAIN j.size \in SUBSET Files
    <3>1. j.size \in Trees(Files, 0 .. MaxSize)
      BY DEF Jobs
    <3> QED
      BY <3>1, TreeFacts
  <2>2. IsFiniteSet(j.todo)
    BY <2>1, FS_Subset
  <2>3. /\ Cardinality(k.todo) <= Cardinality(j.todo)
        /\ Cardinality(k.todo) \in Nat /\ Cardinality(j.todo) \in Nat
    BY <2>2, FS_Subset, FS_CardinalityType
  <2> QED
    BY <1>1, <2>3 DEF Index
<1>4. PercentOf(j) = TransferPercent(Index(j), n, j.copied, t)
  BY DEF PercentOf
<1>5. PercentOf(k) = TransferPercent(Index(k), n, k.copied, t)
  BY DEF PercentOf
<1>6. Within(k) => Within(j)
  BY <1>1, <1>2 DEF Within
<1> HIDE DEF n, t
<1>7. TransferPercent(Index(j), n, j.copied, t) <= TransferPercent(Index(k), n, k.copied, t)
  BY <1>1, <1>2, <1>3, PercentGrows
<1> QED
  BY <1>4, <1>5, <1>6, <1>7

LEMMA ProgressStep ==
  ASSUME IsFiniteSet(Files), ImportBase, ProgressInv, [ImportNext]_importVars
  PROVE  ProgressInv' /\ Reports
<1>0. ImportBase' /\ job \in Jobs /\ job.percent \in Nat
  BY ImportBaseStep DEF ImportBase, Jobs
<1>1. ASSUME job.pc \in {"copy", "read"}, Within(job)
      PROVE  job.percent <= 90 /\ job.percent <= PercentOf(job) /\ PercentOf(job) \in 25 .. 90
  <2>1. job.todo \subseteq DOMAIN job.size
    BY <1>1 DEF ImportBase
  <2>2. PercentOf(job) \in 25 .. 90
    BY <1>0, <1>1, <2>1, Counted DEF Within
  <2>3. job.percent <= PercentOf(job)
    BY <1>1 DEF ProgressInv
  <2> QED
    BY <1>0, <2>2, <2>3
<1>2. ASSUME job' = Failed(job), job.pc \in {"queued", "scan", "wipe", "copy", "read"}
      PROVE  ProgressInv' /\ Reports
  <2>1. job'.pc = "failed" /\ job'.percent = 100 /\ (Within(job') <=> Within(job))
    BY <1>2, FailedTyped DEF Within
  <2>2. Within(job) => job.percent <= 100
    BY <1>0, <1>1, <1>2 DEF ProgressInv
  <2> QED
    BY <2>1, <2>2 DEF ProgressInv, Reports
<1>3. ASSUME NEW wanted \in SUBSET FileKinds, NEW wipe \in BOOLEAN, StartImporter(wanted, wipe)
      PROVE  ProgressInv' /\ Reports
  BY <1>3, StartTyped DEF ProgressInv, Reports
<1>4. CASE Connect
  <2>1. CASE job' = Failed(job)
    BY <1>2, <1>4, <2>1, ConnectTyped
  <2>2. CASE job' # Failed(job)
    BY <1>4, <2>2, ConnectTyped DEF ProgressInv, Reports
  <2> QED
    BY <2>1, <2>2
\* At the first file everything is still to do.
<1>5. ASSUME job.pc \in {"scan", "wipe"}, job'.pc = "copy", job'.percent = job.percent
      PROVE  ProgressInv' /\ Reports
  <2>1. job'.todo \subseteq DOMAIN job'.size /\ job' \in Jobs
    BY <1>0, <1>5 DEF ImportBase
  <2>2. Within(job') => PercentOf(job') \in 25 .. 90
    BY <2>1, Counted DEF Within
  <2>3. job'.percent \in {15, 20}
    BY <1>5 DEF ProgressInv
  <2> QED
    BY <1>0, <1>5, <2>2, <2>3 DEF ProgressInv, Reports
<1>6. CASE Scan
  <2>1. job.pc = "scan"
    BY <1>6 DEF Scan
  <2>2. CASE job' = Failed(job)
    BY <1>2, <2>1, <2>2
  <2>3. CASE job' # Failed(job)
    <3>1. \/ job'.pc = "wipe" /\ job'.percent = 20
          \/ job'.pc = "copy" /\ job'.percent = job.percent
      BY <1>6, <2>3, ScanTyped
    <3>2. CASE job'.pc = "wipe" /\ job'.percent = 20
      BY <2>1, <3>2 DEF ProgressInv, Reports
    <3> QED
      BY <1>5, <2>1, <3>1, <3>2
  <2> QED
    BY <2>2, <2>3
<1>7. CASE Wipe
  <2>1. job.pc = "wipe"
    BY <1>7 DEF Wipe
  <2>2. CASE job' = Failed(job)
    BY <1>2, <2>1, <2>2
  <2>3. CASE job' # Failed(job)
    <3>1. job'.percent = job.percent /\ job'.pc \in {"wipe", "copy"}
      BY <1>7, <2>3, WipeTyped
    <3>2. CASE job'.pc = "wipe"
      BY <1>0, <2>1, <3>1, <3>2 DEF ProgressInv, Reports
    <3> QED
      BY <1>5, <2>1, <3>1, <3>2
  <2> QED
    BY <2>2, <2>3
<1>8. ASSUME NEW f \in Files, CopyBegin(f) PROVE ProgressInv' /\ Reports
  <2>1. job.pc = "copy"
    BY <1>8 DEF CopyBegin
  <2>2. CASE job' = Failed(job)
    BY <1>2, <2>1, <2>2
  <2>3. CASE job' # Failed(job)
    <3>1. /\ job'.size = job.size /\ job'.todo = job.todo /\ job'.copied = job.copied
          /\ job'.pc = "read" /\ job'.percent = PercentOf(job)
      BY <1>8, <2>3, CopyBeginTyped
    <3>2. PercentOf(job') = PercentOf(job) /\ (Within(job') <=> Within(job))
      BY <3>1, PercentSame
    <3>3. Within(job) => PercentOf(job) \in 25 .. 90 /\ job.percent <= PercentOf(job)
      BY <1>1, <2>1
    <3> QED
      BY <1>0, <3>1, <3>2, <3>3 DEF ProgressInv, Reports
  <2> QED
    BY <2>2, <2>3
<1>9. CASE CopyEnd
  <2>1. job.pc = "read" /\ job.todo \subseteq DOMAIN job.size
    BY <1>9 DEF CopyEnd, ImportBase
  <2>2. /\ job' \in Jobs /\ job'.size = job.size /\ job'.todo \subseteq job.todo
        /\ job'.copied >= job.copied /\ job'.percent = job.percent /\ job'.pc = "copy"
    BY <1>9, CopyEndTyped
  <2>3. PercentOf(job) <= PercentOf(job') /\ (Within(job') => Within(job))
    BY <1>0, <2>1, <2>2, PercentMore
  <2>4. PercentOf(job) \in Nat /\ PercentOf(job') \in Nat
    BY <1>0, <2>1, <2>2, Counted
  <2>5. Within(job) => job.percent <= PercentOf(job)
    BY <2>1 DEF ProgressInv
  <2> QED
    BY <1>0, <2>2, <2>3, <2>4, <2>5 DEF ProgressInv, Reports
<1>10. CASE CopyFails
  BY <1>2, <1>10 DEF CopyFails, AfterError
<1>11. CASE Finish
  <2>1. job'.size = job.size /\ job'.copied = job.copied
    BY <1>11, FinishTypedJob
  <2>2. Within(job') <=> Within(job)
    BY <2>1 DEF Within
  <2>3. \/ job.pc = "copy" /\ job'.pc = "finish" /\ job'.percent = 92
        \/ job.pc = "finish" /\ job'.pc = "complete" /\ job'.percent = 100
    BY <1>11, FinishTypedJob
  <2>4. CASE job.pc = "copy" /\ job'.pc = "finish" /\ job'.percent = 92
    BY <1>0, <1>1, <2>2, <2>4 DEF ProgressInv, Reports
  <2>5. CASE job.pc = "finish" /\ job'.pc = "complete" /\ job'.percent = 100
    BY <2>5 DEF ProgressInv, Reports
  <2> QED
    BY <2>3, <2>4, <2>5
<1>12. CASE ImportCrash
  BY <1>0, <1>12, CrashTyped DEF ProgressInv, Reports
<1>13. ASSUME UNCHANGED job PROVE ProgressInv' /\ Reports
  BY <1>0, <1>13 DEF ProgressInv, Reports, Within, PercentOf, Index
<1>14. ASSUME NEW f \in Files, SourceChanges(f) PROVE ProgressInv' /\ Reports
  BY <1>13, <1>14 DEF SourceChanges
<1>15. ASSUME NEW f \in Files, CellChanges(f) PROVE ProgressInv' /\ Reports
  BY <1>15, NoJobTyped DEF CellChanges, ProgressInv, Reports
<1>16. CASE UNCHANGED importVars
  BY <1>13, <1>16 DEF importVars
<1> QED
  BY <1>3, <1>4, <1>6, <1>7, <1>8, <1>9, <1>10, <1>11, <1>12, <1>14, <1>15, <1>16 DEF ImportNext

\* The percentage reported does not go back while no more has been copied than the
\* scan added up, for any finite set of files of any sizes (sftp.go:451).
THEOREM ProgressOnlyAdvances ==
  ASSUME IsFiniteSet(Files)
  PROVE  ImportSpec => ProgressAdvances
<1>1. ImportInit => ImportBase /\ ProgressInv
  BY ImportBaseInit, NoJobTyped DEF ImportInit, ProgressInv
<1>2. ImportBase /\ ProgressInv /\ [ImportNext]_importVars => ImportBase' /\ ProgressInv' /\ Reports
  BY ImportBaseStep, ProgressStep
<1>3. ImportSpec => [](ImportBase /\ ProgressInv)
  BY <1>1, <1>2, PTL DEF ImportSpec
<1>4. ImportBase /\ ProgressInv /\ [ImportNext]_importVars => [Reports]_importVars
  BY <1>2
<1>5. ImportSpec => [][Reports]_importVars
  BY <1>3, <1>4, PTL DEF ImportSpec
<1> QED
  BY <1>5 DEF ProgressAdvances, Reports, Within

-----------------------------------------------------------------------------
(* Migration detection.                                                    *)

\* The numbers of a candidate that the comparison reads (detector.go:72).
LEMMA CandidateFacts ==
  ASSUME DetectionAssumption, IsFiniteSet(Servers), NEW r \in Candidates
  PROVE  /\ Cardinality(r.matched) \in Nat /\ r.bytes \in Nat /\ r.readable \in BOOLEAN
         /\ SourceEvidenceScore(r.source) \in Nat
         /\ r.matched \subseteq Servers /\ r.path \in Places
         /\ (r.matched = {} <=> Cardinality(r.matched) = 0)
<1>1. r.source \in Sources /\ r.matched \subseteq Servers /\ r.bytes \in 0 .. MaxBytes
      /\ r.readable \in BOOLEAN /\ r.path \in Places
  BY DEF Candidates
<1>2. IsFiniteSet(r.matched)
  BY <1>1, FS_Subset
<1>3. Cardinality(r.matched) \in Nat /\ (Cardinality(r.matched) = 0 <=> r.matched = {})
  BY <1>2, FS_CardinalityType, FS_EmptySet
<1>4. SourceEvidenceScore(r.source) \in Nat
  BY <1>1 DEF SourceEvidenceScore, Sources
<1>5. r.bytes \in Nat
  BY <1>1 DEF DetectionAssumption
<1> QED
  BY <1>1, <1>3, <1>4, <1>5

\* Less is a strict order in which to be beaten by none is carried along.
LEMMA LessOrders ==
  ASSUME DetectionAssumption, IsFiniteSet(Servers),
         NEW a \in Candidates, NEW b \in Candidates, NEW c \in Candidates
  PROVE  /\ ~Less(a, a)
         /\ Less(a, b) => ~Less(b, a)
         /\ ~Less(a, b) /\ ~Less(b, c) => ~Less(a, c)
<1> DEFINE N(r) == /\ Cardinality(r.matched) \in Nat /\ r.bytes \in Nat
                   /\ SourceEvidenceScore(r.source) \in Nat
<1>1. N(a) /\ N(b) /\ N(c)
  BY CandidateFacts
<1> QED
  BY <1>1 DEF Less

\* Where the insertion puts a candidate: behind the last it does not beat.
LEMMA InsertPlaces ==
  ASSUME NEW t \in Seq(Candidates), NEW r \in Candidates
  PROVE  \E n \in 0 .. Len(t) :
           /\ Insert(t, r) = InsertAt(t, n + 1, r)
           /\ IF n = 0 THEN \A i \in 1 .. Len(t) : Less(r, t[i]) ELSE ~Less(r, t[n])
<1> DEFINE ahead == {i \in 1 .. Len(t) : ~Less(r, t[i])}
<1>1. Len(t) \in Nat /\ ahead \in SUBSET (1 .. Len(t))
  OBVIOUS
<1>2. CASE ahead = {}
  <2>1. Insert(t, r) = InsertAt(t, 0 + 1, r)
    BY <1>2 DEF Insert
  <2>2. \A i \in 1 .. Len(t) : Less(r, t[i])
    BY <1>2
  <2>3. 0 \in 0 .. Len(t)
    BY <1>1
  <2> QED
    BY <2>1, <2>2, <2>3
<1>3. CASE ahead # {}
  <2> DEFINE n == CHOOSE i \in ahead : \A j \in ahead : j <= i
  <2>1. \E i \in ahead : \A j \in ahead : j <= i
    BY <1>1, <1>3, GreatestUpto
  <2>2. n \in ahead
    BY <2>1
  <2>3. Insert(t, r) = InsertAt(t, n + 1, r)
    BY <1>3 DEF Insert
  <2> HIDE DEF n
  <2>4. n \in 1 .. Len(t) /\ ~Less(r, t[n])
    BY <2>2
  <2>5. n \in 0 .. Len(t) /\ n # 0
    BY <1>1, <2>4
  <2> QED
    BY <2>3, <2>4, <2>5
<1> QED
  BY <1>2, <1>3

\* What an insertion makes of a sequence.
LEMMA InsertAtFacts ==
  ASSUME NEW t \in Seq(Candidates), NEW r \in Candidates, NEW n \in 0 .. Len(t)
  PROVE  LET u == InsertAt(t, n + 1, r) IN
         /\ u \in Seq(Candidates) /\ Len(u) = Len(t) + 1
         /\ \A i \in 1 .. Len(u) : u[i] = r \/ \E j \in 1 .. Len(t) : u[i] = t[j]
         /\ u[1] = IF n = 0 THEN r ELSE t[1]
<1> DEFINE l == SubSeq(t, 1, n)
           h == SubSeq(t, n + 1, Len(t))
           m == l \o <<r>>
           u == m \o h
<1>1. Len(t) \in Nat /\ n \in Nat /\ n <= Len(t) /\ t \in Seq(Candidates)
  OBVIOUS
<1>2. InsertAt(t, n + 1, r) = u
  <2>1. (n + 1) - 1 = n
    BY <1>1
  <2>2. InsertAt(t, n + 1, r) = SubSeq(t, 1, (n + 1) - 1) \o <<r>> \o h
    BY Zenon DEF InsertAt
  <2> QED
    BY <2>1, <2>2, Zenon
<1>3. l \in Seq(Candidates) /\ Len(l) = n /\ \A i \in 1 .. n : l[i] = t[i]
  BY <1>1
<1>4. h \in Seq(Candidates) /\ Len(h) = Len(t) - n /\ \A i \in 1 .. Len(t) - n : h[i] = t[n + i]
  BY <1>1
<1> HIDE DEF l, h
<1>5. m \in Seq(Candidates) /\ Len(m) = n + 1 /\ m[n + 1] = r /\ \A i \in 1 .. n : m[i] = l[i]
  BY <1>1, <1>3
<1> HIDE DEF m
<1>6. /\ u \in Seq(Candidates) /\ Len(u) = Len(t) + 1
      /\ \A i \in 1 .. n + 1 : u[i] = m[i]
      /\ \A i \in 1 .. Len(t) + 1 : i > n + 1 => u[i] = h[i - (n + 1)]
  BY <1>1, <1>4, <1>5
<1> HIDE DEF u
<1>7. ASSUME NEW i \in 1 .. Len(t) + 1 PROVE u[i] = r \/ \E j \in 1 .. Len(t) : u[i] = t[j]
  <2>1. CASE i <= n
    <3>1. i \in 1 .. n /\ i \in 1 .. n + 1 /\ i \in 1 .. Len(t)
      BY <1>1, <2>1
    <3> QED
      BY <1>3, <1>5, <1>6, <3>1
  <2>2. CASE i = n + 1
    BY <1>1, <1>5, <1>6, <2>2
  <2>3. CASE i > n + 1
    <3>1. i - (n + 1) \in 1 .. Len(t) - n /\ n + (i - (n + 1)) = i - 1 /\ i - 1 \in 1 .. Len(t)
      BY <1>1, <2>3
    <3> QED
      BY <1>4, <1>6, <2>3, <3>1
  <2> QED
    BY <1>1, <2>1, <2>2, <2>3
<1>8. u[1] = IF n = 0 THEN r ELSE t[1]
  <2>1. u[1] = m[1]
    BY <1>1, <1>6
  <2>2. CASE n = 0
    BY <1>5, <2>1, <2>2
  <2>3. CASE n # 0
    <3>1. 1 \in 1 .. n
      BY <1>1, <2>3
    <3> QED
      BY <1>3, <1>5, <2>1, <2>3, <3>1
  <2> QED
    BY <2>2, <2>3
<1> QED
  BY <1>2, <1>6, <1>7, <1>8

\* t holds the first k of s, and none of them beats the first of t.
TopOf(t, s, k) ==
  /\ t \in Seq(Candidates) /\ Len(t) = k
  /\ \A i \in 1 .. k : \E j \in 1 .. k : t[i] = s[j]
  /\ k > 0 => \A j \in 1 .. k : ~Less(s[j], t[1])

LEMMA InsertKeepsTop ==
  ASSUME DetectionAssumption, IsFiniteSet(Servers),
         NEW s \in Seq(Candidates), NEW k \in Nat, k + 1 <= Len(s), NEW t, TopOf(t, s, k)
  PROVE  TopOf(Insert(t, s[k + 1]), s, k + 1)
<1> DEFINE r == s[k + 1]
           u == Insert(t, r)
<1>0. \A i \in 1 .. k : \E j \in 1 .. k : t[i] = s[j]
  BY Zenon DEF TopOf
<1>1. r \in Candidates /\ t \in Seq(Candidates) /\ Len(t) = k
  BY DEF TopOf
<1>2. \A j \in 1 .. k : s[j] \in Candidates /\ t[j] \in Candidates
  BY <1>1
<1>3. PICK n \in 0 .. Len(t) :
        /\ u = InsertAt(t, n + 1, r)
        /\ IF n = 0 THEN \A i \in 1 .. Len(t) : Less(r, t[i]) ELSE ~Less(r, t[n])
  BY <1>1, InsertPlaces
<1>4. /\ u \in Seq(Candidates) /\ Len(u) = k + 1
      /\ \A i \in 1 .. k + 1 : u[i] = r \/ \E j \in 1 .. k : u[i] = t[j]
      /\ u[1] = IF n = 0 THEN r ELSE t[1]
  <2> DEFINE v == InsertAt(t, n + 1, r)
  <2>1. /\ v \in Seq(Candidates) /\ Len(v) = Len(t) + 1
        /\ \A i \in 1 .. Len(v) : v[i] = r \/ \E j \in 1 .. Len(t) : v[i] = t[j]
        /\ v[1] = IF n = 0 THEN r ELSE t[1]
    BY <1>1, InsertAtFacts
  <2>2. u = v
    BY <1>3
  <2> HIDE DEF u, v, r
  <2> QED
    BY <1>1, <2>1, <2>2
<1>5. r = s[k + 1] /\ k + 1 \in 1 .. k + 1
  OBVIOUS
<1> HIDE DEF r, u
<1>6. \A i \in 1 .. k + 1 : \E j \in 1 .. k + 1 : u[i] = s[j]
  <2> TAKE i \in 1 .. k + 1
  <2>1. CASE u[i] = r
    BY <1>5, <2>1
  <2>2. CASE \E j \in 1 .. k : u[i] = t[j]
    <3>0. PICK l \in 1 .. k : u[i] = t[l]
      BY <2>2
    <3>1. PICK j \in 1 .. k : u[i] = s[j]
      BY <1>0, <3>0
    <3>2. j \in 1 .. k + 1
      OBVIOUS
    <3> QED
      BY <3>1, <3>2
  <2> QED
    BY <1>4, <2>1, <2>2
<1>7. ASSUME NEW j \in 1 .. k + 1 PROVE ~Less(s[j], u[1])
  <2>1. CASE k = 0
    <3>1. j = k + 1 /\ n = 0
      BY <1>1, <2>1
    <3> QED
      BY <1>1, <1>4, <1>5, <3>1, LessOrders
  <2>2. CASE k # 0
    <3>1. 1 \in 1 .. k /\ t[1] \in Candidates
      BY <1>2, <2>2
    <3>2. \A i \in 1 .. k : ~Less(s[i], t[1])
      BY <2>2 DEF TopOf
    <3>3. CASE n = 0
      <4>1. Less(r, t[1]) /\ u[1] = r
        BY <1>1, <1>3, <1>4, <3>1, <3>3
      <4>2. ~Less(t[1], r) /\ ~Less(r, r)
        BY <1>1, <3>1, <4>1, LessOrders
      <4>3. \A i \in 1 .. k : ~Less(s[i], r)
        BY <1>1, <1>2, <3>1, <3>2, <4>2, LessOrders
      <4>4. j = k + 1 \/ j \in 1 .. k
        OBVIOUS
      <4> QED
        BY <1>5, <4>1, <4>2, <4>3, <4>4
    <3>4. CASE n # 0
      <4>1. n \in 1 .. k /\ ~Less(r, t[n]) /\ u[1] = t[1]
        BY <1>1, <1>3, <1>4, <3>4
      <4>2. PICK i \in 1 .. k : t[n] = s[i]
        BY <4>1 DEF TopOf
      <4>3. ~Less(t[n], t[1]) /\ t[n] \in Candidates
        BY <1>2, <3>2, <4>2
      <4>4. ~Less(r, t[1])
        BY <1>1, <3>1, <4>1, <4>3, LessOrders
      <4>5. j = k + 1 \/ j \in 1 .. k
        OBVIOUS
      <4> QED
        BY <1>5, <3>2, <4>1, <4>4, <4>5
    <3> QED
      BY <3>3, <3>4
  <2> QED
    BY <2>1, <2>2
<1>8. TopOf(u, s, k + 1)
  BY <1>4, <1>6, <1>7 DEF TopOf
<1> QED
  BY <1>8 DEF u, r

LEMMA MaxOfPrefix ==
  ASSUME NEW k \in Nat
  PROVE  Max(1 .. k + 1) = k + 1 /\ (1 .. k + 1) \ {k + 1} = 1 .. k
<1>1. \A x \in 1 .. k + 1 : (\A y \in 1 .. k + 1 : x >= y) => x = k + 1
  OBVIOUS
<1>2. k + 1 \in 1 .. k + 1 /\ \A y \in 1 .. k + 1 : k + 1 >= y
  OBVIOUS
<1>3. Max(1 .. k + 1) = k + 1
  BY <1>1, <1>2 DEF Max
<1> QED
  BY <1>3

\* Sorting keeps what it is given and puts one first that none beats.
LEMMA SortedTop ==
  ASSUME DetectionAssumption, IsFiniteSet(Servers), NEW s \in Seq(Candidates)
  PROVE  TopOf(Sorted(s), s, Len(s))
<1> DEFINE S == DOMAIN s
           Next1(f, q) == IF q = {} THEN <<>> ELSE Insert(f[q \ {Max(q)}], s[Max(q)])
           Is(f) == f = [q \in SUBSET S |-> Next1(f, q)]
           g == CHOOSE f : Is(f)
<1>1. Sorted(s) = g[S]
  BY DEF Sorted, FoldLeft, MapThenFoldSet
<1>2. S = 1 .. Len(s) /\ Len(s) \in Nat /\ IsFiniteSet(S)
  BY FS_Interval
<1>3. \A i \in S : s[i] \in Candidates
  BY <1>2
<1>4. \A q \in SUBSET S : q # {} => Max(q) \in q
  <2> SUFFICES ASSUME NEW q \in SUBSET S, q # {} PROVE Max(q) \in q
    OBVIOUS
  <2>1. PICK m \in q : \A k \in q : k <= m
    BY <1>2, GreatestUpto
  <2>2. \A k \in q : m >= k
    BY <1>2, <2>1
  <2> QED
    BY <2>2 DEF Max
<1>5. \E f : Is(f)
  <2> DEFINE V == Seq(Candidates)
             op == [p \in S \X V |-> Insert(p[2], s[p[1]])]
             pick == [q \in SUBSET S |-> Max(q)]
  <2>1. \A i \in S, v \in V : Insert(v, s[i]) \in V
    BY <1>3, InsertPlaces, InsertAtFacts
  <2>2. op \in [S \X V -> V] /\ \A i \in S, v \in V : op[<<i, v>>] = Insert(v, s[i])
    BY <2>1
  <2>3. \A q \in SUBSET S : pick[q] = Max(q)
    OBVIOUS
  <2> HIDE DEF op, pick
  <2>4. <<>> \in V /\ Picks(pick, S)
    BY <1>4, <2>3 DEF Picks
  <2> HIDE DEF V
  <2>5. PICK f \in [SUBSET S -> V] : IsFold(f, op, <<>>, pick, S)
    BY <1>2, <2>2, <2>4, FoldExists
  <2>6. ASSUME NEW q \in SUBSET S PROVE f[q] = Next1(f, q)
    <3>1. CASE q = {}
      BY <2>5, <3>1 DEF IsFold
    <3>2. CASE q # {}
      <4>1. Max(q) \in S /\ q \ {Max(q)} \in SUBSET S
        BY <1>4, <3>2
      <4>2. f[q \ {Max(q)}] \in V
        BY <2>5, <4>1
      <4>3. f[q] = op[<<Max(q), f[q \ {Max(q)}]>>]
        BY <2>3, <2>5, <3>2 DEF IsFold
      <4> QED
        BY <2>2, <3>2, <4>1, <4>2, <4>3
    <3> QED
      BY <3>1, <3>2
  <2> HIDE DEF Next1, S
  <2>7. f = [q \in SUBSET S |-> f[q]]
    BY <2>5
  <2>8. [q \in SUBSET S |-> f[q]] = [q \in SUBSET S |-> Next1(f, q)]
    BY <2>6
  <2>9. Is(f)
    BY <2>7, <2>8
  <2> QED
    BY <2>9
<1>6. \A q \in SUBSET S : g[q] = Next1(g, q)
  <2> HIDE DEF Next1, S
  <2>1. Is(g)
    BY <1>5
  <2> HIDE DEF g
  <2> QED
    BY <2>1
<1> HIDE DEF g
<1> DEFINE P == {k \in Nat : k <= Len(s) => TopOf(g[1 .. k], s, k)}
<1>7. 0 \in P
  <2>1. 1 .. 0 = {} /\ {} \in SUBSET S
    OBVIOUS
  <2>2. g[1 .. 0] = <<>>
    BY <1>6, <2>1
  <2>3. TopOf(<<>>, s, 0)
    BY DEF TopOf
  <2> QED
    BY <2>2, <2>3
<1>8. ASSUME NEW k \in Nat, k \in P PROVE k + 1 \in P
  <2> SUFFICES ASSUME k + 1 <= Len(s) PROVE TopOf(g[1 .. k + 1], s, k + 1)
    OBVIOUS
  <2>1. TopOf(g[1 .. k], s, k)
    BY <1>2, <1>8
  <2>2. 1 .. k + 1 \in SUBSET S /\ 1 .. k + 1 # {}
    <3>1. \A i \in 1 .. k + 1 : i \in 1 .. Len(s)
      BY <1>2
    <3>2. 1 \in 1 .. k + 1
      OBVIOUS
    <3> QED
      BY <1>2, <3>1, <3>2
  <2>3. g[1 .. k + 1] = Insert(g[1 .. k], s[k + 1])
    <3>1. g[1 .. k + 1] = Insert(g[(1 .. k + 1) \ {Max(1 .. k + 1)}], s[Max(1 .. k + 1)])
      BY <1>6, <2>2
    <3> QED
      BY <3>1, MaxOfPrefix
  <2> QED
    BY <2>1, <2>3, InsertKeepsTop
<1>9. Len(s) \in P
  <2> HIDE DEF P
  <2> QED
    BY <1>2, <1>7, <1>8, AllNaturals
<1> QED
  BY <1>1, <1>2, <1>9

\* The first of the sorted results is one of them, and none has more of the servers,
\* or as many and data where it has none.
LEMMA HeadIsBest ==
  ASSUME DetectionAssumption, IsFiniteSet(Servers), results \in Seq(Candidates), results # <<>>
  PROVE  LET best == Head(Sorted(results)) IN
         /\ best \in Found /\ best \in Candidates
         /\ \A r \in Found : /\ r \in Candidates /\ ~Less(r, best)
                             /\ Cardinality(r.matched) <= Cardinality(best.matched)
                             /\ Cardinality(r.matched) = Cardinality(best.matched) /\ r.bytes > 0
                                  => best.bytes > 0
<1> DEFINE n == Len(results)
           t == Sorted(results)
           best == t[1]
<1>1. n \in Nat /\ n > 0 /\ Found = {results[i] : i \in 1 .. n}
  BY EmptySeq DEF Found
<1>2. \A i \in 1 .. n : results[i] \in Candidates
  OBVIOUS
<1>3. TopOf(t, results, n)
  BY SortedTop
<1> HIDE DEF n, t
<1>4. Head(t) = t[1] /\ \E i \in 1 .. n : t[1] = results[i]
  <2>1. t \in Seq(Candidates) /\ Len(t) = n /\ 1 \in 1 .. n
    BY <1>1, <1>3 DEF TopOf
  <2>2. Head(t) = t[1]
    BY <2>1
  <2> QED
    BY <1>3, <2>1, <2>2 DEF TopOf
<1>5. \A j \in 1 .. n : ~Less(results[j], t[1])
  BY <1>1, <1>3 DEF TopOf
<1>6. best \in Found /\ best \in Candidates
  BY <1>1, <1>2, <1>4
<1>7. ASSUME NEW r \in Found
      PROVE  /\ r \in Candidates /\ ~Less(r, best)
             /\ Cardinality(r.matched) <= Cardinality(best.matched)
             /\ Cardinality(r.matched) = Cardinality(best.matched) /\ r.bytes > 0
                  => best.bytes > 0
  <2>1. r \in Candidates /\ ~Less(r, best)
    BY <1>1, <1>2, <1>5
  <2> HIDE DEF best
  <2>2. /\ Cardinality(r.matched) \in Nat /\ Cardinality(best.matched) \in Nat
        /\ r.bytes \in Nat /\ best.bytes \in Nat
    BY <1>6, <2>1, CandidateFacts
  <2> QED
    BY <2>1, <2>2 DEF Less
<1>8. Head(Sorted(results)) = best
  BY <1>4 DEF t
<1> HIDE DEF best
<1> QED
  BY <1>6, <1>7, <1>8

\* What the steps keep: the answer is a record of its fields, no place has a server that
\* was not asked for, and an answer stands on what was found.
AnswerType ==
  [step : Steps, detected : BOOLEAN, path : SUBSET Places, matched : SUBSET Servers,
   missing : SUBSET Servers]

DetectInv ==
  /\ DetectTypeOK
  /\ answer \in AnswerType
  /\ \A r \in Found : r.matched \subseteq asked
  /\ DetectionBest

\* Choosing among what was found gives an answer that is right.
LEMMA AnswerIsBest ==
  ASSUME DetectionAssumption, IsFiniteSet(Servers), DetectInv, Answer
  PROVE  answer'.step = "answered" /\ answer' \in AnswerType /\ DetectionBest'
<1>1. /\ asked' = asked /\ Found' = Found /\ asked \subseteq Servers
      /\ results \in Seq(Candidates)
  BY DEF Answer, Found, DetectInv, DetectTypeOK
<1>2. CASE results = <<>>
  <2>1. answer' = [step |-> "answered", detected |-> FALSE, path |-> {}, matched |-> {},
                   missing |-> asked]
    BY <1>2 DEF Answer, NoAnswer
  <2>2. Found = {}
    BY <1>2 DEF Found
  <2> QED
    BY <1>1, <2>1, <2>2 DEF DetectionBest, AnswerType, Steps
<1>3. CASE results # <<>>
  <2> DEFINE best == Head(Sorted(results))
  <2>1. answer' = Choose(best)
    BY <1>3 DEF Answer
  <2>2. /\ best \in Found /\ best \in Candidates
        /\ \A r \in Found : /\ r \in Candidates /\ ~Less(r, best)
                            /\ Cardinality(r.matched) <= Cardinality(best.matched)
                            /\ Cardinality(r.matched) = Cardinality(best.matched) /\ r.bytes > 0
                                 => best.bytes > 0
    BY <1>1, <1>3, HeadIsBest
  <2> HIDE DEF best
  <2>3. /\ best.path \in Places /\ best.matched \subseteq Servers /\ best.matched \subseteq asked
    BY <2>2, CandidateFacts DEF DetectInv
  <2>4. CASE best.matched = {}
    <3>1. answer' = [step |-> "answered", detected |-> FALSE, path |-> {}, matched |-> {},
                     missing |-> asked]
      BY <2>1, <2>4 DEF Choose, NoAnswer
    <3>2. ASSUME NEW r \in Found PROVE r.matched = {}
      <4>0. r \in Candidates
        BY <2>2, Zenon
      <4>1. /\ Cardinality(r.matched) \in Nat /\ Cardinality(best.matched) = 0
            /\ (r.matched = {} <=> Cardinality(r.matched) = 0)
        BY <4>0, <2>2, <2>4, CandidateFacts, Zenon
      <4>2. Cardinality(r.matched) <= Cardinality(best.matched)
        BY <2>2, Zenon
      <4> QED
        BY <4>1, <4>2
    <3> QED
      BY <1>1, <3>1, <3>2 DEF DetectionBest, AnswerType, Steps
  <2>5. CASE best.matched # {}
    <3>1. answer' = [step |-> "answered", detected |-> TRUE, path |-> {best.path},
                     matched |-> best.matched, missing |-> asked \ best.matched]
      BY <2>1, <2>5 DEF Choose
    <3>2. /\ answer'.step = "answered" /\ answer'.detected = TRUE /\ answer'.path = {best.path}
          /\ answer'.matched = best.matched /\ answer'.missing = asked \ best.matched
      BY <3>1
    <3>3. answer' \in AnswerType
      BY <1>1, <2>3, <3>1 DEF AnswerType, Steps
    <3>4. \E r \in Found : r.matched # {}
      BY <2>2, <2>5
    <3>5. answer'.matched \cup answer'.missing = asked /\ answer'.matched \cap answer'.missing = {}
      BY <2>3, <3>2
    <3>6. \E b \in Found :
             /\ answer'.path = {b.path} /\ answer'.matched = b.matched
             /\ \A r \in Found : /\ Cardinality(r.matched) <= Cardinality(b.matched)
                                 /\ Cardinality(r.matched) = Cardinality(b.matched) /\ r.bytes > 0
                                      => b.bytes > 0
                                 /\ ~Less(r, b)
      BY <2>2, <3>2, Zenon
    <3>7. DetectionBest'
      BY <1>1, <3>2, <3>4, <3>5, <3>6, Zenon DEF DetectionBest
    <3> QED
      BY <3>2, <3>3, <3>7
  <2> QED
    BY <2>4, <2>5
<1> QED
  BY <1>2, <1>3

LEMMA DetectInvInit == ASSUME DetectionAssumption, DetectInit PROVE DetectInv
<1>1. /\ asked = {} /\ results = <<>> /\ DOMAIN unseen = {}
      /\ answer = [step |-> "idle", detected |-> FALSE, path |-> {}, matched |-> {}, missing |-> {}]
  BY DEF DetectInit, NoAnswer
<1>2. answer \in AnswerType /\ answer.step = "idle"
  BY <1>1 DEF AnswerType, Steps
<1>3. Found = {} /\ results \in Seq(Candidates)
  BY <1>1 DEF Found
<1>4. DetectTypeOK
  BY <1>1, <1>2, <1>3 DEF DetectTypeOK, AnswerType
<1> QED
  BY <1>2, <1>3, <1>4 DEF DetectInv, DetectionBest

\* Every step keeps it.
LEMMA DetectInvStep ==
  ASSUME DetectionAssumption, IsFiniteSet(Servers), DetectInv, [DetectNext]_detectVars
  PROVE  DetectInv'
<1>0. /\ DetectTypeOK /\ answer \in AnswerType /\ DetectionBest
      /\ \A r \in Found : r.matched \subseteq asked
  BY DEF DetectInv
<1>1. ASSUME NEW uuids \in SUBSET Servers, NEW configured \in SUBSET Places,
             NEW daemon \in SUBSET Places, NEW systemd \in SUBSET Places,
             Detect(uuids, configured, daemon, systemd)
      PROVE  DetectInv'
  <2>1. answer' = [step |-> "looking", detected |-> FALSE, path |-> {}, matched |-> {},
                   missing |-> uuids]
    BY <1>1 DEF Detect, NoAnswer
  <2>2. answer' \in AnswerType /\ answer'.step = "looking"
    BY <2>1 DEF AnswerType, Steps
  <2>3. asked' = uuids /\ results' = <<>> /\ Found' = {}
    BY <1>1 DEF Detect, Found
  <2>4. \A p \in DOMAIN unseen' : p \in Places /\ unseen'[p] \in Sources
    BY <1>1, DetectionAssumption DEF Detect, CollectCandidates, Sources, DetectionAssumption
  <2>5. DetectTypeOK'
    BY <2>2, <2>3, <2>4 DEF DetectTypeOK, AnswerType
  <2> QED
    BY <2>2, <2>3, <2>5 DEF DetectInv, DetectionBest
<1>2. ASSUME NEW p \in Places, InspectCandidate(p) PROVE DetectInv'
  <2>1. PICK matched \in SUBSET asked, bytes \in 0 .. MaxBytes, readable \in BOOLEAN :
          results' = IF matched # {} \/ readable
                     THEN Append(results, [path |-> p, source |-> unseen[p], matched |-> matched,
                                           bytes |-> bytes, readable |-> readable])
                     ELSE results
    BY <1>2 DEF InspectCandidate
  <2>2. /\ asked' = asked /\ answer' = answer /\ answer.step = "looking"
        /\ p \in DOMAIN unseen /\ unseen' = [q \in DOMAIN unseen \ {p} |-> unseen[q]]
    BY <1>2 DEF InspectCandidate
  <2> DEFINE new == [path |-> p, source |-> unseen[p], matched |-> matched, bytes |-> bytes,
                     readable |-> readable]
  <2>3. new \in Candidates /\ new.matched = matched
    BY <1>0, <2>2 DEF Candidates, DetectTypeOK
  <2> HIDE DEF new
  <2>4. results \in Seq(Candidates) /\ (results' = Append(results, new) \/ results' = results)
    BY <1>0, <2>1 DEF DetectTypeOK, new
  <2>5. results' \in Seq(Candidates)
    BY <2>3, <2>4
  <2>6. \A r \in Found' : r \in Found \/ r = new
    BY <2>3, <2>4 DEF Found
  <2>7. \A r \in Found' : r.matched \subseteq asked'
    BY <1>0, <2>2, <2>3, <2>6
  <2>8. DetectTypeOK'
    BY <1>0, <2>2, <2>5 DEF DetectTypeOK
  <2>9. DetectionBest'
    BY <2>2 DEF DetectionBest
  <2> QED
    BY <1>0, <2>2, <2>7, <2>8, <2>9 DEF DetectInv
<1>3. CASE Answer
  <2>1. answer' \in AnswerType /\ DetectionBest'
    BY <1>3, AnswerIsBest
  <2>2. asked' = asked /\ unseen' = unseen /\ results' = results /\ Found' = Found
    BY <1>3 DEF Answer, Found
  <2>3. DetectTypeOK'
    BY <1>0, <2>1, <2>2 DEF DetectTypeOK, AnswerType
  <2> QED
    BY <1>0, <2>1, <2>2, <2>3 DEF DetectInv
<1>4. CASE Return
  <2>1. /\ asked' = {} /\ results' = <<>> /\ unseen' = unseen
        /\ answer' = [answer EXCEPT !.step = "idle", !.detected = FALSE, !.path = {},
                                    !.matched = {}, !.missing = {}]
    BY <1>4 DEF Return
  <2>2. answer' \in AnswerType /\ answer'.step = "idle"
    BY <1>0, <2>1 DEF AnswerType, Steps
  <2>3. Found' = {} /\ results' \in Seq(Candidates)
    BY <2>1 DEF Found
  <2>4. DetectTypeOK'
    BY <1>0, <2>1, <2>2, <2>3 DEF DetectTypeOK, AnswerType
  <2> QED
    BY <2>2, <2>3, <2>4 DEF DetectInv, DetectionBest
<1>5. CASE UNCHANGED detectVars
  <2>1. asked' = asked /\ unseen' = unseen /\ results' = results /\ answer' = answer
    BY <1>5 DEF detectVars
  <2>2. Found' = Found
    BY <2>1 DEF Found
  <2>3. DetectTypeOK' /\ DetectionBest'
    BY <1>0, <2>1, <2>2 DEF DetectTypeOK, DetectionBest
  <2> QED
    BY <1>0, <2>1, <2>2, <2>3 DEF DetectInv
<1> QED
  BY <1>1, <1>2, <1>3, <1>4, <1>5 DEF DetectNext

\* Whatever order the places of the host are looked at in, and whatever is found there, the
\* answer is a place no other beats, it is given exactly when some place has a server asked
\* for, and it accounts for every server (Detect and its sort, detector.go:51, :72).
THEOREM DetectionFindsBest ==
  ASSUME IsFiniteSet(Servers)
  PROVE  DetectSpec => [](DetectTypeOK /\ DetectionBest)
<1>1. DetectInit => DetectInv
  BY DetectInvInit, DetectionAssumption
<1>2. DetectInv /\ [DetectNext]_detectVars => DetectInv'
  BY DetectInvStep, DetectionAssumption
<1>3. DetectInv => DetectTypeOK /\ DetectionBest
  BY DEF DetectInv
<1> QED
  BY <1>1, <1>2, <1>3, PTL DEF DetectSpec

-----------------------------------------------------------------------------
(* The services beside each other.                                         *)

\* A step of the worker is a step of each of its services or leaves it alone.
LEMMA EachOnItsOwn ==
  ASSUME [Next]_servicesVars
  PROVE  /\ [ConsoleNext]_consoleVars /\ [ConfigNext]_configVars
         /\ [ImportNext]_importVars /\ [DetectNext]_detectVars
<1>1. CASE OnlyConsole
  BY <1>1, Zenon DEF OnlyConsole
<1>2. CASE OnlyConfig
  BY <1>2, Zenon DEF OnlyConfig
<1>3. CASE OnlyImport
  BY <1>3, Zenon DEF OnlyImport
<1>4. CASE OnlyDetect
  BY <1>4, Zenon DEF OnlyDetect
<1>5. CASE UNCHANGED servicesVars
  BY <1>5, Zenon DEF servicesVars
<1> QED
  BY <1>1, <1>2, <1>3, <1>4, <1>5, Zenon DEF Next

\* The worker with all of its services does for each of them what its own specification
\* says: what is proved of a service by itself is so beside the others.
THEOREM ServicesAreParts == Spec => ConsoleSpec /\ ConfigSpec /\ ImportSpec /\ DetectSpec
<1>1. Init => ConsoleInit /\ ConfigInit /\ ImportInit /\ DetectInit
  BY DEF Init
<1>2. [Next]_servicesVars => /\ [ConsoleNext]_consoleVars /\ [ConfigNext]_configVars
                             /\ [ImportNext]_importVars /\ [DetectNext]_detectVars
  BY EachOnItsOwn
<1> QED
  BY <1>1, <1>2, PTL DEF Spec, ConsoleSpec, ConfigSpec, ImportSpec, DetectSpec

\* All the state of the services keeps its types, for any of their bounds, where a request
\* can name finitely many files and servers (console.go:8, config.go:20, sftp.go:19,
\* detector.go:17).
THEOREM ServicesTypeCorrect ==
  ASSUME IsFiniteSet(Files), IsFiniteSet(Servers)
  PROVE  Spec => []ServicesTypeOK
<1>1. ImportSpec => []ImportTypeOK
  BY ImportTypeCorrect
<1>2. DetectSpec => [](DetectTypeOK /\ DetectionBest)
  BY DetectionFindsBest
<1>3. ServicesTypeOK <=> ConsoleTypeOK /\ ConfigTypeOK /\ ImportTypeOK /\ DetectTypeOK
  BY DEF ServicesTypeOK
<1> QED
  BY <1>1, <1>2, <1>3, ServicesAreParts, ConsoleTypeCorrect, ConfigTypeCorrect, PTL
=============================================================================
