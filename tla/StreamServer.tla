----------------------------- MODULE StreamServer -----------------------------
(***************************************************************************)
(* The stream command server of the SAP and Cunctator protocols            *)
(* (streamcmdserver.cpp): it accepts connections into slots, splits what   *)
(* arrives into commands, answers, and collects the connections that are   *)
(* gone with one single-shot timer.  Everything runs on the main thread.   *)
(*                                                                         *)
(* A command is one letter: q asks for an answer (RouteStat, DM, ...), x   *)
(* ends the connection (Exit, DC); anything else is not in the table.      *)
(* Each protocol has a delimiter of its own; line ends are "eol".          *)
(* connectToHost() has no caller, so no connection is persistent.          *)
(*                                                                         *)
(* A client that drops may be back at once, on another of the sockets,     *)
(* while its dead one waits for the timer: to the server it is a stranger. *)
(***************************************************************************)
EXTENDS Integers, Sequences, SequencesExt, FiniteSets

CONSTANTS
  Sockets,          \* connections, each used again once it was collected
  NoSocket,         \* an empty slot
  Scripts,          \* what a client may send: sequences of characters
  ReadSize,         \* bytes that one call of readyReadData() reads: 1500
  CloseTicks,       \* collection after closeConnection(): 1 msec
  DropTicks         \* collection after a disconnect: 5000 msecs

ASSUME SizesAssumption ==
  /\ ReadSize \in Nat \ {0}
  /\ CloseTicks \in Nat \ {0} /\ DropTicks \in Nat
  /\ CloseTicks < DropTicks

ASSUME SocketsAssumption == NoSocket \notin Sockets

ASSUME ScriptsAssumption == Scripts \subseteq Seq(STRING)

Delimiter == "!"
Query == <<"q">>
Quit == <<"x">>
KnownCommands == {Query, Quit}

VARIABLES
  slots,        \* cmd_connections
  mapped,       \* cmd_read_mapper and cmd_closed_mapper: a socket's slot
  conn,         \* per socket its state and its StreamCmdConnection
  timer         \* ticks until collectGarbageData(), 0 if not active

vars == <<slots, mapped, conn, timer>>

Gone ==
  [net |-> "none", script |-> <<>>, arrived |-> 0, unread |-> <<>>,
   buffer |-> <<>>, commands |-> <<>>, unsent |-> FALSE, answers |-> 0]

Init ==
  /\ slots = <<>> /\ timer = 0
  /\ mapped = [c \in Sockets |-> 0]
  /\ conn = [c \in Sockets |-> Gone]

IsConnected(c) == c # NoSocket /\ conn[c].net = "open"

-----------------------------------------------------------------------------
(* A wrong variant: a slot is taken for free once its socket is gone.      *)
FreeSlotEarly ==
  LET free == {id \in 1 .. Len(slots) : ~IsConnected(slots[id])} IN
  IF free = {} THEN Len(slots) + 1
               ELSE CHOOSE id \in free : \A f \in free : id <= f

(* A wrong variant: the new slot is counted after it was added.            *)
FreeSlotPast ==
  LET free == {id \in 1 .. Len(slots) : slots[id] = NoSocket} IN
  IF free = {} THEN Len(slots) + 2
               ELSE CHOOSE id \in free : \A f \in free : id <= f

(* The first free slot, or a new one at the end.                           *)
FreeSlot ==
  LET free == {id \in 1 .. Len(slots) : slots[id] = NoSocket} IN
  IF free = {} THEN Len(slots) + 1
               ELSE CHOOSE id \in free : \A f \in free : id <= f

(* A connection is accepted: a client's first, or that of one which        *)
(* dropped just now and whose old socket is not collected yet.             *)
NewConnection(c) ==
  /\ conn[c].net = "none"
  /\ \E script \in Scripts :
       conn' = [conn EXCEPT ![c] = [Gone EXCEPT !.net = "open",
                                                !.script = script]]
  /\ slots' = IF FreeSlot > Len(slots) THEN Append(slots, c)
                                       ELSE [slots EXCEPT ![FreeSlot] = c]
  /\ mapped' = [mapped EXCEPT ![c] = FreeSlot]
  /\ UNCHANGED timer

(* A socket with something left to write lingers in the closing state.     *)
Closed(k) ==
  IF k.net = "open" THEN [k EXCEPT !.net = IF k.unsent THEN "closing" ELSE "closed"]
                    ELSE k

(* A write to a socket that was closed is refused.                         *)
Written(k) == IF k.net = "open" THEN [k EXCEPT !.unsent = TRUE] ELSE k

(* A wrong variant: what a closed socket refuses is taken for sent.        *)
AnsweredAlways(k) == [Written(k) EXCEPT !.answers = @ + 1]

Answered(k) ==
  IF k.net = "open" THEN [Written(k) EXCEPT !.answers = @ + 1] ELSE k

(* ProcessCommand() and commandReceivedData() of the protocols.            *)
ProcessCommand(k) ==
  LET known == [k EXCEPT !.commands = Append(@, k.buffer)] IN
  CASE k.buffer = Query -> Answered(known)
    [] k.buffer = Quit -> Closed(known)
    [] OTHER -> k

(* A wrong variant: what came before a command is kept.                    *)
ConsumeKeeping(k, char) ==
  IF char = Delimiter THEN ProcessCommand(k)
  ELSE IF char = "eol" THEN k ELSE [k EXCEPT !.buffer = Append(@, char)]

Consume(k, char) ==
  IF char = Delimiter THEN [ProcessCommand(k) EXCEPT !.buffer = <<>>]
  ELSE IF char = "eol" THEN k ELSE [k EXCEPT !.buffer = Append(@, char)]

(* The loop over what was read, after each character.                      *)
Reading(k, chars) ==
  LET read[n \in 0 .. Len(chars)] ==
        IF n = 0 THEN k ELSE Consume(read[n - 1], chars[n])
  IN  read

(* What one call reads, and what it leaves in the socket.                  *)
Taken(available) ==
  LET n == Min({ReadSize, Len(available)}) IN
  <<SubSeq(available, 1, n), SubSeq(available, n + 1, Len(available))>>

(* Only a command that ends the connection starts the timer.               *)
TimerAfter(old, new) ==
  LET fresh == SubSeq(new.commands, Len(old.commands) + 1, Len(new.commands))
  IN  IF Quit \in Range(fresh) THEN CloseTicks ELSE timer

(* More of what the client sends has arrived: n characters.  readyRead()   *)
(* is emitted once for all of them, and never for what was left before.    *)
ReadyRead(c) ==
  /\ conn[c].net = "open"
  /\ \E n \in 1 .. Len(conn[c].script) - conn[c].arrived :
       LET k == conn[c]
           parts == Taken(k.unread \o
                          SubSeq(k.script, k.arrived + 1, k.arrived + n))
           new == Reading([k EXCEPT !.arrived = @ + n, !.unread = parts[2]],
                          parts[1])[Len(parts[1])]
       IN  /\ conn' = [conn EXCEPT ![c] = new]
           /\ timer' = TimerAfter(k, new)
  /\ UNCHANGED <<slots, mapped>>

(* sendCommand() to everybody: a crosspoint or a delay has changed.        *)
Broadcast ==
  /\ conn' = [c \in Sockets |->
       IF mapped[c] # 0 THEN Written(conn[c]) ELSE conn[c]]
  /\ UNCHANGED <<slots, mapped, timer>>

-----------------------------------------------------------------------------
(* connectionClosedData(): the client's socket has emitted disconnected(). *)
Disconnected(c) ==
  /\ conn' = [conn EXCEPT ![c].net = "closed", ![c].unsent = FALSE]
  /\ timer' = DropTicks
  /\ UNCHANGED <<slots, mapped>>

PeerCloses(c) == conn[c].net \in {"open", "closing"} /\ Disconnected(c)

Flush(c) ==
  /\ conn[c].unsent
  /\ \/ /\ conn[c].net = "closing"
        /\ Disconnected(c)
     \/ /\ conn[c].net = "open"
        /\ conn' = [conn EXCEPT ![c].unsent = FALSE]
        /\ UNCHANGED <<slots, mapped, timer>>

(* A wrong variant: only a socket that has finished closing is collected.  *)
GarbageClosed == {c \in Sockets : mapped[c] # 0 /\ conn[c].net = "closed"}

(* A wrong variant: connected sockets are collected as well.               *)
GarbageAll == {c \in Sockets : mapped[c] # 0}

Garbage == {c \in Sockets : mapped[c] # 0 /\ ~IsConnected(c)}

(* A wrong variant: a socket that is still closing is given more time.     *)
CollectGarbageWaiting ==
  /\ slots' = [id \in DOMAIN slots |->
                 IF slots[id] \in GarbageClosed THEN NoSocket ELSE slots[id]]
  /\ conn' = [c \in Sockets |-> IF c \in GarbageClosed THEN Gone ELSE conn[c]]
  /\ mapped' = [c \in Sockets |-> IF c \in GarbageClosed THEN 0 ELSE mapped[c]]
  /\ timer' = IF Garbage = GarbageClosed THEN 0 ELSE DropTicks

(* Deleting a socket that is still closing aborts it: it emits             *)
(* disconnected(), and that starts the timer once more.                    *)
CollectGarbage ==
  /\ slots' = [id \in DOMAIN slots |->
                 IF slots[id] \in Garbage THEN NoSocket ELSE slots[id]]
  /\ conn' = [c \in Sockets |-> IF c \in Garbage THEN Gone ELSE conn[c]]
  /\ mapped' = [c \in Sockets |-> IF c \in Garbage THEN 0 ELSE mapped[c]]
  /\ timer' = IF \E c \in Garbage : conn[c].net = "closing" THEN DropTicks ELSE 0

Tick ==
  \/ /\ timer > 1
     /\ timer' = timer - 1
     /\ UNCHANGED <<slots, mapped, conn>>
  \/ timer = 1 /\ CollectGarbage

Next ==
  \/ \E c \in Sockets :
       NewConnection(c) \/ ReadyRead(c) \/ PeerCloses(c) \/ Flush(c)
  \/ Broadcast
  \/ Tick

Spec == Init /\ [][Next]_vars

(* A timer that runs expires.                                              *)
FairSpec == Spec /\ WF_vars(Tick)

-----------------------------------------------------------------------------
(* The types.                                                              *)
Connections ==
  [net : {"none", "open", "closing", "closed"}, script : Scripts \cup {<<>>},
   arrived : Nat, unread : Seq(STRING), buffer : Seq(STRING),
   commands : Seq(KnownCommands), unsent : BOOLEAN, answers : Nat]

TypeOK ==
  /\ slots \in Seq(Sockets \cup {NoSocket})
  /\ mapped \in [Sockets -> 0 .. Len(slots)]
  /\ conn \in [Sockets -> Connections]
  /\ timer \in 0 .. DropTicks

(***************************************************************************)
(* A connection has its slot, and the mappers lead to it, from its         *)
(* acceptance until it is collected: no answer goes to somebody else.      *)
(***************************************************************************)
SlotsMapped ==
  \A c \in Sockets :
    conn[c].net # "none" <=> mapped[c] # 0 /\ slots[mapped[c]] = c

(***************************************************************************)
(* However the network cuts a client's stream and wherever a read ends,    *)
(* the commands emitted are those between the delimiters of what was read. *)
(***************************************************************************)
Consumed(k) == k.arrived - Len(k.unread)

(* The text after a position, without its line ends.                       *)
Bare(stream, from) ==
  LET bare[n \in from .. Len(stream)] ==
        IF n = from THEN <<>>
        ELSE IF stream[n] = "eol" THEN bare[n - 1]
                                  ELSE Append(bare[n - 1], stream[n])
  IN  bare

LastDelimiter(stream, n) ==
  Max({0} \cup {d \in 1 .. n : stream[d] = Delimiter})

Between(stream, n) == Bare(stream, LastDelimiter(stream, n - 1))[n - 1]

Sent(stream) ==
  LET sent[n \in 0 .. Len(stream)] ==
        IF n = 0 THEN <<>>
        ELSE IF stream[n] = Delimiter /\ Between(stream, n) \in KnownCommands
        THEN Append(sent[n - 1], Between(stream, n))
        ELSE sent[n - 1]
  IN  sent

CommandsAsSent ==
  \A c \in Sockets :
    conn[c].commands = Sent(conn[c].script)[Consumed(conn[c])]

(***************************************************************************)
(* "Modified the Cunctator parser to require '!' at the end of each        *)
(* protocol message" and "Restored lwnetdelay(1)" (ChangeLog:236, 260):    *)
(* what the applet sends, ended as its SendCommand() does, is a command.   *)
(***************************************************************************)
AppletSends(command) == command \o <<"eol", "eol">>

AppletHeard ==
  \A c \in Sockets :
    conn[c].script = AppletSends(Query) /\ Consumed(conn[c]) = Len(conn[c].script)
      => Query \in Range(conn[c].commands)

(***************************************************************************)
(* A client is answered once for every query it sent before it asked to be *)
(* disconnected, and not at all afterwards, though commands that follow in *)
(* the same read are still processed.                                      *)
(***************************************************************************)
Questions(commands) ==
  {n \in 1 .. Len(commands) :
     commands[n] = Query /\ \A m \in 1 .. n : commands[m] # Quit}

AnsweredOnce ==
  \A c \in Sockets :
    conn[c].answers = Cardinality(Questions(conn[c].commands))

(***************************************************************************)
(* A connection that is gone is never left without a running timer: the    *)
(* one timer that both waits share is never lost between them.             *)
(***************************************************************************)
GarbageTimed ==
  (\E c \in Sockets : conn[c].net \in {"closing", "closed"}) => timer > 0

(***************************************************************************)
(* A connection that is gone is collected, however the peers, the closing  *)
(* of sockets and the deletions inside a collection start the timer again. *)
(* It rests on the disconnections coming to an end, as they do here while  *)
(* one waits, since every socket must be collected before it is used       *)
(* again.  Clients that drop and come back on fresh sockets within 5       *)
(* seconds of each other for ever put the collection off for ever.         *)
(***************************************************************************)
GoneCollected ==
  \A c \in Sockets :
    conn[c].net \in {"closing", "closed"} ~> conn[c].net = "none"

(***************************************************************************)
(* A connected client is never disconnected by the server but at its own   *)
(* request, and by nobody else's.                                          *)
(***************************************************************************)
StaysConnected ==
  [][\A c \in Sockets :
       IsConnected(c) =>
         \/ IsConnected(c)'
         \/ Quit \in Range(conn[c].commands)'
         \/ PeerCloses(c)]_vars
===============================================================================
