-------------------------------- MODULE Socket ---------------------------------
(***************************************************************************)
(* The connection between a page of the web client and the gateway         *)
(* (socket.io, as ws.service.ts and app.gateway.ts use it).  Each          *)
(* direction keeps its order; a connection that breaks loses what is on    *)
(* its way.  The client connects again by itself, under another id, and    *)
(* what it emits meanwhile waits for that.  The gateway reads a table and  *)
(* answers in one step: the API has one connection to its database, which  *)
(* answers in order, and nothing runs between such an answer and the emit. *)
(***************************************************************************)
EXTENDS Integers, Sequences, SequencesExt

CONSTANTS None

VARIABLES connected,
          socket_id,  \* the number of the connection
          up,         \* from the client: the rooms to join
          down        \* from the gateway: events

socketVars == <<connected, socket_id, up, down>>

SocketInit == connected = FALSE /\ socket_id = 0 /\ up = <<>> /\ down = <<>>

\* An event about something, and what it says.
Event(name, of, says) == [name |-> name, of |-> of, says |-> says]

\* wss.emit and client.emit.
Emitted(event) == IF connected THEN Append(down, event) ELSE down

\* connection.emit('join_room', room)
JoinRoom(room) == up' = Append(up, room)

\* What is on its way to the client under this name.
Coming(name) == {down[i] : i \in {j \in DOMAIN down : down[j].name = name}}

\* The gateway takes up a request for a room of this kind.
Joins(prefix) == connected /\ up # <<>> /\ Head(up).prefix = prefix

\* The next event of this name reaches the client.
Arrives(name) == down # <<>> /\ Head(down).name = name

Room(prefix, subject) == [prefix |-> prefix, subject |-> subject]

\* Nothing is on its way.
Quiet == connected /\ up = <<>> /\ down = <<>>
===============================================================================
