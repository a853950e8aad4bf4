---------------------------- MODULE ActivityPump ----------------------------
(***************************************************************************)
(* The public ticker: the socket handlers of deaddit/websocket.py and the  *)
(* lazy thread of deaddit/runtime/live_pump.py.                            *)
(*                                                                         *)
(* Every socket event is handled in a thread of its own: a client's leave  *)
(* or disconnect may run beside its join.  What happens under the pump's   *)
(* lock, and each call of the socket server's room manager, is one step.   *)
(* An activity is its timestamp, a number from 1; the watermark is the     *)
(* last one a room has seen, None (before all) when it could not be read.  *)
(***************************************************************************)
EXTENDS Integers, FiniteSets

CONSTANTS
  Clients,      \* sockets of namespace /live
  MaxEvents,    \* bound of the model: posts, comments and visits that appear
  MaxJoins      \* bound of the model: joins, of all clients

ASSUME PumpAssumption == MaxEvents \in Nat /\ MaxJoins \in Nat

None == 0
Unknown == -1

VARIABLES
  room,         \* clients the room manager counts as participants
  watermark,    \* _watermarks[ROOM]; Unknown when the room has no state
  pending,      \* _pending[ROOM]
  joining,      \* client -> where its join_activity handler is
  leaving,      \* client -> where its leave or disconnect handler is
  read,         \* client -> the max_event_ts its join read
  events,       \* newest event
  joins,        \* joins so far
  pump,         \* the thread: "dead", "waiting", "ticking", "counting", "ending"
  idle,         \* idle_cycles
  behind        \* the watermark the tick counts from

pumpVars == <<room, watermark, pending, joining, leaving, read, events, joins,
              pump, idle, behind>>

state == <<watermark, pending>>
thread == <<pump, idle, behind>>

PumpInit ==
  /\ room = {} /\ watermark = Unknown /\ pending = 0
  /\ joining = [c \in Clients |-> "out"]
  /\ leaving = [c \in Clients |-> "no"]
  /\ read = [c \in Clients |-> Unknown]
  /\ events = 0 /\ joins = 0
  /\ pump = "dead" /\ idle = 0 /\ behind = Unknown

-----------------------------------------------------------------------------
(* join_activity and note_join *)

JoinRoom(c) ==
  /\ joining[c] \in {"out", "in"} /\ joins < MaxJoins
  /\ joins' = joins + 1
  /\ room' = room \cup {c}
  /\ joining' = [joining EXCEPT ![c] = "joined"]
  /\ UNCHANGED <<state, leaving, read, events, thread>>

CheckKnown(c) ==
  /\ joining[c] = "joined"
  /\ joining' = [joining EXCEPT ![c] =
       IF watermark = Unknown THEN "reading" ELSE "starting"]
  /\ UNCHANGED <<room, state, leaving, read, events, joins, thread>>

\* max_event_ts; an error leaves None.
ReadNewest(c, failed) ==
  /\ joining[c] = "reading"
  /\ joining' = [joining EXCEPT ![c] = "setting"]
  /\ read' = [read EXCEPT ![c] = IF failed THEN None ELSE events]
  /\ UNCHANGED <<room, state, leaving, events, joins, thread>>

\* setdefault: another join may have been faster.
SetWatermark(c) ==
  /\ joining[c] = "setting"
  /\ joining' = [joining EXCEPT ![c] = "starting"]
  /\ watermark' = IF watermark = Unknown THEN read[c] ELSE watermark
  /\ read' = [read EXCEPT ![c] = Unknown]
  /\ UNCHANGED <<room, pending, leaving, events, joins, thread>>

\* A thread that has decided to end is still alive: it is taken as running.
EnsureStarted(c) ==
  /\ joining[c] = "starting"
  /\ joining' = [joining EXCEPT ![c] = "in"]
  /\ pump' = IF pump = "dead" THEN "waiting" ELSE pump
  /\ idle' = IF pump = "dead" THEN 0 ELSE idle
  /\ UNCHANGED <<room, state, leaving, read, events, joins, behind>>

-----------------------------------------------------------------------------
(* leave_activity, disconnect and note_leave *)

LeaveRoom(c) ==
  /\ c \in room /\ leaving[c] = "no"
  /\ room' = room \ {c}
  /\ leaving' = [leaving EXCEPT ![c] = "left"]
  /\ UNCHANGED <<state, joining, read, events, joins, thread>>

\* Mutant: the leave drops the room's state without a look at who is in it.
DropsAlways(c) == TRUE

\* The check of the participants holds the lock that the drop needs.
Drops(c) == room = {}

NoteLeave(c) ==
  /\ leaving[c] = "left"
  /\ leaving' = [leaving EXCEPT ![c] = "no"]
  /\ IF Drops(c) THEN watermark' = Unknown /\ pending' = 0
                 ELSE UNCHANGED state
  /\ UNCHANGED <<room, joining, read, events, joins, thread>>

-----------------------------------------------------------------------------
(* activity_loaded *)

\* A payload without a valid timestamp leaves the watermark alone.
Loaded(ts) == IF ts # None /\ ts > watermark THEN ts ELSE watermark

\* A client acknowledges what it loaded, also after it left the room: the room's
\* state then comes back without a client.
ActivityLoaded(ts) ==
  /\ ts <= events
  /\ pending' = 0
  /\ watermark' = Loaded(ts)
  /\ UNCHANGED <<room, joining, leaving, read, events, joins, thread>>

-----------------------------------------------------------------------------
(* The thread *)

\* tick: the rooms with state, then their participants, then the watermark.
Tick ==
  /\ pump = "waiting"
  /\ pump' = IF watermark # Unknown /\ room # {} THEN "ticking"
             ELSE IF idle + 1 >= 2 THEN "ending" ELSE "waiting"
  /\ idle' = IF watermark # Unknown /\ room # {} THEN 0 ELSE idle + 1
  /\ UNCHANGED <<room, state, joining, leaving, read, events, joins, behind>>

\* The room may have lost its state since: then everything is counted.
ReadWatermark ==
  /\ pump = "ticking"
  /\ pump' = "counting"
  /\ behind' = watermark
  /\ UNCHANGED <<room, state, joining, leaving, read, events, joins, idle>>

Newer(ts) == IF ts = Unknown THEN events ELSE events - ts

\* The count is stored, and emitted when positive.
Count ==
  /\ pump = "counting"
  /\ pump' = "waiting"
  /\ pending' = Newer(behind)
  /\ behind' = Unknown
  /\ UNCHANGED <<room, watermark, joining, leaving, read, events, joins, idle>>

CountFails ==
  /\ pump = "counting"
  /\ pump' = "waiting"
  /\ behind' = Unknown
  /\ UNCHANGED <<room, state, joining, leaving, read, events, joins, idle>>

ThreadEnds ==
  /\ pump = "ending"
  /\ pump' = "dead"
  /\ UNCHANGED <<room, state, joining, leaving, read, events, joins, idle, behind>>

Happens ==
  /\ events < MaxEvents
  /\ events' = events + 1
  /\ UNCHANGED <<room, state, joining, leaving, read, joins, thread>>

PumpNext ==
  \/ \E c \in Clients :
       \/ JoinRoom(c) \/ CheckKnown(c) \/ SetWatermark(c) \/ EnsureStarted(c)
       \/ \E failed \in BOOLEAN : ReadNewest(c, failed)
       \/ LeaveRoom(c) \/ NoteLeave(c)
  \/ \E ts \in 0..MaxEvents : ActivityLoaded(ts)
  \/ Tick \/ ReadWatermark \/ Count \/ CountFails \/ ThreadEnds
  \/ Happens

PumpSpec == PumpInit /\ [][PumpNext]_pumpVars

-----------------------------------------------------------------------------
(* Properties *)

PumpTypeOK ==
  /\ room \subseteq Clients
  /\ watermark \in Int /\ pending \in Nat
  /\ joining \in [Clients -> {"out", "joined", "reading", "setting", "starting", "in"}]
  /\ leaving \in [Clients -> {"no", "left"}]
  /\ read \in [Clients -> Int]
  /\ events \in Nat /\ joins \in Nat
  /\ pump \in {"dead", "waiting", "ticking", "counting", "ending"}
  /\ idle \in 0..2 /\ behind \in Int

\* live_pump.py:126: "a concurrent join cannot observe stale state between its
\* room join and note_join()": whoever is in the room when its join is over has
\* a room that the pump knows, whatever leaves and disconnects ran beside it.
MembersAreKnown ==
  \A c \in room : joining[c] \in {"starting", "in"} => watermark # Unknown

\* live_pump.py:3: the thread polls and pushes "whenever rows exist past the
\* room's watermark": a client whose join is over has a thread that polls.
WatchedRoomIsPolled ==
  \A c \in room : joining[c] = "in" => pump \in {"waiting", "ticking", "counting"}
=============================================================================
