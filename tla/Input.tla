-------------------------------- MODULE Input --------------------------------
(***************************************************************************)
(* How input reaches the sessions (main.c): select() in main_loop(), the   *)
(* scan over the descriptors, the buffer of each player with the lines     *)
(* that came in one packet, of which handle_packet() takes one per scan,   *)
(* the count inp_buf_c of buffered inputs that decides whether select()    *)
(* may sleep, and the timer signal, which can come at any moment.          *)
(*                                                                         *)
(* What a line makes the session do is reduced to what it does to the      *)
(* descriptors: nothing, entering the game, leaving, the removal of others *)
(* and the exchange of connections in kick_out_yn().  The order in which   *)
(* the quit list is worked off is that of Sessions; here it is a set.      *)
(***************************************************************************)
EXTENDS Integers, FiniteSets

CONSTANTS
  N,          \* max_players
  MaxLines,   \* bound: lines under way or buffered for one connection
  Blocking,   \* whether read() waits: connections need not inherit the O_NDELAY
              \* that s_socket.c:65 sets on the socket they are accepted from
  Breaking,   \* bound: the descriptors whose clients may break off
  MaxDrift    \* bound: how far inp_buf_c may be off when a user takes over his character

ASSUME SlotAssumption == N \in Nat \ {0}
ASSUME LineAssumption == MaxLines \in Nat \ {0}
ASSUME ReadAssumption == Blocking \in BOOLEAN
ASSUME BoundAssumption == Breaking \subseteq Nat /\ MaxDrift \in Nat

Slots == 0 .. N - 1
MainSocket == 0       \* main.c:155
Fds == 1 .. N         \* the kernel gives out the lowest free descriptor

VARIABLES
  open,        \* descriptors of accepted connections, as the kernel has them
  pending,     \* lines that have arrived on a descriptor and are unread
  hungUp,      \* descriptors whose client is gone
  backlog,     \* whether a connection waits to be accepted
  live,        \* players with a stream and input handlers
  playing,     \* players with iamon
  filDes,      \* players[i].fil_des
  buf,         \* lines in players[i].inp_buffer past inp_buf_p
  quitting,    \* the players on the quit list
  swapped,     \* history: players whose connection came to them by kick_out_yn()
  socketsFds,  \* sockets_fds
  bufferFds,   \* buffer_fds
  inpBufC,     \* inp_buf_c
  phase,       \* where main_loop() stands
  ready,       \* r_fds, what select() returned
  pos,         \* the descriptor that the scan has reached
  timer        \* "armed", or "set": sig_timer_happened

kernel == <<open, pending, hungUp, backlog>>
players == <<live, playing, filDes, buf, quitting, swapped>>
sets == <<socketsFds, bufferFds, inpBufC>>
loop == <<phase, ready, pos>>
vars == <<kernel, players, sets, loop, timer>>

\* "head": the test of sig_timer_happened; "drain": past it; "select": about to
\* call select(); "asleep": in it; "scan": in the loop over the descriptors;
\* "jumped": after longjmp(to_main_loop).
Phases == {"head", "drain", "select", "asleep", "scan", "jumped"}

TypeOK ==
  /\ open \subseteq Fds
  /\ pending \in [Fds -> 0 .. MaxLines]
  /\ hungUp \subseteq Fds
  /\ backlog \in BOOLEAN
  /\ live \subseteq Slots
  /\ playing \subseteq Slots
  /\ filDes \in [Slots -> Fds \cup {MainSocket}]
  /\ buf \in [Slots -> 0 .. MaxLines]
  /\ quitting \subseteq Slots
  /\ swapped \subseteq Slots
  /\ socketsFds \subseteq Fds \cup {MainSocket}
  /\ bufferFds \subseteq Fds
  /\ inpBufC \in Int
  /\ phase \in Phases
  /\ ready \subseteq Fds \cup {MainSocket}
  /\ pos \in 0 .. N + 1
  /\ timer \in {"armed", "set"}

Init ==
  /\ open = {}
  /\ pending = [f \in Fds |-> 0]
  /\ hungUp = {}
  /\ backlog = FALSE
  /\ live = {}
  /\ playing = {}
  /\ filDes = [i \in Slots |-> 0]
  /\ buf = [i \in Slots |-> 0]
  /\ quitting = {}
  /\ swapped = {}
  /\ socketsFds = {MainSocket}
  /\ bufferFds = {}
  /\ inpBufC = 0
  /\ phase = "head"
  /\ ready = {}
  /\ pos = 0
  /\ timer = "armed"

-----------------------------------------------------------------------------
(* The outside: clients, the network, the alarm *)

Connect ==
  /\ ~backlog
  /\ backlog' = TRUE
  /\ UNCHANGED <<open, pending, hungUp, players, sets, loop, timer>>

Send(f) ==
  /\ f \in open \ hungUp
  /\ pending[f] < MaxLines
  /\ pending' = [pending EXCEPT ![f] = @ + 1]
  /\ UNCHANGED <<open, hungUp, backlog, players, sets, loop, timer>>

HangUp(f) ==
  /\ f \in (open \cap Breaking) \ hungUp
  /\ hungUp' = hungUp \cup {f}
  /\ UNCHANGED <<open, pending, backlog, players, sets, loop, timer>>

\* SIGALRM, once for each set_timer(): select() comes back with EINTR, but only
\* if it has been called.
Alarm ==
  /\ timer = "armed"
  /\ timer' = "set"
  /\ phase' = IF phase = "asleep" THEN "head" ELSE phase
  /\ UNCHANGED <<kernel, players, sets, ready, pos>>

-----------------------------------------------------------------------------
(* The head of the main loop *)

\* on_timer() may end the game of anyone.
TimerBranch ==
  /\ phase = "head" /\ timer = "set"
  /\ timer' = "armed"
  /\ \E dead \in SUBSET playing :
       /\ playing' = playing \ dead
       /\ quitting' = quitting \cup dead
  /\ UNCHANGED <<kernel, live, filDes, buf, swapped, sets, loop>>

NoTimer ==
  /\ phase = "head" /\ timer /= "set"
  /\ phase' = "drain"
  /\ UNCHANGED <<kernel, players, sets, ready, pos, timer>>

\* end_connection(): the count follows the descriptor's mark in buffer_fds.  The
\* mutants leave the count or the mark.
UncountNot(f) == UNCHANGED inpBufC
Uncount(f) == inpBufC' = IF f \in bufferFds THEN inpBufC - 1 ELSE inpBufC
ForgetNot(f) == socketsFds' = socketsFds \ {f} /\ UNCHANGED bufferFds
Forget(f) ==
  /\ socketsFds' = socketsFds \ {f}
  /\ bufferFds' = bufferFds \ {f}

End(i) ==
  LET f == filDes[i] IN
  /\ quitting' = quitting \ {i}
  /\ live' = live \ {i}
  /\ swapped' = swapped \ {i}
  /\ buf' = [buf EXCEPT ![i] = 0]
  /\ Uncount(f)
  /\ Forget(f)
  /\ open' = open \ {f}
  /\ hungUp' = hungUp \ {f}
  /\ pending' = IF f \in Fds THEN [pending EXCEPT ![f] = 0] ELSE pending
  /\ UNCHANGED <<backlog, playing, filDes, ready, pos, timer>>

\* The quit list is worked off before select() and after each descriptor; after
\* a longjmp() only its head is, and then the timer is looked at.
EndConnection(i) ==
  /\ i \in quitting
  /\ \/ phase \in {"drain", "scan"} /\ UNCHANGED phase
     \/ phase = "jumped" /\ phase' = "head"
  /\ End(i)

Drained ==
  /\ phase = "drain" /\ quitting = {}
  /\ phase' = "select"
  /\ UNCHANGED <<kernel, players, sets, ready, pos, timer>>

Readable ==
  {f \in socketsFds : \/ f = MainSocket /\ backlog
                      \/ f \in hungUp
                      \/ f \in Fds /\ pending[f] > 0}

\* select() with tv = NULL has to wait; with zerotime it never does.
Sleep ==
  /\ phase = "select"
  /\ Readable = {} /\ ~(inpBufC > 0)
  /\ phase' = "asleep"
  /\ UNCHANGED <<kernel, players, sets, ready, pos, timer>>

Selected ==
  /\ phase \in {"select", "asleep"}
  /\ Readable /= {} \/ inpBufC > 0
  /\ phase' = "scan" /\ ready' = Readable /\ pos' = 0
  /\ UNCHANGED <<kernel, players, sets, timer>>

-----------------------------------------------------------------------------
(* The scan *)

\* A mutant that goes by what select() returned alone.
MarkedReady == {f \in ready : f >= pos}
Marked == {f \in ready \cup bufferFds : f >= pos}
Next1 == CHOOSE f \in Marked : \A g \in Marked : f <= g
Scanning(f) == phase = "scan" /\ quitting = {} /\ Marked /= {} /\ f = Next1
Step(f) == pos' = f + 1 /\ UNCHANGED <<phase, ready, timer>>

ScanEnd ==
  /\ phase = "scan" /\ quitting = {} /\ Marked = {}
  /\ phase' = "head" /\ ready' = {} /\ pos' = 0
  /\ UNCHANGED <<kernel, players, sets, timer>>

\* find_free_player_slot(), and a mutant that takes any free slot.
FreeSlotAny(i) == i \in Slots \ live
FreeSlot(i) == i \in Slots \ live /\ \A j \in Slots \ live : i <= j

\* new_connection(); a full game closes the connection at once.
NewConnection ==
  /\ Scanning(MainSocket)
  /\ backlog' = FALSE
  /\ IF live = Slots
     THEN UNCHANGED <<open, live, playing, filDes, socketsFds>>
     ELSE \E i \in Slots, f \in Fds \ open :
            /\ FreeSlot(i)
            /\ \A g \in Fds \ open : f <= g
            /\ open' = open \cup {f}
            /\ live' = live \cup {i}
            /\ playing' = playing \ {i}
            /\ filDes' = [filDes EXCEPT ![i] = f]
            /\ socketsFds' = socketsFds \cup {f}
  /\ Step(MainSocket)
  /\ UNCHANGED <<pending, hungUp, buf, quitting, swapped, bufferFds, inpBufC>>

\* find_pl_index(): the first slot with this fil_des, free or not.
Holders(f) == {i \in Slots : filDes[i] = f}
IsPlIndex(i, f) == i \in Holders(f) /\ \A j \in Holders(f) : i <= j

\* handle_packet(f) for player i, up to the call of his input handler: what is
\* left in his buffer is used up before anything is read.  A mutant does
\* not count what it reads.
Gets(i, f) ==
  /\ Scanning(f) /\ f /= MainSocket
  /\ IsPlIndex(i, f) /\ i \in live
HasLine(i, f) == buf[i] > 0 \/ pending[f] > 0
Lines(i, f) == IF buf[i] > 0 THEN buf[i] ELSE pending[f]

CountNot(i, f) == inpBufC - (IF Lines(i, f) = 1 /\ buf[i] > 0 THEN 1 ELSE 0)
Count(i, f) == inpBufC + (IF buf[i] = 0 THEN 1 ELSE 0)
                       - (IF Lines(i, f) = 1 THEN 1 ELSE 0)

Takes(i, f) ==
  /\ Gets(i, f)
  /\ HasLine(i, f)
  /\ buf' = [buf EXCEPT ![i] = Lines(i, f) - 1]
  /\ pending' = IF buf[i] > 0 THEN pending ELSE [pending EXCEPT ![f] = 0]
  /\ inpBufC' = Count(i, f)
  /\ bufferFds' = IF Lines(i, f) = 1 THEN bufferFds \ {f}
                  ELSE IF buf[i] = 0 THEN bufferFds \cup {f} ELSE bufferFds
  /\ UNCHANGED <<open, hungUp, backlog, live, socketsFds>>

Plain(i, f) ==
  /\ Takes(i, f)
  /\ Step(f)
  /\ UNCHANGED <<playing, filDes, quitting, swapped>>

Enter(i, f) ==
  /\ Takes(i, f)
  /\ i \notin playing
  /\ playing' = playing \cup {i}
  /\ Step(f)
  /\ UNCHANGED <<filDes, quitting, swapped>>

\* An answer at a login prompt that ends the session.
GiveUp(i, f) ==
  /\ Takes(i, f)
  /\ i \notin playing
  /\ quitting' = quitting \cup {i}
  /\ Step(f)
  /\ UNCHANGED <<playing, filDes, swapped>>

\* QUIT, or a death of one's own: the rest of the scan is dropped.
Leave(i, f) ==
  /\ Takes(i, f)
  /\ i \in playing
  /\ playing' = playing \ {i}
  /\ quitting' = quitting \cup {i}
  /\ phase' = "jumped" /\ ready' = {} /\ pos' = 0
  /\ UNCHANGED <<filDes, swapped, timer>>

Remove(i, f, j) ==
  /\ Takes(i, f)
  /\ i \in playing /\ j \in playing
  /\ playing' = playing \ {j}
  /\ quitting' = quitting \cup {j}
  /\ Step(f)
  /\ UNCHANGED <<filDes, swapped>>

\* kick_out_yn(): the two slots exchange fil_des and stream, and nothing else of
\* their input.  The mutant only hands the new connection over.
ExchangeHalf(i, p) == [filDes EXCEPT ![p] = filDes[i]]
Exchange(i, p) == [filDes EXCEPT ![i] = filDes[p], ![p] = filDes[i]]

\* By how much inp_buf_c is more than the players with lines in their buffers.
Waiting == {i \in Slots : buf[i] > 0}
Surplus == inpBufC - Cardinality(Waiting)

KickOut(i, f, p) ==
  /\ Surplus \in -MaxDrift .. MaxDrift
  /\ Takes(i, f)
  /\ i \notin playing /\ p \in playing
  /\ filDes' = Exchange(i, p)
  /\ swapped' = swapped \cup {i, p}
  /\ quitting' = quitting \cup {i}
  /\ Step(f)
  /\ UNCHANGED playing

\* The end of the file; a mutant that ends the character and not the session.
EofNoQuit(i, f) ==
  /\ Gets(i, f)
  /\ ~HasLine(i, f) /\ f \in hungUp
  /\ playing' = playing \ {i}
  /\ Step(f)
  /\ UNCHANGED <<kernel, live, filDes, buf, quitting, swapped, sets>>

Eof(i, f) ==
  /\ Gets(i, f)
  /\ ~HasLine(i, f) /\ f \in hungUp
  /\ playing' = playing \ {i}
  /\ quitting' = quitting \cup {i}
  /\ Step(f)
  /\ UNCHANGED <<kernel, live, filDes, buf, swapped, sets>>

\* Nothing to read for a player, although the descriptor is marked.
Idle(i, f) == Gets(i, f) /\ ~HasLine(i, f) /\ f \notin hungUp

\* read() waits for the client, and everybody with it.
Waits(f) == Blocking /\ \E i \in live : Idle(i, f)

\* Nobody to read for, or a read() that fails because there is nothing.
Nothing(f) ==
  /\ Scanning(f) /\ f /= MainSocket
  /\ \A i \in live : Gets(i, f) => Idle(i, f)
  /\ ~Waits(f)
  /\ Step(f)
  /\ UNCHANGED <<kernel, players, sets>>

\* Where the system does not restart read(), the alarm ends it (EINTR).
Interrupted(f) ==
  /\ Waits(f)
  /\ timer = "set"
  /\ Step(f)
  /\ UNCHANGED <<kernel, players, sets>>

-----------------------------------------------------------------------------
Handle(i, f) ==
  \/ Plain(i, f) \/ Enter(i, f) \/ GiveUp(i, f) \/ Leave(i, f) \/ Eof(i, f)
  \/ \E j \in Slots : Remove(i, f, j) \/ KickOut(i, f, j)

Scan ==
  \/ ScanEnd \/ NewConnection
  \/ \E f \in Fds : Nothing(f) \/ \E i \in Slots : Handle(i, f)

Head == NoTimer \/ Drained \/ Sleep \/ Selected \/ \E i \in Slots : EndConnection(i)

Outside == Connect \/ Alarm \/ \E f \in Fds : Send(f) \/ HangUp(f) \/ Interrupted(f)

Next == Outside \/ TimerBranch \/ Head \/ Scan

Spec == Init /\ [][Next]_vars

\* The process runs on; set_timer() leaves it two seconds, so that the timer
\* branch cannot take every turn.
Fairness == WF_vars(Head \/ Scan) /\ WF_vars(TimerBranch) /\ SF_vars(NoTimer)

FairSpec == Spec /\ Fairness

-----------------------------------------------------------------------------
(* What main_loop() promises *)

\* Every descriptor that the kernel holds for the game is listened to and is
\* that of exactly one connection: no reply goes to two users, no connection is
\* left open when its player has gone (main.c:626, mud.c:395).
DescriptorsOwned ==
  /\ socketsFds = open \cup {MainSocket}
  /\ \A f \in open : \E i \in live : filDes[i] = f
  /\ \A i, j \in live : filDes[i] = filDes[j] => i = j
  /\ \A i \in live : filDes[i] \in open

\* A descriptor is marked in buffer_fds when lines of its player are waiting, whoever
\* else exchanges connections: no line is forgotten, and no read() is tried for want of
\* a line (main.c:763, 849).
BufferedMarked ==
  \A i \in Slots \ swapped : buf[i] > 0 <=> i \in live /\ filDes[i] \in bufferFds

\* What arrives on a connection is given to the player who has it and not to a free slot
\* that has kept the number (mud.c:103), unless he came by it through kick_out_yn().
Listening == \A i \in live \ swapped : IsPlIndex(i, filDes[i])

\* inp_buf_c follows the players with lines in their buffers; only the end of one who
\* had exchanged his connection throws it off, by one (main.c:623, mud.c:395).
CountKept ==
  [][Surplus' /= Surplus => /\ Surplus' - Surplus \in -1 .. 1
                            /\ \E i \in swapped : i \notin live']_vars

Found(f) == \E i \in live : IsPlIndex(i, f)
HasLines(f) == \E i \in live : filDes[i] = f /\ buf[i] > 0

\* Again and again a connection has nothing left to be done: what came in one packet is
\* handled line by line, without anything else having to come in, unless an exchange of
\* connections has left the descriptor unmarked or the count too low; and a break is
\* noticed, after the lines that came before it (main.c:547, 738).  Neither is promised
\* to one for which find_pl_index() finds a free slot, or while read() waits for
\* another client.
InputServed ==
  \A f \in Fds :
    []<>(\/ f \notin hungUp /\ (~HasLines(f) \/ f \notin bufferFds \/ Surplus < 0)
         \/ ~Found(f) \/ \E g \in Fds : Waits(g))

-----------------------------------------------------------------------------
(* What the code says of itself, and exchanges of connections break *)

\* "Hopefully the fix for the processor eating bug" (main.c:623): select() is told not
\* to wait only when there is input in a buffer.
SelectSleeps == phase = "select" /\ inpBufC > 0 => bufferFds /= {}
==============================================================================
