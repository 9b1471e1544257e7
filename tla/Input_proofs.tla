----------------------------- MODULE Input_proofs -----------------------------
(***************************************************************************)
(* Theorems about Input, for every number of players and of lines.         *)
(*                                                                         *)
(* Conn is what holds of the connections however users take over their     *)
(* characters; Lined is what then holds of the buffers of those who have   *)
(* not exchanged theirs.                                                   *)
(***************************************************************************)
EXTENDS Input, FiniteSetTheorems, TLAPS

-----------------------------------------------------------------------------
(* The inductive invariant.                                                *)

Seats == playing \subseteq live /\ quitting \subseteq live /\ quitting \cap playing = {}

\* The connections: who is in the game or leaves has one, and only the inputs of
\* open ones are buffered.
Conn == Seats /\ DescriptorsOwned /\ bufferFds \subseteq open

\* find_pl_index() comes by the player of a descriptor before it comes by a free slot
\* that has kept the number.
FoundFirst ==
  \A i \in live \ swapped : \A j \in Slots \ live : filDes[j] = filDes[i] => i < j

Lined == BufferedMarked /\ FoundFirst /\ swapped \subseteq live

LEMMA Numbers == /\ N \in Nat \ {0} /\ MaxLines \in Nat \ {0}
                 /\ Slots \in SUBSET Nat /\ Fds \in SUBSET Nat /\ 0 \notin Fds
BY SlotAssumption, LineAssumption DEF Slots, Fds

LEMMA WaitingFinite ==
  /\ IsFiniteSet(Waiting) /\ Cardinality(Waiting) \in Nat
<1>1. IsFiniteSet(Slots)
  BY Numbers, FS_Interval DEF Slots
<1>2. IsFiniteSet(Waiting)
  BY <1>1, FS_Subset DEF Waiting
<1> QED
  BY <1>2, FS_CardinalityType

-----------------------------------------------------------------------------
(* Types.                                                                  *)

\* A line that is taken leaves at most as many as there were.
LEMMA TakesType ==
  ASSUME TypeOK, NEW i \in Slots, NEW f \in Fds, Takes(i, f)
  PROVE  /\ i \in live /\ filDes[i] = f /\ quitting = {} /\ f = Next1 /\ phase = "scan"
         /\ Lines(i, f) \in 1 .. MaxLines
         /\ buf' = [buf EXCEPT ![i] = Lines(i, f) - 1]
         /\ buf' \in [Slots -> 0 .. MaxLines] /\ pending' \in [Fds -> 0 .. MaxLines]
         /\ inpBufC' \in Int /\ bufferFds' \in SUBSET Fds
         /\ UNCHANGED <<open, hungUp, backlog, live, socketsFds>>
<1>1. /\ i \in live /\ filDes[i] = f /\ quitting = {} /\ f = Next1 /\ phase = "scan"
      /\ HasLine(i, f) /\ buf' = [buf EXCEPT ![i] = Lines(i, f) - 1]
      /\ UNCHANGED <<open, hungUp, backlog, live, socketsFds>>
  BY DEF Takes, Gets, IsPlIndex, Holders, Scanning
<1>2. buf[i] \in 0 .. MaxLines /\ pending[f] \in 0 .. MaxLines
  BY DEF TypeOK
<1>3. Lines(i, f) \in 1 .. MaxLines
  BY <1>1, <1>2, Numbers DEF HasLine, Lines
<1>4. Lines(i, f) - 1 \in 0 .. MaxLines /\ 0 \in 0 .. MaxLines
  BY <1>3, Numbers
<1>5. buf' \in [Slots -> 0 .. MaxLines]
  BY <1>1, <1>4 DEF TypeOK
<1>6. pending' \in [Fds -> 0 .. MaxLines]
  BY <1>4 DEF Takes, TypeOK
<1>7. inpBufC' \in Int
  BY DEF Takes, Count, TypeOK
<1>8. bufferFds' \in SUBSET Fds
  BY DEF Takes, TypeOK
<1> QED
  BY <1>1, <1>3, <1>5, <1>6, <1>7, <1>8

LEMMA HandleType ==
  ASSUME TypeOK, NEW i \in Slots, NEW f \in Fds, Handle(i, f)
  PROVE  TypeOK'
<1>1. f + 1 \in 0 .. N + 1
  BY Numbers DEF Fds
<1>2. ASSUME Takes(i, f), playing' \subseteq Slots, quitting' \subseteq Slots,
             UNCHANGED <<filDes, swapped>>,
             Step(f) \/ (phase' = "jumped" /\ ready' = {} /\ pos' = 0 /\ UNCHANGED timer)
      PROVE  TypeOK'
  <2>1. /\ phase' \in Phases /\ ready' \subseteq Fds \cup {MainSocket} /\ pos' \in 0 .. N + 1
        /\ timer' \in {"armed", "set"}
    <3>1. CASE Step(f)
      BY <1>1, <3>1 DEF TypeOK, Step
    <3>2. CASE phase' = "jumped" /\ ready' = {} /\ pos' = 0 /\ UNCHANGED timer
      <4>1. 0 \in 0 .. N + 1
        BY Numbers
      <4> QED
        BY <3>2, <4>1 DEF TypeOK, Phases
    <3> QED
      BY <1>2, <3>1, <3>2
  <2> QED
    BY <1>2, <2>1, TakesType DEF TypeOK
<1>3. CASE Plain(i, f) \/ Enter(i, f) \/ GiveUp(i, f) \/ Leave(i, f)
  <2>1. playing' \subseteq Slots /\ quitting' \subseteq Slots
    BY <1>3 DEF TypeOK, Plain, Enter, GiveUp, Leave
  <2> QED
    BY <1>2, <1>3, <2>1 DEF Plain, Enter, GiveUp, Leave
<1>4. CASE Eof(i, f)
  BY <1>1, <1>4 DEF Eof, Step, TypeOK, kernel, sets
<1>5. CASE \E j \in Slots : Remove(i, f, j)
  <2>1. playing' \subseteq Slots /\ quitting' \subseteq Slots
    BY <1>5 DEF TypeOK, Remove
  <2> QED
    BY <1>2, <1>5, <2>1 DEF Remove
<1>6. ASSUME NEW p \in Slots, KickOut(i, f, p)
      PROVE  TypeOK'
  <2>1. /\ Takes(i, f) /\ filDes' = Exchange(i, p) /\ quitting' = quitting \cup {i}
        /\ swapped' = swapped \cup {i, p} /\ Step(f) /\ UNCHANGED playing
    BY <1>6 DEF KickOut
  <2>2. filDes' \in [Slots -> Fds \cup {MainSocket}]
    BY <2>1 DEF Exchange, TypeOK
  <2> QED
    BY <1>1, <2>1, <2>2, TakesType DEF TypeOK, Step
<1> QED
  BY <1>3, <1>4, <1>5, <1>6 DEF Handle

LEMMA NewConnectionType ==
  ASSUME TypeOK, NewConnection
  PROVE  TypeOK'
<1>1. pos' = MainSocket + 1 /\ UNCHANGED <<phase, ready, timer>>
  BY DEF NewConnection, Step
<1>2. pos' \in 0 .. N + 1
  BY <1>1, Numbers DEF MainSocket
<1>3. backlog' \in BOOLEAN /\ UNCHANGED <<pending, hungUp, buf, quitting, swapped, bufferFds, inpBufC>>
  BY DEF NewConnection
<1>4. /\ open' \subseteq Fds /\ live' \subseteq Slots /\ playing' \subseteq Slots
      /\ filDes' \in [Slots -> Fds \cup {MainSocket}]
      /\ socketsFds' \subseteq Fds \cup {MainSocket}
  <2>1. CASE live = Slots
    BY <2>1 DEF NewConnection, TypeOK
  <2>2. CASE live # Slots
    <3>1. PICK i \in Slots, f \in Fds \ open :
            /\ open' = open \cup {f} /\ live' = live \cup {i} /\ playing' = playing \ {i}
            /\ filDes' = [filDes EXCEPT ![i] = f] /\ socketsFds' = socketsFds \cup {f}
      BY <2>2 DEF NewConnection
    <3> QED
      BY <3>1 DEF TypeOK
  <2> QED
    BY <2>1, <2>2
<1> QED
  BY <1>1, <1>2, <1>3, <1>4 DEF TypeOK

LEMMA EndConnectionType ==
  ASSUME TypeOK, NEW i \in Slots, EndConnection(i)
  PROVE  TypeOK'
<1>1. End(i) /\ phase' \in Phases
  BY DEF EndConnection, TypeOK, Phases
<1>2. 0 \in 0 .. MaxLines
  BY Numbers
<1>3. pending' \in [Fds -> 0 .. MaxLines] /\ buf' \in [Slots -> 0 .. MaxLines]
  BY <1>1, <1>2 DEF End, TypeOK
<1>4. inpBufC' \in Int
  BY <1>1 DEF End, Uncount, TypeOK
<1>5. /\ socketsFds' \subseteq Fds \cup {MainSocket} /\ bufferFds' \subseteq Fds
      /\ open' \subseteq Fds /\ hungUp' \subseteq Fds
      /\ quitting' \subseteq Slots /\ live' \subseteq Slots /\ swapped' \subseteq Slots
  BY <1>1 DEF End, Forget, TypeOK
<1> QED
  BY <1>1, <1>3, <1>4, <1>5 DEF End, TypeOK

\* The steps that touch neither the slots' connections nor their buffers.
LEMMA OtherType ==
  ASSUME TypeOK,
         \/ Outside \/ TimerBranch \/ NoTimer \/ Drained \/ Sleep \/ Selected \/ ScanEnd
         \/ \E f \in Fds : Nothing(f)
  PROVE  TypeOK'
<1> USE DEF kernel, players, sets, loop
<1>1. CASE Connect
  BY <1>1 DEF Connect, TypeOK
<1>2. ASSUME NEW f \in Fds, Send(f)
      PROVE  TypeOK'
  <2>1. pending[f] + 1 \in 0 .. MaxLines
    BY <1>2, Numbers DEF Send, TypeOK
  <2> QED
    BY <1>2, <2>1 DEF Send, TypeOK
<1>3. ASSUME NEW f \in Fds, HangUp(f)
      PROVE  TypeOK'
  BY <1>3 DEF HangUp, TypeOK
<1>4. CASE Alarm
  BY <1>4 DEF Alarm, TypeOK, Phases
<1>9. ASSUME NEW f \in Fds, Interrupted(f)
      PROVE  TypeOK'
  <2>1. f + 1 \in 0 .. N + 1
    BY Numbers DEF Fds
  <2> QED
    BY <1>9, <2>1 DEF Interrupted, Step, TypeOK
<1>5. CASE TimerBranch
  BY <1>5 DEF TimerBranch, TypeOK
<1>6. CASE NoTimer \/ Drained \/ Sleep
  BY <1>6 DEF NoTimer, Drained, Sleep, TypeOK, Phases
<1>7. CASE Selected \/ ScanEnd
  <2>1. Readable \subseteq Fds \cup {MainSocket} /\ 0 \in 0 .. N + 1
    <3>1. Readable \subseteq socketsFds
      BY Zenon DEF Readable
    <3>2. 0 \in 0 .. N + 1
      BY Numbers
    <3> QED
      BY <3>1, <3>2 DEF TypeOK
  <2>2. CASE Selected
    <3>1. ready' = Readable /\ pos' = 0 /\ phase' = "scan"
      BY <2>2 DEF Selected
    <3>2. ready' \subseteq Fds \cup {MainSocket} /\ pos' \in 0 .. N + 1 /\ phase' \in Phases
      BY <2>1, <3>1 DEF Phases
    <3> QED
      BY <2>2, <3>2 DEF Selected, TypeOK
  <2>3. CASE ScanEnd
    <3>1. ready' = {} /\ pos' = 0 /\ phase' = "head"
      BY <2>3 DEF ScanEnd
    <3>2. ready' \subseteq Fds \cup {MainSocket} /\ pos' \in 0 .. N + 1 /\ phase' \in Phases
      BY <2>1, <3>1 DEF Phases
    <3> QED
      BY <2>3, <3>2 DEF ScanEnd, TypeOK
  <2> QED
    BY <1>7, <2>2, <2>3
<1>8. ASSUME NEW f \in Fds, Nothing(f)
      PROVE  TypeOK'
  <2>1. f + 1 \in 0 .. N + 1
    BY Numbers DEF Fds
  <2> QED
    BY <1>8, <2>1 DEF Nothing, Step, TypeOK
<1> QED
  BY <1>1, <1>2, <1>3, <1>4, <1>5, <1>6, <1>7, <1>8, <1>9 DEF Outside

LEMMA InitType == Init => TypeOK
<1> SUFFICES ASSUME Init PROVE TypeOK
  OBVIOUS
<1>1. 0 \in 0 .. MaxLines /\ 0 \in 0 .. N + 1 /\ MainSocket = 0
  BY Numbers DEF MainSocket
<1>2. pending \in [Fds -> 0 .. MaxLines] /\ buf \in [Slots -> 0 .. MaxLines]
      /\ filDes \in [Slots -> Fds \cup {MainSocket}]
  BY <1>1 DEF Init
<1>3. inpBufC \in Int /\ phase \in Phases /\ pos \in 0 .. N + 1 /\ timer \in {"armed", "set"}
  BY <1>1 DEF Init, Phases
<1>4. open \subseteq Fds /\ hungUp \subseteq Fds /\ bufferFds \subseteq Fds
  BY DEF Init
<1>5. live \subseteq Slots /\ playing \subseteq Slots /\ quitting \subseteq Slots
      /\ swapped \subseteq Slots
  BY DEF Init
<1>6. socketsFds \subseteq Fds \cup {MainSocket} /\ ready \subseteq Fds \cup {MainSocket}
  BY DEF Init
<1>7. backlog \in BOOLEAN
  BY Zenon DEF Init
<1> QED
  BY <1>2, <1>3, <1>4, <1>5, <1>6, <1>7 DEF TypeOK

LEMMA StepType == TypeOK /\ [Next]_vars => TypeOK'
<1> SUFFICES ASSUME TypeOK, [Next]_vars PROVE TypeOK'
  OBVIOUS
<1>1. CASE Outside \/ TimerBranch
  BY <1>1, OtherType
<1>2. CASE Head
  BY <1>2, OtherType, EndConnectionType DEF Head
<1>3. CASE Scan
  BY <1>3, OtherType, NewConnectionType, HandleType DEF Scan
<1>4. CASE UNCHANGED vars
  BY <1>4 DEF vars, kernel, players, sets, loop, TypeOK
<1> QED
  BY <1>1, <1>2, <1>3, <1>4 DEF Next

\* Every variable keeps its type; no scan goes past the last descriptor (main.c).
THEOREM TypeCorrect == Spec => []TypeOK
<1> QED
  BY InitType, StepType, PTL DEF Spec

-----------------------------------------------------------------------------
(* The connections.                                                        *)

LEMMA InitConn == Init => Conn
<1> SUFFICES ASSUME Init PROVE Conn
  OBVIOUS
<1>1. Seats /\ bufferFds \subseteq open
  BY DEF Init, Seats
<1>2. DescriptorsOwned
  BY DEF Init, DescriptorsOwned
<1> QED
  BY <1>1, <1>2 DEF Conn

\* Steps that only seat the players otherwise.
LEMMA SeatsConn ==
  ASSUME Conn, Seats', UNCHANGED <<open, live, filDes, socketsFds>>, bufferFds' \subseteq open
  PROVE  Conn'
BY DEF Conn, DescriptorsOwned

LEMMA OwnFd ==
  ASSUME TypeOK, Conn, NEW i \in live
  PROVE  i \in Slots /\ filDes[i] \in open /\ filDes[i] \in Fds
BY DEF TypeOK, Conn, DescriptorsOwned

\* What is buffered is the input of an open connection.
LEMMA TakesBuffers ==
  ASSUME TypeOK, Conn, NEW i \in Slots, NEW f \in Fds, Takes(i, f)
  PROVE  f \in open /\ bufferFds' \subseteq open
<1>1. f \in open
  BY TakesType, OwnFd
<1> QED
  BY <1>1 DEF Takes, Conn

LEMMA TakesConn ==
  ASSUME TypeOK, Conn, NEW i \in Slots, NEW f \in Fds,
         \/ Plain(i, f) \/ Enter(i, f) \/ GiveUp(i, f) \/ Leave(i, f)
         \/ \E j \in Slots : Remove(i, f, j)
  PROVE  Conn'
<1>1. Takes(i, f) /\ UNCHANGED filDes
  BY DEF Plain, Enter, GiveUp, Leave, Remove
<1>2. i \in live /\ quitting = {} /\ UNCHANGED <<open, live, socketsFds>>
  BY <1>1, TakesType
<1>3. Seats'
  BY <1>2 DEF Conn, Seats, Plain, Enter, GiveUp, Leave, Remove
<1> QED
  BY <1>1, <1>2, <1>3, TakesBuffers, SeatsConn

\* The slots exchange their descriptors: each is still that of one player.
LEMMA Exchanged ==
  ASSUME TypeOK, NEW i \in Slots, NEW p \in Slots, i # p
  PROVE  /\ Exchange(i, p)[i] = filDes[p] /\ Exchange(i, p)[p] = filDes[i]
         /\ \A s \in Slots \ {i, p} : Exchange(i, p)[s] = filDes[s]
BY DEF Exchange, TypeOK

LEMMA KickOutConn ==
  ASSUME TypeOK, Conn, NEW i \in Slots, NEW f \in Fds, NEW p \in Slots, KickOut(i, f, p)
  PROVE  Conn'
<1>1. /\ Takes(i, f) /\ i \notin playing /\ p \in playing /\ filDes' = Exchange(i, p)
      /\ quitting' = quitting \cup {i} /\ UNCHANGED playing
  BY DEF KickOut
<1>2. i \in live /\ quitting = {} /\ UNCHANGED <<open, live, socketsFds>>
  BY <1>1, TakesType
<1>3. i # p /\ p \in live /\ live \subseteq Slots
  BY <1>1 DEF Conn, Seats, TypeOK
<1>4. Seats'
  BY <1>1, <1>2 DEF Conn, Seats
<1>5. /\ filDes'[i] = filDes[p] /\ filDes'[p] = filDes[i]
      /\ \A s \in live \ {i, p} : filDes'[s] = filDes[s]
  BY <1>1, <1>3, Exchanged
<1>6. \A s, t \in live : filDes[s] = filDes[t] => s = t
  BY DEF Conn, DescriptorsOwned
<1>7. \A s \in live : filDes'[s] \in open
  BY <1>2, <1>3, <1>5 DEF Conn, DescriptorsOwned
<1>8. \A g \in open : \E s \in live : filDes'[s] = g
  <2> SUFFICES ASSUME NEW g \in open PROVE \E s \in live : filDes'[s] = g
    OBVIOUS
  <2>1. PICK s \in live : filDes[s] = g
    BY DEF Conn, DescriptorsOwned
  <2> QED
    BY <1>2, <1>3, <1>5, <2>1
<1>9. \A s, t \in live : filDes'[s] = filDes'[t] => s = t
  BY <1>2, <1>3, <1>5, <1>6
<1>10. DescriptorsOwned'
  BY <1>2, <1>7, <1>8, <1>9 DEF Conn, DescriptorsOwned
<1> QED
  BY <1>1, <1>2, <1>4, <1>10, TakesBuffers DEF Conn

\* What new_connection() does with a slot and a descriptor.
LEMMA Accepted ==
  ASSUME TypeOK, NewConnection, live # Slots
  PROVE  \E i \in Slots \ live, f \in Fds \ open :
           /\ \A j \in Slots \ live : i <= j
           /\ open' = open \cup {f} /\ live' = live \cup {i} /\ playing' = playing \ {i}
           /\ filDes' = [filDes EXCEPT ![i] = f] /\ socketsFds' = socketsFds \cup {f}
           /\ filDes'[i] = f /\ \A s \in Slots \ {i} : filDes'[s] = filDes[s]
<1>1. PICK i \in Slots, f \in Fds \ open :
        /\ FreeSlot(i)
        /\ open' = open \cup {f} /\ live' = live \cup {i} /\ playing' = playing \ {i}
        /\ filDes' = [filDes EXCEPT ![i] = f] /\ socketsFds' = socketsFds \cup {f}
  BY DEF NewConnection
<1>2. i \in Slots \ live /\ \A j \in Slots \ live : i <= j
  BY <1>1 DEF FreeSlot
<1>3. filDes'[i] = f /\ \A s \in Slots \ {i} : filDes'[s] = filDes[s]
  BY <1>1 DEF TypeOK
<1> QED
  BY <1>1, <1>2, <1>3

LEMMA NewConnectionConn ==
  ASSUME TypeOK, Conn, NewConnection
  PROVE  Conn'
<1>1. quitting = {} /\ UNCHANGED <<quitting, bufferFds>>
  BY DEF NewConnection, Scanning
<1>2. CASE live = Slots
  <2>1. UNCHANGED <<open, live, playing, filDes, socketsFds>>
    BY <1>2 DEF NewConnection
  <2> QED
    BY <1>1, <2>1, SeatsConn DEF Conn, Seats
<1>3. CASE live # Slots
  <2>1. PICK i \in Slots \ live, f \in Fds \ open :
           /\ open' = open \cup {f} /\ live' = live \cup {i} /\ playing' = playing \ {i}
           /\ socketsFds' = socketsFds \cup {f}
           /\ filDes'[i] = f /\ \A s \in Slots \ {i} : filDes'[s] = filDes[s]
    BY <1>3, Accepted
  <2>2. Seats' /\ bufferFds' \subseteq open'
    BY <1>1, <2>1 DEF Conn, Seats
  <2>3. \A s \in live : s \in Slots \ {i} /\ filDes'[s] = filDes[s] /\ filDes[s] \in open
    BY <2>1, OwnFd
  <2>4. socketsFds' = open' \cup {MainSocket}
    BY <2>1 DEF Conn, DescriptorsOwned
  <2>5. \A g \in open' : \E s \in live' : filDes'[s] = g
    <3> SUFFICES ASSUME NEW g \in open' PROVE \E s \in live' : filDes'[s] = g
      OBVIOUS
    <3>1. CASE g = f
      BY <2>1, <3>1
    <3>2. CASE g \in open
      <4>1. PICK s \in live : filDes[s] = g
        BY <3>2 DEF Conn, DescriptorsOwned
      <4> QED
        BY <2>1, <2>3, <4>1
    <3> QED
      BY <2>1, <3>1, <3>2
  <2>6. \A s, t \in live : filDes[s] = filDes[t] => s = t
    BY DEF Conn, DescriptorsOwned
  <2>7. \A s, t \in live' : filDes'[s] = filDes'[t] => s = t
    BY <2>1, <2>3, <2>6
  <2>8. \A s \in live' : filDes'[s] \in open'
    BY <2>1, <2>3
  <2>9. DescriptorsOwned'
    BY <2>4, <2>5, <2>7, <2>8 DEF DescriptorsOwned
  <2> QED
    BY <2>2, <2>9 DEF Conn
<1> QED
  BY <1>2, <1>3

LEMMA EndConnectionConn ==
  ASSUME TypeOK, Conn, NEW i \in Slots, EndConnection(i)
  PROVE  Conn'
<1> DEFINE f == filDes[i]
<1>1. /\ i \in quitting /\ quitting' = quitting \ {i} /\ live' = live \ {i}
      /\ socketsFds' = socketsFds \ {f} /\ bufferFds' = bufferFds \ {f}
      /\ open' = open \ {f} /\ UNCHANGED <<playing, filDes>>
  BY DEF EndConnection, End, Forget
<1>2. i \in live /\ i \notin playing
  BY <1>1 DEF Conn, Seats
<1>3. f \in Fds /\ f # MainSocket
  BY <1>2, OwnFd, Numbers DEF MainSocket
<1>4. Seats' /\ bufferFds' \subseteq open'
  BY <1>1, <1>2 DEF Conn, Seats
<1>5. socketsFds' = open' \cup {MainSocket}
  BY <1>1, <1>3 DEF Conn, DescriptorsOwned
<1>6. \A s \in live' : filDes'[s] \in open'
  BY <1>1, <1>2 DEF Conn, DescriptorsOwned
<1>7. \A g \in open' : \E s \in live' : filDes'[s] = g
  BY <1>1, <1>2 DEF Conn, DescriptorsOwned
<1>8. \A s, t \in live' : filDes'[s] = filDes'[t] => s = t
  BY <1>1 DEF Conn, DescriptorsOwned
<1>9. DescriptorsOwned'
  BY <1>5, <1>6, <1>7, <1>8 DEF DescriptorsOwned
<1> QED
  BY <1>4, <1>9 DEF Conn

\* What the other steps leave alone.
Quiet == UNCHANGED <<open, live, filDes, buf, swapped, socketsFds, bufferFds, inpBufC>>

LEMMA OtherQuiet ==
  ASSUME Conn,
         \/ Outside \/ TimerBranch \/ NoTimer \/ Drained \/ Sleep \/ Selected \/ ScanEnd
         \/ (\E f \in Fds : Nothing(f)) \/ (\E i \in Slots, f \in Fds : Eof(i, f))
         \/ UNCHANGED vars
  PROVE  Quiet /\ Seats'
<1> USE DEF kernel, players, sets, Quiet
<1>1. CASE Outside
  BY <1>1 DEF Outside, Connect, Alarm, Send, HangUp, Interrupted, Conn, Seats
<1>2. CASE TimerBranch
  BY <1>2 DEF TimerBranch, Conn, Seats
<1>3. CASE NoTimer \/ Drained \/ Sleep \/ Selected \/ ScanEnd \/ UNCHANGED vars
  BY <1>3 DEF NoTimer, Drained, Sleep, Selected, ScanEnd, vars, Conn, Seats
<1>4. ASSUME NEW f \in Fds, Nothing(f)
      PROVE  Quiet /\ Seats'
  BY <1>4 DEF Nothing, Conn, Seats
<1>5. ASSUME NEW i \in Slots, NEW f \in Fds, Eof(i, f)
      PROVE  Quiet /\ Seats'
  <2>1. i \in live /\ playing' = playing \ {i} /\ quitting' = quitting \cup {i} /\ Quiet
    BY <1>5 DEF Eof, Gets
  <2> QED
    BY <2>1 DEF Conn, Seats
<1> QED
  BY <1>1, <1>2, <1>3, <1>4, <1>5

\* The ways in which a step can go about it.
LEMMA Steps ==
  ASSUME [Next]_vars
  PROVE  \/ Outside \/ TimerBranch \/ NoTimer \/ Drained \/ Sleep \/ Selected \/ ScanEnd
         \/ (\E f \in Fds : Nothing(f)) \/ (\E i \in Slots, f \in Fds : Eof(i, f))
         \/ UNCHANGED vars
         \/ NewConnection \/ (\E i \in Slots : EndConnection(i))
         \/ \E i \in Slots, f \in Fds :
              \/ Plain(i, f) \/ Enter(i, f) \/ GiveUp(i, f) \/ Leave(i, f)
              \/ \E j \in Slots : Remove(i, f, j)
         \/ \E i \in Slots, f \in Fds, p \in Slots : KickOut(i, f, p)
BY DEF Next, Head, Scan, Handle

LEMMA StepConn == TypeOK /\ Conn /\ [Next]_vars => Conn'
<1> SUFFICES ASSUME TypeOK, Conn, [Next]_vars PROVE Conn'
  OBVIOUS
<1>1. CASE Quiet /\ Seats'
  BY <1>1, SeatsConn DEF Quiet, Conn
<1> QED
  BY <1>1, Steps, OtherQuiet, NewConnectionConn, EndConnectionConn, TakesConn, KickOutConn

LEMMA ConnAlways == Spec => [](TypeOK /\ Conn)
<1>1. TypeOK /\ Conn /\ [Next]_vars => (TypeOK /\ Conn)'
  BY StepType, StepConn
<1> QED
  BY <1>1, InitType, InitConn, PTL DEF Spec

\* Each open connection is listened to and is that of exactly one player, however
\* users take over their characters from each other (main.c, mud.c).
THEOREM DescriptorsCorrect == Spec => []DescriptorsOwned
<1>1. Conn => DescriptorsOwned
  BY DEF Conn
<1> QED
  BY <1>1, ConnAlways, PTL

-----------------------------------------------------------------------------
(* The buffers.                                                            *)

\* The mark of a player's descriptor agrees with his buffer.
Marks(s) == buf[s] > 0 <=> s \in live /\ filDes[s] \in bufferFds

LEMMA LinedMarks ==
  ASSUME Lined, NEW s \in Slots, s \notin swapped
  PROVE  Marks(s)
BY DEF Lined, BufferedMarked, Marks

LEMMA MarksLined ==
  ASSUME \A s \in Slots \ swapped' : Marks(s)', FoundFirst', swapped' \subseteq live'
  PROVE  Lined'
BY DEF Lined, BufferedMarked, Marks

LEMMA InitLined == Init => Lined
<1> SUFFICES ASSUME Init PROVE Lined
  OBVIOUS
<1>1. \A i \in Slots : buf[i] = 0
  BY DEF Init
<1>2. BufferedMarked
  BY <1>1 DEF Init, BufferedMarked
<1> QED
  BY <1>2 DEF Init, Lined, FoundFirst

LEMMA QuietLined ==
  ASSUME Lined, Quiet
  PROVE  Lined'
BY DEF Lined, Quiet, BufferedMarked, FoundFirst

\* The first slot that find_pl_index() finds is that of a player.
LEMMA ListeningHolds ==
  ASSUME TypeOK, Conn, Lined
  PROVE  Listening
<1> SUFFICES ASSUME NEW i \in live \ swapped PROVE IsPlIndex(i, filDes[i])
  BY DEF Listening
<1>2. i \in Slots /\ live \subseteq Slots
  BY DEF TypeOK
<1>3. ASSUME NEW j \in Holders(filDes[i])
      PROVE  i <= j
  <2>1. j \in Slots /\ filDes[j] = filDes[i]
    BY DEF Holders
  <2>2. CASE j \in live
    <3>1. i = j
      BY <2>1, <2>2 DEF Conn, DescriptorsOwned
    <3> QED
      BY <1>2, <3>1, Numbers
  <2>3. CASE j \notin live
    <3>1. i < j
      BY <2>1, <2>3 DEF Lined, FoundFirst
    <3> QED
      BY <1>2, <2>1, <3>1, Numbers
  <2> QED
    BY <2>2, <2>3
<1> QED
  BY <1>2, <1>3 DEF IsPlIndex, Holders

\* A line that is taken: the mark follows the buffer, and the others keep theirs.
LEMMA TakesMarks ==
  ASSUME TypeOK, NEW i \in Slots, NEW f \in Fds, Takes(i, f)
  PROVE  /\ i \in live /\ filDes[i] = f /\ UNCHANGED live
         /\ (Marks(i) => (buf'[i] > 0 <=> f \in bufferFds'))
         /\ \A g \in Fds \ {f} : g \in bufferFds' <=> g \in bufferFds
         /\ \A s \in Slots \ {i} : buf'[s] = buf[s]
<1> DEFINE L == Lines(i, f)
<1>1. /\ i \in live /\ filDes[i] = f /\ L \in Nat /\ L >= 1 /\ buf'[i] = L - 1
      /\ \A s \in Slots \ {i} : buf'[s] = buf[s]
      /\ UNCHANGED live
  BY TakesType, Numbers DEF TypeOK
<1>2. bufferFds' = IF L = 1 THEN bufferFds \ {f}
                   ELSE IF buf[i] = 0 THEN bufferFds \cup {f} ELSE bufferFds
  BY DEF Takes
<1>3. buf[i] \in Nat
  BY Numbers DEF TypeOK
<1>4. Marks(i) => (buf[i] > 0 <=> f \in bufferFds)
  BY <1>1 DEF Marks
<1> HIDE DEF L
<1>5. Marks(i) => (buf'[i] > 0 <=> f \in bufferFds')
  BY <1>1, <1>2, <1>3, <1>4
<1>6. \A g \in Fds \ {f} : g \in bufferFds' <=> g \in bufferFds
  BY <1>2
<1> QED
  BY <1>1, <1>5, <1>6

\* What a line that is taken leaves of the marks of others.
LEMMA TakesOthers ==
  ASSUME TypeOK, Conn, NEW i \in Slots, NEW f \in Fds, Takes(i, f),
         NEW s \in Slots, s # i, filDes'[s] = filDes[s], Marks(s)
  PROVE  Marks(s)'
<1>1. /\ i \in live /\ filDes[i] = f /\ UNCHANGED live /\ buf'[s] = buf[s]
      /\ \A g \in Fds \ {f} : g \in bufferFds' <=> g \in bufferFds
  BY TakesMarks
<1>2. CASE s \in live
  <2>1. filDes[s] \in Fds \ {f}
    BY <1>1, <1>2, OwnFd DEF Conn, DescriptorsOwned
  <2> QED
    BY <1>1, <1>2, <2>1 DEF Marks
<1>3. CASE s \notin live
  BY <1>1, <1>3 DEF Marks
<1> QED
  BY <1>2, <1>3

LEMMA TakesLined ==
  ASSUME TypeOK, Conn, Lined, NEW i \in Slots, NEW f \in Fds,
         \/ Plain(i, f) \/ Enter(i, f) \/ GiveUp(i, f) \/ Leave(i, f)
         \/ \E j \in Slots : Remove(i, f, j)
  PROVE  Lined'
<1>1. Takes(i, f) /\ UNCHANGED <<filDes, swapped>>
  BY DEF Plain, Enter, GiveUp, Leave, Remove
<1>2. i \in live /\ filDes[i] = f /\ UNCHANGED live
  BY <1>1, TakesMarks
<1>3. ASSUME NEW s \in Slots \ swapped'
      PROVE  Marks(s)'
  <2>1. Marks(s)
    BY <1>1, <1>3, LinedMarks
  <2>2. CASE s = i
    BY <1>1, <1>2, <2>1, <2>2, TakesMarks DEF Marks
  <2>3. CASE s # i
    BY <1>1, <2>1, <2>3, TakesOthers
  <2> QED
    BY <2>2, <2>3
<1>4. FoundFirst' /\ swapped' \subseteq live'
  BY <1>1, <1>2 DEF Lined, FoundFirst
<1> QED
  BY <1>3, <1>4, MarksLined

\* The two that exchange their connections are no longer looked at, and the others have
\* the descriptors that they had.
LEMMA KickOutLined ==
  ASSUME TypeOK, Conn, Lined,
         NEW i \in Slots, NEW f \in Fds, NEW p \in Slots, KickOut(i, f, p)
  PROVE  Lined'
<1>1. /\ Takes(i, f) /\ i \notin playing /\ p \in playing /\ filDes' = Exchange(i, p)
      /\ swapped' = swapped \cup {i, p}
  BY DEF KickOut
<1>2. i \in live /\ filDes[i] = f /\ UNCHANGED live
  BY <1>1, TakesMarks
<1>3. i # p /\ p \in live /\ live \subseteq Slots
  BY <1>1, <1>2 DEF Conn, Seats, TypeOK
<1>4. \A s \in Slots \ {i, p} : filDes'[s] = filDes[s]
  BY <1>1, <1>3, Exchanged
<1>5. ASSUME NEW s \in Slots \ swapped'
      PROVE  Marks(s)'
  <2>1. s \notin swapped /\ s # i /\ s # p
    BY <1>1, <1>5
  <2> QED
    BY <1>1, <1>4, <2>1, LinedMarks, TakesOthers
<1>6. FoundFirst'
  BY <1>1, <1>2, <1>3, <1>4 DEF Lined, FoundFirst
<1>7. swapped' \subseteq live'
  BY <1>1, <1>2, <1>3 DEF Lined
<1> QED
  BY <1>5, <1>6, <1>7, MarksLined

\* The new connection has a descriptor that nothing is buffered for, and the first free
\* slot, which has nothing in its buffer.
LEMMA NewConnectionLined ==
  ASSUME TypeOK, Conn, Lined, NewConnection
  PROVE  Lined'
<1>1. UNCHANGED <<buf, bufferFds, swapped>>
  BY DEF NewConnection
<1>2. CASE live = Slots
  <2>1. UNCHANGED <<live, filDes>>
    BY <1>2 DEF NewConnection
  <2> QED
    BY <1>1, <2>1 DEF Lined, BufferedMarked, FoundFirst
<1>3. CASE live # Slots
  <2>1. PICK i \in Slots \ live, f \in Fds \ open :
           /\ \A j \in Slots \ live : i <= j
           /\ live' = live \cup {i}
           /\ filDes'[i] = f /\ \A s \in Slots \ {i} : filDes'[s] = filDes[s]
    BY <1>3, Accepted
  <2>2. f \notin bufferFds
    BY <2>1 DEF Conn
  <2>3. ASSUME NEW s \in Slots \ swapped'
        PROVE  Marks(s)'
    BY <1>1, <2>1, <2>2, LinedMarks DEF Marks
  <2>4. FoundFirst'
    <3> SUFFICES ASSUME NEW s \in live' \ swapped', NEW j \in Slots \ live',
                        filDes'[j] = filDes'[s]
                 PROVE  s < j
      BY DEF FoundFirst
    <3>1. j \in Slots \ live /\ j # i /\ filDes'[j] = filDes[j]
      BY <2>1
    <3>2. CASE s = i
      BY <2>1, <3>1, <3>2, Numbers
    <3>3. CASE s # i
      <4>1. s \in live \ swapped /\ s \in Slots /\ filDes'[s] = filDes[s]
        BY <1>1, <2>1, <3>3 DEF TypeOK
      <4> QED
        BY <3>1, <4>1 DEF Lined, FoundFirst
    <3> QED
      BY <3>2, <3>3
  <2>5. swapped' \subseteq live'
    BY <1>1, <2>1 DEF Lined
  <2> QED
    BY <2>3, <2>4, <2>5, MarksLined
<1> QED
  BY <1>2, <1>3

\* What the end of a connection does to its slot and leaves of the others.
LEMMA Ended ==
  ASSUME TypeOK, Conn, NEW i \in Slots, EndConnection(i)
  PROVE  /\ i \in live /\ live' = live \ {i} /\ swapped' = swapped \ {i}
         /\ UNCHANGED filDes /\ bufferFds' = bufferFds \ {filDes[i]}
         /\ inpBufC' = (IF filDes[i] \in bufferFds THEN inpBufC - 1 ELSE inpBufC)
         /\ buf'[i] = 0 /\ \A s \in Slots \ {i} : buf'[s] = buf[s]
<1>1. /\ i \in quitting /\ live' = live \ {i} /\ buf' = [buf EXCEPT ![i] = 0]
      /\ swapped' = swapped \ {i}
      /\ inpBufC' = (IF filDes[i] \in bufferFds THEN inpBufC - 1 ELSE inpBufC)
      /\ bufferFds' = bufferFds \ {filDes[i]} /\ UNCHANGED filDes
  BY DEF EndConnection, End, Forget, Uncount
<1>2. i \in live
  BY <1>1 DEF Conn, Seats
<1>3. buf'[i] = 0 /\ \A s \in Slots \ {i} : buf'[s] = buf[s]
  BY <1>1 DEF TypeOK
<1> QED
  BY <1>1, <1>2, <1>3

LEMMA EndConnectionLined ==
  ASSUME TypeOK, Conn, Lined, NEW i \in Slots, EndConnection(i)
  PROVE  Lined'
<1>1. /\ i \in live /\ live' = live \ {i} /\ swapped' = swapped \ {i}
      /\ UNCHANGED filDes /\ bufferFds' = bufferFds \ {filDes[i]}
      /\ buf'[i] = 0 /\ \A s \in Slots \ {i} : buf'[s] = buf[s]
  BY Ended
<1>2. ASSUME NEW s \in Slots \ swapped'
      PROVE  Marks(s)'
  <2>1. CASE s = i
    BY <1>1, <2>1 DEF Marks
  <2>2. CASE s # i
    <3>1. Marks(s)
      BY <1>1, <2>2, LinedMarks
    <3>2. s \in live => filDes[s] # filDes[i]
      BY <1>1, <2>2 DEF Conn, DescriptorsOwned
    <3> QED
      BY <1>1, <2>2, <3>1, <3>2 DEF Marks
  <2> QED
    BY <2>1, <2>2
<1>3. FoundFirst'
  <2> SUFFICES ASSUME NEW s \in live' \ swapped', NEW j \in Slots \ live',
                      filDes[j] = filDes[s]
               PROVE  s < j
    BY <1>1 DEF FoundFirst
  <2>1. s \in live \ swapped /\ s # i
    BY <1>1
  <2>2. j # i
    BY <1>1, <2>1 DEF Conn, DescriptorsOwned
  <2> QED
    BY <1>1, <2>1, <2>2 DEF Lined, FoundFirst
<1>4. swapped' \subseteq live'
  BY <1>1 DEF Lined
<1> QED
  BY <1>2, <1>3, <1>4, MarksLined

LEMMA StepLined == TypeOK /\ Conn /\ Lined /\ [Next]_vars => Lined'
<1> SUFFICES ASSUME TypeOK, Conn, Lined, [Next]_vars PROVE Lined'
  OBVIOUS
<1> QED
  BY Steps, OtherQuiet, QuietLined, NewConnectionLined, EndConnectionLined, TakesLined,
     KickOutLined

LEMMA LinedAlways == Spec => [](TypeOK /\ Conn /\ Lined)
<1>1. TypeOK /\ Conn /\ Lined /\ [Next]_vars => Lined'
  BY StepLined
<1> QED
  BY <1>1, InitLined, ConnAlways, PTL DEF Spec

\* A descriptor is marked while lines of its player wait, for everyone whose connection
\* is the one that he came with, whatever the others exchange (main.c).
THEOREM MarksCorrect == Spec => []BufferedMarked
<1>1. Lined => BufferedMarked
  BY DEF Lined
<1> QED
  BY <1>1, LinedAlways, PTL

\* What arrives on such a connection is given to the player who has it, whatever numbers
\* the free slots have kept (mud.c).
THEOREM ListeningCorrect == Spec => []Listening
<1>1. TypeOK /\ Conn /\ Lined => Listening
  BY ListeningHolds
<1> QED
  BY <1>1, LinedAlways, PTL

-----------------------------------------------------------------------------
(* The count.                                                              *)

\* A line that is taken: the count goes with the player.
LEMMA TakesSurplus ==
  ASSUME TypeOK, NEW i \in Slots, NEW f \in Fds, Takes(i, f)
  PROVE  Surplus' = Surplus
<1> DEFINE L == Lines(i, f)
           c == Cardinality(Waiting)
<1>1. /\ L \in Nat /\ L >= 1 /\ buf'[i] = L - 1
      /\ \A s \in Slots \ {i} : buf'[s] = buf[s]
  BY TakesType, Numbers DEF TypeOK
<1>2. inpBufC' = inpBufC + (IF buf[i] = 0 THEN 1 ELSE 0) - (IF L = 1 THEN 1 ELSE 0)
  BY DEF Takes, Count
<1>3. inpBufC \in Int /\ buf[i] \in Nat /\ (i \in Waiting <=> buf[i] > 0)
  BY Numbers DEF TypeOK, Waiting
<1>4. IsFiniteSet(Waiting) /\ c \in Nat
  BY WaitingFinite
<1>5. Surplus = inpBufC - c /\ Surplus' = inpBufC' - Cardinality(Waiting')
  BY DEF Surplus
<1>6. CASE L = 1
  <2>1. Waiting' = Waiting \ {i}
    BY <1>1, <1>6 DEF Waiting
  <2>2. Cardinality(Waiting') = IF i \in Waiting THEN c - 1 ELSE c
    BY <1>4, <2>1, FS_RemoveElement
  <2> HIDE DEF L, c
  <2>3. CASE buf[i] = 0
    BY <1>2, <1>3, <1>4, <1>5, <1>6, <2>2, <2>3
  <2>4. CASE buf[i] # 0
    BY <1>2, <1>3, <1>4, <1>5, <1>6, <2>2, <2>4
  <2> QED
    BY <2>3, <2>4
<1>7. CASE L # 1
  <2>1. Waiting' = Waiting \cup {i}
    BY <1>1, <1>7 DEF Waiting
  <2>2. Cardinality(Waiting') = IF i \in Waiting THEN c ELSE c + 1
    BY <1>4, <2>1, FS_AddElement
  <2> HIDE DEF L, c
  <2>3. CASE buf[i] = 0
    BY <1>2, <1>3, <1>4, <1>5, <1>7, <2>2, <2>3
  <2>4. CASE buf[i] # 0
    BY <1>2, <1>3, <1>4, <1>5, <1>7, <2>2, <2>4
  <2> QED
    BY <2>3, <2>4
<1> QED
  BY <1>6, <1>7

\* What a step may do to the surplus.
CountStep == Surplus' # Surplus => /\ Surplus' - Surplus \in -1 .. 1
                                   /\ \E i \in swapped : i \notin live'

\* The end of a connection: the count goes with the mark, and that with the buffer,
\* unless the connection is another's.
LEMMA EndSurplus ==
  ASSUME TypeOK, Conn, Lined, NEW i \in Slots, EndConnection(i)
  PROVE  CountStep
<1> DEFINE c == Cardinality(Waiting)
           d == Cardinality(Waiting')
           marked == filDes[i] \in bufferFds
<1>1. /\ i \in live /\ live' = live \ {i}
      /\ inpBufC' = (IF marked THEN inpBufC - 1 ELSE inpBufC)
      /\ buf'[i] = 0 /\ \A s \in Slots \ {i} : buf'[s] = buf[s]
  BY Ended
<1>2. inpBufC \in Int /\ c \in Nat /\ IsFiniteSet(Waiting)
  BY WaitingFinite DEF TypeOK
<1>3. Waiting' = Waiting \ {i}
  BY <1>1 DEF Waiting
<1>4. d = IF i \in Waiting THEN c - 1 ELSE c
  BY <1>2, <1>3, FS_RemoveElement
<1>5. i \notin swapped => (i \in Waiting <=> marked)
  BY <1>1, LinedMarks DEF Marks, Waiting
<1>6. Surplus = inpBufC - c /\ Surplus' = inpBufC' - d
  BY DEF Surplus
<1>7. i \notin live'
  BY <1>1
<1>8. inpBufC' = (IF marked THEN inpBufC - 1 ELSE inpBufC)
  BY <1>1
<1> HIDE DEF c, d, marked
<1>9. CASE i \in Waiting /\ marked
  <2>1. Surplus' = Surplus
    BY <1>2, <1>4, <1>6, <1>8, <1>9
  <2> QED
    BY <2>1 DEF CountStep
<1>10. CASE i \notin Waiting /\ ~marked
  <2>1. Surplus' = Surplus
    BY <1>2, <1>4, <1>6, <1>8, <1>10
  <2> QED
    BY <2>1 DEF CountStep
<1>11. CASE i \in Waiting /\ ~marked
  <2>1. Surplus' - Surplus = 1
    BY <1>2, <1>4, <1>6, <1>8, <1>11
  <2>2. i \in swapped
    BY <1>5, <1>11
  <2> QED
    BY <1>7, <2>1, <2>2 DEF CountStep
<1>12. CASE i \notin Waiting /\ marked
  <2>1. Surplus' - Surplus = -1
    BY <1>2, <1>4, <1>6, <1>8, <1>12
  <2>2. i \in swapped
    BY <1>5, <1>12
  <2> QED
    BY <1>7, <2>1, <2>2 DEF CountStep
<1> QED
  BY <1>9, <1>10, <1>11, <1>12

LEMMA StepCount == TypeOK /\ Conn /\ Lined /\ [Next]_vars => [CountStep]_vars
<1> SUFFICES ASSUME TypeOK, Conn, Lined, [Next]_vars PROVE CountStep
  OBVIOUS
<1>1. CASE Quiet
  <2>1. Surplus' = Surplus
    BY <1>1 DEF Quiet, Surplus, Waiting
  <2> QED
    BY <2>1 DEF CountStep
<1>2. CASE NewConnection
  <2>1. UNCHANGED <<buf, inpBufC>>
    BY <1>2 DEF NewConnection
  <2>2. Surplus' = Surplus
    BY <2>1 DEF Surplus, Waiting
  <2> QED
    BY <2>2 DEF CountStep
<1>3. ASSUME NEW i \in Slots, NEW f \in Fds, Takes(i, f)
      PROVE  CountStep
  BY <1>3, TakesSurplus DEF CountStep
<1>4. ASSUME NEW i \in Slots, EndConnection(i)
      PROVE  CountStep
  BY <1>4, EndSurplus
<1>5. \/ Quiet \/ NewConnection \/ (\E i \in Slots : EndConnection(i))
      \/ \E i \in Slots, f \in Fds : Takes(i, f)
  BY Steps, OtherQuiet DEF Plain, Enter, GiveUp, Leave, Remove, KickOut
<1> QED
  BY <1>1, <1>2, <1>3, <1>4, <1>5

\* inp_buf_c keeps step with the buffers, and is put wrong only by the end of a connection
\* that was exchanged, by one (main.c).
THEOREM CountCorrect == Spec => CountKept
<1>1. TypeOK /\ Conn /\ Lined /\ [Next]_vars => [CountStep]_vars
  BY StepCount
<1>2. CountKept <=> [][CountStep]_vars
  BY DEF CountKept, CountStep
<1> QED
  BY <1>1, <1>2, LinedAlways, PTL DEF Spec
=============================================================================
