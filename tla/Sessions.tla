------------------------------ MODULE Sessions ------------------------------
(***************************************************************************)
(* The sessions of the game server: one slot of players[] per connection,  *)
(* the stack of input handlers that drives it from the name prompt to the  *)
(* game and out again (mud.c), the quit list that the main loop works off  *)
(* (main.c), the persona file and the ID counter (uaf.c, bootstrap.c), and *)
(* the table that maps the ID of a player in the game to his slot.         *)
(*                                                                         *)
(* The server is one process around select(); a handler runs to its end,   *)
(* so a step here is a handler, except where a handler loops over slots    *)
(* (the SHUTDOWN command, the SIGTERM exit) or is followed by work that    *)
(* the caller does (special_events() after a command): these are several   *)
(* steps, and "phase" keeps everything else from coming between.           *)
(***************************************************************************)
EXTENDS Integers, Sequences

CONSTANTS
  N,         \* max_players
  Names,     \* the names that users type
  NoName,    \* the empty pname
  Forcers,   \* bound: the slots whose players have the privilege of FORCE
  MaxId,     \* bound: IDs that get_gender() may hand out
  MaxStack   \* bound: depth of an input handler stack

ASSUME NAssumption == N \in Nat \ {0}
ASSUME NameAssumption == NoName \notin Names
ASSUME ForcersAssumption == Forcers \subseteq 0 .. N - 1
ASSUME IdAssumption == MaxId \in Nat \ {0}
ASSUME StackAssumption == MaxStack \in Nat /\ MaxStack >= 2

Slots == 0 .. N - 1
NoSlot == -1      \* the end of the quit list; "no entry" in the ID table
NotQueued == -2   \* quit_next of a player who is not on the quit list
OfMobile == -3    \* an entry of the ID table that leads to a mobile
Ids == 1 .. MaxId
NoId == 0         \* a mob_id never loaded; a name without a persona

\* The functions that stand in an input handler stack.  "sub" is any handler
\* that takes the place of get_command for a while: help pages, the writer,
\* the change of a password (replace_input_handler); "becom" is pushed on top.
\* "on_motd" and "on_becom" are a writer or a FROB that a player was forced to
\* begin at these prompts, and that leads back to them.
LoginStages ==
  {"pname1", "pname2", "newpass1", "newpass2", "gender", "passwd1", "kickout"}
Subs == {"sub", "on_motd", "on_becom"}
GameStages == {"command", "becom"} \cup Subs
Stages == LoginStages \cup {"motd"} \cup GameStages

VARIABLES
  handlers,      \* players[i].inp_handler, top first; <<>> is a free slot
  quitList,      \* quit_list, the head
  quitNext,      \* players[i].quit_next
  pname,         \* ublock[i].pname
  pid,           \* mob_id(i)
  iamon,         \* players[i].iamon
  away,          \* players[i] is aliased or polymorphed to a mobile
  uaf,           \* the persona file: the ID kept under a name
  idCounter,     \* id_counter
  savedCounter,  \* the counter as last written by save_id_counter()
  idTable,       \* id_table, restricted to the IDs of personas
  mobIds,        \* those IDs of personas that a mobile has
  phase,         \* where the main loop stands
  at,            \* the slot a loop over players[] has reached
  actor,         \* the player whose command has just been executed
  forcer         \* the player who forced him to it

stacks == <<handlers, quitList, quitNext>>
queue == <<quitList, quitNext>>
chars == <<pname, pid, iamon, away>>
files == <<uaf, idCounter, savedCounter>>
tables == <<idTable, mobIds>>
ctl == <<phase, at, actor, forcer>>
vars == <<stacks, chars, files, tables, ctl>>

\* "top": the head of the loop in main_loop(); "drain": between two sockets of
\* the scan; "jumped": after longjmp(to_main_loop); "timer": in on_timer();
\* "after": gamecom() past xgamecom(); "shutdown": in the SHUTDOWN command;
\* "term": past the loop, after SIGTERM.
Phases == {"top", "drain", "jumped", "timer", "after", "shutdown", "term"}

TypeOK ==
  /\ handlers \in [Slots -> Seq(Stages)]
  /\ quitList \in Slots \cup {NoSlot}
  /\ quitNext \in [Slots -> Slots \cup {NoSlot, NotQueued}]
  /\ pname \in [Slots -> Names \cup {NoName}]
  /\ pid \in [Slots -> Ids \cup {NoId}]
  /\ iamon \in [Slots -> BOOLEAN]
  /\ away \in [Slots -> BOOLEAN]
  /\ uaf \in [Names -> Ids \cup {NoId}]
  /\ idCounter \in 1 .. MaxId + 1
  /\ savedCounter \in 1 .. MaxId + 1
  /\ idTable \in [Ids \cup {NoId} -> Slots \cup {NoSlot, OfMobile}]
  /\ mobIds \subseteq Ids
  /\ phase \in Phases
  /\ at \in IF phase \in {"shutdown", "term"} THEN 0 .. N ELSE {0}
  /\ actor \in IF phase \in {"shutdown", "after"} THEN Slots ELSE {NoSlot}
  /\ forcer \in IF phase \in {"shutdown", "after"} THEN Slots \cup {NoSlot} ELSE {NoSlot}

\* A fresh process on the persona file and the counter file "u" and "c".
Boot(u, c) ==
  /\ handlers' = [i \in Slots |-> <<>>]
  /\ quitList' = NoSlot
  /\ quitNext' = [i \in Slots |-> NotQueued]
  /\ pname' = [i \in Slots |-> NoName]
  /\ pid' = [i \in Slots |-> NoId]
  /\ iamon' = [i \in Slots |-> FALSE]
  /\ away' = [i \in Slots |-> FALSE]
  /\ uaf' = u
  /\ idCounter' = c
  /\ savedCounter' = c
  /\ idTable' = [x \in Ids \cup {NoId} |-> NoSlot]
  /\ mobIds' = {}
  /\ phase' = "top"
  /\ at' = 0
  /\ actor' = NoSlot
  /\ forcer' = NoSlot

Init ==
  /\ handlers = [i \in Slots |-> <<>>]
  /\ quitList = NoSlot
  /\ quitNext = [i \in Slots |-> NotQueued]
  /\ pname = [i \in Slots |-> NoName]
  /\ pid = [i \in Slots |-> NoId]
  /\ iamon = [i \in Slots |-> FALSE]
  /\ away = [i \in Slots |-> FALSE]
  /\ uaf = [n \in Names |-> NoId]
  /\ idCounter = 1
  /\ savedCounter = 1
  /\ idTable = [x \in Ids \cup {NoId} |-> NoSlot]
  /\ mobIds = {}
  /\ phase = "top"
  /\ at = 0
  /\ actor = NoSlot
  /\ forcer = NoSlot

-----------------------------------------------------------------------------
(* Helpers *)

Live(i) == handlers[i] /= <<>>
Queued(i) == quitNext[i] /= NotQueued
InGame(i) == iamon[i] /\ pname[i] /= NoName
Named(n) == {i \in Slots : InGame(i) /\ pname[i] = n}

\* replace_input_handler()
Replaced(i, h) == [handlers EXCEPT ![i] = <<h>> \o Tail(@)]

\* pop_input_handler(): the last handler is not popped.
Popped(s) == IF Len(s) > 1 THEN Tail(s) ELSE s

\* A mutant of QuitPlayer: whoever was on the list is forgotten.
QuitPlayerForgets(i) ==
  IF Queued(i)
  THEN UNCHANGED queue
  ELSE /\ quitNext' = [quitNext EXCEPT ![i] = NoSlot]
       /\ quitList' = i

\* quit_player(): a second call finds the player on the list already.
QuitPlayer(i) ==
  IF Queued(i)
  THEN UNCHANGED queue
  ELSE /\ quitNext' = [quitNext EXCEPT ![i] = quitList]
       /\ quitList' = i

\* remove_entry(), and a mutant that leaves the entry.
RemovedNot(x, tbl) == tbl
Removed(x, tbl) == [tbl EXCEPT ![x] = NoSlot]

\* Out of the game, as loseme() ends, and a mutant that forgets iamon.
OutOfGameNot(i) == pname' = [pname EXCEPT ![i] = NoName] /\ UNCHANGED iamon
OutOfGame(i) ==
  /\ pname' = [pname EXCEPT ![i] = NoName]
  /\ iamon' = [iamon EXCEPT ![i] = FALSE]

\* xcrapup() past the test for an alias, with loseme() and saveme().  "on" and
\* "tbl" are iamon[i] and the ID table when it is called.
Depart(i, save, on, tbl, file) ==
  /\ QuitPlayer(i)
  /\ uaf' = IF save /\ on /\ pname[i] /= NoName
            THEN [file EXCEPT ![pname[i]] = pid[i]] ELSE file
  /\ idTable' = Removed(pid[i], tbl)
  /\ OutOfGame(i)

\* crapup() without CRAP_UNALIAS: an alias or a polymorph is all it ends.
Crapup(i, save, on, tbl, file) ==
  /\ away' = [away EXCEPT ![i] = FALSE]
  /\ IF away[i]
     THEN /\ UNCHANGED <<queue, pname, iamon>>
          /\ uaf' = file
          /\ idTable' = tbl
     ELSE Depart(i, save, on, tbl, file)

\* crapup() with CRAP_UNALIAS, and a mutant that leaves the alias.
UnaliasedCrapupNot(i, save) ==
  /\ UNCHANGED away
  /\ Depart(i, save, iamon[i], idTable, uaf)

UnaliasedCrapup(i, save) ==
  /\ away' = [away EXCEPT ![i] = FALSE]
  /\ Depart(i, save, iamon[i], idTable, uaf)

\* The main loop can only give a line of input to a handler when the quit list
\* has been worked off: main.c:546 before select(), main.c:578 after each socket.
Ready == phase \in {"top", "drain"} /\ quitList = NoSlot

Reads(i, h) == Ready /\ Live(i) /\ Head(handlers[i]) = h

Return == phase' = "drain" /\ UNCHANGED <<at, actor, forcer>>
Longjmp == phase' = "jumped" /\ UNCHANGED <<at, actor, forcer>>

-----------------------------------------------------------------------------
(* Connecting and logging in *)

\* new_connection(), find_free_player_slot(), new_player(): the lowest free
\* slot; the name and the ID of its last user stay.
NewConnection(i) ==
  /\ Ready
  /\ ~Live(i) /\ \A j \in 0 .. i - 1 : Live(j)
  /\ handlers' = [handlers EXCEPT ![i] = <<"pname1">>]
  /\ quitNext' = [quitNext EXCEPT ![i] = NotQueued]
  /\ iamon' = [iamon EXCEPT ![i] = FALSE]
  /\ away' = [away EXCEPT ![i] = FALSE]
  /\ Return
  /\ UNCHANGED <<quitList, pname, pid, files, tables>>

\* Each prompt can be answered with a line that ends the session.
HangUp(i, h) ==
  /\ Reads(i, h)
  /\ QuitPlayer(i)
  /\ Return
  /\ UNCHANGED <<handlers, chars, files, tables>>

\* ... or with one that the handler does not take; it prompts again.
PromptAgain(i, h) ==
  /\ Reads(i, h)
  /\ Return
  /\ UNCHANGED <<stacks, chars, files, tables>>

Proceed(i, h, next) ==
  /\ Reads(i, h)
  /\ handlers' = Replaced(i, next)
  /\ Return
  /\ UNCHANGED <<queue, chars, files, tables>>

\* get_pname1(): getuafinfo() loads the persona into the slot, then login_ok()
\* lets the user in or, outside opening hours or for a ban, sends him away.
GetPname1(i) ==
  \/ HangUp(i, "pname1")
  \/ PromptAgain(i, "pname1")
  \/ /\ Reads(i, "pname1")
     /\ \E n \in Names :
          /\ pname' = [pname EXCEPT ![i] = n]
          /\ \/ /\ uaf[n] = NoId
                /\ handlers' = Replaced(i, "pname2")
                /\ UNCHANGED <<pid, queue>>
             \/ /\ uaf[n] /= NoId
                /\ pid' = [pid EXCEPT ![i] = uaf[n]]
                /\ \/ handlers' = Replaced(i, "passwd1") /\ UNCHANGED queue
                   \/ QuitPlayer(i) /\ UNCHANGED handlers
     /\ Return
     /\ UNCHANGED <<iamon, away, files, tables>>

\* get_pname2(): when login_ok() refuses, the user is on the quit list and back
\* at the first prompt at the same time.
GetPname2(i) ==
  \/ Proceed(i, "pname2", "newpass1")
  \/ Proceed(i, "pname2", "pname1")
  \/ /\ Reads(i, "pname2")
     /\ handlers' = Replaced(i, "pname1")
     /\ QuitPlayer(i)
     /\ Return
     /\ UNCHANGED <<chars, files, tables>>

GetNewPass1(i) == HangUp(i, "newpass1") \/ Proceed(i, "newpass1", "newpass2")

GetNewPass2(i) ==
  \/ HangUp(i, "newpass2")
  \/ Proceed(i, "newpass2", "newpass1")
  \/ Proceed(i, "newpass2", "gender")

\* id_counter++ and save_id_counter(), and a mutant that does not save it.
CountIdUnsaved == idCounter' = idCounter + 1 /\ UNCHANGED savedCounter
CountId == idCounter' = idCounter + 1 /\ savedCounter' = idCounter + 1

\* get_gender(): a new ID, the persona written, then the counter saved.
GetGender(i) ==
  \/ PromptAgain(i, "gender")
  \/ /\ Reads(i, "gender")
     /\ idCounter <= MaxId
     /\ pid' = [pid EXCEPT ![i] = idCounter]
     /\ CountId
     /\ uaf' = [uaf EXCEPT ![pname[i]] = idCounter]
     /\ handlers' = Replaced(i, "motd")
     /\ Return
     /\ UNCHANGED <<queue, pname, iamon, away, tables>>

\* ... and the process dies after putuaf() and before save_id_counter().
CrashInGetGender(i) ==
  /\ Reads(i, "gender")
  /\ idCounter <= MaxId
  /\ Boot([uaf EXCEPT ![pname[i]] = idCounter], savedCounter)

\* get_passwd1(): the third wrong password ends the session, as does the name of
\* a mobile in the world; fpbns() prefers the player.
GetPasswd1(i) ==
  \/ HangUp(i, "passwd1")
  \/ PromptAgain(i, "passwd1")
  \/ Named(pname[i]) /= {} /\ Proceed(i, "passwd1", "kickout")
  \/ Named(pname[i]) = {} /\ Proceed(i, "passwd1", "motd")

\* kick_out_yn(): on "yes" the two slots swap their connections; the slot that
\* was in the game goes back to the message of the day, in the game, and the
\* new one, which now has the old connection, is sent away.  On "no", or when a
\* mobile has the name now, the session ends.
KickOutYn(i) ==
  \/ Named(pname[i]) = {} /\ Proceed(i, "kickout", "motd")
  \/ Named(pname[i]) /= {} /\ PromptAgain(i, "kickout")
  \/ HangUp(i, "kickout")
  \/ /\ Reads(i, "kickout")
     /\ \E p \in Named(pname[i]) :
          /\ \A q \in Named(pname[i]) : p <= q
          /\ handlers' = Replaced(p, "motd")
     /\ QuitPlayer(i)
     /\ Return
     /\ UNCHANGED <<chars, files, tables>>

\* insert_entry(): an ID that has an entry keeps it.
Inserted(x, i, tbl) ==
  IF tbl[x] = NoSlot THEN [tbl EXCEPT ![x] = i] ELSE tbl

\* The table when mob_id(mynum) is inserted: under an alias that is the ID of
\* the mobile.
Entered(i) ==
  IF away[i] THEN {idTable} \cup {Inserted(x, OfMobile, idTable) : x \in mobIds}
  ELSE {Inserted(pid[i], i, idTable)}

\* do_motd() and talker(): into the game, unless it is locked for the player's
\* level or his home is a room that kills; both end in longjmp().
Talker(i) == \E tbl \in Entered(i) :
  /\ Reads(i, "motd")
  /\ \/ /\ handlers' = Replaced(i, "command")
        /\ iamon' = [iamon EXCEPT ![i] = TRUE]
        /\ idTable' = tbl
        /\ Return
        /\ UNCHANGED <<queue, pname, pid, away, files, mobIds>>
     \/ /\ \E save \in BOOLEAN : Crapup(i, save, TRUE, tbl, uaf)
        /\ Longjmp
        /\ UNCHANGED <<handlers, pid, idCounter, savedCounter, mobIds>>

-----------------------------------------------------------------------------
(* Commands.  gamecom() executes the command and then, in phase "after", the *)
(* special events of the room that the player is in.                         *)

\* A player types a command at the prompt or within the writer.
Types(i) == \E h \in {"command"} \cup Subs : Reads(i, h)

\* forcecom(): gamecom() for a player in the game, whatever handler is on top of
\* his stack; after his special events come those of the one who forces him.
Forces(f, i) == f \in Forcers /\ Types(f) /\ InGame(i)

Executes(i) ==
  /\ \/ Types(i) /\ forcer' = NoSlot
     \/ \E f \in Slots : Forces(f, i) /\ forcer' = f
  /\ actor' = i

Commands(i) == Executes(i) /\ phase' = "after" /\ UNCHANGED at

\* Anything that leaves the sessions alone; ALIAS and the polymorph spell; the
\* QUIT that only ends an alias.
CmdOther(i) ==
  /\ Commands(i)
  /\ \E a \in BOOLEAN : away' = [away EXCEPT ![i] = a]
  /\ UNCHANGED <<stacks, pname, pid, iamon, files, tables>>

\* Pages of help, the writer, a new password: the handler on top is replaced,
\* and a writer or a FROB goes back to a prompt that it came on.
SubsOver(h) ==
  {"sub"} \cup IF h \in {"motd", "on_motd"} THEN {"on_motd"}
               ELSE IF h \in {"becom", "on_becom"} THEN {"on_becom"} ELSE {}

CmdSub(i) ==
  /\ Commands(i)
  /\ \E h \in SubsOver(Head(handlers[i])) : handlers' = Replaced(i, h)
  /\ UNCHANGED <<queue, chars, files, tables>>

\* becom(NULL): not when aliased, not in the writer, and nobody is forced to it
\* (parse.c:209).
CmdBecome(i) ==
  /\ Commands(i) /\ Reads(i, "command") /\ forcer' = NoSlot
  /\ ~away[i]
  /\ Len(handlers[i]) < MaxStack
  /\ handlers' = [handlers EXCEPT ![i] = <<"becom">> \o @]
  /\ UNCHANGED <<queue, chars, files, tables>>

\* QUIT, and the deaths of the player himself: crapup() without CRAP_RETURN
\* does not come back to gamecom().
CmdLeave(i) ==
  /\ Types(i) \/ \E f \in Slots : Forces(f, i)
  /\ \E save \in BOOLEAN : Crapup(i, save, iamon[i], idTable, uaf)
  /\ Longjmp
  /\ UNCHANGED <<handlers, pid, idCounter, savedCounter, mobIds>>

\* EXORCISE and kills in a fight save the victim; ZAP deletes his persona.
CmdRemove(i, j) ==
  /\ Commands(i)
  /\ InGame(j)
  /\ \/ Crapup(j, TRUE, TRUE, idTable, uaf)
     \/ Crapup(j, FALSE, TRUE, idTable, [uaf EXCEPT ![pname[j]] = NoId])
  /\ UNCHANGED <<handlers, pid, idCounter, savedCounter, mobIds>>

\* The IDs of mobiles when one that had x has it no more: another may have it.
Without(x) == {mobIds, mobIds \ {x}}

\* destruct_mobile() of a mobile that has the ID of a persona; if somebody is
\* away in it, his alias ends.
CmdDestruct(i) ==
  /\ Commands(i)
  /\ \E x \in mobIds : mobIds' \in Without(x) /\ idTable' = Removed(x, idTable)
  /\ \/ UNCHANGED away
     \/ \E j \in Slots : away' = [away EXCEPT ![j] = FALSE]
  /\ UNCHANGED <<stacks, pname, pid, iamon, files>>

\* deletecom(): the persona only; a player of that name stays in the game.
CmdDelete(i, n) ==
  /\ Commands(i)
  /\ uaf' = [uaf EXCEPT ![n] = NoId]
  /\ UNCHANGED <<stacks, chars, idCounter, savedCounter, tables>>

\* change_name(): of a player in the game or of a persona at rest.
CmdRename(i, old, new) ==
  /\ Commands(i)
  /\ uaf[new] = NoId /\ old /= new
  /\ \/ \E j \in Named(old) :
          /\ \A q \in Named(old) : j <= q
          /\ uaf' = [uaf EXCEPT ![old] = NoId, ![new] = pid[j]]
          /\ pname' = [pname EXCEPT ![j] = new]
     \/ /\ Named(old) = {} /\ uaf[old] /= NoId
        /\ uaf' = [uaf EXCEPT ![old] = NoId, ![new] = uaf[old]]
        /\ UNCHANGED pname
  /\ UNCHANGED <<stacks, pid, iamon, away, idCounter, savedCounter, tables>>

CmdShutdown(i) ==
  /\ Executes(i)
  /\ phase' = "shutdown" /\ at' = 0
  /\ UNCHANGED <<stacks, chars, files, tables>>

\* The loop of SHUTDOWN: everyone in the game but privileged users (isawiz).
ShutdownStep ==
  /\ phase = "shutdown" /\ at < N
  /\ at' = at + 1
  /\ \/ InGame(at) /\ UnaliasedCrapup(at, TRUE)
     \/ UNCHANGED <<queue, pname, iamon, away, uaf, idTable>>
  /\ UNCHANGED <<handlers, pid, idCounter, savedCounter, mobIds, phase, actor, forcer>>

\* The next loop over players[] starts at the first slot again.
ShutdownEnd ==
  /\ phase = "shutdown" /\ at = N
  /\ phase' = "after" /\ at' = 0
  /\ UNCHANGED <<stacks, chars, files, tables, actor, forcer>>

\* special_events(mynum): water, the tree, the iron maiden.  Whoever is aliased
\* to a mobile is not looked at.  A forced command is a command within FORCE.
After ==
  /\ phase = "after"
  /\ phase' = IF forcer = NoSlot THEN "drain" ELSE "after"
  /\ actor' = forcer /\ forcer' = NoSlot /\ UNCHANGED at
  /\ \/ UNCHANGED <<queue, pname, iamon, away, uaf, idTable>>
     \/ /\ InGame(actor) /\ ~away[actor]
        /\ Crapup(actor, TRUE, TRUE, idTable, uaf)
  /\ UNCHANGED <<handlers, pid, idCounter, savedCounter, mobIds>>

\* A replaced handler: another line, or back to get_command, or to the prompt
\* that a writer came on.
Sub(i) ==
  \/ \E h \in Subs : PromptAgain(i, h) \/ Proceed(i, h, "command")
  \/ Proceed(i, "on_motd", "motd")
  \/ Proceed(i, "on_becom", "becom")

\* What becom(passwd) does for a player who is himself: he is saved, and his
\* slot becomes that of persona n ...
BecomesPersona(i, n) ==
  /\ uaf' = [uaf EXCEPT ![pname[i]] = pid[i]]
  /\ pid' = [pid EXCEPT ![i] = uaf[n]]
  /\ pname' = [pname EXCEPT ![i] = n]
  /\ idTable' = Inserted(uaf[n], i, Removed(pid[i], idTable))
  /\ UNCHANGED mobIds

\* ... and for one who is aliased meanwhile: mynum is the mobile.  saveme()
\* refuses, and the mobile, an earlier persona "x" or not, is persona n.
MobileBecomes(n) ==
  /\ \E x \in mobIds \cup {NoId} :
       /\ idTable' = Inserted(uaf[n], OfMobile, Removed(x, idTable))
       /\ \E rest \in Without(x) : mobIds' = rest \cup {uaf[n]}
  /\ UNCHANGED <<uaf, pid, pname>>

\* becom(passwd): the handler is popped in any case.
Becom(i) ==
  /\ Reads(i, "becom")
  /\ handlers' = [handlers EXCEPT ![i] = <<"command">> \o Tail(Popped(@))]
  /\ \/ UNCHANGED <<pname, pid, uaf, tables>>
     \/ \E n \in Names :
          /\ uaf[n] /= NoId /\ Named(n) = {}
          /\ \/ ~away[i] /\ BecomesPersona(i, n)
             \/ away[i] /\ MobileBecomes(n)
  /\ Return
  /\ UNCHANGED <<queue, iamon, away, idCounter, savedCounter>>

-----------------------------------------------------------------------------
(* The main loop *)

\* handle_packet(), end of file or a dead connection, at any stage: also before
\* the slot's stale or freshly loaded ID is that of a player in the game.
Eof(i) ==
  /\ Ready /\ Live(i)
  /\ UnaliasedCrapup(i, TRUE)
  /\ Return
  /\ UNCHANGED <<handlers, pid, idCounter, savedCounter, mobIds>>

\* A mutant of EndConnection: the slot keeps its input handlers.
EndConnectionKeeps ==
  /\ quitList /= NoSlot
  /\ \/ phase \in {"top", "drain"} /\ phase' = "drain"
     \/ phase = "jumped" /\ phase' = "top"
  /\ quitList' = quitNext[quitList]
  /\ quitNext' = [quitNext EXCEPT ![quitList] = NotQueued]
  /\ UNCHANGED <<handlers, chars, files, tables, at, actor, forcer>>

\* end_connection(): the head of the quit list.
EndConnection ==
  /\ quitList /= NoSlot
  /\ \/ phase \in {"top", "drain"} /\ phase' = "drain"
     \/ phase = "jumped" /\ phase' = "top"
  /\ quitList' = quitNext[quitList]
  /\ quitNext' = [quitNext EXCEPT ![quitList] = NotQueued]
  /\ handlers' = [handlers EXCEPT ![quitList] = <<>>]
  /\ UNCHANGED <<chars, files, tables, at, actor, forcer>>

\* After a longjmp() of someone who only lost his alias.
NothingToEnd ==
  /\ phase = "jumped" /\ quitList = NoSlot
  /\ phase' = "top"
  /\ UNCHANGED <<stacks, chars, files, tables, at, actor, forcer>>

\* The head of the loop looks at the timer before it looks at the quit list.
AtHead == phase = "top" \/ (phase = "drain" /\ quitList = NoSlot)

TimerStart ==
  /\ AtHead
  /\ phase' = "timer"
  /\ UNCHANGED <<stacks, chars, files, tables, at, actor, forcer>>

\* on_timer(): fights and special_events(SP_ALL) may end anyone's life or alias.
TimerDeath(i) ==
  /\ phase = "timer"
  /\ InGame(i)
  /\ Crapup(i, TRUE, TRUE, idTable, uaf)
  /\ UNCHANGED <<handlers, pid, idCounter, savedCounter, mobIds, ctl>>

TimerEnd ==
  /\ phase = "timer"
  /\ phase' = "top"
  /\ UNCHANGED <<stacks, chars, files, tables, at, actor, forcer>>

\* SIGTERM: the loop is left, and everyone with a name is saved in turn; slots
\* that are free but keep the name of a failed login are gone through as well.
TermStart ==
  /\ AtHead
  /\ phase' = "term" /\ at' = 0
  /\ UNCHANGED <<stacks, chars, files, tables, actor, forcer>>

TermStep ==
  /\ phase = "term" /\ at < N
  /\ at' = at + 1
  /\ IF pname[at] /= NoName
     THEN UnaliasedCrapup(at, TRUE)
     ELSE UNCHANGED <<queue, pname, iamon, away, uaf, idTable>>
  /\ UNCHANGED <<handlers, pid, idCounter, savedCounter, mobIds, phase, actor, forcer>>

TermEnd == phase = "term" /\ at = N /\ Boot(uaf, savedCounter)

\* The process dies between two handlers and is started again.  (For the place
\* within a handler that matters here see CrashInGetGender.)
Crash == Boot(uaf, savedCounter)

-----------------------------------------------------------------------------
Login(i) ==
  \/ NewConnection(i) \/ GetPname1(i) \/ GetPname2(i)
  \/ GetNewPass1(i) \/ GetNewPass2(i) \/ GetGender(i)
  \/ GetPasswd1(i) \/ KickOutYn(i) \/ Talker(i)

Command(i) ==
  \/ CmdOther(i) \/ CmdSub(i) \/ CmdBecome(i) \/ CmdLeave(i) \/ CmdShutdown(i)
  \/ CmdDestruct(i) \/ \E j \in Slots : CmdRemove(i, j)
  \/ \E n \in Names : CmdDelete(i, n)
  \/ \E old, new \in Names : CmdRename(i, old, new)

\* What the process does next without being told to.
Internal ==
  \/ EndConnection \/ NothingToEnd \/ After
  \/ ShutdownStep \/ ShutdownEnd \/ TimerEnd \/ TermStep \/ TermEnd

Next ==
  \/ \E i \in Slots :
       \/ Login(i) \/ Command(i) \/ Sub(i) \/ Becom(i) \/ Eof(i) \/ TimerDeath(i)
       \/ CrashInGetGender(i)
  \/ Internal
  \/ TimerStart \/ TermStart \/ Crash

Spec == Init /\ [][Next]_vars

\* A handler, the timer and the exit come to their end, and an alarm every two
\* seconds cannot keep the loop from the quit list for ever (timing.c:520).
Fairness ==
  /\ WF_vars(NothingToEnd \/ After \/ ShutdownStep \/ ShutdownEnd
             \/ TimerEnd \/ TermStep \/ TermEnd)
  /\ SF_vars(EndConnection)

FairSpec == Spec /\ Fairness

-----------------------------------------------------------------------------
(* What the sessions promise *)

\* The parts of QuitListSound: the head is queued, if anyone is; only connections are; what
\* follows in the list is queued and not the head; whoever is queued is reached;
\* nobody is reached from two sides; no part of the list leads only into itself.
HeadQueued ==
  IF quitList = NoSlot THEN \A i \in Slots : ~Queued(i) ELSE Queued(quitList)
QueuedLive == \A i \in Slots : Queued(i) => Live(i)
NextQueued ==
  \A i \in Slots : Queued(i) /\ quitNext[i] /= NoSlot =>
    Queued(quitNext[i]) /\ quitNext[i] /= quitList
AllLinked ==
  \A i \in Slots : Queued(i) =>
    i = quitList \/ \E j \in Slots : Queued(j) /\ quitNext[j] = i
NextInjective ==
  \A i, j \in Slots :
    Queued(i) /\ Queued(j) /\ quitNext[i] = quitNext[j] => i = j
NoCycle ==
  \A S \in SUBSET {i \in Slots : Queued(i)} :
    S /= {} => \E i \in S : quitNext[i] \notin S

\* The quit list is a list: it holds exactly the players with a quit_next, each
\* once, and following quit_next from quit_list ends (mud.c:535, main.c:607).
\* (After SIGTERM the list is not used any more and free slots are put on it.)
QuitListSound ==
  phase /= "term" =>
    /\ HeadQueued /\ QueuedLive /\ NextQueued
    /\ AllLinked /\ NextInjective /\ NoCycle

\* Whoever is in the game has a name and a connection that is not about to be
\* closed: end_connection() never pulls the slot from under a character.
InGameLive ==
  \A i \in Slots : iamon[i] => pname[i] /= NoName /\ Live(i) /\ ~Queued(i)

\* A line of input is understood as a command or an answer of the game only in
\* the game, as an answer to a login prompt only outside of it, and every prompt
\* past the first has a name to work on; only a character of the game can be
\* aliased; and becom() finds a handler below its own (mud.c:37).
StageSound ==
  \A i \in Slots :
    /\ away[i] => iamon[i]
    /\ Live(i) /\ ~Queued(i) =>
         LET h == Head(handlers[i]) IN
         /\ h \in LoginStages => ~iamon[i] /\ Len(handlers[i]) = 1
         /\ h \in GameStages => iamon[i]
         /\ h \notin {"pname1"} => pname[i] /= NoName
         /\ h \in {"becom", "on_becom"} => Len(handlers[i]) > 1

\* find_mobile_by_id() never leads to the wrong slot: an entry of id_table names
\* a player in the game who has this ID, or a mobile that BECOME gave it to
\* (mobile.c:1006, 1247; commands.c:1498).
IdTableSound ==
  \A x \in Ids \cup {NoId} : idTable[x] /= NoSlot =>
    IF idTable[x] = OfMobile THEN x \in mobIds
    ELSE InGame(idTable[x]) /\ pid[idTable[x]] = x

\* Whatever the restarts, no persona, and no character still to be saved, has an ID
\* later than the next one in the file of the counter, and what memory has counted the
\* file has counted too: a restart between two handlers repeats no ID, and the crash
\* between the two writes at most the one of the record that it has cut off (uaf.c:110,
\* 128; bootstrap.c:698).
IdsUpToCounter ==
  \A x \in {uaf[n] : n \in Names} \cup {pid[i] : i \in Slots} :
    /\ x <= savedCounter
    /\ x < idCounter => x < savedCounter

\* The slots are used the way Lifecycle says, whatever the order in which users
\* type, connections break, the timer fires and the process is restarted.
SlotStatus(i) ==
  IF ~Live(i) THEN "free"
  ELSE IF Queued(i) THEN "leaving"
  ELSE IF iamon[i] THEN "game" ELSE "login"

Slot == INSTANCE Lifecycle WITH status <- [i \in Slots |-> SlotStatus(i)]

LifecycleSpec == Slot!Spec
EventuallyFreed == Slot!EventuallyFreed

-----------------------------------------------------------------------------
(* What the program says of itself and does not keep *)

\* "There is already someone named %s in the game." (mud.c:344): get_passwd1()
\* is there to keep a second player of the name out.
UniqueNames ==
  \A i, j \in Slots : InGame(i) /\ InGame(j) /\ pname[i] = pname[j] => i = j
==============================================================================
