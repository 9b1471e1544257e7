# A verification development for the MUD server

This directory holds TLA+ models of the multi-user game server in `src/mud/`, the TLC
configurations that check them on small instances, and theorems about them that the TLA+
proof system checks for every value of the constants. It says what the program keeps in
order, and in five places what it says of itself and does not keep.

The server is one process around `select()`. There are no threads: a handler runs to its
end, and what makes the program hard is what happens *between* handlers, inside loops whose
body changes what they loop over, after a `longjmp` out of the middle of a command, when a
timer comes in, and after a crash. Almost everything refers to everything by a number: a
slot of `players[]`, an index of `objects[]`, a file descriptor, an ID. The models are about
those numbers and about the records of one fact that are kept in several places.

    cd tla
    tlc -workers 2 -config MCSessions.cfg MCSessions
    tlapm Objects_proofs.tla

## 1. The system

| Component | Sources | State it keeps | Operations | Models |
|---|---|---|---|---|
| Sessions | `mud.c`, `uaf.c`, parts of `mobile.c`, `commands.c`, `main.c` | per slot the stack of input handlers, `quit_next`, `pname`, `mob_id`, `iamon`; the quit list; the ID counter; the ID table | connect, the login prompts, taking over one's own character, entering, commands that end sessions or move personas, end of file, timer, SIGTERM, restart | `Sessions`, `Lifecycle` |
| Persona file | `uaf.c`, `change.c`, `flags.c`, `wizard.c`, `frob.c` | the records of the file, the copy in each slot | look up, write, delete; login, save, every change in the game or in the file, rename | `Personas` |
| Conversations | `frob.c`, `writer.c`, `mail.c`, parts of `commands.c`, `change.c`, `magic.c` | the handlers on a stack, `work`, the chain of writers | begin, go on, be forced to begin another, end, leave half-way | `Slots` |
| Snooping | `bprintf.c`, `mobile.c`, `mud.c` | `snooptarget`, `snooped` | snoop, stop, depart, turns of the timer | `Slots` |
| Event loop | `main.c`, `mud.c` | `sockets_fds`, `buffer_fds`, `inp_buf_c`, per slot `fil_des` and the input buffer, the timer flag | `select()`, the scan, accept, one line per scan, ending connections, the alarm | `Input` |
| Integer sets, ID hash | `utils.c`, `utils.h` | a resizable array with a cursor; the hash chains | add, remove, first, next; insert, lookup, remove | `IntSet`, `Traversal`; the hash as a function in `Sessions` and `Clones` |
| Objects and containment | `objsys.c`, parts of `commands.c`, `magic.c`, `mobile.c`, `fight.c`, `zones.c` | `oloc`, `ocarrf`, the sets of rooms, objects and characters, `pwpn`, flags | every command and event that moves an object or changes how it is carried | `Objects` |
| Fighting, helping, magic | `fight.c`, `mobile.c`, `magic.c` | `pfighting`, `phelping`, `w_peace`, who is dead, a dead mobile's killer | blows, deaths, flight, spells, peace, help | `Combat` |
| Mobiles | `mobile.c` | place, name, strength, killer | wander, fight, attack, steal, reset | the timer in `Combat`; what they take in `Objects`; where they go in `Rooms` |
| Zones, rooms, doors | `zones.c`, `rooms.c`, `move.c`, `objsys.c` | exits, who leads to a room, linked door states, reset values | walking, jumping, EXITS, opening and pushing, resets | `Rooms`; the walk of a reset in `Clones`, its objects in `Objects` |
| Clones and wizard zones | `clone.c`, `zones.c`, `bootstrap.c` | the three arrays and their lengths, the ID table, the sets of the zones, the files | clone, destruct with renumbering, store, load, reset, crash | `Clones`; exits in `Rooms` |
| Alias and polymorph | `commands.c`, `mobile.c` | `pretend`, SFL_OCCUPIED | alias, unalias, being destructed, being thrown out | `Clones`, and `away` in `Sessions` |
| Opening hours | `timing.c`, `mud.c` | the table of hours, `open_state`, the next event | login, timer, restart | `Hours` |
| Parser and executive | `parse.c`, `exec.c`, `condition.c`, `actions.c`, `database.c` | `doing_table`, `mynum`, the two jump targets | dispatch, tables of conditions and actions | the dispatch in `Sessions`; OPEN, CLOSE, LOCK in `Objects` and `Rooms` |
| Wizards' commands | `wizard.c`, `change.c`, `flags.c`, `frob.c` | attributes, levels, privileges | set, frob, zap, shut down | as changes of a persona in `Personas`; those that end sessions in `Sessions` |
| Messages, output buffers | `sendsys.c`, `bprintf.c` | output buffers | send, flush | not modelled |
| Start-up and daemon | `main.c`, `s_socket.c`, `bootstrap.c` | pid file, options | boot, restart | what survives a restart, in `Sessions`, `Clones` and `Personas` |
| Weather, logging, build tools, world data, scripts | `weather.c`, `log.c`, `generate.c`, `data/`, `bin/` | texts | | not modelled |

How they interact: the event loop calls the handler on top of a slot's stack with one line
of input; a handler may push, pop or replace handlers, call the parser, queue itself or
somebody else on the quit list, or leave by `longjmp(to_main_loop)`; the loop works off the
quit list between any two descriptors. The parser calls the commands, which work on objects,
characters and rooms by number. The timer calls the same functions with no player behind
them (`mynum` is -1). Loops over what a place holds use the cursor inside the set itself.

What makes each correct, and what is hard about it:

- *Sessions.* A slot is used by one connection at a time and given back; the handler that
  gets the next line fits the state of its player; lookups by ID find the right slot; IDs
  do not run ahead of the counter that a restart reads. Hard: two logins under one name
  interleaved with commands about that name, taking over one's own character, being thrown out
  inside somebody else's command, being forced to a command at any prompt, a crash between two
  writes.
- *Event loop.* Each line is handled, each hang-up noticed, and the process sleeps exactly
  when there is nothing to do. Hard: several lines in a packet, connections ended and
  descriptors reused in the middle of a scan, descriptors exchanged between slots.
- *Integer sets.* A loop comes by each element once whatever its body does. Hard: the gap
  that a removal leaves is filled with the last element, and the array shrinks and grows.
- *Objects.* The three records of where a thing is agree; nothing is in itself; nothing
  leaves the game or is paid for twice. Hard: dozens of commands, each with its own order.
- *Fighting.* A fight is a number kept on one side: it begins only where the two are, and it
  ends, although its other end may die, leave, be summoned or fight a third meanwhile; a dead
  mobile is not deceived by who sits in its killer's slot.
- *Clones.* What is referred to by number is followed when the number changes, in every table
  at once; a loop that destructs the elements of a set passes over none. Hard: an entry in a
  gap of another zone, a carried container, an alias to the one that moves.
- *Rooms.* Each exit leads somewhere; each room knows who leads to it, so that they can be
  closed; both sides of a door agree. Hard: two exits to one room, a copy of a room whose
  exits were changed, a reset that trusts a mark.
- *Hours.* The game is open in its hours. Hard: the week goes round between any two of them.
- *Conversations, snooping.* What a slot keeps from line to line belongs to the one whose
  line it is. Hard: a handler within a handler, a slot with a new occupant.
- *Personas.* A change of a persona is not lost, doubled or undone, wherever the persona is.
  Hard: every session past the name prompt holds a copy.

`PROJECT.json` lists every component with its status, and under `hazards` each place where
these difficulties bite, with the properties that watch it or the reason there is none.

## 2. The modules

### Lifecycle and Sessions

`Lifecycle` is the abstract promise: a slot is free, logs in, plays, leaves and is free
again, in that order; a restart frees all. `Sessions` is the code. A handler is one action
with the guard `Reads(i, h)`, which is `handle_packet()` picking the top handler: `Login`,
`GetPname1`, `GetPname2`, `GetNewPass1`, `GetNewPass2`, `GetGender`, `GetPasswd1`,
`KickOutYn`, `Talker`, `Becom`, `Sub` (any handler that takes the place of `get_command` for a
while: the writer, frob, the change of a password), and one action for each class of commands:
`CmdOther`, `CmdSub`, `CmdBecome`, `CmdLeave`, `CmdRemove` (ZAP, EXORCISE and whatever kills),
`CmdDelete`, `CmdDestruct`, `CmdRename`, `CmdShutdown`. `QuitPlayer`, `Crapup`,
`UnaliasedCrapup`, `Depart`, `Removed`, `Inserted`, `Popped` and `Replaced` are the functions of
the same names.

A command is typed (`Types`: at the prompt of `get_command`, or from within the writer), or the
player is forced to it (`Forces`): `forcecom()` calls `gamecom()` for the victim *whatever handler
is on top of his stack*, and the parser only refuses some commands, BECOME among them
(`parse.c:209`). So a player at the password prompt of BECOME or before the message of the day can
be made to ALIAS, to begin a text, to die. "on_motd" and "on_becom" are a text or a frob that
somebody was forced to begin at these prompts and that leads back to them. `After` is what
`special_events()` does once a command is over; with FORCE it runs for the victim and then for the
one who forced him. `Forcers` are the slots whose players have the privilege.

`MobileBecomes` is what that leads to: `becom(passwd)` does not look again whether its player is
aliased, `mynum` is then the mobile, and the mobile gets the ID of the persona. `mobIds` are the
IDs that mobiles have got in this way, and `OfMobile` an entry of the table that leads to one.

A handler that loops over slots and ends sessions (`SHUTDOWN`, the exit after SIGTERM, the
timer) is one step per slot; `phase` says where the process stands and keeps all else out.
`phase = "jumped"` is the state after `longjmp(to_main_loop)`: the next thing that happens is
*one* connection being ended. `Crash` is the death of the process between two handlers,
`CrashInGetGender` that between the two writes of `get_gender()`, the persona and the counter;
`Boot` is what a restart finds: the persona file and the counter as last saved.

Passwords, levels and privileges are abstracted: a check is a choice. `uaf` is the ID under
each name; `idTable` is the hash restricted to the IDs of personas.

### Input

The kernel side (`open`, `pending`, `hungUp`, `backlog`, what `select()` returns) is external
and nondeterministic; the rest follows `main_loop()`, `handle_packet()`, `new_connection()`,
`end_connection()` and `kick_out_yn()` statement by statement as far as descriptors, buffers,
marks and the count go. One scan is as many steps as there are descriptors. `IsPlIndex` is
`find_pl_index()`: the lowest slot with that `fil_des`, free or not. What a line makes a
session do is one of seven kinds (`Plain`, `Enter`, `GiveUp`, `Leave`, `Remove`, `KickOut`,
`Eof`); the order in which the quit list is worked off is that of `Sessions` and here a set.
The alarm may come between any two steps, the one between the test of the flag and `select()`
included.

`KickOut` is `kick_out_yn()` as it is: any user who answers it takes over the character of his
name, whatever lies in either buffer and whatever slot has kept which number. `swapped` is a history
variable: the players whose connection came to them in this way. The properties say of them what
still holds, and the run `select_sleeps` shows what does not (section 5).

`Blocking` says whether `read()` waits. `s_socket.c:65` sets O_NDELAY on the socket that is listened
to, and it depends on the system whether the connections accepted from it inherit that. Where they
do not, and a descriptor is marked with nothing to read, the process stands in `read()` (`Waits`)
until that client sends something, hangs up, or the alarm interrupts it (`Interrupted`).

### Traversal and IntSet

`Traversal` is what a loop relies on: `members`, the elements still `todo`, the last one
`got`. `IntSet` is `utils.c` cell by cell: the array, its length with the rules of
`check_for_possible_resize()`, the cursor, and `remove_int()` filling the gap with the last
element and stepping the cursor back. `Traversal` is instantiated in `IntSet` with a
refinement mapping that reads `todo` off the cells past the cursor.

### Objects

`oloc` and `ocarrf` are the object's own record, `inv` the set that each room, object and
character keeps, `pwpn` the weapon a character remembers. `Goes` is `setoloc()` for several
things at once and takes the old place out of the set that the *flag* names, as the code
does. A command is one action: `GetHere`, `GetFrom`, `Drop`, `Empty`, `Put`, `PutDown`,
`Give`, `Feed`, `Steal`, `Wear`, `Remove`, `Wield`, `Eat`, `OpenClose`, `Summon`,
`Resurrect`, `Revive`, `Exorcise`, `Kill`; events are `Enter`, `Walk`, `Flee`, `Leave`,
`FallInFight`, `MobSteal`, `MobPick`, `ResetZone`. A loop over a set is the set itself, which
`IntSet` justifies. `Landed` is `dropinpit()` with the two kinds of chutes. `scored` is a
history variable. `Wizards` are those who also see destroyed things (`iscarrby()`); when the
timer acts there is no such level to ask (`plev(-1)`), so that either answer is possible.

Names are abstracted to the object they mean. Where the code finds an object again by its
name after having had it in hand (EMPTY drops what it took out), it finds the same one. What
a command does with one particular object of the world (breaking the rock, the shields torn
off a wall, the candlestick, the sundisc), clones, and the tables in `database.c` other than
OPEN, CLOSE, LOCK and UNLOCK are left out, and objects that a zone file makes destroyed from
the start are not considered.

### Combat

`stage` is a slot (free, at the login prompts, in the game, on the quit list: `Lifecycle`
with the last two told apart), `ploc` the places, `pfighting` and `phelping` the numbers that
the code keeps, `pscore` the slot of a mobile's killer. `Wound`, `Hit`, `EndFight` and
`Departs` are `wound_player()`, `hit_player()`, `setpfighting(x, -1)` and `xcrapup()`; they
take the enemies as they are when the blow falls, because `killcom()` sets them first. The
commands are `Kill`, `Spell`, `Zap`, `Provoke` (whatever makes a mobile strike back),
`WoundMon`, `Walk`, `Flee`, `Teleport`, `Summon`, `Help`, `Leave`, `Exorcise`, `Feed`, `Gift`,
`Resurrect`, `Heal`, `War`, `MakePeace`; a session is `Connect`, `Enter`, `GiveUp`,
`EndConnection`. `Comes` is `trapch()`.

A command runs to its end while the timer is idle. The timer is one step per character:
`MoveMob` for `move_mobiles()`, `Onlook` for the first loop of `onlook()` from the last
character to the first, `Look` and `Attack` for `chkfight()`, which goes over the people in
the room as they were when it came (what `Traversal` justifies: a blow by the mobile takes at
most its victim out of the set), and `EndTick` for `dorune()` and `helpchkr()`.

Strength is reduced to whether a blow kills, which any blow may. `cast_spell()` ends without
a `return`; as built it gives back what `wound_player()` gave, so that a spell of a mobile
that did not kill is followed by a blow with the same effect on who fights whom, and both are
one `Wound`. `deserved` is a history variable: the dead whose killer is still in his slot, or
whose score has been changed since (`Rewarded`: a meal, a rose, CHANGE SCORE), for the score is
where a mobile remembers its killer. Every mobile has a home that exists.

### Clones

The three arrays (`room_data`, `ublock`, `objects`) are treated alike by `clone.c`, so that one
function from the kind and the number to an entry stands for them, and one definition for each
step of the three `destruct_...()`: `Spill` and `Emptied` are what becomes of the contents,
`Gap` the entry taken out of the world, `Filled` the top entry moved into the gap with
`ZonesAfter`, `TableAfter`, `PretendAfter` and the new place of what it holds. `FindPretender` is
`find_pretender()`, the first player who is away in a mobile with the mark SFL_OCCUPIED: only he
is thrown out of it, or told its new number. A reset sets the marks to those of the reset
(`occReset`), which STORE takes over from the present ones; so it can take the mark from a mobile
that a player is, a second one can then become it too, and whom `find_pretender()` does not find is
left with the number he has. `Clone`, `Found`
(what EXAMINE finds in a thing is a clone), `Destruct`, `Store`, `Load` and `Reset` are the
commands; `Carry`, `Goto` and `Alias` are what others do to the entries meanwhile.

A reset is one step per element (`SweepStep`), because its loop body destructs: `left` is what
the cursor has not come by, as `Traversal` says, and `again` the number that was filled from
the same zone and is done once more (`*index_reused`). `CrashInStore` is a crash between two of
the files that STORE writes.

After `room_data[l] = room_data[numloc - 1]` and its like, two entries share one array of
numbers, and the loop that tells the contents their new place changes that array under itself.
`Rehoused` says when it ends: with at most one element of each kind. With two it never does, and
the server hangs; `stuck` is this state, out of which only a restart leads. The properties are
about the steps that end.

### Rooms

`room` is `room_data` with the exits, their values at a reset, the mark `touched` and `toMe`
(`exits_to_me`). `SetExit` is `setexit()`, and everything that changes an exit goes through it:
`ResetLocation`, `Exits`, `CloneLocation`, `ClearedExits`; `Loop` is a `for` of the code. A door
is an object with a linked one on the other side; `SetObjState` is `setobjstate()`, which sets
both. `HandleDoor` has the ways to set a door that are not special (OPEN to `ClickShut`),
`PushCross` the one hole that two things open together. `Walk`, `Goto`, `Jump`, `MoveMob` are the
ways to move; the reset is `ResetZones` for permanent zones and `ResetWizZone` for that of a
wizard. Exits are changed only while the doors are as at a reset (`Quiet`) and doors only while
the exits are (`Plain`): no code looks at both but walking, which changes neither.

`DestructLocation` renumbers the last room as the code does, without a word to those who lead to
it, and without its number in the sets of those it leads to (run `exits_to_me`). Two history
variables follow the damage: `lost` are the rooms with an exit to a room that has moved, or of
one, and copies of them, `blurred` the rooms that know such an exit, under the numbers that they
have now. `ExitsKnown`, `InARoom` and `ResetRestores` say that no other room is ever affected. A
mobile walks through such an exit even when no room has its number (`movemob()` does not ask):
its place is `Nowhere` then.

### Hours

`Wraps`, `Unrolled`, `FirstLater`, `NextTime`, `Diff` are `blater()` with the loop of
`xboot_times()`, `ok_week_time()`, `later()` in the two searches of `next_time()`, and `diff()`.
A time is the minute of the week, the clock goes in half minutes because of `round_to_min()`,
and the timer may come late by up to `MaxLate`. `LoginOk` is `login_ok()`, `OnTimer`
`check_if_closed()`. What is compared with them, `InHours` and `Ahead`, is defined from the
lines of the file alone. `Carried` are the times that `xboot_times()` puts into the next week: all
those from the place on where the times decrease, which in a file that does not cross the turn of
the week is the first.

### Slots

The record of a player between two lines of his input. A handler is a function and the number
of the conversation it was put there for, and so are a structure in `work` and a writer; the
program has only the pointers, so that "this is the one of that conversation" is what can be
lost. Each dialogue is its beginning (a command, typed, or forced: `Ordered`) and its end; its
middle lines change nothing here. `Replaced`, `Pushed`, `Popped` and `GetCommand` are the
functions of `mud.c`. What somebody leaves half-way stays in `work` and `writer` for the next
occupant of the slot, as in the program.

Snooping is in the same module because it is of the same slots: `Snoop`, `SnoopOff`, `Depart`,
`SpecialEvents` after a command and in the timer. `Reuse` says whether a slot may be taken again
before those who snooped on its last occupant were told ("any", as in the code, is finding 2).

A behaviour of `MCParts` is one of `Rooms`, `Hours`, `IntSet` or `Slots`, which share no variable:
one run checks the four.

### Personas

`file` is the persona file record by record with its blanks; `session` the copy in a slot from
the name prompt on. A persona is a name, an ID and one value. `Found` is where `finduaf()` stops.
Each command that writes a persona is an action or one of a family: `ChangeInGame` and
`ChangeInFile` stand for all setters of one attribute, which differ in the attribute only;
`ChangePasswd`, `ChangeName`, `Delete`, `Zap`, `Becom` have their own order of reads and writes.
`latest` and `clashed` are history: what was last decided about a persona, and to which ones one
of the clashes listed in `OnlyClashesLose` has happened. The comparison of the two is the
property.

## 3. The runs

| Run | Instance | Checks | Shows |
|---|---|---|---|
| `sessions` | 2 slots, 2 names, 1 ID, one slot with the privilege of FORCE | `QuitListSound`, `InGameLive`, `StageSound`, `IdTableSound`, `IdsUpToCounter`, `LifecycleSpec`, `EventuallyFreed` | no order of logins, take-overs, deaths, commands forced at any prompt, renames, hang-ups, timer, SIGTERM, crash and restart breaks the quit list, the stacks or the table, or lets an ID run ahead of the counter on file; `Sessions` implements `Lifecycle`, and who is on the quit list gives his slot back |
| `input` | 2 connections, packets of up to 2 lines, any take-over while the count is right, one client who may break off, `read()` that waits | `BufferedMarked`, `Listening`, `DescriptorsOwned`, `CountKept`, `InputServed` | descriptors have one owner; marks and slots are right for whoever has the connection he came with; the count goes wrong only at the end of an exchanged connection, by one; lines and hang-ups are served but for what an exchange leaves behind |
| `objects` | a mortal, a wizard, a goblin; two wearable containers, one a weapon; a hall with a pit, its floor, the room of the dead | `Located`, `NoCycle`, `WornOnce`, `NothingTakenAlong`, `ScoredOnce` | the records of where things are agree under every order of commands, deaths and resets |
| `combat` | a wizard, a mortal, a mobile that wanders, attacks, avenges and is fed; a hall and the room of the dead | `KillerRemembered`, `FightsBeginHere`, `BondsEnd` | no fight starts at a distance, none and no help outlives the next passes of the timer, no newcomer is taken for a killer |
| `clones` | a room, two players, a mobile, a thing; two more of each; two zones | `NumbersTrue`, `IdsBelowCounter`, `OthersStay`, `AliasFollows`, `ResetComplete` | whatever refers to a number follows it, nobody else is moved, the player found to be away in a mobile follows it, a reset passes over nothing, an ID is given out once |
| `personas` | 2 slots, 2 names, 2 values, 3 characters | `OneRecordEach`, `OnlyClashesLose` | a name has one record; a persona is not lost, doubled or revived but by the clashes listed |
| `parts`, rooms | 2 permanent rooms, 2 doors in 2 zones, 2 cloned rooms, 2 directions | `ExitsKnown`, `InARoom`, `DoorsTrue`, `ResetRestores` | exits, their back references and doors agree, and a reset restores whatever was changed, but for the rooms joined with one that has got another number |
| `parts`, hours | a week of 7 minutes, every file of up to 2 lines, a timer up to 3 half minutes late | `HoursKept`, `EventOnTheWeek` | who logs in is let in exactly in the hours of the file, and the timer waits for the next time of the file, or for it a week later exactly when a time of this week was put into the next |
| `parts`, sets | 5 elements, initial length 30 | `ArrayFits`, `IsSet`, `TraversalSpec` | no write past the array, no double, no loop that misses or repeats an element |
| `parts`, slots | 3 slots, one of which talks; 3 conversations, nested to depth 3 | `WorkOwned`, `WriterOwned`, `SnoopCounted` | no handler takes another's subject or text for its own; the snoopers are counted |
| `unique_names` | 2 slots, 2 names | `UniqueNames` violated | finding 1 |
| `snoop_miscounted` | 3 slots | `SnoopCounted` violated | finding 2 |
| `select_sleeps` | 2 connections, any take-over | `SelectSleeps` violated | finding 3 |
| `exits_to_me` | the rooms of `parts` | `ExitsToMe` violated | finding 4 |
| `event_is_next` | the hours of `parts` | `EventIsNext` violated | finding 5 |

Bounds. `MaxId` stops the creation of characters (the guard in `GetGender`); with one ID the second
name is reached by CHANGE NAME, and a copy of a persona renamed, deleted or revived by a login
prompt still collides with the bearer of its ID; a persona cut off by a crash has the ID that the
next one gets. One slot may FORCE, at every prompt of the other and of its own. `MaxStack` bounds
the depth of a handler stack: BECOME pushes one handler on `get_command`, and only what is begun
under force at its prompt can leave `get_command` there twice, from where another BECOME would push
a third; the code asks of the depth only whether it is more than one. `MaxLines` bounds what is on
its way on one descriptor; two lines in a packet are what makes the buffer matter. `MaxDrift` stops
take-overs once the count is off, which would otherwise grow for ever, and `Breaking` are the
descriptors whose clients may hang up without the game having closed them; both connections end in
every other way. Two slots give every interaction of a player with another. In `parts` the array
starts with room for 30 and is cut to 15, 7, 3, 1 and 0 cells on the way, then grown again, with
every position of the cursor. In `objects` either thing can hold, be held in, be worn instead of, or
fall with the other. The scored history is counted up to 2. In `combat` two players and a mobile are
the smallest company with a third party to a fight; the mortal can be left behind in the hall by the
wizard, and the mobile is in the other room when it is dead or summoned. No room of the instance is
peaceful; peace of the world, which is asked at the same places, comes and goes. In `clones` two
players can be in one mobile, one of them walks (`Walkers`), and each array has room for two more
than it starts with, so that one can fill the other's gap, from its own or the other zone; `MaxId`
and `MaxStored` bound the IDs given out before and after the first STORE, things are put into newer
ones only, and of the mobiles only those that may be renumbered walk and are aliased. `parts` looks
at every file, minute and lag of its week; `Diff`, the wrap and the two searches know the length of
the week only as a constant. Of the rooms, `Changed` and `Targets` are the exits that wizards set,
and where to: one from a cloned room and one from a permanent one, which has two exits to the same
room, as have its copies, so that one of two can go. Of the slots, one player talks and the others
order him to (`Speakers`), while nobody is snooped on; whoever snoops does so while nobody talks:
the two share no variable but the slot. A third conversation tells "the one before" from "the one on
top". In `personas` two names and three IDs give every confusion of a name with its bearer; names
and values are symmetric, since the model compares them only. Every action of every module fires in
a passing run. No state is a deadlock in any run.

Fairness. `Sessions` assumes that the steps of the process itself go on (weak fairness) and that
`EndConnection`, which is possible again and again, is not put off for ever by the timer (strong
fairness): the branch for the timer comes before the one for the quit list (`main.c:536`), but
`set_timer()` leaves two seconds between alarms (`timing.c:520`) and a pass of the loop is short
against that. `Input` assumes the same of the loop: weak fairness of `Head \/ Scan` and of the timer
branch, strong fairness of going past the timer. Nothing is assumed of clients, of the alarm, of a
`read()` that waits being interrupted, or of crashes. `Combat` assumes weak fairness of the timer's
steps: every alarm asks for the next one (`set_timer()`, `main.c:536`, `timing.c:515`), and no
command can come between the steps of one pass. `BondsEnd` then says that a fight with somebody who
is not there, or an offer to help him, is found at the latest when the second pass comes by it: the
fight can begin to be stale after `onlook()` has been at that character.

## 4. The proofs

| Module | Theorems | Inductive invariant |
|---|---|---|
| `Sessions_proofs`, about `Sessions` | `TypeCorrect`, `QuitListCorrect`, `InGameCorrect`, `StageCorrect`, `IdTableCorrect`, `CounterCorrect`, `Refinement` | `TypeOK /\ QuitListSound /\ InGameLive /\ StageSound`, then with the table and the counter |
| `Sessions_proofs`, about `Hours` | `HoursCorrect`, `EventCorrect` | `HInv`: the times are the unrolled lines of the file; from it `Listed` |
| `Clones_proofs`, about `IntSet` | `SetTypeCorrect`, `ArrayFitsCorrect`, `IsSetCorrect`, `LoopCorrect` | `SetInv`: `SetTypeOK /\ ArrayFits /\ IsSet` |
| `Clones_proofs`, about `Clones` | `NumbersCorrect`, `IdsCorrect`, `OthersCorrect`, `AliasCorrect`, `ResetCorrect` | `IInv`: there are kinds of the IDs for which `World` and `Disk` hold, and `Sweeping`; for the reset also `Complete` |
| `Objects_proofs` | `TypeCorrect`, `LocatedCorrect`, `NoCycleCorrect`, `WornOnceCorrect`, `NothingTakenAlongCorrect`, `ScoredOnceCorrect` | `TypeOK /\ Located /\ NoCycle /\ NothingTakenAlong /\ Dressed /\ Scores` |
| `Combat_proofs` | `TypeCorrect`, `KillerCorrect`, `FightsBeginCorrect` | `TypeOK /\ KillerRemembered` |
| `Rooms_proofs` | `DoorsCorrect`, `ExitsCorrect`, `PlacesCorrect`, `ResetsCorrect` | for the doors `StateOK /\ DoorsTrue`; for the others `RInv`: `Known`, `Unique`, `Restores`, types and `Placed` |
| `Slots_proofs` | `WorkCorrect`, `WriterCorrect`, `SnoopCorrect` | types and `Chains` (every chain of handlers is `Safe`); for the count that whoever snoops is in the game |
| `Input_proofs` | `TypeCorrect`, `DescriptorsCorrect`, `CountCorrect`, `MarksCorrect`, `ListeningCorrect` | `TypeOK /\ Conn`, then `Lined`; for the count `Surplus` step by step |
| `Personas_proofs` | `OneRecordCorrect`, `LosesCorrect` | `Types /\ Coherent(Live(file), Seats(session), clashed, latest)` |

Each proof has one lemma per action, with the facts that several actions share (what a push
on the quit list, a move of a set of things, a fall into the pit keep) stated once.

*Sessions.* The quit list is a linked list in an array, and "it is finite" is not a property a step
preserves by itself. `QuitListSound` therefore says it without recursion: the head is queued,
successors are queued, everybody queued has a predecessor or is the head, no two have the same
successor, and no set of queued players leads only into itself. `StageSound` is needed for
`InGameLive`: that a slot which ends has no character in the game depends on the handler it was in.
Both are statements about each slot by itself (`SlotOK`), so that an action is looked at for the
slots it touches only; that includes a slot that is forced to a command, at whatever prompt it
stands. For the IDs, `IdsOK` says more than `IdsUpToCounter`, that between two steps the counter on
file is the one in memory: a crash between the two writes of `get_gender()` leaves a record with the
ID that is next, and the restart begins with the counter on file again. `TableSound` strengthens
`IdTableSound` with the entries that lead to a mobile that has got the ID of a persona. Assumptions:
there is a slot, those who may FORCE are slots, the empty name is none, at least one ID, a stack of
two.

*Hours.* The hours decide whether a session begins, and their theorems stand behind those about
`Sessions`; the two modules share no variable, and `Hours` has its own names (`HoursSpec`,
`HoursNext`). `UnrolledRises` is what `xboot_times()` achieves: a list that decreases in one place
on the way round becomes one that rises, spans less than a week and ends in the second week
(`Rising`); that it rises from any time to any later one, and not only to the next, is shown by the
least counterexample, since induction is out of reach. `Between(n, m, now)` is where the search of
`next_time()` ends for the minute `m`: "now" is `m`, or `m` a week later when `m` is before the
first time, and lies between the times `n` and `n + 1`, or before or after all of them.
`FarFromNow` reads that as distances round the week, which is what the lines of the file mean
(`InHours`, `Ahead`); the proof needs that their number is even, and nothing about
`Warning1`, `Warning2` or the automaton of `check_if_closed()`. `CarriedTimes` is that exactly the
times from the wrap on are a week later in the table than in the file, and `NextAhead` that the
event is then the nearest of the file, or a week more than it exactly when the minute is `Skipped`.

*IntSet.* A zone keeps the numbers of what is in it in int_sets, and its reset loops over them while
it destructs their elements; so the proofs about `IntSet`, for one set of its own, stand at the head
of those about `Clones`; the names of the two modules are kept apart for that (`SetSpec`,
`SetNext`), and they share no variable. `ArrayFits` speaks of the length *after* the next change:
shrinking never leaves less than what is in use. The refinement needs `IsSet`: an element is `todo`
when its cell lies past the cursor, which says nothing if it had two cells. The initial length is
any natural number.

*Objects.* `NoCycle` is stated over sets of objects, so that no depth bounds it; a command keeps it
because what a player can reach is in no container, and a reset because zone files put nothing that
holds things into a container. `WornOnce` alone is not inductive: restoring a destroyed thing that
somebody still wears would break it, so that `Dressed` adds that what a mortal wears is not
destroyed. `ScoredOnce` is strengthened by: what has been paid for since it was last made anew is
destroyed. Assumptions (`PlacesAssumption`, `ThingsAssumption`, `ResetAssumption`): rooms, objects
and characters are different things, chutes lead to rooms, and a zone file puts things in rooms, in
containers if they are none themselves, or with mobiles of the same zone, one weapon each.

*Combat.* `KillerRemembered` needs no strengthening but the types: the newcomer's slot is
taken out of the memory of every mobile that is not alive, and whatever brings one back to
life takes it out of the dead. `FightsBeginHere` is proved of each step from the types: a
blow (`HitKeeps`) leaves the enemies as they were or fewer, or makes the attacker the
victim's, and only if `MayHit`. Assumptions (`CastAssumption`, `PlacesAssumption`): there is
a player and a mobile, and the places named are rooms.

*Rooms.* Only three actions touch a door, and each is one lemma: `SetKeeps` is `setobjstate()` for
a door with the other side anywhere, `PushKeeps` the two crosses with both sides of the hole,
`ResetKeeps` a reset of any set of zones. `StateOK` is needed because a cross moves by
`1 - state()`. Assumption (`DoorsAssumption`): what `mkdata` demands of linked objects, sides that
are reset alike, and a hole and crosses that start closed and share a zone.

The exits are set in loops, one direction or one room after the other. `LoopExists` says that such
a loop has its values in a set that every round keeps, and `UpTo` that what holds before the first
round and is kept by each holds after the last one; both rest on the least number at which something
fails. `SetExitIs` says what one `setexit()` leaves in each room and `SetExitKnown` that it keeps the
sets of those who lead to a room exact, which is where the search for another exit to the same room
is needed. From there `SetExitsIs` is a row of exits of a room that is known, `CopyKnown` that of a
copy which nobody knows yet, `ResetLocationsGood` a reset of any rooms, and `ClearedExitsIs` the two
loops of `destruct_location()`. `RInv` joins the three properties because none is inductive alone: a
reset finds a room by its ID, so that the IDs must be different (`Unique`) and below the counter,
where a copy gets its own; a room that was not touched when another one ended has kept its exits only
because the set of those who lead to the other was exact. TLC found `RInv` in all states of the
instance before it was proved.

`Known == Told /\ Meant /\ Fresh` is what is left of "everybody knows who leads to him" once a room
has moved: every room but the `lost` has told those it leads to, every room but the `blurred` was
told by rooms that lead to it only, and no number beyond the last room has been told anything. The
theorems have no hypothesis about who leads where when a room is destructed. `ClearSome` follows the
loops of `destruct_location()` also over a set that is wrong; `MovedFacts` and `ShrinkKeeps` put the
last room into the gap and show that the two history variables take in all that goes wrong, and
`KnownSame` that what changes no exit changes none of this. `Placed` says where the player and the
mobile can be; `StepGood` is `RInv'` and the action property of `InARoom` for every step. Assumption
besides those of the doors (`RoomsAssumption`): rooms and IDs are told from doors by their numbers,
as `reset_location()` does, and the exits at a reset lead to permanent rooms, doors or nowhere.

*Slots.* `WorkOwned` and `WriterOwned` speak of the handler on top of a stack, but the end of a
frob or of a text brings back another one, below it or kept in the writer, which must find its own
subject then. `Safe` says so for all that will ever come back, without recursion: there is a set of
configurations (stack, work, writers) to which the present one belongs, each of which is in order
on top and whose successor, when its top handler ends, is in the set again. Beginning a conversation
adds one configuration to such a set; ending one goes to the successor. `SnoopCorrect` has the
hypothesis `Reuse = "late"`, the order of events in which those who snoop are told before the slot
of a player who left is taken again; finding 2 is that the code does not ensure it, so that without
the hypothesis the statement is false.

*Input.* `Conn` is inductive whatever take-overs there are. `Lined` is what holds of the buffers
then: it speaks only of the slots that have the connection they came with (`Slots \ swapped`), and
adds to `BufferedMarked` that such a slot comes before any free one that has kept its number
(`FoundFirst`), which is what `find_pl_index()` relies on: the lowest free slot is taken, and a slot
that is given back keeps its number. A scan keeps `Lined` at each descriptor, not at its end only.
No theorem has a hypothesis about take-overs. `CountKept` is proved step by step from `Surplus`, the
difference between `inp_buf_c` and the players with lines: `TakesSurplus` shows that handling a line
leaves it, whoever the line was given to, and `EndSurplus` that the end of a connection does too,
unless it was exchanged, when it is off by one at most. Assumptions (`SlotAssumption`,
`LineAssumption`): there is a slot and room for a line.

*Personas.* The file enters the argument by the set of its live records only: `PutLive` and
`DelLive` say what writing and deleting do to that set, wherever the blanks are, and need that no
name has two records. On the set of records, the players (a function from slots to personas) and
`latest`, `Coherent` says who may share an ID or a name with whom and which copy is the current one;
six lemmas on such triples alone (`Put`, `Deleted`, `Dropped`, `Seated`, `Changed`, `Grows`) say
which changes keep it. Each handler is one or several of these, one after the other: BECOME is a
record written, a player leaving and a player coming in; CHANGE NAME of a player a record deleted,
the player changed and his record written. What a session at a login prompt holds is not in the
invariant at all: `Talker` compares it with the file, and a difference is a clash. Assumptions
(`PersonasAssumption`): there is a slot, and the empty name, the empty value and `Gone` are none that
is typed or given.

*Clones.* A world (`at`, `table`, `zset`, `pretend`) is one record `w` in the proofs, because a
destruction passes through worlds no state shows: unaliased, emptied, taken out, filled.
`World(w, f, c)` says of such a record that the arrays are dense and not shorter than what is
permanent (`Shape`), that what something is in exists and may hold it (`Held`), that things are in
newer ones (`Upward`), that permanents have their number as ID (`Permanents`), that all others have
one that the counter `c` gave (`Ids`), and that the table, the sets of the zones and the homes are
right (`Tabled`, `Zoned`, `Homes`). `f` gives every ID its kind for good. It is what makes the
statement inductive: a record in a file names its home by an ID only, which may belong to nothing
that is in the game now; when it is loaded or reset the code searches for the ID, and it must not
find a mobile where a room was written down. No variable keeps `f`; the invariant says that there is
one, and only a clone extends it, by the ID it is given.

`Alike` joins what moves and marks have in common (`StillWorld`): `PutWorld` and `MovedWorld` for one
thing, `SweptAlike` for all of a container. `GapWorld` takes what is destructed to the state before
the gap is filled, `FilledWorld` fills it: the one place where a number changes in four tables at
once. `ClonedWorld`, `StoredWorld` and `LoadedWorld` are the other commands, `LoadedWorld` for every
order in which the files of a kind may be read in; `StoredDisk` says that whatever part of the files
STORE has written, each file is consistent with the counter that is saved. `Sweeping` has, for a
reset on its way, that the elements still ahead are members of the set as it is now, so that the body
of the loop has a thing to work on. Assumptions: the sizes of the arrays, with the players among the
permanent characters (`bootstrap.c:162`), and homes of permanents that are permanent and may hold
them; that one thing is at home in a thing of a higher number only is the bound that `Carry` has
(section 5). Of `Rehoused` the proof needs nothing: the loop without end changes no table.

The action properties rest on one description of a destruction, `Renumbered(w, v, k, i)`: what has
the number `j` afterwards had `Was(j)` before, and is in `Now(InGap(j))`, where `InGap` is the place
once `i` has been emptied and taken out, and `Now` the number that place has from then on.
`OthersStay` follows from it with `NamesDiffer` (no two things have one identity: a permanent's is
below `IdStart`, any other's leads through the table to one number): `NamesKept` and `NumbersKept`
take things and places forth and back between the two worlds, and `OneGone` says that one identity
is lost. `AliasFollows` speaks of the one player whom `find_pretender()` finds in a mobile:
`PretendAfterwards` says that only he, and only the one found in the entry that moves, is thrown out
or told, whoever else is in them. `ResetComplete` is an invariant of the loop (`Complete`): whatever
the reset has gone over, the sets that are no longer in `todo` and of the present one what is no
longer in `left`, is `Fine`, may be left there. A destruction must not change that for what is left
(`FineStays`, a location with players in it keeps its number), and what comes under the number of
the one that is gone must still be ahead, which is what the inner loop on `reused` is for
(`zones.c:155`). When the loop of `Rehoused` does not end, nothing is said: no reset ends.

Only model-checked: all liveness (`EventuallyFreed`, `InputServed`, `BondsEnd`), which the prover
does not reach; and of course the violations.

## 5. Findings

1. *Two players of one name* (`mud.c:343`). `get_passwd1()` answers "There is already someone
   named %s in the game.", but the character enters one line of input later, in `talker()`,
   which does not look again; a new character is never looked for. Run `unique_names`.
2. *A count of snoopers that is not theirs* (`mobile.c:1760`). Those who snoop on a player who
   has left are told by `special_events()` only after the next command or alarm. When the slot
   has a new occupant by then, they snoop on him without his knowing: his `snooped` is 0.
   Run `snoop_miscounted`.
3. *Sleep with input in a buffer* (`main.c:623`). "Hopefully the fix for the processor eating bug":
   `select()` is told not to wait only when some descriptor is marked in `buffer_fds`, by a count of
   the players with lines. `kick_out_yn()` exchanges descriptors and leaves the lines read from them
   where they are (`mud.c:395`), so that the count and the marks part, and the loop spins with the
   count up and no mark, or sleeps with a mark and no count. Run `select_sleeps`; `CountKept`,
   `BufferedMarked`, `Listening` and `InputServed` say what of it still holds.
4. *A set that does not know* (`clone.c:457`). `exits_to_me` is "Set of locations that have exits to
   this room" (`mudtypes.h:125`). When a room is destructed the last one takes its number, but exits
   that lead to it and its number in the sets of others stay as they were. Run `exits_to_me`;
   `ExitsKnown` confines it to the rooms that were joined with the one that moved.
5. *An event a week late* (`timing.c:117`). The comments call it the next closing or opening time
   (`timing.c:160`). When the second search of `next_time()` is needed, it lies a week too late, and
   with it the warnings and the opening time announced; who is let in is not affected
   (`HoursKept`). Run `event_is_next`; `EventOnTheWeek` says exactly when, and that it is a week.

Observations without a run. They came up while the code was translated; where a guard or a constant
leaves one out of a passing run, it is named here.

*Sessions and the event loop.*

- Whoever hangs up at the password prompt for a name runs `xcrapup()` with that character's ID
  and takes the entry of the player in the game out of `id_table` (`mobile.c:1247`). `IdTableSound`
  is about the converse: no entry leads to a wrong slot.
- `get_gender()` writes the persona before the counter (`uaf.c:128`); `clone.c:735` states the
  opposite order as the rule. A crash in between (`CrashInGetGender`) lets the ID be given out
  again: two personas have it. `IdsUpToCounter` says that this is the only ID that can come twice
  so: nothing on file is ever ahead of the counter on file, nor is what memory has counted.
- A player at the BECOME prompt who is forced to ALIAS answers it as the mobile: `becom()` does not
  ask (`commands.c:1498`), although BECOME itself answers "Not when aliased." (`commands.c:1457`),
  and the mobile is a persona from then on, with its ID in the table.
- `forcecom()` sets `isforce` and clears it afterwards (`magic.c:88`); a `longjmp` out of the forced
  command leaves it set, and the next command of somebody is taken for a forced one.
- A free slot keeps its `fil_des`, and `find_pl_index()` takes the first slot that has it
  (`mud.c:103`): after two take-overs a free slot can hide a player, who is then deaf (`Listening`
  speaks of the others).
- After a take-over a descriptor can be marked while its player has no line; where the accepted
  socket blocks (`Blocking`), `read()` then waits with everybody for that client.
- The flag of the alarm is tested before `select()` is called (`main.c:536`, `main.c:554`). If
  the signal comes in between, the timer waits until some socket has input, whereas
  `special_events()` is meant to be done "at every i/o-interrupt at the latest"
  (`mobile.c:1709`). `Input` has this interleaving; its properties hold all the same.

*Fighting.*

- `onlook()` ends a stale fight by clearing both ends, and so also the fight that the other
  has with a third; that one strikes again only when somebody strikes him.
- A newcomer who gets the slot of one who has just left, and appears where that one's enemy
  is before the timer comes by, is that enemy's enemy.
- A dead mobile that a wizard gives a rose, or food it likes, remembers the slot 50 further on
  (`objsys.c:128`, `objsys.c:174`), because its killer is kept in `pscore`; and one whose home
  is not loaded at a reset lies dead with the killer of an earlier life (`mobile.c:1187`).
- WOUNDMON (`database.c:914`) wounds the dragon also where and when there is peace, which
  KILL and every spell of a mortal refuse; `FightsBeginHere` says so.
- `MakePeace` and SUMMON of a mobile leave fights between the places as they are; it is the
  timer that ends them.

*Clones.*

- The entry that moves shares its set with the gap it fills; with two or more elements in it
  the loop that rehouses them does not end (`clone.c:160`), and neither does the server.
  `stuck` is where the model stops then; the help on DESTRUCT says nothing of it.
- Resetting a stored object into one that has been put into it closes a circle; `Carry` puts
  things into newer ones only.
- `reset_mobile()` clears SFL_OCCUPIED of a mobile that a player is (`mobile.c:1172`): a second one
  can ALIAS it too, and when it is destructed or moves, `find_pretender()` finds the first at most;
  the other goes on as a mobile that is not there, or another one. STORE of a mobile while somebody
  is it makes the mark part of its reset (`clone.c:769`), and clones inherit it. `AliasFollows`
  says what holds of the player who is found.
- The copy of a weapon that is wielded becomes its bearer's weapon in place of the original
  (`set_weapon()` in `setoloc()`), and the copy of one that is also worn is only wielded
  (`objsys.c:1656`). `Objects` has no clones.

*Rooms.*

- A mobile can walk into a room that is not there: an exit to the number of a room that has moved or
  ended stays, and `movemob()` does not ask. Its place is `Nowhere` in the model, and from there
  it may go on to anywhere, by the exits of the room that had the number last.
- A door whose sides stand in two zones differs after a RESET of one of them; `DoorsTrue`
  speaks of sides in one zone.
- A wizard's SET of the hole, or of a cross, is left out: it is how wizards part the two.

*Hours.*

- Nobody is thrown out at closing time (`#if 0`), and warnings are given 15 and 3 minutes before
  (`timing.c:15`), whereas `data/README:145` says 15 and 5.
- A file without a line would make the table be read before its start.

*Conversations and snooping.*

- A writer survives its slot's occupant, and a handler on top of a writer that never returns to
  it leaves `writer` set: BECOME then refuses with "Finish whatever you're writing first!"
  (`commands.c:1465`) to somebody who writes nothing. `terminate_all_writers()` is never called.
- The echo stays off for whoever is forced out of a password dialogue.

*Personas.*

- A copy taken at login is written back whatever has happened to the persona meanwhile: a
  change at rest, a rename (two personas with one "Unique ID", `mudtypes.h:206`), a DELETE. The
  same holds of the copy of one in the game. `OnlyClashesLose` lists these clashes, and
  CHANGE NAME to the name of somebody in the game, and a crash between the two writes
  of CHANGE NAME (`change.c:755`); it says there are no others.

## 6. Plan

What is left, the most important first:

1. `Executive` (`exec.c`, `condition.c`, `actions.c`, `parse.c`): the tables as a tree of
   conditions and actions, `doing_table`, the force flag, and what a `longjmp` out of a table
   leaves behind. The handlers it calls are actions of the present modules.
2. `Output` (`sendsys.c`, `bprintf.c`): who gets which message, the buffers and their flush,
   composed with the snooping of `Slots`.
3. An abstract specification of `Clones`, a set of identities without numbers, with
   `ublock[i].id` as the refinement mapping: `NamesKept` and `NumbersKept` are its step for
   whatever destructs.
4. Players as the object of an alias, fights of a renumbered mobile, and AT, which runs a
   command elsewhere.
5. Light, weight, and levels, where they decide between two state changes.

Not modelled, and why:

- *Weather, logging* (`weather.c`, `log.c`): texts, and one number nobody else reads.
- *Build tools* (`generate.c`, `mkdata.c` and the like): they run before the server; what they
  demand of the data is in the assumptions on the constants.
- *World data, help, scripts*: data. The instances take from it the few shapes that matter (a pit
  with its floor, a hole that two crosses open, a zone file that gives a mobile its weapon).
- *Message filters, texts, formatting*: no state but the buffer, and no property is about them.
