-------------------------------- MODULE Slots --------------------------------
(***************************************************************************)
(* What the record of a player in players[] keeps from one line of input   *)
(* to the next: the conversation that his next line belongs to, and whom   *)
(* he snoops on.                                                           *)
(*                                                                         *)
(* FROB, UNVEIL, BECOME, CHANGE PASSWORD, HELP, BULLETIN, MAIL and the     *)
(* descriptions ask for further lines.  They push a handler on the stack   *)
(* of input handlers or put it in the place of the top (mud.c), and keep   *)
(* their subject in "work", one word for all of them, or in the chain of   *)
(* writers (writer.c).  They come on top of each other: a line of the      *)
(* writer may be a command, and a player can be forced to a command in the *)
(* middle of any of them.  How the stack takes a session in and out is     *)
(* modelled in Sessions, which knows all of these handlers as "sub".       *)
(*                                                                         *)
(* A handler, a structure in "work" and a writer carry a number here that  *)
(* tells which conversation they were made for; the program has only the   *)
(* pointers.  Lines that end nothing (a further level of the frob, a line  *)
(* of text, another page) change nothing kept here and are no step.        *)
(***************************************************************************)
EXTENDS Integers, FiniteSets, Sequences, FiniteSetsExt

CONSTANTS
  N,         \* max_players
  MaxDepth,  \* bound: of a stack, of the chain in work and of that of writers
  MaxTalks,  \* bound: conversations of a player that are begun and not forgotten
  Speakers,  \* bound: the slots whose conversations are followed
  Reuse      \* "any", or "late": see Arrive

ASSUME SlotsAssumption ==
  /\ N \in Nat \ {0} /\ MaxDepth \in Nat /\ MaxTalks \in Nat
  /\ Speakers \subseteq 0 .. N - 1 /\ Reuse \in {"any", "late"}

PlayerSlots == 0 .. N - 1
Nobody == -1
Talks == 1 .. MaxTalks

VARIABLES
  handlers,     \* inp_handler, top first; <<>>: a free slot
  iamon,        \* the player is in the game
  quitting,     \* the players on the quit list
  work,         \* work, what the frob structures of it keep as oldwork below
  writer,       \* writer, the previous ones below
  snooptarget,
  snooped

talk == <<handlers, work, writer>>
snoops == <<snooptarget, snooped>>
slotVars == <<handlers, iamon, quitting, work, writer, snooptarget, snooped>>

\* An input handler and the conversation it was put there for.
Handler(f, k) == [fn |-> f, of |-> k]
Subject(kind, k) == [kind |-> kind, of |-> k]
Freed == Subject("freed", 0)

InitSlots ==
  /\ handlers = [s \in PlayerSlots |-> <<>>]
  /\ iamon = [s \in PlayerSlots |-> FALSE]
  /\ quitting = {}
  /\ work = [s \in PlayerSlots |-> <<>>]
  /\ writer = [s \in PlayerSlots |-> <<>>]
  /\ snooptarget = [s \in PlayerSlots |-> Nobody]
  /\ snooped = [s \in PlayerSlots |-> 0]

---------------------------------------------------------------------------
(* Coming and going.                                                       *)

\* The quit list is worked off before the next line is read.
Settled == quitting = {}

Snoopers(p) == {s \in PlayerSlots : snooptarget[s] = p}

\* A connection takes the first slot without a handler.  "work" and "writer"
\* are what the previous occupant left there.  Bound: with Reuse = "late" not
\* as long as somebody who snooped on him has not been told that he cannot.
Arrive(s) ==
  /\ Settled
  /\ handlers[s] = <<>> /\ \A r \in 0 .. s - 1 : handlers[r] # <<>>
  /\ Reuse = "late" => Snoopers(s) = {}
  /\ handlers' = [handlers EXCEPT ![s] = <<Handler("login", 0)>>]
  /\ snooptarget' = [snooptarget EXCEPT ![s] = Nobody]
  /\ snooped' = [snooped EXCEPT ![s] = 0]
  /\ UNCHANGED <<iamon, quitting, work, writer>>

Replaced(h, stack) == <<h>> \o Tail(stack)
Pushed(h, stack) == <<h>> \o stack
Popped(stack) == IF Len(stack) > 1 THEN Tail(stack) ELSE stack

\* A mutant gives the prompt only (mud.c:530).
GetCommandPrompt(stack) == stack

\* get_command(NULL): the top becomes the handler of commands.
GetCommand(stack) == Replaced(Handler("command", 0), stack)

Enter(s) ==
  /\ Settled /\ handlers[s] # <<>> /\ ~iamon[s]
  /\ handlers' = [handlers EXCEPT ![s] = GetCommand(@)]
  /\ iamon' = [iamon EXCEPT ![s] = TRUE]
  /\ UNCHANGED <<quitting, work, writer, snoops>>

\* The counts once the players of Out no longer snoop.
CountsWithout(Out) ==
  [p \in PlayerSlots |->
     Max({0, snooped[p] - Cardinality({s \in Out : snooptarget[s] = p})})]
TargetsWithout(Out) ==
  [s \in PlayerSlots |-> IF s \in Out THEN Nobody ELSE snooptarget[s]]

\* snoop_off() for each of Out.
SnoopOff(Out) == snooptarget' = TargetsWithout(Out) /\ snooped' = CountsWithout(Out)

\* A mutant forgets the call of snoop_off() in loseme().
DepartSnooping(s) == UNCHANGED snoops

\* What loseme() does of it: only a player in the game snoops.
Depart(s) == IF iamon[s] THEN SnoopOff({s}) ELSE UNCHANGED snoops

\* QUIT, death, a kick-out, a hang-up, a login that fails.
Leave(s) ==
  /\ handlers[s] # <<>> /\ s \notin quitting
  /\ Depart(s)
  /\ iamon' = [iamon EXCEPT ![s] = FALSE]
  /\ quitting' = quitting \cup {s}
  /\ UNCHANGED talk

EndConnection(s) ==
  /\ s \in quitting
  /\ handlers' = [handlers EXCEPT ![s] = <<>>]
  /\ quitting' = quitting \ {s}
  /\ UNCHANGED <<iamon, work, writer, snoops>>

---------------------------------------------------------------------------
(* Snooping.                                                               *)

\* Bound: conversations and snooping are not looked at at the same time.
Bare(s) ==
  /\ handlers[s] \in {<<>>, <<Handler("login", 0)>>, <<Handler("command", 0)>>}
  /\ work[s] = <<>> /\ writer[s] = <<>>
Silent == \A s \in PlayerSlots : Bare(s)
Unwatched == \A s \in PlayerSlots : snooptarget[s] = Nobody

\* SNOOP: "t" is Nobody for the command without a name, and when the victim
\* is hidden by his level or a private room.
Snoop(s, t) ==
  /\ Settled /\ Silent /\ iamon[s]
  /\ t # s /\ (t # Nobody => iamon[t])
  /\ LET Out == IF snooptarget[s] = Nobody THEN {} ELSE {s}
     IN  IF t = Nobody
         THEN SnoopOff(Out)
         ELSE /\ snooptarget' = [TargetsWithout(Out) EXCEPT ![s] = t]
              /\ snooped' = [CountsWithout(Out) EXCEPT ![t] = @ + 1]
  /\ UNCHANGED <<iamon, quitting, talk>>

\* special_events() for the players of Who: after a command for the one who
\* typed it, at every turn of the timer for all.  It ends the snooping on those
\* who are gone; "Private" are those whose victim went into a private room.
SpecialEvents(Who, Private) ==
  /\ Settled /\ Silent
  /\ \A s \in Who : iamon[s]
  /\ \A s \in Private : snooptarget[s] # Nobody /\ iamon[snooptarget[s]]
  /\ SnoopOff({s \in Who : snooptarget[s] # Nobody /\ ~iamon[snooptarget[s]]} \cup Private)
  /\ UNCHANGED <<iamon, quitting, talk>>

Command(s) == \E Private \in SUBSET {s} : SpecialEvents({s}, Private)

TimerTick ==
  LET Playing == {s \in PlayerSlots : iamon[s]}
  IN  \E Private \in SUBSET Playing : SpecialEvents(Playing, Private)

---------------------------------------------------------------------------
(* Conversations.                                                          *)

Top(s) == Head(handlers[s])
Typing(s, f) == Settled /\ iamon[s] /\ Top(s).fn = f

\* The player types a command at the prompt, or after a "*" in the writer.
Typed(s) ==
  /\ Settled /\ s \in Speakers /\ Unwatched
  /\ iamon[s] /\ Top(s).fn \in {"command", "write"}

\* Or somebody forces him to it, whatever his next line is meant for.
Ordered(s) ==
  /\ Settled /\ s \in Speakers /\ Unwatched /\ iamon[s]
  /\ Top(s).fn \notin {"command", "write"} => \E f \in PlayerSlots \ {s} : iamon[f]

\* A number that nothing of this player bears any more.
Forgotten(s) ==
  Talks \ ({handlers[s][i].of : i \in DOMAIN handlers[s]}
           \cup {work[s][i].of : i \in DOMAIN work[s]}
           \cup UNION {{writer[s][i].of, writer[s][i].old.of} : i \in DOMAIN writer[s]})

Fresh(s) == {k \in Forgotten(s) : \A m \in Forgotten(s) : k <= m}

Hand(s, stack) == handlers' = [handlers EXCEPT ![s] = stack]
Work(s, w) == work' = [work EXCEPT ![s] = w]
Kept == UNCHANGED <<iamon, quitting, snoops>>

FrobCom(s) ==
  /\ Ordered(s) /\ Len(handlers[s]) < MaxDepth /\ Len(work[s]) < MaxDepth
  /\ \E k \in Fresh(s) :
       /\ Hand(s, Pushed(Handler("frob", k), handlers[s]))
       /\ Work(s, <<Subject("frob", k)>> \o work[s])
  /\ UNCHANGED writer /\ Kept

\* The last of the three lines, or one that will not do.
FrobEnds(s) ==
  /\ Typing(s, "frob")
  /\ Hand(s, Popped(handlers[s]))
  /\ Work(s, Tail(work[s]))
  /\ UNCHANGED writer /\ Kept

UnveilCom(s) ==
  /\ Ordered(s) /\ Len(handlers[s]) < MaxDepth
  /\ \E k \in Fresh(s) :
       /\ Hand(s, Pushed(Handler("unveil", k), handlers[s]))
       /\ Work(s, <<Subject("level", k)>>)
  /\ UNCHANGED writer /\ Kept

UnveilEnds(s) ==
  /\ Typing(s, "unveil")
  /\ Hand(s, GetCommand(Popped(handlers[s])))
  /\ UNCHANGED <<work, writer>> /\ Kept

\* "Finish whatever you're writing first!"; nobody can be forced to BECOME.
Becom(s) ==
  /\ Typed(s) /\ writer[s] = <<>> /\ Len(handlers[s]) < MaxDepth
  /\ Hand(s, Pushed(Handler("becom", 0), handlers[s]))
  /\ UNCHANGED <<work, writer>> /\ Kept

BecomEnds(s) ==
  /\ Typing(s, "becom")
  /\ Hand(s, GetCommand(Popped(handlers[s])))
  /\ UNCHANGED <<work, writer>> /\ Kept

\* A new PERSONA in work, and the question for the new password.
AskNew(s) ==
  \E k \in Fresh(s) :
    /\ Hand(s, Replaced(Handler("newpass", k), handlers[s]))
    /\ Work(s, <<Subject("persona", k)>>)

\* CHANGE PASSWORD: somebody else's at once, one's own after the old one.
ChangePasswd(s) ==
  /\ Ordered(s)
  /\ \/ AskNew(s)
     \/ Hand(s, Replaced(Handler("oldpass", 0), handlers[s])) /\ UNCHANGED work
  /\ UNCHANGED writer /\ Kept

AskOldPasswd(s) ==
  /\ Typing(s, "oldpass")
  /\ \/ AskNew(s)
     \/ Hand(s, GetCommand(handlers[s])) /\ UNCHANGED work
  /\ UNCHANGED writer /\ Kept

AskNewPasswd(s) ==
  /\ Typing(s, "newpass")
  /\ Hand(s, Replaced(Handler("confirm", Top(s).of), handlers[s]))
  /\ UNCHANGED <<work, writer>> /\ Kept

\* The PERSONA is freed, but work still points to it.
AskConfirmPasswd(s) ==
  /\ Typing(s, "confirm")
  /\ Hand(s, GetCommand(handlers[s]))
  /\ Work(s, <<Freed>>)
  /\ UNCHANGED writer /\ Kept

\* HELP and BULLETIN of a wizard: pages, each turned by a line.
HelpCom(s) ==
  /\ Ordered(s)
  /\ Hand(s, Replaced(Handler("page", 0), handlers[s]))
  /\ UNCHANGED <<work, writer>> /\ Kept

LastPage(s) ==
  /\ Typing(s, "page")
  /\ Hand(s, GetCommand(handlers[s]))
  /\ UNCHANGED <<work, writer>> /\ Kept

\* start_writer(), for MAIL and the four kinds of descriptions.
StartWriter(s) ==
  /\ Ordered(s) /\ Len(writer[s]) < MaxDepth
  /\ \E k \in Fresh(s) :
       /\ Hand(s, Replaced(Handler("write", k), handlers[s]))
       /\ writer' = [writer EXCEPT ![s] = <<[of |-> k, old |-> Top(s)]>> \o @]
  /\ UNCHANGED work /\ Kept

\* A mutant leaves the writer that ends as the current one (writer.c:139).
WriterEndsCurrent(s) ==
  /\ Typing(s, "write")
  /\ Hand(s, Replaced(Head(writer[s]).old, handlers[s]))
  /\ UNCHANGED <<work, writer>> /\ Kept

\* "**": the handler that the writer replaced is put back.
WriterEnds(s) ==
  /\ Typing(s, "write")
  /\ Hand(s, Replaced(Head(writer[s]).old, handlers[s]))
  /\ writer' = [writer EXCEPT ![s] = Tail(@)]
  /\ UNCHANGED work /\ Kept

SlotsNext ==
  \/ \E s \in PlayerSlots :
       \/ Arrive(s) \/ Enter(s) \/ Leave(s) \/ EndConnection(s)
       \/ Command(s) \/ \E t \in PlayerSlots \cup {Nobody} : Snoop(s, t)
       \/ FrobCom(s) \/ FrobEnds(s) \/ UnveilCom(s) \/ UnveilEnds(s)
       \/ Becom(s) \/ BecomEnds(s)
       \/ ChangePasswd(s) \/ AskOldPasswd(s) \/ AskNewPasswd(s) \/ AskConfirmPasswd(s)
       \/ HelpCom(s) \/ LastPage(s) \/ StartWriter(s) \/ WriterEnds(s)
  \/ TimerTick

SlotsSpec == InitSlots /\ [][SlotsNext]_slotVars

---------------------------------------------------------------------------
(* Properties.                                                             *)

\* A handler that is about to read its subject from "work" finds there what its
\* own conversation put there, not the level of an UNVEIL or a PERSONA that was
\* freed, whatever the player was forced to in between (frob.c:104,
\* commands.c:643, change.c:1192, 1202).
WorkOwned ==
  \A s \in PlayerSlots : iamon[s] =>
    LET own(kind) == work[s] # <<>> /\ Head(work[s]) = Subject(kind, Top(s).of)
    IN  /\ Top(s).fn = "frob" => own("frob")
        /\ Top(s).fn = "unveil" => own("level")
        /\ Top(s).fn \in {"newpass", "confirm"} => own("persona")

\* A line that goes to the writer goes to the text that the writer at the top of
\* the stack was started for, also when texts were begun within each other or
\* left unfinished (writer.c:119).
WriterOwned ==
  \A s \in PlayerSlots : iamon[s] /\ Top(s).fn = "write" =>
    writer[s] # <<>> /\ Head(writer[s]).of = Top(s).of

\* "snooped" is the number of those who snoop on the player: else his output is
\* not passed on, or the server logs "Internal error, snooped = %d, ct = %d"
\* (bprintf.c:340).
SnoopCounted ==
  \A p \in PlayerSlots : iamon[p] =>
    snooped[p] = Cardinality({s \in Snoopers(p) : iamon[s]})
=============================================================================
