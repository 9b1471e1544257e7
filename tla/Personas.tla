------------------------------ MODULE Personas ------------------------------
(***************************************************************************)
(* The persona file (uaf.c) and the copies of personas that sessions hold: *)
(* from the name prompt on a session has its own copy, which becomes the   *)
(* character in the game and is written back by SAVE, by most ways to      *)
(* leave, and by BECOME.  Wizards change, rename and delete personas, in   *)
(* the game or in the file (change.c, flags.c, frob.c, wizard.c).          *)
(*                                                                         *)
(* The file is a sequence of records; a deleted one has an empty name and  *)
(* is used again.  All that is kept of a player besides his name and ID -- *)
(* level, score, flags, password -- is one value here.  A handler runs to  *)
(* its end; the server may be killed between two handlers, and between the *)
(* two writes of CHANGE NAME.  The prompts of the login and the kick-out   *)
(* are modelled in Sessions, the lines of FROB and CHANGE PASSWORD in      *)
(* Slots; both look the persona up again before they write it.             *)
(***************************************************************************)
EXTENDS Integers, FiniteSets, Sequences, FiniteSetsExt

CONSTANTS
  N,       \* max_players
  Names,   \* the names that are typed
  NoName,  \* the empty name
  Values,  \* what a persona may be like
  NoValue, \* that of an empty slot
  MaxId    \* bound on id_counter

Slots == 0 .. N - 1
Ids == 1 .. MaxId
Gone == "gone"    \* latest: there is no such persona (any more)

ASSUME PersonasAssumption ==
  /\ N \in Nat \ {0} /\ MaxId \in Nat
  /\ NoName \notin Names /\ NoValue \notin Values /\ Gone \notin Values

VARIABLES
  file,       \* UAF_RAND
  session,    \* the slots: the stage, and the copy of the persona
  idCounter,
  latest,     \* ghost: what a persona was made last, by ID
  clashed     \* ghost: the IDs a clash (see below) has befallen

vars == <<file, session, idCounter, latest, clashed>>

Persona(n, k, v) == [name |-> n, id |-> k, val |-> v]
Blank == Persona(NoName, 0, NoValue)
Copy(stage, p) == [stage |-> stage, p |-> p]
Free == Copy("free", Blank)

Init ==
  /\ file = <<>>
  /\ session = [s \in Slots |-> Free]
  /\ idCounter = 1
  /\ latest = [k \in Ids |-> Gone]
  /\ clashed = {}

---------------------------------------------------------------------------
(* The file.                                                               *)

Records(n, f) == {i \in DOMAIN f : f[i].name = n}

\* Where finduaf() stops: the first record of that name, else the first blank
\* one, else the end.  A mutant stops at the first of either.
FoundFirst(n, f) == Min(Records(n, f) \cup Records(NoName, f) \cup {Len(f) + 1})
Found(n, f) ==
  Min(IF Records(n, f) # {} THEN Records(n, f)
      ELSE Records(NoName, f) \cup {Len(f) + 1})

PutUaf(p, f) == LET i == Found(p.name, f)
                IN  IF i <= Len(f) THEN [f EXCEPT ![i] = p] ELSE Append(f, p)
Has(n, f) == Records(n, f) # {}
GetUaf(n, f) == f[Found(n, f)]

DelUaf(n, f) == IF Has(n, f) THEN [f EXCEPT ![Found(n, f)].name = NoName] ELSE f

---------------------------------------------------------------------------
(* Who is who.                                                             *)

InGame == {s \in Slots : session[s].stage = "game"}
Named(n) == {s \in InGame : session[s].p.name = n}
IsIn(k) == \E s \in InGame : session[s].p.id = k

\* fpbns(): the first player of that name.
Player(n) == Min(Named(n))

\* Those who bear a name, in the game or in the file.
Bearers(n) ==
  {session[s].p.id : s \in Named(n)} \cup {file[i].id : i \in Records(n, file)}

\* The file holds what the persona was made last, and nobody plays it.
UpToDate(p) == /\ p.id # 0 /\ latest[p.id] = p.val /\ ~IsIn(p.id)
               /\ Named(p.name) = {} /\ Bearers(p.name) = {p.id}

\* What is left of the personas Out when the copies in the game are dropped.
AsInFile(Out, f) ==
  [k \in Ids |->
     IF k \notin Out THEN latest[k]
     ELSE IF \E i \in DOMAIN f : f[i].name # NoName /\ f[i].id = k
          THEN f[CHOOSE i \in DOMAIN f : f[i].name # NoName /\ f[i].id = k].val
          ELSE Gone]

Become(s, stage, p) == session' = [session EXCEPT ![s] = Copy(stage, p)]

---------------------------------------------------------------------------
(* Login.                                                                  *)

\* get_pname1(): getuafinfo() copies the persona into the slot; a name that is
\* not in the file is that of a new character.
GetPname(s, n) ==
  /\ session[s].stage = "free"
  /\ IF Has(n, file) THEN Become(s, "passwd", GetUaf(n, file))
     ELSE Become(s, "gender", [Blank EXCEPT !.name = n])
  /\ UNCHANGED <<file, idCounter, latest, clashed>>

\* get_gender(): the name is not looked up again.
GetGender(s, v) ==
  LET n == session[s].p.name
      p == Persona(n, idCounter, v)
  IN  /\ session[s].stage = "gender" /\ idCounter <= MaxId
      /\ file' = PutUaf(p, file)
      /\ idCounter' = idCounter + 1
      /\ Become(s, "motd", p)
      /\ latest' = [latest EXCEPT ![p.id] = v]
      /\ clashed' = IF Bearers(n) = {} THEN clashed
                    ELSE clashed \cup Bearers(n) \cup {p.id}

\* get_passwd1() and kick_out_yn(): on to the message of the day, when nobody
\* of that name is in the game.
GetPasswd(s) ==
  /\ session[s].stage = "passwd"
  /\ Named(session[s].p.name) = {}
  /\ Become(s, "motd", session[s].p)
  /\ UNCHANGED <<file, idCounter, latest, clashed>>

\* talker(), with the copy that was read at the name prompt.
Talker(s) ==
  LET p == session[s].p
  IN  /\ session[s].stage = "motd"
      /\ Become(s, "game", p)
      /\ clashed' = IF UpToDate(p) THEN clashed
                    ELSE clashed \cup Bearers(p.name) \cup {p.id}
      /\ UNCHANGED <<file, idCounter, latest>>

\* A login that ends before the game.
HangUp(s) ==
  /\ session[s].stage \in {"passwd", "gender", "motd"}
  /\ session' = [session EXCEPT ![s] = Free]
  /\ UNCHANGED <<file, idCounter, latest, clashed>>

---------------------------------------------------------------------------
(* In the game.                                                            *)

\* saveme()
Save(s) ==
  /\ s \in InGame
  /\ file' = PutUaf(session[s].p, file)
  /\ UNCHANGED <<session, idCounter, latest, clashed>>

\* QUIT, a hang-up, most deaths, SHUTDOWN and SIGTERM.
LeaveSaved(s) ==
  /\ s \in InGame
  /\ file' = PutUaf(session[s].p, file)
  /\ session' = [session EXCEPT ![s] = Free]
  /\ UNCHANGED <<idCounter, latest, clashed>>

\* A locked game, and what dies by a script: no save.
LeaveUnsaved(s) ==
  /\ s \in InGame
  /\ session' = [session EXCEPT ![s] = Free]
  /\ latest' = AsInFile({session[s].p.id}, file)
  /\ UNCHANGED <<file, idCounter, clashed>>

\* BECOME: the persona is read, then the player saved.
Becom(s, n) ==
  /\ s \in InGame /\ Has(n, file) /\ Named(n) = {}
  /\ file' = PutUaf(session[s].p, file)
  /\ Become(s, "game", GetUaf(n, file))
  /\ UNCHANGED <<idCounter, latest, clashed>>

\* CHANGE of sex, score, strength, level, visibility, damage, armor, title and
\* wimpy, PFLAGS, MASK, QUESTS, HEAL, SETSTART and the end of FROB: of a player in
\* the game, whom find_player() prefers, in his slot, else in the file.
ChangeInGame(n, v) ==
  /\ Named(n) # {}
  /\ session' = [session EXCEPT ![Player(n)].p.val = v]
  /\ latest' = [latest EXCEPT ![session[Player(n)].p.id] = v]
  /\ UNCHANGED <<file, idCounter, clashed>>

ChangeInFile(n, v) ==
  /\ Named(n) = {} /\ Has(n, file)
  /\ LET p == GetUaf(n, file)
     IN  /\ file' = PutUaf([p EXCEPT !.val = v], file)
         /\ latest' = [latest EXCEPT ![p.id] = v]
  /\ UNCHANGED <<session, idCounter, clashed>>

\* The new password in the slot of a player too, and a mutant that leaves that
\* out (change.c:1223).
InSlotNot(n, v) == session
InSlot(n, v) == [session EXCEPT ![Player(n)].p.val = v]

\* ask_confirm_passwd() for a player in the game: the persona as it is there,
\* with the new password, is saved.
ChangePasswd(n, v) ==
  /\ Named(n) # {} /\ Has(n, file)
  /\ file' = PutUaf([session[Player(n)].p EXCEPT !.val = v], file)
  /\ session' = InSlot(n, v)
  /\ latest' = [latest EXCEPT ![session[Player(n)].p.id] = v]
  /\ UNCHANGED <<idCounter, clashed>>

\* The persona of find_player(), in the game or in the file.
Known(n) == Named(n) # {} \/ Has(n, file)
TheOne(n) == IF Named(n) # {} THEN session[Player(n)].p ELSE GetUaf(n, file)

\* change_name(): the new name is looked for in the file only.
ChangeName(old, new) ==
  /\ Known(old) /\ ~Has(new, file) /\ new # old
  /\ LET p == [TheOne(old) EXCEPT !.name = new]
     IN  /\ file' = PutUaf(p, DelUaf(old, file))
         /\ session' = IF Named(old) = {} THEN session
                       ELSE [session EXCEPT ![Player(old)].p.name = new]
         /\ clashed' = IF Named(new) = {} THEN clashed
                       ELSE clashed \cup Bearers(new) \cup {p.id}
  /\ UNCHANGED <<idCounter, latest>>

\* DELETE: of the record only, whoever may be playing it.
Delete(n) ==
  /\ Has(n, file)
  /\ file' = DelUaf(n, file)
  /\ latest' = IF IsIn(GetUaf(n, file).id) THEN latest
               ELSE [latest EXCEPT ![GetUaf(n, file).id] = Gone]
  /\ UNCHANGED <<session, idCounter, clashed>>

\* ZAP: the record goes, and the player without being saved.
Zap(s) ==
  /\ s \in InGame
  /\ file' = DelUaf(session[s].p.name, file)
  /\ session' = [session EXCEPT ![s] = Free]
  /\ latest' = [latest EXCEPT ![session[s].p.id] = Gone]
  /\ UNCHANGED <<idCounter, clashed>>

---------------------------------------------------------------------------
(* The server dies.                                                        *)

Playing == {session[s].p.id : s \in InGame}

Crash ==
  /\ session' = [s \in Slots |-> Free]
  /\ latest' = AsInFile(Playing, file)
  /\ UNCHANGED <<file, idCounter, clashed>>

\* Between deluaf() and putuaf() of change_name().
CrashInChangeName(old) ==
  /\ Known(old) /\ Has(old, file)
  /\ file' = DelUaf(old, file)
  /\ session' = [s \in Slots |-> Free]
  /\ latest' = AsInFile(Playing, file')
  /\ clashed' = clashed \cup {GetUaf(old, file).id}
  /\ UNCHANGED idCounter

Next ==
  \/ \E s \in Slots :
       \/ GetPasswd(s) \/ Talker(s) \/ HangUp(s)
       \/ Save(s) \/ LeaveSaved(s) \/ LeaveUnsaved(s) \/ Zap(s)
       \/ \E v \in Values : GetGender(s, v)
       \/ \E n \in Names : GetPname(s, n) \/ Becom(s, n)
  \/ \E n \in Names :
       \/ Delete(n) \/ CrashInChangeName(n)
       \/ \E v \in Values : ChangeInGame(n, v) \/ ChangeInFile(n, v) \/ ChangePasswd(n, v)
       \/ \E m \in Names : ChangeName(n, m)
  \/ Crash

Spec == Init /\ [][Next]_vars

---------------------------------------------------------------------------
(* Properties.                                                             *)

\* No name has two records, whatever blanks the deleted ones left before it:
\* getuaf() would read the one and a wizard who deletes it bring back the other
\* (uaf.c:157-172).
OneRecordEach == \A n \in Names : Cardinality(Records(n, file)) <= 1

\* A persona is what it was made last, in the game or in the file, once and under
\* one ID, and a deleted one stays deleted.  What may befall it is a clash: that
\* a session enters the game with a copy from the name prompt that is out of date
\* by then, that a new character or a new name takes a name that somebody in the
\* game bears or that was given meanwhile, or that the server dies within CHANGE
\* NAME.  (change.c:1216-1224, 755-761, frob.c:139-182, commands.c:1488-1501.)
OnlyClashesLose ==
  \A k \in Ids \ clashed :
    LET rows == {i \in DOMAIN file : file[i].name # NoName /\ file[i].id = k}
        seats == {s \in InGame : session[s].p.id = k}
    IN  /\ Cardinality(rows) <= 1 /\ Cardinality(seats) <= 1
        /\ latest[k] = Gone => rows = {} /\ seats = {}
        /\ latest[k] # Gone =>
             IF seats # {} THEN \A s \in seats : session[s].p.val = latest[k]
             ELSE \E i \in rows : file[i].val = latest[k]
=============================================================================
