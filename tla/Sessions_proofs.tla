--------------------------- MODULE Sessions_proofs ---------------------------
(***************************************************************************)
(* Theorems about Sessions, for every number of slots, names and IDs, and  *)
(* about the hours in which a session may begin (Hours), for every file of *)
(* opening hours and every length of the week.  The two modules share no   *)
(* variable.                                                               *)
(***************************************************************************)
EXTENDS Sessions, Hours, SequenceTheorems, FiniteSetTheorems, WellFoundedInduction, TLAPS

USE DEF tables

-----------------------------------------------------------------------------
(* Input handler stacks *)

\* replace_input_handler() leaves a stack of handlers, of the same depth.
LEMMA ReplacedStack ==
  ASSUME NEW s \in Seq(Stages), s /= <<>>, NEW h \in Stages
  PROVE  /\ <<h>> \o Tail(s) \in Seq(Stages)
         /\ <<h>> \o Tail(s) /= <<>>
         /\ Head(<<h>> \o Tail(s)) = h
         /\ Len(<<h>> \o Tail(s)) = Len(s)
  OBVIOUS

\* push_input_handler()
LEMMA PushedStack ==
  ASSUME NEW s \in Seq(Stages), s /= <<>>, NEW h \in Stages
  PROVE  /\ <<h>> \o s \in Seq(Stages)
         /\ <<h>> \o s /= <<>>
         /\ Head(<<h>> \o s) = h
         /\ Len(<<h>> \o s) > 1
  OBVIOUS

\* pop_input_handler() never empties a stack.
LEMMA PoppedStack ==
  ASSUME NEW s \in Seq(Stages), s /= <<>>
  PROVE  Popped(s) \in Seq(Stages) /\ Popped(s) /= <<>>
<1>1. CASE Len(s) > 1
  <2>1. /\ Len(s) \in Nat
        /\ Tail(s) \in Seq(Stages)
        /\ Len(Tail(s)) = Len(s) - 1
    BY HeadTailProperties
  <2>2. Tail(s) /= <<>>
    BY <1>1, <2>1, EmptySeq
  <2> QED
    BY <1>1, <2>1, <2>2 DEF Popped
<1>2. CASE ~(Len(s) > 1)
  BY <1>2 DEF Popped
<1> QED
  BY <1>1, <1>2

\* replace_input_handler() on slot i of handlers.
LEMMA ReplacedType ==
  ASSUME handlers \in [Slots -> Seq(Stages)], NEW i \in Slots, Live(i),
         NEW h \in Stages
  PROVE  Replaced(i, h) \in [Slots -> Seq(Stages)]
<1>1. <<h>> \o Tail(handlers[i]) \in Seq(Stages)
  BY ReplacedStack DEF Live
<1> QED
  BY <1>1 DEF Replaced

-----------------------------------------------------------------------------
(* Type correctness *)

IdTables == [Ids \cup {NoId} -> Slots \cup {NoSlot, OfMobile}]
PersonaFiles == [Names -> Ids \cup {NoId}]

\* The part of TypeOK that crapup() can touch.
LeaveType ==
  /\ quitList \in Slots \cup {NoSlot}
  /\ quitNext \in [Slots -> Slots \cup {NoSlot, NotQueued}]
  /\ pname \in [Slots -> Names \cup {NoName}]
  /\ iamon \in [Slots -> BOOLEAN]
  /\ away \in [Slots -> BOOLEAN]
  /\ uaf \in PersonaFiles
  /\ idTable \in IdTables

LEMMA QuitPlayerType ==
  ASSUME TypeOK, NEW i \in Slots, QuitPlayer(i)
  PROVE  /\ quitList' \in Slots \cup {NoSlot}
         /\ quitNext' \in [Slots -> Slots \cup {NoSlot, NotQueued}]
  BY DEF TypeOK, QuitPlayer, queue

LEMMA DepartType ==
  ASSUME TypeOK, NEW i \in Slots, NEW save \in BOOLEAN, NEW on \in BOOLEAN,
         NEW tbl \in IdTables, NEW written \in PersonaFiles,
         Depart(i, save, on, tbl, written),
         away' = [away EXCEPT ![i] = FALSE]
  PROVE  LeaveType'
<1>1. /\ quitList' \in Slots \cup {NoSlot}
      /\ quitNext' \in [Slots -> Slots \cup {NoSlot, NotQueued}]
  BY QuitPlayerType DEF Depart
<1>2. /\ pname' \in [Slots -> Names \cup {NoName}]
      /\ iamon' \in [Slots -> BOOLEAN]
      /\ away' \in [Slots -> BOOLEAN]
  BY DEF TypeOK, Depart, OutOfGame
<1>3. uaf' \in PersonaFiles
  BY DEF TypeOK, Depart, PersonaFiles
<1>4. idTable' \in IdTables
  BY DEF TypeOK, Depart, IdTables, Removed
<1> QED
  BY <1>1, <1>2, <1>3, <1>4 DEF LeaveType

LEMMA CrapupType ==
  ASSUME TypeOK, NEW i \in Slots, NEW save \in BOOLEAN, NEW on \in BOOLEAN,
         NEW tbl \in IdTables, NEW written \in PersonaFiles,
         Crapup(i, save, on, tbl, written)
  PROVE  LeaveType'
<1>1. CASE away[i]
  BY <1>1 DEF TypeOK, Crapup, queue, LeaveType, PersonaFiles, IdTables
<1>2. CASE ~away[i]
  BY <1>2, DepartType DEF Crapup
<1> QED
  BY <1>1, <1>2

LEMMA UnaliasedCrapupType ==
  ASSUME TypeOK, NEW i \in Slots, UnaliasedCrapup(i, TRUE)
  PROVE  LeaveType'
<1>1. iamon[i] \in BOOLEAN /\ idTable \in IdTables /\ uaf \in PersonaFiles
  BY DEF TypeOK, IdTables, PersonaFiles
<1> QED
  BY <1>1, DepartType DEF UnaliasedCrapup

LEMMA InsertedType ==
  ASSUME NEW tbl \in IdTables, NEW x \in Ids \cup {NoId},
         NEW i \in Slots \cup {OfMobile}
  PROVE  Inserted(x, i, tbl) \in IdTables
  BY DEF Inserted, IdTables

LEMMA RemovedType ==
  ASSUME NEW tbl \in IdTables, NEW x \in Ids \cup {NoId}
  PROVE  Removed(x, tbl) \in IdTables
  BY DEF Removed, IdTables

\* What talker() may make of the table.
LEMMA EnteredType ==
  ASSUME TypeOK, NEW i \in Slots, NEW tbl \in Entered(i)
  PROVE  tbl \in IdTables
<1>1. idTable \in IdTables /\ pid[i] \in Ids \cup {NoId} /\ mobIds \subseteq Ids
  BY DEF TypeOK, IdTables
<1> QED
  BY <1>1, InsertedType DEF Entered

\* A slot is a natural number, so none of the marks of the lists is one.
LEMMA SlotMarks ==
  /\ NoSlot \notin Slots /\ NotQueued \notin Slots /\ OfMobile \notin Slots
  /\ NoSlot /= NotQueued /\ NoSlot /= OfMobile
  BY NAssumption DEF Slots, NoSlot, NotQueued, OfMobile

LEMMA TypeInit == Init => TypeOK
  BY NAssumption, IdAssumption, NameAssumption
  DEF Init, TypeOK, Slots, Ids, NoId, NoSlot, NotQueued, OfMobile, Phases

LEMMA BootType ==
  ASSUME NEW u \in PersonaFiles, NEW c \in 1 .. MaxId + 1, Boot(u, c)
  PROVE  TypeOK'
  BY NAssumption, IdAssumption, NameAssumption
  DEF Boot, TypeOK, PersonaFiles, Slots, Ids, NoId, NoSlot, NotQueued, OfMobile, Phases

\* Every handler, command and step of the main loop keeps TypeOK.
LEMMA LoginType ==
  ASSUME TypeOK, InGameLive, NEW i \in Slots, Login(i)
  PROVE  TypeOK'
<1> USE DEF NoSlot, NotQueued, OfMobile
<1>1. CASE NewConnection(i)
  <2>1. <<"pname1">> \in Seq(Stages)
    BY DEF Stages, LoginStages
  <2> QED
    BY <1>1, <2>1 DEF NewConnection, TypeOK, Return, Ready, Phases, files
<1>2. ASSUME NEW h \in Stages, HangUp(i, h)
      PROVE  TypeOK'
  BY <1>2, QuitPlayerType
  DEF HangUp, Reads, Ready, Return, TypeOK, Phases, chars, files
<1>3. ASSUME NEW h \in Stages, PromptAgain(i, h)
      PROVE  TypeOK'
  BY <1>3 DEF PromptAgain, Reads, Ready, Return, TypeOK, Phases, stacks, chars, files
<1>4. ASSUME NEW h \in Stages, NEW next \in Stages, Proceed(i, h, next)
      PROVE  TypeOK'
  <2>1. Replaced(i, next) \in [Slots -> Seq(Stages)]
    BY <1>4, ReplacedType DEF Proceed, Reads, TypeOK
  <2> QED
    BY <1>4, <2>1
    DEF Proceed, Reads, Ready, Return, TypeOK, Phases, queue, chars, files
<1>5. \A h \in LoginStages \cup GameStages \cup {"motd"} : h \in Stages
  BY DEF Stages
<1>6. CASE GetPname1(i)
  <2>1. CASE HangUp(i, "pname1") \/ PromptAgain(i, "pname1")
    BY <2>1, <1>2, <1>3, <1>5 DEF LoginStages
  <2>2. ASSUME NEW n \in Names, pname' = [pname EXCEPT ![i] = n],
               Reads(i, "pname1"), Return,
               UNCHANGED <<iamon, away, files, tables>>,
               pid' = pid \/ pid' = [pid EXCEPT ![i] = uaf[n]],
               \/ handlers' = Replaced(i, "pname2") /\ UNCHANGED queue
               \/ handlers' = Replaced(i, "passwd1") /\ UNCHANGED queue
               \/ QuitPlayer(i) /\ UNCHANGED handlers
        PROVE  TypeOK'
    <3>1. handlers' \in [Slots -> Seq(Stages)]
      BY <2>2, <1>5, ReplacedType DEF Reads, TypeOK, LoginStages
    <3>2. /\ quitList' \in Slots \cup {NoSlot}
          /\ quitNext' \in [Slots -> Slots \cup {NoSlot, NotQueued}]
      BY <2>2, QuitPlayerType DEF TypeOK, queue
    <3>3. pid' \in [Slots -> Ids \cup {NoId}]
      BY <2>2 DEF TypeOK
    <3> QED
      BY <2>2, <3>1, <3>2, <3>3 DEF TypeOK, Reads, Ready, Return, Phases, files
  <2> QED
    BY <1>6, <2>1, <2>2 DEF GetPname1
<1>7. CASE GetPname2(i)
  <2>1. ASSUME Reads(i, "pname2"), handlers' = Replaced(i, "pname1"), QuitPlayer(i),
               Return, UNCHANGED <<chars, files, tables>>
        PROVE  TypeOK'
    <3>1. handlers' \in [Slots -> Seq(Stages)]
      BY <2>1, <1>5, ReplacedType DEF Reads, TypeOK, LoginStages
    <3> QED
      BY <2>1, <3>1, QuitPlayerType
      DEF TypeOK, Reads, Ready, Return, Phases, chars, files
  <2> QED
    BY <1>7, <2>1, <1>4, <1>5 DEF GetPname2, LoginStages
<1>8. CASE GetNewPass1(i)
  BY <1>8, <1>2, <1>4, <1>5 DEF GetNewPass1, LoginStages
<1>9. CASE GetNewPass2(i)
  BY <1>9, <1>2, <1>4, <1>5 DEF GetNewPass2, LoginStages
<1>10. CASE GetGender(i)
  <2>1. ASSUME Reads(i, "gender"), idCounter <= MaxId,
               handlers' = Replaced(i, "motd")
        PROVE  /\ handlers' \in [Slots -> Seq(Stages)]
               /\ idCounter \in Ids
               /\ idCounter + 1 \in 1 .. MaxId + 1
    <3>1. handlers' \in [Slots -> Seq(Stages)]
      BY <2>1, <1>5, ReplacedType DEF Reads, TypeOK
    <3>2. idCounter \in Ids /\ idCounter + 1 \in 1 .. MaxId + 1
      BY <2>1, IdAssumption DEF TypeOK, Ids
    <3> QED
      BY <3>1, <3>2
  <2> QED
    BY <1>10, <2>1, <1>3, <1>5
    DEF GetGender, CountId, TypeOK, Reads, Ready, Return, Phases, LoginStages, queue
<1>11. CASE GetPasswd1(i)
  BY <1>11, <1>2, <1>3, <1>4, <1>5 DEF GetPasswd1, LoginStages
<1>12. CASE KickOutYn(i)
  <2>1. ASSUME NEW p \in Named(pname[i]), handlers' = Replaced(p, "motd"),
               Reads(i, "kickout"), QuitPlayer(i), Return,
               UNCHANGED <<chars, files, tables>>
        PROVE  TypeOK'
    <3>1. p \in Slots /\ Live(p)
      BY <2>1 DEF Named, InGame, InGameLive
    <3>2. handlers' \in [Slots -> Seq(Stages)]
      BY <2>1, <3>1, <1>5, ReplacedType DEF TypeOK
    <3> QED
      BY <2>1, <3>2, QuitPlayerType
      DEF TypeOK, Reads, Ready, Return, Phases, chars, files
  <2> QED
    BY <1>12, <2>1, <1>2, <1>3, <1>4, <1>5 DEF KickOutYn, LoginStages
<1>13. CASE Talker(i)
  <2>1. PICK tbl \in Entered(i) :
          /\ Reads(i, "motd")
          /\ \/ /\ handlers' = Replaced(i, "command")
                /\ iamon' = [iamon EXCEPT ![i] = TRUE]
                /\ idTable' = tbl
                /\ Return
                /\ UNCHANGED <<queue, pname, pid, away, files, mobIds>>
             \/ /\ \E save \in BOOLEAN : Crapup(i, save, TRUE, tbl, uaf)
                /\ Longjmp
                /\ UNCHANGED <<handlers, pid, idCounter, savedCounter, mobIds>>
    BY <1>13 DEF Talker
  <2>4. tbl \in IdTables /\ uaf \in PersonaFiles
    BY EnteredType DEF TypeOK, PersonaFiles
  <2>2. ASSUME Reads(i, "motd"), handlers' = Replaced(i, "command"),
               iamon' = [iamon EXCEPT ![i] = TRUE], idTable' = tbl, Return,
               UNCHANGED <<queue, pname, pid, away, files, mobIds>>
        PROVE  TypeOK'
    <3>1. handlers' \in [Slots -> Seq(Stages)]
      BY <2>2, <1>5, ReplacedType DEF Reads, TypeOK, GameStages
    <3> QED
      BY <2>2, <2>4, <3>1
      DEF TypeOK, Reads, Ready, Return, Phases, queue, files, IdTables
  <2>3. ASSUME Reads(i, "motd"), NEW save \in BOOLEAN,
               Crapup(i, save, TRUE, tbl, uaf), Longjmp,
               UNCHANGED <<handlers, pid, idCounter, savedCounter, mobIds>>
        PROVE  TypeOK'
    <3>1. LeaveType'
      BY <2>3, <2>4, CrapupType
    <3> QED
      BY <2>3, <3>1
      DEF LeaveType, TypeOK, Reads, Ready, Longjmp, Phases, PersonaFiles, IdTables
  <2> QED
    BY <2>1, <2>2, <2>3
<1> QED
  BY <1>1, <1>6, <1>7, <1>8, <1>9, <1>10, <1>11, <1>12, <1>13 DEF Login

\* Someone types a command or is forced to one.
Initiates(i) == Types(i) \/ \E f \in Slots : Forces(f, i)

LEMMA Initiated ==
  ASSUME InGameLive, NEW i \in Slots, Initiates(i)
  PROVE  Ready /\ Live(i)
  BY DEF Initiates, Types, Forces, Reads, InGame, InGameLive

LEMMA CommandInitiated ==
  ASSUME NEW i \in Slots, Command(i)
  PROVE  Initiates(i)
  BY DEF Command, CmdOther, CmdSub, CmdBecome, CmdLeave, CmdShutdown, CmdDestruct,
         CmdRemove, CmdDelete, CmdRename, Commands, Executes, Initiates

\* The part of TypeOK that says where the main loop stands.
CtlType ==
  /\ phase \in Phases
  /\ at \in IF phase \in {"shutdown", "term"} THEN 0 .. N ELSE {0}
  /\ actor \in IF phase \in {"shutdown", "after"} THEN Slots ELSE {NoSlot}
  /\ forcer \in IF phase \in {"shutdown", "after"} THEN Slots \cup {NoSlot} ELSE {NoSlot}

LEMMA ExecutesCtl ==
  ASSUME TypeOK, InGameLive, NEW i \in Slots, Executes(i),
         \/ phase' = "after" /\ UNCHANGED at
         \/ phase' = "shutdown" /\ at' = 0
  PROVE  CtlType'
<1>1. Ready
  BY Initiated DEF Initiates, Executes
<1>2. actor' \in Slots /\ forcer' \in Slots \cup {NoSlot}
  BY DEF Executes
<1>3. at' \in 0 .. N /\ at' = 0
  BY <1>1, NAssumption DEF Ready, TypeOK
<1> QED
  BY <1>2, <1>3 DEF CtlType, Phases

LEMMA CommandType ==
  ASSUME TypeOK, InGameLive, NEW i \in Slots, Command(i)
  PROVE  TypeOK'
<1> USE DEF NoSlot, NotQueued, OfMobile
<1>1. Subs \cup {"becom", "command"} \subseteq Stages /\ "becom" \in Stages
  BY DEF Stages, GameStages
<1>2. Ready /\ Live(i)
  BY CommandInitiated, Initiated
<1>3. ASSUME Commands(i)
      PROVE  CtlType'
  BY <1>3, ExecutesCtl DEF Commands
<1>4. CASE CmdOther(i)
  BY <1>3, <1>4 DEF CmdOther, CtlType, TypeOK, stacks, files
<1>5. CASE CmdSub(i)
  <2>1. handlers' \in [Slots -> Seq(Stages)]
    <3>1. \A h : SubsOver(h) \subseteq Subs
      BY DEF SubsOver, Subs
    <3> QED
      BY <1>1, <1>2, <1>5, <3>1, ReplacedType DEF CmdSub, TypeOK
  <2> QED
    BY <1>3, <1>5, <2>1 DEF CmdSub, CtlType, TypeOK, queue, chars, files
<1>6. CASE CmdBecome(i)
  <2>1. <<"becom">> \o handlers[i] \in Seq(Stages)
    BY <1>1, <1>2, PushedStack DEF Live, TypeOK
  <2> QED
    BY <1>3, <1>6, <2>1 DEF CmdBecome, CtlType, TypeOK, queue, chars, files
<1>7. CASE CmdLeave(i)
  <2>1. LeaveType'
    <3>1. iamon[i] \in BOOLEAN /\ idTable \in IdTables /\ uaf \in PersonaFiles
      BY DEF TypeOK, IdTables, PersonaFiles
    <3> QED
      BY <1>7, <3>1, CrapupType DEF CmdLeave
  <2> QED
    BY <1>2, <1>7, <2>1
    DEF CmdLeave, Ready, Longjmp, TypeOK, LeaveType, Phases, PersonaFiles, IdTables
<1>8. ASSUME NEW j \in Slots, CmdRemove(i, j)
      PROVE  TypeOK'
  <2>1. LeaveType'
    <3>1. /\ idTable \in IdTables /\ uaf \in PersonaFiles
          /\ [uaf EXCEPT ![pname[j]] = NoId] \in PersonaFiles
      BY DEF TypeOK, IdTables, PersonaFiles
    <3> QED
      BY <1>8, <3>1, CrapupType DEF CmdRemove
  <2> QED
    BY <1>3, <1>8, <2>1
    DEF CmdRemove, CtlType, TypeOK, LeaveType, PersonaFiles, IdTables
<1>9. CASE CmdDestruct(i)
  <2>1. mobIds' \subseteq Ids
    BY <1>9 DEF CmdDestruct, Without, TypeOK
  <2>2. idTable' \in IdTables
    <3>1. mobIds \subseteq Ids \cup {NoId} /\ idTable \in IdTables
      BY DEF TypeOK, IdTables
    <3> QED
      BY <1>9, <3>1, RemovedType DEF CmdDestruct
  <2>3. away' \in [Slots -> BOOLEAN]
    BY <1>9 DEF CmdDestruct, TypeOK
  <2> QED
    BY <1>3, <1>9, <2>1, <2>2, <2>3 DEF CmdDestruct, CtlType, TypeOK, IdTables, stacks, files
<1>10. ASSUME NEW n \in Names, CmdDelete(i, n)
       PROVE  TypeOK'
  BY <1>3, <1>10 DEF CmdDelete, CtlType, TypeOK, stacks, chars
<1>11. ASSUME NEW old \in Names, NEW new \in Names, CmdRename(i, old, new)
       PROVE  TypeOK'
  <2>1. /\ uaf' \in [Names -> Ids \cup {NoId}]
        /\ pname' \in [Slots -> Names \cup {NoName}]
    <3>1. ASSUME NEW j \in Named(old),
                 uaf' = [uaf EXCEPT ![old] = NoId, ![new] = pid[j]],
                 pname' = [pname EXCEPT ![j] = new]
          PROVE  /\ uaf' \in [Names -> Ids \cup {NoId}]
                 /\ pname' \in [Slots -> Names \cup {NoName}]
      <4>1. j \in Slots /\ pid[j] \in Ids \cup {NoId}
        BY DEF TypeOK, Named
      <4>2. uaf' \in [Names -> Ids \cup {NoId}]
        BY <3>1, <4>1 DEF TypeOK
      <4>3. pname' \in [Slots -> Names \cup {NoName}]
        BY <3>1, <4>1 DEF TypeOK
      <4> QED
        BY <4>2, <4>3
    <3>2. CASE uaf' = [uaf EXCEPT ![old] = NoId, ![new] = uaf[old]] /\ UNCHANGED pname
      <4>1. uaf[old] \in Ids \cup {NoId}
        BY DEF TypeOK
      <4> QED
        BY <3>2, <4>1 DEF TypeOK
    <3> QED
      BY <1>11, <3>1, <3>2 DEF CmdRename
  <2> QED
    BY <1>3, <1>11, <2>1 DEF CmdRename, CtlType, TypeOK, stacks
<1>12. CASE CmdShutdown(i)
  BY <1>12, ExecutesCtl DEF CmdShutdown, CtlType, TypeOK, stacks, chars, files
<1> QED
  BY <1>4, <1>5, <1>6, <1>7, <1>8, <1>9, <1>10, <1>11, <1>12 DEF Command

\* The two ways in which becom() gives a name and an ID.
LEMMA BecomesType ==
  ASSUME TypeOK, NEW i \in Slots, NEW n \in Names, uaf[n] /= NoId,
         BecomesPersona(i, n) \/ MobileBecomes(n)
  PROVE  /\ pname' \in [Slots -> Names \cup {NoName}]
         /\ pid' \in [Slots -> Ids \cup {NoId}]
         /\ uaf' \in [Names -> Ids \cup {NoId}]
         /\ idTable' \in IdTables
         /\ mobIds' \subseteq Ids
<1>1. /\ uaf[n] \in Ids /\ pid[i] \in Ids \cup {NoId}
      /\ mobIds \cup {NoId} \subseteq Ids \cup {NoId} /\ idTable \in IdTables
  BY DEF TypeOK, IdTables
<1>2. CASE BecomesPersona(i, n)
  <2>1. idTable' \in IdTables
    BY <1>1, <1>2, RemovedType, InsertedType DEF BecomesPersona
  <2> QED
    BY <1>2, <2>1 DEF BecomesPersona, TypeOK
<1>3. CASE MobileBecomes(n)
  <2>1. idTable' \in IdTables
    BY <1>1, <1>3, RemovedType, InsertedType DEF MobileBecomes
  <2>2. mobIds' \subseteq Ids
    BY <1>1, <1>3 DEF MobileBecomes, Without, TypeOK
  <2> QED
    BY <1>3, <2>1, <2>2 DEF MobileBecomes, TypeOK
<1> QED
  BY <1>2, <1>3

\* What Sub does to its player's stack.
LEMMA SubProceeds ==
  ASSUME NEW i \in Slots, Sub(i)
  PROVE  \/ \E h \in Subs : PromptAgain(i, h)
         \/ \E h \in Subs, next \in {"command", "motd", "becom"} :
              /\ Proceed(i, h, next)
              /\ next = "becom" => h = "on_becom"
  BY DEF Sub, Subs

LEMMA SubBecomEofType ==
  ASSUME TypeOK, NEW i \in Slots, Sub(i) \/ Becom(i) \/ Eof(i)
  PROVE  TypeOK'
<1> USE DEF NoSlot, NotQueued, OfMobile
<1>1. {"motd", "becom", "command"} \subseteq Stages
  BY DEF Stages, GameStages
<1>2. ASSUME NEW h \in Subs, PromptAgain(i, h)
      PROVE  TypeOK'
  BY <1>2 DEF PromptAgain, Reads, Ready, Return, TypeOK, Phases, stacks, chars, files
<1>3. ASSUME NEW h \in Subs, NEW next \in {"command", "motd", "becom"},
             Proceed(i, h, next)
      PROVE  TypeOK'
  <2>1. Replaced(i, next) \in [Slots -> Seq(Stages)]
    BY <1>1, <1>3, ReplacedType DEF Proceed, Reads, TypeOK
  <2> QED
    BY <1>3, <2>1
    DEF Proceed, Reads, Ready, Return, TypeOK, Phases, queue, chars, files
<1>4. CASE Becom(i)
  <2>1. <<"command">> \o Tail(Popped(handlers[i])) \in Seq(Stages)
    BY <1>1, <1>4, PoppedStack, ReplacedStack DEF Becom, Reads, Live, TypeOK
  <2>2. handlers' \in [Slots -> Seq(Stages)]
    BY <1>4, <2>1 DEF Becom, TypeOK
  <2>3. /\ pname' \in [Slots -> Names \cup {NoName}]
        /\ pid' \in [Slots -> Ids \cup {NoId}]
        /\ uaf' \in [Names -> Ids \cup {NoId}]
        /\ idTable' \in IdTables
        /\ mobIds' \subseteq Ids
    <3>1. CASE UNCHANGED <<pname, pid, uaf, tables>>
      BY <3>1 DEF TypeOK, IdTables
    <3> QED
      BY <1>4, <3>1, BecomesType DEF Becom
  <2> QED
    BY <1>4, <2>2, <2>3
    DEF Becom, Reads, Ready, Return, TypeOK, Phases, IdTables, queue
<1>5. CASE Eof(i)
  <2>1. LeaveType'
    BY <1>5, UnaliasedCrapupType DEF Eof
  <2> QED
    BY <1>5, <2>1 DEF Eof, Ready, Return, TypeOK, LeaveType, Phases, PersonaFiles, IdTables
<1> QED
  BY <1>2, <1>3, <1>4, <1>5, SubProceeds

\* The steps that no line of input brings about.
Looping ==
  \/ Internal \/ TimerStart \/ TermStart \/ Crash
  \/ \E i \in Slots : TimerDeath(i) \/ CrashInGetGender(i)

LEMMA LoopType ==
  ASSUME TypeOK, QuitListSound,
         Looping
  PROVE  TypeOK'
<1> USE DEF NoSlot, NotQueued, OfMobile
<1>1. idTable \in IdTables /\ uaf \in PersonaFiles
  BY DEF TypeOK, IdTables, PersonaFiles
<1>2. CASE EndConnection
  <2>1. <<>> \in Seq(Stages)
    BY EmptySeq
  <2>2. quitNext[quitList] \in Slots \cup {NoSlot}
    BY <1>2 DEF EndConnection, QuitListSound, HeadQueued, Queued, TypeOK
  <2> QED
    BY <1>2, <2>1, <2>2 DEF EndConnection, TypeOK, Phases, chars, files
<1>3. CASE NothingToEnd
  BY <1>3 DEF NothingToEnd, TypeOK, Phases, stacks, chars, files
<1>4. CASE After
  <2>1. CASE UNCHANGED <<queue, pname, iamon, away, uaf, idTable>>
    BY <1>4, <2>1 DEF After, TypeOK, Phases, queue
  <2>2. CASE InGame(actor) /\ Crapup(actor, TRUE, TRUE, idTable, uaf)
    <3>1. actor \in Slots
      BY <1>4 DEF After, TypeOK
    <3>2. LeaveType'
      BY <1>1, <2>2, <3>1, CrapupType
    <3> QED
      BY <1>4, <3>2 DEF After, TypeOK, LeaveType, Phases, PersonaFiles, IdTables
  <2> QED
    BY <1>4, <2>1, <2>2 DEF After
<1>5. CASE ShutdownStep
  <2>1. at \in Slots /\ at + 1 \in 0 .. N
    BY <1>5, NAssumption DEF ShutdownStep, TypeOK, Slots
  <2>2. CASE UNCHANGED <<queue, pname, iamon, away, uaf, idTable>>
    BY <1>5, <2>1, <2>2 DEF ShutdownStep, TypeOK, Phases, queue
  <2>3. CASE UnaliasedCrapup(at, TRUE)
    BY <1>5, <2>1, <2>3, UnaliasedCrapupType
    DEF ShutdownStep, TypeOK, LeaveType, Phases, PersonaFiles, IdTables
  <2> QED
    BY <1>5, <2>2, <2>3 DEF ShutdownStep
<1>6. CASE ShutdownEnd
  BY <1>6 DEF ShutdownEnd, TypeOK, Phases, stacks, chars, files
<1>7. CASE TimerEnd \/ TimerStart
  BY <1>7 DEF TimerEnd, TimerStart, AtHead, TypeOK, Phases, stacks, chars, files
<1>8. CASE TermStart
  BY <1>8, NAssumption DEF TermStart, AtHead, TypeOK, Phases, stacks, chars, files
<1>9. CASE TermStep
  <2>1. at \in Slots /\ at + 1 \in 0 .. N
    BY <1>9, NAssumption DEF TermStep, TypeOK, Slots
  <2>2. CASE UNCHANGED <<queue, pname, iamon, away, uaf, idTable>>
    BY <1>9, <2>1, <2>2 DEF TermStep, TypeOK, Phases, queue
  <2>3. CASE UnaliasedCrapup(at, TRUE)
    BY <1>9, <2>1, <2>3, UnaliasedCrapupType
    DEF TermStep, TypeOK, LeaveType, Phases, PersonaFiles, IdTables
  <2> QED
    BY <1>9, <2>2, <2>3 DEF TermStep
<1>10. CASE TermEnd \/ Crash
  <2>1. savedCounter \in 1 .. MaxId + 1
    BY DEF TypeOK
  <2> QED
    BY <1>1, <1>10, <2>1, BootType DEF TermEnd, Crash
<1>11. ASSUME NEW i \in Slots, TimerDeath(i)
       PROVE  TypeOK'
  <2>1. LeaveType'
    BY <1>1, <1>11, CrapupType DEF TimerDeath
  <2> QED
    BY <1>11, <2>1 DEF TimerDeath, TypeOK, LeaveType, ctl, PersonaFiles, IdTables
<1>12. ASSUME NEW i \in Slots, CrashInGetGender(i)
       PROVE  TypeOK'
  <2>1. /\ idCounter \in Ids \cup {NoId}
        /\ savedCounter \in 1 .. MaxId + 1
    BY <1>12, IdAssumption DEF CrashInGetGender, TypeOK, Ids
  <2>2. [uaf EXCEPT ![pname[i]] = idCounter] \in PersonaFiles
    BY <1>1, <2>1 DEF PersonaFiles
  <2> QED
    BY <1>12, <2>1, <2>2, BootType DEF CrashInGetGender
<1> QED
  BY <1>2, <1>3, <1>4, <1>5, <1>6, <1>7, <1>8, <1>9, <1>10, <1>11, <1>12
  DEF Internal, Looping

-----------------------------------------------------------------------------
(* The quit list *)

QuitListParts ==
  /\ HeadQueued /\ QueuedLive /\ NextQueued
  /\ AllLinked /\ NextInjective /\ NoCycle

\* Steps that leave the quit list alone and free no slot.
LEMMA QuitListFrame ==
  ASSUME QuitListSound, UNCHANGED queue,
         \A j \in Slots : Live(j) => Live(j)',
         phase = "term" => phase' = "term"
  PROVE  QuitListSound'
<1>1. CASE phase = "term"
  BY <1>1 DEF QuitListSound
<1>2. CASE phase /= "term"
  <2>1. \A j \in Slots : Queued(j)' <=> Queued(j)
    BY DEF queue, Queued
  <2>2. quitList' = quitList /\ quitNext' = quitNext
    BY DEF queue
  <2>3. QuitListParts
    BY <1>2 DEF QuitListSound, QuitListParts
  <2>4. HeadQueued' /\ NextQueued' /\ AllLinked' /\ NextInjective'
    BY <2>2, <2>3 DEF QuitListParts, HeadQueued, NextQueued, AllLinked,
                      NextInjective, Queued
  <2>5. QueuedLive'
    BY <2>1, <2>3 DEF QuitListParts, QueuedLive
  <2>6. NoCycle'
    BY <2>2, <2>3 DEF QuitListParts, NoCycle, Queued
  <2> QED
    BY <2>4, <2>5, <2>6 DEF QuitListSound
<1> QED
  BY <1>1, <1>2

\* quit_player() of someone with a connection: he becomes the head of the list.
LEMMA QuitPlayerSound ==
  ASSUME TypeOK, QuitListSound, NEW i \in Slots, QuitPlayer(i), Live(i)',
         \A j \in Slots : Live(j) => Live(j)',
         phase = "term" => phase' = "term"
  PROVE  QuitListSound'
<1>1. CASE Queued(i)
  BY <1>1, QuitListFrame DEF QuitPlayer
<1>2. CASE ~Queued(i) /\ phase /= "term"
  <2>1. /\ quitList' = i
        /\ quitNext' = [quitNext EXCEPT ![i] = quitList]
    BY <1>2 DEF QuitPlayer
  <2>2. QuitListParts
    BY <1>2 DEF QuitListSound, QuitListParts
  <2>3. \A j \in Slots : Queued(j)' <=> Queued(j) \/ j = i
    BY <2>1, SlotMarks DEF Queued, TypeOK
  <2>4. \A j \in Slots : j /= i => quitNext'[j] = quitNext[j]
    BY <2>1 DEF TypeOK
  <2>5. quitNext'[i] = quitList /\ quitList /= i
    BY <1>2, <2>1, <2>2, SlotMarks DEF QuitListParts, HeadQueued, TypeOK
  <2>6. \A j \in Slots : Queued(j) =>
          quitNext[j] \in Slots \cup {NoSlot} /\ quitNext[j] /= i
    BY <1>2, <2>2, SlotMarks DEF QuitListParts, NextQueued, Queued, TypeOK
  <2>7. HeadQueued'
    BY <2>1, <2>3, SlotMarks DEF HeadQueued
  <2>8. QueuedLive'
    BY <2>2, <2>3 DEF QuitListParts, QueuedLive
  <2>9. NextQueued'
    <3>1. ASSUME NEW j \in Slots, Queued(j)', quitNext'[j] /= NoSlot
          PROVE  (Queued(quitNext[j]) /\ quitNext[j] /= quitList)'
      <4>1. CASE j = i
        BY <2>1, <2>2, <2>3, <2>5, <3>1, <4>1
        DEF QuitListParts, HeadQueued, TypeOK, Queued
      <4>2. CASE j /= i
        <5>1. Queued(j) /\ quitNext'[j] = quitNext[j]
          BY <2>3, <2>4, <3>1, <4>2
        <5>2. quitNext[j] \in Slots /\ quitNext[j] /= i /\ Queued(quitNext[j])
          BY <2>2, <2>6, <3>1, <5>1 DEF QuitListParts, NextQueued
        <5> QED
          BY <2>1, <2>4, <5>1, <5>2 DEF Queued
      <4> QED
        BY <4>1, <4>2
    <3> QED
      BY <3>1 DEF NextQueued, Queued
  <2>10. AllLinked'
    <3>1. ASSUME NEW j \in Slots, Queued(j)', j /= quitList'
          PROVE  \E k \in Slots : Queued(k)' /\ quitNext'[k] = j
      <4>1. j /= i /\ Queued(j)
        BY <2>1, <2>3, <3>1
      <4>2. CASE j = quitList
        BY <2>3, <2>5, <4>2
      <4>3. CASE j /= quitList
        <5>1. PICK k \in Slots : Queued(k) /\ quitNext[k] = j
          BY <2>2, <4>1, <4>3 DEF QuitListParts, AllLinked
        <5> QED
          BY <1>2, <2>3, <2>4, <5>1
      <4> QED
        BY <4>2, <4>3
    <3> QED
      BY <3>1 DEF AllLinked
  <2>11. NextInjective'
    <3>1. \A m \in Slots : Queued(m) => quitNext[m] /= quitList
      BY <2>2, SlotMarks DEF QuitListParts, NextQueued, HeadQueued, TypeOK
    <3> QED
      BY <2>2, <2>3, <2>4, <2>5, <3>1 DEF QuitListParts, NextInjective
  <2>12. NoCycle'
    <3>1. ASSUME NEW S \in SUBSET {j \in Slots : Queued(j)'}, S /= {}
          PROVE  \E j \in S : quitNext'[j] \notin S
      <4>1. CASE S = {i}
        BY <2>5, <4>1
      <4>2. CASE S /= {i}
        <5>1. /\ S \ {i} \in SUBSET {j \in Slots : Queued(j)}
              /\ S \ {i} /= {}
          BY <2>3, <3>1, <4>2
        <5>2. PICK j \in S \ {i} : quitNext[j] \notin S \ {i}
          BY <2>2, <5>1 DEF QuitListParts, NoCycle
        <5>3. quitNext[j] /= i /\ quitNext'[j] = quitNext[j]
          BY <2>4, <2>6, <5>1, <5>2
        <5> QED
          BY <5>2, <5>3
      <4> QED
        BY <4>1, <4>2
    <3> QED
      BY <3>1 DEF NoCycle
  <2> QED
    BY <2>7, <2>8, <2>9, <2>10, <2>11, <2>12 DEF QuitListSound
<1>3. CASE phase = "term"
  BY <1>3 DEF QuitListSound
<1> QED
  BY <1>1, <1>2, <1>3

\* end_connection(): the head is taken off, and nobody else is.
LEMMA EndConnectionSound ==
  ASSUME TypeOK, QuitListSound, EndConnection
  PROVE  QuitListSound'
<1> DEFINE h == quitList
<1>1. /\ h \in Slots
      /\ quitList' = quitNext[h]
      /\ quitNext' = [quitNext EXCEPT ![h] = NotQueued]
      /\ handlers' = [handlers EXCEPT ![h] = <<>>]
  BY DEF EndConnection, TypeOK
<1>2. QuitListParts
  BY DEF EndConnection, QuitListSound, QuitListParts
<1>3. \A j \in Slots : Queued(j)' <=> Queued(j) /\ j /= h
  BY <1>1 DEF Queued, TypeOK
<1>4. \A j \in Slots : j /= h => quitNext'[j] = quitNext[j]
  BY <1>1 DEF TypeOK
<1>5. Queued(h)
  BY <1>1, <1>2, SlotMarks DEF QuitListParts, HeadQueued
<1>6. \A j \in Slots : Queued(j) =>
        quitNext[j] \in Slots \cup {NoSlot} /\ quitNext[j] /= h
  BY <1>1, <1>2, SlotMarks DEF QuitListParts, NextQueued, Queued, TypeOK
<1>7. HeadQueued'
  <2>1. CASE quitNext[h] /= NoSlot
    <3>1. quitNext[h] \in Slots /\ quitNext[h] /= h /\ Queued(quitNext[h])
      BY <1>1, <1>2, <1>5, <1>6, <2>1 DEF QuitListParts, NextQueued
    <3> QED
      BY <1>1, <1>4, <2>1, <3>1 DEF HeadQueued, Queued
  <2>2. CASE quitNext[h] = NoSlot
    <3>1. SUFFICES ASSUME NEW j \in Slots, Queued(j), j /= h
                   PROVE  FALSE
      BY <1>1, <1>3, <2>2 DEF HeadQueued
    <3> DEFINE S == {k \in Slots : Queued(k) /\ k /= h}
    <3>2. S \in SUBSET {k \in Slots : Queued(k)} /\ S /= {}
      BY <3>1
    <3>3. PICK e \in S : quitNext[e] \notin S
      BY <1>2, <3>2 DEF QuitListParts, NoCycle
    <3>4. quitNext[e] = NoSlot
      BY <1>2, <1>6, <3>3 DEF QuitListParts, NextQueued
    <3>5. e = h
      BY <1>1, <1>2, <1>5, <2>2, <3>4 DEF QuitListParts, NextInjective
    <3> QED
      BY <3>5
  <2> QED
    BY <2>1, <2>2
<1>8. QueuedLive'
  BY <1>1, <1>2, <1>3 DEF QuitListParts, QueuedLive, Live, TypeOK
<1>9. NextQueued'
  <2>1. ASSUME NEW j \in Slots, Queued(j)', quitNext'[j] /= NoSlot
        PROVE  (Queued(quitNext[j]) /\ quitNext[j] /= quitList)'
    <3>1. Queued(j) /\ j /= h /\ quitNext'[j] = quitNext[j]
      BY <1>3, <1>4, <2>1
    <3>2. quitNext[j] \in Slots /\ quitNext[j] /= h /\ Queued(quitNext[j])
      BY <1>2, <1>6, <2>1, <3>1 DEF QuitListParts, NextQueued
    <3>3. quitNext[j] /= quitNext[h]
      BY <1>1, <1>2, <1>5, <3>1 DEF QuitListParts, NextInjective
    <3> QED
      BY <1>1, <1>4, <3>1, <3>2, <3>3 DEF Queued
  <2> QED
    BY <2>1 DEF NextQueued, Queued
<1>10. AllLinked'
  <2>1. ASSUME NEW j \in Slots, Queued(j)', j /= quitList'
        PROVE  \E k \in Slots : Queued(k)' /\ quitNext'[k] = j
    <3>1. Queued(j) /\ j /= h
      BY <1>3, <2>1
    <3>2. PICK k \in Slots : Queued(k) /\ quitNext[k] = j
      BY <1>2, <3>1 DEF QuitListParts, AllLinked
    <3>3. k /= h
      BY <1>1, <2>1, <3>2
    <3> QED
      BY <1>3, <1>4, <3>2, <3>3
  <2> QED
    BY <2>1 DEF AllLinked
<1>11. NextInjective'
  BY <1>2, <1>3, <1>4 DEF QuitListParts, NextInjective
<1>12. NoCycle'
  <2>1. ASSUME NEW S \in SUBSET {j \in Slots : Queued(j)'}, S /= {}
        PROVE  \E j \in S : quitNext'[j] \notin S
    <3>1. S \in SUBSET {j \in Slots : Queued(j)}
      BY <1>3
    <3>2. PICK j \in S : quitNext[j] \notin S
      BY <1>2, <2>1, <3>1 DEF QuitListParts, NoCycle
    <3> QED
      BY <1>3, <1>4, <3>2
  <2> QED
    BY <2>1 DEF NoCycle
<1> QED
  BY <1>7, <1>8, <1>9, <1>10, <1>11, <1>12 DEF QuitListSound

-----------------------------------------------------------------------------
(* What InGameLive and StageSound say of one slot *)

SlotOK(j) ==
  /\ iamon[j] => pname[j] /= NoName /\ Live(j) /\ ~Queued(j)
  /\ away[j] => iamon[j]
  /\ Live(j) /\ ~Queued(j) =>
       /\ Head(handlers[j]) \in LoginStages => ~iamon[j] /\ Len(handlers[j]) = 1
       /\ Head(handlers[j]) \in GameStages => iamon[j]
       /\ Head(handlers[j]) /= "pname1" => pname[j] /= NoName
       /\ Head(handlers[j]) \in {"becom", "on_becom"} => Len(handlers[j]) > 1

SlotsOK == \A j \in Slots : SlotOK(j)

LEMMA SlotsOKDef == SlotsOK <=> InGameLive /\ StageSound
  BY DEF SlotsOK, SlotOK, InGameLive, StageSound

\* A slot that a step does not touch stays as it was.
LEMMA SlotFrame ==
  ASSUME NEW j \in Slots, SlotOK(j),
         handlers'[j] = handlers[j], quitNext'[j] = quitNext[j],
         pname'[j] = pname[j], iamon'[j] = iamon[j], away'[j] = away[j]
  PROVE  SlotOK(j)'
  BY DEF SlotOK, Live, Queued

\* quit_player() concerns one slot, and queues it.
LEMMA QuitPlayerSlot ==
  ASSUME TypeOK, NEW i \in Slots, QuitPlayer(i)
  PROVE  /\ Queued(i)'
         /\ \A j \in Slots : j /= i => quitNext'[j] = quitNext[j]
  BY SlotMarks DEF QuitPlayer, Queued, queue, TypeOK

\* Someone on the quit list and out of the game satisfies SlotOK.
LEMMA LeavingSlotOK ==
  ASSUME NEW i \in Slots, Queued(i), ~iamon[i], ~away[i]
  PROVE  SlotOK(i)
  BY DEF SlotOK

LEMMA LeavingSlotOKPrime ==
  ASSUME NEW i \in Slots, Queued(i)', ~iamon'[i], ~away'[i]
  PROVE  SlotOK(i)'
  BY DEF SlotOK

LEMMA DepartSlots ==
  ASSUME TypeOK, SlotsOK, NEW i \in Slots, NEW save, NEW on, NEW tbl, NEW written,
         Depart(i, save, on, tbl, written), UNCHANGED handlers,
         away' = [away EXCEPT ![i] = FALSE]
  PROVE  SlotsOK'
<1>1. SlotOK(i)'
  BY QuitPlayerSlot, LeavingSlotOKPrime DEF Depart, TypeOK, OutOfGame
<1>2. ASSUME NEW j \in Slots, j /= i
      PROVE  SlotOK(j)'
  BY <1>2, QuitPlayerSlot, SlotFrame DEF Depart, SlotsOK, TypeOK, OutOfGame
<1> QED
  BY <1>1, <1>2 DEF SlotsOK

LEMMA CrapupSlots ==
  ASSUME TypeOK, SlotsOK, NEW i \in Slots, NEW save, NEW on, NEW tbl, NEW written,
         Crapup(i, save, on, tbl, written), UNCHANGED handlers
  PROVE  SlotsOK'
<1>1. CASE away[i]
  BY <1>1 DEF Crapup, SlotsOK, SlotOK, TypeOK, queue, Live, Queued
<1>2. CASE ~away[i]
  BY <1>2, DepartSlots DEF Crapup
<1> QED
  BY <1>1, <1>2

LEMMA UnaliasedCrapupSlots ==
  ASSUME TypeOK, SlotsOK, NEW i \in Slots, UnaliasedCrapup(i, TRUE),
         UNCHANGED handlers
  PROVE  SlotsOK'
  BY DepartSlots DEF UnaliasedCrapup

\* While the main loop takes input, nobody is on the quit list.
LEMMA ReadyNotQueued ==
  ASSUME QuitListSound, Ready, NEW i \in Slots
  PROVE  ~Queued(i)
  BY DEF Ready, QuitListSound, HeadQueued

\* A new handler for someone who is asked for input.
LEMMA ProceedSlots ==
  ASSUME TypeOK, QuitListSound, SlotsOK,
         NEW i \in Slots, NEW h \in Stages, NEW next \in Stages, Reads(i, h),
         handlers' = Replaced(i, next),
         UNCHANGED <<quitNext, pname, away>>,
         \A j \in Slots : j /= i => iamon'[j] = iamon[j],
         next \in LoginStages => h \in LoginStages /\ iamon'[i] = iamon[i],
         next \in GameStages => iamon'[i],
         h /= "pname1",
         next \in {"becom", "on_becom"} => h \in {"becom", "on_becom"},
         iamon[i] => iamon'[i]
  PROVE  SlotsOK'
<1>1. Live(i) /\ Head(handlers[i]) = h /\ ~Queued(i)
  BY ReadyNotQueued DEF Reads
<1>2. /\ handlers'[i] /= <<>>
      /\ Head(handlers'[i]) = next
      /\ Len(handlers'[i]) = Len(handlers[i])
  BY <1>1, ReplacedStack DEF Replaced, Live, TypeOK
<1>3. SlotOK(i)'
  BY <1>1, <1>2 DEF SlotsOK, SlotOK, Live, Queued
<1>4. ASSUME NEW j \in Slots, j /= i
      PROVE  SlotOK(j)'
  BY <1>4, SlotFrame DEF SlotsOK, Replaced, TypeOK
<1> QED
  BY <1>3, <1>4 DEF SlotsOK

LEMMA StageSets ==
  /\ LoginStages \cap GameStages = {}
  /\ "motd" \notin LoginStages \cup GameStages
  /\ LoginStages \cup GameStages \cup {"motd"} = Stages
  BY DEF LoginStages, GameStages, Subs, Stages

LEMMA LoginSlots ==
  ASSUME TypeOK, QuitListSound, SlotsOK, NEW i \in Slots, Login(i)
  PROVE  SlotsOK'
<1>1. CASE NewConnection(i)
  <2>1. handlers'[i] = <<"pname1">>
    BY <1>1 DEF NewConnection, TypeOK
  <2>2. SlotOK(i)'
    BY <1>1, <2>1 DEF NewConnection, SlotOK, TypeOK, LoginStages, GameStages, Subs
  <2>3. ASSUME NEW j \in Slots, j /= i
        PROVE  SlotOK(j)'
    BY <1>1, <2>3, SlotFrame DEF NewConnection, SlotsOK, TypeOK
  <2> QED
    BY <2>2, <2>3 DEF SlotsOK
<1>2. ASSUME NEW h \in LoginStages, HangUp(i, h)
      PROVE  SlotsOK'
  <2>1. ~iamon[i] /\ ~away[i]
    BY <1>2, ReadyNotQueued DEF HangUp, Reads, SlotsOK, SlotOK, TypeOK
  <2>2. SlotOK(i)'
    BY <1>2, <2>1, QuitPlayerSlot, LeavingSlotOKPrime DEF HangUp, chars
  <2>3. ASSUME NEW j \in Slots, j /= i
        PROVE  SlotOK(j)'
    BY <1>2, <2>3, QuitPlayerSlot, SlotFrame DEF HangUp, SlotsOK, chars
  <2> QED
    BY <2>2, <2>3 DEF SlotsOK
<1>3. ASSUME NEW h, PromptAgain(i, h)
      PROVE  SlotsOK'
  BY <1>3 DEF PromptAgain, SlotsOK, SlotOK, Live, Queued, stacks, chars
<1>4. ASSUME NEW h \in LoginStages \ {"pname1"},
             NEW next \in LoginStages \cup {"motd"}, Proceed(i, h, next)
      PROVE  SlotsOK'
  BY <1>4, ProceedSlots, StageSets DEF Proceed, queue, chars, GameStages, Subs
<1>5. CASE GetPname1(i)
  <2>1. CASE HangUp(i, "pname1") \/ PromptAgain(i, "pname1")
    BY <2>1, <1>2, <1>3 DEF LoginStages
  <2>2. ASSUME Reads(i, "pname1"),
               NEW n \in Names, pname' = [pname EXCEPT ![i] = n],
               UNCHANGED <<iamon, away>>,
               \/ handlers' = Replaced(i, "pname2") /\ UNCHANGED queue
               \/ handlers' = Replaced(i, "passwd1") /\ UNCHANGED queue
               \/ QuitPlayer(i) /\ UNCHANGED handlers
        PROVE  SlotsOK'
    <3>1. /\ Live(i) /\ ~Queued(i) /\ ~iamon[i] /\ ~away[i]
          /\ Len(handlers[i]) = 1
          /\ pname'[i] /= NoName
      BY <2>2, ReadyNotQueued, NameAssumption
      DEF Reads, SlotsOK, SlotOK, LoginStages, TypeOK
    <3>2. CASE QuitPlayer(i) /\ UNCHANGED handlers
      BY <2>2, <3>1, <3>2, QuitPlayerSlot, LeavingSlotOKPrime, SlotFrame
      DEF SlotsOK, TypeOK
    <3>3. ASSUME NEW next \in {"pname2", "passwd1"},
                 handlers' = Replaced(i, next), UNCHANGED queue
          PROVE  SlotsOK'
      <4>1. next \in Stages /\ next \notin GameStages
        BY DEF Stages, LoginStages, GameStages, Subs
      <4>2. /\ Head(handlers'[i]) = next
            /\ Len(handlers'[i]) = 1
        BY <3>1, <3>3, <4>1, ReplacedStack DEF Replaced, Live, TypeOK
      <4>3. SlotOK(i)'
        BY <2>2, <3>1, <3>3, <4>1, <4>2 DEF SlotOK, queue
      <4>4. ASSUME NEW j \in Slots, j /= i
            PROVE  SlotOK(j)'
        BY <2>2, <3>3, <4>4, SlotFrame DEF SlotsOK, Replaced, TypeOK, queue
      <4> QED
        BY <4>3, <4>4 DEF SlotsOK
    <3> QED
      BY <2>2, <3>2, <3>3
  <2> QED
    BY <1>5, <2>1, <2>2 DEF GetPname1
<1>6. CASE GetPname2(i)
  <2>1. ASSUME Reads(i, "pname2"), handlers' = Replaced(i, "pname1"),
               QuitPlayer(i), UNCHANGED chars
        PROVE  SlotsOK'
    <3>1. ~iamon[i] /\ ~away[i]
      BY <2>1, ReadyNotQueued DEF Reads, SlotsOK, SlotOK, LoginStages, TypeOK
    <3>2. SlotOK(i)'
      BY <2>1, <3>1, QuitPlayerSlot, LeavingSlotOKPrime DEF chars
    <3>3. ASSUME NEW j \in Slots, j /= i
          PROVE  SlotOK(j)'
      BY <2>1, <3>3, QuitPlayerSlot, SlotFrame DEF SlotsOK, chars, Replaced, TypeOK
    <3> QED
      BY <3>2, <3>3 DEF SlotsOK
  <2> QED
    BY <1>6, <1>4, <2>1 DEF GetPname2, LoginStages
<1>7. CASE GetNewPass1(i)
  BY <1>7, <1>2, <1>4 DEF GetNewPass1, LoginStages
<1>8. CASE GetNewPass2(i)
  BY <1>8, <1>2, <1>4 DEF GetNewPass2, LoginStages
<1>9. CASE GetGender(i)
  <2>1. CASE Reads(i, "gender") /\ handlers' = Replaced(i, "motd")
             /\ UNCHANGED <<quitNext, pname, iamon, away>>
    BY <2>1, ProceedSlots, StageSets DEF LoginStages, GameStages
  <2> QED
    BY <1>9, <1>3, <2>1 DEF GetGender, CountId, queue
<1>10. CASE GetPasswd1(i)
  BY <1>10, <1>2, <1>3, <1>4 DEF GetPasswd1, LoginStages
<1>11. CASE KickOutYn(i)
  <2>1. ASSUME NEW p \in Named(pname[i]), handlers' = Replaced(p, "motd"),
               Reads(i, "kickout"), QuitPlayer(i), UNCHANGED chars
        PROVE  SlotsOK'
    <3>1. /\ p \in Slots /\ iamon[p] /\ pname[p] /= NoName
          /\ Live(p) /\ ~Queued(p)
      BY <2>1 DEF Named, InGame, SlotsOK, SlotOK
    <3>2. ~iamon[i] /\ ~away[i]
      BY <2>1, ReadyNotQueued DEF Reads, SlotsOK, SlotOK, LoginStages, TypeOK
    <3>3. SlotOK(i)'
      BY <2>1, <3>2, QuitPlayerSlot, LeavingSlotOKPrime DEF chars
    <3>4. SlotOK(p)'
      <4>1. handlers'[p] /= <<>> /\ Head(handlers'[p]) = "motd"
        BY <2>1, <3>1, StageSets, ReplacedStack DEF Replaced, Live, TypeOK
      <4>2. quitNext'[p] = quitNext[p]
        BY <2>1, <3>1, <3>2, QuitPlayerSlot
      <4> QED
        BY <2>1, <3>1, <4>1, <4>2, StageSets DEF SlotOK, Live, Queued, chars
    <3>5. ASSUME NEW j \in Slots, j /= i, j /= p
          PROVE  SlotOK(j)'
      BY <2>1, <3>5, QuitPlayerSlot, SlotFrame DEF SlotsOK, chars, Replaced, TypeOK
    <3> QED
      BY <3>3, <3>4, <3>5 DEF SlotsOK
  <2> QED
    BY <1>11, <1>2, <1>3, <1>4, <2>1 DEF KickOutYn, LoginStages
<1>12. CASE Talker(i)
  <2>1. ASSUME Reads(i, "motd"), handlers' = Replaced(i, "command"),
               iamon' = [iamon EXCEPT ![i] = TRUE],
               UNCHANGED <<queue, pname, away>>
        PROVE  SlotsOK'
    <3>1. /\ \A j \in Slots : j /= i => iamon'[j] = iamon[j]
          /\ iamon'[i]
      BY <2>1 DEF TypeOK
    <3>2. "command" \in Stages \ LoginStages
      BY DEF Stages, LoginStages, GameStages
    <3> QED
      BY <2>1, <3>1, <3>2, ProceedSlots, StageSets DEF queue
  <2>2. ASSUME NEW save, NEW tbl, Crapup(i, save, TRUE, tbl, uaf),
               UNCHANGED handlers
        PROVE  SlotsOK'
    BY <2>2, CrapupSlots
  <2> QED
    BY <1>12, <2>1, <2>2 DEF Talker
<1> QED
  BY <1>1, <1>5, <1>6, <1>7, <1>8, <1>9, <1>10, <1>11, <1>12 DEF Login

\* Whoever executes a command is in the game, and nobody is on the quit list.
LEMMA InitiatedSlot ==
  ASSUME QuitListSound, SlotsOK, NEW i \in Slots, Initiates(i)
  PROVE  /\ Ready /\ Live(i) /\ ~Queued(i) /\ iamon[i] /\ pname[i] /= NoName
         /\ Head(handlers[i]) /= "pname1"
<1>1. Ready /\ Live(i)
  BY SlotsOKDef, Initiated
<1>2. iamon[i]
  <2>1. CASE Types(i)
    BY <1>1, <2>1, ReadyNotQueued DEF Types, Reads, SlotsOK, SlotOK, GameStages
  <2>2. ASSUME NEW f \in Slots, Forces(f, i)
        PROVE  iamon[i]
    BY <2>2 DEF Forces, InGame
  <2> QED
    BY <2>1, <2>2 DEF Initiates
<1> QED
  BY <1>1, <1>2 DEF SlotsOK, SlotOK, LoginStages

LEMMA CommandSlots ==
  ASSUME TypeOK, QuitListSound, SlotsOK, NEW i \in Slots, Command(i)
  PROVE  SlotsOK'
<1>1. /\ Ready /\ Live(i) /\ ~Queued(i) /\ iamon[i] /\ pname[i] /= NoName
      /\ Head(handlers[i]) /= "pname1"
  BY CommandInitiated, InitiatedSlot
<1>2. ASSUME UNCHANGED <<handlers, quitNext, pname, iamon>>,
             \E j \in Slots, a \in BOOLEAN :
               away' = [away EXCEPT ![j] = a] /\ (a => iamon[j])
      PROVE  SlotsOK'
  BY <1>2 DEF SlotsOK, SlotOK, Live, Queued, TypeOK
<1>3. CASE CmdOther(i)
  BY <1>1, <1>2, <1>3 DEF CmdOther, stacks
<1>4. CASE CmdSub(i)
  <2>1. PICK h \in SubsOver(Head(handlers[i])) : handlers' = Replaced(i, h)
    BY <1>4 DEF CmdSub
  <2>2. /\ h \in Stages \ LoginStages
        /\ h \in {"becom", "on_becom"} => Head(handlers[i]) \in {"becom", "on_becom"}
    BY DEF SubsOver, Stages, LoginStages, GameStages, Subs
  <2>3. Head(handlers[i]) \in Stages
    BY <1>1 DEF Live, TypeOK
  <2>4. Reads(i, Head(handlers[i])) /\ UNCHANGED <<queue, chars>>
    BY <1>1, <1>4 DEF CmdSub, Reads
  <2> QED
    BY <1>1, <2>1, <2>2, <2>3, <2>4, ProceedSlots DEF queue, chars
<1>5. CASE CmdBecome(i)
  <2>1. /\ handlers'[i] = <<"becom">> \o handlers[i]
        /\ "becom" \in Stages \ LoginStages
    BY <1>5 DEF CmdBecome, TypeOK, Stages, LoginStages, GameStages
  <2>2. /\ handlers'[i] /= <<>> /\ Head(handlers'[i]) = "becom"
        /\ Len(handlers'[i]) > 1
    BY <1>1, <2>1, PushedStack DEF Live, TypeOK
  <2>3. SlotOK(i)'
    BY <1>1, <1>5, <2>1, <2>2 DEF CmdBecome, SlotOK, Live, Queued, queue, chars
  <2>4. ASSUME NEW j \in Slots, j /= i
        PROVE  SlotOK(j)'
    BY <1>5, <2>4, SlotFrame DEF CmdBecome, SlotsOK, TypeOK, queue, chars
  <2> QED
    BY <2>3, <2>4 DEF SlotsOK
<1>6. CASE CmdLeave(i)
  BY <1>6, CrapupSlots DEF CmdLeave
<1>7. ASSUME NEW j \in Slots, CmdRemove(i, j)
      PROVE  SlotsOK'
  BY <1>7, CrapupSlots DEF CmdRemove
<1>8. CASE CmdDestruct(i)
  <2>1. CASE UNCHANGED away
    BY <1>8, <2>1 DEF CmdDestruct, SlotsOK, SlotOK, Live, Queued, stacks
  <2>2. ASSUME NEW j \in Slots, away' = [away EXCEPT ![j] = FALSE]
        PROVE  SlotsOK'
    BY <1>2, <1>8, <2>2 DEF CmdDestruct, stacks
  <2> QED
    BY <1>8, <2>1, <2>2 DEF CmdDestruct
<1>9. ASSUME NEW n \in Names, CmdDelete(i, n)
      PROVE  SlotsOK'
  BY <1>9 DEF CmdDelete, SlotsOK, SlotOK, Live, Queued, stacks, chars
<1>10. ASSUME NEW old \in Names, NEW new \in Names, CmdRename(i, old, new)
       PROVE  SlotsOK'
  <2>1. /\ UNCHANGED <<handlers, quitNext, iamon, away>>
        /\ \A j \in Slots : pname'[j] = pname[j] \/ pname'[j] = new
    BY <1>10 DEF CmdRename, stacks, TypeOK
  <2>2. \A j \in Slots : pname[j] /= NoName => pname'[j] /= NoName
    BY <2>1, NameAssumption
  <2> QED
    BY <2>1, <2>2 DEF SlotsOK, SlotOK, Live, Queued
<1>11. CASE CmdShutdown(i)
  BY <1>11 DEF CmdShutdown, SlotsOK, SlotOK, Live, Queued, stacks, chars
<1> QED
  BY <1>3, <1>4, <1>5, <1>6, <1>7, <1>8, <1>9, <1>10, <1>11 DEF Command

LEMMA SubBecomEofSlots ==
  ASSUME TypeOK, QuitListSound, SlotsOK, NEW i \in Slots,
         Sub(i) \/ Becom(i) \/ Eof(i)
  PROVE  SlotsOK'
<1>1. ASSUME NEW h, PromptAgain(i, h)
      PROVE  SlotsOK'
  BY <1>1 DEF PromptAgain, SlotsOK, SlotOK, Live, Queued, stacks, chars
<1>2. ASSUME NEW h \in Subs, NEW next \in {"command", "motd", "becom"},
             Proceed(i, h, next), next = "becom" => h = "on_becom"
      PROVE  SlotsOK'
  <2>1. /\ h \in Stages \ {"pname1"}
        /\ next \in Stages \ LoginStages
        /\ h \in GameStages
        /\ next # "on_becom"
    BY DEF Stages, LoginStages, GameStages, Subs
  <2>2. iamon[i]
    BY <1>2, <2>1, ReadyNotQueued DEF Proceed, Reads, SlotsOK, SlotOK
  <2> QED
    BY <1>2, <2>1, <2>2, ProceedSlots DEF Proceed, queue, chars
<1>3. CASE Becom(i)
  <2>1. /\ Reads(i, "becom") /\ Live(i) /\ ~Queued(i) /\ iamon[i]
        /\ pname[i] /= NoName
    BY <1>3, ReadyNotQueued DEF Becom, Reads, SlotsOK, SlotOK, GameStages
  <2>2. "command" \in Stages \ LoginStages
    BY DEF Stages, LoginStages, GameStages
  <2>3. /\ handlers'[i] /= <<>>
        /\ Head(handlers'[i]) = "command"
    <3>1. Popped(handlers[i]) \in Seq(Stages) /\ Popped(handlers[i]) /= <<>>
      BY <2>1, PoppedStack DEF Live, TypeOK
    <3> QED
      BY <1>3, <2>2, <3>1, ReplacedStack DEF Becom, TypeOK
  <2>4. /\ pname'[i] /= NoName
        /\ \A j \in Slots : j /= i => pname'[j] = pname[j]
    BY <1>3, <2>1, NameAssumption DEF Becom, BecomesPersona, MobileBecomes, TypeOK
  <2>5. SlotOK(i)'
    BY <1>3, <2>1, <2>2, <2>3, <2>4 DEF Becom, SlotOK, Live, Queued, queue
  <2>6. ASSUME NEW j \in Slots, j /= i
        PROVE  SlotOK(j)'
    BY <1>3, <2>4, <2>6, SlotFrame DEF Becom, SlotsOK, TypeOK, queue
  <2> QED
    BY <2>5, <2>6 DEF SlotsOK
<1>4. CASE Eof(i)
  BY <1>4, UnaliasedCrapupSlots DEF Eof
<1> QED
  BY <1>1, <1>2, <1>3, <1>4, SubProceeds

LEMMA LoopSlots ==
  ASSUME TypeOK, QuitListSound, SlotsOK,
         Looping
  PROVE  SlotsOK'
<1>1. CASE EndConnection
  <2>1. PICK h \in Slots : h = quitList /\ Queued(h)
    BY <1>1, SlotMarks DEF EndConnection, QuitListSound, HeadQueued, TypeOK
  <2>2. ~iamon[h] /\ ~away[h]
    BY <2>1 DEF SlotsOK, SlotOK
  <2>3. SlotOK(h)'
    BY <1>1, <2>1, <2>2 DEF EndConnection, SlotOK, Live, chars, TypeOK
  <2>4. ASSUME NEW j \in Slots, j /= h
        PROVE  SlotOK(j)'
    BY <1>1, <2>1, <2>4, SlotFrame DEF EndConnection, SlotsOK, chars, TypeOK
  <2> QED
    BY <2>3, <2>4 DEF SlotsOK
<1>2. CASE NothingToEnd \/ ShutdownEnd \/ TimerEnd \/ TimerStart \/ TermStart
  BY <1>2 DEF NothingToEnd, ShutdownEnd, TimerEnd, TimerStart, TermStart,
              SlotsOK, SlotOK, Live, Queued, stacks, chars
<1>3. CASE UNCHANGED <<handlers, queue, pname, iamon, away>>
  BY <1>3 DEF SlotsOK, SlotOK, Live, Queued, queue
<1>4. CASE After
  <2>1. actor \in Slots
    BY <1>4 DEF After, TypeOK
  <2> QED
    BY <1>3, <1>4, <2>1, CrapupSlots DEF After
<1>5. CASE ShutdownStep
  <2>1. at \in Slots
    BY <1>5, NAssumption DEF ShutdownStep, TypeOK, Slots
  <2> QED
    BY <1>3, <1>5, <2>1, UnaliasedCrapupSlots DEF ShutdownStep
<1>6. CASE TermStep
  <2>1. at \in Slots
    BY <1>6, NAssumption DEF TermStep, TypeOK, Slots
  <2> QED
    BY <1>3, <1>6, <2>1, UnaliasedCrapupSlots DEF TermStep
<1>7. CASE TermEnd \/ Crash \/ \E i \in Slots : CrashInGetGender(i)
  BY <1>7 DEF TermEnd, Crash, CrashInGetGender, Boot, SlotsOK, SlotOK, Live
<1>8. ASSUME NEW i \in Slots, TimerDeath(i)
      PROVE  SlotsOK'
  BY <1>8, CrapupSlots DEF TimerDeath
<1> QED
  BY <1>1, <1>2, <1>4, <1>5, <1>6, <1>7, <1>8 DEF Internal, Looping

-----------------------------------------------------------------------------
(* Every step, and the theorems *)

\* What a step other than end_connection() and a restart does to the quit list.
QueueStep ==
  /\ \/ UNCHANGED queue
     \/ \E i \in Slots : QuitPlayer(i) /\ Live(i)'
  /\ \A j \in Slots : Live(j) => Live(j)'
  /\ phase = "term" => phase' = "term"

LEMMA QueueStepSound ==
  ASSUME TypeOK, QuitListSound, QueueStep
  PROVE  QuitListSound'
  BY QuitListFrame, QuitPlayerSound DEF QueueStep

LEMMA CrapupQueue ==
  ASSUME NEW i \in Slots, NEW save, NEW on, NEW tbl, NEW written,
         Crapup(i, save, on, tbl, written)
  PROVE  UNCHANGED queue \/ QuitPlayer(i)
  BY DEF Crapup, Depart, queue

\* A step that gives slot i another stack, and no slot an empty one.
LEMMA StackStep ==
  ASSUME TypeOK, NEW i \in Slots, NEW s \in Seq(Stages), s /= <<>>,
         handlers' = [handlers EXCEPT ![i] = s]
  PROVE  Live(i)' /\ \A j \in Slots : Live(j) => Live(j)'
  BY DEF TypeOK, Live

LEMMA ReplacedLive ==
  ASSUME TypeOK, NEW i \in Slots, Live(i), NEW h \in Stages,
         handlers' = Replaced(i, h)
  PROVE  Live(i)' /\ \A j \in Slots : Live(j) => Live(j)'
<1>1. /\ <<h>> \o Tail(handlers[i]) \in Seq(Stages)
      /\ <<h>> \o Tail(handlers[i]) /= <<>>
  BY ReplacedStack DEF Live, TypeOK
<1> QED
  BY <1>1, StackStep DEF Replaced

LEMMA LoginQueue ==
  ASSUME TypeOK, QuitListSound, SlotsOK, NEW i \in Slots, Login(i)
  PROVE  QueueStep
<1> DEFINE Grows == \A j \in Slots : Live(j) => Live(j)'
<1>1. phase /= "term"
  BY DEF Login, NewConnection, GetPname1, GetPname2, GetNewPass1, GetNewPass2,
         GetGender, GetPasswd1, KickOutYn, Talker, HangUp, PromptAgain, Proceed,
         Reads, Ready
<1>2. CASE NewConnection(i)
  <2>1. <<"pname1">> \in Seq(Stages) /\ <<"pname1">> /= <<>>
    BY DEF Stages, LoginStages
  <2>2. Grows
    BY <1>2, <2>1, StackStep DEF NewConnection
  <2>3. quitNext[i] = NotQueued
    BY <1>2, ReadyNotQueued DEF NewConnection, Queued
  <2>4. UNCHANGED queue
    BY <1>2, <2>3 DEF NewConnection, queue, TypeOK
  <2> QED
    BY <1>1, <2>2, <2>4 DEF QueueStep
<1>3. ASSUME UNCHANGED handlers, UNCHANGED queue \/ QuitPlayer(i), Live(i)
      PROVE  QueueStep
  BY <1>1, <1>3 DEF QueueStep, Live
<1>4. ASSUME NEW p \in Slots, NEW h \in Stages, handlers' = Replaced(p, h),
             UNCHANGED queue \/ QuitPlayer(i), Live(p), Live(i)
      PROVE  QueueStep
  BY <1>1, <1>4, ReplacedLive DEF QueueStep
<1>5. ASSUME NEW h \in Stages, HangUp(i, h) \/ PromptAgain(i, h)
      PROVE  QueueStep
  BY <1>3, <1>5 DEF HangUp, PromptAgain, Reads, stacks, queue
<1>6. ASSUME NEW h \in Stages, NEW next \in Stages, Proceed(i, h, next)
      PROVE  QueueStep
  BY <1>4, <1>6 DEF Proceed, Reads
<1>7. LoginStages \cup {"motd", "command"} \subseteq Stages
  BY DEF Stages, GameStages
<1>8. CASE GetPname1(i)
  BY <1>3, <1>4, <1>5, <1>7, <1>8 DEF GetPname1, Reads, LoginStages
<1>9. CASE GetPname2(i)
  BY <1>4, <1>6, <1>7, <1>9 DEF GetPname2, Reads, LoginStages
<1>10. CASE GetNewPass1(i) \/ GetNewPass2(i)
  BY <1>5, <1>6, <1>7, <1>10 DEF GetNewPass1, GetNewPass2, LoginStages
<1>11. CASE GetGender(i)
  BY <1>4, <1>5, <1>7, <1>11 DEF GetGender, Reads, LoginStages
<1>12. CASE GetPasswd1(i)
  BY <1>5, <1>6, <1>7, <1>12 DEF GetPasswd1, LoginStages
<1>13. CASE KickOutYn(i)
  <2>1. ASSUME NEW p \in Named(pname[i]), handlers' = Replaced(p, "motd"),
               Reads(i, "kickout"), QuitPlayer(i)
        PROVE  QueueStep
    <3>1. p \in Slots /\ Live(p)
      BY <2>1 DEF Named, InGame, SlotsOK, SlotOK
    <3> QED
      BY <1>4, <1>7, <2>1, <3>1 DEF Reads
  <2> QED
    BY <1>5, <1>6, <1>7, <1>13, <2>1 DEF KickOutYn, LoginStages
<1>14. CASE Talker(i)
  <2>1. ASSUME Reads(i, "motd"), UNCHANGED handlers,
               NEW save, NEW tbl, Crapup(i, save, TRUE, tbl, uaf)
        PROVE  QueueStep
    BY <1>3, <2>1, CrapupQueue DEF Reads
  <2> QED
    BY <1>4, <1>7, <1>14, <2>1 DEF Talker, Reads
<1> QED
  BY <1>2, <1>8, <1>9, <1>10, <1>11, <1>12, <1>13, <1>14 DEF Login

LEMMA CommandQueue ==
  ASSUME TypeOK, QuitListSound, SlotsOK, NEW i \in Slots, Command(i)
  PROVE  QueueStep
<1>1. Live(i) /\ phase /= "term" /\ phase' /= "term"
  <2>1. Ready /\ Live(i)
    BY CommandInitiated, InitiatedSlot
  <2> QED
    BY <2>1 DEF Command, CmdOther, CmdSub, CmdBecome, CmdLeave, CmdShutdown, CmdDestruct,
                CmdRemove, CmdDelete, CmdRename, Commands, Ready, Longjmp
<1>2. ASSUME UNCHANGED handlers, UNCHANGED queue
      PROVE  QueueStep
  BY <1>1, <1>2 DEF QueueStep, Live
<1>3. ASSUME NEW j \in Slots, NEW save, NEW on, NEW tbl, NEW written, Live(j),
             UNCHANGED handlers, Crapup(j, save, on, tbl, written)
      PROVE  QueueStep
  BY <1>1, <1>3, CrapupQueue DEF QueueStep, Live
<1>4. CASE CmdOther(i) \/ CmdShutdown(i) \/ CmdDestruct(i)
  BY <1>2, <1>4 DEF CmdOther, CmdShutdown, CmdDestruct, stacks, queue
<1>5. CASE CmdSub(i)
  <2>1. PICK h \in SubsOver(Head(handlers[i])) : handlers' = Replaced(i, h)
    BY <1>5 DEF CmdSub
  <2>2. h \in Stages
    BY DEF SubsOver, Stages, GameStages, Subs
  <2> QED
    BY <1>1, <1>5, <2>1, <2>2, ReplacedLive DEF CmdSub, QueueStep
<1>6. CASE CmdBecome(i)
  <2>1. /\ <<"becom">> \o handlers[i] \in Seq(Stages)
        /\ <<"becom">> \o handlers[i] /= <<>>
    BY <1>1, PushedStack DEF Stages, GameStages, Live, TypeOK
  <2>2. handlers' = [handlers EXCEPT ![i] = <<"becom">> \o handlers[i]]
    BY <1>6 DEF CmdBecome
  <2> QED
    BY <1>1, <1>6, <2>1, <2>2, StackStep DEF CmdBecome, QueueStep
<1>7. CASE CmdLeave(i)
  BY <1>1, <1>3, <1>7 DEF CmdLeave
<1>8. ASSUME NEW j \in Slots, CmdRemove(i, j)
      PROVE  QueueStep
  <2>1. Live(j)
    BY <1>8 DEF CmdRemove, InGame, SlotsOK, SlotOK
  <2> QED
    BY <1>3, <1>8, <2>1 DEF CmdRemove
<1>9. ASSUME NEW n \in Names, CmdDelete(i, n)
      PROVE  QueueStep
  BY <1>2, <1>9 DEF CmdDelete, stacks, queue
<1>10. ASSUME NEW old \in Names, NEW new \in Names, CmdRename(i, old, new)
       PROVE  QueueStep
  BY <1>2, <1>10 DEF CmdRename, stacks, queue
<1> QED
  BY <1>4, <1>5, <1>6, <1>7, <1>8, <1>9, <1>10 DEF Command

LEMMA SubBecomEofQueue ==
  ASSUME TypeOK, QuitListSound, SlotsOK, NEW i \in Slots,
         Sub(i) \/ Becom(i) \/ Eof(i)
  PROVE  QueueStep
<1>1. Live(i) /\ phase /= "term"
  BY DEF Sub, Becom, Eof, PromptAgain, Proceed, Reads, Ready
<1>2. ASSUME NEW h, PromptAgain(i, h)
      PROVE  QueueStep
  BY <1>1, <1>2 DEF PromptAgain, QueueStep, Live, stacks, queue
<1>3. ASSUME NEW h, NEW next \in {"command", "motd", "becom"}, Proceed(i, h, next)
      PROVE  QueueStep
  <2>1. next \in Stages
    BY DEF Stages, GameStages
  <2> QED
    BY <1>1, <1>3, <2>1, ReplacedLive DEF Proceed, QueueStep
<1>4. CASE Becom(i)
  <2> DEFINE s == <<"command">> \o Tail(Popped(handlers[i]))
  <2>1. Popped(handlers[i]) \in Seq(Stages) /\ Popped(handlers[i]) /= <<>>
    BY <1>1, PoppedStack DEF Live, TypeOK
  <2>2. s \in Seq(Stages) /\ s /= <<>>
    BY <2>1, ReplacedStack DEF Stages, GameStages
  <2>3. handlers' = [handlers EXCEPT ![i] = s]
    BY <1>4 DEF Becom
  <2> HIDE DEF s
  <2> QED
    BY <1>1, <1>4, <2>2, <2>3, StackStep DEF Becom, QueueStep
<1>5. CASE Eof(i)
  BY <1>1, <1>5 DEF Eof, UnaliasedCrapup, Depart, QueueStep, Live
<1> QED
  BY <1>2, <1>3, <1>4, <1>5, SubProceeds

LEMMA LoopQueue ==
  ASSUME TypeOK, QuitListSound, SlotsOK,
         Looping
  PROVE  QuitListSound'
<1>1. CASE EndConnection
  BY <1>1, EndConnectionSound
<1>2. CASE NothingToEnd \/ ShutdownEnd \/ TimerEnd \/ TimerStart
  <2>1. UNCHANGED <<handlers, queue>> /\ phase /= "term"
    BY <1>2 DEF NothingToEnd, ShutdownEnd, TimerEnd, TimerStart, AtHead, stacks, queue
  <2> QED
    BY <2>1, QuitListFrame DEF Live
<1>3. CASE TermStart \/ TermStep
  BY <1>3 DEF TermStart, TermStep, QuitListSound
<1>4. ASSUME NEW j \in Slots, Live(j), UNCHANGED handlers, phase /= "term",
             UNCHANGED queue \/ QuitPlayer(j)
      PROVE  QuitListSound'
  BY <1>4, QueueStepSound DEF QueueStep, Live
<1>5. CASE After
  <2>1. actor \in Slots
    BY <1>5 DEF After, TypeOK
  <2>2. CASE UNCHANGED queue
    BY <1>5, <2>2, QuitListFrame DEF After, Live
  <2>3. CASE InGame(actor) /\ QuitPlayer(actor)
    BY <1>4, <1>5, <2>1, <2>3 DEF After, InGame, SlotsOK, SlotOK
  <2> QED
    BY <1>5, <2>1, <2>2, <2>3, CrapupQueue DEF After
<1>6. CASE ShutdownStep
  <2>1. at \in Slots
    BY <1>6, NAssumption DEF ShutdownStep, TypeOK, Slots
  <2>2. CASE UNCHANGED queue
    BY <1>6, <2>2, QuitListFrame DEF ShutdownStep, Live
  <2>3. CASE InGame(at) /\ UnaliasedCrapup(at, TRUE)
    BY <1>4, <1>6, <2>1, <2>3
    DEF ShutdownStep, InGame, SlotsOK, SlotOK, UnaliasedCrapup, Depart
  <2> QED
    BY <1>6, <2>2, <2>3 DEF ShutdownStep
<1>7. CASE TermEnd \/ Crash \/ \E i \in Slots : CrashInGetGender(i)
  <2>1. /\ handlers' = [i \in Slots |-> <<>>]
        /\ quitList' = NoSlot
        /\ quitNext' = [i \in Slots |-> NotQueued]
    BY <1>7 DEF TermEnd, Crash, CrashInGetGender, Boot
  <2>2. \A j \in Slots : ~Queued(j)'
    BY <2>1 DEF Queued
  <2> QED
    BY <2>1, <2>2 DEF QuitListSound, HeadQueued, QueuedLive, NextQueued, AllLinked,
                      NextInjective, NoCycle
<1>8. ASSUME NEW i \in Slots, TimerDeath(i)
      PROVE  QuitListSound'
  <2>1. Live(i) /\ (UNCHANGED queue \/ QuitPlayer(i))
    BY <1>8, CrapupQueue DEF TimerDeath, InGame, SlotsOK, SlotOK
  <2> QED
    BY <1>4, <1>8, <2>1 DEF TimerDeath
<1> QED
  BY <1>1, <1>2, <1>3, <1>5, <1>6, <1>7, <1>8 DEF Internal, Looping

\* The inductive invariant.  None of the parts is inductive alone: that the
\* players on the quit list have connections needs that a player in the game
\* has one, which needs that nobody reads a command who is on the list.
IInv == TypeOK /\ QuitListSound /\ InGameLive /\ StageSound

LEMMA InitIInv == Init => IInv
<1> SUFFICES ASSUME Init PROVE IInv
  OBVIOUS
<1>1. \A j \in Slots : ~Queued(j) /\ ~Live(j) /\ ~iamon[j] /\ ~away[j]
  BY DEF Init, Queued, Live
<1>2. QuitListSound
  BY <1>1 DEF Init, QuitListSound, HeadQueued, QueuedLive, NextQueued,
              AllLinked, NextInjective, NoCycle
<1>3. SlotsOK
  BY <1>1 DEF SlotsOK, SlotOK
<1> QED
  BY <1>2, <1>3, TypeInit, SlotsOKDef DEF IInv

LEMMA StutterIInv ==
  ASSUME IInv, UNCHANGED vars
  PROVE  IInv'
<1> USE DEF vars, stacks, chars, files, ctl
<1>1. TypeOK'
  BY DEF IInv, TypeOK
<1>2. QuitListSound'
  BY QuitListFrame DEF IInv, queue, Live
<1>3. InGameLive' /\ StageSound'
  BY DEF IInv, InGameLive, StageSound, Live, Queued
<1> QED
  BY <1>1, <1>2, <1>3 DEF IInv

LEMMA NextIInv ==
  ASSUME IInv, Next
  PROVE  IInv'
<1>1. TypeOK /\ QuitListSound /\ SlotsOK /\ InGameLive
  BY SlotsOKDef DEF IInv
<1>2. ASSUME NEW i \in Slots, Login(i)
      PROVE  TypeOK' /\ QuitListSound' /\ SlotsOK'
  BY <1>1, <1>2, LoginType, LoginQueue, QueueStepSound, LoginSlots
<1>3. ASSUME NEW i \in Slots, Command(i)
      PROVE  TypeOK' /\ QuitListSound' /\ SlotsOK'
  BY <1>1, <1>3, CommandType, CommandQueue, QueueStepSound, CommandSlots
<1>4. ASSUME NEW i \in Slots, Sub(i) \/ Becom(i) \/ Eof(i)
      PROVE  TypeOK' /\ QuitListSound' /\ SlotsOK'
  BY <1>1, <1>4, SubBecomEofType, SubBecomEofQueue, QueueStepSound, SubBecomEofSlots
<1>5. ASSUME Looping
      PROVE  TypeOK' /\ QuitListSound' /\ SlotsOK'
  BY <1>1, <1>5, LoopType, LoopQueue, LoopSlots
<1>6. TypeOK' /\ QuitListSound' /\ SlotsOK'
  BY <1>2, <1>3, <1>4, <1>5 DEF Next, Looping
<1>7. SlotsOK' <=> InGameLive' /\ StageSound'
  BY DEF SlotsOK, SlotOK, InGameLive, StageSound
<1> QED
  BY <1>6, <1>7 DEF IInv

LEMMA Invariance == Spec => []IInv
<1>1. IInv /\ [Next]_vars => IInv'
  BY NextIInv, StutterIInv
<1> QED
  BY InitIInv, <1>1, PTL DEF Spec

\* Every variable has its type, and the loops over players[] stay in bounds.
THEOREM TypeCorrect == Spec => []TypeOK
<1>1. IInv => TypeOK
  BY DEF IInv
<1> QED
  BY Invariance, <1>1, PTL

\* The quit list is at all times a list of the players who are to be
\* disconnected, for any number of slots: quit_player() and end_connection()
\* keep it one in whatever order handlers, timer and signals interleave.
THEOREM QuitListCorrect == Spec => []QuitListSound
<1>1. IInv => QuitListSound
  BY DEF IInv
<1> QED
  BY Invariance, <1>1, PTL

\* No character of the game is without a connection or about to lose it.
THEOREM InGameCorrect == Spec => []InGameLive
<1>1. IInv => InGameLive
  BY DEF IInv
<1> QED
  BY Invariance, <1>1, PTL

\* A line of input reaches a handler that fits the state of its player.
THEOREM StageCorrect == Spec => []StageSound
<1>1. IInv => StageSound
  BY DEF IInv
<1> QED
  BY Invariance, <1>1, PTL
-----------------------------------------------------------------------------
(* IDs *)

\* Nobody's ID is later than the next one on file.
NoneAhead ==
  /\ \A n \in Names : uaf[n] <= savedCounter
  /\ \A i \in Slots : pid[i] <= savedCounter

\* The counter in memory and the one on file are the same between two steps, so
\* that a crash before the counter is written leaves one ID that is as high.
IdsOK == NoneAhead /\ savedCounter = idCounter

\* saveme() writes the ID of a slot; deluaf() leaves none.
LEMMA CrapupIds ==
  ASSUME TypeOK, IdsOK, NEW i \in Slots, NEW save, NEW on, NEW tbl, NEW written,
         written \in PersonaFiles, \A n \in Names : written[n] <= savedCounter,
         Crapup(i, save, on, tbl, written) \/ Depart(i, save, on, tbl, written)
  PROVE  \A n \in Names : uaf'[n] <= savedCounter
<1>1. pid[i] <= savedCounter
  BY DEF IdsOK, NoneAhead
<1>2. uaf' = written \/ (pname[i] /= NoName /\ uaf' = [written EXCEPT ![pname[i]] = pid[i]])
  BY DEF Crapup, Depart
<1>3. pname[i] /= NoName => pname[i] \in Names
  BY DEF TypeOK
<1> QED
  BY <1>1, <1>2, <1>3 DEF PersonaFiles

LEMMA NextIds ==
  ASSUME IInv, IdsOK, Next
  PROVE  IdsOK'
<1>1. /\ TypeOK /\ SlotsOK
      /\ \A n \in Names : uaf[n] <= savedCounter
      /\ \A i \in Slots : pid[i] <= savedCounter
      /\ savedCounter = idCounter
      /\ savedCounter \in Nat \ {0}
      /\ uaf \in PersonaFiles
      /\ \A n \in Names : [uaf EXCEPT ![n] = NoId] \in PersonaFiles
      /\ \A m, n \in Names : [uaf EXCEPT ![n] = NoId][m] <= savedCounter
  BY SlotsOKDef, IdAssumption DEF IInv, IdsOK, NoneAhead, TypeOK, PersonaFiles, NoId
<1> SUFFICES /\ \A n \in Names : uaf'[n] <= savedCounter'
             /\ \A i \in Slots : pid'[i] <= savedCounter'
             /\ savedCounter' = idCounter'
  BY DEF IdsOK, NoneAhead
<1>2. ASSUME UNCHANGED <<uaf, pid, idCounter, savedCounter>>
      PROVE  IdsOK'
  BY <1>1, <1>2 DEF IdsOK, NoneAhead
<1>3. ASSUME NEW i \in Slots, NEW save, NEW on, NEW tbl,
             NEW written \in {uaf} \cup {[uaf EXCEPT ![n] = NoId] : n \in Names},
             UNCHANGED <<pid, idCounter, savedCounter>>,
             Crapup(i, save, on, tbl, written) \/ Depart(i, save, on, tbl, written)
      PROVE  IdsOK'
  BY <1>1, <1>3, CrapupIds DEF IdsOK, NoneAhead
<1>4. ASSUME NEW i \in Slots, Login(i)
      PROVE  IdsOK'
  <2>1. CASE GetPname1(i)
    <3>1. ASSUME NEW n \in Names, pid' = [pid EXCEPT ![i] = uaf[n]], UNCHANGED files
          PROVE  IdsOK'
      <4>1. \A j \in Slots : pid'[j] = pid[j] \/ pid'[j] = uaf[n]
        BY <1>1, <3>1 DEF TypeOK
      <4>2. UNCHANGED <<uaf, idCounter, savedCounter>>
        BY <3>1 DEF files
      <4> QED
        BY <1>1, <4>1, <4>2 DEF IdsOK, NoneAhead
    <3>2. \/ UNCHANGED <<pid, files>>
          \/ \E n \in Names : pid' = [pid EXCEPT ![i] = uaf[n]] /\ UNCHANGED files
      BY <2>1 DEF GetPname1, HangUp, PromptAgain, chars
    <3> QED
      BY <1>2, <3>1, <3>2 DEF files
  <2>2. CASE GetGender(i)
    <3>1. ASSUME CountId, pname[i] \in Names,
                 pid' = [pid EXCEPT ![i] = idCounter],
                 uaf' = [uaf EXCEPT ![pname[i]] = idCounter]
          PROVE  IdsOK'
      <4>1. /\ \A m \in Names : uaf'[m] = uaf[m] \/ uaf'[m] = idCounter
            /\ \A j \in Slots : pid'[j] = pid[j] \/ pid'[j] = idCounter
            /\ idCounter' = idCounter + 1 /\ savedCounter' = idCounter + 1
        BY <1>1, <3>1 DEF CountId, TypeOK
      <4>2. /\ \A m \in Names : uaf[m] \in Nat
            /\ \A j \in Slots : pid[j] \in Nat
        <5>1. Ids \cup {NoId} \subseteq Nat
          BY IdAssumption DEF Ids, NoId
        <5> QED
          BY <1>1, <5>1 DEF TypeOK
      <4> QED
        BY <1>1, <4>1, <4>2 DEF IdsOK, NoneAhead
    <3>2. Reads(i, "gender") => pname[i] \in Names
      BY <1>1, ReadyNotQueued DEF Reads, SlotsOK, SlotOK, TypeOK, IInv
    <3> QED
      BY <1>2, <2>2, <3>1, <3>2 DEF GetGender, PromptAgain, files, chars
  <2>3. CASE Talker(i)
    BY <1>2, <1>3, <2>3 DEF Talker, files
  <2> QED
    BY <1>2, <1>4, <2>1, <2>2, <2>3
    DEF Login, NewConnection, GetPname2, GetNewPass1, GetNewPass2, GetPasswd1,
        KickOutYn, HangUp, PromptAgain, Proceed, files, chars
<1>5. ASSUME NEW i \in Slots, Command(i)
      PROVE  IdsOK'
  <2>1. CASE CmdLeave(i)
    BY <1>3, <2>1 DEF CmdLeave
  <2>2. ASSUME NEW j \in Slots, CmdRemove(i, j)
        PROVE  IdsOK'
    <3>1. pname[j] \in Names
      BY <1>1, <2>2 DEF CmdRemove, InGame, TypeOK
    <3> QED
      BY <1>3, <2>2, <3>1 DEF CmdRemove
  <2>3. ASSUME NEW n \in Names, CmdDelete(i, n)
        PROVE  IdsOK'
    BY <1>1, <2>3 DEF CmdDelete, IdsOK, NoneAhead, chars
  <2>4. ASSUME NEW old \in Names, NEW new \in Names, CmdRename(i, old, new)
        PROVE  IdsOK'
    <3>1. /\ UNCHANGED <<pid, idCounter, savedCounter>>
          /\ \E x : x <= savedCounter /\ uaf' = [uaf EXCEPT ![old] = NoId, ![new] = x]
      BY <1>1, <2>4 DEF CmdRename, Named
    <3> QED
      BY <1>1, <3>1 DEF IdsOK, NoneAhead, PersonaFiles, NoId
  <2> QED
    BY <1>2, <1>5, <2>1, <2>2, <2>3, <2>4
    DEF Command, CmdOther, CmdSub, CmdBecome, CmdDestruct, CmdShutdown, files, chars
<1>6. ASSUME NEW i \in Slots, Sub(i) \/ Becom(i) \/ Eof(i)
      PROVE  IdsOK'
  <2>1. CASE Becom(i)
    <3>1. /\ UNCHANGED <<idCounter, savedCounter>>
          /\ \A n \in Names : uaf'[n] <= savedCounter
          /\ \A j \in Slots : pid'[j] <= savedCounter
      <4>1. CASE UNCHANGED <<pid, uaf>>
        BY <1>1, <2>1, <4>1 DEF Becom
      <4>2. ASSUME NEW n \in Names,
                   uaf' = [uaf EXCEPT ![pname[i]] = pid[i]],
                   pid' = [pid EXCEPT ![i] = uaf[n]]
            PROVE  /\ \A m \in Names : uaf'[m] <= savedCounter
                   /\ \A j \in Slots : pid'[j] <= savedCounter
        BY <1>1, <4>2 DEF TypeOK
      <4> QED
        BY <2>1, <4>1, <4>2 DEF Becom, BecomesPersona, MobileBecomes
    <3> QED
      BY <1>1, <3>1 DEF IdsOK, NoneAhead
  <2>2. CASE Eof(i)
    BY <1>3, <2>2 DEF Eof, UnaliasedCrapup
  <2> QED
    BY <1>2, <1>6, <2>1, <2>2 DEF Sub, PromptAgain, Proceed, files, chars
<1>7. ASSUME Looping
      PROVE  IdsOK'
  <2>5. ASSUME NEW i \in Slots, CrashInGetGender(i)
        PROVE  IdsOK'
    <3>1. /\ uaf' = [uaf EXCEPT ![pname[i]] = idCounter]
          /\ pid' = [j \in Slots |-> NoId]
          /\ savedCounter' = savedCounter /\ idCounter' = savedCounter
      BY <2>5 DEF CrashInGetGender, Boot
    <3>2. /\ \A n \in Names : uaf'[n] <= savedCounter
          /\ \A j \in Slots : pid'[j] <= savedCounter
      BY <1>1, <3>1 DEF PersonaFiles, NoId
    <3> QED
      BY <3>1, <3>2 DEF IdsOK, NoneAhead
  <2>1. CASE Crash \/ TermEnd
    BY <1>1, <2>1 DEF Crash, TermEnd, Boot, IdsOK, NoneAhead, NoId
  <2>2. CASE After
    BY <1>1, <1>2, <1>3, <2>2 DEF After, TypeOK
  <2>3. CASE ShutdownStep \/ TermStep
    <3>1. at \in Slots
      <4>1. phase \in {"shutdown", "term"} /\ at < N
        BY <2>3 DEF ShutdownStep, TermStep
      <4>2. at \in 0 .. N
        BY <1>1, <4>1 DEF TypeOK
      <4> QED
        BY <4>1, <4>2, NAssumption DEF Slots
    <3> QED
      BY <1>2, <1>3, <2>3, <3>1 DEF ShutdownStep, TermStep, UnaliasedCrapup
  <2>4. ASSUME NEW i \in Slots, TimerDeath(i)
        PROVE  IdsOK'
    BY <1>3, <2>4 DEF TimerDeath
  <2> QED
    BY <1>2, <1>7, <2>1, <2>2, <2>3, <2>4, <2>5
    DEF Looping, Internal, EndConnection, NothingToEnd, ShutdownEnd, TimerEnd,
        TimerStart, TermStart, files, chars
<1> QED
  BY <1>4, <1>5, <1>6, <1>7 DEF Next, Looping, IdsOK, NoneAhead

\* No ID is ahead of the counter on file, whatever the order of creations, saves,
\* renames and restarts, the crash between the two writes included: what the next
\* new persona gets is a new ID or the one whose record was cut off.
THEOREM CounterCorrect == Spec => []IdsUpToCounter
<1>1. Init => IdsOK
  BY DEF Init, IdsOK, NoneAhead, NoId
<1>2. IInv /\ IdsOK /\ [Next]_vars => IdsOK'
  <2>1. ASSUME IdsOK, UNCHANGED vars
        PROVE  IdsOK'
    BY <2>1 DEF IdsOK, NoneAhead, vars, chars, files
  <2> QED
    BY <2>1, NextIds
<1>3. IdsOK => IdsUpToCounter
  BY DEF IdsOK, NoneAhead, IdsUpToCounter
<1> QED
  BY Invariance, <1>1, <1>2, <1>3, PTL DEF Spec

-----------------------------------------------------------------------------
(* The table of IDs *)

\* A table "tbl" is sound when its entries name players who are in the game or
\* about to be ("on"), under their own ID, or mobiles that have one of "mobs".
TableSound(tbl, on, mobs) ==
  \A x \in Ids \cup {NoId} : tbl[x] /= NoSlot =>
    IF tbl[x] = OfMobile THEN x \in mobs ELSE on[tbl[x]] /\ pid[tbl[x]] = x

LEMMA TableSoundDef ==
  ASSUME TypeOK, SlotsOK
  PROVE  IdTableSound <=> TableSound(idTable, iamon, mobIds)
<1>1. \A x \in Ids \cup {NoId} :
        idTable[x] /= NoSlot => idTable[x] \in Slots \cup {OfMobile}
  BY DEF TypeOK
<1>2. \A j \in Slots : InGame(j) <=> iamon[j]
  BY DEF SlotsOK, SlotOK, InGame
<1> QED
  BY <1>1, <1>2 DEF IdTableSound, TableSound

\* insert_entry() for a player who comes into the game with his ID, or for a
\* mobile with an ID of a persona.
LEMMA InsertedSound ==
  ASSUME TypeOK, NEW tbl \in IdTables, NEW on \in [Slots -> BOOLEAN],
         TableSound(tbl, on, mobIds), NEW i \in Slots
  PROVE  TableSound(Inserted(pid[i], i, tbl), [on EXCEPT ![i] = TRUE], mobIds)
<1>1. pid[i] \in Ids \cup {NoId}
  BY DEF TypeOK
<1>2. \A x \in Ids \cup {NoId} : tbl[x] \in Slots \cup {NoSlot, OfMobile}
  BY DEF IdTables
<1> QED
  BY <1>1, <1>2, SlotMarks DEF TableSound, Inserted, IdTables

LEMMA InsertedMobile ==
  ASSUME NEW tbl \in IdTables, NEW on, NEW mobs, TableSound(tbl, on, mobs),
         NEW x \in mobs
  PROVE  TableSound(Inserted(x, OfMobile, tbl), on, mobs)
  BY DEF TableSound, Inserted, IdTables

LEMMA EnteredSound ==
  ASSUME TypeOK, SlotsOK, IdTableSound, NEW i \in Slots, NEW tbl \in Entered(i)
  PROVE  TableSound(tbl, [iamon EXCEPT ![i] = TRUE], mobIds) /\ tbl \in IdTables
<1>1. /\ idTable \in IdTables /\ iamon \in [Slots -> BOOLEAN]
      /\ TableSound(idTable, iamon, mobIds)
  BY TableSoundDef DEF TypeOK, IdTables
<1>2. TableSound(idTable, [iamon EXCEPT ![i] = TRUE], mobIds)
  BY <1>1 DEF TableSound, IdTables
<1>3. CASE ~away[i]
  BY <1>1, <1>3, InsertedSound, EnteredType DEF Entered
<1>4. CASE away[i]
  BY <1>1, <1>2, <1>4, InsertedMobile, EnteredType DEF Entered
<1> QED
  BY <1>3, <1>4

\* Steps that move no entry, and nobody who has one out of the game.
LEMMA TableFrame ==
  ASSUME TypeOK, SlotsOK, IdTableSound, idTable' = idTable, mobIds' = mobIds,
         \A j \in Slots : iamon[j] =>
           iamon'[j] /\ pid'[j] = pid[j] /\ pname'[j] /= NoName
  PROVE  IdTableSound'
<1>1. \A x \in Ids \cup {NoId} :
        idTable[x] /= NoSlot => idTable[x] \in Slots \cup {OfMobile}
  BY DEF TypeOK
<1> QED
  BY <1>1 DEF IdTableSound, InGame

\* crapup(): the entry goes with the player.
LEMMA DepartTable ==
  ASSUME TypeOK, SlotsOK, NEW i \in Slots, NEW save, NEW on, NEW written,
         NEW tbl \in IdTables, TableSound(tbl, [iamon EXCEPT ![i] = TRUE], mobIds),
         Depart(i, save, on, tbl, written), UNCHANGED <<pid, mobIds>>
  PROVE  IdTableSound'
<1>1. /\ idTable' = [tbl EXCEPT ![pid[i]] = NoSlot]
      /\ \A j \in Slots : j /= i => pname'[j] = pname[j] /\ iamon'[j] = iamon[j]
  BY DEF Depart, OutOfGame, Removed, TypeOK
<1>2. ASSUME NEW x \in Ids \cup {NoId}, idTable'[x] /= NoSlot
      PROVE  x /= pid[i] /\ tbl[x] = idTable'[x] /\ tbl[x] \in Slots \cup {OfMobile}
  BY <1>1, <1>2 DEF IdTables, TypeOK
<1>3. ASSUME NEW x \in Ids \cup {NoId}, idTable'[x] = OfMobile
      PROVE  x \in mobIds'
  BY <1>2, <1>3, SlotMarks DEF TableSound
<1>4. ASSUME NEW x \in Ids \cup {NoId}, idTable'[x] /= NoSlot, idTable'[x] /= OfMobile
      PROVE  (InGame(idTable[x]) /\ pid[idTable[x]] = x)'
  <2>1. x /= pid[i] /\ tbl[x] = idTable'[x] /\ tbl[x] \in Slots
    BY <1>2, <1>4
  <2>2. tbl[x] /= i
    BY <1>4, <2>1 DEF TableSound
  <2>3. iamon[tbl[x]] /\ pid[tbl[x]] = x
    BY <1>4, <2>1, <2>2 DEF TableSound, TypeOK
  <2>4. InGame(tbl[x])
    BY <2>1, <2>3 DEF InGame, SlotsOK, SlotOK
  <2> QED
    BY <1>1, <2>1, <2>2, <2>3, <2>4 DEF InGame
<1> QED
  BY <1>3, <1>4 DEF IdTableSound

LEMMA CrapupTable ==
  ASSUME TypeOK, SlotsOK, IdTableSound, NEW i \in Slots, NEW save, NEW on,
         NEW written, UNCHANGED <<pid, mobIds>>,
         \/ Crapup(i, save, on, idTable, written)
         \/ Depart(i, save, on, idTable, written)
  PROVE  IdTableSound'
<1>1. /\ TableSound(idTable, iamon, mobIds)
      /\ idTable \in IdTables
      /\ iamon \in [Slots -> BOOLEAN]
      /\ \A x \in Ids \cup {NoId} : idTable[x] \in Slots \cup {NoSlot, OfMobile}
  BY TableSoundDef DEF TypeOK, IdTables
<1>2. TableSound(idTable, [iamon EXCEPT ![i] = TRUE], mobIds)
  BY <1>1 DEF TableSound
<1>3. CASE Depart(i, save, on, idTable, written)
  BY <1>1, <1>2, <1>3, DepartTable
<1>4. CASE UNCHANGED <<pname, iamon, idTable>>
  BY <1>4, TableFrame DEF SlotsOK, SlotOK
<1> QED
  BY <1>1, <1>3, <1>4 DEF Crapup

LEMMA LoginTable ==
  ASSUME IInv, IdTableSound, NEW i \in Slots, Login(i)
  PROVE  IdTableSound'
<1>1. TypeOK /\ QuitListSound /\ SlotsOK
  BY SlotsOKDef DEF IInv
<1>2. ASSUME UNCHANGED tables, \A j \in Slots : iamon[j] => j /= i,
             \A j \in Slots : j /= i =>
               iamon'[j] = iamon[j] /\ pid'[j] = pid[j] /\ pname'[j] = pname[j]
      PROVE  IdTableSound'
  BY <1>1, <1>2, TableFrame DEF SlotsOK, SlotOK
<1>3. ASSUME UNCHANGED <<pname, pid, iamon, tables>>
      PROVE  IdTableSound'
  BY <1>1, <1>3, TableFrame DEF SlotsOK, SlotOK
<1>4. ASSUME NEW h \in LoginStages, Reads(i, h)
      PROVE  ~iamon[i]
  BY <1>1, <1>4, ReadyNotQueued DEF Reads, SlotsOK, SlotOK
<1>5. CASE NewConnection(i)
  BY <1>1, <1>2, <1>5 DEF NewConnection, files, SlotsOK, SlotOK, TypeOK
<1>6. CASE GetPname1(i)
  <2>1. Reads(i, "pname1") /\ "pname1" \in LoginStages
    BY <1>6 DEF GetPname1, HangUp, PromptAgain, LoginStages
  <2> QED
    BY <1>1, <1>2, <1>4, <1>6, <2>1
    DEF GetPname1, HangUp, PromptAgain, chars, files, TypeOK
<1>7. CASE GetGender(i)
  <2>1. Reads(i, "gender") /\ "gender" \in LoginStages
    BY <1>7 DEF GetGender, PromptAgain, LoginStages
  <2> QED
    BY <1>1, <1>2, <1>4, <1>7, <2>1
    DEF GetGender, PromptAgain, chars, files, TypeOK
<1>8. CASE Talker(i)
  <2> DEFINE on == [iamon EXCEPT ![i] = TRUE]
  <2>1. PICK tbl \in Entered(i) :
          /\ Reads(i, "motd")
          /\ \/ /\ handlers' = Replaced(i, "command")
                /\ iamon' = on
                /\ idTable' = tbl
                /\ Return
                /\ UNCHANGED <<queue, pname, pid, away, files, mobIds>>
             \/ /\ \E save \in BOOLEAN : Crapup(i, save, TRUE, tbl, uaf)
                /\ Longjmp
                /\ UNCHANGED <<handlers, pid, idCounter, savedCounter, mobIds>>
    BY <1>8 DEF Talker
  <2>2. TableSound(tbl, on, mobIds) /\ tbl \in IdTables
    BY <1>1, EnteredSound
  <2>3. \A j \in Slots : on[j] => pname[j] /= NoName
    <3>1. pname[i] /= NoName
      BY <1>1, <2>1, ReadyNotQueued DEF Reads, SlotsOK, SlotOK
    <3> QED
      BY <1>1, <3>1 DEF SlotsOK, SlotOK, TypeOK
  <2>4. ASSUME iamon' = on, idTable' = tbl, UNCHANGED <<pname, pid, mobIds>>
        PROVE  IdTableSound'
    <3>1. ASSUME NEW x \in Ids \cup {NoId}, idTable'[x] /= NoSlot
          PROVE  (IF idTable[x] = OfMobile THEN x \in mobIds
                  ELSE InGame(idTable[x]) /\ pid[idTable[x]] = x)'
      <4>1. tbl[x] \in Slots \cup {OfMobile}
        BY <2>2, <2>4, <3>1 DEF IdTables
      <4> QED
        BY <2>2, <2>3, <2>4, <3>1, <4>1 DEF TableSound, InGame
    <3> QED
      BY <3>1 DEF IdTableSound
  <2>5. ASSUME NEW save, Crapup(i, save, TRUE, tbl, uaf), UNCHANGED <<pid, mobIds>>
        PROVE  IdTableSound'
    <3>1. CASE Depart(i, save, TRUE, tbl, uaf)
      BY <1>1, <2>2, <2>5, <3>1, DepartTable
    <3>2. CASE away[i] /\ UNCHANGED <<pname, iamon>> /\ idTable' = tbl
      <4>1. iamon' = on
        BY <1>1, <3>2 DEF SlotsOK, SlotOK, TypeOK
      <4> QED
        BY <2>4, <2>5, <3>2, <4>1
    <3> QED
      BY <2>5, <3>1, <3>2 DEF Crapup
  <2> QED
    BY <2>1, <2>4, <2>5
<1> QED
  BY <1>3, <1>5, <1>6, <1>7, <1>8
  DEF Login, GetPname2, GetNewPass1, GetNewPass2, GetPasswd1, KickOutYn,
      HangUp, PromptAgain, Proceed, chars

\* becom(): the entry of the old ID goes before the new one is made.
LEMMA BecomTable ==
  ASSUME IInv, IdTableSound, NEW i \in Slots, NEW n \in Names,
         iamon[i], UNCHANGED iamon, BecomesPersona(i, n)
  PROVE  IdTableSound'
<1>1. TypeOK /\ SlotsOK
  BY SlotsOKDef DEF IInv
<1>2. /\ uaf[n] \in Ids \cup {NoId} /\ pid'[i] = uaf[n]
      /\ \A x \in Ids \cup {NoId} : idTable[x] \in Slots \cup {NoSlot, OfMobile}
      /\ \A j \in Slots : j /= i => pid'[j] = pid[j]
      /\ \A j \in Slots : iamon[j] => pname'[j] /= NoName
      /\ mobIds' = mobIds
  BY <1>1, NameAssumption DEF BecomesPersona, TypeOK, SlotsOK, SlotOK
<1> DEFINE tbl == Removed(pid[i], idTable)
<1>3. ASSUME NEW x \in Ids \cup {NoId}
      PROVE  /\ tbl[x] \in {idTable[x], NoSlot}
             /\ tbl[x] /= i
  BY <1>1, <1>2, SlotMarks DEF Removed, TypeOK, IdTableSound
<1>4. ASSUME NEW x \in Ids \cup {NoId}
      PROVE  idTable'[x] = tbl[x] \/ (x = uaf[n] /\ idTable'[x] = i)
  BY <1>1, <1>2 DEF BecomesPersona, Inserted, Removed, TypeOK
<1> HIDE DEF tbl
<1>5. ASSUME NEW x \in Ids \cup {NoId}, idTable'[x] = OfMobile
      PROVE  x \in mobIds'
  BY <1>2, <1>3, <1>4, <1>5, SlotMarks DEF IdTableSound
<1>6. ASSUME NEW x \in Ids \cup {NoId}, idTable'[x] /= NoSlot, idTable'[x] /= OfMobile
      PROVE  (InGame(idTable[x]) /\ pid[idTable[x]] = x)'
  <2>1. CASE x = uaf[n] /\ idTable'[x] = i
    BY <1>2, <2>1 DEF InGame
  <2>2. CASE idTable'[x] = tbl[x]
    <3>1. tbl[x] = idTable[x] /\ tbl[x] \in Slots \ {i}
      BY <1>2, <1>3, <1>6, <2>2
    <3>2. iamon[tbl[x]] /\ pid[tbl[x]] = x
      BY <1>6, <2>2, <3>1 DEF IdTableSound, InGame
    <3> QED
      BY <1>2, <2>2, <3>1, <3>2 DEF InGame
  <2> QED
    BY <1>4, <2>1, <2>2
<1> QED
  BY <1>5, <1>6 DEF IdTableSound

\* A mobile that has the ID x no more leaves no entry for it.
LEMMA WithoutTable ==
  ASSUME TypeOK, IdTableSound, NEW x \in Ids \cup {NoId}, NEW rest \in Without(x)
  PROVE  TableSound(Removed(x, idTable), iamon, rest)
<1>1. \A y \in Ids \cup {NoId} : Removed(x, idTable)[y] =
        IF y = x THEN NoSlot ELSE idTable[y]
  BY DEF Removed, TypeOK
<1>2. \A y \in mobIds : y /= x => y \in rest
  BY DEF Without
<1> QED
  BY <1>1, <1>2 DEF TableSound, IdTableSound, InGame

\* Where only mobiles change, a sound table is one of the state that follows.
LEMMA MobileTable ==
  ASSUME TypeOK, SlotsOK, idTable' \in IdTables, UNCHANGED <<pname, pid, iamon>>,
         TableSound(idTable', iamon, mobIds')
  PROVE  IdTableSound'
<1>1. \A y \in Ids \cup {NoId} : idTable'[y] \in Slots \cup {NoSlot, OfMobile}
  BY DEF IdTables
<1>2. \A j \in Slots : iamon[j] => pname[j] /= NoName
  BY DEF SlotsOK, SlotOK
<1> QED
  BY <1>1, <1>2 DEF TableSound, IdTableSound, InGame

LEMMA MobileBecomesTable ==
  ASSUME IInv, IdTableSound, NEW n \in Names, uaf[n] /= NoId,
         MobileBecomes(n), UNCHANGED iamon
  PROVE  IdTableSound'
<1>1. TypeOK /\ SlotsOK
  BY SlotsOKDef DEF IInv
<1>2. PICK x \in mobIds \cup {NoId} :
        /\ idTable' = Inserted(uaf[n], OfMobile, Removed(x, idTable))
        /\ \E rest \in Without(x) : mobIds' = rest \cup {uaf[n]}
  BY DEF MobileBecomes
<1>3. x \in Ids \cup {NoId} /\ uaf[n] \in Ids \cup {NoId} /\ idTable \in IdTables
  BY <1>1 DEF TypeOK, IdTables
<1>4. PICK rest \in Without(x) : mobIds' = rest \cup {uaf[n]}
  BY <1>2
<1>5. TableSound(Removed(x, idTable), iamon, mobIds')
  <2>1. TableSound(Removed(x, idTable), iamon, rest)
    BY <1>1, <1>3, <1>4, WithoutTable
  <2> QED
    BY <1>4, <2>1 DEF TableSound
<1>6. Removed(x, idTable) \in IdTables
  BY <1>3, RemovedType
<1>7. TableSound(idTable', iamon, mobIds') /\ idTable' \in IdTables
  BY <1>2, <1>3, <1>4, <1>5, <1>6, InsertedMobile, InsertedType
<1> QED
  BY <1>1, <1>7, MobileTable DEF MobileBecomes

LEMMA NextTable ==
  ASSUME IInv, IdTableSound, Next
  PROVE  IdTableSound'
<1>1. TypeOK /\ QuitListSound /\ SlotsOK
  BY SlotsOKDef DEF IInv
<1>2. ASSUME UNCHANGED <<pname, pid, iamon, tables>>
      PROVE  IdTableSound'
  BY <1>1, <1>2, TableFrame DEF SlotsOK, SlotOK
<1>3. ASSUME NEW i \in Slots, NEW save, NEW on, NEW written,
             UNCHANGED <<pid, mobIds>>,
             \/ Crapup(i, save, on, idTable, written)
             \/ Depart(i, save, on, idTable, written)
      PROVE  IdTableSound'
  BY <1>1, <1>3, CrapupTable
<1>4. ASSUME NEW i \in Slots, Command(i)
      PROVE  IdTableSound'
  <2>1. CASE CmdLeave(i)
    BY <1>3, <2>1 DEF CmdLeave
  <2>2. ASSUME NEW j \in Slots, CmdRemove(i, j)
        PROVE  IdTableSound'
    BY <1>3, <2>2 DEF CmdRemove
  <2>3. ASSUME NEW old \in Names, NEW new \in Names, CmdRename(i, old, new)
        PROVE  IdTableSound'
    <3>1. /\ UNCHANGED <<pid, iamon, tables>>
          /\ \A j \in Slots : pname'[j] = pname[j] \/ pname'[j] = new
      BY <1>1, <2>3 DEF CmdRename, TypeOK
    <3>2. \A j \in Slots : iamon[j] => pname'[j] /= NoName
      BY <1>1, <3>1, NameAssumption DEF SlotsOK, SlotOK
    <3> QED
      BY <1>1, <3>1, <3>2, TableFrame
  <2>4. CASE CmdDestruct(i)
    <3>1. PICK x \in mobIds : mobIds' \in Without(x) /\ idTable' = Removed(x, idTable)
      BY <2>4 DEF CmdDestruct
    <3>2. x \in Ids \cup {NoId} /\ idTable \in IdTables
      BY <1>1 DEF TypeOK, IdTables
    <3>3. TableSound(idTable', iamon, mobIds') /\ idTable' \in IdTables
      BY <1>1, <3>1, <3>2, WithoutTable, RemovedType
    <3> QED
      BY <1>1, <2>4, <3>3, MobileTable DEF CmdDestruct
  <2> QED
    BY <1>2, <1>4, <2>1, <2>2, <2>3, <2>4
    DEF Command, CmdOther, CmdSub, CmdBecome, CmdDelete, CmdShutdown, chars
<1>5. ASSUME NEW i \in Slots, Sub(i) \/ Becom(i) \/ Eof(i)
      PROVE  IdTableSound'
  <2>1. CASE Becom(i)
    <3>1. iamon[i] /\ UNCHANGED iamon
      BY <1>1, <2>1, ReadyNotQueued
      DEF Becom, Reads, SlotsOK, SlotOK, GameStages
    <3> QED
      BY <1>2, <2>1, <3>1, BecomTable, MobileBecomesTable DEF Becom
  <2>2. CASE Eof(i)
    BY <1>3, <2>2 DEF Eof, UnaliasedCrapup
  <2> QED
    BY <1>2, <1>5, <2>1, <2>2 DEF Sub, PromptAgain, Proceed, chars
<1>6. ASSUME Looping
      PROVE  IdTableSound'
  <2>1. CASE Crash \/ TermEnd \/ \E i \in Slots : CrashInGetGender(i)
    BY <2>1 DEF Crash, TermEnd, CrashInGetGender, Boot, IdTableSound
  <2>2. CASE After
    BY <1>1, <1>2, <1>3, <2>2 DEF After, TypeOK
  <2>3. CASE ShutdownStep \/ TermStep
    <3>1. at \in Slots
      <4>1. phase \in {"shutdown", "term"} /\ at < N
        BY <2>3 DEF ShutdownStep, TermStep
      <4>2. at \in 0 .. N
        BY <1>1, <4>1 DEF TypeOK
      <4> QED
        BY <4>1, <4>2, NAssumption DEF Slots
    <3> QED
      BY <1>2, <1>3, <2>3, <3>1 DEF ShutdownStep, TermStep, UnaliasedCrapup
  <2>4. ASSUME NEW i \in Slots, TimerDeath(i)
        PROVE  IdTableSound'
    BY <1>3, <2>4 DEF TimerDeath
  <2> QED
    BY <1>2, <1>6, <2>1, <2>2, <2>3, <2>4
    DEF Looping, Internal, EndConnection, NothingToEnd, ShutdownEnd, TimerEnd,
        TimerStart, TermStart, files, chars
<1>7. CASE \E i \in Slots : Login(i)
  BY <1>7, LoginTable
<1> QED
  BY <1>4, <1>5, <1>6, <1>7 DEF Next, Looping

\* An ID leads to the player in the game whose ID it is, to a mobile that has it
\* or to nobody, although becom() changes the ID of a player in the game, or of
\* the mobile that he is, and a login that of a slot.
THEOREM IdTableCorrect == Spec => []IdTableSound
<1>1. Init => IdTableSound
  BY DEF Init, IdTableSound
<1>2. IInv /\ IdTableSound /\ [Next]_vars => IdTableSound'
  <2>1. ASSUME IInv, IdTableSound, UNCHANGED vars
        PROVE  IdTableSound'
    BY <2>1 DEF IdTableSound, InGame, vars, chars
  <2> QED
    BY <2>1, NextTable
<1> QED
  BY Invariance, <1>1, <1>2, PTL DEF Spec

-----------------------------------------------------------------------------
(* The slots are used as Lifecycle says *)

\* One slot moves along an edge of Lifecycle, or none does.
Edges ==
  {<<"free", "login">>, <<"login", "game">>, <<"login", "leaving">>,
   <<"game", "leaving">>, <<"leaving", "free">>}

StatusStep ==
  \E i \in Slots :
    /\ \A j \in Slots \ {i} : SlotStatus(j)' = SlotStatus(j)
    /\ \/ SlotStatus(i)' = SlotStatus(i)
       \/ <<SlotStatus(i), SlotStatus(i)'>> \in Edges

Status == [i \in Slots |-> SlotStatus(i)]

LEMMA StatusStepMaps ==
  ASSUME StatusStep
  PROVE  Slot!Next \/ Status' = Status
<1>1. PICK i \in Slots :
        /\ \A j \in Slots \ {i} : SlotStatus(j)' = SlotStatus(j)
        /\ \/ SlotStatus(i)' = SlotStatus(i)
           \/ <<SlotStatus(i), SlotStatus(i)'>> \in Edges
  BY DEF StatusStep
<1>2. /\ Status' = [j \in Slots |-> IF j = i THEN SlotStatus(i)' ELSE Status[j]]
      /\ Status[i] = SlotStatus(i)
  BY <1>1 DEF Status
<1>3. CASE SlotStatus(i)' = SlotStatus(i)
  BY <1>1, <1>3 DEF Status
<1>4. ASSUME NEW from, NEW to, SlotStatus(i) \in from, SlotStatus(i)' = to
      PROVE  Slot!Move(i, from, to)
  BY <1>2, <1>4 DEF Slot!Move, Status
<1>5. CASE <<SlotStatus(i), SlotStatus(i)'>> \in Edges
  <2>1. \/ SlotStatus(i) \in {"free"} /\ SlotStatus(i)' = "login"
        \/ SlotStatus(i) \in {"login"} /\ SlotStatus(i)' = "game"
        \/ SlotStatus(i) \in {"login", "game"} /\ SlotStatus(i)' = "leaving"
        \/ SlotStatus(i) \in {"leaving"} /\ SlotStatus(i)' = "free"
    BY <1>5 DEF Edges
  <2>2. Slot!Connect(i) \/ Slot!Enter(i) \/ Slot!Leave(i) \/ Slot!Close(i)
    BY <1>4, <2>1 DEF Slot!Connect, Slot!Enter, Slot!Leave, Slot!Close
  <2> QED
    BY <2>2 DEF Slot!Next
<1> QED
  BY <1>1, <1>3, <1>5

\* What decides the status of a slot.
LEMMA StatusFrame ==
  ASSUME NEW j \in Slots, Live(j)' <=> Live(j), Queued(j)' <=> Queued(j),
         iamon'[j] = iamon[j]
  PROVE  SlotStatus(j)' = SlotStatus(j)
  BY DEF SlotStatus

\* Nothing that concerns the status changes.
LEMMA NoStatusStep ==
  ASSUME UNCHANGED <<quitNext, iamon>>, \A j \in Slots : Live(j)' <=> Live(j)
  PROVE  StatusStep
<1>1. 0 \in Slots
  BY NAssumption DEF Slots
<1>2. \A j \in Slots : SlotStatus(j)' = SlotStatus(j)
  BY StatusFrame DEF Queued
<1> QED
  BY <1>1, <1>2 DEF StatusStep

\* quit_player(), with or without the end of a character.
LEMMA QuitStatusStep ==
  ASSUME TypeOK, NEW i \in Slots, QuitPlayer(i),
         \A j \in Slots : Live(j)' <=> Live(j),
         \A j \in Slots \ {i} : iamon'[j] = iamon[j]
  PROVE  StatusStep
<1>1. /\ Queued(i)'
      /\ \A j \in Slots \ {i} : quitNext'[j] = quitNext[j]
  BY QuitPlayerSlot
<1>2. \A j \in Slots \ {i} : SlotStatus(j)' = SlotStatus(j)
  BY <1>1, StatusFrame DEF Queued
<1>3. SlotStatus(i)' = IF Live(i) THEN "leaving" ELSE "free"
  BY <1>1 DEF SlotStatus
<1>4. \/ SlotStatus(i)' = SlotStatus(i)
      \/ <<SlotStatus(i), SlotStatus(i)'>> \in Edges
  BY <1>3 DEF SlotStatus, Edges
<1> QED
  BY <1>2, <1>4 DEF StatusStep

LEMMA CrapupStatusStep ==
  ASSUME TypeOK, NEW i \in Slots, NEW save, NEW on, NEW tbl, NEW written,
         Crapup(i, save, on, tbl, written) \/ Depart(i, save, on, tbl, written),
         UNCHANGED handlers
  PROVE  StatusStep
<1>1. \A j \in Slots : Live(j)' <=> Live(j)
  BY DEF Live
<1>2. CASE UNCHANGED <<quitNext, iamon>>
  BY <1>1, <1>2, NoStatusStep
<1>3. CASE Depart(i, save, on, tbl, written)
  <2>1. \A j \in Slots \ {i} : iamon'[j] = iamon[j]
    BY <1>3 DEF Depart, OutOfGame, TypeOK
  <2> QED
    BY <1>1, <1>3, <2>1, QuitStatusStep DEF Depart
<1> QED
  BY <1>2, <1>3 DEF Crapup, queue

\* A slot with a stack gets another one.
LEMMA ReplacedStatus ==
  ASSUME TypeOK, NEW i \in Slots, Live(i), NEW s \in Seq(Stages), s /= <<>>,
         handlers' = [handlers EXCEPT ![i] = s]
  PROVE  \A j \in Slots : Live(j)' <=> Live(j)
  BY DEF Live, TypeOK

LEMMA LoginStatus ==
  ASSUME IInv, NEW i \in Slots, Login(i)
  PROVE  StatusStep
<1>1. TypeOK /\ QuitListSound /\ SlotsOK
  BY SlotsOKDef DEF IInv
<1> DEFINE SameLive == \A j \in Slots : Live(j)' <=> Live(j)
<1>2. ASSUME NEW p \in Slots, NEW h \in Stages, Live(p), handlers' = Replaced(p, h)
      PROVE  SameLive
  BY <1>1, <1>2, ReplacedStack, ReplacedStatus DEF Replaced, Live, TypeOK
<1>3. LoginStages \cup {"motd", "command"} \subseteq Stages
  BY DEF Stages, GameStages
<1>4. CASE NewConnection(i)
  <2>1. ~Live(i) /\ ~Queued(i) /\ Live(i)' /\ ~Queued(i)' /\ ~iamon'[i]
    BY <1>1, <1>4, ReadyNotQueued DEF NewConnection, Live, Queued, TypeOK
  <2>2. <<SlotStatus(i), SlotStatus(i)'>> \in Edges
    BY <2>1 DEF SlotStatus, Edges
  <2>3. \A j \in Slots \ {i} : SlotStatus(j)' = SlotStatus(j)
    BY <1>1, <1>4, StatusFrame DEF NewConnection, Live, Queued, TypeOK
  <2> QED
    BY <2>2, <2>3 DEF StatusStep
<1>5. ASSUME SameLive, UNCHANGED <<queue, iamon>>
      PROVE  StatusStep
  BY <1>5, NoStatusStep DEF queue
<1>6. ASSUME SameLive, QuitPlayer(i), UNCHANGED iamon
      PROVE  StatusStep
  BY <1>1, <1>6, QuitStatusStep
<1>7. ASSUME UNCHANGED handlers
      PROVE  SameLive
  BY <1>7 DEF Live
<1> HIDE DEF SameLive
<1>8. ASSUME NEW h, HangUp(i, h) \/ PromptAgain(i, h)
      PROVE  StatusStep
  BY <1>5, <1>6, <1>7, <1>8 DEF HangUp, PromptAgain, chars, stacks, queue
<1>9. ASSUME NEW h, NEW next \in Stages, Proceed(i, h, next)
      PROVE  StatusStep
  BY <1>2, <1>5, <1>9 DEF Proceed, Reads, chars
<1>10. CASE GetPname1(i)
  BY <1>2, <1>3, <1>5, <1>6, <1>7, <1>8, <1>10 DEF GetPname1, Reads, LoginStages
<1>11. CASE GetPname2(i)
  BY <1>2, <1>3, <1>6, <1>9, <1>11 DEF GetPname2, Reads, LoginStages, chars
<1>12. CASE GetNewPass1(i) \/ GetNewPass2(i)
  BY <1>3, <1>8, <1>9, <1>12 DEF GetNewPass1, GetNewPass2, LoginStages
<1>13. CASE GetGender(i)
  BY <1>2, <1>3, <1>5, <1>8, <1>13 DEF GetGender, Reads
<1>14. CASE GetPasswd1(i)
  BY <1>3, <1>8, <1>9, <1>14 DEF GetPasswd1, LoginStages
<1>15. CASE KickOutYn(i)
  <2>1. ASSUME NEW p \in Named(pname[i]), handlers' = Replaced(p, "motd"),
               QuitPlayer(i), UNCHANGED chars
        PROVE  StatusStep
    <3>1. p \in Slots /\ Live(p)
      BY <1>1, <2>1 DEF Named, InGame, SlotsOK, SlotOK
    <3> QED
      BY <1>2, <1>3, <1>6, <2>1, <3>1 DEF chars
  <2> QED
    BY <1>3, <1>8, <1>9, <1>15, <2>1 DEF KickOutYn, LoginStages
<1>16. CASE Talker(i)
  <2>1. CASE /\ handlers' = Replaced(i, "command")
             /\ iamon' = [iamon EXCEPT ![i] = TRUE]
             /\ UNCHANGED queue
    <3>1. Live(i) /\ ~Queued(i)
      BY <1>1, <1>16, ReadyNotQueued DEF Talker, Reads
    <3>2. SameLive /\ UNCHANGED quitNext
      BY <1>2, <1>3, <2>1, <3>1 DEF queue
    <3>3. iamon'[i] /\ \A j \in Slots \ {i} : iamon'[j] = iamon[j]
      BY <1>1, <2>1 DEF TypeOK
    <3>4. \A j \in Slots \ {i} : SlotStatus(j)' = SlotStatus(j)
      BY <3>2, <3>3, StatusFrame DEF SameLive, Queued
    <3>5. /\ SlotStatus(i)' = "game"
          /\ SlotStatus(i) \in {"login", "game"}
      BY <3>1, <3>2, <3>3 DEF SlotStatus, SameLive, Queued
    <3> QED
      BY <3>4, <3>5 DEF StatusStep, Edges
  <2>2. ASSUME NEW save, NEW tbl, Crapup(i, save, TRUE, tbl, uaf),
               UNCHANGED handlers
        PROVE  StatusStep
    BY <1>1, <2>2, CrapupStatusStep
  <2> QED
    BY <1>16, <2>1, <2>2 DEF Talker
<1> QED
  BY <1>4, <1>10, <1>11, <1>12, <1>13, <1>14, <1>15, <1>16 DEF Login

LEMMA CommandStatus ==
  ASSUME IInv, NEW i \in Slots, Command(i)
  PROVE  StatusStep
<1>1. TypeOK /\ Live(i)
  BY CommandInitiated, Initiated DEF IInv
<1>2. ASSUME UNCHANGED <<handlers, quitNext, iamon>>
      PROVE  StatusStep
  BY <1>2, NoStatusStep DEF Live
<1>3. CASE CmdSub(i)
  <2>1. PICK h \in SubsOver(Head(handlers[i])) : handlers' = Replaced(i, h)
    BY <1>3 DEF CmdSub
  <2>2. h \in Stages
    BY DEF SubsOver, Stages, GameStages, Subs
  <2>3. \A j \in Slots : Live(j)' <=> Live(j)
    BY <1>1, <2>1, <2>2, ReplacedStack, ReplacedStatus DEF Replaced, Live, TypeOK
  <2> QED
    BY <1>3, <2>3, NoStatusStep DEF CmdSub, queue, chars
<1>4. CASE CmdBecome(i)
  <2>1. "becom" \in Stages /\ handlers[i] \in Seq(Stages) /\ handlers[i] /= <<>>
    BY <1>1 DEF Live, TypeOK, Stages, GameStages
  <2>2. /\ <<"becom">> \o handlers[i] \in Seq(Stages)
        /\ <<"becom">> \o handlers[i] /= <<>>
    BY <2>1, PushedStack
  <2>3. \A j \in Slots : Live(j)' <=> Live(j)
    BY <1>1, <1>4, <2>2, ReplacedStatus DEF CmdBecome
  <2> QED
    BY <1>4, <2>3, NoStatusStep DEF CmdBecome, queue, chars
<1>5. CASE CmdLeave(i)
  BY <1>1, <1>5, CrapupStatusStep DEF CmdLeave
<1>6. ASSUME NEW j \in Slots, CmdRemove(i, j)
      PROVE  StatusStep
  BY <1>1, <1>6, CrapupStatusStep DEF CmdRemove
<1> QED
  BY <1>2, <1>3, <1>4, <1>5, <1>6
  DEF Command, CmdOther, CmdDestruct, CmdDelete, CmdRename, CmdShutdown, stacks, chars

LEMMA SubBecomEofStatus ==
  ASSUME IInv, NEW i \in Slots, Sub(i) \/ Becom(i) \/ Eof(i)
  PROVE  StatusStep
<1>1. TypeOK /\ Live(i)
  BY DEF IInv, Sub, Becom, Eof, PromptAgain, Proceed, Reads
<1>2. ASSUME NEW h, PromptAgain(i, h)
      PROVE  StatusStep
  BY <1>2, NoStatusStep DEF PromptAgain, Live, stacks, chars
<1>3. ASSUME NEW h, NEW next \in {"command", "motd", "becom"}, Proceed(i, h, next)
      PROVE  StatusStep
  <2>1. \A j \in Slots : Live(j)' <=> Live(j)
    BY <1>1, <1>3, ReplacedStack, ReplacedStatus
    DEF Proceed, Replaced, Live, TypeOK, Stages, GameStages
  <2> QED
    BY <1>3, <2>1, NoStatusStep DEF Proceed, queue, chars
<1>4. CASE Becom(i)
  <2> DEFINE s == <<"command">> \o Tail(Popped(handlers[i]))
  <2>1. Popped(handlers[i]) \in Seq(Stages) /\ Popped(handlers[i]) /= <<>>
    BY <1>1, PoppedStack DEF Live, TypeOK
  <2>2. s \in Seq(Stages) /\ s /= <<>>
    BY <2>1, ReplacedStack DEF Stages, GameStages
  <2>3. handlers' = [handlers EXCEPT ![i] = s]
    BY <1>4 DEF Becom
  <2> HIDE DEF s
  <2>4. \A j \in Slots : Live(j)' <=> Live(j)
    BY <1>1, <2>2, <2>3, ReplacedStatus
  <2> QED
    BY <1>4, <2>4, NoStatusStep DEF Becom, queue
<1>5. CASE Eof(i)
  BY <1>1, <1>5, CrapupStatusStep DEF Eof, UnaliasedCrapup
<1> QED
  BY <1>2, <1>3, <1>4, <1>5, SubProceeds

LEMMA LoopStatus ==
  ASSUME IInv, Looping
  PROVE  StatusStep \/ Slot!Restart
<1>1. TypeOK /\ QuitListSound /\ SlotsOK
  BY SlotsOKDef DEF IInv
<1>2. ASSUME UNCHANGED <<handlers, quitNext, iamon>>
      PROVE  StatusStep
  BY <1>2, NoStatusStep DEF Live
<1>3. CASE EndConnection
  <2>1. PICK h \in Slots : h = quitList /\ Queued(h)
    BY <1>1, <1>3, SlotMarks DEF EndConnection, QuitListSound, HeadQueued, TypeOK
  <2>2. Live(h)
    BY <1>1, <1>3, <2>1 DEF EndConnection, QuitListSound, QueuedLive
  <2>3. ~Live(h)'
    BY <1>1, <1>3, <2>1 DEF EndConnection, Live, TypeOK
  <2>4. <<SlotStatus(h), SlotStatus(h)'>> \in Edges
    BY <2>1, <2>2, <2>3 DEF SlotStatus, Edges
  <2>5. \A j \in Slots \ {h} : SlotStatus(j)' = SlotStatus(j)
    BY <1>1, <1>3, <2>1, StatusFrame DEF EndConnection, Live, Queued, TypeOK, chars
  <2> QED
    BY <2>4, <2>5 DEF StatusStep
<1>4. CASE After
  BY <1>1, <1>2, <1>4, CrapupStatusStep DEF After, TypeOK, queue
<1>5. CASE ShutdownStep \/ TermStep
  <2>1. at \in Slots
    <3>1. phase \in {"shutdown", "term"} /\ at < N
      BY <1>5 DEF ShutdownStep, TermStep
    <3>2. at \in 0 .. N
      BY <1>1, <3>1 DEF TypeOK
    <3> QED
      BY <3>1, <3>2, NAssumption DEF Slots
  <2> QED
    BY <1>1, <1>2, <1>5, <2>1, CrapupStatusStep
    DEF ShutdownStep, TermStep, UnaliasedCrapup, queue
<1>6. CASE TermEnd \/ Crash \/ \E i \in Slots : CrashInGetGender(i)
  <2>1. \A j \in Slots : SlotStatus(j)' = "free"
    BY <1>6 DEF TermEnd, Crash, CrashInGetGender, Boot, SlotStatus, Live
  <2> QED
    BY <2>1 DEF Slot!Restart
<1>7. ASSUME NEW i \in Slots, TimerDeath(i)
      PROVE  StatusStep
  BY <1>1, <1>7, CrapupStatusStep DEF TimerDeath
<1> QED
  BY <1>2, <1>3, <1>4, <1>5, <1>6, <1>7
  DEF Looping, Internal, NothingToEnd, ShutdownEnd, TimerEnd, TimerStart,
      TermStart, stacks, chars

\* Sessions implements Lifecycle: from its connection to the moment it is free
\* again a slot goes one way, and no step gives a slot to somebody else.
THEOREM Refinement == Spec => LifecycleSpec
<1>1. Init => Slot!Init
  <2>1. Init => \A j \in Slots : SlotStatus(j) = "free"
    BY DEF Init, SlotStatus, Live
  <2> QED
    BY <2>1 DEF Slot!Init
<1>2. IInv /\ [Next]_vars => [Slot!Next]_Status
  <2>1. ASSUME IInv, Next
        PROVE  Slot!Next \/ Status' = Status
    <3>1. StatusStep \/ Slot!Restart
      BY <2>1, LoginStatus, CommandStatus, SubBecomEofStatus, LoopStatus
      DEF Next, Looping
    <3> QED
      BY <3>1, StatusStepMaps DEF Slot!Next
  <2>2. ASSUME UNCHANGED vars
        PROVE  Status' = Status
    BY <2>2 DEF Status, SlotStatus, Live, Queued, vars, stacks, chars
  <2> QED
    BY <2>1, <2>2
<1> QED
  BY Invariance, <1>1, <1>2, PTL DEF Spec, LifecycleSpec, Slot!Spec, Status


-----------------------------------------------------------------------------
(* The hours.                                                              *)

\* A set of numbers has a least one.
LEMMA LeastNat ==
  ASSUME NEW S \in SUBSET Nat, S # {}
  PROVE  \E x \in S : \A y \in S : x <= y
<1> DEFINE R == OpToRel(<, Nat)
<1>1. IsWellFoundedOn(R, Nat)
  BY NatLessThanWellFounded
<1>2. \A x, y \in Nat : x < y => <<x, y>> \in R
  BY DEF OpToRel
<1> HIDE DEF R
<1>3. PICK x \in S : \A y \in S : ~(<<y, x>> \in R)
  BY <1>1, WFMin
<1>4. \A y \in S : ~(y < x)
  BY <1>2, <1>3
<1> QED
  BY <1>3, <1>4

\* Min() gives it.
LEMMA MinSo ==
  ASSUME NEW S \in SUBSET Int, NEW x \in S, \A y \in S : x <= y
  PROVE  Min(S) = x
<1>1. \A z \in S : (\A y \in S : z <= y) => z = x
  <2>1. \A z \in S : z <= x /\ x <= z => z = x
    OBVIOUS
  <2> QED BY <2>1
<1>2. Min(S) \in S /\ \A y \in S : Min(S) <= y
  BY DEF Min
<1> QED BY <1>1, <1>2

\* The time from one minute of the week to another.
LEMMA RoundTheWeek ==
  ASSUME NEW a \in Minutes, NEW b \in Minutes
  PROVE  Apart(a, b) = IF a <= b THEN b - a ELSE b - a + Week
<1>1. ASSUME NEW x \in 0 .. Week - 1
      PROVE  x % Week = x /\ (x - Week) % Week = x
  <2>1. Week \in Nat \ {0}
    BY WeekAssumption
  <2> QED BY <2>1
<1>2. Week \in Nat
  BY WeekAssumption
<1>3. CASE a <= b
  <2>1. b - a \in 0 .. Week - 1
    BY <1>2, <1>3 DEF Minutes
  <2> QED BY <1>1, <1>3, <2>1 DEF Apart
<1>4. CASE b < a
  <2>1. b - a + Week \in 0 .. Week - 1 /\ (b - a + Week) - Week = b - a
    BY <1>2, <1>4 DEF Minutes
  <2>2. (b - a) % Week = b - a + Week
    BY <1>1, <2>1
  <2>3. ~(a <= b)
    BY <1>4 DEF Minutes
  <2> QED BY <2>2, <2>3 DEF Apart
<1> QED BY <1>3, <1>4 DEF Minutes

\* round_to_min() may round up to the end of the week, which is its beginning.
LEMMA MinuteKnown ==
  ASSUME NEW c \in Nat
  PROVE  MinuteOf(c) \in Minutes
<1>1. Rounded(c) \div 2 \in Int /\ Week \in Nat \ {0}
  BY WeekAssumption DEF Rounded
<1>2. \A x \in Int : x % Week \in 0 .. Week - 1
  BY <1>1
<1> QED BY <1>1, <1>2 DEF MinuteOf, Minutes

-----------------------------------------------------------------------------
\* The times as xboot_times() leaves them: rising, within a week, and the last in the
\* second week, as if the first one had been reached by going on from it.
Rising(f, t) ==
  /\ t \in Seq(Nat) /\ Len(t) = Len(f)
  /\ \A i \in DOMAIN f : t[i] \in {f[i], f[i] + Week}
  /\ \A i, j \in DOMAIN f : i < j => t[i] < t[j]
  /\ t[Len(f)] >= Week /\ t[Len(f)] < t[1] + Week

LEMMA UnrolledRises ==
  ASSUME NEW f \in Seq(Minutes), Accepted(f)
  PROVE  Rising(f, Unrolled(f))
<1> DEFINE L == Len(f)
           t == Unrolled(f)
<1>1. L \in Nat \ {0} /\ DOMAIN f = 1 .. L /\ Week \in Nat \ {0}
  BY WeekAssumption DEF Accepted
<1>2. \A i \in 1 .. L : f[i] \in Nat /\ f[i] < Week
  BY <1>1 DEF Minutes
<1>3. PICK w \in 1 .. L : Wraps(f) = {w}
  <2>1. IsFiniteSet(Wraps(f))
    <3>1. Wraps(f) \subseteq 1 .. L
      BY <1>1 DEF Wraps
    <3>2. IsFiniteSet(1 .. L)
      BY <1>1, FS_Interval
    <3> QED BY <3>1, <3>2, FS_Subset
  <2>2. Cardinality(Wraps(f)) = 1
    BY DEF Accepted
  <2>3. PICK w : Wraps(f) = {w}
    BY <2>1, <2>2, FS_Singleton
  <2> QED BY <1>1, <2>3 DEF Wraps
<1>4. \A i \in 1 .. L : t[i] = IF i >= w THEN f[i] + Week ELSE f[i]
  BY <1>1, <1>3 DEF Unrolled
<1>5. t \in Seq(Nat) /\ Len(t) = L
  <2>1. t = [i \in 1 .. L |-> IF i >= w THEN f[i] + Week ELSE f[i]]
    BY <1>1, <1>3 DEF Unrolled
  <2> HIDE DEF t, L
  <2>2. t \in [1 .. L -> Nat]
    BY <1>1, <1>2, <2>1
  <2> QED BY <1>1, <2>2
<1> HIDE DEF t
<1>6. \A i \in 1 .. L : i # w => f[i] > f[IF i = 1 THEN L ELSE i - 1]
  <2>1. ASSUME NEW i \in 1 .. L, i # w
        PROVE  f[i] > f[IF i = 1 THEN L ELSE i - 1]
    <3> DEFINE b == IF i = 1 THEN L ELSE i - 1
    <3>1. b \in 1 .. L
      BY <1>1
    <3>2. ~(f[i] <= f[b])
      BY <1>1, <1>3, <2>1 DEF Wraps
    <3> HIDE DEF b
    <3>3. f[i] > f[b]
      BY <1>2, <3>1, <3>2
    <3> QED BY <3>3 DEF b
  <2> QED BY <2>1
<1>7. f[w] <= f[IF w = 1 THEN L ELSE w - 1]
  BY <1>1, <1>3 DEF Wraps
<1> HIDE DEF L
<1>8. \A i \in 1 .. L : i > 1 => t[i - 1] < t[i]
  <2>1. ASSUME NEW i \in 1 .. L, i > 1
        PROVE  t[i - 1] < t[i]
    <3>1. i - 1 \in 1 .. L
      BY <1>1, <2>1
    <3>2. i # w => f[i] > f[i - 1]
      BY <1>6, <2>1
    <3> QED BY <1>1, <1>2, <1>4, <2>1, <3>1, <3>2
  <2> QED BY <2>1
<1>9. \A i, j \in 1 .. L : i < j => t[i] < t[j]
  <2> DEFINE Bad == {j \in 1 .. L : \E i \in 1 .. L : i < j /\ ~(t[i] < t[j])}
  <2>1. SUFFICES ASSUME Bad # {} PROVE FALSE
    OBVIOUS
  <2>2. PICK j \in Bad : \A k \in Bad : j <= k
    <3>1. Bad \in SUBSET Nat
      BY <1>1
    <3> HIDE DEF Bad
    <3> QED BY <2>1, <3>1, LeastNat
  <2>3. PICK i \in 1 .. L : i < j /\ ~(t[i] < t[j])
    BY <2>2
  <2>4. j - 1 \in 1 .. L /\ t[j - 1] < t[j]
    BY <1>1, <1>8, <2>3
  <2>5. j - 1 \notin Bad
    BY <1>1, <2>2
  <2>6. i = j - 1 \/ t[i] < t[j - 1]
    BY <1>1, <2>3, <2>4, <2>5
  <2>7. \A k \in 1 .. L : t[k] \in Int
    BY <1>1, <1>2, <1>4
  <2> QED BY <1>1, <2>3, <2>4, <2>6, <2>7
<1>10. t[L] >= Week /\ t[L] < t[1] + Week
  <2>1. 1 \in 1 .. L /\ L \in 1 .. L
    BY <1>1
  <2>2. CASE w = 1
    BY <1>1, <1>2, <1>4, <2>1, <2>2
  <2>3. CASE w # 1
    <3>1. f[1] > f[L]
      BY <1>6, <2>1, <2>3
    <3> QED BY <1>1, <1>2, <1>3, <1>4, <2>1, <2>3, <3>1
  <2> QED BY <2>2, <2>3
<1>11. \A i \in 1 .. L : t[i] \in {f[i], f[i] + Week}
  BY <1>1, <1>2, <1>4
<1> QED BY <1>1, <1>5, <1>9, <1>10, <1>11 DEF Rising, L, t

\* The search gives the first time that is later.
LEMMA FirstLaterFound ==
  ASSUME Rising(file, openTimes), file \in Seq(Minutes), file # << >>, NEW now \in Int
  PROVE  /\ FirstLater(now) \in 0 .. Len(file)
         /\ FirstLater(now) < Len(file) => now < openTimes[FirstLater(now) + 1]
         /\ FirstLater(now) > 0 => openTimes[FirstLater(now)] <= now
<1> DEFINE L == Len(file)
           later == {i \in DOMAIN openTimes : openTimes[i] > now}
<1>1. /\ DOMAIN openTimes = 1 .. L /\ L \in Nat \ {0} /\ Len(openTimes) = L
      /\ \A i \in 1 .. L : openTimes[i] \in Nat
  BY DEF Rising
<1>2. CASE later = {}
  <2>1. FirstLater(now) = L
    BY <1>1, <1>2 DEF FirstLater
  <2>2. L \in DOMAIN openTimes /\ L \notin later
    BY <1>1, <1>2
  <2> QED BY <1>1, <2>1, <2>2
<1>3. CASE later # {}
  <2>1. PICK j \in later : \A k \in later : j <= k
    <3>1. later \in SUBSET Nat
      BY <1>1
    <3> HIDE DEF later
    <3> QED BY <1>3, <3>1, LeastNat
  <2>2. Min(later) = j
    <3>1. later \in SUBSET Int
      BY <1>1
    <3> HIDE DEF later
    <3> QED BY <2>1, <3>1, MinSo
  <2>3. FirstLater(now) = j - 1
    BY <1>3, <2>2 DEF FirstLater
  <2>4. j > 1 => j - 1 \in 1 .. L /\ j - 1 \notin later
    BY <1>1, <2>1
  <2> QED BY <1>1, <2>1, <2>3, <2>4
<1> QED BY <1>2, <1>3

\* Where next_time() stands: the last event is the time n, and this week's or, before
\* the first time of the file, next week's minute "now" lies between it and the next one.
Between(n, m, now) ==
  LET t == openTimes
      L == Len(file)
  IN /\ n \in 0 .. L - 1 /\ now \in {m, m + Week} /\ m < t[n + 1]
     /\ IF now = m THEN t[1] <= m ELSE m < t[1]
     /\ \/ n > 0 /\ t[n] <= now /\ now < t[n + 1]
        \/ n = 0 /\ now < t[1]
        \/ n = 0 /\ t[L] <= now

\* The hours the proofs speak about.
Listed ==
  /\ file \in Seq(Minutes) /\ Len(file) \in Nat \ {0} /\ Len(file) % 2 = 0
  /\ Rising(file, openTimes)

\* What is needed of the times, in one place.
LEMMA TimesKnown ==
  ASSUME Listed
  PROVE  /\ Week \in Nat \ {0} /\ Len(file) \in Nat \ {0} /\ DOMAIN file = 1 .. Len(file)
         /\ Len(openTimes) = Len(file)
         /\ \A i \in 1 .. Len(file) :
              /\ file[i] \in Minutes /\ file[i] \in Nat /\ file[i] < Week
              /\ openTimes[i] \in Nat /\ openTimes[i] \in {file[i], file[i] + Week}
              /\ openTimes[1] <= openTimes[i] /\ openTimes[i] <= openTimes[Len(file)]
              /\ openTimes[i] < 2 * Week /\ openTimes[i] < openTimes[1] + Week
         /\ \A i, j \in 1 .. Len(file) : i < j => openTimes[i] < openTimes[j]
         /\ openTimes[Len(file)] >= Week
<1> DEFINE L == Len(file)
           t == openTimes
<1>1. /\ Week \in Nat \ {0} /\ L \in Nat \ {0} /\ DOMAIN file = 1 .. L
      /\ \A i \in 1 .. L : file[i] \in Minutes
  BY WeekAssumption DEF Listed
<1>2. \A i \in 1 .. L : file[i] \in Nat /\ file[i] < Week
  BY <1>1 DEF Minutes
<1>3. /\ Len(t) = L /\ \A i \in 1 .. L : t[i] \in Nat /\ t[i] \in {file[i], file[i] + Week}
      /\ \A i, j \in 1 .. L : i < j => t[i] < t[j]
      /\ t[L] >= Week /\ t[L] < t[1] + Week
  <2>1. Len(t) = L /\ t \in Seq(Nat)
    BY DEF Listed, Rising
  <2>2. /\ \A i \in DOMAIN file : t[i] \in {file[i], file[i] + Week}
        /\ \A i, j \in DOMAIN file : i < j => t[i] < t[j]
        /\ t[L] >= Week /\ t[L] < t[1] + Week
    BY DEF Listed, Rising
  <2>3. \A i \in 1 .. L : t[i] \in Nat
    BY <2>1
  <2> QED BY <1>1, <2>1, <2>2, <2>3
<1> HIDE DEF L, t
<1>4. \A i \in 1 .. L : t[1] <= t[i] /\ t[i] <= t[L]
  <2>1. ASSUME NEW i \in 1 .. L
        PROVE  t[1] <= t[i] /\ t[i] <= t[L]
    <3>1. 1 \in 1 .. L /\ L \in 1 .. L /\ i \in Nat
      BY <1>1
    <3>2. (i = 1 \/ t[1] < t[i]) /\ (i = L \/ t[i] < t[L])
      BY <1>1, <1>3, <3>1
    <3> QED BY <1>3, <3>1, <3>2
  <2> QED BY <2>1
<1>5. \A i \in 1 .. L : t[i] < 2 * Week /\ t[i] < t[1] + Week
  <2>1. 1 \in 1 .. L /\ L \in 1 .. L
    BY <1>1
  <2> QED BY <1>1, <1>2, <1>3, <1>4, <2>1
<1> QED BY <1>1, <1>2, <1>3, <1>4, <1>5 DEF L, t

\* next_time() ends there.
LEMMA NextFound ==
  ASSUME Listed, NEW m \in Minutes
  PROVE  \E now \in {m, m + Week} : Between(NextTime(m), m, now)
<1> DEFINE L == Len(file)
           t == openTimes
           x == FirstLater(m)
           z == FirstLater(m + Week)
<1>1. /\ Week \in Nat \ {0} /\ L \in Nat \ {0} /\ m \in Nat /\ m < Week
      /\ Len(t) = L /\ t[L] >= Week /\ t[L] \in Nat /\ t[1] \in Nat
      /\ \A i \in 1 .. L : t[1] <= t[i] /\ t[i] \in Nat
  BY TimesKnown DEF Minutes
<1>2. /\ x \in 0 .. L /\ (x < L => m < t[x + 1]) /\ (x > 0 => t[x] <= m)
      /\ z \in 0 .. L /\ (z < L => m + Week < t[z + 1]) /\ (z > 0 => t[z] <= m + Week)
  <2>1. /\ file # << >> /\ m \in Int /\ m + Week \in Int
        /\ Rising(file, t) /\ file \in Seq(Minutes)
    BY <1>1 DEF Listed
  <2>2. x \in 0 .. L /\ (x < L => m < t[x + 1]) /\ (x > 0 => t[x] <= m)
    BY <2>1, FirstLaterFound
  <2>3. z \in 0 .. L /\ (z < L => m + Week < t[z + 1]) /\ (z > 0 => t[z] <= m + Week)
    BY <2>1, FirstLaterFound
  <2> QED BY <2>2, <2>3
<1>3. NextTime(m) = LET y == IF x = 0 THEN z ELSE x IN IF y = L THEN 0 ELSE y
  BY <1>1 DEF NextTime
<1> HIDE DEF x, z, L, t
<1>4. x # L
  BY <1>1, <1>2
<1>5. CASE x > 0
  <2>1. NextTime(m) = x /\ x \in 1 .. L
    BY <1>1, <1>2, <1>3, <1>4, <1>5
  <2>2. t[1] <= m
    BY <1>1, <1>2, <1>5, <2>1
  <2>3. Between(x, m, m)
    BY <1>1, <1>2, <1>4, <1>5, <2>2 DEF Between, L, t
  <2> QED BY <2>1, <2>3
<1>6. CASE x = 0
  <2> DEFINE n == IF z = L THEN 0 ELSE z
  <2>1. NextTime(m) = n
    BY <1>3, <1>6
  <2>2. m < t[1]
    BY <1>1, <1>2, <1>6
  <2>3. n \in 0 .. L - 1 /\ n + 1 \in 1 .. L
    BY <1>1, <1>2
  <2>4. m < t[n + 1]
    BY <1>1, <2>2, <2>3
  <2>5. \/ n > 0 /\ t[n] <= m + Week /\ m + Week < t[n + 1]
        \/ n = 0 /\ m + Week < t[1]
        \/ n = 0 /\ t[L] <= m + Week
    BY <1>1, <1>2
  <2>6. m + Week # m
    BY <1>1
  <2> HIDE DEF n
  <2>7. Between(n, m, m + Week)
    BY <2>2, <2>3, <2>4, <2>5, <2>6 DEF Between, L, t
  <2> QED BY <2>1, <2>7
<1> QED BY <1>1, <1>2, <1>5, <1>6

\* How far a time of the file is from "now", before it and after it.
LEMMA FarFromNow ==
  ASSUME Listed, NEW m \in Minutes, NEW n, NEW now, Between(n, m, now),
         NEW i \in 1 .. Len(file)
  PROVE  LET t == openTimes IN
         /\ Apart(file[i], m) = IF t[i] <= now THEN now - t[i] ELSE now - t[i] + Week
         /\ (IF Apart(m, file[i]) = 0 THEN Week ELSE Apart(m, file[i]))
              = IF t[i] <= now THEN t[i] - now + Week ELSE t[i] - now
         /\ now + Week >= t[i]
         /\ t[i] <= now => now - t[i] < Week
<1> DEFINE t == openTimes
           a == file[i]
<1>1. /\ Week \in Nat \ {0} /\ m \in Nat /\ m < Week /\ a \in Nat /\ a < Week /\ a \in Minutes
      /\ t[i] \in Nat /\ t[i] \in {a, a + Week} /\ t[1] \in Nat /\ t[1] <= t[i]
      /\ t[i] < t[1] + Week
      /\ now \in {m, m + Week} /\ IF now = m THEN t[1] <= m ELSE m < t[1]
  BY TimesKnown DEF Minutes, Between
<1>2. /\ Apart(a, m) = IF a <= m THEN m - a ELSE m - a + Week
      /\ Apart(m, a) = IF m <= a THEN a - m ELSE a - m + Week
  BY <1>1, RoundTheWeek
<1> DEFINE p == Apart(a, m)
           q == Apart(m, a)
           s == t[i]
<1> HIDE DEF t, a
<1>3. now + Week >= t[i] /\ (t[i] <= now => now - t[i] < Week)
  BY <1>1
<1>4. /\ s \in Nat /\ s \in {a, a + Week} /\ now + Week >= s /\ (s <= now => now - s < Week)
      /\ p = (IF a <= m THEN m - a ELSE m - a + Week)
      /\ q = (IF m <= a THEN a - m ELSE a - m + Week)
  BY <1>1, <1>2, <1>3
<1> HIDE DEF p, q, s
<1>5. p = IF s <= now THEN now - s ELSE now - s + Week
  <2>1. CASE now = m
    BY <1>1, <1>4, <2>1
  <2>2. CASE now = m + Week
    BY <1>1, <1>4, <2>2
  <2> QED BY <1>1, <2>1, <2>2
<1>6. (IF q = 0 THEN Week ELSE q) = IF s <= now THEN s - now + Week ELSE s - now
  <2>1. CASE now = m
    BY <1>1, <1>4, <2>1
  <2>2. CASE now = m + Week
    BY <1>1, <1>4, <2>2
  <2> QED BY <1>1, <2>1, <2>2
<1> QED BY <1>3, <1>5, <1>6 DEF t, a, p, q, s

\* The distance from one time of the file to the next one.
LEMMA FarFromNext ==
  ASSUME Listed, NEW i \in 1 .. Len(file), i + 1 \in 1 .. Len(file)
  PROVE  Apart(file[i], file[i + 1]) = openTimes[i + 1] - openTimes[i]
<1> DEFINE a == file[i]
           b == file[i + 1]
           s == openTimes[i]
           u == openTimes[i + 1]
<1>1. /\ Week \in Nat \ {0} /\ a \in Minutes /\ b \in Minutes
      /\ a \in Nat /\ a < Week /\ b \in Nat /\ b < Week /\ s \in Nat /\ u \in Nat
      /\ s \in {a, a + Week} /\ u \in {b, b + Week}
      /\ openTimes[1] \in Nat /\ openTimes[1] <= s /\ u < openTimes[1] + Week
  <2>1. 1 \in 1 .. Len(file)
    BY TimesKnown
  <2> QED BY <2>1, TimesKnown
<1>2. s < u
  <2>1. i < i + 1
    OBVIOUS
  <2> QED BY <2>1, TimesKnown
<1>3. Apart(a, b) = IF a <= b THEN b - a ELSE b - a + Week
  BY <1>1, RoundTheWeek
<1> DEFINE p == Apart(a, b)
           x == openTimes[1]
<1>4. p = (IF a <= b THEN b - a ELSE b - a + Week) /\ x \in Nat /\ x <= s /\ u < x + Week
  BY <1>1, <1>3
<1> HIDE DEF a, b, s, u, p, x
<1>5. p = u - s
  BY <1>1, <1>2, <1>4
<1> QED BY <1>5 DEF a, b, s, u, p

\* The game is open when the last event was an opening, and that is in the hours.
LEMMA OpenInHours ==
  ASSUME Listed, Accepted(file), NEW m \in Minutes
  PROVE  (NextTime(m) % 2 = 1) <=> InHours(m)
<1> DEFINE n == NextTime(m)
           L == Len(file)
           t == openTimes
<1>1. PICK now \in {m, m + Week} : Between(n, m, now)
  BY NextFound
<1> HIDE DEF n
<1>2. /\ Week \in Nat \ {0} /\ L \in Nat \ {0} /\ DOMAIN file = 1 .. L /\ L % 2 = 0
      /\ m \in Nat /\ now \in Nat /\ n \in 0 .. L - 1
  BY <1>1, TimesKnown DEF Listed, Minutes, Between
<1>3. /\ \A i \in 1 .. L : /\ t[i] \in Nat /\ t[i] < 2 * Week /\ t[i] < t[1] + Week
                           /\ t[1] <= t[i] /\ t[i] <= t[L]
      /\ \A i, j \in 1 .. L : i < j => t[i] < t[j]
  BY TimesKnown
<1>4. ASSUME NEW i \in 1 .. L, i % 2 = 1
      PROVE  /\ i + 1 \in 1 .. L
             /\ Apart(file[i], m) < Apart(file[i], file[i + 1])
                  <=> t[i] <= now /\ now < t[i + 1]
  <2>1. i + 1 \in 1 .. L
    BY <1>2, <1>4
  <2> DEFINE p == Apart(file[i], m)
             d == Apart(file[i], file[i + 1])
             s == t[i]
             u == t[i + 1]
  <2>2. p = (IF s <= now THEN now - s ELSE now - s + Week) /\ now + Week >= u
    BY <1>1, <2>1, FarFromNow
  <2>3. d = u - s
    BY <2>1, FarFromNext
  <2>4. s \in Nat /\ u \in Nat
    BY <1>3, <2>1
  <2> HIDE DEF p, d, s, u
  <2>5. p < d <=> s <= now /\ now < u
    BY <1>2, <2>2, <2>3, <2>4
  <2> QED BY <2>1, <2>5 DEF p, d, s, u
<1>5. ASSUME n % 2 = 1
      PROVE  InHours(m)
  <2>1. n \in 1 .. L /\ t[n] <= now /\ now < t[n + 1]
    BY <1>1, <1>2, <1>5 DEF Between
  <2>2. Apart(file[n], m) < Apart(file[n], file[n + 1])
    BY <1>4, <1>5, <2>1
  <2> QED BY <1>2, <1>5, <2>1, <2>2 DEF InHours
<1>6. ASSUME NEW i \in 1 .. L, i % 2 = 1, t[i] <= now, now < t[i + 1], n % 2 # 1
      PROVE  FALSE
  <2>1. i + 1 \in 1 .. L /\ t[i + 1] \in Nat /\ t[i] \in Nat /\ t[1] \in Nat /\ t[L] \in Nat
    BY <1>2, <1>3, <1>4, <1>6
  <2>2. CASE n > 0 /\ t[n] <= now /\ now < t[n + 1]
    <3>1. n \in 1 .. L /\ n + 1 \in 1 .. L /\ t[n] \in Nat /\ t[n + 1] \in Nat
      BY <1>2, <1>3, <2>2
    <3>2. i # n
      BY <1>6
    <3>3. CASE i < n
      <4>1. i + 1 = n \/ t[i + 1] < t[n]
        BY <1>2, <1>3, <2>1, <3>1, <3>3
      <4> QED BY <1>2, <1>6, <2>1, <2>2, <3>1, <4>1
    <3>4. CASE n < i
      <4>1. n + 1 = i \/ t[n + 1] < t[i]
        BY <1>2, <1>3, <2>1, <3>1, <3>4
      <4> QED BY <1>2, <1>6, <2>1, <2>2, <3>1, <4>1
    <3> QED BY <1>2, <3>2, <3>3, <3>4
  <2>3. CASE now < t[1]
    BY <1>2, <1>3, <1>6, <2>1, <2>3
  <2>4. CASE t[L] <= now
    <3>1. t[i + 1] <= t[L]
      BY <1>3, <2>1
    <3> QED BY <1>2, <1>6, <2>1, <2>4, <3>1
  <2> QED BY <1>1, <2>2, <2>3, <2>4 DEF Between
<1>7. ASSUME InHours(m)
      PROVE  n % 2 = 1
  <2>1. PICK i \in 1 .. L : i % 2 = 1 /\ Apart(file[i], m) < Apart(file[i], file[i + 1])
    BY <1>2, <1>7 DEF InHours
  <2>2. t[i] <= now /\ now < t[i + 1]
    BY <1>4, <2>1
  <2> QED BY <1>6, <2>1, <2>2
<1> QED BY <1>5, <1>7 DEF n

\* A time of this week is to come that was put into the next.
Skipped(m) == \E i \in Carried : m < file[i]

\* Those are the times from the wrap of the file on.
LEMMA CarriedTimes ==
  ASSUME Accepted(file), file \in Seq(Minutes)
  PROVE  /\ Carried \subseteq 1 .. Len(file)
         /\ \A i \in 1 .. Len(file) :
              Unrolled(file)[i] = IF i \in Carried THEN file[i] + Week ELSE file[i]
<1>1. DOMAIN file = 1 .. Len(file)
  OBVIOUS
<1>2. PICK w : Wraps(file) = {w}
  <2>1. IsFiniteSet(Wraps(file))
    <3>1. Wraps(file) \subseteq 1 .. Len(file) /\ IsFiniteSet(1 .. Len(file))
      BY <1>1, FS_Interval DEF Wraps
    <3> QED BY <3>1, FS_Subset
  <2> QED BY <2>1, FS_Singleton DEF Accepted
<1>3. (CHOOSE i \in Wraps(file) : TRUE) = w
  BY <1>2
<1>4. \A i \in 1 .. Len(file) : i \in Carried <=> w <= i
  BY <1>1, <1>2 DEF Carried
<1> QED BY <1>1, <1>3, <1>4 DEF Unrolled, Carried

\* The next event is the one the file has next, or this one a week later when it is
\* skipped.
LEMMA NextAhead ==
  ASSUME Listed, NEW m \in Minutes, Carried \subseteq 1 .. Len(file),
         \A i \in 1 .. Len(file) :
           openTimes[i] = IF i \in Carried THEN file[i] + Week ELSE file[i]
  PROVE  Diff(m, openTimes[NextTime(m) + 1])
           = Ahead(m) + (IF Skipped(m) THEN Week ELSE 0)
<1> DEFINE n == NextTime(m)
           L == Len(file)
           t == openTimes
           far(i) == IF Apart(m, file[i]) = 0 THEN Week ELSE Apart(m, file[i])
           all == {far(i) : i \in DOMAIN file}
<1>1. PICK now \in {m, m + Week} : Between(n, m, now)
  BY NextFound
<1> HIDE DEF n
<1>2. /\ Week \in Nat \ {0} /\ L \in Nat \ {0} /\ DOMAIN file = 1 .. L
      /\ m \in Nat /\ now \in Nat /\ n \in 0 .. L - 1 /\ m < t[n + 1] /\ n + 1 \in 1 .. L
  BY <1>1, TimesKnown DEF Minutes, Between
<1>3. /\ \A i \in 1 .. L : /\ t[i] \in Nat /\ t[i] < t[1] + Week
                           /\ t[1] <= t[i] /\ t[i] <= t[L]
      /\ \A i, j \in 1 .. L : i < j => t[i] < t[j]
  BY TimesKnown
<1>4. \A i \in 1 .. L : far(i) = IF t[i] <= now THEN t[i] - now + Week ELSE t[i] - now
  BY <1>1, FarFromNow
<1> HIDE DEF far
<1>5. all \in SUBSET Int /\ \A i \in 1 .. L : far(i) \in all
  BY <1>2, <1>3, <1>4
<1>6. \A i \in 1 .. L : far(n + 1) <= far(i)
  <2>1. ASSUME NEW i \in 1 .. L
        PROVE  far(n + 1) <= far(i)
    <3>1. /\ t[i] \in Nat /\ t[n + 1] \in Nat /\ t[1] \in Nat /\ t[1] <= t[i] /\ t[i] <= t[L]
          /\ t[n + 1] < t[1] + Week /\ t[L] \in Nat
      BY <1>2, <1>3
    <3>2. /\ far(i) = IF t[i] <= now THEN t[i] - now + Week ELSE t[i] - now
          /\ far(n + 1) = IF t[n + 1] <= now THEN t[n + 1] - now + Week ELSE t[n + 1] - now
      BY <1>2, <1>4
    <3>3. CASE now < t[n + 1]
      <4>1. CASE t[i] <= now
        BY <1>2, <3>1, <3>2, <3>3, <4>1
      <4>2. CASE now < t[i]
        <5>1. t[n + 1] <= t[i]
          <6>1. CASE n = 0
            BY <3>1, <6>1
          <6>2. CASE n > 0 /\ t[n] <= now
            <7>1. n \in 1 .. L /\ t[n] \in Nat
              BY <1>2, <1>3, <6>2
            <7>2. ~(i < n) /\ i # n
              BY <1>2, <1>3, <3>1, <4>2, <6>2, <7>1
            <7>3. i = n + 1 \/ n + 1 < i
              BY <1>2, <7>1, <7>2
            <7> QED BY <1>2, <1>3, <3>1, <7>3
          <6>3. n = 0 \/ (n > 0 /\ t[n] <= now)
            BY <1>1 DEF Between
          <6> QED BY <6>1, <6>2, <6>3
        <5> QED BY <1>2, <3>1, <3>2, <3>3, <4>2, <5>1
      <4> QED BY <1>2, <3>1, <4>1, <4>2
    <3>4. CASE t[n + 1] <= now
      <4>1. n = 0 /\ t[L] <= now
        BY <1>1, <1>2, <3>1, <3>4 DEF Between
      <4> QED BY <1>2, <3>1, <3>2, <3>4, <4>1
    <3> QED BY <1>2, <3>1, <3>3, <3>4
  <2> QED BY <2>1
<1>7. Ahead(m) = far(n + 1)
  <2>1. Ahead(m) = Min(all)
    BY DEF Ahead, far
  <2>2. \A y \in all : far(n + 1) <= y
    BY <1>2, <1>6
  <2> HIDE DEF all
  <2>3. far(n + 1) \in all
    BY <1>2, <1>5
  <2>4. Min(all) = far(n + 1)
    BY <1>5, <2>2, <2>3, MinSo
  <2> QED BY <2>1, <2>4
<1>8. Diff(m, t[n + 1]) = t[n + 1] - m
  BY <1>2, <1>3 DEF Diff
<1>9. far(n + 1) = IF t[n + 1] <= now THEN t[n + 1] - now + Week ELSE t[n + 1] - now
  BY <1>2, <1>4
<1>10. t[n + 1] \in Nat /\ (now = m \/ now = m + Week)
  BY <1>2, <1>3
<1>11. \A i \in 1 .. L : file[i] \in Nat /\ file[i] < Week
  BY TimesKnown
<1>12. n + 1 \in 1 .. L /\ 1 \in 1 .. L
  BY <1>2
<1>13. CASE now = m
  <2>1. t[n + 1] - m = far(n + 1)
    BY <1>2, <1>9, <1>10, <1>13
  <2>2. t[1] <= m
    BY <1>1, <1>13 DEF Between
  <2>3. ~Skipped(m)
    <3> SUFFICES ASSUME NEW i \in Carried, m < file[i] PROVE FALSE
      BY DEF Skipped
    <3>1. i \in 1 .. L /\ t[i] = file[i] + Week
      OBVIOUS
    <3> QED BY <1>2, <1>3, <1>11, <1>12, <2>2, <3>1
  <2>4. far(n + 1) \in Int
    BY <1>2, <1>10, <2>1
  <2> QED BY <1>7, <1>8, <2>1, <2>3, <2>4 DEF n
<1>14. CASE now = m + Week
  <2>1. CASE now < t[n + 1]
    <3>1. t[n + 1] - m = far(n + 1) + Week
      BY <1>2, <1>9, <1>10, <1>14, <2>1
    <3>2. n + 1 \in Carried /\ m < file[n + 1]
      <4>1. CASE n + 1 \notin Carried
        <5>1. t[n + 1] = file[n + 1] /\ file[n + 1] \in Nat /\ file[n + 1] < Week
          BY <1>11, <1>12, <4>1
        <5> QED BY <1>2, <1>14, <2>1, <5>1
      <4>2. CASE n + 1 \in Carried
        <5>1. t[n + 1] = file[n + 1] + Week /\ file[n + 1] \in Nat
          BY <1>11, <1>12, <4>2
        <5> QED BY <1>2, <1>14, <2>1, <4>2, <5>1
      <4> QED BY <4>1, <4>2
    <3>3. Skipped(m)
      BY <3>2 DEF Skipped
    <3> QED BY <1>7, <1>8, <3>1, <3>3 DEF n
  <2>2. CASE ~(now < t[n + 1])
    <3>1. t[n + 1] - m = far(n + 1)
      BY <1>2, <1>9, <1>10, <1>14, <2>2
    <3>2. t[L] <= now
      BY <1>1, <2>2 DEF Between
    <3>3. ~Skipped(m)
      <4> SUFFICES ASSUME NEW i \in Carried, m < file[i] PROVE FALSE
        BY DEF Skipped
      <4>1. i \in 1 .. L /\ t[i] = file[i] + Week
        OBVIOUS
      <4>2. t[i] <= t[L] /\ t[L] \in Nat
        BY <1>2, <1>3, <4>1
      <4> QED BY <1>2, <1>11, <1>14, <3>2, <4>1, <4>2
    <3>4. far(n + 1) \in Int
      BY <1>2, <1>10, <3>1
    <3> QED BY <1>7, <1>8, <3>1, <3>3, <3>4 DEF n
  <2> QED BY <2>1, <2>2
<1> QED BY <1>10, <1>13, <1>14

-----------------------------------------------------------------------------
\* The times stay those of the file, and the clock goes on.
HInv ==
  /\ file \in Seq(Minutes) /\ Len(file) % 2 = 0
  /\ openTimes = (IF Accepted(file) THEN Unrolled(file) ELSE << >>)
  /\ clock \in Nat

\* No login, alarm or restart changes the file or the times.
LEMMA HoursInvariance == HoursSpec => []HInv
<1>1. InitHours => HInv
  <2> SUFFICES ASSUME NEW f \in Files, NEW c \in 0 .. 2 * Week - 1, BootHours(f, c)
               PROVE  HInv
    BY DEF InitHours
  <2>1. f \in Seq(Minutes) /\ Len(f) % 2 = 0
    <3>1. f \in BoundedSeq(Minutes, 2 * MaxLines) /\ Len(f) % 2 = 0
      BY DEF Files
    <3>2. PICK n \in 0 .. 2 * MaxLines : f \in [1 .. n -> Minutes]
      BY <3>1 DEF BoundedSeq, SeqOf
    <3>3. n \in Nat
      BY BoundAssumption
    <3> QED BY <3>1, <3>2, <3>3
  <2> QED BY <2>1, WeekAssumption DEF BootHours, HInv
<1>2. HInv /\ [HoursNext]_hoursVars => HInv'
  <2> SUFFICES ASSUME HInv, [HoursNext]_hoursVars PROVE HInv'
    OBVIOUS
  <2>1. CASE OnTimer
    <3>1. PICK late \in 0 .. MaxLate : clock' = (clock + late) % (2 * Week)
      BY <2>1 DEF OnTimer
    <3> DEFINE V == 2 * Week
    <3>2. V \in Nat \ {0} /\ clock + late \in Int
      BY BoundAssumption, WeekAssumption DEF HInv
    <3> HIDE DEF V
    <3>3. \A x \in Int : x % V \in 0 .. V - 1
      BY <3>2
    <3>4. clock' \in Nat
      BY <3>1, <3>2, <3>3 DEF V
    <3> QED BY <2>1, <3>4 DEF OnTimer, HInv
  <2>2. CASE ~OnTimer
    BY <2>2 DEF HoursNext, Restart, LoginOk, hoursVars, HInv
  <2> QED BY <2>1, <2>2
<1> QED BY <1>1, <1>2, PTL DEF HoursSpec

\* What is refused leaves no times, what is accepted leaves rising ones.
LEMMA HoursListed ==
  ASSUME HInv
  PROVE  /\ Accepted(file) => Listed /\ openTimes # << >>
         /\ ~Accepted(file) => openTimes = << >>
         /\ MinuteOf(clock) \in Minutes
<1>1. ASSUME Accepted(file)
      PROVE  Listed /\ openTimes # << >>
  <2>1. Rising(file, openTimes)
    BY <1>1, UnrolledRises DEF HInv
  <2>2. Len(file) \in Nat \ {0}
    BY <1>1 DEF HInv, Accepted
  <2> QED BY <2>1, <2>2 DEF HInv, Listed, Rising
<1> QED BY <1>1, MinuteKnown DEF HInv

\* Whoever has no privilege is let in exactly in the hours of the file (mud.c:174,
\* timing.c:164).
THEOREM HoursCorrect == HoursSpec => HoursKept
<1>1. HInv /\ [HoursNext]_hoursVars =>
        [\A p \in BOOLEAN : (LoginOk(p) /\ ~p) =>
           (welcome' = "in") = InHours(MinuteOf(clock))]_hoursVars
  <2> SUFFICES ASSUME HInv, NEW p \in BOOLEAN, LoginOk(p), ~p
               PROVE  (welcome' = "in") = InHours(MinuteOf(clock))
    OBVIOUS
  <2>1. (welcome' = "in") <=> MudOpen(clock)
    BY DEF LoginOk
  <2>2. MudOpen(clock) <=> InHours(MinuteOf(clock))
    <3>1. CASE Accepted(file)
      BY <3>1, HoursListed, OpenInHours DEF MudOpen
    <3>2. CASE ~Accepted(file)
      BY <3>2, HoursListed DEF MudOpen, InHours
    <3> QED BY <3>1, <3>2
  <2>3. InHours(MinuteOf(clock)) \in BOOLEAN
    BY DEF InHours
  <2> QED BY <2>1, <2>2, <2>3
<1> QED BY <1>1, HoursInvariance, PTL DEF HoursSpec, HoursKept

\* The event the timer waits for is the next one of the file, or, exactly while a time of
\* this week is to come that was put into the next, that one a week later (timing.c:112).
THEOREM EventCorrect == HoursSpec => EventOnTheWeek
<1>1. HInv /\ [HoursNext]_hoursVars =>
        [(Asked /\ left' # Never) =>
           LET m == MinuteOf(clock)
               skipped == \E i \in Carried : m < file[i]
           IN left' = LeftUntil(Ahead(m) + (IF skipped THEN Week ELSE 0))]_hoursVars
  <2> SUFFICES ASSUME HInv, Asked, left' # Never
               PROVE  left' = LeftUntil(Ahead(MinuteOf(clock))
                                          + (IF Skipped(MinuteOf(clock)) THEN Week ELSE 0))
    BY DEF Skipped
  <2> DEFINE m == MinuteOf(clock)
             d == Diff(m, openTimes[NextTime(m) + 1])
             r == Rounded(clock)
             u == Ahead(m) + (IF Skipped(m) THEN Week ELSE 0)
  <2>1. left' = LeftAt(clock)
    BY DEF Asked, Restart, LoginOk
  <2>2. openTimes # << >> /\ left' = 2 * d + (r - clock)
    BY <2>1 DEF LeftAt
  <2>3. Listed /\ m \in Minutes /\ Accepted(file)
    BY <2>2, HoursListed DEF HInv
  <2>4. file \in Seq(Minutes) /\ openTimes = Unrolled(file)
    BY <2>3 DEF HInv
  <2> HIDE DEF m
  <2>5. d = u
    BY <2>3, <2>4, CarriedTimes, NextAhead
  <2>6. r \in Int /\ clock \in Int /\ d \in Int
    <3>1. Week \in Int /\ m \in Int /\ \A i \in 1 .. Len(file) : openTimes[i] \in Int
      BY <2>3, TimesKnown DEF Minutes
    <3>2. PICK now \in {m, m + Week} : Between(NextTime(m), m, now)
      BY <2>3, NextFound
    <3>3. NextTime(m) + 1 \in 1 .. Len(file)
      BY <2>3, <3>2, TimesKnown DEF Between
    <3>4. d \in Int
      BY <3>1, <3>3 DEF Diff
    <3> QED BY <3>4 DEF HInv, Rounded
  <2> HIDE DEF d, r, u
  <2>7. left' = 2 * u + r - clock
    BY <2>2, <2>5, <2>6
  <2> QED BY <2>7 DEF m, r, u, LeftUntil
<1> QED BY <1>1, HoursInvariance, PTL DEF HoursSpec, EventOnTheWeek
==============================================================================
