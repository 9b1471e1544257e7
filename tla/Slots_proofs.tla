----------------------------- MODULE Slots_proofs -----------------------------
(***************************************************************************)
(* Theorems about Slots, for every number of slots, however deep           *)
(* conversations are nested, and however many there are.                   *)
(*                                                                         *)
(* WorkOwned and WriterOwned say something of the top handler only, but    *)
(* the end of a frob and of a writer bring back the handler below, or the  *)
(* one that was replaced.  Safe says that the whole chain of handlers that *)
(* will come back finds its subjects as it left them.                      *)
(***************************************************************************)
EXTENDS Slots, SequenceTheorems, FiniteSetTheorems, TLAPS

-----------------------------------------------------------------------------
(* Types.                                                                  *)

Functions == {"login", "command", "frob", "unveil", "becom", "oldpass", "newpass", "confirm",
              "page", "write"}
Entries == [fn : Functions, of : Nat]
Subjects == [kind : {"frob", "level", "persona", "freed"}, of : Nat]
Texts == [of : Nat, old : Entries]

TypesOK ==
  /\ handlers \in [PlayerSlots -> Seq(Entries)]
  /\ iamon \in [PlayerSlots -> BOOLEAN]
  /\ quitting \subseteq PlayerSlots
  /\ work \in [PlayerSlots -> Seq(Subjects)]
  /\ writer \in [PlayerSlots -> Seq(Texts)]

SnoopTyped ==
  /\ snooptarget \in [PlayerSlots -> PlayerSlots \cup {Nobody}]
  /\ snooped \in [PlayerSlots -> Nat]

-----------------------------------------------------------------------------
(* The chain of handlers that come back.                                   *)

\* What a player has: his stack, his work and his writers.
Conf(h, w, t) == [handlers |-> h, work |-> w, writer |-> t]
Confs == [handlers : Seq(Entries), work : Seq(Subjects), writer : Seq(Texts)]

Owns(c, kind) == c.work # <<>> /\ Head(c.work) = Subject(kind, Head(c.handlers).of)

\* In none of these does a handler find what is not its own, and what comes back at
\* the end of a frob or of a writer is one of them again.
Sound(R) ==
  \A c \in R :
    /\ c.handlers # <<>>
    /\ Head(c.handlers).fn = "frob" =>
         /\ Owns(c, "frob") /\ Len(c.handlers) > 1
         /\ Conf(Tail(c.handlers), Tail(c.work), c.writer) \in R
    /\ Head(c.handlers).fn = "write" =>
         /\ c.writer # <<>> /\ Head(c.writer).of = Head(c.handlers).of
         /\ Conf(Replaced(Head(c.writer).old, c.handlers), c.work, Tail(c.writer)) \in R
    /\ Head(c.handlers).fn = "unveil" => Owns(c, "level")
    /\ Head(c.handlers).fn \in {"newpass", "confirm"} => Owns(c, "persona")

Safe(h, w, t) == \E R \in SUBSET Confs : Sound(R) /\ Conf(h, w, t) \in R

-----------------------------------------------------------------------------
(* Sequences with one more element in front.                               *)

LEMMA Front ==
  ASSUME NEW X, NEW x \in X, NEW s \in Seq(X)
  PROVE  /\ <<x>> \o s \in Seq(X) /\ <<x>> \o s # <<>>
         /\ Head(<<x>> \o s) = x /\ Tail(<<x>> \o s) = s
         /\ Len(<<x>> \o s) = Len(s) + 1
<1>1. <<x>> \in Seq(X) /\ Len(<<x>>) = 1 /\ <<x>>[1] = x
  OBVIOUS
<1>2. /\ <<x>> \o s \in Seq(X) /\ Len(<<x>> \o s) = Len(s) + 1
      /\ \A i \in 1 .. Len(s) + 1 :
           (<<x>> \o s)[i] = IF i <= 1 THEN <<x>>[i] ELSE s[i - 1]
  BY <1>1, ConcatProperties, LenProperties
<1>3. Len(s) \in Nat
  BY LenProperties
<1>4. <<x>> \o s # <<>>
  BY <1>2, <1>3, EmptySeq
<1>5. Head(<<x>> \o s) = x
  BY <1>1, <1>2, <1>3, <1>4
<1>6. /\ Tail(<<x>> \o s) \in Seq(X) /\ Len(Tail(<<x>> \o s)) = Len(s)
      /\ \A i \in 1 .. Len(s) : Tail(<<x>> \o s)[i] = s[i]
  BY <1>2, <1>3, <1>4, HeadTailProperties
<1>7. Tail(<<x>> \o s) = s
  BY <1>6, SeqEqual
<1> QED
  BY <1>2, <1>4, <1>5, <1>7

LEMMA Single ==
  ASSUME NEW X, NEW x \in X
  PROVE  <<x>> \in Seq(X) /\ <<x>> # <<>> /\ Head(<<x>>) = x
OBVIOUS

LEMMA ReplacedFront ==
  ASSUME NEW X, NEW x \in X, NEW s \in Seq(X), s # <<>>
  PROVE  /\ Replaced(x, s) \in Seq(X) /\ Replaced(x, s) # <<>>
         /\ Head(Replaced(x, s)) = x /\ Tail(Replaced(x, s)) = Tail(s)
         /\ Len(Replaced(x, s)) = Len(s)
<1>1. Tail(s) \in Seq(X) /\ Len(Tail(s)) = Len(s) - 1 /\ Len(s) \in Nat
  BY HeadTailProperties, LenProperties
<1> QED
  BY <1>1, Front DEF Replaced

\* Head and tail make the sequence.
LEMMA HeadTail ==
  ASSUME NEW X, NEW s \in Seq(X), s # <<>>
  PROVE  /\ Head(s) \in X /\ Tail(s) \in Seq(X) /\ Replaced(Head(s), s) = s
         /\ Len(Tail(s)) = Len(s) - 1 /\ Len(s) \in Nat \ {0}
<1>1. /\ Head(s) \in X /\ Tail(s) \in Seq(X) /\ Len(Tail(s)) = Len(s) - 1
      /\ \A i \in 1 .. Len(Tail(s)) : Tail(s)[i] = s[i + 1]
      /\ Len(s) \in Nat \ {0}
  BY HeadTailProperties, EmptySeq
<1>2. /\ <<Head(s)>> \in Seq(X) /\ Len(<<Head(s)>>) = 1
      /\ <<Head(s)>>[1] = s[1]
  BY <1>1
<1>3. /\ <<Head(s)>> \o Tail(s) \in Seq(X) /\ Len(<<Head(s)>> \o Tail(s)) = Len(s)
      /\ \A i \in 1 .. Len(s) :
           (<<Head(s)>> \o Tail(s))[i] = IF i <= 1 THEN <<Head(s)>>[i] ELSE Tail(s)[i - 1]
  BY <1>1, <1>2, ConcatProperties
<1>4. \A i \in 1 .. Len(s) : (<<Head(s)>> \o Tail(s))[i] = s[i]
  BY <1>1, <1>2, <1>3
<1>5. <<Head(s)>> \o Tail(s) = s
  BY <1>3, <1>4, SeqEqual
<1> QED
  BY <1>1, <1>5 DEF Replaced

LEMMA PoppedKeeps ==
  ASSUME NEW X, NEW s \in Seq(X), s # <<>>
  PROVE  /\ Popped(s) \in Seq(X) /\ Popped(s) # <<>>
         /\ Len(s) > 1 => Popped(s) = Tail(s)
<1>1. Tail(s) \in Seq(X) /\ Len(Tail(s)) = Len(s) - 1 /\ Len(s) \in Nat
  BY HeadTail
<1>2. Len(s) > 1 => Tail(s) # <<>>
  <2>1. Tail(s) = <<>> => Len(Tail(s)) = 0
    BY EmptySeq
  <2> QED
    BY <1>1, <2>1
<1>3. CASE Len(s) > 1
  BY <1>1, <1>2, <1>3 DEF Popped
<1>4. CASE ~(Len(s) > 1)
  BY <1>4 DEF Popped
<1> QED
  BY <1>3, <1>4

-----------------------------------------------------------------------------
(* What keeps a chain safe.                                                *)

LEMMA ConfType ==
  ASSUME NEW h \in Seq(Entries), NEW w \in Seq(Subjects), NEW t \in Seq(Texts)
  PROVE  /\ Conf(h, w, t) \in Confs
         /\ Conf(h, w, t).handlers = h /\ Conf(h, w, t).work = w /\ Conf(h, w, t).writer = t
  BY DEF Conf, Confs

\* What a safe top handler finds.
LEMMA SafeOwns ==
  ASSUME NEW h \in Seq(Entries), NEW w \in Seq(Subjects), NEW t \in Seq(Texts),
         Safe(h, w, t)
  PROVE  /\ h # <<>>
         /\ Head(h).fn = "frob" =>
              w # <<>> /\ Head(w) = Subject("frob", Head(h).of) /\ Len(h) > 1
         /\ Head(h).fn = "unveil" => w # <<>> /\ Head(w) = Subject("level", Head(h).of)
         /\ Head(h).fn \in {"newpass", "confirm"} =>
              w # <<>> /\ Head(w) = Subject("persona", Head(h).of)
         /\ Head(h).fn = "write" => t # <<>> /\ Head(t).of = Head(h).of
<1>1. PICK R \in SUBSET Confs : Sound(R) /\ Conf(h, w, t) \in R
  BY DEF Safe
<1> QED
  BY <1>1, ConfType DEF Sound, Owns

\* A handler that brings nothing back, with its own subject if it has one.
LEMMA SafeLast ==
  ASSUME NEW h \in Seq(Entries), NEW w \in Seq(Subjects), NEW t \in Seq(Texts),
         h # <<>>, Head(h).fn \notin {"frob", "write"},
         Head(h).fn = "unveil" => w # <<>> /\ Head(w) = Subject("level", Head(h).of),
         Head(h).fn \in {"newpass", "confirm"} =>
           w # <<>> /\ Head(w) = Subject("persona", Head(h).of)
  PROVE  Safe(h, w, t)
<1>1. {Conf(h, w, t)} \in SUBSET Confs
  BY ConfType
<1>2. Sound({Conf(h, w, t)})
  BY ConfType DEF Sound, Owns
<1> QED
  BY <1>1, <1>2 DEF Safe

\* A frob on top of whatever was safe, and its end.
LEMMA SafeFrob ==
  ASSUME NEW h \in Seq(Entries), NEW w \in Seq(Subjects), NEW t \in Seq(Texts),
         Safe(h, w, t), NEW k \in Nat
  PROVE  Safe(<<Handler("frob", k)>> \o h, <<Subject("frob", k)>> \o w, t)
<1> DEFINE h1 == <<Handler("frob", k)>> \o h
           w1 == <<Subject("frob", k)>> \o w
           c == Conf(h1, w1, t)
<1>1. PICK R \in SUBSET Confs : Sound(R) /\ Conf(h, w, t) \in R
  BY DEF Safe
<1>2. h # <<>>
  BY SafeOwns
<1>3. Handler("frob", k) \in Entries /\ Subject("frob", k) \in Subjects
      /\ Handler("frob", k).fn = "frob" /\ Handler("frob", k).of = k
  BY DEF Handler, Subject, Entries, Subjects, Functions
<1>4. /\ h1 \in Seq(Entries) /\ h1 # <<>> /\ Head(h1) = Handler("frob", k)
      /\ Tail(h1) = h /\ Len(h1) > 1
  <2>1. Len(h) \in Nat \ {0}
    BY <1>2, EmptySeq
  <2> QED
    BY <1>3, <2>1, Front
<1>5. /\ w1 \in Seq(Subjects) /\ w1 # <<>> /\ Head(w1) = Subject("frob", k) /\ Tail(w1) = w
  BY <1>3, Front
<1> HIDE DEF h1, w1
<1>6. c \in Confs /\ c.handlers = h1 /\ c.work = w1 /\ c.writer = t
  BY <1>4, <1>5, ConfType
<1> HIDE DEF c
<1>7. Sound(R \cup {c})
  <2> SUFFICES ASSUME NEW d \in R \cup {c}
               PROVE  /\ d.handlers # <<>>
                      /\ Head(d.handlers).fn = "frob" =>
                           /\ Owns(d, "frob") /\ Len(d.handlers) > 1
                           /\ Conf(Tail(d.handlers), Tail(d.work), d.writer) \in R \cup {c}
                      /\ Head(d.handlers).fn = "write" =>
                           /\ d.writer # <<>> /\ Head(d.writer).of = Head(d.handlers).of
                           /\ Conf(Replaced(Head(d.writer).old, d.handlers), d.work, Tail(d.writer)) \in R \cup {c}
                      /\ Head(d.handlers).fn = "unveil" => Owns(d, "level")
                      /\ Head(d.handlers).fn \in {"newpass", "confirm"} => Owns(d, "persona")
    BY DEF Sound
  <2>1. CASE d \in R
    BY <1>1, <2>1 DEF Sound
  <2>2. CASE d = c
    BY <1>1, <1>3, <1>4, <1>5, <1>6, <2>2 DEF Owns
  <2> QED
    BY <2>1, <2>2
<1> QED
  BY <1>1, <1>6, <1>7 DEF Safe, c, h1, w1

LEMMA SafeUnfrob ==
  ASSUME NEW h \in Seq(Entries), NEW w \in Seq(Subjects), NEW t \in Seq(Texts),
         Safe(h, w, t), Head(h).fn = "frob"
  PROVE  Safe(Popped(h), Tail(w), t)
<1>1. PICK R \in SUBSET Confs : Sound(R) /\ Conf(h, w, t) \in R
  BY DEF Safe
<1>2. h # <<>> /\ Len(h) > 1
  BY SafeOwns
<1>3. Popped(h) = Tail(h)
  BY <1>2, PoppedKeeps
<1>4. Conf(Tail(h), Tail(w), t) \in R
  BY <1>1, ConfType DEF Sound
<1> QED
  BY <1>1, <1>3, <1>4 DEF Safe

\* A writer in the place of whatever was safe, and its end.
LEMMA SafeWriter ==
  ASSUME NEW h \in Seq(Entries), NEW w \in Seq(Subjects), NEW t \in Seq(Texts),
         Safe(h, w, t), NEW k \in Nat
  PROVE  Safe(Replaced(Handler("write", k), h), w, <<[of |-> k, old |-> Head(h)]>> \o t)
<1> DEFINE h1 == Replaced(Handler("write", k), h)
           x == [of |-> k, old |-> Head(h)]
           t1 == <<x>> \o t
           c == Conf(h1, w, t1)
<1>1. PICK R \in SUBSET Confs : Sound(R) /\ Conf(h, w, t) \in R
  BY DEF Safe
<1>2. h # <<>>
  BY SafeOwns
<1>3. Handler("write", k) \in Entries /\ Handler("write", k).fn = "write"
      /\ Handler("write", k).of = k
  BY DEF Handler, Entries, Functions
<1>4. x \in Texts /\ x.of = k /\ x.old = Head(h)
  BY <1>2, HeadTail DEF Texts
<1>5. /\ h1 \in Seq(Entries) /\ h1 # <<>> /\ Head(h1) = Handler("write", k)
      /\ Tail(h1) = Tail(h)
  BY <1>2, <1>3, ReplacedFront
<1> HIDE DEF x
<1>6. t1 \in Seq(Texts) /\ t1 # <<>> /\ Head(t1) = x /\ Tail(t1) = t
  BY <1>4, Front
<1>7. Replaced(Head(h), h1) = h
  BY <1>2, <1>5, HeadTail DEF Replaced
<1> HIDE DEF h1, t1
<1>8. c \in Confs /\ c.handlers = h1 /\ c.work = w /\ c.writer = t1
  BY <1>5, <1>6, ConfType
<1> HIDE DEF c
<1>9. Sound(R \cup {c})
  <2> SUFFICES ASSUME NEW d \in R \cup {c}
               PROVE  /\ d.handlers # <<>>
                      /\ Head(d.handlers).fn = "frob" =>
                           /\ Owns(d, "frob") /\ Len(d.handlers) > 1
                           /\ Conf(Tail(d.handlers), Tail(d.work), d.writer) \in R \cup {c}
                      /\ Head(d.handlers).fn = "write" =>
                           /\ d.writer # <<>> /\ Head(d.writer).of = Head(d.handlers).of
                           /\ Conf(Replaced(Head(d.writer).old, d.handlers), d.work, Tail(d.writer)) \in R \cup {c}
                      /\ Head(d.handlers).fn = "unveil" => Owns(d, "level")
                      /\ Head(d.handlers).fn \in {"newpass", "confirm"} => Owns(d, "persona")
    BY DEF Sound
  <2>1. CASE d \in R
    BY <1>1, <2>1 DEF Sound
  <2>2. CASE d = c
    BY <1>1, <1>3, <1>4, <1>5, <1>6, <1>7, <1>8, <2>2
  <2> QED
    BY <2>1, <2>2
<1> QED
  BY <1>1, <1>8, <1>9 DEF Safe, c, h1, t1, x

LEMMA SafeUnwriter ==
  ASSUME NEW h \in Seq(Entries), NEW w \in Seq(Subjects), NEW t \in Seq(Texts),
         Safe(h, w, t), Head(h).fn = "write"
  PROVE  Safe(Replaced(Head(t).old, h), w, Tail(t))
<1>1. PICK R \in SUBSET Confs : Sound(R) /\ Conf(h, w, t) \in R
  BY DEF Safe
<1>2. Conf(Replaced(Head(t).old, h), w, Tail(t)) \in R
  BY <1>1, ConfType DEF Sound
<1> QED
  BY <1>1, <1>2 DEF Safe

-----------------------------------------------------------------------------
(* The invariant: whoever is in the game has a safe chain.                 *)

Chains == \A s \in PlayerSlots : iamon[s] => Safe(handlers[s], work[s], writer[s])

TalkInv ==
  /\ TypesOK
  /\ \A s \in quitting : ~iamon[s]
  /\ Chains

LEMMA InitTalk == InitSlots => TalkInv
BY DEF InitSlots, TalkInv, TypesOK, Chains

\* A step that gives one slot the stack h, the work w and the writers t.
LEMMA OneSlot ==
  ASSUME TalkInv, NEW s \in PlayerSlots,
         NEW h \in Seq(Entries), NEW w \in Seq(Subjects), NEW t \in Seq(Texts),
         handlers' = [handlers EXCEPT ![s] = h], work' = [work EXCEPT ![s] = w],
         writer' = [writer EXCEPT ![s] = t], UNCHANGED <<iamon, quitting>>,
         iamon[s] => Safe(h, w, t)
  PROVE  TalkInv'
<1>1. TypesOK'
  BY DEF TalkInv, TypesOK
<1>2. \A r \in quitting' : ~iamon'[r]
  BY DEF TalkInv
<1>3. ASSUME NEW r \in PlayerSlots, iamon'[r]
      PROVE  Safe(handlers'[r], work'[r], writer'[r])
  <2>1. CASE r = s
    <3>1. handlers'[r] = h /\ work'[r] = w /\ writer'[r] = t
      BY <2>1 DEF TalkInv, TypesOK
    <3> QED
      BY <1>3, <2>1, <3>1
  <2>2. CASE r # s
    <3>1. handlers'[r] = handlers[r] /\ work'[r] = work[r] /\ writer'[r] = writer[r]
      BY <2>2 DEF TalkInv, TypesOK
    <3> QED
      BY <1>3, <3>1 DEF TalkInv, Chains
  <2> QED
    BY <2>1, <2>2
<1> QED
  BY <1>1, <1>2, <1>3 DEF TalkInv, Chains

LEMMA Same == \A s \in PlayerSlots : TypesOK =>
  /\ work = [work EXCEPT ![s] = work[s]]
  /\ writer = [writer EXCEPT ![s] = writer[s]]
BY DEF TypesOK

\* What is known of a player in the game.
LEMMA InTheGame ==
  ASSUME TalkInv, NEW s \in PlayerSlots, iamon[s]
  PROVE  /\ handlers[s] \in Seq(Entries) /\ handlers[s] # <<>>
         /\ work[s] \in Seq(Subjects) /\ writer[s] \in Seq(Texts)
         /\ Safe(handlers[s], work[s], writer[s])
         /\ Top(s) \in Entries
<1>1. /\ handlers[s] \in Seq(Entries) /\ work[s] \in Seq(Subjects) /\ writer[s] \in Seq(Texts)
      /\ Safe(handlers[s], work[s], writer[s])
  BY DEF TalkInv, TypesOK, Chains
<1>2. handlers[s] # <<>>
  BY <1>1, SafeOwns
<1> QED
  BY <1>1, <1>2, HeadTail DEF Top

LEMMA TalksNat == \A s \in PlayerSlots : \A k \in Fresh(s) : k \in Nat
BY SlotsAssumption DEF Fresh, Forgotten, Talks

-----------------------------------------------------------------------------
(* Conversations.                                                          *)

\* A handler without a subject of its own, on top or in the place of the top.
LEMMA PlainHandler ==
  ASSUME TalkInv, NEW s \in PlayerSlots, iamon[s],
         NEW f \in {"login", "command", "becom", "oldpass", "page"},
         NEW h \in Seq(Entries), h # <<>>, Head(h) = Handler(f, 0),
         Hand(s, h), UNCHANGED <<iamon, quitting, work, writer>>
  PROVE  TalkInv'
<1>1. work[s] \in Seq(Subjects) /\ writer[s] \in Seq(Texts)
  BY InTheGame
<1>2. Safe(h, work[s], writer[s])
  BY <1>1, SafeLast DEF Handler
<1>3. work = [work EXCEPT ![s] = work[s]] /\ writer = [writer EXCEPT ![s] = writer[s]]
  BY Same DEF TalkInv
<1> QED
  BY <1>1, <1>2, <1>3, OneSlot DEF Hand

LEMMA HandlerType ==
  /\ \A f \in Functions, k \in Nat : Handler(f, k) \in Entries
  /\ \A f, k : Handler(f, k).fn = f /\ Handler(f, k).of = k
BY DEF Handler, Entries

\* get_command() on a stack that is not empty.
LEMMA CommandFront ==
  ASSUME NEW h \in Seq(Entries), h # <<>>
  PROVE  /\ GetCommand(h) \in Seq(Entries) /\ GetCommand(h) # <<>>
         /\ Head(GetCommand(h)) = Handler("command", 0)
<1>1. Handler("command", 0) \in Entries
  BY HandlerType DEF Functions
<1> QED
  BY <1>1, ReplacedFront DEF GetCommand

LEMMA FrobComTalk ==
  ASSUME TalkInv, NEW s \in PlayerSlots, FrobCom(s)
  PROVE  TalkInv'
<1>1. iamon[s]
  BY DEF FrobCom, Ordered
<1>2. PICK k \in Fresh(s) :
        /\ Hand(s, Pushed(Handler("frob", k), handlers[s]))
        /\ Work(s, <<Subject("frob", k)>> \o work[s])
  BY DEF FrobCom
<1>3. k \in Nat
  BY TalksNat
<1>4. Safe(<<Handler("frob", k)>> \o handlers[s], <<Subject("frob", k)>> \o work[s], writer[s])
  BY <1>1, <1>3, InTheGame, SafeFrob
<1>5. /\ <<Handler("frob", k)>> \o handlers[s] \in Seq(Entries)
      /\ <<Subject("frob", k)>> \o work[s] \in Seq(Subjects)
  <2>1. Handler("frob", k) \in Entries /\ Subject("frob", k) \in Subjects
    BY <1>3 DEF Handler, Subject, Entries, Subjects, Functions
  <2> QED
    BY <1>1, <2>1, InTheGame, Front
<1>6. UNCHANGED <<iamon, quitting, writer>>
  BY DEF FrobCom, Kept
<1>7. writer = [writer EXCEPT ![s] = writer[s]] /\ writer[s] \in Seq(Texts)
  BY <1>1, Same, InTheGame DEF TalkInv
<1> QED
  BY <1>2, <1>4, <1>5, <1>6, <1>7, OneSlot DEF Hand, Work, Pushed

LEMMA FrobEndsTalk ==
  ASSUME TalkInv, NEW s \in PlayerSlots, FrobEnds(s)
  PROVE  TalkInv'
<1>1. iamon[s] /\ Head(handlers[s]).fn = "frob"
  BY DEF FrobEnds, Typing, Top
<1>2. Hand(s, Popped(handlers[s])) /\ Work(s, Tail(work[s])) /\ UNCHANGED <<iamon, quitting, writer>>
  BY DEF FrobEnds, Kept
<1>3. /\ handlers[s] \in Seq(Entries) /\ handlers[s] # <<>>
      /\ work[s] \in Seq(Subjects) /\ writer[s] \in Seq(Texts)
      /\ Safe(handlers[s], work[s], writer[s])
  BY <1>1, InTheGame
<1>4. Safe(Popped(handlers[s]), Tail(work[s]), writer[s])
  BY <1>1, <1>3, SafeUnfrob
<1>5. Popped(handlers[s]) \in Seq(Entries) /\ Tail(work[s]) \in Seq(Subjects)
  <2>1. work[s] # <<>>
    BY <1>1, <1>3, SafeOwns
  <2> QED
    BY <1>3, <2>1, PoppedKeeps, HeadTail
<1>6. writer = [writer EXCEPT ![s] = writer[s]]
  BY Same DEF TalkInv
<1> QED
  BY <1>2, <1>3, <1>4, <1>5, <1>6, OneSlot DEF Hand, Work

\* UNVEIL and the question for a new password put their subject over the work.
LEMMA NewSubject ==
  ASSUME TalkInv, NEW s \in PlayerSlots, iamon[s], NEW k \in Nat,
         NEW h \in Seq(Entries), h # <<>>,
         \/ Head(h) = Handler("unveil", k) /\ Work(s, <<Subject("level", k)>>)
         \/ Head(h) = Handler("newpass", k) /\ Work(s, <<Subject("persona", k)>>),
         Hand(s, h), UNCHANGED <<iamon, quitting, writer>>
  PROVE  TalkInv'
<1>1. writer[s] \in Seq(Texts) /\ writer = [writer EXCEPT ![s] = writer[s]]
  BY InTheGame, Same DEF TalkInv
<1>2. CASE Head(h) = Handler("unveil", k) /\ Work(s, <<Subject("level", k)>>)
  <2>1. <<Subject("level", k)>> \in Seq(Subjects) /\ <<Subject("level", k)>> # <<>>
        /\ Head(<<Subject("level", k)>>) = Subject("level", k)
    <3>1. Subject("level", k) \in Subjects
      BY DEF Subject, Subjects
    <3> QED
      BY <3>1, Single
  <2>2. Safe(h, <<Subject("level", k)>>, writer[s])
    <3>1. Head(h).fn = "unveil" /\ Head(h).of = k
      BY <1>2 DEF Handler
    <3> QED
      BY <1>1, <2>1, <3>1, SafeLast
  <2> QED
    BY <1>1, <1>2, <2>1, <2>2, OneSlot DEF Hand, Work
<1>3. CASE Head(h) = Handler("newpass", k) /\ Work(s, <<Subject("persona", k)>>)
  <2>1. <<Subject("persona", k)>> \in Seq(Subjects) /\ <<Subject("persona", k)>> # <<>>
        /\ Head(<<Subject("persona", k)>>) = Subject("persona", k)
    <3>1. Subject("persona", k) \in Subjects
      BY DEF Subject, Subjects
    <3> QED
      BY <3>1, Single
  <2>2. Safe(h, <<Subject("persona", k)>>, writer[s])
    <3>1. Head(h).fn = "newpass" /\ Head(h).of = k
      BY <1>3 DEF Handler
    <3> QED
      BY <1>1, <2>1, <3>1, SafeLast
  <2> QED
    BY <1>1, <1>3, <2>1, <2>2, OneSlot DEF Hand, Work
<1> QED
  BY <1>2, <1>3

LEMMA UnveilComTalk ==
  ASSUME TalkInv, NEW s \in PlayerSlots, UnveilCom(s)
  PROVE  TalkInv'
<1>1. iamon[s] /\ UNCHANGED <<iamon, quitting, writer>>
  BY DEF UnveilCom, Ordered, Kept
<1>2. PICK k \in Fresh(s) :
        /\ Hand(s, Pushed(Handler("unveil", k), handlers[s]))
        /\ Work(s, <<Subject("level", k)>>)
  BY DEF UnveilCom
<1>3. k \in Nat /\ Handler("unveil", k) \in Entries
  BY TalksNat, HandlerType DEF Functions
<1>4. /\ Pushed(Handler("unveil", k), handlers[s]) \in Seq(Entries)
      /\ Pushed(Handler("unveil", k), handlers[s]) # <<>>
      /\ Head(Pushed(Handler("unveil", k), handlers[s])) = Handler("unveil", k)
  BY <1>1, <1>3, InTheGame, Front DEF Pushed
<1> QED
  BY <1>1, <1>2, <1>3, <1>4, NewSubject

LEMMA AskNewTalk ==
  ASSUME TalkInv, NEW s \in PlayerSlots, iamon[s], AskNew(s),
         UNCHANGED <<iamon, quitting, writer>>
  PROVE  TalkInv'
<1>1. PICK k \in Fresh(s) :
        /\ Hand(s, Replaced(Handler("newpass", k), handlers[s]))
        /\ Work(s, <<Subject("persona", k)>>)
  BY DEF AskNew
<1>2. k \in Nat /\ Handler("newpass", k) \in Entries
  BY TalksNat, HandlerType DEF Functions
<1>3. /\ Replaced(Handler("newpass", k), handlers[s]) \in Seq(Entries)
      /\ Replaced(Handler("newpass", k), handlers[s]) # <<>>
      /\ Head(Replaced(Handler("newpass", k), handlers[s])) = Handler("newpass", k)
  BY <1>2, InTheGame, ReplacedFront
<1> QED
  BY <1>1, <1>2, <1>3, NewSubject

\* Handlers that leave work and writer alone: the end of UNVEIL and of BECOME, BECOME,
\* the old password, HELP and its last page.
LEMMA PlainTalk ==
  ASSUME TalkInv, NEW s \in PlayerSlots,
         \/ UnveilEnds(s) \/ Becom(s) \/ BecomEnds(s) \/ HelpCom(s) \/ LastPage(s)
  PROVE  TalkInv'
<1>1. iamon[s] /\ UNCHANGED <<iamon, quitting, work, writer>>
  BY DEF UnveilEnds, Becom, BecomEnds, HelpCom, LastPage, Typing, Ordered, Typed, Kept
<1>2. handlers[s] \in Seq(Entries) /\ handlers[s] # <<>>
  BY <1>1, InTheGame
<1>3. CASE UnveilEnds(s) \/ BecomEnds(s)
  <2>1. Hand(s, GetCommand(Popped(handlers[s])))
    BY <1>3 DEF UnveilEnds, BecomEnds
  <2>2. Popped(handlers[s]) \in Seq(Entries) /\ Popped(handlers[s]) # <<>>
    BY <1>2, PoppedKeeps
  <2> QED
    BY <1>1, <2>1, <2>2, CommandFront, PlainHandler
<1>4. CASE Becom(s)
  <2>1. Hand(s, Pushed(Handler("becom", 0), handlers[s]))
    BY <1>4 DEF Becom
  <2>2. Handler("becom", 0) \in Entries
    BY HandlerType DEF Functions
  <2>3. /\ Pushed(Handler("becom", 0), handlers[s]) \in Seq(Entries)
        /\ Pushed(Handler("becom", 0), handlers[s]) # <<>>
        /\ Head(Pushed(Handler("becom", 0), handlers[s])) = Handler("becom", 0)
    BY <1>2, <2>2, Front DEF Pushed
  <2> QED
    BY <1>1, <2>1, <2>3, PlainHandler
<1>5. CASE HelpCom(s)
  <2>1. Hand(s, Replaced(Handler("page", 0), handlers[s]))
    BY <1>5 DEF HelpCom
  <2>2. Handler("page", 0) \in Entries
    BY HandlerType DEF Functions
  <2>3. /\ Replaced(Handler("page", 0), handlers[s]) \in Seq(Entries)
        /\ Replaced(Handler("page", 0), handlers[s]) # <<>>
        /\ Head(Replaced(Handler("page", 0), handlers[s])) = Handler("page", 0)
    BY <1>2, <2>2, ReplacedFront
  <2> QED
    BY <1>1, <2>1, <2>3, PlainHandler
<1>6. CASE LastPage(s)
  <2>1. Hand(s, GetCommand(handlers[s]))
    BY <1>6 DEF LastPage
  <2> QED
    BY <1>1, <1>2, <2>1, CommandFront, PlainHandler
<1> QED
  BY <1>3, <1>4, <1>5, <1>6

LEMMA ChangePasswdTalk ==
  ASSUME TalkInv, NEW s \in PlayerSlots, ChangePasswd(s) \/ AskOldPasswd(s)
  PROVE  TalkInv'
<1>1. iamon[s] /\ UNCHANGED <<iamon, quitting, writer>>
  BY DEF ChangePasswd, AskOldPasswd, Typing, Ordered, Kept
<1>2. handlers[s] \in Seq(Entries) /\ handlers[s] # <<>>
  BY <1>1, InTheGame
<1>3. CASE AskNew(s)
  BY <1>1, <1>3, AskNewTalk
<1>4. CASE Hand(s, Replaced(Handler("oldpass", 0), handlers[s])) /\ UNCHANGED work
  <2>1. Handler("oldpass", 0) \in Entries
    BY HandlerType DEF Functions
  <2>2. /\ Replaced(Handler("oldpass", 0), handlers[s]) \in Seq(Entries)
        /\ Replaced(Handler("oldpass", 0), handlers[s]) # <<>>
        /\ Head(Replaced(Handler("oldpass", 0), handlers[s])) = Handler("oldpass", 0)
    BY <1>2, <2>1, ReplacedFront
  <2> QED
    BY <1>1, <1>4, <2>2, PlainHandler
<1>5. CASE Hand(s, GetCommand(handlers[s])) /\ UNCHANGED work
  BY <1>1, <1>2, <1>5, CommandFront, PlainHandler
<1> QED
  BY <1>3, <1>4, <1>5 DEF ChangePasswd, AskOldPasswd

LEMMA AskNewPasswdTalk ==
  ASSUME TalkInv, NEW s \in PlayerSlots, AskNewPasswd(s)
  PROVE  TalkInv'
<1> DEFINE c == Handler("confirm", Top(s).of)
           h == Replaced(c, handlers[s])
<1>1. /\ iamon[s] /\ Top(s).fn = "newpass" /\ Hand(s, h)
      /\ UNCHANGED <<iamon, quitting, work, writer>>
  BY DEF AskNewPasswd, Typing, Kept
<1>2. /\ handlers[s] \in Seq(Entries) /\ handlers[s] # <<>> /\ Top(s) \in Entries
      /\ work[s] \in Seq(Subjects) /\ writer[s] \in Seq(Texts)
      /\ Safe(handlers[s], work[s], writer[s])
  BY <1>1, InTheGame
<1>3. work[s] # <<>> /\ Head(work[s]) = Subject("persona", Top(s).of)
  BY <1>1, <1>2, SafeOwns DEF Top
<1>4. c \in Entries /\ c.fn = "confirm" /\ c.of = Top(s).of
  <2>1. Top(s).of \in Nat
    BY <1>2 DEF Entries
  <2> QED
    BY <2>1 DEF Handler, Entries, Functions
<1> HIDE DEF c
<1>5. h \in Seq(Entries) /\ h # <<>> /\ Head(h) = c
  BY <1>2, <1>4, ReplacedFront
<1> HIDE DEF h
<1>6. Safe(h, work[s], writer[s])
  BY <1>2, <1>3, <1>4, <1>5, SafeLast
<1>7. work = [work EXCEPT ![s] = work[s]] /\ writer = [writer EXCEPT ![s] = writer[s]]
  BY Same DEF TalkInv
<1> QED
  BY <1>1, <1>2, <1>5, <1>6, <1>7, OneSlot DEF Hand

LEMMA AskConfirmPasswdTalk ==
  ASSUME TalkInv, NEW s \in PlayerSlots, AskConfirmPasswd(s)
  PROVE  TalkInv'
<1> DEFINE h == GetCommand(handlers[s])
<1>1. /\ iamon[s] /\ Hand(s, h) /\ Work(s, <<Freed>>)
      /\ UNCHANGED <<iamon, quitting, writer>>
  BY DEF AskConfirmPasswd, Typing, Kept
<1>2. /\ h \in Seq(Entries) /\ h # <<>> /\ Head(h) = Handler("command", 0)
      /\ writer[s] \in Seq(Texts)
  BY <1>1, InTheGame, CommandFront
<1> HIDE DEF h
<1>3. <<Freed>> \in Seq(Subjects)
  <2>1. Freed \in Subjects
    BY DEF Freed, Subject, Subjects
  <2> QED
    BY <2>1, Single
<1>4. Safe(h, <<Freed>>, writer[s])
  <2>1. Head(h).fn = "command"
    BY <1>2 DEF Handler
  <2> QED
    BY <1>2, <1>3, <2>1, SafeLast
<1>5. writer = [writer EXCEPT ![s] = writer[s]]
  BY Same DEF TalkInv
<1> QED
  BY <1>1, <1>2, <1>3, <1>4, <1>5, OneSlot DEF Hand, Work

LEMMA StartWriterTalk ==
  ASSUME TalkInv, NEW s \in PlayerSlots, StartWriter(s)
  PROVE  TalkInv'
<1>1. iamon[s] /\ UNCHANGED <<iamon, quitting, work>>
  BY DEF StartWriter, Ordered, Kept
<1>2. PICK k \in Fresh(s) :
        /\ Hand(s, Replaced(Handler("write", k), handlers[s]))
        /\ writer' = [writer EXCEPT ![s] = <<[of |-> k, old |-> Top(s)]>> \o @]
  BY DEF StartWriter
<1>3. k \in Nat
  BY TalksNat
<1> DEFINE h == Replaced(Handler("write", k), handlers[s])
           x == [of |-> k, old |-> Top(s)]
           t == <<x>> \o writer[s]
<1>4. /\ handlers[s] \in Seq(Entries) /\ handlers[s] # <<>> /\ Top(s) \in Entries
      /\ work[s] \in Seq(Subjects) /\ writer[s] \in Seq(Texts)
      /\ Safe(handlers[s], work[s], writer[s])
  BY <1>1, InTheGame
<1>5. Safe(h, work[s], t)
  BY <1>3, <1>4, SafeWriter DEF Top
<1>6. h \in Seq(Entries)
  <2>1. Handler("write", k) \in Entries
    BY <1>3, HandlerType DEF Functions
  <2> QED
    BY <1>4, <2>1, ReplacedFront
<1>7. t \in Seq(Texts)
  <2>1. x \in Texts
    BY <1>3, <1>4 DEF Texts
  <2> HIDE DEF x
  <2> QED
    BY <1>4, <2>1, Front
<1>8. work = [work EXCEPT ![s] = work[s]]
  BY Same DEF TalkInv
<1>9. writer' = [writer EXCEPT ![s] = t]
  BY <1>2
<1> HIDE DEF h, t
<1> QED
  BY <1>1, <1>2, <1>4, <1>5, <1>6, <1>7, <1>8, <1>9, OneSlot DEF Hand, h

LEMMA WriterEndsTalk ==
  ASSUME TalkInv, NEW s \in PlayerSlots, WriterEnds(s)
  PROVE  TalkInv'
<1> DEFINE h == Replaced(Head(writer[s]).old, handlers[s])
           t == Tail(writer[s])
<1>1. /\ iamon[s] /\ Top(s).fn = "write" /\ Hand(s, h)
      /\ writer' = [writer EXCEPT ![s] = t]
      /\ UNCHANGED <<iamon, quitting, work>>
  BY DEF WriterEnds, Typing, Kept
<1>2. /\ handlers[s] \in Seq(Entries) /\ handlers[s] # <<>>
      /\ work[s] \in Seq(Subjects) /\ writer[s] \in Seq(Texts)
      /\ Safe(handlers[s], work[s], writer[s])
  BY <1>1, InTheGame
<1>3. writer[s] # <<>>
  BY <1>1, <1>2, SafeOwns DEF Top
<1>4. Safe(h, work[s], t)
  BY <1>1, <1>2, SafeUnwriter DEF Top
<1>5. h \in Seq(Entries) /\ t \in Seq(Texts)
  <2>1. Head(writer[s]) \in Texts /\ t \in Seq(Texts)
    BY <1>2, <1>3, HeadTail
  <2>2. Head(writer[s]).old \in Entries
    BY <2>1 DEF Texts
  <2> QED
    BY <1>2, <2>1, <2>2, ReplacedFront
<1>6. work = [work EXCEPT ![s] = work[s]]
  BY Same DEF TalkInv
<1> HIDE DEF h, t
<1> QED
  BY <1>1, <1>2, <1>4, <1>5, <1>6, OneSlot DEF Hand

-----------------------------------------------------------------------------
(* Coming and going.                                                       *)

LEMMA ArriveTalk ==
  ASSUME TalkInv, NEW s \in PlayerSlots, Arrive(s)
  PROVE  TalkInv'
<1> DEFINE h == <<Handler("login", 0)>>
<1>1. /\ handlers[s] = <<>> /\ handlers' = [handlers EXCEPT ![s] = h]
      /\ UNCHANGED <<iamon, quitting, work, writer>>
  BY DEF Arrive
<1>2. ~iamon[s]
  BY <1>1, InTheGame
<1>3. h \in Seq(Entries)
  <2>1. Handler("login", 0) \in Entries
    BY HandlerType DEF Functions
  <2> QED
    BY <2>1, Single
<1>4. /\ work = [work EXCEPT ![s] = work[s]] /\ writer = [writer EXCEPT ![s] = writer[s]]
      /\ work[s] \in Seq(Subjects) /\ writer[s] \in Seq(Texts)
  BY Same DEF TalkInv, TypesOK
<1> HIDE DEF h
<1> QED
  BY <1>1, <1>2, <1>3, <1>4, OneSlot

LEMMA EnterTalk ==
  ASSUME TalkInv, NEW s \in PlayerSlots, Enter(s)
  PROVE  TalkInv'
<1> DEFINE h == GetCommand(handlers[s])
<1>1. /\ handlers[s] # <<>> /\ handlers' = [handlers EXCEPT ![s] = h]
      /\ iamon' = [iamon EXCEPT ![s] = TRUE] /\ quitting = {}
      /\ UNCHANGED <<quitting, work, writer>>
  BY DEF Enter, Settled
<1>2. /\ handlers[s] \in Seq(Entries)
      /\ work[s] \in Seq(Subjects) /\ writer[s] \in Seq(Texts)
  BY DEF TalkInv, TypesOK
<1>3. h \in Seq(Entries) /\ h # <<>> /\ Head(h) = Handler("command", 0)
  BY <1>1, <1>2, CommandFront
<1> HIDE DEF h
<1>4. Safe(h, work[s], writer[s])
  <2>1. Head(h).fn = "command"
    BY <1>3 DEF Handler
  <2> QED
    BY <1>2, <1>3, <2>1, SafeLast
<1>5. TypesOK'
  BY <1>1, <1>3 DEF TalkInv, TypesOK
<1>6. ASSUME NEW r \in PlayerSlots, iamon'[r]
      PROVE  Safe(handlers'[r], work'[r], writer'[r])
  <2>1. CASE r = s
    BY <1>1, <1>4, <2>1 DEF TalkInv, TypesOK
  <2>2. CASE r # s
    BY <1>1, <1>6, <2>2 DEF TalkInv, TypesOK, Chains
  <2> QED
    BY <2>1, <2>2
<1>7. \A r \in quitting' : ~iamon'[r]
  BY <1>1
<1> QED
  BY <1>5, <1>6, <1>7 DEF TalkInv, Chains

LEMMA LeaveTalk ==
  ASSUME TalkInv, NEW s \in PlayerSlots, Leave(s)
  PROVE  TalkInv'
<1>1. /\ iamon' = [iamon EXCEPT ![s] = FALSE] /\ quitting' = quitting \cup {s}
      /\ UNCHANGED <<handlers, work, writer>>
  BY DEF Leave, talk
<1>2. TypesOK'
  BY <1>1 DEF TalkInv, TypesOK
<1>3. \A r \in quitting' : ~iamon'[r]
  BY <1>1 DEF TalkInv, TypesOK
<1>4. \A r \in PlayerSlots : iamon'[r] => iamon[r]
  BY <1>1 DEF TalkInv, TypesOK
<1> QED
  BY <1>1, <1>2, <1>3, <1>4 DEF TalkInv, Chains

LEMMA EndConnectionTalk ==
  ASSUME TalkInv, NEW s \in PlayerSlots, EndConnection(s)
  PROVE  TalkInv'
<1>1. /\ s \in quitting /\ handlers' = [handlers EXCEPT ![s] = <<>>]
      /\ quitting' = quitting \ {s} /\ UNCHANGED <<iamon, work, writer>>
  BY DEF EndConnection
<1>2. ~iamon[s]
  BY <1>1 DEF TalkInv
<1>3. TypesOK'
  BY <1>1 DEF TalkInv, TypesOK
<1>4. \A r \in PlayerSlots : iamon'[r] => handlers'[r] = handlers[r]
  BY <1>1, <1>2 DEF TalkInv, TypesOK
<1> QED
  BY <1>1, <1>3, <1>4 DEF TalkInv, Chains

\* Snooping, and what does nothing.
LEMMA SilentTalk ==
  ASSUME TalkInv, UNCHANGED <<iamon, quitting, talk>>
  PROVE  TalkInv'
BY DEF TalkInv, TypesOK, Chains, talk

LEMMA StepTalk == TalkInv /\ [SlotsNext]_slotVars => TalkInv'
<1> SUFFICES ASSUME TalkInv, [SlotsNext]_slotVars PROVE TalkInv'
  OBVIOUS
<1>1. ASSUME NEW s \in PlayerSlots,
             \/ Arrive(s) \/ Enter(s) \/ Leave(s) \/ EndConnection(s)
      PROVE  TalkInv'
  BY <1>1, ArriveTalk, EnterTalk, LeaveTalk, EndConnectionTalk
<1>2. ASSUME NEW s \in PlayerSlots,
             Command(s) \/ \E t \in PlayerSlots \cup {Nobody} : Snoop(s, t)
      PROVE  TalkInv'
  BY <1>2, SilentTalk DEF Command, SpecialEvents, Snoop
<1>3. ASSUME NEW s \in PlayerSlots,
             \/ FrobCom(s) \/ FrobEnds(s) \/ UnveilCom(s) \/ UnveilEnds(s)
             \/ Becom(s) \/ BecomEnds(s)
      PROVE  TalkInv'
  BY <1>3, FrobComTalk, FrobEndsTalk, UnveilComTalk, PlainTalk
<1>4. ASSUME NEW s \in PlayerSlots,
             \/ ChangePasswd(s) \/ AskOldPasswd(s) \/ AskNewPasswd(s) \/ AskConfirmPasswd(s)
             \/ HelpCom(s) \/ LastPage(s) \/ StartWriter(s) \/ WriterEnds(s)
      PROVE  TalkInv'
  BY <1>4, ChangePasswdTalk, AskNewPasswdTalk, AskConfirmPasswdTalk, PlainTalk,
     StartWriterTalk, WriterEndsTalk
<1>5. CASE TimerTick
  BY <1>5, SilentTalk DEF TimerTick, SpecialEvents
<1>6. CASE UNCHANGED slotVars
  BY <1>6, SilentTalk DEF slotVars, talk
<1> QED
  BY <1>1, <1>2, <1>3, <1>4, <1>5, <1>6 DEF SlotsNext

LEMMA TalkAlways == SlotsSpec => []TalkInv
<1> QED
  BY InitTalk, StepTalk, PTL DEF SlotsSpec

\* Whatever a player is forced to in the middle of a conversation, and however deep,
\* a frob, an UNVEIL and a question for a password read what they put into "work"
\* themselves (frob.c, commands.c, change.c).
THEOREM WorkCorrect == SlotsSpec => []WorkOwned
<1>1. TalkInv => WorkOwned
  <2> SUFFICES ASSUME TalkInv, NEW s \in PlayerSlots, iamon[s]
               PROVE  LET own(kind) == work[s] # <<>> /\ Head(work[s]) = Subject(kind, Top(s).of)
                      IN  /\ Top(s).fn = "frob" => own("frob")
                          /\ Top(s).fn = "unveil" => own("level")
                          /\ Top(s).fn \in {"newpass", "confirm"} => own("persona")
    BY DEF WorkOwned
  <2> QED
    BY InTheGame, SafeOwns DEF Top
<1> QED
  BY <1>1, TalkAlways, PTL

\* The line that goes to the writer goes to the text its handler was put there for
\* (writer.c).
THEOREM WriterCorrect == SlotsSpec => []WriterOwned
<1>1. TalkInv => WriterOwned
  <2> SUFFICES ASSUME TalkInv, NEW s \in PlayerSlots, iamon[s], Top(s).fn = "write"
               PROVE  writer[s] # <<>> /\ Head(writer[s]).of = Top(s).of
    BY DEF WriterOwned
  <2> QED
    BY InTheGame, SafeOwns DEF Top
<1> QED
  BY <1>1, TalkAlways, PTL

-----------------------------------------------------------------------------
(* Snooping: the counts.                                                   *)

\* What no list is kept of is counted for everybody, and only who is in the game
\* snoops.
SnoopInv ==
  /\ SnoopTyped
  /\ \A p \in PlayerSlots : snooped[p] = Cardinality(Snoopers(p))
  /\ \A s \in PlayerSlots : snooptarget[s] # Nobody => iamon[s]

LEMMA SlotsFinite ==
  /\ PlayerSlots \in SUBSET Int /\ Nobody \notin PlayerSlots
  /\ \A S \in SUBSET PlayerSlots : IsFiniteSet(S) /\ Cardinality(S) \in Nat
<1>1. N \in Nat
  BY SlotsAssumption
<1>2. IsFiniteSet(PlayerSlots)
  BY <1>1, FS_Interval DEF PlayerSlots
<1>3. \A S \in SUBSET PlayerSlots : IsFiniteSet(S)
  BY <1>2, FS_Subset
<1>4. \A S \in SUBSET PlayerSlots : Cardinality(S) \in Nat
  BY <1>3, FS_CardinalityType
<1> QED
  BY <1>1, <1>3, <1>4 DEF PlayerSlots, Nobody

LEMMA MaxOfNat == \A n \in Nat : Max({0, n}) = n
<1> SUFFICES ASSUME NEW n \in Nat PROVE Max({0, n}) = n
  OBVIOUS
<1>1. n \in {0, n} /\ \A y \in {0, n} : n >= y
  OBVIOUS
<1>2. Max({0, n}) \in {0, n} /\ \A y \in {0, n} : Max({0, n}) >= y
  BY <1>1 DEF Max
<1> QED
  BY <1>2

\* snoop_off() for each of Out leaves the counts right: nobody is taken from a count
\* that he was not in.
LEMMA SnoopOffCounts ==
  ASSUME SnoopInv, NEW Out \in SUBSET PlayerSlots
  PROVE  /\ TargetsWithout(Out) \in [PlayerSlots -> PlayerSlots \cup {Nobody}]
         /\ CountsWithout(Out) \in [PlayerSlots -> Nat]
         /\ \A p \in PlayerSlots :
              CountsWithout(Out)[p] =
                Cardinality({s \in PlayerSlots : TargetsWithout(Out)[s] = p})
<1>1. TargetsWithout(Out) \in [PlayerSlots -> PlayerSlots \cup {Nobody}]
  BY DEF SnoopInv, SnoopTyped, TargetsWithout
<1>2. ASSUME NEW p \in PlayerSlots
      PROVE  /\ CountsWithout(Out)[p] \in Nat
             /\ CountsWithout(Out)[p] =
                  Cardinality({s \in PlayerSlots : TargetsWithout(Out)[s] = p})
  <2> DEFINE Before == Snoopers(p)
             Gone == {s \in Out : snooptarget[s] = p}
             After == {s \in PlayerSlots : TargetsWithout(Out)[s] = p}
  <2>1. Before \in SUBSET PlayerSlots /\ Gone \in SUBSET Before
    BY DEF Snoopers
  <2>2. After = Before \ Gone
    BY SlotsFinite DEF Snoopers, TargetsWithout
  <2>3. IsFiniteSet(Before) /\ IsFiniteSet(Gone) /\ Before \cap Gone = Gone
    BY <2>1, SlotsFinite
  <2>4. Cardinality(After) = Cardinality(Before) - Cardinality(Gone)
    BY <2>2, <2>3, FS_Difference
  <2>5. Cardinality(After) \in Nat
    BY <2>1, <2>2, SlotsFinite
  <2>6. snooped[p] = Cardinality(Before)
    BY DEF SnoopInv
  <2>7. CountsWithout(Out)[p] = Max({0, snooped[p] - Cardinality(Gone)})
    BY DEF CountsWithout
  <2>8. snooped[p] - Cardinality(Gone) = Cardinality(After)
    BY <2>4, <2>6
  <2>9. CountsWithout(Out)[p] = Cardinality(After)
    BY <2>5, <2>7, <2>8, MaxOfNat
  <2> QED
    BY <2>5, <2>9
<1>3. CountsWithout(Out) \in [PlayerSlots -> Nat]
  BY <1>2 DEF CountsWithout
<1> QED
  BY <1>1, <1>2, <1>3

LEMMA InitSnoop == InitSlots => SnoopInv
<1> SUFFICES ASSUME InitSlots PROVE SnoopInv
  OBVIOUS
<1>1. \A p \in PlayerSlots : Snoopers(p) = {}
  BY SlotsFinite DEF InitSlots, Snoopers
<1> QED
  BY <1>1, FS_EmptySet DEF InitSlots, SnoopInv, SnoopTyped

\* Nobody is taken off who is not off the game's list either.
LEMMA SnoopOffSnoop ==
  ASSUME SnoopInv, NEW Out \in SUBSET PlayerSlots, SnoopOff(Out),
         \A s \in PlayerSlots : iamon[s] => iamon'[s] \/ s \in Out
  PROVE  SnoopInv'
<1>1. snooptarget' = TargetsWithout(Out) /\ snooped' = CountsWithout(Out)
  BY DEF SnoopOff
<1>2. SnoopTyped'
  BY <1>1, SnoopOffCounts DEF SnoopTyped
<1>3. \A p \in PlayerSlots : snooped'[p] = Cardinality(Snoopers(p))'
  BY <1>1, SnoopOffCounts DEF Snoopers
<1>4. \A s \in PlayerSlots : snooptarget'[s] # Nobody => iamon'[s]
  BY <1>1 DEF TargetsWithout, SnoopInv
<1> QED
  BY <1>2, <1>3, <1>4 DEF SnoopInv

\* Most steps leave snooping alone and nobody out of the game.
LEMMA SameSnoop ==
  ASSUME SnoopInv, UNCHANGED snoops, \A s \in PlayerSlots : iamon[s] => iamon'[s]
  PROVE  SnoopInv'
BY DEF SnoopInv, SnoopTyped, Snoopers, snoops

\* The new occupant snoops on nobody; with "late" nobody snoops on him.
LEMMA ArriveSnoop ==
  ASSUME Reuse = "late", TalkInv, SnoopInv, NEW s \in PlayerSlots, Arrive(s)
  PROVE  SnoopInv'
<1>1. /\ handlers[s] = <<>> /\ Snoopers(s) = {}
      /\ snooptarget' = [snooptarget EXCEPT ![s] = Nobody]
      /\ snooped' = [snooped EXCEPT ![s] = 0] /\ UNCHANGED iamon
  BY DEF Arrive
<1>2. ~iamon[s]
  BY <1>1, InTheGame
<1>3. snooptarget[s] = Nobody
  BY <1>2 DEF SnoopInv
<1>4. snooptarget' = snooptarget
  BY <1>1, <1>3 DEF SnoopInv, SnoopTyped
<1>5. snooped[s] = 0
  BY <1>1, FS_EmptySet DEF SnoopInv
<1>6. snooped' = snooped
  BY <1>1, <1>5 DEF SnoopInv, SnoopTyped
<1> QED
  BY <1>1, <1>4, <1>6, SameSnoop DEF snoops

LEMMA LeaveSnoop ==
  ASSUME TalkInv, SnoopInv, NEW s \in PlayerSlots, Leave(s)
  PROVE  SnoopInv'
<1>1. Depart(s) /\ iamon' = [iamon EXCEPT ![s] = FALSE]
  BY DEF Leave
<1>2. \A r \in PlayerSlots : iamon[r] => iamon'[r] \/ r = s
  BY <1>1 DEF TalkInv, TypesOK
<1>3. CASE iamon[s]
  <2>1. SnoopOff({s})
    BY <1>1, <1>3 DEF Depart
  <2> QED
    BY <1>2, <2>1, SnoopOffSnoop
<1>4. CASE ~iamon[s]
  <2>1. UNCHANGED snoops
    BY <1>1, <1>4 DEF Depart
  <2> QED
    BY <1>2, <1>4, <2>1, SameSnoop
<1> QED
  BY <1>3, <1>4

LEMMA SnoopSnoop ==
  ASSUME SnoopInv, NEW s \in PlayerSlots, NEW t \in PlayerSlots \cup {Nobody}, Snoop(s, t)
  PROVE  SnoopInv'
<1> DEFINE Out == IF snooptarget[s] = Nobody THEN {} ELSE {s}
<1>1. Out \in SUBSET PlayerSlots
  OBVIOUS
<1>2. iamon[s] /\ UNCHANGED iamon
  BY DEF Snoop
<1>3. CASE t = Nobody
  <2>1. SnoopOff(Out)
    BY <1>3 DEF Snoop
  <2> QED
    BY <1>1, <1>2, <2>1, SnoopOffSnoop
<1>4. CASE t # Nobody
  <2> DEFINE T == TargetsWithout(Out)
             C == CountsWithout(Out)
  <2>1. t \in PlayerSlots /\ snooptarget' = [T EXCEPT ![s] = t]
        /\ snooped' = [C EXCEPT ![t] = @ + 1]
    BY <1>4 DEF Snoop
  <2>2. /\ T \in [PlayerSlots -> PlayerSlots \cup {Nobody}] /\ C \in [PlayerSlots -> Nat]
        /\ \A p \in PlayerSlots : C[p] = Cardinality({r \in PlayerSlots : T[r] = p})
    BY <1>1, SnoopOffCounts
  <2>3. T[s] = Nobody /\ \A r \in PlayerSlots : T[r] # Nobody => iamon[r]
    BY DEF TargetsWithout, SnoopInv
  <2> HIDE DEF T, C, Out
  <2>4. SnoopTyped'
    BY <2>1, <2>2 DEF SnoopTyped
  <2>5. \A r \in PlayerSlots : snooptarget'[r] # Nobody => iamon'[r]
    BY <1>2, <2>1, <2>2, <2>3
  <2>6. ASSUME NEW p \in PlayerSlots
        PROVE  snooped'[p] = Cardinality(Snoopers(p))'
    <3> DEFINE Before == {r \in PlayerSlots : T[r] = p}
    <3>1. IsFiniteSet(Before) /\ Cardinality(Before) = C[p] /\ s \notin Before
      BY <2>2, <2>3, SlotsFinite
    <3>2. CASE p = t
      <4>1. Snoopers(p)' = Before \cup {s}
        BY <2>1, <2>2, <3>2 DEF Snoopers
      <4>2. snooped'[p] = C[p] + 1
        BY <2>1, <2>2, <3>2
      <4> QED
        BY <3>1, <4>1, <4>2, FS_AddElement
    <3>3. CASE p # t
      <4>1. Snoopers(p)' = Before
        BY <2>1, <2>2, <2>3, <3>3, SlotsFinite DEF Snoopers
      <4>2. snooped'[p] = C[p]
        BY <2>1, <2>2, <3>3
      <4> QED
        BY <3>1, <4>1, <4>2
    <3> QED
      BY <3>2, <3>3
  <2> QED
    BY <2>4, <2>5, <2>6 DEF SnoopInv
<1> QED
  BY <1>3, <1>4

LEMMA SpecialEventsSnoop ==
  ASSUME SnoopInv, NEW Who \in SUBSET PlayerSlots, NEW Private \in SUBSET PlayerSlots,
         SpecialEvents(Who, Private)
  PROVE  SnoopInv'
<1> DEFINE Out == {s \in Who : snooptarget[s] # Nobody /\ ~iamon[snooptarget[s]]} \cup Private
<1>1. Out \in SUBSET PlayerSlots /\ SnoopOff(Out) /\ UNCHANGED iamon
  BY DEF SpecialEvents
<1> HIDE DEF Out
<1> QED
  BY <1>1, SnoopOffSnoop

LEMMA StepSnoop == Reuse = "late" /\ TalkInv /\ SnoopInv /\ [SlotsNext]_slotVars => SnoopInv'
<1> SUFFICES ASSUME Reuse = "late", TalkInv, SnoopInv, [SlotsNext]_slotVars PROVE SnoopInv'
  OBVIOUS
<1>1. ASSUME NEW s \in PlayerSlots, Arrive(s) \/ Leave(s)
      PROVE  SnoopInv'
  BY <1>1, ArriveSnoop, LeaveSnoop
<1>2. ASSUME NEW s \in PlayerSlots, Enter(s) \/ EndConnection(s)
      PROVE  SnoopInv'
  <2>1. UNCHANGED snoops /\ \A r \in PlayerSlots : iamon[r] => iamon'[r]
    BY <1>2 DEF Enter, EndConnection, TalkInv, TypesOK
  <2> QED
    BY <2>1, SameSnoop
<1>3. ASSUME NEW s \in PlayerSlots, Command(s)
      PROVE  SnoopInv'
  BY <1>3, SpecialEventsSnoop DEF Command
<1>4. ASSUME NEW s \in PlayerSlots, NEW t \in PlayerSlots \cup {Nobody}, Snoop(s, t)
      PROVE  SnoopInv'
  BY <1>4, SnoopSnoop
<1>5. ASSUME NEW s \in PlayerSlots,
             \/ FrobCom(s) \/ FrobEnds(s) \/ UnveilCom(s) \/ UnveilEnds(s)
             \/ Becom(s) \/ BecomEnds(s)
             \/ ChangePasswd(s) \/ AskOldPasswd(s) \/ AskNewPasswd(s) \/ AskConfirmPasswd(s)
             \/ HelpCom(s) \/ LastPage(s) \/ StartWriter(s) \/ WriterEnds(s)
      PROVE  SnoopInv'
  <2>1. Kept
    BY <1>5 DEF FrobCom, FrobEnds, UnveilCom, UnveilEnds, Becom, BecomEnds, ChangePasswd,
       AskOldPasswd, AskNewPasswd, AskConfirmPasswd, HelpCom, LastPage, StartWriter, WriterEnds
  <2> QED
    BY <2>1, SameSnoop DEF Kept
<1>6. CASE TimerTick
  <2>1. PICK Private \in SUBSET {s \in PlayerSlots : iamon[s]} :
          SpecialEvents({s \in PlayerSlots : iamon[s]}, Private)
    BY <1>6 DEF TimerTick
  <2> QED
    BY <2>1, SpecialEventsSnoop
<1>7. CASE UNCHANGED slotVars
  BY <1>7, SameSnoop DEF slotVars, snoops
<1> QED
  BY <1>1, <1>2, <1>3, <1>4, <1>5, <1>6, <1>7 DEF SlotsNext

\* "snooped" counts those who snoop (bprintf.c), unless a slot is given away while
\* somebody still snoops on its last occupant: the run snoop_miscounted shows that
\* the code does so.
THEOREM SnoopCorrect == Reuse = "late" => (SlotsSpec => []SnoopCounted)
<1>1. SnoopInv => SnoopCounted
  <2> SUFFICES ASSUME SnoopInv, NEW p \in PlayerSlots
               PROVE  snooped[p] = Cardinality({s \in Snoopers(p) : iamon[s]})
    BY DEF SnoopCounted
  <2>1. {s \in Snoopers(p) : iamon[s]} = Snoopers(p)
    BY SlotsFinite DEF SnoopInv, Snoopers
  <2> QED
    BY <2>1 DEF SnoopInv
<1>2. Reuse = "late" /\ SlotsSpec => []SnoopInv
  <2> SUFFICES ASSUME Reuse = "late" PROVE SlotsSpec => []SnoopInv
    OBVIOUS
  <2>1. TalkInv /\ SnoopInv /\ [SlotsNext]_slotVars => SnoopInv'
    BY StepSnoop
  <2> QED
    BY <2>1, InitSnoop, TalkAlways, PTL DEF SlotsSpec
<1> QED
  BY <1>1, <1>2, PTL
=============================================================================
