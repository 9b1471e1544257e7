---------------------------- MODULE Personas_proofs ----------------------------
(***************************************************************************)
(* Theorems about Personas, for every number of slots, names and IDs.      *)
(*                                                                         *)
(* The file matters by its live records only (Live): what finduaf(),       *)
(* putuaf() and deluaf() do with blank ones is dealt with once, and so are *)
(* the ways in which records, players and what is known of them change     *)
(* (Coherent).  A handler is one or more of these changes.                 *)
(***************************************************************************)
EXTENDS Personas, SequenceTheorems, FiniteSetTheorems, WellFoundedInduction, TLAPS

-----------------------------------------------------------------------------
(* The least of a set, and sets with one element at most.                  *)

LEMMA LeastNat ==
  ASSUME NEW S \in SUBSET Nat, S # {}
  PROVE  \E x \in S : \A y \in S : x <= y
<1> DEFINE R == OpToRel(<, Nat)
<1>1. IsWellFoundedOn(R, Nat)
  BY NatLessThanWellFounded
<1>2. \A x, y \in Nat : x < y => <<x, y>> \in R
  BY DEF OpToRel
<1> HIDE DEF R
<1>3. PICK x \in S : \A y \in S : ~(<<y, x>> \in R)
  BY <1>1, WFMin
<1>4. \A y \in S : ~(y < x)
  BY <1>2, <1>3
<1> QED
  BY <1>3, <1>4

LEMMA MinIsIn ==
  ASSUME NEW S \in SUBSET Nat, S # {}
  PROVE  Min(S) \in S
BY LeastNat DEF Min

LEMMA AtMostOne ==
  ASSUME NEW S, \A x, y \in S : x = y
  PROVE  Cardinality(S) <= 1
<1>1. CASE S = {}
  BY <1>1, FS_EmptySet
<1>2. CASE S # {}
  <2>1. PICK x : S = {x}
    BY <1>2
  <2> QED
    BY <2>1, FS_Singleton
<1> QED
  BY <1>1, <1>2

-----------------------------------------------------------------------------
(* The file.                                                               *)

Rows == [name : Names \cup {NoName}, id : Ids, val : Values]
People == [name : Names, id : Ids, val : Values]

\* The records that are not blank.
Live(f) == {f[i] : i \in {j \in DOMAIN f : f[j].name # NoName}}

OneEach(f) ==
  \A i, j \in DOMAIN f : f[i].name = f[j].name /\ f[i].name # NoName => i = j

FileOK(f) == f \in Seq(Rows) /\ OneEach(f)

LEMMA Blanks == NoName \notin Names
BY PersonasAssumption

LEMMA LiveRows ==
  ASSUME NEW f, FileOK(f)
  PROVE  /\ Live(f) \subseteq People
         /\ \A r, q \in Live(f) : r.name = q.name => r = q
<1>1. \A i \in DOMAIN f : f[i] \in Rows
  BY ElementOfSeq, LenProperties DEF FileOK
<1> QED
  BY <1>1, Blanks DEF Live, FileOK, OneEach, Rows, People

LEMMA HasLive ==
  ASSUME NEW f, FileOK(f), NEW n \in Names
  PROVE  /\ Has(n, f) <=> \E r \in Live(f) : r.name = n
         /\ \A i \in Records(n, f) : f[i] \in Live(f) /\ f[i].name = n
         /\ {f[i].id : i \in Records(n, f)} = {r.id : r \in {q \in Live(f) : q.name = n}}
<1>1. \A i \in Records(n, f) : f[i] \in Live(f) /\ f[i].name = n
  BY Blanks DEF Records, Live
<1>2. \A r \in Live(f) : r.name = n => \E i \in Records(n, f) : r = f[i]
  BY DEF Live, Records
<1> QED
  BY <1>1, <1>2 DEF Has

\* Where finduaf() stops.
LEMMA FoundIs ==
  ASSUME NEW f, FileOK(f), NEW n \in Names
  PROVE  /\ Has(n, f) => Found(n, f) \in Records(n, f)
         /\ ~Has(n, f) => Found(n, f) \in Records(NoName, f) \cup {Len(f) + 1}
<1>1. DOMAIN f = 1 .. Len(f) /\ Len(f) \in Nat
  BY LenProperties DEF FileOK
<1>2. \A m : Records(m, f) \in SUBSET Nat
  BY <1>1 DEF Records
<1>3. CASE Has(n, f)
  <2>1. Found(n, f) = Min(Records(n, f)) /\ Records(n, f) # {}
    BY <1>3 DEF Found, Has
  <2> QED
    BY <1>2, <1>3, <2>1, MinIsIn
<1>4. CASE ~Has(n, f)
  <2>1. Found(n, f) = Min(Records(NoName, f) \cup {Len(f) + 1})
    BY <1>4 DEF Found, Has
  <2>2. Records(NoName, f) \cup {Len(f) + 1} \in SUBSET Nat
    BY <1>1, <1>2
  <2> QED
    BY <1>4, <2>1, <2>2, MinIsIn
<1> QED
  BY <1>3, <1>4

LEMMA GetLive ==
  ASSUME NEW f, FileOK(f), NEW n \in Names, Has(n, f)
  PROVE  GetUaf(n, f) \in Live(f) /\ GetUaf(n, f).name = n
BY FoundIs, HasLive DEF GetUaf

\* putuaf() takes the place of the record of that name, if there is one, and of no
\* other.
LEMMA PutLive ==
  ASSUME NEW f, FileOK(f), NEW p \in People
  PROVE  /\ FileOK(PutUaf(p, f))
         /\ Live(PutUaf(p, f)) = {r \in Live(f) : r.name # p.name} \cup {p}
<1> DEFINE i == Found(p.name, f)
           g == PutUaf(p, f)
<1>1. DOMAIN f = 1 .. Len(f) /\ Len(f) \in Nat /\ f \in Seq(Rows)
  BY LenProperties DEF FileOK
<1>2. p \in Rows /\ p.name \in Names /\ p.name # NoName
  BY Blanks DEF People, Rows
<1>3. i \in 1 .. Len(f) + 1
  BY <1>1, <1>2, FoundIs DEF Records
<1>4. \A j \in DOMAIN f : j # i => f[j].name # p.name
  <2>1. CASE Has(p.name, f)
    BY <1>2, <2>1, FoundIs DEF FileOK, OneEach, Records
  <2>2. CASE ~Has(p.name, f)
    BY <2>2 DEF Has, Records
  <2> QED
    BY <2>1, <2>2
<1>5. i \in DOMAIN f => f[i].name \in {p.name, NoName}
  BY <1>1, <1>2, FoundIs DEF Records
<1>6. /\ g \in Seq(Rows) /\ DOMAIN g = DOMAIN f \cup {i} /\ g[i] = p
      /\ \A j \in DOMAIN f : j # i => g[j] = f[j]
  <2>1. CASE i <= Len(f)
    <3>1. g = [f EXCEPT ![i] = p] /\ i \in 1 .. Len(f)
      BY <1>3, <2>1 DEF PutUaf
    <3> QED
      BY <1>1, <1>2, <3>1, ExceptSeq
  <2>2. CASE ~(i <= Len(f))
    <3>1. g = Append(f, p) /\ i = Len(f) + 1
      BY <1>1, <1>3, <2>2 DEF PutUaf
    <3>2. /\ g \in Seq(Rows) /\ Len(g) = Len(f) + 1 /\ g[Len(f) + 1] = p
          /\ \A j \in 1 .. Len(f) : g[j] = f[j]
      BY <1>1, <1>2, <3>1, AppendProperties
    <3>3. DOMAIN g = 1 .. Len(f) + 1
      BY <3>2, LenProperties
    <3> QED
      BY <1>1, <3>1, <3>2, <3>3
  <2> QED
    BY <2>1, <2>2
<1> HIDE DEF g, i
<1>7. OneEach(g)
  <2> SUFFICES ASSUME NEW j \in DOMAIN g, NEW k \in DOMAIN g,
                      g[j].name = g[k].name, g[j].name # NoName
               PROVE  j = k
    BY DEF OneEach
  <2>1. CASE j = i \/ k = i
    BY <1>4, <1>6, <2>1
  <2>2. CASE j # i /\ k # i
    BY <1>6, <2>2 DEF FileOK, OneEach
  <2> QED
    BY <2>1, <2>2
<1>8. ASSUME NEW r
      PROVE  r \in Live(g) <=> (r \in Live(f) /\ r.name # p.name) \/ r = p
  <2>1. ASSUME r \in Live(g) PROVE (r \in Live(f) /\ r.name # p.name) \/ r = p
    <3>1. PICK j \in DOMAIN g : g[j].name # NoName /\ r = g[j]
      BY <2>1 DEF Live
    <3>2. CASE j = i
      BY <1>6, <3>1, <3>2
    <3>3. CASE j # i
      <4>1. j \in DOMAIN f /\ g[j] = f[j]
        BY <1>6, <3>3
      <4> QED
        BY <1>4, <3>1, <3>3, <4>1 DEF Live
    <3> QED
      BY <3>2, <3>3
  <2>2. ASSUME r \in Live(f), r.name # p.name PROVE r \in Live(g)
    <3>1. PICK j \in DOMAIN f : f[j].name # NoName /\ r = f[j]
      BY <2>2 DEF Live
    <3>2. j # i
      BY <1>5, <2>2, <3>1
    <3> QED
      BY <1>6, <3>1, <3>2 DEF Live
  <2>3. p \in Live(g)
    BY <1>2, <1>6 DEF Live
  <2> QED
    BY <2>1, <2>2, <2>3
<1>9. Live(g) = {r \in Live(f) : r.name # p.name} \cup {p}
  BY <1>8
<1> QED
  BY <1>6, <1>7, <1>9 DEF g, FileOK

\* deluaf() makes the record of that name a blank one.
LEMMA DelLive ==
  ASSUME NEW f, FileOK(f), NEW n \in Names
  PROVE  /\ FileOK(DelUaf(n, f))
         /\ Live(DelUaf(n, f)) = {r \in Live(f) : r.name # n}
<1>1. CASE ~Has(n, f)
  BY <1>1, HasLive DEF DelUaf
<1>2. CASE Has(n, f)
  <2> DEFINE i == Found(n, f)
             g == DelUaf(n, f)
             x == [f[i] EXCEPT !.name = NoName]
  <2>1. i \in DOMAIN f /\ f[i].name = n
    BY <1>2, FoundIs DEF Records
  <2>2. f \in Seq(Rows) /\ f[i] \in Rows /\ DOMAIN f = 1 .. Len(f)
    BY <2>1, ElementOfSeq, LenProperties DEF FileOK
  <2>3. x \in Rows /\ x.name = NoName
    BY <2>2 DEF Rows
  <2>4. g = [f EXCEPT ![i] = x]
    BY <1>2 DEF DelUaf
  <2>5. /\ g \in Seq(Rows) /\ DOMAIN g = DOMAIN f /\ g[i] = x
        /\ \A j \in DOMAIN f : j # i => g[j] = f[j]
    BY <2>1, <2>2, <2>3, <2>4, ExceptSeq
  <2>6. \A j \in DOMAIN f : j # i => f[j].name # n
    BY <2>1, Blanks DEF FileOK, OneEach
  <2> HIDE DEF x, g, i
  <2>7. OneEach(g)
    BY <2>3, <2>5 DEF FileOK, OneEach
  <2>8. ASSUME NEW r
        PROVE  r \in Live(g) <=> r \in Live(f) /\ r.name # n
    <3>1. ASSUME r \in Live(g) PROVE r \in Live(f) /\ r.name # n
      <4>1. PICK j \in DOMAIN g : g[j].name # NoName /\ r = g[j]
        BY <3>1 DEF Live
      <4> QED
        BY <2>3, <2>5, <2>6, <4>1 DEF Live
    <3>2. ASSUME r \in Live(f), r.name # n PROVE r \in Live(g)
      <4>1. PICK j \in DOMAIN f : f[j].name # NoName /\ r = f[j]
        BY <3>2 DEF Live
      <4> QED
        BY <2>1, <2>5, <3>2, <4>1 DEF Live
    <3> QED
      BY <3>1, <3>2
  <2>9. Live(g) = {r \in Live(f) : r.name # n}
    BY <2>8
  <2> QED
    BY <2>5, <2>7, <2>9 DEF g, FileOK
<1> QED
  BY <1>1, <1>2

-----------------------------------------------------------------------------
(* Records, players and what a persona was made last.                      *)

\* L: the live records; p: the players, from their slots to their personas;
\* C: the IDs a clash has befallen; lat: what the personas were made last.  A persona
\* that no clash has befallen is in one record, and in one player, and nobody else
\* bears its name.
Apart(L, p, C) ==
  /\ \A r, q \in L : r.id = q.id /\ r.id \notin C => r = q
  /\ \A s, t \in DOMAIN p :
       s # t /\ (p[s].id = p[t].id \/ p[s].name = p[t].name) => p[s].id \in C /\ p[t].id \in C
  /\ \A s \in DOMAIN p, r \in L :
       p[s].id # r.id /\ p[s].name = r.name => p[s].id \in C /\ r.id \in C
  /\ \A s \in DOMAIN p, r \in L : p[s].id = r.id /\ p[s].name # r.name => r.id \in C

Plays(p, k) == \E s \in DOMAIN p : p[s].id = k

Current(L, p, C, lat) ==
  \A k \in Ids \ C :
    /\ \A s \in DOMAIN p : p[s].id = k => lat[k] = p[s].val
    /\ \A r \in L : r.id = k /\ ~Plays(p, k) => lat[k] = r.val
    /\ lat[k] # Gone => Plays(p, k) \/ \E r \in L : r.id = k

Coherent(L, p, C, lat) == Apart(L, p, C) /\ Current(L, p, C, lat)

LEMMA Grows ==
  ASSUME NEW L, NEW p, NEW C, NEW lat, NEW D, Coherent(L, p, C, lat), C \subseteq D
  PROVE  Coherent(L, p, D, lat)
BY DEF Coherent, Apart, Current

\* A record x is written, in the place of that of its name.
LEMMA Put ==
  ASSUME NEW L, L \subseteq People, NEW p, NEW C, NEW lat, Coherent(L, p, C, lat),
         NEW x \in People, NEW new,
         \A r \in L : r.id = x.id => r.name = x.name \/ x.id \in C,
         \A r \in L : r.name = x.name => r.id = x.id \/ r.id \in C,
         \A s \in DOMAIN p : p[s].name = x.name =>
           p[s].id = x.id \/ (p[s].id \in C /\ x.id \in C),
         \A s \in DOMAIN p : p[s].id = x.id => p[s].name = x.name \/ x.id \in C,
         x.id \notin C =>
           /\ \A s \in DOMAIN p : p[s].id = x.id => new[x.id] = p[s].val
           /\ ~Plays(p, x.id) => new[x.id] = x.val,
         \A k \in Ids \ (C \cup {x.id}) : new[k] = lat[k]
  PROVE  Coherent({r \in L : r.name # x.name} \cup {x}, p, C, new)
<1> DEFINE M == {r \in L : r.name # x.name} \cup {x}
<1>1. \A r \in M : r = x \/ (r \in L /\ r.name # x.name)
  OBVIOUS
<1>2. \A r \in L : r.id \notin C /\ r.id # x.id => r \in M
  OBVIOUS
<1>3. x \in M
  OBVIOUS
<1> HIDE DEF M
<1>4. Apart(M, p, C)
  <2>1. \A r, q \in M : r.id = q.id /\ r.id \notin C => r = q
    BY <1>1 DEF Coherent, Apart
  <2>2. \A s, t \in DOMAIN p :
          s # t /\ (p[s].id = p[t].id \/ p[s].name = p[t].name) => p[s].id \in C /\ p[t].id \in C
    BY DEF Coherent, Apart
  <2>3. \A s \in DOMAIN p, r \in M :
          p[s].id # r.id /\ p[s].name = r.name => p[s].id \in C /\ r.id \in C
    BY <1>1 DEF Coherent, Apart
  <2>4. \A s \in DOMAIN p, r \in M : p[s].id = r.id /\ p[s].name # r.name => r.id \in C
    BY <1>1 DEF Coherent, Apart
  <2> QED
    BY <2>1, <2>2, <2>3, <2>4 DEF Apart
<1>5. ASSUME NEW k \in Ids \ C
      PROVE  /\ \A s \in DOMAIN p : p[s].id = k => new[k] = p[s].val
             /\ \A r \in M : r.id = k /\ ~Plays(p, k) => new[k] = r.val
             /\ new[k] # Gone => Plays(p, k) \/ \E r \in M : r.id = k
  <2>1. CASE k = x.id
    <3>1. \A r \in M : r.id = k => r = x
      BY <1>1, <1>5, <2>1 DEF Coherent, Apart
    <3> QED
      BY <1>3, <1>5, <2>1, <3>1
  <2>2. CASE k # x.id
    <3>1. new[k] = lat[k] /\ \A r \in M : r.id = k => r \in L
      BY <1>1, <1>5, <2>2
    <3> QED
      BY <1>2, <1>5, <2>2, <3>1 DEF Coherent, Current
  <2> QED
    BY <2>1, <2>2
<1>6. Current(M, p, C, new)
  BY <1>5 DEF Current
<1> QED
  BY <1>4, <1>6 DEF Coherent, M

Without(L, n) == {r \in L : r.name # n}

\* A record is deleted: the persona is gone, unless somebody plays it.
LEMMA Deleted ==
  ASSUME NEW L, L \subseteq People, NEW p, NEW C, NEW lat, Coherent(L, p, C, lat),
         NEW n, NEW new,
         \A r, q \in L : r.name = q.name => r = q,
         \A r \in L : r.name = n /\ r.id \notin C =>
           new[r.id] = IF Plays(p, r.id) THEN lat[r.id] ELSE Gone,
         \A k \in Ids \ C : (\A r \in L : r.name = n => r.id # k) => new[k] = lat[k]
  PROVE  Coherent(Without(L, n), p, C, new)
<1> DEFINE M == {r \in L : r.name # n}
<1>1. Apart(M, p, C)
  BY DEF Coherent, Apart
<1>2. ASSUME NEW k \in Ids \ C
      PROVE  /\ \A s \in DOMAIN p : p[s].id = k => new[k] = p[s].val
             /\ \A r \in M : r.id = k /\ ~Plays(p, k) => new[k] = r.val
             /\ new[k] # Gone => Plays(p, k) \/ \E r \in M : r.id = k
  <2>1. CASE \E r \in L : r.name = n /\ r.id = k
    <3>1. PICK r \in L : r.name = n /\ r.id = k
      BY <2>1
    <3>2. \A q \in L : q.id = k => q = r
      BY <1>2, <3>1 DEF Coherent, Apart
    <3>3. \A q \in M : q.id # k
      BY <3>1, <3>2
    <3>4. new[k] = IF Plays(p, k) THEN lat[k] ELSE Gone
      BY <1>2, <3>1
    <3>5. \A s \in DOMAIN p : p[s].id = k => Plays(p, k)
      BY DEF Plays
    <3> QED
      BY <1>2, <3>3, <3>4, <3>5 DEF Coherent, Current
  <2>2. CASE ~ \E r \in L : r.name = n /\ r.id = k
    <3>1. new[k] = lat[k] /\ \A r \in L : r.id = k => r \in M
      BY <1>2, <2>2
    <3> QED
      BY <1>2, <3>1 DEF Coherent, Current
  <2> QED
    BY <2>1, <2>2
<1>3. Current(M, p, C, new)
  BY <1>2 DEF Current
<1> QED
  BY <1>1, <1>3 DEF Coherent, Without

\* Players leave: what is left of their personas is what the file holds.
LEMMA Dropped ==
  ASSUME NEW L, NEW p, NEW C, NEW lat, Coherent(L, p, C, lat), NEW Out, NEW new,
         \A k \in Ids \ C :
           IF \E s \in Out \cap DOMAIN p : p[s].id = k
           THEN \/ \E r \in L : r.id = k /\ new[k] = r.val
                \/ new[k] = Gone /\ \A r \in L : r.id # k
           ELSE new[k] = lat[k]
  PROVE  Coherent(L, [s \in DOMAIN p \ Out |-> p[s]], C, new)
<1> DEFINE q == [s \in DOMAIN p \ Out |-> p[s]]
<1>1. DOMAIN q = DOMAIN p \ Out /\ \A s \in DOMAIN q : q[s] = p[s]
  OBVIOUS
<1> HIDE DEF q
<1>2. Apart(L, q, C)
  BY <1>1 DEF Coherent, Apart
<1>3. ASSUME NEW k \in Ids \ C
      PROVE  /\ \A s \in DOMAIN q : q[s].id = k => new[k] = q[s].val
             /\ \A r \in L : r.id = k /\ ~Plays(q, k) => new[k] = r.val
             /\ new[k] # Gone => Plays(q, k) \/ \E r \in L : r.id = k
  <2>1. CASE \E s \in Out \cap DOMAIN p : p[s].id = k
    <3>1. PICK s \in Out \cap DOMAIN p : p[s].id = k
      BY <2>1
    <3>2. \A t \in DOMAIN q : q[t].id # k
      BY <1>1, <1>3, <3>1 DEF Coherent, Apart
    <3>3. \/ \E r \in L : r.id = k /\ new[k] = r.val
          \/ new[k] = Gone /\ \A r \in L : r.id # k
      BY <1>3, <2>1
    <3>4. \A r, u \in L : r.id = k /\ u.id = k => r = u
      BY <1>3 DEF Coherent, Apart
    <3> QED
      BY <3>2, <3>3, <3>4
  <2>2. CASE ~ \E s \in Out \cap DOMAIN p : p[s].id = k
    <3>1. new[k] = lat[k] /\ (Plays(q, k) <=> Plays(p, k))
      BY <1>1, <1>3, <2>2 DEF Plays
    <3> QED
      BY <1>1, <1>3, <3>1 DEF Coherent, Current
  <2> QED
    BY <2>1, <2>2
<1>4. Current(L, q, C, new)
  BY <1>3 DEF Current
<1> QED
  BY <1>2, <1>4 DEF Coherent, q

\* A player who was not in the game comes in as x.
LEMMA Seated ==
  ASSUME NEW L, NEW p, NEW C, NEW lat, Coherent(L, p, C, lat), NEW s, s \notin DOMAIN p, NEW x,
         \A t \in DOMAIN p : p[t].id = x.id \/ p[t].name = x.name => p[t].id \in C /\ x.id \in C,
         \A r \in L : r.name = x.name => r.id = x.id \/ (r.id \in C /\ x.id \in C),
         \A r \in L : r.id = x.id => r.name = x.name \/ x.id \in C,
         x.id \notin C => lat[x.id] = x.val
  PROVE  Coherent(L, [t \in DOMAIN p \cup {s} |-> IF t = s THEN x ELSE p[t]], C, lat)
<1> DEFINE q == [t \in DOMAIN p \cup {s} |-> IF t = s THEN x ELSE p[t]]
<1>1. DOMAIN q = DOMAIN p \cup {s} /\ q[s] = x /\ \A t \in DOMAIN p : q[t] = p[t]
  OBVIOUS
<1> HIDE DEF q
<1>2. Apart(L, q, C)
  <2>1. \A r, u \in L : r.id = u.id /\ r.id \notin C => r = u
    BY DEF Coherent, Apart
  <2>2. \A t, u \in DOMAIN q :
          t # u /\ (q[t].id = q[u].id \/ q[t].name = q[u].name) => q[t].id \in C /\ q[u].id \in C
    BY <1>1 DEF Coherent, Apart
  <2>3. \A t \in DOMAIN q, r \in L :
          q[t].id # r.id /\ q[t].name = r.name => q[t].id \in C /\ r.id \in C
    BY <1>1 DEF Coherent, Apart
  <2>4. \A t \in DOMAIN q, r \in L : q[t].id = r.id /\ q[t].name # r.name => r.id \in C
    BY <1>1 DEF Coherent, Apart
  <2> QED
    BY <2>1, <2>2, <2>3, <2>4 DEF Apart
<1>3. \A k : Plays(q, k) <=> Plays(p, k) \/ k = x.id
  BY <1>1 DEF Plays
<1>4. Current(L, q, C, lat)
  BY <1>1, <1>3 DEF Coherent, Current
<1> QED
  BY <1>2, <1>4 DEF Coherent, q

\* A player becomes x, with the same ID.
LEMMA Changed ==
  ASSUME NEW L, NEW p, NEW C, NEW lat, Coherent(L, p, C, lat), NEW s \in DOMAIN p, NEW x,
         x.id = p[s].id, NEW new,
         \A t \in DOMAIN p \ {s} : p[t].name = x.name => p[t].id \in C /\ x.id \in C,
         \A r \in L : r.name = x.name => r.id = x.id \/ (r.id \in C /\ x.id \in C),
         \A r \in L : r.id = x.id => r.name = x.name \/ x.id \in C,
         x.id \notin C => new[x.id] = x.val,
         \A k \in Ids \ (C \cup {x.id}) : new[k] = lat[k]
  PROVE  Coherent(L, [p EXCEPT ![s] = x], C, new)
<1> DEFINE q == [p EXCEPT ![s] = x]
<1>1. DOMAIN q = DOMAIN p /\ q[s] = x /\ \A t \in DOMAIN p \ {s} : q[t] = p[t]
  OBVIOUS
<1> HIDE DEF q
<1>2. Apart(L, q, C)
  <2>1. \A r, u \in L : r.id = u.id /\ r.id \notin C => r = u
    BY DEF Coherent, Apart
  <2>2. \A t, u \in DOMAIN q :
          t # u /\ (q[t].id = q[u].id \/ q[t].name = q[u].name) => q[t].id \in C /\ q[u].id \in C
    BY <1>1 DEF Coherent, Apart
  <2>3. \A t \in DOMAIN q, r \in L :
          q[t].id # r.id /\ q[t].name = r.name => q[t].id \in C /\ r.id \in C
    BY <1>1 DEF Coherent, Apart
  <2>4. \A t \in DOMAIN q, r \in L : q[t].id = r.id /\ q[t].name # r.name => r.id \in C
    BY <1>1 DEF Coherent, Apart
  <2> QED
    BY <2>1, <2>2, <2>3, <2>4 DEF Apart
<1>3. \A k : Plays(q, k) <=> Plays(p, k)
  BY <1>1 DEF Plays
<1>4. ASSUME NEW k \in Ids \ C
      PROVE  /\ \A t \in DOMAIN q : q[t].id = k => new[k] = q[t].val
             /\ \A r \in L : r.id = k /\ ~Plays(q, k) => new[k] = r.val
             /\ new[k] # Gone => Plays(q, k) \/ \E r \in L : r.id = k
  <2>1. CASE k = x.id
    <3>1. \A t \in DOMAIN q : q[t].id = k => t = s
      BY <1>1, <1>2, <1>4, <2>1 DEF Apart
    <3>2. Plays(q, k)
      BY <1>1, <2>1 DEF Plays
    <3> QED
      BY <1>1, <1>4, <2>1, <3>1, <3>2
  <2>2. CASE k # x.id
    <3>1. new[k] = lat[k]
      BY <1>4, <2>2
    <3> QED
      BY <1>1, <1>3, <1>4, <2>2, <3>1 DEF Coherent, Current
  <2> QED
    BY <2>1, <2>2
<1>5. Current(L, q, C, new)
  BY <1>4 DEF Current
<1> QED
  BY <1>2, <1>5 DEF Coherent, q

-----------------------------------------------------------------------------
(* The invariant.                                                          *)

Stages == {"free", "passwd", "gender", "motd", "game"}
Entries == [name : Names \cup {NoName}, id : Nat, val : Values \cup {NoValue}]

\* From the name prompt on a session has a whole persona, but for a new character's.
SessionOK(ses, c) ==
  /\ ses \in [Slots -> [stage : Stages, p : Entries]]
  /\ \A s \in Slots : ses[s].stage = "gender" => ses[s].p.name \in Names
  /\ \A s \in Slots : ses[s].stage \in {"passwd", "motd", "game"} =>
       ses[s].p \in People /\ ses[s].p.id < c

Types ==
  /\ FileOK(file) /\ \A r \in Live(file) : r.id < idCounter
  /\ idCounter \in Nat \ {0}
  /\ SessionOK(session, idCounter)
  /\ latest \in [Ids -> Values \cup {Gone}]

Seats(ses) == [s \in {t \in Slots : ses[t].stage = "game"} |-> ses[s].p]

Inv == Types /\ Coherent(Live(file), Seats(session), clashed, latest)

LEMMA Kinds ==
  /\ Ids \in SUBSET Nat /\ People \in SUBSET Entries /\ Slots \in SUBSET Nat
  /\ Blank \in Entries /\ Blank.id = 0 /\ Free \in [stage : Stages, p : Entries]
  /\ Free.stage = "free" /\ MaxId \in Nat
BY PersonasAssumption
   DEF Ids, People, Entries, Slots, Blank, Persona, Free, Copy, Stages

LEMMA SeatsAre ==
  /\ DOMAIN Seats(session) = InGame
  /\ \A s \in InGame : Seats(session)[s] = session[s].p
BY DEF Seats, InGame

LEMMA InGameType ==
  ASSUME Types, NEW s \in InGame
  PROVE  /\ s \in Slots /\ session[s].stage = "game" /\ session[s].p \in People
         /\ session[s].p.id < idCounter /\ session[s].p.name \in Names
         /\ session[s].p.id \in Ids
BY DEF Types, SessionOK, InGame, People

\* A slot becomes what the code makes of it.
LEMMA Becomes ==
  ASSUME Types, NEW s \in Slots, NEW c, NEW stage \in Stages, NEW x \in Entries,
         c \in Nat, idCounter <= c,
         stage = "gender" => x.name \in Names,
         stage \in {"passwd", "motd", "game"} => x \in People /\ x.id < c
  PROVE  LET ses == [session EXCEPT ![s] = Copy(stage, x)]
             D == DOMAIN Seats(session)
         IN  /\ SessionOK(ses, c)
             /\ Seats(ses) = IF stage = "game"
                             THEN [t \in D \cup {s} |-> IF t = s THEN x ELSE Seats(session)[t]]
                             ELSE [t \in D \ {s} |-> Seats(session)[t]]
<1> DEFINE ses == [session EXCEPT ![s] = Copy(stage, x)]
<1>1. Copy(stage, x) \in [stage : Stages, p : Entries]
      /\ Copy(stage, x).stage = stage /\ Copy(stage, x).p = x
  BY DEF Copy
<1>2. session \in [Slots -> [stage : Stages, p : Entries]]
  BY DEF Types, SessionOK
<1>3. /\ ses \in [Slots -> [stage : Stages, p : Entries]]
      /\ ses[s] = Copy(stage, x) /\ \A t \in Slots \ {s} : ses[t] = session[t]
  BY <1>1, <1>2
<1> HIDE DEF ses
<1>4. \A t \in Slots : ses[t].stage = "gender" => ses[t].p.name \in Names
  BY <1>1, <1>3 DEF Types, SessionOK
<1>5. ASSUME NEW t \in Slots, ses[t].stage \in {"passwd", "motd", "game"}
      PROVE  ses[t].p \in People /\ ses[t].p.id < c
  <2>1. CASE t = s
    BY <1>1, <1>3, <1>5, <2>1
  <2>2. CASE t # s
    <3>1. session[t].p \in People /\ session[t].p.id < idCounter
      BY <1>3, <1>5, <2>2 DEF Types, SessionOK
    <3>2. session[t].p.id \in Nat /\ idCounter \in Nat
      BY <3>1, Kinds DEF People, Types
    <3> QED
      BY <1>3, <2>2, <3>1, <3>2
  <2> QED
    BY <2>1, <2>2
<1>6. SessionOK(ses, c)
  BY <1>3, <1>4, <1>5 DEF SessionOK
<1>7. ASSUME stage = "game"
      PROVE  Seats(ses) = [t \in InGame \cup {s} |-> IF t = s THEN x ELSE Seats(session)[t]]
  <2>1. {t \in Slots : ses[t].stage = "game"} = InGame \cup {s}
    BY <1>1, <1>3, <1>7 DEF InGame
  <2>2. \A t \in InGame \cup {s} : ses[t].p = IF t = s THEN x ELSE Seats(session)[t]
    BY <1>1, <1>3, SeatsAre DEF InGame
  <2> QED
    BY <2>1, <2>2 DEF Seats
<1>8. ASSUME stage # "game"
      PROVE  Seats(ses) = [t \in InGame \ {s} |-> Seats(session)[t]]
  <2>1. {t \in Slots : ses[t].stage = "game"} = InGame \ {s}
    BY <1>1, <1>3, <1>8 DEF InGame
  <2>2. \A t \in InGame \ {s} : ses[t].p = Seats(session)[t]
    BY <1>1, <1>3, SeatsAre DEF InGame
  <2> QED
    BY <2>1, <2>2 DEF Seats
<1> QED
  BY <1>6, <1>7, <1>8, SeatsAre DEF ses

\* Outside the game nobody's seat changes.
LEMMA Outside ==
  ASSUME Types, NEW s \in Slots \ InGame, NEW c, NEW stage \in Stages \ {"game"},
         NEW x \in Entries, c \in Nat, idCounter <= c,
         stage = "gender" => x.name \in Names,
         stage \in {"passwd", "motd"} => x \in People /\ x.id < c
  PROVE  LET ses == [session EXCEPT ![s] = Copy(stage, x)]
         IN  SessionOK(ses, c) /\ Seats(ses) = Seats(session)
<1> DEFINE ses == [session EXCEPT ![s] = Copy(stage, x)]
           D == DOMAIN Seats(session)
<1>1. SessionOK(ses, c) /\ Seats(ses) = [t \in D \ {s} |-> Seats(session)[t]]
  <2>1. s \in Slots /\ stage \in Stages /\ stage # "game"
    OBVIOUS
  <2>2. stage \in {"passwd", "motd", "game"} => x \in People /\ x.id < c
    BY <2>1
  <2>3. /\ SessionOK([session EXCEPT ![s] = Copy(stage, x)], c)
        /\ Seats([session EXCEPT ![s] = Copy(stage, x)]) =
             IF stage = "game"
             THEN [t \in D \cup {s} |-> IF t = s THEN x ELSE Seats(session)[t]]
             ELSE [t \in D \ {s} |-> Seats(session)[t]]
    BY <2>1, <2>2, Becomes
  <2> QED
    BY <2>1, <2>3
<1>2. DOMAIN Seats(session) \ {s} = DOMAIN Seats(session)
  BY SeatsAre
<1>3. [t \in DOMAIN Seats(session) |-> Seats(session)[t]] = Seats(session)
  BY DEF Seats
<1> QED
  BY <1>1, <1>2, <1>3

\* Those who bear a name.
LEMMA BearersAre ==
  ASSUME Types, NEW n \in Names
  PROVE  /\ \A s \in InGame : session[s].p.name = n => session[s].p.id \in Bearers(n)
         /\ \A r \in Live(file) : r.name = n => r.id \in Bearers(n)
         /\ \A k \in Bearers(n) : \/ \E s \in InGame : session[s].p.name = n /\ session[s].p.id = k
                                  \/ \E r \in Live(file) : r.name = n /\ r.id = k
<1>1. {file[i].id : i \in Records(n, file)} = {r.id : r \in {q \in Live(file) : q.name = n}}
  BY HasLive DEF Types
<1>2. Bearers(n) = {session[s].p.id : s \in Named(n)}
                   \cup {r.id : r \in {q \in Live(file) : q.name = n}}
  BY <1>1 DEF Bearers
<1> QED
  BY <1>2 DEF Named

LEMMA AsInFileIs ==
  ASSUME Types, NEW Out, NEW f, FileOK(f)
  PROVE  /\ AsInFile(Out, f) \in [Ids -> Values \cup {Gone}]
         /\ \A k \in Ids \ Out : AsInFile(Out, f)[k] = latest[k]
         /\ \A k \in Ids \cap Out :
              \/ \E r \in Live(f) : r.id = k /\ AsInFile(Out, f)[k] = r.val
              \/ AsInFile(Out, f)[k] = Gone /\ \A r \in Live(f) : r.id # k
<1> DEFINE here(k) == {i \in DOMAIN f : f[i].name # NoName /\ f[i].id = k}
           pick(k) == CHOOSE i \in DOMAIN f : f[i].name # NoName /\ f[i].id = k
<1>1. \A k : here(k) # {} => f[pick(k)] \in Live(f) /\ f[pick(k)].id = k
  <2> SUFFICES ASSUME NEW k, here(k) # {}
               PROVE  f[pick(k)] \in Live(f) /\ f[pick(k)].id = k
    OBVIOUS
  <2>1. pick(k) \in DOMAIN f /\ f[pick(k)].name # NoName /\ f[pick(k)].id = k
    OBVIOUS
  <2> QED
    BY <2>1 DEF Live
<1>2. \A k : here(k) = {} => \A r \in Live(f) : r.id # k
  BY DEF Live
<1>3. \A k \in Ids : AsInFile(Out, f)[k] = IF k \notin Out THEN latest[k]
                                           ELSE IF here(k) # {} THEN f[pick(k)].val ELSE Gone
  BY DEF AsInFile
<1>4. \A r \in Live(f) : r.val \in Values
  BY LiveRows DEF People
<1> HIDE DEF here, pick
<1>5. \A k \in Ids : AsInFile(Out, f)[k] \in Values \cup {Gone}
  BY <1>1, <1>3, <1>4 DEF Types
<1>6. AsInFile(Out, f) \in [Ids -> Values \cup {Gone}]
  BY <1>5 DEF AsInFile
<1> QED
  BY <1>1, <1>2, <1>3, <1>6

LEMMA PlayerIs ==
  ASSUME Types, NEW n \in Names, Named(n) # {}
  PROVE  Player(n) \in InGame /\ session[Player(n)].p.name = n
<1>1. Named(n) \in SUBSET Nat
  BY Kinds DEF Named, InGame
<1>2. Player(n) \in Named(n)
  BY <1>1, MinIsIn DEF Player
<1> QED
  BY <1>2 DEF Named

LEMMA InitInv == Init => Inv
<1> SUFFICES ASSUME Init PROVE Inv
  OBVIOUS
<1>1. file = <<>> /\ FileOK(file) /\ Live(file) = {}
  BY DEF Init, FileOK, OneEach, Live
<1>2. SessionOK(session, idCounter)
  BY Kinds DEF Init, SessionOK
<1>3. Types
  BY <1>1, <1>2 DEF Init, Types
<1>4. InGame = {}
  BY Kinds DEF Init, InGame
<1>5. DOMAIN Seats(session) = {}
  BY <1>4, SeatsAre
<1>6. Coherent(Live(file), Seats(session), clashed, latest)
  BY <1>1, <1>5 DEF Init, Coherent, Apart, Current
<1> QED
  BY <1>3, <1>6 DEF Inv

-----------------------------------------------------------------------------
(* Login.                                                                  *)

LEMMA GetPnameInv ==
  ASSUME Inv, NEW s \in Slots, NEW n \in Names, GetPname(s, n)
  PROVE  Inv'
<1>1. Types /\ s \notin InGame /\ UNCHANGED <<file, idCounter, latest, clashed>>
  BY DEF Inv, GetPname, InGame
<1>2. idCounter \in Nat /\ idCounter <= idCounter
  BY <1>1 DEF Types
<1>3. SessionOK(session', idCounter) /\ Seats(session') = Seats(session)
  <2>1. CASE Has(n, file)
    <3>1. session' = [session EXCEPT ![s] = Copy("passwd", GetUaf(n, file))]
      BY <2>1 DEF GetPname, Become
    <3>2. /\ GetUaf(n, file) \in Live(file) /\ GetUaf(n, file) \in People
          /\ GetUaf(n, file) \in Entries /\ GetUaf(n, file).id < idCounter
      BY <1>1, <2>1, GetLive, LiveRows, Kinds DEF Types
    <3>3. "passwd" \in Stages \ {"game"} /\ "passwd" # "gender"
      BY DEF Stages
    <3> QED
      BY <1>1, <1>2, <3>1, <3>2, <3>3, Outside
  <2>2. CASE ~Has(n, file)
    <3> DEFINE x == [Blank EXCEPT !.name = n]
    <3>1. session' = [session EXCEPT ![s] = Copy("gender", x)]
      BY <2>2 DEF GetPname, Become
    <3>2. x \in Entries /\ x.name = n
      BY Kinds DEF Entries
    <3>3. "gender" \in Stages \ {"game"} /\ "gender" \notin {"passwd", "motd"}
      BY DEF Stages
    <3> HIDE DEF x
    <3> QED
      BY <1>1, <1>2, <3>1, <3>2, <3>3, Outside
  <2> QED
    BY <2>1, <2>2
<1> QED
  BY <1>1, <1>3 DEF Inv, Types

\* A login that ends, or goes on, with the same persona.
LEMMA LoginInv ==
  ASSUME Inv, NEW s \in Slots, GetPasswd(s) \/ HangUp(s)
  PROVE  Inv'
<1>1. Types /\ s \notin InGame /\ UNCHANGED <<file, idCounter, latest, clashed>>
  BY DEF Inv, GetPasswd, HangUp, InGame
<1>2. idCounter \in Nat /\ idCounter <= idCounter
  BY <1>1 DEF Types
<1>3. SessionOK(session', idCounter) /\ Seats(session') = Seats(session)
  <2>1. CASE GetPasswd(s)
    <3>1. /\ session' = [session EXCEPT ![s] = Copy("motd", session[s].p)]
          /\ session[s].stage = "passwd"
      BY <2>1 DEF GetPasswd, Become
    <3>2. session[s].p \in People /\ session[s].p \in Entries /\ session[s].p.id < idCounter
      BY <1>1, <3>1, Kinds DEF Types, SessionOK
    <3>3. "motd" \in Stages \ {"game"} /\ "motd" # "gender"
      BY DEF Stages
    <3> QED
      BY <1>1, <1>2, <3>1, <3>2, <3>3, Outside
  <2>2. CASE HangUp(s)
    <3>1. session' = [session EXCEPT ![s] = Copy("free", Blank)]
      BY <2>2 DEF HangUp, Free
    <3>2. "free" \in Stages \ {"game"} /\ "free" \notin {"passwd", "motd", "gender"}
      BY DEF Stages
    <3> QED
      BY <1>1, <1>2, <3>1, <3>2, Kinds, Outside
  <2> QED
    BY <2>1, <2>2
<1> QED
  BY <1>1, <1>3 DEF Inv, Types

\* The new ID is nobody's yet; who bears the name already has a clash.
LEMMA GetGenderInv ==
  ASSUME Inv, NEW s \in Slots, NEW v \in Values, GetGender(s, v)
  PROVE  Inv'
<1> DEFINE n == session[s].p.name
           x == Persona(n, idCounter, v)
           L == Live(file)
           C == clashed'
<1>1. /\ Types /\ session[s].stage = "gender" /\ idCounter <= MaxId
      /\ file' = PutUaf(x, file) /\ idCounter' = idCounter + 1
      /\ session' = [session EXCEPT ![s] = Copy("motd", x)]
      /\ latest' = [latest EXCEPT ![x.id] = v]
      /\ C = IF Bearers(n) = {} THEN clashed ELSE clashed \cup Bearers(n) \cup {x.id}
  BY DEF Inv, GetGender, Become
<1>2. /\ n \in Names /\ idCounter \in Nat \ {0} /\ idCounter \in Ids
      /\ s \in Slots \ InGame
  BY <1>1, Kinds DEF Types, SessionOK, Ids, InGame
<1>3. x \in People /\ x.name = n /\ x.id = idCounter /\ x.val = v
  BY <1>2 DEF Persona, People
<1>4. L \subseteq People /\ \A r \in L : r.id # x.id
  BY <1>1, <1>2, <1>3, LiveRows DEF Types
<1>5. \A t \in InGame : session[t].p.id # x.id /\ session[t].p.id \in Ids
  BY <1>1, <1>2, <1>3, InGameType, Kinds
<1>6. FileOK(file') /\ Live(file') = {r \in L : r.name # x.name} \cup {x}
  BY <1>1, <1>3, PutLive DEF Types
<1>7. SessionOK(session', idCounter') /\ Seats(session') = Seats(session)
  <2>1. "motd" \in Stages \ {"game"} /\ "motd" # "gender"
    BY DEF Stages
  <2>2. idCounter' \in Nat /\ idCounter <= idCounter' /\ x.id < idCounter' /\ x \in Entries
    BY <1>1, <1>2, <1>3, Kinds
  <2> HIDE DEF x
  <2> QED
    BY <1>1, <1>2, <1>3, <2>1, <2>2, Outside
<1>8. Types'
  <2>1. \A r \in Live(file') : r.id < idCounter'
    <3>1. ASSUME NEW r \in L PROVE r.id < idCounter + 1
      <4>1. r.id \in Nat /\ r.id < idCounter
        BY <1>1, <1>4, Kinds DEF Types, People
      <4> QED
        BY <1>2, <4>1
    <3> QED
      BY <1>1, <1>2, <1>3, <1>6, <3>1
  <2>2. latest' \in [Ids -> Values \cup {Gone}]
    BY <1>1 DEF Types
  <2> QED
    BY <1>1, <1>2, <1>6, <1>7, <2>1, <2>2 DEF Types
<1>9. Coherent(L, Seats(session), C, latest)
  BY <1>1, Grows DEF Inv
<1>10. \A r \in L : r.name = x.name => r.id \in C
  BY <1>1, <1>2, <1>3, BearersAre
<1>11. \A t \in InGame : session[t].p.name = x.name => session[t].p.id \in C /\ x.id \in C
  BY <1>1, <1>2, <1>3, BearersAre
<1>12. /\ latest'[x.id] = x.val /\ \A k \in Ids \ {x.id} : latest'[k] = latest[k]
  BY <1>1, <1>2, <1>3 DEF Types
<1> HIDE DEF x, L, C
<1>13. Coherent({r \in L : r.name # x.name} \cup {x}, Seats(session), C, latest')
  BY <1>3, <1>4, <1>5, <1>9, <1>10, <1>11, <1>12, SeatsAre, Put
<1> QED
  BY <1>6, <1>7, <1>8, <1>13 DEF Inv, C

\* Whoever comes in with what the file holds of a persona that nobody plays comes in as
\* it was made last; else there is a clash.
LEMMA TalkerInv ==
  ASSUME Inv, NEW s \in Slots, Talker(s)
  PROVE  Inv'
<1> DEFINE x == session[s].p
           L == Live(file)
           C == clashed'
<1>1. /\ Types /\ session[s].stage = "motd"
      /\ session' = [session EXCEPT ![s] = Copy("game", x)]
      /\ C = IF UpToDate(x) THEN clashed ELSE clashed \cup Bearers(x.name) \cup {x.id}
      /\ UNCHANGED <<file, idCounter, latest>>
  BY DEF Inv, Talker, Become
<1>2. /\ x \in People /\ x \in Entries /\ x.id < idCounter /\ x.name \in Names /\ x.id \in Ids
      /\ s \notin InGame /\ idCounter \in Nat /\ idCounter <= idCounter
  BY <1>1, Kinds DEF Types, SessionOK, InGame, People
<1>3. /\ SessionOK(session', idCounter)
      /\ Seats(session') = [t \in DOMAIN Seats(session) \cup {s} |->
                              IF t = s THEN x ELSE Seats(session)[t]]
  <2>1. "game" \in Stages /\ "game" # "gender"
    BY DEF Stages
  <2> QED
    BY <1>1, <1>2, <2>1, Becomes
<1>4. Coherent(L, Seats(session), C, latest)
  BY <1>1, Grows DEF Inv
<1>5. L \subseteq People /\ \A r, q \in L : r.name = q.name => r = q
  BY <1>1, LiveRows DEF Types
<1>6. /\ \A t \in InGame : session[t].p.id = x.id \/ session[t].p.name = x.name =>
           session[t].p.id \in C /\ x.id \in C
      /\ \A r \in L : r.name = x.name => r.id = x.id \/ (r.id \in C /\ x.id \in C)
      /\ \A r \in L : r.id = x.id => r.name = x.name \/ x.id \in C
      /\ x.id \notin C => latest[x.id] = x.val
  <2>1. CASE ~UpToDate(x)
    BY <1>1, <1>2, <2>1, BearersAre
  <2>2. CASE UpToDate(x)
    <3>1. /\ latest[x.id] = x.val /\ \A t \in InGame : session[t].p.id # x.id
          /\ \A t \in InGame : session[t].p.name # x.name
          /\ Bearers(x.name) = {x.id}
      BY <2>2 DEF UpToDate, IsIn, Named
    <3>2. \A r \in L : r.name = x.name => r.id = x.id
      BY <1>1, <1>2, <3>1, BearersAre
    <3>3. PICK r \in L : r.name = x.name /\ r.id = x.id
      <4>1. x.id \in Bearers(x.name)
        BY <3>1
      <4>2. \/ \E t \in InGame : session[t].p.name = x.name /\ session[t].p.id = x.id
            \/ \E r \in L : r.name = x.name /\ r.id = x.id
        BY <1>1, <1>2, <4>1, BearersAre
      <4> QED
        BY <3>1, <4>2
    <3>4. \A q \in L : q.id = x.id => q = r \/ x.id \in C
      BY <1>4, <3>3 DEF Coherent, Apart
    <3> QED
      BY <3>1, <3>2, <3>3, <3>4
  <2> QED
    BY <2>1, <2>2
<1> HIDE DEF x, L, C
<1>7. \A t \in DOMAIN Seats(session) :
        Seats(session)[t].id = x.id \/ Seats(session)[t].name = x.name =>
          Seats(session)[t].id \in C /\ x.id \in C
  BY <1>6, SeatsAre
<1>8. s \notin DOMAIN Seats(session)
  BY <1>2, SeatsAre
<1>9. Coherent(L, [t \in DOMAIN Seats(session) \cup {s} |->
                     IF t = s THEN x ELSE Seats(session)[t]], C, latest)
  BY <1>4, <1>6, <1>7, <1>8, Seated
<1> QED
  BY <1>1, <1>3, <1>9 DEF Inv, Types, C, L

-----------------------------------------------------------------------------
(* Saving and leaving.                                                     *)

\* A record is written, or one deleted.
LEMMA PutFile ==
  ASSUME Types, NEW x \in People, x.id < idCounter
  PROVE  LET f == PutUaf(x, file)
         IN  /\ FileOK(f) /\ \A r \in Live(f) : r.id < idCounter
             /\ Live(f) = {r \in Live(file) : r.name # x.name} \cup {x}
BY PutLive DEF Types

LEMMA DelFile ==
  ASSUME Types, NEW n \in Names
  PROVE  LET f == DelUaf(n, file)
         IN  /\ FileOK(f) /\ \A r \in Live(f) : r.id < idCounter
             /\ Live(f) = Without(Live(file), n)
BY DelLive DEF Types, Without

\* A player is saved.
LEMMA SavedSeat ==
  ASSUME NEW L, L \subseteq People, NEW p, NEW C, NEW lat, Coherent(L, p, C, lat),
         NEW s \in DOMAIN p, p[s] \in People
  PROVE  Coherent({r \in L : r.name # p[s].name} \cup {p[s]}, p, C, lat)
<1> DEFINE x == p[s]
<1>1. x \in People /\ x.id \in Ids
  BY DEF People
<1>2. /\ \A r \in L : r.id = x.id => r.name = x.name \/ x.id \in C
      /\ \A r \in L : r.name = x.name => r.id = x.id \/ r.id \in C
      /\ \A t \in DOMAIN p : p[t].name = x.name => p[t].id = x.id \/ (p[t].id \in C /\ x.id \in C)
      /\ \A t \in DOMAIN p : p[t].id = x.id => p[t].name = x.name \/ x.id \in C
  BY DEF Coherent, Apart
<1>3. x.id \notin C => \A t \in DOMAIN p : p[t].id = x.id => lat[x.id] = p[t].val
  BY <1>1 DEF Coherent, Current
<1>4. Plays(p, x.id)
  BY DEF Plays
<1> HIDE DEF x
<1>5. Coherent({r \in L : r.name # x.name} \cup {x}, p, C, lat)
  BY <1>1, <1>2, <1>3, <1>4, Put
<1> QED
  BY <1>5 DEF x

\* A saved player leaves.
LEMMA SavedLeaves ==
  ASSUME NEW L, NEW p, NEW C, NEW lat, Coherent(L, p, C, lat), NEW s \in DOMAIN p, p[s] \in L
  PROVE  Coherent(L, [t \in DOMAIN p \ {s} |-> p[t]], C, lat)
<1> DEFINE Out == {s}
<1>1. ASSUME NEW k \in Ids \ C, \E t \in Out \cap DOMAIN p : p[t].id = k
      PROVE  \E r \in L : r.id = k /\ lat[k] = r.val
  BY <1>1 DEF Coherent, Current
<1>2. \A k \in Ids \ C :
        IF \E t \in Out \cap DOMAIN p : p[t].id = k
        THEN \/ \E r \in L : r.id = k /\ lat[k] = r.val
             \/ lat[k] = Gone /\ \A r \in L : r.id # k
        ELSE lat[k] = lat[k]
  BY <1>1
<1> HIDE DEF Out
<1>3. Coherent(L, [t \in DOMAIN p \ Out |-> p[t]], C, lat)
  BY <1>2, Dropped
<1> QED
  BY <1>3 DEF Out

LEMMA FreedSlot ==
  ASSUME Types, NEW s \in Slots
  PROVE  LET ses == [session EXCEPT ![s] = Free]
         IN  /\ SessionOK(ses, idCounter)
             /\ Seats(ses) = [t \in DOMAIN Seats(session) \ {s} |-> Seats(session)[t]]
<1> DEFINE stage == "free"
<1>1. Free = Copy(stage, Blank)
  BY DEF Free
<1>2. stage \in Stages /\ stage \notin {"gender", "passwd", "motd", "game"}
  BY DEF Stages
<1>3. idCounter \in Nat /\ idCounter <= idCounter
  BY DEF Types
<1>4. Blank \in Entries
  BY Kinds
<1> HIDE DEF stage
<1>5. LET ses == [session EXCEPT ![s] = Copy(stage, Blank)]
          D == DOMAIN Seats(session)
      IN  /\ SessionOK(ses, idCounter)
          /\ Seats(ses) = IF stage = "game"
                          THEN [t \in D \cup {s} |-> IF t = s THEN Blank ELSE Seats(session)[t]]
                          ELSE [t \in D \ {s} |-> Seats(session)[t]]
  BY <1>2, <1>3, <1>4, Becomes
<1> QED
  BY <1>1, <1>2, <1>5

LEMMA SaveInv ==
  ASSUME Inv, NEW s \in InGame, file' = PutUaf(session[s].p, file),
         UNCHANGED <<session, idCounter, latest, clashed>>
  PROVE  Inv'
<1> DEFINE x == Seats(session)[s]
<1>1. Types /\ Coherent(Live(file), Seats(session), clashed, latest)
  BY DEF Inv
<1>2. x = session[s].p /\ x \in People /\ x.id < idCounter /\ s \in DOMAIN Seats(session)
  BY <1>1, SeatsAre, InGameType
<1>3. /\ FileOK(file') /\ \A r \in Live(file') : r.id < idCounter
      /\ Live(file') = {r \in Live(file) : r.name # x.name} \cup {x}
  BY <1>1, <1>2, PutFile
<1>4. Live(file) \subseteq People
  BY <1>1, LiveRows DEF Types
<1>5. Coherent(Live(file'), Seats(session), clashed, latest)
  BY <1>1, <1>2, <1>3, <1>4, SavedSeat
<1> QED
  BY <1>1, <1>3, <1>5 DEF Inv, Types

LEMMA LeaveSavedInv ==
  ASSUME Inv, NEW s \in Slots, LeaveSaved(s)
  PROVE  Inv'
<1> DEFINE p == Seats(session)
           L == {r \in Live(file) : r.name # p[s].name} \cup {p[s]}
<1>1. /\ Types /\ Coherent(Live(file), p, clashed, latest) /\ s \in InGame
      /\ file' = PutUaf(session[s].p, file) /\ session' = [session EXCEPT ![s] = Free]
      /\ UNCHANGED <<idCounter, latest, clashed>>
  BY DEF Inv, LeaveSaved
<1>2. /\ p[s] = session[s].p /\ p[s] \in People /\ p[s].id < idCounter /\ s \in DOMAIN p
  BY <1>1, SeatsAre, InGameType
<1>3. FileOK(file') /\ (\A r \in Live(file') : r.id < idCounter) /\ Live(file') = L
  BY <1>1, <1>2, PutFile
<1>4. Live(file) \subseteq People
  BY <1>1, LiveRows DEF Types
<1>5. SessionOK(session', idCounter) /\ Seats(session') = [t \in DOMAIN p \ {s} |-> p[t]]
  BY <1>1, FreedSlot
<1> HIDE DEF p
<1>6. Coherent(L, p, clashed, latest) /\ p[s] \in L
  BY <1>1, <1>2, <1>4, SavedSeat
<1> HIDE DEF L
<1>7. Coherent(L, [t \in DOMAIN p \ {s} |-> p[t]], clashed, latest)
  BY <1>2, <1>6, SavedLeaves
<1> QED
  BY <1>1, <1>3, <1>5, <1>7 DEF Inv, Types

\* Players leave, and are what the file holds of them.
LEMMA UnsavedLeave ==
  ASSUME NEW f, Types, FileOK(f), NEW C, NEW Out,
         Coherent(Live(f), Seats(session), C, latest),
         NEW Ks, \A k \in Ids \ C :
           k \in Ks <=> \E t \in Out \cap DOMAIN Seats(session) : Seats(session)[t].id = k
  PROVE  Coherent(Live(f), [t \in DOMAIN Seats(session) \ Out |-> Seats(session)[t]], C,
                  AsInFile(Ks, f))
<1> DEFINE p == Seats(session)
           new == AsInFile(Ks, f)
<1>1. ASSUME NEW k \in Ids \ C
      PROVE  IF \E t \in Out \cap DOMAIN p : p[t].id = k
             THEN \/ \E r \in Live(f) : r.id = k /\ new[k] = r.val
                  \/ new[k] = Gone /\ \A r \in Live(f) : r.id # k
             ELSE new[k] = latest[k]
  <2>1. CASE k \in Ks
    BY <1>1, <2>1, AsInFileIs
  <2>2. CASE k \notin Ks
    BY <1>1, <2>2, AsInFileIs
  <2> QED
    BY <2>1, <2>2
<1> HIDE DEF p, new
<1>2. Coherent(Live(f), p, C, latest)
  BY DEF p
<1>3. Coherent(Live(f), [t \in DOMAIN p \ Out |-> p[t]], C, new)
  BY <1>1, <1>2, Dropped
<1> QED
  BY <1>3 DEF p, new

LEMMA LeaveUnsavedInv ==
  ASSUME Inv, NEW s \in Slots, LeaveUnsaved(s)
  PROVE  Inv'
<1> DEFINE p == Seats(session)
           K == {session[s].p.id}
<1>1. /\ Types /\ Coherent(Live(file), p, clashed, latest) /\ s \in InGame
      /\ session' = [session EXCEPT ![s] = Free] /\ latest' = AsInFile(K, file)
      /\ UNCHANGED <<file, idCounter, clashed>> /\ FileOK(file)
  BY DEF Inv, LeaveUnsaved, Types
<1>2. \A k \in Ids \ clashed : k \in K <=> \E t \in {s} \cap DOMAIN p : p[t].id = k
  BY <1>1, SeatsAre
<1>3. SessionOK(session', idCounter) /\ Seats(session') = [t \in DOMAIN p \ {s} |-> p[t]]
  BY <1>1, FreedSlot
<1>4. latest' \in [Ids -> Values \cup {Gone}]
  BY <1>1, AsInFileIs
<1> HIDE DEF K
<1>5. Coherent(Live(file), [t \in DOMAIN p \ {s} |-> p[t]], clashed, AsInFile(K, file))
  BY <1>1, <1>2, UnsavedLeave
<1> QED
  BY <1>1, <1>3, <1>4, <1>5 DEF Inv, Types

\* All are gone, and nobody is in the game.
LEMMA AllFreed ==
  ASSUME Types, session' = [s \in Slots |-> Free]
  PROVE  /\ SessionOK(session', idCounter)
         /\ Seats(session') = [t \in DOMAIN Seats(session) \ Slots |-> Seats(session)[t]]
<1>1. SessionOK(session', idCounter)
  BY Kinds DEF SessionOK
<1>2. {t \in Slots : session'[t].stage = "game"} = {}
  BY Kinds
<1>3. DOMAIN Seats(session) \ Slots = {}
  BY SeatsAre DEF InGame
<1>4. Seats(session') = [t \in {} |-> session'[t].p]
  BY <1>2 DEF Seats
<1>5. [t \in {} |-> session'[t].p] = [t \in {} |-> Seats(session)[t]]
  OBVIOUS
<1> QED
  BY <1>1, <1>3, <1>4, <1>5

LEMMA CrashInv ==
  ASSUME Inv, NEW f, FileOK(f), \A r \in Live(f) : r.id < idCounter, file' = f,
         NEW C, clashed' = C, Coherent(Live(f), Seats(session), C, latest),
         session' = [s \in Slots |-> Free], latest' = AsInFile(Playing, f), UNCHANGED idCounter
  PROVE  Inv'
<1> DEFINE p == Seats(session)
<1>1. Types
  BY DEF Inv
<1>2. \A k \in Ids \ C : k \in Playing <=> \E t \in Slots \cap DOMAIN p : p[t].id = k
  BY SeatsAre DEF Playing, InGame
<1>3. SessionOK(session', idCounter) /\ Seats(session') = [t \in DOMAIN p \ Slots |-> p[t]]
  BY <1>1, AllFreed
<1>4. latest' \in [Ids -> Values \cup {Gone}]
  BY <1>1, AsInFileIs
<1>5. Coherent(Live(f), [t \in DOMAIN p \ Slots |-> p[t]], C, AsInFile(Playing, f))
  BY <1>1, <1>2, UnsavedLeave
<1> QED
  BY <1>1, <1>3, <1>4, <1>5 DEF Inv, Types

LEMMA CrashInChangeNameInv ==
  ASSUME Inv, NEW old \in Names, CrashInChangeName(old)
  PROVE  Inv'
<1> DEFINE f == DelUaf(old, file)
           C == clashed \cup {GetUaf(old, file).id}
           M == Without(Live(file), old)
<1>1. /\ Types /\ Coherent(Live(file), Seats(session), clashed, latest) /\ Has(old, file)
      /\ file' = f /\ clashed' = C /\ session' = [s \in Slots |-> Free]
      /\ latest' = AsInFile(Playing, f) /\ UNCHANGED idCounter
  BY DEF Inv, CrashInChangeName
<1>2. FileOK(f) /\ (\A r \in Live(f) : r.id < idCounter) /\ Live(f) = M
  BY <1>1, DelFile
<1>3. Live(file) \subseteq People /\ \A r, q \in Live(file) : r.name = q.name => r = q
  BY <1>1, LiveRows DEF Types
<1>4. \A r \in Live(file) : r.name = old => r.id \in C
  BY <1>1, <1>3, GetLive DEF Types
<1> HIDE DEF f, C
<1>5. Coherent(Live(file), Seats(session), C, latest)
  BY <1>1, Grows DEF C
<1>6. /\ \A r \in Live(file) : r.name = old /\ r.id \notin C =>
           latest[r.id] = IF Plays(Seats(session), r.id) THEN latest[r.id] ELSE Gone
      /\ \A k \in Ids \ C :
           (\A r \in Live(file) : r.name = old => r.id # k) => latest[k] = latest[k]
  BY <1>4
<1>7. Coherent(Live(f), Seats(session), C, latest)
  BY <1>2, <1>3, <1>5, <1>6, Deleted
<1> QED
  BY <1>1, <1>2, <1>7, CrashInv

\* BECOME: the player is saved, leaves, and comes in as a persona that nobody plays by
\* name.
LEMMA BecomInv ==
  ASSUME Inv, NEW s \in Slots, NEW n \in Names, Becom(s, n)
  PROVE  Inv'
<1> DEFINE p == Seats(session)
           x == GetUaf(n, file)
           L == {r \in Live(file) : r.name # p[s].name} \cup {p[s]}
           q == [t \in DOMAIN p \ {s} |-> p[t]]
<1>1. /\ Types /\ Coherent(Live(file), p, clashed, latest) /\ s \in InGame
      /\ Has(n, file) /\ Named(n) = {}
      /\ file' = PutUaf(session[s].p, file)
      /\ session' = [session EXCEPT ![s] = Copy("game", x)]
      /\ UNCHANGED <<idCounter, latest, clashed>>
  BY DEF Inv, Becom, Become
<1>2. /\ p[s] = session[s].p /\ p[s] \in People /\ p[s].id < idCounter /\ s \in DOMAIN p
  BY <1>1, SeatsAre, InGameType
<1>3. FileOK(file') /\ (\A r \in Live(file') : r.id < idCounter) /\ Live(file') = L
  BY <1>1, <1>2, PutFile
<1>4. Live(file) \subseteq People /\ \A r, u \in Live(file) : r.name = u.name => r = u
  BY <1>1, LiveRows DEF Types
<1>5. x \in Live(file) /\ x.name = n /\ x \in People /\ x \in Entries /\ x.id < idCounter
  BY <1>1, <1>4, GetLive, Kinds DEF Types
<1>6. \A t \in DOMAIN p : p[t].name # n
  BY <1>1, SeatsAre DEF Named
<1> HIDE DEF p, x
<1>7. /\ SessionOK(session', idCounter)
      /\ Seats(session') = [t \in DOMAIN p \cup {s} |-> IF t = s THEN x ELSE p[t]]
  <2>1. "game" \in Stages /\ "game" # "gender" /\ idCounter \in Nat /\ idCounter <= idCounter
    BY <1>1 DEF Stages, Types
  <2>2. session' = [session EXCEPT ![s] = Copy("game", x)] /\ Types /\ x \in Entries
        /\ x \in People /\ x.id < idCounter
    BY <1>1, <1>5
  <2>3. /\ SessionOK(session', idCounter)
        /\ Seats(session') = [t \in DOMAIN Seats(session) \cup {s} |->
                                IF t = s THEN x ELSE Seats(session)[t]]
    BY <2>1, <2>2, Becomes
  <2> QED
    BY <2>3 DEF p
<1>8. Coherent(L, p, clashed, latest) /\ p[s] \in L
  BY <1>1, <1>2, <1>4, SavedSeat
<1>9. x \in L /\ x.id \in Ids
  BY <1>2, <1>5, <1>6 DEF People
<1>10. \A r \in L : r.name = x.name => r = x
  BY <1>2, <1>4, <1>5, <1>6
<1>11. \A t \in DOMAIN p : p[t].id = x.id => x.id \in clashed
  BY <1>1, <1>5, <1>6 DEF Coherent, Apart
<1> HIDE DEF L
<1>12. Coherent(L, q, clashed, latest)
  BY <1>2, <1>8, SavedLeaves
<1>13. DOMAIN q = DOMAIN p \ {s} /\ \A t \in DOMAIN q : q[t] = p[t]
  OBVIOUS
<1> HIDE DEF q
<1>14. /\ \A t \in DOMAIN q : q[t].id = x.id \/ q[t].name = x.name =>
            q[t].id \in clashed /\ x.id \in clashed
       /\ \A r \in L : r.name = x.name => r.id = x.id \/ (r.id \in clashed /\ x.id \in clashed)
       /\ \A r \in L : r.id = x.id => r.name = x.name \/ x.id \in clashed
  BY <1>5, <1>6, <1>8, <1>9, <1>10, <1>11, <1>13 DEF Coherent, Apart
<1>15. x.id \notin clashed => latest[x.id] = x.val
  BY <1>9, <1>11, <1>12, <1>13 DEF Coherent, Current, Plays
<1>16. Coherent(L, [t \in DOMAIN q \cup {s} |-> IF t = s THEN x ELSE q[t]], clashed, latest)
  BY <1>12, <1>13, <1>14, <1>15, Seated
<1>17. [t \in DOMAIN q \cup {s} |-> IF t = s THEN x ELSE q[t]]
         = [t \in DOMAIN p \cup {s} |-> IF t = s THEN x ELSE p[t]]
  <2>1. DOMAIN q \cup {s} = DOMAIN p \cup {s}
    BY <1>2, <1>13
  <2>2. \A t \in DOMAIN p \cup {s} :
          (IF t = s THEN x ELSE q[t]) = (IF t = s THEN x ELSE p[t])
    BY <1>13
  <2> QED
    BY <2>1, <2>2
<1> QED
  BY <1>1, <1>3, <1>7, <1>16, <1>17 DEF Inv, Types

-----------------------------------------------------------------------------
(* Wizards.                                                                *)

\* A player in the game becomes x.
LEMMA SeatChanged ==
  ASSUME Types, NEW s \in InGame, NEW x \in People, x.id < idCounter
  PROVE  LET ses == [session EXCEPT ![s] = Copy("game", x)]
         IN  /\ SessionOK(ses, idCounter)
             /\ Seats(ses) = [Seats(session) EXCEPT ![s] = x]
<1> DEFINE ses == [session EXCEPT ![s] = Copy("game", x)]
           p == Seats(session)
<1>1. "game" \in Stages /\ "game" # "gender" /\ idCounter \in Nat /\ idCounter <= idCounter
      /\ s \in Slots /\ x \in Entries
  BY Kinds DEF Stages, Types, InGame
<1>2. SessionOK(ses, idCounter)
      /\ Seats(ses) = [t \in DOMAIN p \cup {s} |-> IF t = s THEN x ELSE p[t]]
  BY <1>1, Becomes
<1>3. s \in DOMAIN p
  BY SeatsAre
<1>4. DOMAIN p \cup {s} = DOMAIN p
  BY <1>3
<1>5. [t \in DOMAIN p |-> IF t = s THEN x ELSE p[t]] = [p EXCEPT ![s] = x]
  OBVIOUS
<1> QED
  BY <1>2, <1>4, <1>5

\* What a player is like is changed, in his slot.
LEMMA ValChanged ==
  ASSUME Inv, NEW s \in InGame, NEW v \in Values
  PROVE  LET x == [session[s].p EXCEPT !.val = v]
             ses == [session EXCEPT ![s].p.val = v]
             lat == [latest EXCEPT ![session[s].p.id] = v]
         IN  /\ SessionOK(ses, idCounter) /\ lat \in [Ids -> Values \cup {Gone}]
             /\ Seats(ses) = [Seats(session) EXCEPT ![s] = x]
             /\ Coherent(Live(file), Seats(ses), clashed, lat)
             /\ x \in People /\ x.id < idCounter
<1> DEFINE p == Seats(session)
           y == session[s].p
           x == [y EXCEPT !.val = v]
           ses == [session EXCEPT ![s].p.val = v]
           lat == [latest EXCEPT ![y.id] = v]
<1>1. Types /\ Coherent(Live(file), p, clashed, latest)
  BY DEF Inv
<1>2. /\ s \in Slots /\ session[s].stage = "game" /\ y \in People /\ y.id < idCounter
      /\ y.id \in Ids /\ s \in DOMAIN p /\ p[s] = y
  BY <1>1, InGameType, SeatsAre
<1>3. x \in People /\ x.id = y.id /\ x.name = y.name /\ x.val = v
  BY <1>2 DEF People
<1>4. ses = [session EXCEPT ![s] = Copy("game", x)]
  <2>1. session[s] \in [stage : Stages, p : Entries]
    BY <1>1, <1>2 DEF Types, SessionOK
  <2>2. [session[s] EXCEPT !.p.val = v] = Copy("game", x)
    BY <1>2, <2>1 DEF Copy
  <2> QED
    BY <2>2
<1>5. lat \in [Ids -> Values \cup {Gone}] /\ lat[x.id] = x.val
      /\ \A k \in Ids \ {x.id} : lat[k] = latest[k]
  BY <1>1, <1>2, <1>3 DEF Types
<1> HIDE DEF x, y, lat, p
<1>6. SessionOK(ses, idCounter) /\ Seats(ses) = [p EXCEPT ![s] = x]
  BY <1>1, <1>2, <1>3, <1>4, SeatChanged DEF p
<1>7. /\ \A t \in DOMAIN p \ {s} : p[t].name = x.name => p[t].id \in clashed /\ x.id \in clashed
      /\ \A r \in Live(file) :
           r.name = x.name => r.id = x.id \/ (r.id \in clashed /\ x.id \in clashed)
      /\ \A r \in Live(file) : r.id = x.id => r.name = x.name \/ x.id \in clashed
  BY <1>1, <1>2, <1>3 DEF Coherent, Apart
<1>8. Coherent(Live(file), [p EXCEPT ![s] = x], clashed, lat)
  BY <1>1, <1>2, <1>3, <1>5, <1>7, Changed
<1> QED
  BY <1>2, <1>3, <1>5, <1>6, <1>8 DEF x, y, lat, p

LEMMA ChangeInGameInv ==
  ASSUME Inv, NEW n \in Names, NEW v \in Values, ChangeInGame(n, v)
  PROVE  Inv'
<1> DEFINE s == Player(n)
<1>1. /\ Types /\ Named(n) # {} /\ session' = [session EXCEPT ![s].p.val = v]
      /\ latest' = [latest EXCEPT ![session[s].p.id] = v]
      /\ UNCHANGED <<file, idCounter, clashed>>
  BY DEF Inv, ChangeInGame
<1>2. s \in InGame
  BY <1>1, PlayerIs
<1> HIDE DEF s
<1>3. /\ SessionOK(session', idCounter) /\ latest' \in [Ids -> Values \cup {Gone}]
      /\ Coherent(Live(file), Seats(session'), clashed, latest')
  BY <1>1, <1>2, ValChanged
<1> QED
  BY <1>1, <1>3 DEF Inv, Types

LEMMA ChangePasswdInv ==
  ASSUME Inv, NEW n \in Names, NEW v \in Values, ChangePasswd(n, v)
  PROVE  Inv'
<1> DEFINE s == Player(n)
           x == [session[s].p EXCEPT !.val = v]
           q == Seats(session')
<1>1. /\ Types /\ Named(n) # {} /\ file' = PutUaf(x, file)
      /\ session' = [session EXCEPT ![s].p.val = v]
      /\ latest' = [latest EXCEPT ![session[s].p.id] = v]
      /\ UNCHANGED <<idCounter, clashed>>
  BY DEF Inv, ChangePasswd, InSlot
<1>2. s \in InGame /\ s \in DOMAIN Seats(session)
  BY <1>1, PlayerIs, SeatsAre
<1> HIDE DEF s
<1>3. /\ SessionOK(session', idCounter) /\ latest' \in [Ids -> Values \cup {Gone}]
      /\ q = [Seats(session) EXCEPT ![s] = x]
      /\ Coherent(Live(file), q, clashed, latest')
      /\ x \in People /\ x.id < idCounter
  BY <1>1, <1>2, ValChanged
<1>4. s \in DOMAIN q /\ q[s] = x
  BY <1>2, <1>3
<1>5. /\ FileOK(file') /\ \A r \in Live(file') : r.id < idCounter
      /\ Live(file') = {r \in Live(file) : r.name # x.name} \cup {x}
  BY <1>1, <1>3, PutFile
<1>6. Live(file) \subseteq People
  BY <1>1, LiveRows DEF Types
<1> HIDE DEF x, q
<1>7. Coherent(Live(file), q, clashed, latest') /\ q[s] \in People
  BY <1>3, <1>4
<1>8. Coherent({r \in Live(file) : r.name # q[s].name} \cup {q[s]}, q, clashed, latest')
  BY <1>4, <1>6, <1>7, SavedSeat
<1>9. Coherent(Live(file'), q, clashed, latest')
  BY <1>4, <1>5, <1>8
<1> QED
  BY <1>1, <1>3, <1>5, <1>9 DEF Inv, Types, q

LEMMA ChangeInFileInv ==
  ASSUME Inv, NEW n \in Names, NEW v \in Values, ChangeInFile(n, v)
  PROVE  Inv'
<1> DEFINE p == Seats(session)
           y == GetUaf(n, file)
           x == [y EXCEPT !.val = v]
<1>1. /\ Types /\ Coherent(Live(file), p, clashed, latest) /\ Named(n) = {} /\ Has(n, file)
      /\ file' = PutUaf(x, file) /\ latest' = [latest EXCEPT ![y.id] = v]
      /\ UNCHANGED <<session, idCounter, clashed>>
  BY DEF Inv, ChangeInFile
<1>2. Live(file) \subseteq People /\ \A r, u \in Live(file) : r.name = u.name => r = u
  BY <1>1, LiveRows DEF Types
<1>3. y \in Live(file) /\ y.name = n /\ y.id < idCounter /\ y.id \in Ids
  BY <1>1, <1>2, GetLive DEF Types, People
<1>4. x \in People /\ x.id = y.id /\ x.name = n /\ x.val = v
  BY <1>2, <1>3 DEF People
<1>5. /\ FileOK(file') /\ \A r \in Live(file') : r.id < idCounter
      /\ Live(file') = {r \in Live(file) : r.name # x.name} \cup {x}
  BY <1>1, <1>3, <1>4, PutFile
<1>6. \A t \in DOMAIN p : p[t].name # n
  BY <1>1, SeatsAre DEF Named
<1>7. /\ latest' \in [Ids -> Values \cup {Gone}] /\ latest'[x.id] = x.val
      /\ \A k \in Ids \ (clashed \cup {x.id}) : latest'[k] = latest[k]
  BY <1>1, <1>3, <1>4 DEF Types
<1> HIDE DEF p, y, x
<1>8. /\ \A r \in Live(file) : r.id = x.id => r.name = x.name \/ x.id \in clashed
      /\ \A r \in Live(file) : r.name = x.name => r.id = x.id \/ r.id \in clashed
      /\ \A t \in DOMAIN p : p[t].id = x.id => x.id \in clashed
  BY <1>1, <1>2, <1>3, <1>4, <1>6 DEF Coherent, Apart
<1>9. x.id \notin clashed =>
        /\ \A t \in DOMAIN p : p[t].id = x.id => latest'[x.id] = p[t].val
        /\ ~Plays(p, x.id) => latest'[x.id] = x.val
  BY <1>7, <1>8
<1>10. \A t \in DOMAIN p :
         /\ p[t].name = x.name => p[t].id = x.id \/ (p[t].id \in clashed /\ x.id \in clashed)
         /\ p[t].id = x.id => p[t].name = x.name \/ x.id \in clashed
  BY <1>4, <1>6, <1>8
<1>11. Coherent({r \in Live(file) : r.name # x.name} \cup {x}, p, clashed, latest')
  BY <1>1, <1>2, <1>4, <1>7, <1>8, <1>9, <1>10, Put
<1>12. Coherent(Live(file'), p, clashed, latest')
  BY <1>5, <1>11
<1> QED
  BY <1>1, <1>5, <1>7, <1>12 DEF Inv, Types, p

LEMMA DeleteInv ==
  ASSUME Inv, NEW n \in Names, Delete(n)
  PROVE  Inv'
<1> DEFINE p == Seats(session)
           y == GetUaf(n, file)
           M == Without(Live(file), n)
<1>1. /\ Types /\ Coherent(Live(file), p, clashed, latest) /\ Has(n, file)
      /\ file' = DelUaf(n, file)
      /\ latest' = IF IsIn(y.id) THEN latest ELSE [latest EXCEPT ![y.id] = Gone]
      /\ UNCHANGED <<session, idCounter, clashed>>
  BY DEF Inv, Delete
<1>2. FileOK(file') /\ (\A r \in Live(file') : r.id < idCounter) /\ Live(file') = M
  BY <1>1, DelFile
<1>3. Live(file) \subseteq People /\ \A r, u \in Live(file) : r.name = u.name => r = u
  BY <1>1, LiveRows DEF Types
<1>4. y \in Live(file) /\ y.name = n /\ y.id \in Ids
  BY <1>1, <1>3, GetLive DEF Types, People
<1>5. IsIn(y.id) <=> Plays(p, y.id)
  BY SeatsAre DEF IsIn, Plays
<1>6. /\ latest' \in [Ids -> Values \cup {Gone}]
      /\ latest'[y.id] = IF Plays(p, y.id) THEN latest[y.id] ELSE Gone
      /\ \A k \in Ids \ {y.id} : latest'[k] = latest[k]
  BY <1>1, <1>4, <1>5 DEF Types
<1> HIDE DEF p, y
<1>7. /\ \A r \in Live(file) : r.name = n /\ r.id \notin clashed =>
           latest'[r.id] = IF Plays(p, r.id) THEN latest[r.id] ELSE Gone
      /\ \A k \in Ids \ clashed :
           (\A r \in Live(file) : r.name = n => r.id # k) => latest'[k] = latest[k]
  BY <1>3, <1>4, <1>6
<1>8. Coherent(Live(file), p, clashed, latest)
  BY <1>1
<1>9. Coherent(M, p, clashed, latest')
  BY <1>3, <1>7, <1>8, Deleted
<1> QED
  BY <1>1, <1>2, <1>6, <1>9 DEF Inv, Types, p

\* ZAP: the player leaves, then his record goes.
LEMMA ZapInv ==
  ASSUME Inv, NEW s \in Slots, Zap(s)
  PROVE  Inv'
<1> DEFINE p == Seats(session)
           y == session[s].p
           K == {y.id}
           mid == AsInFile(K, file)
           Out == {s}
           q == [t \in DOMAIN p \ Out |-> p[t]]
           M == Without(Live(file), y.name)
<1>1. /\ Types /\ Coherent(Live(file), p, clashed, latest) /\ s \in InGame /\ FileOK(file)
      /\ file' = DelUaf(y.name, file) /\ session' = [session EXCEPT ![s] = Free]
      /\ latest' = [latest EXCEPT ![y.id] = Gone]
      /\ UNCHANGED <<idCounter, clashed>>
  BY DEF Inv, Zap, Types
<1>2. y.name \in Names /\ y.id \in Ids /\ s \in DOMAIN p /\ p[s] = y
  BY <1>1, InGameType, SeatsAre
<1>3. FileOK(file') /\ (\A r \in Live(file') : r.id < idCounter) /\ Live(file') = M
  BY <1>1, <1>2, DelFile
<1>4. Live(file) \subseteq People /\ \A r, u \in Live(file) : r.name = u.name => r = u
  BY <1>1, LiveRows DEF Types
<1>5. SessionOK(session', idCounter) /\ Seats(session') = q
  BY <1>1, FreedSlot
<1>6. /\ latest' \in [Ids -> Values \cup {Gone}] /\ latest'[y.id] = Gone
      /\ \A k \in Ids \ {y.id} : latest'[k] = latest[k]
  BY <1>1, <1>2 DEF Types
<1>7. /\ \A k \in Ids \ {y.id} : mid[k] = latest[k]
      /\ \/ \E r \in Live(file) : r.id = y.id
         \/ mid[y.id] = Gone
  BY <1>1, <1>2, AsInFileIs
<1>8. \A k \in Ids \ clashed : k \in K <=> \E t \in Out \cap DOMAIN p : p[t].id = k
  BY <1>2
<1>9. DOMAIN q = DOMAIN p \ {s} /\ \A t \in DOMAIN q : q[t] = p[t]
  OBVIOUS
<1> HIDE DEF y, K, Out
<1>10. Coherent(Live(file), q, clashed, mid)
  BY <1>1, <1>8, UnsavedLeave
<1> HIDE DEF p, q, mid
<1>11. /\ \A r \in Live(file) : r.name = y.name => r.id = y.id \/ r.id \in clashed
       /\ \A r \in Live(file) : r.id = y.id => r.name = y.name \/ r.id \in clashed
       /\ y.id \notin clashed => ~Plays(q, y.id)
  BY <1>1, <1>2, <1>9 DEF Coherent, Apart, Plays
<1>12. \A r \in Live(file) : r.name = y.name /\ r.id \notin clashed =>
          latest'[r.id] = IF Plays(q, r.id) THEN mid[r.id] ELSE Gone
  BY <1>6, <1>11
<1>13. ASSUME NEW k \in Ids \ clashed, \A r \in Live(file) : r.name = y.name => r.id # k
       PROVE  latest'[k] = mid[k]
  <2>1. CASE k = y.id
    BY <1>6, <1>7, <1>11, <1>13, <2>1
  <2>2. CASE k # y.id
    BY <1>6, <1>7, <1>13, <2>2
  <2> QED
    BY <2>1, <2>2
<1>14. Coherent(Live(file'), q, clashed, latest')
  BY <1>3, <1>4, <1>10, <1>12, <1>13, Deleted
<1> QED
  BY <1>1, <1>3, <1>5, <1>6, <1>14 DEF Inv, Types

\* CHANGE NAME of a player: his record is deleted, he is renamed, and saved.  Of a
\* persona in the file: its record is deleted, and written with the new name.
LEMMA ChangeNameInv ==
  ASSUME Inv, NEW old \in Names, NEW new \in Names, ChangeName(old, new)
  PROVE  Inv'
<1> DEFINE p == Seats(session)
           L == Live(file)
           f == DelUaf(old, file)
           M == Live(f)
           y == TheOne(old)
           x == [y EXCEPT !.name = new]
           C == clashed'
<1>1. /\ Types /\ Coherent(L, p, clashed, latest)
      /\ Known(old) /\ ~Has(new, file) /\ new # old /\ file' = PutUaf(x, f)
      /\ session' = IF Named(old) = {} THEN session
                    ELSE [session EXCEPT ![Player(old)].p.name = new]
      /\ C = IF Named(new) = {} THEN clashed ELSE clashed \cup Bearers(new) \cup {x.id}
      /\ UNCHANGED <<idCounter, latest>>
  BY DEF Inv, ChangeName
<1>2. FileOK(f) /\ (\A r \in M : r.id < idCounter) /\ M = Without(L, old)
      /\ \A r \in M : r \in L /\ r.name # old
  BY <1>1, DelFile DEF Without
<1>3. /\ L \subseteq People /\ \A r, u \in L : r.name = u.name => r = u
      /\ \A r \in L : r.name # new
  BY <1>1, LiveRows, HasLive DEF Types
<1>4. y \in People /\ y.name = old /\ y.id < idCounter /\ y.id \in Ids
  <2>1. CASE Named(old) # {}
    BY <1>1, <2>1, PlayerIs, InGameType DEF TheOne
  <2>2. CASE Named(old) = {}
    <3>1. Has(old, file) /\ y = GetUaf(old, file)
      BY <1>1, <2>2 DEF Known, TheOne
    <3>2. y \in L /\ y.name = old
      BY <1>1, <3>1, GetLive DEF Types
    <3> QED
      BY <1>1, <1>3, <3>2 DEF Types, People
  <2> QED
    BY <2>1, <2>2
<1>5. x \in People /\ x.name = new /\ x.id = y.id /\ x.val = y.val
  BY <1>4 DEF People
<1>6. FileOK(file') /\ Live(file') = {r \in M : r.name # x.name} \cup {x}
  BY <1>1, <1>2, <1>5, PutLive
<1>7. \A r \in Live(file') : r.id < idCounter
  BY <1>2, <1>4, <1>5, <1>6
<1>8. Coherent(L, p, C, latest)
  BY <1>1, Grows
<1>9. \A t \in DOMAIN p : p[t].name = new => p[t].id \in C /\ x.id \in C
  BY <1>1, SeatsAre, BearersAre DEF Named
<1>10. M \subseteq L /\ M \subseteq People
  BY <1>2, <1>3
<1>11. CASE Named(old) # {}
  <2> DEFINE s == Player(old)
             q == [p EXCEPT ![s] = x]
  <2>1. s \in InGame /\ y = session[s].p /\ s \in DOMAIN p /\ p[s] = y
        /\ session[s].stage = "game"
    BY <1>1, <1>11, PlayerIs, SeatsAre, InGameType DEF TheOne
  <2>2. session' = [session EXCEPT ![s] = Copy("game", x)]
    <3>1. session[s] \in [stage : Stages, p : Entries] /\ s \in Slots
      BY <1>1, <2>1 DEF Types, SessionOK, InGame
    <3>2. [session[s] EXCEPT !.p.name = new] = Copy("game", x)
      BY <2>1, <3>1 DEF Copy
    <3> QED
      BY <1>1, <1>11, <3>2
  <2> HIDE DEF s, p, y, x, C, L, f
  <2>3. SessionOK(session', idCounter) /\ Seats(session') = q
    <3>1. Types /\ s \in InGame /\ x \in People /\ x.id < idCounter
      BY <1>1, <1>4, <1>5, <2>1
    <3>2. /\ SessionOK(session', idCounter)
          /\ Seats(session') = [Seats(session) EXCEPT ![s] = x]
      BY <2>2, <3>1, SeatChanged
    <3> QED
      BY <3>2 DEF p
  <2>4. \A r \in L : r.name = old /\ r.id \notin C =>
          latest[r.id] = IF Plays(p, r.id) THEN latest[r.id] ELSE Gone
    BY <1>4, <1>8, <2>1 DEF Coherent, Apart, Plays
  <2>5. Coherent(M, p, C, latest)
    BY <1>2, <1>3, <1>8, <2>4, Deleted
  <2>6. /\ \A t \in DOMAIN p \ {s} : p[t].name = x.name => p[t].id \in C /\ x.id \in C
        /\ \A r \in M : r.name = x.name => r.id = x.id \/ (r.id \in C /\ x.id \in C)
    BY <1>3, <1>5, <1>9, <1>10
  <2>7. \A r \in M : r.id = x.id => r.name = x.name \/ x.id \in C
    BY <1>2, <1>4, <1>5, <1>8, <2>1 DEF Coherent, Apart
  <2>8. x.id \notin C => latest[x.id] = x.val
    BY <1>4, <1>5, <1>8, <2>1 DEF Coherent, Current
  <2>9. Coherent(M, q, C, latest)
    BY <1>5, <2>1, <2>5, <2>6, <2>7, <2>8, Changed
  <2>10. s \in DOMAIN q /\ q[s] = x
    BY <2>1
  <2> HIDE DEF q
  <2>11. Coherent({r \in M : r.name # q[s].name} \cup {q[s]}, q, C, latest)
    BY <1>5, <1>10, <2>9, <2>10, SavedSeat
  <2>12. Coherent(Live(file'), q, C, latest)
    BY <1>6, <2>10, <2>11
  <2> QED
    BY <1>1, <1>6, <1>7, <2>3, <2>12 DEF Inv, Types, C
<1>12. CASE Named(old) = {}
  <2> DEFINE mid == IF Plays(p, y.id) THEN latest ELSE [latest EXCEPT ![y.id] = Gone]
  <2>1. Has(old, file) /\ y = GetUaf(old, file)
    BY <1>1, <1>12 DEF Known, TheOne
  <2>2. y \in L
    BY <1>1, <2>1, GetLive DEF Types
  <2>3. \A t \in DOMAIN p : p[t].name # old
    BY <1>12, SeatsAre DEF Named
  <2>4. /\ mid[y.id] = IF Plays(p, y.id) THEN latest[y.id] ELSE Gone
        /\ \A k \in Ids \ {y.id} : mid[k] = latest[k]
    BY <1>1, <1>4 DEF Types
  <2> HIDE DEF p, y, x, C, L, f, mid
  <2>5. /\ \A r \in L : r.name = old /\ r.id \notin C =>
             mid[r.id] = IF Plays(p, r.id) THEN latest[r.id] ELSE Gone
        /\ \A k \in Ids \ C : (\A r \in L : r.name = old => r.id # k) => mid[k] = latest[k]
    BY <1>3, <1>4, <2>2, <2>4
  <2>6. Coherent(M, p, C, mid)
    BY <1>2, <1>3, <1>8, <2>5, Deleted
  <2>7. /\ \A r \in M : r.id = x.id => r.name = x.name \/ x.id \in C
        /\ \A t \in DOMAIN p : p[t].id = x.id => x.id \in C
    BY <1>2, <1>4, <1>5, <1>8, <2>2, <2>3 DEF Coherent, Apart
  <2>8. \A r \in M : r.name = x.name => r.id = x.id \/ r.id \in C
    BY <1>3, <1>5, <1>10
  <2>9. x.id \notin C =>
          /\ \A t \in DOMAIN p : p[t].id = x.id => latest[x.id] = p[t].val
          /\ ~Plays(p, x.id) => latest[x.id] = x.val
    BY <1>4, <1>5, <1>8, <2>2, <2>7 DEF Coherent, Current
  <2>10. \A t \in DOMAIN p :
           /\ p[t].name = x.name => p[t].id = x.id \/ (p[t].id \in C /\ x.id \in C)
           /\ p[t].id = x.id => p[t].name = x.name \/ x.id \in C
    BY <1>5, <1>9, <2>7
  <2>11. \A k \in Ids \ (C \cup {x.id}) : latest[k] = mid[k]
    BY <1>5, <2>4
  <2>12. Coherent({r \in M : r.name # x.name} \cup {x}, p, C, latest)
    BY <1>5, <1>10, <2>6, <2>7, <2>8, <2>9, <2>10, <2>11, Put
  <2>13. Coherent(Live(file'), p, C, latest)
    BY <1>6, <2>12
  <2>14. session' = session
    BY <1>1, <1>12
  <2> QED
    BY <1>1, <1>6, <1>7, <2>13, <2>14 DEF Inv, Types, C, p
<1> QED
  BY <1>11, <1>12

-----------------------------------------------------------------------------
(* Every step, and the theorems.                                           *)

LEMMA StepInv == Inv /\ [Next]_vars => Inv'
<1> SUFFICES ASSUME Inv, [Next]_vars PROVE Inv'
  OBVIOUS
<1>1. ASSUME NEW s \in Slots, GetPasswd(s) \/ HangUp(s) PROVE Inv'
  BY <1>1, LoginInv
<1>2. ASSUME NEW s \in Slots, Talker(s) PROVE Inv'
  BY <1>2, TalkerInv
<1>3. ASSUME NEW s \in Slots, Save(s) PROVE Inv'
  BY <1>3, SaveInv DEF Save
<1>4. ASSUME NEW s \in Slots, LeaveSaved(s) PROVE Inv'
  BY <1>4, LeaveSavedInv
<1>5. ASSUME NEW s \in Slots, LeaveUnsaved(s) PROVE Inv'
  BY <1>5, LeaveUnsavedInv
<1>6. ASSUME NEW s \in Slots, Zap(s) PROVE Inv'
  BY <1>6, ZapInv
<1>7. ASSUME NEW s \in Slots, NEW v \in Values, GetGender(s, v) PROVE Inv'
  BY <1>7, GetGenderInv
<1>8. ASSUME NEW s \in Slots, NEW n \in Names, GetPname(s, n) PROVE Inv'
  BY <1>8, GetPnameInv
<1>9. ASSUME NEW s \in Slots, NEW n \in Names, Becom(s, n) PROVE Inv'
  BY <1>9, BecomInv
<1>10. ASSUME NEW n \in Names, Delete(n) PROVE Inv'
  BY <1>10, DeleteInv
<1>11. ASSUME NEW n \in Names, CrashInChangeName(n) PROVE Inv'
  BY <1>11, CrashInChangeNameInv
<1>12. ASSUME NEW n \in Names, NEW v \in Values, ChangeInGame(n, v) PROVE Inv'
  BY <1>12, ChangeInGameInv
<1>13. ASSUME NEW n \in Names, NEW v \in Values, ChangeInFile(n, v) PROVE Inv'
  BY <1>13, ChangeInFileInv
<1>14. ASSUME NEW n \in Names, NEW v \in Values, ChangePasswd(n, v) PROVE Inv'
  BY <1>14, ChangePasswdInv
<1>15. ASSUME NEW n \in Names, NEW m \in Names, ChangeName(n, m) PROVE Inv'
  BY <1>15, ChangeNameInv
<1>16. CASE Crash
  <2>1. /\ FileOK(file) /\ \A r \in Live(file) : r.id < idCounter
        /\ Coherent(Live(file), Seats(session), clashed, latest)
    BY DEF Inv, Types
  <2>2. /\ file' = file /\ clashed' = clashed /\ UNCHANGED idCounter
        /\ session' = [s \in Slots |-> Free] /\ latest' = AsInFile(Playing, file)
    BY <1>16 DEF Crash
  <2> QED
    BY <2>1, <2>2, CrashInv
<1>17. CASE UNCHANGED vars
  BY <1>17 DEF vars, Inv, Types
<1> QED
  BY <1>1, <1>2, <1>3, <1>4, <1>5, <1>6, <1>7, <1>8, <1>9, <1>10, <1>11, <1>12, <1>13, <1>14,
     <1>15, <1>16, <1>17 DEF Next

LEMMA InvAlways == Spec => []Inv
BY InitInv, StepInv, PTL DEF Spec

\* No name ever has two records in the persona file, however records were deleted, renamed
\* and written again (uaf.c:157-172).
THEOREM OneRecordCorrect == Spec => []OneRecordEach
<1>1. ASSUME Inv PROVE OneRecordEach
  <2> SUFFICES ASSUME NEW n \in Names PROVE Cardinality(Records(n, file)) <= 1
    BY DEF OneRecordEach
  <2>1. \A i, j \in Records(n, file) : i = j
    BY <1>1, Blanks DEF Inv, Types, FileOK, OneEach, Records
  <2> QED
    BY <2>1, AtMostOne
<1> QED
  BY <1>1, InvAlways, PTL

\* A persona that no clash has befallen is in one record at most and in one player at
\* most, what it was made last is in the player or else in the record, and a deleted one
\* is in neither: SAVE, BECOME, the ways to leave, and what wizards change, in the game
\* and in the file, lose nothing among them (uaf.c, change.c, frob.c, commands.c).
THEOREM LosesCorrect == Spec => []OnlyClashesLose
<1>1. ASSUME Inv PROVE OnlyClashesLose
  <2> DEFINE rows(k) == {i \in DOMAIN file : file[i].name # NoName /\ file[i].id = k}
             seats(k) == {s \in InGame : session[s].p.id = k}
             L == Live(file)
             p == Seats(session)
  <2>1. /\ Types /\ Apart(L, p, clashed) /\ Current(L, p, clashed, latest)
        /\ DOMAIN p = InGame /\ \A s \in InGame : p[s] = session[s].p
    BY <1>1, SeatsAre DEF Inv, Coherent
  <2>2. \A k : \A i \in rows(k) : file[i] \in L /\ file[i].id = k /\ file[i].name # NoName
    BY DEF Live
  <2>3. \A r \in L : \E i \in rows(r.id) : r = file[i]
    BY DEF Live
  <2>4. \A r \in L : r.val # Gone
    BY <2>1, LiveRows, PersonasAssumption DEF Types, People
  <2>5. \A s \in InGame : p[s].val # Gone
    BY <2>1, InGameType, PersonasAssumption DEF People
  <2> HIDE DEF L, p
  <2>6. ASSUME NEW k \in Ids \ clashed
        PROVE  /\ Cardinality(rows(k)) <= 1 /\ Cardinality(seats(k)) <= 1
               /\ latest[k] = Gone => rows(k) = {} /\ seats(k) = {}
               /\ latest[k] # Gone =>
                    IF seats(k) # {} THEN \A s \in seats(k) : session[s].p.val = latest[k]
                    ELSE \E i \in rows(k) : file[i].val = latest[k]
    <3>1. Cardinality(rows(k)) <= 1
      <4>1. \A i, j \in rows(k) : file[i] = file[j]
        BY <2>1, <2>2, <2>6 DEF Apart
      <4>2. \A i, j \in rows(k) : i = j
        BY <2>1, <4>1 DEF Types, FileOK, OneEach
      <4> HIDE DEF rows
      <4> QED
        BY <4>2, AtMostOne
    <3>2. Cardinality(seats(k)) <= 1
      <4>1. \A s, t \in seats(k) : s = t
        BY <2>1, <2>6 DEF Apart
      <4> HIDE DEF seats
      <4> QED
        BY <4>1, AtMostOne
    <3>3. /\ \A s \in seats(k) : Plays(p, k) /\ latest[k] = session[s].p.val
          /\ Plays(p, k) => seats(k) # {}
      BY <2>1, <2>6 DEF Current, Plays
    <3>4. \A i \in rows(k) : ~Plays(p, k) => latest[k] = file[i].val
      BY <2>1, <2>2, <2>6 DEF Current
    <3>5. latest[k] # Gone => Plays(p, k) \/ \E r \in L : r.id = k
      BY <2>1, <2>6 DEF Current
    <3>6. latest[k] = Gone => rows(k) = {} /\ seats(k) = {}
      <4>1. \A s \in seats(k) : latest[k] # Gone
        BY <2>1, <2>5, <3>3
      <4>2. \A i \in rows(k) : Plays(p, k) \/ latest[k] # Gone
        BY <2>2, <2>4, <3>4
      <4> QED
        BY <3>3, <4>1, <4>2
    <3>7. latest[k] # Gone =>
            IF seats(k) # {} THEN \A s \in seats(k) : session[s].p.val = latest[k]
            ELSE \E i \in rows(k) : file[i].val = latest[k]
      BY <2>3, <3>3, <3>4, <3>5
    <3> QED
      BY <3>1, <3>2, <3>6, <3>7
  <2> QED
    BY <2>6 DEF OnlyClashesLose
<1> QED
  BY <1>1, InvAlways, PTL
=============================================================================
