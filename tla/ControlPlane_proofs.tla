-------------------------- MODULE ControlPlane_proofs --------------------------
(***************************************************************************)
(* Proofs about the RPC handlers and their callers, for any registered     *)
(* modules, any number of callers and any requests.                        *)
(*                                                                         *)
(* Every action is a step of one caller; what has to be shown of a call is *)
(* a predicate of its record, its history and the table of loaded modules  *)
(* (Good), so that the other calls are dealt with once (lemma Bystander).  *)
(***************************************************************************)
EXTENDS ControlPlane, FiniteSetTheorems, TLAPS

Names == Registered \cup {Stranger}

CallSet ==
  [op : Asks \cup {"render", "none"}, name : Names, pc : PCs,
   row : DOMAIN Sorted, inst : Inst \cup {None}, from : Inst \cup {None},
   rows : SUBSET Rows, list : SUBSET Registered, code : Codes, gone : BOOLEAN]

PastSet == [present : SUBSET Registered, absent : SUBSET Registered]
EntrySet == [Registered -> Inst \cup {None}]

-----------------------------------------------------------------------------
(* The inductive invariant. *)

\* Where a handler can be for what was asked, and what it holds there.
Shape(k) ==
  /\ k.pc \in {"load", "loading"} => k.op = "load"
  /\ k.pc \in {"unload", "unloading"} => k.op = "unload"
  /\ k.pc \in {"commands", "run", "executing"} => k.op \in Commands
  /\ k.pc \in {"list", "offers"} => k.op = "render"
  /\ k.pc \in {"status", "reading"} => k.op \in {"load", "status", "render"}
  /\ k.pc = "module" => k.op \in {"status", "render"} \cup Commands
  /\ k.pc = "health" => k.op \in {"status", "render"}
  /\ k.pc \in {"health", "run", "executing"} => k.inst \in Inst
  /\ k.pc = "health" => k.op = "render" \/ k.name \in Registered
  /\ k.pc = "list" => k.row = 1
  /\ k.pc = "idle" => k.op = "none"

\* The code of a call in progress, and of one that nobody waits for.
Code(k) ==
  /\ k.gone => k.code = "deadline"
  /\ ~k.gone /\ k.pc # "done" => k.code = "ok"

\* A call that somebody waits for.
Awaited(k) == k.pc # "idle" /\ ~k.gone

\* The history knows what is loaded now.
Current(k, p, e) ==
  Awaited(k) => \A n \in Concerns(k) :
    /\ e[n] # None => n \in p.present
    /\ e[n] = None => n \in p.absent

\* What has been seen on the way to the answer, and the answer itself.
Told(k, p) ==
  Awaited(k) =>
    /\ k.op = "load" /\ k.pc \in {"status", "reading"} => k.name \in p.present
    /\ k.op # "render" /\ k.pc \in {"module", "health", "run", "executing"}
         => k.name \in p.present

TrueAnswer(k, p) ==
  LET present == k.name \in p.present
      absent == k.name \in p.absent \/ k.name = Stranger
  IN Awaited(k) /\ k.pc = "done" =>
       /\ k.op = "load" =>
            /\ k.code = "ok" => present
            /\ k.code = "internal" => present /\ absent
            /\ k.code = "not_found" => k.name = Stranger
            /\ k.code = "denied" => absent /\ k.name # Stranger
       /\ k.op = "unload" => (k.code = "ok" => absent)
       /\ k.op = "status" => (k.code = "ok" => present) /\ (k.code = "not_found" => absent)
       /\ k.op \in Commands =>
            /\ k.code \in {"ok", "failed", "internal"} => present
            /\ k.code = "not_found" => present /\ absent

\* The modules that nobody loaded or unloaded since the call began.
Quiet(p) == Registered \ (p.present \cap p.absent)

\* A command for a quiet module holds the loaded instance.
Reaches(k, p, e) ==
  Awaited(k) /\ k.pc \in {"run", "executing"} /\ k.name \in Quiet(p) => k.inst = e[k.name]

\* The modules whose row of the report is behind the handler.
Visited(k) ==
  IF k.pc \in {"offers", "done"} THEN Registered
  ELSE {Sorted[i] : i \in 1..(k.row - 1)}

RowsOf(k, n) == {r \in k.rows : r.name = n}

\* What the snapshot has of a quiet module.
QuietItem(k, e, n) ==
  /\ k.pc # "list" => (n \in k.list <=> e[n] # None)
  /\ IF n \in Visited(k) /\ e[n] # None
     THEN \E r \in Rows : RowsOf(k, n) = {r} /\ r.sameInstance
     ELSE RowsOf(k, n) = {}
  /\ k.pc \in {"module", "health"} /\ n = Sorted[k.row] => k.from = e[n] /\ e[n] # None
  /\ k.pc = "health" /\ n = Sorted[k.row] => k.inst = e[n]

Faithful(k, p, e) ==
  Awaited(k) /\ k.op = "render" /\ k.code = "ok" =>
    /\ k.pc = "list" => k.rows = {}
    /\ \A n \in Quiet(p) : QuietItem(k, e, n)

Good(k, p, e) ==
  /\ Shape(k) /\ Code(k) /\ Current(k, p, e)
  /\ Told(k, p) /\ TrueAnswer(k, p)
  /\ Reaches(k, p, e) /\ Faithful(k, p, e)

\* What is loaded runs, under its own name.
EntryInv ==
  \A n \in Registered : entry[n] # None => entry[n].module = n /\ entry[n] \in running

\* Whoever holds a lock is where it will give it back.
MutexInv ==
  \A i \in Inst : modMu[i] # None =>
    call[modMu[i]].pc = "executing" /\ call[modMu[i]].inst = i
LockInv ==
  /\ writer # None => call[writer].pc \in {"loading", "unloading"}
  /\ \A c \in readers : call[c].pc = "reading"

CallsInv == \A c \in Callers : Good(call[c], past[c], entry)

Inv == TypeOK /\ EntryInv /\ MutexInv /\ LockInv /\ CallsInv

-----------------------------------------------------------------------------
(* The constants. *)

\* Facts about the names, levels and requests.
LEMMA Constants ==
  /\ Registered # {}
  /\ Stranger \notin Registered
  /\ None \notin Inst /\ None \notin Callers
  /\ Levels \subseteq {"healthy", "degraded", "unhealthy"}
  /\ Tray \in Callers
  /\ \A q \in Requests : q[1] \in Callers /\ q[2] \in Asks /\ q[3] \in Names
  BY ConstantsAssumption DEF Registered, Callers, Names

\* Facts about the module list.
LEMMA Rowing ==
  /\ Sorted \in Seq(Registered)
  /\ DOMAIN Sorted = 1..Len(Sorted) /\ Len(Sorted) \in Nat /\ 1 \in DOMAIN Sorted
  /\ \A i \in DOMAIN Sorted : Sorted[i] \in Registered
  /\ \A i, j \in DOMAIN Sorted : Sorted[i] = Sorted[j] => i = j
  BY ConstantsAssumption DEF Registered

\* The record of a caller without a call.
LEMMA IdleType == Idle \in CallSet /\ NoPast \in PastSet
  BY Rowing DEF Idle, NoPast, CallSet, PastSet, Names, PCs, Codes

\* There are more generations than references to instances of a module that
\* is not loaded, so a load finds a new instance.
LEMMA Fresh ==
  ASSUME TypeOK, EntryInv, NEW n \in Registered, entry[n] = None
  PROVE  \E j \in Inst : j.module = n /\ j \notin Referenced
  <1> SUFFICES ASSUME \A j \in Inst : j.module = n => j \in Referenced
               PROVE  FALSE
    OBVIOUS
  <1> DEFINE held == [c \in Callers |-> call[c].inst]
             read == [c \in Callers |-> call[c].from]
             H == {held[c] : c \in Callers}
             R == {read[c] : c \in Callers}
             f == [g \in Gens |-> [module |-> n, gen |-> g]]
  <1>1. IsFiniteSet(Callers) /\ Cardinality(Callers) \in Nat
    <2>1. IsFiniteSet(Users) BY ConstantsAssumption
    <2>2. IsFiniteSet(Users \cup {Tray}) BY <2>1, FS_AddElement
    <2> QED BY <2>2, FS_CardinalityType DEF Callers
  <1>2. IsFiniteSet(H) /\ Cardinality(H) <= Cardinality(Callers)
    <2>1. held \in Surjection(Callers, H) BY DEF Surjection
    <2> QED BY <1>1, <2>1, FS_Surjection
  <1>3. IsFiniteSet(R) /\ Cardinality(R) <= Cardinality(Callers)
    <2>1. read \in Surjection(Callers, R) BY DEF Surjection
    <2> QED BY <1>1, <2>1, FS_Surjection
  <1>4. IsFiniteSet(H \cup R) /\ Cardinality(H \cup R) <= Cardinality(H) + Cardinality(R)
    <2> HIDE DEF H, R
    <2>1. IsFiniteSet(H \cap R) BY <1>2, FS_Intersection
    <2>2. Cardinality(H) \in Nat /\ Cardinality(R) \in Nat /\ Cardinality(H \cap R) \in Nat
      BY <1>2, <1>3, <2>1, FS_CardinalityType
    <2>3. /\ IsFiniteSet(H \cup R)
          /\ Cardinality(H \cup R) = Cardinality(H) + Cardinality(R) - Cardinality(H \cap R)
      BY <1>2, <1>3, FS_Union
    <2> QED BY <2>2, <2>3
  <1>5. f \in Injection(Gens, H \cup R)
    <2>1. ASSUME NEW g \in Gens PROVE f[g] \in H \cup R
      <3>1. f[g] \in Inst /\ f[g].module = n BY DEF Inst
      <3>2. f[g] \in Referenced BY <3>1
      <3>3. ASSUME NEW m \in Registered PROVE entry[m] # f[g]
        BY <3>1, Constants DEF EntryInv
      <3> QED BY <3>2, <3>3 DEF Referenced
    <2>2. f \in [Gens -> H \cup R] BY <2>1
    <2>3. \A a, b \in Gens : f[a] = f[b] => a = b OBVIOUS
    <2> QED BY <2>2, <2>3 DEF Injection, IsInjective
  <1>6. Cardinality(Gens) <= Cardinality(H \cup R) BY <1>4, <1>5, FS_Injection
  <1>7. Cardinality(Gens) > 2 * Cardinality(Callers) /\ Cardinality(Gens) \in Nat
    BY ConstantsAssumption, FS_CardinalityType
  <1>8. Cardinality(H) \in Nat /\ Cardinality(R) \in Nat /\ Cardinality(H \cup R) \in Nat
    BY <1>2, <1>3, <1>4, FS_CardinalityType
  <1> HIDE DEF H, R, f
  <1> QED BY <1>1, <1>2, <1>3, <1>4, <1>6, <1>7, <1>8

-----------------------------------------------------------------------------
(* The history. *)

Noted(k, p, e) ==
  LET ns == IF k.pc = "idle" \/ k.gone THEN {} ELSE Concerns(k)
      in == {n \in ns : e[n] # None}
  IN [present |-> p.present \cup in, absent |-> p.absent \cup (ns \ in)]

\* A rendering is about all modules, another call about its own.
LEMMA Concerned ==
  ASSUME NEW k \in CallSet
  PROVE  Concerns(k) \subseteq Registered /\ (k.op = "render" => Concerns(k) = Registered)
         /\ (k.op # "render" /\ k.name \in Registered => k.name \in Concerns(k))
  BY DEF Concerns

\* What noting adds to a history.
LEMMA NotedType ==
  ASSUME NEW k \in CallSet, NEW p \in PastSet, NEW e
  PROVE  /\ Noted(k, p, e) \in PastSet
         /\ p.present \subseteq Noted(k, p, e).present
         /\ p.absent \subseteq Noted(k, p, e).absent
         /\ Current(k, Noted(k, p, e), e)
  BY Concerned DEF Noted, PastSet, Current, Awaited

\* A change turns what was loaded into what is not, or the other way round.
Flips(e, f) == \A n \in Registered : f[n] # e[n] => (e[n] = None <=> f[n] # None)

\* The steps of others do not disturb a call: what it has seen stays true, and
\* a module that changes under it is not quiet any more.
LEMMA Bystander ==
  ASSUME NEW k \in CallSet, NEW p \in PastSet, NEW e \in EntrySet, NEW f \in EntrySet,
         Flips(e, f), Good(k, p, e)
  PROVE  Good(k, Noted(k, p, f), f)
  <1> DEFINE q == Noted(k, p, f)
  <1>1. /\ q \in PastSet /\ p.present \subseteq q.present /\ p.absent \subseteq q.absent
        /\ Current(k, q, f)
    BY NotedType
  <1> HIDE DEF q
  <1>2. Shape(k) /\ Code(k) BY DEF Good
  <1>3. Told(k, q) BY <1>1 DEF Good, Told
  <1>4. TrueAnswer(k, q) BY <1>1 DEF Good, TrueAnswer
  <1>5. ASSUME Awaited(k), NEW n \in Quiet(q), n \in Concerns(k)
        PROVE  n \in Quiet(p) /\ f[n] = e[n]
    <2>1. n \in Registered /\ ~(n \in q.present /\ n \in q.absent) BY DEF Quiet
    <2>2. n \in Quiet(p) BY <1>1, <2>1 DEF Quiet
    <2>3. /\ e[n] # None => n \in p.present
          /\ e[n] = None => n \in p.absent
      BY <1>5 DEF Good, Current
    <2>4. /\ f[n] # None => n \in q.present
          /\ f[n] = None => n \in q.absent
      BY <1>1, <1>5 DEF Current
    <2> QED BY <1>1, <2>1, <2>2, <2>3, <2>4 DEF Flips
  <1>6. Reaches(k, q, f)
    <2> SUFFICES ASSUME Awaited(k), k.pc \in {"run", "executing"}, k.name \in Quiet(q)
                 PROVE  k.inst = f[k.name]
      BY DEF Reaches
    <2>1. k.op # "render" BY <1>2 DEF Shape, Commands
    <2>2. k.name \in Concerns(k) BY <2>1, Concerned DEF Quiet
    <2>3. k.name \in Quiet(p) /\ f[k.name] = e[k.name] BY <1>5, <2>2
    <2> QED BY <2>3 DEF Good, Reaches
  <1>7. Faithful(k, q, f)
    <2> SUFFICES ASSUME Awaited(k), k.op = "render", k.code = "ok"
                 PROVE  /\ k.pc = "list" => k.rows = {}
                        /\ \A n \in Quiet(q) : QuietItem(k, f, n)
      BY DEF Faithful
    <2>1. /\ k.pc = "list" => k.rows = {}
          /\ \A n \in Quiet(p) : QuietItem(k, e, n)
      BY DEF Good, Faithful
    <2>2. ASSUME NEW n \in Quiet(q) PROVE QuietItem(k, f, n)
      <3>1. n \in Concerns(k) BY Concerned DEF Quiet
      <3>2. n \in Quiet(p) /\ f[n] = e[n] BY <1>5, <3>1
      <3>3. QuietItem(k, e, n) BY <2>1, <3>2
      <3> QED BY <3>2, <3>3 DEF QuietItem
    <2> QED BY <2>1, <2>2
  <1> QED BY <1>1, <1>2, <1>3, <1>4, <1>6, <1>7 DEF Good, q

-----------------------------------------------------------------------------
(* The shape of a step: one caller's record changes. *)

\* The type invariant in the terms of this module.
LEMMA Types ==
  TypeOK <=> /\ entry \in EntrySet
             /\ running \subseteq Inst
             /\ writer \in Callers \cup {None} /\ readers \subseteq Callers
             /\ modMu \in [Inst -> Callers \cup {None}]
             /\ call \in [Callers -> CallSet]
             /\ past \in [Callers -> PastSet]
  BY DEF TypeOK, EntrySet, CallSet, PastSet, Names

\* The same after a step.
LEMMA TypesNext ==
  TypeOK' <=> /\ entry' \in EntrySet
              /\ running' \subseteq Inst
              /\ writer' \in Callers \cup {None} /\ readers' \subseteq Callers
              /\ modMu' \in [Inst -> Callers \cup {None}]
              /\ call' \in [Callers -> CallSet]
              /\ past' \in [Callers -> PastSet]
  BY DEF TypeOK, EntrySet, CallSet, PastSet, Names

\* A step that loads and unloads nothing.
LEMMA QuietStep ==
  ASSUME TypeOK, CallsInv, NEW c \in Callers, NEW k \in CallSet, NEW p \in PastSet,
         call' = [call EXCEPT ![c] = k], past' = [past EXCEPT ![c] = p], entry' = entry,
         Good(k, p, entry)
  PROVE  /\ call' \in [Callers -> CallSet] /\ past' \in [Callers -> PastSet]
         /\ call'[c] = k /\ \A d \in Callers : d # c => call'[d] = call[d]
         /\ CallsInv'
  <1>1. call \in [Callers -> CallSet] /\ past \in [Callers -> PastSet] BY Types
  <1>2. /\ call' \in [Callers -> CallSet] /\ past' \in [Callers -> PastSet]
        /\ call'[c] = k /\ \A d \in Callers : d # c => call'[d] = call[d]
        /\ past'[c] = p /\ \A d \in Callers : d # c => past'[d] = past[d]
    BY <1>1
  <1>3. ASSUME NEW d \in Callers PROVE Good(call'[d], past'[d], entry')
    <2>1. CASE d = c BY <1>2, <2>1
    <2>2. CASE d # c
      <3>1. Good(call[d], past[d], entry) BY DEF CallsInv
      <3>2. call'[d] = call[d] /\ past'[d] = past[d] BY <1>2, <2>2
      <3> QED BY <3>1, <3>2
    <2> QED BY <2>1, <2>2
  <1> QED BY <1>2, <1>3 DEF CallsInv

\* A step whose outcome every call notes.
LEMMA NotedStep ==
  ASSUME TypeOK, CallsInv, NEW c \in Callers, NEW k \in CallSet,
         call' = [call EXCEPT ![c] = k], Note, entry' \in EntrySet, Flips(entry, entry'),
         Good(k, Noted(k, past[c], entry'), entry')
  PROVE  /\ call' \in [Callers -> CallSet] /\ past' \in [Callers -> PastSet]
         /\ call'[c] = k /\ \A d \in Callers : d # c => call'[d] = call[d]
         /\ CallsInv'
  <1>1. call \in [Callers -> CallSet] /\ past \in [Callers -> PastSet] /\ entry \in EntrySet
    BY Types
  <1>2. /\ call' \in [Callers -> CallSet]
        /\ call'[c] = k /\ \A d \in Callers : d # c => call'[d] = call[d]
    BY <1>1
  <1>3. past' = [d \in Callers |-> Noted(call'[d], past[d], entry')]
    BY DEF Note, Noted
  <1>4. past' \in [Callers -> PastSet]
    <2>1. ASSUME NEW d \in Callers PROVE Noted(call'[d], past[d], entry') \in PastSet
      BY <1>1, <1>2, NotedType
    <2> QED BY <1>3, <2>1
  <1>5. ASSUME NEW d \in Callers PROVE Good(call'[d], past'[d], entry')
    <2>1. past'[d] = Noted(call'[d], past[d], entry') BY <1>3
    <2>2. CASE d = c BY <1>2, <2>1, <2>2
    <2>3. CASE d # c
      <3>1. Good(call[d], past[d], entry) BY DEF CallsInv
      <3>2. call[d] \in CallSet /\ past[d] \in PastSet BY <1>1
      <3>3. Good(call[d], Noted(call[d], past[d], entry'), entry')
        BY <1>1, <3>1, <3>2, Bystander
      <3>4. call'[d] = call[d] BY <1>2, <2>3
      <3> QED BY <2>1, <3>3, <3>4
    <2> QED BY <2>2, <2>3
  <1> QED BY <1>2, <1>4, <1>5 DEF CallsInv

\* A step that changes neither the modules nor the locks, by a caller that
\* holds no lock or stays where it is.
LEMMA OwnStep ==
  ASSUME Inv, NEW c \in Callers, NEW k \in CallSet, NEW p \in PastSet,
         call' = [call EXCEPT ![c] = k], past' = [past EXCEPT ![c] = p],
         UNCHANGED <<daemon, locks>>, Good(k, p, entry),
         \/ call[c].pc \notin {"loading", "unloading", "reading", "executing"}
         \/ k.pc = call[c].pc /\ k.inst = call[c].inst
  PROVE  Inv'
  <1>1. UNCHANGED <<entry, running, writer, readers, modMu>> BY DEF daemon, locks
  <1>2. /\ call' \in [Callers -> CallSet] /\ past' \in [Callers -> PastSet]
        /\ call'[c] = k /\ (\A d \in Callers : d # c => call'[d] = call[d])
        /\ CallsInv'
    BY <1>1, QuietStep DEF Inv
  <1>3. TypeOK' BY <1>1, <1>2, Types, TypesNext DEF Inv
  <1>4. EntryInv' BY <1>1 DEF Inv, EntryInv
  <1>5. MutexInv' /\ LockInv' BY <1>1, <1>2, Types DEF Inv, MutexInv, LockInv
  <1> QED BY <1>2, <1>3, <1>4, <1>5 DEF Inv

\* What the invariant says of one call.
LEMMA CallFacts ==
  ASSUME Inv, NEW c \in Callers
  PROVE  /\ call[c] \in CallSet /\ past[c] \in PastSet /\ entry \in EntrySet
         /\ Good(call[c], past[c], entry)
         /\ past = [past EXCEPT ![c] = past[c]]
  BY Types DEF Inv, CallsInv

\* What an answer changes in a call's record.
LEMMA AnsweredFields ==
  ASSUME Inv, NEW c \in Callers, NEW code \in Codes
  PROVE  LET k == call[c]
             a == Answered(c, code)
         IN /\ a \in CallSet /\ a.pc = "done" /\ a.op = k.op /\ a.name = k.name
            /\ a.row = k.row /\ a.rows = k.rows /\ a.list = k.list /\ a.gone = k.gone
            /\ a.inst = None /\ a.from = None
            /\ a.code = IF k.gone THEN k.code ELSE code
  <1>1. call[c] \in CallSet BY CallFacts
  <1> QED BY <1>1 DEF Answered, CallSet, PCs

\* An answer that is true keeps a call good.
LEMMA AnswerGood ==
  ASSUME Inv, NEW c \in Callers, NEW code \in Codes, NEW p \in PastSet, NEW e \in EntrySet,
         call[c].pc # "idle", call[c].op # "render",
         Current(Answered(c, code), p, e), TrueAnswer(Answered(c, code), p)
  PROVE  Answered(c, code) \in CallSet /\ Good(Answered(c, code), p, e)
  <1> DEFINE a == Answered(c, code)
  <1>1. /\ a \in CallSet /\ a.pc = "done" /\ a.op = call[c].op /\ a.name = call[c].name
        /\ a.gone = call[c].gone
        /\ a.code = IF call[c].gone THEN call[c].code ELSE code
    BY AnsweredFields
  <1> HIDE DEF a
  <1>2. Shape(a) BY <1>1 DEF Shape
  <1>3. Code(a)
    <2>1. Code(call[c]) BY CallFacts DEF Good
    <2> QED BY <1>1, <2>1 DEF Code
  <1>4. Told(a, p) BY <1>1 DEF Told
  <1>5. Reaches(a, p, e) /\ Faithful(a, p, e) BY <1>1 DEF Reaches, Faithful
  <1> QED BY <1>1, <1>2, <1>3, <1>4, <1>5 DEF Good, a

\* The same, in a step that loads and unloads nothing.
LEMMA AnswerNow ==
  ASSUME Inv, NEW c \in Callers, NEW code \in Codes,
         call[c].pc # "idle", call[c].op # "render",
         TrueAnswer(Answered(c, code), past[c])
  PROVE  Answered(c, code) \in CallSet /\ Good(Answered(c, code), past[c], entry)
  <1>1. Current(Answered(c, code), past[c], entry)
    <2>1. Current(call[c], past[c], entry) BY CallFacts DEF Good
    <2>2. /\ Answered(c, code).op = call[c].op /\ Answered(c, code).name = call[c].name
          /\ Answered(c, code).gone = call[c].gone
      BY AnsweredFields
    <2> QED BY <2>1, <2>2 DEF Current, Awaited, Concerns
  <1> QED BY <1>1, CallFacts, AnswerGood

\* To the next row of the report: the row that is left is complete.
LEMMA AdvanceGood ==
  ASSUME Inv, NEW c \in Callers, NEW k \in CallSet,
         k.op = "render", k.pc \in {"reading", "module", "health", "offers"},
         /\ k.op = call[c].op /\ k.name = call[c].name /\ k.pc = call[c].pc
         /\ k.row = call[c].row /\ k.list = call[c].list /\ k.code = call[c].code
         /\ k.gone = call[c].gone,
         ~k.gone => \A n \in Quiet(past[c]) :
           /\ n \in k.list <=> entry[n] # None
           /\ IF n \in Visited(k) \cup {Sorted[k.row]} /\ entry[n] # None
              THEN \E r \in Rows : RowsOf(k, n) = {r} /\ r.sameInstance
              ELSE RowsOf(k, n) = {}
  PROVE  Advance(c, k) \in CallSet /\ Good(Advance(c, k), past[c], entry)
  <1> DEFINE a == Advance(c, k)
             p == past[c]
  <1>0. /\ Shape(call[c]) /\ Code(call[c]) /\ Current(call[c], p, entry)
        /\ p \in PastSet /\ k.row \in 1..Len(Sorted) /\ Len(Sorted) \in Nat
    BY CallFacts, Rowing DEF Good, CallSet
  <1>1. /\ a \in CallSet
        /\ a.op = k.op /\ a.name = k.name /\ a.gone = k.gone /\ a.code = k.code
        /\ a.list = k.list /\ a.rows = k.rows
        /\ a.pc \in {"status", "offers", "done"}
        /\ Visited(k) \cup {Sorted[k.row]} = Visited(a)
    <2>1. CASE k.row < Len(Sorted)
      <3>1. a = [k EXCEPT !.row = k.row + 1, !.pc = IF k.pc = "offers" THEN k.pc ELSE "status"]
        BY <2>1 DEF Advance
      <3>2. k.row + 1 \in DOMAIN Sorted BY <1>0, <2>1, Rowing
      <3>3. /\ a \in CallSet
            /\ a.op = k.op /\ a.name = k.name /\ a.gone = k.gone /\ a.code = k.code
            /\ a.list = k.list /\ a.rows = k.rows /\ a.row = k.row + 1
            /\ a.pc = IF k.pc = "offers" THEN "offers" ELSE "status"
        BY <3>1, <3>2 DEF CallSet, PCs
      <3>4. Visited(k) \cup {Sorted[k.row]} = Visited(a)
        <4>1. CASE k.pc = "offers"
          BY <1>0, <3>3, <4>1, Rowing DEF Visited
        <4>2. CASE k.pc # "offers"
          <5>1. 1..(k.row - 1) \cup {k.row} = 1..k.row /\ (k.row + 1) - 1 = k.row
            BY <1>0
          <5>2. Visited(k) = {Sorted[i] : i \in 1..(k.row - 1)} BY <4>2 DEF Visited
          <5>3. Visited(a) = {Sorted[i] : i \in 1..k.row} BY <3>3, <4>2, <5>1 DEF Visited
          <5> QED BY <5>1, <5>2, <5>3
        <4> QED BY <4>1, <4>2
      <3> QED BY <3>3, <3>4
    <2>2. CASE ~(k.row < Len(Sorted)) /\ k.pc # "offers"
      <3>1. a = [k EXCEPT !.row = 1, !.pc = "offers"] BY <2>2 DEF Advance
      <3>2. /\ a \in CallSet
            /\ a.op = k.op /\ a.name = k.name /\ a.gone = k.gone /\ a.code = k.code
            /\ a.list = k.list /\ a.rows = k.rows /\ a.pc = "offers"
        BY <3>1, Rowing DEF CallSet, PCs
      <3>3. k.row = Len(Sorted) BY <1>0, <2>2
      <3>4. Visited(k) = {Sorted[i] : i \in 1..(k.row - 1)} BY <2>2 DEF Visited
      <3>5. Registered = {Sorted[i] : i \in 1..k.row} BY <3>3, Rowing DEF Registered
      <3>6. 1..(k.row - 1) \cup {k.row} = 1..k.row BY <1>0
      <3>7. Visited(a) = Registered BY <3>2 DEF Visited
      <3> QED BY <3>2, <3>4, <3>5, <3>6, <3>7
    <2>3. CASE ~(k.row < Len(Sorted)) /\ k.pc = "offers"
      <3>1. a = [Answered(c, "ok") EXCEPT !.rows = k.rows] BY <2>3 DEF Advance
      <3>2. "ok" \in Codes BY DEF Codes
      <3>3. k.gone \in BOOLEAN /\ k.rows \in SUBSET Rows BY DEF CallSet
      <3>4. ~k.gone => k.code = "ok" BY <1>0, <2>3 DEF Code
      <3>5. /\ a \in CallSet
            /\ a.op = k.op /\ a.name = k.name /\ a.gone = k.gone /\ a.code = k.code
            /\ a.list = k.list /\ a.rows = k.rows /\ a.pc = "done"
        BY <3>1, <3>2, <3>3, <3>4, AnsweredFields DEF CallSet
      <3>6. Visited(k) = Registered /\ Visited(a) = Registered BY <2>3, <3>5 DEF Visited
      <3> QED BY <1>0, <3>5, <3>6, Rowing
    <2> QED BY <2>1, <2>2, <2>3
  <1> HIDE DEF a
  <1>2. Shape(a) BY <1>1 DEF Shape
  <1>3. Code(a) BY <1>0, <1>1 DEF Code
  <1>4. Current(a, p, entry) BY <1>0, <1>1 DEF Current, Awaited, Concerns
  <1>5. Told(a, p) /\ TrueAnswer(a, p) /\ Reaches(a, p, entry)
    BY <1>1 DEF Told, TrueAnswer, Reaches, Commands
  <1>6. Faithful(a, p, entry)
    <2> SUFFICES ASSUME ~k.gone, NEW n \in Quiet(p) PROVE QuietItem(a, entry, n)
      BY <1>1 DEF Faithful, Awaited
    <2>1. RowsOf(a, n) = RowsOf(k, n) BY <1>1 DEF RowsOf
    <2> QED BY <1>1, <2>1 DEF QuietItem
  <1> QED BY <1>1, <1>2, <1>3, <1>4, <1>5, <1>6 DEF Good, a

-----------------------------------------------------------------------------
(* The callers. *)

\* Call, by the command line or the tray, refused or let in.
LEMMA CallKeeps ==
  ASSUME Inv, NEW c \in Callers, NEW op \in Asks \cup {"render"}, NEW n \in Names,
         NEW allowed \in BOOLEAN, Call(c, op, n, allowed)
  PROVE  Inv'
  <1> DEFINE checked == PeerCheck(op, allowed)
             k == [Idle EXCEPT !.op = op, !.name = n, !.pc = checked.pc, !.code = checked.code]
             q == Noted(k, past[c], entry)
  <1>1. call' = [call EXCEPT ![c] = k] /\ entry' = entry /\ Note
        /\ UNCHANGED <<running, writer, readers, modMu>> /\ call[c].pc = "idle"
    BY DEF Call, At, daemon, locks
  <1>2. /\ checked.pc \in {"load", "unload", "status", "list", "commands", "done"}
        /\ checked.pc \in {"load", "unload", "status"} => checked.pc = op
        /\ checked.pc = "list" => op = "render"
        /\ checked.pc = "commands" => op \in Commands
        /\ checked.pc # "done" => checked.code = "ok"
        /\ checked.pc = "done" => checked.code = IF op \in Commands THEN "no_command" ELSE "refused"
    BY DEF PeerCheck, FirstStep, Asks, Commands
  <1>3. /\ k.op = op /\ k.name = n /\ k.pc = checked.pc /\ k.code = checked.code
        /\ k.row = 1 /\ k.inst = None /\ k.from = None /\ k.rows = {} /\ k.list = {}
        /\ k.gone = FALSE
    BY DEF Idle
  <1>4. k \in CallSet
    <2>1. checked.pc \in PCs /\ checked.code \in Codes BY <1>2 DEF PCs, Codes
    <2> QED BY <2>1, IdleType DEF CallSet, Idle
  <1> HIDE DEF k, checked
  <1>5. past[c] \in PastSet /\ entry \in EntrySet BY Types DEF Inv
  <1>6. q \in PastSet /\ Current(k, q, entry) BY <1>4, <1>5, NotedType
  <1> HIDE DEF q
  <1>7. Shape(k) /\ Code(k) /\ Told(k, q) /\ TrueAnswer(k, q)
    BY <1>2, <1>3 DEF Shape, Code, Told, TrueAnswer, Commands
  <1>8. Reaches(k, q, entry) BY <1>2, <1>3 DEF Reaches
  <1>9. Faithful(k, q, entry)
    <2> SUFFICES ASSUME k.op = "render", k.code = "ok"
                 PROVE  \A m \in Quiet(q) : QuietItem(k, entry, m)
      BY <1>3 DEF Faithful
    <2>1. k.pc = "list" BY <1>2, <1>3 DEF Commands, Asks
    <2>2. Visited(k) = {} BY <1>3, <2>1 DEF Visited
    <2> QED BY <1>3, <2>1, <2>2 DEF QuietItem, RowsOf
  <1>10. Good(k, q, entry) BY <1>6, <1>7, <1>8, <1>9 DEF Good
  <1>11. Flips(entry, entry') BY <1>1 DEF Flips
  <1>12. /\ call' \in [Callers -> CallSet] /\ past' \in [Callers -> PastSet]
         /\ call'[c] = k /\ (\A d \in Callers : d # c => call'[d] = call[d])
         /\ CallsInv'
    BY <1>1, <1>4, <1>5, <1>10, <1>11, NotedStep DEF Inv, q
  <1>13. TypeOK' BY <1>1, <1>5, <1>12, Types, TypesNext DEF Inv
  <1>14. EntryInv' BY <1>1 DEF Inv, EntryInv
  <1>15. MutexInv' /\ LockInv' BY <1>1, <1>12, Types DEF Inv, MutexInv, LockInv
  <1> QED BY <1>12, <1>13, <1>14, <1>15 DEF Inv

\* BuildRoot: a command that exists was loaded when ListCommands answered.
LEMMA BuildRootKeeps ==
  ASSUME Inv, NEW c \in Callers, BuildRoot(c)
  PROVE  Inv'
  <1> DEFINE k == call[c]
             p == past[c]
  <1>1. /\ k \in CallSet /\ p \in PastSet /\ Good(k, p, entry)
        /\ k.pc = "commands" /\ past' = [past EXCEPT ![c] = p]
        /\ call \in [Callers -> CallSet] /\ UNCHANGED <<daemon, locks>>
    BY CallFacts, Types DEF BuildRoot, At, Inv
  <1>2. k.op \in Commands /\ k.op # "render" BY <1>1 DEF Good, Shape, Commands
  <1>3. CASE Loaded(k.name) # None /\ Goto(c, "module")
    <2> DEFINE a == [k EXCEPT !.pc = "module"]
    <2>1. call' = [call EXCEPT ![c] = a] BY <1>1, <1>3 DEF Goto
    <2>2. /\ a \in CallSet /\ a.pc = "module" /\ a.op = k.op /\ a.name = k.name
          /\ a.gone = k.gone /\ a.code = k.code
      BY <1>1 DEF CallSet, PCs
    <2> HIDE DEF a
    <2>3. Shape(a) BY <1>2, <2>2 DEF Shape
    <2>4. Code(a) BY <1>1, <2>2 DEF Good, Code
    <2>5. Current(a, p, entry) BY <1>1, <2>2 DEF Good, Current, Awaited, Concerns
    <2>6. Told(a, p)
      <3>1. k.name \in Registered /\ entry[k.name] # None BY <1>3 DEF Loaded
      <3>2. k.name \in Concerns(a) BY <1>2, <2>2, <3>1, Concerned
      <3>3. Awaited(a) => k.name \in p.present BY <2>5, <3>1, <3>2 DEF Current
      <3> QED BY <2>2, <3>3 DEF Told
    <2>7. TrueAnswer(a, p) /\ Reaches(a, p, entry) /\ Faithful(a, p, entry)
      BY <1>2, <2>2 DEF TrueAnswer, Reaches, Faithful
    <2>8. Good(a, p, entry) BY <2>3, <2>4, <2>5, <2>6, <2>7 DEF Good
    <2> QED BY <1>1, <2>1, <2>2, <2>8, OwnStep
  <1>4. CASE Answer(c, "no_command")
    <2> DEFINE a == Answered(c, "no_command")
    <2>1. "no_command" \in Codes BY DEF Codes
    <2>2. a.op = k.op /\ a.gone = k.gone /\ (~k.gone => a.code = "no_command")
      BY <2>1, AnsweredFields
    <2>3. TrueAnswer(a, p) BY <1>2, <2>2 DEF TrueAnswer, Awaited, Commands
    <2>4. a \in CallSet /\ Good(a, p, entry) BY <1>1, <1>2, <2>1, <2>3, AnswerNow
    <2>5. call' = [call EXCEPT ![c] = a] BY <1>4 DEF Answer
    <2> HIDE DEF a
    <2> QED BY <1>1, <2>4, <2>5, OwnStep
  <1> QED BY <1>3, <1>4 DEF BuildRoot

\* Nobody waits for the call any more: only its place counts.
LEMMA GoneGood ==
  ASSUME NEW k \in CallSet, NEW p, NEW e, k.gone, k.code = "deadline", Shape(k)
  PROVE  Good(k, p, e)
  BY DEF Good, Code, Current, Told, TrueAnswer, Reaches, Faithful, Awaited

\* GiveUp: the handler goes on where it is.
LEMMA GiveUpKeeps ==
  ASSUME Inv, NEW c \in Callers, GiveUp(c)
  PROVE  Inv'
  <1> DEFINE k == call[c]
             a == [k EXCEPT !.gone = TRUE, !.code = "deadline", !.rows = {}, !.list = {}]
  <1>1. k \in CallSet /\ Shape(k) /\ call \in [Callers -> CallSet]
    BY CallFacts, Types DEF Good, Inv
  <1>2. call' = [call EXCEPT ![c] = a] BY <1>1 DEF GiveUp
  <1>3. /\ a \in CallSet /\ a.gone /\ a.code = "deadline" /\ a.pc = k.pc /\ a.op = k.op
        /\ a.name = k.name /\ a.row = k.row /\ a.inst = k.inst
    BY <1>1 DEF CallSet, Codes
  <1> HIDE DEF a
  <1>4. Shape(a) BY <1>1, <1>3 DEF Shape
  <1>5. Good(a, NoPast, entry) BY <1>3, <1>4, GoneGood
  <1>6. past' = [past EXCEPT ![c] = NoPast] /\ UNCHANGED <<daemon, locks>> BY DEF GiveUp
  <1> QED BY <1>2, <1>3, <1>5, <1>6, IdleType, OwnStep

\* Nothing is asked of a caller without a call.
LEMMA IdleGood ==
  ASSUME NEW p, NEW e
  PROVE  Good(Idle, p, e)
  BY DEF Good, Shape, Code, Current, Told, TrueAnswer, Reaches, Faithful, Awaited, Idle

\* Return.
LEMMA ReturnKeeps ==
  ASSUME Inv, NEW c \in Callers, Return(c)
  PROVE  Inv'
  <1>1. /\ call' = [call EXCEPT ![c] = Idle] /\ past' = [past EXCEPT ![c] = NoPast]
        /\ UNCHANGED <<daemon, locks>> /\ call[c].pc = "done"
    BY DEF Return, At
  <1>2. Good(Idle, NoPast, entry) BY IdleGood
  <1> QED BY <1>1, <1>2, IdleType, OwnStep

-----------------------------------------------------------------------------
(* Handlers that read. *)

\* ListModules: the list is exact when it is read.
LEMMA ListKeeps ==
  ASSUME Inv, NEW c \in Callers, List(c)
  PROVE  Inv'
  <1> DEFINE k == call[c]
             p == past[c]
             shown == {n \in Registered : entry[n] # None}
             a == [k EXCEPT !.pc = "status", !.list = shown]
  <1>1. /\ k \in CallSet /\ p \in PastSet /\ Good(k, p, entry)
        /\ k.pc = "list" /\ past' = [past EXCEPT ![c] = p]
        /\ call \in [Callers -> CallSet] /\ UNCHANGED <<daemon, locks>>
    BY CallFacts, Types DEF List, At, Inv
  <1>2. k.op = "render" /\ k.row = 1 BY <1>1 DEF Good, Shape
  <1>3. call' = [call EXCEPT ![c] = a] BY <1>1 DEF List
  <1>4. /\ a \in CallSet /\ a.pc = "status" /\ a.op = k.op /\ a.name = k.name /\ a.row = 1
        /\ a.gone = k.gone /\ a.code = k.code /\ a.list = shown /\ a.rows = k.rows
    BY <1>1, <1>2 DEF CallSet, PCs
  <1> HIDE DEF a
  <1>5. Shape(a) /\ Told(a, p) /\ TrueAnswer(a, p) /\ Reaches(a, p, entry)
    BY <1>2, <1>4 DEF Shape, Told, TrueAnswer, Reaches
  <1>6. Code(a) BY <1>1, <1>4 DEF Good, Code
  <1>7. Current(a, p, entry) BY <1>1, <1>4 DEF Good, Current, Awaited, Concerns
  <1>8. Faithful(a, p, entry)
    <2> SUFFICES ASSUME Awaited(a), a.code = "ok", NEW n \in Quiet(p)
                 PROVE  QuietItem(a, entry, n)
      BY <1>4 DEF Faithful
    <2>1. a.rows = {} BY <1>1, <1>2, <1>4 DEF Good, Faithful, Awaited
    <2>2. Visited(a) = {} BY <1>4 DEF Visited
    <2>3. n \in a.list <=> entry[n] # None BY <1>4 DEF Quiet
    <2> QED BY <1>4, <2>1, <2>2, <2>3 DEF QuietItem, RowsOf
  <1>9. Good(a, p, entry) BY <1>5, <1>6, <1>7, <1>8 DEF Good
  <1> QED BY <1>1, <1>3, <1>4, <1>9, OwnStep

\* ListCommands adds no row.
LEMMA ListCommandsKeeps ==
  ASSUME Inv, NEW c \in Callers, ListCommands(c)
  PROVE  Inv'
  <1> DEFINE k == call[c]
             p == past[c]
  <1>1. /\ k \in CallSet /\ p \in PastSet /\ Good(k, p, entry)
        /\ k.pc = "offers" /\ past' = [past EXCEPT ![c] = p]
        /\ call' = [call EXCEPT ![c] = Advance(c, k)] /\ UNCHANGED <<daemon, locks>>
    BY CallFacts DEF ListCommands, At
  <1>2. k.op = "render" /\ (~k.gone => k.code = "ok") BY <1>1 DEF Good, Shape, Code
  <1>3. ~k.gone => \A n \in Quiet(p) : QuietItem(k, entry, n)
    BY <1>1, <1>2 DEF Good, Faithful, Awaited
  <1>4. Visited(k) = Registered /\ k.row \in DOMAIN Sorted BY <1>1 DEF Visited, CallSet
  <1>5. Visited(k) \cup {Sorted[k.row]} = Visited(k) BY <1>4, Rowing
  <1>6. Advance(c, k) \in CallSet /\ Good(Advance(c, k), p, entry)
    BY <1>1, <1>2, <1>3, <1>5, AdvanceGood DEF QuietItem
  <1> QED BY <1>1, <1>6, OwnStep

\* What the handler of a call for one module finds is in the call's history.
LEMMA Seen ==
  ASSUME Inv, NEW c \in Callers, Awaited(call[c]), call[c].op # "render"
  PROVE  /\ Loaded(call[c].name) # None => call[c].name \in past[c].present
         /\ Loaded(call[c].name) = None =>
              call[c].name \in past[c].absent \/ call[c].name = Stranger
  <1>1. call[c] \in CallSet /\ Current(call[c], past[c], entry) BY CallFacts DEF Good
  <1>2. CASE call[c].name \in Registered
    <2>1. call[c].name \in Concerns(call[c]) BY <1>1, <1>2, Concerned
    <2> QED BY <1>1, <1>2, <2>1 DEF Current, Loaded
  <1>3. CASE call[c].name \notin Registered
    BY <1>1, <1>3 DEF Loaded, CallSet, Names
  <1> QED BY <1>2, <1>3

\* A module that is not there: no row, or an error that says so.
LEMMA AbsentGood ==
  ASSUME Inv, NEW c \in Callers, call[c].pc \in {"reading", "module"},
         Loaded(Subject(c)) = None
  PROVE  Absent(c) \in CallSet /\ Good(Absent(c), past[c], entry)
  <1> DEFINE k == call[c]
             p == past[c]
  <1>1. k \in CallSet /\ p \in PastSet /\ Good(k, p, entry) BY CallFacts
  <1>2. CASE k.op = "render"
    <2> DEFINE a == [k EXCEPT !.from = None]
    <2>1. Absent(c) = Advance(c, a) BY <1>2 DEF Absent
    <2>2. /\ a \in CallSet /\ a.pc = k.pc /\ a.op = k.op /\ a.name = k.name /\ a.row = k.row
          /\ a.gone = k.gone /\ a.code = k.code /\ a.list = k.list /\ a.rows = k.rows
      BY <1>1 DEF CallSet
    <2> HIDE DEF a
    <2>3. entry[Sorted[k.row]] = None
      <3>1. Sorted[k.row] \in Registered BY <1>1, Rowing DEF CallSet
      <3> QED BY <1>2, <3>1 DEF Subject, Loaded
    <2>4. ~k.gone => k.code = "ok" BY <1>1 DEF Good, Code
    <2>5. ~k.gone => \A n \in Quiet(p) : QuietItem(k, entry, n)
      BY <1>1, <1>2, <2>4 DEF Good, Faithful, Awaited
    <2>6. Visited(a) = Visited(k) /\ \A n : RowsOf(a, n) = RowsOf(k, n)
      BY <2>2 DEF Visited, RowsOf
    <2>7. ~a.gone => \A n \in Quiet(p) :
            /\ n \in a.list <=> entry[n] # None
            /\ IF n \in Visited(a) \cup {Sorted[a.row]} /\ entry[n] # None
               THEN \E r \in Rows : RowsOf(a, n) = {r} /\ r.sameInstance
               ELSE RowsOf(a, n) = {}
      BY <2>2, <2>3, <2>5, <2>6 DEF QuietItem
    <2> QED BY <1>2, <2>1, <2>2, <2>7, AdvanceGood
  <1>3. CASE k.op = "load"
    <2> DEFINE a == Answered(c, "internal")
    <2>1. "internal" \in Codes BY DEF Codes
    <2>2. a.op = k.op /\ a.name = k.name /\ a.gone = k.gone /\ (~k.gone => a.code = "internal")
      BY <2>1, AnsweredFields
    <2>3. k.pc = "reading" BY <1>1, <1>3 DEF Good, Shape, Commands
    <2>4. Awaited(k) => k.name \in p.present BY <1>1, <1>3, <2>3 DEF Good, Told
    <2>5. Awaited(k) => k.name \in p.absent \/ k.name = Stranger
      BY <1>3, Seen DEF Subject
    <2> HIDE DEF a
    <2>6. TrueAnswer(a, p) BY <1>3, <2>2, <2>3, <2>4, <2>5 DEF TrueAnswer, Awaited, Commands
    <2>7. a \in CallSet /\ Good(a, p, entry)
      BY <1>1, <1>3, <2>1, <2>3, <2>6, AnswerNow DEF a
    <2>8. Absent(c) = a BY <1>3 DEF Absent, a
    <2> QED BY <2>7, <2>8
  <1>4. CASE k.op \notin {"render", "load"}
    <2> DEFINE a == Answered(c, "not_found")
    <2>1. "not_found" \in Codes BY DEF Codes
    <2>2. a.op = k.op /\ a.name = k.name /\ a.gone = k.gone /\ (~k.gone => a.code = "not_found")
      BY <2>1, AnsweredFields
    <2>3. Awaited(k) => k.name \in p.absent \/ k.name = Stranger
      BY <1>4, Seen DEF Subject
    <2>4. Awaited(k) /\ k.op \in Commands => k.name \in p.present
      BY <1>1 DEF Good, Shape, Told, Commands
    <2>5. k.op # "unload" BY <1>1 DEF Good, Shape, Commands
    <2> HIDE DEF a
    <2>6. TrueAnswer(a, p) BY <1>4, <2>2, <2>3, <2>4, <2>5 DEF TrueAnswer, Awaited
    <2>7. a \in CallSet /\ Good(a, p, entry)
      BY <1>1, <1>4, <2>1, <2>6, AnswerNow DEF a
    <2>8. Absent(c) = a BY <1>4 DEF Absent, a
    <2> QED BY <2>7, <2>8
  <1> QED BY <1>2, <1>3, <1>4

\* Module(): of a quiet module it hands out the instance Status() looked at.
LEMMA ModuleKeeps ==
  ASSUME Inv, NEW c \in Callers, Module(c)
  PROVE  Inv'
  <1> DEFINE k == call[c]
             p == past[c]
             i == Loaded(Subject(c))
             next == IF k.op \in Commands THEN "run" ELSE "health"
             a == [k EXCEPT !.inst = i, !.pc = next]
  <1>1. /\ k \in CallSet /\ p \in PastSet /\ entry \in EntrySet /\ Good(k, p, entry)
        /\ k.pc = "module" /\ past' = [past EXCEPT ![c] = p]
        /\ call \in [Callers -> CallSet] /\ UNCHANGED <<daemon, locks>>
    BY CallFacts, Types DEF Module, At, Inv
  <1>2. CASE i = None /\ call' = [call EXCEPT ![c] = Absent(c)]
    <2>1. Absent(c) \in CallSet /\ Good(Absent(c), p, entry) BY <1>1, <1>2, AbsentGood
    <2> QED BY <1>1, <1>2, <2>1, OwnStep
  <1>3. CASE i # None /\ call' = [call EXCEPT ![c].inst = i, ![c].pc = next]
    <2>1. call' = [call EXCEPT ![c] = a] BY <1>1, <1>3
    <2>2. Subject(c) \in Registered /\ i = entry[Subject(c)] /\ i \in Inst
      <3>1. Subject(c) \in Registered /\ i = entry[Subject(c)] BY <1>3 DEF Loaded
      <3> QED BY <1>1, <1>3, <3>1 DEF EntrySet
    <2>3. /\ a \in CallSet /\ a.pc = next /\ a.op = k.op /\ a.name = k.name /\ a.row = k.row
          /\ a.gone = k.gone /\ a.code = k.code /\ a.list = k.list /\ a.rows = k.rows
          /\ a.inst = i /\ a.from = k.from
      BY <1>1, <2>2 DEF CallSet, PCs
    <2> HIDE DEF a, i
    <2>4. k.op \in {"status", "render"} \cup Commands BY <1>1 DEF Good, Shape
    <2>5. k.op # "render" => Subject(c) = k.name BY DEF Subject
    <2>6. Shape(a) BY <2>2, <2>3, <2>4, <2>5 DEF Shape
    <2>7. Code(a) BY <1>1, <2>3 DEF Good, Code
    <2>8. Current(a, p, entry) BY <1>1, <2>3 DEF Good, Current, Awaited, Concerns
    <2>9. Told(a, p) BY <1>1, <2>3 DEF Good, Told, Awaited
    <2>10. TrueAnswer(a, p) BY <2>3 DEF TrueAnswer
    <2>11. Reaches(a, p, entry) BY <2>2, <2>3, <2>5 DEF Reaches, Commands
    <2>12. Faithful(a, p, entry)
      <3> SUFFICES ASSUME Awaited(a), a.op = "render", a.code = "ok", NEW n \in Quiet(p)
                   PROVE  QuietItem(a, entry, n)
        BY <2>3 DEF Faithful
      <3>1. QuietItem(k, entry, n) BY <1>1, <2>3 DEF Good, Faithful, Awaited
      <3>2. a.pc = "health" BY <2>3 DEF Commands
      <3>3. Visited(a) = Visited(k) /\ RowsOf(a, n) = RowsOf(k, n)
        BY <1>1, <2>3, <3>2 DEF Visited, RowsOf
      <3>4. Subject(c) = Sorted[k.row] BY <2>3 DEF Subject
      <3> QED BY <1>1, <2>2, <2>3, <3>1, <3>2, <3>3, <3>4 DEF QuietItem
    <2>13. Good(a, p, entry)
      BY <2>6, <2>7, <2>8, <2>9, <2>10, <2>11, <2>12 DEF Good
    <2> QED BY <1>1, <2>1, <2>3, <2>13, OwnStep
  <1> QED BY <1>2, <1>3 DEF Module

\* Health(): the first and only row of a quiet module.
LEMMA HealthKeeps ==
  ASSUME Inv, NEW c \in Callers, Health(c)
  PROVE  Inv'
  <1> DEFINE k == call[c]
             p == past[c]
             same == (k.from = k.inst)
             row(l) == [name |-> Subject(c), health |-> l, sameInstance |-> same]
             more(l) == IF k.gone THEN {} ELSE k.rows \cup {row(l)}
             b(l) == [k EXCEPT !.from = None, !.inst = None, !.rows = more(l)]
             a(l) == IF b(l).op = "render" THEN Advance(c, b(l))
                     ELSE [Answered(c, "ok") EXCEPT !.rows = b(l).rows]
  <1>1. /\ k \in CallSet /\ p \in PastSet /\ entry \in EntrySet /\ Good(k, p, entry)
        /\ k.pc = "health" /\ past' = [past EXCEPT ![c] = p]
        /\ call \in [Callers -> CallSet] /\ UNCHANGED <<daemon, locks>>
    BY CallFacts, Types DEF Health, At, Inv
  <1>2. PICK l \in Levels : call' = [call EXCEPT ![c] = a(l)] BY DEF Health
  <1>3. k.op \in {"status", "render"} /\ (k.op = "render" \/ k.name \in Registered)
    BY <1>1 DEF Good, Shape
  <1>4. Subject(c) \in Registered BY <1>1, <1>3, Rowing DEF Subject, CallSet
  <1>5. row(l) \in Rows BY <1>4 DEF Rows
  <1>6. more(l) \in SUBSET Rows BY <1>1, <1>5 DEF CallSet
  <1> HIDE DEF more
  <1>7. /\ b(l) \in CallSet /\ b(l).pc = k.pc /\ b(l).op = k.op /\ b(l).name = k.name
        /\ b(l).row = k.row /\ b(l).gone = k.gone /\ b(l).code = k.code
        /\ b(l).list = k.list /\ b(l).rows = more(l)
    BY <1>1, <1>6 DEF CallSet
  <1> HIDE DEF b
  <1>8. CASE k.op = "render"
    <2>1. a(l) = Advance(c, b(l)) BY <1>7, <1>8
    <2>2. ~k.gone => k.code = "ok" BY <1>1 DEF Good, Code
    <2>3. ASSUME ~k.gone, NEW n \in Quiet(p)
          PROVE  /\ n \in b(l).list <=> entry[n] # None
                 /\ IF n \in Visited(b(l)) \cup {Sorted[b(l).row]} /\ entry[n] # None
                    THEN \E r \in Rows : RowsOf(b(l), n) = {r} /\ r.sameInstance
                    ELSE RowsOf(b(l), n) = {}
      <3>1. QuietItem(k, entry, n) BY <1>1, <1>8, <2>2, <2>3 DEF Good, Faithful, Awaited
      <3>2. n \in b(l).list <=> entry[n] # None BY <1>1, <1>7, <3>1 DEF QuietItem
      <3>3. Visited(b(l)) = Visited(k) /\ b(l).rows = k.rows \cup {row(l)}
        BY <1>7, <2>3 DEF Visited, more
      <3>4. Subject(c) = Sorted[k.row] /\ row(l).name = Sorted[k.row] BY <1>8 DEF Subject
      <3>5. CASE n = Sorted[k.row]
        <4>1. k.from = entry[n] /\ k.inst = entry[n] /\ entry[n] # None
          BY <1>1, <3>1, <3>5 DEF QuietItem
        <4>2. n \notin Visited(k)
          <5>1. Visited(k) = {Sorted[i] : i \in 1..(k.row - 1)} BY <1>1 DEF Visited
          <5>2. k.row \in 1..Len(Sorted) /\ Len(Sorted) \in Nat BY <1>1, Rowing DEF CallSet
          <5>3. ASSUME NEW i \in 1..(k.row - 1) PROVE Sorted[i] # Sorted[k.row]
            BY <5>2, Rowing
          <5> QED BY <3>5, <5>1, <5>3
        <4>3. RowsOf(k, n) = {} BY <3>1, <4>2 DEF QuietItem
        <4>4. RowsOf(b(l), n) = {row(l)} BY <3>3, <3>4, <3>5, <4>3 DEF RowsOf
        <4>5. row(l).sameInstance BY <4>1
        <4> QED BY <1>5, <1>7, <3>2, <3>5, <4>1, <4>4, <4>5
      <3>6. CASE n # Sorted[k.row]
        <4>1. RowsOf(b(l), n) = RowsOf(k, n) BY <3>3, <3>4, <3>6 DEF RowsOf
        <4>2. n \in Visited(b(l)) \cup {Sorted[b(l).row]} <=> n \in Visited(k)
          BY <1>7, <3>3, <3>6
        <4> QED BY <3>1, <3>2, <4>1, <4>2 DEF QuietItem
      <3> QED BY <3>5, <3>6
    <2>4. Advance(c, b(l)) \in CallSet /\ Good(Advance(c, b(l)), p, entry)
      BY <1>1, <1>7, <1>8, <2>3, AdvanceGood
    <2> HIDE DEF a
    <2> QED BY <1>1, <1>2, <2>1, <2>4, OwnStep
  <1>9. CASE k.op = "status"
    <2> DEFINE o == Answered(c, "ok")
               z == [o EXCEPT !.rows = more(l)]
    <2>1. a(l) = z BY <1>7, <1>9
    <2>2. "ok" \in Codes BY DEF Codes
    <2>3. o \in CallSet /\ o.op = k.op /\ o.name = k.name /\ o.gone = k.gone /\ o.pc = "done"
      BY <2>2, AnsweredFields
    <2>4. Awaited(k) => k.name \in p.present BY <1>1, <1>9 DEF Good, Told
    <2>5. TrueAnswer(o, p)
      BY <1>1, <1>9, <2>2, <2>3, <2>4, AnsweredFields DEF TrueAnswer, Awaited, Commands
    <2>6. Good(o, p, entry) BY <1>1, <1>9, <2>2, <2>5, AnswerNow
    <2> HIDE DEF o
    <2>7. /\ z \in CallSet /\ z.op = o.op /\ z.name = o.name /\ z.gone = o.gone
          /\ z.pc = o.pc /\ z.code = o.code /\ z.inst = o.inst /\ z.row = o.row
      BY <1>6, <2>3 DEF CallSet
    <2> HIDE DEF z
    <2>8. Good(z, p, entry)
      BY <1>9, <2>3, <2>6, <2>7
      DEF Good, Shape, Code, Current, Told, TrueAnswer, Reaches, Faithful, Awaited, Concerns
    <2> HIDE DEF a
    <2> QED BY <1>1, <1>2, <2>1, <2>7, <2>8, OwnStep
  <1> QED BY <1>3, <1>8, <1>9

-----------------------------------------------------------------------------
(* Handlers that hold a lock. *)

\* A call goes on to a place where nothing more has to be known of it.
LEMMA PlaceGood ==
  ASSUME NEW k \in CallSet, NEW p \in PastSet, NEW e \in EntrySet, Good(k, p, e),
         NEW pc \in PCs,
         \/ k.pc = "load" /\ pc = "loading"
         \/ k.pc = "unload" /\ pc = "unloading"
         \/ k.pc = "status" /\ pc = "reading"
         \/ k.pc = "run" /\ pc = "executing"
  PROVE  LET a == [k EXCEPT !.pc = pc]
         IN a \in CallSet /\ a.pc = pc /\ a.inst = k.inst /\ Good(a, p, e)
  <1> DEFINE a == [k EXCEPT !.pc = pc]
  <1>1. /\ a \in CallSet /\ a.pc = pc /\ a.op = k.op /\ a.name = k.name /\ a.row = k.row
        /\ a.gone = k.gone /\ a.code = k.code /\ a.list = k.list /\ a.rows = k.rows
        /\ a.inst = k.inst /\ a.from = k.from
    BY DEF CallSet
  <1> HIDE DEF a
  <1>2. Shape(a) /\ Code(a) BY <1>1 DEF Good, Shape, Code
  <1>3. Current(a, p, e) BY <1>1 DEF Good, Current, Awaited, Concerns
  <1>4. Told(a, p) /\ TrueAnswer(a, p) BY <1>1 DEF Good, Told, TrueAnswer, Awaited
  <1>5. Reaches(a, p, e) BY <1>1 DEF Good, Reaches, Awaited
  <1>6. Faithful(a, p, e)
    <2> SUFFICES ASSUME Awaited(a), a.op = "render", a.code = "ok", NEW n \in Quiet(p)
                 PROVE  QuietItem(a, e, n)
      BY <1>1 DEF Faithful
    <2>1. k.pc = "status" /\ pc = "reading" BY <1>1 DEF Good, Shape, Commands
    <2>2. QuietItem(k, e, n) BY <1>1, <2>1 DEF Good, Faithful, Awaited
    <2>3. Visited(a) = Visited(k) /\ RowsOf(a, n) = RowsOf(k, n)
      BY <1>1, <2>1 DEF Visited, RowsOf
    <2> QED BY <1>1, <2>1, <2>2, <2>3 DEF QuietItem
  <1> QED BY <1>1, <1>2, <1>3, <1>4, <1>5, <1>6 DEF Good, a

\* Lock.
LEMMA LockKeeps ==
  ASSUME Inv, NEW c \in Callers, Lock(c)
  PROVE  Inv'
  <1> DEFINE k == call[c]
             p == past[c]
             next == IF k.pc = "load" THEN "loading" ELSE "unloading"
             a == [k EXCEPT !.pc = next]
  <1>1. /\ k \in CallSet /\ p \in PastSet /\ entry \in EntrySet /\ Good(k, p, entry)
        /\ past' = [past EXCEPT ![c] = p] /\ call \in [Callers -> CallSet]
        /\ k.pc \in {"load", "unload"} /\ readers = {} /\ writer' = c
        /\ UNCHANGED <<entry, running, readers, modMu>>
    BY CallFacts, Types DEF Lock, At, Inv, daemon
  <1>2. call' = [call EXCEPT ![c] = a] BY <1>1 DEF Lock, Goto, At
  <1>3. next \in PCs BY DEF PCs
  <1>4. a \in CallSet /\ a.pc = next /\ Good(a, p, entry) BY <1>1, <1>3, PlaceGood
  <1> HIDE DEF a
  <1>5. /\ call' \in [Callers -> CallSet] /\ past' \in [Callers -> PastSet]
        /\ call'[c] = a /\ (\A d \in Callers : d # c => call'[d] = call[d])
        /\ CallsInv'
    BY <1>1, <1>2, <1>4, QuietStep DEF Inv
  <1>6. TypeOK' BY <1>1, <1>5, Types, TypesNext DEF Inv
  <1>7. EntryInv' BY <1>1 DEF Inv, EntryInv
  <1>8. MutexInv' BY <1>1, <1>5, Types DEF Inv, MutexInv
  <1>9. LockInv' BY <1>1, <1>4, <1>5 DEF LockInv
  <1> QED BY <1>5, <1>6, <1>7, <1>8, <1>9 DEF Inv

\* StatusLock.
LEMMA StatusLockKeeps ==
  ASSUME Inv, NEW c \in Callers, StatusLock(c)
  PROVE  Inv'
  <1> DEFINE k == call[c]
             p == past[c]
             a == [k EXCEPT !.pc = "reading"]
  <1>1. /\ k \in CallSet /\ p \in PastSet /\ entry \in EntrySet /\ Good(k, p, entry)
        /\ past' = [past EXCEPT ![c] = p] /\ call \in [Callers -> CallSet]
        /\ k.pc = "status" /\ writer = None /\ readers' = readers \cup {c}
        /\ UNCHANGED <<entry, running, writer, modMu>>
    BY CallFacts, Types DEF StatusLock, At, Inv, daemon
  <1>2. call' = [call EXCEPT ![c] = a] BY <1>1 DEF StatusLock, Goto
  <1>3. "reading" \in PCs BY DEF PCs
  <1>4. a \in CallSet /\ a.pc = "reading" /\ Good(a, p, entry) BY <1>1, <1>3, PlaceGood
  <1> HIDE DEF a
  <1>5. /\ call' \in [Callers -> CallSet] /\ past' \in [Callers -> PastSet]
        /\ call'[c] = a /\ (\A d \in Callers : d # c => call'[d] = call[d])
        /\ CallsInv'
    BY <1>1, <1>2, <1>4, QuietStep DEF Inv
  <1>6. TypeOK' BY <1>1, <1>5, Types, TypesNext DEF Inv
  <1>7. EntryInv' BY <1>1 DEF Inv, EntryInv
  <1>8. MutexInv' BY <1>1, <1>5, Types DEF Inv, MutexInv
  <1>9. LockInv' BY <1>1, <1>4, <1>5, Types DEF Inv, LockInv
  <1> QED BY <1>5, <1>6, <1>7, <1>8, <1>9 DEF Inv

\* Run: the command waits for its module's mutex.
LEMMA RunKeeps ==
  ASSUME Inv, NEW c \in Callers, Run(c)
  PROVE  Inv'
  <1> DEFINE k == call[c]
             p == past[c]
             a == [k EXCEPT !.pc = "executing"]
  <1>1. /\ k \in CallSet /\ p \in PastSet /\ entry \in EntrySet /\ Good(k, p, entry)
        /\ past' = [past EXCEPT ![c] = p] /\ call \in [Callers -> CallSet]
        /\ k.pc = "run" /\ UNCHANGED <<entry, running, writer, readers>>
    BY CallFacts, Types DEF Run, At, Inv, daemon
  <1>2. call' = [call EXCEPT ![c] = a] BY <1>1 DEF Run, Goto
  <1>3. "executing" \in PCs BY DEF PCs
  <1>4. a \in CallSet /\ a.pc = "executing" /\ a.inst = k.inst /\ Good(a, p, entry)
    BY <1>1, <1>3, PlaceGood
  <1> HIDE DEF a
  <1>5. /\ call' \in [Callers -> CallSet] /\ past' \in [Callers -> PastSet]
        /\ call'[c] = a /\ (\A d \in Callers : d # c => call'[d] = call[d])
        /\ CallsInv'
    BY <1>1, <1>2, <1>4, QuietStep DEF Inv
  <1>6. k.inst \in Inst BY <1>1 DEF Good, Shape
  <1>7. modMu' = modMu \/ modMu' = [modMu EXCEPT ![k.inst] = c] BY DEF Run
  <1>8. TypeOK' BY <1>1, <1>5, <1>6, <1>7, Types, TypesNext DEF Inv
  <1>9. EntryInv' BY <1>1 DEF Inv, EntryInv
  <1>10. MutexInv' BY <1>1, <1>4, <1>5, <1>6, <1>7, Types DEF Inv, MutexInv
  <1>11. LockInv' BY <1>1, <1>5, Types DEF Inv, LockInv
  <1> QED BY <1>5, <1>8, <1>9, <1>10, <1>11 DEF Inv

\* Execute gives the mutex back.
LEMMA ExecuteKeeps ==
  ASSUME Inv, NEW c \in Callers, Execute(c)
  PROVE  Inv'
  <1> DEFINE k == call[c]
             p == past[c]
             a(code) == Answered(c, code)
  <1>1. /\ k \in CallSet /\ p \in PastSet /\ entry \in EntrySet /\ Good(k, p, entry)
        /\ past' = [past EXCEPT ![c] = p] /\ call \in [Callers -> CallSet]
        /\ k.pc = "executing" /\ UNCHANGED <<entry, running, writer, readers>>
        /\ modMu' = [modMu EXCEPT ![k.inst] = IF @ = c THEN None ELSE @]
    BY CallFacts, Types DEF Execute, At, Inv, daemon
  <1>2. PICK code \in {"ok", "failed", "internal"} : call' = [call EXCEPT ![c] = a(code)]
    BY DEF Execute, Answer
  <1>3. k.op \in Commands /\ k.op # "render" /\ k.inst \in Inst
    BY <1>1 DEF Good, Shape, Commands
  <1>4. code \in Codes BY DEF Codes
  <1>5. a(code).op = k.op /\ a(code).name = k.name /\ a(code).gone = k.gone
        /\ a(code).pc = "done" /\ (~k.gone => a(code).code = code)
    BY <1>4, AnsweredFields
  <1>6. Awaited(k) => k.name \in p.present BY <1>1, <1>3 DEF Good, Told
  <1> HIDE DEF a
  <1>7. TrueAnswer(a(code), p)
    BY <1>1, <1>3, <1>5, <1>6 DEF TrueAnswer, Awaited, Commands
  <1>8. a(code) \in CallSet /\ Good(a(code), p, entry)
    BY <1>1, <1>3, <1>4, <1>7, AnswerNow DEF a
  <1>9. /\ call' \in [Callers -> CallSet] /\ past' \in [Callers -> PastSet]
        /\ call'[c] = a(code) /\ (\A d \in Callers : d # c => call'[d] = call[d])
        /\ CallsInv'
    BY <1>1, <1>2, <1>8, QuietStep DEF Inv
  <1>10. TypeOK' BY <1>1, <1>3, <1>9, Types, TypesNext DEF Inv
  <1>11. EntryInv' BY <1>1 DEF Inv, EntryInv
  <1>12. MutexInv'
    <2> SUFFICES ASSUME NEW i \in Inst, modMu'[i] # None
                 PROVE  call'[modMu'[i]].pc = "executing" /\ call'[modMu'[i]].inst = i
      BY DEF MutexInv
    <2>1. modMu \in [Inst -> Callers \cup {None}] BY Types DEF Inv
    <2>2. modMu'[i] = modMu[i] /\ (i = k.inst => modMu[i] # c) BY <1>1, <1>3, <2>1
    <2>3. call[modMu[i]].pc = "executing" /\ call[modMu[i]].inst = i
      BY <2>2 DEF Inv, MutexInv
    <2>4. modMu[i] \in Callers /\ modMu[i] # c BY <2>1, <2>2, <2>3
    <2> QED BY <1>9, <2>2, <2>3, <2>4
  <1>13. LockInv' BY <1>1, <1>9, Types DEF Inv, LockInv
  <1> QED BY <1>9, <1>10, <1>11, <1>12, <1>13 DEF Inv

\* Status().
LEMMA StatusKeeps ==
  ASSUME Inv, NEW c \in Callers, Status(c)
  PROVE  Inv'
  <1> DEFINE k == call[c]
             p == past[c]
             i == Loaded(Subject(c))
  <1>1. /\ k \in CallSet /\ p \in PastSet /\ entry \in EntrySet /\ Good(k, p, entry)
        /\ past' = [past EXCEPT ![c] = p] /\ call \in [Callers -> CallSet]
        /\ k.pc = "reading" /\ readers' = readers \ {c}
        /\ UNCHANGED <<entry, running, writer, modMu>>
    BY CallFacts, Types DEF Status, At, Inv, daemon
  <1>2. k.op \in {"load", "status", "render"} BY <1>1 DEF Good, Shape
  <1>3. \E a \in CallSet : call' = [call EXCEPT ![c] = a] /\ Good(a, p, entry)
    <2>1. CASE i = None /\ call' = [call EXCEPT ![c] = Absent(c)]
      <3>1. Absent(c) \in CallSet /\ Good(Absent(c), p, entry) BY <1>1, <2>1, AbsentGood
      <3> QED BY <2>1, <3>1
    <2>2. CASE i # None /\ k.op = "load" /\ Answer(c, "ok")
      <3> DEFINE a == Answered(c, "ok")
      <3>1. "ok" \in Codes BY DEF Codes
      <3>2. /\ a.op = k.op /\ a.name = k.name /\ a.gone = k.gone
            /\ (~k.gone => a.code = "ok")
        BY <3>1, AnsweredFields
      <3>3. Awaited(k) => k.name \in p.present BY <1>1, <2>2 DEF Good, Told
      <3> HIDE DEF a
      <3>4. TrueAnswer(a, p) BY <1>1, <2>2, <3>2, <3>3 DEF TrueAnswer, Awaited, Commands
      <3>5. a \in CallSet /\ Good(a, p, entry)
        BY <1>1, <2>2, <3>1, <3>4, AnswerNow DEF a
      <3>6. call' = [call EXCEPT ![c] = a] BY <2>2 DEF Answer, a
      <3> QED BY <3>5, <3>6
    <2>3. CASE i # None /\ k.op # "load"
               /\ call' = [call EXCEPT ![c].from = i, ![c].pc = "module"]
      <3> DEFINE a == [k EXCEPT !.from = i, !.pc = "module"]
      <3>1. call' = [call EXCEPT ![c] = a] BY <1>1, <2>3
      <3>2. Subject(c) \in Registered /\ i = entry[Subject(c)] /\ i \in Inst
        <4>1. Subject(c) \in Registered /\ i = entry[Subject(c)] BY <2>3 DEF Loaded
        <4> QED BY <1>1, <2>3, <4>1 DEF EntrySet
      <3>3. /\ a \in CallSet /\ a.pc = "module" /\ a.op = k.op /\ a.name = k.name
            /\ a.row = k.row /\ a.gone = k.gone /\ a.code = k.code /\ a.list = k.list
            /\ a.rows = k.rows /\ a.inst = k.inst /\ a.from = i
        BY <1>1, <3>2 DEF CallSet, PCs
      <3> HIDE DEF a
      <3>4. Shape(a) BY <1>2, <2>3, <3>3 DEF Shape
      <3>5. Code(a) BY <1>1, <3>3 DEF Good, Code
      <3>6. Current(a, p, entry) BY <1>1, <3>3 DEF Good, Current, Awaited, Concerns
      <3>7. Told(a, p)
        <4>1. k.op # "render" => Subject(c) = k.name BY DEF Subject
        <4>2. Awaited(k) /\ k.op # "render" => k.name \in p.present BY <2>3, <4>1, Seen
        <4> QED BY <1>1, <3>3, <4>2 DEF Told, Awaited
      <3>8. TrueAnswer(a, p) /\ Reaches(a, p, entry) BY <3>3 DEF TrueAnswer, Reaches
      <3>9. Faithful(a, p, entry)
        <4> SUFFICES ASSUME Awaited(a), a.op = "render", a.code = "ok", NEW n \in Quiet(p)
                     PROVE  QuietItem(a, entry, n)
          BY <3>3 DEF Faithful
        <4>1. QuietItem(k, entry, n) BY <1>1, <3>3 DEF Good, Faithful, Awaited
        <4>2. Visited(a) = Visited(k) /\ RowsOf(a, n) = RowsOf(k, n)
          BY <1>1, <3>3 DEF Visited, RowsOf
        <4>3. Subject(c) = Sorted[k.row] BY <3>3 DEF Subject
        <4> HIDE DEF i
        <4> QED BY <1>1, <2>3, <3>2, <3>3, <4>1, <4>2, <4>3 DEF QuietItem
      <3>10. Good(a, p, entry) BY <3>4, <3>5, <3>6, <3>7, <3>8, <3>9 DEF Good
      <3> QED BY <3>1, <3>3, <3>10
    <2> QED BY <2>1, <2>2, <2>3 DEF Status
  <1>4. PICK a \in CallSet : call' = [call EXCEPT ![c] = a] /\ Good(a, p, entry) BY <1>3
  <1>5. /\ call' \in [Callers -> CallSet] /\ past' \in [Callers -> PastSet]
        /\ call'[c] = a /\ (\A d \in Callers : d # c => call'[d] = call[d])
        /\ CallsInv'
    BY <1>1, <1>4, QuietStep DEF Inv
  <1>6. TypeOK' BY <1>1, <1>5, Types, TypesNext DEF Inv
  <1>7. EntryInv' BY <1>1 DEF Inv, EntryInv
  <1>8. MutexInv' BY <1>1, <1>5, Types DEF Inv, MutexInv
  <1>9. LockInv' BY <1>1, <1>5, Types DEF Inv, LockInv
  <1> QED BY <1>5, <1>6, <1>7, <1>8, <1>9 DEF Inv

\* The writer lets go of the lock: what has to be shown of the modules.
LEMMA Unlocks ==
  ASSUME Inv, NEW c \in Callers, NEW k,
         call' \in [Callers -> CallSet], past' \in [Callers -> PastSet], CallsInv',
         call'[c] = k, \A d \in Callers : d # c => call'[d] = call[d],
         call[c].pc \in {"loading", "unloading"}, writer' = None,
         UNCHANGED <<readers, modMu>>,
         entry' \in EntrySet, running' \subseteq Inst, EntryInv'
  PROVE  Inv'
  <1>1. TypeOK' BY Types, TypesNext DEF Inv
  <1>2. MutexInv' BY Types DEF Inv, MutexInv
  <1>3. LockInv' BY Types DEF Inv, LockInv
  <1> QED BY <1>1, <1>2, <1>3 DEF Inv

\* The instance that a load starts.
New(n) == CHOOSE j \in Inst : j.module = n /\ j \notin Referenced

\* Load: the new instance is one that nothing refers to.
LEMMA LoadKeeps ==
  ASSUME Inv, NEW c \in Callers, Load(c)
  PROVE  Inv'
  <1> DEFINE k == call[c]
             p == past[c]
             n == k.name
             s == [k EXCEPT !.pc = "status"]
  <1>1. /\ k \in CallSet /\ p \in PastSet /\ entry \in EntrySet /\ Good(k, p, entry)
        /\ past = [past EXCEPT ![c] = p] /\ call \in [Callers -> CallSet]
        /\ k.pc = "loading" /\ writer' = None /\ UNCHANGED <<readers, modMu>>
        /\ running \subseteq Inst /\ EntryInv
    BY CallFacts, Types DEF Load, At, Inv
  <1>2. k.op = "load" /\ n \in Names BY <1>1 DEF Good, Shape, CallSet
  <1>3. /\ s \in CallSet /\ s.pc = "status" /\ s.op = "load" /\ s.name = n
        /\ s.gone = k.gone /\ s.code = k.code
    BY <1>1, <1>2 DEF CallSet, PCs
  <1> HIDE DEF s
  <1>4. Shape(s) /\ Code(s)
    <2>1. Code(s) BY <1>1, <1>3 DEF Good, Code
    <2> QED BY <1>3, <2>1 DEF Shape
  <1>5. ASSUME NEW q \in PastSet, NEW e \in EntrySet, Current(s, q, e),
               n \in Registered, e[n] # None
        PROVE  Good(s, q, e)
    <2>1. n \in Concerns(s) BY <1>3, <1>5, Concerned
    <2>2. Awaited(s) => n \in q.present BY <1>5, <2>1 DEF Current
    <2>3. Told(s, q) /\ TrueAnswer(s, q) /\ Reaches(s, q, e) /\ Faithful(s, q, e)
      BY <1>3, <2>2 DEF Told, TrueAnswer, Reaches, Faithful
    <2> QED BY <1>4, <1>5, <2>3 DEF Good
  <1>6. ASSUME NEW a \in CallSet, call' = [call EXCEPT ![c] = a], Good(a, p, entry),
               UNCHANGED <<daemon, past>>
        PROVE  Inv'
    <2>1. entry' = entry /\ running' = running /\ past' = [past EXCEPT ![c] = p]
      BY <1>1, <1>6 DEF daemon
    <2>2. /\ call' \in [Callers -> CallSet] /\ past' \in [Callers -> PastSet]
          /\ call'[c] = a /\ (\A d \in Callers : d # c => call'[d] = call[d])
          /\ CallsInv'
      BY <1>1, <1>6, <2>1, QuietStep DEF Inv
    <2>3. EntryInv' BY <1>1, <2>1 DEF EntryInv
    <2> QED BY <1>1, <2>1, <2>2, <2>3, Unlocks
  <1>7. CASE Loaded(n) # None /\ Goto(c, "status") /\ UNCHANGED <<daemon, past>>
    <2>1. call' = [call EXCEPT ![c] = s] BY <1>1, <1>7 DEF Goto, s
    <2>2. n \in Registered /\ entry[n] # None BY <1>7 DEF Loaded
    <2>3. Current(s, p, entry) BY <1>1, <1>2, <1>3 DEF Good, Current, Awaited, Concerns
    <2>4. Good(s, p, entry) BY <1>1, <1>5, <2>2, <2>3
    <2> QED BY <1>3, <1>6, <1>7, <2>1, <2>4
  <1>8. CASE n \notin Registered /\ Answer(c, "not_found") /\ UNCHANGED <<daemon, past>>
    <2> DEFINE a == Answered(c, "not_found")
    <2>1. "not_found" \in Codes BY DEF Codes
    <2>2. /\ a.op = k.op /\ a.name = n /\ a.gone = k.gone /\ (~k.gone => a.code = "not_found")
      BY <2>1, AnsweredFields
    <2>3. n = Stranger BY <1>2, <1>8 DEF Names
    <2> HIDE DEF a
    <2>4. TrueAnswer(a, p) BY <1>2, <2>2, <2>3 DEF TrueAnswer, Awaited, Commands
    <2>5. a \in CallSet /\ Good(a, p, entry) BY <1>1, <1>2, <2>1, <2>4, AnswerNow DEF a
    <2>6. call' = [call EXCEPT ![c] = a] BY <1>8 DEF Answer, a
    <2> QED BY <1>6, <1>8, <2>5, <2>6
  <1>9. CASE n \in Registered /\ Loaded(n) = None /\ Answer(c, "denied")
             /\ UNCHANGED <<daemon, past>>
    <2> DEFINE a == Answered(c, "denied")
    <2>1. "denied" \in Codes BY DEF Codes
    <2>2. /\ a.op = k.op /\ a.name = n /\ a.gone = k.gone /\ (~k.gone => a.code = "denied")
      BY <2>1, AnsweredFields
    <2>3. n # Stranger BY <1>9, Constants
    <2>4. Awaited(k) => n \in p.absent BY <1>2, <1>9, <2>3, Seen
    <2> HIDE DEF a
    <2>5. TrueAnswer(a, p) BY <1>1, <1>2, <2>2, <2>3, <2>4 DEF TrueAnswer, Awaited, Commands
    <2>6. a \in CallSet /\ Good(a, p, entry) BY <1>1, <1>2, <2>1, <2>5, AnswerNow DEF a
    <2>7. call' = [call EXCEPT ![c] = a] BY <1>9 DEF Answer, a
    <2> QED BY <1>6, <1>9, <2>6, <2>7
  <1>10. CASE /\ n \in Registered /\ Loaded(n) = None
              /\ entry' = [entry EXCEPT ![n] = New(n)] /\ running' = running \cup {New(n)}
              /\ Goto(c, "status") /\ Note
    <2>1. entry[n] = None BY <1>10 DEF Loaded
    <2>2. New(n) \in Inst /\ New(n).module = n /\ New(n) # None
      BY <1>10, <2>1, Fresh, Constants DEF New, Inv
    <2>3. call' = [call EXCEPT ![c] = s] BY <1>1, <1>10 DEF Goto, s
    <2>4. /\ entry' \in EntrySet /\ running' \subseteq Inst /\ entry'[n] = New(n)
          /\ \A m \in Registered : m # n => entry'[m] = entry[m]
      BY <1>1, <1>10, <2>2 DEF EntrySet
    <2>5. Flips(entry, entry') BY <2>1, <2>2, <2>4 DEF Flips
    <2>6. Noted(s, p, entry') \in PastSet /\ Current(s, Noted(s, p, entry'), entry')
      BY <1>1, <1>3, NotedType
    <2>7. Good(s, Noted(s, p, entry'), entry') BY <1>5, <1>10, <2>2, <2>4, <2>6
    <2>8. /\ call' \in [Callers -> CallSet] /\ past' \in [Callers -> PastSet]
          /\ call'[c] = s /\ (\A d \in Callers : d # c => call'[d] = call[d])
          /\ CallsInv'
      BY <1>3, <1>10, <2>3, <2>4, <2>5, <2>7, NotedStep DEF Inv
    <2>9. EntryInv' BY <1>1, <1>10, <2>2, <2>4 DEF EntryInv
    <2> QED BY <1>1, <2>4, <2>8, <2>9, Unlocks
  <1> QED BY <1>7, <1>8, <1>9, <1>10 DEF Load, New

\* Unload: everybody notes that the module is gone.
LEMMA UnloadKeeps ==
  ASSUME Inv, NEW c \in Callers, Unload(c)
  PROVE  Inv'
  <1> DEFINE k == call[c]
             p == past[c]
             n == k.name
             a == Answered(c, "ok")
             i == Loaded(n)
  <1>1. /\ k \in CallSet /\ p \in PastSet /\ entry \in EntrySet /\ Good(k, p, entry)
        /\ past = [past EXCEPT ![c] = p] /\ call \in [Callers -> CallSet]
        /\ k.pc = "unloading" /\ writer' = None /\ UNCHANGED <<readers, modMu>>
        /\ running \subseteq Inst /\ EntryInv /\ call' = [call EXCEPT ![c] = a]
    BY CallFacts, Types DEF Unload, At, Inv, Answer
  <1>2. k.op = "unload" /\ n \in Names BY <1>1 DEF Good, Shape, CallSet
  <1>3. "ok" \in Codes BY DEF Codes
  <1>4. /\ a \in CallSet /\ a.op = k.op /\ a.name = n /\ a.gone = k.gone /\ a.pc = "done"
        /\ (~k.gone => a.code = "ok")
    BY <1>3, AnsweredFields
  <1> HIDE DEF a
  <1>5. CASE i = None /\ UNCHANGED <<daemon, past>>
    <2>1. Awaited(k) => n \in p.absent \/ n = Stranger BY <1>2, <1>5, Seen
    <2>2. TrueAnswer(a, p) BY <1>1, <1>2, <1>4, <2>1 DEF TrueAnswer, Awaited, Commands
    <2>3. Good(a, p, entry) BY <1>1, <1>2, <1>3, <2>2, AnswerNow DEF a
    <2>4. entry' = entry /\ running' = running /\ past' = [past EXCEPT ![c] = p]
      BY <1>1, <1>5 DEF daemon
    <2>5. /\ call' \in [Callers -> CallSet] /\ past' \in [Callers -> PastSet]
          /\ call'[c] = a /\ (\A d \in Callers : d # c => call'[d] = call[d])
          /\ CallsInv'
      BY <1>1, <1>4, <2>3, <2>4, QuietStep DEF Inv
    <2>6. EntryInv' BY <1>1, <2>4 DEF EntryInv
    <2> QED BY <1>1, <2>4, <2>5, <2>6, Unlocks
  <1>6. CASE i # None /\ entry' = [entry EXCEPT ![n] = None] /\ running' = running \ {i} /\ Note
    <2> DEFINE q == Noted(a, p, entry')
    <2>1. n \in Registered /\ i = entry[n] BY <1>6 DEF Loaded
    <2>2. /\ entry' \in EntrySet /\ running' \subseteq Inst /\ entry'[n] = None
          /\ \A m \in Registered : m # n => entry'[m] = entry[m]
      BY <1>1, <1>6, <2>1 DEF EntrySet
    <2>3. Flips(entry, entry') BY <1>6, <2>1, <2>2 DEF Flips
    <2>4. q \in PastSet /\ Current(a, q, entry') BY <1>1, <1>4, NotedType
    <2> HIDE DEF q
    <2>5. Awaited(a) => n \in q.absent
      <3>1. n \in Concerns(a) BY <1>2, <1>4, <2>1, Concerned
      <3> QED BY <2>2, <2>4, <3>1 DEF Current
    <2>6. TrueAnswer(a, q) BY <1>2, <1>4, <2>5 DEF TrueAnswer, Commands
    <2>7. Good(a, q, entry')
      BY <1>1, <1>2, <1>3, <2>2, <2>4, <2>6, AnswerGood DEF a
    <2>8. /\ call' \in [Callers -> CallSet] /\ past' \in [Callers -> PastSet]
          /\ call'[c] = a /\ (\A d \in Callers : d # c => call'[d] = call[d])
          /\ CallsInv'
      BY <1>1, <1>4, <1>6, <2>2, <2>3, <2>7, NotedStep DEF Inv, q
    <2>9. EntryInv'
      <3> HIDE DEF i
      <3>1. ASSUME NEW m \in Registered, entry'[m] # None
            PROVE  entry'[m].module = m /\ entry'[m] \in running'
        <4>1. m # n /\ entry'[m] = entry[m] BY <2>2, <3>1
        <4>2. entry[m].module = m /\ entry[m] \in running BY <1>1, <3>1, <4>1 DEF EntryInv
        <4>3. entry[n].module = n BY <1>1, <1>6, <2>1 DEF EntryInv
        <4>4. entry[m] # i BY <2>1, <4>1, <4>2, <4>3
        <4> QED BY <1>6, <4>1, <4>2, <4>4
      <3> QED BY <3>1 DEF EntryInv
    <2> QED BY <1>1, <2>2, <2>8, <2>9, Unlocks
  <1> QED BY <1>5, <1>6 DEF Unload

-----------------------------------------------------------------------------
(* The specification keeps the invariant. *)

\* It holds at first,
LEMMA Initial ==
  ASSUME Init
  PROVE  Inv
  <1>1. TypeOK BY IdleType, Types, Constants DEF Init, EntrySet
  <1>2. EntryInv /\ MutexInv /\ LockInv BY DEF Init, EntryInv, MutexInv, LockInv
  <1>3. CallsInv
    <2>1. ASSUME NEW c \in Callers PROVE Good(call[c], past[c], entry)
      <3>1. call[c] = Idle BY DEF Init
      <3> QED BY <3>1, IdleGood
    <2> QED BY <2>1 DEF CallsInv
  <1> QED BY <1>1, <1>2, <1>3 DEF Inv

\* it does not depend on anything else,
LEMMA Stutters ==
  ASSUME Inv, UNCHANGED vars
  PROVE  Inv'
  <1>1. TypeOK' BY DEF Inv, TypeOK, vars
  <1>2. EntryInv' BY DEF Inv, EntryInv, vars
  <1>3. MutexInv' /\ LockInv' BY DEF Inv, MutexInv, LockInv, vars
  <1>4. CallsInv' BY DEF Inv, CallsInv, vars
  <1> QED BY <1>1, <1>2, <1>3, <1>4 DEF Inv

\* and every step keeps it:
LEMMA Preserved ==
  ASSUME Inv, [Next]_vars
  PROVE  Inv'
  <1>1. CASE UNCHANGED vars BY <1>1, Stutters
  <1>2. ASSUME NEW q \in Requests, NEW allowed \in BOOLEAN, Call(q[1], q[2], q[3], allowed)
        PROVE  Inv'
    <2>1. q[1] \in Callers /\ q[2] \in Asks /\ q[3] \in Names BY Constants
    <2> QED BY <1>2, <2>1, CallKeeps
  <1>3. CASE Render
    <2>1. PICK allowed \in BOOLEAN : Call(Tray, "render", Stranger, allowed)
      BY <1>3 DEF Render
    <2> QED BY <2>1, Constants, CallKeeps DEF Names
  <1>4. ASSUME NEW c \in Callers, BuildRoot(c) \/ GiveUp(c) \/ Return(c)
        PROVE  Inv'
    BY <1>4, BuildRootKeeps, GiveUpKeeps, ReturnKeeps
  <1>5. ASSUME NEW c \in Callers, Handler(c)
        PROVE  Inv'
    BY <1>5, LoadKeeps, UnloadKeeps, ListKeeps, StatusKeeps, ModuleKeeps, HealthKeeps,
       ListCommandsKeeps, ExecuteKeeps DEF Handler
  <1>6. ASSUME NEW c \in Callers, Acquire(c)
        PROVE  Inv'
    BY <1>6, LockKeeps, StatusLockKeeps, RunKeeps DEF Acquire
  <1> QED BY <1>1, <1>2, <1>3, <1>4, <1>5, <1>6 DEF Next

\* it is an invariant.
LEMMA Invariance == Spec => []Inv
  <1>1. Init => Inv BY Initial
  <1>2. Inv /\ [Next]_vars => Inv' BY Preserved
  <1> QED BY <1>1, <1>2, PTL DEF Spec

-----------------------------------------------------------------------------
(* The theorems. *)

(* Type correctness: among others, a report never reads past the end of the *)
(* module list, and a load always finds a new instance.                     *)
THEOREM TypeCorrect == Spec => []TypeOK
  <1>1. Inv => TypeOK BY DEF Inv
  <1> QED BY <1>1, Invariance, PTL

(* Every answer of LoadModule, UnloadModule, GetStatus and Dispatch is true  *)
(* of a moment between the call and the answer, though the handlers let go   *)
(* of the supervisor's lock between their steps.                             *)
THEOREM AnswersTrue == Spec => []AnswersAreTrue
  <1>1. Inv => AnswersAreTrue
    <2> SUFFICES ASSUME Inv PROVE AnswersAreTrue OBVIOUS
    <2>1. ASSUME NEW c \in Callers, call[c].pc = "done"
          PROVE  /\ call[c] \in CallSet /\ TrueAnswer(call[c], past[c])
                 /\ call[c].gone => call[c].code = "deadline"
                 /\ ~call[c].gone => Awaited(call[c])
      BY <2>1, CallFacts DEF Good, Code, Awaited
    <2> QED BY <2>1 DEF AnswersAreTrue, At, ExitsZero, TrueAnswer, Commands
  <1> QED BY <1>1, Invariance, PTL

(* A command for a module that nobody loads or unloads runs on the instance  *)
(* that is loaded and started, although Dispatch keeps it without the lock.  *)
THEOREM CommandsReach == Spec => []CommandReachesItsModule
  <1>1. Inv => CommandReachesItsModule
    <2> SUFFICES ASSUME Inv, NEW c \in Callers, call[c].pc \in {"run", "executing"},
                        ~call[c].gone, call[c].name \in Untouched(c)
                 PROVE  call[c].inst = entry[call[c].name] /\ call[c].inst \in running
      BY DEF CommandReachesItsModule
    <2>1. /\ Reaches(call[c], past[c], entry) /\ call[c].inst \in Inst
      BY CallFacts DEF Good, Shape
    <2>2. call[c].inst = entry[call[c].name] /\ call[c].name \in Registered
      BY <2>1 DEF Reaches, Awaited, Quiet, Untouched
    <2>3. entry[call[c].name] # None BY <2>1, <2>2, Constants
    <2> QED BY <2>2, <2>3 DEF Inv, EntryInv
  <1> QED BY <1>1, Invariance, PTL

\* The overall health is there: the worst of the items, or healthy.
LEMMA WorstExists ==
  ASSUME NEW k \in CallSet
  PROVE  LET h == Overall(k)
         IN h \in DOMAIN Rank /\ \A n \in k.list : Rank[ItemHealth(k, n)] <= Rank[h]
  <1>1. ASSUME NEW n \in k.list
        PROVE  ItemHealth(k, n) \in {"healthy", "unknown", "degraded", "unhealthy"}
    <2>1. CASE \E r \in k.rows : r.name = n
      <3> DEFINE r == CHOOSE x \in k.rows : x.name = n
      <3>1. r \in k.rows BY <2>1
      <3>2. r.health \in Levels BY <3>1 DEF CallSet, Rows
      <3> QED BY <2>1, <3>2, Constants DEF ItemHealth
    <2>2. CASE ~\E r \in k.rows : r.name = n BY <2>2 DEF ItemHealth
    <2> QED BY <2>1, <2>2
  <1> DEFINE Worst(h) ==
               /\ h = "healthy" \/ \E n \in k.list : ItemHealth(k, n) = h
               /\ \A n \in k.list : Rank[ItemHealth(k, n)] <= Rank[h]
  <1>2. /\ Rank["healthy"] = 0 /\ Rank["unknown"] = 1 /\ Rank["degraded"] = 2
        /\ Rank["unhealthy"] = 3
        /\ DOMAIN Rank = {"healthy", "unknown", "degraded", "unhealthy"}
    BY DEF Rank
  <1>3. \E h \in DOMAIN Rank : Worst(h)
    <2>1. CASE \E n \in k.list : ItemHealth(k, n) = "unhealthy"
      <3>1. Worst("unhealthy") BY <1>1, <1>2, <2>1
      <3> QED BY <1>2, <3>1
    <2>2. CASE /\ ~\E n \in k.list : ItemHealth(k, n) = "unhealthy"
               /\ \E n \in k.list : ItemHealth(k, n) = "degraded"
      <3>1. Worst("degraded") BY <1>1, <1>2, <2>2
      <3> QED BY <1>2, <3>1
    <2>3. CASE /\ ~\E n \in k.list : ItemHealth(k, n) \in {"unhealthy", "degraded"}
               /\ \E n \in k.list : ItemHealth(k, n) = "unknown"
      <3>1. Worst("unknown") BY <1>1, <1>2, <2>3
      <3> QED BY <1>2, <3>1
    <2>4. CASE \A n \in k.list : ItemHealth(k, n) = "healthy"
      <3>1. Worst("healthy") BY <1>1, <1>2, <2>4
      <3> QED BY <1>2, <3>1
    <2> QED BY <1>1, <2>1, <2>2, <2>3, <2>4
  <1>4. Overall(k) = CHOOSE h \in DOMAIN Rank : Worst(h) BY DEF Overall
  <1>5. Overall(k) \in DOMAIN Rank /\ Worst(Overall(k)) BY <1>3, <1>4
  <1> QED BY <1>5

(* A snapshot is exact for every module that nobody loaded or unloaded while  *)
(* it was put together from ListModules, GetStatus and ListCommands, and the  *)
(* tray says healthy only if these are.                                       *)
THEOREM SnapshotExact == Spec => []QuietSnapshotIsExact
  <1>1. Inv => QuietSnapshotIsExact
    <2> SUFFICES ASSUME Inv, NEW c \in Callers, call[c].pc = "done", call[c].op = "render",
                        call[c].code = "ok", NEW n \in Untouched(c)
                 PROVE  LET rows == {r \in call[c].rows : r.name = n}
                            loaded == n \in past[c].present
                        IN /\ loaded = (n \in call[c].list)
                           /\ Cardinality(rows) = IF loaded THEN 1 ELSE 0
                           /\ \A r \in rows : r.sameInstance
                           /\ loaded /\ Overall(call[c]) = "healthy" =>
                                \A r \in rows : r.health = "healthy"
      BY DEF QuietSnapshotIsExact, At
    <2> DEFINE k == call[c]
               p == past[c]
               rows == RowsOf(k, n)
    <2>1. k \in CallSet /\ Good(k, p, entry) BY CallFacts
    <2>2. Awaited(k) BY <2>1 DEF Good, Code, Awaited
    <2>3. n \in Registered /\ n \in Quiet(p) /\ ~(n \in p.present /\ n \in p.absent)
      BY DEF Untouched, Quiet
    <2>4. n \in p.present <=> entry[n] # None
      <3>1. n \in Concerns(k) BY <2>1, <2>3, Concerned
      <3> QED BY <2>1, <2>2, <2>3, <3>1 DEF Good, Current
    <2>5. QuietItem(k, entry, n) BY <2>1, <2>2, <2>3 DEF Good, Faithful
    <2>6. n \in Visited(k) BY <2>3 DEF Visited
    <2>7. n \in k.list <=> n \in p.present BY <2>4, <2>5 DEF QuietItem
    <2>8. CASE n \in p.present
      <3>1. PICK r \in Rows : rows = {r} /\ r.sameInstance
        BY <2>4, <2>5, <2>6, <2>8 DEF QuietItem
      <3>2. Cardinality(rows) = 1 BY <3>1, FS_Singleton
      <3>3. ASSUME Overall(k) = "healthy" PROVE r.health = "healthy"
        <4>1. r \in k.rows /\ r.name = n /\ \A x \in k.rows : x.name = n => x = r
          BY <3>1 DEF RowsOf
        <4>2. ItemHealth(k, n) = r.health BY <4>1 DEF ItemHealth
        <4>3. Rank[r.health] <= Rank["healthy"]
          BY <2>1, <2>7, <2>8, <3>3, <4>2, WorstExists
        <4>4. r.health \in {"healthy", "degraded", "unhealthy"}
          BY Constants DEF Rows
        <4> QED BY <4>3, <4>4 DEF Rank
      <3> QED BY <2>7, <2>8, <3>1, <3>2, <3>3 DEF RowsOf
    <2>9. CASE n \notin p.present
      <3>1. rows = {} BY <2>4, <2>5, <2>9 DEF QuietItem
      <3>2. Cardinality(rows) = 0 BY <3>1, FS_EmptySet
      <3> QED BY <2>7, <2>9, <3>1, <3>2 DEF RowsOf
    <2> QED BY <2>8, <2>9
  <1> QED BY <1>1, Invariance, PTL

-----------------------------------------------------------------------------
(* The locks. *)

\* What a call in progress waits for, by where it is: the guards of the steps
\* of BuildRoot, Handler and Acquire.
Unblocked(c) ==
  /\ call[c].pc \in {"load", "unload"} => writer = None /\ readers = {}
  /\ call[c].pc \in {"list", "status", "module", "offers"} => writer = None
  /\ call[c].pc = "unloading" =>
       LET i == Loaded(call[c].name) IN i # None => modMu[i] = None
  /\ call[c].pc = "reading" =>
       LET i == Loaded(Subject(c)) IN i # None => modMu[i] = None
  /\ call[c].pc = "run" => call[c].op = "query" \/ modMu[call[c].inst] = None

NoCircle ==
  (\E c \in Callers : call[c].pc \notin {"idle", "done"}) =>
    \E c \in Callers : call[c].pc \notin {"idle", "done"} /\ Unblocked(c)

(* The mutexes never close a circle: a command that holds its module's mutex   *)
(* waits for nothing, whoever holds the supervisor's waits for such a command  *)
(* at most, and everybody else for these two.                                  *)
THEOREM LocksFormNoCircle == Spec => []NoCircle
  <1>1. Inv => NoCircle
    <2> SUFFICES ASSUME Inv, NEW b \in Callers, call[b].pc \notin {"idle", "done"}
                 PROVE  \E c \in Callers : call[c].pc \notin {"idle", "done"} /\ Unblocked(c)
      BY DEF NoCircle
    <2>0. TypeOK /\ MutexInv /\ LockInv BY DEF Inv
    <2>1. CASE \E c \in Callers : call[c].pc = "executing"
      BY <2>1 DEF Unblocked
    <2>2. CASE ~\E c \in Callers : call[c].pc = "executing"
      <3>1. \A i \in Inst : modMu[i] = None
        BY <2>0, <2>2, Types DEF MutexInv
      <3>2. ASSUME NEW c \in Callers,
                   call[c].pc \in {"loading", "unloading", "reading", "run"}
            PROVE  Unblocked(c)
        <4>1. ASSUME NEW n, Loaded(n) # None PROVE Loaded(n) \in Inst
          BY <2>0, <4>1, Types DEF Loaded, EntrySet
        <4>2. call[c].pc = "run" => call[c].inst \in Inst BY CallFacts DEF Good, Shape
        <4> QED BY <3>1, <3>2, <4>1, <4>2 DEF Unblocked
      <3>3. CASE \E c \in Callers : call[c].pc \in {"loading", "unloading", "reading", "run"}
        BY <3>2, <3>3
      <3>4. CASE ~\E c \in Callers :
                    call[c].pc \in {"loading", "unloading", "reading", "run"}
        <4>1. writer = None BY <2>0, <3>4, Types DEF LockInv
        <4>2. readers = {} BY <2>0, <3>4, Types DEF LockInv
        <4>3. Unblocked(b) BY <3>4, <4>1, <4>2 DEF Unblocked
        <4> QED BY <4>3
      <3> QED BY <3>3, <3>4
    <2> QED BY <2>1, <2>2
  <1> QED BY <1>1, Invariance, PTL

-----------------------------------------------------------------------------
(* The handlers implement AtomicCalls. *)

AtomicStep == [Atomic!Next]_(Atomic!atomicVars)

\* What a step of one caller is to the jobs.
LEMMA JobChange ==
  ASSUME NEW c \in Callers, NEW k, call \in [Callers -> CallSet], call' = [call EXCEPT ![c] = k]
  PROVE  Jobs' = [Jobs EXCEPT ![c] = JobOf(k)]
  BY DEF Jobs

LEMMA TableSame == ASSUME entry' = entry PROVE LoadedNames' = LoadedNames
  BY DEF LoadedNames

\* A job is as the record of the call says.
LEMMA JobFields ==
  ASSUME NEW k \in CallSet, k.op \in Asks
  PROVE  /\ JobOf(k) = [op |-> JobOf(k).op, name |-> k.name, state |-> JobOf(k).state, gone |-> k.gone]
         /\ JobOf(k).op = IF k.op \in Commands THEN "command" ELSE k.op
         /\ JobOf(k).name = k.name /\ JobOf(k).gone = k.gone
         /\ JobOf(k).state = IF k.pc = "done" THEN k.code
                             ELSE IF Decided(k) THEN "present" ELSE "asked"
  BY DEF JobOf

\* A rendering and a caller without a call have no job.
LEMMA NotAsked ==
  ASSUME NEW k, k.op \notin Asks
  PROVE  JobOf(k) = Atomic!NoJob
  BY DEF JobOf, Atomic!NoJob

\* A step that leaves the job as it is, and the table, is no step of AtomicCalls.
LEMMA Unseen ==
  ASSUME Inv, NEW c \in Callers, NEW k, call' = [call EXCEPT ![c] = k], entry' = entry,
         JobOf(k) = JobOf(call[c])
  PROVE  AtomicStep
  <1>1. call \in [Callers -> CallSet] BY Types DEF Inv
  <1>2. Jobs' = [Jobs EXCEPT ![c] = JobOf(call[c])] BY <1>1, JobChange
  <1>3. Jobs' = Jobs BY <1>2 DEF Jobs
  <1> QED BY <1>3, TableSame DEF AtomicStep, Atomic!atomicVars

\* The same for a step that only moves on, within what is or is not decided.
LEMMA MovesOn ==
  ASSUME Inv, NEW c \in Callers, NEW k \in CallSet, call' = [call EXCEPT ![c] = k], entry' = entry,
         k.op = call[c].op, k.name = call[c].name, k.gone = call[c].gone,
         \/ k.op \notin Asks
         \/ k.pc # "done" /\ call[c].pc # "done" /\ (Decided(k) <=> Decided(call[c]))
  PROVE  AtomicStep
  <1>1. CASE k.op \notin Asks BY <1>1, NotAsked, Unseen
  <1>2. CASE k.op \in Asks
    <2>1. call[c] \in CallSet BY CallFacts
    <2>2. JobOf(k) = JobOf(call[c]) BY <1>2 DEF JobOf
    <2> QED BY <2>2, Unseen
  <1> QED BY <1>1, <1>2

\* The answer of a handler is that of the job.
LEMMA JobAnswers ==
  ASSUME Inv, NEW c \in Callers, NEW code \in Codes, NEW a \in CallSet, call[c].op \in Asks,
         call' = [call EXCEPT ![c] = a],
         a.pc = "done", a.op = call[c].op, a.name = call[c].name, a.gone = call[c].gone,
         a.code = IF call[c].gone THEN call[c].code ELSE code
  PROVE  Atomic!Answer(c, code)
  <1> DEFINE k == call[c]
  <1>1. call \in [Callers -> CallSet] /\ k \in CallSet /\ Code(k)
    BY CallFacts, Types DEF Inv, Good
  <1>2. a.code = IF k.gone THEN "deadline" ELSE code BY <1>1 DEF Code
  <1>3. JobOf(a) = [JobOf(k) EXCEPT !.state = IF k.gone THEN "deadline" ELSE code]
    BY <1>1, <1>2 DEF JobOf
  <1>4. Jobs' = [Jobs EXCEPT ![c] = JobOf(a)] BY <1>1, JobChange
  <1>5. Jobs[c] = JobOf(k) /\ Jobs[c].gone = k.gone BY <1>1, JobFields DEF Jobs
  <1> QED BY <1>3, <1>4, <1>5 DEF Atomic!Answer, Atomic!Becomes, Atomic!Told

LEMMA JobAnswered ==
  ASSUME Inv, NEW c \in Callers, NEW code \in Codes, call[c].op \in Asks,
         call' = [call EXCEPT ![c] = Answered(c, code)]
  PROVE  Atomic!Answer(c, code)
  BY AnsweredFields, JobAnswers

\* The module of the call was found or loaded.
LEMMA JobDecided ==
  ASSUME Inv, NEW c \in Callers, NEW k \in CallSet, call' = [call EXCEPT ![c] = k],
         k.op = call[c].op, k.name = call[c].name, k.gone = call[c].gone, k.op \in Asks,
         k.pc # "done", Decided(k)
  PROVE  Atomic!Becomes(c, "present")
  <1>1. call \in [Callers -> CallSet] /\ call[c] \in CallSet BY CallFacts, Types DEF Inv
  <1>2. JobOf(k) = [JobOf(call[c]) EXCEPT !.state = "present"] BY <1>1 DEF JobOf
  <1>3. Jobs' = [Jobs EXCEPT ![c] = JobOf(k)] BY <1>1, JobChange
  <1>4. Jobs[c] = JobOf(call[c]) BY DEF Jobs
  <1> QED BY <1>2, <1>3, <1>4 DEF Atomic!Becomes

\* What is loaded, by name.
LEMMA Table ==
  ASSUME NEW n \in Names
  PROVE  n \in LoadedNames <=> Loaded(n) # None
  BY DEF LoadedNames, Loaded

\* What the invariant and the mapping say of a caller's job.
LEMMA JobNow ==
  ASSUME Inv, NEW c \in Callers, call[c].op \in Asks
  PROVE  /\ call[c] \in CallSet /\ Shape(call[c]) /\ call[c].name \in Names
         /\ Jobs[c].op = IF call[c].op \in Commands THEN "command" ELSE call[c].op
         /\ Jobs[c].name = call[c].name /\ Jobs[c].gone = call[c].gone
         /\ Jobs[c].state = IF call[c].pc = "done" THEN call[c].code
                            ELSE IF Decided(call[c]) THEN "present" ELSE "asked"
  <1>1. call[c] \in CallSet /\ Shape(call[c]) BY CallFacts DEF Good
  <1>2. call[c].name \in Names BY <1>1 DEF CallSet
  <1>3. Jobs[c] = JobOf(call[c]) BY DEF Jobs
  <1> QED BY <1>1, <1>2, <1>3, JobFields

\* A call is asked for; the peer check may turn it away.
LEMMA CallAsks ==
  ASSUME Inv, NEW c \in Callers, NEW op \in Asks \cup {"render"}, NEW n \in Names,
         NEW allowed \in BOOLEAN, Call(c, op, n, allowed)
  PROVE  AtomicStep
  <1> DEFINE checked == PeerCheck(op, allowed)
             k == [Idle EXCEPT !.op = op, !.name = n, !.pc = checked.pc, !.code = checked.code]
  <1>1. /\ call' = [call EXCEPT ![c] = k] /\ entry' = entry /\ call[c].pc = "idle"
        /\ call \in [Callers -> CallSet]
    BY Types DEF Call, At, daemon, Inv
  <1>2. /\ checked.pc \in {"load", "unload", "status", "list", "commands", "done"}
        /\ checked.pc = "status" => op = "status"
        /\ checked.pc = "done" => checked.code \in {"no_command", "refused"}
    BY DEF PeerCheck, FirstStep, Asks, Commands
  <1>3. /\ k.op = op /\ k.name = n /\ k.pc = checked.pc /\ k.code = checked.code
        /\ k.gone = FALSE
    BY DEF Idle
  <1> HIDE DEF k, checked
  <1>4. call[c].op \notin Asks BY <1>1, CallFacts DEF Good, Shape, Asks, Commands
  <1>5. JobOf(call[c]) = Atomic!NoJob BY <1>4, NotAsked
  <1>6. CASE op = "render"
    <2>1. JobOf(k) = Atomic!NoJob BY <1>3, <1>6, NotAsked DEF Asks, Commands
    <2> QED BY <1>1, <1>5, <2>1, Unseen
  <1>7. CASE op \in Asks
    <2> DEFINE S == [op : Atomic!Operations, name : Registered \cup {Stranger},
                     state : {"asked", "refused", "no_command"}, gone : {FALSE}]
    <2>1. ~Decided(k) BY <1>2, <1>3 DEF Decided
    <2>2. JobOf(k) = [op |-> IF op \in Commands THEN "command" ELSE op, name |-> n,
                      state |-> IF k.pc = "done" THEN k.code ELSE "asked", gone |-> FALSE]
      BY <1>3, <1>7, <2>1 DEF JobOf
    <2>3. JobOf(k) \in S
      <3>1. (IF op \in Commands THEN "command" ELSE op) \in Atomic!Operations
        BY <1>7 DEF Atomic!Operations, Asks
      <3>2. (IF k.pc = "done" THEN k.code ELSE "asked") \in {"asked", "refused", "no_command"}
        BY <1>2, <1>3
      <3> QED BY <2>2, <3>1, <3>2 DEF Names
    <2>4. Jobs' = [Jobs EXCEPT ![c] = JobOf(k)] BY <1>1, JobChange
    <2>5. Jobs[c] = Atomic!NoJob BY <1>5 DEF Jobs
    <2>6. Jobs'[c] = JobOf(k) BY <2>4 DEF Jobs
    <2>7. Atomic!Ask(c) BY <1>1, <2>3, <2>4, <2>5, <2>6, TableSame DEF Atomic!Ask
    <2> QED BY <2>7 DEF AtomicStep, Atomic!Next
  <1> QED BY <1>6, <1>7

\* A command that is not offered ends the job.
LEMMA BuildRootEnds ==
  ASSUME Inv, NEW c \in Callers, BuildRoot(c)
  PROVE  AtomicStep
  <1>1. /\ call[c] \in CallSet /\ Shape(call[c]) /\ call \in [Callers -> CallSet]
        /\ call[c].pc = "commands" /\ entry' = entry
    BY CallFacts, Types DEF BuildRoot, At, Inv, Good, daemon
  <1>2. call[c].op \in Commands /\ call[c].op \in Asks BY <1>1 DEF Shape, Asks
  <1>3. ~Decided(call[c]) BY <1>1 DEF Decided
  <1>4. CASE Goto(c, "module")
    <2> DEFINE k == [call[c] EXCEPT !.pc = "module"]
    <2>1. call' = [call EXCEPT ![c] = k] BY <1>1, <1>4 DEF Goto
    <2>2. /\ k \in CallSet /\ k.op = call[c].op /\ k.name = call[c].name
          /\ k.gone = call[c].gone /\ k.pc = "module"
      BY <1>1 DEF CallSet, PCs
    <2> HIDE DEF k
    <2>3. ~Decided(k) BY <2>2 DEF Decided
    <2> QED BY <1>1, <1>3, <2>1, <2>2, <2>3, MovesOn
  <1>5. CASE Answer(c, "no_command")
    <2>1. Atomic!Answer(c, "no_command") BY <1>2, <1>5, JobAnswered DEF Answer, Codes
    <2>2. Jobs[c].op = "command" /\ Jobs[c].state = "asked" BY <1>1, <1>2, <1>3, JobNow
    <2>3. Atomic!Unknown(c) BY <1>1, <2>1, <2>2, TableSame DEF Atomic!Unknown
    <2> QED BY <2>3 DEF AtomicStep, Atomic!Next
  <1> QED BY <1>4, <1>5 DEF BuildRoot

\* The client gives up, before or after the job is decided.
LEMMA GiveUpGivesUp ==
  ASSUME Inv, NEW c \in Callers, GiveUp(c)
  PROVE  AtomicStep
  <1> DEFINE k == call[c]
             a == [k EXCEPT !.gone = TRUE, !.code = "deadline", !.rows = {}, !.list = {}]
  <1>1. k \in CallSet /\ call \in [Callers -> CallSet] /\ k.pc # "done" /\ ~k.gone /\ entry' = entry
    BY CallFacts, Types DEF GiveUp, Inv, daemon
  <1>2. call' = [call EXCEPT ![c] = a] BY <1>1 DEF GiveUp
  <1>3. /\ a \in CallSet /\ a.gone = TRUE /\ a.pc = k.pc /\ a.op = k.op /\ a.name = k.name
    BY <1>1 DEF CallSet, Codes
  <1> HIDE DEF a
  <1>4. CASE k.op \notin Asks BY <1>2, <1>3, <1>4, <1>1, NotAsked, Unseen
  <1>5. CASE k.op \in Asks
    <2>1. Decided(a) <=> Decided(k) BY <1>3 DEF Decided
    <2>2. JobOf(a) = [JobOf(k) EXCEPT !.gone = TRUE]
      <3>1. /\ JobOf(k) = [op |-> JobOf(k).op, name |-> k.name, state |-> JobOf(k).state,
                           gone |-> k.gone]
            /\ JobOf(a) = [op |-> JobOf(a).op, name |-> a.name, state |-> JobOf(a).state,
                           gone |-> a.gone]
            /\ JobOf(a).op = JobOf(k).op /\ JobOf(a).state = JobOf(k).state
        BY <1>1, <1>3, <1>5, <2>1, JobFields
      <3> QED BY <1>3, <3>1
    <2>3. Jobs' = [Jobs EXCEPT ![c] = JobOf(a)] BY <1>1, <1>2, JobChange
    <2>4. Jobs[c] = JobOf(k) BY DEF Jobs
    <2>5. Jobs[c].state \in {"asked", "present"} /\ ~Jobs[c].gone BY <1>1, <1>5, JobNow
    <2>6. Atomic!GiveUp(c) BY <1>1, <2>2, <2>3, <2>4, <2>5, TableSame DEF Atomic!GiveUp
    <2> QED BY <2>6 DEF AtomicStep, Atomic!Next
  <1> QED BY <1>4, <1>5

\* The client returns with its answer.
LEMMA ReturnReturns ==
  ASSUME Inv, NEW c \in Callers, Return(c)
  PROVE  AtomicStep
  <1>1. /\ call' = [call EXCEPT ![c] = Idle] /\ call[c].pc = "done" /\ entry' = entry
        /\ call[c] \in CallSet /\ call \in [Callers -> CallSet]
    BY CallFacts, Types DEF Return, At, daemon, Inv
  <1>2. JobOf(Idle) = Atomic!NoJob BY NotAsked DEF Idle, Asks, Commands
  <1>3. CASE call[c].op \notin Asks BY <1>1, <1>2, <1>3, NotAsked, Unseen
  <1>4. CASE call[c].op \in Asks
    <2>1. Jobs' = [Jobs EXCEPT ![c] = Atomic!NoJob] BY <1>1, <1>2, JobChange
    <2>2. Jobs[c].state = call[c].code BY <1>1, <1>4, JobNow
    <2>3. call[c].code \in Codes BY <1>1 DEF CallSet
    <2>4. Jobs[c].state \notin {"none", "asked", "present"} BY <2>2, <2>3 DEF Codes
    <2>5. Atomic!Return(c) BY <1>1, <2>1, <2>4, TableSame DEF Atomic!Return
    <2> QED BY <2>5 DEF AtomicStep, Atomic!Next
  <1> QED BY <1>3, <1>4

\* A place the handler goes to, the rest of the call's record kept.
LEMMA Placed ==
  ASSUME Inv, NEW c \in Callers, NEW pc \in PCs, Goto(c, pc)
  PROVE  \E k \in CallSet :
           /\ call' = [call EXCEPT ![c] = k]
           /\ k.pc = pc /\ k.op = call[c].op /\ k.name = call[c].name /\ k.gone = call[c].gone
  <1> DEFINE k == [call[c] EXCEPT !.pc = pc]
  <1>1. call[c] \in CallSet /\ call \in [Callers -> CallSet] BY CallFacts, Types DEF Inv
  <1>2. call' = [call EXCEPT ![c] = k] BY <1>1 DEF Goto
  <1>3. k \in CallSet /\ k.pc = pc /\ k.op = call[c].op /\ k.name = call[c].name /\ k.gone = call[c].gone
    BY <1>1 DEF CallSet
  <1> HIDE DEF k
  <1> QED BY <1>2, <1>3

\* The mutexes are not seen.
LEMMA AcquireUnseen ==
  ASSUME Inv, NEW c \in Callers, Acquire(c)
  PROVE  AtomicStep
  <1>1. call[c] \in CallSet /\ Shape(call[c]) BY CallFacts DEF Good
  <1>2. CASE Lock(c)
    <2> DEFINE pc == IF At(c, "load") THEN "loading" ELSE "unloading"
    <2>1. pc \in PCs /\ Goto(c, pc) /\ entry' = entry /\ call[c].pc \in {"load", "unload"}
      BY <1>2 DEF Lock, PCs, daemon
    <2>2. pc \in {"loading", "unloading"} OBVIOUS
    <2> HIDE DEF pc
    <2>3. PICK k \in CallSet :
            /\ call' = [call EXCEPT ![c] = k]
            /\ k.pc = pc /\ k.op = call[c].op /\ k.name = call[c].name /\ k.gone = call[c].gone
      BY <2>1, Placed
    <2>4. ~Decided(call[c]) /\ ~Decided(k) BY <2>1, <2>2, <2>3 DEF Decided
    <2> QED BY <2>1, <2>2, <2>3, <2>4, MovesOn
  <1>3. CASE StatusLock(c)
    <2>1. "reading" \in PCs /\ Goto(c, "reading") /\ entry' = entry /\ call[c].pc = "status"
      BY <1>3 DEF StatusLock, PCs, daemon, At
    <2>2. PICK k \in CallSet :
            /\ call' = [call EXCEPT ![c] = k]
            /\ k.pc = "reading" /\ k.op = call[c].op /\ k.name = call[c].name
            /\ k.gone = call[c].gone
      BY <2>1, Placed
    <2>3. Decided(k) <=> Decided(call[c]) BY <2>1, <2>2 DEF Decided
    <2> QED BY <2>1, <2>2, <2>3, MovesOn
  <1>4. CASE Run(c)
    <2>1. "executing" \in PCs /\ Goto(c, "executing") /\ entry' = entry /\ call[c].pc = "run"
      BY <1>4 DEF Run, PCs, daemon, At
    <2>2. PICK k \in CallSet :
            /\ call' = [call EXCEPT ![c] = k]
            /\ k.pc = "executing" /\ k.op = call[c].op /\ k.name = call[c].name
            /\ k.gone = call[c].gone
      BY <2>1, Placed
    <2>3. Decided(k) /\ Decided(call[c]) BY <2>1, <2>2 DEF Decided
    <2> QED BY <2>1, <2>2, <2>3, MovesOn
  <1> QED BY <1>2, <1>3, <1>4 DEF Acquire

\* A load is decided within the lock.
LEMMA LoadDecides ==
  ASSUME Inv, NEW c \in Callers, Load(c)
  PROVE  AtomicStep
  <1> DEFINE n == call[c].name
  <1>1. call[c].pc = "loading" /\ call[c] \in CallSet /\ Shape(call[c])
    BY CallFacts DEF Load, At, Good
  <1>2. call[c].op = "load" /\ call[c].op \in Asks /\ call[c].op \notin Commands
    BY <1>1 DEF Shape, Asks, Commands
  <1>3. ~Decided(call[c]) BY <1>1 DEF Decided
  <1>4. Jobs[c].op = "load" /\ Jobs[c].state = "asked" /\ Jobs[c].name = n /\ n \in Names
    BY <1>1, <1>2, <1>3, JobNow
  <1>5. n \in LoadedNames <=> Loaded(n) # None BY <1>4, Table
  <1>6. ASSUME Goto(c, "status") PROVE Atomic!Becomes(c, "present")
    <2>1. PICK k \in CallSet :
            /\ call' = [call EXCEPT ![c] = k]
            /\ k.pc = "status" /\ k.op = call[c].op /\ k.name = call[c].name
            /\ k.gone = call[c].gone
      BY <1>6, Placed DEF PCs
    <2>2. Decided(k) BY <1>2, <2>1 DEF Decided
    <2> QED BY <1>2, <2>1, <2>2, JobDecided
  <1>7. ASSUME Atomic!DecideLoad(c) PROVE AtomicStep BY <1>7 DEF AtomicStep, Atomic!Next
  <1>8. CASE Loaded(n) # None /\ Goto(c, "status") /\ UNCHANGED <<daemon, past>>
    <2>1. LoadedNames' = LoadedNames BY <1>8, TableSame DEF daemon
    <2>2. Atomic!DecideLoad(c) BY <1>4, <1>5, <1>6, <1>8, <2>1 DEF Atomic!DecideLoad
    <2> QED BY <1>7, <2>2
  <1>9. CASE n \notin Registered /\ Answer(c, "not_found") /\ UNCHANGED <<daemon, past>>
    <2>1. LoadedNames' = LoadedNames BY <1>9, TableSame DEF daemon
    <2>2. Atomic!Answer(c, "not_found") BY <1>2, <1>9, JobAnswered DEF Answer, Codes
    <2>3. Atomic!DecideLoad(c) BY <1>4, <1>9, <2>1, <2>2 DEF Atomic!DecideLoad
    <2> QED BY <1>7, <2>3
  <1>10. CASE /\ n \in Registered /\ Loaded(n) = None /\ Answer(c, "denied")
              /\ UNCHANGED <<daemon, past>>
    <2>1. LoadedNames' = LoadedNames BY <1>10, TableSame DEF daemon
    <2>2. Atomic!Answer(c, "denied") BY <1>2, <1>10, JobAnswered DEF Answer, Codes
    <2>3. Atomic!DecideLoad(c) BY <1>4, <1>5, <1>10, <2>1, <2>2 DEF Atomic!DecideLoad
    <2> QED BY <1>7, <2>3
  <1>11. CASE /\ n \in Registered /\ Loaded(n) = None /\ Goto(c, "status")
              /\ LET i == CHOOSE j \in Inst : j.module = n /\ j \notin Referenced IN
                 entry' = [entry EXCEPT ![n] = i]
    <2> DEFINE i == CHOOSE j \in Inst : j.module = n /\ j \notin Referenced
    <2>1. entry \in EntrySet BY CallFacts
    <2>2. i \in Inst BY <1>11, Fresh DEF Inv, Loaded
    <2> HIDE DEF i
    <2>3. entry' = [entry EXCEPT ![n] = i] BY <1>11 DEF i
    <2>4. i # None BY <2>2, Constants
    <2>5. LoadedNames' = LoadedNames \cup {n}
      BY <1>11, <2>1, <2>3, <2>4 DEF LoadedNames, EntrySet
    <2>6. Atomic!DecideLoad(c) BY <1>4, <1>5, <1>6, <1>11, <2>5 DEF Atomic!DecideLoad
    <2> QED BY <1>7, <2>6
  <1> QED BY <1>8, <1>9, <1>10, <1>11 DEF Load

\* An unload removes the module in the step in which it is answered.
LEMMA UnloadUnloads ==
  ASSUME Inv, NEW c \in Callers, Unload(c)
  PROVE  AtomicStep
  <1> DEFINE n == call[c].name
  <1>1. /\ call[c].pc = "unloading" /\ call[c] \in CallSet /\ Shape(call[c])
        /\ entry \in EntrySet /\ Answer(c, "ok")
    BY CallFacts DEF Unload, At, Good
  <1>2. call[c].op = "unload" /\ call[c].op \in Asks /\ call[c].op \notin Commands
    BY <1>1 DEF Shape, Asks, Commands
  <1>3. ~Decided(call[c]) BY <1>1 DEF Decided
  <1>4. Jobs[c].op = "unload" /\ Jobs[c].state = "asked" /\ Jobs[c].name = n /\ n \in Names
    BY <1>1, <1>2, <1>3, JobNow
  <1>5. Atomic!Answer(c, "ok") BY <1>1, <1>2, JobAnswered DEF Answer, Codes
  <1>6. LoadedNames' = LoadedNames \ {n}
    <2>1. CASE Loaded(n) = None /\ entry' = entry
      BY <1>4, <2>1, Table, TableSame
    <2>2. CASE Loaded(n) # None /\ entry' = [entry EXCEPT ![n] = None]
      <3>1. n \in Registered BY <2>2 DEF Loaded
      <3> QED BY <1>1, <2>2, <3>1 DEF LoadedNames, EntrySet
    <2> QED BY <2>1, <2>2 DEF Unload, daemon
  <1>7. Atomic!Unload(c) BY <1>4, <1>5, <1>6 DEF Atomic!Unload
  <1> QED BY <1>7 DEF AtomicStep, Atomic!Next

\* A rendering stays a rendering from row to row.
LEMMA AdvanceOp ==
  ASSUME Inv, NEW c \in Callers, NEW k \in CallSet, k.op = call[c].op
  PROVE  Advance(c, k).op = k.op
  <1>1. Answered(c, "ok") \in CallSet /\ Answered(c, "ok").op = k.op
    BY AnsweredFields DEF Codes
  <1>2. [Answered(c, "ok") EXCEPT !.rows = k.rows].op = k.op BY <1>1 DEF CallSet
  <1>3. /\ [k EXCEPT !.row = k.row + 1, !.pc = IF k.pc = "offers" THEN k.pc ELSE "status"].op = k.op
        /\ [k EXCEPT !.row = 1, !.pc = "offers"].op = k.op
    BY DEF CallSet
  <1> QED BY <1>2, <1>3 DEF Advance

\* A module that is not there, for a call that was asked.
LEMMA AbsentAnswers ==
  ASSUME Inv, NEW c \in Callers, call[c].op \in Asks
  PROVE  Absent(c) = Answered(c, IF call[c].op = "load" THEN "internal" ELSE "not_found")
  BY DEF Absent, Asks, Commands

\* The module a call was asked about.
LEMMA AskedSubject ==
  ASSUME Inv, NEW c \in Callers, call[c].op \in Asks
  PROVE  Subject(c) = call[c].name
  BY DEF Subject, Asks, Commands

\* What a handler that finds nothing leaves of a rendering.
LEMMA AbsentOp ==
  ASSUME Inv, NEW c \in Callers, call[c].op \notin Asks
  PROVE  Absent(c).op = call[c].op
  <1> DEFINE k == [call[c] EXCEPT !.from = None]
  <1>1. call[c] \in CallSet BY CallFacts
  <1>2. k \in CallSet /\ k.op = call[c].op BY <1>1 DEF CallSet
  <1> HIDE DEF k
  <1>3. Advance(c, k).op = call[c].op BY <1>2, AdvanceOp
  <1>4. Answered(c, "not_found").op = call[c].op BY AnsweredFields DEF Codes
  <1>5. call[c].op # "load" BY DEF Asks
  <1>6. CASE call[c].op = "render" BY <1>3, <1>6 DEF Absent, k
  <1>7. CASE call[c].op # "render" BY <1>4, <1>5, <1>7 DEF Absent
  <1> QED BY <1>6, <1>7

\* Status: the second look of a load, the first of a status.
LEMMA StatusLooks ==
  ASSUME Inv, NEW c \in Callers, Status(c)
  PROVE  AtomicStep
  <1> DEFINE k == call[c]
             i == Loaded(Subject(c))
  <1>1. /\ k.pc = "reading" /\ k \in CallSet /\ Shape(k) /\ entry' = entry
        /\ call \in [Callers -> CallSet]
    BY CallFacts, Types DEF Status, At, Good, daemon, Inv
  <1>2. /\ i = None => call' = [call EXCEPT ![c] = Absent(c)]
        /\ i # None => IF k.op = "load" THEN Answer(c, "ok")
                       ELSE call' = [call EXCEPT ![c].from = i, ![c].pc = "module"]
    BY DEF Status
  <1>3. LoadedNames' = LoadedNames BY <1>1, TableSame
  <1>4. CASE k.op \notin Asks
    <2>1. CASE i = None
      <3>1. JobOf(Absent(c)) = Atomic!NoJob /\ JobOf(k) = Atomic!NoJob
        BY <1>4, AbsentOp, NotAsked
      <3> QED BY <1>1, <1>2, <2>1, <3>1, Unseen
    <2>2. CASE i # None
      <3> DEFINE a == [k EXCEPT !.from = i, !.pc = "module"]
      <3>1. a.op = k.op BY <1>1 DEF CallSet
      <3>2. k.op # "load" BY <1>4 DEF Asks
      <3>3. call' = [call EXCEPT ![c] = a] BY <1>1, <1>2, <2>2, <3>2
      <3> HIDE DEF a
      <3>4. JobOf(a) = JobOf(k) BY <1>4, <3>1, NotAsked
      <3> QED BY <1>1, <3>3, <3>4, Unseen
    <2> QED BY <2>1, <2>2
  <1>5. CASE k.op = "load"
    <2>1. k.op \in Asks /\ k.op \notin Commands /\ Decided(k) BY <1>1, <1>5 DEF Asks, Commands, Decided
    <2>2. Jobs[c].op = "load" /\ Jobs[c].state = "present" /\ Jobs[c].name = k.name /\ k.name \in Names
      BY <1>1, <1>5, <2>1, JobNow
    <2>3. k.name \in LoadedNames <=> i # None BY <2>1, <2>2, Table, AskedSubject
    <2>4. CASE i = None
      <3>1. Absent(c) = Answered(c, "internal") BY <1>5, <2>1, AbsentAnswers
      <3>2. Atomic!Answer(c, "internal") BY <1>2, <2>1, <2>4, <3>1, JobAnswered DEF Codes
      <3>3. Atomic!FinishLoad(c) BY <1>3, <2>2, <2>3, <2>4, <3>2 DEF Atomic!FinishLoad
      <3> QED BY <3>3 DEF AtomicStep, Atomic!Next
    <2>5. CASE i # None
      <3>1. Atomic!Answer(c, "ok") BY <1>2, <1>5, <2>1, <2>5, JobAnswered DEF Answer, Codes
      <3>2. Atomic!FinishLoad(c) BY <1>3, <2>2, <2>3, <2>5, <3>1 DEF Atomic!FinishLoad
      <3> QED BY <3>2 DEF AtomicStep, Atomic!Next
    <2> QED BY <2>4, <2>5
  <1>6. CASE k.op \in Asks /\ k.op # "load"
    <2>1. k.op = "status" /\ ~Decided(k) /\ k.op \notin Commands
      BY <1>1, <1>6 DEF Shape, Asks, Commands, Decided
    <2>2. Jobs[c].op = "status" /\ Jobs[c].state = "asked" /\ Jobs[c].name = k.name /\ k.name \in Names
      BY <1>1, <1>6, <2>1, JobNow
    <2>3. k.name \in LoadedNames <=> i # None BY <1>6, <2>2, Table, AskedSubject
    <2>4. CASE i = None
      <3>1. Absent(c) = Answered(c, "not_found") BY <1>6, AbsentAnswers
      <3>2. Atomic!Answer(c, "not_found") BY <1>2, <1>6, <2>4, <3>1, JobAnswered DEF Codes
      <3>3. Atomic!Look(c) BY <1>3, <2>2, <2>3, <2>4, <3>2 DEF Atomic!Look
      <3> QED BY <3>3 DEF AtomicStep, Atomic!Next
    <2>5. CASE i # None
      <3> DEFINE a == [k EXCEPT !.from = i, !.pc = "module"]
      <3>1. call' = [call EXCEPT ![c] = a] BY <1>1, <1>2, <1>6, <2>5
      <3>2. i \in Inst BY <2>5, CallFacts DEF Loaded, EntrySet
      <3>3. a \in CallSet /\ a.op = k.op /\ a.name = k.name /\ a.gone = k.gone /\ a.pc = "module"
        BY <1>1, <3>2 DEF CallSet, PCs
      <3> HIDE DEF a
      <3>4. ~Decided(a) BY <3>3 DEF Decided
      <3> QED BY <1>1, <2>1, <3>1, <3>3, <3>4, MovesOn
    <2> QED BY <2>4, <2>5
  <1> QED BY <1>4, <1>5, <1>6

\* Module: a status or a command finds its module, or has lost it.
LEMMA ModuleLooks ==
  ASSUME Inv, NEW c \in Callers, Module(c)
  PROVE  AtomicStep
  <1> DEFINE k == call[c]
             i == Loaded(Subject(c))
             a == [k EXCEPT !.inst = i, !.pc = IF k.op \in Commands THEN "run" ELSE "health"]
  <1>1. /\ k.pc = "module" /\ k \in CallSet /\ Shape(k) /\ entry' = entry
        /\ call \in [Callers -> CallSet]
    BY CallFacts, Types DEF Module, At, Good, daemon, Inv
  <1>2. /\ i = None => call' = [call EXCEPT ![c] = Absent(c)]
        /\ i # None => call' = [call EXCEPT ![c] = a]
    BY <1>1 DEF Module
  <1>3. i # None => i \in Inst BY CallFacts DEF Loaded, EntrySet
  <1>4. /\ i # None => a \in CallSet
        /\ a.op = k.op /\ a.name = k.name /\ a.gone = k.gone
        /\ a.pc = IF k.op \in Commands THEN "run" ELSE "health"
    BY <1>1, <1>3 DEF CallSet, PCs
  <1> HIDE DEF a
  <1>5. LoadedNames' = LoadedNames BY <1>1, TableSame
  <1>6. CASE k.op \notin Asks
    <2>1. JobOf(Absent(c)) = JobOf(k) /\ JobOf(a) = JobOf(k)
      BY <1>4, <1>6, AbsentOp, NotAsked
    <2> QED BY <1>1, <1>2, <2>1, Unseen
  <1>7. CASE k.op \in Asks
    <2>1. k.op \in {"status"} \cup Commands /\ k.op # "load" /\ ~Decided(k)
      BY <1>1, <1>7 DEF Shape, Asks, Commands, Decided
    <2>2. /\ Jobs[c].op \in {"status", "command"} /\ Jobs[c].state = "asked"
          /\ Jobs[c].name = k.name /\ k.name \in Names
      BY <1>1, <1>7, <2>1, JobNow
    <2>3. k.name \in LoadedNames <=> i # None BY <1>7, <2>2, Table, AskedSubject
    <2>4. CASE i = None
      <3>1. Absent(c) = Answered(c, "not_found") BY <1>7, <2>1, AbsentAnswers
      <3>2. Atomic!Answer(c, "not_found") BY <1>2, <1>7, <2>4, <3>1, JobAnswered DEF Codes
      <3>3. Atomic!Look(c) BY <1>5, <2>2, <2>3, <2>4, <3>2 DEF Atomic!Look
      <3> QED BY <3>3 DEF AtomicStep, Atomic!Next
    <2>5. CASE i # None
      <3>1. Decided(a) /\ a.pc # "done" BY <1>4 DEF Decided
      <3>2. Atomic!Becomes(c, "present") BY <1>2, <1>4, <1>7, <2>5, <3>1, JobDecided
      <3>3. Atomic!Look(c) BY <1>5, <2>2, <2>3, <2>5, <3>2 DEF Atomic!Look
      <3> QED BY <3>3 DEF AtomicStep, Atomic!Next
    <2> QED BY <2>4, <2>5
  <1> QED BY <1>6, <1>7

\* Health: the answer to a status.
LEMMA HealthAnswers ==
  ASSUME Inv, NEW c \in Callers, Health(c)
  PROVE  AtomicStep
  <1> DEFINE k == call[c]
  <1>1. /\ k.pc = "health" /\ k \in CallSet /\ Shape(k) /\ entry' = entry
        /\ call \in [Callers -> CallSet]
    BY CallFacts, Types DEF Health, At, Good, daemon, Inv
  <1>2. PICK l \in Levels :
          LET r == [name |-> Subject(c), health |-> l, sameInstance |-> k.from = k.inst]
              b == [k EXCEPT !.from = None, !.inst = None,
                             !.rows = IF k.gone THEN {} ELSE @ \cup {r}]
          IN call' = [call EXCEPT ![c] = IF b.op = "render" THEN Advance(c, b)
                                         ELSE [Answered(c, "ok") EXCEPT !.rows = b.rows]]
    BY DEF Health
  <1> DEFINE r == [name |-> Subject(c), health |-> l, sameInstance |-> k.from = k.inst]
             rows == IF k.gone THEN {} ELSE k.rows \cup {r}
             b == [k EXCEPT !.from = None, !.inst = None, !.rows = rows]
  <1>3. Subject(c) \in Registered BY <1>1, Rowing DEF Subject, Shape, CallSet
  <1>4. r \in Rows BY <1>3 DEF Rows
  <1>5. b \in CallSet /\ b.op = k.op /\ b.rows \in SUBSET Rows
    <2>1. rows \in SUBSET Rows BY <1>1, <1>4 DEF CallSet
    <2> HIDE DEF rows
    <2> QED BY <1>1, <2>1 DEF CallSet
  <1>6. call' = [call EXCEPT ![c] = IF b.op = "render" THEN Advance(c, b)
                                    ELSE [Answered(c, "ok") EXCEPT !.rows = b.rows]]
    BY <1>2
  <1> HIDE DEF b, rows
  <1>7. CASE k.op = "render"
    <2>1. Advance(c, b).op = k.op BY <1>5, AdvanceOp
    <2>2. k.op \notin Asks BY <1>7 DEF Asks, Commands
    <2>3. JobOf(Advance(c, b)) = JobOf(k) BY <2>1, <2>2, NotAsked
    <2> QED BY <1>1, <1>5, <1>6, <1>7, <2>3, Unseen
  <1>8. CASE k.op = "status"
    <2> DEFINE a == [Answered(c, "ok") EXCEPT !.rows = b.rows]
    <2>1. /\ "ok" \in Codes /\ k.op \in Asks /\ k.op \notin Commands /\ Decided(k)
      BY <1>1, <1>8 DEF Codes, Asks, Commands, Decided
    <2>2. /\ a \in CallSet /\ a.pc = "done" /\ a.op = k.op /\ a.name = k.name /\ a.gone = k.gone
          /\ a.code = IF k.gone THEN k.code ELSE "ok"
      BY <1>5, <2>1, AnsweredFields DEF CallSet
    <2>3. call' = [call EXCEPT ![c] = a] BY <1>5, <1>6, <1>8
    <2> HIDE DEF a
    <2>4. Atomic!Answer(c, "ok") BY <2>1, <2>2, <2>3, JobAnswers
    <2>5. Jobs[c].op = "status" /\ Jobs[c].state = "present" BY <1>1, <1>8, <2>1, JobNow
    <2>6. Atomic!Finish(c) BY <1>1, <2>4, <2>5, TableSame DEF Atomic!Finish
    <2> QED BY <2>6 DEF AtomicStep, Atomic!Next
  <1> QED BY <1>1, <1>7, <1>8 DEF Shape

\* Execute: the answer to a command.
LEMMA ExecuteAnswers ==
  ASSUME Inv, NEW c \in Callers, Execute(c)
  PROVE  AtomicStep
  <1>1. call[c].pc = "executing" /\ call[c] \in CallSet /\ Shape(call[c]) /\ entry' = entry
    BY CallFacts DEF Execute, At, Good, daemon
  <1>2. call[c].op \in Commands /\ call[c].op \in Asks /\ Decided(call[c])
    BY <1>1 DEF Shape, Asks, Decided
  <1>3. PICK code \in {"ok", "failed", "internal"} : Answer(c, code) BY DEF Execute
  <1>4. Atomic!Answer(c, code) BY <1>2, <1>3, JobAnswered DEF Answer, Codes
  <1>5. Jobs[c].op = "command" /\ Jobs[c].state = "present" BY <1>1, <1>2, JobNow
  <1>6. Atomic!Finish(c) BY <1>1, <1>3, <1>4, <1>5, TableSame DEF Atomic!Finish
  <1> QED BY <1>6 DEF AtomicStep, Atomic!Next

\* ListModules and ListCommands belong to a rendering.
LEMMA ListsUnseen ==
  ASSUME Inv, NEW c \in Callers, List(c) \/ ListCommands(c)
  PROVE  AtomicStep
  <1>1. /\ call[c] \in CallSet /\ Shape(call[c]) /\ call \in [Callers -> CallSet]
        /\ call[c].pc \in {"list", "offers"} /\ entry' = entry
    BY CallFacts, Types DEF List, ListCommands, At, Good, daemon, Inv
  <1>2. call[c].op \notin Asks BY <1>1 DEF Shape, Asks, Commands
  <1>3. CASE List(c)
    <2> DEFINE shown == {n \in Registered : entry[n] # None}
               a == [call[c] EXCEPT !.pc = "status", !.list = shown]
    <2>1. call' = [call EXCEPT ![c] = a] BY <1>1, <1>3 DEF List
    <2>2. a.op = call[c].op BY <1>1 DEF CallSet
    <2> HIDE DEF a
    <2>3. JobOf(a) = JobOf(call[c]) BY <1>2, <2>2, NotAsked
    <2> QED BY <1>1, <2>1, <2>3, Unseen
  <1>4. CASE ListCommands(c)
    <2>1. Advance(c, call[c]).op = call[c].op BY <1>1, AdvanceOp
    <2>2. JobOf(Advance(c, call[c])) = JobOf(call[c]) BY <1>2, <2>1, NotAsked
    <2> QED BY <1>1, <1>4, <2>2, Unseen DEF ListCommands
  <1> QED BY <1>3, <1>4

\* LoadModule, UnloadModule, GetStatus and Dispatch, with their callers,
\* implement AtomicCalls: every call takes effect in one step, whatever the
\* other callers do between its critical sections.
THEOREM LookAtomic == Spec => CallsLookAtomic
  <1>1. Init => Atomic!Init
    <2> SUFFICES ASSUME Init PROVE Atomic!Init OBVIOUS
    <2>1. LoadedNames = {} BY DEF Init, LoadedNames
    <2>2. JobOf(Idle) = Atomic!NoJob BY NotAsked DEF Idle, Asks, Commands
    <2>3. Jobs = [c \in Callers |-> Atomic!NoJob] BY <2>2 DEF Init, Jobs
    <2> QED BY <2>1, <2>3 DEF Atomic!Init
  <1>2. Inv /\ [Next]_vars => [Atomic!Next]_(Atomic!atomicVars)
    <2> SUFFICES ASSUME Inv, [Next]_vars PROVE AtomicStep BY DEF AtomicStep
    <2>1. CASE UNCHANGED vars
      BY <2>1 DEF vars, AtomicStep, Atomic!atomicVars, LoadedNames, Jobs
    <2>2. ASSUME NEW q \in Requests, NEW allowed \in BOOLEAN, Call(q[1], q[2], q[3], allowed)
          PROVE  AtomicStep
      <3>1. q[1] \in Callers /\ q[2] \in Asks /\ q[3] \in Names BY Constants
      <3> QED BY <2>2, <3>1, CallAsks
    <2>3. CASE Render
      <3>1. PICK allowed \in BOOLEAN : Call(Tray, "render", Stranger, allowed)
        BY <2>3 DEF Render
      <3> QED BY <3>1, Constants, CallAsks DEF Names
    <2>4. ASSUME NEW c \in Callers, BuildRoot(c) \/ GiveUp(c) \/ Return(c)
          PROVE  AtomicStep
      BY <2>4, BuildRootEnds, GiveUpGivesUp, ReturnReturns
    <2>5. ASSUME NEW c \in Callers, Handler(c) PROVE AtomicStep
      BY <2>5, LoadDecides, UnloadUnloads, StatusLooks, ModuleLooks, HealthAnswers,
         ExecuteAnswers, ListsUnseen DEF Handler
    <2>6. ASSUME NEW c \in Callers, Acquire(c) PROVE AtomicStep BY <2>6, AcquireUnseen
    <2> QED BY <2>1, <2>2, <2>3, <2>4, <2>5, <2>6 DEF Next
  <1> QED BY <1>1, <1>2, Invariance, PTL DEF Spec, CallsLookAtomic, Atomic!Spec
=============================================================================
