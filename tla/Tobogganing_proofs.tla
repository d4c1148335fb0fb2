------------------------- MODULE Tobogganing_proofs -------------------------
(***************************************************************************)
(* Proofs about one instance of the tobogganing module, for any commands   *)
(* and any number of failures, expiries and refreshes.                     *)
(***************************************************************************)
EXTENDS Tobogganing, FiniteSetTheorems, TLAPS

PCs == AtRest \cup ConnectorSteps \cup StopSteps \cup {"loop"}

\* The token in the secret store is one the manager accepts or one whose time
\* is over, unless Stop is about to delete what it has had revoked, or could
\* not, or found such a token.
StoreInv ==
  lost \cap {"stopper", "earlier"} = {} /\ cached # 0
  => cached \in valid \cup expired \/ pc["stopper"] \in {"clear", "delete"}

Inv == TypeOK /\ StoreInv

LEMMA NamedActors ==
  /\ Connectors \subseteq Actors /\ Commands \subseteq Actors
  /\ "initial" \in Actors /\ "refresher" \in Actors /\ "monitor" \in Actors /\ "stopper" \in Actors
  BY DEF Actors, Connectors

LEMMA SomeTokens == 0 \in Tokens /\ 1 \in Tokens
<1>1. IsFiniteSet(Connectors)
  BY FS_AddElement, TobogganingAssumption DEF Connectors
<1>2. IsFiniteSet(Actors)
  <2>1. IsFiniteSet(Connectors \cup {"refresher"})
    BY <1>1, FS_AddElement
  <2>2. IsFiniteSet((Connectors \cup {"refresher"}) \cup {"monitor"})
    BY <2>1, FS_AddElement
  <2>3. IsFiniteSet(((Connectors \cup {"refresher"}) \cup {"monitor"}) \cup {"stopper"})
    BY <2>2, FS_AddElement
  <2>4. Actors = ((Connectors \cup {"refresher"}) \cup {"monitor"}) \cup {"stopper"}
    BY DEF Actors
  <2> QED BY <2>3, <2>4
<1>3. Cardinality(Actors) \in Nat
  BY <1>2, FS_CardinalityType
<1> QED BY <1>3 DEF Tokens

LEMMA Initial == Init => Inv
<1> SUFFICES ASSUME Init PROVE Inv
  OBVIOUS
<1>1. pc \in [Actors -> PCs]
  BY DEF Init, loadCachedToken, PCs, ConnectorSteps, AtRest
<1>2. token \in Tokens /\ cached \in Tokens /\ tok \in [Actors -> Tokens]
  BY SomeTokens DEF Init, loadCachedToken
<1>3. valid \subseteq Tokens /\ expired \subseteq Tokens
  BY SomeTokens DEF Init, loadCachedToken
<1>4. failures \in Nat /\ expiries \in Nat /\ refreshes \in Nat
      /\ failures + expiries + refreshes <= MaxTurns
  BY TobogganingAssumption DEF Init, loadCachedToken
<1>5. refresh \in BOOLEAN
  BY DEF Init, loadCachedToken
<1>6. StoreInv /\ lost \subseteq Actors \cup {"earlier"}
  BY DEF Init, loadCachedToken, StoreInv
<1> QED BY <1>1, <1>2, <1>3, <1>4, <1>5, <1>6 DEF Init, loadCachedToken, Inv, TypeOK, PCs

LEMMA NewTokenKeeps ==
  ASSUME TypeOK, NewToken
  PROVE  /\ token' \in Tokens /\ cached' \in Tokens
         /\ expired' \subseteq Tokens /\ valid' \subseteq Tokens
         /\ refresh' \in BOOLEAN
         /\ cached' # 0 /\ cached' # cached => cached' \in valid'
         /\ cached' = cached /\ cached \in valid \cup expired => cached' \in valid' \cup expired'
<1>1. cached \in InUse /\ 0 \in Tokens
  BY SomeTokens DEF InUse
<1> QED BY <1>1 DEF TypeOK, NewToken

LEMMA TurnsKept ==
  ASSUME TypeOK, NEW a, NewToken \/ Unanswered(a) \/ Fails \/ UNCHANGED failures,
         UNCHANGED <<expiries, refreshes>>
  PROVE  failures' \in Nat /\ failures' + expiries' + refreshes' <= MaxTurns
<1>1. Fails \/ UNCHANGED failures
  BY DEF NewToken, Unanswered
<1> QED BY <1>1, TobogganingAssumption DEF TypeOK, Fails, MoreTurns

\* A step of a connector's program counter.
LEMMA GoTyped ==
  ASSUME TypeOK, NEW a \in Actors, NEW to \in PCs, Go(a, to)
  PROVE  /\ pc' \in [Actors -> PCs]
         /\ a # "stopper" => pc'["stopper"] = pc["stopper"]
         /\ a = "stopper" => pc'["stopper"] = to
  BY NamedActors DEF TypeOK, Go, PCs

LEMMA EnsureKeeps ==
  ASSUME Inv, NEW c \in Connectors, c # "stopper", NEW refreshing \in PCs, NEW obtaining \in PCs, NEW next \in PCs,
         NEW at,
         \/ EnsureBegins(c, at, refreshing, obtaining, next)
         \/ EnsureRefreshes(c, refreshing, obtaining, next)
         \/ EnsureObtains(c, obtaining, next)
  PROVE  Inv'
<1>0. c \in Actors /\ "done" \in PCs
  BY NamedActors DEF PCs, AtRest
<1> USE DEF Inv, StoreInv
<1>1. CASE EnsureBegins(c, at, refreshing, obtaining, next)
  BY <1>0, <1>1, GoTyped DEF EnsureBegins, TypeOK, auth, bounds, PCs
<1>2. CASE EnsureRefreshes(c, refreshing, obtaining, next)
  <2>1. failures' \in Nat /\ failures' + expiries' + refreshes' <= MaxTurns
    BY <1>2, TurnsKept DEF EnsureRefreshes, TypeOK
  <2>2. CASE NewToken /\ Go(c, next) /\ amu' = NoOne
    BY <1>0, <1>2, <2>1, <2>2, GoTyped, NewTokenKeeps DEF EnsureRefreshes, TypeOK, PCs
  <2>3. CASE Go(c, obtaining) /\ UNCHANGED <<auth, amu>>
    BY <1>0, <1>2, <2>1, <2>3, GoTyped DEF EnsureRefreshes, TypeOK, auth, PCs
  <2> QED BY <1>2, <2>2, <2>3 DEF EnsureRefreshes
<1>3. CASE EnsureObtains(c, obtaining, next)
  <2>1. failures' \in Nat /\ failures' + expiries' + refreshes' <= MaxTurns
    BY <1>3, TurnsKept DEF EnsureObtains
  <2>2. CASE NewToken /\ Go(c, next)
    BY <1>0, <1>3, <2>1, <2>2, GoTyped, NewTokenKeeps DEF EnsureObtains, TypeOK, PCs
  <2>3. CASE Go(c, "done") /\ UNCHANGED auth
    BY <1>0, <1>3, <2>1, <2>3, GoTyped DEF EnsureObtains, TypeOK, auth, PCs
  <2> QED BY <1>3, <2>2, <2>3 DEF EnsureObtains
<1> QED BY <1>1, <1>2, <1>3

LEMMA Preserved == Inv /\ [Next]_vars => Inv'
<1> SUFFICES ASSUME Inv, [Next]_vars
             PROVE  Inv'
  OBVIOUS
<1>0. {"pre", "prerefreshing", "preobtaining", "check", "ensure", "refreshing", "obtaining",
       "lock", "gettoken", "fetching", "disconnect", "rotate", "rotategettoken",
       "rotatefetching", "status", "off", "done", "loop", "read", "revoking", "clear",
       "delete", "cancel"} \subseteq PCs
  BY DEF PCs, AtRest, ConnectorSteps, StopSteps
<1>n. \A c \in Connectors : c # "stopper"
  BY TobogganingAssumption DEF Connectors
<1> USE NamedActors, TobogganingAssumption DEF Inv, StoreInv
<1>1. ASSUME NEW c \in Connectors, EnsureValidToken(c)
      PROVE  Inv'
  BY <1>0, <1>n, <1>1, EnsureKeeps DEF EnsureValidToken
<1>2. ASSUME NEW c \in Connectors, CheckRunning(c)
      PROVE  Inv'
  BY <1>0, <1>n, <1>2, GoTyped DEF CheckRunning, TypeOK, auth, locks, bounds, PCs
<1>3. ASSUME NEW c \in Connectors, LockTunnel(c)
      PROVE  Inv'
  BY <1>0, <1>n, <1>3, GoTyped DEF LockTunnel, TypeOK, auth, bounds, PCs
<1>4. ASSUME NEW c \in Connectors, GetToken(c)
      PROVE  Inv'
  BY <1>0, <1>n, <1>4, GoTyped DEF GetToken, TypeOK, auth, bounds, PCs
<1>5. ASSUME NEW c \in Connectors, Fetched(c)
      PROVE  Inv'
  BY <1>0, <1>n, <1>5, GoTyped, TurnsKept, SomeTokens DEF Fetched, TypeOK, auth, PCs
<1>6. ASSUME NEW c \in Connectors, Rotated(c)
      PROVE  Inv'
  BY <1>0, <1>n, <1>6, GoTyped DEF Rotated, TypeOK, auth, bounds, PCs
<1>7. ASSUME NEW c \in Commands, NEW k \in Kinds, Dispatch(c, k)
      PROVE  Inv'
  BY <1>0, <1>n, <1>7, GoTyped DEF Dispatch, TypeOK, auth, locks, bounds, PCs, Connectors, CommandTree
<1>8. ASSUME NEW a \in Actors, Disconnect(a)
      PROVE  Inv'
  BY <1>0, <1>8, GoTyped DEF Disconnect, TypeOK, auth, locks, bounds, PCs
<1>9. ASSUME NEW c \in Commands, ReadStatus(c)
      PROVE  Inv'
  BY <1>0, <1>n, <1>9, GoTyped DEF ReadStatus, TypeOK, auth, locks, bounds, PCs, Connectors
<1>10. ASSUME NEW a \in {"refresher", "monitor"}, LoopEnds(a)
       PROVE  Inv'
  BY <1>0, <1>10, GoTyped DEF LoopEnds, TypeOK, auth, locks, bounds, PCs
<1>11. CASE RefreshBegins
  BY <1>0, <1>11, GoTyped DEF RefreshBegins, MoreTurns, TypeOK, auth, PCs
<1>12. CASE RefreshEnds
  BY <1>0, <1>12, GoTyped, TurnsKept, NewTokenKeeps DEF RefreshEnds, TypeOK, auth, PCs
<1>13. CASE UpdateHealthProbe
  BY <1>13 DEF UpdateHealthProbe, TypeOK, auth, locks, bounds
<1>14. CASE TokenExpires
  BY <1>14 DEF TokenExpires, MoreTurns, TypeOK, locks
<1>15. CASE StopBegins
  BY <1>0, <1>15, GoTyped DEF StopBegins, TypeOK, auth, locks, bounds, PCs
<1>16. CASE RevokeBegins
  BY <1>0, <1>16, GoTyped DEF RevokeBegins, TypeOK, auth, locks, bounds, PCs
<1>17. CASE RevokeAnswered
  <2>1. /\ failures' \in Nat /\ failures' + expiries' + refreshes' <= MaxTurns
        /\ pc' \in [Actors -> PCs]
        /\ lost \subseteq lost' /\ lost' \subseteq lost \cup {"stopper"}
    BY <1>0, <1>17, GoTyped, TurnsKept DEF RevokeAnswered
  <2>2. TypeOK'
    BY <1>17, <2>1, SomeTokens DEF RevokeAnswered, TypeOK, locks, PCs
  <2>3. CASE pc'["stopper"] = "clear" \/ "stopper" \in lost'
    BY <2>2, <2>3
  <2>4. CASE pc'["stopper"] # "clear" /\ "stopper" \notin lost'
    <3>1. valid' = valid /\ lost' = lost
      BY <1>0, <1>17, <2>4, GoTyped DEF RevokeAnswered
    <3> QED BY <1>17, <2>2, <3>1 DEF RevokeAnswered
  <2> QED BY <2>3, <2>4
<1>18. CASE ClearToken
  BY <1>0, <1>18, GoTyped, SomeTokens DEF ClearToken, TypeOK, locks, bounds, PCs
<1>19. CASE DeleteCached
  BY <1>0, <1>19, GoTyped, TurnsKept, SomeTokens DEF DeleteCached, TypeOK, locks, PCs
<1>20. CASE CancelContext
  BY <1>0, <1>20, GoTyped DEF CancelContext, TypeOK, auth, locks, bounds, PCs
<1>21. CASE UNCHANGED vars
  BY <1>21 DEF vars, TypeOK, auth, locks, bounds
<1> HIDE DEF Inv, StoreInv
<1> QED
  BY <1>1, <1>2, <1>3, <1>4, <1>5, <1>6, <1>7, <1>8, <1>9, <1>10, <1>11, <1>12, <1>13, <1>14,
     <1>15, <1>16, <1>17, <1>18, <1>19, <1>20, <1>21
  DEF Next, ConnectorStep, EstablishTunnel, StopperStep

LEMMA Invariance == Spec => []Inv
  BY Initial, Preserved, PTL DEF Spec

\* The state has its types, and no more goes wrong than MaxTurns allows.
THEOREM TypeCorrect == Spec => []TypeOK
<1>1. Inv => TypeOK
  BY DEF Inv
<1> QED BY <1>1, Invariance, PTL

\* Stop leaves no revoked token in the secret store for the next start, however
\* refreshes and commands overlap with RevokeToken and whether or not they can
\* store their tokens, unless the revocation or the deletion itself failed or
\* the instance found such a token (RevokeToken, obtainTokenLocked).
THEOREM StoredTokensWork == Spec => []StoredTokenWorks
<1>1. Inv => StoredTokenWorks
  BY NamedActors DEF Inv, StoreInv, StoredTokenWorks, Settled, AtRest
<1> QED BY <1>1, Invariance, PTL

-----------------------------------------------------------------------------
(* The two mutexes. *)

\* Where AuthManager.mu is held: a token is being asked for.
TokenRequests == {"prerefreshing", "preobtaining", "refreshing", "obtaining"}

\* Where VPNManager.mu is held: before and during the fetch.
Fetches == {"fetching", "rotatefetching"}
TunnelSteps == {"gettoken", "rotategettoken"} \cup Fetches

LockInv ==
  /\ \A a \in Actors : (amu = a <=> pc[a] \in TokenRequests) /\ (vmu = a <=> pc[a] \in TunnelSteps)
  /\ pc["stopper"] \in AtRest \cup StopSteps

\* What the next step of an actor needs.  A loop's select has another way out.
NeedsToken(a) == pc[a] \in {"pre", "ensure", "gettoken", "rotategettoken", "read", "clear"}
NeedsTunnel(a) == pc[a] \in {"lock", "rotate", "disconnect", "status"}

Blocked(a) ==
  \/ NeedsToken(a) /\ amu # NoOne
  \/ NeedsTunnel(a) /\ vmu # NoOne

\* Two goroutines never ask for a token at a time, nor fetch a configuration;
\* Stop holds neither mutex; and while somebody is blocked, a goroutine other
\* than Stop that holds one of the mutexes is not: it is asking for a token or
\* about to fetch a configuration.
MutexesFormNoCircle ==
  /\ \A a, b \in Actors : pc[a] \in TokenRequests /\ pc[b] \in TokenRequests => a = b
  /\ \A a, b \in Actors : pc[a] \in Fetches /\ pc[b] \in Fetches => a = b
  /\ amu # "stopper" /\ vmu # "stopper"
  /\ \A a \in Actors : Blocked(a) =>
       \E b \in Actors \ {a, "stopper"} :
         b \in {amu, vmu} /\ ~Blocked(b) /\ pc[b] \in TokenRequests \cup TunnelSteps

\* A step keeps LockInv if the actor arrives with the mutexes of its new place
\* and nobody else's mutex changes hands.
LEMMA Moves ==
  ASSUME TypeOK, LockInv, NEW a \in Actors, NEW to, Go(a, to),
         amu' = a <=> to \in TokenRequests, vmu' = a <=> to \in TunnelSteps,
         \A b \in Actors \ {a} : (amu' = b <=> amu = b) /\ (vmu' = b <=> vmu = b),
         a = "stopper" => to \in AtRest \cup StopSteps
  PROVE  LockInv'
<1>1. pc'[a] = to /\ \A b \in Actors \ {a} : pc'[b] = pc[b]
  BY DEF TypeOK, Go
<1> QED BY <1>1, NamedActors DEF LockInv

\* The same for a step that leaves the mutexes alone, between places where
\* none is held or where the same one is.
LEMMA MovesAlone ==
  ASSUME TypeOK, LockInv, NEW a \in Actors, NEW to, Go(a, to), amu' = amu, vmu' = vmu,
         to \in TokenRequests <=> pc[a] \in TokenRequests,
         to \in TunnelSteps <=> pc[a] \in TunnelSteps,
         a = "stopper" => to \in AtRest \cup StopSteps
  PROVE  LockInv'
<1>1. (amu = a <=> pc[a] \in TokenRequests) /\ (vmu = a <=> pc[a] \in TunnelSteps)
  BY DEF LockInv
<1> QED BY <1>1, Moves

\* Taking and giving back a mutex.
LEMMA TakesToken ==
  ASSUME TypeOK, LockInv, NEW a \in Actors, NEW to \in TokenRequests, Go(a, to),
         amu = NoOne, amu' = a, vmu' = vmu, pc[a] \notin TunnelSteps,
         a = "stopper" => to \in AtRest \cup StopSteps
  PROVE  LockInv'
<1>1. NoOne \notin Actors /\ TokenRequests \cap TunnelSteps = {}
  BY TobogganingAssumption DEF TokenRequests, TunnelSteps, Fetches
<1>2. (amu = a <=> pc[a] \in TokenRequests) /\ (vmu = a <=> pc[a] \in TunnelSteps)
  BY DEF LockInv
<1>3. (amu' = a <=> to \in TokenRequests) /\ (vmu' = a <=> to \in TunnelSteps)
  BY <1>1, <1>2
<1>4. \A b \in Actors \ {a} : (amu' = b <=> amu = b) /\ (vmu' = b <=> vmu = b)
  BY <1>1, <1>2
<1> QED BY <1>3, <1>4, Moves

LEMMA GivesToken ==
  ASSUME TypeOK, LockInv, NEW a \in Actors, NEW to, Go(a, to), pc[a] \in TokenRequests,
         amu' = NoOne, vmu' = vmu, to \notin TokenRequests \cup TunnelSteps,
         a = "stopper" => to \in AtRest \cup StopSteps
  PROVE  LockInv'
<1>1. NoOne \notin Actors /\ TokenRequests \cap TunnelSteps = {}
  BY TobogganingAssumption DEF TokenRequests, TunnelSteps, Fetches
<1>2. (amu = a <=> pc[a] \in TokenRequests) /\ (vmu = a <=> pc[a] \in TunnelSteps)
  BY DEF LockInv
<1>3. (amu' = a <=> to \in TokenRequests) /\ (vmu' = a <=> to \in TunnelSteps)
  BY <1>1, <1>2
<1>4. \A b \in Actors \ {a} : (amu' = b <=> amu = b) /\ (vmu' = b <=> vmu = b)
  BY <1>1, <1>2
<1> QED BY <1>3, <1>4, Moves

LEMMA TakesTunnel ==
  ASSUME TypeOK, LockInv, NEW a \in Actors, NEW to \in TunnelSteps, Go(a, to),
         vmu = NoOne, vmu' = a, amu' = amu, pc[a] \notin TokenRequests,
         a = "stopper" => to \in AtRest \cup StopSteps
  PROVE  LockInv'
<1>1. NoOne \notin Actors /\ TokenRequests \cap TunnelSteps = {}
  BY TobogganingAssumption DEF TokenRequests, TunnelSteps, Fetches
<1>2. (amu = a <=> pc[a] \in TokenRequests) /\ (vmu = a <=> pc[a] \in TunnelSteps)
  BY DEF LockInv
<1>3. (amu' = a <=> to \in TokenRequests) /\ (vmu' = a <=> to \in TunnelSteps)
  BY <1>1, <1>2
<1>4. \A b \in Actors \ {a} : (amu' = b <=> amu = b) /\ (vmu' = b <=> vmu = b)
  BY <1>1, <1>2
<1> QED BY <1>3, <1>4, Moves

LEMMA GivesTunnel ==
  ASSUME TypeOK, LockInv, NEW a \in Actors, NEW to, Go(a, to), pc[a] \in TunnelSteps,
         vmu' = NoOne, amu' = amu, to \notin TokenRequests \cup TunnelSteps,
         a = "stopper" => to \in AtRest \cup StopSteps
  PROVE  LockInv'
<1>1. NoOne \notin Actors /\ TokenRequests \cap TunnelSteps = {}
  BY TobogganingAssumption DEF TokenRequests, TunnelSteps, Fetches
<1>2. (amu = a <=> pc[a] \in TokenRequests) /\ (vmu = a <=> pc[a] \in TunnelSteps)
  BY DEF LockInv
<1>3. (amu' = a <=> to \in TokenRequests) /\ (vmu' = a <=> to \in TunnelSteps)
  BY <1>1, <1>2
<1>4. \A b \in Actors \ {a} : (amu' = b <=> amu = b) /\ (vmu' = b <=> vmu = b)
  BY <1>1, <1>2
<1> QED BY <1>3, <1>4, Moves

\* EnsureValidToken, at either of its places.
LEMMA EnsureLocks ==
  ASSUME TypeOK, LockInv, NEW c \in Connectors, EnsureValidToken(c)
  PROVE  LockInv'
<1>0. \A d \in Connectors : d # "stopper"
  BY TobogganingAssumption DEF Connectors
<1> USE <1>0, NamedActors DEF TokenRequests, TunnelSteps, Fetches
<1>1. ASSUME NEW at, NEW refreshing \in TokenRequests, NEW obtaining \in TokenRequests, NEW next,
             next \notin TokenRequests \cup TunnelSteps, at \notin TokenRequests \cup TunnelSteps,
             EnsureBegins(c, at, refreshing, obtaining, next)
      PROVE  LockInv'
  BY <1>1, TakesToken, MovesAlone DEF EnsureBegins
<1>2. ASSUME NEW refreshing \in TokenRequests, NEW obtaining \in TokenRequests, NEW next,
             next \notin TokenRequests \cup TunnelSteps,
             EnsureRefreshes(c, refreshing, obtaining, next)
      PROVE  LockInv'
  BY <1>2, GivesToken, MovesAlone DEF EnsureRefreshes
<1>3. ASSUME NEW obtaining \in TokenRequests, NEW next,
             next \notin TokenRequests \cup TunnelSteps, EnsureObtains(c, obtaining, next)
      PROVE  LockInv'
  BY <1>3, GivesToken DEF EnsureObtains
<1> QED BY <1>1, <1>2, <1>3 DEF EnsureValidToken

\* Every step keeps LockInv.
LEMMA LocksPreserved == TypeOK /\ LockInv /\ [Next]_vars => LockInv'
<1> SUFFICES ASSUME TypeOK, LockInv, [Next]_vars
             PROVE  LockInv'
  OBVIOUS
<1>0. \A d \in Connectors : d # "stopper"
  BY TobogganingAssumption DEF Connectors
<1> USE <1>0, NamedActors DEF TokenRequests, TunnelSteps, Fetches
<1>1. ASSUME NEW c \in Connectors, EnsureValidToken(c) PROVE LockInv'
  BY <1>1, EnsureLocks
<1>2. ASSUME NEW c \in Connectors, CheckRunning(c) PROVE LockInv'
  BY <1>2, MovesAlone DEF CheckRunning, locks
<1>3. ASSUME NEW c \in Connectors, LockTunnel(c) PROVE LockInv'
  BY <1>3, MovesAlone, TakesTunnel DEF LockTunnel
<1>4. ASSUME NEW c \in Connectors, GetToken(c) PROVE LockInv'
  BY <1>4, MovesAlone, GivesTunnel DEF GetToken
<1>5. ASSUME NEW c \in Connectors, Fetched(c) \/ Rotated(c) PROVE LockInv'
  BY <1>5, GivesTunnel DEF Fetched, Rotated
<1>6. ASSUME NEW c \in Commands, NEW k \in Kinds, Dispatch(c, k) PROVE LockInv'
  BY <1>6, MovesAlone, TobogganingAssumption DEF Dispatch, locks, CommandTree, Connectors
<1>7. ASSUME NEW a \in Actors, Disconnect(a) \/ ReadStatus(a) \/ LoopEnds(a) PROVE LockInv'
  BY <1>7, MovesAlone DEF Disconnect, ReadStatus, LoopEnds, locks, AtRest, StopSteps
<1>8. CASE RefreshBegins \/ RefreshEnds
  BY <1>8, TakesToken, GivesToken DEF RefreshBegins, RefreshEnds
<1>9. CASE StopBegins \/ RevokeBegins \/ RevokeAnswered \/ ClearToken \/ DeleteCached \/ CancelContext
  BY <1>9, MovesAlone
  DEF StopBegins, RevokeBegins, RevokeAnswered, ClearToken, DeleteCached, CancelContext, locks,
      AtRest, StopSteps
<1>10. CASE UpdateHealthProbe \/ TokenExpires \/ UNCHANGED vars
  BY <1>10 DEF UpdateHealthProbe, TokenExpires, vars, locks, LockInv
<1> QED
  BY <1>1, <1>2, <1>3, <1>4, <1>5, <1>6, <1>7, <1>8, <1>9, <1>10
  DEF Next, ConnectorStep, EstablishTunnel, StopperStep

\* Stop, the commands and the goroutines never wait for each other in a
\* circle: while one is blocked at a mutex, a holder of one goes on.
THEOREM NoMutexCircle == Spec => []MutexesFormNoCircle
<1>1. Init => LockInv
  BY NamedActors, TobogganingAssumption
  DEF Init, LockInv, TokenRequests, TunnelSteps, Fetches, AtRest
<1>2. TypeOK /\ LockInv => MutexesFormNoCircle
  <2> SUFFICES ASSUME TypeOK, LockInv PROVE MutexesFormNoCircle
    OBVIOUS
  <2>1. amu # "stopper" /\ vmu # "stopper"
    BY NamedActors DEF LockInv, TokenRequests, TunnelSteps, Fetches, AtRest, StopSteps
  <2>2. \A a \in Actors : Blocked(a) =>
          \E b \in Actors \ {a, "stopper"} :
            b \in {amu, vmu} /\ ~Blocked(b) /\ pc[b] \in TokenRequests \cup TunnelSteps
    <3> SUFFICES ASSUME NEW a \in Actors, Blocked(a)
                 PROVE  \E b \in Actors \ {a, "stopper"} :
                          b \in {amu, vmu} /\ ~Blocked(b) /\ pc[b] \in TokenRequests \cup TunnelSteps
      OBVIOUS
    <3> USE DEF LockInv, Blocked, NeedsToken, NeedsTunnel, TokenRequests, TunnelSteps, Fetches
    <3>1. CASE amu # NoOne
      <4>1. amu \in Actors \ {"stopper"} /\ pc[amu] \in TokenRequests
        BY <2>1, <3>1 DEF TypeOK
      <4>2. ~Blocked(amu) /\ amu # a
        BY <4>1
      <4> QED BY <4>1, <4>2
    <3>2. CASE amu = NoOne
      <4>1. vmu \in Actors \ {"stopper"} /\ pc[vmu] \in TunnelSteps
        BY <2>1, <3>2 DEF TypeOK
      <4>2. ~Blocked(vmu) /\ vmu # a
        BY <3>2, <4>1
      <4> QED BY <4>1, <4>2
    <3> QED BY <3>1, <3>2
  <2>3. /\ \A a, b \in Actors : pc[a] \in TokenRequests /\ pc[b] \in TokenRequests => a = b
        /\ \A a, b \in Actors : pc[a] \in Fetches /\ pc[b] \in Fetches => a = b
    BY DEF LockInv, TunnelSteps
  <2> QED BY <2>1, <2>2, <2>3 DEF MutexesFormNoCircle
<1>3. Inv => TypeOK
  BY DEF Inv
<1> QED BY <1>1, <1>2, <1>3, LocksPreserved, Invariance, PTL DEF Spec

-----------------------------------------------------------------------------
(* The tunnel after Stop. *)

\* establishTunnel after its check of running.
PastCheck == {"ensure", "refreshing", "obtaining", "lock", "gettoken", "fetching"}

\* Stop has begun, the tunnel is down, and no connect is past the check.
DownForGood ==
  /\ ~running /\ ~connected
  /\ \A c \in Connectors : pc[c] \notin PastCheck

\* Where a step takes one actor, and the others stay.
LEMMA OnlyMoves ==
  ASSUME TypeOK, DownForGood, NEW a \in Actors, NEW to, Go(a, to),
         running' \in {running, FALSE}, connected' \in {connected, FALSE},
         a \in Connectors => to \notin PastCheck
  PROVE  DownForGood'
<1>1. \A b \in Actors : pc'[b] = IF b = a THEN to ELSE pc[b]
  BY DEF TypeOK, Go
<1>2. running = FALSE /\ connected = FALSE
  BY DEF DownForGood, TypeOK
<1>3. ~running' /\ ~connected'
  BY <1>2
<1> QED BY <1>1, <1>3, NamedActors DEF DownForGood

LEMMA DownStays == TypeOK /\ DownForGood /\ [Next]_vars => DownForGood'
<1> SUFFICES ASSUME TypeOK, DownForGood, [Next]_vars
             PROVE  DownForGood'
  OBVIOUS
<1>0. /\ \A c \in Connectors : pc[c] \notin PastCheck
      /\ ~running /\ ~connected
      /\ "refresher" \notin Connectors /\ "monitor" \notin Connectors /\ "stopper" \notin Connectors
  BY TobogganingAssumption DEF DownForGood, Connectors
<1> USE <1>0, NamedActors DEF PastCheck
<1>1. ASSUME NEW c \in Connectors, EnsureValidToken(c) PROVE DownForGood'
  BY <1>1, OnlyMoves DEF EnsureValidToken, EnsureBegins, EnsureRefreshes, EnsureObtains
<1>2. ASSUME NEW c \in Connectors, EstablishTunnel(c) PROVE DownForGood'
  BY <1>2, OnlyMoves DEF EstablishTunnel, CheckRunning, LockTunnel, GetToken, Fetched, Rotated
<1>3. ASSUME NEW c \in Commands, Disconnect(c) \/ ReadStatus(c) PROVE DownForGood'
  BY <1>3, OnlyMoves, TobogganingAssumption DEF Disconnect, ReadStatus
<1>4. ASSUME NEW c \in Commands, NEW k \in Kinds, Dispatch(c, k) PROVE DownForGood'
  BY <1>4, OnlyMoves, TobogganingAssumption DEF Dispatch, CommandTree
<1>5. CASE LoopEnds("refresher") \/ LoopEnds("monitor")
  BY <1>5, OnlyMoves DEF LoopEnds
<1>6. CASE RefreshBegins \/ RefreshEnds
  BY <1>6, OnlyMoves DEF RefreshBegins, RefreshEnds
<1>7. CASE UpdateHealthProbe \/ TokenExpires \/ UNCHANGED vars
  BY <1>7 DEF UpdateHealthProbe, TokenExpires, vars, DownForGood
<1>8. CASE StopBegins
  BY <1>8, OnlyMoves DEF StopBegins
<1>9. CASE StopperStep
  BY <1>9, OnlyMoves
  DEF StopperStep, Disconnect, RevokeBegins, RevokeAnswered, ClearToken, DeleteCached, CancelContext
<1> QED
  BY <1>1, <1>2, <1>3, <1>4, <1>5, <1>6, <1>7, <1>8, <1>9 DEF Next, ConnectorStep

\* What is true of TunnelDownAfterStop: once Stop has begun and the tunnel is
\* down with no connect past establishTunnel's check, it is down for good,
\* whatever commands still come and whatever the goroutines do.  Only a connect
\* that passed the check before Stop can bring it up again.
THEOREM OnlyLateConnects == Spec => [](DownForGood => []~connected)
<1>1. DownForGood => ~connected
  BY DEF DownForGood
<1>2. Inv => TypeOK
  BY DEF Inv
<1> QED BY <1>1, <1>2, DownStays, Invariance, PTL DEF Spec
=============================================================================
