----------------------------- MODULE Tobogganing -----------------------------
(***************************************************************************)
(* One instance of the tobogganing VPN module after Start: the goroutine   *)
(* of the initial connect, the token refresh loop, the health monitor, the *)
(* command handlers that run beside them, and Stop.  An instance begins    *)
(* with the tokens it finds in the secret store, a revoked one that looks  *)
(* good included, which an earlier one leaves when the secret store or the *)
(* manager failed it.                                                      *)
(*                                                                         *)
(* Two mutexes are held across HTTP requests: AuthManager.mu while a token *)
(* is asked for, VPNManager.mu while the tunnel configuration is fetched.  *)
(* Module.running is read under its own mutex, but only at one point.      *)
(* Tokens are numbered; 0 is no token.  Every answer of the manager is     *)
(* taken to hold a refresh token.                                          *)
(***************************************************************************)
EXTENDS Naturals, FiniteSets

CONSTANTS
  Commands,      \* Dispatch calls that may be made
  Kinds,         \* which commands they run
  MaxTurns,      \* bound: HTTP requests and changes of the secret store that
                 \* fail although they could succeed, times a token runs out, and
                 \* rounds of the refresh loop that ask for a token, together
  NoOne

\* What Commands() declares.
CommandTree == {"connect", "disconnect", "rotate", "status"}

Connectors == Commands \cup {"initial"}
Actors == Connectors \cup {"refresher", "monitor", "stopper"}

\* A token is in memory, in the secret store or in a request; the manager may
\* give a number again that is in none of them.
Tokens == 0..(Cardinality(Actors) + 3)

ASSUME TobogganingAssumption ==
  /\ IsFiniteSet(Commands) /\ NoOne \notin Actors
  /\ {"initial", "refresher", "monitor", "stopper", "earlier"} \cap Commands = {}
  /\ Kinds \subseteq CommandTree
  /\ MaxTurns \in Nat

VARIABLES
  running,    \* Module.running; stopCh is closed when it is FALSE
  live,       \* the module's context, cancelled by the supervisor after Stop
  connected,  \* VPNManager.connected
  health,     \* lastHealth.Level; "up" stands for healthy, the zero value, and degraded
  token,      \* AuthManager.token
  refresh,    \* AuthManager.refreshToken is set
  cached,     \* access_token in the secret store
  expired,    \* tokens whose time is over
  valid,      \* tokens the manager accepts
  amu, vmu,   \* holders of the two mutexes
  pc, tok,    \* per actor: next step, token in use
  lost,       \* ghost: the connectors one of whose last resorts failed, "stopper"
              \* when the revocation or the deletion of a token did, "earlier"
              \* when an earlier instance left a revoked token that looks good
  failures, expiries, refreshes

auth == <<token, refresh, cached, expired, valid>>
locks == <<amu, vmu>>
bounds == <<lost, failures, expiries, refreshes>>
vars == <<running, live, connected, health, auth, locks, pc, tok, bounds>>

AtRest == {"off", "done"}
ConnectorSteps ==
  {"pre", "prerefreshing", "preobtaining", "check", "ensure", "refreshing", "obtaining",
   "lock", "gettoken", "fetching", "disconnect", "rotate", "rotategettoken",
   "rotatefetching", "status"}
StopSteps == {"disconnect", "read", "revoking", "clear", "delete", "cancel"}

TypeOK ==
  /\ running \in BOOLEAN /\ live \in BOOLEAN /\ connected \in BOOLEAN
  /\ health \in {"unhealthy", "up"}
  /\ token \in Tokens
  /\ refresh \in BOOLEAN
  /\ cached \in Tokens
  /\ expired \subseteq Tokens /\ valid \subseteq Tokens
  /\ amu \in Actors \cup {NoOne} /\ vmu \in Actors \cup {NoOne}
  /\ pc \in [Actors -> AtRest \cup ConnectorSteps \cup StopSteps \cup {"loop"}]
  /\ tok \in [Actors -> Tokens]
  /\ lost \subseteq Actors \cup {"earlier"}
  /\ failures \in Nat /\ expiries \in Nat /\ refreshes \in Nat
  /\ failures + expiries + refreshes <= MaxTurns

\* What NewAuthManager finds in the secret store: no token, or one that is
\* good, has run out or was revoked, with or without a refresh token.
loadCachedToken ==
  /\ token \in {0, 1} /\ refresh \in {FALSE, token = 1}
  /\ valid \in SUBSET (1..token) /\ expired \in SUBSET ((1..token) \ valid)
  /\ cached = token
  /\ lost = IF cached \in {0} \cup valid \cup expired THEN {} ELSE {"earlier"}

\* Init and Start have run.
Init ==
  /\ running = TRUE /\ live = TRUE
  /\ connected = FALSE /\ health = "up"
  /\ loadCachedToken
  /\ amu = NoOne /\ vmu = NoOne
  /\ pc = [a \in Actors |-> IF a = "initial" THEN "pre"
                            ELSE IF a \in {"refresher", "monitor"} THEN "loop" ELSE "off"]
  /\ tok = [a \in Actors |-> 0]
  /\ failures = 0 /\ expiries = 0 /\ refreshes = 0

MoreTurns == failures + expiries + refreshes < MaxTurns

Go(a, to) == pc' = [pc EXCEPT ![a] = to]

(***************************************************************************)
(* HTTP.  The goroutines started by Start use the module's context; a      *)
(* command uses the context of its RPC, Stop one that never ends.  A       *)
(* request of an ended context fails; others fail within MaxTurns.         *)
(***************************************************************************)
Cancelled(a) == a \in {"initial", "refresher"} /\ ~live

Fails == MoreTurns /\ failures' = failures + 1

Answered(a) == ~Cancelled(a)

Unanswered(a) ==
  \/ Cancelled(a) /\ UNCHANGED failures
  \/ Fails

InUse == {token, cached} \cup {tok[a] : a \in Actors}

\* The token is kept in memory and in the secret store, under the mutex.  That
\* it could not be stored goes unnoticed: the former token stays, or what was
\* half written, which is read as none.
NewToken ==
  LET used == InUse IN
  \E new \in Tokens \ (used \cup {0}) :
    /\ 1..(new - 1) \subseteq used
    /\ token' = new
    /\ valid' = (valid \cap used) \cup {new}
    /\ expired' = expired \cap used
    /\ refresh' = TRUE
    /\ \/ cached' = new /\ UNCHANGED failures
       \/ Fails /\ cached' \in {cached, 0}

HasToken == token # 0 /\ token \notin expired

(***************************************************************************)
(* EnsureValidToken, at step "pre" of initialConnect and at step "ensure"  *)
(* of establishTunnel.  The mutex is held while a token is asked for, by   *)
(* refresh token first, then by API key.                                   *)
(***************************************************************************)
EnsureBegins(c, at, refreshing, obtaining, next) ==
  /\ pc[c] = at
  /\ amu = NoOne
  /\ \/ HasToken /\ Go(c, next) /\ UNCHANGED amu
     \/ ~HasToken /\ amu' = c /\ Go(c, IF refresh THEN refreshing ELSE obtaining)
  /\ UNCHANGED <<running, live, connected, health, auth, vmu, tok, bounds>>

\* The manager may refuse to refresh a token it does not accept any more.
EnsureRefreshes(c, refreshing, obtaining, next) ==
  /\ pc[c] = refreshing
  /\ \/ Answered(c) /\ NewToken /\ amu' = NoOne /\ Go(c, next)
     \/ /\ Unanswered(c) \/ (token \notin valid /\ UNCHANGED failures)
        /\ Go(c, obtaining)
        /\ UNCHANGED <<auth, amu>>
  /\ UNCHANGED <<running, live, connected, health, vmu, tok, lost, expiries, refreshes>>

\* A missing API key is a request that failed.
EnsureObtains(c, obtaining, next) ==
  /\ pc[c] = obtaining
  /\ amu' = NoOne
  /\ \/ Answered(c) /\ NewToken /\ Go(c, next) /\ UNCHANGED lost
     \/ Unanswered(c) /\ Go(c, "done") /\ lost' = lost \cup {c} /\ UNCHANGED auth
  /\ UNCHANGED <<running, live, connected, health, vmu, tok, expiries, refreshes>>

EnsureValidToken(c) ==
  \/ EnsureBegins(c, "pre", "prerefreshing", "preobtaining", "check")
  \/ EnsureRefreshes(c, "prerefreshing", "preobtaining", "check")
  \/ EnsureObtains(c, "preobtaining", "check")
  \/ EnsureBegins(c, "ensure", "refreshing", "obtaining", "lock")
  \/ EnsureRefreshes(c, "refreshing", "obtaining", "lock")
  \/ EnsureObtains(c, "obtaining", "lock")

(***************************************************************************)
(* establishTunnel: running is checked once, at the beginning.             *)
(***************************************************************************)
\* Slip: the guard is inverted.
CheckRunningInverted(c) ==
  /\ pc[c] = "check"
  /\ Go(c, IF ~running THEN "ensure" ELSE "done")
  /\ UNCHANGED <<running, live, connected, health, auth, locks, tok, bounds>>

CheckRunning(c) ==
  /\ pc[c] = "check"
  /\ Go(c, IF running THEN "ensure" ELSE "done")
  /\ UNCHANGED <<running, live, connected, health, auth, locks, tok, bounds>>

\* Connect, and RotateConfig, take the mutex and keep it over the fetch.
LockTunnel(c) ==
  /\ pc[c] \in {"lock", "rotate"}
  /\ vmu = NoOne
  /\ \/ /\ pc[c] = "lock" /\ connected
        /\ Go(c, "done")
        /\ UNCHANGED vmu
     \/ /\ pc[c] = "lock" /\ ~connected
        /\ vmu' = c
        /\ Go(c, "gettoken")
     \/ /\ pc[c] = "rotate"
        /\ vmu' = c
        /\ Go(c, "rotategettoken")
  /\ UNCHANGED <<running, live, connected, health, auth, amu, tok, bounds>>

\* fetchTunnelConfig reads the token under the other mutex.
GetToken(c) ==
  /\ pc[c] \in {"gettoken", "rotategettoken"}
  /\ amu = NoOne
  /\ \/ /\ token = 0
        /\ vmu' = NoOne
        /\ Go(c, "done")
        /\ UNCHANGED tok
     \/ /\ token # 0
        /\ IF pc[c] = "gettoken"
           THEN tok' = [tok EXCEPT ![c] = token] /\ Go(c, "fetching")
           ELSE UNCHANGED tok /\ Go(c, "rotatefetching")
        /\ UNCHANGED vmu
  /\ UNCHANGED <<running, live, connected, health, auth, amu, bounds>>

\* The fetched configuration of a rotation is kept but never applied; whether
\* it is fetched or refused makes no difference here.
Rotated(c) ==
  /\ pc[c] = "rotatefetching"
  /\ vmu' = NoOne
  /\ Go(c, "done")
  /\ UNCHANGED <<running, live, connected, health, auth, amu, tok, bounds>>

\* Slip: an error return forgets to unlock.
FetchedKeepsLock(c) ==
  /\ pc[c] = "fetching"
  /\ tok' = [tok EXCEPT ![c] = 0]
  /\ \/ /\ Answered(c)
        /\ tok[c] \in valid
        /\ connected' = TRUE
        /\ vmu' = NoOne
        /\ UNCHANGED <<lost, failures>>
     \/ /\ tok[c] \notin valid
        /\ UNCHANGED <<connected, vmu, lost, failures>>
     \/ /\ Unanswered(c)
        /\ lost' = lost \cup {c}
        /\ UNCHANGED <<connected, vmu>>
  /\ Go(c, "done")
  /\ UNCHANGED <<running, live, health, auth, amu, expiries, refreshes>>

Fetched(c) ==
  /\ pc[c] = "fetching"
  /\ vmu' = NoOne
  /\ tok' = [tok EXCEPT ![c] = 0]
  /\ \/ /\ Answered(c)
        /\ tok[c] \in valid
        /\ connected' = TRUE
        /\ UNCHANGED <<lost, failures>>
     \/ /\ tok[c] \notin valid
        /\ UNCHANGED <<connected, lost, failures>>
     \/ /\ Unanswered(c)
        /\ lost' = lost \cup {c}
        /\ UNCHANGED connected
  /\ Go(c, "done")
  /\ UNCHANGED <<running, live, health, auth, amu, expiries, refreshes>>

EstablishTunnel(c) ==
  CheckRunning(c) \/ LockTunnel(c) \/ GetToken(c) \/ Fetched(c)
  \/ Rotated(c)

(***************************************************************************)
(* Command handlers; the supervisor's lock is not held while they run.     *)
(***************************************************************************)
Dispatch(c, kind) ==
  /\ c \in Commands /\ kind \in Kinds
  /\ pc[c] = "off"
  /\ pc["stopper"] # "done"
  /\ Go(c, IF kind = "connect" THEN "check" ELSE kind)
  /\ UNCHANGED <<running, live, connected, health, auth, locks, tok, bounds>>

Disconnect(a) ==
  /\ pc[a] = "disconnect"
  /\ vmu = NoOne
  /\ connected' = FALSE
  /\ Go(a, IF a = "stopper" THEN "read" ELSE "done")
  /\ UNCHANGED <<running, live, health, auth, locks, tok, bounds>>

\* cmdStatus and Status: what the tunnel's mutex guards is read under it.
ReadStatus(c) ==
  /\ pc[c] = "status"
  /\ vmu = NoOne
  /\ Go(c, "done")
  /\ UNCHANGED <<running, live, connected, health, auth, locks, tok, bounds>>

(***************************************************************************)
(* The loops.  When stopCh is closed and the ticker has fired, select may  *)
(* take either.                                                            *)
(***************************************************************************)
LoopEnds(a) ==
  /\ pc[a] = "loop"
  /\ ~running
  /\ Go(a, "done")
  /\ UNCHANGED <<running, live, connected, health, auth, locks, tok, bounds>>

\* RefreshToken of a token that is about to run out.
RefreshBegins ==
  /\ pc["refresher"] = "loop"
  /\ amu = NoOne
  /\ refresh
  /\ MoreTurns
  /\ refreshes' = refreshes + 1
  /\ amu' = "refresher"
  /\ Go("refresher", "refreshing")
  /\ UNCHANGED <<running, live, connected, health, auth, vmu, tok, lost, failures, expiries>>

RefreshEnds ==
  /\ pc["refresher"] = "refreshing"
  /\ amu' = NoOne
  /\ Go("refresher", "loop")
  /\ \/ Answered("refresher") /\ NewToken
     \/ Unanswered("refresher") /\ UNCHANGED auth
  /\ UNCHANGED <<running, live, connected, health, vmu, tok, lost, expiries, refreshes>>

\* Slip: a tunnel that is not connected is skipped.
UpdateHealthProbeLate ==
  /\ pc["monitor"] = "loop"
  /\ vmu = NoOne
  /\ health' = IF connected THEN "up" ELSE health
  /\ UNCHANGED <<running, live, connected, auth, locks, pc, tok, bounds>>

UpdateHealthProbe ==
  /\ pc["monitor"] = "loop"
  /\ vmu = NoOne
  /\ health' = IF connected THEN "up" ELSE "unhealthy"
  /\ UNCHANGED <<running, live, connected, auth, locks, pc, tok, bounds>>

TokenExpires ==
  /\ MoreTurns
  /\ expiries' = expiries + 1
  /\ \E t \in {token, cached} \ ({0} \cup expired) :
       expired' = expired \cup {t} /\ valid' = valid \ {t}
  /\ UNCHANGED <<running, live, connected, health, token, refresh, cached,
                 locks, pc, tok, lost, failures, refreshes>>

(***************************************************************************)
(* Stop: running, stopCh, Disconnect, RevokeToken.  The mutex is not held  *)
(* while the manager is asked to revoke.                                   *)
(***************************************************************************)
StopBegins ==
  /\ pc["stopper"] = "off"
  /\ running' = FALSE
  /\ Go("stopper", "disconnect")
  /\ UNCHANGED <<live, connected, health, auth, locks, tok, bounds>>

RevokeBegins ==
  /\ pc["stopper"] = "read"
  /\ amu = NoOne
  /\ tok' = [tok EXCEPT !["stopper"] = token]
  /\ Go("stopper", IF token = 0 THEN "cancel" ELSE "revoking")
  /\ UNCHANGED <<running, live, connected, health, auth, locks, bounds>>

\* When the answer is lost the token may be revoked or not; a token that is
\* not good any more may be refused, and is then left where it is.
RevokeAnswered ==
  /\ pc["stopper"] = "revoking"
  /\ tok' = [tok EXCEPT !["stopper"] = 0]
  /\ \/ /\ Answered("stopper")
        /\ valid' = valid \ {tok["stopper"]}
        /\ Go("stopper", "clear")
        /\ UNCHANGED <<lost, failures>>
     \/ /\ tok["stopper"] \notin valid
        /\ Go("stopper", "cancel")
        /\ UNCHANGED <<valid, lost, failures>>
     \/ /\ Unanswered("stopper")
        /\ valid' \in {valid, valid \ {tok["stopper"]}}
        /\ lost' = lost \cup {"stopper"}
        /\ Go("stopper", "cancel")
  /\ UNCHANGED <<running, live, connected, health, token, refresh, cached, expired,
                 locks, expiries, refreshes>>

ClearToken ==
  /\ pc["stopper"] = "clear"
  /\ amu = NoOne
  /\ token' = 0
  /\ refresh' = FALSE
  /\ Go("stopper", "delete")
  /\ UNCHANGED <<running, live, connected, health, cached, expired, valid, locks, tok, bounds>>

\* Mutant: the token stays in the secret store.
DeleteCachedNothing ==
  /\ pc["stopper"] = "delete"
  /\ Go("stopper", "cancel")
  /\ UNCHANGED <<running, live, connected, health, auth, locks, tok, bounds>>

\* The mutex is not held: a token obtained meanwhile may be stored before or
\* after.  That it could not be deleted is ignored.  The refresh token that is
\* deleted next is left to Init, which lets an instance find a token with or
\* without one.
DeleteCached ==
  /\ pc["stopper"] = "delete"
  /\ \/ cached' = 0 /\ UNCHANGED <<lost, failures>>
     \/ Fails /\ lost' = lost \cup {"stopper"} /\ UNCHANGED cached
  /\ Go("stopper", "cancel")
  /\ UNCHANGED <<running, live, connected, health, token, refresh, expired, valid,
                 locks, tok, expiries, refreshes>>

\* Stop has returned; stopLocked cancels the module's context.
CancelContext ==
  /\ pc["stopper"] = "cancel"
  /\ live' = FALSE
  /\ Go("stopper", "done")
  /\ UNCHANGED <<running, connected, health, auth, locks, tok, bounds>>

StopperStep ==
  \/ Disconnect("stopper") \/ RevokeBegins \/ RevokeAnswered \/ ClearToken
  \/ DeleteCached \/ CancelContext

Settled == \A a \in Actors : pc[a] \in AtRest

ConnectorStep(c) ==
  \/ EnsureValidToken(c) \/ EstablishTunnel(c)
  \/ c \in Commands /\ (Disconnect(c) \/ ReadStatus(c))

Next ==
  \/ \E c \in Connectors : ConnectorStep(c)
  \/ \E c \in Commands, k \in Kinds : Dispatch(c, k)
  \/ LoopEnds("refresher") \/ LoopEnds("monitor")
  \/ RefreshBegins \/ RefreshEnds \/ UpdateHealthProbe \/ TokenExpires
  \/ StopBegins \/ StopperStep

Spec == Init /\ [][Next]_vars

(***************************************************************************)
(* Fairness: every goroutine goes on, the tickers fire, select does not    *)
(* ignore a closed channel for ever, and an HTTP request for a token ends  *)
(* (the client has a timeout).  Weak fairness will do: whoever waits for a *)
(* mutex finds it free for good once the requests that MaxTurns allows are *)
(* over.  The fetch of the configuration uses a client without a timeout,  *)
(* and is only sure to end once its context is cancelled.  Commands, Stop  *)
(* and expiry need not happen.                                             *)
(***************************************************************************)
Hangs(c) == pc[c] \in {"fetching", "rotatefetching"} /\ ~Cancelled(c)

Fairness ==
  /\ \A c \in Connectors : WF_vars(~Hangs(c) /\ ConnectorStep(c))
  /\ WF_vars(StopperStep)
  /\ WF_vars(LoopEnds("refresher")) /\ WF_vars(LoopEnds("monitor"))
  /\ WF_vars(RefreshEnds) /\ WF_vars(UpdateHealthProbe)

\* The manager answers every fetch, or refuses it, some day.
FetchesEnd == \A c \in Connectors : WF_vars(Fetched(c) \/ Rotated(c))

FairSpec == Spec /\ Fairness /\ FetchesEnd
-----------------------------------------------------------------------------
(***************************************************************************)
(* Properties.                                                             *)
(***************************************************************************)

\* "Stop halts all module work": if the manager answers, Stop returns and the
\* module's goroutines and the commands under way end.  No order of the two
\* mutexes, the requests in flight and the loops keeps Stop, and with it the
\* supervisor's lock, waiting for ever.
StopReturns ==
  ~running ~> /\ \A a \in {"stopper", "initial", "refresher", "monitor"} : pc[a] = "done"
              /\ \A c \in Commands : pc[c] \in AtRest

\* The initial connect and a connect command bring the tunnel up, unless the
\* module is stopped, whatever refresh loop, Stop of an earlier instance and the
\* other connects do meanwhile and whichever of their requests or of the writes
\* to the secret store fails: a refresh that fails is made good by the API key,
\* and a failed initial connect by a command.  What is left to fail a connect is
\* its own last request, which the code does not repeat although the comments in
\* Start and initialConnect promise a retry, a token that runs out, and a
\* revoked token found at the start, which EnsureValidToken takes for good.
TunnelComesUp ==
  \A c \in Connectors :
    pc[c] \in {"pre", "check"} ~>
      connected \/ ~running \/ lost \cap {c, "earlier"} # {} \/ expiries > 0

\* Health follows the tunnel: a tunnel that stays down is reported.
HealthFollows ==
  <>[](running /\ ~connected) => <>[](health = "unhealthy")

\* Stop never leaves a token for the next start that is revoked and looks
\* good, which EnsureValidToken would keep and the manager refuse, although
\* tokens are stored under the mutex and deleted without it, and although
\* storing one may fail.  Three things can: a revocation whose answer was lost,
\* a Delete that failed (RevokeToken drops its error), and such a token found at
\* the start.
StoredTokenWorks ==
  ~running /\ Settled /\ lost \cap {"stopper", "earlier"} = {} /\ cached # 0
  => cached \in valid \cup expired

\* "Stop halts all module work and restores any system state": when
\* everything has come to rest after Stop, the tunnel is down.
TunnelDownAfterStop == Settled /\ ~running => ~connected
=============================================================================
