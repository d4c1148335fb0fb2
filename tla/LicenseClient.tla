--------------------------- MODULE LicenseClient ---------------------------
(***************************************************************************)
(* The license client of penguind (internal/licensing) over restarts of    *)
(* the daemon: the cache in memory that FeatureEnabled reads, the cache    *)
(* file that New restores, and the refresh loop that asks the license      *)
(* server.  The license key is read from the environment at each boot and  *)
(* may differ from the last one.                                           *)
(*                                                                         *)
(* A licence is a tier and the set of features with entitled = true; a     *)
(* feature that is missing and one that is not entitled look the same to   *)
(* every caller.                                                           *)
(***************************************************************************)
EXTENDS Naturals

CONSTANTS
  Keys,         \* license keys
  NoKey,        \* LICENSE_KEY is empty
  Tiers,
  Features,
  MaxChanges,   \* bound: times the server changes a licence
  MaxFaults,    \* bound: failed saves and lost cache files
  MaxBoots      \* bound: starts of the daemon

ASSUME KeyAssumption == NoKey \notin Keys

\* No tier is named like the mark of a missing cache file below.
ASSUME TierAssumption == "no file" \notin Tiers

ASSUME LicenseBoundAssumption ==
  MaxChanges \in Nat /\ MaxFaults \in Nat /\ MaxBoots \in Nat

Licences == [tier : Tiers, features : SUBSET Features]

\* What an empty cache says, and a cache file that is missing or not JSON.
Cold == [tier |-> "", features |-> {}]
NoFile == [tier |-> "no file", features |-> {}]

VARIABLES
  granted,   \* the licence the server holds for each key
  given,     \* ghost: every licence the server ever held for a key
  loop,      \* "down", or where the refresh loop is
  key,       \* licenseKey
  answer,    \* the licence in the response being handled
  cached,    \* cachedTier and cachedFeatures
  cacheFile, \* license-cache.json
  validated, \* ghost: this process has had an answer
  changes, faults, boots

server == <<granted, given, changes>>
licenseVars == <<server, loop, key, answer, cached, cacheFile, validated, faults, boots>>

LicenseTypeOK ==
  /\ granted \in [Keys -> Licences] /\ given \in [Keys -> SUBSET Licences]
  /\ loop \in {"down", "idle", "asking", "answered", "saving"}
  /\ key \in Keys \cup {NoKey}
  /\ answer \in Licences \cup {Cold}
  /\ cached \in Licences \cup {Cold}
  /\ cacheFile \in Licences \cup {NoFile}
  /\ validated \in BOOLEAN
  /\ changes \in 0..MaxChanges /\ faults \in 0..MaxFaults /\ boots \in 0..MaxBoots

LicenseInit ==
  /\ granted \in [Keys -> Licences]
  /\ given = [k \in Keys |-> {granted[k]}]
  /\ loop = "down" /\ key = NoKey
  /\ answer = Cold /\ cached = Cold /\ cacheFile = NoFile
  /\ validated = FALSE
  /\ changes = 0 /\ faults = 0 /\ boots = 0

(***************************************************************************)
(* New with loadCache, then Start.  The daemon stops or dies at any point; *)
(* Stop only cancels the context and does not wait for the loop.           *)
(***************************************************************************)
Boot(k) ==
  /\ loop = "down" /\ boots < MaxBoots
  /\ boots' = boots + 1
  /\ key' = k
  /\ cached' = IF cacheFile = NoFile THEN Cold ELSE cacheFile
  /\ validated' = FALSE
  /\ loop' = "idle"
  /\ UNCHANGED <<server, answer, cacheFile, faults>>

Down ==
  /\ loop # "down"
  /\ loop' = "down"
  /\ answer' = Cold
  /\ UNCHANGED <<server, key, cached, cacheFile, validated, faults, boots>>

(***************************************************************************)
(* Validate.  It is only called by the loop, at once and at every tick.    *)
(***************************************************************************)
ValidateWithoutKey ==
  /\ loop = "idle" /\ key = NoKey
  /\ cached' = Cold
  /\ UNCHANGED <<server, loop, key, answer, cacheFile, validated, faults, boots>>

\* Mutant: a cached licence is not fetched again.
FetchWhenCold ==
  /\ loop = "idle" /\ key # NoKey
  /\ cached = Cold
  /\ loop' = "asking"
  /\ UNCHANGED <<server, key, answer, cached, cacheFile, validated, faults, boots>>

Fetch ==
  /\ loop = "idle" /\ key # NoKey
  /\ loop' = "asking"
  /\ UNCHANGED <<server, key, answer, cached, cacheFile, validated, faults, boots>>

ServerAnswers ==
  /\ loop = "asking"
  /\ answer' = granted[key]
  /\ loop' = "answered"
  /\ UNCHANGED <<server, key, cached, cacheFile, validated, faults, boots>>

\* Unreachable, a time-out, a status other than 200 or a body that is not
\* JSON: the cached state stays in use.
FetchFails ==
  /\ loop = "asking"
  /\ loop' = "idle"
  /\ UNCHANGED <<server, key, answer, cached, cacheFile, validated, faults, boots>>

(***************************************************************************)
(* updateCache: the memory first, then the file, best effort, by temporary *)
(* file and rename.                                                        *)
(***************************************************************************)
\* Mutant: the old map is kept and added to.
UpdateCacheMerges ==
  /\ loop = "answered"
  /\ cached' = [answer EXCEPT !.features = @ \cup cached.features]
  /\ validated' = TRUE
  /\ loop' = "saving"
  /\ UNCHANGED <<server, key, answer, cacheFile, faults, boots>>

UpdateCache ==
  /\ loop = "answered"
  /\ cached' = answer
  /\ validated' = TRUE
  /\ loop' = "saving"
  /\ UNCHANGED <<server, key, answer, cacheFile, faults, boots>>

\* Mutant: an existing file is not replaced.
PersistCacheOnce ==
  /\ loop = "saving"
  /\ loop' = "idle"
  /\ answer' = Cold
  /\ \/ cacheFile' = (IF cacheFile = NoFile THEN cached ELSE cacheFile) /\ UNCHANGED faults
     \/ faults < MaxFaults /\ faults' = faults + 1 /\ UNCHANGED cacheFile
  /\ UNCHANGED <<server, key, cached, validated, boots>>

PersistCache ==
  /\ loop = "saving"
  /\ loop' = "idle"
  /\ answer' = Cold
  /\ \/ cacheFile' = cached /\ UNCHANGED faults
     \/ faults < MaxFaults /\ faults' = faults + 1 /\ UNCHANGED cacheFile
  /\ UNCHANGED <<server, key, cached, validated, boots>>

(***************************************************************************)
(* The environment: the vendor changes a licence, the cache file is lost   *)
(* or damaged.                                                             *)
(***************************************************************************)
ServerChanges(k, licence) ==
  /\ changes < MaxChanges
  /\ changes' = changes + 1
  /\ granted' = [granted EXCEPT ![k] = licence]
  /\ given' = [given EXCEPT ![k] = @ \cup {licence}]
  /\ UNCHANGED <<loop, key, answer, cached, cacheFile, validated, faults, boots>>

FileLost ==
  /\ faults < MaxFaults
  /\ faults' = faults + 1
  /\ cacheFile' = NoFile
  /\ UNCHANGED <<server, loop, key, answer, cached, validated, boots>>

LicenseNext ==
  \/ \E k \in Keys \cup {NoKey} : Boot(k)
  \/ Down
  \/ ValidateWithoutKey \/ Fetch \/ ServerAnswers \/ FetchFails
  \/ UpdateCache \/ PersistCache
  \/ \E k \in Keys, l \in Licences : ServerChanges(k, l)
  \/ FileLost

LicenseSpec == LicenseInit /\ [][LicenseNext]_licenseVars

\* The ticker fires, the loop goes on, and a request ends (ten seconds).
LicenseFairness ==
  /\ WF_licenseVars(ValidateWithoutKey) /\ WF_licenseVars(Fetch)
  /\ WF_licenseVars(ServerAnswers \/ FetchFails)
  /\ WF_licenseVars(UpdateCache) /\ WF_licenseVars(PersistCache)

LicenseFairSpec == LicenseSpec /\ LicenseFairness
-----------------------------------------------------------------------------
(***************************************************************************)
(* Properties.                                                             *)
(***************************************************************************)

\* FeatureEnabled of every feature at once, and what the server would say.
Enabled == IF key = NoKey THEN {} ELSE cached.features
Entitled == IF key = NoKey THEN {} ELSE granted[key].features

\* What the cache says was said by the server: tier and features of one
\* answer, through updates, restarts and failed saves; and once this process
\* has had an answer, of an answer to its own key.
NothingInvented ==
  /\ cached \in {Cold} \cup UNION {given[k] : k \in Keys}
  /\ validated => cached \in given[key]

\* "a daemon restart while the license server is unreachable keeps prior
\* entitlements": outside updateCache a restart would restore what the
\* memory says, unless a save failed or the file was lost.
RestartKeeps ==
  loop \in {"idle", "asking", "answered"} /\ key # NoKey /\ faults = 0
  => cached = IF cacheFile = NoFile THEN Cold ELSE cacheFile

\* A licence that changes takes effect, also when features are withdrawn: if
\* the daemon stays up and the server answers again and again, every feature
\* follows the server.
LicenceFollows ==
  SF_licenseVars(ServerAnswers) => (<>[](loop # "down") => <>[](Enabled = Entitled))
=============================================================================
