---------------------------- MODULE HostServices ----------------------------
(***************************************************************************)
(* What penguind gives to a module (internal/daemon/host.go): its view of  *)
(* the secret store (internal/secrets) and its configuration               *)
(* (internal/daemon/configstore.go), over deaths of the daemon.  Modules   *)
(* in Remote live in a plugin process and reach the same services through  *)
(* the proxies of pkg/sdk/serve.go and the handlers of                     *)
(* internal/extplugin/host.go.                                             *)
(*                                                                         *)
(* The keyring library is external: its file backend keeps one file per    *)
(* item, sealed with a password that it asks for once, at the first item   *)
(* it has to seal or to open (FilePasswordFunc).  It holds no lock, and    *)
(* neither does EnsureMasterKey, which looks for the key file and makes    *)
(* one if there is none: two first uses may overlap.  Each module has one  *)
(* secret key and one call at a time.                                      *)
(***************************************************************************)
EXTENDS Integers

CONSTANTS
  Modules,
  Remote,       \* the modules that live in a plugin process
  HasSchema,    \* the modules whose ConfigSchema() is not empty
  Secrets,      \* values of a secret
  NoSecret,     \* there is no item
  Garbled,      \* there is a file and it is not a sealed item
  MaxKeys,      \* bound: master keys that may be generated
  Edited,       \* bound: the modules whose configuration file is edited
  MaxMishaps    \* bound: edits of these files, file operations that fail,
                \* and deaths of the daemon or of a plugin, together

ASSUME HostAssumption ==
  /\ Remote \subseteq Modules /\ HasSchema \subseteq Modules /\ Edited \subseteq Modules
  /\ NoSecret \notin Secrets /\ Garbled \notin Secrets /\ NoSecret # Garbled

ASSUME HostBoundAssumption ==
  MaxKeys \in Nat /\ MaxMishaps \in Nat

VARIABLES
  up,         \* the daemon runs
  masterKey,  \* keyring.key: Missing, Torn, or the number of the key in it
  made,       \* keys generated so far
  password,   \* the key the open keyring has cached, or Missing
  items,      \* the item files of the keyring
  host,       \* the host of each module: its progress and its configuration
  file,       \* modules.d/<module>.yaml
  call,       \* the call that each module has under way
  known,      \* ghost: what a module may find under its key
  twice,      \* ghost: two calls have been making the master key at once
  mishaps     \* edits, failed file operations and deaths so far

store == <<masterKey, made, password, items>>
calls == <<call, known, twice>>
vars == <<up, store, host, file, calls, mishaps>>

Missing == 0
Torn == -1
KeyIds == 1..MaxKeys

\* A daemon wide store and one namespace for each module.
Locations == Modules \cup {""}

NoItem == [value |-> NoSecret, key |-> Missing]
TornItem == [value |-> Garbled, key |-> Torn]
Sealed(v, k) == [value |-> v, key |-> k]

Contents == {"absent", "good", "against schema", "not yaml"}
NoHost == [pc |-> "none", config |-> "absent"]

Sets == [op : {"set"}, value : Secrets]
Others == [op : {"get", "delete"}, value : {NoSecret}]
Requests == Sets \cup Others
NoRequest == [op |-> "none", value |-> NoSecret]

\* What a call returns: a secret in "value", or no more than how it ended.
\* "refused" is a failure of a file operation during the call, "error" any
\* other.
Endings == {"ok", "not found", "error", "refused"}
NoAnswer == [how |-> "pending", value |-> NoSecret]
Ended(h) == [how |-> h, value |-> NoSecret]
Found(v) == [how |-> "ok", value |-> v]

NoCall == [request |-> NoRequest, pc |-> "idle", answer |-> NoAnswer]

TypeOK ==
  /\ up \in BOOLEAN
  /\ masterKey \in {Missing, Torn} \cup KeyIds
  /\ made \in 0..MaxKeys
  /\ password \in {Missing} \cup KeyIds
  /\ items \in [Locations -> {NoItem, TornItem} \cup [value : Secrets, key : KeyIds]]
  /\ host \in [Modules -> [pc : {"none", "checked", "built"}, config : Contents]]
  /\ file \in [Modules -> Contents]
  /\ call \in [Modules -> [request : Requests \cup {NoRequest},
                           pc : {"idle", "asked", "making", "answered"},
                           answer : [how : Endings \cup {"pending"},
                                     value : Secrets \cup {NoSecret, Garbled}]]]
  /\ known \in [Modules -> SUBSET (Secrets \cup {NoSecret, Garbled})]
  /\ twice \in BOOLEAN
  /\ mishaps \in 0..MaxMishaps

Init ==
  /\ up = FALSE
  /\ masterKey = Missing /\ made = 0 /\ password = Missing
  /\ items = [l \in Locations |-> NoItem]
  /\ host = [m \in Modules |-> NoHost]
  /\ file = [m \in Modules |-> "absent"]
  /\ call = [m \in Modules |-> NoCall]
  /\ known = [m \in Modules |-> {NoSecret}]
  /\ twice = FALSE
  /\ mishaps = 0
-----------------------------------------------------------------------------
(***************************************************************************)
(* The secret store.  f is the file operation that fails, "none" for none. *)
(***************************************************************************)
FileFaults == {"none", "state dir", "key write", "item write", "item remove"}

\* Mutant: the namespace is left out.
makeKeyBare(m) == ""

makeKey(m) == m

\* Mutant: a key is generated without a look at the file.
EnsureMasterKeyAnew(m, f) ==
  IF f = "state dir" THEN [key |-> Missing, file |-> masterKey]
  ELSE IF f = "key write" THEN [key |-> Missing, file |-> Torn]
  ELSE [key |-> made + 1, file |-> made + 1]

\* The key and the key file afterwards; no key stands for an error.  A call
\* that found no file makes a key, whether there is a file by now or not.  The
\* file is written in place: a failed write leaves a file of the wrong size,
\* and that is an error from then on.
EnsureMasterKey(m, f) ==
  IF call[m].pc = "making"
  THEN IF f = "key write" THEN [key |-> Missing, file |-> Torn]
       ELSE [key |-> made + 1, file |-> made + 1]
  ELSE IF f = "state dir" \/ masterKey = Torn THEN [key |-> Missing, file |-> masterKey]
  ELSE [key |-> masterKey, file |-> masterKey]

\* The keyring asks for the password when it has none.
Unlock(m, f) ==
  IF password # Missing /\ call[m].pc # "making"
  THEN [key |-> password, file |-> masterKey]
  ELSE EnsureMasterKey(m, f)

\* A call that could not be carried out for want of a password.
LockedOut(f) == Ended(IF f = "none" THEN "error" ELSE "refused")

\* Whether a call comes to the operation that f names.
MayFail(m, f, op) ==
  \/ f = "none"
  \/ f = "state dir" /\ password = Missing /\ call[m].pc = "asked"
  \/ f = "key write" /\ call[m].pc = "making"
  \/ f = "item write" /\ op = "set"
  \/ f = "item remove" /\ op = "delete" /\ items[makeKey(m)] # NoItem

Mishap(f) ==
  /\ mishaps' = mishaps + (IF f = "none" THEN 0 ELSE 1)
  /\ mishaps' <= MaxMishaps

\* There is neither a password nor a key file: a call that needs the key has
\* to make it.
KeyAbsent == password = Missing /\ masterKey = Missing

\* What of the store unlocking changes, in a call during which f fails.
Unlocking(m, f) ==
  /\ KeyAbsent => call[m].pc = "making" \/ f = "state dir"
  /\ Mishap(f)
  /\ Unlock(m, f).key <= MaxKeys
  /\ masterKey' = Unlock(m, f).file
  /\ password' = IF Unlock(m, f).key = Missing THEN password ELSE Unlock(m, f).key
  /\ made' = IF Unlock(m, f).key > made THEN Unlock(m, f).key ELSE made

\* Get: an item that is not there is reported before the keyring is unlocked.
Get(m, f, answer) ==
  LET item == items[makeKey(m)] IN
  /\ UNCHANGED items
  /\ \/ /\ item = NoItem /\ f = "none"
        /\ answer = Ended("not found")
        /\ UNCHANGED <<masterKey, made, password, mishaps>>
     \/ /\ item # NoItem /\ MayFail(m, f, "get")
        /\ Unlocking(m, f)
        /\ answer = IF Unlock(m, f).key = Missing THEN LockedOut(f)
                    ELSE IF item.key = Unlock(m, f).key THEN Found(item.value)
                    ELSE Ended("error")

Set(m, v, f, answer) ==
  /\ MayFail(m, f, "set")
  /\ Unlocking(m, f)
  /\ IF Unlock(m, f).key = Missing
     THEN answer = LockedOut(f) /\ UNCHANGED items
     ELSE IF f = "item write"
          THEN /\ answer = Ended("refused")
               /\ \/ UNCHANGED items
                  \/ items' = [items EXCEPT ![makeKey(m)] = TornItem]
          ELSE /\ answer = Ended("ok")
               /\ items' = [items EXCEPT ![makeKey(m)] = Sealed(v, Unlock(m, f).key)]

\* Delete removes the file and needs no password.
Delete(m, f, answer) ==
  /\ MayFail(m, f, "delete") /\ Mishap(f)
  /\ IF f = "item remove"
     THEN answer = Ended("refused") /\ UNCHANGED items
     ELSE /\ answer = Ended(IF items[makeKey(m)] = NoItem THEN "not found" ELSE "ok")
          /\ items' = [items EXCEPT ![makeKey(m)] = NoItem]
  /\ UNCHANGED <<masterKey, made, password>>
-----------------------------------------------------------------------------
(***************************************************************************)
(* The host of a module.  hostFactory asks for the configuration file:     *)
(* ModuleRaw has Module read and check it, then reads it again.            *)
(***************************************************************************)
\* Module with validateSchema; a module without a schema takes any YAML.
Accepted(m, content) ==
  \/ content \in {"absent", "good"}
  \/ content = "against schema" /\ m \notin HasSchema

Checked == [pc |-> "checked", config |-> "absent"]
Built(config) == [pc |-> "built", config |-> config]

\* A read of the file fails.
ReadFails ==
  /\ mishaps < MaxMishaps
  /\ mishaps' = mishaps + 1

\* A file that is refused or cannot be read is logged, and the module starts
\* with defaults.
Module(m) ==
  /\ up /\ host[m].pc = "none"
  /\ \/ /\ host' = [host EXCEPT ![m] =
                      IF Accepted(m, file[m]) THEN Checked ELSE Built("absent")]
        /\ UNCHANGED mishaps
     \/ /\ ReadFails
        /\ host' = [host EXCEPT ![m] = Built("absent")]
  /\ UNCHANGED <<up, store, file, calls>>

\* The second read; NewHost keeps what it gave, which nobody has checked if the
\* file was replaced since the first.
ModuleRaw(m) ==
  /\ up /\ host[m].pc = "checked"
  /\ \/ /\ host' = [host EXCEPT ![m] = Built(file[m])]
        /\ UNCHANGED mishaps
     \/ /\ ReadFails
        /\ host' = [host EXCEPT ![m] = Built("absent")]
  /\ UNCHANGED <<up, store, file, calls>>

\* The operator, or a deployment tool, replaces the file.
Edit(m, content) ==
  /\ mishaps < MaxMishaps /\ content # file[m]
  /\ mishaps' = mishaps + 1
  /\ file' = [file EXCEPT ![m] = content]
  /\ UNCHANGED <<up, store, host, calls>>

\* The supervisor unloads the module; the next load builds a new host.
Unload(m) ==
  /\ up /\ host[m].pc = "built" /\ call[m] = NoCall
  /\ host' = [host EXCEPT ![m] = NoHost]
  /\ UNCHANGED <<up, store, file, calls, mishaps>>
-----------------------------------------------------------------------------
(***************************************************************************)
(* Calls of a module.  A request is handed over, carried out, and its      *)
(* answer returned; for a module in a plugin the first and the last step   *)
(* cross the connection.                                                   *)
(***************************************************************************)
\* What may be found under the key once request r is carried out or is cut
\* short.
Leaves(r) ==
  IF r.op = "set" THEN {r.value, Garbled}
  ELSE IF r.op = "delete" THEN {NoSecret} ELSE {}

Ask(m, r) ==
  /\ up /\ host[m].pc = "built" /\ call[m] = NoCall
  /\ call' = [call EXCEPT ![m] = [request |-> r, pc |-> "asked", answer |-> NoAnswer]]
  /\ known' = [known EXCEPT ![m] = @ \cup Leaves(r)]
  /\ UNCHANGED <<up, store, host, file, twice, mishaps>>

\* The first look of EnsureMasterKey: the call needs the key, and there is
\* none yet.
MissKey(m) ==
  /\ up /\ call[m].pc = "asked" /\ KeyAbsent
  /\ call[m].request.op # "delete"
  /\ call[m].request.op = "get" => items[makeKey(m)] # NoItem
  /\ call' = [call EXCEPT ![m].pc = "making"]
  /\ twice' = (twice \/ \E n \in Modules \ {m} : call[n].pc = "making")
  /\ UNCHANGED <<up, store, host, file, known, mishaps>>

Carry(m, r, f, answer) ==
  \/ r.op = "get" /\ Get(m, f, answer)
  \/ r.op = "set" /\ Set(m, r.value, f, answer)
  \/ r.op = "delete" /\ Delete(m, f, answer)

\* The handler compares the error with the sentinel by ==, and the store
\* always wraps it: over the wire "not found" becomes an error like others.
OverWire(answer) == IF answer.how = "not found" THEN Ended("error") ELSE answer

Answers == [how : Endings, value : Secrets \cup {NoSecret, Garbled}]

\* Everything else of a call; a key that is needed and missing takes MissKey
\* before it.
Perform(m, f) ==
  /\ up /\ call[m].pc \in {"asked", "making"}
  /\ \E a \in Answers :
       /\ Carry(m, call[m].request, f, a)
       /\ call' = [call EXCEPT ![m] =
                     [request |-> @.request, pc |-> "answered",
                      answer |-> IF m \in Remote THEN OverWire(a) ELSE a]]
  /\ UNCHANGED <<up, host, file, known, twice>>

\* From a success on the module relies on what it stored, or on finding no
\* secret.
Return(m) ==
  /\ up /\ call[m].pc = "answered"
  /\ call' = [call EXCEPT ![m] = NoCall]
  /\ known' = [known EXCEPT ![m] =
                 IF call[m].answer.how = "ok" /\ call[m].request.op \in {"set", "delete"}
                 THEN {call[m].request.value} ELSE @]
  /\ UNCHANGED <<up, store, host, file, twice, mishaps>>
-----------------------------------------------------------------------------
(***************************************************************************)
(* Boot and deaths.                                                        *)
(***************************************************************************)
\* Open: a new keyring has no password yet.
Open ==
  /\ ~up
  /\ up' = TRUE
  /\ password' = Missing
  /\ UNCHANGED <<masterKey, made, items, host, file, calls, mishaps>>

Gone ==
  /\ up /\ mishaps < MaxMishaps
  /\ up' = FALSE
  /\ mishaps' = mishaps + 1
  /\ password' = Missing
  /\ host' = [m \in Modules |-> NoHost]
  /\ call' = [m \in Modules |-> NoCall]
  /\ UNCHANGED <<file, known, twice>>

Die == Gone /\ UNCHANGED <<masterKey, made, items>>

\* Death within or just after the write of the key.
DieAtKeyWrite(m) ==
  /\ Gone
  /\ call[m].pc = "making" /\ made < MaxKeys
  /\ masterKey' \in {Torn, made + 1}
  /\ made' = made + 1
  /\ UNCHANGED items

\* Death within the write of the item.
DieAtItemWrite(m) ==
  /\ Gone
  /\ call[m].request.op = "set" /\ call[m].pc \in {"asked", "making"}
  /\ Unlock(m, "none").key \in KeyIds
  /\ masterKey' = Unlock(m, "none").file
  /\ made' = IF masterKey' > made THEN masterKey' ELSE made
  /\ items' = [items EXCEPT ![makeKey(m)] = TornItem]

\* The plugin dies, before its request arrives or before it hears the answer.
\* A request that is being carried out ends first: loading the plugin again
\* takes a new process and its handshake.
PluginDies(m) ==
  /\ up /\ host[m].pc = "built" /\ mishaps < MaxMishaps
  /\ call[m].pc # "making"
  /\ mishaps' = mishaps + 1
  /\ host' = [host EXCEPT ![m] = NoHost]
  /\ call' = [call EXCEPT ![m] = NoCall]
  /\ UNCHANGED <<up, store, file, known, twice>>

Next ==
  \/ Open \/ Die
  \/ \E m \in Modules :
       \/ Module(m) \/ ModuleRaw(m) \/ Unload(m)
       \/ \E r \in Requests : Ask(m, r)
       \/ \E f \in FileFaults : Perform(m, f)
       \/ MissKey(m) \/ Return(m)
       \/ DieAtKeyWrite(m) \/ DieAtItemWrite(m)
  \/ \E m \in Edited, c \in Contents : Edit(m, c)
  \/ \E m \in Remote : PluginDies(m)

Spec == Init /\ [][Next]_vars
-----------------------------------------------------------------------------
(***************************************************************************)
(* Properties.                                                             *)
(***************************************************************************)

\* Every item that is whole was sealed with the key that is in the key file:
\* whenever the daemon dies, also while it makes the key, the next one can
\* open all that was stored.  Only two first uses of the key that overlap
\* (EnsureMasterKey makes one for each) may end otherwise.
KeyFitsItems ==
  ~twice => \A l \in Locations : items[l].key \in KeyIds => items[l].key = masterKey

\* A module finds under its key what it stored there last and was told of,
\* through deaths of the daemon and of plugins and beside other modules with
\* the same key: never an older value and never another module's.  It meets an
\* error only if a write was cut short or two keys were made.  A plugin meets
\* one for an item that does not exist, too: the handler compares by ==
\* (extplugin/host.go:56), where sdk/module.go:113 promises ErrSecretNotFound.
SecretsKept ==
  \A m \in Modules :
    LET a == call[m].answer IN
    call[m].request.op = "get" /\ call[m].pc = "answered" =>
      /\ a.how = "ok" => a.value \in known[m]
      /\ a.how = "not found" => NoSecret \in known[m]
      /\ a.how = "error" => \/ Garbled \in known[m] \/ twice
                            \/ m \in Remote /\ NoSecret \in known[m]
=============================================================================
