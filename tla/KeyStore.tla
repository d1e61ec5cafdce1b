------------------------------- MODULE KeyStore -------------------------------
(***************************************************************************)
(* KeyManager: the public keys and the principal that requests are checked *)
(* against, in the memory of a process and in its files.                   *)
(*                                                                         *)
(* Two processes have a key manager and share the files: the service,      *)
(* which reads them when it starts and on macOS creates them once in       *)
(* BootstrapPublicKeyForUID, and the command "service init", which         *)
(* rewrites them with os.WriteFile (truncate, then write) and afterwards   *)
(* restarts the service if it changed something.  Either process may die   *)
(* between any two of its steps.                                           *)
(***************************************************************************)
EXTENDS Naturals

CONSTANTS
  Key,              \* public keys (their identifiers are a function of them)
  Principal,        \* authorized principals
  Absent,           \* no key, no principal, no file
  Torn,             \* a file that is empty or cannot be parsed
  Rare,             \* "overlap": init may run while a bootstrap is under way
  MaxInits,         \* bound: init commands
  MaxBootstraps,    \* bound: bootstrap requests
  MaxKeyFaults      \* bound: failing calls and dying processes

RingFile == [cur: Key, prev: Key \cup {Absent}]

ASSUME KeyAssumption ==
  /\ Absent \notin Key \cup Principal \cup RingFile
  /\ Torn \notin Principal \cup RingFile \cup {Absent}
  /\ MaxInits \in Nat /\ MaxBootstraps \in Nat /\ MaxKeyFaults \in Nat

VARIABLES
  ring, legacy, owner,  \* the files public_keys.json, public_key.pem and
                        \* authorized_principal.json
  svc, cli,             \* the key managers: current, previous, publicKeys and
                        \* authorizedPrincipal
  up,                   \* the service runs
  sock,                 \* its socket: "all" or "owner" may connect
  boot,                 \* the bootstrap request: where it is, its key and uid
  init,                 \* the init command: where it is, its arguments, the
                        \* key it found, whether it changed something
  pending,              \* history: files changed by an init that ended without
                        \* a restart of the service
  inits, bootstraps, keyFaults   \* budgets used

keyVars == <<ring, legacy, owner, svc, cli, up, sock, boot, init, pending,
             inits, bootstraps, keyFaults>>
fileVars == <<ring, legacy, owner>>

Blank == [cur |-> Absent, prev |-> Absent, keys |-> {}, who |-> Absent]
NoBoot == [at |-> "idle", key |-> Absent, uid |-> Absent]
NoInit == [at |-> "idle", key |-> Absent, who |-> Absent, old |-> Absent, changed |-> FALSE]

KeyFault == keyFaults < MaxKeyFaults /\ keyFaults' = keyFaults + 1
Works == UNCHANGED keyFaults

-----------------------------------------------------------------------------
(* What a key manager holds.                                               *)

\* A key manager after refreshPublicKeysLocked, which collects the keys by
\* which signatures are verified.
Managed(c, p, w) == [cur |-> c, prev |-> p, keys |-> {c, p} \ {Absent}, who |-> w]

\* loadPublicKeys: an unreadable ring is an error, and only a missing one is
\* replaced by the legacy file; nothing is assigned when loading fails.
LoadKeys(m) ==
  IF ring = Torn THEN m
  ELSE IF ring # Absent
    THEN Managed(ring.cur, IF ring.prev = ring.cur THEN Absent ELSE ring.prev, m.who)
    ELSE IF legacy = Absent THEN m ELSE Managed(legacy, Absent, m.who)

\* Mutant: a principal that cannot be parsed is kept.
LoadPrincipalUnparsed(m) == [m EXCEPT !.who = owner]

\* loadAuthorizedPrincipal.
LoadPrincipal(m) == IF owner \in {Absent, Torn} THEN m ELSE [m EXCEPT !.who = owner]

\* InitKeyManager in a new process: both loads are attempted, whatever the
\* other does, and their errors are only reported.
Loaded == LoadPrincipal(LoadKeys(Blank))

\* IsInitialized and HasAuthorizedPrincipal, which AuthMiddleware asks first.
Initialized(m) == m.cur # Absent /\ m.who # Absent

\* What a key manager lets in: nothing unless it is initialized, and otherwise
\* the principal it is bound to, with a key it holds.
Accepts(m) == IF Initialized(m) THEN m ELSE Blank

\* Mutant: a rotation forgets the key that was current.
WithKeyOnly(m, k) == Managed(k, Absent, m.who)

\* SetPublicKey: the key manager with a new current key.
WithKey(m, k) == Managed(k, m.cur, m.who)

-----------------------------------------------------------------------------
(* The service.                                                            *)

\* Start and StartUnix: the socket is open to all as long as no principal is
\* bound (macOS; the bootstrap route is then registered).
ServiceStarts ==
  /\ up' = TRUE /\ svc' = Loaded /\ boot' = NoBoot /\ pending' = FALSE
  /\ sock' = IF svc'.who = Absent THEN "all" ELSE "owner"

Start ==
  /\ ~up /\ ServiceStarts /\ Works
  /\ UNCHANGED <<fileVars, cli, init, inits, bootstraps>>

Dies ==
  /\ up /\ KeyFault
  /\ up' = FALSE /\ svc' = Blank /\ boot' = NoBoot /\ sock' = "all"
  /\ UNCHANGED <<fileVars, cli, init, pending, inits, bootstraps>>

\* No init is under way: none has begun, or the last one has ended.
InitEnded == init.at \in {"idle", "done", "failed"}

\* Mutant: a ring that cannot be read is cleared away for a new bootstrap.
BootBeginAnew(k, u) ==
  /\ up /\ boot.at = "idle" /\ bootstraps < MaxBootstraps
  /\ InitEnded \/ "overlap" \in Rare
  /\ bootstraps' = bootstraps + 1
  /\ svc.cur = Absent /\ svc.who = Absent
  /\ ring \in {Absent, Torn} /\ ring' = Absent /\ owner = Absent
  /\ boot' = [at |-> "key", key |-> k, uid |-> u]
  /\ Works /\ UNCHANGED <<legacy, owner, svc, cli, up, sock, init, pending, inits>>

\* BootstrapPublicKeyForUID up to its checks; the mutex it holds to its end
\* keeps other bootstraps out.  Nothing is initialized, in memory or on disk,
\* where an init may have failed before.
BootBegin(k, u) ==
  /\ up /\ boot.at = "idle" /\ bootstraps < MaxBootstraps
  /\ InitEnded \/ "overlap" \in Rare
  /\ bootstraps' = bootstraps + 1
  /\ svc.cur = Absent /\ svc.who = Absent
  /\ ring = Absent /\ owner = Absent
  /\ boot' = [at |-> "key", key |-> k, uid |-> u]
  /\ Works /\ UNCHANGED <<fileVars, svc, cli, up, sock, init, pending, inits>>

\* writeBootstrapFile of the ring: linking fails if the file exists by now.
BootKey ==
  /\ boot.at = "key"
  /\ \/ /\ ring = Absent /\ Works
        /\ ring' = [cur |-> boot.key, prev |-> Absent]
        /\ boot' = [boot EXCEPT !.at = "owner"]
     \/ /\ \/ ring = Absent /\ KeyFault
           \/ ring # Absent /\ Works
        /\ boot' = NoBoot /\ UNCHANGED ring
  /\ UNCHANGED <<legacy, owner, svc, cli, up, sock, init, pending, inits, bootstraps>>

\* Mutant: memory is assigned although the principal was not written.
BootOwnerAssigns ==
  /\ boot.at = "owner"
  /\ \/ /\ owner = Absent /\ Works
        /\ owner' = boot.uid
        /\ boot' = [boot EXCEPT !.at = "restrict"] /\ UNCHANGED ring
     \/ /\ \/ owner = Absent /\ KeyFault
           \/ owner # Absent /\ Works
        /\ ring' \in {Absent, ring} /\ boot' = NoBoot /\ UNCHANGED owner
  /\ svc' = Managed(boot.key, Absent, boot.uid)
  /\ UNCHANGED <<legacy, cli, up, sock, init, pending, inits, bootstraps>>

\* writeBootstrapFile of the principal, and the assignments that follow it.  If
\* it fails memory has not changed, and the ring is removed again: an error of
\* that removal is ignored, and the ring stays.
BootOwner ==
  /\ boot.at = "owner"
  /\ \/ /\ owner = Absent /\ Works
        /\ owner' = boot.uid
        /\ svc' = Managed(boot.key, Absent, boot.uid)
        /\ boot' = [boot EXCEPT !.at = "restrict"] /\ UNCHANGED ring
     \/ /\ \/ owner = Absent /\ KeyFault
           \/ owner # Absent /\ Works
        /\ ring' \in {Absent, ring} /\ boot' = NoBoot /\ UNCHANGED <<owner, svc>>
  /\ UNCHANGED <<legacy, cli, up, sock, init, pending, inits, bootstraps>>

\* The bootstrap handler restricts the socket last; if that fails the client
\* is told so, and the service stays initialized.
BootRestrict ==
  /\ boot.at = "restrict" /\ boot' = NoBoot
  /\ \/ Works /\ sock' = "owner"
     \/ KeyFault /\ UNCHANGED sock
  /\ UNCHANGED <<fileVars, svc, cli, up, init, pending, inits, bootstraps>>

-----------------------------------------------------------------------------
(* The command "service init".                                             *)

\* The command ends; what it changed is not in the service's memory.
Ends(result) ==
  /\ init' = [init EXCEPT !.at = result]
  /\ pending' = (pending \/ init.changed)

InitBegin(k, w) ==
  /\ InitEnded /\ inits < MaxInits
  /\ boot.at = "idle" \/ "overlap" \in Rare
  /\ inits' = inits + 1
  /\ cli' = Loaded
  /\ init' = [at |-> "key", key |-> k, who |-> w, old |-> cli'.cur, changed |-> FALSE]
  /\ Works /\ UNCHANGED <<fileVars, svc, up, sock, boot, pending, bootstraps>>

\* SetPublicKey: nothing to do, or the ring is truncated to be written; if it
\* cannot be opened the key manager is as it was.
InitKey ==
  /\ init.at = "key"
  /\ \/ /\ cli.cur = init.key /\ Works
        /\ init' = [init EXCEPT !.at = "owner"]
        /\ UNCHANGED <<ring, cli, pending>>
     \/ /\ cli.cur # init.key /\ Works
        /\ cli' = WithKey(cli, init.key)
        /\ ring' = Torn
        /\ init' = [init EXCEPT !.at = "save key", !.changed = TRUE]
        /\ UNCHANGED pending
     \/ /\ cli.cur # init.key /\ KeyFault
        /\ Ends("failed") /\ UNCHANGED <<ring, cli>>
  /\ UNCHANGED <<legacy, owner, svc, up, sock, boot, inits, bootstraps>>

\* savePublicKeysLocked; a write that fails leaves the file as it then is, and
\* the command ends.
InitSaveKey ==
  /\ init.at = "save key"
  /\ \/ /\ Works /\ ring' = [cur |-> cli.cur, prev |-> cli.prev]
        /\ init' = [init EXCEPT !.at = "owner"] /\ UNCHANGED pending
     \/ KeyFault /\ Ends("failed") /\ UNCHANGED ring
  /\ UNCHANGED <<legacy, owner, svc, cli, up, sock, boot, inits, bootstraps>>

\* setAuthorizedPrincipal.
InitOwner ==
  /\ init.at = "owner"
  /\ \/ /\ cli.who = init.who /\ Works
        /\ init' = [init EXCEPT !.at = "status"] /\ UNCHANGED <<owner, pending>>
     \/ /\ cli.who # init.who /\ Works
        /\ owner' = Torn
        /\ init' = [init EXCEPT !.at = "save owner", !.changed = TRUE] /\ UNCHANGED pending
     \/ /\ cli.who # init.who /\ KeyFault
        /\ Ends("failed") /\ UNCHANGED owner
  /\ UNCHANGED <<ring, legacy, svc, cli, up, sock, boot, inits, bootstraps>>

InitSaveOwner ==
  /\ init.at = "save owner"
  /\ \/ /\ Works /\ owner' = init.who /\ cli' = [cli EXCEPT !.who = init.who]
        /\ init' = [init EXCEPT !.at = "status"] /\ UNCHANGED pending
     \/ KeyFault /\ Ends("failed") /\ UNCHANGED <<owner, cli>>
  /\ UNCHANGED <<ring, legacy, svc, up, sock, boot, inits, bootstraps>>

\* serviceInitNextTransition: a running service is restarted if something has
\* changed, and one that is stopped is started if --ensure-running says so.
InitTransition(ensure) ==
  IF up THEN IF init.changed THEN "restart" ELSE "none"
  ELSE IF ensure THEN "start" ELSE "none"

\* Querying the status, and restarting or starting the service.  Either may
\* fail, and a restart that fails may have stopped the service.
InitFinish ==
  /\ init.at = "status"
  /\ \E ensure \in BOOLEAN :
       \/ /\ InitTransition(ensure) # "none" /\ Works
          /\ ServiceStarts /\ init' = [init EXCEPT !.at = "done"]
       \/ /\ InitTransition(ensure) = "none" /\ Works
          /\ init' = [init EXCEPT !.at = "done"]
          /\ UNCHANGED <<svc, up, sock, boot, pending>>
       \/ /\ KeyFault /\ Ends("failed") /\ UNCHANGED <<svc, up, sock, boot>>
  /\ UNCHANGED <<fileVars, cli, inits, bootstraps>>

InitDies ==
  /\ ~InitEnded /\ KeyFault
  /\ Ends("failed")
  /\ UNCHANGED <<fileVars, svc, cli, up, sock, boot, inits, bootstraps>>

-----------------------------------------------------------------------------
KeyInit ==
  /\ ring = Absent /\ legacy \in {Absent} \cup Key
  /\ owner \in {Absent} \cup (IF legacy = Absent THEN {} ELSE Principal)
  /\ svc = Blank /\ cli = Blank /\ up = FALSE /\ sock = "all"
  /\ boot = NoBoot /\ init = NoInit /\ pending = FALSE
  /\ inits = 0 /\ bootstraps = 0 /\ keyFaults = 0

KeyNext ==
  \/ Start \/ Dies
  \/ \E k \in Key, u \in Principal : BootBegin(k, u) \/ InitBegin(k, u)
  \/ BootKey \/ BootOwner \/ BootRestrict
  \/ InitKey \/ InitSaveKey \/ InitOwner \/ InitSaveOwner \/ InitFinish \/ InitDies

KeySpec == KeyInit /\ [][KeyNext]_keyVars

-----------------------------------------------------------------------------
Manager == [cur: Key \cup {Absent}, prev: Key \cup {Absent}, keys: SUBSET Key,
            who: Principal \cup {Absent}]

\* The type invariant of the key managers and their files.
KeysTypeOK ==
  /\ ring \in {Absent, Torn} \cup RingFile
  /\ legacy \in {Absent} \cup Key
  /\ owner \in {Absent, Torn} \cup Principal
  /\ svc \in Manager /\ cli \in Manager
  /\ up \in BOOLEAN /\ sock \in {"all", "owner"} /\ pending \in BOOLEAN
  /\ boot \in [at: {"idle", "key", "owner", "restrict"}, key: Key \cup {Absent},
               uid: Principal \cup {Absent}]
  /\ init \in [at: {"idle", "key", "save key", "owner", "save owner", "status",
                    "done", "failed"},
               key: Key \cup {Absent}, who: Principal \cup {Absent},
               old: Key \cup {Absent}, changed: BOOLEAN]
  /\ inits \in 0 .. MaxInits /\ bootstraps \in 0 .. MaxBootstraps
  /\ keyFaults \in 0 .. MaxKeyFaults

\* An init that reports success while the service runs leaves the service with
\* the requested key and principal and still accepting the key that was current
\* before, whatever earlier inits, bootstraps and crashes had left in the files
\* (cmd_service.go, serviceInitCmd) - except after an init that changed a file
\* and ended before the restart, which the next one cannot notice.
InitTakesEffect ==
  init.at = "done" /\ up /\ ~pending =>
    /\ svc.cur = init.key /\ svc.who = init.who
    /\ init.old # Absent => init.old \in svc.keys

\* What the service accepts is what it would accept after a restart, during a
\* bootstrap and after one that failed or died half-way, too: a ring it left
\* behind lets nobody in.  Excepted is the time from an init's first change of a
\* file to the next start of the service, which never comes by itself if the
\* init ends before it asks for one (SetPublicKey, BootstrapPublicKeyForUID).
MemoryMatchesFiles ==
  up /\ ~pending /\ (init.changed => InitEnded) => Accepts(svc) = Accepts(Loaded)

\* A bootstrap never replaces what it did not create ("Existing state is never
\* replaced through this entry point", auth.go): it changes the memory of a
\* service that has no key and no principal, it creates the principal file, and
\* it creates and removes the key file only where there was none - not where an
\* init has left one, readable or not.
BootstrapOnlyOnce ==
  [][ up /\ up' /\ (boot.at # "idle" \/ boot'.at # "idle") =>
        /\ svc' # svc => svc = Blank
        /\ owner' # owner => owner = Absent
        /\ ring' # ring => ring \in {Absent, [cur |-> boot.key, prev |-> Absent]} ]_keyVars

\* Memory, files and what init reports agree although either process may crash
\* between any two writes (auth.go, cmd_service.go).
KeysSound == KeysTypeOK /\ InitTakesEffect /\ MemoryMatchesFiles
=============================================================================
