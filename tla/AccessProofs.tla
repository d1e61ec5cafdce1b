---------------------------- MODULE AccessProofs ----------------------------
(***************************************************************************)
(* Proofs about what lets a request in, for any keys, principals, nonces,  *)
(* clocks, handlers and bounds.                                            *)
(*                                                                         *)
(* KeyStore: why the service's memory, the files and what init reports     *)
(* agree although the service and the command may die between any two      *)
(* steps, and why a bootstrap never replaces anything, on disk or in       *)
(* memory.                                                                 *)
(*                                                                         *)
(* RequestAuth: why a request is accepted once while its timestamp is      *)
(* valid, although handlers reach the nonce store with instants that are   *)
(* neither current nor in order.                                           *)
(***************************************************************************)
EXTENDS KeyStore, RequestAuth, FiniteSetTheorems, SequenceTheorems, TLAPS

(***************************************************************************)
(* What loading the files gives.                                           *)
(***************************************************************************)
LoadedCur ==
  IF ring = Torn THEN Absent ELSE IF ring = Absent THEN legacy ELSE ring.cur
LoadedPrev ==
  IF ring \in {Absent, Torn} \/ ring.prev = ring.cur THEN Absent ELSE ring.prev
LoadedWho == IF owner \in {Absent, Torn} THEN Absent ELSE owner

(***************************************************************************)
(* The inductive invariant.                                                *)
(***************************************************************************)
FileType ==
  /\ ring \in {Absent, Torn} \cup RingFile
  /\ legacy \in {Absent} \cup Key
  /\ owner \in {Absent, Torn} \cup Principal
MemoryType ==
  /\ svc \in Manager /\ cli \in Manager
  /\ init.at = "save key" => cli.cur \in Key
FlagType == up \in BOOLEAN /\ pending \in BOOLEAN
BootRec == [at: {"idle", "key", "owner", "restrict"}, key: Key \cup {Absent},
            uid: Principal \cup {Absent}]
BootType ==
  /\ sock \in {"all", "owner"} /\ boot \in BootRec
  /\ boot.at # "idle" => boot.key \in Key /\ boot.uid \in Principal
InitPc == {"idle", "key", "save key", "owner", "save owner", "status", "done",
           "failed"}
InitRec == [at: InitPc, key: Key \cup {Absent}, who: Principal \cup {Absent},
            old: Key \cup {Absent}, changed: BOOLEAN]
InitType ==
  /\ init \in InitRec
  /\ init.at # "idle" => init.key \in Key /\ init.who \in Principal
BudgetType ==
  /\ inits \in 0 .. MaxInits /\ bootstraps \in 0 .. MaxBootstraps
  /\ keyFaults \in 0 .. MaxKeyFaults

\* A bootstrap runs in a service that is up, while no init runs.
BootAlone == boot.at # "idle" => up /\ InitEnded

\* Until it has written both files a bootstrap finds nothing, neither in memory
\* nor on disk, but its own key.
BootStage ==
  /\ boot.at \in {"key", "owner"} =>
       svc = Managed(Absent, Absent, Absent) /\ owner = Absent /\ legacy = Absent
  /\ boot.at = "key" => ring = Absent
  /\ boot.at = "owner" => ring = [cur |-> boot.key, prev |-> Absent]

\* As long as there is no ring a service that runs has what the legacy file
\* says: a ring that an init has begun to write is never removed.
NoRing == up /\ ring = Absent => svc = Managed(legacy, Absent, svc.who)

\* What an init has done to the files so far.
KeyInFile ==
  /\ LoadedCur = init.key
  /\ init.old # Absent => init.old \in {LoadedCur, LoadedPrev}
InitStage ==
  /\ init.at = "idle" => ~pending /\ ~init.changed
  /\ init.at \in {"save key", "save owner"} => init.changed
  /\ init.at = "key" =>
       cli = Managed(LoadedCur, LoadedPrev, LoadedWho) /\ init.old = LoadedCur
  /\ init.at = "save key" =>
       cli = Managed(init.key, init.old, LoadedWho) /\ init.old # init.key
  /\ init.at \in {"owner", "save owner", "status", "done"} => KeyInFile
  /\ init.at = "owner" => cli.who = LoadedWho
  /\ init.at \in {"status", "done"} => LoadedWho = init.who

\* The service has what is in the files, or nothing, of which the files have at
\* most a key: unless an init is between the two, or one has changed them and the
\* service was not restarted.
Agrees ==
  up /\ ~pending /\ (InitEnded \/ ~init.changed) =>
    \/ svc = Managed(LoadedCur, LoadedPrev, LoadedWho)
    \/ svc = Managed(Absent, Absent, Absent) /\ LoadedWho = Absent

Types == FileType /\ MemoryType /\ FlagType /\ BootType /\ InitType /\ BudgetType

KeyInv ==
  /\ Types
  /\ BootAlone /\ BootStage /\ NoRing /\ InitStage /\ Agrees

(***************************************************************************)
(* Key managers.                                                           *)
(***************************************************************************)
LEMMA ManagedFields ==
  \A c, p, w : LET m == Managed(c, p, w) IN
    /\ m.cur = c /\ m.prev = p /\ m.who = w /\ m.keys = {c, p} \ {Absent}
    /\ c \in Key \cup {Absent} /\ p \in Key \cup {Absent} /\ w \in Principal \cup {Absent}
         => m \in Manager
BY DEF Managed, Manager

\* loadPublicKeys and loadAuthorizedPrincipal of a new key manager.
LEMMA LoadedIs ==
  ASSUME FileType
  PROVE  /\ Loaded = Managed(LoadedCur, LoadedPrev, LoadedWho)
         /\ LoadedCur \in Key \cup {Absent} /\ LoadedPrev \in Key \cup {Absent}
         /\ LoadedWho \in Principal \cup {Absent}
<1> USE KeyAssumption DEF FileType
<1>1. ring \notin {Absent, Torn} =>
        ring \in RingFile /\ ring.cur \in Key /\ ring.prev \in Key \cup {Absent}
  BY DEF RingFile
<1>2. /\ LoadedCur \in Key \cup {Absent} /\ LoadedPrev \in Key \cup {Absent}
      /\ LoadedWho \in Principal \cup {Absent}
  BY <1>1 DEF LoadedCur, LoadedPrev, LoadedWho
<1>3. LoadKeys(Blank) = Managed(LoadedCur, LoadedPrev, Absent)
  <2>1. CASE ring = Torn
    BY <2>1 DEF LoadKeys, Blank, Managed, LoadedCur, LoadedPrev
  <2>2. CASE ring = Absent /\ legacy = Absent
    BY <2>2 DEF LoadKeys, Blank, Managed, LoadedCur, LoadedPrev
  <2>3. CASE ring = Absent /\ legacy # Absent
    BY <2>3 DEF LoadKeys, Blank, LoadedCur, LoadedPrev
  <2>4. CASE ring \notin {Absent, Torn}
    BY <2>4 DEF LoadKeys, Blank, LoadedCur, LoadedPrev
  <2>5. QED
    BY <2>1, <2>2, <2>3, <2>4
<1>4. LoadPrincipal(Managed(LoadedCur, LoadedPrev, Absent))
        = Managed(LoadedCur, LoadedPrev, LoadedWho)
  BY DEF LoadPrincipal, LoadedWho, Managed
<1>5. QED
  BY <1>2, <1>3, <1>4 DEF Loaded

LEMMA BlankIs == Blank = Managed(Absent, Absent, Absent) /\ Blank \in Manager
BY DEF Blank, Managed, Manager

LEMMA RingIs ==
  ASSUME NEW c \in Key, NEW p \in Key \cup {Absent}
  PROVE  LET r == [cur |-> c, prev |-> p] IN
           r \in RingFile /\ r \notin {Absent, Torn} /\ r.cur = c /\ r.prev = p
<1>1. [cur |-> c, prev |-> p] \in RingFile
  BY DEF RingFile
<1>2. QED
  BY <1>1, KeyAssumption

LEMMA LoadedKept ==
  /\ UNCHANGED <<ring, legacy>> => LoadedCur' = LoadedCur /\ LoadedPrev' = LoadedPrev
  /\ UNCHANGED owner => LoadedWho' = LoadedWho
BY DEF LoadedCur, LoadedPrev, LoadedWho

LEMMA BootMoves ==
  ASSUME boot \in BootRec, NEW w \in {"idle", "key", "owner", "restrict"},
         boot' = [boot EXCEPT !.at = w]
  PROVE  boot' \in BootRec /\ boot'.at = w /\ boot'.key = boot.key /\ boot'.uid = boot.uid
BY DEF BootRec

LEMMA NoBootIs == NoBoot \in BootRec /\ NoBoot.at = "idle"
BY DEF NoBoot, BootRec

SameInit ==
  /\ init' \in InitRec /\ init'.key = init.key /\ init'.who = init.who
  /\ init'.old = init.old

LEMMA InitMoves ==
  ASSUME init \in InitRec, NEW w \in InitPc, init' = [init EXCEPT !.at = w]
  PROVE  SameInit /\ init'.at = w /\ (init'.changed <=> init.changed)
BY DEF InitRec, SameInit

LEMMA InitChanges ==
  ASSUME init \in InitRec, NEW w \in InitPc,
         init' = [init EXCEPT !.at = w, !.changed = TRUE]
  PROVE  SameInit /\ init'.at = w /\ init'.changed
BY DEF InitRec, SameInit

LEMMA InitFails ==
  ASSUME init \in InitRec, Ends("failed")
  PROVE  /\ SameInit /\ init'.at = "failed" /\ (init'.changed <=> init.changed)
         /\ (pending' <=> pending \/ init.changed)
BY InitMoves DEF Ends, InitPc

(***************************************************************************)
(* What the steps do, in terms of what the files and managers say.         *)
(***************************************************************************)
\* A service that starts loads the files.
LEMMA ServiceStartsDoes ==
  ASSUME FileType, ServiceStarts
  PROVE  /\ up' /\ svc' = Managed(LoadedCur, LoadedPrev, LoadedWho)
         /\ svc' \in Manager /\ boot' = NoBoot /\ ~pending' /\ sock' \in {"all", "owner"}
BY LoadedIs, ManagedFields DEF ServiceStarts

\* init loads the files and remembers the key that is current.
LEMMA InitBeginDoes ==
  ASSUME FileType, NEW k \in Key, NEW u \in Principal, InitBegin(k, u)
  PROVE  /\ init' \in InitRec /\ init'.at = "key" /\ init'.key = k
         /\ init'.who = u /\ init'.old = LoadedCur /\ ~init'.changed
         /\ cli' = Managed(LoadedCur, LoadedPrev, LoadedWho) /\ cli' \in Manager
         /\ (boot.at = "idle" \/ "overlap" \in Rare)
         /\ InitEnded
         /\ UNCHANGED <<ring, legacy, owner, svc, up, sock, boot, pending>>
<1>1. cli' = Managed(LoadedCur, LoadedPrev, LoadedWho) /\ cli' \in Manager /\ cli'.cur = LoadedCur
  BY LoadedIs, ManagedFields DEF InitBegin
<1>2. init' = [at |-> "key", key |-> k, who |-> u, old |-> LoadedCur, changed |-> FALSE]
  BY <1>1 DEF InitBegin
<1>3. LoadedCur \in Key \cup {Absent}
  BY LoadedIs
<1>4. /\ init' \in InitRec /\ init'.at = "key" /\ init'.key = k
      /\ init'.who = u /\ init'.old = LoadedCur /\ ~init'.changed
  BY <1>2, <1>3 DEF InitRec, InitPc
<1>5. QED
  BY <1>1, <1>4 DEF InitBegin, fileVars

\* SetPublicKey of an init.
LEMMA InitKeyDoes ==
  ASSUME InitType, MemoryType, InitKey
  PROVE  /\ init.at = "key" /\ SameInit
         /\ UNCHANGED <<legacy, owner, svc, up, sock, boot>>
         /\ \/ /\ cli.cur = init.key /\ init'.at = "owner"
               /\ (init'.changed <=> init.changed) /\ UNCHANGED <<ring, cli, pending>>
            \/ /\ cli.cur # init.key /\ init'.at = "save key" /\ init'.changed
               /\ cli' = Managed(init.key, cli.cur, cli.who) /\ ring' = Torn
               /\ UNCHANGED pending
            \/ /\ init'.at = "failed" /\ (init'.changed <=> init.changed)
               /\ (pending' <=> pending \/ init.changed)
               /\ UNCHANGED <<ring, cli>>
<1>1. init \in InitRec /\ {"owner", "save key"} \subseteq InitPc
  BY DEF InitType, InitPc
<1>2. CASE cli.cur = init.key /\ init' = [init EXCEPT !.at = "owner"]
             /\ UNCHANGED <<ring, cli, pending>>
  BY <1>1, <1>2, InitMoves DEF InitKey
<1>3. CASE /\ cli.cur # init.key /\ cli' = WithKey(cli, init.key) /\ ring' = Torn
           /\ init' = [init EXCEPT !.at = "save key", !.changed = TRUE]
           /\ UNCHANGED pending
  BY <1>1, <1>3, InitChanges DEF InitKey, WithKey
<1>4. CASE Ends("failed") /\ UNCHANGED <<ring, cli>>
  BY <1>1, <1>4, InitFails DEF InitKey
<1>5. QED
  BY <1>2, <1>3, <1>4 DEF InitKey

\* savePublicKeysLocked of an init.
LEMMA InitSaveKeyDoes ==
  ASSUME InitType, MemoryType, InitSaveKey
  PROVE  /\ init.at = "save key" /\ SameInit
         /\ UNCHANGED <<legacy, owner, svc, cli, up, sock, boot>>
         /\ (init'.changed <=> init.changed)
         /\ \/ /\ init'.at = "owner" /\ UNCHANGED pending
               /\ ring' \in RingFile /\ LoadedCur' = cli.cur
               /\ LoadedPrev' = IF cli.prev = cli.cur THEN Absent ELSE cli.prev
            \/ /\ init'.at = "failed" /\ (pending' <=> pending \/ init.changed)
               /\ UNCHANGED ring
<1> DEFINE r == [cur |-> cli.cur, prev |-> cli.prev]
<1>1. cli.cur \in Key /\ cli.prev \in Key \cup {Absent}
  BY DEF MemoryType, Manager, InitSaveKey
<1>2. r \in RingFile /\ r \notin {Absent, Torn} /\ r.cur = cli.cur /\ r.prev = cli.prev
  BY <1>1, RingIs
<1>3. init \in InitRec /\ "owner" \in InitPc
  BY DEF InitType, InitPc
<1>4. /\ init.at = "save key" /\ UNCHANGED <<legacy, owner, svc, cli, up, sock, boot>>
      /\ \/ ring' = r /\ init' = [init EXCEPT !.at = "owner"] /\ UNCHANGED pending
         \/ Ends("failed") /\ UNCHANGED ring
  BY DEF InitSaveKey
<1> HIDE DEF r
<1>5. CASE ring' = r /\ init' = [init EXCEPT !.at = "owner"] /\ UNCHANGED pending
  <2>1. SameInit /\ init'.at = "owner" /\ (init'.changed <=> init.changed)
    BY <1>3, <1>5, InitMoves
  <2>2. /\ ring' \in RingFile /\ LoadedCur' = cli.cur
        /\ LoadedPrev' = IF cli.prev = cli.cur THEN Absent ELSE cli.prev
    BY <1>2, <1>5 DEF LoadedCur, LoadedPrev
  <2>3. QED
    BY <1>4, <1>5, <2>1, <2>2
<1>6. CASE Ends("failed") /\ UNCHANGED ring
  BY <1>3, <1>4, <1>6, InitFails
<1>7. QED
  BY <1>4, <1>5, <1>6

\* setAuthorizedPrincipal of an init.
LEMMA InitOwnerDoes ==
  ASSUME InitType, InitOwner
  PROVE  /\ init.at = "owner" /\ SameInit
         /\ UNCHANGED <<ring, legacy, svc, cli, up, sock, boot>>
         /\ \/ /\ cli.who = init.who /\ init'.at = "status"
               /\ (init'.changed <=> init.changed) /\ UNCHANGED <<owner, pending>>
            \/ /\ init'.at = "save owner" /\ init'.changed /\ owner' = Torn
               /\ UNCHANGED pending
            \/ /\ init'.at = "failed" /\ (init'.changed <=> init.changed)
               /\ (pending' <=> pending \/ init.changed)
               /\ UNCHANGED owner
<1>1. init \in InitRec /\ {"status", "save owner"} \subseteq InitPc
  BY DEF InitType, InitPc
<1>2. CASE cli.who = init.who /\ init' = [init EXCEPT !.at = "status"]
             /\ UNCHANGED <<owner, pending>>
  BY <1>1, <1>2, InitMoves DEF InitOwner
<1>3. CASE /\ owner' = Torn /\ UNCHANGED pending
           /\ init' = [init EXCEPT !.at = "save owner", !.changed = TRUE]
  BY <1>1, <1>3, InitChanges DEF InitOwner
<1>4. CASE Ends("failed") /\ UNCHANGED owner
  BY <1>1, <1>4, InitFails DEF InitOwner
<1>5. QED
  BY <1>2, <1>3, <1>4 DEF InitOwner

\* The principal of an init is written.
LEMMA InitSaveOwnerDoes ==
  ASSUME InitType, MemoryType, InitSaveOwner
  PROVE  /\ init.at = "save owner" /\ SameInit
         /\ UNCHANGED <<ring, legacy, svc, up, sock, boot>>
         /\ (init'.changed <=> init.changed) /\ cli' \in Manager
         /\ \/ /\ init'.at = "status" /\ UNCHANGED pending
               /\ owner' = init.who /\ owner' \in Principal /\ LoadedWho' = init.who
            \/ /\ init'.at = "failed" /\ (pending' <=> pending \/ init.changed)
               /\ UNCHANGED owner
<1>1. init \in InitRec /\ {"status"} \subseteq InitPc
  BY DEF InitType, InitPc
<1>2. init.at = "save owner" /\ init.who \in Principal /\ cli \in Manager
  BY DEF InitType, InitSaveOwner, MemoryType
<1>3. CASE /\ owner' = init.who /\ cli' = [cli EXCEPT !.who = init.who]
           /\ init' = [init EXCEPT !.at = "status"] /\ UNCHANGED pending
  <2>1. SameInit /\ init'.at = "status" /\ (init'.changed <=> init.changed)
    BY <1>1, <1>3, InitMoves
  <2>2. cli' \in Manager
    BY <1>2, <1>3 DEF Manager
  <2>3. owner' \in Principal /\ LoadedWho' = init.who
    BY <1>2, <1>3, KeyAssumption DEF LoadedWho
  <2>4. UNCHANGED <<ring, legacy, svc, up, sock, boot>>
    BY DEF InitSaveOwner
  <2>5. QED
    BY <1>2, <1>3, <2>1, <2>2, <2>3, <2>4
<1>4. CASE Ends("failed") /\ UNCHANGED <<owner, cli>>
  BY <1>1, <1>2, <1>4, InitFails DEF InitSaveOwner
<1>5. QED
  BY <1>3, <1>4 DEF InitSaveOwner

\* An init ends by a restart, if the service runs and something changed.
LEMMA InitFinishDoes ==
  ASSUME InitType, FileType, FlagType, InitFinish
  PROVE  /\ init.at = "status" /\ SameInit
         /\ (init'.changed <=> init.changed)
         /\ UNCHANGED <<ring, legacy, owner, cli>>
         /\ \/ ServiceStarts /\ init'.at = "done"
            \/ /\ init'.at = "done" /\ (up => ~init.changed)
               /\ UNCHANGED <<svc, up, sock, boot, pending>>
            \/ /\ init'.at = "failed" /\ (pending' <=> pending \/ init.changed)
               /\ UNCHANGED <<svc, up, sock, boot>>
<1>1. init \in InitRec /\ {"done"} \subseteq InitPc
  BY DEF InitType, InitPc
<1>2. \A e \in BOOLEAN : InitTransition(e) = "none" => (up => ~init.changed)
  BY DEF InitTransition
<1>3. /\ init.at = "status" /\ UNCHANGED <<ring, legacy, owner, cli>>
      /\ \/ ServiceStarts /\ init' = [init EXCEPT !.at = "done"]
         \/ /\ init' = [init EXCEPT !.at = "done"] /\ (up => ~init.changed)
            /\ UNCHANGED <<svc, up, sock, boot, pending>>
         \/ Ends("failed") /\ UNCHANGED <<svc, up, sock, boot>>
  BY <1>2 DEF InitFinish, fileVars
<1>4. CASE init' = [init EXCEPT !.at = "done"]
  <2>1. SameInit /\ init'.at = "done" /\ (init'.changed <=> init.changed)
    BY <1>1, <1>4, InitMoves
  <2>2. ~Ends("failed")
    BY <1>1, <2>1, InitFails
  <2>3. QED
    BY <1>3, <2>1, <2>2
<1>5. CASE Ends("failed") /\ UNCHANGED <<svc, up, sock, boot>>
  BY <1>1, <1>3, <1>5, InitFails
<1>6. QED
  BY <1>3, <1>4, <1>5

\* An init that dies leaves the files as they are.
LEMMA InitDiesDoes ==
  ASSUME InitType, InitDies
  PROVE  /\ ~InitEnded /\ SameInit
         /\ init'.at = "failed" /\ (init'.changed <=> init.changed)
         /\ (pending' <=> pending \/ init.changed)
         /\ UNCHANGED <<ring, legacy, owner, svc, cli, up, sock, boot>>
<1>1. init \in InitRec
  BY DEF InitType
<1>2. QED
  BY <1>1, InitFails DEF InitDies, fileVars

\* A bootstrap creates the key file.
LEMMA BootKeyDoes ==
  ASSUME BootType, FileType, BootStage, BootKey
  PROVE  /\ boot.at = "key" /\ boot.key \in Key
         /\ UNCHANGED <<legacy, owner, svc, cli, up, sock, init, pending>>
         /\ \/ /\ ring' = [cur |-> boot.key, prev |-> Absent] /\ ring' \in RingFile
               /\ boot' \in BootRec /\ boot'.at = "owner"
               /\ boot'.key = boot.key /\ boot'.uid = boot.uid
            \/ boot' = NoBoot /\ UNCHANGED ring
<1>1. boot \in BootRec /\ boot.at = "key" /\ boot.key \in Key
  BY DEF BootKey, BootType
<1>2. [cur |-> boot.key, prev |-> Absent] \in RingFile
  BY <1>1, RingIs
<1>3. ASSUME boot' = [boot EXCEPT !.at = "owner"]
      PROVE  boot' \in BootRec /\ boot'.at = "owner" /\ boot'.key = boot.key /\ boot'.uid = boot.uid
  BY <1>1, <1>3, BootMoves
<1>4. QED
  BY <1>1, <1>2, <1>3 DEF BootKey

\* A bootstrap creates the principal file and takes effect, or tries to remove
\* its key.
LEMMA BootOwnerDoes ==
  ASSUME BootType, BootStage, BootOwner
  PROVE  /\ boot.at = "owner" /\ boot.key \in Key /\ boot.uid \in Principal
         /\ UNCHANGED <<legacy, cli, up, sock, init, pending>>
         /\ \/ /\ owner' = boot.uid /\ boot' \in BootRec /\ boot'.at = "restrict"
               /\ boot'.key = boot.key /\ boot'.uid = boot.uid
               /\ svc' = Managed(boot.key, Absent, boot.uid) /\ svc' \in Manager
               /\ UNCHANGED ring /\ LoadedCur' = boot.key /\ LoadedPrev' = Absent
               /\ LoadedWho' = boot.uid
            \/ ring' \in {Absent, ring} /\ boot' = NoBoot /\ UNCHANGED <<owner, svc>>
<1>1. boot \in BootRec /\ boot.at = "owner" /\ boot.key \in Key /\ boot.uid \in Principal
  BY DEF BootOwner, BootType
<1>2. Managed(boot.key, Absent, boot.uid) \in Manager
  BY <1>1, ManagedFields
<1>3. LET r == [cur |-> boot.key, prev |-> Absent] IN
      ring = r /\ r \notin {Absent, Torn} /\ r.cur = boot.key /\ r.prev = Absent
  BY <1>1, RingIs DEF BootStage
<1>4. LoadedCur = boot.key /\ LoadedPrev = Absent
  BY <1>3 DEF LoadedCur, LoadedPrev
<1>5. ASSUME owner' = boot.uid PROVE LoadedWho' = boot.uid
  BY <1>1, <1>5, KeyAssumption DEF LoadedWho
<1>6. /\ UNCHANGED <<legacy, cli, up, sock, init, pending>>
      /\ \/ /\ owner' = boot.uid /\ boot' = [boot EXCEPT !.at = "restrict"]
            /\ svc' = Managed(boot.key, Absent, boot.uid) /\ UNCHANGED ring
         \/ ring' \in {Absent, ring} /\ boot' = NoBoot /\ UNCHANGED <<owner, svc>>
  BY DEF BootOwner
<1>7. UNCHANGED <<ring, legacy>> => LoadedCur' = boot.key /\ LoadedPrev' = Absent
  BY <1>4, LoadedKept
<1>8. ASSUME boot' = [boot EXCEPT !.at = "restrict"]
      PROVE  /\ boot' \in BootRec /\ boot'.at = "restrict"
             /\ boot'.key = boot.key /\ boot'.uid = boot.uid
  BY <1>1, <1>8, BootMoves
<1>9. QED
  BY <1>1, <1>2, <1>5, <1>6, <1>7, <1>8

\* A bootstrap begins where nothing is initialized.
LEMMA BootBeginDoes ==
  ASSUME BootType, NEW k \in Key, NEW u \in Principal, BootBegin(k, u)
  PROVE  /\ up /\ boot.at = "idle" /\ (InitEnded \/ "overlap" \in Rare)
         /\ svc.cur = Absent /\ svc.who = Absent /\ ring = Absent /\ owner = Absent
         /\ boot' \in BootRec /\ boot'.at = "key" /\ boot'.key = k /\ boot'.uid = u
         /\ UNCHANGED <<ring, legacy, owner, svc, cli, up, sock, init, pending>>
<1>1. LET b == [at |-> "key", key |-> k, uid |-> u] IN
      b \in BootRec /\ b.at = "key" /\ b.key = k /\ b.uid = u
  BY DEF BootRec
<1>2. QED
  BY <1>1 DEF BootBegin, fileVars


\* What is written has the form of its file.
LEMMA FileTypeStep ==
  ASSUME FileType, MemoryType, BootType, InitType, BootStage, FlagType,
         [KeyNext]_keyVars
  PROVE  FileType'
<1> USE KeyAssumption DEF FileType, MemoryType, BootType, InitType, BootStage,
        FlagType
<1>1. CASE UNCHANGED <<ring, legacy, owner>>
  BY <1>1
<1>2. CASE BootKey
  BY <1>2, BootKeyDoes
<1>3. CASE BootOwner
  BY <1>3, BootOwnerDoes
<1>4. CASE InitKey
  BY <1>4, InitKeyDoes DEF SameInit
<1>5. CASE InitSaveKey
  BY <1>5, InitSaveKeyDoes DEF SameInit
<1>6. CASE InitOwner
  BY <1>6, InitOwnerDoes DEF SameInit
<1>7. CASE InitSaveOwner
  BY <1>7, InitSaveOwnerDoes DEF SameInit
<1> HIDE DEF FileType, MemoryType, BootType, InitType, BootStage, FlagType
<1>8. QED
  <2>1. \/ UNCHANGED <<ring, legacy, owner>>
        \/ BootKey
        \/ BootOwner
        \/ InitKey
        \/ InitSaveKey
        \/ InitOwner
        \/ InitSaveOwner
    BY DEF KeyNext, keyVars, fileVars, Start, Works, Dies, BootBegin,
           InitBegin, BootRestrict, InitFinish, InitDies
  <2>2. QED
    BY <2>1, <1>1, <1>2, <1>3, <1>4, <1>5, <1>6, <1>7

\* Loading, rotating and bootstrapping give key managers.
LEMMA MemoryTypeStep ==
  ASSUME MemoryType, FileType, BootType, InitType, BootStage, FlagType,
         [KeyNext]_keyVars
  PROVE  MemoryType'
<1> USE ManagedFields, BlankIs, KeyAssumption DEF MemoryType, FileType,
        BootType, InitType, BootStage, FlagType
<1>1. CASE UNCHANGED <<svc, cli, init>>
  BY <1>1
<1>2. CASE Start
  BY <1>2, ServiceStartsDoes DEF Start, fileVars
<1>3. CASE Dies
  BY <1>3 DEF Dies, fileVars
<1>4. ASSUME NEW k \in Key, NEW u \in Principal, InitBegin(k, u)
       PROVE  MemoryType'
  BY <1>4, InitBeginDoes, ZenonT(60)
<1>5. CASE BootOwner
  BY <1>5, BootOwnerDoes
<1>6. CASE InitKey
  <2>1. cli.cur \in Key \cup {Absent} /\ cli.who \in Principal \cup {Absent}
    BY DEF Manager
  <2>2. init.key \in Key
    BY <1>6, InitKeyDoes
  <2>3. CASE cli' = Managed(init.key, cli.cur, cli.who)
    <3> HIDE DEF MemoryType, FileType, BootType, InitType, BootStage, FlagType
    <3>1. cli' \in Manager /\ cli'.cur = init.key
      <4>1. /\ Managed(init.key, cli.cur, cli.who).cur = init.key
            /\ Managed(init.key, cli.cur, cli.who) \in Manager
        BY <2>1, <2>2, ManagedFields
      <4>2. QED
        BY <2>3, <4>1, Zenon
    <3>2. svc' = svc
      BY <1>6, InitKeyDoes DEF InitType, MemoryType
    <3>3. QED
      BY <2>2, <3>1, <3>2 DEF MemoryType
  <2>4. CASE cli' = cli /\ init'.at # "save key"
    <3>1. svc' = svc
      BY <1>6, InitKeyDoes
    <3>2. QED
      BY <2>4, <3>1
  <2>5. QED
    BY <1>6, InitKeyDoes, <2>3, <2>4
<1>7. CASE InitSaveKey
  BY <1>7, InitSaveKeyDoes DEF SameInit
<1>8. CASE InitOwner
  BY <1>8, InitOwnerDoes DEF SameInit
<1>9. CASE InitSaveOwner
  BY <1>9, InitSaveOwnerDoes DEF SameInit
<1>10. CASE InitFinish
  BY <1>10, InitFinishDoes, ServiceStartsDoes DEF SameInit
<1>11. CASE InitDies
  BY <1>11, InitDiesDoes DEF SameInit
<1> HIDE DEF MemoryType, FileType, BootType, InitType, BootStage, FlagType
<1>12. QED
  <2>1. \/ UNCHANGED <<svc, cli, init>>
        \/ Start
        \/ Dies
        \/ \E k \in Key, u \in Principal : InitBegin(k, u)
        \/ BootOwner
        \/ InitKey
        \/ InitSaveKey
        \/ InitOwner
        \/ InitSaveOwner
        \/ InitFinish
        \/ InitDies
    BY DEF KeyNext, keyVars, fileVars, BootBegin, Works, BootKey, BootRestrict
  <2>2. QED
    BY <2>1, <1>1, <1>2, <1>3, <1>4, <1>5, <1>6, <1>7, <1>8, <1>9, <1>10,
       <1>11

\* The flags stay Booleans.
LEMMA FlagTypeStep ==
  ASSUME FlagType, InitType, [KeyNext]_keyVars
  PROVE  FlagType'
<1> USE KeyAssumption DEF FlagType, InitType
<1>1. CASE UNCHANGED <<up, pending>>
  BY <1>1
<1>2. CASE Start
  BY <1>2 DEF Start, ServiceStarts, Works, fileVars
<1>3. CASE Dies
  BY <1>3 DEF Dies, KeyFault, fileVars
<1>4. CASE InitKey
  BY <1>4 DEF InitKey, Ends, KeyFault, Works
<1>5. CASE InitSaveKey
  BY <1>5 DEF InitSaveKey, Ends, KeyFault, Works
<1>6. CASE InitOwner
  BY <1>6 DEF InitOwner, Ends, KeyFault, Works
<1>7. CASE InitSaveOwner
  BY <1>7 DEF InitSaveOwner, Ends, KeyFault, Works
<1>8. CASE InitFinish
  BY <1>8
     DEF InitFinish, Ends, InitTransition, KeyFault, ServiceStarts, Works,
         fileVars
<1>9. CASE InitDies
  BY <1>9 DEF InitDies, Ends, KeyFault, fileVars
<1> HIDE DEF FlagType, InitType
<1>10. QED
  <2>1. \/ UNCHANGED <<up, pending>>
        \/ Start
        \/ Dies
        \/ InitKey
        \/ InitSaveKey
        \/ InitOwner
        \/ InitSaveOwner
        \/ InitFinish
        \/ InitDies
    BY DEF KeyNext, keyVars, fileVars, BootBegin, Works, InitBegin, BootKey,
           BootOwner, BootRestrict
  <2>2. QED
    BY <2>1, <1>1, <1>2, <1>3, <1>4, <1>5, <1>6, <1>7, <1>8, <1>9

\* A bootstrap has a key and a principal.
LEMMA BootTypeStep ==
  ASSUME BootType, FileType, InitType, FlagType, BootStage, [KeyNext]_keyVars
  PROVE  BootType'
<1> USE NoBootIs, KeyAssumption DEF BootType, FileType, InitType, FlagType,
        BootStage
<1>1. CASE UNCHANGED <<sock, boot>>
  BY <1>1
<1>2. CASE Start
  BY <1>2, ServiceStartsDoes DEF Start, fileVars
<1>3. CASE Dies
  BY <1>3 DEF Dies, fileVars
<1>4. ASSUME NEW k \in Key, NEW u \in Principal, BootBegin(k, u)
       PROVE  BootType'
  BY <1>4, BootBeginDoes
<1>5. CASE BootKey
  BY <1>5, BootKeyDoes
<1>6. CASE BootOwner
  BY <1>6, BootOwnerDoes
<1>7. CASE BootRestrict
  BY <1>7 DEF BootRestrict, fileVars
<1>8. CASE InitFinish
  BY <1>8, InitFinishDoes, ServiceStartsDoes DEF SameInit
<1> HIDE DEF BootType, FileType, InitType, FlagType, BootStage
<1>9. QED
  <2>1. \/ UNCHANGED <<sock, boot>>
        \/ Start
        \/ Dies
        \/ \E k \in Key, u \in Principal : BootBegin(k, u)
        \/ BootKey
        \/ BootOwner
        \/ BootRestrict
        \/ InitFinish
    BY DEF KeyNext, keyVars, fileVars, InitBegin, Works, InitKey, InitSaveKey,
           InitOwner, InitSaveOwner, InitDies
  <2>2. QED
    BY <2>1, <1>1, <1>2, <1>3, <1>4, <1>5, <1>6, <1>7, <1>8

\* An init has a key and a principal.
LEMMA InitTypeStep ==
  ASSUME InitType, FileType, MemoryType, FlagType, [KeyNext]_keyVars
  PROVE  InitType'
<1> USE KeyAssumption DEF InitType, FileType, MemoryType, FlagType
<1>1. CASE UNCHANGED init
  BY <1>1
<1>2. ASSUME NEW k \in Key, NEW u \in Principal, InitBegin(k, u)
       PROVE  InitType'
  BY <1>2, InitBeginDoes
<1>3. CASE InitKey
  BY <1>3, InitKeyDoes DEF SameInit
<1>4. CASE InitSaveKey
  BY <1>4, InitSaveKeyDoes DEF SameInit
<1>5. CASE InitOwner
  BY <1>5, InitOwnerDoes DEF SameInit
<1>6. CASE InitSaveOwner
  BY <1>6, InitSaveOwnerDoes DEF SameInit
<1>7. CASE InitFinish
  BY <1>7, InitFinishDoes, ServiceStartsDoes DEF SameInit
<1>8. CASE InitDies
  BY <1>8, InitDiesDoes DEF SameInit, InitEnded
<1> HIDE DEF InitType, FileType, MemoryType, FlagType
<1>9. QED
  <2>1. \/ UNCHANGED init
        \/ \E k \in Key, u \in Principal : InitBegin(k, u)
        \/ InitKey
        \/ InitSaveKey
        \/ InitOwner
        \/ InitSaveOwner
        \/ InitFinish
        \/ InitDies
    BY DEF KeyNext, keyVars, fileVars, Start, Works, Dies, BootBegin, BootKey,
           BootOwner, BootRestrict
  <2>2. QED
    BY <2>1, <1>1, <1>2, <1>3, <1>4, <1>5, <1>6, <1>7, <1>8

\* The budgets are kept.
LEMMA BudgetTypeStep ==
  ASSUME BudgetType, [KeyNext]_keyVars
  PROVE  BudgetType'
<1> USE KeyAssumption DEF BudgetType
<1>1. CASE UNCHANGED <<inits, bootstraps, keyFaults>>
  BY <1>1
<1>2. CASE Dies
  BY <1>2 DEF Dies, KeyFault, fileVars
<1>3. ASSUME NEW k \in Key, NEW u \in Principal, BootBegin(k, u)
       PROVE  BudgetType'
  BY <1>3 DEF BootBegin, Works, fileVars
<1>4. ASSUME NEW k \in Key, NEW u \in Principal, InitBegin(k, u)
       PROVE  BudgetType'
  BY <1>4 DEF InitBegin, Works, fileVars
<1>5. CASE BootKey
  BY <1>5 DEF BootKey, KeyFault, Works
<1>6. CASE BootOwner
  BY <1>6 DEF BootOwner, KeyFault, Works
<1>7. CASE BootRestrict
  BY <1>7 DEF BootRestrict, KeyFault, Works, fileVars
<1>8. CASE InitKey
  <2>1. UNCHANGED <<inits, bootstraps>> /\ (KeyFault \/ Works)
    BY <1>8, Zenon DEF InitKey
  <2>2. QED
    BY <2>1 DEF KeyFault, Works
<1>9. CASE InitSaveKey
  <2>1. UNCHANGED <<inits, bootstraps>> /\ (KeyFault \/ Works)
    BY <1>9, Zenon DEF InitSaveKey
  <2>2. QED
    BY <2>1 DEF KeyFault, Works
<1>10. CASE InitOwner
  <2>1. UNCHANGED <<inits, bootstraps>> /\ (KeyFault \/ Works)
    BY <1>10, Zenon DEF InitOwner
  <2>2. QED
    BY <2>1 DEF KeyFault, Works
<1>11. CASE InitSaveOwner
  <2>1. UNCHANGED <<inits, bootstraps>> /\ (KeyFault \/ Works)
    BY <1>11, Zenon DEF InitSaveOwner
  <2>2. QED
    BY <2>1 DEF KeyFault, Works
<1>12. CASE InitFinish
  <2>1. UNCHANGED <<inits, bootstraps>> /\ (KeyFault \/ Works)
    BY <1>12, Zenon DEF InitFinish
  <2>2. QED
    BY <2>1 DEF KeyFault, Works
<1>13. CASE InitDies
  <2>1. UNCHANGED <<inits, bootstraps>> /\ (KeyFault \/ Works)
    BY <1>13, Zenon DEF InitDies
  <2>2. QED
    BY <2>1 DEF KeyFault, Works
<1> HIDE DEF BudgetType
<1>14. QED
  <2>1. \/ UNCHANGED <<inits, bootstraps, keyFaults>>
        \/ Dies
        \/ \E k \in Key, u \in Principal : BootBegin(k, u)
        \/ \E k \in Key, u \in Principal : InitBegin(k, u)
        \/ BootKey
        \/ BootOwner
        \/ BootRestrict
        \/ InitKey
        \/ InitSaveKey
        \/ InitOwner
        \/ InitSaveOwner
        \/ InitFinish
        \/ InitDies
    BY DEF KeyNext, keyVars, fileVars, Start, Works
  <2>2. QED
    BY <2>1, <1>1, <1>2, <1>3, <1>4, <1>5, <1>6, <1>7, <1>8, <1>9, <1>10,
       <1>11, <1>12, <1>13

\* Bootstrap and init do not overlap.
LEMMA BootAloneStep ==
  ASSUME BootAlone, BootType, InitType, FileType, MemoryType, FlagType,
         BootStage, "overlap" \notin Rare, [KeyNext]_keyVars
  PROVE  BootAlone'
<1> USE NoBootIs, KeyAssumption DEF BootAlone, InitEnded, BootType, InitType, FileType,
        MemoryType, FlagType, BootStage
<1>1. CASE UNCHANGED <<up, boot, init>>
  BY <1>1
<1>2. CASE Start
  BY <1>2, ServiceStartsDoes DEF Start, fileVars
<1>3. CASE Dies
  BY <1>3 DEF Dies, fileVars
<1>4. ASSUME NEW k \in Key, NEW u \in Principal, BootBegin(k, u)
       PROVE  BootAlone'
  BY <1>4, BootBeginDoes
<1>5. ASSUME NEW k \in Key, NEW u \in Principal, InitBegin(k, u)
       PROVE  BootAlone'
  BY <1>5, InitBeginDoes
<1>6. CASE BootKey
  BY <1>6, BootKeyDoes
<1>7. CASE BootOwner
  BY <1>7, BootOwnerDoes
<1>8. CASE BootRestrict
  BY <1>8 DEF BootRestrict, fileVars
<1>9. CASE InitKey
  BY <1>9, InitKeyDoes DEF SameInit
<1>10. CASE InitSaveKey
  BY <1>10, InitSaveKeyDoes DEF SameInit
<1>11. CASE InitOwner
  BY <1>11, InitOwnerDoes DEF SameInit
<1>12. CASE InitSaveOwner
  BY <1>12, InitSaveOwnerDoes DEF SameInit
<1>13. CASE InitFinish
  BY <1>13, InitFinishDoes, ServiceStartsDoes DEF SameInit
<1>14. CASE InitDies
  BY <1>14, InitDiesDoes DEF SameInit
<1> HIDE DEF BootAlone, BootType, InitType, FileType, MemoryType, FlagType,
         BootStage
<1>15. QED
  <2>1. \/ UNCHANGED <<up, boot, init>>
        \/ Start
        \/ Dies
        \/ \E k \in Key, u \in Principal : BootBegin(k, u)
        \/ \E k \in Key, u \in Principal : InitBegin(k, u)
        \/ BootKey
        \/ BootOwner
        \/ BootRestrict
        \/ InitKey
        \/ InitSaveKey
        \/ InitOwner
        \/ InitSaveOwner
        \/ InitFinish
        \/ InitDies
    BY DEF KeyNext, keyVars, fileVars
  <2>2. QED
    BY <2>1, <1>1, <1>2, <1>3, <1>4, <1>5, <1>6, <1>7, <1>8, <1>9, <1>10,
       <1>11, <1>12, <1>13, <1>14

\* A bootstrap holds its mutex to its end.
LEMMA BootStageStep ==
  ASSUME BootStage, BootType, FileType, BootAlone, InitType, MemoryType,
         InitStage, FlagType, NoRing, "overlap" \notin Rare, [KeyNext]_keyVars
  PROVE  BootStage'
<1> USE NoBootIs, KeyAssumption DEF BootStage, BootType, FileType, BootAlone, InitEnded,
        InitType, MemoryType, InitStage, FlagType, KeyInFile
<1>1. CASE UNCHANGED <<ring, legacy, owner, svc, boot>>
  BY <1>1
<1>2. CASE Start
  BY <1>2, ServiceStartsDoes DEF Start, fileVars
<1>3. CASE Dies
  BY <1>3 DEF Dies, fileVars
<1>4. ASSUME NEW k \in Key, NEW u \in Principal, BootBegin(k, u)
       PROVE  BootStage'
  <2>1. /\ up /\ boot.at = "idle" /\ svc.cur = Absent /\ svc.who = Absent
        /\ ring = Absent /\ owner = Absent /\ boot' \in BootRec /\ boot'.at = "key"
        /\ UNCHANGED <<ring, legacy, owner, svc>>
    BY <1>4, BootBeginDoes
  <2>2. svc = Managed(legacy, Absent, Absent)
    BY <2>1 DEF NoRing
  <2>3. legacy = Absent
    <3>1. svc.cur = legacy
      BY <2>2, ZenonT(30) DEF Managed
    <3>2. QED
      BY <2>1, <3>1
  <2>4. QED
    BY <2>1, <2>2, <2>3
<1>5. CASE BootKey
  BY <1>5, BootKeyDoes
<1>6. CASE BootOwner
  BY <1>6, BootOwnerDoes
<1>7. CASE BootRestrict
  BY <1>7 DEF BootRestrict, fileVars
<1>8. CASE InitKey
  BY <1>8, InitKeyDoes DEF SameInit
<1>9. CASE InitSaveKey
  BY <1>9, InitSaveKeyDoes DEF SameInit
<1>10. CASE InitOwner
  BY <1>10, InitOwnerDoes DEF SameInit
<1>11. CASE InitSaveOwner
  BY <1>11, InitSaveOwnerDoes DEF SameInit
<1>12. CASE InitFinish
  BY <1>12, InitFinishDoes, ServiceStartsDoes DEF SameInit
<1> HIDE DEF BootStage, BootType, FileType, BootAlone, InitType, MemoryType,
         InitStage, FlagType, KeyInFile
<1>13. QED
  <2>1. \/ UNCHANGED <<ring, legacy, owner, svc, boot>>
        \/ Start
        \/ Dies
        \/ \E k \in Key, u \in Principal : BootBegin(k, u)
        \/ BootKey
        \/ BootOwner
        \/ BootRestrict
        \/ InitKey
        \/ InitSaveKey
        \/ InitOwner
        \/ InitSaveOwner
        \/ InitFinish
    BY DEF KeyNext, keyVars, fileVars, InitBegin, Works, InitDies
  <2>2. QED
    BY <2>1, <1>1, <1>2, <1>3, <1>4, <1>5, <1>6, <1>7, <1>8, <1>9, <1>10,
       <1>11, <1>12

\* A service that starts without a ring has the legacy key; a bootstrap that
\* gives up its ring has assigned nothing.
LEMMA NoRingStep ==
  ASSUME NoRing, BootType, FileType, BootStage, InitType, MemoryType, FlagType,
         [KeyNext]_keyVars
  PROVE  NoRing'
<1>1. CASE UNCHANGED <<ring, legacy, svc, up>>
  BY <1>1 DEF NoRing
<1>2. CASE ring' # Absent
  BY <1>2 DEF NoRing
<1>3. CASE ServiceStarts /\ UNCHANGED <<ring, legacy>>
  <2>1. svc' = Managed(LoadedCur, LoadedPrev, LoadedWho)
    BY <1>3, ServiceStartsDoes
  <2>2. ring = Absent => svc' = Managed(legacy, Absent, LoadedWho)
    BY <2>1, KeyAssumption DEF LoadedCur, LoadedPrev
  <2>3. ring = Absent => svc'.who = LoadedWho
    BY <2>2, ManagedFields
  <2>4. QED
    BY <1>3, <2>2, <2>3 DEF NoRing
<1>4. CASE BootOwner
  <2>1. boot.at = "owner" /\ svc = Managed(Absent, Absent, Absent) /\ legacy = Absent
    BY <1>4 DEF BootOwner, BootStage
  <2>2. ring # Absent
    <3>1. boot.key \in Key
      BY <2>1 DEF BootType
    <3>2. QED
      BY <2>1, <3>1, RingIs DEF BootStage
  <2>3. svc.who = Absent
    BY <2>1, ManagedFields
  <2>4. UNCHANGED ring \/ UNCHANGED <<legacy, svc>>
    BY <1>4, BootOwnerDoes
  <2>5. CASE UNCHANGED ring
    BY <2>2, <2>5, <1>2
  <2>6. CASE UNCHANGED <<legacy, svc>>
    BY <2>1, <2>3, <2>6 DEF NoRing
  <2>7. QED
    BY <2>4, <2>5, <2>6
<1>5. CASE BootKey \/ InitKey \/ InitSaveKey
  <2>1. CASE BootKey
    <3>1. ring' \in RingFile \/ UNCHANGED <<ring, legacy, svc, up>>
      BY <2>1, BootKeyDoes
    <3>2. QED
      BY <3>1, <1>1, <1>2, KeyAssumption
  <2>2. CASE InitKey
    <3>1. ring' = Torn \/ UNCHANGED <<ring, legacy, svc, up>>
      BY <2>2, InitKeyDoes
    <3>2. QED
      BY <3>1, <1>1, <1>2, KeyAssumption
  <2>3. CASE InitSaveKey
    <3>1. ring' \in RingFile \/ UNCHANGED <<ring, legacy, svc, up>>
      BY <2>3, InitSaveKeyDoes
    <3>2. QED
      BY <3>1, <1>1, <1>2, KeyAssumption
  <2>4. QED
    BY <1>5, <2>1, <2>2, <2>3
<1>6. CASE InitFinish
  <2>1. /\ UNCHANGED <<ring, legacy>>
        /\ ServiceStarts \/ UNCHANGED <<svc, up>>
    BY <1>6, InitFinishDoes
  <2>2. QED
    BY <2>1, <1>1, <1>3
<1>7. CASE Start
  BY <1>7, <1>3 DEF Start, fileVars
<1>8. CASE Dies
  BY <1>8 DEF Dies, NoRing
<1>9. QED
  <2>1. \/ UNCHANGED <<ring, legacy, svc, up>>
        \/ BootOwner \/ BootKey \/ InitKey \/ InitSaveKey \/ InitFinish \/ Start \/ Dies
    BY DEF KeyNext, keyVars, fileVars, BootBegin, InitBegin, BootRestrict, InitOwner,
           InitSaveOwner, InitDies
  <2>2. QED
    BY <2>1, <1>1, <1>4, <1>5, <1>6, <1>7, <1>8

\* An init works on what it loaded and wrote.
LEMMA InitStageStep ==
  ASSUME InitStage, InitType, FileType, MemoryType, BootAlone, BootType,
         FlagType, BootStage, [KeyNext]_keyVars
  PROVE  InitStage'
<1> USE LoadedKept, ManagedFields, KeyAssumption DEF InitStage, InitType,
        FileType, MemoryType, BootAlone, BootType, FlagType, BootStage,
        KeyInFile
<1>1. CASE UNCHANGED <<ring, legacy, owner, cli, init, pending>>
  BY <1>1
<1>2. CASE Start
  BY <1>2, ServiceStartsDoes DEF Start, fileVars
<1>3. ASSUME NEW k \in Key, NEW u \in Principal, InitBegin(k, u)
       PROVE  InitStage'
  BY <1>3, InitBeginDoes
<1>4. CASE BootKey
  <2>1. InitEnded /\ owner = Absent /\ UNCHANGED <<init, pending>>
    BY <1>4, BootKeyDoes
  <2>2. init.at \in {"idle", "failed"}
    BY <2>1 DEF LoadedWho, InitEnded
  <2>3. QED
    BY <2>1, <2>2
<1>5. CASE BootOwner
  <2>1. InitEnded /\ owner = Absent /\ UNCHANGED <<init, pending>>
    BY <1>5, BootOwnerDoes
  <2>2. init.at \in {"idle", "failed"}
    BY <2>1 DEF LoadedWho, InitEnded
  <2>3. QED
    BY <2>1, <2>2
<1>6. CASE InitKey
  <2>1. /\ init.at = "key" /\ SameInit /\ UNCHANGED <<legacy, owner>>
        /\ cli = Managed(LoadedCur, LoadedPrev, LoadedWho) /\ init.old = LoadedCur
        /\ LoadedWho' = LoadedWho
    BY <1>6, InitKeyDoes
  <2>2. cli.cur = LoadedCur /\ cli.who = LoadedWho
    BY <2>1, ManagedFields
  <2>3. CASE /\ cli.cur = init.key /\ init'.at = "owner" /\ UNCHANGED <<ring, cli, pending>>
    <3>1. LoadedCur' = LoadedCur /\ LoadedPrev' = LoadedPrev
      BY <2>1, <2>3
    <3>2. QED
      BY <2>1, <2>2, <2>3, <3>1 DEF SameInit
  <2>4. CASE /\ cli.cur # init.key /\ init'.at = "save key" /\ init'.changed
             /\ cli' = Managed(init.key, cli.cur, cli.who)
    <3>1. init'.key = init.key /\ init'.old = init.old
      BY <2>1 DEF SameInit
    <3>2. cli' = Managed(init'.key, init'.old, LoadedWho') /\ init'.old # init'.key
      <4>1. init'.old = cli.cur /\ LoadedWho' = cli.who
        BY <2>1, <2>2, <3>1
      <4>2. QED
        BY <2>4, <3>1, <4>1, Zenon
    <3>3. QED
      BY <2>4, <3>2
  <2>5. CASE init'.at = "failed"
    BY <2>5
  <2>6. QED
    BY <1>6, InitKeyDoes, <2>3, <2>4, <2>5
<1>7. CASE InitSaveKey
  <2>1. /\ init.at = "save key" /\ SameInit /\ UNCHANGED <<owner, cli>>
        /\ cli = Managed(init.key, init.old, LoadedWho) /\ init.old # init.key
        /\ LoadedWho' = LoadedWho
    BY <1>7, InitSaveKeyDoes
  <2>2. cli.cur = init.key /\ cli.prev = init.old /\ cli.who = LoadedWho
    <3>1. cli = Managed(init.key, init.old, LoadedWho)
      BY <2>1
    <3> HIDE DEF InitStage, InitType, MemoryType, FileType, BootStage, BootType
    <3>2. QED
      BY <3>1, ManagedFields
  <2>3. CASE /\ init'.at = "owner" /\ LoadedCur' = cli.cur
             /\ LoadedPrev' = IF cli.prev = cli.cur THEN Absent ELSE cli.prev
    BY <2>1, <2>2, <2>3 DEF SameInit
  <2>4. CASE init'.at = "failed"
    BY <2>4
  <2>5. QED
    BY <1>7, InitSaveKeyDoes, <2>3, <2>4
<1>8. CASE InitOwner
  BY <1>8, InitOwnerDoes DEF SameInit
<1>9. CASE InitSaveOwner
  BY <1>9, InitSaveOwnerDoes DEF SameInit
<1>10. CASE InitFinish
  BY <1>10, InitFinishDoes, ServiceStartsDoes DEF SameInit
<1>11. CASE InitDies
  BY <1>11, InitDiesDoes DEF SameInit
<1> HIDE DEF InitStage, InitType, FileType, MemoryType, BootAlone, BootType,
         FlagType, BootStage, KeyInFile
<1>12. QED
  <2>1. \/ UNCHANGED <<ring, legacy, owner, cli, init, pending>>
        \/ Start
        \/ \E k \in Key, u \in Principal : InitBegin(k, u)
        \/ BootKey
        \/ BootOwner
        \/ InitKey
        \/ InitSaveKey
        \/ InitOwner
        \/ InitSaveOwner
        \/ InitFinish
        \/ InitDies
    BY DEF KeyNext, keyVars, fileVars, Dies, BootBegin, Works, BootRestrict
  <2>2. QED
    BY <2>1, <1>1, <1>2, <1>3, <1>4, <1>5, <1>6, <1>7, <1>8, <1>9, <1>10,
       <1>11

\* Whatever changes the files without the memory is seen.
LEMMA AgreesStep ==
  ASSUME Agrees, InitType, FileType, MemoryType, BootType, BootAlone,
         BootStage, FlagType, InitStage, [KeyNext]_keyVars
  PROVE  Agrees'
<1> USE LoadedKept, ManagedFields, NoBootIs, KeyAssumption DEF Agrees, InitEnded,
        InitType, FileType, MemoryType, BootType, BootAlone, BootStage,
        FlagType, InitStage, KeyInFile
<1>1. CASE UNCHANGED <<ring, legacy, owner, svc, up, boot, init, pending>>
  BY <1>1
<1>2. CASE Start
  BY <1>2, ServiceStartsDoes DEF Start, fileVars
<1>3. CASE Dies
  BY <1>3 DEF Dies, fileVars
<1>4. ASSUME NEW k \in Key, NEW u \in Principal, BootBegin(k, u)
       PROVE  Agrees'
  <2>1. UNCHANGED <<ring, legacy, owner, svc, up, init, pending>>
    BY <1>4, BootBeginDoes
  <2>2. QED
    BY <2>1
<1>5. ASSUME NEW k \in Key, NEW u \in Principal, InitBegin(k, u)
       PROVE  Agrees'
  BY <1>5, InitBeginDoes
<1>6. CASE BootKey
  <2>1. /\ UNCHANGED <<owner, svc>> /\ owner = Absent
        /\ svc = Managed(Absent, Absent, Absent)
    BY <1>6, BootKeyDoes
  <2>2. LoadedWho' = Absent
    BY <2>1 DEF LoadedWho
  <2>3. QED
    BY <2>1, <2>2
<1>7. CASE BootOwner
  <2>1. CASE /\ svc' = Managed(boot.key, Absent, boot.uid) /\ LoadedCur' = boot.key
             /\ LoadedPrev' = Absent /\ LoadedWho' = boot.uid
    BY <2>1
  <2>2. CASE UNCHANGED <<owner, svc>>
    <3>1. owner = Absent /\ svc = Managed(Absent, Absent, Absent)
      BY <1>7, BootOwnerDoes, <2>2
    <3>2. LoadedWho' = Absent
      BY <2>2, <3>1 DEF LoadedWho
    <3>3. QED
      BY <2>2, <3>1, <3>2
  <2>3. QED
    BY <1>7, BootOwnerDoes, <2>1, <2>2
<1>8. CASE BootRestrict
  BY <1>8 DEF BootRestrict, fileVars
<1>9. CASE InitKey
  BY <1>9, InitKeyDoes DEF SameInit
<1>10. CASE InitSaveKey
  BY <1>10, InitSaveKeyDoes DEF SameInit
<1>11. CASE InitOwner
  BY <1>11, InitOwnerDoes DEF SameInit
<1>12. CASE InitSaveOwner
  BY <1>12, InitSaveOwnerDoes DEF SameInit
<1>13. CASE InitFinish
  BY <1>13, InitFinishDoes, ServiceStartsDoes DEF SameInit
<1>14. CASE InitDies
  BY <1>14, InitDiesDoes DEF SameInit
<1> HIDE DEF Agrees, InitType, FileType, MemoryType, BootType, BootAlone,
         BootStage, FlagType, InitStage, KeyInFile
<1>15. QED
  <2>1. \/ UNCHANGED <<ring, legacy, owner, svc, up, boot, init, pending>>
        \/ Start
        \/ Dies
        \/ \E k \in Key, u \in Principal : BootBegin(k, u)
        \/ \E k \in Key, u \in Principal : InitBegin(k, u)
        \/ BootKey
        \/ BootOwner
        \/ BootRestrict
        \/ InitKey
        \/ InitSaveKey
        \/ InitOwner
        \/ InitSaveOwner
        \/ InitFinish
        \/ InitDies
    BY DEF KeyNext, keyVars, fileVars
  <2>2. QED
    BY <2>1, <1>1, <1>2, <1>3, <1>4, <1>5, <1>6, <1>7, <1>8, <1>9, <1>10,
       <1>11, <1>12, <1>13, <1>14

(***************************************************************************)
(* The key store.                                                          *)
(***************************************************************************)
LEMMA KeyInvInit == KeyInit => KeyInv
<1> SUFFICES ASSUME KeyInit PROVE KeyInv
  OBVIOUS
<1> USE KeyAssumption DEF KeyInit
<1>1. FileType /\ MemoryType /\ BudgetType
  BY BlankIs DEF FileType, MemoryType, BudgetType, NoInit
<1>2. FlagType
  BY Zenon DEF FlagType
<1>3. BootType /\ BootAlone /\ BootStage /\ NoRing
  BY NoBootIs DEF BootType, BootAlone, BootStage, NoRing
<1>4. NoInit \in InitRec /\ NoInit.at = "idle" /\ ~NoInit.changed
  BY DEF NoInit, InitRec, InitPc
<1>5. InitType /\ InitStage
  BY <1>4 DEF InitType, InitStage
<1>6. Agrees
  BY DEF Agrees
<1>7. QED
  BY <1>1, <1>2, <1>3, <1>5, <1>6 DEF KeyInv, Types

LEMMA KeyInvStep ==
  ASSUME "overlap" \notin Rare, KeyInv, [KeyNext]_keyVars
  PROVE  KeyInv'
<1> USE DEF KeyInv, Types
<1>1. FileType' /\ MemoryType' /\ FlagType' /\ BootType' /\ InitType' /\ BudgetType'
  BY FileTypeStep, MemoryTypeStep, FlagTypeStep, BootTypeStep, InitTypeStep,
     BudgetTypeStep
<1>2. BootAlone' /\ BootStage' /\ NoRing' /\ InitStage' /\ Agrees'
  BY BootAloneStep, BootStageStep, NoRingStep, InitStageStep, AgreesStep
<1>3. QED
  BY <1>1, <1>2

\* As long as nobody runs "service init" while a client bootstraps, and
\* whatever fails or dies: the service accepts what it would accept after a
\* restart, and an init that reports success has installed its key and
\* principal without dropping the key that was current (auth.go,
\* cmd_service.go).  Both are said of a service that has started since the last
\* init that changed a file.
THEOREM KeysAlwaysSound ==
  ASSUME "overlap" \notin Rare
  PROVE  KeySpec => []KeysSound
<1>1. ASSUME KeyInv
      PROVE  KeysSound
  <2> USE <1>1 DEF KeyInv, Types
  <2>1. KeysTypeOK
    BY DEF KeysTypeOK, FileType, MemoryType, FlagType, BootType, InitType,
           BudgetType, BootRec, InitRec, InitPc
  <2>2. MemoryMatchesFiles
    <3> SUFFICES ASSUME up, ~pending, InitEnded \/ ~init.changed
                 PROVE  Accepts(svc) = Accepts(Loaded)
      BY DEF MemoryMatchesFiles, InitType, InitRec
    <3>1. Loaded = Managed(LoadedCur, LoadedPrev, LoadedWho)
      BY LoadedIs
    <3>2. CASE svc = Managed(LoadedCur, LoadedPrev, LoadedWho)
      BY <3>1, <3>2
    <3>3. CASE svc = Managed(Absent, Absent, Absent) /\ LoadedWho = Absent
      <4>1. svc.who = Absent /\ Loaded.who = Absent
        BY <3>1, <3>3, ManagedFields
      <4>2. QED
        BY <4>1 DEF Accepts, Initialized
    <3>4. QED
      BY <3>2, <3>3 DEF Agrees
  <2>3. InitTakesEffect
    <3> SUFFICES ASSUME init.at = "done", up, ~pending
                 PROVE  /\ svc.cur = init.key /\ svc.who = init.who
                        /\ init.old # Absent => init.old \in svc.keys
      BY DEF InitTakesEffect
    <3>1. svc = Managed(LoadedCur, LoadedPrev, LoadedWho)
      <4>1. LoadedWho # Absent
        BY KeyAssumption DEF InitStage, InitType
      <4>2. QED
        BY <4>1 DEF Agrees, InitEnded
    <3>2. /\ svc.cur = LoadedCur /\ svc.who = LoadedWho
          /\ svc.keys = {LoadedCur, LoadedPrev} \ {Absent}
      BY <3>1, ManagedFields
    <3>3. KeyInFile /\ LoadedWho = init.who
      BY DEF InitStage
    <3>4. QED
      BY <3>2, <3>3 DEF KeyInFile
  <2>4. QED
    BY <2>1, <2>2, <2>3 DEF KeysSound
<1>2. KeyInv /\ [KeyNext]_keyVars => KeyInv'
  BY KeyInvStep
<1>3. QED
  BY KeyInvInit, <1>1, <1>2, PTL DEF KeySpec

\* "Existing state is never replaced through this entry point" (auth.go): a
\* bootstrap changes the memory of a running service only if that holds no key
\* and no principal, and the files only where there was none: also after inits
\* that failed or died and left a ring or a principal, readable or not.
THEOREM BootstrapReplacesNothing ==
  ASSUME "overlap" \notin Rare
  PROVE  KeySpec => BootstrapOnlyOnce
<1> DEFINE Keeps == /\ svc' # svc => svc = Blank
                    /\ owner' # owner => owner = Absent
                    /\ ring' # ring => ring \in {Absent, [cur |-> boot.key, prev |-> Absent]}
           Step == up /\ up' /\ (boot.at # "idle" \/ boot'.at # "idle") => Keeps
<1>1. ASSUME KeyInv, [KeyNext]_keyVars
      PROVE  [Step]_keyVars
  <2> SUFFICES ASSUME up, up', boot.at # "idle" \/ boot'.at # "idle", ~UNCHANGED keyVars
               PROVE  Keeps
    OBVIOUS
  <2> USE <1>1 DEF KeyInv, Types
  <2>1. CASE BootKey
    BY <2>1 DEF BootKey, BootStage
  <2>2. CASE BootOwner
    <3>1. boot.at = "owner"
      BY <2>2 DEF BootOwner
    <3>2. QED
      BY <3>1, BlankIs DEF BootStage
  <2>3. ASSUME ~BootKey, ~BootOwner
        PROVE  UNCHANGED <<ring, owner, svc>>
    <3>1. CASE \E k \in Key, u \in Principal : BootBegin(k, u) \/ InitBegin(k, u)
      BY <3>1 DEF BootBegin, InitBegin, fileVars
    <3>2. CASE BootRestrict
      BY <3>2 DEF BootRestrict, fileVars
    <3>3. CASE Start \/ Dies
      BY <3>3 DEF Start, Dies
    <3>4. CASE InitKey \/ InitSaveKey \/ InitOwner \/ InitSaveOwner \/ InitDies
      <4>1. UNCHANGED boot /\ ~InitEnded
        BY <3>4 DEF InitKey, InitSaveKey, InitOwner, InitSaveOwner, InitDies, InitEnded
      <4>2. QED
        BY <4>1 DEF BootAlone
    <3>5. CASE InitFinish
      <4>1. init.at = "status" /\ (UNCHANGED boot \/ boot' = NoBoot)
        BY <3>5 DEF InitFinish, ServiceStarts
      <4>2. boot.at = "idle"
        BY <4>1 DEF BootAlone, InitEnded
      <4>3. QED
        BY <4>1, <4>2, NoBootIs
    <3>6. QED
      BY <1>1, <2>3, <3>1, <3>2, <3>3, <3>4, <3>5 DEF KeyNext
  <2>4. QED
    BY <2>1, <2>2, <2>3
<1>2. KeyInv /\ [KeyNext]_keyVars => KeyInv'
  BY KeyInvStep
<1>3. QED
  BY KeyInvInit, <1>1, <1>2, PTL DEF KeySpec, BootstrapOnlyOnce

-----------------------------------------------------------------------------
(***************************************************************************)
(* The inductive invariant.                                                *)
(***************************************************************************)
NonceKeys == {NonceKey(m) : m \in Message}
Entry     == [key: NonceKeys, expires: Nat]
Accepted  == [key: NonceKeys, ts: Nat, now: Nat, on: Nat]
Serving   == [msg: Message \cup {NoMessage}, at: {"idle", "body", "nonce"}, now: Nat]

ClockType == clock \in Nat
ServingType == serving \in [Handler -> Serving]
StoreType ==
  /\ seen = [k \in DOMAIN seen |-> seen[k]]
  /\ DOMAIN seen \subseteq NonceKeys
  /\ \A k \in DOMAIN seen : seen[k] \in Nat
  /\ order \in Seq(Entry)
HistoryType ==
  /\ accepted \in Seq(Accepted)
  /\ \A i \in DOMAIN accepted :
       accepted[i].key[2] = accepted[i].ts /\ accepted[i].ts <= accepted[i].now + Drift

\* A request under way was within the drift when it arrived, and only one that
\* was verified reaches the nonce store.
InWindow ==
  \A h \in Handler : serving[h].at # "idle" =>
    LET r == serving[h] IN
    /\ r.msg \in Message /\ r.now <= clock
    /\ r.now <= r.msg.ts + Drift /\ r.msg.ts <= r.now + Drift
    /\ r.at = "nonce" => r.msg.genuine

\* What the nonce store holds was accepted.
SeenAccepted ==
  \A k \in DOMAIN seen : \E i \in DOMAIN accepted : accepted[i].key = k

\* What was accepted stays in the nonce store until one window has passed since
\* the instant that was read.
Covered ==
  \A i \in DOMAIN accepted :
    \/ clock >= accepted[i].now + 2 * Drift
    \/ /\ accepted[i].key \in DOMAIN seen
       /\ seen[accepted[i].key] >= accepted[i].now + 2 * Drift

\* What is accepted again is accepted one window after the instant that was read
\* at first.
Apart ==
  \A i, j \in DOMAIN accepted :
    i < j /\ accepted[i].key = accepted[j].key =>
      accepted[j].on >= accepted[i].now + 2 * Drift

NonceInv ==
  /\ ClockType /\ ServingType /\ StoreType /\ HistoryType /\ InWindow
  /\ SeenIsOrdered /\ SeenAccepted /\ Covered
  /\ RefusedOnlyIfAccepted /\ Apart

(***************************************************************************)
(* The nonce store.                                                        *)
(***************************************************************************)
LEMMA MaximumExists ==
  ASSUME NEW N \in Nat, NEW S \in SUBSET (0 .. N), S # {}
  PROVE  \E n \in S : \A k \in S : k <= n
<1> DEFINE above(p) == {q \in S : q > p}
           F == {A \in SUBSET S : \E p \in S : A = above(p)}
<1>1. IsFiniteSet(S)
  <2>1. IsFiniteSet(0 .. N)
    BY FS_Interval
  <2>2. QED
    BY <2>1, FS_Subset
<1>2. F \subseteq FiniteSubsetsOf(S) /\ F # {}
  <2>1. \A A \in SUBSET S : IsFiniteSet(A)
    BY <1>1, FS_Subset
  <2>2. QED
    BY <2>1 DEF FiniteSubsetsOf
<1>3. PICK A \in F : \A B \in F : <<B, A>> \notin StrictSubsetOrdering(S)
  <2> HIDE DEF F
  <2>1. IsWellFoundedOn(StrictSubsetOrdering(S), FiniteSubsetsOf(S))
    BY FS_StrictSubsetOrderingWellFounded, Zenon
  <2>2. QED
    BY <1>2, <2>1, WFMin, Zenon
<1>4. PICK p \in S : A = above(p)
  OBVIOUS
<1>5. ASSUME NEW q \in S, ~(q <= p) PROVE FALSE
  <2>1. above(q) \in F /\ q \in A /\ q \notin above(q) /\ above(q) \subseteq A
    <3>1. q > p /\ \A r \in S : r > q => r > p
      BY <1>5
    <3>2. above(q) \in F /\ q \notin above(q)
      OBVIOUS
    <3>3. QED
      BY <1>4, <3>1, <3>2
  <2> HIDE DEF F, above
  <2>2. <<above(q), A>> \notin StrictSubsetOrdering(S)
    BY <1>3, <2>1
  <2>3. above(q) \subseteq S /\ A \subseteq S
    BY <1>3 DEF F, above
  <2>4. QED
    BY <2>1, <2>2, <2>3 DEF StrictSubsetOrdering
<1>6. QED
  BY <1>5

\* evictExpiredLocked takes expired entries only.
LEMMA EvictsExpired ==
  ASSUME StoreType, NEW now \in Nat
  PROVE  /\ EvictCount(now) \in 0 .. Len(order)
         /\ \A i \in 1 .. EvictCount(now) : order[i].expires <= now
         /\ Kept(now) \in Seq(Entry)
         /\ Len(Kept(now)) = Len(order) - EvictCount(now)
         /\ \A i \in 1 .. Len(Kept(now)) : Kept(now)[i] = order[EvictCount(now) + i]
<1>1. Len(order) \in Nat
  BY DEF StoreType
<1>2. Expired(now) \in SUBSET (0 .. Len(order)) /\ 0 \in Expired(now)
  BY <1>1 DEF Expired
<1>3. \E n \in Expired(now) : \A k \in Expired(now) : k <= n
  BY <1>1, <1>2, MaximumExists
<1>4. EvictCount(now) \in Expired(now)
  BY <1>3 DEF EvictCount
<1>5. /\ EvictCount(now) \in 0 .. Len(order)
      /\ \A i \in 1 .. EvictCount(now) : order[i].expires <= now
  BY <1>4 DEF Expired
<1> DEFINE n == EvictCount(now)
<1> HIDE DEF n
<1>6. n \in 0 .. Len(order) /\ order \in Seq(Entry)
  BY <1>5 DEF n, StoreType
<1>7. /\ SubSeq(order, n + 1, Len(order)) \in Seq(Entry)
      /\ Len(SubSeq(order, n + 1, Len(order))) = Len(order) - n
      /\ \A i \in 1 .. Len(order) - n : SubSeq(order, n + 1, Len(order))[i] = order[n + i]
  BY <1>1, <1>6
<1>8. QED
  BY <1>5, <1>7 DEF Kept, n

\* Everything that stays in seen stays in order.
LEMMA KeptOrdered ==
  ASSUME StoreType, SeenIsOrdered, NEW now \in Nat,
         NEW k \in DOMAIN seen \ Gone(now)
  PROVE  \E i \in DOMAIN Kept(now) : Kept(now)[i] = [key |-> k, expires |-> seen[k]]
<1>1. PICK i \in DOMAIN order : order[i] = [key |-> k, expires |-> seen[k]]
  BY DEF SeenIsOrdered
<1>2. i \in 1 .. Len(order) /\ Len(order) \in Nat
  BY DEF StoreType
<1>3. ~(i \in 1 .. EvictCount(now))
  <2>1. order[i].key = k /\ order[i].expires = seen[k]
    BY <1>1
  <2>2. QED
    BY <2>1 DEF Gone
<1> DEFINE j == i - EvictCount(now)
<1>4. j \in 1 .. Len(Kept(now)) /\ Kept(now)[j] = order[i]
  <2>1. /\ EvictCount(now) \in 0 .. Len(order)
        /\ Len(Kept(now)) = Len(order) - EvictCount(now)
        /\ \A l \in 1 .. Len(Kept(now)) : Kept(now)[l] = order[EvictCount(now) + l]
    BY EvictsExpired
  <2>2. j \in 1 .. Len(Kept(now)) /\ EvictCount(now) + j = i
    BY <1>2, <1>3, <2>1
  <2>3. QED
    BY <2>1, <2>2
<1>5. DOMAIN Kept(now) = 1 .. Len(Kept(now))
  BY EvictsExpired
<1>6. QED
  BY <1>1, <1>4, <1>5

\* What Remember does to the nonce store: it forgets only what has expired,
\* and afterwards holds the key.
LEMMA Remembers ==
  ASSUME StoreType, SeenIsOrdered, NEW key \in NonceKeys, NEW now \in Nat,
         Remember(key, now)
  PROVE  /\ StoreType' /\ SeenIsOrdered'
         /\ \A k \in DOMAIN seen : k # key =>
              \/ k \in DOMAIN seen' /\ seen'[k] = seen[k]
              \/ seen[k] <= now
         /\ DOMAIN seen' \subseteq DOMAIN seen \cup {key}
         /\ Replayed(key, now) =>
              /\ key \in DOMAIN seen /\ key \in DOMAIN seen'
              /\ seen'[key] = seen[key]
         /\ ~Replayed(key, now) =>
              /\ key \in DOMAIN seen' /\ seen'[key] = now + 2 * Drift
              /\ key \in DOMAIN seen => seen[key] <= now
<1> DEFINE left == [k \in DOMAIN seen \ Gone(now) |-> seen[k]]
<1>1. left = Restrict(seen, DOMAIN seen \ Gone(now))
  BY DEF Restrict
<1>2. ASSUME NEW k \in DOMAIN seen, k \in Gone(now)
      PROVE  seen[k] <= now
  BY <1>2, EvictsExpired DEF Gone
<1>3. Drift \in Nat /\ Ttl = 2 * Drift
  BY RequestAssumption DEF Ttl
<1>4. CASE Replayed(key, now)
  <2>1. seen' = left /\ order' = Kept(now) /\ key \in DOMAIN seen \ Gone(now)
    BY <1>1, <1>4 DEF Remember, Replayed
  <2>2. StoreType'
    BY <2>1, EvictsExpired DEF StoreType
  <2>3. SeenIsOrdered'
    BY <2>1, KeptOrdered DEF SeenIsOrdered
  <2>4. QED
    BY <1>2, <1>4, <2>1, <2>2, <2>3
<1>5. CASE ~Replayed(key, now)
  <2> DEFINE e == [key |-> key, expires |-> now + Ttl]
  <2>1. /\ seen' = [k \in (DOMAIN seen \ Gone(now)) \cup {key} |->
                      IF k = key THEN now + Ttl ELSE left[k]]
        /\ order' = Append(Kept(now), e)
    BY <1>1, <1>5 DEF Remember
  <2>2. e \in Entry /\ now + Ttl \in Nat
    BY <1>3 DEF Entry
  <2>3. /\ order' \in Seq(Entry) /\ Len(order') = Len(Kept(now)) + 1
        /\ order'[Len(order')] = e
        /\ \A i \in DOMAIN Kept(now) : i \in DOMAIN order' /\ order'[i] = Kept(now)[i]
    <3>1. Kept(now) \in Seq(Entry)
      BY EvictsExpired
    <3> HIDE DEF e
    <3>2. QED
      BY <2>1, <2>2, <3>1
  <2>4. StoreType'
    BY <2>1, <2>2, <2>3 DEF StoreType
  <2>5. SeenIsOrdered'
    <3> SUFFICES ASSUME NEW k \in DOMAIN seen'
                 PROVE  \E i \in DOMAIN order' : order'[i] = [key |-> k, expires |-> seen'[k]]
      BY DEF SeenIsOrdered
    <3>1. CASE k = key
      <4>1. Len(order') \in DOMAIN order'
        BY <2>3, EvictsExpired
      <4>2. seen'[k] = now + Ttl
        BY <2>1, <3>1
      <4>3. QED
        BY <2>3, <3>1, <4>1, <4>2
    <3>2. CASE k # key
      <4>1. k \in DOMAIN seen \ Gone(now) /\ seen'[k] = seen[k]
        BY <2>1, <3>2
      <4>2. PICK i \in DOMAIN Kept(now) : Kept(now)[i] = [key |-> k, expires |-> seen[k]]
        BY <4>1, KeptOrdered
      <4>3. QED
        BY <2>3, <4>1, <4>2
    <3>3. QED
      BY <3>1, <3>2
  <2>6. key \in DOMAIN seen => seen[key] <= now
    BY <1>2, <1>5 DEF Replayed, StoreType
  <2>7. QED
    BY <1>2, <1>3, <1>5, <2>1, <2>4, <2>5, <2>6
<1>6. QED
  BY <1>4, <1>5

(***************************************************************************)
(* Every step keeps the invariant.                                         *)
(***************************************************************************)
LEMMA IdleServes == Idle \in Serving /\ Idle.at = "idle"
BY DEF Idle, Serving

LEMMA ArriveKeeps ==
  ASSUME NonceInv, NEW h \in Handler, NEW m \in Message, Arrive(h, m)
  PROVE  NonceInv'
<1> USE DEF NonceInv
<1>1. UNCHANGED <<clock, seen, order, accepted, refused>>
  BY DEF Arrive, storeVars
<1>2. ServingType' /\ InWindow'
  <2> DEFINE r == [msg |-> m, at |-> "body", now |-> clock]
  <2>1. r \in Serving /\ r.msg = m /\ r.at = "body" /\ r.now = clock
    BY DEF Serving, ClockType
  <2>2. serving' = [serving EXCEPT ![h] = r]
    BY DEF Arrive
  <2>3. clock <= m.ts + Drift /\ m.ts <= clock + Drift
    BY DEF Arrive
  <2> HIDE DEF r
  <2>4. ServingType'
    BY <2>1, <2>2 DEF ServingType
  <2>5. InWindow'
    BY <1>1, <2>1, <2>2, <2>3 DEF InWindow, ServingType, ClockType
  <2>6. QED
    BY <2>4, <2>5
<1>3. QED
  BY <1>1, <1>2 DEF ClockType, StoreType, HistoryType, SeenIsOrdered,
     SeenAccepted, Covered, RefusedOnlyIfAccepted, Apart

LEMMA VerifyKeeps ==
  ASSUME NonceInv, NEW h \in Handler, Verify(h)
  PROVE  NonceInv'
<1> USE DEF NonceInv
<1>1. UNCHANGED <<clock, seen, order, accepted, refused>>
  BY DEF Verify, storeVars
<1>2. ServingType' /\ InWindow'
  <2>1. CASE serving' = [serving EXCEPT ![h] = Idle]
    BY <1>1, <2>1, IdleServes DEF ServingType, InWindow
  <2>2. CASE /\ serving[h].msg.genuine
             /\ serving' = [serving EXCEPT ![h] = [serving[h] EXCEPT !.at = "nonce"]]
    <3> DEFINE r == [serving[h] EXCEPT !.at = "nonce"]
    <3>1. r \in Serving /\ r.msg = serving[h].msg /\ r.now = serving[h].now
      BY DEF Serving, ServingType
    <3>2. serving[h].at # "idle"
      BY DEF Verify
    <3> HIDE DEF r
    <3>3. ServingType'
      BY <2>2, <3>1 DEF r, ServingType
    <3>4. serving' = [serving EXCEPT ![h] = r]
      BY <2>2 DEF r
    <3>5. InWindow'
      BY <1>1, <2>2, <3>1, <3>2, <3>4 DEF InWindow, ServingType
    <3>6. QED
      BY <3>3, <3>5
  <2>3. QED
    BY <2>1, <2>2 DEF Verify
<1>3. QED
  BY <1>1, <1>2 DEF ClockType, StoreType, HistoryType, SeenIsOrdered,
     SeenAccepted, Covered, RefusedOnlyIfAccepted, Apart

LEMMA HistoryEntries ==
  ASSUME HistoryType, NEW i \in DOMAIN accepted
  PROVE  accepted[i].now \in Nat /\ accepted[i].on \in Nat
<1>1. accepted[i] \in Accepted
  BY DEF HistoryType
<1>2. QED
  BY <1>1 DEF Accepted

LEMMA DecideKeeps ==
  ASSUME NonceInv, NEW h \in Handler, Decide(h)
  PROVE  NonceInv'
<1> DEFINE r == serving[h]
           key == NonceKey(r.msg)
           a == [key |-> key, ts |-> r.msg.ts, now |-> r.now, on |-> clock]
<1>1. /\ r.at = "nonce" /\ r.msg \in Message /\ r.now \in Nat /\ r.now <= clock
      /\ r.msg.ts \in Nat /\ r.msg.ts <= r.now + Drift /\ r.msg.genuine
      /\ clock \in Nat /\ Drift \in Nat
  BY RequestAssumption DEF NonceInv, Decide, InWindow, ServingType, Serving, ClockType
<1>2. key \in NonceKeys /\ key[2] = r.msg.ts
  BY <1>1 DEF NonceKeys, NonceKey
<1>3. /\ Remember(key, r.now) /\ UNCHANGED clock
      /\ serving' = [serving EXCEPT ![h] = Idle]
  BY DEF Decide
<1>4. CASE Replayed(key, r.now)
  <2>1. refused' = refused \cup {key} /\ accepted' = accepted
    BY <1>4 DEF Decide
  <2> HIDE DEF key, r
  <2>2. /\ StoreType' /\ SeenIsOrdered'
        /\ \A k \in DOMAIN seen : k # key =>
             \/ k \in DOMAIN seen' /\ seen'[k] = seen[k]
             \/ seen[k] <= r.now
        /\ DOMAIN seen' \subseteq DOMAIN seen \cup {key}
        /\ key \in DOMAIN seen'
    BY <1>1, <1>2, <1>3, Remembers DEF NonceInv
  <2>3. key \in DOMAIN seen /\ seen'[key] = seen[key]
    BY <1>1, <1>2, <1>3, <1>4, Remembers DEF NonceInv
  <2>4. ClockType' /\ HistoryType' /\ ServingType' /\ InWindow'
    BY <1>3, <2>1, IdleServes
       DEF NonceInv, ClockType, HistoryType, ServingType, InWindow
  <2>5. SeenAccepted' /\ RefusedOnlyIfAccepted' /\ Apart'
    BY <2>1, <2>2, <2>3
       DEF NonceInv, SeenAccepted, RefusedOnlyIfAccepted, Apart
  <2>6. Covered'
    <3> SUFFICES ASSUME NEW i \in DOMAIN accepted, ~(clock >= accepted[i].now + 2 * Drift)
                 PROVE  /\ accepted[i].key \in DOMAIN seen'
                        /\ seen'[accepted[i].key] >= accepted[i].now + 2 * Drift
      BY <1>3, <2>1 DEF Covered
    <3>1. /\ accepted[i].key \in DOMAIN seen
          /\ seen[accepted[i].key] >= accepted[i].now + 2 * Drift
      BY DEF NonceInv, Covered
    <3>2. accepted[i].now \in Nat /\ seen[accepted[i].key] \in Nat
      BY <3>1, HistoryEntries DEF NonceInv, StoreType
    <3>3. QED
      BY <1>1, <2>2, <2>3, <3>1, <3>2
  <2>7. QED
    BY <2>2, <2>4, <2>5, <2>6 DEF NonceInv
<1>5. CASE ~Replayed(key, r.now)
  <2>1. refused' = refused /\ accepted' = Append(accepted, a)
    BY <1>1, <1>5 DEF Decide
  <2> DEFINE last == Len(accepted) + 1
  <2>2. /\ StoreType' /\ SeenIsOrdered'
        /\ \A k \in DOMAIN seen : k # key =>
             \/ k \in DOMAIN seen' /\ seen'[k] = seen[k]
             \/ seen[k] <= r.now
        /\ DOMAIN seen' \subseteq DOMAIN seen \cup {key}
        /\ key \in DOMAIN seen'
    BY <1>1, <1>2, <1>3, Remembers DEF NonceInv
  <2>3. seen'[key] = r.now + 2 * Drift /\ (key \in DOMAIN seen => seen[key] <= r.now)
    BY <1>1, <1>2, <1>3, <1>5, Remembers DEF NonceInv
  <2>4. a \in Accepted /\ a.key = key /\ a.ts = r.msg.ts /\ a.now = r.now /\ a.on = clock
    BY <1>1, <1>2 DEF Accepted
  <2> HIDE DEF a, key, r
  <2>5. /\ accepted' \in Seq(Accepted) /\ last \in Nat
        /\ DOMAIN accepted' = 1 .. last /\ DOMAIN accepted = 1 .. last - 1
        /\ accepted'[last] = a
        /\ \A i \in 1 .. last - 1 : accepted'[i] = accepted[i]
    BY <2>1, <2>4 DEF NonceInv, HistoryType
  <2> HIDE DEF last
  <2>6. \A i \in DOMAIN accepted : accepted[i].now \in Nat /\ accepted[i].on \in Nat
    BY HistoryEntries DEF NonceInv
  <2>7. ClockType' /\ ServingType' /\ InWindow'
    BY <1>3, IdleServes DEF NonceInv, ClockType, ServingType, InWindow
  <2>8. HistoryType'
    BY <1>1, <1>2, <2>4, <2>5 DEF NonceInv, HistoryType
  <2>9. SeenAccepted'
    <3> SUFFICES ASSUME NEW k \in DOMAIN seen'
                 PROVE  \E i \in 1 .. last : accepted'[i].key = k
      BY <2>5 DEF SeenAccepted
    <3>1. CASE k = key
      <4>1. last \in 1 .. last /\ accepted'[last].key = k
        BY <2>4, <2>5, <3>1 DEF last, NonceInv, HistoryType
      <4>2. QED
        BY <4>1
    <3>2. CASE k # key
      <4>1. PICK i \in 1 .. last - 1 : accepted[i].key = k
        BY <2>2, <2>5, <3>2 DEF NonceInv, SeenAccepted
      <4>2. i \in 1 .. last /\ accepted'[i] = accepted[i]
        BY <2>5
      <4>3. QED
        BY <4>1, <4>2
    <3>3. QED
      BY <3>1, <3>2
  <2>10. RefusedOnlyIfAccepted'
    BY <2>1, <2>5 DEF NonceInv, RefusedOnlyIfAccepted
  <2>11. Covered'
    <3> SUFFICES ASSUME NEW i \in 1 .. last,
                        ~(clock >= accepted'[i].now + 2 * Drift)
                 PROVE  /\ accepted'[i].key \in DOMAIN seen'
                        /\ seen'[accepted'[i].key] >= accepted'[i].now + 2 * Drift
      BY <1>3, <2>5 DEF Covered
    <3>1. CASE i = last
      BY <1>1, <2>2, <2>3, <2>4, <2>5, <3>1
    <3>2. CASE i # last
      <4>1. i \in DOMAIN accepted /\ accepted'[i] = accepted[i]
        BY <2>5, <3>2
      <4>2. /\ accepted[i].key \in DOMAIN seen
            /\ seen[accepted[i].key] >= accepted[i].now + 2 * Drift
        BY <4>1 DEF NonceInv, Covered
      <4>3. accepted[i].now \in Nat /\ seen[accepted[i].key] \in Nat
        BY <2>6, <4>1, <4>2 DEF NonceInv, StoreType
      <4>4. accepted[i].key # key
        BY <1>1, <2>3, <4>1, <4>2, <4>3
      <4>5. QED
        BY <1>1, <2>2, <4>1, <4>2, <4>3, <4>4
    <3>3. QED
      BY <3>1, <3>2
  <2>12. Apart'
    <3> SUFFICES ASSUME NEW i \in 1 .. last, NEW j \in 1 .. last, i < j,
                        accepted'[i].key = accepted'[j].key
                 PROVE  accepted'[j].on >= accepted'[i].now + 2 * Drift
      BY <2>5 DEF Apart
    <3>1. i \in DOMAIN accepted /\ accepted'[i] = accepted[i]
      BY <2>5
    <3>2. CASE j # last
      BY <2>5, <3>1, <3>2 DEF NonceInv, Apart
    <3>3. CASE j = last
      <4>1. accepted[i].key = key
        BY <2>4, <2>5, <3>1, <3>3
      <4>2. CASE clock >= accepted[i].now + 2 * Drift
        BY <2>4, <2>5, <3>3, <4>1, <4>2
      <4>3. CASE ~(clock >= accepted[i].now + 2 * Drift)
        <5>1. key \in DOMAIN seen /\ seen[key] >= accepted[i].now + 2 * Drift
          BY <3>1, <4>1, <4>3 DEF NonceInv, Covered
        <5>2. seen[key] \in Nat /\ accepted[i].now \in Nat
          BY <2>6, <3>1, <5>1 DEF NonceInv, StoreType
        <5>3. QED
          BY <1>1, <2>3, <4>3, <5>1, <5>2
      <4>4. QED
        BY <4>2, <4>3
    <3>4. QED
      BY <3>2, <3>3
  <2>13. QED
    BY <2>2, <2>7, <2>8, <2>9, <2>10, <2>11, <2>12 DEF NonceInv
<1>6. QED
  BY <1>4, <1>5

LEMMA TickKeeps ==
  ASSUME NonceInv, Tick
  PROVE  NonceInv'
<1> USE DEF NonceInv
<1>1. /\ UNCHANGED <<serving, seen, order, accepted, refused>>
      /\ clock \in Nat /\ clock' = clock + 1 /\ Drift \in Nat
  BY RequestAssumption DEF Tick, storeVars, ClockType
<1>2. InWindow'
  BY <1>1 DEF InWindow, ServingType, Serving
<1>3. Covered'
  BY <1>1, HistoryEntries DEF Covered
<1>4. QED
  BY <1>1, <1>2, <1>3 DEF ClockType, ServingType, StoreType, HistoryType,
     SeenIsOrdered, SeenAccepted, RefusedOnlyIfAccepted, Apart

\* A process starts with an empty nonce store.
FreshStore ==
  /\ serving = [h \in Handler |-> Idle] /\ seen = [k \in {} |-> 0]
  /\ order = << >> /\ accepted = << >> /\ refused = {} /\ clock \in Nat

LEMMA FreshStoreSound == FreshStore => NonceInv
<1> SUFFICES ASSUME FreshStore PROVE NonceInv
  OBVIOUS
<1> USE DEF FreshStore
<1>1. DOMAIN seen = {} /\ DOMAIN order = {} /\ DOMAIN accepted = {}
  OBVIOUS
<1>2. ClockType /\ ServingType /\ InWindow
  BY IdleServes DEF ClockType, ServingType, InWindow
<1>3. StoreType /\ HistoryType
  BY <1>1 DEF StoreType, HistoryType
<1>4. QED
  BY <1>1, <1>2, <1>3 DEF NonceInv, SeenIsOrdered, SeenAccepted, Covered,
     RefusedOnlyIfAccepted, Apart

LEMMA NonceInvStep == NonceInv /\ [RequestNext]_requestVars => NonceInv'
<1> SUFFICES ASSUME NonceInv, [RequestNext]_requestVars PROVE NonceInv'
  OBVIOUS
<1>1. CASE Restart
  <2>1. FreshStore'
    BY <1>1 DEF Restart, FreshStore, NonceInv, ClockType
  <2>2. QED
    BY <2>1, FreshStoreSound, PTL
<1>2. CASE UNCHANGED requestVars
  BY <1>2 DEF requestVars, NonceInv, ClockType, ServingType, StoreType,
     HistoryType, InWindow, SeenIsOrdered, SeenAccepted, Covered,
     RefusedOnlyIfAccepted, Apart
<1>3. QED
  BY <1>1, <1>2, ArriveKeeps, VerifyKeeps, DecideKeeps, TickKeeps DEF RequestNext

\* Whatever requests arrive, however long their bodies take and in whatever
\* order their handlers reach the nonce store, one process accepts a request at
\* most once while its timestamp is valid - but for what was read at the first
\* instant of that time, which is accepted again at the last -, refuses as
\* replayed only what it has accepted, and can evict everything that it
\* remembers (authenticateRequest, nonceStore.Remember): the time to live is
\* twice the drift, and a handler's instant is never ahead of the clock.
THEOREM NoncesAlwaysSound == RequestSpec => []NoncesSound
<1>1. RequestInit => NonceInv
  BY FreshStoreSound DEF RequestInit, FreshStore
<1>2. ASSUME NonceInv
      PROVE  NoncesSound
  <2>1. AcceptedOnceInWindow
    <3> SUFFICES ASSUME NEW i \in DOMAIN accepted, NEW j \in DOMAIN accepted, i < j,
                        accepted[i].key = accepted[j].key
                 PROVE  \/ accepted[j].on > accepted[j].ts + Drift
                        \/ /\ accepted[j].on = accepted[j].ts + Drift
                           /\ accepted[i].now + Drift = accepted[i].ts
      BY DEF AcceptedOnceInWindow
    <3>1. /\ accepted[i].ts \in Nat /\ accepted[i].now \in Nat
          /\ accepted[j].on \in Nat /\ Drift \in Nat
      <4>1. accepted[i] \in Accepted /\ accepted[j] \in Accepted
        BY <1>2 DEF NonceInv, HistoryType
      <4>2. QED
        BY <4>1, RequestAssumption DEF Accepted
    <3>2. accepted[j].ts = accepted[i].ts /\ accepted[i].ts <= accepted[i].now + Drift
      BY <1>2 DEF NonceInv, HistoryType
    <3>3. accepted[j].on >= accepted[i].now + 2 * Drift
      BY <1>2 DEF NonceInv, Apart
    <3>4. QED
      BY <3>1, <3>2, <3>3
  <2>2. QED
    BY <1>2, <2>1 DEF NonceInv, NoncesSound
<1>3. QED
  BY <1>1, <1>2, NonceInvStep, PTL DEF RequestSpec
=============================================================================
