----------------------------- MODULE StateStore -----------------------------
(***************************************************************************)
(* state.json, validators.json and wallets.yml as the commands use them:   *)
(* read, computed upon, truncated and written again without a lock, by     *)
(* invocations in several processes or requests of the RPC server.  The    *)
(* config map that holds a copy of state.json is replaced in one call.     *)
(***************************************************************************)
EXTENDS StoreContents

CONSTANT MaxKills   \* bound: invocations killed, or stopped by a failing call

ASSUME MaxKillsAssumption == MaxKills \in Nat

VARIABLES job,        \* what each invocation does
          pc,         \* the step it is at, or how it has ended
          form,       \* each file: "missing", "empty", "mixed" or "whole"
          data,       \* what it holds when whole, and held before it was opened
          looked,     \* the deposit data an invocation works from
          base,       \* the content its result builds on
          got,        \* the form in which it found the file it copies
          adrift,     \* writers whose open file has been renamed away
          files,      \* the keys in the operator's file of a `keys use`
          secret,     \* the k8s secret with the keystores, and who wrote it
          stale,      \* those who have read what has changed since
          disturbed,  \* two invocations have met on a file, or one died writing
          kills

vars == <<job, pc, form, data, looked, base, got, adrift, files, secret, stale,
          disturbed, kills>>

(***************************************************************************)
(* The steps of a command, between which others may run, in their order:   *)
(* `reread` is the read of JsonDb.update(), all of whose keys the result   *)
(* overrides.                                                              *)
(***************************************************************************)
StepsOf == [update    |-> {"read", "open", "write"},
            generate  |-> {"look", "read", "reread", "open", "write"},
            use       |-> {"look", "hand", "read", "reread", "open", "write"},
            chainKeys |-> {"upload", "read", "reread", "open", "write"},
            create    |-> {"check", "open", "write"},
            save      |-> {"read", "push"},
            restore   |-> {"read", "rename", "open", "write"}]

First == [update |-> "read", generate |-> "look", use |-> "look", chainKeys |-> "upload",
          create |-> "check", save |-> "read", restore |-> "read"]

AfterRead == [update |-> "open", generate |-> "reread", use |-> "reread",
              chainKeys |-> "reread", save |-> "push", restore |-> "rename"]

Endings == {"done", "declined", "failed", "killed"}

\* The file a command writes, and the one it works from.
Target == [update |-> "state", generate |-> "validators", use |-> "validators",
           chainKeys |-> "validators", create |-> "wallets", save |-> "configMap",
           restore |-> "state"]

Source == [Target EXCEPT !.save = "state", !.restore = "configMap"]

Reads(i) == Source[job[i].op]
Writes(i) == Target[job[i].op]

\* Between its first change to the file and its last.
Writing(i) == \/ pc[i] = "write"
              \/ job[i].op = "restore" /\ pc[i] = "open"

\* It has begun to read what it works from and has not ended.
HasRead(i) == /\ pc[i] \notin Endings
              /\ pc[i] # First[job[i].op]
              /\ ~(job[i].op = "chainKeys" /\ pc[i] = "read")

Whoever(f) == {i \in Invocations : HasRead(i) /\ Reads(i) = f}
Others(i, f) == {k \in Invocations \ {i} : Writing(k) /\ Writes(k) = f}

\* JsonDb.read(): a missing file reads as {}, anything but JSON throws.
Parses(f) == form[f] \in {"whole", "missing"}
Content(f) == IF form[f] = "whole" THEN data[f] ELSE Blank[f]

-----------------------------------------------------------------------------
Init == /\ job \in [Invocations -> Jobs]
        /\ pc = [i \in Invocations |-> First[job[i].op]]
        /\ form = [f \in Files |-> "missing"]
        /\ data = Blank
        /\ looked = [i \in Invocations |-> <<>>]
        /\ base = [i \in Invocations |-> Blank[Reads(i)]]
        /\ got = [i \in Invocations |-> "missing"]
        /\ adrift = {}
        /\ files = [i \in Invocations |-> {}]
        /\ secret = [by |-> Nobody, keystores |-> <<>>]
        /\ stale = {}
        /\ disturbed = FALSE
        /\ kills = 0

GoesTo(i, step) == pc' = [pc EXCEPT ![i] = step]

Untouched == UNCHANGED <<job, form, data, adrift, secret, stale, disturbed, kills>>

(***************************************************************************)
(* state.getDepositData().  `keys use` asserts that there are unused keys. *)
(***************************************************************************)
HasWork(i) == job[i].op = "use" => Unused(Content("validators").deposits) # {}

Look(i) == /\ pc[i] = "look"
           /\ IF Parses("validators") /\ HasWork(i)
                 THEN /\ looked' = [looked EXCEPT ![i] = Content("validators").deposits]
                      /\ GoesTo(i, IF job[i].op = "use" THEN "hand" ELSE "read")
                 ELSE GoesTo(i, "failed") /\ UNCHANGED looked
           /\ UNCHANGED <<base, got, files>>
           /\ Untouched

\* The keys go to validators/dump/<name>.json and generated-keys/<name>.json.
Hand(i) == /\ pc[i] = "hand"
           /\ files' = [files EXCEPT ![i] = Unused(looked[i])]
           /\ GoesTo(i, "read")
           /\ UNCHANGED <<looked, base, got>>
           /\ Untouched

(***************************************************************************)
(* chain generate-validator-keys replaces the secret: entry keystore-<k>   *)
(* is the keystore at place k + 1, whatever index it was derived from.     *)
(***************************************************************************)
Upload(i) == /\ pc[i] = "upload"
             /\ secret' = [by |-> i, keystores |-> KeysOf(NewKeys(i, job[i], 0))]
             /\ GoesTo(i, "read")
             /\ UNCHANGED <<job, form, data, looked, base, got, adrift, files, stale,
                            disturbed, kills>>

(***************************************************************************)
(* What the result is computed from.  save copies the bytes of state.json  *)
(* and asks only that it is there; restore wants a non-empty config map.   *)
(***************************************************************************)
Acceptable(i) == CASE job[i].op = "save"    -> form["state"] # "missing"
                   [] job[i].op = "restore" -> form["configMap"] \notin {"missing", "empty"}
                   [] OTHER                 -> Parses(Reads(i))

Read(i) == /\ pc[i] = "read"
           /\ IF Acceptable(i)
                 THEN /\ base' = [base EXCEPT ![i] = Content(Reads(i))]
                      /\ got' = [got EXCEPT ![i] = form[Reads(i)]]
                      /\ GoesTo(i, AfterRead[job[i].op])
                 ELSE GoesTo(i, "failed") /\ UNCHANGED <<base, got>>
           /\ UNCHANGED <<looked, files>>
           /\ Untouched

Reread(i) == /\ pc[i] = "reread"
             /\ IF Parses("validators") THEN GoesTo(i, "open") ELSE GoesTo(i, "failed")
             /\ UNCHANGED <<looked, base, got, files>>
             /\ Untouched

\* readWalletFile() takes a file it cannot parse for no file.
Check(i) == /\ pc[i] = "check"
            /\ IF form["wallets"] = "whole" /\ ~job[i].force
                  THEN GoesTo(i, "declined")
                  ELSE GoesTo(i, "open")
            /\ UNCHANGED <<looked, base, got, files>>
            /\ Untouched

(***************************************************************************)
(* state-sync-from-k8s-configmap moves state.json away.  Whoever has it    *)
(* open goes on writing to the backup.                                     *)
(***************************************************************************)
Rename(i) ==
    /\ pc[i] = "rename"
    /\ GoesTo(i, "open")
    /\ form' = [form EXCEPT !["state"] = "missing"]
    /\ adrift' = adrift \cup {k \in Others(i, "state") : pc[k] = "write"}
    /\ stale' = stale \cup (Whoever("state") \ {i})
    /\ disturbed' = (disturbed \/ Others(i, "state") # {})
    /\ UNCHANGED <<job, data, looked, base, got, files, secret, kills>>

\* Mutation: the write is not awaited, and the process ends before it.
OpenUnawaited(i) ==
    /\ pc[i] = "open"
    /\ GoesTo(i, "done")
    /\ form' = [form EXCEPT ![Writes(i)] = "empty"]
    /\ stale' = stale \cup (Whoever(Writes(i)) \ {i})
    /\ disturbed' = (disturbed \/ i \in stale \/ Others(i, Writes(i)) # {})
    /\ UNCHANGED <<job, data, looked, base, got, adrift, files, secret, kills>>

\* fs.writeFile() opens the file, which empties it, ...
Open(i) == /\ pc[i] = "open"
           /\ GoesTo(i, "write")
           /\ form' = [form EXCEPT ![Writes(i)] = "empty"]
           /\ stale' = stale \cup (Whoever(Writes(i)) \ {i})
           /\ disturbed' = (disturbed \/ i \in stale \/ Others(i, Writes(i)) # {})
           /\ UNCHANGED <<job, data, looked, base, got, adrift, files, secret, kills>>

\* Mutation: the group is written without the rest of state.json.
ResultWithoutMerge(i) ==
    LET j == job[i] IN
    CASE j.op = "update" -> [Blank.state EXCEPT ![j.group] = i]
      [] j.op \in {"generate", "chainKeys"} -> Extended(base[i], NewKeys(i, j, Len(looked[i])))
      [] j.op = "use" -> [deposits  |-> MarkedUsed(looked[i]),
                          keystores |-> base[i].keystores]
      [] j.op = "create" -> i
      [] OTHER -> base[i]

\* Mutation: the deposit data is written without the keystores.
ResultWithoutKeystores(i) ==
    LET j == job[i] IN
    CASE j.op = "update" -> [base[i] EXCEPT ![j.group] = i]
      [] j.op \in {"generate", "chainKeys"} -> Extended(base[i], NewKeys(i, j, Len(looked[i])))
      [] j.op = "use" -> [deposits |-> MarkedUsed(looked[i])]
      [] j.op = "create" -> i
      [] OTHER -> base[i]

Result(i) ==
    LET j == job[i] IN
    CASE j.op = "update" -> [base[i] EXCEPT ![j.group] = i]
      [] j.op \in {"generate", "chainKeys"} -> Extended(base[i], NewKeys(i, j, Len(looked[i])))
      [] j.op = "use" -> [deposits  |-> MarkedUsed(looked[i]),
                          keystores |-> base[i].keystores]
      [] j.op = "create" -> i
      [] OTHER -> base[i]

\* Over what another writer has put there meanwhile, a shorter text leaves a tail.
Outcomes(i) ==
    IF form[Writes(i)] = "empty"
       THEN {IF job[i].op = "restore" THEN got[i] ELSE "whole"}
       ELSE {"whole", "mixed"}

\* ... and then writes it from the start.
Write(i) ==
    /\ pc[i] = "write"
    /\ GoesTo(i, "done")
    /\ IF i \in adrift
          THEN UNCHANGED <<form, data>>
          ELSE /\ \E outcome \in Outcomes(i) : form' = [form EXCEPT ![Writes(i)] = outcome]
               /\ data' = [data EXCEPT ![Writes(i)] = Result(i)]
    /\ stale' = stale \cup (Whoever(Writes(i)) \ {i})
    /\ UNCHANGED <<job, looked, base, got, adrift, files, secret, disturbed, kills>>

\* The config map is replaced, or created, with whatever was read.
Push(i) ==
    /\ pc[i] = "push"
    /\ GoesTo(i, "done")
    /\ form' = [form EXCEPT !["configMap"] = got[i]]
    /\ data' = [data EXCEPT !["configMap"] = Result(i)]
    /\ stale' = stale \cup (Whoever("configMap") \ {i})
    /\ disturbed' = (disturbed \/ i \in stale \/ got[i] # "whole")
    /\ UNCHANGED <<job, looked, base, got, adrift, files, secret, kills>>

\* Killed, or thrown out by a failing call of a step that is not a read.
Kill(i) == /\ pc[i] \notin Endings
           /\ kills < MaxKills
           /\ kills' = kills + 1
           /\ GoesTo(i, "killed")
           /\ disturbed' = (disturbed \/ Writing(i))
           /\ UNCHANGED <<job, form, data, looked, base, got, adrift, files, secret, stale>>

AllEnded == /\ \A i \in Invocations : pc[i] \in Endings
            /\ UNCHANGED vars

Next == \/ \E i \in Invocations : \/ Look(i) \/ Hand(i) \/ Upload(i) \/ Read(i)
                                  \/ Reread(i) \/ Check(i) \/ Rename(i) \/ Open(i)
                                  \/ Write(i) \/ Push(i) \/ Kill(i)
        \/ AllEnded

Spec == Init /\ [][Next]_vars

-----------------------------------------------------------------------------
Forms == {"missing", "empty", "mixed", "whole"}

\* Every record is of its kind, and everybody at a step of its own command.
TypeOK == /\ job \in [Invocations -> Jobs]
          /\ DOMAIN pc = Invocations
          /\ \A i \in Invocations : pc[i] \in StepsOf[job[i].op] \cup Endings
          /\ form \in [Files -> Forms]
          /\ data \in Contents
          /\ looked \in [Invocations -> Seq(Entries)]
          /\ DOMAIN base = Invocations
          /\ \A i \in Invocations : base[i] \in Kind[Reads(i)]
          /\ got \in [Invocations -> Forms]
          /\ adrift \subseteq Invocations
          /\ files \in [Invocations -> SUBSET Keys]
          /\ secret \in [by : Authors, keystores : Seq(Keys)]
          /\ stale \subseteq Invocations
          /\ disturbed \in BOOLEAN
          /\ kills \in 0..MaxKills

\* A file that JSON.parse refuses is one that somebody is writing just now, unless
\* two commands have met on a file or one has died over it: every later command
\* of the network would stop at such a file.
AtRestWhole ==
    ~disturbed => \A f \in Files : form[f] \in {"empty", "mixed"} =>
                      \E i \in Invocations : pc[i] = "write" /\ Writes(i) = f

(***************************************************************************)
(* The abstract store: an invocation has taken effect when it is done, and *)
(* the keys of a finished `keys use` are given away.                       *)
(***************************************************************************)
Ended == {i \in Invocations : pc[i] = "done"}
Given == [i \in Invocations |-> IF job[i].op = "use" /\ i \in Ended THEN files[i] ELSE {}]

Serial == INSTANCE SerialStore WITH data <- data, given <- Given, ended <- Ended

\* As long as nobody overtakes anybody on a file and nobody dies writing one,
\* each command is one step of SerialStore: what it writes is what it would have
\* written had it run at that moment all by itself.
SerialUnlessDisturbed ==
    Serial!Init /\ [][disturbed' \/ Serial!Next]_<<data, Given, Ended>>

\* The finished commands that were given the phrase of a key and a range it is in.
AskedFor(key) ==
    {i \in Invocations :
        /\ pc[i] = "done" /\ job[i].op = "chainKeys" /\ job[i].mnemonic = key.mnemonic
        /\ key.index \in job[i].from..job[i].from + job[i].count - 1}

\* Two commands were told to derive the key: by --mnemonic both of them, or one by the
\* phrase that is built into `validator keys generate`.
AskedTwice(key) ==
    \/ \E i, k \in AskedFor(key) : i # k
    \/ key.mnemonic = Devnet /\ AskedFor(key) # {}

\* The deposit data and the keystores stay in step, and no key is recorded twice unless
\* two commands were told to derive it: the index of the first new key, read at the
\* start, is still the number of keys when they are appended, and a mnemonic that is made
\* up is made up once.
EachKeyOnce ==
    ~disturbed =>
        LET ledger == data.validators IN
        /\ ledger.keystores = KeysOf(ledger.deposits)
        /\ \A p, q \in DOMAIN ledger.keystores :
               p # q /\ ledger.keystores[p] = ledger.keystores[q] => AskedTwice(ledger.keystores[p])

\* Two finished `lido-core keys use` never share a key, but one that two commands were
\* told to derive: what `keys use` hands out it marks, whoever else generates or uses keys.
KeysGoToOneOperator ==
    ~disturbed =>
        \A i, k \in Invocations : i # k => \A key \in Given[i] \cap Given[k] : AskedTwice(key)

\* Once chain generate-validator-keys is done, the keys its secret makes the
\* cluster validate with are known to validators.json.
ServedKeysAreRecorded ==
    ~disturbed /\ secret.by \in Ended =>
        \A p \in DOMAIN secret.keystores :
            \E q \in DOMAIN data.validators.keystores :
                data.validators.keystores[q] = secret.keystores[p]
=============================================================================
