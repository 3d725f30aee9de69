-------------------------- MODULE StateStoreProofs --------------------------
(***************************************************************************)
(* Proofs about StateStore, for any number of invocations, any jobs and    *)
(* any number of kills: type correctness, that commands which do not meet  *)
(* on a file implement SerialStore, and what follows for validator keys.   *)
(***************************************************************************)
EXTENDS StateStore, SequenceTheorems, TLAPS

-----------------------------------------------------------------------------
(***************************************************************************)
(* The tables, line by line: which steps a command has, what it reads and  *)
(* writes.  Only save reads or writes the config map but restore.          *)
(***************************************************************************)
LEMMA Tables ==
    /\ StepsOf["update"] = {"read", "open", "write"}
    /\ StepsOf["generate"] = {"look", "read", "reread", "open", "write"}
    /\ StepsOf["use"] = {"look", "hand", "read", "reread", "open", "write"}
    /\ StepsOf["chainKeys"] = {"upload", "read", "reread", "open", "write"}
    /\ StepsOf["create"] = {"check", "open", "write"}
    /\ StepsOf["save"] = {"read", "push"}
    /\ StepsOf["restore"] = {"read", "rename", "open", "write"}
    /\ First["update"] = "read" /\ First["generate"] = "look" /\ First["use"] = "look"
    /\ First["chainKeys"] = "upload" /\ First["create"] = "check"
    /\ First["save"] = "read" /\ First["restore"] = "read"
    /\ AfterRead["update"] = "open" /\ AfterRead["generate"] = "reread"
    /\ AfterRead["use"] = "reread" /\ AfterRead["chainKeys"] = "reread"
    /\ AfterRead["save"] = "push" /\ AfterRead["restore"] = "rename"
    /\ Target["update"] = "state" /\ Target["generate"] = "validators"
    /\ Target["use"] = "validators" /\ Target["chainKeys"] = "validators"
    /\ Target["create"] = "wallets" /\ Target["save"] = "configMap"
    /\ Target["restore"] = "state"
    /\ Source["update"] = "state" /\ Source["generate"] = "validators"
    /\ Source["use"] = "validators" /\ Source["chainKeys"] = "validators"
    /\ Source["create"] = "wallets" /\ Source["save"] = "state"
    /\ Source["restore"] = "configMap"
  BY DEF StepsOf, First, AfterRead, Target, Source

LEMMA Kinds ==
    /\ Kind["state"] = [Groups -> Authors]
    /\ Kind["validators"] = Ledgers
    /\ Kind["wallets"] = Authors
    /\ Kind["configMap"] = [Groups -> Authors]
  BY DEF Kind

\* What a job is, with its parameters.
LEMMA JobFacts ==
    ASSUME NEW j \in Jobs
    PROVE  /\ j.op \in Ops
           /\ j.op = "update" => j.group \in Groups
           /\ j.op \in {"generate", "chainKeys"} => j.count \in Nat \ {0} /\ j.wc \in Credentials
           /\ j.op = "chainKeys" => j.from \in Nat /\ j.mnemonic \in Phrases \cup {Random}
           /\ j.op = "create" => j.force \in BOOLEAN
  BY JobsAssumption

-----------------------------------------------------------------------------
(***************************************************************************)
(* The ledger of validator keys.                                           *)
(***************************************************************************)
LEMMA DerivedType ==
    ASSUME NEW m \in Invocations \cup Phrases \cup {Devnet}, NEW from \in Nat, NEW count \in Nat,
           NEW wc \in Credentials
    PROVE  /\ Derived(m, from, count, wc) \in Seq(Entries)
           /\ DOMAIN Derived(m, from, count, wc) = 1..count
<1>1. \A k \in 1..count : [key |-> [mnemonic |-> m, index |-> from + k - 1],
                           wc |-> wc, used |-> FALSE] \in Entries
  BY DEF Entries, Keys
<1>2. Derived(m, from, count, wc) \in [1..count -> Entries]
  BY <1>1 DEF Derived
<1>3. Derived(m, from, count, wc) \in Seq(Entries)
  BY <1>2, SeqDef
<1> QED
  BY <1>2, <1>3 DEF Derived

LEMMA NewKeysType ==
    ASSUME NEW i \in Invocations, NEW j \in Jobs, NEW known \in Nat,
           j.op \in {"generate", "chainKeys"}
    PROVE  /\ NewKeys(i, j, known) \in Seq(Entries)
           /\ DOMAIN NewKeys(i, j, known) = 1..j.count
<1>1. j.count \in Nat /\ j.wc \in Credentials
  BY JobFacts
<1>2. PICK m \in Invocations \cup Phrases \cup {Devnet}, from \in Nat :
          NewKeys(i, j, known) = Derived(m, from, j.count, j.wc)
  BY JobFacts DEF NewKeys, Mnemonic
<1>3. \A count \in Nat, wc \in Credentials :
          /\ Derived(m, from, count, wc) \in Seq(Entries)
          /\ DOMAIN Derived(m, from, count, wc) = 1..count
  BY DerivedType
<1> QED
  BY <1>1, <1>2, <1>3

LEMMA KeysOfType ==
    ASSUME NEW entries \in Seq(Entries)
    PROVE  /\ KeysOf(entries) \in Seq(Keys)
           /\ Len(KeysOf(entries)) = Len(entries)
           /\ \A k \in 1..Len(entries) : KeysOf(entries)[k] = entries[k].key
<1>1. \A k \in 1..Len(entries) : entries[k] \in Entries
  OBVIOUS
<1>2. \A k \in 1..Len(entries) : entries[k].key \in Keys
  BY <1>1 DEF Entries
<1>3. KeysOf(entries) \in [1..Len(entries) -> Keys]
  BY <1>2 DEF KeysOf
<1> QED
  BY <1>3, SeqDef DEF KeysOf

LEMMA ExtendedType ==
    ASSUME NEW ledger \in Ledgers, NEW entries \in Seq(Entries)
    PROVE  Extended(ledger, entries) \in Ledgers
  BY KeysOfType, ConcatProperties DEF Extended, Ledgers

LEMMA MarkedUsedType ==
    ASSUME NEW deposits \in Seq(Entries)
    PROVE  /\ MarkedUsed(deposits) \in Seq(Entries)
           /\ DOMAIN MarkedUsed(deposits) = 1..Len(deposits)
           /\ \A p \in 1..Len(deposits) :
                 /\ MarkedUsed(deposits)[p].key = deposits[p].key
                 /\ MarkedUsed(deposits)[p].wc = deposits[p].wc
                 /\ deposits[p].used => MarkedUsed(deposits)[p].used
                 /\ deposits[p].wc = "vault" => MarkedUsed(deposits)[p].used
<1>1. \A p \in 1..Len(deposits) : deposits[p] \in Entries
  OBVIOUS
<1>2. ASSUME NEW p \in 1..Len(deposits)
      PROVE  /\ MarkedUsed(deposits)[p] \in Entries
             /\ MarkedUsed(deposits)[p].key = deposits[p].key
             /\ MarkedUsed(deposits)[p].wc = deposits[p].wc
             /\ deposits[p].used => MarkedUsed(deposits)[p].used
             /\ deposits[p].wc = "vault" => MarkedUsed(deposits)[p].used
  <2>1. MarkedUsed(deposits)[p] = IF deposits[p].wc = "vault"
                                     THEN [deposits[p] EXCEPT !.used = TRUE]
                                     ELSE deposits[p]
    <3>1. p \in DOMAIN deposits
      OBVIOUS
    <3> QED
      BY <3>1, Zenon DEF MarkedUsed
  <2>2. CASE deposits[p].wc = "vault"
    <3>1. MarkedUsed(deposits)[p] = [deposits[p] EXCEPT !.used = TRUE]
      BY <2>1, <2>2
    <3> QED
      BY <1>1, <3>1 DEF Entries
  <2>3. CASE deposits[p].wc # "vault"
    BY <1>1, <2>1, <2>3
  <2> QED
    BY <2>2, <2>3
<1>3. DOMAIN MarkedUsed(deposits) = 1..Len(deposits)
  BY DEF MarkedUsed
<1>4. MarkedUsed(deposits) = [p \in 1..Len(deposits) |-> MarkedUsed(deposits)[p]]
  BY DEF MarkedUsed
<1>5. MarkedUsed(deposits) \in [1..Len(deposits) -> Entries]
  BY <1>2, <1>4
<1> QED
  BY <1>2, <1>3, <1>5, SeqDef

LEMMA UnusedType ==
    ASSUME NEW deposits \in Seq(Entries)
    PROVE  Unused(deposits) \in SUBSET Keys
<1>1. \A p \in DOMAIN deposits : deposits[p] \in Entries
  OBVIOUS
<1> QED
  BY <1>1 DEF Unused, Entries

LEMMA BlankType == Blank \in Contents /\ \A f \in Files : Blank[f] \in Kind[f]
<1>1. [g \in Groups |-> Nobody] \in [Groups -> Authors]
  BY DEF Authors
<1>2. [deposits |-> <<>>, keystores |-> <<>>] \in Ledgers
  BY DEF Ledgers
<1>3. Nobody \in Authors
  BY DEF Authors
<1> QED
  BY <1>1, <1>2, <1>3 DEF Blank, Contents, Kind, Files

-----------------------------------------------------------------------------
(***************************************************************************)
(* Type correctness.                                                       *)
(***************************************************************************)
LEMMA ReadsAndWrites ==
    ASSUME TypeOK, NEW i \in Invocations
    PROVE  /\ job[i] \in Jobs
           /\ job[i].op \in Ops
           /\ Reads(i) \in Files
           /\ Writes(i) \in Files
           /\ job[i].op # "save" /\ job[i].op # "restore" => Reads(i) = Writes(i)
<1>1. job[i] \in Jobs /\ job[i].op \in Ops
  BY JobFacts DEF TypeOK
<1> QED
  BY <1>1, Tables DEF Reads, Writes, Ops, Files

\* Whatever state a file is in, what is read from it is of its kind.
LEMMA ContentType ==
    ASSUME TypeOK, NEW f \in Files
    PROVE  Content(f) \in Kind[f] /\ data[f] \in Kind[f]
<1>1. data[f] \in Kind[f]
  BY DEF TypeOK, Contents, Files, Kind
<1> QED
  BY <1>1, BlankType DEF Content

\* The result of a command at its last step is of the kind of its file.
LEMMA ResultType ==
    ASSUME TypeOK, NEW i \in Invocations
    PROVE  Result(i) \in Kind[Writes(i)]
<1> DEFINE j == job[i]
<1>1. j \in Jobs /\ j.op \in Ops /\ base[i] \in Kind[Reads(i)] /\ looked[i] \in Seq(Entries)
  BY ReadsAndWrites DEF TypeOK
<1>2. CASE j.op = "update"
  <2>1. j.group \in Groups /\ base[i] \in [Groups -> Authors]
    BY <1>1, <1>2, JobFacts, Tables, Kinds DEF Reads
  <2>2. i \in Authors
    BY DEF Authors
  <2>3. Result(i) = [base[i] EXCEPT ![j.group] = i]
    BY <1>2 DEF Result
  <2> QED
    BY <1>2, <2>1, <2>2, <2>3, Tables, Kinds DEF Writes
<1>3. CASE j.op \in {"generate", "chainKeys"}
  <2>1. base[i] \in Ledgers
    BY <1>1, <1>3, Tables, Kinds DEF Reads
  <2>2. NewKeys(i, j, Len(looked[i])) \in Seq(Entries)
    BY <1>1, <1>3, NewKeysType, LenProperties
  <2>3. Result(i) = Extended(base[i], NewKeys(i, j, Len(looked[i])))
    BY <1>3 DEF Result
  <2> QED
    BY <1>3, <2>1, <2>2, <2>3, ExtendedType, Tables, Kinds DEF Writes
<1>4. CASE j.op = "use"
  <2>1. base[i] \in Ledgers
    BY <1>1, <1>4, Tables, Kinds DEF Reads
  <2>2. Result(i) = [deposits |-> MarkedUsed(looked[i]), keystores |-> base[i].keystores]
    BY <1>4 DEF Result
  <2> QED
    BY <1>1, <1>4, <2>1, <2>2, MarkedUsedType, Tables, Kinds DEF Writes, Ledgers
<1>5. CASE j.op = "create"
  BY <1>5, Tables, Kinds DEF Writes, Result, Authors
<1>6. CASE j.op \in {"save", "restore"}
  <2>1. Result(i) = base[i]
    BY <1>6 DEF Result
  <2> QED
    BY <1>1, <1>6, <2>1, Tables, Kinds DEF Writes, Reads
<1> QED
  BY <1>1, <1>2, <1>3, <1>4, <1>5, <1>6 DEF Ops

\* A file takes content of its kind.
LEMMA DataUpdate ==
    ASSUME data \in Contents, NEW f \in Files, NEW c \in Kind[f]
    PROVE  [data EXCEPT ![f] = c] \in Contents
  BY Kinds DEF Contents, Files

\* A step moves one invocation, within its command.
LEMMA PcUpdate ==
    ASSUME TypeOK, NEW i \in Invocations, NEW step \in StepsOf[job[i].op] \cup Endings,
           GoesTo(i, step), UNCHANGED job
    PROVE  /\ DOMAIN pc' = Invocations
           /\ \A k \in Invocations : pc'[k] \in StepsOf[job'[k].op] \cup Endings
  BY DEF TypeOK, GoesTo

\* Which commands have a step.
LEMMA StepOps ==
    ASSUME TypeOK, NEW i \in Invocations
    PROVE  /\ pc[i] = "look" => job[i].op \in {"generate", "use"}
           /\ pc[i] = "hand" => job[i].op = "use"
           /\ pc[i] = "upload" => job[i].op = "chainKeys"
           /\ pc[i] = "read" => job[i].op # "create"
           /\ pc[i] = "reread" => job[i].op \in {"generate", "use", "chainKeys"}
           /\ pc[i] = "check" => job[i].op = "create"
           /\ pc[i] = "rename" => job[i].op = "restore"
           /\ pc[i] \in {"open", "write"} => job[i].op # "save"
           /\ pc[i] = "push" => job[i].op = "save"
<1>1. job[i].op \in Ops /\ pc[i] \in StepsOf[job[i].op] \cup Endings
  BY ReadsAndWrites DEF TypeOK
<1> QED
  BY <1>1, Tables DEF Ops, Endings

LEMMA InitType == Init => TypeOK
<1> SUFFICES ASSUME Init PROVE TypeOK
  OBVIOUS
<1>1. \A i \in Invocations : job[i] \in Jobs /\ job[i].op \in Ops
  BY JobFacts DEF Init
<1>2. ASSUME NEW i \in Invocations
      PROVE  pc[i] \in StepsOf[job[i].op] /\ Reads(i) \in Files
  <2>1. \A op \in Ops : First[op] \in StepsOf[op] /\ Source[op] \in Files
    BY Tables DEF Ops, Files
  <2> QED
    BY <1>1, <2>1 DEF Init, Reads
<1>3. \A i \in Invocations : base[i] \in Kind[Reads(i)]
  BY <1>2, BlankType DEF Init
<1>4. data \in Contents /\ looked \in [Invocations -> Seq(Entries)]
  BY BlankType DEF Init
<1>5. secret \in [by : Authors, keystores : Seq(Keys)]
  BY DEF Init, Authors
<1>6. kills \in 0..MaxKills
  BY MaxKillsAssumption DEF Init
<1> QED
  BY <1>2, <1>3, <1>4, <1>5, <1>6 DEF Init, TypeOK, Forms

LEMMA StepType == TypeOK /\ [Next]_vars => TypeOK'
<1> SUFFICES ASSUME TypeOK, [Next]_vars PROVE TypeOK'
  OBVIOUS
<1>1. ASSUME NEW i \in Invocations, Look(i) PROVE TypeOK'
  <2>1. UNCHANGED job /\ "validators" \in Files
    BY <1>1 DEF Look, Untouched, Files
  <2>2. /\ DOMAIN pc' = Invocations
        /\ \A k \in Invocations : pc'[k] \in StepsOf[job'[k].op] \cup Endings
    <3>1. CASE GoesTo(i, IF job[i].op = "use" THEN "hand" ELSE "read")
      BY <1>1, <2>1, <3>1, StepOps, PcUpdate, Tables DEF Look
    <3>2. CASE GoesTo(i, "failed")
      BY <2>1, <3>2, PcUpdate DEF Endings
    <3> QED
      BY <1>1, <3>1, <3>2 DEF Look
  <2>3. Content("validators").deposits \in Seq(Entries)
    <3>1. Content("validators") \in Ledgers
      BY <2>1, ContentType, Kinds
    <3> QED
      BY <3>1 DEF Ledgers
  <2>4. looked' \in [Invocations -> Seq(Entries)]
    BY <1>1, <2>3 DEF Look, TypeOK
  <2> QED
    BY <1>1, <2>2, <2>4 DEF TypeOK, Look, Untouched, Reads
<1>2. ASSUME NEW i \in Invocations, Hand(i) PROVE TypeOK'
  <2>1. /\ DOMAIN pc' = Invocations
        /\ \A k \in Invocations : pc'[k] \in StepsOf[job'[k].op] \cup Endings
    BY <1>2, StepOps, PcUpdate, Tables DEF Hand, Untouched
  <2>2. files' \in [Invocations -> SUBSET Keys]
    BY <1>2, UnusedType DEF Hand, TypeOK
  <2> QED
    BY <1>2, <2>1, <2>2 DEF TypeOK, Hand, Untouched, Reads
<1>3. ASSUME NEW i \in Invocations, Upload(i) PROVE TypeOK'
  <2>1. /\ DOMAIN pc' = Invocations
        /\ \A k \in Invocations : pc'[k] \in StepsOf[job'[k].op] \cup Endings
    BY <1>3, StepOps, PcUpdate, Tables DEF Upload
  <2>2. NewKeys(i, job[i], 0) \in Seq(Entries)
    BY <1>3, StepOps, ReadsAndWrites, NewKeysType DEF Upload
  <2>3. secret' \in [by : Authors, keystores : Seq(Keys)]
    BY <1>3, <2>2, KeysOfType DEF Upload, Authors
  <2> QED
    BY <1>3, <2>1, <2>3 DEF TypeOK, Upload, Reads
<1>4. ASSUME NEW i \in Invocations, Read(i) PROVE TypeOK'
  <2>1. UNCHANGED job
    BY <1>4 DEF Read, Untouched
  <2>2. AfterRead[job[i].op] \in StepsOf[job[i].op]
    BY <1>4, StepOps, ReadsAndWrites, Tables DEF Read, Ops
  <2>3. /\ DOMAIN pc' = Invocations
        /\ \A k \in Invocations : pc'[k] \in StepsOf[job'[k].op] \cup Endings
    <3>1. CASE GoesTo(i, AfterRead[job[i].op])
      BY <2>1, <2>2, <3>1, PcUpdate
    <3>2. CASE GoesTo(i, "failed")
      BY <2>1, <3>2, PcUpdate DEF Endings
    <3> QED
      BY <1>4, <3>1, <3>2 DEF Read
  <2>4. \A k \in Invocations : base'[k] \in Kind[Reads(k)]
    <3>1. Content(Reads(i)) \in Kind[Reads(i)]
      BY ReadsAndWrites, ContentType
    <3>2. base' \in {base, [base EXCEPT ![i] = Content(Reads(i))]}
      BY <1>4 DEF Read
    <3> QED
      BY <3>1, <3>2 DEF TypeOK
  <2>5. got' \in [Invocations -> Forms]
    BY <1>4, ReadsAndWrites DEF Read, TypeOK
  <2> QED
    BY <1>4, <2>3, <2>4, <2>5 DEF TypeOK, Read, Untouched, Reads
<1>5. ASSUME NEW i \in Invocations, Reread(i) PROVE TypeOK'
  <2>1. UNCHANGED job
    BY <1>5 DEF Reread, Untouched
  <2>2. /\ DOMAIN pc' = Invocations
        /\ \A k \in Invocations : pc'[k] \in StepsOf[job'[k].op] \cup Endings
    <3>1. CASE GoesTo(i, "open")
      BY <1>5, <2>1, <3>1, StepOps, PcUpdate, Tables DEF Reread
    <3>2. CASE GoesTo(i, "failed")
      BY <2>1, <3>2, PcUpdate DEF Endings
    <3> QED
      BY <1>5, <3>1, <3>2 DEF Reread
  <2> QED
    BY <1>5, <2>2 DEF TypeOK, Reread, Untouched, Reads
<1>6. ASSUME NEW i \in Invocations, Check(i) PROVE TypeOK'
  <2>1. UNCHANGED job
    BY <1>6 DEF Check, Untouched
  <2>2. /\ DOMAIN pc' = Invocations
        /\ \A k \in Invocations : pc'[k] \in StepsOf[job'[k].op] \cup Endings
    <3>1. CASE GoesTo(i, "open")
      BY <1>6, <2>1, <3>1, StepOps, PcUpdate, Tables DEF Check
    <3>2. CASE GoesTo(i, "declined")
      BY <2>1, <3>2, PcUpdate DEF Endings
    <3> QED
      BY <1>6, <3>1, <3>2 DEF Check
  <2> QED
    BY <1>6, <2>2 DEF TypeOK, Check, Untouched, Reads
<1>7. ASSUME NEW i \in Invocations, Rename(i) PROVE TypeOK'
  <2>1. /\ DOMAIN pc' = Invocations
        /\ \A k \in Invocations : pc'[k] \in StepsOf[job'[k].op] \cup Endings
    BY <1>7, StepOps, PcUpdate, Tables DEF Rename
  <2>2. /\ form' \in [Files -> Forms] /\ adrift' \subseteq Invocations
        /\ stale' \subseteq Invocations /\ disturbed' \in BOOLEAN
    BY <1>7 DEF TypeOK, Rename, Forms, Others, Whoever
  <2> QED
    BY <1>7, <2>1, <2>2 DEF TypeOK, Rename, Reads
<1>8. ASSUME NEW i \in Invocations, Open(i) PROVE TypeOK'
  <2>1. job[i].op \in Ops \ {"save"}
    BY <1>8, StepOps, ReadsAndWrites DEF Open
  <2>2. /\ DOMAIN pc' = Invocations
        /\ \A k \in Invocations : pc'[k] \in StepsOf[job'[k].op] \cup Endings
    <3>1. "write" \in StepsOf[job[i].op]
      BY <2>1, Tables DEF Ops
    <3> QED
      BY <1>8, <3>1, PcUpdate DEF Open
  <2>3. /\ form' \in [Files -> Forms]
        /\ stale' \subseteq Invocations /\ disturbed' \in BOOLEAN
    BY <1>8 DEF TypeOK, Open, Forms, Whoever
  <2> QED
    BY <1>8, <2>2, <2>3 DEF TypeOK, Open, Reads
<1>9. ASSUME NEW i \in Invocations, Write(i) PROVE TypeOK'
  <2>1. /\ DOMAIN pc' = Invocations
        /\ \A k \in Invocations : pc'[k] \in StepsOf[job'[k].op] \cup Endings
    BY <1>9, PcUpdate DEF Write, Endings
  <2>2. Outcomes(i) \subseteq Forms
    BY DEF Outcomes, TypeOK, Forms
  <2>3. form' \in [Files -> Forms] /\ data' \in Contents
    <3>1. CASE i \in adrift
      BY <1>9, <3>1 DEF Write, TypeOK
    <3>2. CASE i \notin adrift
      <4>1. data' = [data EXCEPT ![Writes(i)] = Result(i)]
        BY <1>9, <3>2 DEF Write
      <4>2. data' \in Contents
        BY <4>1, ResultType, ReadsAndWrites, DataUpdate DEF TypeOK
      <4> QED
        BY <1>9, <2>2, <3>2, <4>2 DEF Write, TypeOK
    <3> QED
      BY <3>1, <3>2
  <2>4. stale' \subseteq Invocations
    BY <1>9 DEF Write, TypeOK, Whoever
  <2> QED
    BY <1>9, <2>1, <2>3, <2>4 DEF TypeOK, Write, Reads
<1>10. ASSUME NEW i \in Invocations, Push(i) PROVE TypeOK'
  <2>1. /\ DOMAIN pc' = Invocations
        /\ \A k \in Invocations : pc'[k] \in StepsOf[job'[k].op] \cup Endings
    BY <1>10, PcUpdate DEF Push, Endings
  <2>2. Writes(i) = "configMap"
    BY <1>10, StepOps, Tables DEF Push, Writes
  <2>3. data' \in Contents
    BY <1>10, <2>2, ResultType, DataUpdate DEF Push, TypeOK, Files
  <2>4. /\ form' \in [Files -> Forms]
        /\ stale' \subseteq Invocations /\ disturbed' \in BOOLEAN
    BY <1>10 DEF TypeOK, Push, Whoever
  <2> QED
    BY <1>10, <2>1, <2>3, <2>4 DEF TypeOK, Push, Reads
<1>11. ASSUME NEW i \in Invocations, Kill(i) PROVE TypeOK'
  <2>1. /\ DOMAIN pc' = Invocations
        /\ \A k \in Invocations : pc'[k] \in StepsOf[job'[k].op] \cup Endings
    BY <1>11, PcUpdate DEF Kill, Endings
  <2>2. kills' \in 0..MaxKills /\ disturbed' \in BOOLEAN
    BY <1>11, MaxKillsAssumption DEF Kill, TypeOK
  <2> QED
    BY <1>11, <2>1, <2>2 DEF TypeOK, Kill, Reads
<1>12. CASE UNCHANGED vars
  BY <1>12 DEF vars, TypeOK, Reads
<1> QED
  BY <1>1, <1>2, <1>3, <1>4, <1>5, <1>6, <1>7, <1>8, <1>9, <1>10, <1>11, <1>12
  DEF Next, AllEnded

\* Type correctness, for every instance.
THEOREM TypeCorrect == Spec => []TypeOK
<1>1. Init => TypeOK
  BY InitType
<1>2. TypeOK /\ [Next]_vars => TypeOK'
  BY StepType
<1> QED
  BY <1>1, <1>2, PTL DEF Spec

-----------------------------------------------------------------------------
(***************************************************************************)
(* The inductive invariant.  As long as nothing is disturbed, a file has   *)
(* one writer at most; a file that is not whole has just been opened or    *)
(* moved away by it, or never been written; a writer has not been          *)
(* overtaken; and whoever is not stale either has in hand what the file    *)
(* holds, or has read it while its writer was at work.                     *)
(***************************************************************************)
OneWriter ==
    \A i, k \in Invocations : Writing(i) /\ Writing(k) /\ Writes(i) = Writes(k) => i = k

FormsAccounted ==
    \A f \in Files :
        /\ form[f] # "mixed"
        /\ form[f] = "empty" => \E i \in Invocations : pc[i] = "write" /\ Writes(i) = f
        /\ form[f] = "missing" =>
              \/ data[f] = Blank[f]
              \/ \E i \in Invocations : /\ job[i].op = "restore"
                                        /\ pc[i] = "open"
                                        /\ Writes(i) = f

WritersAccounted ==
    /\ adrift = {}
    /\ \A i \in Invocations :
          /\ pc[i] = "write" => form[Writes(i)] = "empty" /\ i \notin stale
          /\ job[i].op = "restore" /\ pc[i] = "open" => form["state"] = "missing"

PastRead(i) == pc[i] \in {"reread", "rename", "open", "write", "push"}

Matches(i) ==
    /\ job[i].op \in {"generate", "use"} => looked[i] = data.validators.deposits
    /\ PastRead(i) /\ job[i].op # "create" => base[i] = data[Reads(i)]
    /\ job[i].op = "create" => job[i].force \/ data.wallets = Nobody
    /\ job[i].op \in {"save", "restore"} => got[i] = "whole"

Grounded(i) ==
    HasRead(i) /\ i \notin stale =>
        /\ Others(i, Reads(i)) = {} => Matches(i)
        /\ job[i].op = "save" /\ Others(i, Reads(i)) # {} => got[i] # "whole"

Accounts == ~disturbed => /\ OneWriter
                          /\ FormsAccounted
                          /\ WritersAccounted
                          /\ \A i \in Invocations : Grounded(i)

\* What `keys use` puts into its file is what it has looked up, and not nothing.
UseInHand ==
    \A i \in Invocations : job[i].op = "use" =>
        /\ HasRead(i) => Unused(looked[i]) # {}
        /\ pc[i] \in {"read", "reread", "open", "write"} => files[i] = Unused(looked[i])

-----------------------------------------------------------------------------
LEMMA OpTables ==
    \A op \in Ops :
        /\ First[op] \in {"read", "look", "upload", "check"}
        /\ First[op] = "read" <=> op \in {"update", "save", "restore"}
        /\ First[op] = "look" <=> op \in {"generate", "use"}
        /\ First[op] = "upload" <=> op = "chainKeys"
        /\ First[op] = "check" <=> op = "create"
        /\ Source[op] = "validators" <=> op \in {"generate", "use", "chainKeys"}
        /\ Target[op] = "validators" <=> op \in {"generate", "use", "chainKeys"}
        /\ Target[op] = "state" <=> op \in {"update", "restore"}
        /\ Source[op] = "state" <=> op \in {"update", "save"}
        /\ Target[op] = "wallets" <=> op = "create"
        /\ Source[op] = "wallets" <=> op = "create"
        /\ Target[op] = "configMap" <=> op = "save"
        /\ Source[op] = "configMap" <=> op = "restore"
        /\ op # "create" => AfterRead[op] \in {"reread", "rename", "open", "push"}
        /\ op = "restore" => AfterRead[op] = "rename"
<1> SUFFICES ASSUME NEW op \in Ops
             PROVE  /\ First[op] \in {"read", "look", "upload", "check"}
                    /\ First[op] = "read" <=> op \in {"update", "save", "restore"}
                    /\ First[op] = "look" <=> op \in {"generate", "use"}
                    /\ First[op] = "upload" <=> op = "chainKeys"
                    /\ First[op] = "check" <=> op = "create"
                    /\ Source[op] = "validators" <=> op \in {"generate", "use", "chainKeys"}
                    /\ Target[op] = "validators" <=> op \in {"generate", "use", "chainKeys"}
                    /\ Target[op] = "state" <=> op \in {"update", "restore"}
                    /\ Source[op] = "state" <=> op \in {"update", "save"}
                    /\ Target[op] = "wallets" <=> op = "create"
                    /\ Source[op] = "wallets" <=> op = "create"
                    /\ Target[op] = "configMap" <=> op = "save"
                    /\ Source[op] = "configMap" <=> op = "restore"
                    /\ op # "create" => AfterRead[op] \in {"reread", "rename", "open", "push"}
                    /\ op = "restore" => AfterRead[op] = "rename"
  OBVIOUS
<1>1. \/ op = "update" \/ op = "generate" \/ op = "use" \/ op = "chainKeys"
      \/ op = "create" \/ op = "save" \/ op = "restore"
  BY DEF Ops
<1>2. CASE op = "update"
  BY <1>2, Tables
<1>3. CASE op = "generate"
  BY <1>3, Tables
<1>4. CASE op = "use"
  BY <1>4, Tables
<1>5. CASE op = "chainKeys"
  BY <1>5, Tables
<1>6. CASE op = "create"
  BY <1>6, Tables
<1>7. CASE op = "save"
  BY <1>7, Tables
<1>8. CASE op = "restore"
  BY <1>8, Tables
<1> QED
  BY <1>1, <1>2, <1>3, <1>4, <1>5, <1>6, <1>7, <1>8

\* Nobody is ever writing the config map: it is replaced in one call.
LEMMA NoConfigMapWriter ==
    ASSUME TypeOK, NEW i \in Invocations, Writing(i)
    PROVE  Writes(i) # "configMap"
  BY StepOps, ReadsAndWrites, OpTables DEF Writing, Writes

\* A step that neither begins nor ends anybody's writing leaves all accounts but
\* those of the invocation that takes it.
LEMMA QuietStep ==
    ASSUME TypeOK, Accounts, ~disturbed,
           UNCHANGED <<job, form, data, adrift, stale>>,
           NEW i \in Invocations, NEW step, GoesTo(i, step),
           ~Writing(i), step # "write", ~(job[i].op = "restore" /\ step = "open"),
           \A k \in Invocations \ {i} : /\ looked'[k] = looked[k]
                                         /\ base'[k] = base[k]
                                         /\ got'[k] = got[k],
           Grounded(i)'
    PROVE  Accounts'
<1>1. \A k \in Invocations \ {i} : pc'[k] = pc[k]
  BY DEF TypeOK, GoesTo
<1>2. pc'[i] = step
  BY DEF TypeOK, GoesTo
<1>3. \A k \in Invocations : (Writing(k)' <=> Writing(k)) /\ Writes(k)' = Writes(k)
                              /\ Reads(k)' = Reads(k)
  BY <1>1, <1>2 DEF Writing, Writes, Reads
<1>4. \A k \in Invocations : (pc'[k] = "write" <=> pc[k] = "write")
                              /\ (job[k].op = "restore" => (pc'[k] = "open" <=> pc[k] = "open"))
  BY <1>1, <1>2 DEF Writing
<1>5. OneWriter'
  BY <1>3 DEF Accounts, OneWriter
<1>6. FormsAccounted'
  BY <1>3, <1>4 DEF Accounts, FormsAccounted
<1>7. WritersAccounted'
  BY <1>3, <1>4 DEF Accounts, WritersAccounted
<1>8. \A k \in Invocations \ {i} : Grounded(k)'
  <2> SUFFICES ASSUME NEW k \in Invocations \ {i} PROVE Grounded(k)'
    OBVIOUS
  <2>1. Others(k, Reads(k))' = Others(k, Reads(k))
    BY <1>3 DEF Others
  <2>2. HasRead(k)' <=> HasRead(k)
    BY <1>1 DEF HasRead
  <2>3. Matches(k)' <=> Matches(k)
    BY <1>1, <1>3 DEF Matches, PastRead
  <2> QED
    BY <2>1, <2>2, <2>3 DEF Accounts, Grounded
<1> QED
  BY <1>5, <1>6, <1>7, <1>8 DEF Accounts

\* What a reader finds when nobody else is writing, and that a copy of the state
\* taken under a writer's hands is not whole.
LEMMA ReadersFind ==
    ASSUME TypeOK, Accounts, ~disturbed, NEW i \in Invocations, ~Writing(i)
    PROVE  /\ Others(i, Reads(i)) = {} =>
                 /\ form[Reads(i)] \in {"whole", "missing"}
                 /\ Content(Reads(i)) = data[Reads(i)]
           /\ Reads(i) = "configMap" => Others(i, Reads(i)) = {}
           /\ Reads(i) = "state" /\ Others(i, Reads(i)) # {} =>
                 form["state"] \in {"empty", "missing"}
<1>1. Reads(i) \in Files /\ form[Reads(i)] \in Forms
  BY ReadsAndWrites DEF TypeOK
<1>2. ASSUME Others(i, Reads(i)) = {}
      PROVE  /\ form[Reads(i)] \in {"whole", "missing"}
             /\ Content(Reads(i)) = data[Reads(i)]
  <2>1. \A k \in Invocations : Writing(k) => Writes(k) # Reads(i)
    BY <1>2 DEF Others
  <2>2. form[Reads(i)] # "empty"
    BY <1>1, <2>1 DEF Accounts, FormsAccounted, Writing
  <2>3. form[Reads(i)] = "missing" => data[Reads(i)] = Blank[Reads(i)]
    BY <1>1, <2>1 DEF Accounts, FormsAccounted, Writing
  <2> QED
    BY <1>1, <2>2, <2>3 DEF Accounts, FormsAccounted, Forms, Content
<1>3. Reads(i) = "configMap" => Others(i, Reads(i)) = {}
  BY NoConfigMapWriter DEF Others
<1>4. ASSUME Reads(i) = "state", NEW k \in Others(i, Reads(i))
      PROVE  form["state"] \in {"empty", "missing"}
  BY <1>4 DEF Others, Writing, Accounts, WritersAccounted
<1> QED
  BY <1>2, <1>3, <1>4

LEMMA LookKeepsAccounts ==
    ASSUME TypeOK, Accounts, ~disturbed, NEW i \in Invocations, Look(i)
    PROVE  Accounts'
<1>1. /\ UNCHANGED <<job, form, data, adrift, stale>>
      /\ \A k \in Invocations \ {i} : /\ looked'[k] = looked[k]
                                      /\ base'[k] = base[k]
                                      /\ got'[k] = got[k]
      /\ job[i].op \in {"generate", "use"} /\ ~Writing(i)
  BY StepOps DEF Look, Untouched, TypeOK, Writing
<1>2. CASE GoesTo(i, "failed")
  <2>1. pc'[i] = "failed"
    BY <1>2 DEF TypeOK, GoesTo
  <2>2. Grounded(i)'
    BY <2>1 DEF Grounded, HasRead, Endings
  <2> QED
    BY <1>1, <1>2, <2>2, QuietStep
<1>3. CASE /\ looked' = [looked EXCEPT ![i] = Content("validators").deposits]
           /\ GoesTo(i, IF job[i].op = "use" THEN "hand" ELSE "read")
  <2>1. pc'[i] \in {"hand", "read"}
    BY <1>3 DEF TypeOK, GoesTo
  <2>2. Reads(i) = "validators" /\ Reads(i)' = Reads(i)
    BY <1>1, ReadsAndWrites, OpTables DEF Reads
  <2>3. Others(i, Reads(i))' = Others(i, Reads(i))
    BY <1>1, <1>3, <2>2 DEF Others, Writing, Writes, GoesTo, TypeOK
  <2>4. Others(i, Reads(i)) = {} => looked'[i] = data'.validators.deposits
    BY <1>1, <1>3, <2>2, ReadersFind DEF TypeOK
  <2>5. Grounded(i)'
    BY <1>1, <2>1, <2>3, <2>4 DEF Grounded, Matches, PastRead
  <2> QED
    BY <1>1, <1>3, <2>5, QuietStep
<1> QED
  BY <1>2, <1>3 DEF Look

LEMMA HandKeepsAccounts ==
    ASSUME TypeOK, Accounts, ~disturbed, NEW i \in Invocations, Hand(i)
    PROVE  Accounts'
<1>1. /\ UNCHANGED <<job, form, data, adrift, stale, looked, base, got>>
      /\ job[i].op = "use" /\ ~Writing(i) /\ GoesTo(i, "read")
  BY StepOps DEF Hand, Untouched, Writing
<1>2. pc'[i] = "read" /\ pc[i] = "hand"
  BY <1>1 DEF TypeOK, GoesTo, Hand
<1>3. HasRead(i)
  BY <1>1, <1>2, Tables DEF HasRead, Endings
<1>4. Others(i, Reads(i))' = Others(i, Reads(i))
  BY <1>1 DEF Others, Writing, Writes, Reads, GoesTo, TypeOK
<1>5. Grounded(i)'
  BY <1>1, <1>2, <1>3, <1>4 DEF Accounts, Grounded, Matches, PastRead
<1> QED
  BY <1>1, <1>5, QuietStep

LEMMA UploadKeepsAccounts ==
    ASSUME TypeOK, Accounts, ~disturbed, NEW i \in Invocations, Upload(i)
    PROVE  Accounts'
<1>1. /\ UNCHANGED <<job, form, data, adrift, stale, looked, base, got>>
      /\ job[i].op = "chainKeys" /\ ~Writing(i) /\ GoesTo(i, "read")
  BY StepOps DEF Upload, Writing
<1>2. pc'[i] = "read"
  BY <1>1 DEF TypeOK, GoesTo
<1>3. Grounded(i)'
  BY <1>1, <1>2 DEF Grounded, HasRead
<1> QED
  BY <1>1, <1>3, QuietStep

LEMMA ReadKeepsAccounts ==
    ASSUME TypeOK, Accounts, ~disturbed, NEW i \in Invocations, Read(i)
    PROVE  Accounts'
<1>1. /\ UNCHANGED <<job, form, data, adrift, stale, looked>>
      /\ \A k \in Invocations \ {i} : base'[k] = base[k] /\ got'[k] = got[k]
      /\ job[i].op \in Ops /\ job[i].op # "create" /\ ~Writing(i) /\ pc[i] = "read"
  BY StepOps, ReadsAndWrites DEF Read, Untouched, TypeOK, Writing
<1>2. CASE GoesTo(i, "failed")
  <2>1. pc'[i] = "failed"
    BY <1>2 DEF TypeOK, GoesTo
  <2>2. Grounded(i)'
    BY <2>1 DEF Grounded, HasRead, Endings
  <2> QED
    BY <1>1, <1>2, <2>2, QuietStep
<1>3. CASE /\ Acceptable(i)
           /\ base' = [base EXCEPT ![i] = Content(Reads(i))]
           /\ got' = [got EXCEPT ![i] = form[Reads(i)]]
           /\ GoesTo(i, AfterRead[job[i].op])
  <2>1. /\ pc'[i] = AfterRead[job[i].op]
        /\ pc'[i] \in {"reread", "rename", "open", "push"}
        /\ job[i].op = "restore" => pc'[i] = "rename"
    BY <1>1, <1>3, OpTables DEF TypeOK, GoesTo
  <2>2. base'[i] = Content(Reads(i)) /\ got'[i] = form[Reads(i)]
    BY <1>3 DEF TypeOK
  <2>3. Others(i, Reads(i))' = Others(i, Reads(i)) /\ Reads(i)' = Reads(i)
    BY <1>1, <1>3, <2>1 DEF Others, Writing, Writes, Reads, GoesTo, TypeOK
  <2>4. job[i].op \in {"generate", "use"} => HasRead(i)
    BY <1>1, Tables DEF HasRead, Endings
  <2>5. ASSUME Others(i, Reads(i)) = {}, i \notin stale PROVE Matches(i)'
    <3>1. job[i].op \in {"generate", "use"} => looked'[i] = data'.validators.deposits
      BY <1>1, <2>4, <2>5 DEF Accounts, Grounded, Matches
    <3>2. base'[i] = data'[Reads(i)]
      BY <1>1, <2>2, <2>5, ReadersFind
    <3>3. job[i].op \in {"save", "restore"} => got'[i] = "whole"
      <4>1. job[i].op = "save" => Reads(i) = "state"
        BY Tables DEF Reads
      <4>2. job[i].op = "restore" => Reads(i) = "configMap"
        BY Tables DEF Reads
      <4> QED
        BY <1>1, <1>3, <2>2, <2>5, <4>1, <4>2, ReadersFind DEF Acceptable
    <3> QED
      BY <1>1, <2>3, <3>1, <3>2, <3>3 DEF Matches
  <2>6. job[i].op = "save" /\ Others(i, Reads(i)) # {} => got'[i] # "whole"
    <3>1. job[i].op = "save" => Reads(i) = "state"
      BY Tables DEF Reads
    <3> QED
      BY <1>1, <2>2, <3>1, ReadersFind
  <2>7. Grounded(i)'
    BY <1>1, <2>3, <2>5, <2>6 DEF Grounded
  <2> QED
    BY <1>1, <1>3, <2>1, <2>7, QuietStep DEF GoesTo
<1> QED
  BY <1>2, <1>3 DEF Read

LEMMA RereadKeepsAccounts ==
    ASSUME TypeOK, Accounts, ~disturbed, NEW i \in Invocations, Reread(i)
    PROVE  Accounts'
<1>1. /\ UNCHANGED <<job, form, data, adrift, stale, looked, base, got>>
      /\ job[i].op \in {"generate", "use", "chainKeys"} /\ ~Writing(i) /\ pc[i] = "reread"
  BY StepOps DEF Reread, Untouched, Writing
<1>2. PICK step \in {"open", "failed"} : GoesTo(i, step)
  BY DEF Reread
<1>3. pc'[i] = step
  BY <1>2 DEF TypeOK, GoesTo
<1>4. HasRead(i)' => HasRead(i)
  BY <1>1, Tables DEF HasRead, Endings
<1>5. Others(i, Reads(i))' = Others(i, Reads(i))
  BY <1>1, <1>2 DEF Others, Writing, Writes, Reads, GoesTo, TypeOK
<1>6. Grounded(i)'
  BY <1>1, <1>3, <1>4, <1>5 DEF Accounts, Grounded, Matches, PastRead, Reads
<1> QED
  BY <1>1, <1>2, <1>6, QuietStep

LEMMA CheckKeepsAccounts ==
    ASSUME TypeOK, Accounts, ~disturbed, NEW i \in Invocations, Check(i)
    PROVE  Accounts'
<1>1. /\ UNCHANGED <<job, form, data, adrift, stale, looked, base, got>>
      /\ job[i].op = "create" /\ ~Writing(i) /\ pc[i] = "check"
  BY StepOps DEF Check, Untouched, Writing
<1>2. PICK step \in {"open", "declined"} :
          /\ GoesTo(i, step)
          /\ step = "open" => job[i].force \/ form["wallets"] # "whole"
  BY DEF Check
<1>3. pc'[i] = step
  BY <1>2 DEF TypeOK, GoesTo
<1>4. Reads(i) = "wallets"
  BY <1>1, Tables DEF Reads
<1>5. Others(i, Reads(i))' = Others(i, Reads(i))
  BY <1>1, <1>2 DEF Others, Writing, Writes, Reads, GoesTo, TypeOK
<1>6. step = "open" /\ Others(i, Reads(i)) = {} => job[i].force \/ data.wallets = Nobody
  BY <1>1, <1>2, <1>4, ReadersFind DEF Content, Blank
<1>7. Grounded(i)'
  BY <1>1, <1>3, <1>5, <1>6 DEF Grounded, Matches, HasRead, Endings
<1> QED
  BY <1>1, <1>2, <1>7, QuietStep

LEMMA KillKeepsAccounts ==
    ASSUME TypeOK, Accounts, ~disturbed', NEW i \in Invocations, Kill(i)
    PROVE  Accounts'
<1>1. /\ UNCHANGED <<job, form, data, adrift, stale, looked, base, got>>
      /\ ~Writing(i) /\ ~disturbed /\ GoesTo(i, "killed")
  BY DEF Kill
<1>2. Grounded(i)'
  BY <1>1 DEF Grounded, HasRead, Endings, GoesTo, TypeOK
<1> QED
  BY <1>1, <1>2, QuietStep

-----------------------------------------------------------------------------
(***************************************************************************)
(* The steps that change a file.  Whoever is at work on it becomes stale,  *)
(* and nothing has changed for the others.                                 *)
(***************************************************************************)
LEMMA OthersStayGrounded ==
    ASSUME TypeOK, Accounts, ~disturbed, NEW i \in Invocations, NEW step, NEW c,
           UNCHANGED <<job, looked, base, got>>, GoesTo(i, step),
           data' \in {data, [data EXCEPT ![Writes(i)] = c]},
           stale' = stale \cup (Whoever(Writes(i)) \ {i})
    PROVE  \A k \in Invocations \ {i} : Grounded(k)'
<1> SUFFICES ASSUME NEW k \in Invocations \ {i}, HasRead(k), k \notin stale,
                    Reads(k) # Writes(i)
             PROVE  Grounded(k)'
  BY DEF Grounded, HasRead, Whoever, GoesTo, TypeOK, Reads
<1>1. pc'[k] = pc[k] /\ Reads(k)' = Reads(k)
  BY DEF GoesTo, TypeOK, Reads
<1>2. Others(k, Reads(k))' = Others(k, Reads(k))
  BY DEF Others, Writing, Writes, Reads, GoesTo, TypeOK
<1>3. data'[Reads(k)] = data[Reads(k)]
  BY ReadsAndWrites DEF TypeOK, Contents, Files
<1>4. job[k].op \in {"generate", "use"} => data'.validators.deposits = data.validators.deposits
  <2>1. job[k].op \in {"generate", "use"} => Reads(k) = "validators"
    BY Tables DEF Reads
  <2> QED
    BY <1>3, <2>1
<1>5. job[k].op = "create" => data'.wallets = data.wallets
  <2>1. job[k].op = "create" => Reads(k) = "wallets"
    BY Tables DEF Reads
  <2> QED
    BY <1>3, <2>1
<1>6. Matches(k) => Matches(k)'
  BY <1>1, <1>3, <1>4, <1>5 DEF Matches, PastRead
<1> QED
  BY <1>1, <1>2, <1>6 DEF Accounts, Grounded

\* Nobody else writes the file, so nobody who is writing becomes stale.
LEMMA WritersStayFresh ==
    ASSUME TypeOK, Accounts, ~disturbed, NEW i \in Invocations,
           Others(i, Writes(i)) = {}, Writes(i) # "configMap",
           stale' = stale \cup (Whoever(Writes(i)) \ {i}),
           NEW k \in Invocations \ {i}, pc[k] = "write"
    PROVE  k \notin stale' /\ Writes(k) # Writes(i) /\ form[Writes(k)] = "empty"
<1>1. Writes(k) # Writes(i) /\ k \notin stale /\ form[Writes(k)] = "empty"
  BY DEF Others, Writing, Accounts, WritersAccounted
<1>2. job[k].op # "save" /\ (job[k].op = "restore" => Reads(k) = "configMap")
  BY StepOps, Tables DEF Reads
<1>3. Reads(k) # Writes(i)
  BY <1>1, <1>2, ReadsAndWrites
<1> QED
  BY <1>1, <1>3 DEF Whoever

LEMMA RenameKeepsAccounts ==
    ASSUME TypeOK, Accounts, ~disturbed', NEW i \in Invocations, Rename(i)
    PROVE  Accounts'
<1>1. /\ job[i].op = "restore" /\ pc[i] = "rename" /\ GoesTo(i, "open")
      /\ UNCHANGED <<job, data, looked, base, got>>
      /\ ~disturbed /\ Others(i, "state") = {}
      /\ form' = [form EXCEPT !["state"] = "missing"]
      /\ stale' = stale \cup (Whoever("state") \ {i})
  BY StepOps DEF Rename
<1>2. Writes(i) = "state" /\ Reads(i) = "configMap"
  BY <1>1, Tables DEF Writes, Reads
<1>3. pc'[i] = "open" /\ \A k \in Invocations \ {i} : pc'[k] = pc[k]
  BY <1>1 DEF GoesTo, TypeOK
<1>4. \A k \in Invocations : Writes(k)' = Writes(k) /\ Reads(k)' = Reads(k)
  BY <1>1 DEF Writes, Reads
<1>5. \A k \in Invocations \ {i} : (Writing(k)' <=> Writing(k))
                                   /\ (Writing(k) => Writes(k) # "state")
  BY <1>1, <1>3 DEF Others, Writing
<1>6. OneWriter'
  BY <1>1, <1>2, <1>4, <1>5 DEF Accounts, OneWriter
<1>7. FormsAccounted'
  <2> SUFFICES ASSUME NEW f \in Files
               PROVE  /\ form'[f] # "mixed"
                      /\ form'[f] = "empty" =>
                            \E k \in Invocations : pc'[k] = "write" /\ Writes(k)' = f
                      /\ form'[f] = "missing" =>
                            \/ data'[f] = Blank[f]
                            \/ \E k \in Invocations : /\ job'[k].op = "restore"
                                                      /\ pc'[k] = "open"
                                                      /\ Writes(k)' = f
    BY DEF FormsAccounted
  <2>1. CASE f = "state"
    BY <1>1, <1>2, <1>3, <1>4, <2>1 DEF TypeOK
  <2>2. CASE f # "state"
    <3>1. form'[f] = form[f] /\ data'[f] = data[f]
      BY <1>1, <2>2 DEF TypeOK
    <3> QED
      BY <1>1, <1>3, <1>4, <3>1 DEF Accounts, FormsAccounted
  <2> QED
    BY <2>1, <2>2
<1>8. WritersAccounted'
  <2>1. adrift' = {}
    BY <1>1 DEF Accounts, WritersAccounted, Rename
  <2>2. ASSUME NEW k \in Invocations, pc'[k] = "write"
        PROVE  form'[Writes(k)] = "empty" /\ k \notin stale'
    <3>1. k # i /\ pc[k] = "write"
      BY <1>3, <2>2
    <3>2. k \notin stale' /\ Writes(k) # "state" /\ form[Writes(k)] = "empty"
      BY <1>1, <1>2, <3>1, WritersStayFresh
    <3> QED
      BY <1>1, <3>2, ReadsAndWrites DEF TypeOK
  <2>3. form'["state"] = "missing"
    BY <1>1 DEF TypeOK, Files
  <2> QED
    BY <1>4, <2>1, <2>2, <2>3 DEF WritersAccounted
<1>9. \A k \in Invocations \ {i} : Grounded(k)'
  BY <1>1, <1>2, OthersStayGrounded
<1>10. Grounded(i)'
  <2>1. HasRead(i) /\ PastRead(i)
    BY <1>1, Tables DEF HasRead, Endings, PastRead
  <2>2. Others(i, Reads(i))' = {} /\ Others(i, Reads(i)) = {}
    BY <1>2, <1>4, <1>5, NoConfigMapWriter DEF Others
  <2>3. i \notin stale' => Matches(i)
    BY <1>1, <2>1, <2>2 DEF Accounts, Grounded
  <2> QED
    BY <1>1, <1>4, <2>1, <2>2, <2>3 DEF Grounded, Matches
<1> QED
  BY <1>6, <1>7, <1>8, <1>9, <1>10 DEF Accounts

LEMMA OpenKeepsAccounts ==
    ASSUME TypeOK, Accounts, ~disturbed', NEW i \in Invocations, Open(i)
    PROVE  Accounts'
<1> DEFINE W == Writes(i)
<1>1. /\ job[i].op \in Ops /\ job[i].op # "save" /\ pc[i] = "open" /\ GoesTo(i, "write")
      /\ UNCHANGED <<job, data, adrift, looked, base, got>>
      /\ ~disturbed /\ i \notin stale /\ Others(i, W) = {}
      /\ form' = [form EXCEPT ![W] = "empty"]
      /\ stale' = stale \cup (Whoever(W) \ {i})
  BY StepOps, ReadsAndWrites DEF Open
<1>2. W \in Files /\ W # "configMap" /\ Writes(i)' = W
  BY <1>1, ReadsAndWrites, OpTables DEF Writes
<1>3. pc'[i] = "write" /\ \A k \in Invocations \ {i} : pc'[k] = pc[k]
  BY <1>1 DEF GoesTo, TypeOK
<1>4. \A k \in Invocations : Writes(k)' = Writes(k) /\ Reads(k)' = Reads(k)
  BY <1>1 DEF Writes, Reads
<1>5. \A k \in Invocations \ {i} : (Writing(k)' <=> Writing(k))
                                   /\ (Writing(k) => Writes(k) # W)
  BY <1>1, <1>3 DEF Others, Writing
<1>6. OneWriter'
  BY <1>1, <1>2, <1>4, <1>5 DEF Accounts, OneWriter
<1>7. FormsAccounted'
  <2> SUFFICES ASSUME NEW f \in Files
               PROVE  /\ form'[f] # "mixed"
                      /\ form'[f] = "empty" =>
                            \E k \in Invocations : pc'[k] = "write" /\ Writes(k)' = f
                      /\ form'[f] = "missing" =>
                            \/ data'[f] = Blank[f]
                            \/ \E k \in Invocations : /\ job'[k].op = "restore"
                                                      /\ pc'[k] = "open"
                                                      /\ Writes(k)' = f
    BY DEF FormsAccounted
  <2>1. CASE f = W
    BY <1>1, <1>2, <1>3, <1>4, <2>1 DEF TypeOK
  <2>2. CASE f # W
    <3>1. form'[f] = form[f] /\ data'[f] = data[f]
      BY <1>1, <2>2 DEF TypeOK
    <3> QED
      BY <1>1, <1>3, <1>4, <2>2, <3>1 DEF Accounts, FormsAccounted
  <2> QED
    BY <2>1, <2>2
<1>8. WritersAccounted'
  <2>1. adrift' = {}
    BY <1>1 DEF Accounts, WritersAccounted
  <2>2. form'[W] = "empty" /\ i \notin stale'
    BY <1>1, <1>2 DEF TypeOK
  <2>3. ASSUME NEW k \in Invocations \ {i}, pc[k] = "write"
        PROVE  form'[Writes(k)] = "empty" /\ k \notin stale'
    <3>1. k \notin stale' /\ Writes(k) # W /\ form[Writes(k)] = "empty"
      BY <1>1, <1>2, <2>3, WritersStayFresh
    <3> QED
      BY <1>1, <3>1, ReadsAndWrites DEF TypeOK
  <2>4. ASSUME NEW k \in Invocations \ {i}, job[k].op = "restore", pc[k] = "open"
        PROVE  form'["state"] = "missing"
    <3>1. Writes(k) = "state" /\ Writing(k)
      BY <2>4, Tables DEF Writes, Writing
    <3>2. form["state"] = "missing" /\ W # "state"
      BY <1>1, <1>5, <2>4, <3>1 DEF Accounts, WritersAccounted
    <3> QED
      BY <1>1, <3>2 DEF TypeOK, Files
  <2> QED
    BY <1>1, <1>3, <1>4, <2>1, <2>2, <2>3, <2>4 DEF WritersAccounted
<1>9. \A k \in Invocations \ {i} : Grounded(k)'
  BY <1>1, OthersStayGrounded
<1>10. Grounded(i)'
  <2>1. HasRead(i) /\ PastRead(i) /\ PastRead(i)'
    BY <1>1, <1>3, OpTables DEF HasRead, Endings, PastRead
  <2>2. Others(i, Reads(i))' = Others(i, Reads(i))
    BY <1>4, <1>5 DEF Others
  <2>3. Others(i, Reads(i)) = {} => Matches(i)
    BY <1>1, <2>1 DEF Accounts, Grounded
  <2> QED
    BY <1>1, <1>4, <2>1, <2>2, <2>3 DEF Grounded, Matches
<1> QED
  BY <1>6, <1>7, <1>8, <1>9, <1>10 DEF Accounts

\* What is written is what the file would have had with nobody else about.
LEMMA WriterFinds ==
    ASSUME TypeOK, Accounts, ~disturbed, NEW i \in Invocations, pc[i] = "write"
    PROVE  /\ Others(i, Writes(i)) = {} /\ Others(i, Reads(i)) = {}
           /\ i \notin stale /\ i \notin adrift
           /\ form[Writes(i)] = "empty"
           /\ job[i].op # "save"
           /\ Writes(i) # "configMap"
           /\ Matches(i) /\ PastRead(i) /\ HasRead(i)
<1>1. Others(i, Writes(i)) = {}
  BY DEF Accounts, OneWriter, Others, Writing
<1>2. /\ i \notin stale /\ i \notin adrift /\ form[Writes(i)] = "empty"
      /\ job[i].op # "save" /\ Writes(i) # "configMap"
  BY StepOps, NoConfigMapWriter DEF Accounts, WritersAccounted, Writing
<1>3. Others(i, Reads(i)) = {}
  <2>1. job[i].op = "restore" => Reads(i) = "configMap"
    BY Tables DEF Reads
  <2> QED
    BY <1>1, <1>2, <2>1, ReadsAndWrites, NoConfigMapWriter DEF Others
<1>4. HasRead(i) /\ PastRead(i)
  BY ReadsAndWrites, OpTables DEF HasRead, Endings, PastRead
<1> QED
  BY <1>1, <1>2, <1>3, <1>4 DEF Accounts, Grounded

\* The write leaves the file whole.
LEMMA WriteIsWhole ==
    ASSUME TypeOK, Accounts, ~disturbed, NEW i \in Invocations, Write(i)
    PROVE  /\ form' = [form EXCEPT ![Writes(i)] = "whole"]
           /\ data' = [data EXCEPT ![Writes(i)] = Result(i)]
<1>1. /\ i \notin adrift /\ form[Writes(i)] = "empty"
      /\ job[i].op = "restore" => got[i] = "whole"
  BY WriterFinds DEF Write, Matches
<1>2. Outcomes(i) = {"whole"}
  BY <1>1 DEF Outcomes
<1> QED
  BY <1>1, <1>2 DEF Write

LEMMA WriteKeepsAccounts ==
    ASSUME TypeOK, Accounts, ~disturbed, NEW i \in Invocations, Write(i)
    PROVE  Accounts'
<1> DEFINE W == Writes(i)
<1>1. /\ pc[i] = "write" /\ GoesTo(i, "done")
      /\ UNCHANGED <<job, adrift, looked, base, got>>
      /\ Others(i, W) = {} /\ W # "configMap"
      /\ form' = [form EXCEPT ![W] = "whole"]
      /\ data' = [data EXCEPT ![W] = Result(i)]
      /\ stale' = stale \cup (Whoever(W) \ {i})
  BY WriterFinds, WriteIsWhole DEF Write
<1>2. W \in Files
  BY ReadsAndWrites
<1>3. pc'[i] = "done" /\ \A k \in Invocations \ {i} : pc'[k] = pc[k]
  BY <1>1 DEF GoesTo, TypeOK
<1>4. \A k \in Invocations : Writes(k)' = Writes(k) /\ Reads(k)' = Reads(k)
  BY <1>1 DEF Writes, Reads
<1>5. /\ ~Writing(i)'
      /\ \A k \in Invocations \ {i} : (Writing(k)' <=> Writing(k))
                                      /\ (Writing(k) => Writes(k) # W)
  BY <1>1, <1>3 DEF Others, Writing
<1>6. OneWriter'
  BY <1>4, <1>5 DEF Accounts, OneWriter
<1>7. FormsAccounted'
  <2> SUFFICES ASSUME NEW f \in Files
               PROVE  /\ form'[f] # "mixed"
                      /\ form'[f] = "empty" =>
                            \E k \in Invocations : pc'[k] = "write" /\ Writes(k)' = f
                      /\ form'[f] = "missing" =>
                            \/ data'[f] = Blank[f]
                            \/ \E k \in Invocations : /\ job'[k].op = "restore"
                                                      /\ pc'[k] = "open"
                                                      /\ Writes(k)' = f
    BY DEF FormsAccounted
  <2>1. CASE f = W
    BY <1>1, <1>2, <2>1 DEF TypeOK
  <2>2. CASE f # W
    <3>1. form'[f] = form[f] /\ data'[f] = data[f]
      BY <1>1, <2>2 DEF TypeOK, Contents, Files
    <3> QED
      BY <1>1, <1>3, <1>4, <2>2, <3>1 DEF Accounts, FormsAccounted
  <2> QED
    BY <2>1, <2>2
<1>8. WritersAccounted'
  <2>1. adrift' = {}
    BY <1>1 DEF Accounts, WritersAccounted
  <2>2. ASSUME NEW k \in Invocations \ {i}, pc[k] = "write"
        PROVE  form'[Writes(k)] = "empty" /\ k \notin stale'
    <3>1. k \notin stale' /\ Writes(k) # W /\ form[Writes(k)] = "empty"
      BY <1>1, <2>2, WritersStayFresh
    <3> QED
      BY <1>1, <3>1, ReadsAndWrites DEF TypeOK
  <2>3. ASSUME NEW k \in Invocations \ {i}, job[k].op = "restore", pc[k] = "open"
        PROVE  form'["state"] = "missing"
    <3>1. Writes(k) = "state" /\ Writing(k)
      BY <2>3, Tables DEF Writes, Writing
    <3>2. form["state"] = "missing" /\ W # "state"
      BY <1>1, <1>5, <2>3, <3>1 DEF Accounts, WritersAccounted
    <3> QED
      BY <1>1, <3>2 DEF TypeOK, Files
  <2> QED
    BY <1>1, <1>3, <1>4, <2>1, <2>2, <2>3 DEF WritersAccounted
<1>9. \A k \in Invocations \ {i} : Grounded(k)'
  BY <1>1, OthersStayGrounded
<1>10. Grounded(i)'
  BY <1>3 DEF Grounded, HasRead, Endings
<1> QED
  BY <1>6, <1>7, <1>8, <1>9, <1>10 DEF Accounts

\* A whole copy of the state was taken while nobody wrote it.
LEMMA PusherFinds ==
    ASSUME TypeOK, Accounts, ~disturbed', NEW i \in Invocations, Push(i)
    PROVE  /\ ~disturbed /\ i \notin stale /\ got[i] = "whole"
           /\ job[i].op = "save" /\ Reads(i) = "state" /\ Writes(i) = "configMap"
           /\ Others(i, "state") = {} /\ base[i] = data["state"]
           /\ Result(i) = base[i]
<1>1. /\ ~disturbed /\ i \notin stale /\ got[i] = "whole"
      /\ job[i].op = "save" /\ pc[i] = "push"
  BY StepOps DEF Push
<1>2. Reads(i) = "state" /\ Writes(i) = "configMap" /\ Result(i) = base[i]
  BY <1>1, Tables DEF Reads, Writes, Result
<1>3. HasRead(i) /\ PastRead(i)
  BY <1>1, Tables DEF HasRead, Endings, PastRead
<1> QED
  BY <1>1, <1>2, <1>3 DEF Accounts, Grounded, Matches

LEMMA PushKeepsAccounts ==
    ASSUME TypeOK, Accounts, ~disturbed', NEW i \in Invocations, Push(i)
    PROVE  Accounts'
<1>1. /\ pc[i] = "push" /\ GoesTo(i, "done")
      /\ UNCHANGED <<job, adrift, looked, base, got>>
      /\ ~disturbed /\ Writes(i) = "configMap" /\ Others(i, "state") = {}
      /\ form' = [form EXCEPT !["configMap"] = "whole"]
      /\ data' = [data EXCEPT !["configMap"] = Result(i)]
      /\ stale' = stale \cup (Whoever("configMap") \ {i})
      /\ ~Writing(i)
  BY PusherFinds, StepOps DEF Push, Writing
<1>2. pc'[i] = "done" /\ \A k \in Invocations \ {i} : pc'[k] = pc[k]
  BY <1>1 DEF GoesTo, TypeOK
<1>3. \A k \in Invocations : Writes(k)' = Writes(k) /\ Reads(k)' = Reads(k)
  BY <1>1 DEF Writes, Reads
<1>4. \A k \in Invocations : (Writing(k)' <=> Writing(k))
                             /\ (Writing(k) => k # i /\ Writes(k) # "configMap")
  BY <1>1, <1>2, NoConfigMapWriter DEF Writing
<1>5. OneWriter'
  BY <1>1, <1>3, <1>4 DEF Accounts, OneWriter
<1>6. FormsAccounted'
  <2> SUFFICES ASSUME NEW f \in Files
               PROVE  /\ form'[f] # "mixed"
                      /\ form'[f] = "empty" =>
                            \E k \in Invocations : pc'[k] = "write" /\ Writes(k)' = f
                      /\ form'[f] = "missing" =>
                            \/ data'[f] = Blank[f]
                            \/ \E k \in Invocations : /\ job'[k].op = "restore"
                                                      /\ pc'[k] = "open"
                                                      /\ Writes(k)' = f
    BY DEF FormsAccounted
  <2>1. CASE f = "configMap"
    BY <1>1, <2>1 DEF TypeOK
  <2>2. CASE f # "configMap"
    <3>1. form'[f] = form[f] /\ data'[f] = data[f]
      BY <1>1, <2>2 DEF TypeOK, Contents, Files
    <3> QED
      BY <1>1, <1>2, <1>3, <3>1 DEF Accounts, FormsAccounted
  <2> QED
    BY <2>1, <2>2
<1>7. WritersAccounted'
  <2>1. adrift' = {}
    BY <1>1 DEF Accounts, WritersAccounted
  <2>2. ASSUME NEW k \in Invocations, pc[k] = "write"
        PROVE  form'[Writes(k)] = "empty" /\ k \notin stale'
    <3>1. k # i /\ Writing(k) /\ Writes(k) # "configMap" /\ Writes(k) # "state"
      BY <1>1, <1>4, <2>2 DEF Writing, Others
    <3>2. job[k].op \in Ops /\ job[k].op # "save"
      BY <2>2, StepOps, ReadsAndWrites
    <3>3. Reads(k) # "configMap"
      BY <3>1, <3>2, OpTables DEF Reads, Writes
    <3>4. form[Writes(k)] = "empty" /\ k \notin stale
      BY <1>1, <2>2 DEF Accounts, WritersAccounted
    <3> QED
      BY <1>1, <3>1, <3>3, <3>4 DEF TypeOK, Whoever
  <2>3. ASSUME NEW k \in Invocations, job[k].op = "restore", pc[k] = "open"
        PROVE  form'["state"] = "missing"
    <3>1. form["state"] = "missing"
      BY <1>1, <2>3 DEF Accounts, WritersAccounted
    <3> QED
      BY <1>1, <3>1 DEF TypeOK, Files
  <2> QED
    BY <1>1, <1>2, <1>3, <2>1, <2>2, <2>3 DEF WritersAccounted
<1>8. \A k \in Invocations \ {i} : Grounded(k)'
  BY <1>1, OthersStayGrounded
<1>9. Grounded(i)'
  BY <1>2 DEF Grounded, HasRead, Endings
<1> QED
  BY <1>5, <1>6, <1>7, <1>8, <1>9 DEF Accounts

LEMMA UseStaysInHand == TypeOK /\ UseInHand /\ [Next]_vars => UseInHand'
<1> SUFFICES ASSUME TypeOK, UseInHand, [Next]_vars, NEW k \in Invocations, job'[k].op = "use"
             PROVE  /\ HasRead(k)' => Unused(looked'[k]) # {}
                    /\ pc'[k] \in {"read", "reread", "open", "write"} =>
                          files'[k] = Unused(looked'[k])
  BY DEF UseInHand
<1> DEFINE Mine == /\ HasRead(k) => Unused(looked[k]) # {}
                   /\ pc[k] \in {"read", "reread", "open", "write"} =>
                         files[k] = Unused(looked[k])
<1>1. CASE /\ UNCHANGED <<job, looked, files>>
           /\ pc'[k] \in Endings \/ pc'[k] = pc[k]
              \/ pc[k] \in {"read", "reread", "open", "write"}
  <2>1. Mine
    BY <1>1 DEF UseInHand
  <2>2. HasRead(k)' => HasRead(k)
    BY <1>1, Tables DEF HasRead, Endings
  <2>3. pc'[k] \in {"read", "reread", "open", "write"} =>
            pc[k] \in {"read", "reread", "open", "write"}
    BY <1>1 DEF Endings
  <2> QED
    BY <1>1, <2>1, <2>2, <2>3
<1>2. ASSUME NEW i \in Invocations, i # k,
             Look(i) \/ Hand(i) \/ Upload(i) \/ Read(i) \/ Reread(i) \/ Check(i)
             \/ Rename(i) \/ Open(i) \/ Write(i) \/ Push(i) \/ Kill(i)
      PROVE  /\ HasRead(k)' => Unused(looked'[k]) # {}
             /\ pc'[k] \in {"read", "reread", "open", "write"} =>
                   files'[k] = Unused(looked'[k])
  <2>1. pc'[k] = pc[k] /\ looked'[k] = looked[k] /\ files'[k] = files[k] /\ job' = job
    BY <1>2 DEF Look, Hand, Upload, Read, Reread, Check, Rename, Open, Write, Push, Kill,
                Untouched, GoesTo, TypeOK
  <2> QED
    BY <2>1 DEF UseInHand, HasRead
<1>3. CASE Look(k)
  <2>1. CASE GoesTo(k, "failed")
    BY <2>1 DEF GoesTo, TypeOK, HasRead, Endings
  <2>2. CASE /\ HasWork(k)
             /\ looked' = [looked EXCEPT ![k] = Content("validators").deposits]
             /\ GoesTo(k, IF job[k].op = "use" THEN "hand" ELSE "read")
    BY <1>3, <2>2 DEF GoesTo, TypeOK, HasWork, Look, Untouched
  <2> QED
    BY <1>3, <2>1, <2>2 DEF Look
<1>4. CASE Hand(k)
  <2>1. HasRead(k) /\ job[k].op = "use"
    BY <1>4, Tables DEF Hand, Untouched, HasRead, Endings
  <2> QED
    BY <1>4, <2>1 DEF Hand, Untouched, UseInHand, TypeOK
<1>5. ASSUME Upload(k) \/ Check(k) \/ Rename(k) \/ Push(k) PROVE FALSE
  <2>1. pc[k] \in {"upload", "check", "rename", "push"} /\ job[k].op = "use"
    BY <1>5 DEF Upload, Check, Rename, Push, Untouched
  <2> QED
    BY <2>1, StepOps
<1>6. CASE Read(k) \/ Reread(k) \/ Open(k) \/ Write(k)
  <2>1. /\ UNCHANGED <<job, looked, files>>
        /\ pc[k] \in {"read", "reread", "open", "write"}
    BY <1>6 DEF Read, Reread, Open, Write, Untouched
  <2> QED
    BY <1>1, <2>1
<1>7. CASE Kill(k)
  <2>1. UNCHANGED <<job, looked, files>> /\ pc'[k] \in Endings
    BY <1>7 DEF Kill, GoesTo, TypeOK, Endings
  <2> QED
    BY <1>1, <2>1
<1>8. CASE UNCHANGED vars
  BY <1>1, <1>8 DEF vars
<1> QED
  BY <1>2, <1>3, <1>4, <1>5, <1>6, <1>7, <1>8 DEF Next, AllEnded

IInv == TypeOK /\ Accounts /\ UseInHand

LEMMA InitInv == Init => IInv
<1> SUFFICES ASSUME Init PROVE Accounts /\ UseInHand
  BY InitType DEF IInv
<1>1. TypeOK
  BY InitType
<1>2. ASSUME NEW i \in Invocations
      PROVE  ~HasRead(i) /\ ~Writing(i) /\ pc[i] # "write" /\ (job[i].op = "use" => pc[i] = "look")
  <2>1. job[i].op \in Ops /\ pc[i] = First[job[i].op]
    BY <1>1, ReadsAndWrites DEF Init
  <2> QED
    BY <2>1, OpTables DEF HasRead, Writing
<1>3. FormsAccounted /\ WritersAccounted
  BY <1>2 DEF Init, FormsAccounted, WritersAccounted, Writing
<1>4. OneWriter /\ \A i \in Invocations : Grounded(i)
  BY <1>2 DEF OneWriter, Grounded
<1>5. UseInHand
  BY <1>2 DEF UseInHand
<1> QED
  BY <1>3, <1>4, <1>5 DEF Accounts

LEMMA NextInv == IInv /\ [Next]_vars => IInv'
<1> SUFFICES ASSUME IInv, [Next]_vars, ~disturbed' PROVE Accounts'
  BY StepType, UseStaysInHand DEF IInv, Accounts
<1>1. TypeOK /\ Accounts
  BY DEF IInv
<1>2. ~disturbed
  BY DEF Next, Look, Hand, Upload, Read, Reread, Check, Rename, Open, Write, Push, Kill,
         AllEnded, Untouched, vars
<1>3. ASSUME NEW i \in Invocations,
             Look(i) \/ Hand(i) \/ Upload(i) \/ Read(i) \/ Reread(i) \/ Check(i)
             \/ Rename(i) \/ Open(i) \/ Write(i) \/ Push(i) \/ Kill(i)
      PROVE  Accounts'
  BY <1>1, <1>2, <1>3, LookKeepsAccounts, HandKeepsAccounts, UploadKeepsAccounts,
     ReadKeepsAccounts, RereadKeepsAccounts, CheckKeepsAccounts, RenameKeepsAccounts,
     OpenKeepsAccounts, WriteKeepsAccounts, PushKeepsAccounts, KillKeepsAccounts
<1>4. CASE UNCHANGED vars
  BY <1>1, <1>4 DEF vars, Accounts, OneWriter, FormsAccounted, WritersAccounted, Grounded,
                    Matches, PastRead, HasRead, Writing, Writes, Reads, Others
<1> QED
  BY <1>3, <1>4 DEF Next, AllEnded

LEMMA Inductive == Spec => []IInv
<1>1. Init => IInv
  BY InitInv
<1>2. IInv /\ [Next]_vars => IInv'
  BY NextInv
<1> QED
  BY <1>1, <1>2, PTL DEF Spec

\* A file which nobody can parse is about to be replaced by whoever is writing it.
THEOREM FilesWhole == Spec => []AtRestWhole
<1>1. IInv => AtRestWhole
  BY DEF IInv, Accounts, FormsAccounted, AtRestWhole
<1> QED
  BY <1>1, Inductive, PTL

-----------------------------------------------------------------------------
(***************************************************************************)
(* The refinement: only the last step of a command shows in SerialStore.   *)
(***************************************************************************)
LEMMA QuietIsStutter ==
    ASSUME TypeOK, NEW i \in Invocations,
           Look(i) \/ Hand(i) \/ Upload(i) \/ Read(i) \/ Reread(i) \/ Check(i)
           \/ Rename(i) \/ Open(i) \/ Kill(i)
    PROVE  UNCHANGED <<data, Given, Ended>>
<1>1. /\ UNCHANGED <<job, data>> /\ pc[i] # "done"
      /\ \A k \in Invocations : k # i => pc'[k] = pc[k] /\ files'[k] = files[k]
  BY DEF Look, Hand, Upload, Read, Reread, Check, Rename, Open, Kill, Untouched, GoesTo,
         TypeOK, Endings
<1>2. pc'[i] # "done"
  <2>1. \/ pc'[i] \in {"hand", "read", "failed", "open", "declined", "write", "killed"}
        \/ pc'[i] = AfterRead[job[i].op] /\ pc[i] = "read"
    BY DEF Look, Hand, Upload, Read, Reread, Check, Rename, Open, Kill, GoesTo, TypeOK
  <2>2. pc[i] = "read" => AfterRead[job[i].op] # "done"
    BY StepOps, ReadsAndWrites, OpTables
  <2> QED
    BY <2>1, <2>2
<1>3. Ended' = Ended
  BY <1>1, <1>2 DEF Ended
<1>4. Given' = Given
  <2>1. \A k \in Invocations : (IF job[k].op = "use" /\ k \in Ended THEN files[k] ELSE {})'
                               = IF job[k].op = "use" /\ k \in Ended THEN files[k] ELSE {}
    BY <1>1, <1>2, <1>3 DEF Ended
  <2> QED
    BY <2>1, Zenon DEF Given
<1> QED
  BY <1>1, <1>3, <1>4

\* What becomes of the history at the last step.
LEMMA LastStep ==
    ASSUME TypeOK, NEW i \in Invocations, pc[i] \notin Endings, GoesTo(i, "done"),
           UNCHANGED <<job, files>>
    PROVE  /\ i \notin Ended /\ Ended' = Ended \cup {i}
           /\ job[i].op # "use" => Given' = Given
           /\ job[i].op = "use" => Given' = [Given EXCEPT ![i] = files[i]]
<1>1. pc'[i] = "done" /\ \A k \in Invocations : k # i => pc'[k] = pc[k]
  BY DEF GoesTo, TypeOK
<1>2. i \notin Ended /\ Ended' = Ended \cup {i}
  BY <1>1 DEF Ended, Endings
<1>3. Given' = [k \in Invocations |->
                   IF job[k].op = "use" /\ k \in Ended \cup {i} THEN files[k] ELSE {}]
  BY <1>2 DEF Given
<1>4. ASSUME job[i].op # "use" PROVE Given' = Given
  <2>1. \A k \in Invocations : (job[k].op = "use" /\ k \in Ended \cup {i})
                               <=> (job[k].op = "use" /\ k \in Ended)
    BY <1>4
  <2> QED
    BY <1>3, <2>1 DEF Given
<1>5. ASSUME job[i].op = "use" PROVE Given' = [Given EXCEPT ![i] = files[i]]
  <2>1. \A k \in Invocations : k # i => ((job[k].op = "use" /\ k \in Ended \cup {i})
                                         <=> (job[k].op = "use" /\ k \in Ended))
    OBVIOUS
  <2> QED
    BY <1>3, <1>5, <2>1 DEF Given
<1> QED
  BY <1>2, <1>4, <1>5

\* SerialStore computes upon the files with the same operators.
LEMMA SameOperators ==
    /\ Serial!Blank = Blank /\ Serial!Nobody = Nobody
    /\ \A deposits : Serial!Unused(deposits) = Unused(deposits)
                    /\ Serial!MarkedUsed(deposits) = MarkedUsed(deposits)
    /\ \A ledger, entries : Serial!Extended(ledger, entries) = Extended(ledger, entries)
    /\ \A i, j, known : Serial!NewKeys(i, j, known) = NewKeys(i, j, known)
<1>1. Serial!Blank = Blank /\ Serial!Nobody = Nobody
  BY DEF Serial!Blank, Blank, Serial!Nobody, Nobody
<1>2. \A deposits : Serial!Unused(deposits) = Unused(deposits)
                    /\ Serial!MarkedUsed(deposits) = MarkedUsed(deposits)
  BY Zenon DEF Serial!Unused, Unused, Serial!MarkedUsed, MarkedUsed
<1>3. \A ledger, entries : Serial!Extended(ledger, entries) = Extended(ledger, entries)
  BY Zenon DEF Serial!Extended, Extended, Serial!KeysOf, KeysOf
<1>4. \A i, j, known : Serial!NewKeys(i, j, known) = NewKeys(i, j, known)
  BY Zenon DEF Serial!NewKeys, NewKeys, Serial!Derived, Derived, Serial!Devnet, Devnet,
               Serial!Mnemonic, Mnemonic, Serial!Random, Random
<1> QED
  BY <1>1, <1>2, <1>3, <1>4

LEMMA WriteIsSerial ==
    ASSUME IInv, ~disturbed, NEW i \in Invocations, Write(i)
    PROVE  i \notin Ended /\ Serial!Effect(i, job[i]) /\ Ended' = Ended \cup {i}
<1> DEFINE j == job[i]
<1>1. TypeOK /\ Accounts /\ UseInHand
  BY DEF IInv
<1>2. pc[i] = "write" /\ GoesTo(i, "done") /\ UNCHANGED <<job, files>>
  BY DEF Write
<1>3. j \in Jobs /\ j.op \in Ops /\ j.op # "save"
  BY <1>1, <1>2, ReadsAndWrites, StepOps
<1>4. data' = [data EXCEPT ![Writes(i)] = Result(i)]
  BY <1>1, WriteIsWhole
<1>5. Matches(i) /\ PastRead(i) /\ HasRead(i)
  BY <1>1, <1>2, WriterFinds
<1>6. /\ i \notin Ended /\ Ended' = Ended \cup {i}
      /\ j.op # "use" => Given' = Given
      /\ j.op = "use" => Given' = [Given EXCEPT ![i] = files[i]]
  BY <1>1, <1>2, LastStep DEF Endings
<1>7. Serial!Effect(i, j)
  <2>1. CASE j.op = "update"
    <3>1. Writes(i) = "state" /\ base[i] = data["state"]
      BY <1>5, <2>1, Tables DEF Writes, Reads, Matches
    <3>2. Result(i) = [data["state"] EXCEPT ![j.group] = i]
      BY <2>1, <3>1 DEF Result
    <3> QED
      BY <1>4, <1>6, <2>1, <3>1, <3>2 DEF Serial!Effect, Serial!Update
  <2>2. CASE j.op \in {"generate", "chainKeys"}
    <3>1. Writes(i) = "validators" /\ base[i] = data["validators"]
      BY <1>5, <2>2, Tables DEF Writes, Reads, Matches
    <3>2. NewKeys(i, j, Len(looked[i])) = NewKeys(i, j, Len(data["validators"].deposits))
      BY <1>5, <2>2 DEF NewKeys, Matches
    <3>3. Result(i) = Extended(data["validators"],
                               NewKeys(i, j, Len(data["validators"].deposits)))
      BY <2>2, <3>1, <3>2 DEF Result
    <3> QED
      BY <1>4, <1>6, <2>2, <3>1, <3>3, SameOperators DEF Serial!Effect, Serial!Generate
  <2>3. CASE j.op = "use"
    <3>1. Writes(i) = "validators" /\ base[i] = data["validators"]
          /\ looked[i] = data["validators"].deposits
      BY <1>5, <2>3, Tables DEF Writes, Reads, Matches
    <3>2. files[i] = Unused(data["validators"].deposits)
          /\ Unused(data["validators"].deposits) # {}
      BY <1>1, <1>2, <1>5, <2>3, <3>1 DEF UseInHand
    <3>3. data["validators"] \in Ledgers
      BY <1>1 DEF TypeOK, Contents, Kind
    <3>4. Result(i) = [deposits |-> MarkedUsed(data["validators"].deposits),
                       keystores |-> data["validators"].keystores]
      BY <2>3, <3>1 DEF Result
    <3>5. Result(i) = [data["validators"] EXCEPT
                          !.deposits = MarkedUsed(data["validators"].deposits)]
      BY <3>3, <3>4 DEF Ledgers
    <3> QED
      BY <1>4, <1>6, <2>3, <3>1, <3>2, <3>5, SameOperators DEF Serial!Effect, Serial!Use
  <2>4. CASE j.op = "create"
    <3>1. Writes(i) = "wallets" /\ Result(i) = i
      BY <2>4, Tables DEF Writes, Result
    <3> QED
      BY <1>4, <1>5, <1>6, <2>4, <3>1, SameOperators DEF Serial!Effect, Serial!Create, Matches
  <2>5. CASE j.op = "restore"
    <3>1. Writes(i) = "state" /\ base[i] = data["configMap"] /\ Result(i) = base[i]
      BY <1>5, <2>5, Tables DEF Writes, Reads, Matches, Result
    <3> QED
      BY <1>4, <1>6, <2>5, <3>1 DEF Serial!Effect, Serial!Restore
  <2> QED
    BY <1>3, <2>1, <2>2, <2>3, <2>4, <2>5 DEF Ops
<1> QED
  BY <1>6, <1>7

LEMMA PushIsSerial ==
    ASSUME IInv, ~disturbed', NEW i \in Invocations, Push(i)
    PROVE  i \notin Ended /\ Serial!Effect(i, job[i]) /\ Ended' = Ended \cup {i}
<1>1. TypeOK /\ Accounts
  BY DEF IInv
<1>2. job[i].op = "save" /\ Writes(i) = "configMap" /\ Result(i) = data["state"]
  BY <1>1, PusherFinds
<1>3. i \notin Ended /\ Ended' = Ended \cup {i} /\ Given' = Given
  BY <1>1, <1>2, LastStep DEF Push, Endings
<1>4. Serial!Effect(i, job[i])
  BY <1>2, <1>3 DEF Push, Serial!Effect, Serial!Save
<1> QED
  BY <1>3, <1>4

\* The step that shows is the effect of the job of whoever takes it.
Takes(i) == i \notin Ended /\ Serial!Effect(i, job[i]) /\ Ended' = Ended \cup {i}

LEMMA VisibleStep ==
    ASSUME IInv, [Next]_vars, ~disturbed'
    PROVE  (\E i \in Invocations : Takes(i)) \/ UNCHANGED <<data, Given, Ended>>
<1>1. TypeOK
  BY DEF IInv
<1>2. ASSUME NEW i \in Invocations,
             Look(i) \/ Hand(i) \/ Upload(i) \/ Read(i) \/ Reread(i) \/ Check(i)
             \/ Rename(i) \/ Open(i) \/ Kill(i)
      PROVE  UNCHANGED <<data, Given, Ended>>
  BY <1>1, <1>2, QuietIsStutter
<1>3. ASSUME NEW i \in Invocations, Write(i) PROVE Takes(i)
  <2>1. ~disturbed
    BY <1>3 DEF Write
  <2> QED
    BY <1>3, <2>1, WriteIsSerial DEF Takes
<1>4. ASSUME NEW i \in Invocations, Push(i) PROVE Takes(i)
  BY <1>4, PushIsSerial DEF Takes
<1>5. CASE UNCHANGED vars
  BY <1>5 DEF vars, Given, Ended
<1> QED
  BY <1>2, <1>3, <1>4, <1>5 DEF Next, AllEnded

LEMMA StepIsSerial ==
    IInv /\ [Next]_vars => [disturbed' \/ Serial!Next]_<<data, Given, Ended>>
<1> SUFFICES ASSUME IInv, [Next]_vars, ~disturbed'
             PROVE  Serial!Next \/ UNCHANGED <<data, Given, Ended>>
  OBVIOUS
<1>1. \A i \in Invocations : job[i] \in Jobs
  BY ReadsAndWrites DEF IInv
<1> QED
  BY <1>1, VisibleStep DEF Takes, Serial!Next

LEMMA InitIsSerial == Init => Serial!Init
<1> SUFFICES ASSUME Init PROVE Serial!Init
  OBVIOUS
<1>1. ASSUME NEW i \in Invocations PROVE pc[i] # "done"
  <2>1. TypeOK
    BY InitType
  <2>2. job[i].op \in Ops
    BY <2>1, ReadsAndWrites
  <2>3. pc[i] = First[job[i].op]
    BY DEF Init
  <2>4. First[job[i].op] \in {"read", "look", "upload", "check"}
    BY <2>2, OpTables
  <2> QED
    BY <2>3, <2>4
<1>2. Ended = {}
  BY <1>1 DEF Ended
<1>3. Given = [i \in Invocations |-> {}]
  BY <1>2 DEF Given
<1> QED
  BY <1>2, <1>3, SameOperators DEF Init, Serial!Init

\* Commands that do not meet on a file, none of which dies writing one, take
\* effect one after the other.
THEOREM Serializable == Spec => SerialUnlessDisturbed
<1>1. Init => Serial!Init
  BY InitIsSerial
<1>2. IInv /\ [Next]_vars => [disturbed' \/ Serial!Next]_<<data, Given, Ended>>
  BY StepIsSerial
<1> QED
  BY <1>1, <1>2, Inductive, PTL DEF Spec, SerialUnlessDisturbed

-----------------------------------------------------------------------------
(***************************************************************************)
(* Validator keys.  Under the fixed mnemonic the index of a key is its     *)
(* place, counted from zero, unless a chain generate-validator-keys has    *)
(* derived it; one that makes up its mnemonic is the only one to have it.  *)
(***************************************************************************)
Deposits == data.validators.deposits

\* The finished chain generate-validator-keys that have derived the key.
Derivers(key) ==
    {i \in Ended : /\ job[i].op = "chainKeys"
                   /\ key.mnemonic = Mnemonic(i, job[i])
                   /\ key.index \in job[i].from..job[i].from + job[i].count - 1}

DerivedTwice(key) ==
    \/ \E i, k \in Derivers(key) : i # k
    \/ key.mnemonic = Devnet /\ Derivers(key) # {}

LedgerGood ==
    /\ data.validators.keystores = KeysOf(Deposits)
    /\ \A p \in 1..Len(Deposits) : \A key \in Keys :
          Deposits[p].key = key =>
              (key.mnemonic = Devnet /\ key.index = p - 1) \/ Derivers(key) # {}
    /\ \A p, q \in 1..Len(Deposits) : \A key \in Keys :
          Deposits[p].key = key /\ Deposits[q].key = key /\ p # q => DerivedTwice(key)

GivenGood ==
    /\ \A i \in Invocations : \A key \in Given[i] :
          \E p \in 1..Len(Deposits) : Deposits[p].key = key /\ Deposits[p].used
    /\ \A i, k \in Invocations : i # k =>
          \A key \in Keys : key \in Given[i] /\ key \in Given[k] => DerivedTwice(key)

Uploaded(i) == NewKeys(i, job[i], 0)

RecordedGood ==
    \A i \in Ended : job[i].op = "chainKeys" =>
        \A p \in DOMAIN Uploaded(i) :
            \E q \in 1..Len(Deposits) : Deposits[q].key = Uploaded(i)[p].key

SecretGood ==
    secret.by \in Invocations => /\ job[secret.by].op = "chainKeys"
                                 /\ secret.keystores = KeysOf(Uploaded(secret.by))

KeysInv == /\ SecretGood
           /\ ~disturbed => LedgerGood /\ GivenGood /\ RecordedGood

\* A sequence that agrees with two others, one behind the other.
LEMMA JoinedEqual ==
    ASSUME NEW S, NEW a \in Seq(S), NEW b \in Seq(S), NEW c \in Seq(S),
           Len(c) = Len(a) + Len(b),
           \A p \in 1..Len(c) : c[p] = IF p <= Len(a) THEN a[p] ELSE b[p - Len(a)]
    PROVE  c = a \o b
<1>1. /\ a \o b \in Seq(S) /\ Len(a \o b) = Len(c)
      /\ \A p \in 1..Len(c) : (a \o b)[p] = c[p]
  BY ConcatProperties
<1> QED
  BY <1>1, SeqEqual

LEMMA ExtendedEntries ==
    ASSUME NEW d \in Seq(Entries), NEW n \in Seq(Entries)
    PROVE  /\ d \o n \in Seq(Entries)
           /\ Len(d \o n) = Len(d) + Len(n)
           /\ \A p \in 1..Len(d) : (d \o n)[p] = d[p]
           /\ \A p \in 1..Len(n) : (d \o n)[Len(d) + p] = n[p]
           /\ \A p \in 1..Len(d \o n) : p > Len(d) =>
                 p - Len(d) \in 1..Len(n) /\ (d \o n)[p] = n[p - Len(d)]
           /\ KeysOf(d \o n) = KeysOf(d) \o KeysOf(n)
<1>1. /\ d \o n \in Seq(Entries)
      /\ Len(d \o n) = Len(d) + Len(n)
      /\ \A p \in 1..Len(d) + Len(n) :
            (d \o n)[p] = IF p <= Len(d) THEN d[p] ELSE n[p - Len(d)]
  BY ConcatProperties
<1>2. /\ KeysOf(d) \in Seq(Keys) /\ KeysOf(n) \in Seq(Keys) /\ KeysOf(d \o n) \in Seq(Keys)
      /\ Len(KeysOf(d)) = Len(d) /\ Len(KeysOf(n)) = Len(n)
      /\ Len(KeysOf(d \o n)) = Len(d) + Len(n)
      /\ \A p \in 1..Len(d) : KeysOf(d)[p] = d[p].key
      /\ \A p \in 1..Len(n) : KeysOf(n)[p] = n[p].key
      /\ \A p \in 1..Len(d) + Len(n) : KeysOf(d \o n)[p] = (d \o n)[p].key
  BY <1>1, KeysOfType
<1>3. ASSUME NEW p \in 1..Len(d) + Len(n)
      PROVE  KeysOf(d \o n)[p] = IF p <= Len(d) THEN KeysOf(d)[p] ELSE KeysOf(n)[p - Len(d)]
  <2>1. Len(d) \in Nat /\ Len(n) \in Nat
    BY LenProperties
  <2>2. CASE p <= Len(d)
    <3>1. p \in 1..Len(d)
      BY <2>1, <2>2
    <3>2. (d \o n)[p] = d[p]
      BY <1>1, <2>2
    <3>3. KeysOf(d \o n)[p] = d[p].key /\ KeysOf(d)[p] = d[p].key
      BY <1>2, <3>1, <3>2
    <3> QED
      BY <2>2, <3>3, Zenon
  <2>3. CASE ~(p <= Len(d))
    <3>1. p - Len(d) \in 1..Len(n)
      BY <2>1, <2>3
    <3>2. (d \o n)[p] = n[p - Len(d)]
      BY <1>1, <2>3
    <3>3. KeysOf(d \o n)[p] = n[p - Len(d)].key /\ KeysOf(n)[p - Len(d)] = n[p - Len(d)].key
      BY <1>2, <3>1, <3>2
    <3> QED
      BY <2>3, <3>3, Zenon
  <2> QED
    BY <2>2, <2>3
<1>4. \A a, b, c \in Seq(Keys) :
          /\ Len(c) = Len(a) + Len(b)
          /\ \A p \in 1..Len(c) : c[p] = IF p <= Len(a) THEN a[p] ELSE b[p - Len(a)]
          => c = a \o b
  BY JoinedEqual
<1>5. KeysOf(d \o n) = KeysOf(d) \o KeysOf(n)
  <2>1. Len(KeysOf(d \o n)) = Len(KeysOf(d)) + Len(KeysOf(n))
    BY <1>2
  <2>2. \A p \in 1..Len(KeysOf(d \o n)) :
           KeysOf(d \o n)[p] = IF p <= Len(KeysOf(d)) THEN KeysOf(d)[p]
                                                     ELSE KeysOf(n)[p - Len(KeysOf(d))]
    BY <1>2, <1>3
  <2> QED
    BY <1>2, <1>4, <2>1, <2>2, Zenon
<1> QED
  BY <1>1, <1>5

\* What a visible step makes of the keys.
LEMMA EffectOnKeys ==
    ASSUME TypeOK, NEW i \in Invocations, Takes(i)
    PROVE  \/ /\ job[i].op \notin {"generate", "chainKeys", "use"}
              /\ data'.validators = data.validators /\ Given' = Given
           \/ /\ job[i].op \in {"generate", "chainKeys"}
              /\ data'.validators = Extended(data.validators,
                                             NewKeys(i, job[i], Len(Deposits)))
              /\ Given' = Given
           \/ /\ job[i].op = "use"
              /\ data'.validators = [deposits  |-> MarkedUsed(Deposits),
                                     keystores |-> data.validators.keystores]
              /\ Given' = [Given EXCEPT ![i] = Unused(Deposits)]
<1> DEFINE j == job[i]
<1>1. Serial!Effect(i, j) /\ data \in Contents /\ data.validators \in Ledgers
  BY DEF Takes, TypeOK, Contents, Kind
<1>2. CASE Serial!Update(i, j) \/ Serial!Create(i, j) \/ Serial!Save(j) \/ Serial!Restore(j)
  BY <1>1, <1>2 DEF Serial!Update, Serial!Create, Serial!Save, Serial!Restore, Contents
<1>3. CASE Serial!Generate(i, j)
  BY <1>1, <1>3, SameOperators DEF Serial!Generate, Contents, Deposits
<1>4. CASE Serial!Use(i, j)
  <2>1. data'.validators = [data.validators EXCEPT !.deposits = MarkedUsed(Deposits)]
    BY <1>1, <1>4, SameOperators DEF Serial!Use, Contents, Deposits
  <2> QED
    BY <1>1, <1>4, <2>1, SameOperators DEF Serial!Use, Ledgers, Deposits
<1> QED
  BY <1>1, <1>2, <1>3, <1>4 DEF Serial!Effect

LEMMA LedgerType ==
    ASSUME TypeOK
    PROVE  Deposits \in Seq(Entries) /\ data.validators.keystores \in Seq(Keys)
  BY DEF TypeOK, Contents, Kind, Ledgers, Deposits

\* The keys an invocation derives are its own, or follow on those recorded.
LEMMA NewKeysNamed ==
    ASSUME NEW i \in Invocations, NEW j \in Jobs, j.op \in {"generate", "chainKeys"},
           NEW known \in Nat
    PROVE  \A p \in 1..j.count :
              LET key == NewKeys(i, j, known)[p].key IN
              /\ j.op = "generate" => key.mnemonic = Devnet /\ key.index = known + p - 1
              /\ j.op = "chainKeys" => key.mnemonic = Mnemonic(i, j) /\ key.index = j.from + p - 1
<1> SUFFICES ASSUME NEW p \in 1..j.count
             PROVE  LET key == NewKeys(i, j, known)[p].key IN
                    /\ j.op = "generate" => key.mnemonic = Devnet /\ key.index = known + p - 1
                    /\ j.op = "chainKeys" => key.mnemonic = Mnemonic(i, j) /\ key.index = j.from + p - 1
  OBVIOUS
<1>1. \A m, from : Derived(m, from, j.count, j.wc)[p].key
                   = [mnemonic |-> m, index |-> from + p - 1]
  BY DEF Derived
<1>2. CASE j.op = "generate"
  <2>1. NewKeys(i, j, known) = Derived(Devnet, known, j.count, j.wc)
    BY <1>2 DEF NewKeys
  <2>2. NewKeys(i, j, known)[p].key = [mnemonic |-> Devnet, index |-> known + p - 1]
    BY <1>1, <2>1
  <2> QED
    BY <1>2, <2>2
<1>3. CASE j.op = "chainKeys"
  <2>1. NewKeys(i, j, known) = Derived(Mnemonic(i, j), j.from, j.count, j.wc)
    BY <1>3 DEF NewKeys
  <2>2. NewKeys(i, j, known)[p].key = [mnemonic |-> Mnemonic(i, j), index |-> j.from + p - 1]
    BY <1>1, <2>1
  <2> QED
    BY <1>3, <2>2
<1> QED
  BY <1>2, <1>3

\* Who has derived a key has done so for good.
LEMMA DeriversStay ==
    ASSUME job' = job, Ended \subseteq Ended', NEW key \in Keys
    PROVE  /\ Derivers(key) \subseteq Derivers(key)'
           /\ DerivedTwice(key) => DerivedTwice(key)'
<1>1. Derivers(key) \subseteq Derivers(key)'
  BY DEF Derivers
<1> QED
  BY <1>1 DEF DerivedTwice

\* Each new key is the next under the fixed mnemonic, or one its invocation derives; and
\* no two of them are the same.
LEMMA NewKeysKnown ==
    ASSUME TypeOK, NEW i \in Invocations, i \in Ended', job' = job,
           job[i].op \in {"generate", "chainKeys"}, NEW n,
           n = NewKeys(i, job[i], Len(Deposits))
    PROVE  /\ \A p \in 1..job[i].count : \A key \in Keys :
                 n[p].key = key =>
                     \/ /\ job[i].op = "generate" /\ key.mnemonic = Devnet
                        /\ key.index = Len(Deposits) + p - 1
                     \/ job[i].op = "chainKeys" /\ i \in Derivers(key)'
           /\ \A p, q \in 1..job[i].count : n[p].key = n[q].key => p = q
<1> DEFINE j == job[i]
           known == Len(Deposits)
<1>1. j \in Jobs /\ known \in Nat /\ j.count \in Nat /\ (j.op = "chainKeys" => j.from \in Nat)
  BY ReadsAndWrites, LedgerType, JobFacts, LenProperties
<1>2. \A p \in 1..j.count :
         /\ j.op = "generate" => n[p].key.mnemonic = Devnet /\ n[p].key.index = known + p - 1
         /\ j.op = "chainKeys" => n[p].key.mnemonic = Mnemonic(i, j) /\ n[p].key.index = j.from + p - 1
  <2>1. n = NewKeys(i, j, known) /\ j.op \in {"generate", "chainKeys"}
    OBVIOUS
  <2> HIDE DEF j, known
  <2> QED
    BY <1>1, <2>1, NewKeysNamed
<1>3. ASSUME NEW p \in 1..j.count, NEW key \in Keys, n[p].key = key
      PROVE  \/ j.op = "generate" /\ key.mnemonic = Devnet /\ key.index = known + p - 1
             \/ j.op = "chainKeys" /\ i \in Derivers(key)'
  <2>1. CASE j.op = "generate"
    BY <1>2, <1>3, <2>1
  <2>2. CASE j.op = "chainKeys"
    <3>1. key.mnemonic = Mnemonic(i, j) /\ key.index = j.from + p - 1
      BY <1>2, <1>3, <2>2
    <3>2. key.index \in j.from..j.from + j.count - 1
      BY <1>1, <2>2, <3>1
    <3>3. i \in Derivers(key)'
      BY <2>2, <3>1, <3>2 DEF Derivers
    <3> QED
      BY <2>2, <3>3
  <2> QED
    BY <2>1, <2>2
<1>4. ASSUME NEW p \in 1..j.count, NEW q \in 1..j.count, n[p].key = n[q].key
      PROVE  p = q
  <2>1. n[p].key.index = n[q].key.index
    BY <1>4
  <2>2. PICK from \in Nat : n[p].key.index = from + p - 1 /\ n[q].key.index = from + q - 1
    BY <1>1, <1>2
  <2>3. p \in Nat /\ q \in Nat
    BY <1>1
  <2>4. from + p - 1 = from + q - 1
    BY <2>1, <2>2
  <2> QED
    BY <2>2, <2>3, <2>4
<1> QED
  BY <1>3, <1>4

LEMMA ExtensionKeepsLedger ==
    ASSUME TypeOK, LedgerGood, NEW i \in Invocations, i \notin Ended,
           Ended' = Ended \cup {i}, job' = job,
           job[i].op \in {"generate", "chainKeys"},
           data'.validators = Extended(data.validators, NewKeys(i, job[i], Len(Deposits)))
    PROVE  LedgerGood'
<1> DEFINE d == Deposits
           n == NewKeys(i, job[i], Len(d))
           count == job[i].count
<1>1. /\ d \in Seq(Entries) /\ Len(d) \in Nat
      /\ n \in Seq(Entries) /\ Len(n) = count /\ count \in Nat
  BY ReadsAndWrites, LedgerType, NewKeysType, JobFacts, LenProperties
<1>2. Deposits' = d \o n /\ data'.validators.keystores = data.validators.keystores \o KeysOf(n)
  <2>1. data'.validators = [deposits  |-> data.validators.deposits \o n,
                            keystores |-> data.validators.keystores \o KeysOf(n)]
    BY Zenon DEF Extended
  <2> HIDE DEF n
  <2> QED
    BY <2>1 DEF Deposits
<1>3. data'.validators.keystores = KeysOf(Deposits')
  <2>1. KeysOf(d \o n) = KeysOf(d) \o KeysOf(n)
    BY <1>1, ExtendedEntries
  <2>2. data.validators.keystores = KeysOf(d)
    BY DEF LedgerGood
  <2> HIDE DEF n
  <2> QED
    BY <1>2, <2>1, <2>2
<1> DEFINE e == Deposits'
<1>4. /\ e \in Seq(Entries) /\ Len(e) = Len(d) + Len(n)
      /\ \A p \in 1..Len(e) : \/ p \in 1..Len(d) /\ e[p] = d[p]
                              \/ /\ p > Len(d) /\ p - Len(d) \in 1..count
                                 /\ e[p] = n[p - Len(d)]
  <2>1. /\ d \o n \in Seq(Entries)
        /\ Len(d \o n) = Len(d) + Len(n)
        /\ \A p \in 1..Len(d) : (d \o n)[p] = d[p]
        /\ \A p \in 1..Len(d \o n) : p > Len(d) =>
              p - Len(d) \in 1..Len(n) /\ (d \o n)[p] = n[p - Len(d)]
    BY <1>1, ExtendedEntries
  <2> HIDE DEF d, n, count
  <2> QED
    BY <1>1, <1>2, <2>1
<1>5. i \in Ended' /\ Ended \subseteq Ended'
  OBVIOUS
<1>6. \A p \in 1..count : \A key \in Keys :
          n[p].key = key =>
              \/ job[i].op = "generate" /\ key.mnemonic = Devnet /\ key.index = Len(d) + p - 1
              \/ job[i].op = "chainKeys" /\ i \in Derivers(key)'
  BY <1>5, NewKeysKnown
<1>7. \A p, q \in 1..count : n[p].key = n[q].key => p = q
  BY <1>5, NewKeysKnown
<1>8. /\ \A p \in 1..Len(d) : \A key \in Keys :
            d[p].key = key => (key.mnemonic = Devnet /\ key.index = p - 1) \/ Derivers(key) # {}
      /\ \A p, q \in 1..Len(d) : \A key \in Keys :
            d[p].key = key /\ d[q].key = key /\ p # q => DerivedTwice(key)
  BY DEF LedgerGood
<1>9. \A key \in Keys : /\ Derivers(key) \subseteq Derivers(key)' /\ Derivers(key) \subseteq Ended
                        /\ DerivedTwice(key) => DerivedTwice(key)'
  BY <1>5, DeriversStay DEF Derivers
<1> HIDE DEF d, n, count, e
\* An old place or a new one.
<1> DEFINE Old(p) == p \in 1..Len(d) /\ e[p] = d[p]
           New(p) == p > Len(d) /\ p - Len(d) \in 1..count /\ e[p] = n[p - Len(d)]
<1>10. \A p \in 1..Len(e) : Old(p) \/ New(p)
  BY <1>4
<1>11. ASSUME NEW p \in 1..Len(e), NEW key \in Keys, e[p].key = key
       PROVE  (key.mnemonic = Devnet /\ key.index = p - 1) \/ Derivers(key)' # {}
  <2>1. CASE Old(p)
    BY <1>8, <1>9, <1>11, <2>1
  <2>2. CASE New(p)
    <3>1. \/ key.mnemonic = Devnet /\ key.index = Len(d) + (p - Len(d)) - 1
          \/ i \in Derivers(key)'
      BY <1>6, <1>11, <2>2
    <3>2. Len(d) + (p - Len(d)) - 1 = p - 1
      BY <1>1, <2>2
    <3> QED
      BY <3>1, <3>2
  <2> QED
    BY <1>10, <2>1, <2>2
<1>12. ASSUME NEW p \in 1..Len(e), NEW q \in 1..Len(e), NEW key \in Keys,
              e[p].key = key, e[q].key = key, Old(p), New(q)
       PROVE  DerivedTwice(key)'
  <2>1. (key.mnemonic = Devnet /\ key.index = p - 1) \/ Derivers(key) # {}
    BY <1>8, <1>12
  <2>2. \/ /\ job[i].op = "generate" /\ key.mnemonic = Devnet
           /\ key.index = Len(d) + (q - Len(d)) - 1
        \/ i \in Derivers(key)'
    BY <1>6, <1>12
  <2>3. CASE i \in Derivers(key)'
    <3>1. CASE key.mnemonic = Devnet
      BY <2>3, <3>1 DEF DerivedTwice
    <3>2. CASE Derivers(key) # {}
      <4>1. PICK k \in Derivers(key) : TRUE
        BY <3>2
      <4>2. k \in Derivers(key)' /\ k # i
        BY <1>9, <4>1
      <4> QED
        BY <2>3, <4>2 DEF DerivedTwice
    <3> QED
      BY <2>1, <3>1, <3>2
  <2>4. CASE key.mnemonic = Devnet /\ key.index = Len(d) + (q - Len(d)) - 1
    <3>1. p # q /\ p \in Nat /\ q \in Nat /\ Len(d) \in Nat
      BY <1>1, <1>12
    <3>2. key.index # p - 1
      BY <2>4, <3>1
    <3>3. Derivers(key)' # {}
      BY <1>9, <2>1, <3>2
    <3> QED
      BY <2>4, <3>3 DEF DerivedTwice
  <2> QED
    BY <2>2, <2>3, <2>4
<1>13. ASSUME NEW p \in 1..Len(e), NEW q \in 1..Len(e), NEW key \in Keys,
              e[p].key = key, e[q].key = key, p # q
       PROVE  DerivedTwice(key)'
  <2>1. CASE Old(p) /\ Old(q)
    BY <1>8, <1>9, <1>13, <2>1
  <2>2. CASE New(p) /\ New(q)
    <3>1. p - Len(d) = q - Len(d)
      BY <1>7, <1>13, <2>2
    <3>2. p \in Nat /\ q \in Nat /\ Len(d) \in Nat
      BY <1>1
    <3> QED
      BY <1>13, <3>1, <3>2
  <2>3. CASE (Old(p) /\ New(q)) \/ (New(p) /\ Old(q))
    BY <1>12, <1>13, <2>3
  <2> HIDE DEF Old, New
  <2> QED
    BY <1>10, <2>1, <2>2, <2>3
<1> QED
  BY <1>3, <1>11, <1>13 DEF LedgerGood, e

\* Nothing recorded is lost: an entry keeps its place and its key, and its mark.
Kept(d, e) == /\ Len(d) <= Len(e)
              /\ \A p \in 1..Len(d) : /\ e[p].key = d[p].key
                                      /\ d[p].used => e[p].used

LEMMA ExtensionKeepsEntries ==
    ASSUME TypeOK, NEW i \in Invocations, job[i].op \in {"generate", "chainKeys"},
           data'.validators = Extended(data.validators, NewKeys(i, job[i], Len(Deposits)))
    PROVE  /\ Deposits' = Deposits \o NewKeys(i, job[i], Len(Deposits))
           /\ Kept(Deposits, Deposits')
<1> DEFINE n == NewKeys(i, job[i], Len(Deposits))
<1>1. Deposits \in Seq(Entries) /\ Len(Deposits) \in Nat /\ n \in Seq(Entries) /\ Len(n) \in Nat
  BY ReadsAndWrites, LedgerType, NewKeysType, LenProperties
<1>2. data'.validators = [deposits  |-> data.validators.deposits \o n,
                          keystores |-> data.validators.keystores \o KeysOf(n)]
  BY Zenon DEF Extended
<1> HIDE DEF n
<1>3. Deposits' = Deposits \o n
  BY <1>2 DEF Deposits
<1>4. /\ Len(Deposits \o n) = Len(Deposits) + Len(n)
      /\ \A p \in 1..Len(Deposits) : (Deposits \o n)[p] = Deposits[p]
  BY <1>1, ExtendedEntries
<1> HIDE DEF Deposits
<1>5. Kept(Deposits, Deposits \o n)
  BY <1>1, <1>4 DEF Kept
<1> QED
  BY <1>3, <1>5 DEF n

LEMMA MarkingKeepsEntries ==
    ASSUME TypeOK,
           data'.validators = [deposits  |-> MarkedUsed(Deposits),
                               keystores |-> data.validators.keystores]
    PROVE  /\ Deposits' = MarkedUsed(Deposits) /\ Len(Deposits') = Len(Deposits)
           /\ Kept(Deposits, Deposits')
           /\ data'.validators.keystores = data.validators.keystores
           /\ KeysOf(Deposits') = KeysOf(Deposits)
<1>1. Deposits \in Seq(Entries) /\ Len(Deposits) \in Nat
  BY LedgerType, LenProperties
<1>2. Deposits' = MarkedUsed(Deposits) /\ data'.validators.keystores = data.validators.keystores
  BY DEF Deposits
<1>3. /\ DOMAIN MarkedUsed(Deposits) = 1..Len(Deposits)
      /\ MarkedUsed(Deposits) \in Seq(Entries)
      /\ \A p \in 1..Len(Deposits) :
            /\ MarkedUsed(Deposits)[p].key = Deposits[p].key
            /\ Deposits[p].used => MarkedUsed(Deposits)[p].used
  BY <1>1, MarkedUsedType
<1> HIDE DEF Deposits
<1>4. Len(MarkedUsed(Deposits)) = Len(Deposits)
  BY <1>1, <1>3
<1>5. Kept(Deposits, MarkedUsed(Deposits))
  BY <1>1, <1>3, <1>4 DEF Kept
<1>6. KeysOf(MarkedUsed(Deposits)) = KeysOf(Deposits)
  BY <1>1, <1>3 DEF KeysOf
<1> QED
  BY <1>2, <1>4, <1>5, <1>6

LEMMA MarkingKeepsLedger ==
    ASSUME TypeOK, LedgerGood, NEW i \in Invocations, Ended' = Ended \cup {i}, job' = job,
           data'.validators = [deposits  |-> MarkedUsed(Deposits),
                               keystores |-> data.validators.keystores]
    PROVE  LedgerGood'
<1>1. /\ Len(Deposits') = Len(Deposits)
      /\ \A p \in 1..Len(Deposits) : Deposits'[p].key = Deposits[p].key
      /\ data'.validators.keystores = KeysOf(Deposits')
  BY MarkingKeepsEntries DEF Kept, LedgerGood
<1>2. \A key \in Keys : /\ Derivers(key) \subseteq Derivers(key)'
                        /\ DerivedTwice(key) => DerivedTwice(key)'
  BY DeriversStay
<1>3. \A p \in 1..Len(Deposits') : \A key \in Keys :
          Deposits'[p].key = key =>
              (key.mnemonic = Devnet /\ key.index = p - 1) \/ Derivers(key)' # {}
  BY <1>1, <1>2 DEF LedgerGood
<1>4. \A p, q \in 1..Len(Deposits') : \A key \in Keys :
          Deposits'[p].key = key /\ Deposits'[q].key = key /\ p # q => DerivedTwice(key)'
  BY <1>1, <1>2 DEF LedgerGood
<1> QED
  BY <1>1, <1>3, <1>4 DEF LedgerGood

\* A key that has been given away is used for good, and only unused ones are given.
LEMMA GivenStays ==
    ASSUME TypeOK, TypeOK', LedgerGood, GivenGood, NEW i \in Invocations, Takes(i), job' = job,
           Kept(Deposits, Deposits')
    PROVE  GivenGood'
<1>0. \A key \in Keys : DerivedTwice(key) => DerivedTwice(key)'
  BY DeriversStay DEF Takes
<1>1. Deposits \in Seq(Entries) /\ Len(Deposits) \in Nat /\ Len(Deposits') \in Nat
      /\ 1..Len(Deposits) \subseteq 1..Len(Deposits')
  <2>1. Deposits \in Seq(Entries)
    BY LedgerType
  <2>2. Deposits' \in Seq(Entries)
    BY DEF TypeOK, Contents, Kind, Ledgers, Deposits
  <2> QED
    BY <2>1, <2>2, LenProperties DEF Kept
<1>2. \A k \in Invocations : \A key \in Given[k] :
          \E p \in 1..Len(Deposits') : Deposits'[p].key = key /\ Deposits'[p].used
  BY <1>1 DEF GivenGood, Kept
<1>3. CASE Given' = Given
  BY <1>0, <1>2, <1>3 DEF GivenGood
<1>4. CASE /\ data'.validators = [deposits  |-> MarkedUsed(Deposits),
                                  keystores |-> data.validators.keystores]
           /\ Given' = [Given EXCEPT ![i] = Unused(Deposits)]
  <2>1. Given' = [k \in Invocations |-> IF k = i THEN Unused(Deposits) ELSE Given[k]]
    BY <1>4 DEF Given
  <2>2. ASSUME NEW key \in Unused(Deposits)
        PROVE  \E p \in 1..Len(Deposits) : /\ Deposits[p].key = key /\ ~Deposits[p].used
                                           /\ Deposits'[p].key = key /\ Deposits'[p].used
    <3>1. PICK p \in DOMAIN Deposits : /\ Deposits[p].wc = "vault" /\ ~Deposits[p].used
                                       /\ Deposits[p].key = key
      BY DEF Unused
    <3>2. p \in 1..Len(Deposits)
      BY <1>1
    <3>3. Deposits'[p].key = key /\ Deposits'[p].used
      BY <1>1, <1>4, <3>1, <3>2, MarkedUsedType, MarkingKeepsEntries
    <3> QED
      BY <3>1, <3>2, <3>3
  <2>3. ASSUME NEW k \in Invocations, NEW key \in Keys, key \in Given[k], key \in Unused(Deposits)
        PROVE  DerivedTwice(key)
    <3>1. PICK p \in 1..Len(Deposits) : Deposits[p].key = key /\ ~Deposits[p].used
      BY <2>2, <2>3
    <3>2. PICK q \in 1..Len(Deposits) : Deposits[q].key = key /\ Deposits[q].used
      BY <2>3 DEF GivenGood
    <3> QED
      BY <3>1, <3>2 DEF LedgerGood
  <2>4. \A k \in Invocations : \A key \in Given'[k] :
            \E p \in 1..Len(Deposits') : Deposits'[p].key = key /\ Deposits'[p].used
    BY <1>1, <1>2, <2>1, <2>2
  <2>5. \A k, l \in Invocations : k # l =>
           \A key \in Keys : key \in Given'[k] /\ key \in Given'[l] => DerivedTwice(key)'
    <3>1. \A k, l \in Invocations : k # l =>
             \A key \in Keys : key \in Given'[k] /\ key \in Given'[l] => DerivedTwice(key)
      BY <2>1, <2>3 DEF GivenGood
    <3> QED
      BY <1>0, <3>1
  <2> QED
    BY <2>4, <2>5 DEF GivenGood
<1> QED
  BY <1>3, <1>4, EffectOnKeys

\* The keys of chain generate-validator-keys are recorded when it ends.
LEMMA RecordedStays ==
    ASSUME TypeOK, TypeOK', RecordedGood, NEW i \in Invocations, Takes(i), job' = job,
           Kept(Deposits, Deposits'),
           job[i].op = "chainKeys" =>
               Deposits' = Deposits \o NewKeys(i, job[i], Len(Deposits))
    PROVE  RecordedGood'
<1> SUFFICES ASSUME NEW k \in Ended', job[k].op = "chainKeys", NEW p \in DOMAIN Uploaded(k)
             PROVE  \E q \in 1..Len(Deposits') : Deposits'[q].key = Uploaded(k)[p].key
  <2>1. \A k \in Ended' : Uploaded(k)' = Uploaded(k)
    BY DEF Uploaded
  <2> QED
    BY <2>1 DEF RecordedGood
<1>1. Len(Deposits) \in Nat /\ Len(Deposits') \in Nat
  BY LenProperties DEF TypeOK, Contents, Kind, Ledgers, Deposits
<1>2. CASE k \in Ended
  BY <1>1, <1>2 DEF RecordedGood, Kept
<1>3. CASE k = i
  <2> DEFINE n == NewKeys(i, job[i], Len(Deposits))
  <2>1. n = Uploaded(k) /\ n \in Seq(Entries) /\ DOMAIN n = 1..Len(n) /\ Len(n) \in Nat
    <3>1. job[i] \in Jobs /\ job[i].op = "chainKeys"
      BY <1>3, ReadsAndWrites
    <3>2. n = Uploaded(k)
      BY <1>3, <3>1 DEF NewKeys, Uploaded
    <3> QED
      BY <1>1, <3>1, <3>2, NewKeysType, LenProperties
  <2>2. Deposits' = Deposits \o n /\ Deposits \in Seq(Entries)
    BY <1>3, LedgerType
  <2> HIDE DEF n, Deposits
  <2>3. /\ Len(Deposits \o n) = Len(Deposits) + Len(n)
        /\ \A q \in 1..Len(n) : (Deposits \o n)[Len(Deposits) + q] = n[q]
    BY <2>1, <2>2, ExtendedEntries
  <2>4. Len(Deposits) + p \in 1..Len(Deposits')
        /\ Deposits'[Len(Deposits) + p] = Uploaded(k)[p]
    BY <1>1, <2>1, <2>2, <2>3
  <2> QED
    BY <2>4
<1> QED
  BY <1>2, <1>3 DEF Takes

LEMMA InitKeys == Init => KeysInv
<1> SUFFICES ASSUME Init PROVE KeysInv
  OBVIOUS
<1>1. Deposits = <<>> /\ data.validators.keystores = <<>> /\ Len(Deposits) = 0
  BY DEF Init, Blank, Deposits
<1>2. Ended = {} /\ Given = [i \in Invocations |-> {}]
  BY InitIsSerial DEF Serial!Init
<1>3. LedgerGood
  BY <1>1 DEF LedgerGood, KeysOf
<1>4. GivenGood /\ RecordedGood
  BY <1>2 DEF GivenGood, RecordedGood
<1>5. SecretGood
  BY NamesAssumption DEF Init, SecretGood
<1> QED
  BY <1>3, <1>4, <1>5 DEF KeysInv

LEMMA NextKeys == IInv /\ IInv' /\ KeysInv /\ [Next]_vars => KeysInv'
<1> SUFFICES ASSUME IInv, IInv', KeysInv, [Next]_vars PROVE KeysInv'
  OBVIOUS
<1>1. TypeOK /\ TypeOK' /\ job' = job
  BY DEF IInv, Next, Look, Hand, Upload, Read, Reread, Check, Rename, Open, Write, Push,
         Kill, AllEnded, Untouched, vars
<1>2. SecretGood'
  <2>1. CASE secret' = secret
    BY <1>1, <2>1 DEF KeysInv, SecretGood, Uploaded
  <2>2. ASSUME NEW i \in Invocations, Upload(i) PROVE SecretGood'
    <3>1. secret' = [by |-> i, keystores |-> KeysOf(Uploaded(i))] /\ job[i].op = "chainKeys"
      BY <1>1, <2>2, StepOps DEF Upload, Uploaded
    <3> QED
      BY <1>1, <3>1 DEF SecretGood, Uploaded
  <2> QED
    BY <2>1, <2>2 DEF Next, Look, Hand, Read, Reread, Check, Rename, Open, Write, Push, Kill,
                      AllEnded, Untouched, vars
<1>3. ASSUME ~disturbed' PROVE LedgerGood' /\ GivenGood' /\ RecordedGood'
  <2>1. ~disturbed
    BY <1>3 DEF Next, Look, Hand, Upload, Read, Reread, Check, Rename, Open, Write, Push,
                Kill, AllEnded, Untouched, vars
  <2>2. LedgerGood /\ GivenGood /\ RecordedGood
    BY <2>1 DEF KeysInv
  <2>3. CASE UNCHANGED <<data, Given, Ended>>
    <3>1. /\ Deposits' = Deposits /\ Given' = Given /\ Ended' = Ended
          /\ data'.validators = data.validators
      BY <2>3 DEF Deposits
    <3>5. \A key \in Keys : /\ Derivers(key) \subseteq Derivers(key)'
                            /\ DerivedTwice(key) => DerivedTwice(key)'
      BY <1>1, <3>1, DeriversStay
    <3>2. LedgerGood'
      BY <2>2, <3>1, <3>5 DEF LedgerGood
    <3>3. GivenGood'
      BY <2>2, <3>1, <3>5 DEF GivenGood
    <3>4. RecordedGood'
      BY <1>1, <2>2, <3>1 DEF RecordedGood, Uploaded
    <3> QED
      BY <3>2, <3>3, <3>4
  <2>4. ASSUME NEW i \in Invocations, Takes(i)
        PROVE  LedgerGood' /\ GivenGood' /\ RecordedGood'
    <3>1. i \notin Ended /\ Ended' = Ended \cup {i}
      BY <2>4 DEF Takes
    <3>2. CASE /\ job[i].op \notin {"generate", "chainKeys", "use"}
               /\ data'.validators = data.validators
      <4>1. Deposits' = Deposits
        BY <3>2 DEF Deposits
      <4>2. Len(Deposits) \in Nat
        BY <1>1, LedgerType, LenProperties
      <4>3. Kept(Deposits, Deposits')
        BY <4>1, <4>2 DEF Kept
      <4>5. \A key \in Keys : /\ Derivers(key) \subseteq Derivers(key)'
                              /\ DerivedTwice(key) => DerivedTwice(key)'
        BY <1>1, <3>1, DeriversStay
      <4>4. LedgerGood'
        BY <2>2, <3>2, <4>1, <4>5 DEF LedgerGood
      <4> QED
        BY <1>1, <2>2, <2>4, <3>2, <4>3, <4>4, GivenStays, RecordedStays
    <3>3. CASE /\ job[i].op \in {"generate", "chainKeys"}
               /\ data'.validators = Extended(data.validators,
                                              NewKeys(i, job[i], Len(Deposits)))
      <4>1. /\ Deposits' = Deposits \o NewKeys(i, job[i], Len(Deposits))
            /\ Kept(Deposits, Deposits')
        BY <1>1, <3>3, ExtensionKeepsEntries
      <4>2. LedgerGood'
        BY <1>1, <2>2, <3>1, <3>3, ExtensionKeepsLedger
      <4> QED
        BY <1>1, <2>2, <2>4, <4>1, <4>2, GivenStays, RecordedStays
    <3>4. CASE /\ job[i].op = "use"
               /\ data'.validators = [deposits  |-> MarkedUsed(Deposits),
                                      keystores |-> data.validators.keystores]
      <4>1. Kept(Deposits, Deposits')
        BY <1>1, <3>4, MarkingKeepsEntries
      <4>2. LedgerGood'
        BY <1>1, <2>2, <3>1, <3>4, MarkingKeepsLedger
      <4> QED
        BY <1>1, <2>2, <2>4, <3>4, <4>1, <4>2, GivenStays, RecordedStays
    <3> QED
      BY <1>1, <2>4, <3>2, <3>3, <3>4, EffectOnKeys
  <2> QED
    BY <1>3, <2>3, <2>4, VisibleStep
<1> QED
  BY <1>2, <1>3 DEF KeysInv

LEMMA KeysInductive == Spec => [](IInv /\ KeysInv)
<1>1. Init => KeysInv
  BY InitKeys
<1>2. IInv /\ IInv' /\ KeysInv /\ [Next]_vars => KeysInv'
  BY NextKeys
<1> QED
  BY <1>1, <1>2, Inductive, PTL DEF Spec

\* A mnemonic that is made up is derived from by its own invocation only.
LEMMA TwiceIsAsked ==
    ASSUME TypeOK, NEW key \in Keys, DerivedTwice(key)
    PROVE  AskedTwice(key)
<1>1. ASSUME NEW i \in Derivers(key)
      PROVE  /\ i \in Invocations /\ job[i] \in Jobs
             /\ \/ key.mnemonic = i
                \/ key.mnemonic \in Phrases /\ i \in AskedFor(key)
  <2>1. /\ i \in Invocations /\ pc[i] = "done" /\ job[i].op = "chainKeys"
        /\ key.mnemonic = Mnemonic(i, job[i])
        /\ key.index \in job[i].from..job[i].from + job[i].count - 1
    BY <1>1 DEF Derivers, Ended
  <2>2. job[i] \in Jobs
    BY <2>1 DEF TypeOK
  <2>3. job[i].mnemonic \in Phrases \cup {Random}
    BY <2>1, <2>2, JobFacts
  <2>4. CASE job[i].mnemonic = Random
    BY <2>1, <2>2, <2>4 DEF Mnemonic
  <2>5. CASE job[i].mnemonic # Random
    <3>1. key.mnemonic = job[i].mnemonic /\ key.mnemonic \in Phrases
      BY <2>1, <2>3, <2>5 DEF Mnemonic
    <3>2. i \in AskedFor(key)
      BY <2>1, <3>1 DEF AskedFor
    <3> QED
      BY <2>1, <2>2, <3>1, <3>2
  <2> QED
    BY <2>4, <2>5
<1>2. CASE \E i, k \in Derivers(key) : i # k
  <2>1. PICK i \in Derivers(key), k \in Derivers(key) : i # k
    BY <1>2
  <2>2. i \in AskedFor(key) /\ k \in AskedFor(key)
    BY <1>1, <2>1, NamesAssumption
  <2> QED
    BY <2>1, <2>2 DEF AskedTwice
<1>3. CASE key.mnemonic = Devnet /\ Derivers(key) # {}
  <2>1. PICK i \in Derivers(key) : TRUE
    BY <1>3
  <2>2. i \in AskedFor(key)
    BY <1>1, <1>3, <2>1, NamesAssumption
  <2> QED
    BY <1>3, <2>2 DEF AskedTwice
<1> QED
  BY <1>2, <1>3 DEF DerivedTwice

\* No key is recorded twice unless two commands were told to derive it, and every deposit
\* has its keystore.
THEOREM KeysOnce == Spec => []EachKeyOnce
<1>1. IInv /\ KeysInv => EachKeyOnce
  <2> SUFFICES ASSUME IInv, KeysInv, ~disturbed PROVE EachKeyOnce
    BY DEF EachKeyOnce
  <2>1. TypeOK /\ LedgerGood /\ Deposits \in Seq(Entries)
    BY LedgerType DEF IInv, KeysInv
  <2>2. /\ KeysOf(Deposits) \in Seq(Keys) /\ Len(KeysOf(Deposits)) = Len(Deposits)
        /\ DOMAIN KeysOf(Deposits) = 1..Len(Deposits)
        /\ \A p \in 1..Len(Deposits) : KeysOf(Deposits)[p] = Deposits[p].key
        /\ \A p \in 1..Len(Deposits) : KeysOf(Deposits)[p] \in Keys
    BY <2>1, KeysOfType
  <2>3. data.validators.keystores = KeysOf(Deposits)
    BY <2>1 DEF LedgerGood
  <2>4. ASSUME NEW p \in 1..Len(Deposits), NEW q \in 1..Len(Deposits), p # q,
               KeysOf(Deposits)[p] = KeysOf(Deposits)[q]
        PROVE  AskedTwice(KeysOf(Deposits)[p])
    <3>1. PICK key \in Keys : key = KeysOf(Deposits)[p]
      BY <2>2
    <3>2. DerivedTwice(key)
      BY <2>1, <2>2, <2>4, <3>1 DEF LedgerGood
    <3>3. AskedTwice(key)
      BY <2>1, <3>2, TwiceIsAsked
    <3> QED
      BY <3>1, <3>3
  <2> QED
    BY <2>2, <2>3, <2>4 DEF EachKeyOnce, Deposits
<1> QED
  BY <1>1, KeysInductive, PTL

\* No two operators get the same key, unless two commands were told to derive it.
THEOREM OneOwner == Spec => []KeysGoToOneOperator
<1>1. IInv /\ KeysInv => KeysGoToOneOperator
  <2> SUFFICES ASSUME IInv, KeysInv, ~disturbed, NEW i \in Invocations, NEW k \in Invocations,
                      i # k, NEW key \in Given[i] \cap Given[k]
               PROVE  AskedTwice(key)
    BY DEF KeysGoToOneOperator
  <2>1. TypeOK /\ GivenGood
    BY DEF IInv, KeysInv
  <2>2. key \in Keys
    BY <2>1 DEF Given, TypeOK
  <2>3. DerivedTwice(key)
    BY <2>1, <2>2 DEF GivenGood
  <2> QED
    BY <2>1, <2>2, <2>3, TwiceIsAsked
<1> QED
  BY <1>1, KeysInductive, PTL

\* What the cluster validates with is on record.
THEOREM ServedRecorded == Spec => []ServedKeysAreRecorded
<1>1. IInv /\ KeysInv => ServedKeysAreRecorded
  <2> SUFFICES ASSUME IInv, KeysInv, ~disturbed, secret.by \in Ended,
                      NEW p \in DOMAIN secret.keystores
               PROVE  \E q \in DOMAIN data.validators.keystores :
                          data.validators.keystores[q] = secret.keystores[p]
    BY DEF ServedKeysAreRecorded
  <2> DEFINE i == secret.by
  <2>1. TypeOK /\ LedgerGood /\ RecordedGood /\ SecretGood /\ Deposits \in Seq(Entries)
    BY LedgerType DEF IInv, KeysInv
  <2>2. /\ i \in Invocations /\ job[i].op = "chainKeys" /\ job[i] \in Jobs
        /\ secret.keystores = KeysOf(Uploaded(i))
    BY <2>1, ReadsAndWrites DEF SecretGood, Ended
  <2>3. DOMAIN secret.keystores = DOMAIN Uploaded(i)
        /\ secret.keystores[p] = Uploaded(i)[p].key
    BY <2>2 DEF KeysOf
  <2>4. PICK q \in 1..Len(Deposits) : Deposits[q].key = Uploaded(i)[p].key
    BY <2>1, <2>2, <2>3 DEF RecordedGood
  <2>5. /\ data.validators.keystores = KeysOf(Deposits)
        /\ DOMAIN KeysOf(Deposits) = 1..Len(Deposits)
        /\ KeysOf(Deposits)[q] = Deposits[q].key
    BY <2>1, KeysOfType DEF LedgerGood
  <2> QED
    BY <2>3, <2>4, <2>5
<1> QED
  BY <1>1, KeysInductive, PTL
=============================================================================
