--------------------------- MODULE StoreContents ---------------------------
(***************************************************************************)
(* What the files of a network hold, and what the commands make of it:     *)
(* state.json (a value per group), validators.json (deposit data and       *)
(* keystores, two parallel lists) and wallets.yml.  A value is named by    *)
(* the invocation that wrote it.                                           *)
(***************************************************************************)
EXTENDS Naturals, Sequences

CONSTANTS Invocations,   \* the commands run in this network
          Groups,        \* the top-level keys of state.json
          Jobs,          \* what an invocation may be: records with an `op`
          Phrases        \* the mnemonics that --mnemonic may give

Nobody == "nobody"
Devnet == "devnet"   \* the mnemonic written into validator/keys/generate.ts
Random == "random"   \* no mnemonic is given: a fresh one, named by its invocation

ASSUME NamesAssumption ==
    /\ Nobody \notin Invocations /\ Devnet \notin Invocations
    /\ Phrases \cap (Invocations \cup {Random}) = {}

Authors == Invocations \cup {Nobody}

Ops == {"update", "generate", "use", "chainKeys", "create", "save", "restore"}

\* Withdrawal credentials: Lido's withdrawal vault, or any other address.
Credentials == {"vault", "other"}

ASSUME JobsAssumption ==
    \A j \in Jobs :
        /\ j.op \in Ops
        /\ j.op = "update" => j.group \in Groups
        /\ j.op \in {"generate", "chainKeys"} => j.count \in Nat \ {0} /\ j.wc \in Credentials
        /\ j.op = "chainKeys" => j.from \in Nat /\ j.mnemonic \in Phrases \cup {Random}
        /\ j.op = "create" => j.force \in BOOLEAN

-----------------------------------------------------------------------------
Keys == [mnemonic : Invocations \cup Phrases \cup {Devnet}, index : Nat]

Entries == [key : Keys, wc : Credentials, used : BOOLEAN]

Ledgers == [deposits : Seq(Entries), keystores : Seq(Keys)]

\* Keys from..from+count-1 of a mnemonic, as generateDepositData derives them.
Derived(mnemonic, from, count, wc) ==
    [k \in 1..count |-> [key  |-> [mnemonic |-> mnemonic, index |-> from + k - 1],
                         wc   |-> wc,
                         used |-> FALSE]]

KeysOf(entries) == [k \in DOMAIN entries |-> entries[k].key]

\* Mutation: what is recorded already is left out.
ExtendedByReplacing(ledger, entries) ==
    [deposits |-> entries, keystores |-> KeysOf(entries)]

Extended(ledger, entries) ==
    [deposits  |-> ledger.deposits \o entries,
     keystores |-> ledger.keystores \o KeysOf(entries)]

Unused(deposits) ==
    {deposits[p].key : p \in {q \in DOMAIN deposits : deposits[q].wc = "vault" /\ ~deposits[q].used}}

\* Mutation: the unused keys are handed out and stay unused.
NotMarked(deposits) == deposits

MarkedUsed(deposits) ==
    [p \in DOMAIN deposits |->
        IF deposits[p].wc = "vault" THEN [deposits[p] EXCEPT !.used = TRUE] ELSE deposits[p]]

\* chain generate-validator-keys takes the phrase it is given, or makes one up.
Mnemonic(i, j) == IF j.mnemonic = Random THEN i ELSE j.mnemonic

\* Mutation: every generation starts at index 0.
NewKeysFromZero(i, j, known) ==
    IF j.op = "generate" THEN Derived(Devnet, 0, j.count, j.wc)
                         ELSE Derived(Mnemonic(i, j), j.from, j.count, j.wc)

\* What generate and chain generate-validator-keys derive, `known` keys being
\* recorded when they start.
NewKeys(i, j, known) ==
    IF j.op = "generate" THEN Derived(Devnet, known, j.count, j.wc)
                         ELSE Derived(Mnemonic(i, j), j.from, j.count, j.wc)

-----------------------------------------------------------------------------
Files == {"state", "validators", "wallets", "configMap"}

Kind == [state      |-> [Groups -> Authors],
         validators |-> Ledgers,
         wallets    |-> Authors,
         configMap  |-> [Groups -> Authors]]

Contents == [state      : Kind["state"],
             validators : Kind["validators"],
             wallets    : Kind["wallets"],
             configMap  : Kind["configMap"]]

Blank == [state      |-> [g \in Groups |-> Nobody],
          validators |-> [deposits |-> <<>>, keystores |-> <<>>],
          wallets    |-> Nobody,
          configMap  |-> [g \in Groups |-> Nobody]]
=============================================================================
