---------------------------- MODULE MCStateStore ----------------------------
\* StateStore for TLC: four invocations, which stand for each other.
EXTENDS StateStore, TLC

CONSTANTS i1, i2, i3, i4

FourInvocations == {i1, i2, i3, i4}
TwoGroups == {"chain", "lido"}
TwoPhrases == {"phrase", Devnet}

Generate(count, wc) == [op |-> "generate", count |-> count, wc |-> wc]
ChainKeys(mnemonic, count, wc) ==
    [op |-> "chainKeys", mnemonic |-> mnemonic, from |-> 0, count |-> count, wc |-> wc]
Use == [op |-> "use"]

StateJobs == {[op |-> "update", group |-> g] : g \in TwoGroups}
             \cup {[op |-> "save"], [op |-> "restore"]}
KeyJobs == {Generate(1, "vault"), Generate(2, "vault"), Generate(1, "other"), Use,
            ChainKeys(Random, 2, "other"), ChainKeys("phrase", 1, "vault"), ChainKeys(Devnet, 2, "vault")}
WalletJobs == {[op |-> "create", force |-> force] : force \in BOOLEAN}

AllJobs == StateJobs \cup KeyJobs \cup WalletJobs

\* What the invocations are about: three are, and the fourth makes a wallet, which shares
\* no file with the others; or all four, with fewer choices.
Beside(jobs) ==
    \E i \in Invocations :
        /\ job[i] = [op |-> "create", force |-> FALSE]
        /\ \A k \in Invocations \ {i} : job[k] \in jobs

OneSubject == \/ Beside(StateJobs) \/ Beside(KeyJobs) \/ Beside(WalletJobs)
              \/ job \in [Invocations -> {Use, Generate(1, "vault"), ChainKeys("phrase", 1, "vault")}]

MCInit == Init /\ OneSubject

MCSpec == MCInit /\ [][Next]_vars

Symmetry == Permutations(Invocations)
=============================================================================
