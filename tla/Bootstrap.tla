------------------------------ MODULE Bootstrap ------------------------------
(***************************************************************************)
(* product/scripts: the two scripts that are to bring the protocol to use, *)
(* bootstrap.mjs on a local validator and bootstrap.devnet.mjs on devnet.  *)
(* A script is a list of steps; it stops at the first that throws, and may *)
(* be run again.  The chain may have been bootstrapped before, by a script *)
(* or by the coordinator's own commands.                                   *)
(*                                                                         *)
(* What the program checks of the two transactions that can be refused is  *)
(* stated here again, field by field; DistinProgram has the instructions   *)
(* themselves.                                                             *)
(***************************************************************************)
EXTENDS AccountLayout, FiniteSets

CONSTANTS
    Admins, DeployKey,      \* wallets; the one of engine/deploy.json
    Mints,
    Placeholders, LiveFeed, \* addresses without a price; a feed with one
    None,
    MaxFaults               \* bound: steps that fail for another reason

VARIABLES
    script, pc,             \* which script runs, and the step it is at
    admin, mint, oracle,    \* its variables
    file,                   \* devnet.json
    protocol, operators,    \* the accounts of the program
    performed,              \* a request was created
    faults

vars == <<script, pc, admin, mint, oracle, file, protocol, operators, performed, faults>>
locals == <<admin, mint, oracle>>

\* main of bootstrap.mjs: each run has a new admin, and a mint and an oracle of
\* its own.
LocalnetSteps == << "airdrop", "mint", "fund", "initialize", "register", "request", "write" >>

\* main of bootstrap.devnet.mjs: one wallet, the mint of the last run.
DevnetSteps == << "load", "reuse", "initialize", "fund", "register", "request", "write" >>

Steps == IF script = "localnet" THEN LocalnetSteps ELSE DevnetSteps

At(step) == pc \in DOMAIN Steps /\ Steps[pc] = step

Continue == pc' = pc + 1

\* main().catch: the process exits, to be started again.
Stop == pc' = 1

-----------------------------------------------------------------------------
\* What a request transaction of the scripts carries, and its address.

SentArgs ==
    << <<"scheme", 1>>, <<"target_vm", 1>>, <<"target_chain_id", 8>>,
       <<"message_hash", 32>>, <<"threshold", 2>>, <<"validity_slots", 8>> >>

SentSeeds == << "request", "protocol", "request_nonce" >>

RequestSeeds == << "request", "requester", "client_nonce" >>

\* The program decodes its arguments from the data, in order, and derives the
\* address anew.
DecodesArgs == DataLength(SentArgs) >= DataLength(CreateArgs)

TakesRequest == operators # {} /\ DecodesArgs /\ SentSeeds = RequestSeeds

\* has_one = bond_mint, address = lst_price_feed, and a positive price there.
TakesOperator ==
    /\ mint = protocol.bond_mint
    /\ oracle = protocol.lst_price_feed
    /\ oracle = LiveFeed

-----------------------------------------------------------------------------
Deployed(p) == [bondMint |-> p.bond_mint, oracle |-> p.lst_price_feed]

Init ==
    /\ script \in {"localnet", "devnet"}
    /\ pc = 1
    /\ admin = None /\ mint = None /\ oracle = None
    /\ protocol \in {None} \cup
          [bond_mint : Mints, lst_price_feed : Placeholders \cup {LiveFeed}]
    /\ operators \in IF protocol = None THEN {{}} ELSE {{}, {DeployKey}}
    /\ file \in {None} \cup (IF protocol = None THEN {} ELSE {Deployed(protocol)})
    /\ performed = FALSE
    /\ faults = 0

\* A mint that neither the chain nor the file knows.
FreshMint(m) ==
    /\ protocol # None => m # protocol.bond_mint
    /\ file # None => m # file.bondMint

FreshAdmin ==
    /\ At("airdrop")
    /\ admin' \in Admins \ (operators \cup {DeployKey})
    /\ Continue
    /\ UNCHANGED <<script, mint, oracle, file, protocol, operators, performed, faults>>

LoadKey ==
    /\ At("load")
    /\ admin' = DeployKey
    /\ Continue
    /\ UNCHANGED <<script, mint, oracle, file, protocol, operators, performed, faults>>

NewMint ==
    /\ mint' \in {m \in Mints : FreshMint(m)}
    /\ oracle' \in Placeholders

CreateMint ==
    /\ At("mint")
    /\ NewMint
    /\ Continue
    /\ UNCHANGED <<script, admin, file, protocol, operators, performed, faults>>

\* The recorded mint and oracle, or new ones.
ReuseMint ==
    /\ At("reuse")
    /\ IF file # None THEN mint' = file.bondMint /\ oracle' = file.oracle ELSE NewMint
    /\ Continue
    /\ UNCHANGED <<script, admin, file, protocol, operators, performed, faults>>

\* The token account exists or is created, and is given tokens.
Fund ==
    /\ At("fund")
    /\ Continue
    /\ UNCHANGED <<script, locals, file, protocol, operators, performed, faults>>

Initialize ==
    /\ protocol = None
    /\ protocol' = [bond_mint |-> mint, lst_price_feed |-> oracle]
    /\ UNCHANGED oracle

\* An existing protocol is kept.
InitializeLocalnet ==
    /\ script = "localnet" /\ At("initialize")
    /\ Initialize \/ (protocol # None /\ UNCHANGED <<protocol, oracle>>)
    /\ Continue
    /\ UNCHANGED <<script, admin, mint, file, operators, performed, faults>>

\* An existing protocol is kept, and its feed taken; not its mint.
InitializeDevnet ==
    /\ script = "devnet" /\ At("initialize")
    /\ \/ Initialize
       \/ protocol # None /\ oracle' = protocol.lst_price_feed /\ UNCHANGED protocol
    /\ Continue
    /\ UNCHANGED <<script, admin, mint, file, operators, performed, faults>>

\* register_operator, unless the wallet has its account.
RegisterOperator ==
    /\ At("register")
    /\ \/ admin \in operators /\ Continue /\ UNCHANGED operators
       \/ /\ admin \notin operators /\ TakesOperator
          /\ operators' = operators \cup {admin}
          /\ Continue
       \/ admin \notin operators /\ ~TakesOperator /\ Stop /\ UNCHANGED operators
    /\ UNCHANGED <<script, locals, file, protocol, performed, faults>>

\* create_signing_request, at the address of the counter just read.
CreateRequest ==
    /\ At("request")
    /\ IF TakesRequest THEN Continue /\ performed' = TRUE
       ELSE Stop /\ UNCHANGED performed
    /\ UNCHANGED <<script, locals, file, protocol, operators, faults>>

\* The file that the next run on devnet reads; localnet.json is not read back.
WriteFile ==
    /\ At("write")
    /\ Continue
    /\ file' = IF script = "devnet" THEN [bondMint |-> mint, oracle |-> oracle] ELSE file
    /\ UNCHANGED <<script, locals, protocol, operators, performed, faults>>

\* A call fails for a reason of its own, or the script is interrupted.
Interrupted ==
    /\ pc \in DOMAIN Steps
    /\ faults < MaxFaults
    /\ faults' = faults + 1
    /\ Stop
    /\ UNCHANGED <<script, locals, file, protocol, operators, performed>>

Step ==
    \/ FreshAdmin \/ LoadKey \/ CreateMint \/ ReuseMint \/ Fund
    \/ InitializeLocalnet \/ InitializeDevnet
    \/ RegisterOperator \/ CreateRequest \/ WriteFile

Next == Step \/ Interrupted

Spec == Init /\ [][Next]_vars /\ WF_vars(Step)

\* "Brings the protocol to a state where the ONE user-facing action
\* (create_signing_request) can succeed, then performs it and confirms the tx."
\* (bootstrap.mjs:3-4): run often enough, a script gets that far.
BroughtToUse == <>performed
=============================================================================
