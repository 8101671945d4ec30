# Distin in TLA+

Distin lets one Solana account sign for other chains. Operators bond collateral with an
on-chain program; users post signing requests to it; the operators sign off chain with
threshold cryptography (FROST over Ed25519, GG20 over secp256k1); receipts of who signed
and the finished signature are recorded on chain. A web page posts requests, watches
them and, for Ethereum, broadcasts what was signed. This directory holds TLA+ models of
the parts of that system whose correctness is a matter of order and state, TLC runs over
them, and proofs checked by TLAPS.

Paths below are relative to the root of the repository.

## 1. Inventory

### The system's parts

| Part | Source | State it keeps | Operations | Talks to |
|---|---|---|---|---|
| Coordination program | `engine/programs/distin/src` | the singleton `Protocol`; one `Operator` per authority; a `SigningRequest` per (requester, nonce); a `PartialSignature` receipt per (request, operator); bond vault and slash pool | 15 instructions | everybody, through transactions |
| `signerd` | `engine/coordinator/src/signerd.rs` | key files; nothing in memory between polls | bootstrap, post, poll and fulfil (in process, over GG20, over networked FROST) | program (RPC), operator processes |
| Demos, Aptos builder | `engine/coordinator/src/{main,net_demo,eth_demo,aptos_tx}.rs` | none | one scripted pass each | program, operator processes |
| `kobe` | `engine/kobe/src` | FROST secrets behind opaque bytes | DKG parts 1-3, sign rounds 1-2, aggregate; C ABI | called by the Go operators and by `signerd` |
| FROST rounds | `engine/kobe-ecdsa/net/frost.go` | the round an operator is in, frames collected | `RunFrostKeygen`, `RunFrostSign`, `collectRound` | mesh transport, `kobe` |
| GG20 driver, faults | `engine/kobe-ecdsa/net/{protocol,fault}.go` | a tss-lib party, its channels; attestations | `RunKeygen`, `runSign`, `CollectFault` | mesh transport, tss-lib |
| Mesh transport | `engine/kobe-ecdsa/net/{network,transport,tlsconf,pki}.go` | one connection per pair, inbox, error and FIN channels, `finished` flag | `Start`, `readLoop`, `Broadcast`, `SendTo`, `Fin`, `Close` | peers |
| Configuration, shares | `engine/kobe-ecdsa/net/{operator,share,util}.go`, `persist.go` | files | load, save, encrypt | - |
| ECDSA wrapper, encoders | `engine/kobe-ecdsa/{tss,btc,tron,eth}.go` | none | in-process GG20; transaction bytes | tss-lib |
| Commands | `engine/kobe-ecdsa/cmd/*` | none | one phase of an operator per process | the above |
| Product page and client | `product/web/app/{page.tsx,distin.ts,eth.ts}`, copied to `web/app/app` | the feed of requests, the view, the wallet, the protocol, dashboard and activity list as last read; calls under way | connect, post, poll, reveal, assemble, broadcast, scan | program (RPC), Ethereum node, wallet extension |
| Landing page | `web/app/{page.tsx,HeroScene.tsx}` | the wallet, the scene, a counter, the open question | connect, mount, animate, scroll, click | wallet extension |
| Docs page, background, layout | `web/app/{docs,BgScene.tsx,layout.tsx}` | one index | - | - |
| Bootstrap scripts | `product/scripts/bootstrap{,.devnet}.mjs` | `devnet.json` | one pass that ends in a request, rerun at will | program (RPC) |
| Test harness | `engine/tests-litesvm` | - | tests a `slash_operator_attested` instruction that the program's source does not contain | - |

### What is hard about it

* *One account, many instructions.* The totals `total_bonded` and `operator_count` are
  kept by three instructions with saturating arithmetic. Registration, slashing,
  jailing, unbonding, withdrawing and registering again follow each other in any order.
* *Accounts that close and come back.* Requests close, their receipts do not; an
  operator account closes and its wallet registers again; a request's address is chosen
  by the client and can be used again.
* *Parameters that move.* The admin retunes thresholds, periods and the price feed under
  live operators and requests; the pause flag is looked at by some instructions and not
  by others; the feed may be dead.
* *Time.* Windows of requests, unbonding periods, and who acts first in a slot.
* *Off-chain interleavings.* `signerd` acts on what it read seconds ago, is retried at
  every poll and may stop between two transactions. Operators run rounds over a mesh
  that keeps order per connection only, with disconnects, timeouts and a completion
  barrier. The GG20 driver selects among five channels whose contents were put there in
  one order and are taken in another.
* *A page full of awaits.* One press is six answers in a row, any of which may fail, be
  lost or come late; polls, scans, wallet calls and broadcasts of the same page overlap;
  a reload keeps what was sent and forgets why.
* *Scripts that are run again.* A bootstrap skips what an earlier run left, each thing
  by itself, and may have been interrupted anywhere.

`PROJECT.json` lists each hazard at its line, with the properties that watch it.

### What makes each part correct

* Program: collateral is conserved and can be reclaimed; the totals do not exceed the
  set they stand for (and equal it: this one fails); a jailed or leaving operator never
  signs again; a request's tally is its own receipts; a settled request had its quorum;
  a signer's bond outlives its signature by an unbonding period.
* `signerd`: it never records a signature of a message nobody asked for at that address,
  nor sends an aggregate before its quorum has given what it can; every pending request
  its quorum can satisfy is eventually settled.
* FROST and GG20 rounds: nobody reveals a share before everybody has committed; all who
  judge the shares come to one judgement, and blame only a cheater; a run of honest
  operators does not abort (this one fails); every process ends.
* GG20 and the fault quorum: whoever is slashed has cheated; a session somebody cheats
  in gives nobody a signature; an anonymous abort has a cause; a session nobody stalls
  or dies in is decided; an operator that leaves with its result has sent what its peers
  need (this one fails).
* Mesh: no operator that completes the barrier closes its connections while a peer needs
  them; an orderly end is never taken for a lost peer.
* Product page: what a row reveals is the signature of its own request, what it offers
  to broadcast is what the group signed, and neither is taken back; lists and counts
  belong to the wallet shown and do not go back; what was begun ends.
* Landing page: the animation is right at whatever times its frames come.
* Bootstrap scripts: run often enough, one gets to its request (this one fails).

## 2. Modules

| Module | What it is |
|---|---|
| `DistinMath` | fixed-width arithmetic, parameter ranges and the share check, as operators |
| `DistinProgram` | the program: one action per instruction, plus the clock and the feed's publisher |
| `Totals` | the sum of a function, as the size of a set of units |
| `SigningLedger` | the abstract specification of what the program promises of requests |
| `DistinProperties` | what is claimed of the program, and the refinement mapping to `SigningLedger` |
| `MCDistin` | values for TLC |
| `TotalsProofs` | what changing a function does to its total, from the library's facts on finite sets |
| `DistinProofs` | type correctness; tallies and quorum of a request; the program implements `SigningLedger` |
| `BondProofs` | vault, totals, leaving, collateral, withdrawals, conservation of LST |
| `Mesh` | the transport of the operator network: connections, read loops, inbox, error channel, FIN frames, closing |
| `FrostRounds` | extends `Mesh` with the driver of a FROST session: rounds, barrier, every way out of the process |
| `SigningSession` | the abstract specification of a session: commit, share, judge |
| `FrostProperties` | fairness, what is claimed of a session, and the refinement mapping to `SigningSession` |
| `MeshProofs` | what a link carries, and how often, when a frame is pushed, read, or cut off; sums of weights of links and operators; used by both drivers |
| `FrostProofs` | types, barrier, causes of aborts, the refinement, which frames are refused, that sessions neither stall nor go on for ever |
| `Gg20Driver` | extends `Mesh` with the select loop of a GG20 session, its grace window, and the fault quorum |
| `RoundSession` | the abstract specification of a session of many rounds: enter, blame, succeed, leave |
| `Gg20Properties` | fairness, what is claimed of a GG20 session, and the refinement mapping to `RoundSession` |
| `MCGg20` | values for TLC |
| `Gg20Proofs` | types, who is slashed, what a cheater gets, causes of anonymous aborts, the refinement, that sessions neither stall nor go on for ever |
| `SigndLoop` | the signer daemon, its RPC calls and its process, composed with `DistinProgram` |
| `SigndProperties` | what is claimed of the daemon, and its inductive invariant |
| `MCSignd` | values for TLC |
| `SigndProofs` | the daemon is a client of the program; what it records was asked for; its quorum gives all it can first |
| `AccountLayout` | field offsets and instruction data, as the program lays them out and as its clients write them down |
| `WalletExtension` | the browser's wallet extension, and the connect handler of both pages |
| `EthTransfer` | `eth.ts` and the Ethereum node it talks to |
| `DistinClient` | `distin.ts` and the chain as it sees it: protocol account, requests, transactions under way |
| `WebView` | what the product page renders and disables in a given state |
| `WebApp` | the product page: every handler, effect, timer and await |
| `HeroScene` | the animation of the landing page |
| `LandingPage` | the landing page: login, late mount, counter, questions, latency chart |
| `WebSite` | both pages in one tab, with the extension they share |
| `WebProperties` | what is claimed of the site |
| `MCWeb` | values for TLC |
| `WebProofs` | the safety properties of the site |
| `Bootstrap` | the two bootstrap scripts, over and over, and what they promise |

### DistinProgram and the code

| Variable | Code |
|---|---|
| `slot` | `Clock::get()?.slot` |
| `live_feeds` | price-feed accounts that `compute_stake_weight` would accept |
| `protocol` | the `Protocol` account, or `NoAccount` |
| `operators[a]` | the `Operator` PDA of authority `a`, or `NoAccount` |
| `requests[ad]` | the `SigningRequest` PDA at `ad` = (requester, client nonce), or `NoAccount` |
| `partials[ad][a]` | the `PartialSignature` PDA of that request address and operator |
| `bond_vault`, `slash_pool`, `wallet` | Token-2022 balances |
| `lamports`, `fees` | lamports of requesters, and what they paid the protocol account |
| `credited[ad]` | history: who has signed for the request that is at `ad` now |

Solana runs an instruction atomically, and one that fails leaves no trace. So an
instruction is one action, and its `require!`s, checked additions, `has_one`s, `init`s
and failing transfers are conjuncts of that action; a saturating subtraction is modelled
as such. Widths are constants (`U64_MAX` and so on), so that the checked product of
`required_stake_weight` overflows in a small model. A hash, a share or a signature is a
value of which the program can only tell whether it is zero, and for a share which half
is. A signature names the message it is a signature of, because the program accepts any.

Not in the state, because no instruction reads them back: `joined_slot`, `created_slot`,
`slash_count`, `partials_submitted` (their checked increments would need 2^32 slashes or
2^64 shares to fail), the group key, the target chain, bumps, share bytes, rent and
events.

### Mesh, FrostRounds and the code

One behaviour is one session, key generation or signing, of one process per operator.

| Variable | Code |
|---|---|
| `conns[i]` | keys of `Network.conns`; `register` also starts the read loop |
| `wire[<<i, j>>]` | what `i` wrote to its socket to `j` and `j`'s read loop has not read |
| `inbox[i]`, `errs[i]` | the channels `inbox` and `errs` |
| `fins[i]` | peers whose FIN is in `finCh`, or taken from it by `Fin` |
| `finished[i]` | the flag `finished` |
| `closed[i]` | the sockets of `i` are closed, by `Close` or because its process is gone |
| `round[i]` | how far `RunFrostKeygen`, `RunFrostSign` or `RunFrostSignCorrupt` has come: mesh start, round 1, round 2, `Fin` |
| `todo[i]` | the connections that the loop of `Broadcast`, `SendTo` or `Fin` has still to write to |
| `got[i]` | `got` of `collectRound` |
| `status[i]`, `cause[i]` | how the process ended (`done`, an error, killed), and what made it |
| `result[i]` | what `frost_dkg_part3` or `frost_aggregate` gave it |

A process has one driver and one goroutine per connection. A read loop's step is to read
one frame and to pass it on (`ReadPayload`, `ReadFin`) or to find the connection at its
end (`ReadError`, which looks at `finished` then). A driver's step ends where another
process or goroutine could tell the difference: after a write to one connection, after
taking one envelope, after the computation of a round. `select` takes any channel that
is ready, so `TakeFrame`, `AbortOnError` and `RoundTimesOut` exclude each other by
nothing but readiness.

A session that fails ends its process (`log.Fatalf`, or `net.Close` deferred in the
command), so `Exit` closes the connections and drops the channels. What the process has
written still arrives, unless the socket that is closed held unread data: the kernel
then resets the connection, and any suffix of what was underway may be lost
(`Surviving`). A frame cut in half reads as a disconnect.

Any timer may fire at any moment, which covers every length of `-timeout` and of the
barrier. `MeshFails` is a dial or accept that runs into its deadline because the peer is
gone; `MeshTimesOut` one that does although the peer is there.

Payloads are tags. Whether a share verifies is the only thing about them that matters
(`valid`), and a cheater (`-misbehave`) sends one that does not. Sender, session and
signature checks of the read loop always pass between the processes of one session, so
they are left out, as are TLS, the files and the JSON output. The error and FIN channels
hold 8 and one more than there are peers: no send to them is ever dropped below nine
operators, and one error is enough to abort, so they are sets. `ReadPayload` blocks when
the inbox is full.

### Gg20Driver and the code

One behaviour is one session of the GG20 operator command, key generation or signing, of
one process per operator, from the moment the mesh is up. The mesh is the same module as
under FROST, and so are the ways out of a process.

| Variable | Code |
|---|---|
| `session`, `misbehave` | `-phase`; the operators started with `-misbehave` |
| `party[i]`, `held[i]` | the tss-lib party: its round, and the messages it has stored |
| `outCh[i]` | the channel `outCh`: rounds to send, and to whom yet |
| `driver[i]` | where the driver is: at its `select`, in the loop of `dispatch`, in the grace window, in `Fin` |
| `todo[i]` | connections that `Fin` has still to write to |
| `status[i]`, `cause[i]` | how the process ended, and what made it |
| `blame[i]` | the first culprit of the `FaultError`, which `main` attests |

The tss-lib party is external and modelled by rounds: it sends one message per round,
keeps what comes early, and goes on within one `Update` as far as what it holds allows,
so that one message may take it through several rounds and to its result (`Reached`,
`Emitted`). Entering round 3 it verifies the proofs of round 2, which is where
`RunSignMisbehaving` tampers. Round 2 is the point-to-point round: its messages are
separate entries of `outCh`, so `select` runs between two of them, where a broadcast
writes to all connections first. A party starts in a goroutine of its own
(`StartParty`). `Start` returning an error is left out: it happens on bad parameters
only, before anything is sent.

The `select` is the set of actions that are enabled at driver state `select`:
`Dispatch`, `Feed` and `FeedFaults`, `TakeError`, `TimesOut`, `TakeResult`. That the
result may be taken while `outCh` is not empty is the code's (`protocol.go:60`), and so
is the grace window that waits for an error which only `Start` reports
(`protocol.go:139`): `GraceEnds` is its only way out. Hence an operator that has the
proof of a cheat in its inbox but takes a disconnect first aborts without naming
anybody: identifiable abort, as `HARDENING.md:233-238` describes it, depends on the
order in which `select` chooses.

`Report` maps a culprit from its index in the quorum to its index in the directory
(`Global`), `Attesters` and `Slashable` are `CollectFault` and the threshold of
`fault-verify`. Two cheaters in one session may be named in either order, so two honest
reports may differ; the quorum then counts each alone.

What a session comes to is `RoundSession`: its `round`, `blamed` and `cheaters` are
`party`, `blame` and `misbehave`, those who succeeded are the finished, and those who
left at ease are the processes that are done without a cause, that is, whose barrier
ended by FINs and not by its timer. `StartParty` and `Feed` are `Enter` (or nothing),
`FeedFaults` is `Blame`, `TakeResult` is `Succeed`, `Leave` is `Leave`; frames, errors,
windows, timers, aborts and deaths are stuttering steps.

### SigndLoop and the code

`SigndLoop` extends `DistinProgram`: the chain is not a stub but the program itself, and
a transaction of the daemon is one of its actions.

| Variable | Code |
|---|---|
| `stage` | where `run` is in its loop: accounts read but not the slot, in the `for`, or no process |
| `accts` | what is left of the `for` over `accts`, decoded: a snapshot, not the chain |
| `job` | the arguments of the `fulfill` that runs (address, `ReqView`), the member of the quorum its loop is at, and the next step |
| `late` | transactions sent and not confirmed, for which `send` panicked or the process died |
| `faults` | bound: failed RPC calls, aborted sessions and kills so far |
| `asked` | history: the messages that requests at each address were about |
| `SigningSets`, `Networked` | key sets under `DISTIN_KEYS_DIR`: which schemes are signed, by which fixed quorum, and whether by a session of processes |

A step of the daemon is one RPC call: the account query, `get_slot`, each
`get_account(&partial)`, each `send`. Between any two of them the chain may do anything.
A failed query counts as an empty one, a failed `get_slot` as slot 0, a failed look-up
as "no receipt", as `unwrap_or_default`, `unwrap_or(0)` and `is_ok()` make them. `send`
unwraps: a transaction that the chain refuses (`Refused`: no action of the program is
enabled for it) or whose call fails panics, `catch_unwind` ends this request, and the
next account is taken up. A call that failed may have sent its transaction, which then
lands at any later time or never (`late`); so may the transaction of a process that is
killed. RPC reads are not older than the daemon's own confirmed transactions. The order
of accounts in a poll is the RPC node's, so `TakeUp` takes any.

`fulfill`, `fulfill_gg20` and `fulfill_frostnet` are the same steps over another quorum.
The session of operator processes in the latter two is one step, which yields a
signature of the message or fails; `FrostRounds` and `Gg20Driver` model what goes on
inside. The networked daemon checks that signature before it submits; the GG20 one looks
at it after it is on record, and then only prints what it found, so there is no step for
that.

Everybody else may run any instruction of the program at any time (`ChainStep`): clients
cancel, and post again at an address whose request is gone, with the old receipts still
there, as `signerd request` itself does when `get_slot` fails and its nonce is 0
(`signerd.rs:524`); anybody may call the permissionless `aggregate_and_emit` with any
bytes (`lib.rs:954-956`), and the operators may submit beside the daemon. So nothing the
daemon has read need still be so: the request may be gone, settled with other bytes, or
another one.

### WebApp, WebSite and the code

The page is JavaScript: one handler runs at a time, until its next `await`. An action is
what happens between two awaits, and anything may happen while a handler waits. The
clocks are those of the page (`ProtoTick`, `ActivityTick`, `PollTick`) and of the chain.

| Variable | Code |
|---|---|
| `view`, `running`, `feed`, `wallet`, `proto`, `dash`, `activity` | the `useState`s of the same names; the form's own inputs are chosen at the press |
| `idRef`, `intents` | the row counter, and the number of intents of this page |
| `attempt` | the press of the button that is being served: which `await` of `run` it is at, what was typed, what was built |
| `protoReads`, `dashReads`, `activityReads` | answers of the node that have not arrived; the sets allow any order |
| `walletCalls` | connects and disconnects under way: what was asked, and what the extension answered, if it has |
| `polls` | the loops that wait for a signature, with the turns they have left |
| `sends` | broadcasts without an answer |
| `requests`, `network`, `slot`, `protocol` (`DistinClient`) | request accounts, transactions sent and neither landed nor expired, the slot, the protocol account |
| `ethNonce`, `ethTxs` (`EthTransfer`) | the group's account at the Ethereum node, and what the node took |
| `provider` (`WalletExtension`) | `window.solana` |
| `budget` | bound: how often each kind of press, timer, fault and outside event may still happen |

A read is two steps: the node answers with what it has, and the answer arrives, possibly
after younger ones. An effect runs in the step that changes its dependencies, and its
clean-up drops the answers under way, as `live = false` does. `DashboardView`,
`ActivityView`, `FeedView`, `SignForm` and `ConnectButton` are what the page shows, so
the properties speak of what a user sees. A digest is named by what it digests, a
signature by the digest it signs; the chain accepts any 64 bytes (`Junk`), which is what
makes the recovery in `assembleSignedTx` matter. `AccountLayout` compares the byte
offsets that `distin.ts` and the scripts write as constants with the order of the
program's fields, as an assumption TLC evaluates.

A wallet call is two steps as well: the extension answers, in any order, and `connect`
goes on after its `await`. In between, and at any other time, the user may choose
another account, or the extension may cut the site off and let it in again
(`ProviderChanges`), of which neither page is told: it listens to no event
(`page.tsx:118-135`). So a page may go on naming a wallet that is disconnected; what it
posts then fails at the wallet's signature. `setWallet` and the activity effect it
triggers are one step: React may paint one frame in between, with the old list under the
new name.

An amount typed in ether becomes wei by two roundings, to a double and of its product
with 10^18 (`eth.ts:50`, `inWei`). Amounts are integers here, and the doubles near them
multiples of a grain. What a row shows is the text, what is signed the rounded amount,
and `Transfers` says how far apart they may be.

`WebSite` puts the landing page and the product page in one tab. They share the
extension and nothing else; following a link loads the other page afresh. While the
landing page is open, the chain goes on only as far as transactions that were sent and
operators that sign: whatever else others do meanwhile could as well have happened after
the return.

In `HeroScene` a frame's picture is a function of the time within the period, except for
one thing: a docked chip keeps the size an earlier frame gave it (`HeroScene.tsx:110`).
Its state is which chips have their size; `stalled` remembers a frame that took longer
than a docking.

### Bootstrap and the code

A script is the list of its steps, `pc` the step it is at; `admin`, `mint` and `oracle`
are its variables, `file` is `devnet.json`, `protocol` and `operators` are what the
program has. A step that throws ends the run (`Stop`), and it is started again. The
chain may be fresh, or bootstrapped by the coordinator's own commands, which leave a
live feed. What the program checks of `register_operator` and `create_signing_request`
is stated field by field.

## 3. Runs

| Run | What it asks | Result |
|---|---|---|
| `accounting` | Is collateral conserved and reclaimable, do the totals never overstate the active set, is leaving one-way? | holds |
| `requests` | Are tallies true, does every settlement have its quorum, does a signer's bond outlive its signature by an unbonding period, is the program a `SigningLedger`? | holds |
| `double_exit` | Do the totals equal the active set, as `state.rs:82-85` says? | no |
| `frost_faults` | With a cheater, a death and any timer: are the barrier, the causes of aborts and the judgements right, does every process end, and is a session that nothing befalls completed? | holds |
| `out_of_round` | Is an out-of-round frame always a violation, as `frost.go:52-54` says? | no |
| `gg20_sign` | With a cheater, a death and a timer: does only a cheater get slashed, does a cheater never get a signature, do anonymous aborts have a cause, is every session decided and a `RoundSession`, does every process end? | holds |
| `gg20_final` | Does nobody tear down the mesh while a peer still needs its final broadcast, as `protocol.go:61-62` says? | no |
| `signd_service` | Is a request that the daemon's quorum can satisfy signed, whatever fails or dies on the way? | holds |
| `signd_stale` | Does the daemon record only what was asked, and only once its quorum has given what it can, although it works from an old poll, addresses are used again and others aggregate? | holds |
| `signd_fixed_quorum` | Does the daemon complete each request that two operators can satisfy, as `signerd.rs:6-9` says? | no |
| `web_page` | Does the site show what is its own, valid and not taken back, and end what it began, while answers are late, lost or overtaken and the user changes wallets, pages and tabs and the extension cuts the site off? | holds |
| `bootstrap` | Does a script, run often enough, bring the protocol to use, as `bootstrap.mjs:3-4` says? | no |

**Bounds.** `accounting` has two operators, each with three units of LST, minimum bonds
of 1 and 2, so that a slash can leave an operator active, jail it, or empty it;
unbonding periods of 0 and 2 slots in 3 slots, so that both can leave and come back; one
flaky feed and the placeholder feed; a successor admin; and every argument range
includes values the code must refuse. It has no requests. `requests` has two operators,
one requester with one nonce, so that the second of its two requests is at the address
of the first; slots 0 to 4, enough to close a request and post again before or after its
expiry; an unbonding period of 2 slots under requests open for up to 2, with an exit
begun before the request or while it is open, so that a signer may withdraw before its
request is settled, as with the parameters the coordinator ships; a threshold of 6667
bps; `U64_MAX = 25000`, so that the requirement overflows at a total of 4. The two runs
split what does not interact: no instruction of the operator's life reads a request, and
those of a request read only `paused`, the totals, an operator's state and the
parameters, which `requests` keeps (with one admin and fixed parameters). Operators and
messages are interchangeable, and are used as symmetry sets in runs of safety properties
only.

The network runs have three operators: the least number in which one peer can be ahead
of another in the eyes of a third, on which the order of frames, the barrier and the
refused frame all depend. In `frost_faults` operator 2 sends a bad share, so two honest
operators, one of them the aggregator, judge; operator 1, an honest one that is not the
aggregator, may be killed at any point, and all three may time out anywhere. Its inbox
holds 4 envelopes, as many as a session can ever put there; `out_of_round` has room for
2, so that read loops do block. The real capacity is 256, which a session of fewer than
129 operators does not fill. Both sessions run the same rounds; key generation is the
one of `out_of_round`, where each operator gets a key instead of a judgement.

`gg20_sign` and `gg20_final` stop the party's sending after round 3 instead of round 9:
round 1 is broadcast, round 2 point-to-point and carries the proofs, round 3 verifies
them and sends once more. Rounds 4 to 9 repeat round 3 without a check, so they add
nothing but length. Key generation and signing with or without the cheater (operator 2)
are all initial states. Operator 1 may be killed and may run out of time. The inbox
holds one envelope, so that read loops block behind a driver that is busy; `gg20_final`
needs none of these faults and has room for two. The quorum is operators 1, 3 and 5 of
the directory, so an index in the one is no index in the other, and two attestations are
needed. (The proofs are for any number of rounds, operators and attestations.)

`web_page` has two wallets, one text, whose amount is not a multiple of either grain,
and two chains, one of which is Ethereum; two request addresses, 2 slots with a validity
of one, and an Ethereum account of two transactions. The feed is cut at 2 rows instead
of 60, so that rows are cut while they are being polled, and a request is polled twice
instead of 40 times, so that polls do run out. What the user, the timers, the network
and others do is bounded by `MCBudgets`: nine scenarios, each of which gives some kinds
of events one to three occurrences, in any order: two intents over a failing network;
one broadcast twice and reloaded; intents while the operator set changes; a reader who
changes wallets under running timers; visits to the landing page to log in, to scroll,
or to watch. The scene's frames come 0.12, 0.7, 0.72 or 1.8 seconds apart, on either
side of the docking time of 0.7, over one or two periods. (The proofs are for any
budget, any feed length and any gaps.)

`bootstrap` has three mints and one interruption; its answer does not depend on either.

`signd_stale` and `signd_service` have the two operators of the quorum and two requests,
at two addresses or one after the other at one: the least with which a pass has
something left to do while the daemon works, a late transaction or an old view of one
request can meet another, and one request can starve another. In both, others post,
cancel, submit and aggregate at any time. They split what one run cannot hold.
`signd_stale` has two messages, slots 0 to 3 and windows of one slot, so that requests
expire between any two steps; a session may abort; nobody leaves, because the unbonding
period overflows. `signd_service` has exits, one message, because the property is about
whether there is a signature, and two slots, so that nothing expires. One fault is
enough for each kind of failure, at each step it may strike, and for what it leaves
behind; two at once add no step that the daemon takes otherwise, since it remembers
nothing between passes. (The proofs are for any number.) `signd_fixed_quorum` adds the
third operator and needs no fault. Messages and nonces are interchangeable, and a
symmetry set in `signd_stale` only.

Deadlock is not an error in the network runs: a session is over when all its processes
have ended.

**Fairness.** The on-chain runs assume none: their properties are safety properties.
(`BondIsReturnable` does not say that a bond is withdrawn, but that `CanWithdraw` is
true, all that `WithdrawBond` asks for besides its assignments.)

`FairSpec`, of FROST and of GG20, has weak fairness of the progress of all operators
together, read loops and drivers: as long as one of them can do something, something is
done. Goroutines that the Go scheduler keeps running and a kernel that delivers what was
written justify more than that, but sessions are finite, so it is enough. In GG20 the 2
seconds of the grace window are part of it. That timers fire is a hypothesis of
`EverybodyEnds` (`TimersFire`), and of nothing else: each wait of a driver has a
deadline (`frost.go:57`, `protocol.go:66` and `158`, `network.go:158`, `194` and `494`),
but `SessionCompletes` and `SessionDecides` say that nothing waits for one when nobody
is at fault. A crash is never required.

`SigndSpec` has weak fairness of the daemon's next step: `run` is an endless loop, an
RPC call returns or times out, a session of operators ends (`EverybodyEnds`), and a
process that died is started again (`fly.toml:7-8` runs it as a worker; elsewhere that
is up to whoever deploys it). Nothing is assumed of clients, operators, the clock or
late transactions, so `ServableIsSigned` speaks of requests that stay satisfiable from
some time on.

The page's `Fairness` says that a transaction on its way lands or expires, that an
answer `run` awaits comes or the call fails, and that the timer of a poll fires. Nobody
is bound to press a button, to sign in the wallet or to sign a request, so `AttemptsEnd`
begins at the wallet's signature and `SignedIsRevealed` at a signature on the chain. A
script (`Bootstrap`) goes on as long as it can, and is started again.

### What the failing runs show

* `double_exit`: register two operators, slash one below `min_bond` (jailed, and out of
  the totals), let it call `begin_unbonding`: the totals lose it again.
  `TotalsNeverOverstate` still holds: the totals only err on the low side, which lowers
  `required_stake_weight` and blocks requests once the count is 0.
* `signd_fixed_quorum`: three operators register, a request asks for two of them, and
  operator 1 begins to unbond. `submit_partial_signature` for 1 is refused, so the
  daemon abandons the request, finds it again at the next poll, and so on, until it
  expires; operator 3 is never asked. `ServableIsSigned` is what holds instead: a
  request that the fixed quorum itself can satisfy.
* `out_of_round`: operator 0 has the round-1 frames of 1 and 2 and goes on to round 2.
  Its round-2 frame reaches 2, which has its round-1 frame, while the round-1 frame of 1
  to 2 is still on its way. `collectRound` at 2 returns an error and the process exits.
  Nobody misbehaved: order is kept per connection, not between connections.
  `OnlyEarlyFramesRefused` shows that this is the one way in which a frame is ever
  refused, and `SessionCompletes` that nothing else goes wrong.
* `gg20_final`: operator 0 has the last message of one peer and is waiting for that of
  the other, which was ahead and whose messages of its last two rounds are both there.
  One `Update` takes the party through its own last round to its result: `outCh` holds
  its final messages and `endCh` the result, `select` takes `endCh`, and `Fin` and the
  end of the process follow. Nobody else can finish. In key generation one operator then
  has stored its share and reported success, and the others have none; `SessionDecides`
  shows that at least that one operator always does get its result.
* `bootstrap`: on any chain, the request is sent without the client nonce that the
  program decodes first, and at an address derived from other seeds. On a fresh chain
  `register_operator` is refused before that, because a placeholder is no price feed.

Four more things were seen on the way, for which no run is kept:

* a pause stops neither withdrawing nor cancelling nor expiring (`lib.rs:260-289`,
  against `lib.rs:162` and `docs/faq.mdx:242`, `272`; `docs/architecture.mdx:421` names
  only the instructions that do check). `BondIsReturnable` takes no side: it claims
  nothing while the protocol is paused;
* the coordinator initializes an unbonding period of 10 slots and a longest window of
  216000 (`signerd.rs:331-333`), so a signer may be gone with its bond long before its
  request is settled. `engine/SECURITY.md:90-92` is right as far as it goes: collateral
  stays for the unbonding period, which is what `SignaturesAreBacked` says, but nothing
  compares that period with a request's window;
* a request at a used address finds the receipts of the earlier one (`lib.rs:903-907`,
  against `docs/faq.mdx:232` and `state.rs:180`): the tallies stay right, but the
  earlier signer can not sign the new request, which the daemon, taking the old receipt
  for a new one (`signerd.rs:480`), tries to aggregate in vain at each pass; and a
  daemon whose view is of the earlier request may record that one's signature;
* where the page's read between a post and its poll fails, no poll begins and the row
  awaits its signature until the tab is closed (`page.tsx:176-178`). A post whose answer
  is lost is shown as rejected although the request exists.

## 4. Proofs

Every invariant, action property and refinement that a passing run checks is a theorem
for any constants that satisfy the assumptions: of the program, the FROST and GG20
sessions, the daemon and the site. Three modules hold what the others share:
`TotalsProofs` the sums (`TotalChange`, `TotalMonotone`, `TotalFalls`), `MeshProofs`
what the two drivers need to know of the mesh and of what is left to do on it, and
`DistinProofs` the types of the program.

| Module | Theorem | Property |
|---|---|---|
| `DistinProofs` | `TypeCorrect` | `TypeOK` |
| | `TalliesAreExact` | `TallyIsExact` |
| | `AggregateHasQuorum` | `QuorumBehindAggregate` |
| | `ProgramImplementsLedger` | `ImplementsLedger` |
| `BondProofs` | `VaultIsBacked` | `VaultBacksBonds` |
| | `TotalsAreCovered` | `TotalsNeverOverstate` |
| | `LeavingIsFinal` | `ExitIsOneWay` |
| | `RequestsAreFulfillable` | `FulfillableAtBirth` |
| | `CollateralIsHeld` | `SignaturesAreBacked` |
| | `DueBondsAreCovered` | `BondIsReturnable` |
| | `TotalsAreExact` | `TotalsMatchActiveSet`, if nobody begins to unbond after a jailing slash |
| | `CollateralIsConserved` | no LST is made or lost, and nobody has more than it brought |
| `FrostProofs` | `FrostTypeCorrect` | `TypeOK` |
| | `BarrierIsSound` | `BarrierHolds` |
| | `AbortsHaveCause` | `AbortHasRootCause` |
| | `FrostImplementsSession` | `ImplementsSession` |
| | `OnlyEarlyRefused` | `OnlyEarlyFramesRefused` |
| | `SessionsNeverStall` | `NeverStalls`, if the inbox has a slot for every peer |
| | `RestIsComplete` | where nobody can go on, `Completed`, under the same condition |
| | `SessionsAreFinite` | every step lowers a natural number, if there are finitely many operators |
| `SigndProofs` | `SigndTypeCorrect` | `SigndTypeOK` |
| | `DaemonIsClient` | `SigndSpec => Spec` |
| | `DaemonServesLedger` | `ImplementsLedger`, of `SigndSpec` |
| | `SignatureIsAskedFor` | `SignsWhatWasAsked` |

| | `QuorumBeforeAggregate` | `AggregatesAfterQuorum` |
| `Gg20Proofs` | `Gg20TypeCorrect` | `Gg20TypeOK` |
| | `SlashedHaveCheated` | `SlashIsDeserved` |
| | `CheatersGetNothing` | `CheatIsNeverSigned` |
| | `Gg20AbortsHaveCause` | `AbortHasRootCause` |
| | `Gg20ImplementsRounds` | `ImplementsRounds` |
| | `Gg20InStep` | no party is more than a round ahead of another |
| | `Gg20NeverStalls` | `NeverStalls`, if there are two operators or more |
| | `Gg20RestIsDecided` | where nobody can go on, `Decided`, under the same condition |
| | `Gg20SessionsAreFinite` | every step lowers a natural number, if there are finitely many operators |
| `WebProofs` | `WebTypeCorrect` | `WebTypeOK` |
| | `RevealedIsRecorded` | `RevealedIsOwn` |
| | `OfferedIsSigned` | `BroadcastableIsValid` |
| | `ResultsStay` | `RowsKeepResults` |
| | `CountNeverFalls` | `DashMovesForward` |

| | `ActivityIsTheWallets` | `ActivityIsOwn` |
| | `SocketsAreFilledByChips` | `SocketsHoldChips` |

**Arguments.**

* *Types* are inductive as they stand; one lemma per instruction. The parameter ranges
  are part of the type, and every later proof uses them.
* *Tallies.* `SigningSteps` sorts the disjuncts of `Next` by what they do to requests,
  receipts and `credited`. Only `submit_partial_signature` adds to a tally, and the
  operator it adds was not in `credited`: it would have a receipt already, and the
  instruction's `init` would fail (`SignerIsNew`). That is what protects the tally at a
  reused address, where old receipts remain.
* *Quorum.* `StatusInv` strengthens the property: a pending request has no aggregate,
  and an aggregated one met both thresholds. The tallies say what meeting them means.
* *Vault.* `OneOperatorChanges`: every instruction changes at most one bond, and moves
  the vault by the same amount. The total of the bonds follows by `TotalChange`.
* *Totals.* A saturating subtraction can fall short of what it should subtract only by
  stopping at zero (`SaturatingBound`, `ShrinkBound`), so the totals stay below the
  active set even when they are reduced twice. Equality is false: see `double_exit`. But
  `TotalsAreExact` says that this is its only exception: under `LeavesOnce`, that no
  step begins to unbond a jailed operator, each instruction moves the totals by exactly
  what the active set changes (`ExactSlash`, `ExactUnbond`, ...), since nothing then
  saturates; a fresh protocol starts at zero because nobody is a member without one
  (`MembersHaveProtocol`).
* *Withdrawals.* The vault is the sum of the bonds, so it holds each of them
  (`TotalAtLeastPart`), and `MembersHaveProtocol` supplies the last of the checks.
* *Conservation.* `TokensMove`: an instruction moves LST between one wallet, the vault
  and the pool only, and none lets a wallet and its bond together grow.
* *Leaving.* The action property needs the invariant that whoever is credited with a
  share in a step was active before it (`SignersAreActive`).
* *Fulfillable.* The totals are bounded by the active set, and `stake * bps / 10000` by
  the stake (`DivisionBound`).
* *Collateral.* `CollateralInv` says of each receipt and each period no longer than any
  configured one (`BackedAt`): for that long after the signature its operator is a
  member, and if it is leaving, its withdrawal slot is no earlier. Only an active
  operator signs, and it leaves, if it does, later and under some configured period
  (`ConfigFromArgs`); nothing brings a withdrawal slot forward. No assumption relates
  the period to the windows.
* *Refinement.* One lemma per action of the abstract ledger (`CreatePosts`,
  `SubmitEndorses`, `SettleSettlesIntent`, `CloseDrops`), and the invariants that
  intents have their type and that nonces of requests stay below the counter.

* *Sessions.* `FrostSteps` sorts the steps into those on a link, those of one driver,
  and ends of a process. `SessionInv` is the inductive invariant. Its core is
  `ReachedBy`: a frame, on the wire, in an inbox or collected, proves how far its sender
  has come, and a FIN that its sender is finished; rounds only grow, and reading,
  cutting and dropping frames never adds one (the `Carries` lemmas). The rest says how a
  process stands: it is closed just when it is not running, an operator is finished just
  when it is in its barrier, and whoever is in `errs` has closed.
* *Barrier.* Who leaves through it holds a FIN of everybody else.
* *Causes.* Where the transport fails an operator that has no result, some peer is
  closed. It did not leave through the barrier, because then everybody would be finished
  (`ClosedHasCause`); so it has a cause of its own, and an induction over the steps
  leads to one that is not the transport.
* *Judgement.* Who concludes holds a round-2 frame of everybody, so everybody has
  shared, and the frames that do not verify are exactly the cheaters'
  (`ConcludeBlames`). So each judgement is the first cheater, if there is one
  (`OneJudgement`). `MeshUp`, `EnterRound2` and `Conclude` are the three actions of
  `SigningSession`; all other steps stutter.

* *Refused frames.* `OnlyEarlyRefused` needs to know where every frame is. `PlaceInv`
  says that frames are those their senders made (`OriginInv`), that a link or an inbox
  holds each at most once (`OnceInv`, by the `Once` lemmas of `MeshProofs`), and that a
  frame is in one place only, on the wire, in the inbox or taken, and in order: while
  the frame of a round is still to be taken, that of the next is behind it
  (`OnePlaceInv`). So the frame that `collectRound` refuses belongs to a peer whose
  frame of this round it has, and which can only be ahead.

* *No session stalls.* `NeverStalls` says that as long as an operator without a result
  runs, and where nothing went wrong as long as anybody runs, some `CanGo` is true: the
  guards of `Transport` and `Step`, put together. `WholeInv` adds to the above that
  nothing is lost (`KeptInv`: between operators neither of which has failed, a frame is
  still to be sent, on the wire, in the inbox or taken), that both ends know of a
  connection (`ConnInv`), and that a FIN is the last on its wire (`FinInv`). Then an
  operator that waits for a frame of the round waits for a peer that is behind
  (`StalledIsBehind`), or gone, and then it is told so; and nobody is behind everybody.
  The hypothesis, a slot of the inbox for every peer, is not idle: with fewer, read
  loops wait for the driver and the driver for a frame behind them. The code has 256
  slots (`network.go:81`).
* *No session goes on for ever.* A round still to come, a frame still to be sent, one
  underway and one in an inbox weigh three for each peer, three, two and one; with a
  disconnect not yet told, a connection not yet made and a process not yet ended, every
  step, of whomever, timers and crashes included, leaves less (`SessionsAreFinite`). So
  weak fairness of all steps together is enough. Where such a session comes to rest,
  nobody can go on, and then it is complete (`RestIsComplete`, from `NeverStalls` and
  `AbortHasRootCause`): that is `SessionCompletes`, but for the temporal step from the
  falling number to an end, which is the prover's limit.

* *Frames of a party.* `Gg20Inv` is the inductive invariant of the GG20 sessions. Every
  frame, in `outCh`, on a wire, in an inbox or held, is genuine: it is invalid just when
  it is a round-2 message of a cheater, and it is of round 3 or later only if its sender
  deals with no cheater (`FramesInv`). The `Carries` lemmas of `MeshProofs` say that
  reading, cutting and closing add no frame.
* *Cheaters.* An honest party that enters round 3 holds a round-2 message of everybody
  else, the cheater's included, so `Verifies` is true and it ends with a fault
  (`FeedLimits`). So no honest party goes beyond round 2 and lives or sends a frame of
  round 3, a lone cheater that waits for one stops in round 3, and nobody finishes
  (`CheatInv`). Whoever is blamed sent an invalid frame, and the map to directory
  indices is injective.
* *Anonymous aborts.* Whoever is in `errs` has closed. If it closed through the barrier,
  all were finished and nobody was selecting; otherwise it has a cause, which is a root
  cause or, by induction, follows from one.
* *Rounds.* To `Gg20Inv` the refinement adds `SentInv`: no message, in `outCh`, on a
  wire, in an inbox or held, is of a round its sender has not come to. It stays true
  because parties only go on (`MoveRaises`) and messages are only made of the round
  reached (`PartyStep`). `Update` goes on past a round only with everybody's message of
  it (`ReachedFacts`), so everybody is there (`HeldIsReached`): that is the guard of
  `Enter` and of `Blame`, and keeps the parties in step. Who leaves through the barrier
  has everybody's FIN, by `ProcessInv`.
* *No GG20 session stalls.* `NeverStalls` of `Gg20Properties` says that as long as an
  operator without a result runs, some `CanGo` is true, or a peer that took its result
  dropped a message for one that waits (`DroppedFor`). TLC checked it, and that without
  the exception it fails: that is the state `FinalBroadcastFirst` is about. `WholeInv`
  adds that what a party has put out is in order of rounds and has recipients
  (`OutInv`), that between operators that run nothing is lost (`KeptInv`), that a party
  that holds everything of its round without having looked is in round 1, holds nothing
  of round 2 and is the only such (`LateInv`: the others' messages were all there before
  it started), and that who is finished is past the last round. Where nobody can go on,
  an operator without a result has sent all it put out and has read all it was sent
  (`StalledIsIdle`), and nobody it deals with is gone, or it would have been told. The
  one whose party is least far then has everything of its round (`StalledHasAll`), and
  would have gone on (`NobodyIsBehind`). Unlike in FROST no room in the inbox is needed:
  the select loop always empties it (`protocol.go:46-69`, `115-161`).
* *No GG20 session goes on for ever.* A round not yet put out, or put out and not yet
  sent, weighs three for each peer that is to have it, a FIN three, a frame underway two
  and one in an inbox one; with the rounds a party has still to go, disconnects not yet
  told, and the ways from the select loop to the grace window or the barrier and from
  there out, every step leaves less (`Gg20SessionsAreFinite`). A party puts out only
  rounds it had not come to (`NothingNew`), and what a driver sends it does not owe any
  more (`Sheds`). At rest the session is decided (`Gg20RestIsDecided`), which is
  `SessionDecides` but for the same temporal step.

* *Site.* `CoreInv` is the inductive invariant of the page and its clients. It says of
  every row, poll, broadcast and press how it hangs together with the chain: a row's
  request is unused, under way or on record with just the row's wording; what a row has
  revealed is on record; an assembled transaction is signed under its own digest; nonces
  of transactions said to be sent differ. Every step but a few leaves the chain alone or
  makes it grow (`Quiet`, `StepGrowsChain`), so each conjunct survives what others do;
  the handlers of `run` and of the polls are one lemma each.
* *Rows.* A step changes the feed by a new row on top, by a patch of one row, or not at
  all (`FeedMoves`); a patch never clears a result (`RowsPersist`), and ids are never
  given twice.
* *Activity.* The chain's ids tell requests apart, because the protocol's counter is
  beyond all of them (`LedgerInv`), so a list ordered by them has each request once
  (`ListIsOwn`): its n-th entry is the one with n - 1 newer ones. A scan saw accounts of
  those who sent the transactions that made them (`Snapshot`), and an address keeps its
  transaction for ever (`SnapshotStays`), so a late answer is still right about whose
  requests it lists; and an answer for another wallet is dropped (`ActivityInv`).
* *Dashboard.* At most one scan is under way whose answer would be taken, it counted no
  more than has settled by now and no less than is shown (`DashInv`), and what has
  settled only grows (`SettledGrows`).
* *Amounts.* The nearest multiple of a grain is within half of it (`RoundedIsNear`), so
  what is built transfers what was typed up to both grains (`BuiltTransfers`).
* *Scene.* Chips that should be docked have their size unless a frame was skipped
  (`HeroInv`): a gap of at most the docking time can not jump over a docking
  (`FrameKeepsHero`).

* *Client.* Each step of the daemon, of its late transactions and of its host is an
  instruction of the program or leaves the chain alone (`IsProgramStep`), so every
  theorem about `Spec` holds of a chain on which the daemon works.
* *Memory.* `SigndInv` is the inductive invariant. What the daemon has read of a request
  and holds in the pass (`accts`), in hand (`job`) or in flight (`late`) was asked for
  at that address some time (`ViewsWereSo`, `LateWasAsked`): an account is read from
  there (`AcctsSource`), each later copy from an earlier one (`JobSource`,
  `LateSource`), and the history only grows (`AskedStays`). That is all that can be said
  of a signer that works from memory while the address may be used again.
* *Quorum of the daemon.* Members before the one in hand have a receipt
  (`DoneHaveReceipts`), whether the daemon put it there or found it, and receipts stay
  (`ReceiptsStay`). So a member that does not count for the request has no way left to
  count, and if the quorum still suffices, it does so without it.

**Assumptions.** `WidthAssumption`, `ArgumentAssumption` and `SentinelAssumption` say
that widths, arguments and bounds are natural numbers, and that the values that stand
for "no account", "no key" and "zero bytes" are none of the others.
`AuthoritiesAssumption` says that there are finitely many possible operators, so that
totals are sums; `IntentAssumption` says that "no account" is not an intent of the
abstract ledger. For the sessions, `OperatorAssumption` says that operators are
numbered, `InboxAssumption` that the inbox has room for an envelope, and
`SessionAssumption` that a session is key generation or signing and that only signing
has cheaters, who are operators. For the daemon, `SigningSetsAssumption` says that each
key set on disk is a non-empty list of operators for a scheme in use,
`ReceiptAssumption` that a participation receipt is one of the shares callers submit,
`NoJobAssumption` and `MaxFaultsAssumption` that a value and a bound are what they are
meant to be. For GG20, `Gg20Assumption` says that there are at least three rounds, that
cheaters are operators, that distinct operators have distinct places in the directory,
and that at least one attester is asked for. For the site, `WebAssumption`,
`ClientAssumption`, `MaxEthNonceAssumption`, `AmountsAssumption`, `ChainKeysAssumption`,
`FrameGapsAssumption` and `LandingAssumption` give the bounds, chains and gaps their
types, `NoTxAssumption`, `NoAttemptAssumption`, `NoAccountAssumption` and
`UnansweredAssumption` say that the values for "none" are none; `LayoutAgrees`,
`TimelineInOrder` and `ChartIsMonotone` are facts about constants of the code that TLC
evaluates. TLC evaluates all assumptions in every run that extends the module.

**Only model-checked.** The liveness properties `EverybodyEnds` (of both drivers),
`SessionCompletes`, `SessionDecides`, `ServableIsSigned`, `SignedIsRevealed` and
`AttemptsEnd`, because fairness is out of the prover's reach; what of the first three is
safety, that a session of either driver neither stalls nor goes on for ever and what it
comes to at rest, is proved. And the refutations.

## 5. Not modelled

* *Cryptography*, an external party that either verifies or does not, and byte layouts
  and file formats, except for the offsets that clients write down (`AccountLayout`).
* *TLS and certificates, configuration files, encrypted shares*: no protocol state.
* *`signerd`'s bootstraps and key files*: three scripts an administrator runs once. What
  they send are instructions `DistinProgram` has; that they can be stopped between two
  transactions and run again is listed among the hazards without a property.
* *The demos and the Aptos builder*: straight-line passes over instructions that the
  models have.
* *Of the site*: the docs page (one index), `BgScene` (shaders, no state), layout, text
  and scroll effects. `web/app/app` is a copy of the product page that differs in the
  default RPC endpoint.
* *The test harness*, which tests an instruction that the program does not contain.

Remarks on what the models leave as the code has it:

* Within one dashboard scan the counter is read before the accounts, so the settlement
  rate may exceed 100 % for a moment.
* `CHAINS` names the chain id 1 for Ethereum in the request, while `eth.ts` builds for
  Sepolia; the program does not look at either. The landing page's table names another
  scheme for Cosmos than the product page posts.
* After a frame gap of more than 0.7 s, as when the tab was hidden, a socket may glow
  with no chip over it until the period ends; `SocketsHoldChips` excludes just that
  (`stalled`).

## 6. Plan

Done: the program and its ledger, the mesh, the FROST and GG20 sessions with the fault
quorum, the daemon on the chain, the site, the bootstrap scripts, and the proofs of
section 4. Next, in this order:

1. The bootstraps of `signerd` (`signerd.rs:294-384`, `751-860`, `1150-1259`) over
   `DistinProgram`, stopped anywhere and run again in any order: does running them again
   always get to the end, and does the quorum of every key set then meet the threshold?
2. An abstract specification of the service that daemon and page take part in (a request
   is posted, then signed and revealed, or dropped), implemented by `SigndLoop` and by
   `WebApp`.
