---------------------------- MODULE EthTransfer ----------------------------
(***************************************************************************)
(* Ethereum transfers out of the group account: what the page's eth.ts     *)
(* builds, assembles and broadcasts, and the part of an Ethereum node it   *)
(* talks to.  The Solana program keeps only the digest and r||s, so the    *)
(* transaction itself lives in the page that built it.                     *)
(*                                                                         *)
(* A digest is named by what it digests and a signature by the digest it   *)
(* signs.  Fees, gas and the chain id are the same in every transfer.      *)
(*                                                                         *)
(* Amounts are typed in ether and sent in wei: the decimal is rounded to a *)
(* double, its product with 10^18 to another, and that to an integer.      *)
(* Amounts are counted in wei here and the doubles near them taken to be   *)
(* evenly spaced.                                                          *)
(***************************************************************************)
EXTENDS Naturals, FiniteSets

CONSTANTS
    Dests, Amounts, \* what the user types
    EtherGrain,     \* the spacing of the doubles that the amounts are read as
    WeiGrain,       \* and that of the doubles near the product with 10^18
    MaxEthNonce     \* bound: transactions of the group account

ASSUME MaxEthNonceAssumption == MaxEthNonce \in Nat
ASSUME AmountsAssumption ==
    Amounts \subseteq Nat /\ EtherGrain \in Nat \ {0} /\ WeiGrain \in Nat \ {0}

VARIABLES
    ethNonce,       \* the account's transaction count, pending ones included
    ethTxs          \* the raw transactions of this page that the node accepted

Texts == [dest : Dests, amount : Amounts]

EthTx == [nonce : 0..MaxEthNonce, to : Dests, value : Nat]

\* The multiple of a grain that is nearest.
Rounded(amount, grain) == ((2 * amount + grain) \div (2 * grain)) * grain

inWei(amount) == Rounded(Rounded(amount, EtherGrain), WeiGrain)

\* buildEthTransfer: the account's live nonce, the typed destination and value.
buildEthTransfer(text) ==
    [nonce |-> ethNonce, to |-> text.dest, value |-> inWei(text.amount)]

ethSighash(tx) == tx

\* Faulty variant: the recovered address is not compared.
RecoversToAnybody(tx, sig) == TRUE

\* One of the two recovery ids yields the group's address: the group signed
\* exactly this transaction.
RecoversToGroup(tx, sig) == sig = ethSighash(tx)

\* What assembleSignedTx returns when it does not throw.
assembleSignedTx(tx, sig) == [tx |-> tx, sig |-> sig]

\* The node takes a transaction that the group signed and whose nonce is the
\* account's next.  It may lack the funds.
NodeAccepts(raw) ==
    /\ raw.sig = ethSighash(raw.tx)
    /\ raw.tx.nonce = ethNonce
    /\ ethNonce < MaxEthNonce

Accepted(raw) ==
    /\ ethNonce' = ethNonce + 1
    /\ ethTxs' = ethTxs \cup {raw}

\* A page elsewhere, or the command-line sender, uses the account.
OthersSend ==
    /\ ethNonce < MaxEthNonce
    /\ ethNonce' = ethNonce + 1
    /\ UNCHANGED ethTxs
=============================================================================
