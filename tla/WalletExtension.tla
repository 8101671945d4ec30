-------------------------- MODULE WalletExtension --------------------------
(***************************************************************************)
(* The wallet extension in the browser (window.solana), shared by all the  *)
(* pages of the site, and the handler by which the landing page and the    *)
(* product page connect and disconnect.  The user has the extension; a     *)
(* page without it opens the extension's site and changes nothing.         *)
(*                                                                         *)
(* A call of a page waits until the user has answered the extension, and   *)
(* the page goes on with the answer in a later step.  Meanwhile further    *)
(* calls may be made and answered, in any order.                           *)
(***************************************************************************)
EXTENDS Integers, Sequences

CONSTANTS
    Wallets,        \* the accounts the extension holds
    NoWallet,
    Unanswered

ASSUME UnansweredAssumption == Unanswered \notin Wallets \cup {NoWallet}

VARIABLE
    provider        \* whether the site is connected, and the chosen account

ProviderInit == provider \in [connected : {TRUE}, account : Wallets]

\* A page that is opened shows the account if the extension is connected.
InitialWallet == IF provider.connected THEN provider.account ELSE NoWallet

\* Calls under way: what was asked, and the wallet the page is to show.
WalletCalls ==
    [call : {"connect", "disconnect"}, shows : Wallets \cup {NoWallet, Unanswered}]

\* What a press of the button asks of the extension, for the wallet shown.
CallFor(wallet) ==
    [call |-> IF wallet = NoWallet THEN "connect" ELSE "disconnect",
     shows |-> Unanswered]

WithoutCall(calls, i) == SubSeq(calls, 1, i - 1) \o SubSeq(calls, i + 1, Len(calls))

\* The extension answers the i-th call, which leaves `next` of the calls.  A
\* disconnect makes the page forget the wallet even if the extension fails; a
\* connect that is refused changes nothing.
Answers(calls, i, next) ==
    /\ calls[i].shows = Unanswered
    /\ \/ /\ calls[i].call = "disconnect"
          /\ next = [calls EXCEPT ![i].shows = NoWallet]
          /\ \/ provider' = [provider EXCEPT !.connected = FALSE]
             \/ UNCHANGED provider
       \/ /\ calls[i].call = "connect"
          /\ next = [calls EXCEPT ![i].shows = provider.account]
          /\ provider' = [provider EXCEPT !.connected = TRUE]
       \/ /\ calls[i].call = "connect"
          /\ next = WithoutCall(calls, i)
          /\ UNCHANGED provider

\* What the user does in the extension, or on another page: another account is
\* chosen, the site is cut off, by a lock or a revocation, or let in again.
\* No page listens.
ProviderChanges ==
    \/ \E w \in Wallets \ {provider.account} :
           provider' = [provider EXCEPT !.account = w]
    \/ provider' = [provider EXCEPT !.connected = ~@]
=============================================================================
