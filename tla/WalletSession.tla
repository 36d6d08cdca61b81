---------------------------- MODULE WalletSession ----------------------------
(***************************************************************************)
(* The wallet store of the web application over the Freighter signer.      *)
(* restore runs once when the layout mounts, connect from any connect      *)
(* button (not all of them are disabled while one call is out), disconnect *)
(* at once.  A call asks the extension, takes what it answers as the       *)
(* session, and then asks for the network.  The extension's account and    *)
(* network change under the page without notice.                           *)
(***************************************************************************)
EXTENDS Naturals, FiniteSets

CONSTANTS
    Accounts,    \* accounts of the Freighter extension
    Networks,    \* Stellar networks it can be switched to
    AppNetwork,  \* stellarConfig.networkPassphrase
    Connects,    \* connect calls that may be out at once
    Restore,     \* the restore call
    None

ASSUME WalletAssumption ==
    /\ AppNetwork \in Networks
    /\ Restore \notin Connects
    /\ None \notin Accounts

VARIABLES
    extension,  \* the extension's account and network (external)
    wallet,     \* WalletState: address, connected, loading, networkMismatch
    publicKey,  \* FreighterSigner.publicKey (None: '')
    asked       \* what each wallet call awaits: "access", "network" or "nothing"

walletVars == <<extension, wallet, publicKey, asked>>

WalletTypeOK ==
    /\ extension \in [account : Accounts, network : Networks]
    /\ wallet \in [address : Accounts \cup {None}, connected : BOOLEAN,
                   loading : BOOLEAN, networkMismatch : BOOLEAN]
    /\ publicKey \in Accounts \cup {None}
    /\ asked \in [Connects \cup {Restore} -> {"access", "network", "nothing"}]

WalletInit ==
    /\ extension \in [account : Accounts, network : Networks]
    /\ wallet = [address |-> None, connected |-> FALSE, loading |-> FALSE,
                 networkMismatch |-> FALSE]
    /\ publicKey = None
    /\ asked = [k \in Connects \cup {Restore} |-> IF k = Restore THEN "access" ELSE "nothing"]

\* The user works in the extension's own window.
SwitchAccount(a) ==
    /\ extension' = [extension EXCEPT !.account = a]
    /\ UNCHANGED <<wallet, publicKey, asked>>

SwitchNetwork(n) ==
    /\ extension' = [extension EXCEPT !.network = n]
    /\ UNCHANGED <<wallet, publicKey, asked>>

\* A connect button that is on screen: some ignore wallet.loading.
Connect(k) ==
    /\ ~wallet.connected /\ asked[k] = "nothing"
    /\ wallet' = [wallet EXCEPT !.loading = TRUE]
    /\ asked' = [asked EXCEPT ![k] = "access"]
    /\ UNCHANGED <<extension, publicKey>>

\* The extension is found, the site is allowed and it gives an address.
AccessGranted(k) ==
    /\ asked[k] = "access"
    /\ publicKey' = extension.account
    /\ wallet' = [wallet EXCEPT !.address = extension.account, !.connected = TRUE]
    /\ asked' = [asked EXCEPT ![k] = "network"]
    /\ UNCHANGED extension

\* Only connect raises the flag, and its finally lowers it.
Settled(k) == IF k = Restore THEN wallet.loading ELSE FALSE

\* Not installed, not allowed, refused, or CONNECT_TIMEOUT_MS passed.
AccessRefused(k) ==
    /\ asked[k] = "access"
    /\ wallet' = [wallet EXCEPT !.loading = Settled(k)]
    /\ asked' = [asked EXCEPT ![k] = "nothing"]
    /\ UNCHANGED <<extension, publicKey>>

\* WalletState.syncNetwork; a failure leaves the flag as it was.
NetworkRead(k) ==
    /\ asked[k] = "network"
    /\ wallet' = [wallet EXCEPT !.loading = Settled(k),
                                !.networkMismatch = extension.network # AppNetwork]
    /\ asked' = [asked EXCEPT ![k] = "nothing"]
    /\ UNCHANGED <<extension, publicKey>>

NetworkUnread(k) ==
    /\ asked[k] = "network"
    /\ wallet' = [wallet EXCEPT !.loading = Settled(k)]
    /\ asked' = [asked EXCEPT ![k] = "nothing"]
    /\ UNCHANGED <<extension, publicKey>>

Bug_KeyKept ==
    /\ wallet.connected
    /\ wallet' = [wallet EXCEPT !.address = None, !.connected = FALSE,
                                !.networkMismatch = FALSE]
    /\ UNCHANGED <<extension, publicKey, asked>>

Disconnect ==
    /\ wallet.connected
    /\ wallet' = [wallet EXCEPT !.address = None, !.connected = FALSE,
                                !.networkMismatch = FALSE]
    /\ publicKey' = None
    /\ UNCHANGED <<extension, asked>>

Ask(k) == AccessGranted(k) \/ AccessRefused(k) \/ NetworkRead(k) \/ NetworkUnread(k)

WalletNext ==
    \/ \E a \in Accounts : SwitchAccount(a)
    \/ \E n \in Networks : SwitchNetwork(n)
    \/ \E k \in Connects : Connect(k)
    \/ \E k \in Connects \cup {Restore} : Ask(k)
    \/ Disconnect

WalletSpec == WalletInit /\ [][WalletNext]_walletVars

\* FreighterSigner.syncNetwork and its publicKey check, made before every
\* signature: only a connected signer on the right network reaches a popup.
MaySign == publicKey # None /\ extension.network = AppNetwork

\* The store and the signer never disagree about the session, however restore,
\* overlapping connects and disconnect interleave: no page shows one account
\* while another signs, and a disconnected signer holds no key.
SessionAgrees ==
    /\ wallet.address = publicKey
    /\ wallet.connected <=> wallet.address # None
=============================================================================
