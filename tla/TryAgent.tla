------------------------------- MODULE TryAgent -------------------------------
(***************************************************************************)
(* TryAgentPanel: a visitor sends a request to a service of an agent; a    *)
(* 402 answer quotes a price (by MPP or x402), the visitor confirms it,    *)
(* signs in Freighter, and the request is sent again with the payment.     *)
(* The functions of the panel are asynchronous and nothing stops them:     *)
(* Cancel, Close and opening another service only change the screen, and   *)
(* the call that is out goes on and writes the same screen later.          *)
(*                                                                         *)
(* The method and body of the request are left out: they decide only       *)
(* whether it is refused as invalid JSON.                                  *)
(***************************************************************************)
EXTENDS WalletSession

CONSTANTS
    Services,   \* the payable services of the agent
    Quotes,     \* what a 402 may say: [scheme : {"mpp", "x402"}, networks, price]
    Calls,      \* submitRequest and sendPaidRequest calls out at once
    AutoOpen    \* the autoOpen property of the panel

ASSUME TryAssumption ==
    /\ None \notin Services
    /\ AutoOpen \in BOOLEAN
    /\ \A q \in Quotes : q.scheme \in {"mpp", "x402"} /\ q.networks \subseteq Networks

VARIABLES
    loads,   \* the lazily imported payment modules
    panel,   \* the panel's own state
    call     \* the local state of each call

payVars == <<loads, panel, call>>
tryVars == <<walletVars, payVars>>

Modules == {"mpp", "x402"}

\* activeServiceIdx, phase, detectedProtocol, mppChallenge and pricingInfo.
ClosedPanel == [active |-> None, phase |-> "idle", protocol |-> None,
                challenge |-> None, pricing |-> None]

\* at: "fetch" (submitRequest), "preflight", "build", "popup", "wait" (a payment).
\* shown: the price on screen at the confirmation.  late: the 60 s race is lost.
NoCall == [at |-> "free", quote |-> None, shown |-> None, late |-> FALSE]

Phases == {"idle", "editing", "sending", "price_confirm", "signing",
           "waiting_response", "done", "cors_error", "error"}

TryInit ==
    /\ WalletInit
    /\ loads = [m \in Modules |-> "loading"]
    /\ panel = ClosedPanel
    /\ call = [c \in Calls |-> NoCall]

At(c, at) == call[c].at = at
Loaded(m) == loads[m] = "loaded"

\* The panel goes to a phase; the call is over.
Ends(c, phase) ==
    /\ panel' = [panel EXCEPT !.phase = phase]
    /\ call' = [call EXCEPT ![c] = NoCall]

-----------------------------------------------------------------------------
(* The screen *)

\* openTryPanel keeps detectedProtocol and mppChallenge.
Opened(s) == [panel EXCEPT !.active = s, !.phase = "editing", !.pricing = None]

\* onMount: when the last import settles, the panel may open by itself.
SettleLoad(m, outcome) ==
    /\ loads[m] = "loading"
    /\ loads' = [loads EXCEPT ![m] = outcome]
    /\ \E s \in Services :
          panel' = IF AutoOpen /\ wallet.connected /\ \A n \in Modules \ {m} : loads[n] # "loading"
                   THEN Opened(s) ELSE panel
    /\ UNCHANGED <<walletVars, call>>

\* The list of services is on screen while the wallet is connected; an open
\* service has a Close button, the others a Try button.
OnScreen(s) == wallet.connected /\ panel.active = s

Open(s) ==
    /\ wallet.connected /\ ~OnScreen(s)
    /\ panel' = Opened(s)
    /\ UNCHANGED <<walletVars, loads, call>>

Close(s) ==
    /\ OnScreen(s)
    /\ panel' = ClosedPanel
    /\ UNCHANGED <<walletVars, loads, call>>

\* Back, Cancel and Try again: every phase that shows one of them.
HasReset == panel.phase \in {"price_confirm", "signing", "waiting_response", "error", "done"}

ResetToEditing(s) ==
    /\ OnScreen(s) /\ HasReset
    /\ panel' = [ClosedPanel EXCEPT !.active = s, !.phase = "editing"]
    /\ UNCHANGED <<walletVars, loads, call>>

-----------------------------------------------------------------------------
(* submitRequest *)

\* RequestEditor, whose button is disabled while the panel is busy.
SubmitOffered(s, c) == OnScreen(s) /\ panel.phase = "editing" /\ At(c, "free")

Submit(s, c) ==
    /\ SubmitOffered(s, c)
    /\ \/ /\ panel' = [panel EXCEPT !.phase = "sending"]
          /\ call' = [call EXCEPT ![c].at = "fetch"]
       \/ /\ panel' = [panel EXCEPT !.phase = "error"]    \* the body is not JSON
          /\ UNCHANGED call
    /\ UNCHANGED <<walletVars, loads>>

Bug_FirstChallengeKept(q) ==
    [panel EXCEPT !.phase = "price_confirm", !.protocol = q.scheme, !.pricing = q,
                  !.challenge = IF q.scheme = "mpp" /\ @ = None THEN q ELSE @]

\* A 402 whose quote could be read.
Quoted(q) ==
    [panel EXCEPT !.phase = "price_confirm", !.protocol = q.scheme, !.pricing = q,
                  !.challenge = IF q.scheme = "mpp" THEN q ELSE @]

\* An MPP challenge needs its module, x402 quotes are read by the panel itself.
Readable(q) == q.scheme = "x402" \/ Loaded("mpp")

FetchAnswered(c) ==
    /\ At(c, "fetch")
    /\ \/ \E q \in Quotes :
             /\ Readable(q)
             /\ panel' = Quoted(q)
       \/ panel' = [panel EXCEPT !.phase = "error", !.protocol = "x402"] \* unparsable header
       \/ \E p \in {"done", "cors_error", "error"} : panel' = [panel EXCEPT !.phase = p]
    /\ call' = [call EXCEPT ![c] = NoCall]
    /\ UNCHANGED <<walletVars, loads>>

-----------------------------------------------------------------------------
(* sendPaidRequest *)

\* The checks at the head of createMppCredential: a challenge is for one network.
MppAccepts(q) == q.networks = {AppNetwork}

\* The network guard of sendX402PaidRequest: the networks of the accepts that name
\* one.  Which of the accepts is paid is the choice of the x402 client.
X402Accepts(q) == q.networks # {} => AppNetwork \in q.networks

\* Confirm & Pay.  Without a price it does nothing.
ConfirmOffered(s, c) ==
    OnScreen(s) /\ panel.phase = "price_confirm" /\ At(c, "free") /\ panel.pricing # None

Confirm(s, c) ==
    /\ ConfirmOffered(s, c)
    /\ \/ /\ wallet.networkMismatch
          /\ panel' = [panel EXCEPT !.phase = "error"]
          /\ UNCHANGED call
       \/ /\ ~wallet.networkMismatch /\ panel.protocol = "mpp"
          /\ \/ /\ Loaded("mpp") /\ panel.challenge # None /\ MppAccepts(panel.challenge)
                /\ panel' = [panel EXCEPT !.phase = "signing"]
                /\ call' = [call EXCEPT ![c] = [at |-> "build", quote |-> panel.challenge,
                                                shown |-> panel.pricing, late |-> FALSE]]
             \/ /\ panel' = [panel EXCEPT !.phase = "error"]  \* also: expired, not USDC
                /\ UNCHANGED call
       \/ /\ ~wallet.networkMismatch /\ panel.protocol # "mpp"
          /\ IF Loaded("x402")
             THEN /\ panel' = [panel EXCEPT !.phase = "signing"]
                  /\ call' = [call EXCEPT ![c] = [NoCall EXCEPT !.at = "preflight",
                                                                !.shown = panel.pricing]]
             ELSE /\ panel' = [panel EXCEPT !.phase = "error"]
                  /\ UNCHANGED call
    /\ UNCHANGED <<walletVars, loads>>

\* sendX402PaidRequest asks again, and pays what the new answer quotes.
PreflightAnswered(c) ==
    /\ At(c, "preflight")
    /\ \/ \E q \in Quotes :
             /\ q.scheme = "x402"
             /\ IF X402Accepts(q)
                THEN /\ call' = [call EXCEPT ![c] = [@ EXCEPT !.at = "build", !.quote = q]]
                     /\ UNCHANGED panel
                ELSE Ends(c, "error")
       \/ \E p \in {"done", "cors_error", "error"} : Ends(c, p)
    /\ UNCHANGED <<walletVars, loads>>

\* A call fails before it is signed; the race may have ended for it already.
Fails(c, phase) ==
    IF call[c].late THEN call' = [call EXCEPT ![c] = NoCall] /\ UNCHANGED panel
    ELSE Ends(c, phase)

\* The signer opens Freighter's popup.
PopupOpens(c) ==
    /\ MaySign
    /\ call' = [call EXCEPT ![c].at = "popup"]
    /\ UNCHANGED panel

\* createMppCredential simulates the transfer; x402 leaves that to its client.
Build(c) ==
    /\ At(c, "build")
    /\ \/ PopupOpens(c)
       \/ \E p \in {"error", "cors_error"} : Fails(c, p)
    /\ UNCHANGED <<walletVars, loads>>

\* The visitor signs.  A signature that lost the race goes nowhere, and
\* nothing is sent once the panel is closed (activeService is null).
Sign(c) ==
    /\ At(c, "popup")
    /\ IF call[c].late \/ panel.active = None THEN Fails(c, "error")
       ELSE /\ panel' = [panel EXCEPT !.phase = "waiting_response"]
            /\ call' = [call EXCEPT ![c].at = "wait"]
    /\ UNCHANGED <<walletVars, loads>>

\* The visitor declines, or Freighter fails.
Decline(c) ==
    /\ At(c, "popup")
    /\ \E p \in {"price_confirm", "error"} : Fails(c, p)
    /\ UNCHANGED <<walletVars, loads>>

Bug_TimeoutUnseen(c) ==
    /\ call[c].at \in {"build", "popup"} /\ ~call[c].late
    /\ call' = [call EXCEPT ![c].late = TRUE]
    /\ UNCHANGED <<walletVars, loads, panel>>

\* 60 s passed.  The popup stays open.
SigningTimesOut(c) ==
    /\ call[c].at \in {"build", "popup"} /\ ~call[c].late
    /\ call' = [call EXCEPT ![c].late = TRUE]
    /\ panel' = [panel EXCEPT !.phase = "error"]
    /\ UNCHANGED <<walletVars, loads>>

PaidAnswered(c) ==
    /\ At(c, "wait")
    /\ \E p \in {"done", "cors_error", "error"} : Ends(c, p)
    /\ UNCHANGED <<walletVars, loads>>

-----------------------------------------------------------------------------

TryNext ==
    \/ WalletNext /\ UNCHANGED payVars
    \/ \E m \in Modules, o \in {"loaded", "failed"} : SettleLoad(m, o)
    \/ \E s \in Services : Open(s)
    \/ \E s \in Services : Close(s)
    \/ \E s \in Services : ResetToEditing(s)
    \/ \E s \in Services, c \in Calls : Submit(s, c)
    \/ \E s \in Services, c \in Calls : Confirm(s, c)
    \/ \E c \in Calls : FetchAnswered(c)
    \/ \E c \in Calls : PreflightAnswered(c)
    \/ \E c \in Calls : Build(c)
    \/ \E c \in Calls : Sign(c)
    \/ \E c \in Calls : Decline(c)
    \/ \E c \in Calls : SigningTimesOut(c)
    \/ \E c \in Calls : PaidAnswered(c)

TrySpec == TryInit /\ [][TryNext]_tryVars

\* Every fetch has an AbortSignal.timeout and every signature races a timer.
TryFairness ==
    \A c \in Calls :
       /\ WF_tryVars(FetchAnswered(c)) /\ WF_tryVars(PreflightAnswered(c))
       /\ WF_tryVars(SigningTimesOut(c)) /\ WF_tryVars(PaidAnswered(c))

FairTrySpec == TrySpec /\ TryFairness

-----------------------------------------------------------------------------
(* Properties *)

PanelStates == [active : Services \cup {None}, phase : Phases, protocol : Modules \cup {None},
                challenge : Quotes \cup {None}, pricing : Quotes \cup {None}]
CallStates == [at : {"free", "fetch", "preflight", "build", "popup", "wait"},
               quote : Quotes \cup {None}, shown : Quotes \cup {None}, late : BOOLEAN]

TryTypeOK ==
    /\ WalletTypeOK
    /\ loads \in [Modules -> {"loading", "loaded", "failed"}]
    /\ panel \in PanelStates
    /\ call \in [Calls -> CallStates]

Signing(c) == call[c].at \in {"build", "popup", "wait"}

\* By MPP nothing is signed but the challenge whose price was on screen when the
\* visitor confirmed it, although answers to requests the visitor gave up keep
\* arriving and replace the price and the challenge.
ShownIsSigned ==
    \A c \in Calls : Signing(c) /\ call[c].quote.scheme = "mpp" => call[c].quote = call[c].shown

\* While the panel says it is busy, a call in just that stage is out that has not
\* timed out, so the screen will move on: no answer, cancellation, timeout or
\* reopened panel leaves a spinner behind.
BusyIsReal ==
    /\ panel.phase = "sending" => \E c \in Calls : At(c, "fetch")
    /\ panel.phase = "signing" =>
          \E c \in Calls : call[c].at \in {"preflight", "build", "popup"} /\ ~call[c].late
    /\ panel.phase = "waiting_response" => \E c \in Calls : At(c, "wait")
    /\ \A c \in Calls : At(c, "wait") => ~call[c].late

busy == panel.phase \in {"sending", "signing", "waiting_response"}

\* The panel is never busy for good, even when Freighter never answers.
NeverStuck == []<>(~busy)
=============================================================================
