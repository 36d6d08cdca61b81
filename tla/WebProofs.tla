------------------------------- MODULE WebProofs -------------------------------
(***************************************************************************)
(* Proofs about the web application: the wallet session and the payment    *)
(* panel, for any number of accounts, calls and quotes, and the pages, for *)
(* any number of visitors, texts and URIs.                                 *)
(***************************************************************************)
EXTENDS TryAgent, AgentPages, TLAPS

-----------------------------------------------------------------------------
(* The session *)

\* The store and the signer start in their types.
LEMMA WalletTypeInit == ASSUME WalletInit PROVE WalletTypeOK
BY DEF WalletInit, WalletTypeOK

\* Every step of the session keeps them.
LEMMA WalletTypeStep ==
    ASSUME WalletTypeOK, [WalletNext]_walletVars PROVE WalletTypeOK'
<1> USE DEF WalletTypeOK
<1>1. ASSUME NEW a \in Accounts, SwitchAccount(a) PROVE WalletTypeOK'
  BY <1>1 DEF SwitchAccount
<1>2. ASSUME NEW n \in Networks, SwitchNetwork(n) PROVE WalletTypeOK'
  BY <1>2 DEF SwitchNetwork
<1>3. ASSUME NEW k \in Connects, Connect(k) PROVE WalletTypeOK'
  BY <1>3 DEF Connect
<1>4. ASSUME NEW k \in Connects \cup {Restore}, Ask(k) PROVE WalletTypeOK'
  <2>1. CASE AccessGranted(k) BY <2>1 DEF AccessGranted
  <2>2. CASE AccessRefused(k) BY <2>2 DEF AccessRefused, Settled
  <2>3. CASE NetworkRead(k) BY <2>3 DEF NetworkRead, Settled
  <2>4. CASE NetworkUnread(k) BY <2>4 DEF NetworkUnread, Settled
  <2> QED BY <1>4, <2>1, <2>2, <2>3, <2>4 DEF Ask
<1>5. CASE Disconnect BY <1>5 DEF Disconnect
<1>6. CASE UNCHANGED walletVars BY <1>6 DEF walletVars
<1> QED BY <1>1, <1>2, <1>3, <1>4, <1>5, <1>6 DEF WalletNext

\* Only a granted access and disconnect write the address, and both write both copies.
LEMMA SessionStep ==
    ASSUME WalletTypeOK, SessionAgrees, [WalletNext]_walletVars PROVE SessionAgrees'
<1> USE WalletAssumption DEF SessionAgrees, WalletTypeOK
<1>1. ASSUME NEW a \in Accounts, SwitchAccount(a) PROVE SessionAgrees'
  BY <1>1 DEF SwitchAccount
<1>2. ASSUME NEW n \in Networks, SwitchNetwork(n) PROVE SessionAgrees'
  BY <1>2 DEF SwitchNetwork
<1>3. ASSUME NEW k \in Connects, Connect(k) PROVE SessionAgrees'
  BY <1>3 DEF Connect
<1>4. ASSUME NEW k \in Connects \cup {Restore}, Ask(k) PROVE SessionAgrees'
  <2>1. CASE AccessGranted(k)
    <3>1. /\ wallet'.address = extension.account /\ wallet'.connected = TRUE
          /\ publicKey' = extension.account
      BY <2>1 DEF AccessGranted
    <3>2. extension.account # None
      OBVIOUS
    <3> QED BY <3>1, <3>2
  <2>2. CASE AccessRefused(k) BY <2>2 DEF AccessRefused, Settled
  <2>3. CASE NetworkRead(k) BY <2>3 DEF NetworkRead, Settled
  <2>4. CASE NetworkUnread(k) BY <2>4 DEF NetworkUnread, Settled
  <2> QED BY <1>4, <2>1, <2>2, <2>3, <2>4 DEF Ask
<1>5. CASE Disconnect BY <1>5 DEF Disconnect
<1>6. CASE UNCHANGED walletVars BY <1>6 DEF walletVars
<1> QED BY <1>1, <1>2, <1>3, <1>4, <1>5, <1>6 DEF WalletNext

\* Before the session is restored neither copy holds an address.
LEMMA SessionInit == ASSUME WalletInit PROVE SessionAgrees
BY DEF WalletInit, SessionAgrees

\* The store of the application and the Freighter signer hold one account, or
\* neither holds any, however restore, connects and disconnect overlap.
THEOREM SessionSafe == WalletSpec => []SessionAgrees
<1>1. WalletInit => WalletTypeOK /\ SessionAgrees
  BY WalletTypeInit, SessionInit
<1>2. WalletTypeOK /\ SessionAgrees /\ [WalletNext]_walletVars => (WalletTypeOK /\ SessionAgrees)'
  BY WalletTypeStep, SessionStep
<1> QED BY <1>1, <1>2, PTL DEF WalletSpec

-----------------------------------------------------------------------------
(* The panel works on top of the session *)

\* The payment panel takes no step of the session but the session's own.
LEMMA TryStepsWallet == ASSUME [TryNext]_tryVars PROVE [WalletNext]_walletVars
<1> SUFFICES ASSUME TryNext PROVE [WalletNext]_walletVars
  BY DEF tryVars
<1> QED
  BY DEF TryNext, walletVars, SettleLoad, Open, Close, ResetToEditing, Submit, Confirm, FetchAnswered,
         PreflightAnswered, Build, Sign, Decline, SigningTimesOut, PaidAnswered

\* What a visitor does with the panel open is a behaviour of the session: the
\* calls of the panel read the store and the signer and never write them.
THEOREM PanelKeepsSession == TrySpec => WalletSpec
<1>1. TryInit => WalletInit
  BY DEF TryInit
<1>2. [TryNext]_tryVars => [WalletNext]_walletVars
  BY TryStepsWallet
<1> QED BY <1>1, <1>2, PTL DEF TrySpec, WalletSpec

\* So the store and the signer agree while payments are made, too.
THEOREM SessionInPanel == TrySpec => []SessionAgrees
BY PanelKeepsSession, SessionSafe, PTL

-----------------------------------------------------------------------------
(* The panel's own invariants *)

\* The part of TryTypeOK about the panel and its calls.
PanelTypeOK == panel \in PanelStates /\ call \in [Calls -> CallStates]

LoadsTypeOK == loads \in [Modules -> {"loading", "loaded", "failed"}]

\* An import ends as loaded or failed.
LEMMA LoadsTypeStep == ASSUME LoadsTypeOK, [TryNext]_tryVars PROVE LoadsTypeOK'
BY DEF LoadsTypeOK, TryNext, tryVars, payVars, SettleLoad, Open, Close, ResetToEditing, Submit, Confirm,
       FetchAnswered, PreflightAnswered, Build, Sign, Decline, SigningTimesOut, PaidAnswered

\* A call that ends leaves a panel and a free call.
LEMMA EndsKeepsType ==
    ASSUME PanelTypeOK, NEW c \in Calls, NEW p \in Phases, Ends(c, p) PROVE PanelTypeOK'
BY DEF PanelTypeOK, PanelStates, CallStates, Ends, NoCall

\* So does a call that fails.
LEMMA FailsKeepsType ==
    ASSUME PanelTypeOK, NEW c \in Calls, NEW p \in Phases, Fails(c, p) PROVE PanelTypeOK'
<1>1. CASE call[c].late
  <2>1. panel' = panel /\ call' = [call EXCEPT ![c] = NoCall]
    BY <1>1 DEF Fails
  <2> QED BY <2>1 DEF PanelTypeOK, CallStates, NoCall
<1>2. CASE ~call[c].late
  BY <1>2, EndsKeepsType DEF Fails
<1> QED BY <1>1, <1>2

\* openTryPanel leaves a panel.
LEMMA OpenedType ==
    ASSUME PanelTypeOK, NEW s \in Services PROVE Opened(s) \in PanelStates
BY DEF PanelTypeOK, PanelStates, Opened, Phases

\* So does a quote that was read.
LEMMA QuotedType ==
    ASSUME PanelTypeOK, NEW q \in Quotes PROVE Quoted(q) \in PanelStates
BY TryAssumption DEF PanelTypeOK, PanelStates, Quoted, Phases, Modules

\* The panel starts closed and without calls.
LEMMA PanelTypeInit == ASSUME TryInit PROVE PanelTypeOK
BY DEF TryInit, PanelTypeOK, PanelStates, CallStates, ClosedPanel, NoCall, Phases

\* Every action keeps the panel's and the calls' types.
LEMMA PanelTypeStep ==
    ASSUME PanelTypeOK, [TryNext]_tryVars PROVE PanelTypeOK'
<1> USE DEF PanelTypeOK, PanelStates, CallStates
<1>1. CASE WalletNext /\ UNCHANGED payVars
  BY <1>1 DEF payVars
<1>2. ASSUME NEW m \in Modules, NEW o \in {"loaded", "failed"}, SettleLoad(m, o) PROVE PanelTypeOK'
  <2>1. PICK s \in Services : panel' = Opened(s) \/ panel' = panel
    BY <1>2 DEF SettleLoad
  <2> QED BY <1>2, <2>1, OpenedType DEF SettleLoad
<1>3. ASSUME NEW s \in Services, Open(s) PROVE PanelTypeOK'
  BY <1>3, OpenedType DEF Open
<1>4. ASSUME NEW s \in Services, Close(s) PROVE PanelTypeOK'
  BY <1>4 DEF Close, ClosedPanel, Phases
<1>5. ASSUME NEW s \in Services, ResetToEditing(s) PROVE PanelTypeOK'
  BY <1>5 DEF ResetToEditing, ClosedPanel, Phases
<1>6. ASSUME NEW s \in Services, NEW c \in Calls, Submit(s, c) PROVE PanelTypeOK'
  BY <1>6 DEF Submit, Phases
<1>7. ASSUME NEW s \in Services, NEW c \in Calls, Confirm(s, c) PROVE PanelTypeOK'
  <2>1. CASE panel' = [panel EXCEPT !.phase = "error"] /\ UNCHANGED call
    BY <2>1 DEF Phases
  <2>2. CASE /\ panel.challenge # None
             /\ panel' = [panel EXCEPT !.phase = "signing"]
             /\ call' = [call EXCEPT ![c] = [at |-> "build", quote |-> panel.challenge,
                                            shown |-> panel.pricing, late |-> FALSE]]
    BY <2>2 DEF Phases
  <2>3. CASE /\ panel' = [panel EXCEPT !.phase = "signing"]
             /\ call' = [call EXCEPT ![c] = [NoCall EXCEPT !.at = "preflight", !.shown = panel.pricing]]
    BY <2>3 DEF NoCall, Phases
  <2> QED BY <1>7, <2>1, <2>2, <2>3 DEF Confirm
<1>8. ASSUME NEW c \in Calls, FetchAnswered(c) PROVE PanelTypeOK'
  <2>1. call' = [call EXCEPT ![c] = NoCall]
    BY <1>8 DEF FetchAnswered
  <2>2. CASE \E q \in Quotes : panel' = Quoted(q)
    <3>1. PICK q \in Quotes : panel' = Quoted(q)
      BY <2>2
    <3>2. Quoted(q) \in PanelStates
      BY QuotedType
    <3> QED BY <2>1, <3>1, <3>2 DEF NoCall
  <2>3. CASE panel' = [panel EXCEPT !.phase = "error", !.protocol = "x402"]
    BY <2>1, <2>3 DEF NoCall, Phases, Modules
  <2>4. CASE \E p \in {"done", "cors_error", "error"} : panel' = [panel EXCEPT !.phase = p]
    BY <2>1, <2>4 DEF NoCall, Phases
  <2> QED BY <1>8, <2>2, <2>3, <2>4 DEF FetchAnswered
<1>9. ASSUME NEW c \in Calls, PreflightAnswered(c) PROVE PanelTypeOK'
  <2>1. CASE \E p \in {"done", "cors_error", "error"} : Ends(c, p)
    BY <2>1, EndsKeepsType DEF Phases
  <2>2. CASE \E q \in Quotes : call' = [call EXCEPT ![c] = [@ EXCEPT !.at = "build", !.quote = q]] /\ UNCHANGED panel
    <3>1. PICK q \in Quotes :
             call' = [call EXCEPT ![c] = [@ EXCEPT !.at = "build", !.quote = q]] /\ UNCHANGED panel
      BY <2>2
    <3>2. [call[c] EXCEPT !.at = "build", !.quote = q] \in CallStates
      OBVIOUS
    <3> QED BY <1>9, <3>1, <3>2 DEF PreflightAnswered
  <2> QED BY <1>9, <2>1, <2>2 DEF PreflightAnswered
<1>10. ASSUME NEW c \in Calls, Build(c) PROVE PanelTypeOK'
  <2>1. CASE PopupOpens(c) BY <2>1 DEF PopupOpens
  <2>2. CASE \E p \in {"error", "cors_error"} : Fails(c, p) BY <2>2, FailsKeepsType DEF Phases
  <2> QED BY <1>10, <2>1, <2>2 DEF Build
<1>11. ASSUME NEW c \in Calls, Sign(c) PROVE PanelTypeOK'
  <2>1. CASE Fails(c, "error") BY <2>1, FailsKeepsType DEF Phases
  <2>2. CASE /\ panel' = [panel EXCEPT !.phase = "waiting_response"]
             /\ call' = [call EXCEPT ![c].at = "wait"]
    BY <2>2 DEF Phases
  <2> QED BY <1>11, <2>1, <2>2 DEF Sign
<1>12. ASSUME NEW c \in Calls, Decline(c) PROVE PanelTypeOK'
  BY <1>12, FailsKeepsType DEF Decline, Phases
<1>13. ASSUME NEW c \in Calls, SigningTimesOut(c) PROVE PanelTypeOK'
  BY <1>13 DEF SigningTimesOut, Phases
<1>14. ASSUME NEW c \in Calls, PaidAnswered(c) PROVE PanelTypeOK'
  BY <1>14, EndsKeepsType DEF PaidAnswered, Phases
<1>15. CASE UNCHANGED tryVars
  BY <1>15 DEF tryVars, payVars
<1> QED
  BY <1>1, <1>2, <1>3, <1>4, <1>5, <1>6, <1>7, <1>8, <1>9, <1>10, <1>11, <1>12, <1>13, <1>14, <1>15
  DEF TryNext

\* The session and the panel keep their types.
THEOREM TryTypes == TrySpec => []TryTypeOK
<1>1. TryInit => WalletTypeOK /\ LoadsTypeOK /\ PanelTypeOK
  BY WalletTypeInit, PanelTypeInit DEF TryInit, LoadsTypeOK
<1>2. WalletTypeOK /\ LoadsTypeOK /\ PanelTypeOK /\ [TryNext]_tryVars
         => (WalletTypeOK /\ LoadsTypeOK /\ PanelTypeOK)'
  BY TryStepsWallet, WalletTypeStep, LoadsTypeStep, PanelTypeStep
<1>3. WalletTypeOK /\ LoadsTypeOK /\ PanelTypeOK => TryTypeOK
  BY DEF TryTypeOK, LoadsTypeOK, PanelTypeOK
<1> QED BY <1>1, <1>2, <1>3, PTL DEF TrySpec

-----------------------------------------------------------------------------
(* What is signed.  The property is not inductive: the challenge a call will
   sign is chosen from the panel, so the panel's price has to be the challenge's
   while its protocol is MPP. *)

PriceIsChallenge ==
    panel.protocol = "mpp" /\ panel.pricing # None => panel.challenge = panel.pricing

PaysWhatWasShown(c) ==
    Signing(c) /\ call[c].quote.scheme = "mpp" => call[c].quote = call[c].shown

SignInv == PriceIsChallenge /\ \A c \in Calls : PaysWhatWasShown(c)

\* Nothing is signed before a call.
LEMMA SignInit == ASSUME TryInit PROVE SignInv
BY DEF TryInit, SignInv, PriceIsChallenge, PaysWhatWasShown, Signing, ClosedPanel, NoCall

\* A call that ends, or fails late, leaves the price and the other calls alone.
LEMMA OverKeepsSignInv ==
    ASSUME PanelTypeOK, SignInv, NEW c \in Calls,
           call' = [call EXCEPT ![c] = NoCall],
           panel' = panel \/ \E p \in Phases : panel' = [panel EXCEPT !.phase = p]
    PROVE  SignInv'
BY DEF PanelTypeOK, PanelStates, CallStates, SignInv, PriceIsChallenge, PaysWhatWasShown, Signing, NoCall

\* Ending and failing free the call and change at most the phase.
LEMMA EndsOrFails ==
    ASSUME NEW c \in Calls, NEW p \in Phases, Ends(c, p) \/ Fails(c, p)
    PROVE  /\ call' = [call EXCEPT ![c] = NoCall]
           /\ panel' = panel \/ \E q \in Phases : panel' = [panel EXCEPT !.phase = q]
BY DEF Ends, Fails

\* Every action keeps what is signed equal to what was shown.
LEMMA SignStep ==
    ASSUME PanelTypeOK, SignInv, [TryNext]_tryVars PROVE SignInv'
<1> USE DEF PanelTypeOK, PanelStates, CallStates, SignInv, PriceIsChallenge, PaysWhatWasShown, Signing
<1>1. CASE WalletNext /\ UNCHANGED payVars
  BY <1>1 DEF payVars
<1>2. ASSUME NEW m \in Modules, NEW o \in {"loaded", "failed"}, SettleLoad(m, o) PROVE SignInv'
  BY <1>2 DEF SettleLoad, Opened
<1>3. ASSUME NEW s \in Services, Open(s) PROVE SignInv'
  BY <1>3 DEF Open, Opened
<1>4. ASSUME NEW s \in Services, Close(s) PROVE SignInv'
  BY <1>4 DEF Close, ClosedPanel
<1>5. ASSUME NEW s \in Services, ResetToEditing(s) PROVE SignInv'
  BY <1>5 DEF ResetToEditing, ClosedPanel
<1>6. ASSUME NEW s \in Services, NEW c \in Calls, Submit(s, c) PROVE SignInv'
  BY <1>6 DEF Submit
<1>7. ASSUME NEW s \in Services, NEW c \in Calls, Confirm(s, c) PROVE SignInv'
  <2>1. CASE panel' = [panel EXCEPT !.phase = "error"] /\ UNCHANGED call
    BY <2>1
  <2>2. CASE /\ panel.protocol = "mpp" /\ panel.challenge # None /\ MppAccepts(panel.challenge)
             /\ panel' = [panel EXCEPT !.phase = "signing"]
             /\ call' = [call EXCEPT ![c] = [at |-> "build", quote |-> panel.challenge,
                                            shown |-> panel.pricing, late |-> FALSE]]
    BY <1>7, <2>2 DEF Confirm, ConfirmOffered
  <2>3. CASE /\ panel' = [panel EXCEPT !.phase = "signing"]
             /\ call' = [call EXCEPT ![c] = [NoCall EXCEPT !.at = "preflight", !.shown = panel.pricing]]
    BY <2>3 DEF NoCall
  <2> QED BY <1>7, <2>1, <2>2, <2>3 DEF Confirm
<1>8. ASSUME NEW c \in Calls, FetchAnswered(c) PROVE SignInv'
  <2>1. call' = [call EXCEPT ![c] = NoCall]
    BY <1>8 DEF FetchAnswered
  <2>2. CASE \E q \in Quotes : panel' = Quoted(q)
    BY <2>1, <2>2 DEF Quoted, NoCall
  <2>3. CASE panel' = [panel EXCEPT !.phase = "error", !.protocol = "x402"]
    BY <2>1, <2>3 DEF NoCall
  <2>4. CASE \E p \in {"done", "cors_error", "error"} : panel' = [panel EXCEPT !.phase = p]
    BY <2>1, <2>4, OverKeepsSignInv DEF Phases
  <2> QED BY <1>8, <2>2, <2>3, <2>4 DEF FetchAnswered
<1>9. ASSUME NEW c \in Calls, PreflightAnswered(c) PROVE SignInv'
  <2>1. CASE \E p \in {"done", "cors_error", "error"} : Ends(c, p)
    BY <2>1, EndsOrFails, OverKeepsSignInv DEF Phases
  <2>2. CASE \E q \in Quotes :
                /\ q.scheme = "x402" /\ X402Accepts(q) /\ UNCHANGED panel
                /\ call' = [call EXCEPT ![c] = [@ EXCEPT !.at = "build", !.quote = q]]
    BY <2>2
  <2> QED BY <1>9, <2>1, <2>2 DEF PreflightAnswered
<1>10. ASSUME NEW c \in Calls, Build(c) PROVE SignInv'
  <2>1. CASE PopupOpens(c) BY <1>10, <2>1 DEF Build, At, PopupOpens
  <2>2. CASE \E p \in {"error", "cors_error"} : Fails(c, p)
    BY <2>2, EndsOrFails, OverKeepsSignInv DEF Phases
  <2> QED BY <1>10, <2>1, <2>2 DEF Build
<1>11. ASSUME NEW c \in Calls, Sign(c) PROVE SignInv'
  <2>1. CASE Fails(c, "error")
    BY <2>1, EndsOrFails, OverKeepsSignInv DEF Phases
  <2>2. CASE ~Fails(c, "error")
    BY <1>11, <2>2 DEF Sign, At
  <2> QED BY <2>1, <2>2
<1>12. ASSUME NEW c \in Calls, Decline(c) PROVE SignInv'
  BY <1>12, EndsOrFails, OverKeepsSignInv DEF Decline, Phases
<1>13. ASSUME NEW c \in Calls, SigningTimesOut(c) PROVE SignInv'
  BY <1>13 DEF SigningTimesOut
<1>14. ASSUME NEW c \in Calls, PaidAnswered(c) PROVE SignInv'
  BY <1>14, EndsOrFails, OverKeepsSignInv DEF PaidAnswered, Phases
<1>15. CASE UNCHANGED tryVars
  BY <1>15 DEF tryVars, payVars
<1> QED
  BY <1>1, <1>2, <1>3, <1>4, <1>5, <1>6, <1>7, <1>8, <1>9, <1>10, <1>11, <1>12, <1>13, <1>14, <1>15
  DEF TryNext

\* createMppCredential signs the challenge whose price was confirmed on screen.
THEOREM PaymentAsShown == TrySpec => []ShownIsSigned
<1>1. TryInit => PanelTypeOK /\ SignInv
  BY PanelTypeInit, SignInit
<1>2. PanelTypeOK /\ SignInv /\ [TryNext]_tryVars => (PanelTypeOK /\ SignInv)'
  BY PanelTypeStep, SignStep
<1>3. SignInv => ShownIsSigned
  BY DEF SignInv, PaysWhatWasShown, ShownIsSigned
<1> QED BY <1>1, <1>2, <1>3, PTL DEF TrySpec

-----------------------------------------------------------------------------
(* What the screen waits for.  BusyIsReal is inductive next to the types. *)

\* The closed panel waits for nothing.
LEMMA BusyInit == ASSUME TryInit PROVE BusyIsReal
BY DEF TryInit, BusyIsReal, ClosedPanel, NoCall, At

\* A step after which the panel is not busy needs only that no call starts to
\* wait for the service.
LEMMA IdleIsReal ==
    ASSUME PanelTypeOK, BusyIsReal,
           panel'.phase \notin {"sending", "signing", "waiting_response"},
           \A c \in Calls : (call[c].at = "wait")' => UNCHANGED call[c]
    PROVE  BusyIsReal'
BY DEF BusyIsReal, At

\* A call that ends shows its phase, unless the race was over for it.
LEMMA EndedIsReal ==
    ASSUME PanelTypeOK, BusyIsReal, NEW c \in Calls,
           NEW p \in {"price_confirm", "done", "cors_error", "error"},
           Ends(c, p) \/ (call[c].at \in {"build", "popup"} /\ Fails(c, p))
    PROVE  BusyIsReal'
<1> USE DEF PanelTypeOK, PanelStates, CallStates
<1>1. CASE Ends(c, p)
  BY <1>1, IdleIsReal DEF Ends, NoCall
<1>2. CASE ~Ends(c, p)
  <2>1. /\ call[c].late /\ call[c].at \in {"build", "popup"}
        /\ call' = [call EXCEPT ![c] = NoCall] /\ UNCHANGED panel
    BY <1>2 DEF Fails
  <2> QED BY <2>1 DEF BusyIsReal, At, NoCall
<1> QED BY <1>1, <1>2

\* Every action keeps BusyIsReal.
LEMMA BusyStep ==
    ASSUME PanelTypeOK, BusyIsReal, [TryNext]_tryVars PROVE BusyIsReal'
<1> USE DEF PanelTypeOK, PanelStates, CallStates
<1>1. CASE WalletNext /\ UNCHANGED payVars
  BY <1>1 DEF payVars, BusyIsReal, At
<1>2. ASSUME NEW m \in Modules, NEW o \in {"loaded", "failed"}, SettleLoad(m, o) PROVE BusyIsReal'
  BY <1>2 DEF SettleLoad, Opened, BusyIsReal, At
<1>3. ASSUME NEW s \in Services, Open(s) PROVE BusyIsReal'
  BY <1>3, IdleIsReal DEF Open, Opened
<1>4. ASSUME NEW s \in Services, Close(s) PROVE BusyIsReal'
  BY <1>4, IdleIsReal DEF Close, ClosedPanel
<1>5. ASSUME NEW s \in Services, ResetToEditing(s) PROVE BusyIsReal'
  BY <1>5, IdleIsReal DEF ResetToEditing, ClosedPanel
<1>6. ASSUME NEW s \in Services, NEW c \in Calls, Submit(s, c) PROVE BusyIsReal'
  BY <1>6 DEF Submit, BusyIsReal, At
<1>7. ASSUME NEW s \in Services, NEW c \in Calls, Confirm(s, c) PROVE BusyIsReal'
  <2>1. CASE panel' = [panel EXCEPT !.phase = "error"] /\ UNCHANGED call
    BY <2>1, IdleIsReal
  <2>2. CASE /\ panel' = [panel EXCEPT !.phase = "signing"]
             /\ call' = [call EXCEPT ![c] = [at |-> "build", quote |-> panel.challenge,
                                            shown |-> panel.pricing, late |-> FALSE]]
    BY <2>2 DEF BusyIsReal, At
  <2>3. CASE /\ panel' = [panel EXCEPT !.phase = "signing"]
             /\ call' = [call EXCEPT ![c] = [NoCall EXCEPT !.at = "preflight", !.shown = panel.pricing]]
    BY <2>3 DEF NoCall, BusyIsReal, At
  <2> QED BY <1>7, <2>1, <2>2, <2>3 DEF Confirm
<1>8. ASSUME NEW c \in Calls, FetchAnswered(c) PROVE BusyIsReal'
  <2>1. call' = [call EXCEPT ![c] = NoCall]
    BY <1>8 DEF FetchAnswered
  <2>2. panel'.phase \in {"price_confirm", "done", "cors_error", "error"}
    BY <1>8 DEF FetchAnswered, Quoted
  <2> QED BY <2>1, <2>2, IdleIsReal DEF NoCall
<1>9. ASSUME NEW c \in Calls, PreflightAnswered(c) PROVE BusyIsReal'
  <2>1. CASE \E p \in {"done", "cors_error", "error"} : Ends(c, p)
    BY <2>1, EndedIsReal
  <2>2. CASE \E q \in Quotes :
                /\ call' = [call EXCEPT ![c] = [@ EXCEPT !.at = "build", !.quote = q]]
                /\ UNCHANGED panel
    <3>1. At(c, "preflight") /\ panel' = panel
      BY <1>9, <2>2 DEF PreflightAnswered
    <3>2. call'[c].at = "build" /\ call'[c].late = call[c].late
      BY <2>2
    <3>3. \A d \in Calls \ {c} : call'[d] = call[d]
      BY <2>2
    <3> QED BY <3>1, <3>2, <3>3 DEF BusyIsReal, At
  <2> QED BY <1>9, <2>1, <2>2 DEF PreflightAnswered
<1>10. ASSUME NEW c \in Calls, Build(c) PROVE BusyIsReal'
  <2>1. CASE PopupOpens(c) BY <1>10, <2>1 DEF Build, PopupOpens, BusyIsReal, At
  <2>2. CASE \E p \in {"error", "cors_error"} : Fails(c, p)
    BY <1>10, <2>2, EndedIsReal DEF Build, At
  <2> QED BY <1>10, <2>1, <2>2 DEF Build
<1>11. ASSUME NEW c \in Calls, Sign(c) PROVE BusyIsReal'
  <2>1. CASE Fails(c, "error")
    BY <1>11, <2>1, EndedIsReal DEF Sign, At
  <2>2. CASE ~Fails(c, "error")
    BY <1>11, <2>2 DEF Sign, BusyIsReal, At
  <2> QED BY <2>1, <2>2
<1>12. ASSUME NEW c \in Calls, Decline(c) PROVE BusyIsReal'
  BY <1>12, EndedIsReal DEF Decline, At
<1>13. ASSUME NEW c \in Calls, SigningTimesOut(c) PROVE BusyIsReal'
  BY <1>13, IdleIsReal DEF SigningTimesOut
<1>14. ASSUME NEW c \in Calls, PaidAnswered(c) PROVE BusyIsReal'
  BY <1>14, EndedIsReal DEF PaidAnswered
<1>15. CASE UNCHANGED tryVars
  BY <1>15 DEF tryVars, payVars, BusyIsReal, At
<1> QED
  BY <1>1, <1>2, <1>3, <1>4, <1>5, <1>6, <1>7, <1>8, <1>9, <1>10, <1>11, <1>12, <1>13, <1>14, <1>15
  DEF TryNext

\* While TryAgentPanel shows a spinner, a call in that stage is out and not timed out.
THEOREM SpinnerIsReal == TrySpec => []BusyIsReal
<1>1. TryInit => PanelTypeOK /\ BusyIsReal
  BY PanelTypeInit, BusyInit
<1>2. PanelTypeOK /\ BusyIsReal /\ [TryNext]_tryVars => (PanelTypeOK /\ BusyIsReal)'
  BY PanelTypeStep, BusyStep
<1> QED BY <1>1, <1>2, PTL DEF TrySpec

-----------------------------------------------------------------------------
(* The pages *)

BadgeTypeOK == badge \in [count : Visitors \cup {Null}, fetching : SUBSET Visitors]

CountInv == BadgeTypeOK /\ address \in Visitors \cup {Null} /\ CountIsOwn

\* Only the session, the answer to a count and a reload touch the badge.
LEMMA OthersKeepBadge ==
    ASSUME [Next]_vars,
           ~(\E a \in Visitors \cup {Null} : SessionChanges(a)),
           ~(\E a \in Visitors : \E c \in {a, Null} : CountAnswered(a, c)),
           ~Refresh
    PROVE  UNCHANGED <<address, badge>>
BY DEF Next, vars, Index, ResolvePending, Visit, OpenEdit, Poll, Type, EditText, ChooseUri,
       OpenEditor, CloseEditor, SwitchTab, ToggleWalletSection, Toggle, FilterByTag,
       SubmitRegister, SubmitUriUpdate, SubmitFeedback, SaveMetadata, SubmitWallet, SubmitForm,
       Refused, SignForm, Settle, TimedOut, AnsweredWithError, Registered, FeedbackSubmitted,
       UriUpdateSubmitted, MetadataSaved, WalletSubmitted, Confirms, Redirect, CloseByTimer,
       ResetFeedback

\* Every step keeps the count that of the address, or its replacement under way.
LEMMA CountStep == ASSUME CountInv, [Next]_vars PROVE CountInv'
<1> USE DEF CountInv, BadgeTypeOK, CountIsOwn
<1>1. ASSUME NEW a \in Visitors \cup {Null}, SessionChanges(a) PROVE CountInv'
  <2>1. CASE a = Null
    BY <1>1, <2>1 DEF SessionChanges
  <2>2. CASE a # Null
    BY <1>1, <2>2 DEF SessionChanges
  <2> QED BY <2>1, <2>2
<1>2. ASSUME NEW a \in Visitors, NEW c \in {a, Null}, CountAnswered(a, c) PROVE CountInv'
  BY <1>2 DEF CountAnswered, CountIsFor
<1>3. CASE Refresh
  BY <1>3 DEF Refresh
<1>4. CASE UNCHANGED <<address, badge>>
  BY <1>4
<1> QED BY <1>1, <1>2, <1>3, <1>4, OthersKeepBadge

\* ProfileBadge never shows the count of an account that was left, for any number
\* of accounts and fetches.
THEOREM BadgeCountsOwn == Spec => []CountIsOwn
<1>1. Init => CountInv
  BY DEF Init, CountInv, BadgeTypeOK, CountIsOwn
<1>2. CountInv /\ [Next]_vars => CountInv'
  BY CountStep
<1>3. CountInv => CountIsOwn
  BY DEF CountInv
<1> QED BY <1>1, <1>2, <1>3, PTL DEF Spec

\* The registration form's draft is removed only after its transaction applied.
THEOREM DraftSurvives == Spec => DraftKept
<1>1. [Next]_vars => [draft # Null /\ draft' = Null => sent["register"].at = "applied"]_vars
  <2> SUFFICES ASSUME Next, draft # Null, draft' = Null PROVE sent["register"].at = "applied"
    BY DEF vars
  <2>1. Registered \/ \E t \in Texts : Type(t)
    BY DEF Next, SessionChanges, CountAnswered, Refresh, Index, ResolvePending, Visit, OpenEdit,
       Poll, EditText, ChooseUri, OpenEditor, CloseEditor, SwitchTab, ToggleWalletSection, Toggle,
       FilterByTag, SubmitRegister, SubmitUriUpdate, SubmitFeedback, SaveMetadata, SubmitWallet,
       SubmitForm, Refused, SignForm, Settle, TimedOut, AnsweredWithError, FeedbackSubmitted,
       UriUpdateSubmitted, MetadataSaved, WalletSubmitted, Confirms, Redirect, CloseByTimer,
       ResetFeedback
  <2>2. ~(\E t \in Texts : Type(t))
    BY PagesAssumption DEF Type
  <2> QED BY <2>1, <2>2 DEF Registered, Succeeded
<1> QED BY <1>1, PTL DEF Spec, DraftKept

-----------------------------------------------------------------------------
(* Forms that submit.  What a form shows changes with its transaction, or the
   transaction is orphaned when the form goes. *)

SentFields == {"at", "caller", "uri", "waiting", "live", "mine", "followed"}

Real(s) == s.at # "no" /\ s.live /\ (s.at \in {"sign", "pending"} => s.waiting)

SubmitInv ==
    /\ DOMAIN form = Forms /\ DOMAIN sent = Forms
    /\ \A f \in Forms : DOMAIN sent[f] = SentFields
    /\ \A f \in Forms : form[f] = "submitting" => Real(sent[f])

\* A step of one form and its transaction.
LEMMA OneFormStep ==
    ASSUME SubmitInv, NEW f \in Forms,
           DOMAIN form' = Forms, DOMAIN sent' = Forms, DOMAIN sent'[f] = SentFields,
           \A g \in Forms \ {f} : form'[g] = form[g] /\ sent'[g] = sent[g],
           form'[f] = "submitting" => Real(sent'[f])
    PROVE  SubmitInv'
<1>1. \A g \in Forms : DOMAIN sent'[g] = SentFields /\ (form'[g] = "submitting" => Real(sent'[g]))
  BY DEF SubmitInv
<1> QED BY <1>1 DEF SubmitInv, Real

\* A transaction that is over, of a form that shows how it ended.
LEMMA EndedStep ==
    ASSUME SubmitInv, NEW f \in Forms, NEW status, status # "submitting", Shows(f, status),
           sent' = [sent EXCEPT ![f] = NotSent]
    PROVE  SubmitInv'
<1>1. DOMAIN NotSent = SentFields BY DEF NotSent, SentFields
<1>2. DOMAIN sent' = Forms /\ sent'[f] = NotSent /\ \A g \in Forms \ {f} : sent'[g] = sent[g]
  BY DEF SubmitInv
<1>3. DOMAIN form' = Forms /\ form'[f] # "submitting" /\ \A g \in Forms \ {f} : form'[g] = form[g]
  BY DEF Shows, SubmitInv, Real
<1> QED BY <1>1, <1>2, <1>3, OneFormStep

\* A form that shows something else, or is new.
LEMMA ShownStep ==
    ASSUME SubmitInv, NEW f \in Forms, NEW status, status # "submitting",
           form' = [form EXCEPT ![f] = status],
           sent' = sent \/ sent' = [sent EXCEPT ![f].live = FALSE]
    PROVE  SubmitInv'
<1>1. DOMAIN form' = Forms /\ form'[f] = status /\ \A g \in Forms \ {f} : form'[g] = form[g]
  BY DEF SubmitInv
<1>2. DOMAIN sent' = Forms /\ DOMAIN sent'[f] = SentFields /\ \A g \in Forms \ {f} : sent'[g] = sent[g]
  BY DEF SubmitInv
<1> QED BY <1>1, <1>2, OneFormStep

\* Forms that are gone submit nothing; the others are as they were.
LEMMA GoneStep ==
    ASSUME SubmitInv, NEW gone, form' = Cleared(gone), sent' = Orphaned(gone)
    PROVE  SubmitInv'
<1>1. DOMAIN form' = Forms /\ DOMAIN sent' = Forms
  BY DEF Cleared, Orphaned
<1>2. ASSUME NEW f \in Forms
      PROVE  DOMAIN sent'[f] = SentFields /\ (form'[f] = "submitting" => Real(sent'[f]))
  <2>1. CASE f \in gone
    <3>1. form'[f] = "idle" /\ sent'[f] = [sent[f] EXCEPT !.live = FALSE]
      BY <2>1 DEF Cleared, Orphaned
    <3> QED BY <3>1 DEF SubmitInv
  <2>2. CASE f \notin gone
    <3>1. form'[f] = form[f] /\ sent'[f] = sent[f]
      BY <2>2 DEF Cleared, Orphaned
    <3> QED BY <3>1 DEF SubmitInv
  <2> QED BY <2>1, <2>2
<1> QED BY <1>1, <1>2 DEF SubmitInv, Real

\* Every step keeps the invariant.
LEMMA SubmitStep == ASSUME SubmitInv, [Next]_vars PROVE SubmitInv'
<1>1. ASSUME UNCHANGED <<form, sent>> PROVE SubmitInv'
  BY <1>1 DEF SubmitInv, Real
<1>2. ASSUME NEW a \in Visitors \cup {Null}, SessionChanges(a) PROVE SubmitInv'
  BY <1>2, GoneStep, Zenon DEF SessionChanges
<1>3. ASSUME NEW p, Goes(p) PROVE SubmitInv'
  BY <1>3, GoneStep, Zenon DEF Goes
<1>4. CASE Refresh
  <2>1. /\ DOMAIN form' = Forms /\ DOMAIN sent' = Forms
        /\ \A f \in Forms : form'[f] = "idle"
    BY <1>4 DEF Refresh
  <2>2. ASSUME NEW f \in Forms PROVE DOMAIN sent'[f] = SentFields
    <3>1. sent'[f] = NotSent \/ sent'[f] = [sent[f] EXCEPT !.waiting = FALSE, !.live = FALSE]
      BY <1>4 DEF Refresh
    <3>2. DOMAIN NotSent = SentFields BY DEF NotSent, SentFields
    <3> QED BY <3>1, <3>2 DEF SubmitInv
  <2> QED BY <2>1, <2>2 DEF SubmitInv, Real
<1>5. CASE CloseEditor \/ CloseByTimer
  BY <1>5, ShownStep DEF CloseEditor, CloseByTimer, Forms
<1>6. CASE SwitchTab \/ ToggleWalletSection
  BY <1>6, ShownStep DEF SwitchTab, ToggleWalletSection, Toggle, Forms
<1>7. CASE ResetFeedback
  BY <1>7, ShownStep DEF ResetFeedback, Forms
<1>8. ASSUME NEW f \in Forms, NEW uri, SubmitForm(f, uri) PROVE SubmitInv'
  <2>1. CASE address = Null
    BY <1>8, <2>1, ShownStep DEF SubmitForm
  <2>2. CASE address # Null
    <3> DEFINE mine == IsOwner
               followed == page.at # "other"
               s == [NotSent EXCEPT !.at = "sign", !.caller = address, !.uri = uri, !.waiting = TRUE,
                        !.live = TRUE, !.mine = mine, !.followed = followed]
    <3>1. form' = [form EXCEPT ![f] = "submitting"] /\ sent' = [sent EXCEPT ![f] = s]
      BY <1>8, <2>2 DEF SubmitForm
    <3> HIDE DEF mine, followed
    <3>2. DOMAIN s = SentFields /\ Real(s)
      BY DEF NotSent, SentFields, Real
    <3> HIDE DEF s
    <3>3. DOMAIN form' = Forms /\ DOMAIN sent' = Forms /\ sent'[f] = s
          /\ \A g \in Forms \ {f} : form'[g] = form[g] /\ sent'[g] = sent[g]
      BY <3>1 DEF SubmitInv
    <3> QED BY <3>2, <3>3, OneFormStep
  <2> QED BY <2>1, <2>2
<1>9. CASE SubmitRegister \/ SubmitUriUpdate \/ SubmitFeedback \/ SaveMetadata \/ SubmitWallet
  BY <1>8, <1>9 DEF SubmitRegister, SubmitUriUpdate, SubmitFeedback, SaveMetadata, SubmitWallet, Forms
<1>10. ASSUME NEW f \in Forms, Refused(f) \/ AnsweredWithError(f) PROVE SubmitInv'
  BY <1>10, EndedStep DEF Refused, AnsweredWithError
<1>11. ASSUME NEW f \in Forms, SignForm(f) PROVE SubmitInv'
  <2>1. sent' = [sent EXCEPT ![f].at = "pending"] /\ form' = form
    BY <1>11 DEF SignForm
  <2>2. DOMAIN sent' = Forms /\ DOMAIN sent'[f] = SentFields /\ \A g \in Forms \ {f} : sent'[g] = sent[g]
    BY <2>1 DEF SubmitInv
  <2>3. form[f] = "submitting" => Real(sent'[f])
    <3>1. sent[f].at = "sign" /\ "at" \in DOMAIN sent[f]
      BY <1>11 DEF SignForm, SubmitInv, SentFields
    <3>2. sent'[f] = [sent[f] EXCEPT !.at = "pending"]
      BY <2>1 DEF SubmitInv
    <3>3. sent'[f].live = sent[f].live /\ sent'[f].waiting = sent[f].waiting /\ sent'[f].at = "pending"
      BY <3>2 DEF SubmitInv, SentFields
    <3> QED BY <3>1, <3>3 DEF SubmitInv, Real
  <2> QED BY <2>1, <2>2, <2>3, OneFormStep DEF SubmitInv
<1>12. ASSUME NEW f \in Forms, NEW at \in {"applied", "failed"}, Settle(f, at) PROVE SubmitInv'
  <2>1. form' = form /\ sent[f].at = "pending" /\ DOMAIN form' = Forms
    BY <1>12 DEF Settle, SubmitInv
  <2>2. CASE ~sent[f].waiting
    <3>1. sent' = [sent EXCEPT ![f] = NotSent]
      BY <1>12, <2>2 DEF Settle
    <3>2. form[f] # "submitting"
      BY <2>1, <2>2 DEF SubmitInv, Real
    <3>3. DOMAIN NotSent = SentFields BY DEF NotSent, SentFields
    <3>4. DOMAIN sent' = Forms /\ sent'[f] = NotSent /\ \A g \in Forms \ {f} : sent'[g] = sent[g]
      BY <3>1 DEF SubmitInv
    <3> QED BY <2>1, <3>2, <3>3, <3>4, OneFormStep
  <2>3. CASE sent[f].waiting
    <3> DEFINE first == agent.owner = Null
               live == sent[f].live
               s == [NotSent EXCEPT !.at = at, !.followed = first, !.live = live]
    <3>1. sent' = [sent EXCEPT ![f] = s]
      BY <1>12, <2>3 DEF Settle
    <3>2. form[f] = "submitting" => live
      BY DEF SubmitInv, Real
    <3> HIDE DEF first, live
    <3>3. DOMAIN s = SentFields /\ s.at = at /\ s.live = live
      BY DEF NotSent, SentFields
    <3> HIDE DEF s
    <3>4. DOMAIN sent' = Forms /\ sent'[f] = s /\ \A g \in Forms \ {f} : sent'[g] = sent[g]
      BY <3>1 DEF SubmitInv
    <3>5. form'[f] = "submitting" => Real(sent'[f])
      BY <2>1, <3>2, <3>3, <3>4 DEF Real
    <3> QED BY <2>1, <3>3, <3>4, <3>5, OneFormStep
  <2> QED BY <2>2, <2>3
<1>13. ASSUME NEW f \in Forms, TimedOut(f) PROVE SubmitInv'
  <2>1. sent' = [sent EXCEPT ![f].waiting = FALSE, ![f].live = FALSE]
    BY <1>13 DEF TimedOut
  <2>2. DOMAIN sent' = Forms /\ DOMAIN sent'[f] = SentFields /\ \A g \in Forms \ {f} : sent'[g] = sent[g]
    BY <2>1 DEF SubmitInv
  <2>3. DOMAIN form' = Forms /\ form'[f] # "submitting" /\ \A g \in Forms \ {f} : form'[g] = form[g]
    BY <1>13 DEF TimedOut, Shows, SubmitInv, Real
  <2> QED BY <2>2, <2>3, OneFormStep
<1>14. CASE Registered
  <2>1. PICK gone : /\ form' = Cleared(gone \cup {"register"})
                    /\ sent' = [Orphaned(gone) EXCEPT !["register"] = NotSent]
    BY <1>14, Zenon DEF Registered
  <2>2. "register" \in Forms /\ DOMAIN NotSent = SentFields
    BY DEF Forms, NotSent, SentFields
  <2>3. DOMAIN form' = Forms /\ DOMAIN sent' = Forms /\ form'["register"] = "idle" /\ sent'["register"] = NotSent
    BY <2>1, <2>2 DEF Cleared, Orphaned
  <2>4. ASSUME NEW f \in Forms \ {"register"}
        PROVE  DOMAIN sent'[f] = SentFields /\ (form'[f] = "submitting" => Real(sent'[f]))
    <3>1. CASE f \in gone
      <4>1. form'[f] = "idle" /\ sent'[f] = [sent[f] EXCEPT !.live = FALSE]
        BY <2>1, <3>1 DEF Cleared, Orphaned
      <4> QED BY <4>1 DEF SubmitInv
    <3>2. CASE f \notin gone
      <4>1. form'[f] = form[f] /\ sent'[f] = sent[f]
        BY <2>1, <3>2 DEF Cleared, Orphaned
      <4> QED BY <4>1 DEF SubmitInv
    <3> QED BY <3>1, <3>2
  <2>5. \A f \in Forms : DOMAIN sent'[f] = SentFields /\ (form'[f] = "submitting" => Real(sent'[f]))
    BY <2>2, <2>3, <2>4
  <2> QED BY <2>3, <2>5 DEF SubmitInv, Real
<1>15. ASSUME NEW f \in Forms, Confirms(f) PROVE SubmitInv'
  BY <1>15, EndedStep DEF Confirms
<1>16. CASE FeedbackSubmitted \/ UriUpdateSubmitted \/ MetadataSaved \/ WalletSubmitted
  BY <1>15, <1>16 DEF FeedbackSubmitted, UriUpdateSubmitted, MetadataSaved, WalletSubmitted, Forms
<1>17. CASE Redirect
  BY <1>17, GoneStep, Zenon DEF Redirect
<1>18. CASE (\E p : Visit(p)) \/ OpenEdit
  BY <1>3, <1>18 DEF Visit, OpenEdit
<1>19. CASE \/ \E a \in Visitors : \E c \in {a, Null} : CountAnswered(a, c)
            \/ Index \/ (\E up \in SUBSET DOMAIN Redirects : ResolvePending(up)) \/ Poll
            \/ (\E t \in Texts : Type(t) \/ EditText(t))
            \/ (\E uri \in TypedUris \cup {Null} : ChooseUri(uri))
            \/ OpenEditor \/ FilterByTag \/ UNCHANGED vars
  BY <1>1, <1>19
  DEF CountAnswered, Index, ResolvePending, Poll, Type, EditText, ChooseUri, OpenEditor, FilterByTag, vars
<1> QED
  BY <1>2, <1>4, <1>5, <1>6, <1>7, <1>9, <1>10, <1>11, <1>12, <1>13, <1>14, <1>16, <1>17, <1>18, <1>19
  DEF Next

\* No form of the web application is left saying that it submits, for any number of
\* visitors, texts, URIs and transactions out.
THEOREM NoFormLeftSubmitting == Spec => []SubmittingIsReal
<1>1. Init => SubmitInv
  <2>1. DOMAIN NotSent = SentFields BY DEF NotSent, SentFields
  <2> QED BY <2>1 DEF Init, SubmitInv
<1>2. SubmitInv /\ [Next]_vars => SubmitInv'
  BY SubmitStep
<1>3. SubmitInv => SubmittingIsReal
  BY DEF SubmitInv, SubmittingIsReal, Real
<1> QED BY <1>1, <1>2, <1>3, PTL DEF Spec
=============================================================================
