------------------------------ MODULE AgentPages ------------------------------
(***************************************************************************)
(* A person registers an agent in the web application, watches it being    *)
(* indexed, edits its document and fills the other forms, in one tab.      *)
(* The chain, the indexer and the resolver work in between; a form's       *)
(* transaction goes on when its page is left, and answers late.            *)
(*                                                                         *)
(* One agent is followed: the first registered.  The pages of the others   *)
(* are the component of its page, too, which stays while the person goes   *)
(* from one to the other.  A document is the text the forms edit.  The     *)
(* session is what WalletSession promises: one address for all.            *)
(***************************************************************************)
EXTENDS Naturals, FiniteSets, UriFetch

CONSTANTS
    Visitors,      \* the accounts of Freighter
    Strangers,     \* other owners of agents
    Texts,         \* what a person may type
    DefaultName,   \* the name shown for an agent without a document
    Published,     \* URIs an agent may have before the visit
    TypedUris,     \* URIs a person may type
    MAX_POLLS,     \* of the agent page
    MAX_ATTEMPTS,  \* of the resolver
    MaxOut         \* bound on the forms whose transaction is out at once

ASSUME PagesAssumption ==
    /\ MAX_POLLS \in Nat \ {0} /\ MAX_ATTEMPTS \in Nat \ {0} /\ MaxOut \in Nat
    /\ Null \notin Visitors \cup Strangers \cup Texts
    /\ \A uri \in Published \cup TypedUris : uri.kind = "web" => uri.host \in DOMAIN Redirects

VARIABLES
    address,  \* wallet.address: Null when disconnected
    badge,    \* ProfileBadge: whose agents were counted, and the fetches out
    agent,    \* the agent on the chain: owner (Null: not registered) and URI
    row,      \* its row in the agents table
    page,     \* the page on screen
    form,     \* the status of each form
    sent,     \* the transaction of each form
    draft,    \* sessionStorage: the text of the registration form
    timers    \* "redirect" (after an edit), "close" (of the URI editor)

envVars == <<agent, row>>
vars == <<address, badge, envVars, page, form, sent, draft, timers>>

Forms == {"register", "uri", "feedback", "edit", "wallet"}

NoRow == [present |-> FALSE, uri |-> Null, doc |-> Null, pending |-> FALSE, attempts |-> 0]

\* at: "agent" and "other" (another agent's page) are one component.  data: the
\* state the server computed.  just: registered=true in the address.  owner: of
\* the other agent.  opened: the parts of the page that are on screen (the
\* reputation tab, the URI editor, the wallet section).  kept: an agent that is not
\* indexed came to a component mounted for another one.  manual: the URI typed (Null: mode auto).
Elsewhere == [at |-> "elsewhere", data |-> Null, just |-> FALSE, owner |-> Null, polls |-> 0,
              timer |-> FALSE, opened |-> {}, kept |-> FALSE, text |-> Null, manual |-> Null]

\* at: "sign" (built, in Freighter), "pending", "applied" or "failed".
\* waiting: signAndSend still polls.  live: the form that sent it is on screen.
\* mine: the caller owns the agent.  followed: it is the agent that is followed.
NotSent == [at |-> "no", caller |-> Null, uri |-> Null, waiting |-> FALSE, live |-> FALSE,
            mine |-> FALSE, followed |-> FALSE]

\* Before the visit the agent may have been registered by other software.
Init ==
    /\ address = Null
    /\ badge = [count |-> Null, fetching |-> {}]
    /\ agent \in [owner : Visitors \cup Strangers, uri : Published \cup {Null}]
                    \cup {[owner |-> Null, uri |-> Null]}
    /\ row = NoRow
    /\ page = Elsewhere
    /\ form = [f \in Forms |-> "idle"]
    /\ sent = [f \in Forms |-> NotSent]
    /\ draft = Null
    /\ timers = {}

-----------------------------------------------------------------------------
(* The session and the count of its agents *)

IsAgentPage(p) == p.at \in {"agent", "other"}

OwnerOn(p) == IF p.at = "other" THEN p.owner ELSE agent.owner

\* The branches around the feedback form, each with a form of its own.
FeedbackPanel(p, a) ==
    IF ~IsAgentPage(p) \/ p.data = "indexing" \/ "feedback" \notin p.opened THEN "none"
    ELSE IF a = Null THEN "disconnected"
    ELSE IF a = OwnerOn(p) THEN "owner"
    ELSE "visitor"

\* Forms that are gone, or new; their transactions go on.
Cleared(gone) == [f \in Forms |-> IF f \in gone THEN "idle" ELSE form[f]]
Orphaned(gone) == [f \in Forms |-> IF f \in gone THEN [sent[f] EXCEPT !.live = FALSE] ELSE sent[f]]

SessionChanges(a) ==
    /\ a # address
    /\ address' = a
    /\ badge' = IF a = Null THEN [badge EXCEPT !.count = Null]
                ELSE [badge EXCEPT !.fetching = @ \cup {a}]
    /\ LET gone == {f \in {"feedback"} : FeedbackPanel(page, a) # FeedbackPanel(page, address)}
       IN form' = Cleared(gone) /\ sent' = Orphaned(gone)
    /\ UNCHANGED <<envVars, page, draft, timers>>

Bug_CountUnchecked(a) == TRUE
CountIsFor(a) == a = address

CountAnswered(a, count) ==
    /\ a \in badge.fetching
    /\ badge' = [count |-> IF CountIsFor(a) THEN count ELSE badge.count,
                 fetching |-> badge.fetching \ {a}]
    /\ UNCHANGED <<address, envVars, page, form, sent, draft, timers>>

-----------------------------------------------------------------------------
(* The indexer and its resolver, as modules Indexer and EventProjection have
   them in detail *)

Index ==
    /\ agent.owner # Null /\ (~row.present \/ row.uri # agent.uri)
    /\ row' = [NoRow EXCEPT !.present = TRUE, !.uri = agent.uri, !.pending = agent.uri # Null]
    /\ UNCHANGED <<address, badge, agent, page, form, sent, draft, timers>>

\* A try counts, whatever comes of it.  What a URI that changes during the fetch
\* does is in EventProjection.
ResolvePending(up) ==
    /\ row.pending
    /\ LET doc == ResolveUri(row.uri, up)
       IN row' = IF doc # Null THEN [row EXCEPT !.doc = doc, !.attempts = 0, !.pending = FALSE]
                 ELSE [row EXCEPT !.attempts = @ + 1, !.pending = row.attempts + 1 < MAX_ATTEMPTS]
    /\ UNCHANGED <<address, badge, agent, page, form, sent, draft, timers>>

-----------------------------------------------------------------------------
(* Loading pages *)

\* load of agents/[id]: what the row says.
StateOf(r) ==
    IF ~r.present THEN "indexing"
    ELSE IF r.doc # Null THEN "ready"
    ELSE IF r.uri = Null THEN "no-uri"
    ELSE IF r.pending THEN "resolving"
    ELSE "failed"

Transitional == {"indexing", "resolving"}

\* load, for the address with registered=true and without.
AgentPage(just) ==
    IF ~row.present /\ ~just THEN Elsewhere      \* 404
    ELSE [Elsewhere EXCEPT !.at = "agent", !.just = just, !.data = StateOf(row)]

\* Of the states of the other agents, the one that waits and one that does not.
OtherPage(state, owner) ==
    [Elsewhere EXCEPT !.at = "other", !.data = state, !.owner = owner]

\* The mode of a URI that was published by hand, and the URI.
UriMode(uri) == IF uri # Null /\ uri.kind = "ipfs" THEN uri ELSE Null

\* The form is a snapshot of what was loaded.
InitialText(doc) == IF doc = Null THEN DefaultName ELSE doc

EditPage ==
    IF ~row.present THEN Elsewhere
    ELSE [Elsewhere EXCEPT !.at = "edit", !.text = InitialText(row.doc), !.manual = UriMode(row.uri)]

RegisterPage == [Elsewhere EXCEPT !.at = "register", !.text = draft]

\* The effect of the agent page ends the polling once there is nothing to wait for.
EndsPolling(p) == IF p.data \in Transitional THEN p ELSE [p EXCEPT !.timer = FALSE]

\* The agent page is mounted: onMount starts the polling.
Mounted(p) ==
    IF IsAgentPage(p) THEN [p EXCEPT !.timer = p.data \in Transitional, !.opened = {"feedback"}] ELSE p

\* From one agent page to another: new data for the component that is there, with
\* its polls, its timer and its editor; onMount does not run.
Stays(p) == IsAgentPage(page) /\ IsAgentPage(p)

Arrived(p) ==
    IF Stays(p)
    THEN EndsPolling([page EXCEPT !.at = p.at, !.just = p.just, !.data = p.data, !.owner = p.owner,
                                  !.kept = p.data = "indexing" /\ (@ \/ p.at # page.at \/ p.at = "other")])
    ELSE Mounted(p)

\* The forms that going to p takes off the screen, or starts anew.
Gone(p) ==
    IF ~Stays(p) THEN Forms
    ELSE {f \in {"feedback"} : FeedbackPanel(Arrived(p), address) # FeedbackPanel(page, address)}

Goes(p) ==
    /\ page' = Arrived(p)
    /\ form' = Cleared(Gone(p))
    /\ sent' = Orphaned(Gone(p))
    /\ timers' = IF Stays(p) THEN timers ELSE timers \ {"close"}

Visit(p) ==
    /\ page.at # p.at \/ IsAgentPage(p)
    /\ Goes(p)
    /\ UNCHANGED <<address, badge, envVars, draft>>

\* What invalidateAll may find.
Found(p) == IF p.at = "agent" THEN {StateOf(row)} ELSE {p.data, "ready"}

\* The other pages keep what was typed.
Reloads(p) ==
    IF IsAgentPage(p) THEN {EndsPolling([p EXCEPT !.data = state]) : state \in Found(p)} ELSE {p}

\* The tab is loaded again.  Nobody waits for transactions any more, those not
\* signed are gone, and the session waits to be restored.
Refresh ==
    /\ page' \in CASE page.at = "agent" -> {Mounted(AgentPage(page.just))}
                   [] page.at = "other" -> {Mounted(OtherPage(s, page.owner)) : s \in Found(page)}
                   [] page.at = "edit" -> {EditPage}
                   [] page.at = "register" -> {RegisterPage}
                   [] OTHER -> {Elsewhere}
    /\ address' = Null
    /\ badge' = [count |-> Null, fetching |-> {}]
    /\ form' = [f \in Forms |-> "idle"]
    /\ sent' = [f \in Forms |-> IF sent[f].at # "pending" THEN NotSent
                                ELSE [sent[f] EXCEPT !.waiting = FALSE, !.live = FALSE]]
    /\ timers' = {}
    /\ UNCHANGED <<envVars, draft>>

IsOwner == address # Null /\ address = OwnerOn(page)

\* The link is offered unless the document is being fetched.
EditOffered ==
    page.at = "agent" /\ IsOwner /\ page.data \in {"ready", "no-uri", "failed"}

OpenEdit ==
    /\ EditOffered
    /\ Goes(EditPage)
    /\ UNCHANGED <<address, badge, envVars, draft>>

Bug_PollsForDocument == page.timer /\ page.data = "resolving"
PollDue == page.timer

\* Every ten seconds.
Poll ==
    /\ PollDue
    /\ page' \in IF page.polls + 1 >= MAX_POLLS
                 THEN {[page EXCEPT !.polls = @ + 1, !.timer = FALSE]}
                 ELSE Reloads([page EXCEPT !.polls = @ + 1])
    /\ UNCHANGED <<address, badge, envVars, form, sent, draft, timers>>

-----------------------------------------------------------------------------
(* The forms *)

\* The registration form saves every change.
Type(t) ==
    /\ page.at = "register"
    /\ page' = [page EXCEPT !.text = t]
    /\ draft' = t
    /\ UNCHANGED <<address, badge, envVars, form, sent, timers>>

\* The sections of the edit page that are on screen.  toggleSection changes a Set,
\* which Svelte does not track: what is shown never changes.
openSections == {"basic"}

EditText(t) ==
    /\ page.at = "edit" /\ "basic" \in openSections
    /\ page' = [page EXCEPT !.text = t]
    /\ UNCHANGED <<address, badge, envVars, form, sent, draft, timers>>

\* Where the URI mode can be switched.
OffersUriMode == {"register"} \cup {p \in {"edit"} : "uri" \in openSections}

\* The document of the form, or a URI typed by hand.
ChooseUri(uri) ==
    /\ page.at \in OffersUriMode /\ page.manual # uri
    /\ page' = [page EXCEPT !.manual = uri]
    /\ UNCHANGED <<address, badge, envVars, form, sent, draft, timers>>

\* Update URI of the failure banner, and Cancel; the status is the page's.
OpenEditor ==
    /\ page.at = "agent" /\ page.data = "failed" /\ IsOwner /\ "uri" \notin page.opened
    /\ page' = [page EXCEPT !.opened = @ \cup {"uri"}]
    /\ UNCHANGED <<address, badge, envVars, form, sent, draft, timers>>

CloseEditor ==
    /\ "uri" \in page.opened
    /\ page' = [page EXCEPT !.opened = @ \ {"uri"}]
    /\ form' = [form EXCEPT !["uri"] = "idle"]
    /\ UNCHANGED <<address, badge, envVars, sent, draft, timers>>

\* A part with a form of its own is shown or hidden: a new form each time.
Toggle(f) ==
    /\ page' = [page EXCEPT !.opened = IF f \in @ THEN @ \ {f} ELSE @ \cup {f}]
    /\ form' = [form EXCEPT ![f] = "idle"]
    /\ sent' = [sent EXCEPT ![f].live = FALSE]
    /\ UNCHANGED <<address, badge, envVars, draft, timers>>

\* The other tabs have no form.
SwitchTab == IsAgentPage(page) /\ page.data # "indexing" /\ Toggle("feedback")

ToggleWalletSection == page.at = "edit" /\ Toggle("wallet")

\* The pills of the reputation tab: goto the same page with a tag, and reload.
FilterByTag ==
    /\ IsAgentPage(page) /\ page.data # "indexing" /\ "feedback" \in page.opened
    /\ page' \in Reloads(page)
    /\ UNCHANGED <<address, badge, envVars, form, sent, draft, timers>>

\* The submit buttons that are on screen and not disabled for want of input.
RegisterOffered ==
    page.at = "register" /\ address # Null /\ (page.text # Null \/ page.manual # Null)
UriOffered == IsAgentPage(page) /\ "uri" \in page.opened /\ page.data # "indexing"
FeedbackOffered == FeedbackPanel(page, address) = "visitor" /\ form["feedback"] # "success"
SaveOffered == page.at = "edit" /\ IsOwner /\ page.text # Null
WalletOffered == page.at = "edit" /\ "wallet" \in page.opened

Out == {f \in Forms : sent[f].at # "no"}

\* A form takes the address and builds its transaction, if there is an address.
SubmitForm(f, uri) ==
    /\ form[f] # "submitting"
    /\ sent[f].at = "no" /\ Cardinality(Out) < MaxOut
    /\ IF address = Null
       THEN form' = [form EXCEPT ![f] = "error"] /\ UNCHANGED sent
       ELSE /\ form' = [form EXCEPT ![f] = "submitting"]
            /\ sent' = [sent EXCEPT ![f] = [NotSent EXCEPT !.at = "sign", !.caller = address,
                                               !.uri = uri, !.waiting = TRUE, !.live = TRUE,
                                               !.mine = IsOwner, !.followed = page.at # "other"]]
    /\ UNCHANGED <<address, badge, envVars, page, draft, timers>>

\* The URI typed by hand, or the document of the form as a data URI.
ChosenUri == IF page.manual # Null THEN page.manual ELSE DataUri(page.text)

SubmitRegister == RegisterOffered /\ SubmitForm("register", ChosenUri)

SubmitUriUpdate == UriOffered /\ \E uri \in TypedUris : SubmitForm("uri", uri)

SubmitFeedback == FeedbackOffered /\ SubmitForm("feedback", Null)

SaveMetadata == SaveOffered /\ SubmitForm("edit", ChosenUri)

\* bindWallet or unbindWallet, which share a status.
SubmitWallet == WalletOffered /\ SubmitForm("wallet", Null)

\* The status shown where the form that sent is still on screen.
Shows(f, status) == form' = IF sent[f].live THEN [form EXCEPT ![f] = status] ELSE form

\* Too large, refused by the simulation, declined, wrong network, disconnected.
Refused(f) ==
    /\ sent[f].at = "sign"
    /\ Shows(f, "error")
    /\ sent' = [sent EXCEPT ![f] = NotSent]
    /\ UNCHANGED <<address, badge, envVars, page, draft, timers>>

SignForm(f) ==
    /\ sent[f].at = "sign" /\ address = sent[f].caller
    /\ sent' = [sent EXCEPT ![f].at = "pending"]
    /\ UNCHANGED <<address, badge, envVars, page, form, draft, timers>>

\* The transaction is included, or fails.  Nobody waits for one that timed out.
Settle(f, at) ==
    /\ sent[f].at = "pending"
    /\ at = "applied" /\ f \in {"uri", "edit"} => sent[f].mine
    /\ sent' = [sent EXCEPT ![f] =
                   IF ~@.waiting THEN NotSent
                   ELSE [NotSent EXCEPT !.at = at, !.followed = agent.owner = Null, !.live = sent[f].live]]
    /\ agent' = IF at = "applied" /\ f = "register" /\ agent.owner = Null
                THEN [owner |-> sent[f].caller, uri |-> sent[f].uri]
                ELSE IF at = "applied" /\ f \in {"uri", "edit"} /\ sent[f].followed
                THEN [agent EXCEPT !.uri = sent[f].uri]
                ELSE agent
    /\ UNCHANGED <<address, badge, row, page, form, draft, timers>>

Bug_StillPendingNotShown(f) ==
    /\ sent[f].at = "pending" /\ sent[f].waiting
    /\ sent' = [sent EXCEPT ![f].waiting = FALSE, ![f].live = FALSE]
    /\ UNCHANGED <<address, badge, envVars, page, form, draft, timers>>

\* TransactionStillPending: an error on screen, a transaction that may yet apply.
TimedOut(f) ==
    /\ sent[f].at = "pending" /\ sent[f].waiting
    /\ Shows(f, "error")
    /\ sent' = [sent EXCEPT ![f].waiting = FALSE, ![f].live = FALSE]
    /\ UNCHANGED <<address, badge, envVars, page, draft, timers>>

\* Only the registration form reads the result, which throws for a failed one.
Succeeded(f) == sent[f].at = "applied" \/ f # "register"

Answered(f) == sent[f].at \in {"applied", "failed"}

Bug_DraftDroppedOnError(f) ==
    /\ Answered(f) /\ ~Succeeded(f)
    /\ Shows(f, "error")
    /\ sent' = [sent EXCEPT ![f] = NotSent]
    /\ draft' = Null
    /\ UNCHANGED <<address, badge, envVars, page, timers>>

AnsweredWithError(f) ==
    /\ Answered(f) /\ ~Succeeded(f)
    /\ Shows(f, "error")
    /\ sent' = [sent EXCEPT ![f] = NotSent]
    /\ UNCHANGED <<address, badge, envVars, page, draft, timers>>

\* goto the page of the new agent, wherever the person is by now.  A second
\* registration is of an agent that is not followed.
Registered ==
    /\ Answered("register") /\ Succeeded("register")
    /\ draft' = Null
    /\ \E p \in IF sent["register"].followed THEN {AgentPage(TRUE)}
                ELSE {OtherPage(state, address) : state \in {"indexing", "ready"}} :
          /\ page' = Arrived(p)
          /\ form' = Cleared(Gone(p) \cup {"register"})
          /\ sent' = [Orphaned(Gone(p)) EXCEPT !["register"] = NotSent]
          /\ timers' = IF Stays(p) THEN timers ELSE timers \ {"close"}
    /\ UNCHANGED <<address, badge, envVars>>

\* The other forms do not read the result, and so show success.
Confirms(f) ==
    /\ Answered(f) /\ Succeeded(f)
    /\ Shows(f, "success")
    /\ sent' = [sent EXCEPT ![f] = NotSent]
    /\ UNCHANGED <<address, badge, envVars, draft>>

FeedbackSubmitted == Confirms("feedback") /\ UNCHANGED <<page, timers>>

UriUpdateSubmitted ==
    /\ Confirms("uri")
    /\ page' \in Reloads(page)
    /\ timers' = timers \cup (IF sent["uri"].live THEN {"close"} ELSE {})

MetadataSaved ==
    /\ Confirms("edit")
    /\ page' \in Reloads(page)
    /\ timers' = timers \cup {"redirect"}

WalletSubmitted == Confirms("wallet") /\ page' \in Reloads(page) /\ UNCHANGED timers

\* 1.5 s after an edit, on whatever page.
Redirect ==
    /\ "redirect" \in timers
    /\ LET p == AgentPage(FALSE)
       IN /\ page' = Arrived(p)
          /\ form' = Cleared(Gone(p))
          /\ sent' = Orphaned(Gone(p))
          /\ timers' = (IF Stays(p) THEN timers ELSE timers \ {"close"}) \ {"redirect"}
    /\ UNCHANGED <<address, badge, envVars, draft>>

\* 1.5 s after a URI update, also when the editor was opened again.
CloseByTimer ==
    /\ "close" \in timers
    /\ page' = [page EXCEPT !.opened = @ \ {"uri"}]
    /\ form' = [form EXCEPT !["uri"] = "idle"]
    /\ timers' = timers \ {"close"}
    /\ UNCHANGED <<address, badge, envVars, sent, draft>>

\* Submit another.
ResetFeedback ==
    /\ IsAgentPage(page) /\ form["feedback"] = "success"
    /\ form' = [form EXCEPT !["feedback"] = "idle"]
    /\ UNCHANGED <<address, badge, envVars, page, sent, draft, timers>>

-----------------------------------------------------------------------------

Next ==
    \/ \E a \in Visitors \cup {Null} : SessionChanges(a)
    \/ \E a \in Visitors : \E c \in {a, Null} : CountAnswered(a, c)
    \/ Index
    \/ \E up \in SUBSET DOMAIN Redirects : ResolvePending(up)
    \/ Visit(Elsewhere)
    \/ Visit(RegisterPage)
    \/ \E just \in BOOLEAN : Visit(AgentPage(just))
    \/ \E state \in {"indexing", "ready"}, owner \in Visitors \cup Strangers : Visit(OtherPage(state, owner))
    \/ OpenEdit
    \/ Refresh
    \/ Poll
    \/ \E t \in Texts : Type(t)
    \/ \E t \in Texts : EditText(t)
    \/ \E uri \in TypedUris \cup {Null} : ChooseUri(uri)
    \/ OpenEditor
    \/ CloseEditor
    \/ SwitchTab
    \/ ToggleWalletSection
    \/ FilterByTag
    \/ SubmitRegister
    \/ SubmitUriUpdate
    \/ SubmitFeedback
    \/ SaveMetadata
    \/ SubmitWallet
    \/ \E f \in Forms : Refused(f)
    \/ \E f \in Forms : SignForm(f)
    \/ \E f \in Forms, at \in {"applied", "failed"} : Settle(f, at)
    \/ \E f \in Forms : TimedOut(f)
    \/ \E f \in Forms : AnsweredWithError(f)
    \/ Registered
    \/ FeedbackSubmitted
    \/ UriUpdateSubmitted
    \/ MetadataSaved
    \/ WalletSubmitted
    \/ Redirect
    \/ CloseByTimer
    \/ ResetFeedback

Spec == Init /\ [][Next]_vars /\ WF_vars(Poll)

-----------------------------------------------------------------------------
(* Properties *)

\* The count beside the address is of that address's agents, or the answer that
\* will replace it is on its way: no late answer shows the agents of an account
\* that has been left, whichever order the answers come in.
CountIsOwn ==
    badge.count # Null => badge.count = address \/ address \in badge.fetching

\* A form that says it is submitting has a transaction out that will tell it how
\* it ended: through sessions that change, pages that are left or kept, tabs that
\* are switched, and transactions nobody waits for any more, none is left waiting.
SubmittingIsReal ==
    \A f \in Forms : form[f] = "submitting" =>
       sent[f].at # "no" /\ sent[f].live /\ (sent[f].at = "pending" => sent[f].waiting)

\* The draft of a registration survives every failure, refresh and detour, and is
\* dropped only for a registration that was applied.
DraftKept ==
    [][draft # Null /\ draft' = Null => sent["register"].at = "applied"]_vars

waitingForIndexer == IsAgentPage(page) /\ page.data = "indexing" /\ page.polls < MAX_POLLS

\* "Waiting for indexer..." does not stay on a page that was mounted for its agent:
\* the agent appears, or the page says that the indexer has not caught up, or it is
\* left, unless the person keeps loading it again.
WaitEnds == []<>(~waitingForIndexer \/ page.kept) \/ []<><<Refresh>>_vars
=============================================================================
