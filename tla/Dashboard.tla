------------------------------- MODULE Dashboard -------------------------------
(***************************************************************************)
(* The web dashboard (frontend/static/dashboard.js): one thread of         *)
(* JavaScript whose requests overlap.  renderCurrentPage asks the backend  *)
(* for the data of the page that is open now and writes whatever comes     *)
(* back into the one content area, whenever it comes back: the user may    *)
(* have opened another page, changed a filter or saved a token since, the  *)
(* timer may have asked again, and the answers may overtake each other.    *)
(*                                                                         *)
(* The backend is its data, a version number, and its API key; a request   *)
(* is handled at some moment between its sending and its answer.           *)
(* Everything between two awaits is one step.  Markup and values are left  *)
(* out, and so are the forms of HashLab, which do not render the page, and *)
(* the disabling of pressed buttons: the next rendering brings enabled     *)
(* ones back, so presses may overlap anyhow.  What a search field or the   *)
(* filters of the network page hide is hidden when the rows are written,   *)
(* by what is set then; only filters that are part of a request are here.  *)
(***************************************************************************)
EXTENDS Naturals, FiniteSets

CONSTANTS
    Requests,    \* requests that can be in flight at once
    Opened,      \* pages that the user opens
    Tokens,      \* tokens that the user saves: "valid", "wrong", "none"
    Choices,     \* values of a filter, "any" for none
    NULL,        \* no request, no answer
    MaxVersion,  \* bound: changes of the data
    MaxFailures  \* bound: requests that fail

Pages == {"overview", "network", "apk", "websec", "hashlab", "alerts", "events", "settings"}

ASSUME PageAssumption == Opened \subseteq Pages /\ Tokens \subseteq {"valid", "wrong", "none"}
ASSUME ChoiceAssumption == "any" \in Choices
ASSUME BoundAssumption == MaxVersion \in Nat /\ MaxFailures \in Nat

VARIABLES
    page,        \* state.currentPage
    token,       \* state.apiToken, as in localStorage
    choice,      \* the filter of each page
    asked,       \* the requests in flight
    content,     \* what the content area shows
    api,         \* the indicator: apiState
    banner,      \* whether the banner is shown
    lab,         \* the version of the backend's data
    failures,    \* requests that have failed
    latest,      \* history: the rendering that was started last, NULL once it has ended
    own          \* history: the version that the user's last confirmed change made

shown == <<content, api, banner>>
user == <<page, token, choice>>
vars == <<user, asked, shown, lab, failures, latest, own>>

---------------------------------------------------------------------------
(* Pages, requests and the content area *)

\* Pages whose filters are part of the request; network filters what came back.
Filtered == {"events", "alerts"}
\* Pages with buttons that change something and then render the page.
Acting == {"network", "apk", "websec", "alerts"}
\* Pages that show the data of the lab.
OfTheLab == Pages \ {"hashlab", "settings"}

\* Mutant: alerts are not polled.
PolledButAlerts == Pages \ {"settings", "hashlab", "alerts"}

Polled == Pages \ {"settings", "hashlab"}

Answers == [code : {"ok", "401", "failed"}, version : 0..MaxVersion] \cup {NULL}
RequestState ==
    [kind : {"status", "stats", "page", "search", "change"}, page : Pages, token : Tokens,
     choice : Choices, empty : BOOLEAN, answer : Answers]

ASSUME NullAssumption == NULL \notin Requests /\ NULL \notin RequestState

Contents ==
    [kind : {"blank", "data", "welcome", "gate", "error"}, page : Pages, token : Tokens,
     choice : Choices, version : 0..MaxVersion, newest : BOOLEAN]

Request(kind, p, t, c, empty) ==
    [kind |-> kind, page |-> p, token |-> t, choice |-> c, empty |-> empty, answer |-> NULL]

\* Mutant: the settings are asked for without a token.
NeedsNoAnswerOnHashLab(p, t) == p = "hashlab"

\* HashLab asks for nothing, nor does Settings without a token.
NeedsNoAnswer(p, t) == p = "hashlab" \/ (p = "settings" /\ t = "none")

FirstRequest(p, t, c) ==
    Request(IF p = "overview" THEN "status" ELSE "page", p, t, c, TRUE)

StaticContent(p, t, c) ==
    [kind |-> "data", page |-> p, token |-> t, choice |-> c, version |-> 0, newest |-> TRUE]

\* renderCurrentPage, up to its first await.
Render(s) ==
    /\ banner' = FALSE
    /\ IF NeedsNoAnswer(page', token')
       THEN /\ asked' = [asked EXCEPT ![s] = NULL]
            /\ content' = StaticContent(page', token', choice'[page'])
            /\ api' = "ok"
            /\ latest' = NULL
       ELSE /\ asked' = [asked EXCEPT ![s] = FirstRequest(page', token', choice'[page'])]
            /\ content' = [content EXCEPT !.newest = FALSE]
            /\ api' = api
            /\ latest' = s

Free(s) == asked[s] = NULL

---------------------------------------------------------------------------
(* The user and the timer *)

Open(p) ==
    /\ p # page
    /\ page' = p
    /\ UNCHANGED <<token, choice, lab, failures, own>>
    /\ \E s \in Requests : Free(s) /\ Render(s)

TokenField == content.kind = "gate" \/ (content.kind = "data" /\ content.page = "settings")

SaveToken(t) ==
    /\ TokenField
    /\ token' = t
    /\ UNCHANGED <<page, choice, lab, failures, own>>
    /\ \E s \in Requests : Free(s) /\ Render(s)

\* Mutant: the change of a filter waits for the next poll.
ChooseWithoutRendering(p, c) ==
    /\ content.kind = "data" /\ content.page = p
    /\ choice' = [choice EXCEPT ![p] = c]
    /\ UNCHANGED <<page, token, asked, shown, lab, failures, latest, own>>

Choose(p, c) ==
    /\ content.kind = "data" /\ content.page = p
    /\ choice' = [choice EXCEPT ![p] = c]
    /\ UNCHANGED <<page, token, lab, failures, own>>
    /\ \E s \in Requests : Free(s) /\ Render(s)

\* Typing into a search field calls the page's function without renderCurrentPage.
Search ==
    /\ content.kind = "data" /\ content.page \in {"network", "events"}
    /\ UNCHANGED <<user, api, banner, lab, failures, latest, own>>
    /\ content' = [content EXCEPT !.newest = FALSE]
    /\ \E s \in Requests :
          Free(s) /\ asked' = [asked EXCEPT ![s] =
                     Request("search", content.page, token, choice[content.page], TRUE)]

\* An alert is acknowledged, a device marked, a scan started (which a banner announces).
Change ==
    /\ content.kind = "data" /\ content.page \in Acting
    /\ banner' \in IF content.page = "network" THEN {banner, TRUE} ELSE {banner}
    /\ UNCHANGED <<user, content, api, lab, failures, latest, own>>
    /\ \E s \in Requests :
          Free(s) /\ asked' = [asked EXCEPT ![s] =
                     Request("change", content.page, token, "any", TRUE)]

Poll ==
    /\ page \in Polled
    /\ UNCHANGED <<user, lab, failures, own>>
    /\ \E s \in Requests : Free(s) /\ Render(s)

---------------------------------------------------------------------------
(* The backend *)

Handled(s) == asked[s] # NULL /\ asked[s].answer # NULL

Answered(s, code, version) ==
    asked' = [asked EXCEPT ![s].answer = [code |-> code, version |-> version]]

\* Only /api/status is public.
Refuses(r) == r.kind # "status" /\ r.token # "valid"

Handle(s) ==
    LET r == asked[s] IN
    /\ r # NULL /\ ~Handled(s)
    /\ \/ Refuses(r) /\ lab' = lab /\ Answered(s, "401", lab)
       \/ ~Refuses(r) /\ r.kind # "change" /\ lab' = lab /\ Answered(s, "ok", lab)
       \/ /\ ~Refuses(r) /\ r.kind = "change"
          /\ lab' \in {lab, lab + 1} \cap 0..MaxVersion
          /\ Answered(s, "ok", lab')
    /\ UNCHANGED <<user, shown, failures, latest, own>>

\* The request does not get through, or its answer does not, or it is an error.
FailRequest(s) ==
    /\ asked[s] # NULL
    /\ Handled(s) => asked[s].answer.code # "failed"
    /\ failures < MaxFailures
    /\ failures' = failures + 1
    /\ Answered(s, "failed", lab)
    /\ UNCHANGED <<user, shown, lab, latest, own>>

\* Something else changes the data.
LabChanges ==
    /\ lab < MaxVersion
    /\ lab' = lab + 1
    /\ UNCHANGED <<user, asked, shown, failures, latest, own>>

---------------------------------------------------------------------------
(* Answers *)

\* The kind of content that an answer leads to.  With statistics refused and data in
\* the lab, renderOverview reads a property of null.
Outcome(r) ==
    CASE r.answer.code = "failed" -> "error"
      [] r.answer.code = "401" ->
            IF r.page = "settings" THEN "data"
            ELSE IF r.kind # "stats" THEN "gate"
            ELSE IF r.empty THEN "welcome" ELSE "error"
      [] r.answer.code = "ok" ->
            IF r.kind = "stats" /\ r.answer.version = 0 THEN "welcome" ELSE "data"

IsError(kind) == kind \in {"gate", "error"}

\* The statistics are asked for when the public status has come.
AskStats(s) ==
    /\ Handled(s)
    /\ asked[s].kind = "status" /\ asked[s].answer.code = "ok"
    /\ UNCHANGED <<user, shown, lab, failures, latest, own>>
    /\ asked' = [asked EXCEPT ![s] =
          Request("stats", "overview", token, "any", asked[s].answer.version = 0)]

\* Mutant: the gate comes without its banner.
ShowWithoutBanner(s) ==
    LET r == asked[s] IN
    /\ Handled(s)
    /\ r.kind \in {"page", "stats"} \/ (r.kind = "status" /\ r.answer.code = "failed")
    /\ content' = [kind |-> Outcome(r), page |-> r.page, token |-> r.token,
                   choice |-> r.choice, version |-> r.answer.version, newest |-> latest = s]
    /\ api' = IF IsError(Outcome(r)) THEN "error" ELSE "ok"
    /\ banner' = (banner \/ Outcome(r) = "error")
    /\ latest' = IF latest = s THEN NULL ELSE latest
    /\ asked' = [asked EXCEPT ![s] = NULL]
    /\ UNCHANGED <<user, lab, failures, own>>

\* The end of renderCurrentPage.
Show(s) ==
    LET r == asked[s] IN
    /\ Handled(s)
    /\ r.kind \in {"page", "stats"} \/ (r.kind = "status" /\ r.answer.code = "failed")
    /\ content' = [kind |-> Outcome(r), page |-> r.page, token |-> r.token, choice |-> r.choice,
                   version |-> r.answer.version, newest |-> latest = s]
    /\ api' = IF IsError(Outcome(r)) THEN "error" ELSE "ok"
    /\ banner' = (banner \/ IsError(Outcome(r)))
    /\ latest' = IF latest = s THEN NULL ELSE latest
    /\ asked' = [asked EXCEPT ![s] = NULL]
    /\ UNCHANGED <<user, lab, failures, own>>

\* The end of a search: an error leaves the page as it is.
ShowSearch(s) ==
    LET r == asked[s] IN
    /\ Handled(s) /\ r.kind = "search"
    /\ IF r.answer.code = "ok"
       THEN /\ content' = [kind |-> "data", page |-> r.page, token |-> r.token,
                           choice |-> r.choice, version |-> r.answer.version, newest |-> FALSE]
            /\ banner' = banner
       ELSE content' = content /\ banner' = TRUE
    /\ asked' = [asked EXCEPT ![s] = NULL]
    /\ UNCHANGED <<user, api, lab, failures, latest, own>>

\* Mutant: the page is left to the next poll.
FinishWithoutRendering(s) ==
    LET r == asked[s] IN
    /\ Handled(s) /\ r.kind = "change"
    /\ own' = IF r.answer.code = "ok" /\ own < r.answer.version THEN r.answer.version ELSE own
    /\ banner' = (banner \/ r.answer.code # "ok")
    /\ asked' = [asked EXCEPT ![s] = NULL]
    /\ UNCHANGED <<user, content, api, lab, failures, latest>>

\* A change that succeeded renders the page that is open by then.
FinishChange(s) ==
    LET r == asked[s] IN
    /\ Handled(s) /\ r.kind = "change"
    /\ UNCHANGED <<user, lab, failures>>
    /\ \/ /\ r.answer.code = "ok"
          /\ own' = IF own < r.answer.version THEN r.answer.version ELSE own
          /\ Render(s)
       \/ /\ r.answer.code # "ok"
          /\ banner' = TRUE
          /\ asked' = [asked EXCEPT ![s] = NULL]
          /\ UNCHANGED <<content, api, latest, own>>

Receive(s) == AskStats(s) \/ Show(s) \/ ShowSearch(s) \/ FinishChange(s)

---------------------------------------------------------------------------
(* The specification *)

\* The script is loaded and renders the page that the hash names.
Init ==
    /\ page \in Opened /\ token \in Tokens
    /\ choice = [p \in Pages |-> "any"]
    /\ \E s \in Requests :
          IF NeedsNoAnswer(page, token)
          THEN /\ asked = [r \in Requests |-> NULL]
               /\ content = StaticContent(page, token, "any")
               /\ api = "ok"
               /\ latest = NULL
          ELSE /\ asked = [r \in Requests |->
                              IF r = s THEN FirstRequest(page, token, "any") ELSE NULL]
               /\ content = [StaticContent(page, token, "any") EXCEPT !.kind = "blank",
                                                                   !.newest = FALSE]
               /\ api = "connecting"
               /\ latest = s
    /\ banner = FALSE
    /\ lab = 0 /\ failures = 0 /\ own = 0

Next ==
    \/ \E p \in Opened : Open(p)
    \/ \E t \in Tokens : SaveToken(t)
    \/ \E p \in Opened \cap Filtered, c \in Choices : Choose(p, c)
    \/ Search \/ Change \/ Poll \/ LabChanges
    \/ \E s \in Requests : Handle(s) \/ FailRequest(s) \/ Receive(s)

\* The timer fires every 15 seconds whatever is in flight (only the model bounds the
\* requests), every request is handled and its answer, be it an error, reaches the
\* browser.  Nothing is assumed of the user.
Fairness ==
    /\ SF_vars(Poll)
    /\ \A s \in Requests : WF_vars(Handle(s)) /\ WF_vars(Receive(s))

Spec == Init /\ [][Next]_vars /\ Fairness

---------------------------------------------------------------------------
(* What the dashboard promises *)

\* Types.  The settings are never asked for without a token (renderSettings), and
\* a rendering that has not ended has its request in flight.
TypeOK ==
    /\ page \in Opened /\ token \in Tokens
    /\ choice \in [Pages -> Choices]
    /\ asked \in [Requests -> RequestState \cup {NULL}]
    /\ content \in Contents
    /\ api \in {"connecting", "ok", "error"} /\ banner \in BOOLEAN
    /\ lab \in 0..MaxVersion /\ own \in 0..lab /\ failures \in 0..MaxFailures
    /\ latest \in Requests \cup {NULL}
    /\ latest # NULL => asked[latest] # NULL
    /\ \A s \in Requests :
          asked[s] # NULL => ~(asked[s].page = "settings" /\ asked[s].token = "none")

\* What the newest rendering wrote belongs to the page that is open, by the filter and
\* the token that are set now: nothing that a rendering depends on changes without a
\* new one (the listeners of hashchange, click and change).  Content that is out of
\* date was written by an answer that was overtaken.
NewestIsRight ==
    content.newest =>
        /\ content.page = page
        /\ content.choice = choice[page]
        /\ content.token = token

\* The newest rendering shows what the user's own confirmed changes did: it was asked
\* for after them (apiPatch and apiPost before renderCurrentPage).
ReadsOwnWrites ==
    content.newest /\ content.kind \in {"data", "welcome"} /\ page \in OfTheLab =>
        own <= content.version

\* When the newest rendering has failed, banner and indicator say so, and the
\* indicator says so only then (renderCurrentPage, hideBanner).
ErrorsAreExplained ==
    content.newest =>
        /\ IsError(content.kind) => banner
        /\ IsError(content.kind) <=> api = "error"

\* A live page that stays open with a valid token shows the present data again and
\* again, however the answers overtake each other (startPolling).
LivePagesCatchUp ==
    \A p \in Opened \cap OfTheLab :
        <>[](page = p /\ token = "valid") =>
            []<>(/\ content.page = p
                 /\ content.kind \in {"data", "welcome"}
                 /\ content.version = lab)
=============================================================================
