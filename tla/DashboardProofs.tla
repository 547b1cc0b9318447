---------------------------- MODULE DashboardProofs ----------------------------
(***************************************************************************)
(* The safety of Dashboard, for any number of requests in flight, any      *)
(* pages, filters and failures.                                            *)
(*                                                                         *)
(* What is said of the content that the newest rendering wrote has to be   *)
(* said of its request before (Pending): nothing can change the page, the  *)
(* filter or the token without starting another rendering.                 *)
(***************************************************************************)
EXTENDS Dashboard, TLAPS

\* The answers in flight are not from the future.
InTime ==
    \A s \in Requests : Handled(s) => asked[s].answer.version <= lab

\* The request of the newest rendering is about what is set now and sees what the
\* user has changed.
Pending ==
    latest # NULL =>
        /\ asked[latest].kind \in {"status", "stats", "page"}
        /\ asked[latest].page = page
        /\ asked[latest].token = token
        /\ asked[latest].choice = choice[page]
        /\ Handled(latest) => own <= asked[latest].answer.version

\* Only pages with filters are filtered.
Unfiltered == \A p \in Pages \ Filtered : choice[p] = "any"

\* The public status is asked for by the overview only.
StatusIsOfOverview ==
    \A s \in Requests :
        asked[s] # NULL /\ asked[s].kind = "status" => asked[s].page = "overview"

IInv ==
    /\ TypeOK /\ InTime /\ Pending /\ Unfiltered /\ StatusIsOfOverview
    /\ NewestIsRight /\ ReadsOwnWrites /\ ErrorsAreExplained

---------------------------------------------------------------------------
(* Requests *)

(* A request that is made is a request in flight, and is not answered.     *)
LEMMA RequestIsRequest ==
    ASSUME NEW kind \in {"status", "stats", "page", "search", "change"}, NEW p \in Pages,
           NEW t \in Tokens, NEW c \in Choices, NEW e \in BOOLEAN
    PROVE  /\ Request(kind, p, t, c, e) \in RequestState
           /\ Request(kind, p, t, c, e) # NULL
           /\ Request(kind, p, t, c, e).answer = NULL
           /\ Request(kind, p, t, c, e).kind = kind
           /\ Request(kind, p, t, c, e).page = p
           /\ Request(kind, p, t, c, e).token = t
           /\ Request(kind, p, t, c, e).choice = c
<1>1. Request(kind, p, t, c, e) \in RequestState
  BY DEF Request, RequestState, Answers
<1> QED BY <1>1, NullAssumption DEF Request

(* So is the first request of a rendering.                                 *)
LEMMA FirstIsRequest ==
    ASSUME NEW p \in Pages, NEW t \in Tokens, NEW c \in Choices
    PROVE  /\ FirstRequest(p, t, c) \in RequestState
           /\ FirstRequest(p, t, c) # NULL
           /\ FirstRequest(p, t, c).answer = NULL
           /\ FirstRequest(p, t, c).kind \in {"status", "page"}
           /\ FirstRequest(p, t, c).page = p
           /\ FirstRequest(p, t, c).token = t
           /\ FirstRequest(p, t, c).choice = c
           /\ FirstRequest(p, t, c).kind = "status" => p = "overview"
<1> DEFINE k == IF p = "overview" THEN "status" ELSE "page"
<1>1. /\ k \in {"status", "page"} /\ (k = "status" => p = "overview")
      /\ k \in {"status", "stats", "page", "search", "change"} /\ TRUE \in BOOLEAN
  OBVIOUS
<1>2. FirstRequest(p, t, c) = Request(k, p, t, c, TRUE)
  BY DEF FirstRequest
<1> HIDE DEF k
<1>3. Request(k, p, t, c, TRUE) \in RequestState
  BY <1>1 DEF Request, RequestState, Answers
<1>4. FirstRequest(p, t, c) # NULL
  BY <1>2, <1>3, NullAssumption
<1> QED BY <1>1, <1>2, <1>3, <1>4 DEF Request

(* What a page without a request shows.                                    *)
LEMMA StaticIsContent ==
    ASSUME NEW p \in Pages, NEW t \in Tokens, NEW c \in Choices
    PROVE  /\ StaticContent(p, t, c) \in Contents
           /\ StaticContent(p, t, c).kind = "data"
           /\ StaticContent(p, t, c).page = p
           /\ StaticContent(p, t, c).token = t
           /\ StaticContent(p, t, c).choice = c
           /\ StaticContent(p, t, c).newest = TRUE
BY BoundAssumption DEF StaticContent, Contents

---------------------------------------------------------------------------
(* The initial states *)

LEMMA InitInvariant == Init => IInv
<1> SUFFICES ASSUME Init PROVE IInv
  OBVIOUS
<1>1. page \in Pages /\ "any" \in Choices /\ choice = [p \in Pages |-> "any"]
      /\ page \in Opened /\ token \in Tokens /\ choice[page] = "any"
      /\ banner = FALSE /\ lab = 0 /\ own = 0 /\ failures = 0
  BY PageAssumption, ChoiceAssumption DEF Init
<1>2. PICK s \in Requests :
          IF NeedsNoAnswer(page, token)
          THEN /\ asked = [r \in Requests |-> NULL]
               /\ content = StaticContent(page, token, "any")
               /\ api = "ok"
               /\ latest = NULL
          ELSE /\ asked = [r \in Requests |->
                              IF r = s THEN FirstRequest(page, token, "any") ELSE NULL]
               /\ content = [StaticContent(page, token, "any") EXCEPT !.kind = "blank",
                                                                   !.newest = FALSE]
               /\ api = "connecting"
               /\ latest = s
  BY DEF Init
<1>3. CASE NeedsNoAnswer(page, token)
  <2>0. /\ asked = [r \in Requests |-> NULL]
        /\ content = StaticContent(page, token, "any")
        /\ api = "ok" /\ latest = NULL
    BY <1>2, <1>3
  <2>1. /\ content \in Contents /\ content.kind = "data" /\ content.page = page
        /\ content.token = token /\ content.choice = "any" /\ content.newest = TRUE
    <3>1. content = [kind |-> "data", page |-> page, token |-> token, choice |-> "any",
                     version |-> 0, newest |-> TRUE]
      BY <2>0 DEF StaticContent
    <3> QED BY <1>1, <3>1, BoundAssumption DEF Contents
  <2>2. \A r \in Requests : asked[r] = NULL
    BY <2>0
  <2>3. TypeOK
    <3>1. asked \in [Requests -> RequestState \cup {NULL}] /\ latest \in Requests \cup {NULL}
      BY <2>0
    <3>2. lab \in 0..MaxVersion /\ own \in 0..lab /\ failures \in 0..MaxFailures
      BY <1>1, BoundAssumption
    <3> QED BY <1>1, <2>0, <2>1, <2>2, <3>1, <3>2 DEF TypeOK
  <2>4. NewestIsRight
    BY <1>1, <2>1 DEF NewestIsRight
  <2>5. ErrorsAreExplained
    BY <2>0, <2>1 DEF ErrorsAreExplained, IsError
  <2>6. ReadsOwnWrites
    BY <1>3 DEF ReadsOwnWrites, NeedsNoAnswer, OfTheLab
  <2>7. InTime /\ Pending /\ Unfiltered /\ StatusIsOfOverview
    BY <1>1, <2>0, <2>2 DEF InTime, Pending, Unfiltered, StatusIsOfOverview, Handled
  <2> QED BY <2>3, <2>4, <2>5, <2>6, <2>7 DEF IInv
<1>4. CASE ~NeedsNoAnswer(page, token)
  <2>0. /\ asked = [r \in Requests |-> IF r = s THEN FirstRequest(page, token, "any") ELSE NULL]
        /\ content = [StaticContent(page, token, "any") EXCEPT !.kind = "blank",
                                                            !.newest = FALSE]
        /\ api = "connecting" /\ latest = s
    BY <1>2, <1>4
  <2>1. content \in Contents /\ content.newest = FALSE
    <3>1. content = [kind |-> "blank", page |-> page, token |-> token, choice |-> "any",
                     version |-> 0, newest |-> FALSE]
      BY <2>0 DEF StaticContent
    <3> QED BY <1>1, <3>1, BoundAssumption DEF Contents
  <2>2. /\ FirstRequest(page, token, "any") \in RequestState
        /\ FirstRequest(page, token, "any") # NULL
        /\ FirstRequest(page, token, "any").answer = NULL
        /\ FirstRequest(page, token, "any").kind \in {"status", "page"}
        /\ FirstRequest(page, token, "any").page = page
        /\ FirstRequest(page, token, "any").token = token
        /\ FirstRequest(page, token, "any").choice = "any"
        /\ FirstRequest(page, token, "any").kind = "status" => page = "overview"
    BY <1>1, FirstIsRequest
  <2>3. TypeOK
    <3>1. asked \in [Requests -> RequestState \cup {NULL}] /\ latest \in Requests \cup {NULL}
      BY <2>0, <2>2
    <3>2. lab \in 0..MaxVersion /\ own \in 0..lab /\ failures \in 0..MaxFailures
      BY <1>1, BoundAssumption
    <3>3. \A r \in Requests : asked[r] # NULL =>
              r = s /\ asked[r].page = page /\ asked[r].token = token
      BY <2>0, <2>2
    <3>4. ~(page = "settings" /\ token = "none")
      BY <1>4 DEF NeedsNoAnswer
    <3>5. asked[latest] # NULL
      BY <2>0, <2>2
    <3> QED BY <1>1, <2>0, <2>1, <3>1, <3>2, <3>3, <3>4, <3>5 DEF TypeOK
  <2>4. NewestIsRight /\ ErrorsAreExplained /\ ReadsOwnWrites
    BY <2>1 DEF NewestIsRight, ErrorsAreExplained, ReadsOwnWrites
  <2>5. InTime /\ Pending /\ Unfiltered /\ StatusIsOfOverview
    BY <1>1, <2>0, <2>2, NullAssumption
    DEF InTime, Pending, Unfiltered, StatusIsOfOverview, Handled
  <2> QED BY <2>3, <2>4, <2>5 DEF IInv
<1> QED BY <1>3, <1>4

---------------------------------------------------------------------------
(* Steps that start a rendering *)

(* Whatever changes what a rendering depends on, the rendering that starts *)
(* with it restores the invariant.                                         *)
LEMMA Rendered ==
    ASSUME IInv, NEW s \in Requests, page' \in Opened, token' \in Tokens,
           choice' \in [Pages -> Choices], Unfiltered', own' \in 0..lab,
           UNCHANGED <<lab, failures>>, Render(s)
    PROVE  IInv'
<1> USE DEF IInv
<1>1. /\ page' \in Pages /\ choice'[page'] \in Choices
      /\ asked \in [Requests -> RequestState \cup {NULL}] /\ content \in Contents
      /\ lab \in 0..MaxVersion /\ failures \in 0..MaxFailures /\ lab \in Nat
  BY PageAssumption, BoundAssumption DEF TypeOK
<1>2. lab' \in 0..MaxVersion /\ own' \in 0..lab' /\ failures' \in 0..MaxFailures
  BY <1>1
<1>3. CASE NeedsNoAnswer(page', token')
  <2>1. /\ asked' = [asked EXCEPT ![s] = NULL]
        /\ content' = StaticContent(page', token', choice'[page'])
        /\ api' = "ok" /\ latest' = NULL /\ banner' = FALSE
    BY <1>3 DEF Render
  <2>2. /\ content' \in Contents /\ content'.kind = "data" /\ content'.page = page'
        /\ content'.token = token' /\ content'.choice = choice'[page']
    <3>1. content' = [kind |-> "data", page |-> page', token |-> token',
                      choice |-> choice'[page'], version |-> 0, newest |-> TRUE]
      BY <2>1 DEF StaticContent
    <3> QED BY <1>1, <3>1, BoundAssumption DEF Contents
  <2>3. /\ asked' \in [Requests -> RequestState \cup {NULL}]
        /\ \A r \in Requests : asked'[r] # NULL => asked'[r] = asked[r]
    BY <1>1, <2>1
  <2>4. TypeOK'
    BY <1>2, <2>1, <2>2, <2>3 DEF TypeOK
  <2>5. InTime' /\ StatusIsOfOverview'
    BY <2>3 DEF InTime, StatusIsOfOverview, Handled
  <2>6. Pending' /\ NewestIsRight' /\ ErrorsAreExplained'
    BY <2>1, <2>2 DEF Pending, NewestIsRight, ErrorsAreExplained, IsError
  <2>7. ReadsOwnWrites'
    BY <1>3 DEF ReadsOwnWrites, NeedsNoAnswer, OfTheLab
  <2> QED BY <2>4, <2>5, <2>6, <2>7
<1>4. CASE ~NeedsNoAnswer(page', token')
  <2> DEFINE r0 == FirstRequest(page', token', choice'[page'])
  <2>1. /\ asked' = [asked EXCEPT ![s] = r0]
        /\ content' = [content EXCEPT !.newest = FALSE]
        /\ api' = api /\ latest' = s /\ banner' = FALSE
    BY <1>4 DEF Render
  <2>2. /\ r0 \in RequestState /\ r0 # NULL /\ r0.answer = NULL
        /\ r0.kind \in {"status", "page"} /\ r0.page = page'
        /\ r0.token = token' /\ r0.choice = choice'[page']
        /\ r0.kind = "status" => page' = "overview"
    BY <1>1, FirstIsRequest
  <2> HIDE DEF r0
  <2>3. content' \in Contents /\ content'.newest = FALSE
    BY <1>1, <2>1 DEF Contents
  <2>4. /\ asked' \in [Requests -> RequestState \cup {NULL}]
        /\ asked'[s] = r0
        /\ \A r \in Requests : r # s => asked'[r] = asked[r]
    BY <1>1, <2>1, <2>2
  <2>5. TypeOK'
    <3>1. \A r \in Requests : asked'[r] # NULL =>
              ~(asked'[r].page = "settings" /\ asked'[r].token = "none")
      BY <1>4, <2>2, <2>4 DEF TypeOK, NeedsNoAnswer
    <3>2. latest' \in Requests \cup {NULL} /\ asked'[latest'] # NULL
      BY <2>1, <2>2, <2>4
    <3>3. api' \in {"connecting", "ok", "error"} /\ banner' \in BOOLEAN
      BY <2>1 DEF TypeOK
    <3> QED BY <1>2, <2>3, <2>4, <3>1, <3>2, <3>3 DEF TypeOK
  <2>6. InTime' /\ StatusIsOfOverview'
    BY <2>2, <2>4 DEF InTime, StatusIsOfOverview, Handled
  <2>7. Pending'
    BY <2>1, <2>2, <2>4 DEF Pending, Handled
  <2>8. NewestIsRight' /\ ReadsOwnWrites' /\ ErrorsAreExplained'
    BY <2>3 DEF NewestIsRight, ReadsOwnWrites, ErrorsAreExplained
  <2> QED BY <2>5, <2>6, <2>7, <2>8
<1> QED BY <1>3, <1>4

---------------------------------------------------------------------------
(* The other steps *)

(* A request that renders nothing at its start.                            *)
LEMMA Added ==
    ASSUME IInv, NEW s \in Requests, Free(s), NEW kind \in {"search", "change"},
           NEW c \in Choices,
           asked' = [asked EXCEPT ![s] = Request(kind, content.page, token, c, TRUE)],
           content.page # "settings",
           UNCHANGED <<user, lab, failures, latest, own, api>>,
           banner' \in {banner, TRUE},
           content' \in {content, [content EXCEPT !.newest = FALSE]}
    PROVE  IInv'
<1> USE DEF IInv
<1> DEFINE r0 == Request(kind, content.page, token, c, TRUE)
<1>1. /\ r0 \in RequestState /\ r0 # NULL /\ r0.answer = NULL /\ r0.kind # "status"
      /\ r0.page # "settings"
  <2>1. content.page \in Pages /\ token \in Tokens /\ TRUE \in BOOLEAN
        /\ kind \in {"status", "stats", "page", "search", "change"} /\ kind # "status"
    BY DEF TypeOK, Contents
  <2> DEFINE p0 == content.page
  <2> HIDE DEF p0
  <2>2. /\ Request(kind, p0, token, c, TRUE) \in RequestState
        /\ Request(kind, p0, token, c, TRUE) # NULL
        /\ Request(kind, p0, token, c, TRUE).answer = NULL
        /\ Request(kind, p0, token, c, TRUE).kind = kind
        /\ Request(kind, p0, token, c, TRUE).page = p0
    <3>1. Request(kind, p0, token, c, TRUE) \in RequestState
      BY <2>1 DEF Request, RequestState, Answers, p0
    <3> QED BY <3>1, NullAssumption DEF Request
  <2> QED BY <2>1, <2>2 DEF p0
<1> HIDE DEF r0
<1>2. /\ asked' \in [Requests -> RequestState \cup {NULL}]
      /\ asked'[s] = r0
      /\ \A r \in Requests : r # s => asked'[r] = asked[r]
  BY <1>1 DEF TypeOK, r0
<1>3. latest # s
  BY NullAssumption DEF TypeOK, Free
<1>4. content' \in Contents /\ (content'.newest => content' = content)
  BY DEF TypeOK, Contents
<1>5. TypeOK'
  <2>1. banner' \in BOOLEAN
    BY DEF TypeOK
  <2>2. latest' # NULL => asked'[latest'] # NULL
    BY <1>2, <1>3, NullAssumption DEF TypeOK
  <2>3. \A r \in Requests : asked'[r] # NULL =>
            ~(asked'[r].page = "settings" /\ asked'[r].token = "none")
    BY <1>1, <1>2 DEF TypeOK
  <2> QED BY <1>2, <1>4, <2>1, <2>2, <2>3 DEF TypeOK, user
<1>6. InTime' /\ StatusIsOfOverview'
  BY <1>1, <1>2 DEF InTime, StatusIsOfOverview, Handled
<1>7. Pending'
  BY <1>2, <1>3 DEF Pending, Handled, TypeOK, user
<1>8. NewestIsRight' /\ ReadsOwnWrites' /\ ErrorsAreExplained'
  BY <1>4 DEF NewestIsRight, ReadsOwnWrites, ErrorsAreExplained, user, TypeOK
<1>9. Unfiltered'
  BY DEF Unfiltered, user
<1> QED BY <1>5, <1>6, <1>7, <1>8, <1>9

(* A request gets an answer.                                               *)
LEMMA AnswerComes ==
    ASSUME IInv, NEW s \in Requests, asked[s] # NULL, NEW code \in {"ok", "401", "failed"},
           lab' \in lab..MaxVersion, Answered(s, code, lab'),
           UNCHANGED <<user, shown, latest, own>>, failures' \in 0..MaxFailures
    PROVE  IInv'
<1> USE DEF IInv
<1> DEFINE a == [code |-> code, version |-> lab']
<1>1. /\ lab \in Nat /\ lab' \in 0..MaxVersion /\ own \in 0..lab /\ own \in 0..lab'
      /\ lab <= lab'
  BY BoundAssumption DEF TypeOK
<1>2. a \in Answers /\ a.version = lab'
  BY <1>1 DEF Answers
<1> HIDE DEF a
<1>3. asked[s] \in RequestState
  BY DEF TypeOK
<1>4. asked' = [asked EXCEPT ![s].answer = a]
  BY DEF Answered, a
<1>5. /\ asked'[s] \in RequestState /\ asked'[s].answer = a
      /\ asked'[s].kind = asked[s].kind /\ asked'[s].page = asked[s].page
      /\ asked'[s].token = asked[s].token /\ asked'[s].choice = asked[s].choice
  BY <1>2, <1>3, <1>4 DEF RequestState, TypeOK
<1>6. /\ asked' \in [Requests -> RequestState \cup {NULL}]
      /\ \A r \in Requests : r # s => asked'[r] = asked[r]
  BY <1>4, <1>5 DEF TypeOK
<1>7. asked'[s] # NULL
  BY <1>5, NullAssumption
<1>8. TypeOK'
  <2>1. latest' # NULL => asked'[latest'] # NULL
    BY <1>6, <1>7 DEF TypeOK
  <2>2. \A r \in Requests : asked'[r] # NULL =>
            ~(asked'[r].page = "settings" /\ asked'[r].token = "none")
    BY <1>5, <1>6 DEF TypeOK
  <2> QED BY <1>1, <1>6, <2>1, <2>2 DEF TypeOK, user, shown
<1>9. InTime'
  <2> SUFFICES ASSUME NEW r \in Requests, Handled(r)' PROVE asked'[r].answer.version <= lab'
    BY DEF InTime
  <2>1. CASE r = s
    BY <1>1, <1>2, <1>5, <2>1
  <2>2. CASE r # s
    <3>1. asked'[r] = asked[r] /\ asked[r].answer \in Answers /\ asked[r].answer # NULL
      BY <1>6, <2>2 DEF Handled, TypeOK, RequestState
    <3>2. asked[r].answer.version \in Nat /\ asked[r].answer.version <= lab
      BY <3>1, <1>6, <2>2, BoundAssumption DEF InTime, Handled, Answers
    <3> QED BY <1>1, <3>1, <3>2
  <2> QED BY <2>1, <2>2
<1>10. Pending'
  <2> SUFFICES ASSUME latest' # NULL
               PROVE  /\ asked'[latest'].kind \in {"status", "stats", "page"}
                      /\ asked'[latest'].page = page'
                      /\ asked'[latest'].token = token'
                      /\ asked'[latest'].choice = choice'[page']
                      /\ Handled(latest)' => own' <= asked'[latest'].answer.version
    BY DEF Pending
  <2>0. latest' = latest /\ own' = own /\ page' = page /\ token' = token /\ choice' = choice
    BY DEF user
  <2>1. CASE latest = s
    BY <1>1, <1>2, <1>5, <2>0, <2>1 DEF Pending
  <2>2. CASE latest # s
    BY <1>6, <2>0, <2>2 DEF Pending, Handled, TypeOK
  <2> QED BY <2>1, <2>2
<1>11. StatusIsOfOverview'
  BY <1>5, <1>6 DEF StatusIsOfOverview
<1>12. NewestIsRight' /\ ReadsOwnWrites' /\ ErrorsAreExplained' /\ Unfiltered'
  BY DEF NewestIsRight, ReadsOwnWrites, ErrorsAreExplained, Unfiltered, user, shown
<1> QED BY <1>8, <1>9, <1>10, <1>11, <1>12

(* The browser has an answer.                                              *)
LEMMA AnswerIsKnown ==
    ASSUME IInv, NEW s \in Requests, Handled(s)
    PROVE  /\ asked[s] \in RequestState /\ asked[s] # NULL
           /\ asked[s].page \in Pages /\ asked[s].token \in Tokens
           /\ asked[s].choice \in Choices
           /\ asked[s].answer \in Answers /\ asked[s].answer # NULL
           /\ asked[s].answer.code \in {"ok", "401", "failed"}
           /\ asked[s].answer.version \in 0..lab
           /\ asked[s].answer.version \in 0..MaxVersion
<1>1. asked[s] \in RequestState /\ asked[s] # NULL /\ asked[s].answer # NULL
  BY DEF IInv, TypeOK, Handled
<1>2. /\ asked[s].page \in Pages /\ asked[s].token \in Tokens
      /\ asked[s].choice \in Choices /\ asked[s].answer \in Answers
  BY <1>1 DEF RequestState
<1>3. /\ asked[s].answer.code \in {"ok", "401", "failed"}
      /\ asked[s].answer.version \in 0..MaxVersion
  BY <1>1, <1>2 DEF Answers
<1>4. asked[s].answer.version <= lab /\ lab \in Nat
  BY BoundAssumption DEF IInv, InTime, TypeOK
<1>5. asked[s].answer.version \in 0..lab
  BY <1>3, <1>4, BoundAssumption
<1> QED BY <1>1, <1>2, <1>3, <1>5

(* A request ends, and the content and the newest rendering are not        *)
(* touched.                                                                *)
LEMMA Removed ==
    ASSUME IInv, NEW s \in Requests, Handled(s), asked[s].kind \in {"search", "change"},
           asked' = [asked EXCEPT ![s] = NULL],
           UNCHANGED <<user, api, lab, failures, latest, own>>,
           banner' \in {banner, TRUE},
           content' \in Contents, content' = content \/ content'.newest = FALSE
    PROVE  IInv'
<1> USE DEF IInv
<1>1. latest # s
  BY NullAssumption DEF Pending, TypeOK
<1>2. /\ asked' \in [Requests -> RequestState \cup {NULL}]
      /\ asked'[s] = NULL
      /\ \A r \in Requests : r # s => asked'[r] = asked[r]
  BY DEF TypeOK
<1>3. TypeOK'
  <2>1. banner' \in BOOLEAN
    BY DEF TypeOK
  <2>2. latest' # NULL => asked'[latest'] # NULL
    BY <1>1, <1>2 DEF TypeOK
  <2>3. \A r \in Requests : asked'[r] # NULL =>
            ~(asked'[r].page = "settings" /\ asked'[r].token = "none")
    BY <1>2 DEF TypeOK
  <2> QED BY <1>2, <2>1, <2>2, <2>3 DEF TypeOK, user
<1>4. InTime' /\ StatusIsOfOverview'
  BY <1>2 DEF InTime, StatusIsOfOverview, Handled
<1>5. Pending'
  BY <1>1, <1>2 DEF Pending, Handled, TypeOK, user
<1>6. NewestIsRight' /\ ReadsOwnWrites' /\ ErrorsAreExplained' /\ Unfiltered'
  BY DEF NewestIsRight, ReadsOwnWrites, ErrorsAreExplained, Unfiltered, user, TypeOK
<1> QED BY <1>3, <1>4, <1>5, <1>6

(* A rendering ends.  If it is the newest one, what it writes is what its  *)
(* request was about.                                                      *)
LEMMA Shown ==
    ASSUME IInv, NEW s \in Requests, Show(s)
    PROVE  IInv'
<1> USE DEF IInv
<1> DEFINE r == asked[s]
<1>1. /\ Handled(s)
      /\ content' = [kind |-> Outcome(r), page |-> r.page, token |-> r.token,
                     choice |-> r.choice, version |-> r.answer.version,
                     newest |-> latest = s]
      /\ api' = (IF IsError(Outcome(r)) THEN "error" ELSE "ok")
      /\ banner' = (banner \/ IsError(Outcome(r)))
      /\ latest' = (IF latest = s THEN NULL ELSE latest)
      /\ asked' = [asked EXCEPT ![s] = NULL]
      /\ UNCHANGED <<user, lab, failures, own>>
  BY DEF Show
<1>2. /\ r.page \in Pages /\ r.token \in Tokens /\ r.choice \in Choices
      /\ r.answer.code \in {"ok", "401", "failed"}
      /\ r.answer.version \in 0..lab /\ r.answer.version \in 0..MaxVersion
  BY <1>1, AnswerIsKnown
<1>3. Outcome(r) \in {"data", "welcome", "gate", "error"}
  <2>1. CASE r.answer.code = "failed"
    BY <2>1 DEF Outcome
  <2>2. CASE r.answer.code = "401"
    BY <2>2 DEF Outcome
  <2>3. CASE r.answer.code = "ok"
    BY <2>3 DEF Outcome
  <2> QED BY <1>2, <2>1, <2>2, <2>3
<1> DEFINE kind == Outcome(r)
           n == latest = s
<1>4. content' = [kind |-> kind, page |-> r.page, token |-> r.token,
                  choice |-> r.choice, version |-> r.answer.version, newest |-> n]
  BY <1>1
<1>5. kind \in {"data", "welcome", "gate", "error"} /\ n \in BOOLEAN
  BY <1>3
<1>6. latest = s => /\ r.page = page /\ r.token = token /\ r.choice = choice[page]
                    /\ own <= r.answer.version
  BY <1>1, NullAssumption DEF Pending
<1>7. /\ asked' \in [Requests -> RequestState \cup {NULL}]
      /\ asked'[s] = NULL
      /\ \A q \in Requests : q # s => asked'[q] = asked[q]
  BY <1>1 DEF TypeOK
<1>8. UNCHANGED user /\ lab' = lab /\ failures' = failures /\ own' = own
  BY <1>1
<1>9. /\ api' = (IF IsError(kind) THEN "error" ELSE "ok")
      /\ banner' = (banner \/ IsError(kind))
  BY <1>1
<1>10. n <=> latest = s
  OBVIOUS
<1> HIDE DEF kind, n, r
<1>11. content' \in Contents
  BY <1>2, <1>4, <1>5 DEF Contents
<1>12. TypeOK'
  <2>1. banner' \in BOOLEAN /\ api' \in {"connecting", "ok", "error"}
    BY <1>9 DEF TypeOK, IsError
  <2>2. /\ latest' \in Requests \cup {NULL}
        /\ latest' # NULL => asked'[latest'] # NULL
    BY <1>1, <1>7 DEF TypeOK
  <2>3. \A q \in Requests : asked'[q] # NULL =>
            ~(asked'[q].page = "settings" /\ asked'[q].token = "none")
    BY <1>7 DEF TypeOK
  <2> QED BY <1>7, <1>8, <1>11, <2>1, <2>2, <2>3 DEF TypeOK, user
<1>13. InTime' /\ StatusIsOfOverview'
  BY <1>7, <1>8 DEF InTime, StatusIsOfOverview, Handled
<1>14. Pending'
  <2>1. latest' # NULL => latest' = latest /\ latest # s /\ latest \in Requests
    BY <1>1 DEF TypeOK
  <2> QED BY <1>7, <1>8, <2>1 DEF Pending, Handled, user
<1>15. NewestIsRight' /\ ReadsOwnWrites'
  BY <1>4, <1>6, <1>8, <1>10 DEF NewestIsRight, ReadsOwnWrites, user
<1>16. ErrorsAreExplained'
  BY <1>4, <1>9 DEF ErrorsAreExplained
<1>17. Unfiltered'
  BY <1>8 DEF Unfiltered, user
<1> QED BY <1>12, <1>13, <1>14, <1>15, <1>16, <1>17

(* The overview asks for its statistics.                                   *)
LEMMA StatsAsked ==
    ASSUME IInv, NEW s \in Requests, AskStats(s)
    PROVE  IInv'
<1> USE DEF IInv
<1> DEFINE e == asked[s].answer.version = 0
           r0 == Request("stats", "overview", token, "any", e)
<1>1. /\ Handled(s) /\ asked[s].kind = "status" /\ asked[s].page = "overview"
      /\ asked' = [asked EXCEPT ![s] = r0]
      /\ UNCHANGED <<user, shown, lab, failures, latest, own>>
  BY DEF AskStats, StatusIsOfOverview, Handled
<1>2. /\ r0 \in RequestState /\ r0 # NULL /\ r0.answer = NULL
      /\ r0.kind = "stats" /\ r0.page = "overview"
      /\ r0.token = token /\ r0.choice = "any"
  <2>1. /\ token \in Tokens /\ e \in BOOLEAN /\ "overview" \in Pages /\ "any" \in Choices
        /\ "stats" \in {"status", "stats", "page", "search", "change"}
    BY ChoiceAssumption DEF TypeOK, Pages
  <2> HIDE DEF e
  <2> QED BY <2>1, RequestIsRequest
<1> HIDE DEF r0
<1>3. /\ asked' \in [Requests -> RequestState \cup {NULL}]
      /\ asked'[s] = r0
      /\ \A q \in Requests : q # s => asked'[q] = asked[q]
  BY <1>1, <1>2 DEF TypeOK
<1>4. choice["overview"] = "any"
  BY DEF Unfiltered, Pages, Filtered
<1>5. TypeOK'
  <2>1. latest' # NULL => asked'[latest'] # NULL
    BY <1>1, <1>2, <1>3 DEF TypeOK
  <2>2. \A q \in Requests : asked'[q] # NULL =>
            ~(asked'[q].page = "settings" /\ asked'[q].token = "none")
    BY <1>2, <1>3 DEF TypeOK
  <2> QED BY <1>1, <1>3, <2>1, <2>2 DEF TypeOK, user, shown
<1>6. InTime' /\ StatusIsOfOverview'
  BY <1>1, <1>2, <1>3 DEF InTime, StatusIsOfOverview, Handled
<1>7. Pending'
  BY <1>1, <1>2, <1>3, <1>4 DEF Pending, Handled, TypeOK, user
<1>8. NewestIsRight' /\ ReadsOwnWrites' /\ ErrorsAreExplained' /\ Unfiltered'
  BY <1>1 DEF NewestIsRight, ReadsOwnWrites, ErrorsAreExplained, Unfiltered, user, shown
<1> QED BY <1>5, <1>6, <1>7, <1>8

---------------------------------------------------------------------------
(* Every step *)

LEMMA InvariantStep == IInv /\ [Next]_vars => IInv'
<1> SUFFICES ASSUME IInv, [Next]_vars PROVE IInv'
  OBVIOUS
<1> USE DEF IInv
<1>0. /\ page \in Opened /\ token \in Tokens /\ choice \in [Pages -> Choices]
      /\ lab \in 0..MaxVersion /\ lab \in Nat /\ own \in 0..lab
      /\ failures \in 0..MaxFailures /\ content \in Contents
      /\ content.page \in Pages /\ "any" \in Choices
  BY BoundAssumption, ChoiceAssumption DEF TypeOK, Contents
<1>1. ASSUME NEW p \in Opened, Open(p) PROVE IInv'
  <2>1. PICK s \in Requests : Render(s)
    BY <1>1 DEF Open
  <2>2. page' \in Opened /\ UNCHANGED <<token, choice, lab, failures, own>>
    BY <1>1 DEF Open
  <2>3. Unfiltered'
    BY <2>2 DEF Unfiltered
  <2> QED BY <1>0, <2>1, <2>2, <2>3, Rendered
<1>2. ASSUME NEW t \in Tokens, SaveToken(t) PROVE IInv'
  <2>1. PICK s \in Requests : Render(s)
    BY <1>2 DEF SaveToken
  <2>2. token' \in Tokens /\ UNCHANGED <<page, choice, lab, failures, own>>
    BY <1>2 DEF SaveToken
  <2>3. Unfiltered'
    BY <2>2 DEF Unfiltered
  <2> QED BY <1>0, <2>1, <2>2, <2>3, Rendered
<1>3. ASSUME NEW p \in Opened \cap Filtered, NEW c \in Choices, Choose(p, c) PROVE IInv'
  <2>1. PICK s \in Requests : Render(s)
    BY <1>3 DEF Choose
  <2>2. choice' = [choice EXCEPT ![p] = c] /\ UNCHANGED <<page, token, lab, failures, own>>
    BY <1>3 DEF Choose
  <2>3. choice' \in [Pages -> Choices] /\ Unfiltered'
    BY <1>0, <2>2 DEF Unfiltered
  <2> QED BY <1>0, <2>1, <2>2, <2>3, Rendered
<1>4. ASSUME Poll PROVE IInv'
  <2>1. PICK s \in Requests : Render(s)
    BY <1>4 DEF Poll
  <2>2. UNCHANGED <<page, token, choice, lab, failures, own>>
    BY <1>4 DEF Poll, user
  <2>3. Unfiltered'
    BY <2>2 DEF Unfiltered
  <2> QED BY <1>0, <2>1, <2>2, <2>3, Rendered
<1>5. ASSUME Search PROVE IInv'
  <2>1. /\ content.page \in {"network", "events"}
        /\ UNCHANGED <<user, api, banner, lab, failures, latest, own>>
        /\ content' = [content EXCEPT !.newest = FALSE]
    BY <1>5 DEF Search
  <2>2. PICK s \in Requests :
            /\ Free(s)
            /\ asked' = [asked EXCEPT ![s] =
                   Request("search", content.page, token, choice[content.page], TRUE)]
    BY <1>5 DEF Search
  <2>3. choice[content.page] \in Choices /\ content.page # "settings"
    BY <1>0, <2>1
  <2> QED BY <2>1, <2>2, <2>3, Added
<1>6. ASSUME Change PROVE IInv'
  <2>1. /\ content.page \in Acting /\ banner' \in {banner, TRUE}
        /\ UNCHANGED <<user, content, api, lab, failures, latest, own>>
    BY <1>6 DEF Change
  <2>2. PICK s \in Requests :
            /\ Free(s)
            /\ asked' = [asked EXCEPT ![s] =
                   Request("change", content.page, token, "any", TRUE)]
    BY <1>6 DEF Change
  <2>3. content.page # "settings"
    BY <2>1 DEF Acting
  <2> QED BY <1>0, <2>1, <2>2, <2>3, Added
<1>7. ASSUME LabChanges PROVE IInv'
  <2>1. /\ lab' = lab + 1 /\ lab < MaxVersion
        /\ UNCHANGED <<user, asked, shown, failures, latest, own>>
    BY <1>7 DEF LabChanges
  <2>2. lab' \in 0..MaxVersion /\ own' \in 0..lab'
    BY <1>0, <2>1, BoundAssumption
  <2>3. TypeOK'
    BY <2>1, <2>2 DEF TypeOK, user, shown
  <2>4. InTime'
    <3> SUFFICES ASSUME NEW s \in Requests, Handled(s)
                 PROVE asked[s].answer.version <= lab'
      BY <2>1 DEF InTime, Handled
    <3>1. asked[s].answer.version \in 0..lab
      BY AnswerIsKnown
    <3> QED BY <1>0, <2>1, <3>1
  <2>5. Pending' /\ Unfiltered' /\ StatusIsOfOverview'
    BY <2>1 DEF Pending, Unfiltered, StatusIsOfOverview, Handled, user
  <2>6. NewestIsRight' /\ ReadsOwnWrites' /\ ErrorsAreExplained'
    BY <2>1 DEF NewestIsRight, ReadsOwnWrites, ErrorsAreExplained, user, shown
  <2> QED BY <2>3, <2>4, <2>5, <2>6
<1>8. ASSUME NEW s \in Requests, Handle(s) PROVE IInv'
  <2>1. /\ asked[s] # NULL /\ UNCHANGED <<user, shown, failures, latest, own>>
        /\ lab' \in {lab, lab + 1} \cap 0..MaxVersion
        /\ Answered(s, "401", lab') \/ Answered(s, "ok", lab')
    BY <1>0, <1>8 DEF Handle
  <2>2. lab' \in lab..MaxVersion /\ failures' \in 0..MaxFailures
    BY <1>0, <2>1, BoundAssumption
  <2> QED BY <2>1, <2>2, AnswerComes
<1>9. ASSUME NEW s \in Requests, FailRequest(s) PROVE IInv'
  <2>1. /\ asked[s] # NULL /\ UNCHANGED <<user, shown, lab, latest, own>>
        /\ failures < MaxFailures /\ failures' = failures + 1
        /\ Answered(s, "failed", lab')
    BY <1>9 DEF FailRequest, Answered
  <2>2. lab' \in lab..MaxVersion /\ failures' \in 0..MaxFailures
    BY <1>0, <2>1, BoundAssumption
  <2> QED BY <2>1, <2>2, AnswerComes
<1>10. ASSUME NEW s \in Requests, AskStats(s) PROVE IInv'
  BY <1>10, StatsAsked
<1>11. ASSUME NEW s \in Requests, Show(s) PROVE IInv'
  BY <1>11, Shown
<1>12. ASSUME NEW s \in Requests, ShowSearch(s) PROVE IInv'
  <2> DEFINE r == asked[s]
  <2>1. /\ Handled(s) /\ r.kind = "search" /\ asked' = [asked EXCEPT ![s] = NULL]
        /\ UNCHANGED <<user, api, lab, failures, latest, own>>
        /\ \/ /\ content' = [kind |-> "data", page |-> r.page, token |-> r.token,
                             choice |-> r.choice, version |-> r.answer.version,
                             newest |-> FALSE]
              /\ banner' = banner
           \/ content' = content /\ banner' = TRUE
    BY <1>12 DEF ShowSearch
  <2>2. /\ r.page \in Pages /\ r.token \in Tokens /\ r.choice \in Choices
        /\ r.answer.version \in 0..MaxVersion
    BY <2>1, AnswerIsKnown
  <2> HIDE DEF r
  <2>3. content' \in Contents /\ (content' = content \/ content'.newest = FALSE)
    <3>1. CASE content' = content
      BY <1>0, <3>1
    <3>2. CASE content' = [kind |-> "data", page |-> r.page, token |-> r.token,
                           choice |-> r.choice, version |-> r.answer.version,
                           newest |-> FALSE]
      BY <2>2, <3>2 DEF Contents
    <3> QED BY <2>1, <3>1, <3>2
  <2> QED BY <2>1, <2>3, Removed DEF r
<1>13. ASSUME NEW s \in Requests, FinishChange(s) PROVE IInv'
  <2>1. /\ Handled(s) /\ asked[s].kind = "change" /\ UNCHANGED <<user, lab, failures>>
    BY <1>13 DEF FinishChange
  <2>2. asked[s].answer.version \in 0..lab
    BY <2>1, AnswerIsKnown
  <2>3. CASE /\ own' = (IF own < asked[s].answer.version
                       THEN asked[s].answer.version ELSE own)
             /\ Render(s)
    <3>1. own' \in 0..lab
      BY <1>0, <2>2, <2>3
    <3>2. Unfiltered' /\ page' \in Opened /\ token' \in Tokens /\ choice' \in [Pages -> Choices]
      BY <1>0, <2>1 DEF Unfiltered, user
    <3> QED BY <2>1, <2>3, <3>1, <3>2, Rendered
  <2>4. CASE /\ banner' = TRUE /\ asked' = [asked EXCEPT ![s] = NULL]
             /\ UNCHANGED <<content, api, latest, own>>
    BY <1>0, <2>1, <2>4, Removed
  <2> QED BY <1>13, <2>3, <2>4 DEF FinishChange
<1>14. CASE UNCHANGED vars
  BY <1>14 DEF vars, user, shown, TypeOK, InTime, Pending, Unfiltered, StatusIsOfOverview,
     NewestIsRight, ReadsOwnWrites, ErrorsAreExplained, Handled
<1> QED
  BY <1>1, <1>2, <1>3, <1>4, <1>5, <1>6, <1>7, <1>8, <1>9, <1>10, <1>11, <1>12, <1>13, <1>14
  DEF Next, Receive

---------------------------------------------------------------------------
(* What follows *)

(* The state has its types: above all, the settings are never asked for    *)
(* without a token, and a rendering that has not ended has its request in  *)
(* flight (renderSettings, renderCurrentPage).                             *)
THEOREM TypeCorrect == Spec => []TypeOK
<1>1. IInv => TypeOK
  BY DEF IInv
<1> QED BY <1>1, InitInvariant, InvariantStep, PTL DEF Spec

(* What the newest rendering wrote is about the page, the filter and the   *)
(* token of now, whatever overtakes what (renderCurrentPage and the        *)
(* listeners that call it).                                                *)
THEOREM Newest == Spec => []NewestIsRight
<1>1. IInv => NewestIsRight
  BY DEF IInv
<1> QED BY <1>1, InitInvariant, InvariantStep, PTL DEF Spec

(* The newest rendering shows what the user has changed (the click         *)
(* listener renders after the change is confirmed).                        *)
THEOREM OwnWrites == Spec => []ReadsOwnWrites
<1>1. IInv => ReadsOwnWrites
  BY DEF IInv
<1> QED BY <1>1, InitInvariant, InvariantStep, PTL DEF Spec

(* A newest rendering that failed is explained by banner and indicator,    *)
(* and the indicator tells of an error only then (renderCurrentPage).      *)
THEOREM Errors == Spec => []ErrorsAreExplained
<1>1. IInv => ErrorsAreExplained
  BY DEF IInv
<1> QED BY <1>1, InitInvariant, InvariantStep, PTL DEF Spec
=============================================================================
