----------------------------- MODULE LocalSigner -----------------------------
(***************************************************************************)
(* The conversation by which a client request gets signed: the local       *)
(* signer on the citizen's computer                                        *)
(* (client-signer-local/client_signer_gui.py), the portal's client API     *)
(* (signing/client_api_views.py), and the page on which the signer         *)
(* confirms the device (frontend/views.py).                                *)
(*                                                                         *)
(* The app makes one HTTP call at a time and gives up on it after 20 or 30 *)
(* seconds.  The portal may carry a call out after the app has given up,   *)
(* or carry it out and have its reply lost; the app may be closed and      *)
(* started again, with a new device key, at any time.  A call of the API   *)
(* is one action here: ClientSigning has the races inside the handlers.    *)
(***************************************************************************)
EXTENDS Naturals

CONSTANTS
  Request,   \* primary keys of PENDING client requests that have a pairing code
  MaxOdd     \* bound: time-outs, restarts, failing handlers, unusual clicks, limits passed

None == "none"

ASSUME LocalConstants ==
  /\ None \notin Request
  /\ MaxOdd \in Nat

VARIABLES
  req,        \* the SigningRequest rows
  session,    \* how often each request was prepared: the number of its latest signed attributes
  record,     \* the SignatureRecord of each request
  app,        \* the local signer: device key, token, the listed request, was the last call refused
  call,       \* the call the app is waiting for, until the portal carries it out
  answer,     \* the portal's reply, until the app has read it
  late,       \* calls the app has given up on and the portal may still carry out
  page,       \* the requests whose page, as the signer looks at it, offers the confirmation
  tabs,       \* the requests whose confirmation another tab, or the browser's Back, still offers
  agreed,     \* history: the signed attributes the user agreed to sign, per request
  confirmed,  \* history: the device key that was paired when the signer confirmed
  told,       \* history: the signed attributes the app called signed, per request
  overtaken,  \* history: the number of the attributes prepared last before the latest pairing
  odd         \* what has been used up of the bound

rowVars == <<req, session, record>>
appVars == <<app, call, answer, late>>
pages   == <<page, tabs>>
history == <<agreed, confirmed, told, overtaken>>
vars == <<req, session, record, app, call, answer, late, page, tabs,
          agreed, confirmed, told, overtaken, odd>>

Pairing == {"WAITING_DEVICE", "DEVICE_PAIRED", "CONFIRMED", "CONSUMED", "EXPIRED"}

\* key: signer_device_public_key_pem, 0 while it is empty; stamped: pairing_confirmed_at
\* is set; expired: expires_at is past; lapsed: the ten minutes of code and token are.
\* Token and code are usable as long as the request is PENDING.
RequestRow == [status: {"PENDING", "SIGNED"}, pairing: Pairing, key: Nat,
               stamped: BOOLEAN, expired: BOOLEAN, lapsed: BOOLEAN]

\* attrs: the signed attributes that were signed, 0 while there is no record;
\* key: the device whose call made it.
RecordRow == [attrs: Nat, key: Nat]

Item   == [request: Request \cup {None}, attrs: Nat]
NoItem == [request |-> None, attrs |-> 0]

App == [key: Nat, token: Request \cup {None}, item: Item, failed: BOOLEAN]

\* token: whose session token (or, to pair, whose code) the call carries.
Call   == [kind: {"none", "pair", "pending", "submit"}, token: Request \cup {None},
           item: Item, key: Nat]
NoCall == [kind |-> "none", token |-> None, item |-> NoItem, key |-> 0]

\* What a reply tells the app; "waiting" and "signed" both say ok.
Answer   == [says: {"none", "paired", "waiting", "item", "signed", "error"}, to: Call, item: Item]
NoAnswer == [says |-> "none", to |-> NoCall, item |-> NoItem]

\* Every variable has its type.
TypeOK ==
  /\ req \in [Request -> RequestRow]
  /\ session \in [Request -> Nat]
  /\ record \in [Request -> RecordRow]
  /\ app \in App /\ call \in Call /\ answer \in Answer /\ late \in SUBSET Call
  /\ page \in SUBSET Request /\ tabs \in SUBSET Request
  /\ agreed \in [Request -> SUBSET Nat]
  /\ confirmed \in [Request -> Nat]
  /\ told \in [Request -> SUBSET Nat]
  /\ overtaken \in [Request -> Nat]
  /\ odd \in Nat

Init ==
  /\ req = [r \in Request |-> [status |-> "PENDING", pairing |-> "WAITING_DEVICE", key |-> 0,
                               stamped |-> FALSE, expired |-> FALSE, lapsed |-> FALSE]]
  /\ session = [r \in Request |-> 0]
  /\ record = [r \in Request |-> [attrs |-> 0, key |-> 0]]
  /\ app = [key |-> 1, token |-> None, item |-> NoItem, failed |-> FALSE]
  /\ call = NoCall /\ answer = NoAnswer /\ late = {}
  /\ page = {} /\ tabs = {}
  /\ agreed = [r \in Request |-> {}]
  /\ confirmed = [r \in Request |-> 0]
  /\ told = [r \in Request |-> {}]
  /\ overtaken = [r \in Request |-> 0]
  /\ odd = 0

-----------------------------------------------------------------------------
Signed(r) == req[r].status = "SIGNED"

\* The page, when it is loaded, offers a confirmation until there was one.
CanConfirm(r) ==
  /\ req[r].status = "PENDING" /\ ~req[r].expired
  /\ req[r].pairing = "DEVICE_PAIRED" /\ ~req[r].stamped

\* A device waits for a confirmation that the page, loaded now, does not offer.
Stranded(r) == req[r].pairing = "DEVICE_PAIRED" /\ req[r].stamped

\* Nothing is left to do for the user here.
Over(r) == Signed(r) \/ req[r].expired \/ req[r].lapsed \/ Stranded(r)

\* A step the user or the network takes now and then, a bounded number of times.
Odd == odd < MaxOdd /\ odd' = odd + 1

Usual == UNCHANGED odd

Ready == call = NoCall /\ answer = NoAnswer

-----------------------------------------------------------------------------
(***************************************************************************)
(* The local signer.  Its buttons always work; a step is usual when it is  *)
(* what the app's messages ask for.                                        *)
(***************************************************************************)

\* Send a call signed with the device key of this process.
Send(kind, token, item) ==
  /\ Ready
  /\ call' = [kind |-> kind, token |-> token, item |-> item, key |-> app.key]
  /\ UNCHANGED <<answer, late>>

\* pair_device, with the code of request r from its page.  What the app listed
\* stays in self.requests.
PairDevice(r) ==
  /\ IF app.token = None \/ Over(app.token) \/ app.failed THEN ~Over(r) /\ Usual ELSE Odd
  /\ Send("pair", r, NoItem)
  /\ UNCHANGED <<rowVars, app, pages, history>>

\* refresh: the list is emptied before the call.
Refresh ==
  /\ app.token # None
  /\ IF app.item = NoItem \/ app.failed THEN Usual ELSE Odd
  /\ Send("pending", app.token, NoItem)
  /\ app' = [app EXCEPT !.item = NoItem]
  /\ UNCHANGED <<rowVars, pages, history>>

\* sign_selected: the user agrees, and the signature goes to the address that
\* came with the listed request, under the token of the last pairing.
SignSelected ==
  /\ app.token # None /\ app.item # NoItem
  /\ IF app.failed THEN Odd ELSE Usual
  /\ Send("submit", app.token, app.item)
  /\ agreed' = [agreed EXCEPT ![app.item.request] = @ \cup {app.item.attrs}]
  /\ UNCHANGED <<rowVars, app, pages, confirmed, told, overtaken>>

\* The app gives up on its call, or the reply does not arrive.
GiveUp ==
  /\ Odd
  /\ ~Ready
  /\ late' = IF call = NoCall THEN late ELSE late \cup {call}
  /\ call' = NoCall /\ answer' = NoAnswer
  /\ app' = [app EXCEPT !.failed = TRUE]
  /\ UNCHANGED <<rowVars, pages, history>>

\* The app is closed and started again: its key and its token lived in memory.
Restart ==
  /\ Odd
  /\ late' = IF call = NoCall THEN late ELSE late \cup {call}
  /\ call' = NoCall /\ answer' = NoAnswer
  /\ app' = [key |-> app.key + 1, token |-> None, item |-> NoItem, failed |-> FALSE]
  /\ UNCHANGED <<rowVars, pages, history>>

\* A reply with status 200 and "ok".
Ok == answer.says \in {"paired", "waiting", "item", "signed"}

\* pair_device: the token comes with the reply.
ReadPaired ==
  /\ answer.to.kind = "pair" /\ Ok
  /\ app' = [app EXCEPT !.token = answer.to.token, !.failed = FALSE]
  /\ UNCHANGED told

\* refresh: the request that came with the reply, or none while the portal waits.
ReadPending ==
  /\ answer.to.kind = "pending" /\ Ok
  /\ app' = [app EXCEPT !.item = answer.item, !.failed = FALSE]
  /\ UNCHANGED told

\* Faulty: any reply will do.
ReadSubmittedUnchecked ==
  /\ answer.to.kind = "submit"
  /\ app' = [app EXCEPT !.token = None, !.item = NoItem, !.failed = FALSE]
  /\ told' = [told EXCEPT ![answer.to.item.request] = @ \cup {answer.to.item.attrs}]

\* sign_selected looks at "ok" only: it says "Signed successfully!" and forgets
\* token, list and code.
ReadSubmitted ==
  /\ answer.to.kind = "submit" /\ Ok
  /\ app' = [app EXCEPT !.token = None, !.item = NoItem, !.failed = FALSE]
  /\ told' = [told EXCEPT ![answer.to.item.request] = @ \cup {answer.to.item.attrs}]

\* The app shows the error and keeps what it has.
ReadError ==
  /\ answer.says = "error"
  /\ app' = [app EXCEPT !.failed = TRUE]
  /\ UNCHANGED told

Read ==
  /\ ReadPaired \/ ReadPending \/ ReadSubmitted \/ ReadError
  /\ answer' = NoAnswer
  /\ Usual
  /\ UNCHANGED <<rowVars, call, late, pages, agreed, confirmed, overtaken>>

-----------------------------------------------------------------------------
(***************************************************************************)
(* The portal's API.                                                       *)
(***************************************************************************)

\* The portal carries out call c; the reply is of use if the app still waits.
Reply(c, says, item) ==
  \/ /\ c = call /\ c # NoCall
     /\ call' = NoCall /\ answer' = [says |-> says, to |-> c, item |-> item]
     /\ UNCHANGED late
  \/ /\ c \in late /\ late' = late \ {c}
     /\ UNCHANGED <<call, answer>>

\* What was handed out for request r so far was handed out under an earlier pairing.
Overtake(r) == overtaken' = [overtaken EXCEPT ![r] = session[r]]

\* Faulty: a code is good for one call.
ServePairOnce(c) ==
  LET r == c.token IN
  /\ c.kind = "pair" /\ ~Signed(r) /\ ~req[r].lapsed
  /\ IF req[r].key # 0
       THEN Reply(c, "error", NoItem) /\ UNCHANGED <<req, overtaken>>
       ELSE /\ req' = [req EXCEPT ![r].pairing = "DEVICE_PAIRED", ![r].key = c.key]
            /\ Overtake(r)
            /\ Reply(c, "paired", NoItem)
  /\ Usual /\ UNCHANGED <<session, record, app, pages, agreed, confirmed, told>>

\* Faulty: a confirmed pairing stays confirmed when the device changes.
ServePairConfirmed(c) ==
  LET r == c.token IN
  /\ c.kind = "pair" /\ ~Signed(r) /\ ~req[r].lapsed
  /\ req' = [req EXCEPT ![r].pairing = IF @ = "CONFIRMED" THEN @ ELSE "DEVICE_PAIRED",
                         ![r].key = c.key]
  /\ Overtake(r)
  /\ Reply(c, "paired", NoItem)
  /\ Usual /\ UNCHANGED <<session, record, app, pages, agreed, confirmed, told>>

\* pair_client_device: any pairing status will do, and expires_at is not looked
\* at.  The confirmation time of an earlier pairing stays.
ServePair(c) ==
  LET r == c.token IN
  /\ c.kind = "pair" /\ ~Signed(r) /\ ~req[r].lapsed
  /\ req' = [req EXCEPT ![r].pairing = "DEVICE_PAIRED", ![r].key = c.key]
  /\ Overtake(r)
  /\ Reply(c, "paired", NoItem)
  /\ Usual /\ UNCHANGED <<session, record, app, pages, agreed, confirmed, told>>

\* Faulty: the request expires in the place of its pairing.
RefusePairForGood(c) ==
  LET r == c.token IN
  /\ c.kind = "pair" /\ (Signed(r) \/ req[r].lapsed)
  /\ req' = IF Signed(r) THEN req ELSE [req EXCEPT ![r].status = "EXPIRED"]
  /\ Reply(c, "error", NoItem)
  /\ Usual /\ UNCHANGED <<session, record, app, pages, history>>

RefusePair(c) ==
  LET r == c.token IN
  /\ c.kind = "pair" /\ (Signed(r) \/ req[r].lapsed)
  /\ req' = IF Signed(r) THEN req ELSE [req EXCEPT ![r].pairing = "EXPIRED"]
  /\ Reply(c, "error", NoItem)
  /\ Usual /\ UNCHANGED <<session, record, app, pages, history>>

\* verify_device_binding: the call is signed with the key that was paired.
FromPairedDevice(c) == c.key = req[c.token].key

\* _get_request_by_client_session finds the request of the token, which must be
\* the one in the address of a submission.
ValidSession(c) ==
  LET r == c.token IN
  /\ c.kind \in {"pending", "submit"}
  /\ c.kind = "submit" => c.item.request = r
  /\ ~Signed(r) /\ ~req[r].lapsed /\ ~req[r].expired

Waiting(c) == ValidSession(c) /\ req[c.token].pairing = "DEVICE_PAIRED"

Serves(c) ==
  /\ ValidSession(c) /\ req[c.token].pairing = "CONFIRMED" /\ FromPairedDevice(c)

\* An unconfirmed pairing is answered with "ok", to a submission as well.
ServeWaiting(c) ==
  /\ Waiting(c)
  /\ Reply(c, "waiting", NoItem)
  /\ Usual /\ UNCHANGED <<rowVars, app, pages, history>>

Refuse(c) ==
  /\ c.kind \in {"pending", "submit"} /\ ~Waiting(c) /\ ~Serves(c)
  /\ Reply(c, "error", NoItem)
  /\ Usual /\ UNCHANGED <<rowVars, app, pages, history>>

\* pending_client_requests: prepare afresh, and hand out the signed attributes.
ServePending(c) ==
  LET r == c.token IN
  /\ c.kind = "pending" /\ Serves(c)
  /\ session' = [session EXCEPT ![r] = @ + 1]
  /\ Reply(c, "item", [request |-> r, attrs |-> session[r] + 1])
  /\ Usual /\ UNCHANGED <<req, record, app, pages, history>>

\* Faulty: the signature is stored without a look at the prepared session.
SealUnverified(c) ==
  LET r == c.token IN
  /\ c.kind = "submit" /\ Serves(c)
  /\ record' = [record EXCEPT ![r] = [attrs |-> c.item.attrs, key |-> c.key]]
  /\ UNCHANGED <<session, app, pages, history>>

\* submit_client_signature: the signature must be over the latest attributes.
Seal(c) ==
  LET r == c.token IN
  /\ c.kind = "submit" /\ Serves(c) /\ c.item.attrs = session[r]
  /\ record' = [record EXCEPT ![r] = [attrs |-> c.item.attrs, key |-> c.key]]
  /\ UNCHANGED <<session, app, pages, history>>

ServeSubmit(c) ==
  /\ Seal(c)
  /\ req' = [req EXCEPT ![c.token].status = "SIGNED", ![c.token].pairing = "CONSUMED"]
  /\ Reply(c, "signed", NoItem)
  /\ Usual

\* What follows the seal raises: the request is SIGNED, its pairing is left as
\* it is, and the app is told of an error.
SubmitThenFail(c) ==
  /\ Seal(c)
  /\ req' = [req EXCEPT ![c.token].status = "SIGNED"]
  /\ Reply(c, "error", NoItem)
  /\ Odd

RefuseSubmit(c) ==
  /\ c.kind = "submit" /\ Serves(c) /\ c.item.attrs # session[c.token]
  /\ Reply(c, "error", NoItem)
  /\ Usual /\ UNCHANGED <<rowVars, app, pages, history>>

\* A handler that served the session raises before it has changed anything.
Fail(c) ==
  /\ Serves(c)
  /\ Reply(c, "error", NoItem)
  /\ Odd /\ UNCHANGED <<rowVars, app, pages, history>>

\* A late call never arrives, or more than two minutes after it was signed.
Lose(c) ==
  /\ c \in late /\ late' = late \ {c}
  /\ Usual /\ UNCHANGED <<rowVars, app, call, answer, pages, history>>

-----------------------------------------------------------------------------
(***************************************************************************)
(* The page of the request in the signer's browser.                        *)
(***************************************************************************)

\* SigningRequestDetailView.  What is offered once can be found again in another
\* tab, or with the browser's Back.
LoadPage(r) ==
  /\ IF CanConfirm(r)
       THEN page' = page \cup {r} /\ tabs' = tabs \cup {r}
       ELSE page' = page \ {r} /\ UNCHANGED tabs
  /\ Usual /\ UNCHANGED <<rowVars, appVars, history>>

\* ConfirmClientPairingView, for whatever device is paired now.  It does not look
\* at pairing_confirmed_at.
ConfirmPairing(r) ==
  /\ IF /\ req[r].status = "PENDING" /\ ~req[r].expired /\ ~req[r].lapsed
        /\ req[r].pairing = "DEVICE_PAIRED"
       THEN /\ req' = [req EXCEPT ![r].pairing = "CONFIRMED", ![r].stamped = TRUE]
            /\ confirmed' = [confirmed EXCEPT ![r] = req[r].key]
       ELSE UNCHANGED <<req, confirmed>>
  /\ UNCHANGED <<session, record, appVars, agreed, told, overtaken>>

\* The signer confirms on the page, which may be older than the last pairing, and
\* is redirected to the page as it is then.
Confirm(r) ==
  /\ Usual
  /\ r \in page /\ page' = page \ {r}
  /\ ConfirmPairing(r)
  /\ UNCHANGED tabs

\* The signer confirms in another tab, or goes back and confirms again.
ConfirmElsewhere(r) ==
  /\ Odd
  /\ r \in tabs
  /\ ConfirmPairing(r)
  /\ UNCHANGED pages

\* A time limit passes.
Pass(r) ==
  /\ Odd /\ ~Signed(r)
  /\ req' \in {[req EXCEPT ![r].expired = TRUE], [req EXCEPT ![r].lapsed = TRUE]}
  /\ UNCHANGED <<session, record, appVars, pages, history>>

-----------------------------------------------------------------------------
Serve(c) ==
  \/ ServePair(c) \/ RefusePair(c) \/ ServeWaiting(c) \/ Refuse(c)
  \/ ServePending(c) \/ ServeSubmit(c) \/ SubmitThenFail(c) \/ RefuseSubmit(c) \/ Fail(c)

User ==
  \/ \E r \in Request : PairDevice(r) \/ LoadPage(r) \/ Confirm(r) \/ ConfirmElsewhere(r)
  \/ Refresh \/ SignSelected \/ Read

Next ==
  \/ User \/ Serve(call)
  \/ \E c \in late : Serve(c) \/ Lose(c)
  \/ GiveUp \/ Restart
  \/ \E r \in Request : Pass(r)

Spec == Init /\ [][Next]_vars

\* The portal carries out what the app waits for.  The user goes on until the
\* request is signed: reads replies, looks at the page, and tries each button
\* again and again as long as the app asks for it.
Fairness ==
  /\ WF_vars(Serve(call)) /\ WF_vars(Read)
  /\ \A r \in Request : SF_vars(PairDevice(r)) /\ WF_vars(LoadPage(r)) /\ SF_vars(Confirm(r))
  /\ SF_vars(Refresh) /\ SF_vars(SignSelected)

FairSpec == Spec /\ Fairness

-----------------------------------------------------------------------------
(***************************************************************************)
(* Properties.                                                             *)
(***************************************************************************)

\* Whatever calls are repeated, delayed or carried out after the app gave up on
\* them: a record is over attributes the user agreed to sign for this request,
\* and they are the ones the portal prepared last.
SignedIsAgreed ==
  \A r \in Request : record[r].attrs # 0 =>
    record[r].attrs \in agreed[r] /\ record[r].attrs = session[r]

\* The call that signed came from the device that was paired when the signer
\* confirmed: not from an earlier process of the app, nor from one that took
\* the pairing over after the confirmation.
SubmitterConfirmed ==
  \A r \in Request : record[r].attrs # 0 => record[r].key = confirmed[r]

\* What the app calls signed is what the record holds, to the very attributes, however
\* replies are lost and calls repeated, and however often the signer confirms; unless
\* a device was paired again after these attributes were handed out.
ToldUnlessOvertaken ==
  \A r \in Request : \A n \in told[r] : record[r].attrs = n \/ n <= overtaken[r]

\* "Signed successfully!" means that the portal has the signature.
ToldIsSigned == \A r \in Request : told[r] # {} => Signed(r)

\* In spite of lost replies, restarts and calls carried out late, a user who
\* goes on gets the request signed in time, unless it is left with a paired
\* device that the page does not let anyone confirm.
SignedOrStranded == \A r \in Request : <>Over(r)
=============================================================================
