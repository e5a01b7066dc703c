--------------------------- MODULE LocalSignerProofs ---------------------------
(***************************************************************************)
(* Proofs about LocalSigner for any number of requests, restarts, repeated *)
(* and late calls.                                                         *)
(***************************************************************************)
EXTENDS LocalSigner, TLAPS

\* What a call, an item or a reply speaks of.
Books == [session: [Request -> Nat], overtaken: [Request -> Nat],
          record: [Request -> RecordRow], agreed: [Request -> SUBSET Nat]]

Now == [session |-> session, overtaken |-> overtaken, record |-> record, agreed |-> agreed]

\* Attributes n of request r are signed in the books v, or a device was paired
\* after they were handed out.
Settled(r, n, v) == v.record[r].attrs = n \/ n <= v.overtaken[r]

\* A submission carries attributes that were handed out for its request, and that
\* the user agreed to sign.
CallSound(c, v) ==
  c.kind # "none" =>
    /\ c.token \in Request
    /\ c.kind = "submit" =>
         /\ c.item.request \in Request
         /\ c.item.attrs \in v.agreed[c.item.request]
         /\ c.item.attrs <= v.session[c.item.request]

\* What the app lists was prepared.
ItemSound(i, v) == i = NoItem \/ (i.request \in Request /\ i.attrs <= v.session[i.request])

\* A submission is answered with "ok" if it was stored, or if what it signs was
\* handed out before the latest pairing.
AnswerSound(x, v) ==
  /\ CallSound(x.to, v) /\ ItemSound(x.item, v)
  /\ x.says = "paired" => x.to.kind = "pair"
  /\ x.says = "item" => x.to.kind = "pending"
  /\ x.says \in {"waiting", "signed"} /\ x.to.kind = "submit" =>
       Settled(x.to.item.request, x.to.item.attrs, v)

WireSound ==
  /\ ItemSound(app.item, Now)
  /\ CallSound(call, Now)
  /\ AnswerSound(answer, Now)
  /\ \A c \in late : CallSound(c, Now)

\* The key of a confirmed pairing is the confirmed one; while a pairing waits for
\* its confirmation, nothing is handed out.
RowSound ==
  \A r \in Request :
    /\ req[r].pairing = "CONFIRMED" => req[r].key = confirmed[r]
    /\ req[r].pairing = "DEVICE_PAIRED" => overtaken[r] = session[r]
    /\ overtaken[r] <= session[r]

RecordSound == \A r \in Request : record[r].attrs # 0 => Signed(r)

\* The inductive invariant.
IInv ==
  /\ TypeOK /\ WireSound /\ RowSound /\ RecordSound
  /\ SignedIsAgreed /\ SubmitterConfirmed /\ ToldUnlessOvertaken

\* The books only grow: more is prepared, more is overtaken, the user agrees to
\* more, and a record stays.
Later(v, w) ==
  /\ v \in Books /\ w \in Books
  /\ \A r \in Request :
       /\ v.session[r] <= w.session[r] /\ v.overtaken[r] <= w.overtaken[r]
       /\ v.record[r].attrs # 0 => w.record[r] = v.record[r]
       /\ v.agreed[r] \subseteq w.agreed[r]

-----------------------------------------------------------------------------
(***************************************************************************)
(* What calls, items and replies are stays true of them.                   *)
(***************************************************************************)

\* The books, as they are.
LEMMA NowFields ==
  /\ Now.session = session /\ Now.overtaken = overtaken
  /\ Now.record = record /\ Now.agreed = agreed
BY DEF Now

\* The books have their type, now and later.
LEMMA NowType == ASSUME TypeOK PROVE Now \in Books /\ Later(Now, Now)
<1>1. Now \in Books
  BY DEF TypeOK, Now, Books
<1>2. QED
  BY <1>1 DEF Later, Books

\* What is settled stays settled.
LEMMA SettledKept ==
  ASSUME NEW r \in Request, NEW n \in Nat, NEW v, NEW w, Settled(r, n, v), Later(v, w)
  PROVE  Settled(r, n, w)
<1>1. CASE n <= v.overtaken[r]
  BY <1>1 DEF Settled, Later, Books
<1>2. CASE v.record[r].attrs = n /\ n # 0
  BY <1>2 DEF Settled, Later, Books
<1>3. CASE n = 0
  BY <1>3 DEF Settled, Later, Books
<1>4. QED
  BY <1>1, <1>2, <1>3 DEF Settled

\* A call stays sound.
LEMMA CallKept ==
  ASSUME NEW c \in Call, NEW v, NEW w, CallSound(c, v), Later(v, w)
  PROVE  CallSound(c, w)
<1>1. c.item.attrs \in Nat
  BY DEF Call, Item
<1>2. QED
  BY <1>1 DEF CallSound, Later, Books

\* What was handed out stays so.
LEMMA ItemKept ==
  ASSUME NEW i \in Item, NEW v, NEW w, ItemSound(i, v), Later(v, w)
  PROVE  ItemSound(i, w)
<1>1. CASE i = NoItem
  BY <1>1 DEF ItemSound
<1>2. CASE i.request \in Request /\ i.attrs <= v.session[i.request]
  BY <1>2 DEF ItemSound, Later, Books, Item
<1>3. QED
  BY <1>1, <1>2 DEF ItemSound

\* A reply stays sound.
LEMMA AnswerKept ==
  ASSUME NEW x \in Answer, NEW v, NEW w, AnswerSound(x, v), Later(v, w)
  PROVE  AnswerSound(x, w)
<1>0. x.to \in Call /\ x.item \in Item /\ x.to.item.attrs \in Nat
  BY DEF Answer, Call, Item
<1>1. CallSound(x.to, w)
  BY <1>0, CallKept DEF AnswerSound
<1>2. ItemSound(x.item, w)
  BY <1>0, ItemKept DEF AnswerSound
<1>3. ASSUME x.says \in {"waiting", "signed"}, x.to.kind = "submit"
      PROVE  Settled(x.to.item.request, x.to.item.attrs, w)
  <2>1. /\ Settled(x.to.item.request, x.to.item.attrs, v)
        /\ x.to.item.request \in Request
    BY <1>3 DEF AnswerSound, CallSound
  <2>2. QED
    BY <1>0, <2>1, SettledKept
<1>4. QED
  BY <1>1, <1>2, <1>3 DEF AnswerSound

\* The wire stays sound when only the books move.
LEMMA WireKept ==
  ASSUME TypeOK, WireSound, Later(Now, Now'), UNCHANGED appVars
  PROVE  WireSound'
<1>0. app.item \in Item
  BY DEF TypeOK, App
<1>1. ItemSound(app.item, Now')
  BY <1>0, ItemKept DEF WireSound
<1>2. CallSound(call, Now')
  BY CallKept DEF WireSound, TypeOK
<1>3. AnswerSound(answer, Now')
  BY AnswerKept DEF WireSound, TypeOK
<1>4. \A c \in late : CallSound(c, Now')
  BY CallKept DEF WireSound, TypeOK
<1>5. QED
  BY <1>1, <1>2, <1>3, <1>4 DEF WireSound, appVars

\* No call, no answer and no listed request are sound.
LEMMA NothingSound ==
  ASSUME NEW v
  PROVE  /\ CallSound(NoCall, v) /\ ItemSound(NoItem, v) /\ AnswerSound(NoAnswer, v)
         /\ NoCall \in Call /\ NoAnswer \in Answer /\ NoItem \in Item
<1>1. NoCall.kind = "none" /\ NoAnswer.says = "none" /\ NoAnswer.to = NoCall
      /\ NoAnswer.item = NoItem
  BY DEF NoCall, NoAnswer
<1>2. CallSound(NoCall, v)
  BY <1>1 DEF CallSound
<1>3. ItemSound(NoItem, v)
  BY DEF ItemSound
<1>4. AnswerSound(NoAnswer, v)
  BY <1>1, <1>2, <1>3 DEF AnswerSound
<1>5. NoItem \in Item
  BY DEF NoItem, Item
<1>6. NoCall \in Call
  BY <1>5 DEF NoCall, Call
<1>7. NoAnswer \in Answer
  BY <1>5, <1>6 DEF NoAnswer, Answer
<1>8. QED
  BY <1>2, <1>3, <1>4, <1>5, <1>6, <1>7

\* A reply leaves the wire sound when what it says is.
LEMMA ReplySound ==
  ASSUME TypeOK, WireSound, NEW c \in Call, NEW says, NEW item \in Item,
         says \in {"paired", "waiting", "item", "signed", "error"},
         Reply(c, says, item), Later(Now, Now'), UNCHANGED app,
         AnswerSound([says |-> says, to |-> c, item |-> item], Now')
  PROVE  /\ WireSound'
         /\ call' \in Call /\ answer' \in Answer /\ late' \in SUBSET Call
<1>1. ItemSound(app.item, Now')
  BY ItemKept DEF WireSound, TypeOK, App
<1>2. \A d \in late : CallSound(d, Now')
  BY CallKept DEF WireSound, TypeOK
<1>3. CASE /\ call' = NoCall /\ answer' = [says |-> says, to |-> c, item |-> item]
           /\ UNCHANGED late
  <2>1. answer' \in Answer
    BY <1>3 DEF Answer
  <2>2. call' \in Call /\ CallSound(call', Now')
    BY <1>3, NothingSound
  <2>3. AnswerSound(answer', Now')
    BY <1>3
  <2>4. QED
    BY <1>1, <1>2, <1>3, <2>1, <2>2, <2>3 DEF WireSound, TypeOK
<1>4. CASE late' = late \ {c} /\ UNCHANGED <<call, answer>>
  <2>1. CallSound(call, Now') /\ AnswerSound(answer, Now')
    BY CallKept, AnswerKept DEF WireSound, TypeOK
  <2>2. QED
    BY <1>1, <1>2, <1>4, <2>1 DEF WireSound, TypeOK
<1>5. QED
  BY <1>3, <1>4 DEF Reply

-----------------------------------------------------------------------------
(***************************************************************************)
(* What the handlers do to a row.                                          *)
(***************************************************************************)

\* A device is paired.
LEMMA PairedRow ==
  ASSUME req \in [Request -> RequestRow], NEW r \in Request, NEW k \in Nat,
         req' = [req EXCEPT ![r].pairing = "DEVICE_PAIRED", ![r].key = k]
  PROVE  /\ req' \in [Request -> RequestRow]
         /\ req'[r].pairing = "DEVICE_PAIRED"
         /\ \A s \in Request : req'[s].status = req[s].status
         /\ \A s \in Request : s # r => req'[s] = req[s]
BY DEF RequestRow, Pairing

\* A code is refused for its time limit.
LEMMA ExpiredRow ==
  ASSUME req \in [Request -> RequestRow], NEW r \in Request,
         req' = [req EXCEPT ![r].pairing = "EXPIRED"]
  PROVE  /\ req' \in [Request -> RequestRow]
         /\ req'[r].pairing = "EXPIRED"
         /\ \A s \in Request : req'[s].status = req[s].status
         /\ \A s \in Request : s # r => req'[s] = req[s]
BY DEF RequestRow, Pairing

\* A pairing is confirmed, for the first time or again.
LEMMA ConfirmedRow ==
  ASSUME req \in [Request -> RequestRow], NEW r \in Request,
         req' = [req EXCEPT ![r].pairing = "CONFIRMED", ![r].stamped = TRUE]
  PROVE  /\ req' \in [Request -> RequestRow]
         /\ req'[r].pairing = "CONFIRMED" /\ req'[r].key = req[r].key
         /\ \A s \in Request : req'[s].status = req[s].status
         /\ \A s \in Request : s # r => req'[s] = req[s]
BY DEF RequestRow, Pairing

\* A request is sealed; its pairing is consumed, or left as it is.
LEMMA SignedRow ==
  ASSUME req \in [Request -> RequestRow], NEW r \in Request,
         NEW p \in {"CONSUMED", req[r].pairing},
         req' = [req EXCEPT ![r].status = "SIGNED", ![r].pairing = p]
  PROVE  /\ req' \in [Request -> RequestRow]
         /\ req'[r].status = "SIGNED"
         /\ req'[r].key = req[r].key
         /\ req'[r].pairing \in {"CONSUMED", req[r].pairing}
         /\ \A s \in Request : s # r => req'[s] = req[s]
BY DEF RequestRow, Pairing

\* A time limit passes.
LEMMA PassedRow ==
  ASSUME req \in [Request -> RequestRow], NEW r \in Request,
         req' \in {[req EXCEPT ![r].expired = TRUE], [req EXCEPT ![r].lapsed = TRUE]}
  PROVE  /\ req' \in [Request -> RequestRow]
         /\ \A s \in Request : /\ req'[s].status = req[s].status
                               /\ req'[s].pairing = req[s].pairing
                               /\ req'[s].key = req[s].key
<1>1. CASE req' = [req EXCEPT ![r].expired = TRUE]
  BY <1>1 DEF RequestRow
<1>2. CASE req' = [req EXCEPT ![r].lapsed = TRUE]
  BY <1>2 DEF RequestRow
<1>3. QED
  BY <1>1, <1>2

\* A handler that changes nothing but the wire and the pages keeps the invariant.
LEMMA OnlyWire ==
  ASSUME IInv, UNCHANGED <<rowVars, agreed, confirmed, told, overtaken>>,
         page' \in SUBSET Request, tabs' \in SUBSET Request,
         WireSound', app' \in App, call' \in Call, answer' \in Answer,
         late' \in SUBSET Call, odd' \in Nat
  PROVE  IInv'
<1>1. TypeOK'
  BY DEF IInv, TypeOK, rowVars
<1>2. RowSound' /\ RecordSound'
  BY DEF IInv, RowSound, RecordSound, Signed, rowVars
<1>3. SignedIsAgreed' /\ SubmitterConfirmed' /\ ToldUnlessOvertaken'
  BY DEF IInv, SignedIsAgreed, SubmitterConfirmed, ToldUnlessOvertaken, rowVars
<1>4. QED
  BY <1>1, <1>2, <1>3 DEF IInv

-----------------------------------------------------------------------------
(***************************************************************************)
(* The steps of the app.                                                   *)
(***************************************************************************)

\* A call whose submission was agreed to leaves the wire sound.
LEMMA SendSound ==
  ASSUME TypeOK, WireSound, NEW kind \in {"pair", "pending", "submit"},
         NEW token \in Request, NEW item \in Item, Send(kind, token, item),
         ItemSound(app'.item, Now'), Later(Now, Now'),
         kind = "submit" => /\ item.request \in Request
                            /\ item.attrs \in Now'.agreed[item.request]
                            /\ item.attrs <= Now'.session[item.request]
  PROVE  /\ WireSound'
         /\ call' \in Call /\ answer' \in Answer /\ late' \in SUBSET Call
<1>1. call' = [kind |-> kind, token |-> token, item |-> item, key |-> app.key]
      /\ UNCHANGED <<answer, late>>
  BY DEF Send
<1>2. call' \in Call
  BY <1>1 DEF TypeOK, App, Call
<1>3. CallSound(call', Now')
  BY <1>1 DEF CallSound
<1>4. AnswerSound(answer, Now') /\ \A c \in late : CallSound(c, Now')
  BY CallKept, AnswerKept DEF WireSound, TypeOK
<1>5. QED
  BY <1>1, <1>2, <1>3, <1>4 DEF WireSound, TypeOK

\* The button that pairs.
LEMMA PairDeviceSound ==
  ASSUME IInv, NEW r \in Request, PairDevice(r) PROVE IInv'
<1>1. Send("pair", r, NoItem) /\ UNCHANGED <<rowVars, app, pages, history>>
  BY DEF PairDevice
<1>2. odd' \in Nat
  BY DEF PairDevice, Odd, Usual, IInv, TypeOK
<1>3. Later(Now, Now') /\ Now' = Now
  BY <1>1, NowType DEF IInv, Now, history, rowVars
<1>4. ItemSound(app'.item, Now')
  BY <1>1, <1>3 DEF IInv, WireSound
<1>5. WireSound' /\ call' \in Call /\ answer' \in Answer /\ late' \in SUBSET Call
  BY <1>1, <1>3, <1>4, SendSound, NothingSound DEF IInv
<1>6. app' \in App /\ page' \in SUBSET Request /\ tabs' \in SUBSET Request
  BY <1>1 DEF IInv, TypeOK, pages
<1>7. QED
  BY <1>1, <1>2, <1>5, <1>6, OnlyWire DEF history

\* The button that refreshes the list.
LEMMA RefreshSound == ASSUME IInv, Refresh PROVE IInv'
<1>1. /\ Send("pending", app.token, NoItem) /\ app' = [app EXCEPT !.item = NoItem]
      /\ UNCHANGED <<rowVars, pages, history>>
  BY DEF Refresh
<1>2. odd' \in Nat
  BY DEF Refresh, Odd, Usual, IInv, TypeOK
<1>3. Later(Now, Now')
  BY <1>1, NowType DEF IInv, Now, history, rowVars
<1>4. app' \in App /\ app'.item = NoItem
  BY <1>1, NothingSound DEF IInv, TypeOK, App
<1>5. app.token \in Request
  BY DEF Refresh, IInv, TypeOK, App
<1>6. WireSound' /\ call' \in Call /\ answer' \in Answer /\ late' \in SUBSET Call
  BY <1>1, <1>3, <1>4, <1>5, SendSound, NothingSound DEF IInv
<1>7. page' \in SUBSET Request /\ tabs' \in SUBSET Request
  BY <1>1 DEF IInv, TypeOK, pages
<1>8. QED
  BY <1>1, <1>2, <1>4, <1>6, <1>7, OnlyWire DEF history

\* The button that signs.
LEMMA SignSelectedSound == ASSUME IInv, SignSelected PROVE IInv'
<1> DEFINE q == app.item.request
<1>1. /\ Send("submit", app.token, app.item)
      /\ agreed' = [agreed EXCEPT ![q] = @ \cup {app.item.attrs}]
      /\ UNCHANGED <<req, session, record, app, page, tabs, confirmed, told, overtaken>>
  BY DEF SignSelected, rowVars, pages
<1>2. odd' \in Nat
  BY DEF SignSelected, Odd, Usual, IInv, TypeOK
<1>3. app.token \in Request /\ app.item \in Item /\ app.item.attrs \in Nat
  BY DEF SignSelected, IInv, TypeOK, App, Item
<1>4. q \in Request /\ app.item.attrs <= session[q]
  BY NowFields DEF SignSelected, IInv, WireSound, ItemSound
<1>5. /\ agreed' \in [Request -> SUBSET Nat] /\ app.item.attrs \in agreed'[q]
      /\ \A r \in Request : agreed[r] \subseteq agreed'[r]
  BY <1>1, <1>3, <1>4 DEF IInv, TypeOK
<1>6. Later(Now, Now')
  BY <1>1, <1>5, NowType DEF IInv, Now, Later, Books
<1>7. ItemSound(app'.item, Now')
  BY <1>1, <1>3, <1>6, ItemKept DEF IInv, WireSound
<1>8. Now'.agreed = agreed' /\ Now'.session = session
  BY <1>1 DEF Now
<1>9. WireSound' /\ call' \in Call /\ answer' \in Answer /\ late' \in SUBSET Call
  BY <1>1, <1>3, <1>4, <1>5, <1>6, <1>7, <1>8, SendSound DEF IInv
<1>10. TypeOK'
  BY <1>1, <1>2, <1>5, <1>9 DEF IInv, TypeOK
<1>11. SignedIsAgreed'
  BY <1>1, <1>5 DEF IInv, SignedIsAgreed
<1>12. RowSound' /\ RecordSound' /\ SubmitterConfirmed' /\ ToldUnlessOvertaken'
  BY <1>1 DEF IInv, RowSound, RecordSound, SubmitterConfirmed, ToldUnlessOvertaken, Signed
<1>13. QED
  BY <1>9, <1>10, <1>11, <1>12 DEF IInv

\* Giving up and starting again move the call among the late ones.
LEMMA LeaveSound == ASSUME IInv, GiveUp \/ Restart PROVE IInv'
<1>1. /\ late' = late \/ late' = late \cup {call}
      /\ call' = NoCall /\ answer' = NoAnswer
      /\ UNCHANGED <<rowVars, pages, history>>
  BY DEF GiveUp, Restart
<1>2. odd' \in Nat
  BY DEF GiveUp, Restart, Odd, IInv, TypeOK
<1>3. app' \in App /\ app'.item \in {app.item, NoItem}
  <2>1. CASE GiveUp
    BY <2>1 DEF GiveUp, IInv, TypeOK, App
  <2>2. CASE Restart
    BY <2>2, NothingSound DEF Restart, IInv, TypeOK, App
  <2>3. QED
    BY <2>1, <2>2
<1>4. Now' = Now
  BY <1>1 DEF Now, rowVars, history
<1>5. ItemSound(app'.item, Now)
  BY <1>3, NothingSound DEF IInv, WireSound
<1>6. \A c \in late' : CallSound(c, Now)
  BY <1>1 DEF IInv, WireSound
<1>7. /\ late' \in SUBSET Call /\ call' \in Call /\ answer' \in Answer
      /\ page' \in SUBSET Request /\ tabs' \in SUBSET Request
  BY <1>1, NothingSound DEF IInv, TypeOK, pages
<1>8. WireSound'
  BY <1>1, <1>4, <1>5, <1>6, NothingSound DEF WireSound
<1>9. QED
  BY <1>1, <1>2, <1>3, <1>7, <1>8, OnlyWire DEF history

\* The app reads a reply.
LEMMA ReadSound == ASSUME IInv, Read PROVE IInv'
<1> DEFINE i == answer.to.item
<1>1. /\ answer' = NoAnswer /\ odd' = odd
      /\ UNCHANGED <<req, session, record, call, late, page, tabs, agreed, confirmed, overtaken>>
  BY DEF Read, Usual, rowVars, pages
<1>2. /\ app' \in App /\ app'.item \in {app.item, NoItem, answer.item}
      /\ told' = told \/ ReadSubmitted
  <2>1. CASE ReadPaired
    BY <2>1 DEF ReadPaired, IInv, TypeOK, App, Answer, Call
  <2>2. CASE ReadPending
    BY <2>2 DEF ReadPending, IInv, TypeOK, App, Answer, Call
  <2>3. CASE ReadSubmitted
    BY <2>3, NothingSound DEF ReadSubmitted, IInv, TypeOK, App
  <2>4. CASE ReadError
    BY <2>4 DEF ReadError, IInv, TypeOK, App
  <2>5. QED
    BY <2>1, <2>2, <2>3, <2>4 DEF Read
<1>3. told' \in [Request -> SUBSET Nat] /\ ToldUnlessOvertaken'
  <2>1. CASE told' = told
    BY <1>1, <2>1 DEF IInv, TypeOK, ToldUnlessOvertaken
  <2>2. CASE ReadSubmitted
    <3>1. answer.says \in {"waiting", "signed"} /\ answer.to.kind = "submit"
      BY <2>2 DEF ReadSubmitted, Ok, IInv, WireSound, AnswerSound
    <3>2. Settled(i.request, i.attrs, Now) /\ i.request \in Request /\ i.attrs \in Nat
      BY <3>1 DEF IInv, WireSound, AnswerSound, CallSound, TypeOK, Answer, Call, Item
    <3>3. record[i.request].attrs = i.attrs \/ i.attrs <= overtaken[i.request]
      BY <3>2, NowFields DEF Settled
    <3>4. told' = [told EXCEPT ![i.request] = @ \cup {i.attrs}]
      BY <2>2 DEF ReadSubmitted
    <3>5. QED
      BY <1>1, <3>2, <3>3, <3>4 DEF IInv, TypeOK, ToldUnlessOvertaken
  <2>3. QED
    BY <1>2, <2>1, <2>2
<1>4. Now' = Now
  BY <1>1 DEF Now
<1>5. ItemSound(app'.item, Now)
  BY <1>2, NothingSound DEF IInv, WireSound, AnswerSound
<1>6. WireSound'
  BY <1>1, <1>4, <1>5, NothingSound DEF IInv, WireSound
<1>7. TypeOK'
  BY <1>1, <1>2, <1>3, NothingSound DEF IInv, TypeOK
<1>8. RowSound' /\ RecordSound' /\ SignedIsAgreed' /\ SubmitterConfirmed'
  BY <1>1 DEF IInv, RowSound, RecordSound, SignedIsAgreed, SubmitterConfirmed, Signed
<1>9. QED
  BY <1>3, <1>6, <1>7, <1>8 DEF IInv

-----------------------------------------------------------------------------
(***************************************************************************)
(* The steps of the portal, for a call c that the app made.                *)
(***************************************************************************)

\* A reply that says nothing of a signature and hands out nothing.
LEMMA PlainAnswer ==
  ASSUME NEW c, NEW v, CallSound(c, v),
         NEW says, says = "error" \/ (says = "paired" /\ c.kind = "pair")
  PROVE  AnswerSound([says |-> says, to |-> c, item |-> NoItem], v)
<1> DEFINE x == [says |-> says, to |-> c, item |-> NoItem]
<1>1. x.says = says /\ x.to = c /\ x.item = NoItem
  OBVIOUS
<1>2. ItemSound(NoItem, v)
  BY DEF ItemSound
<1>3. AnswerSound(x, v)
  BY <1>1, <1>2 DEF AnswerSound
<1>4. QED
  BY <1>3

\* What pairing does to the rows, and what was handed out before is overtaken.
LEMMA PairRows ==
  ASSUME IInv, NEW c \in Call, c.token \in Request, ServePair(c) \/ RefusePair(c)
  PROVE  /\ req' \in [Request -> RequestRow] /\ overtaken' \in [Request -> Nat]
         /\ \A s \in Request :
              /\ req'[s].status = req[s].status
              /\ overtaken'[s] = overtaken[s] \/ overtaken'[s] = session[s]
              /\ \/ req'[s] = req[s]
                 \/ req'[s].pairing = "EXPIRED"
                 \/ req'[s].pairing = "DEVICE_PAIRED" /\ overtaken'[s] = session[s]
<1> DEFINE r == c.token
<1>1. c.key \in Nat
  BY DEF Call
<1>2. CASE RefusePair(c)
  <2>1. overtaken' = overtaken /\ (req' = req \/ req' = [req EXCEPT ![r].pairing = "EXPIRED"])
    BY <1>2 DEF RefusePair, history
  <2>2. CASE req' = [req EXCEPT ![r].pairing = "EXPIRED"]
    BY <2>1, <2>2, ExpiredRow DEF IInv, TypeOK
  <2>3. QED
    BY <2>1, <2>2 DEF IInv, TypeOK
<1>3. CASE ServePair(c)
  <2>1. /\ req' = [req EXCEPT ![r].pairing = "DEVICE_PAIRED", ![r].key = c.key]
        /\ overtaken' = [overtaken EXCEPT ![r] = session[r]]
    BY <1>3 DEF ServePair, Overtake
  <2>2. /\ req' \in [Request -> RequestRow]
        /\ req'[r].pairing = "DEVICE_PAIRED"
        /\ \A s \in Request : req'[s].status = req[s].status
        /\ \A s \in Request : s # r => req'[s] = req[s]
    BY <1>1, <2>1, PairedRow DEF IInv, TypeOK
  <2>3. /\ overtaken' \in [Request -> Nat]
        /\ \A s \in Request : overtaken'[s] = IF s = r THEN session[r] ELSE overtaken[s]
    BY <2>1 DEF IInv, TypeOK
  <2>4. QED
    BY <2>2, <2>3
<1>4. QED
  BY <1>2, <1>3

\* Pairing, and failing to.
LEMMA PairSound ==
  ASSUME IInv, NEW c \in Call, CallSound(c, Now), ServePair(c) \/ RefusePair(c)
  PROVE  IInv'
<1>1. /\ c.kind = "pair" /\ c.token \in Request
      /\ UNCHANGED <<session, record, app, page, tabs, agreed, confirmed, told, odd>>
  BY DEF ServePair, RefusePair, Usual, history, pages, CallSound
<1>2. PICK says \in {"paired", "error"} : Reply(c, says, NoItem)
  BY DEF ServePair, RefusePair
<1>3. /\ req' \in [Request -> RequestRow] /\ overtaken' \in [Request -> Nat]
      /\ \A s \in Request :
           /\ req'[s].status = req[s].status
           /\ overtaken'[s] = overtaken[s] \/ overtaken'[s] = session[s]
           /\ \/ req'[s] = req[s]
              \/ req'[s].pairing = "EXPIRED"
              \/ req'[s].pairing = "DEVICE_PAIRED" /\ overtaken'[s] = session[s]
  BY <1>1, PairRows
<1>4. \A s \in Request : /\ session[s] \in Nat /\ overtaken[s] \in Nat /\ overtaken'[s] \in Nat
                         /\ overtaken[s] <= overtaken'[s] /\ overtaken'[s] <= session[s]
  BY <1>3 DEF IInv, TypeOK, RowSound
<1>5. Later(Now, Now')
  <2>1. Now' \in Books
    BY <1>1, <1>3 DEF IInv, TypeOK, Now, Books
  <2>2. /\ Now'.session = session /\ Now'.overtaken = overtaken'
        /\ Now'.record = record /\ Now'.agreed = agreed
    BY <1>1 DEF Now
  <2>3. QED
    BY <1>4, <2>1, <2>2, NowType, NowFields DEF IInv, Later
<1>6. CallSound(c, Now')
  BY <1>5, CallKept
<1>7. AnswerSound([says |-> says, to |-> c, item |-> NoItem], Now')
  BY <1>1, <1>2, <1>6, PlainAnswer
<1>8. WireSound' /\ call' \in Call /\ answer' \in Answer /\ late' \in SUBSET Call
  BY <1>1, <1>2, <1>5, <1>7, ReplySound, NothingSound DEF IInv
<1>9. TypeOK'
  BY <1>1, <1>3, <1>8 DEF IInv, TypeOK
<1>10. RowSound'
  <2>1. SUFFICES ASSUME NEW s \in Request
                 PROVE  /\ req'[s].pairing = "CONFIRMED" => req'[s].key = confirmed[s]
                        /\ req'[s].pairing = "DEVICE_PAIRED" => overtaken'[s] = session[s]
    BY <1>1, <1>4 DEF RowSound
  <2>2. QED
    BY <1>3 DEF IInv, RowSound
<1>11. RecordSound' /\ SignedIsAgreed' /\ SubmitterConfirmed'
  BY <1>1, <1>3 DEF IInv, RecordSound, SignedIsAgreed, SubmitterConfirmed, Signed
<1>12. ToldUnlessOvertaken'
  BY <1>1, <1>4 DEF IInv, TypeOK, ToldUnlessOvertaken
<1>13. QED
  BY <1>8, <1>9, <1>10, <1>11, <1>12 DEF IInv

\* Answers that leave the tables alone.
LEMMA AnswerOnly ==
  ASSUME IInv, NEW c \in Call, CallSound(c, Now),
         NEW says \in {"waiting", "error"}, Reply(c, says, NoItem),
         says = "error" \/ Waiting(c),
         UNCHANGED <<rowVars, app, pages, history>>, odd' \in Nat
  PROVE  IInv'
<1> DEFINE x == [says |-> says, to |-> c, item |-> NoItem]
<1>1. AnswerSound(x, Now)
  <2>1. CASE says = "error"
    BY <2>1, PlainAnswer
  <2>2. CASE says = "waiting" /\ Waiting(c)
    <3>1. x.says = "waiting" /\ x.to = c /\ x.item = NoItem
      BY <2>2
    <3>2. ItemSound(NoItem, Now)
      BY DEF ItemSound
    <3>3. ASSUME c.kind = "submit" PROVE Settled(c.item.request, c.item.attrs, Now)
      <4>1. /\ c.item.request \in Request /\ c.item.attrs <= session[c.item.request]
            /\ req[c.item.request].pairing = "DEVICE_PAIRED"
        BY <2>2, <3>3, NowFields DEF Waiting, ValidSession, CallSound
      <4>2. c.item.attrs <= overtaken[c.item.request]
        BY <4>1 DEF IInv, RowSound
      <4>3. QED
        BY <4>2, NowFields DEF Settled
    <3>4. AnswerSound(x, Now)
      BY <3>1, <3>2, <3>3 DEF AnswerSound
    <3>5. QED
      BY <3>4
  <2>3. QED
    BY <2>1, <2>2
<1>2. Later(Now, Now') /\ Now' = Now /\ UNCHANGED app
  BY NowType DEF IInv, Now, rowVars, history
<1>3. AnswerSound(x, Now')
  BY <1>1, <1>2
<1>4. WireSound' /\ call' \in Call /\ answer' \in Answer /\ late' \in SUBSET Call
  BY <1>2, <1>3, ReplySound, NothingSound DEF IInv
<1>5. app' \in App /\ page' \in SUBSET Request /\ tabs' \in SUBSET Request
  BY <1>2 DEF IInv, TypeOK, pages
<1>6. QED
  BY <1>4, <1>5, OnlyWire DEF history

\* Refusals, failures, and the answer that says to wait.
LEMMA RefuseSound ==
  ASSUME IInv, NEW c \in Call, CallSound(c, Now),
         ServeWaiting(c) \/ Refuse(c) \/ RefuseSubmit(c) \/ Fail(c)
  PROVE  IInv'
<1>1. UNCHANGED <<rowVars, app, pages, history>> /\ odd' \in Nat
  BY DEF ServeWaiting, Refuse, RefuseSubmit, Fail, Usual, Odd, IInv, TypeOK
<1>2. PICK says \in {"waiting", "error"} :
        Reply(c, says, NoItem) /\ (says = "error" \/ Waiting(c))
  BY DEF ServeWaiting, Refuse, RefuseSubmit, Fail
<1>3. QED
  BY <1>1, <1>2, AnswerOnly

\* Handing out the signed attributes of a confirmed request.
LEMMA ServePendingSound ==
  ASSUME IInv, NEW c \in Call, CallSound(c, Now), ServePending(c) PROVE IInv'
<1> DEFINE r == c.token
<1> DEFINE i == [request |-> r, attrs |-> session[r] + 1]
<1> DEFINE x == [says |-> "item", to |-> c, item |-> i]
<1>1. /\ c.kind = "pending" /\ Serves(c) /\ Reply(c, "item", i)
      /\ session' = [session EXCEPT ![r] = @ + 1]
      /\ UNCHANGED <<req, record, app, page, tabs, agreed, confirmed, told, overtaken, odd>>
  BY DEF ServePending, Usual, history, pages
<1>2. r \in Request /\ ~Signed(r) /\ req[r].pairing = "CONFIRMED"
  BY <1>1 DEF CallSound, Serves, ValidSession
<1>3. /\ session' \in [Request -> Nat] /\ i \in Item /\ session[r] \in Nat
      /\ \A s \in Request : session'[s] = IF s = r THEN session[r] + 1 ELSE session[s]
  BY <1>1, <1>2 DEF IInv, TypeOK, Item
<1>4. /\ Now'.session = session' /\ Now'.overtaken = overtaken
      /\ Now'.record = record /\ Now'.agreed = agreed
  BY <1>1 DEF Now
<1>5. Later(Now, Now')
  <2>1. Now' \in Books
    BY <1>1, <1>3 DEF IInv, TypeOK, Now, Books
  <2>2. \A s \in Request : session[s] <= session'[s] /\ overtaken[s] <= overtaken[s]
    BY <1>3 DEF IInv, TypeOK
  <2>3. QED
    BY <1>4, <2>1, <2>2, NowType, NowFields DEF IInv, Later
<1>6. AnswerSound(x, Now')
  <2>1. x.says = "item" /\ x.to = c /\ x.item = i /\ i.request = r /\ i.attrs = session[r] + 1
    OBVIOUS
  <2>2. ItemSound(i, Now')
    BY <1>2, <1>3, <1>4, <2>1 DEF ItemSound
  <2>3. CallSound(c, Now')
    BY <1>5, CallKept
  <2>4. QED
    BY <1>1, <2>1, <2>2, <2>3 DEF AnswerSound
<1>7. WireSound' /\ call' \in Call /\ answer' \in Answer /\ late' \in SUBSET Call
  BY <1>1, <1>3, <1>5, <1>6, ReplySound DEF IInv
<1>8. TypeOK'
  BY <1>1, <1>3, <1>7 DEF IInv, TypeOK
<1>9. RowSound'
  <2>1. SUFFICES ASSUME NEW s \in Request
                 PROVE  /\ req[s].pairing = "CONFIRMED" => req[s].key = confirmed[s]
                        /\ req[s].pairing = "DEVICE_PAIRED" => overtaken[s] = session'[s]
                        /\ overtaken[s] <= session'[s]
    BY <1>1 DEF RowSound
  <2>2. overtaken[s] \in Nat /\ session[s] \in Nat
    BY DEF IInv, TypeOK
  <2>3. QED
    BY <1>2, <1>3, <2>2 DEF IInv, RowSound
<1>10. SignedIsAgreed'
  BY <1>1, <1>2, <1>3 DEF IInv, TypeOK, SignedIsAgreed, RecordSound
<1>11. RecordSound' /\ SubmitterConfirmed' /\ ToldUnlessOvertaken'
  BY <1>1 DEF IInv, RecordSound, SubmitterConfirmed, ToldUnlessOvertaken, Signed
<1>12. QED
  BY <1>7, <1>8, <1>9, <1>10, <1>11 DEF IInv

\* Storing the signature, whether what follows fails or not.
LEMMA SealSound ==
  ASSUME IInv, NEW c \in Call, CallSound(c, Now),
         ServeSubmit(c) \/ SubmitThenFail(c)
  PROVE  IInv'
<1> DEFINE r == c.token
<1> DEFINE sig == [attrs |-> c.item.attrs, key |-> c.key]
<1>1. /\ Seal(c) /\ odd' \in Nat
      /\ UNCHANGED <<session, app, page, tabs, agreed, confirmed, told, overtaken>>
  BY DEF ServeSubmit, SubmitThenFail, Seal, Usual, Odd, history, pages, IInv, TypeOK
<1>2. /\ c.kind = "submit" /\ Serves(c) /\ c.item.attrs = session[r] /\ c.item.request = r
      /\ record' = [record EXCEPT ![r] = sig] /\ ~Signed(r)
  BY <1>1 DEF Seal, Serves, ValidSession
<1>3. /\ r \in Request /\ c.item.attrs \in agreed[r]
      /\ req[r].pairing = "CONFIRMED" /\ c.key = confirmed[r]
  BY <1>2, NowFields DEF CallSound, Serves, FromPairedDevice, IInv, RowSound
<1>4. c.item.attrs \in Nat /\ c.key \in Nat
  BY DEF Call, Item
<1>5. \E p \in {"CONSUMED", req[r].pairing} :
        req' = [req EXCEPT ![r].status = "SIGNED", ![r].pairing = p]
  <2>1. CASE ServeSubmit(c)
    BY <2>1 DEF ServeSubmit
  <2>2. CASE SubmitThenFail(c)
    <3>1. req' = [req EXCEPT ![r].status = "SIGNED", ![r].pairing = req[r].pairing]
      BY <1>3, <2>2 DEF SubmitThenFail, IInv, TypeOK, RequestRow
    <3>2. QED
      BY <3>1
  <2>3. QED
    BY <2>1, <2>2
<1>6. /\ req' \in [Request -> RequestRow]
      /\ req'[r].status = "SIGNED" /\ req'[r].key = req[r].key
      /\ req'[r].pairing \in {"CONSUMED", req[r].pairing}
      /\ \A s \in Request : s # r => req'[s] = req[s]
  BY <1>3, <1>5, SignedRow DEF IInv, TypeOK
<1>7. /\ record' \in [Request -> RecordRow] /\ record[r].attrs = 0
      /\ \A s \in Request : record'[s] = IF s = r THEN sig ELSE record[s]
  <2>1. sig \in RecordRow
    BY <1>4 DEF RecordRow
  <2>2. record[r].attrs = 0
    BY <1>2, <1>3 DEF IInv, RecordSound
  <2>3. QED
    BY <1>2, <1>3, <2>1, <2>2 DEF IInv, TypeOK
<1>8. /\ Now'.session = session /\ Now'.overtaken = overtaken
      /\ Now'.record = record' /\ Now'.agreed = agreed
  BY <1>1 DEF Now
<1>9. Later(Now, Now')
  <2>1. Now' \in Books
    BY <1>1, <1>7 DEF IInv, TypeOK, Now, Books
  <2>2. \A s \in Request : /\ record[s].attrs # 0 => record'[s] = record[s]
                           /\ session[s] <= session[s] /\ overtaken[s] <= overtaken[s]
    BY <1>7 DEF IInv, TypeOK
  <2>3. QED
    BY <1>8, <2>1, <2>2, NowType, NowFields DEF IInv, Later
<1>10. PICK says \in {"signed", "error"} : Reply(c, says, NoItem)
  BY DEF ServeSubmit, SubmitThenFail
<1>11. AnswerSound([says |-> says, to |-> c, item |-> NoItem], Now')
  <2> DEFINE x == [says |-> says, to |-> c, item |-> NoItem]
  <2>1. x.says = says /\ x.to = c /\ x.item = NoItem
    OBVIOUS
  <2>2. ItemSound(NoItem, Now') /\ CallSound(c, Now')
    BY <1>9, CallKept, NothingSound
  <2>3. Settled(c.item.request, c.item.attrs, Now')
    BY <1>2, <1>3, <1>7, <1>8 DEF Settled
  <2>4. AnswerSound(x, Now')
    BY <1>10, <2>1, <2>2, <2>3 DEF AnswerSound
  <2>5. QED
    BY <2>4
<1>12. WireSound' /\ call' \in Call /\ answer' \in Answer /\ late' \in SUBSET Call
  BY <1>1, <1>9, <1>10, <1>11, ReplySound, NothingSound DEF IInv
<1>13. TypeOK'
  BY <1>1, <1>6, <1>7, <1>12 DEF IInv, TypeOK
<1>14. RowSound'
  BY <1>1, <1>3, <1>6 DEF IInv, RowSound
<1>15. RecordSound' /\ SignedIsAgreed' /\ SubmitterConfirmed'
  BY <1>1, <1>2, <1>3, <1>6, <1>7
  DEF IInv, RecordSound, SignedIsAgreed, SubmitterConfirmed, Signed
<1>16. ToldUnlessOvertaken'
  <2>1. SUFFICES ASSUME NEW s \in Request, NEW n \in told[s]
                 PROVE  record'[s].attrs = n \/ n <= overtaken[s]
    BY <1>1 DEF ToldUnlessOvertaken
  <2>2. n \in Nat /\ overtaken[s] \in Nat /\ (record[s].attrs = n \/ n <= overtaken[s])
    BY DEF IInv, TypeOK, ToldUnlessOvertaken
  <2>3. QED
    BY <1>7, <2>2
<1>17. QED
  BY <1>12, <1>13, <1>14, <1>15, <1>16 DEF IInv

\* Any handler of the API.
LEMMA ServeSound ==
  ASSUME IInv, NEW c \in Call, CallSound(c, Now), Serve(c) PROVE IInv'
BY PairSound, RefuseSound, ServePendingSound, SealSound DEF Serve

\* A call is lost.
LEMMA LoseSound == ASSUME IInv, NEW c \in late, Lose(c) PROVE IInv'
<1>1. /\ late' = late \ {c}
      /\ UNCHANGED <<rowVars, app, call, answer, page, tabs, history, odd>>
  BY DEF Lose, Usual, pages
<1>2. Now' = Now
  BY <1>1 DEF Now, rowVars, history
<1>3. WireSound' /\ late' \in SUBSET Call
  BY <1>1, <1>2 DEF IInv, TypeOK, WireSound
<1>4. /\ app' \in App /\ call' \in Call /\ answer' \in Answer /\ odd' \in Nat
      /\ page' \in SUBSET Request /\ tabs' \in SUBSET Request
  BY <1>1 DEF IInv, TypeOK
<1>5. QED
  BY <1>1, <1>3, <1>4, OnlyWire DEF history

-----------------------------------------------------------------------------
(***************************************************************************)
(* The page and the clock.                                                 *)
(***************************************************************************)

\* The page is loaded.
LEMMA LoadPageSound == ASSUME IInv, NEW r \in Request, LoadPage(r) PROVE IInv'
<1>1. /\ page' \in SUBSET Request /\ tabs' \in SUBSET Request
      /\ UNCHANGED <<rowVars, app, call, answer, late, history, odd>>
  BY DEF LoadPage, Usual, appVars, IInv, TypeOK
<1>2. Now' = Now
  BY <1>1 DEF Now, rowVars, history
<1>3. WireSound'
  BY <1>1, <1>2 DEF IInv, WireSound
<1>4. app' \in App /\ call' \in Call /\ answer' \in Answer /\ late' \in SUBSET Call /\ odd' \in Nat
  BY <1>1 DEF IInv, TypeOK
<1>5. QED
  BY <1>1, <1>3, <1>4, OnlyWire DEF history

\* The confirmation: of any page, old or new, the first one or a further one.
LEMMA ConfirmSound ==
  ASSUME IInv, NEW r \in Request, Confirm(r) \/ ConfirmElsewhere(r) PROVE IInv'
<1>1. /\ ConfirmPairing(r)
      /\ page' \in SUBSET Request /\ tabs' \in SUBSET Request /\ odd' \in Nat
      /\ UNCHANGED <<session, record, appVars, agreed, told, overtaken>>
  BY DEF Confirm, ConfirmElsewhere, ConfirmPairing, Usual, Odd, pages, IInv, TypeOK
<1>2. Now' = Now
  BY <1>1 DEF Now
<1>3. WireSound'
  BY <1>1, <1>2 DEF IInv, WireSound, appVars
<1>4. /\ app' \in App /\ call' \in Call /\ answer' \in Answer /\ late' \in SUBSET Call
  BY <1>1 DEF IInv, TypeOK, appVars
<1>5. CASE UNCHANGED <<req, confirmed>>
  BY <1>1, <1>3, <1>4, <1>5, OnlyWire DEF rowVars
<1>6. CASE /\ req[r].status = "PENDING"
           /\ req' = [req EXCEPT ![r].pairing = "CONFIRMED", ![r].stamped = TRUE]
           /\ confirmed' = [confirmed EXCEPT ![r] = req[r].key]
  <2>1. /\ req' \in [Request -> RequestRow]
        /\ req'[r].pairing = "CONFIRMED" /\ req'[r].key = req[r].key
        /\ \A s \in Request : req'[s].status = req[s].status
        /\ \A s \in Request : s # r => req'[s] = req[s]
    BY <1>6, ConfirmedRow DEF IInv, TypeOK
  <2>2. /\ confirmed' \in [Request -> Nat] /\ confirmed'[r] = req[r].key
        /\ \A s \in Request : s # r => confirmed'[s] = confirmed[s]
    BY <1>6 DEF IInv, TypeOK, RequestRow
  <2>3. TypeOK'
    BY <1>1, <1>4, <2>1, <2>2 DEF IInv, TypeOK
  <2>4. RowSound'
    BY <1>1, <2>1, <2>2 DEF IInv, RowSound
  <2>5. record[r].attrs = 0
    BY <1>6 DEF IInv, TypeOK, RecordRow, RecordSound, Signed
  <2>6. RecordSound' /\ SignedIsAgreed' /\ SubmitterConfirmed'
    BY <1>1, <2>1, <2>2, <2>5 DEF IInv, RecordSound, SignedIsAgreed, SubmitterConfirmed, Signed
  <2>7. ToldUnlessOvertaken'
    BY <1>1 DEF IInv, ToldUnlessOvertaken
  <2>8. QED
    BY <1>3, <2>3, <2>4, <2>6, <2>7 DEF IInv
<1>7. QED
  BY <1>1, <1>5, <1>6 DEF ConfirmPairing

\* The clock.
LEMMA PassSound == ASSUME IInv, NEW r \in Request, Pass(r) PROVE IInv'
<1>1. /\ req' \in {[req EXCEPT ![r].expired = TRUE], [req EXCEPT ![r].lapsed = TRUE]}
      /\ UNCHANGED <<session, record, appVars, page, tabs, history>>
  BY DEF Pass, pages
<1>2. /\ req' \in [Request -> RequestRow]
      /\ \A s \in Request : /\ req'[s].status = req[s].status
                            /\ req'[s].pairing = req[s].pairing
                            /\ req'[s].key = req[s].key
  BY <1>1, PassedRow DEF IInv, TypeOK
<1>3. Now' = Now
  BY <1>1 DEF Now, history
<1>4. WireSound'
  BY <1>1, <1>3 DEF IInv, WireSound, appVars
<1>5. TypeOK'
  BY <1>1, <1>2 DEF Pass, Odd, IInv, TypeOK, appVars, history
<1>6. RowSound'
  BY <1>1, <1>2 DEF IInv, RowSound, history
<1>7. RecordSound' /\ SignedIsAgreed' /\ SubmitterConfirmed' /\ ToldUnlessOvertaken'
  BY <1>1, <1>2 DEF IInv, RecordSound, SignedIsAgreed, SubmitterConfirmed,
                    ToldUnlessOvertaken, Signed, history
<1>8. QED
  BY <1>4, <1>5, <1>6, <1>7 DEF IInv

-----------------------------------------------------------------------------
\* Requests that were just given their codes are sound.
LEMMA Initially == ASSUME Init PROVE IInv
<1>1. TypeOK
  <2>1. app \in App
    BY NothingSound DEF Init, App
  <2>2. req \in [Request -> RequestRow] /\ record \in [Request -> RecordRow]
    BY DEF Init, RequestRow, Pairing, RecordRow
  <2>3. QED
    BY <2>1, <2>2, NothingSound DEF Init, TypeOK
<1>2. WireSound
  BY NothingSound DEF Init, WireSound
<1>3. RowSound /\ RecordSound /\ SignedIsAgreed /\ SubmitterConfirmed /\ ToldUnlessOvertaken
  BY DEF Init, RowSound, RecordSound, SignedIsAgreed, SubmitterConfirmed, ToldUnlessOvertaken
<1>4. QED
  BY <1>1, <1>2, <1>3 DEF IInv

\* Every step keeps the invariant.
LEMMA Step == ASSUME IInv, Next PROVE IInv'
<1>1. CASE User
  BY <1>1, PairDeviceSound, LoadPageSound, ConfirmSound, RefreshSound, SignSelectedSound,
     ReadSound DEF User
<1>2. CASE Serve(call)
  BY <1>2, ServeSound DEF IInv, TypeOK, WireSound
<1>3. ASSUME NEW c \in late, Serve(c) PROVE IInv'
  BY <1>3, ServeSound DEF IInv, TypeOK, WireSound
<1>4. ASSUME NEW c \in late, Lose(c) PROVE IInv'
  BY <1>4, LoseSound
<1>5. CASE GiveUp \/ Restart
  BY <1>5, LeaveSound
<1>6. ASSUME NEW r \in Request, Pass(r) PROVE IInv'
  BY <1>6, PassSound
<1>7. QED
  BY <1>1, <1>2, <1>3, <1>4, <1>5, <1>6 DEF Next

\* So does a step of somebody else.
LEMMA Stutter == ASSUME IInv, UNCHANGED vars PROVE IInv'
BY DEF vars, IInv, TypeOK, WireSound, Now, RowSound, RecordSound, SignedIsAgreed,
       SubmitterConfirmed, ToldUnlessOvertaken, Signed

\* The invariant holds in every reachable state.
LEMMA Invariance == Spec => []IInv
<1>1. Init => IInv
  BY Initially
<1>2. IInv /\ [Next]_vars => IInv'
  BY Step, Stutter
<1>3. QED
  BY <1>1, <1>2, PTL DEF Spec

\* Every variable has its type in every reachable state.
THEOREM LocalTypeCorrect == Spec => []TypeOK
BY Invariance, PTL DEF IInv

\* However calls are repeated, delayed or carried out after the app gave up on
\* them, a record is over attributes the user agreed to sign for its request and
\* the portal prepared last (client_signer_gui.py, client_api_views.py).
THEOREM AgreedSigned == Spec => []SignedIsAgreed
BY Invariance, PTL DEF IInv

\* A record is made by the device whose pairing the signer confirmed, whatever
\* was paired before or after.
THEOREM ConfirmedSubmits == Spec => []SubmitterConfirmed
BY Invariance, PTL DEF IInv

\* "Signed successfully!" is said of the very attributes in the record, unless a
\* device was paired after they were handed out: of no lost reply, late call,
\* restart or further confirmation can it be wrong.
THEOREM ToldTruly == Spec => []ToldUnlessOvertaken
BY Invariance, PTL DEF IInv
=============================================================================
