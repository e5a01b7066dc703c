------------------------ MODULE ClientSigningProofs ------------------------
(***************************************************************************)
(* Proofs about ClientSigning for any number of workers, requests,         *)
(* documents and prepared PDFs.                                            *)
(***************************************************************************)
EXTENDS ClientSigning, TLAPS

\* One handler issues the pairing session of a request: the one that created it.
SoleIssuer ==
  \A v, w \in Worker :
    pc[v] = "issue" /\ pc[w] = "issue" /\ loc[v].request = loc[w].request => v = w

\* Until then the request has no token, no code and no confirmation.
Unissued ==
  \A r \in Request : req[r].pairing = "NOT_STARTED" =>
    ~req[r].token /\ ~req[r].code /\ ~req[r].confirmed

\* A session holds the attributes of a prepared PDF.
SessionPrepared == \A r \in Request : session[r].status = "PREPARED" => session[r].attrs # 0

\* The inductive invariant.
IInv == /\ Typed /\ RowsComplete
        /\ HandlersAgree /\ SoleIssuer /\ Unissued /\ SessionPrepared
        /\ SignedIsWithdrawn /\ ConfirmedFirst
        /\ RecordVerified /\ RecordHasPdf /\ UnfinishedIsOwned /\ CompletedIsSigned

-----------------------------------------------------------------------------
(***************************************************************************)
(* Types.                                                                  *)
(***************************************************************************)

\* The numbers of prepared PDFs are natural, and 0 is one of them.
LEMMA RunFacts == Run \subseteq Nat /\ 0 \in Run
BY Constants DEF Run

\* Every variable starts with a value of its type.
LEMMA TypeInit == Init => Typed
<1> SUFFICES ASSUME Init PROVE Typed
  OBVIOUS
<1>1. req \in [Request -> RequestRow]
  BY DEF Init, RequestRow, NoRow, Pairing
<1>2. session \in [Request -> SessionRow] /\ record \in [Request -> RecordRow]
  BY RunFacts DEF Init, SessionRow, NoSession, RecordRow, NoRecord
<1>3. doc \in [Document -> DocumentRow]
  BY DEF Init, DocumentRow, Pdf
<1>4. approvals \in [Document -> [asked: Nat, signed: Nat]] /\ payload \in [Request -> SUBSET Run]
  BY DEF Init
<1>5. pc \in [Worker -> PC] /\ loc \in [Worker -> Local]
  BY RunFacts DEF Init, PC, Local, NoLocal
<1>6. QED
  BY <1>1, <1>2, <1>3, <1>4, <1>5, RunFacts DEF Typed, Init

\* The positions of a handler.
LEMMA PCTypes ==
  /\ "idle" \in PC /\ "pair" \in PC /\ "confirm" \in PC
  /\ "create" \in PC /\ "issue" \in PC /\ "mark" \in PC
  /\ "prepare" \in PC /\ "unsigned" \in PC /\ "reloaded" \in PC /\ "laidOut" \in PC
  /\ "storing" \in PC
  /\ "submit" \in PC /\ "pending" \in PC /\ "fresh" \in PC /\ "session" \in PC
  /\ "verified" \in PC /\ "filled" \in PC /\ "docSaved" \in PC /\ "recorded" \in PC
  /\ "sealed" \in PC /\ "completed" \in PC /\ "approvalCreate" \in PC /\ "consume" \in PC
BY DEF PC, Creating, Preparing, Finishing, Checking, BeforeSeal, AfterSeal

\* The local state of an idle handler.
LEMMA NoLocalType == NoLocal \in Local
BY RunFacts DEF Local, NoLocal

\* The local state with which a handler begins.
LEMMA BeginLocals ==
  ASSUME NEW r \in Request, NEW d \in Document
  PROVE  /\ [NoLocal EXCEPT !.request = r, !.doc = d] \in Local
         /\ \A b \in BOOLEAN : [NoLocal EXCEPT !.request = r, !.doc = d, !.expire = b] \in Local
         /\ \A via \in {"app", "rest"} :
              [NoLocal EXCEPT !.request = r, !.doc = d, !.via = via] \in Local
         /\ \A via \in {"app", "rest"}, n \in Run :
              [NoLocal EXCEPT !.request = r, !.doc = d, !.via = via, !.signed = n] \in Local
BY NoLocalType DEF Local

\* The document alone, for the view that creates a request.
LEMMA CreateLocal ==
  ASSUME NEW d \in Document
  PROVE  [NoLocal EXCEPT !.doc = d] \in Local
BY NoLocalType DEF Local

\* What a handler adds to its local state keeps it well typed.
LEMMA LocalTypes ==
  ASSUME NEW l \in Local
  PROVE  /\ \A r \in Request : [l EXCEPT !.request = r] \in Local
         /\ \A n \in Run : /\ [l EXCEPT !.run = n] \in Local
                            /\ [l EXCEPT !.attrs = n] \in Local
                            /\ [l EXCEPT !.pdf = n] \in Local
                            /\ [l EXCEPT !.digest = n] \in Local
BY DEF Local

\* The fields of a local state.
LEMMA LocalFields ==
  ASSUME Typed, NEW w \in Worker
  PROVE  /\ loc[w] \in Local
         /\ loc[w].run \in Run /\ loc[w].signed \in Run
         /\ loc[w].attrs \in Run /\ loc[w].pdf \in Run /\ loc[w].digest \in Run
BY DEF Typed, Local

\* The assignments to a request's row keep it well typed.
LEMMA RequestTypes ==
  ASSUME NEW x \in RequestRow
  PROVE  /\ \A d \in Document : [NoRow EXCEPT !.status = "PENDING", !.doc = d] \in RequestRow
         /\ [x EXCEPT !.token = TRUE, !.code = TRUE, !.lapsed = FALSE,
                      !.pairing = "WAITING_DEVICE", !.confirmed = FALSE] \in RequestRow
         /\ \A s \in Pairing : [x EXCEPT !.pairing = s] \in RequestRow
         /\ [x EXCEPT !.pairing = "CONFIRMED", !.confirmed = TRUE] \in RequestRow
         /\ [x EXCEPT !.status = "SIGNED", !.used = TRUE,
                      !.token = FALSE, !.lapsed = FALSE] \in RequestRow
         /\ [x EXCEPT !.token = FALSE, !.code = FALSE, !.lapsed = FALSE,
                      !.pairing = "CONSUMED", !.used = TRUE] \in RequestRow
         /\ [x EXCEPT !.expired = TRUE] \in RequestRow
         /\ [x EXCEPT !.lapsed = TRUE] \in RequestRow
BY DEF RequestRow, NoRow, Pairing

\* So do the assignments to the rows of sessions.
LEMMA SessionTypes ==
  ASSUME NEW x \in SessionRow, NEW n \in Run, NEW p \in Run
  PROVE  /\ [x EXCEPT !.status = "PREPARED", !.attrs = n] \in SessionRow
         /\ [status |-> "PREPARED", attrs |-> n, pdf |-> p] \in SessionRow
         /\ [x EXCEPT !.status = "COMPLETED"] \in SessionRow
BY DEF SessionRow

\* And to the rows of documents.
LEMMA DocumentTypes ==
  ASSUME NEW x \in DocumentRow, NEW r \in Request, NEW b \in Run, NEW a \in Run
  PROVE  /\ [x EXCEPT !.status = "PENDING_SIGN"] \in DocumentRow
         /\ [status |-> "PENDING_SIGN",
             current |-> <<[request |-> r, bytes |-> b, attrs |-> a]>>] \in DocumentRow
<1>1. [request |-> r, bytes |-> b, attrs |-> a] \in Mark
  BY RunFacts DEF Mark
<1>2. QED
  BY <1>1 DEF DocumentRow, Pdf

\* What HandlersAgree says of a handler that works on a request.
LEMMA Handler ==
  ASSUME Typed, RowsComplete, HandlersAgree, NEW w \in Worker, pc[w] \notin {"idle", "create"}
  PROVE  /\ loc[w].request \in Request
         /\ req[loc[w].request].status # "NONE"
         /\ loc[w].doc = req[loc[w].request].doc
         /\ loc[w].doc \in Document
         /\ req[loc[w].request] \in RequestRow
         /\ session[loc[w].request] \in SessionRow
BY DEF HandlersAgree, RowsComplete, Typed

\* Types survive the first step of a handler.
LEMMA BeginTypes ==
  ASSUME Typed, RowsComplete, NEW w \in Worker, Begin(w)
  PROVE  Typed'
<1> USE PCTypes DEF Goto, dbVars, envVars
<1>1. ASSUME NEW d \in Document, BeginCreate(w, d) PROVE Typed'
  BY <1>1, CreateLocal DEF BeginCreate, Typed
<1>2. ASSUME NEW r \in Request, req[r].status # "NONE" PROVE req[r].doc \in Document
  BY <1>2 DEF RowsComplete
<1>3. ASSUME NEW r \in Request, BeginPairing(w, r) \/ BeginConfirmation(w, r) PROVE Typed'
  <2>1. req[r].doc \in Document /\ req[r].lapsed \in BOOLEAN
    BY <1>2, <1>3 DEF BeginPairing, BeginConfirmation, Typed, RequestRow
  <2>2. CASE BeginPairing(w, r)
    BY <2>1, <2>2, BeginLocals DEF BeginPairing, Typed
  <2>3. CASE BeginConfirmation(w, r)
    <3>1. [NoLocal EXCEPT !.request = r, !.doc = req[r].doc] \in Local
      BY <2>1, BeginLocals
    <3>2. QED
      BY <2>3, <3>1 DEF BeginConfirmation, Typed
  <2>4. QED
    BY <1>3, <2>2, <2>3
<1>4. ASSUME NEW r \in Request, NEW via \in {"app", "rest"}, MayBegin(r, via)
      PROVE  req[r].doc \in Document
  BY <1>2, <1>4 DEF MayBegin, Serves
<1>5. ASSUME NEW r \in Request, NEW via \in {"app", "rest"}, BeginPrepare(w, r, via) PROVE Typed'
  BY <1>4, <1>5, BeginLocals DEF BeginPrepare, Typed
<1>6. ASSUME NEW r \in Request, NEW via \in {"app", "rest"}, NEW n \in Run,
             BeginSubmit(w, r, via, n)
      PROVE  Typed'
  BY <1>4, <1>6, BeginLocals DEF BeginSubmit, Typed
<1>7. QED
  BY <1>1, <1>3, <1>5, <1>6 DEF Begin

\* Types survive the steps of a handler that write the row of a request.
LEMMA RequestWriterTypes ==
  ASSUME Typed, RowsComplete, HandlersAgree, NEW w \in Worker,
         \/ \E r \in Request : CreateRequest(w, r)
         \/ IssueSession(w) \/ SavePairing(w) \/ SaveConfirmation(w)
         \/ SealRequest(w) \/ Consume(w)
  PROVE  Typed'
<1> USE PCTypes, NoLocalType DEF Goto, Return, InJob, envVars
<1>1. ASSUME NEW r \in Request, CreateRequest(w, r) PROVE Typed'
  <2>1. loc[w].doc \in Document /\ loc[w] \in Local
    BY <1>1 DEF CreateRequest, HandlersAgree, Typed
  <2>2. [NoRow EXCEPT !.status = "PENDING", !.doc = loc[w].doc] \in RequestRow
    BY <2>1, RequestTypes DEF Typed
  <2>3. [loc[w] EXCEPT !.request = r] \in Local
    BY <2>1, LocalTypes
  <2>4. QED
    BY <1>1, <2>2, <2>3 DEF CreateRequest, Typed
<1> DEFINE q == loc[w].request
<1>2. CASE IssueSession(w)
  <2>1. q \in Request /\ req[q] \in RequestRow
    BY <1>2, Handler DEF IssueSession
  <2>2. [req[q] EXCEPT !.token = TRUE, !.code = TRUE, !.lapsed = FALSE,
                       !.pairing = "WAITING_DEVICE", !.confirmed = FALSE] \in RequestRow
    BY <2>1, RequestTypes
  <2>3. QED
    BY <1>2, <2>2 DEF IssueSession, Typed
<1>3. CASE SavePairing(w)
  <2>1. q \in Request /\ req[q] \in RequestRow
    BY <1>3, Handler DEF SavePairing
  <2>2. \A s \in {"EXPIRED", "DEVICE_PAIRED"} : [req[q] EXCEPT !.pairing = s] \in RequestRow
    BY <2>1, RequestTypes DEF Pairing
  <2>3. QED
    BY <1>3, <2>2 DEF SavePairing, Typed
<1>4. CASE SaveConfirmation(w)
  <2>1. q \in Request /\ req[q] \in RequestRow
    BY <1>4, Handler DEF SaveConfirmation
  <2>2. [req[q] EXCEPT !.pairing = "CONFIRMED", !.confirmed = TRUE] \in RequestRow
    BY <2>1, RequestTypes
  <2>3. QED
    BY <1>4, <2>2 DEF SaveConfirmation, Typed
<1>5. CASE SealRequest(w)
  <2>1. q \in Request /\ req[q] \in RequestRow
    BY <1>5, Handler DEF SealRequest
  <2>2. [req[q] EXCEPT !.status = "SIGNED", !.used = TRUE,
                       !.token = FALSE, !.lapsed = FALSE] \in RequestRow
    BY <2>1, RequestTypes
  <2>3. QED
    BY <1>5, <2>2 DEF SealRequest, Typed
<1>6. CASE Consume(w)
  <2>1. q \in Request /\ req[q] \in RequestRow
    BY <1>6, Handler DEF Consume
  <2>2. [req[q] EXCEPT !.token = FALSE, !.code = FALSE, !.lapsed = FALSE,
                       !.pairing = "CONSUMED", !.used = TRUE] \in RequestRow
    BY <2>1, RequestTypes
  <2>3. QED
    BY <1>6, <2>2 DEF Consume, Typed
<1>7. QED
  BY <1>1, <1>2, <1>3, <1>4, <1>5, <1>6

\* Types survive the steps of a handler that write the session or the document.
LEMMA SessionWriterTypes ==
  ASSUME Typed, RowsComplete, HandlersAgree, NEW w \in Worker,
         \/ StoreSession(w) \/ StorePdf(w) \/ CompleteSession(w)
         \/ MarkPendingSign(w) \/ SaveDocument(w)
  PROVE  Typed'
<1> USE PCTypes, NoLocalType DEF Goto, Return, StartJob, EndJob, envVars
<1> DEFINE q == loc[w].request
<1>1. q \in Request /\ session[q] \in SessionRow /\ doc[loc[w].doc] \in DocumentRow
  BY Handler DEF StoreSession, StorePdf, CompleteSession, MarkPendingSign, SaveDocument, Typed
<1>2. /\ loc[w] \in Local
      /\ loc[w].run \in Run /\ loc[w].signed \in Run /\ loc[w].attrs \in Run /\ loc[w].pdf \in Run
  BY LocalFields
<1>3. CASE StoreSession(w)
  <2>1. [session[q] EXCEPT !.status = "PREPARED", !.attrs = loc[w].run] \in SessionRow
    BY <1>1, <1>2, SessionTypes
  <2>2. [loc[w] EXCEPT !.attrs = loc[w].run] \in Local
    BY <1>2, LocalTypes
  <2>3. QED
    BY <1>3, <2>1, <2>2 DEF StoreSession, Typed
<1>4. CASE StorePdf(w)
  <2>1. [status |-> "PREPARED", attrs |-> loc[w].attrs, pdf |-> loc[w].run] \in SessionRow
    BY <1>1, <1>2, SessionTypes
  <2>2. payload' \in [Request -> SUBSET Run]
    BY <1>2, <1>4 DEF StorePdf, Typed
  <2>3. QED
    BY <1>4, <2>1, <2>2 DEF StorePdf, Typed
<1>5. CASE CompleteSession(w)
  <2>1. [session[q] EXCEPT !.status = "COMPLETED"] \in SessionRow
    BY <1>1, <1>2, SessionTypes
  <2>2. QED
    BY <1>5, <2>1 DEF CompleteSession, Typed
<1>6. CASE MarkPendingSign(w)
  <2>1. [doc[loc[w].doc] EXCEPT !.status = "PENDING_SIGN"] \in DocumentRow
    BY <1>1, <1>2, DocumentTypes
  <2>2. QED
    BY <1>6, <2>1 DEF MarkPendingSign, Typed
<1>7. CASE SaveDocument(w)
  <2>1. [status |-> "PENDING_SIGN",
         current |-> <<[request |-> q, bytes |-> loc[w].pdf, attrs |-> loc[w].signed]>>]
          \in DocumentRow
    BY <1>1, <1>2, DocumentTypes
  <2>2. session[q].attrs \in Run
    BY <1>1 DEF SessionRow
  <2>3. [loc[w] EXCEPT !.digest = session[q].attrs] \in Local
    BY <1>2, <2>2, LocalTypes
  <2>4. QED
    BY <1>7, <2>1, <2>3 DEF SaveDocument, Typed
<1>8. QED
  BY <1>3, <1>4, <1>5, <1>6, <1>7

\* Types survive the other steps of a handler.
LEMMA ReaderTypes ==
  ASSUME Typed, RowsComplete, HandlersAgree, NEW w \in Worker,
         \/ CheckUnsigned(w) \/ ReloadToPrepare(w) \/ LayOutPdf(w)
         \/ ReloadToFinish(w) \/ CheckNoRecord(w) \/ ReadSession(w) \/ VerifySignature(w)
         \/ ReadPrepared(w) \/ CreateRecord(w) \/ LookupApproval(w) \/ CreateApproval(w)
  PROVE  Typed'
<1> USE PCTypes, NoLocalType DEF Goto, Return, Job, InJob, EndJob, dbVars, envVars
<1> DEFINE q == loc[w].request
<1>1. q \in Request /\ session[q] \in SessionRow /\ loc[w].doc \in Document
  BY Handler DEF CheckUnsigned, ReloadToPrepare, LayOutPdf, ReloadToFinish, CheckNoRecord,
     ReadSession, VerifySignature, ReadPrepared, CreateRecord, LookupApproval, CreateApproval
<1>2. loc[w] \in Local /\ loc[w].signed \in Run /\ loc[w].digest \in Run
  BY LocalFields
<1>3. CASE CheckUnsigned(w) \/ ReloadToPrepare(w)
  BY <1>3 DEF CheckUnsigned, ReloadToPrepare, Typed
<1>4. CASE LayOutPdf(w)
  <2>1. CASE UNCHANGED prepared
    BY <1>4, <2>1 DEF LayOutPdf, Typed, Run
  <2>2. CASE prepared' = prepared + 1 /\ prepared < MaxPrepares
    <3>1. prepared + 1 \in Run
      BY <2>2, Constants DEF Typed, Run
    <3>2. [loc[w] EXCEPT !.run = prepared + 1] \in Local
      BY <1>2, <3>1, LocalTypes
    <3>3. QED
      BY <1>4, <2>2, <3>1, <3>2 DEF LayOutPdf, Typed
  <2>3. QED
    BY <1>4, <2>1, <2>2 DEF LayOutPdf
<1>5. CASE ReloadToFinish(w) \/ CheckNoRecord(w) \/ VerifySignature(w)
  BY <1>5 DEF ReloadToFinish, CheckNoRecord, VerifySignature, Typed
<1>6. CASE ReadSession(w)
  <2>1. [loc[w] EXCEPT !.attrs = session[q].attrs] \in Local
    BY <1>1, <1>2, LocalTypes DEF SessionRow
  <2>2. QED
    BY <1>6, <2>1 DEF ReadSession, Typed
<1>7. CASE ReadPrepared(w)
  <2>1. [loc[w] EXCEPT !.pdf = session[q].pdf] \in Local
    BY <1>1, <1>2, LocalTypes DEF SessionRow
  <2>2. QED
    BY <1>7, <2>1 DEF ReadPrepared, Typed
<1>8. CASE CreateRecord(w)
  <2>1. [exists |-> TRUE, attrs |-> loc[w].signed, digest |-> loc[w].digest] \in RecordRow
    BY <1>2 DEF RecordRow
  <2>2. QED
    BY <1>8, <2>1 DEF CreateRecord, Typed
<1>9. CASE LookupApproval(w)
  BY <1>9 DEF LookupApproval, Typed
<1>10. CASE CreateApproval(w)
  <2>1. [approvals[loc[w].doc] EXCEPT !.asked = @ + 1] \in [asked: Nat, signed: Nat]
    BY <1>1 DEF Typed
  <2>2. QED
    BY <1>10, <2>1 DEF CreateApproval, Typed
<1>11. QED
  BY <1>3, <1>4, <1>5, <1>6, <1>7, <1>8, <1>9, <1>10

\* Types survive what the environment does.
LEMMA EnvironmentTypes ==
  ASSUME Typed, RowsComplete, HandlersAgree, Environment
  PROVE  Typed'
<1> USE DEF dbVars, Event
<1>1. ASSUME NEW r \in Request, Expire(r) PROVE Typed'
  <2>1. [req[r] EXCEPT !.expired = TRUE] \in RequestRow /\ [req[r] EXCEPT !.lapsed = TRUE] \in RequestRow
    BY RequestTypes DEF Typed
  <2>2. req' = [req EXCEPT ![r].expired = TRUE] \/ req' = [req EXCEPT ![r].lapsed = TRUE]
    BY <1>1 DEF Expire
  <2>3. req' \in [Request -> RequestRow]
    BY <2>1, <2>2 DEF Typed
  <2>4. QED
    BY <1>1, <2>3 DEF Expire, Typed
<1>2. ASSUME NEW d \in Document, ChangeCertificate(d) PROVE Typed'
  BY <1>2 DEF ChangeCertificate, Typed
<1>3. ASSUME NEW d \in Document, AskOfficer(d) PROVE Typed'
  <2>1. [approvals[d] EXCEPT !.asked = @ + 1] \in [asked: Nat, signed: Nat]
    BY DEF Typed
  <2>2. QED
    BY <1>3, <2>1 DEF AskOfficer, Typed
<1>4. ASSUME NEW d \in Document, OfficerSigns(d) PROVE Typed'
  <2>1. [approvals[d] EXCEPT !.signed = @ + 1] \in [asked: Nat, signed: Nat]
    BY DEF Typed
  <2>2. [status |-> "SIGNED",
         current |-> Append(doc[d].current, [request |-> Officer, bytes |-> 0, attrs |-> 0])]
          \in DocumentRow
    <3>1. [request |-> Officer, bytes |-> 0, attrs |-> 0] \in Mark
      BY RunFacts DEF Mark
    <3>2. QED
      BY <3>1 DEF Typed, DocumentRow, Pdf
  <2>3. QED
    BY <1>4, <2>1, <2>2 DEF OfficerSigns, Typed
<1>5. CASE ChangeOfficer
  BY <1>5 DEF ChangeOfficer, Typed
<1>6. ASSUME NEW w \in Worker, Crash(w) PROVE Typed'
  <2>1. lost' \in SUBSET Request
    BY <1>6, Handler DEF Crash, Typed, BeforeSeal
  <2>2. QED
    BY <1>6, <2>1, PCTypes, NoLocalType DEF Crash, Return, Typed
<1>7. QED
  BY <1>1, <1>2, <1>3, <1>4, <1>5, <1>6 DEF Environment

\* Types survive every step.
LEMMA TypeStep == IInv /\ [Next]_vars => Typed'
<1> SUFFICES ASSUME IInv, [Next]_vars PROVE Typed'
  OBVIOUS
<1> USE DEF IInv
<1>1. ASSUME NEW w \in Worker, Handle(w) PROVE Typed'
  BY <1>1, RequestWriterTypes, SessionWriterTypes, ReaderTypes DEF Handle
<1>2. CASE UNCHANGED vars
  BY <1>2 DEF Typed, vars
<1>3. QED
  BY <1>1, <1>2, BeginTypes, EnvironmentTypes DEF Next

-----------------------------------------------------------------------------
(***************************************************************************)
(* What a step does to the row of a request: x before it, y after it.      *)
(***************************************************************************)

SameRequest(x, y) == x.status # "NONE" /\ y.status = x.status /\ y.doc = x.doc /\ y.used = x.used

CreatedRow(x, y) ==
  /\ x.status = "NONE" /\ y.status = "PENDING" /\ y.doc \in Document /\ ~y.used
  /\ y.pairing = "NOT_STARTED" /\ ~y.token /\ ~y.code /\ ~y.confirmed

IssuedRow(x, y) ==
  /\ SameRequest(x, y)
  /\ x.pairing = "NOT_STARTED" /\ y.pairing = "WAITING_DEVICE" /\ ~y.confirmed

PairedRow(x, y) ==
  /\ SameRequest(x, y) /\ y.token = x.token /\ y.code = x.code
  /\ x.pairing # "NOT_STARTED"
  /\ \/ y.pairing \in {"EXPIRED", "DEVICE_PAIRED"} /\ y.confirmed = x.confirmed
     \/ y.pairing = "CONFIRMED" /\ y.confirmed

SealedRow(x, y) ==
  /\ x.status # "NONE" /\ y.status = "SIGNED" /\ y.used /\ y.doc = x.doc
  /\ y.pairing = x.pairing /\ ~y.token /\ y.code = x.code /\ y.confirmed = x.confirmed

ConsumedRow(x, y) ==
  /\ x.status = "SIGNED" /\ y.status = "SIGNED" /\ y.used /\ y.doc = x.doc
  /\ y.pairing = "CONSUMED" /\ ~y.token /\ ~y.code /\ x.confirmed /\ y.confirmed = x.confirmed

AgedRow(x, y) ==
  /\ SameRequest(x, y)
  /\ y.pairing = x.pairing /\ y.token = x.token /\ y.code = x.code /\ y.confirmed = x.confirmed

\* The assignments of the actions have these effects.
LEMMA RowEffects ==
  ASSUME NEW x \in RequestRow
  PROVE  /\ \A d \in Document :
              x.status = "NONE" => CreatedRow(x, [NoRow EXCEPT !.status = "PENDING", !.doc = d])
         /\ x.status # "NONE" /\ x.pairing = "NOT_STARTED" =>
              IssuedRow(x, [x EXCEPT !.token = TRUE, !.code = TRUE, !.lapsed = FALSE,
                                     !.pairing = "WAITING_DEVICE", !.confirmed = FALSE])
         /\ x.status # "NONE" /\ x.pairing # "NOT_STARTED" =>
              /\ \A s \in {"EXPIRED", "DEVICE_PAIRED"} : PairedRow(x, [x EXCEPT !.pairing = s])
              /\ PairedRow(x, [x EXCEPT !.pairing = "CONFIRMED", !.confirmed = TRUE])
         /\ x.status # "NONE" =>
              /\ SealedRow(x, [x EXCEPT !.status = "SIGNED", !.used = TRUE,
                                        !.token = FALSE, !.lapsed = FALSE])
              /\ AgedRow(x, [x EXCEPT !.expired = TRUE])
              /\ AgedRow(x, [x EXCEPT !.lapsed = TRUE])
         /\ x.status = "SIGNED" /\ x.confirmed =>
              ConsumedRow(x, [x EXCEPT !.token = FALSE, !.code = FALSE, !.lapsed = FALSE,
                                       !.pairing = "CONSUMED", !.used = TRUE])
<1> USE DEF RequestRow, SameRequest
<1>1. ASSUME NEW d \in Document, x.status = "NONE"
      PROVE  CreatedRow(x, [NoRow EXCEPT !.status = "PENDING", !.doc = d])
  BY <1>1 DEF CreatedRow, NoRow
<1>2. ASSUME x.status # "NONE", x.pairing = "NOT_STARTED"
      PROVE  IssuedRow(x, [x EXCEPT !.token = TRUE, !.code = TRUE, !.lapsed = FALSE,
                                    !.pairing = "WAITING_DEVICE", !.confirmed = FALSE])
  BY <1>2 DEF IssuedRow
<1>3. ASSUME x.status # "NONE", x.pairing # "NOT_STARTED"
      PROVE  /\ \A s \in {"EXPIRED", "DEVICE_PAIRED"} : PairedRow(x, [x EXCEPT !.pairing = s])
             /\ PairedRow(x, [x EXCEPT !.pairing = "CONFIRMED", !.confirmed = TRUE])
  BY <1>3 DEF PairedRow
<1>4. ASSUME x.status # "NONE"
      PROVE  /\ SealedRow(x, [x EXCEPT !.status = "SIGNED", !.used = TRUE,
                                        !.token = FALSE, !.lapsed = FALSE])
             /\ AgedRow(x, [x EXCEPT !.expired = TRUE])
             /\ AgedRow(x, [x EXCEPT !.lapsed = TRUE])
  BY <1>4 DEF SealedRow, AgedRow
<1>5. ASSUME x.status = "SIGNED", x.confirmed
      PROVE  ConsumedRow(x, [x EXCEPT !.token = FALSE, !.code = FALSE, !.lapsed = FALSE,
                                      !.pairing = "CONSUMED", !.used = TRUE])
  BY <1>5 DEF ConsumedRow
<1>6. QED
  BY <1>1, <1>2, <1>3, <1>4, <1>5

\* A step that only moves a handler, or changes what the tables do not hold.
Quiet == UNCHANGED <<req, session, record, doc, payload, lost>>

\* A handler that only reads writes nothing.
LEMMA ReadersQuiet ==
  ASSUME NEW w \in Worker,
         \/ Begin(w)
         \/ CheckUnsigned(w) \/ ReloadToPrepare(w) \/ LayOutPdf(w)
         \/ ReloadToFinish(w) \/ CheckNoRecord(w) \/ ReadSession(w) \/ VerifySignature(w)
         \/ ReadPrepared(w) \/ LookupApproval(w) \/ CreateApproval(w)
  PROVE  Quiet
<1> USE DEF Quiet, dbVars, envVars
<1>1. ASSUME Begin(w) PROVE Quiet
  BY <1>1 DEF Begin, BeginCreate, BeginPairing, BeginConfirmation, BeginPrepare, BeginSubmit
<1>2. ASSUME CheckUnsigned(w) \/ ReloadToPrepare(w) \/ LayOutPdf(w)
      PROVE  Quiet
  BY <1>2 DEF CheckUnsigned, ReloadToPrepare, LayOutPdf
<1>3. ASSUME ReloadToFinish(w) \/ CheckNoRecord(w) \/ ReadSession(w) \/ VerifySignature(w)
      PROVE  Quiet
  BY <1>3 DEF ReloadToFinish, CheckNoRecord, ReadSession, VerifySignature
<1>4. ASSUME ReadPrepared(w) \/ LookupApproval(w) \/ CreateApproval(w)
      PROVE  Quiet
  BY <1>4 DEF ReadPrepared, LookupApproval, CreateApproval
<1>5. QED
  BY <1>1, <1>2, <1>3, <1>4

\* The steps of a handler that write a row of a request.
WritesRequest(w) ==
  \/ \E r \in Request : CreateRequest(w, r)
  \/ IssueSession(w) \/ SavePairing(w) \/ SaveConfirmation(w) \/ SealRequest(w) \/ Consume(w)

\* The steps of a handler that write another table.
WritesOther(w) ==
  \/ MarkPendingSign(w) \/ SaveDocument(w)
  \/ StoreSession(w) \/ StorePdf(w) \/ CompleteSession(w)
  \/ CreateRecord(w)

\* Each of them leaves the other tables alone.
LEMMA WriterFrames ==
  ASSUME NEW w \in Worker
  PROVE  /\ WritesRequest(w) => UNCHANGED <<session, record, doc, payload, lost>>
         /\ WritesOther(w) => UNCHANGED <<req, lost>>
         /\ MarkPendingSign(w) \/ SaveDocument(w) => UNCHANGED <<session, record, payload>>
         /\ StoreSession(w) \/ CompleteSession(w) => UNCHANGED <<record, doc, payload>>
         /\ StorePdf(w) => UNCHANGED <<record, doc>>
         /\ CreateRecord(w) => UNCHANGED <<session, doc, payload>>
<1> USE DEF envVars
<1>1. WritesRequest(w) => UNCHANGED <<session, record, doc, payload, lost>>
  BY DEF WritesRequest, CreateRequest, IssueSession, SavePairing, SaveConfirmation,
         SealRequest, Consume
<1>2. WritesOther(w) => UNCHANGED <<req, lost>>
  BY DEF WritesOther, MarkPendingSign, SaveDocument, StoreSession, StorePdf, CompleteSession,
         CreateRecord
<1>3. MarkPendingSign(w) \/ SaveDocument(w) => UNCHANGED <<session, record, payload>>
  BY DEF MarkPendingSign, SaveDocument
<1>4. StoreSession(w) \/ CompleteSession(w) => UNCHANGED <<record, doc, payload>>
  BY DEF StoreSession, CompleteSession
<1>5. StorePdf(w) => UNCHANGED <<record, doc>>
  BY DEF StorePdf
<1>6. CreateRecord(w) => UNCHANGED <<session, doc, payload>>
  BY DEF CreateRecord
<1>7. QED
  BY <1>1, <1>2, <1>3, <1>4, <1>5, <1>6

\* A step is quiet, or one of the writers, or one of three environment steps.
LEMMA Writers ==
  ASSUME [Next]_vars
  PROVE  \/ Quiet
         \/ \E w \in Worker : WritesRequest(w) \/ WritesOther(w) \/ Crash(w)
         \/ \E r \in Request : Expire(r)
         \/ \E d \in Document : OfficerSigns(d)
<1>1. CASE UNCHANGED vars
  BY <1>1 DEF vars, Quiet
<1>2. ASSUME NEW w \in Worker, Begin(w) \/ Handle(w)
      PROVE  Quiet \/ WritesRequest(w) \/ WritesOther(w)
  BY <1>2, ReadersQuiet DEF Handle, WritesRequest, WritesOther
<1>3. ASSUME NEW d \in Document, ChangeCertificate(d) \/ AskOfficer(d) PROVE Quiet
  BY <1>3 DEF ChangeCertificate, AskOfficer, Quiet, dbVars
<1>4. ASSUME ChangeOfficer PROVE Quiet
  BY <1>4 DEF ChangeOfficer, Quiet, dbVars
<1>5. QED
  BY <1>1, <1>2, <1>3, <1>4 DEF Next, Environment

\* The environment's writers touch one table each.
LEMMA EnvironmentFrames ==
  /\ \A r \in Request : Expire(r) => UNCHANGED <<session, record, doc, payload, pc, loc, executor, lost>>
  /\ \A d \in Document :
       OfficerSigns(d) => UNCHANGED <<req, session, record, payload, pc, loc, executor, lost>>
  /\ \A w \in Worker : Crash(w) => UNCHANGED <<req, session, record, doc, payload>>
<1>1. \A r \in Request :
        Expire(r) => UNCHANGED <<session, record, doc, payload, pc, loc, executor, lost>>
  BY DEF Expire
<1>2. \A d \in Document :
        OfficerSigns(d) => UNCHANGED <<req, session, record, payload, pc, loc, executor, lost>>
  BY DEF OfficerSigns
<1>3. \A w \in Worker : Crash(w) => UNCHANGED <<req, session, record, doc, payload>>
  BY DEF Crash, dbVars
<1>4. QED
  BY <1>1, <1>2, <1>3

\* What a writer of requests does to its row, and to no other.
LEMMA RequestWrite ==
  ASSUME IInv, NEW w \in Worker, WritesRequest(w), NEW r \in Request, req'[r] # req[r]
  PROVE  \/ CreatedRow(req[r], req'[r]) /\ CreateRequest(w, r)
         \/ IssuedRow(req[r], req'[r]) /\ IssueSession(w) /\ loc[w].request = r
         \/ PairedRow(req[r], req'[r])
         \/ SealedRow(req[r], req'[r]) /\ SealRequest(w) /\ loc[w].request = r /\ record[r].exists
         \/ ConsumedRow(req[r], req'[r])
<1> USE DEF IInv
<1>1. req[r] \in RequestRow /\ req \in [Request -> RequestRow]
  BY DEF Typed
<1>2. ASSUME NEW q \in Request, CreateRequest(w, q)
      PROVE  CreatedRow(req[r], req'[r]) /\ CreateRequest(w, r)
  <2>1. q = r /\ req'[r] = [NoRow EXCEPT !.status = "PENDING", !.doc = loc[w].doc]
    BY <1>1, <1>2 DEF CreateRequest
  <2>2. req[r].status = "NONE" /\ loc[w].doc \in Document
    BY <1>2, <2>1 DEF CreateRequest, Goto, HandlersAgree
  <2>3. QED
    BY <1>1, <1>2, <2>1, <2>2, RowEffects
<1>3. CASE IssueSession(w)
  <2>1. loc[w].request = r
    BY <1>1, <1>3 DEF IssueSession
  <2>2. req'[r] = [req[r] EXCEPT !.token = TRUE, !.code = TRUE, !.lapsed = FALSE,
                                 !.pairing = "WAITING_DEVICE", !.confirmed = FALSE]
    BY <1>1, <1>3, <2>1 DEF IssueSession
  <2>3. req[r].status # "NONE" /\ req[r].pairing = "NOT_STARTED"
    BY <1>3, <2>1 DEF IssueSession, Goto, HandlersAgree
  <2>4. QED
    BY <1>1, <1>3, <2>1, <2>2, <2>3, RowEffects
<1>4. CASE SavePairing(w)
  <2>1. loc[w].request = r
    BY <1>1, <1>4 DEF SavePairing
  <2>2. \E s \in {"EXPIRED", "DEVICE_PAIRED"} : req'[r] = [req[r] EXCEPT !.pairing = s]
    BY <1>1, <1>4, <2>1 DEF SavePairing
  <2>3. req[r].status # "NONE" /\ req[r].pairing # "NOT_STARTED"
    BY <1>4, <2>1 DEF SavePairing, HandlersAgree
  <2>4. QED
    BY <1>1, <2>2, <2>3, RowEffects
<1>5. CASE SaveConfirmation(w)
  <2>1. loc[w].request = r
    BY <1>1, <1>5 DEF SaveConfirmation
  <2>2. req'[r] = [req[r] EXCEPT !.pairing = "CONFIRMED", !.confirmed = TRUE]
    BY <1>1, <1>5, <2>1 DEF SaveConfirmation
  <2>3. req[r].status # "NONE" /\ req[r].pairing # "NOT_STARTED"
    BY <1>5, <2>1 DEF SaveConfirmation, HandlersAgree
  <2>4. QED
    BY <1>1, <2>2, <2>3, RowEffects
<1>6. CASE SealRequest(w)
  <2>1. loc[w].request = r
    BY <1>1, <1>6 DEF SealRequest
  <2>2. req'[r] = [req[r] EXCEPT !.status = "SIGNED", !.used = TRUE,
                                 !.token = FALSE, !.lapsed = FALSE]
    BY <1>1, <1>6, <2>1 DEF SealRequest
  <2>3. req[r].status # "NONE" /\ record[r].exists
    BY <1>6, <2>1 DEF SealRequest, Goto, HandlersAgree, BeforeSeal
  <2>4. QED
    BY <1>1, <1>6, <2>1, <2>2, <2>3, RowEffects
<1>7. CASE Consume(w)
  <2>1. loc[w].request = r /\ loc[w].via # "rest"
    BY <1>1, <1>7 DEF Consume
  <2>2. req'[r] = [req[r] EXCEPT !.token = FALSE, !.code = FALSE, !.lapsed = FALSE,
                                 !.pairing = "CONSUMED", !.used = TRUE]
    BY <1>1, <1>7, <2>1 DEF Consume
  <2>3. req[r].status = "SIGNED"
    BY <1>7, <2>1 DEF Consume, HandlersAgree, AfterSeal, Signed
  <2>4. req[r].confirmed
    <3>1. loc[w].via # "none"
      BY <1>7 DEF Consume, HandlersAgree, Finishing, AfterSeal
    <3>2. loc[w].via \in {"none", "app", "rest"}
      BY DEF Typed, Local
    <3>3. QED
      BY <2>1, <3>1, <3>2 DEF ConfirmedFirst
  <2>5. QED
    BY <1>1, <2>2, <2>3, <2>4, RowEffects
<1>8. QED
  BY <1>2, <1>3, <1>4, <1>5, <1>6, <1>7 DEF WritesRequest

\* So a row stays as it is, or changes in one of six ways.
RowStep(r) ==
  \/ req'[r] = req[r]
  \/ CreatedRow(req[r], req'[r]) /\ \E w \in Worker : CreateRequest(w, r)
  \/ IssuedRow(req[r], req'[r]) /\ \E w \in Worker : IssueSession(w) /\ loc[w].request = r
  \/ PairedRow(req[r], req'[r])
  \/ SealedRow(req[r], req'[r]) /\ record[r].exists
  \/ ConsumedRow(req[r], req'[r])
  \/ AgedRow(req[r], req'[r])

\* Every step takes every row along one of these ways.
LEMMA RowSteps ==
  ASSUME IInv, [Next]_vars
  PROVE  \A r \in Request : RowStep(r)
<1>1. CASE UNCHANGED req
  BY <1>1 DEF RowStep
<1>2. ASSUME NEW w \in Worker, WritesRequest(w) PROVE \A r \in Request : RowStep(r)
  BY <1>2, RequestWrite DEF RowStep
<1>3. ASSUME NEW q \in Request, Expire(q) PROVE \A r \in Request : RowStep(r)
  <2> SUFFICES ASSUME NEW r \in Request, req'[r] # req[r] PROVE AgedRow(req[r], req'[r])
    BY DEF RowStep
  <2>1. req \in [Request -> RequestRow] /\ req[q].status # "NONE"
    BY <1>3 DEF IInv, Typed, Expire
  <2>2. req' = [req EXCEPT ![q].expired = TRUE] \/ req' = [req EXCEPT ![q].lapsed = TRUE]
    BY <1>3 DEF Expire
  <2>3. r = q
    BY <2>1, <2>2
  <2>4. req'[q] = [req[q] EXCEPT !.expired = TRUE] \/ req'[q] = [req[q] EXCEPT !.lapsed = TRUE]
    BY <2>1, <2>2
  <2>5. QED
    BY <2>1, <2>3, <2>4, RowEffects
<1>4. QED
  BY <1>1, <1>2, <1>3, Writers, WriterFrames, EnvironmentFrames DEF Quiet

-----------------------------------------------------------------------------
(***************************************************************************)
(* What a step does to the other tables.                                   *)
(***************************************************************************)

\* A session is stored with the attributes of a prepared PDF, or completed by
\* the handler that sealed its request.
SessionStep(r) ==
  \/ session'[r] = session[r]
  \/ req[r].status # "NONE" /\ session'[r].status = "PREPARED" /\ session'[r].attrs # 0
  \/ req[r].status = "SIGNED" /\ session'[r].status = "COMPLETED"

\* Every step treats every session in this way.
LEMMA SessionSteps ==
  ASSUME IInv, [Next]_vars
  PROVE  \A r \in Request : SessionStep(r)
<1> USE DEF IInv
<1>1. session \in [Request -> SessionRow] /\ loc \in [Worker -> Local]
  BY DEF Typed
<1>2. ASSUME NEW w \in Worker, StoreSession(w), NEW r \in Request, session'[r] # session[r]
      PROVE  SessionStep(r)
  <2>1. loc[w].request = r /\ loc[w].run # 0 /\ req[r].status # "NONE"
    BY <1>1, <1>2 DEF StoreSession, Goto, HandlersAgree
  <2>2. session'[r] = [session[r] EXCEPT !.status = "PREPARED", !.attrs = loc[w].run]
    BY <1>1, <1>2, <2>1 DEF StoreSession
  <2>3. QED
    BY <1>1, <2>1, <2>2 DEF SessionStep, SessionRow
<1>3. ASSUME NEW w \in Worker, StorePdf(w), NEW r \in Request, session'[r] # session[r]
      PROVE  SessionStep(r)
  <2>1. loc[w].request = r /\ loc[w].attrs # 0 /\ req[r].status # "NONE"
    BY <1>1, <1>3 DEF StorePdf, HandlersAgree
  <2>2. QED
    BY <1>1, <1>3, <2>1 DEF StorePdf, SessionStep
<1>4. ASSUME NEW w \in Worker, CompleteSession(w), NEW r \in Request, session'[r] # session[r]
      PROVE  SessionStep(r)
  <2>1. loc[w].request = r /\ req[r].status = "SIGNED"
    BY <1>1, <1>4 DEF CompleteSession, Goto, HandlersAgree, AfterSeal, Signed
  <2>2. session'[r] = [session[r] EXCEPT !.status = "COMPLETED"]
    BY <1>1, <1>4, <2>1 DEF CompleteSession
  <2>3. QED
    BY <1>1, <2>1, <2>2 DEF SessionStep, SessionRow
<1>5. UNCHANGED session => \A r \in Request : SessionStep(r)
  BY DEF SessionStep
<1>6. ASSUME NEW w \in Worker, WritesOther(w) PROVE \A r \in Request : SessionStep(r)
  BY <1>2, <1>3, <1>4, <1>5, <1>6, WriterFrames DEF WritesOther, SessionStep
<1>7. QED
  BY <1>5, <1>6, Writers, WriterFrames, EnvironmentFrames DEF Quiet

\* A record is inserted once, over attributes that were handed out, into a
\* document that has a signed PDF, by a handler that goes on holding its job.
RecordStep(r) ==
  \/ record'[r] = record[r]
  \/ /\ ~record[r].exists /\ req[r].status # "NONE"
     /\ record'[r].exists /\ record'[r].attrs \in payload[r]
     /\ doc[req[r].doc].current # <<>>
     /\ \E w \in Worker : /\ executor' = w /\ pc'[w] = "recorded" /\ loc'[w].request = r
                          /\ CreateRecord(w)

\* Every step treats every record in this way.
LEMMA RecordSteps ==
  ASSUME IInv, [Next]_vars
  PROVE  \A r \in Request : RecordStep(r)
<1> USE DEF IInv
<1>1. ASSUME NEW w \in Worker, CreateRecord(w), NEW r \in Request, record'[r] # record[r]
      PROVE  RecordStep(r)
  <2>1. loc[w].request = r /\ ~record[r].exists
    BY <1>1 DEF CreateRecord, Typed
  <2>2. /\ req[r].status # "NONE" /\ loc[w].doc = req[r].doc
        /\ loc[w].signed \in payload[r] /\ doc[loc[w].doc].current # <<>>
    BY <1>1, <2>1 DEF CreateRecord, HandlersAgree
  <2>3. record'[r] = [exists |-> TRUE, attrs |-> loc[w].signed, digest |-> loc[w].digest]
    BY <1>1, <2>1 DEF CreateRecord, Typed
  <2>4. executor' = w /\ pc'[w] = "recorded" /\ loc'[w].request = r
    BY <1>1, <2>1 DEF CreateRecord, InJob, Goto, Typed
  <2>5. QED
    BY <1>1, <2>1, <2>2, <2>3, <2>4 DEF RecordStep
<1>2. UNCHANGED record => \A r \in Request : RecordStep(r)
  BY DEF RecordStep
<1>3. ASSUME NEW w \in Worker, WritesOther(w) PROVE \A r \in Request : RecordStep(r)
  BY <1>1, <1>2, <1>3, WriterFrames DEF WritesOther, RecordStep
<1>4. QED
  BY <1>2, <1>3, Writers, WriterFrames, EnvironmentFrames DEF Quiet

\* No step takes the last signed PDF of a document away, or takes back
\* attributes that were handed out.
LEMMA DocumentSteps ==
  ASSUME IInv, [Next]_vars
  PROVE  \A d \in Document : doc[d].current # <<>> => doc'[d].current # <<>>
<1> USE DEF IInv
<1> DEFINE Fine == \A d \in Document : doc[d].current # <<>> => doc'[d].current # <<>>
<1>1. doc \in [Document -> DocumentRow]
  BY DEF Typed
<1>2. ASSUME NEW w \in Worker, MarkPendingSign(w) PROVE Fine
  BY <1>1, <1>2 DEF MarkPendingSign, DocumentRow
<1>3. ASSUME NEW w \in Worker, SaveDocument(w) PROVE Fine
  BY <1>1, <1>3 DEF SaveDocument, DocumentRow
<1>4. ASSUME NEW d \in Document, OfficerSigns(d) PROVE Fine
  <2>1. doc[d].current \in Seq(Mark)
    BY <1>1 DEF DocumentRow, Pdf
  <2>2. [request |-> Officer, bytes |-> 0, attrs |-> 0] \in Mark
    BY RunFacts DEF Mark
  <2>3. Append(doc[d].current, [request |-> Officer, bytes |-> 0, attrs |-> 0]) # <<>>
    BY <2>1, <2>2
  <2>4. QED
    BY <1>1, <1>4, <2>3 DEF OfficerSigns
<1>5. UNCHANGED doc => Fine
  OBVIOUS
<1>6. ASSUME NEW w \in Worker, WritesOther(w) PROVE Fine
  BY <1>2, <1>3, <1>5, <1>6, WriterFrames DEF WritesOther
<1>7. QED
  BY <1>4, <1>5, <1>6, Writers, WriterFrames, EnvironmentFrames DEF Quiet

\* Attributes that were handed out are never taken back.
LEMMA PayloadSteps ==
  ASSUME IInv, [Next]_vars
  PROVE  \A r \in Request : payload[r] \subseteq payload'[r]
<1> USE DEF IInv
<1>1. ASSUME NEW w \in Worker, StorePdf(w) PROVE \A r \in Request : payload[r] \subseteq payload'[r]
  BY <1>1 DEF StorePdf, Typed
<1>2. UNCHANGED payload => \A r \in Request : payload[r] \subseteq payload'[r]
  OBVIOUS
<1>3. ASSUME NEW w \in Worker, WritesOther(w)
      PROVE  \A r \in Request : payload[r] \subseteq payload'[r]
  BY <1>1, <1>2, <1>3, WriterFrames DEF WritesOther
<1>4. QED
  BY <1>2, <1>3, Writers, WriterFrames, EnvironmentFrames DEF Quiet

\* What every step keeps.
Keeps ==
  /\ \A r \in Request :
       /\ req[r].status # "NONE" => /\ req'[r].status # "NONE"
                                    /\ req'[r].doc = req[r].doc
       /\ req[r].status # "NONE" /\ req[r].pairing # "NOT_STARTED" => req'[r].pairing # "NOT_STARTED"
       /\ req[r].status = "SIGNED" => req'[r].status = "SIGNED"
       /\ record[r].exists => record'[r] = record[r]
       /\ payload[r] \subseteq payload'[r]
  /\ \A d \in Document : doc[d].current # <<>> => doc'[d].current # <<>>

\* Every step does keep it.
LEMMA KeepsStep ==
  ASSUME IInv, [Next]_vars
  PROVE  Keeps
<1>1. ASSUME NEW r \in Request
      PROVE  /\ req[r].status # "NONE" => /\ req'[r].status # "NONE"
                                          /\ req'[r].doc = req[r].doc
             /\ req[r].status # "NONE" /\ req[r].pairing # "NOT_STARTED"
                  => req'[r].pairing # "NOT_STARTED"
             /\ req[r].status = "SIGNED" => req'[r].status = "SIGNED"
  BY <1>1, RowSteps DEF RowStep, SameRequest, CreatedRow, IssuedRow, PairedRow, SealedRow,
                        ConsumedRow, AgedRow
<1>2. \A r \in Request : record[r].exists => record'[r] = record[r]
  BY RecordSteps DEF RecordStep
<1>3. QED
  BY <1>1, <1>2, PayloadSteps, DocumentSteps DEF Keeps

-----------------------------------------------------------------------------
(***************************************************************************)
(* The invariants of the tables.                                           *)
(***************************************************************************)

\* Rows stay complete.
LEMMA RowsCompleteStep == IInv /\ [Next]_vars => RowsComplete'
<1> SUFFICES ASSUME IInv, [Next]_vars, NEW r \in Request
             PROVE  (IF req[r].status = "NONE"
                       THEN session[r] = NoSession /\ record[r] = NoRecord
                       ELSE req[r].doc \in Document)'
  BY DEF RowsComplete
<1> USE DEF IInv
<1>1. RowStep(r) /\ SessionStep(r) /\ RecordStep(r)
  BY RowSteps, SessionSteps, RecordSteps
<1>2. CASE req'[r].status = "NONE"
  <2>1. req[r].status = "NONE"
    BY <1>2, KeepsStep DEF Keeps
  <2>2. session'[r] = session[r] /\ record'[r] = record[r]
    BY <1>1, <2>1 DEF SessionStep, RecordStep
  <2>3. QED
    BY <1>2, <2>1, <2>2 DEF RowsComplete
<1>3. CASE req'[r].status # "NONE" /\ req[r].status # "NONE"
  BY <1>3, KeepsStep DEF Keeps, RowsComplete
<1>4. CASE req'[r].status # "NONE" /\ req[r].status = "NONE"
  BY <1>1, <1>4 DEF RowStep, CreatedRow, IssuedRow, PairedRow, SealedRow, ConsumedRow, AgedRow,
                    SameRequest
<1>5. QED
  BY <1>2, <1>3, <1>4

\* A request without a pairing session has no token and no code.
LEMMA UnissuedStep == IInv /\ [Next]_vars => Unissued'
<1> SUFFICES ASSUME IInv, [Next]_vars, NEW r \in Request, req'[r].pairing = "NOT_STARTED"
             PROVE  ~req'[r].token /\ ~req'[r].code /\ ~req'[r].confirmed
  BY DEF Unissued
<1>1. RowStep(r)
  BY RowSteps
<1>2. QED
  BY <1>1 DEF IInv, Unissued, RowStep, CreatedRow, IssuedRow, PairedRow, SealedRow, ConsumedRow,
              AgedRow

\* A prepared session has attributes.
LEMMA SessionPreparedStep == IInv /\ [Next]_vars => SessionPrepared'
BY SessionSteps DEF IInv, SessionPrepared, SessionStep

\* A SIGNED request is used, recorded and, once consumed, withdrawn.
LEMMA WithdrawnStep == IInv /\ [Next]_vars => SignedIsWithdrawn'
<1> SUFFICES ASSUME IInv, [Next]_vars, NEW r \in Request
             PROVE  /\ req'[r].status = "SIGNED" <=> req'[r].used
                    /\ req'[r].status = "SIGNED" => record'[r].exists
                    /\ req'[r].pairing = "CONSUMED" =>
                         req'[r].status = "SIGNED" /\ ~req'[r].token /\ ~req'[r].code
  BY DEF SignedIsWithdrawn, Signed
<1>1. RowStep(r)
  BY RowSteps
<1>2. record[r].exists => record'[r].exists
  BY KeepsStep DEF Keeps
<1>3. /\ req[r].status = "SIGNED" <=> req[r].used
      /\ req[r].status = "SIGNED" => record[r].exists
      /\ req[r].pairing = "CONSUMED" => req[r].status = "SIGNED" /\ ~req[r].token /\ ~req[r].code
  BY DEF IInv, SignedIsWithdrawn, Signed
<1>4. QED
  BY <1>1, <1>2, <1>3 DEF RowStep, SameRequest, CreatedRow, IssuedRow, PairedRow, SealedRow,
                          ConsumedRow, AgedRow

\* A record covers attributes that were handed out for its request.
LEMMA VerifiedStep == IInv /\ [Next]_vars => RecordVerified'
<1> SUFFICES ASSUME IInv, [Next]_vars, NEW r \in Request, record'[r].exists
             PROVE  record'[r].attrs \in payload'[r]
  BY DEF RecordVerified
<1>1. RecordStep(r) /\ payload[r] \subseteq payload'[r]
  BY RecordSteps, PayloadSteps
<1>2. QED
  BY <1>1 DEF IInv, RecordVerified, RecordStep

\* The document of a record has a signed PDF.
LEMMA HasPdfStep == IInv /\ [Next]_vars => RecordHasPdf'
<1> SUFFICES ASSUME IInv, [Next]_vars, NEW r \in Request, record'[r].exists
             PROVE  doc'[req'[r].doc].current # <<>>
  BY DEF RecordHasPdf
<1>1. RecordStep(r)
  BY RecordSteps
<1>2. req[r].status # "NONE" /\ doc[req[r].doc].current # <<>>
  BY <1>1 DEF IInv, RecordHasPdf, RecordStep, RowsComplete, NoRecord
<1>3. req'[r].doc = req[r].doc /\ req[r].doc \in Document
  BY <1>2, KeepsStep DEF Keeps, IInv, RowsComplete
<1>4. QED
  BY <1>2, <1>3, KeepsStep DEF Keeps

\* A completed session belongs to a SIGNED request.
LEMMA CompletedStep == IInv /\ [Next]_vars => CompletedIsSigned'
<1> SUFFICES ASSUME IInv, [Next]_vars, NEW r \in Request, session'[r].status = "COMPLETED"
             PROVE  req'[r].status = "SIGNED"
  BY DEF CompletedIsSigned, Signed
<1>1. SessionStep(r)
  BY SessionSteps
<1>2. req[r].status = "SIGNED"
  BY <1>1 DEF IInv, CompletedIsSigned, Signed, SessionStep
<1>3. QED
  BY <1>2, KeepsStep DEF Keeps

-----------------------------------------------------------------------------
(***************************************************************************)
(* The invariants that speak of the handlers.                              *)
(***************************************************************************)

\* HandlersAgree of one handler, but for the one that issues a pairing session.
Agrees(w) ==
  LET l == loc[w]
      r == l.request IN
  /\ pc[w] = "create" => l.doc \in Document
  /\ pc[w] \notin {"idle", "create"} => r \in Request /\ req[r].status # "NONE" /\ l.doc = req[r].doc
  /\ l.via # "none" <=> pc[w] \in Preparing \cup Finishing
  /\ pc[w] \in {"pair", "confirm"} => req[r].pairing # "NOT_STARTED"
  /\ pc[w] \in {"laidOut", "storing"} => l.run # 0
  /\ pc[w] \in {"storing", "session"} => l.attrs # 0
  /\ pc[w] \in Checking => l.signed \in payload[r] \cup {0}
  /\ pc[w] \in {"verified", "filled", "docSaved"} => l.signed \in payload[r]
  /\ pc[w] = "docSaved" => doc[l.doc].current # <<>>
  /\ pc[w] \in BeforeSeal => record[r].exists
  /\ pc[w] \in AfterSeal => req[r].status = "SIGNED"

\* The rest of HandlersAgree.
IssuerAgrees == \A w \in Worker : pc[w] = "issue" => req[loc[w].request].pairing = "NOT_STARTED"

\* Together they are HandlersAgree.
LEMMA AgreesAll == HandlersAgree <=> IssuerAgrees /\ \A w \in Worker : Agrees(w)
BY DEF HandlersAgree, Agrees, IssuerAgrees, Signed

\* A handler that does not move stays in agreement.
LEMMA AgreesKept ==
  ASSUME IInv, Keeps, NEW v \in Worker, pc'[v] = pc[v], loc'[v] = loc[v]
  PROVE  Agrees(v)'
<1> DEFINE l == loc[v]
           r == l.request
<1>1. Agrees(v)
  BY AgreesAll DEF IInv
<1>2. pc[v] \notin {"idle", "create"} => /\ r \in Request
                                         /\ req'[r].status # "NONE"
                                         /\ l.doc = req'[r].doc
                                         /\ l.doc \in Document
                                         /\ payload[r] \subseteq payload'[r]
  BY <1>1 DEF Agrees, Keeps, IInv, RowsComplete
<1>3. pc[v] \in {"pair", "confirm"} => req'[r].pairing # "NOT_STARTED"
  BY <1>1 DEF Agrees, Keeps
<1>4. /\ pc[v] \in Checking => l.signed \in payload'[r] \cup {0}
      /\ pc[v] \in {"verified", "filled", "docSaved"} => l.signed \in payload'[r]
  BY <1>1, <1>2 DEF Agrees, Checking
<1>5. pc[v] = "docSaved" => doc'[l.doc].current # <<>>
  BY <1>1, <1>2 DEF Agrees, Keeps
<1>6. /\ pc[v] \in BeforeSeal => record'[r].exists
      /\ pc[v] \in AfterSeal => req'[r].status = "SIGNED"
  BY <1>1, <1>2 DEF Agrees, Keeps, BeforeSeal, AfterSeal
<1>7. QED
  BY <1>1, <1>2, <1>3, <1>4, <1>5, <1>6 DEF Agrees

\* Agreement of a handler, with what it must not lose of its login.
Moved(w) ==
  /\ Agrees(w)'
  /\ pc'[w] # "issue"
  /\ \/ loc'[w].via = "none"
     \/ loc'[w].via = loc[w].via /\ loc'[w].request = loc[w].request

\* A handler that returns is in agreement.
LEMMA MovedIdle ==
  ASSUME NEW w \in Worker, pc'[w] = "idle", loc'[w] = NoLocal
  PROVE  Moved(w)
<1>1. loc'[w].via = "none"
  BY DEF NoLocal
<1>2. pc'[w] \notin Preparing \cup Finishing
  BY DEF Preparing, Finishing, Checking, BeforeSeal, AfterSeal
<1>3. Agrees(w)'
  BY <1>1, <1>2 DEF Agrees, Finishing, Checking, BeforeSeal, AfterSeal
<1>4. QED
  BY <1>1, <1>3 DEF Moved

\* A handler that goes on keeps its request.
LEMMA GoesOn ==
  ASSUME IInv, Keeps, NEW w \in Worker, pc[w] \in Preparing \cup Finishing,
         loc'[w].request = loc[w].request, loc'[w].doc = loc[w].doc, loc'[w].via = loc[w].via,
         loc'[w].signed = loc[w].signed
  PROVE  /\ loc'[w].request \in Request
         /\ req'[loc'[w].request].status # "NONE"
         /\ loc'[w].doc = req'[loc'[w].request].doc
         /\ loc'[w].doc \in Document
         /\ loc'[w].via # "none"
         /\ pc[w] \in Checking => loc'[w].signed \in payload'[loc'[w].request] \cup {0}
         /\ pc[w] \in {"verified", "filled", "docSaved"} =>
              loc'[w].signed \in payload'[loc'[w].request]
<1>1. Agrees(w)
  BY AgreesAll DEF IInv
<1>2. pc[w] \notin {"idle", "create"}
  BY DEF Preparing, Finishing, Checking, BeforeSeal, AfterSeal
<1>3. /\ loc[w].request \in Request
      /\ req'[loc[w].request].status # "NONE"
      /\ loc[w].doc = req'[loc[w].request].doc
      /\ loc[w].doc \in Document
      /\ payload[loc[w].request] \subseteq payload'[loc[w].request]
  BY <1>1, <1>2 DEF Agrees, Keeps, IInv, RowsComplete
<1>4. QED
  BY <1>1, <1>3 DEF Agrees

\* The first step of a handler.
LEMMA BeginAgrees ==
  ASSUME IInv, NEW w \in Worker, Begin(w)
  PROVE  /\ Agrees(w)' /\ pc'[w] # "issue"
         /\ loc'[w].via = "app" => req[loc'[w].request].confirmed /\ loc'[w].request \in Request
<1> USE DEF IInv
<1>1. ASSUME NEW d \in Document, BeginCreate(w, d)
      PROVE  Agrees(w)' /\ pc'[w] = "create" /\ loc'[w].via = "none"
  <2>1. pc'[w] = "create" /\ loc'[w].doc = d /\ loc'[w].via = "none"
    BY <1>1 DEF BeginCreate, Goto, Typed, NoLocal
  <2>2. QED
    BY <2>1 DEF Agrees, Preparing, Finishing, Checking, BeforeSeal, AfterSeal
<1>2. ASSUME NEW r \in Request, BeginPairing(w, r) \/ BeginConfirmation(w, r)
      PROVE  Agrees(w)' /\ pc'[w] \in {"pair", "confirm"} /\ loc'[w].via = "none"
  <2>1. /\ pc'[w] \in {"pair", "confirm"} /\ UNCHANGED req
        /\ loc'[w].request = r /\ loc'[w].doc = req[r].doc /\ loc'[w].via = "none"
    <3>1. UNCHANGED req /\ pc'[w] \in {"pair", "confirm"}
      BY <1>2 DEF BeginPairing, BeginConfirmation, Goto, Typed, dbVars
    <3>2. \/ loc'[w] = [NoLocal EXCEPT !.request = r, !.doc = req[r].doc]
          \/ loc'[w] = [NoLocal EXCEPT !.request = r, !.doc = req[r].doc,
                                       !.expire = req[r].lapsed]
      BY <1>2 DEF BeginPairing, BeginConfirmation, Typed
    <3>3. QED
      BY <3>1, <3>2 DEF NoLocal
  <2>2. req[r].status # "NONE" /\ req[r].pairing # "NOT_STARTED"
    BY <1>2 DEF BeginPairing, BeginConfirmation, Unissued
  <2>3. QED
    BY <2>1, <2>2 DEF Agrees, Preparing, Finishing, Checking, BeforeSeal, AfterSeal
<1>3. ASSUME NEW r \in Request, NEW via \in {"app", "rest"}, MayBegin(r, via)
      PROVE  req[r].status # "NONE" /\ (via = "app" => req[r].confirmed)
  BY <1>3 DEF MayBegin, Serves, ConfirmedFirst
<1>4. ASSUME NEW r \in Request, NEW via \in {"app", "rest"}, BeginPrepare(w, r, via)
      PROVE  /\ Agrees(w)' /\ pc'[w] = "prepare"
             /\ loc'[w].via = "app" => req[loc'[w].request].confirmed /\ loc'[w].request \in Request
  <2>1. /\ pc'[w] = "prepare" /\ UNCHANGED req
        /\ loc'[w].request = r /\ loc'[w].doc = req[r].doc /\ loc'[w].via = via
    BY <1>4 DEF BeginPrepare, Goto, Typed, NoLocal, dbVars
  <2>2. req[r].status # "NONE" /\ (via = "app" => req[r].confirmed)
    BY <1>3, <1>4 DEF BeginPrepare
  <2>3. QED
    BY <2>1, <2>2 DEF Agrees, Preparing, Finishing, Checking, BeforeSeal, AfterSeal
<1>5. ASSUME NEW r \in Request, NEW via \in {"app", "rest"}, NEW n \in Run,
             BeginSubmit(w, r, via, n)
      PROVE  /\ Agrees(w)' /\ pc'[w] = "submit"
             /\ loc'[w].via = "app" => req[loc'[w].request].confirmed /\ loc'[w].request \in Request
  <2>1. /\ pc'[w] = "submit" /\ UNCHANGED <<req, payload>>
        /\ loc'[w].request = r /\ loc'[w].doc = req[r].doc /\ loc'[w].via = via
        /\ loc'[w].signed = n /\ n \in payload[r] \cup {0}
    BY <1>5 DEF BeginSubmit, Goto, Typed, NoLocal, dbVars
  <2>2. req[r].status # "NONE" /\ (via = "app" => req[r].confirmed)
    BY <1>3, <1>5 DEF BeginSubmit
  <2>3. QED
    BY <2>1, <2>2 DEF Agrees, Preparing, Finishing, Checking, BeforeSeal, AfterSeal
<1>6. QED
  BY <1>1, <1>2, <1>4, <1>5 DEF Begin

\* The handlers that create, pair and confirm.
LEMMA PairingMoves ==
  ASSUME IInv, Keeps, NEW w \in Worker,
         IssueSession(w) \/ MarkPendingSign(w) \/ SavePairing(w) \/ SaveConfirmation(w)
  PROVE  Moved(w)
<1> USE DEF IInv
<1>1. CASE IssueSession(w)
  <2>1. pc[w] = "issue" /\ pc'[w] = "mark" /\ loc'[w] = loc[w]
    BY <1>1 DEF IssueSession, Goto, Typed
  <2>2. Agrees(w)
    BY AgreesAll
  <2>3. /\ loc[w].request \in Request /\ req'[loc[w].request].status # "NONE"
        /\ loc[w].doc = req'[loc[w].request].doc /\ loc[w].via = "none"
    BY <2>1, <2>2 DEF Agrees, Keeps, Preparing, Finishing, Checking, BeforeSeal, AfterSeal
  <2>4. QED
    BY <2>1, <2>3 DEF Moved, Agrees, Preparing, Finishing, Checking, BeforeSeal, AfterSeal
<1>2. CASE MarkPendingSign(w) \/ SavePairing(w) \/ SaveConfirmation(w)
  <2>1. pc'[w] = "idle" /\ loc'[w] = NoLocal
    BY <1>2 DEF MarkPendingSign, SavePairing, SaveConfirmation, Return, Typed
  <2>2. QED
    BY <2>1, MovedIdle
<1>3. QED
  BY <1>1, <1>2

\* The view that has inserted its row issues the pairing session of that row.
LEMMA CreateAgrees ==
  ASSUME IInv, NEW w \in Worker, NEW r \in Request, CreateRequest(w, r)
  PROVE  /\ Agrees(w)' /\ loc'[w].via = "none"
         /\ pc'[w] = "issue" /\ loc'[w].request = r /\ req'[r].pairing = "NOT_STARTED"
<1> USE DEF IInv
<1>1. pc[w] = "create" /\ Agrees(w) /\ loc[w] \in Local
  BY AgreesAll DEF CreateRequest, Goto, Typed
<1>2. loc[w].doc \in Document /\ loc[w].via = "none"
  BY <1>1 DEF Agrees, Preparing, Finishing, Checking, BeforeSeal, AfterSeal
<1>3. pc'[w] = "issue" /\ loc'[w] = [loc[w] EXCEPT !.request = r]
  BY DEF CreateRequest, Goto, Typed
<1>4. loc'[w].request = r /\ loc'[w].doc = loc[w].doc /\ loc'[w].via = "none"
  BY <1>1, <1>2, <1>3 DEF Local
<1>5. req'[r] = [NoRow EXCEPT !.status = "PENDING", !.doc = loc[w].doc]
  BY DEF CreateRequest, Typed
<1>6. req'[r].status = "PENDING" /\ req'[r].doc = loc[w].doc /\ req'[r].pairing = "NOT_STARTED"
  BY <1>5 DEF NoRow
<1>7. QED
  BY <1>2, <1>3, <1>4, <1>6 DEF Agrees, Preparing, Finishing, Checking, BeforeSeal, AfterSeal

\* The handlers that prepare.
LEMMA PrepareMoves ==
  ASSUME IInv, Keeps, NEW w \in Worker,
         \/ CheckUnsigned(w) \/ ReloadToPrepare(w) \/ LayOutPdf(w) \/ StoreSession(w) \/ StorePdf(w)
  PROVE  Moved(w)
<1> USE DEF IInv
<1>1. loc[w] \in Local /\ prepared \in Nat
  BY RunFacts DEF Typed
<1>2. pc[w] \in Preparing /\ Agrees(w)
  BY AgreesAll
     DEF CheckUnsigned, ReloadToPrepare, LayOutPdf, StoreSession, StorePdf, Goto, Preparing
<1>3. ASSUME pc'[w] = "idle", loc'[w] = NoLocal PROVE Moved(w)
  BY <1>3, MovedIdle
<1>4. ASSUME pc'[w] \in {"unsigned", "reloaded", "laidOut", "storing"},
             loc'[w].request = loc[w].request, loc'[w].doc = loc[w].doc, loc'[w].via = loc[w].via,
             loc'[w].signed = loc[w].signed,
             pc'[w] \in {"laidOut", "storing"} => loc'[w].run # 0,
             pc'[w] = "storing" => loc'[w].attrs # 0
      PROVE  Moved(w)
  <2>1. /\ loc'[w].request \in Request
        /\ req'[loc'[w].request].status # "NONE"
        /\ loc'[w].doc = req'[loc'[w].request].doc
        /\ loc'[w].via # "none"
    BY <1>2, <1>4, GoesOn
  <2>2. pc'[w] \in Preparing
    BY <1>4 DEF Preparing
  <2>3. Agrees(w)'
    BY <1>4, <2>1, <2>2 DEF Agrees, Checking, BeforeSeal, AfterSeal
  <2>4. QED
    BY <1>4, <2>3 DEF Moved
<1>5. CASE CheckUnsigned(w) \/ ReloadToPrepare(w)
  <2>1. \/ pc'[w] = "idle" /\ loc'[w] = NoLocal
        \/ pc'[w] \in {"unsigned", "reloaded"} /\ loc'[w] = loc[w]
    BY <1>5 DEF CheckUnsigned, ReloadToPrepare, Return, Goto, Typed
  <2>2. QED
    BY <1>3, <1>4, <2>1
<1>6. CASE LayOutPdf(w)
  <2>1. \/ pc'[w] = "idle" /\ loc'[w] = NoLocal
        \/ pc'[w] = "laidOut" /\ loc'[w] = [loc[w] EXCEPT !.run = prepared + 1]
    BY <1>6 DEF LayOutPdf, Return, Goto, Typed
  <2>2. CASE pc'[w] = "laidOut" /\ loc'[w] = [loc[w] EXCEPT !.run = prepared + 1]
    <3>1. /\ loc'[w].request = loc[w].request /\ loc'[w].doc = loc[w].doc
          /\ loc'[w].via = loc[w].via /\ loc'[w].signed = loc[w].signed
          /\ loc'[w].run = prepared + 1
      BY <1>1, <2>2 DEF Local
    <3>2. QED
      BY <1>1, <1>4, <2>2, <3>1
  <2>3. QED
    BY <1>3, <2>1, <2>2
<1>7. CASE StoreSession(w)
  <2>1. pc[w] = "laidOut" /\ pc'[w] = "storing" /\ loc'[w] = [loc[w] EXCEPT !.attrs = loc[w].run]
    BY <1>7 DEF StoreSession, Goto, Typed
  <2>2. /\ loc'[w].request = loc[w].request /\ loc'[w].doc = loc[w].doc
        /\ loc'[w].via = loc[w].via /\ loc'[w].signed = loc[w].signed
        /\ loc'[w].run = loc[w].run /\ loc'[w].attrs = loc[w].run
    BY <1>1, <2>1 DEF Local
  <2>3. QED
    BY <1>2, <1>4, <2>1, <2>2 DEF Agrees
<1>8. CASE StorePdf(w)
  BY <1>3, <1>8 DEF StorePdf, Return, Typed
<1>9. QED
  BY <1>5, <1>6, <1>7, <1>8

\* The handlers that finish, up to the signed PDF.
LEMMA CheckMoves ==
  ASSUME IInv, Keeps, NEW w \in Worker,
         \/ ReloadToFinish(w) \/ CheckNoRecord(w) \/ ReadSession(w) \/ VerifySignature(w)
         \/ ReadPrepared(w)
  PROVE  Moved(w)
<1> USE DEF IInv
<1>1. loc[w] \in Local
  BY DEF Typed
<1>2. pc[w] \in Checking /\ pc[w] \in Finishing /\ Agrees(w)
  BY AgreesAll
     DEF ReloadToFinish, CheckNoRecord, ReadSession, VerifySignature, ReadPrepared, Goto,
         Checking, Finishing
<1>3. ASSUME pc'[w] = "idle", loc'[w] = NoLocal PROVE Moved(w)
  BY <1>3, MovedIdle
<1>4. ASSUME pc'[w] \in {"pending", "fresh", "session", "verified", "filled"},
             loc'[w].request = loc[w].request, loc'[w].doc = loc[w].doc, loc'[w].via = loc[w].via,
             loc'[w].signed = loc[w].signed,
             pc'[w] = "session" => loc'[w].attrs # 0,
             pc'[w] \in {"verified", "filled"} => loc'[w].signed \in payload'[loc'[w].request]
      PROVE  Moved(w)
  <2>1. /\ loc'[w].request \in Request
        /\ req'[loc'[w].request].status # "NONE"
        /\ loc'[w].doc = req'[loc'[w].request].doc
        /\ loc'[w].via # "none"
        /\ loc'[w].signed \in payload'[loc'[w].request] \cup {0}
    BY <1>2, <1>4, GoesOn
  <2>2. pc'[w] \in Finishing /\ pc'[w] \notin BeforeSeal \cup AfterSeal
    BY <1>4 DEF Finishing, Checking, BeforeSeal, AfterSeal
  <2>3. Agrees(w)'
    BY <1>4, <2>1, <2>2 DEF Agrees
  <2>4. QED
    BY <1>4, <2>3 DEF Moved
<1>5. CASE ReloadToFinish(w) \/ CheckNoRecord(w)
  <2>1. \/ pc'[w] = "idle" /\ loc'[w] = NoLocal
        \/ pc'[w] \in {"pending", "fresh"} /\ loc'[w] = loc[w]
    BY <1>5 DEF ReloadToFinish, CheckNoRecord, Return, Goto, Typed
  <2>2. QED
    BY <1>3, <1>4, <2>1
<1>6. CASE ReadSession(w)
  <2> DEFINE n == session[loc[w].request].attrs
  <2>1. \/ pc'[w] = "idle" /\ loc'[w] = NoLocal
        \/ /\ pc'[w] = "session" /\ loc'[w] = [loc[w] EXCEPT !.attrs = n]
           /\ session[loc[w].request].status = "PREPARED"
    BY <1>6 DEF ReadSession, Return, Goto, Typed
  <2>2. CASE /\ pc'[w] = "session" /\ loc'[w] = [loc[w] EXCEPT !.attrs = n]
             /\ session[loc[w].request].status = "PREPARED"
    <3>1. loc[w].request \in Request
      BY <1>2, Handler DEF Checking
    <3>2. n # 0
      BY <2>2, <3>1 DEF SessionPrepared
    <3>3. /\ loc'[w].request = loc[w].request /\ loc'[w].doc = loc[w].doc
          /\ loc'[w].via = loc[w].via /\ loc'[w].signed = loc[w].signed
          /\ loc'[w].attrs = n
      BY <1>1, <2>2 DEF Local
    <3>4. QED
      BY <1>4, <2>2, <3>2, <3>3
  <2>3. QED
    BY <1>3, <2>1, <2>2
<1>7. CASE VerifySignature(w)
  <2>1. \/ pc'[w] = "idle" /\ loc'[w] = NoLocal
        \/ /\ pc'[w] = "verified" /\ loc'[w] = loc[w] /\ UNCHANGED payload
           /\ pc[w] = "session" /\ loc[w].signed = loc[w].attrs
    BY <1>7 DEF VerifySignature, Return, Goto, Typed
  <2>2. pc[w] = "session" /\ loc[w].signed = loc[w].attrs => loc[w].signed \in payload[loc[w].request]
    BY <1>2 DEF Agrees
  <2>3. QED
    BY <1>3, <1>4, <2>1, <2>2
<1>8. CASE ReadPrepared(w)
  <2>1. /\ pc'[w] = "filled" /\ pc[w] = "verified" /\ UNCHANGED payload
        /\ loc'[w] = [loc[w] EXCEPT !.pdf = session[loc[w].request].pdf]
    BY <1>8 DEF ReadPrepared, Goto, Typed
  <2>2. /\ loc'[w].request = loc[w].request /\ loc'[w].doc = loc[w].doc
        /\ loc'[w].via = loc[w].via /\ loc'[w].signed = loc[w].signed
    BY <1>1, <2>1 DEF Local
  <2>3. loc'[w].signed \in payload'[loc'[w].request]
    BY <1>2, <2>1, <2>2 DEF Agrees
  <2>4. QED
    BY <1>4, <2>1, <2>2, <2>3
<1>9. QED
  BY <1>5, <1>6, <1>7, <1>8

\* The handlers that save what they finished, and what follows.
LEMMA FinishMoves ==
  ASSUME IInv, Keeps, NEW w \in Worker,
         \/ SaveDocument(w) \/ CreateRecord(w) \/ SealRequest(w) \/ CompleteSession(w)
         \/ LookupApproval(w) \/ CreateApproval(w) \/ Consume(w)
  PROVE  Moved(w)
<1> USE DEF IInv
<1> DEFINE r == loc[w].request
<1>1. loc[w] \in Local
  BY DEF Typed
<1>2. pc[w] \in Finishing /\ Agrees(w) /\ r \in Request
  <2>1. pc[w] \in Finishing
    BY DEF SaveDocument, CreateRecord, SealRequest, CompleteSession, LookupApproval, CreateApproval,
           Consume, Goto, Finishing, Checking, BeforeSeal, AfterSeal
  <2>2. QED
    BY <2>1, AgreesAll, Handler DEF Finishing, Checking, BeforeSeal, AfterSeal
<1>3. ASSUME pc'[w] = "idle", loc'[w] = NoLocal PROVE Moved(w)
  BY <1>3, MovedIdle
<1>4. ASSUME pc'[w] \in {"docSaved", "recorded"} \cup AfterSeal,
             loc'[w].request = r, loc'[w].doc = loc[w].doc, loc'[w].via = loc[w].via,
             loc'[w].signed = loc[w].signed,
             pc'[w] = "docSaved" => /\ loc'[w].signed \in payload'[r]
                                    /\ doc'[loc[w].doc].current # <<>>,
             pc'[w] = "recorded" => record'[r].exists,
             pc'[w] \in AfterSeal => req'[r].status = "SIGNED"
      PROVE  Moved(w)
  <2>1. /\ req'[r].status # "NONE"
        /\ loc'[w].doc = req'[r].doc
        /\ loc'[w].via # "none"
    BY <1>2, <1>4, GoesOn
  <2>2. pc'[w] \in Finishing /\ pc'[w] # "issue"
    BY <1>4 DEF Finishing, BeforeSeal, AfterSeal
  <2>3. Agrees(w)'
    BY <1>2, <1>4, <2>1, <2>2 DEF Agrees, Checking, BeforeSeal, AfterSeal
  <2>4. QED
    BY <1>4, <2>2, <2>3 DEF Moved
<1>5. CASE SaveDocument(w)
  <2>1. /\ pc[w] = "filled" /\ pc'[w] = "docSaved" /\ UNCHANGED payload
        /\ loc'[w] = [loc[w] EXCEPT !.digest = session[r].attrs]
    BY <1>5 DEF SaveDocument, Goto, Typed
  <2>2. /\ loc'[w].request = r /\ loc'[w].doc = loc[w].doc
        /\ loc'[w].via = loc[w].via /\ loc'[w].signed = loc[w].signed
    BY <1>1, <2>1 DEF Local
  <2>3. loc[w].signed \in payload[r] /\ loc[w].doc \in Document
    BY <1>2, <2>1, Handler DEF Agrees
  <2>4. doc'[loc[w].doc].current # <<>>
    BY <1>5, <2>3 DEF SaveDocument, Typed
  <2>5. QED
    BY <1>4, <2>1, <2>2, <2>3, <2>4 DEF AfterSeal
<1>6. CASE CreateRecord(w)
  <2>1. \/ pc'[w] = "idle" /\ loc'[w] = NoLocal
        \/ pc'[w] = "recorded" /\ loc'[w] = loc[w] /\ record'[r].exists
    BY <1>2, <1>6 DEF CreateRecord, Return, Goto, Typed
  <2>2. QED
    BY <1>3, <1>4, <2>1 DEF AfterSeal
<1>7. CASE SealRequest(w)
  <2>1. pc'[w] = "sealed" /\ loc'[w] = loc[w] /\ req'[r].status = "SIGNED"
    <3>1. req'[r] = [req[r] EXCEPT !.status = "SIGNED", !.used = TRUE,
                                   !.token = FALSE, !.lapsed = FALSE]
      BY <1>2, <1>7 DEF SealRequest, Typed
    <3>2. req[r] \in RequestRow
      BY <1>2 DEF Typed
    <3>3. req'[r].status = "SIGNED"
      BY <3>1, <3>2 DEF RequestRow
    <3>4. QED
      BY <1>7, <3>3 DEF SealRequest, Goto, Typed
  <2>2. QED
    BY <1>4, <2>1 DEF AfterSeal
<1>8. CASE CompleteSession(w) \/ LookupApproval(w) \/ CreateApproval(w)
  <2>1. /\ pc[w] \in AfterSeal /\ loc'[w] = loc[w]
        /\ pc'[w] \in {"completed", "approvalCreate", "consume"}
    BY <1>8 DEF CompleteSession, LookupApproval, CreateApproval, Goto, Typed, AfterSeal
  <2>2. req'[r].status = "SIGNED"
    BY <1>2, <2>1 DEF Agrees, Keeps
  <2>3. QED
    BY <1>4, <2>1, <2>2 DEF AfterSeal
<1>9. CASE Consume(w)
  BY <1>3, <1>9 DEF Consume, Return, Typed
<1>10. QED
  BY <1>5, <1>6, <1>7, <1>8, <1>9

\* Every step of a handler but the first and the insertion of a row.
LEMMA HandleMoves ==
  ASSUME IInv, Keeps, NEW w \in Worker, Handle(w), ~\E r \in Request : CreateRequest(w, r)
  PROVE  Moved(w)
BY PairingMoves, PrepareMoves, CheckMoves, FinishMoves DEF Handle

\* A step of one handler leaves the position of every other alone.
LEMMA OthersStay ==
  ASSUME Typed, NEW w \in Worker, Begin(w) \/ Handle(w) \/ Crash(w), NEW v \in Worker, v # w
  PROVE  pc'[v] = pc[v] /\ loc'[v] = loc[v]
<1> USE DEF Goto, Return, Typed
<1>1. CASE Begin(w)
  BY <1>1 DEF Begin, BeginCreate, BeginPairing, BeginConfirmation, BeginPrepare, BeginSubmit
<1>2. CASE \E r \in Request : CreateRequest(w, r)
  BY <1>2 DEF CreateRequest
<1>3. CASE IssueSession(w) \/ MarkPendingSign(w) \/ SavePairing(w) \/ SaveConfirmation(w)
  BY <1>3 DEF IssueSession, MarkPendingSign, SavePairing, SaveConfirmation
<1>4. CASE CheckUnsigned(w) \/ ReloadToPrepare(w) \/ LayOutPdf(w) \/ StoreSession(w) \/ StorePdf(w)
  BY <1>4 DEF CheckUnsigned, ReloadToPrepare, LayOutPdf, StoreSession, StorePdf
<1>5. CASE \/ ReloadToFinish(w) \/ CheckNoRecord(w) \/ ReadSession(w) \/ VerifySignature(w)
           \/ ReadPrepared(w)
  BY <1>5 DEF ReloadToFinish, CheckNoRecord, ReadSession, VerifySignature, ReadPrepared
<1>6. CASE SaveDocument(w) \/ CreateRecord(w) \/ SealRequest(w) \/ CompleteSession(w)
  BY <1>6 DEF SaveDocument, CreateRecord, SealRequest, CompleteSession
<1>7. CASE LookupApproval(w) \/ CreateApproval(w) \/ Consume(w)
  BY <1>7 DEF LookupApproval, CreateApproval, Consume
<1>8. CASE Crash(w)
  BY <1>8 DEF Crash
<1>9. QED
  BY <1>1, <1>2, <1>3, <1>4, <1>5, <1>6, <1>7, <1>8 DEF Handle

\* What the environment does beside crashes leaves all positions alone.
LEMMA EnvironmentStays ==
  ASSUME Environment, ~\E w \in Worker : Crash(w)
  PROVE  UNCHANGED <<pc, loc, executor, lost>>
BY DEF Environment, Expire, ChangeCertificate, ChangeOfficer, AskOfficer, OfficerSigns

\* A step moves one handler, or none.
LEMMA Movers ==
  ASSUME IInv, [Next]_vars
  PROVE  \/ UNCHANGED <<pc, loc, executor, lost>>
         \/ \E w \in Worker :
              /\ Begin(w) \/ Handle(w) \/ Crash(w)
              /\ \A v \in Worker \ {w} : pc'[v] = pc[v] /\ loc'[v] = loc[v]
<1>1. CASE UNCHANGED vars
  BY <1>1 DEF vars
<1>2. CASE \E w \in Worker : Begin(w) \/ Handle(w) \/ Crash(w)
  BY <1>2, OthersStay DEF IInv
<1>3. CASE Environment /\ ~\E w \in Worker : Crash(w)
  BY <1>3, EnvironmentStays
<1>4. QED
  BY <1>1, <1>2, <1>3 DEF Next

\* A handler is in agreement after every step, and comes to issue a pairing
\* session only by inserting the row.
LEMMA AgreesStep ==
  ASSUME IInv, [Next]_vars, NEW v \in Worker
  PROVE  /\ Agrees(v)'
         /\ pc'[v] = "issue" => \/ pc[v] = "issue" /\ loc'[v] = loc[v]
                                \/ \E r \in Request : /\ CreateRequest(v, r)
                                                      /\ loc'[v].request = r
                                                      /\ req'[r].pairing = "NOT_STARTED"
<1>1. Keeps
  BY KeepsStep
<1>2. CASE pc'[v] = pc[v] /\ loc'[v] = loc[v]
  BY <1>1, <1>2, AgreesKept
<1>3. ASSUME Begin(v) PROVE Agrees(v)' /\ pc'[v] # "issue"
  BY <1>3, BeginAgrees
<1>4. ASSUME Crash(v) PROVE Agrees(v)' /\ pc'[v] # "issue"
  <2>1. pc'[v] = "idle" /\ loc'[v] = NoLocal
    BY <1>4 DEF Crash, Return, IInv, Typed
  <2>2. QED
    BY <2>1, MovedIdle DEF Moved
<1>5. ASSUME Handle(v), ~\E r \in Request : CreateRequest(v, r)
      PROVE  Agrees(v)' /\ pc'[v] # "issue"
  BY <1>1, <1>5, HandleMoves DEF Moved
<1>6. ASSUME NEW r \in Request, CreateRequest(v, r)
      PROVE  /\ Agrees(v)' /\ loc'[v].request = r /\ req'[r].pairing = "NOT_STARTED"
  BY <1>6, CreateAgrees
<1>7. QED
  BY <1>2, <1>3, <1>4, <1>5, <1>6, Movers

\* Two handlers never issue the pairing session of the same request.
LEMMA SoleIssuerStep == IInv /\ [Next]_vars => SoleIssuer'
<1> SUFFICES ASSUME IInv, [Next]_vars, NEW v \in Worker, NEW w \in Worker, v # w,
                    pc'[v] = "issue", pc'[w] = "issue", loc'[v].request = loc'[w].request
             PROVE  FALSE
  BY DEF SoleIssuer
<1>1. ASSUME NEW x \in Worker, NEW y \in Worker, x # y,
             NEW r \in Request, CreateRequest(x, r), loc'[x].request = r,
             pc[y] = "issue", loc'[y] = loc[y], loc'[x].request = loc'[y].request
      PROVE  FALSE
  <2>1. req[r].status = "NONE"
    BY <1>1 DEF CreateRequest
  <2>2. req[loc[y].request].status # "NONE"
    BY <1>1, Handler DEF IInv
  <2>3. QED
    BY <1>1, <2>1, <2>2
<1>2. ASSUME NEW q \in Request, NEW r \in Request, CreateRequest(v, q), CreateRequest(w, r)
      PROVE  FALSE
  <2>1. pc' = [pc EXCEPT ![v] = "issue"] /\ pc[w] = "create"
    BY <1>2 DEF CreateRequest, Goto
  <2>2. QED
    BY <2>1 DEF IInv, Typed
<1>3. QED
  BY <1>1, <1>2, AgreesStep DEF IInv, SoleIssuer

\* A row waits unissued for the handler that issues its pairing session.
LEMMA IssuerStep == IInv /\ [Next]_vars => IssuerAgrees'
<1> SUFFICES ASSUME IInv, [Next]_vars, NEW v \in Worker, pc'[v] = "issue"
             PROVE  req'[loc'[v].request].pairing = "NOT_STARTED"
  BY DEF IssuerAgrees
<1>1. CASE \E r \in Request : /\ CreateRequest(v, r)
                              /\ loc'[v].request = r
                              /\ req'[r].pairing = "NOT_STARTED"
  BY <1>1
<1>2. CASE pc[v] = "issue" /\ loc'[v] = loc[v]
  <2> DEFINE r == loc[v].request
  <2>1. r \in Request /\ req[r].status # "NONE" /\ req[r].pairing = "NOT_STARTED"
    BY <1>2, AgreesAll DEF IInv, Agrees, IssuerAgrees
  <2>2. ~req[r].confirmed
    BY <2>1 DEF IInv, Unissued
  <2>3. ASSUME NEW w \in Worker, IssueSession(w), loc[w].request = r PROVE FALSE
    <3>1. pc[w] = "issue" /\ pc' = [pc EXCEPT ![w] = "mark"]
      BY <2>3 DEF IssueSession, Goto
    <3>2. w = v
      BY <1>2, <2>3, <3>1 DEF IInv, SoleIssuer
    <3>3. QED
      BY <3>1, <3>2 DEF IInv, Typed
  <2>4. RowStep(r)
    BY <2>1, RowSteps
  <2>5. req'[r].pairing = "NOT_STARTED"
    BY <2>1, <2>2, <2>3, <2>4 DEF RowStep, CreatedRow, PairedRow, SealedRow, ConsumedRow, AgedRow
  <2>6. QED
    BY <1>2, <2>5
<1>3. QED
  BY <1>1, <1>2, AgreesStep

\* HandlersAgree is preserved.
LEMMA HandlersStep == IInv /\ [Next]_vars => HandlersAgree'
<1> SUFFICES ASSUME IInv, [Next]_vars PROVE HandlersAgree'
  OBVIOUS
<1>1. \A v \in Worker : Agrees(v)'
  BY AgreesStep
<1>2. IssuerAgrees'
  BY IssuerStep
<1>3. QED
  BY <1>1, <1>2 DEF HandlersAgree, Agrees, IssuerAgrees, Signed

\* A confirmation that the portal gave to a request which exists is not taken back.
LEMMA ConfirmationKept ==
  ASSUME IInv, [Next]_vars, NEW r \in Request, req[r].status # "NONE", req[r].confirmed
  PROVE  req'[r].confirmed
<1>1. RowStep(r) /\ req[r].pairing # "NOT_STARTED"
  BY RowSteps DEF IInv, Unissued
<1>2. QED
  BY <1>1 DEF RowStep, CreatedRow, IssuedRow, PairedRow, SealedRow, ConsumedRow, AgedRow

\* A handler that comes from the local signer works on a confirmed request.
LEMMA LoginConfirmed ==
  ASSUME IInv, [Next]_vars, NEW v \in Worker, loc'[v].via = "app"
  PROVE  req'[loc'[v].request].confirmed
<1> USE DEF IInv
<1>1. Agrees(v) /\ Keeps
  BY AgreesAll, KeepsStep
<1>2. ASSUME loc'[v].via = loc[v].via, loc'[v].request = loc[v].request
      PROVE  req'[loc'[v].request].confirmed
  <2>1. pc[v] \in Preparing \cup Finishing
    BY <1>1, <1>2 DEF Agrees
  <2>2. loc[v].request \in Request /\ req[loc[v].request].status # "NONE"
    BY <1>1, <2>1 DEF Agrees, Preparing, Finishing, Checking, BeforeSeal, AfterSeal
  <2>3. req[loc[v].request].confirmed
    BY <1>2 DEF ConfirmedFirst
  <2>4. QED
    BY <1>2, <2>2, <2>3, ConfirmationKept
<1>3. CASE Begin(v)
  <2>1. loc'[v].request \in Request /\ req[loc'[v].request].confirmed /\ UNCHANGED req
    BY <1>3, BeginAgrees, ReadersQuiet DEF Quiet
  <2>2. QED
    BY <2>1
<1>4. CASE Crash(v)
  BY <1>4 DEF Crash, Return, Typed, NoLocal
<1>5. CASE \E r \in Request : CreateRequest(v, r)
  BY <1>5, CreateAgrees
<1>6. CASE Handle(v) /\ ~\E r \in Request : CreateRequest(v, r)
  <2>1. Moved(v)
    BY <1>1, <1>6, HandleMoves
  <2>2. QED
    BY <1>2, <2>1 DEF Moved
<1>7. QED
  BY <1>2, <1>3, <1>4, <1>5, <1>6, Movers

\* ConfirmedFirst is preserved.
LEMMA ConfirmedStep == IInv /\ [Next]_vars => ConfirmedFirst'
<1> SUFFICES ASSUME IInv, [Next]_vars PROVE ConfirmedFirst'
  OBVIOUS
<1>1. ASSUME NEW r \in Request, req'[r].pairing \in {"CONFIRMED", "CONSUMED"}
      PROVE  req'[r].confirmed
  <2>1. RowStep(r)
    BY RowSteps
  <2>2. req[r].pairing \in {"CONFIRMED", "CONSUMED"} => req[r].confirmed
    BY DEF IInv, ConfirmedFirst
  <2>3. QED
    BY <1>1, <2>1, <2>2 DEF RowStep, CreatedRow, IssuedRow, PairedRow, SealedRow, ConsumedRow,
                            AgedRow
<1>2. \A v \in Worker : loc'[v].via = "app" => req'[loc'[v].request].confirmed
  BY LoginConfirmed
<1>3. QED
  BY <1>1, <1>2 DEF ConfirmedFirst

\* A job belongs to its handler: no step of another one ends it.
LEMMA JobKept ==
  ASSUME Typed, NEW w \in Worker, executor = w,
         NEW v \in Worker, v # w, Begin(v) \/ Handle(v) \/ Crash(v)
  PROVE  executor' = w
<1> USE DEF Typed, Job, StartJob, InJob, EndJob
<1>1. w # None
  BY Constants
<1>2. CASE Begin(v)
  BY <1>2 DEF Begin, BeginCreate, BeginPairing, BeginConfirmation, BeginPrepare, BeginSubmit
<1>3. CASE \E r \in Request : CreateRequest(v, r)
  BY <1>3 DEF CreateRequest
<1>4. CASE IssueSession(v) \/ MarkPendingSign(v) \/ SavePairing(v) \/ SaveConfirmation(v)
  BY <1>4 DEF IssueSession, MarkPendingSign, SavePairing, SaveConfirmation
<1>5. CASE CheckUnsigned(v) \/ ReloadToPrepare(v) \/ LayOutPdf(v) \/ StoreSession(v) \/ StorePdf(v)
  BY <1>1, <1>5 DEF CheckUnsigned, ReloadToPrepare, LayOutPdf, StoreSession, StorePdf
<1>6. CASE \/ ReloadToFinish(v) \/ CheckNoRecord(v) \/ ReadSession(v) \/ VerifySignature(v)
           \/ ReadPrepared(v)
  BY <1>1, <1>6 DEF ReloadToFinish, CheckNoRecord, ReadSession, VerifySignature, ReadPrepared
<1>7. CASE SaveDocument(v) \/ CreateRecord(v) \/ SealRequest(v) \/ CompleteSession(v)
  BY <1>1, <1>7 DEF SaveDocument, CreateRecord, SealRequest, CompleteSession
<1>8. CASE LookupApproval(v) \/ CreateApproval(v) \/ Consume(v)
  BY <1>8 DEF LookupApproval, CreateApproval, Consume
<1>9. CASE Crash(v)
  BY <1>9 DEF Crash
<1>10. QED
  BY <1>2, <1>3, <1>4, <1>5, <1>6, <1>7, <1>8, <1>9 DEF Handle

\* The history of lost requests grows, by the one whose handler dies in between.
LEMMA LostSteps ==
  ASSUME [Next]_vars
  PROVE  /\ lost \subseteq lost'
         /\ \A w \in Worker : Crash(w) /\ pc[w] = "recorded" => loc[w].request \in lost'
<1>1. ASSUME NEW w \in Worker, Crash(w)
      PROVE  lost \subseteq lost' /\ (pc[w] = "recorded" => loc[w].request \in lost')
  BY <1>1 DEF Crash, BeforeSeal
<1>2. CASE UNCHANGED lost
  BY <1>1, <1>2
<1>3. QED
  BY <1>1, <1>2, Writers, WriterFrames, EnvironmentFrames DEF Quiet

\* The handler that holds a record without a seal keeps it, seals the request or dies.
LEMMA OwnerSteps ==
  ASSUME IInv, [Next]_vars, NEW w \in Worker, executor = w, pc[w] = "recorded"
  PROVE  \/ executor' = w /\ pc'[w] = "recorded" /\ loc'[w] = loc[w]
         \/ req'[loc[w].request].status = "SIGNED"
         \/ loc[w].request \in lost'
<1> USE DEF IInv
<1>1. loc[w].request \in Request
  BY Handler
<1>2. CASE UNCHANGED <<pc, loc, executor>>
  BY <1>2
<1>3. ASSUME NEW v \in Worker, Begin(v) \/ Handle(v) \/ Crash(v), v # w
      PROVE  executor' = w /\ pc'[w] = "recorded" /\ loc'[w] = loc[w]
  BY <1>3, JobKept, OthersStay
<1>4. ~Begin(w)
  BY DEF Begin, BeginCreate, BeginPairing, BeginConfirmation, BeginPrepare, BeginSubmit, Goto
<1>5. ASSUME Handle(w) PROVE req'[loc[w].request].status = "SIGNED"
  <2>1. SealRequest(w)
    <3>1. /\ ~\E r \in Request : CreateRequest(w, r)
          /\ ~IssueSession(w) /\ ~MarkPendingSign(w) /\ ~SavePairing(w) /\ ~SaveConfirmation(w)
      BY DEF CreateRequest, IssueSession, MarkPendingSign, SavePairing, SaveConfirmation, Goto
    <3>2. ~CheckUnsigned(w) /\ ~ReloadToPrepare(w) /\ ~LayOutPdf(w) /\ ~StoreSession(w) /\ ~StorePdf(w)
      BY DEF CheckUnsigned, ReloadToPrepare, LayOutPdf, StoreSession, StorePdf, Goto
    <3>3. /\ ~ReloadToFinish(w) /\ ~CheckNoRecord(w) /\ ~ReadSession(w) /\ ~VerifySignature(w)
          /\ ~ReadPrepared(w)
      BY DEF ReloadToFinish, CheckNoRecord, ReadSession, VerifySignature, ReadPrepared, Goto
    <3>4. /\ ~SaveDocument(w) /\ ~CreateRecord(w) /\ ~CompleteSession(w)
          /\ ~LookupApproval(w) /\ ~CreateApproval(w) /\ ~Consume(w)
      BY DEF SaveDocument, CreateRecord, CompleteSession, LookupApproval, CreateApproval, Consume,
             Goto
    <3>5. QED
      BY <1>5, <3>1, <3>2, <3>3, <3>4 DEF Handle
  <2>2. req'[loc[w].request] = [req[loc[w].request] EXCEPT !.status = "SIGNED", !.used = TRUE,
                                                          !.token = FALSE, !.lapsed = FALSE]
    BY <1>1, <2>1 DEF SealRequest, Typed
  <2>3. QED
    BY <1>1, <2>2 DEF Typed, RequestRow
<1>6. ASSUME Crash(w) PROVE loc[w].request \in lost'
  BY <1>6, LostSteps
<1>7. QED
  BY <1>2, <1>3, <1>4, <1>5, <1>6, Movers

\* UnfinishedIsOwned is preserved.
LEMMA OwnedStep == IInv /\ [Next]_vars => UnfinishedIsOwned'
<1> SUFFICES ASSUME IInv, [Next]_vars, NEW r \in Request,
                    record'[r].exists, req'[r].status # "SIGNED"
             PROVE  \/ r \in lost'
                    \/ \E w \in Worker : executor' = w /\ pc'[w] = "recorded" /\ loc'[w].request = r
  BY DEF UnfinishedIsOwned, Signed
<1>1. RecordStep(r) /\ Keeps
  BY RecordSteps, KeepsStep
<1>2. CASE ~record[r].exists
  BY <1>1, <1>2 DEF RecordStep
<1>3. CASE record[r].exists
  <2>1. req[r].status # "SIGNED"
    BY <1>1 DEF Keeps
  <2>2. \/ r \in lost
        \/ \E w \in Worker : executor = w /\ pc[w] = "recorded" /\ loc[w].request = r
    BY <1>3, <2>1 DEF IInv, UnfinishedIsOwned, Signed
  <2>3. lost \subseteq lost'
    BY LostSteps
  <2>4. QED
    BY <2>2, <2>3, OwnerSteps
<1>4. QED
  BY <1>2, <1>3

-----------------------------------------------------------------------------
(***************************************************************************)
(* The invariant, and the properties it contains.                          *)
(***************************************************************************)

\* IInv holds at first.
LEMMA IInvInit == Init => IInv
<1> SUFFICES ASSUME Init PROVE IInv
  OBVIOUS
<1>1. Typed
  BY TypeInit
<1>2. \A r \in Request : req[r] = NoRow /\ session[r] = NoSession /\ record[r] = NoRecord
  BY DEF Init
<1>3. \A w \in Worker : pc[w] = "idle" /\ loc[w] = NoLocal
  BY DEF Init
<1>4. RowsComplete /\ Unissued /\ SessionPrepared /\ SignedIsWithdrawn /\ CompletedIsSigned
  BY <1>2 DEF RowsComplete, Unissued, SessionPrepared, SignedIsWithdrawn, CompletedIsSigned, Signed,
              NoRow, NoSession
<1>5. RecordVerified /\ RecordHasPdf /\ UnfinishedIsOwned
  BY <1>2 DEF RecordVerified, RecordHasPdf, UnfinishedIsOwned, NoRecord
<1>6. ConfirmedFirst /\ SoleIssuer
  BY <1>2, <1>3 DEF ConfirmedFirst, SoleIssuer, NoRow, NoLocal
<1>7. HandlersAgree
  BY <1>3 DEF HandlersAgree, NoLocal, Preparing, Finishing, Checking, BeforeSeal, AfterSeal
<1>8. QED
  BY <1>1, <1>4, <1>5, <1>6, <1>7 DEF IInv

\* And every step preserves it.
LEMMA IInvStep == IInv /\ [Next]_vars => IInv'
<1> SUFFICES ASSUME IInv, [Next]_vars PROVE IInv'
  OBVIOUS
<1>1. Typed' /\ RowsComplete' /\ HandlersAgree' /\ SoleIssuer'
  BY TypeStep, RowsCompleteStep, HandlersStep, SoleIssuerStep
<1>2. Unissued' /\ SessionPrepared' /\ SignedIsWithdrawn' /\ ConfirmedFirst'
  BY UnissuedStep, SessionPreparedStep, WithdrawnStep, ConfirmedStep
<1>3. RecordVerified' /\ RecordHasPdf' /\ UnfinishedIsOwned' /\ CompletedIsSigned'
  BY VerifiedStep, HasPdfStep, OwnedStep, CompletedStep
<1>4. QED
  BY <1>1, <1>2, <1>3 DEF IInv

\* The inductive invariant holds in every reachable state.
THEOREM Invariance == Spec => []IInv
BY IInvInit, IInvStep, PTL DEF Spec

\* Every variable keeps its type, and the foreign keys of the rows are set.
THEOREM TypeCorrect == Spec => []TypeOK
<1>1. IInv => TypeOK
  BY DEF IInv, TypeOK
<1>2. QED
  BY <1>1, Invariance, PTL

\* A handler relies on nothing that the others take away from under it.
THEOREM Agreement == Spec => []HandlersAgree
BY Invariance, PTL DEF IInv

\* SIGNED, used and recorded go together, and a consumed session is withdrawn.
THEOREM Withdrawn == Spec => []SignedIsWithdrawn
BY Invariance, PTL DEF IInv

\* The local signer works only on what was confirmed in the portal.
THEOREM Confirmed == Spec => []ConfirmedFirst
BY Invariance, PTL DEF IInv

\* A recorded signature covers attributes handed out for its own request.
THEOREM Verified == Spec => []RecordVerified
BY Invariance, PTL DEF IInv

\* The document of a recorded signature has a signed PDF.
THEOREM HasPdf == Spec => []RecordHasPdf
BY Invariance, PTL DEF IInv

\* A record without a SIGNED request has a job that is sealing it, or had one.
THEOREM Owned == Spec => []UnfinishedIsOwned
BY Invariance, PTL DEF IInv

\* A session is completed only after its request.
THEOREM Completed == Spec => []CompletedIsSigned
BY Invariance, PTL DEF IInv

-----------------------------------------------------------------------------
(***************************************************************************)
(* The two halves of the signature implement OneShotSigning.               *)
(***************************************************************************)

\* A request without a record has nothing in the place of its record.
Blank == \A r \in Request : ~record[r].exists => record[r] = NoRecord

\* Blank is an invariant.
LEMMA BlankInvariant == Spec => []Blank
<1>1. Init => Blank
  BY DEF Init, Blank
<1>2. IInv /\ Blank /\ [Next]_vars => Blank'
  BY RecordSteps DEF Blank, RecordStep
<1>3. QED
  BY <1>1, <1>2, Invariance, PTL DEF Spec

\* Records are inserted one at a time, and nothing else happens meanwhile.
LEMMA RecordWrites ==
  ASSUME IInv, [Next]_vars
  PROVE  \/ UNCHANGED record
         \/ \E r \in Request :
              /\ ~record[r].exists
              /\ \E row \in RecordRow : row.exists /\ record' = [record EXCEPT ![r] = row]
              /\ UNCHANGED req
<1> USE DEF IInv
<1>1. ASSUME NEW w \in Worker, CreateRecord(w), record' # record
      PROVE  \E r \in Request :
               /\ ~record[r].exists
               /\ \E row \in RecordRow : row.exists /\ record' = [record EXCEPT ![r] = row]
               /\ UNCHANGED req
  <2> DEFINE l == loc[w]
             row == [exists |-> TRUE, attrs |-> l.signed, digest |-> l.digest]
  <2>1. l.request \in Request
    BY <1>1, Handler DEF CreateRecord
  <2>2. row \in RecordRow /\ row.exists
    BY LocalFields DEF RecordRow
  <2>3. ~record[l.request].exists /\ record' = [record EXCEPT ![l.request] = row] /\ UNCHANGED req
    BY <1>1 DEF CreateRecord
  <2>4. QED
    BY <2>1, <2>2, <2>3
<1>2. ASSUME NEW w \in Worker, WritesOther(w), ~CreateRecord(w) PROVE UNCHANGED record
  BY <1>2, WriterFrames DEF WritesOther
<1>3. QED
  BY <1>1, <1>2, Writers, WriterFrames, EnvironmentFrames DEF Quiet

\* Requests are sealed one at a time, when they have a record.
LEMMA SealWrites ==
  ASSUME IInv, [Next]_vars
  PROVE  \/ \A r \in Request : (req'[r].status = "SIGNED") <=> (req[r].status = "SIGNED")
         \/ \E r \in Request :
              /\ record[r].exists /\ UNCHANGED record
              /\ req'[r].status = "SIGNED"
              /\ \A q \in Request \ {r} : req'[q] = req[q]
<1> USE DEF IInv
<1>1. CASE \E w \in Worker : SealRequest(w)
  <2>1. PICK w \in Worker : SealRequest(w)
    BY <1>1
  <2> DEFINE r == loc[w].request
  <2>2. r \in Request /\ record[r].exists /\ UNCHANGED record
    BY <2>1, Handler DEF SealRequest, Goto, HandlersAgree, BeforeSeal
  <2>3. req' = [req EXCEPT ![r] = [@ EXCEPT !.status = "SIGNED", !.used = TRUE,
                                            !.token = FALSE, !.lapsed = FALSE]]
    BY <2>1 DEF SealRequest
  <2>4. req'[r].status = "SIGNED" /\ \A q \in Request \ {r} : req'[q] = req[q]
    BY <2>2, <2>3 DEF Typed, RequestRow
  <2>5. QED
    BY <2>2, <2>4
<1>2. CASE ~\E w \in Worker : SealRequest(w)
  <2>1. ASSUME NEW w \in Worker, WritesRequest(w), NEW r \in Request
        PROVE  (req'[r].status = "SIGNED") <=> (req[r].status = "SIGNED")
    BY <1>2, <2>1, RequestWrite
       DEF CreatedRow, IssuedRow, PairedRow, ConsumedRow, SameRequest
  <2>2. ASSUME NEW q \in Request, Expire(q), NEW r \in Request
        PROVE  (req'[r].status = "SIGNED") <=> (req[r].status = "SIGNED")
    BY <2>2 DEF Expire, Typed, RequestRow
  <2>3. QED
    BY <2>1, <2>2, Writers, WriterFrames, EnvironmentFrames DEF Quiet
<1>3. QED
  BY <1>1, <1>2

\* Every step commits a signature, closes a request or does nothing that
\* OneShotSigning sees.
LEMMA RefinementStep ==
  ASSUME IInv, Blank, [Next]_vars
  PROVE  [Abstract!Next]_Abstract!vars
<1> DEFINE sig == [r \in Request |-> SignatureOf(record[r])]
           closedSet == {r \in Request : Signed(r)}
<1> USE DEF IInv
<1>1. ASSUME NEW r \in Request, ~record[r].exists, UNCHANGED req,
             NEW row \in RecordRow, row.exists, record' = [record EXCEPT ![r] = row]
      PROVE  Abstract!Commit(r)
  <2>1. sig[r] = SignatureOf(NoRecord)
    BY <1>1 DEF Blank
  <2>2. record'[r] = row /\ \A q \in Request \ {r} : record'[q] = record[q]
    BY <1>1 DEF Typed
  <2>3. sig'[r] \in [exists : {TRUE}, attrs : Run]
    BY <1>1, <2>2 DEF SignatureOf, RecordRow
  <2>4. \A q \in Request \ {r} : sig'[q] = sig[q]
    BY <2>2
  <2>5. closedSet' = closedSet
    BY <1>1 DEF Signed
  <2>6. QED
    BY <2>1, <2>3, <2>4, <2>5 DEF Abstract!Commit
<1>2. ASSUME NEW r \in Request, record[r].exists, UNCHANGED record,
             req'[r].status = "SIGNED", \A q \in Request \ {r} : req'[q] = req[q]
      PROVE  Abstract!Close(r)
  <2>1. closedSet' = closedSet \cup {r}
    BY <1>2 DEF Signed
  <2>2. sig[r] # SignatureOf(NoRecord) /\ sig' = sig
    BY <1>2 DEF SignatureOf, NoRecord
  <2>3. QED
    BY <2>1, <2>2 DEF Abstract!Close
<1>3. ASSUME UNCHANGED record,
             \A r \in Request : (req'[r].status = "SIGNED") <=> (req[r].status = "SIGNED")
      PROVE  UNCHANGED Abstract!vars
  BY <1>3 DEF Abstract!vars, Signed
<1>4. QED
  BY <1>1, <1>2, <1>3, RecordWrites, SealWrites DEF Abstract!Next

\* Signing with a local key implements OneShotSigning: a request is signed at
\* most once, its signature is never replaced, and only signed requests are closed.
THEOREM Refinement == Spec => ImplementsOneShot
<1>1. Init => Abstract!Init
  BY DEF Init, Abstract!Init, Signed, NoRow
<1>2. QED
  BY <1>1, RefinementStep, Invariance, BlankInvariant, PTL
     DEF Spec, ImplementsOneShot, Abstract!Spec

-----------------------------------------------------------------------------
(***************************************************************************)
(* The PDF of a session and the one that is embedded.                      *)
(***************************************************************************)

\* A handler that has laid out a PDF and not yet stored all of it.
Laying(w) == pc[w] \in {"laidOut", "storing"}

\* The number of such a PDF is its own: nobody else has it, it has not been
\* handed out, and no later PDF gets it.
OwnRun(w) ==
  /\ loc[w].run <= prepared
  /\ \A r \in Request : loc[w].run \notin payload[r]
  /\ \A v \in Worker : Laying(v) /\ loc[v].run = loc[w].run => v = w
  /\ pc[w] = "storing" => loc[w].attrs = loc[w].run

\* The invariant behind HandedOutHasPdf.
Numbered ==
  /\ \A w \in Worker : Laying(w) => OwnRun(w)
  /\ \A r \in Request : \A n \in payload[r] : n <= prepared

\* What a finish has verified is what it embeds, as long as its session is left alone.
Verifying(w) ==
  /\ pc[w] \in {"session", "verified"} => loc[w].attrs = session[loc[w].request].attrs
  /\ pc[w] = "verified" => loc[w].signed = loc[w].attrs
  /\ pc[w] = "filled" => loc[w].pdf = loc[w].signed

\* A handler comes to these positions by one step each.
LEMMA Arrivals ==
  ASSUME Typed, NEW w \in Worker, Begin(w) \/ Handle(w) \/ Crash(w)
  PROVE  /\ pc'[w] = "laidOut" => LayOutPdf(w)
         /\ pc'[w] = "storing" => StoreSession(w)
         /\ pc'[w] = "session" => ReadSession(w)
         /\ pc'[w] = "verified" => VerifySignature(w)
         /\ pc'[w] = "filled" => ReadPrepared(w)
<1> DEFINE Others == {"idle", "pair", "confirm", "create", "issue", "mark", "prepare", "unsigned",
                      "reloaded", "submit", "pending", "fresh", "docSaved", "recorded", "sealed",
                      "completed", "approvalCreate", "consume"}
<1> USE DEF Goto, Return, Typed
<1>1. CASE Begin(w)
  <2>1. pc'[w] \in Others
    BY <1>1 DEF Begin, BeginCreate, BeginPairing, BeginConfirmation, BeginPrepare, BeginSubmit
  <2>2. QED
    BY <2>1
<1>2. CASE \/ \E r \in Request : CreateRequest(w, r)
           \/ IssueSession(w) \/ MarkPendingSign(w) \/ SavePairing(w) \/ SaveConfirmation(w)
           \/ Crash(w)
  <2>1. pc'[w] \in Others
    BY <1>2 DEF CreateRequest, IssueSession, MarkPendingSign, SavePairing, SaveConfirmation, Crash
  <2>2. QED
    BY <2>1
<1>3. CASE \/ CheckUnsigned(w) \/ ReloadToPrepare(w) \/ StorePdf(w)
           \/ ReloadToFinish(w) \/ CheckNoRecord(w)
  <2>1. pc'[w] \in Others
    BY <1>3 DEF CheckUnsigned, ReloadToPrepare, StorePdf, ReloadToFinish, CheckNoRecord
  <2>2. QED
    BY <2>1
<1>4. CASE SaveDocument(w) \/ CreateRecord(w) \/ SealRequest(w) \/ CompleteSession(w)
  <2>1. pc'[w] \in Others
    BY <1>4 DEF SaveDocument, CreateRecord, SealRequest, CompleteSession
  <2>2. QED
    BY <2>1
<1>5. CASE LookupApproval(w) \/ CreateApproval(w) \/ Consume(w)
  <2>1. pc'[w] \in Others
    BY <1>5 DEF LookupApproval, CreateApproval, Consume
  <2>2. QED
    BY <2>1
<1>6. CASE LayOutPdf(w)
  BY <1>6 DEF LayOutPdf
<1>7. CASE StoreSession(w)
  BY <1>7 DEF StoreSession
<1>8. CASE ReadSession(w)
  BY <1>8 DEF ReadSession
<1>9. CASE VerifySignature(w)
  BY <1>9 DEF VerifySignature
<1>10. CASE ReadPrepared(w)
  BY <1>10 DEF ReadPrepared
<1>11. QED
  BY <1>1, <1>2, <1>3, <1>4, <1>5, <1>6, <1>7, <1>8, <1>9, <1>10 DEF Handle

\* Numbers are handed out by LayOutPdf only.
LEMMA PreparedSteps ==
  ASSUME IInv, [Next]_vars
  PROVE  UNCHANGED prepared \/ \E w \in Worker : LayOutPdf(w) /\ prepared' = prepared + 1
<1>1. CASE UNCHANGED vars
  BY <1>1 DEF vars
<1>2. CASE Environment
  BY <1>2 DEF Environment, Expire, ChangeCertificate, ChangeOfficer, AskOfficer, OfficerSigns, Crash
<1>3. ASSUME NEW w \in Worker, Begin(w) PROVE UNCHANGED prepared
  BY <1>3 DEF Begin, BeginCreate, BeginPairing, BeginConfirmation, BeginPrepare, BeginSubmit
<1>4. ASSUME NEW w \in Worker, Handle(w), ~LayOutPdf(w) PROVE UNCHANGED prepared
  <2>1. CASE WritesRequest(w)
    BY <2>1 DEF WritesRequest, CreateRequest, IssueSession, SavePairing, SaveConfirmation,
                SealRequest, Consume
  <2>2. CASE WritesOther(w)
    BY <2>2 DEF WritesOther, MarkPendingSign, SaveDocument, StoreSession, StorePdf, CompleteSession,
                CreateRecord
  <2>3. CASE \/ CheckUnsigned(w) \/ ReloadToPrepare(w) \/ ReloadToFinish(w) \/ CheckNoRecord(w)
             \/ ReadSession(w)
    BY <2>3 DEF CheckUnsigned, ReloadToPrepare, ReloadToFinish, CheckNoRecord, ReadSession
  <2>4. CASE VerifySignature(w) \/ ReadPrepared(w) \/ LookupApproval(w) \/ CreateApproval(w)
    BY <2>4 DEF VerifySignature, ReadPrepared, LookupApproval, CreateApproval
  <2>5. QED
    BY <1>4, <2>1, <2>2, <2>3, <2>4 DEF Handle, WritesRequest, WritesOther
<1>5. ASSUME NEW w \in Worker, LayOutPdf(w)
      PROVE  UNCHANGED prepared \/ prepared' = prepared + 1
  BY <1>5 DEF LayOutPdf
<1>6. QED
  BY <1>1, <1>2, <1>3, <1>4, <1>5 DEF Next

\* Attributes are handed out by StorePdf only, those of the PDF it has stored.
LEMMA HandingOut ==
  ASSUME IInv, [Next]_vars
  PROVE  \/ UNCHANGED payload
         \/ \E w \in Worker :
              /\ StorePdf(w) /\ loc[w].request \in Request /\ pc'[w] = "idle"
              /\ payload' = [payload EXCEPT ![loc[w].request] = @ \cup {loc[w].attrs}]
<1> USE DEF IInv
<1>1. ASSUME NEW w \in Worker, StorePdf(w)
      PROVE  \/ UNCHANGED payload
             \/ /\ loc[w].request \in Request /\ pc'[w] = "idle"
                /\ payload' = [payload EXCEPT ![loc[w].request] = @ \cup {loc[w].attrs}]
  <2>1. loc[w].request \in Request
    BY <1>1, Handler DEF StorePdf
  <2>2. QED
    BY <1>1, <2>1 DEF StorePdf, Return, Typed
<1>2. QED
  BY <1>1, Writers, WriterFrames, EnvironmentFrames DEF Quiet, WritesOther

\* A handler that is laying out a PDF has just made it, or stays, or goes on with it.
LEMMA LayingSteps ==
  ASSUME IInv, [Next]_vars, NEW w \in Worker, Laying(w)'
  PROVE  \/ /\ Laying(w) /\ loc'[w].run = loc[w].run
            /\ pc'[w] = "storing" => \/ pc[w] = "storing" /\ loc'[w].attrs = loc[w].attrs
                                     \/ loc'[w].attrs = loc'[w].run
         \/ LayOutPdf(w) /\ pc'[w] = "laidOut" /\ loc'[w].run = prepared + 1 /\ prepared' = prepared + 1
<1> USE DEF IInv
<1>1. CASE pc'[w] = pc[w] /\ loc'[w] = loc[w]
  BY <1>1 DEF Laying
<1>2. CASE Begin(w) \/ Handle(w) \/ Crash(w)
  <2>1. CASE LayOutPdf(w)
    BY <2>1, LocalFields DEF LayOutPdf, Goto, Return, Typed, Local, Laying
  <2>2. CASE StoreSession(w)
    BY <2>2, LocalFields DEF StoreSession, Goto, Typed, Local, Laying
  <2>3. QED
    BY <1>2, <2>1, <2>2, Arrivals DEF Laying
<1>3. QED
  BY <1>1, <1>2, Movers

\* Numbered holds at first.
LEMMA NumberedInit == Init => Numbered
BY DEF Init, Numbered, Laying

\* And every step preserves it.
LEMMA NumberedStep == IInv /\ Numbered /\ [Next]_vars => Numbered'
<1> SUFFICES ASSUME IInv, Numbered, [Next]_vars PROVE Numbered'
  OBVIOUS
<1> USE DEF IInv
<1>1. /\ prepared \in Nat /\ prepared' \in Nat /\ prepared <= prepared'
      /\ \A w \in Worker : loc[w].run \in Nat
      /\ \A r \in Request : payload'[r] \subseteq Nat
  <2>1. Typed /\ Typed'
    BY TypeStep
  <2>2. prepared \in Nat /\ prepared' \in Nat
    BY <2>1, RunFacts DEF Typed
  <2>3. prepared <= prepared'
    BY <2>2, PreparedSteps
  <2>4. \A w \in Worker : loc[w].run \in Nat
    BY <2>1, RunFacts, LocalFields
  <2>5. \A r \in Request : payload'[r] \subseteq Nat
    BY <2>1, RunFacts DEF Typed
  <2>6. QED
    BY <2>2, <2>3, <2>4, <2>5
<1>2. \A r \in Request : \A n \in payload'[r] :
        n \in payload[r] \/ \E v \in Worker : StorePdf(v) /\ Laying(v) /\ ~Laying(v)' /\ n = loc[v].run
  <2>1. ASSUME NEW v \in Worker, StorePdf(v), pc'[v] = "idle", loc[v].request \in Request,
               payload' = [payload EXCEPT ![loc[v].request] = @ \cup {loc[v].attrs}],
               NEW r \in Request, NEW n \in payload'[r]
        PROVE  n \in payload[r] \/ (Laying(v) /\ ~Laying(v)' /\ n = loc[v].run)
    BY <2>1 DEF StorePdf, Laying, Numbered, OwnRun, Typed
  <2>2. QED
    BY <2>1, HandingOut
<1>3. \A r \in Request : \A n \in payload'[r] : n <= prepared
  BY <1>1, <1>2 DEF Numbered, OwnRun
<1>4. ASSUME NEW w \in Worker, Laying(w)' PROVE OwnRun(w)'
  <2>1. CASE /\ Laying(w) /\ loc'[w].run = loc[w].run
             /\ pc'[w] = "storing" => \/ pc[w] = "storing" /\ loc'[w].attrs = loc[w].attrs
                                      \/ loc'[w].attrs = loc'[w].run
    <3>1. OwnRun(w)
      BY <2>1 DEF Numbered
    <3>2. loc'[w].run <= prepared' /\ (pc'[w] = "storing" => loc'[w].attrs = loc'[w].run)
      BY <1>1, <2>1, <3>1 DEF OwnRun
    <3>3. ASSUME NEW r \in Request PROVE loc'[w].run \notin payload'[r]
      BY <1>2, <1>4, <2>1, <3>1 DEF OwnRun
    <3>4. ASSUME NEW v \in Worker, Laying(v)', loc'[v].run = loc'[w].run PROVE v = w
      <4>1. CASE Laying(v) /\ loc'[v].run = loc[v].run
        BY <2>1, <3>1, <3>4, <4>1 DEF OwnRun
      <4>2. CASE loc'[v].run = prepared + 1
        BY <1>1, <2>1, <3>1, <3>4, <4>2 DEF OwnRun
      <4>3. QED
        BY <3>4, <4>1, <4>2, LayingSteps
    <3>5. QED
      BY <3>2, <3>3, <3>4 DEF OwnRun, Laying
  <2>2. CASE /\ LayOutPdf(w) /\ pc'[w] = "laidOut"
             /\ loc'[w].run = prepared + 1 /\ prepared' = prepared + 1
    <3>1. \A r \in Request : loc'[w].run \notin payload'[r]
      BY <1>1, <1>3, <2>2
    <3>2. ASSUME NEW v \in Worker, Laying(v)', v # w PROVE loc'[v].run # prepared + 1
      <4>1. pc'[v] = pc[v] /\ loc'[v] = loc[v]
        BY <2>2, <3>2, OthersStay DEF Handle
      <4>2. loc[v].run <= prepared
        BY <3>2, <4>1 DEF Laying, Numbered, OwnRun
      <4>3. QED
        BY <1>1, <4>1, <4>2
    <3>3. QED
      BY <1>1, <2>2, <3>1, <3>2 DEF OwnRun, Laying
  <2>3. QED
    BY <1>4, <2>1, <2>2, LayingSteps
<1>5. \A r \in Request : \A n \in payload'[r] : n <= prepared'
  BY <1>1, <1>3
<1>6. QED
  BY <1>4, <1>5 DEF Numbered, Laying, OwnRun

\* A session's attributes and PDF change when a handler stores them.
LEMMA Storing ==
  ASSUME IInv, [Next]_vars, NEW r \in Request
  PROVE  \/ session'[r].attrs = session[r].attrs /\ session'[r].pdf = session[r].pdf
         \/ \E w \in Worker :
              /\ StoreSession(w) /\ loc[w].request = r
              /\ session'[r].attrs = loc[w].run /\ UNCHANGED payload
         \/ \E w \in Worker :
              /\ StorePdf(w) /\ loc[w].request = r
              /\ session'[r].attrs = loc[w].attrs /\ session'[r].pdf = loc[w].run
<1> USE DEF IInv
<1>1. session \in [Request -> SessionRow] /\ loc \in [Worker -> Local]
  BY DEF Typed
<1>2. ASSUME NEW w \in Worker, StoreSession(w), session'[r] # session[r]
      PROVE  loc[w].request = r /\ session'[r].attrs = loc[w].run /\ UNCHANGED payload
  BY <1>1, <1>2 DEF StoreSession, SessionRow
<1>3. ASSUME NEW w \in Worker, StorePdf(w), session'[r] # session[r]
      PROVE  /\ loc[w].request = r
             /\ session'[r].attrs = loc[w].attrs /\ session'[r].pdf = loc[w].run
  BY <1>1, <1>3 DEF StorePdf
<1>4. ASSUME NEW w \in Worker, CompleteSession(w)
      PROVE  session'[r].attrs = session[r].attrs /\ session'[r].pdf = session[r].pdf
  BY <1>1, <1>4 DEF CompleteSession, SessionRow
<1>5. ASSUME NEW w \in Worker, WritesOther(w), ~StoreSession(w), ~StorePdf(w), ~CompleteSession(w)
      PROVE  UNCHANGED session
  BY <1>5, WriterFrames DEF WritesOther
<1>6. QED
  BY <1>2, <1>3, <1>4, <1>5, Writers, WriterFrames, EnvironmentFrames DEF Quiet

\* HandedOutHasPdf is preserved.
LEMMA HandedOutStep == IInv /\ Numbered /\ HandedOutHasPdf /\ [Next]_vars => HandedOutHasPdf'
<1> SUFFICES ASSUME IInv, Numbered, HandedOutHasPdf, [Next]_vars,
                    NEW r \in Request, session'[r].attrs \in payload'[r]
             PROVE  session'[r].pdf = session'[r].attrs
  BY DEF HandedOutHasPdf
<1>1. \A w \in Worker : StorePdf(w) => loc[w].attrs = loc[w].run
  BY DEF Numbered, OwnRun, Laying, StorePdf
<1>2. \A w \in Worker : StoreSession(w) => loc[w].run \notin payload[r]
  BY DEF Numbered, OwnRun, Laying, StoreSession, Goto
<1>3. CASE session'[r].attrs = session[r].attrs /\ session'[r].pdf = session[r].pdf
  <2>1. CASE session[r].attrs \in payload[r]
    BY <1>3, <2>1 DEF HandedOutHasPdf
  <2>2. CASE session[r].attrs \notin payload[r]
    <3>1. PICK w \in Worker : /\ StorePdf(w) /\ loc[w].request \in Request
                              /\ payload' = [payload EXCEPT ![loc[w].request] = @ \cup {loc[w].attrs}]
      BY <1>3, <2>2, HandingOut
    <3>2. loc[w].request = r
      BY <1>3, <2>2, <3>1 DEF IInv, Typed
    <3>3. session'[r].attrs = loc[w].attrs /\ session'[r].pdf = loc[w].run
      BY <3>1, <3>2 DEF StorePdf, IInv, Typed
    <3>4. QED
      BY <1>1, <3>1, <3>3
  <2>3. QED
    BY <2>1, <2>2
<1>4. QED
  BY <1>1, <1>2, <1>3, Storing

\* While a prepare of the request does not store, a finish reads its session
\* twice as it is, and embeds what it has verified.
LEMMA VerifyingStep ==
  ASSUME IInv, HandedOutHasPdf, SessionsApart, SessionsApart', [Next]_vars,
         NEW w \in Worker, Verifying(w)
  PROVE  Verifying(w)'
<1> DEFINE r == loc[w].request
<1> USE DEF IInv
<1>1. loc[w] \in Local /\ (pc[w] \notin {"idle", "create"} => r \in Request)
  BY Handler DEF Typed
<1>2. CASE pc'[w] = pc[w] /\ loc'[w] = loc[w]
  <2>1. ASSUME pc[w] \in {"session", "verified"}
        PROVE  session'[r].attrs = session[r].attrs
    <3>1. ASSUME NEW v \in Worker, StoreSession(v), loc[v].request = r PROVE FALSE
      <4>1. pc'[v] = "storing" /\ loc'[v].request = r
        BY <3>1 DEF StoreSession, Goto, Typed, Local
      <4>2. QED
        BY <1>2, <2>1, <4>1 DEF SessionsApart
    <3>2. ASSUME NEW v \in Worker, StorePdf(v), loc[v].request = r PROVE FALSE
      BY <2>1, <3>2 DEF SessionsApart, StorePdf
    <3>3. QED
      BY <1>1, <2>1, <3>1, <3>2, Storing
  <2>2. QED
    BY <1>2, <2>1 DEF Verifying
<1>3. CASE Begin(w) \/ Handle(w) \/ Crash(w)
  <2>1. CASE ReadSession(w)
    BY <1>1, <2>1 DEF ReadSession, Goto, Return, dbVars, Typed, Local, Verifying
  <2>2. CASE VerifySignature(w)
    BY <1>1, <2>2 DEF VerifySignature, Goto, Return, dbVars, Typed, Verifying
  <2>3. CASE ReadPrepared(w)
    <3>1. r \in Request /\ loc[w].signed \in payload[r]
      BY <1>1, <2>3 DEF ReadPrepared, Goto, HandlersAgree
    <3>2. loc[w].signed = session[r].attrs
      BY <2>3 DEF ReadPrepared, Goto, Verifying
    <3>3. session[r].pdf = loc[w].signed
      BY <3>1, <3>2 DEF HandedOutHasPdf
    <3>4. pc'[w] = "filled" /\ loc'[w].signed = loc[w].signed /\ loc'[w].pdf = session[r].pdf
      BY <1>1, <2>3 DEF ReadPrepared, Goto, Typed, Local
    <3>5. QED
      BY <3>3, <3>4 DEF Verifying
  <2>4. QED
    BY <1>3, <2>1, <2>2, <2>3, Arrivals DEF Verifying
<1>4. QED
  BY <1>2, <1>3, Movers

\* A finish that has filled in what it verified embeds a signature that verifies.
LEMMA EmbeddedStep ==
  IInv /\ (\A w \in Worker : Verifying(w)) /\ EmbeddedVerifies /\ [Next]_vars => EmbeddedVerifies'
<1> SUFFICES ASSUME IInv, \A w \in Worker : Verifying(w), EmbeddedVerifies, [Next]_vars
             PROVE  EmbeddedVerifies'
  OBVIOUS
<1> USE DEF IInv
<1> DEFINE Good(s) == \A i \in DOMAIN s : s[i].attrs = s[i].bytes
<1>1. \A d \in Document : Good(doc[d].current) /\ doc[d].current \in Seq(Mark) /\ doc[d] \in DocumentRow
  BY DEF EmbeddedVerifies, Typed, DocumentRow, Pdf
<1> SUFFICES ASSUME NEW d \in Document, doc'[d] # doc[d]
             PROVE  Good(doc'[d].current)
  BY <1>1 DEF EmbeddedVerifies
<1>2. ASSUME NEW w \in Worker, MarkPendingSign(w) PROVE Good(doc'[d].current)
  BY <1>1, <1>2 DEF MarkPendingSign, DocumentRow, Typed
<1>3. ASSUME NEW w \in Worker, SaveDocument(w) PROVE Good(doc'[d].current)
  <2>1. loc[w].pdf = loc[w].signed
    BY <1>3 DEF SaveDocument, Goto, Verifying
  <2>2. doc'[d].current = <<[request |-> loc[w].request, bytes |-> loc[w].pdf,
                             attrs |-> loc[w].signed]>>
    BY <1>3 DEF SaveDocument, Typed
  <2>3. QED
    BY <2>1, <2>2
<1>4. ASSUME NEW e \in Document, OfficerSigns(e) PROVE Good(doc'[d].current)
  <2> DEFINE mark == [request |-> Officer, bytes |-> 0, attrs |-> 0]
  <2>1. doc'[d].current = Append(doc[d].current, mark)
    BY <1>4 DEF OfficerSigns, Typed
  <2>2. mark \in Mark
    BY RunFacts DEF Mark
  <2>3. QED
    BY <1>1, <2>1, <2>2
<1>5. QED
  BY <1>2, <1>3, <1>4, Writers, WriterFrames, EnvironmentFrames DEF Quiet, WritesOther

\* No handler dies between the row and the file of a session in such a way that
\* the local signer holds attributes without their PDF.
THEOREM HandedOut == Spec => []HandedOutHasPdf
<1>1. Init => HandedOutHasPdf
  BY DEF Init, HandedOutHasPdf
<1>2. QED
  BY <1>1, NumberedInit, NumberedStep, HandedOutStep, Invariance, PTL DEF Spec

\* Every embedded signature covers the PDF it is in, for any number of prepares
\* and finishes of any number of requests, if no prepare stores the session of a
\* request between the two reads of a finish of that request.
THEOREM NothingTorn == Spec /\ []SessionsApart => []EmbeddedVerifies
<1> DEFINE Exact == (\A w \in Worker : Verifying(w)) /\ EmbeddedVerifies
<1>1. Init => Exact
  BY DEF Init, Verifying, EmbeddedVerifies
<1>2. IInv /\ HandedOutHasPdf /\ SessionsApart /\ SessionsApart' /\ Exact /\ [Next]_vars => Exact'
  BY VerifyingStep, EmbeddedStep
<1>3. Exact => EmbeddedVerifies
  OBVIOUS
<1> HIDE DEF Exact
<1>4. QED
  BY <1>1, <1>2, <1>3, Invariance, HandedOut, PTL DEF Spec

\* ApartSpec has exactly the behaviours of the hypothesis.
THEOREM ApartBehaviours == ApartSpec <=> Spec /\ []SessionsApart
<1>1. Init => SessionsApart
  BY DEF Init, SessionsApart
<1>2. UNCHANGED vars => (SessionsApart => SessionsApart')
  BY DEF vars, SessionsApart
<1>3. QED
  BY <1>1, <1>2, PTL DEF Spec, ApartSpec
=============================================================================
