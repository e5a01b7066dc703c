--------------------------- MODULE ClientSigning ---------------------------
(***************************************************************************)
(* Signing with a key on the citizen's computer: the view that creates a   *)
(* client request, the pairing of the local signer                         *)
(* (signing/client_api_views.py, ConfirmClientPairingView), and the two    *)
(* halves of the PAdES signature, prepare and finish                       *)
(* (signing/pades_external_client_services.py).                            *)
(*                                                                         *)
(* Handlers are threads on an autocommit database, as in RemoteSigning,    *)
(* but the asynchronous halves hand their database calls to               *)
(* sync_to_async(thread_sensitive=True).  Under the WSGI server the        *)
(* repository runs, asgiref executes all of these on one thread of the     *)
(* process: such a call is a job, and jobs never overlap one another.      *)
(* Views and plain service code still interleave with them.                *)
(***************************************************************************)
EXTENDS Naturals, Sequences, FiniteSets

CONSTANTS
  Worker,       \* HTTP handler threads
  Request,      \* primary keys of SigningRequest rows with type CLIENT
  Document,     \* primary keys of Document rows, each of a verified citizen
  MaxPrepares,  \* bound: prepared PDFs
  MaxEvents,    \* bound: what the registration authority, the officer and the clock do
  MaxCrashes    \* bound: handlers that die or raise in the middle

None    == "none"
Officer == "officer"

ASSUME Constants ==
  /\ MaxPrepares \in Nat /\ MaxEvents \in Nat /\ MaxCrashes \in Nat
  /\ None \notin Request \cup Document \cup Worker
  /\ Officer \notin Request

VARIABLES
  req,        \* the SigningRequest rows
  session,    \* the ClientPadesSession row of each request
  record,     \* the SignatureRecord row of each request
  doc,        \* the Document rows
  approvals,  \* officer requests per document, and how many of them were signed
  active,     \* does the owner of the document have an ACTIVE certificate
  officer,    \* is there a verified officer with an active certificate
  payload,    \* the signed attributes the local signer received, per request
  prepared,   \* how many PDFs have been prepared: each has a digest of its own
  executor,   \* the handler whose job is on asgiref's single thread
  pc, loc,    \* where each worker is in its handler, and what it has read
  events, crashes,  \* what has been used up of the two bounds
  lost        \* history: requests whose handler died after the record, before the seal

dbVars  == <<req, session, record, doc, approvals>>
envVars == <<active, officer, events, crashes, lost>>
vars == <<req, session, record, doc, approvals, active, officer, payload, prepared,
          executor, pc, loc, events, crashes, lost>>

Run == 0..MaxPrepares   \* a prepared PDF; 0 stands for none of them

\* A signature in a PDF: whose, the prepared bytes it was put into, and the
\* signed attributes, which hold a digest of those bytes, that it was made over.
Mark == [request: Request \cup {Officer}, bytes: Run, attrs: Run]
Pdf  == Seq(Mark)

Pairing == {"NOT_STARTED", "WAITING_DEVICE", "DEVICE_PAIRED", "CONFIRMED", "CONSUMED", "EXPIRED"}

\* token, code: client_token and pairing_code_hash are set; lapsed: both are past
\* their ten minutes; confirmed: pairing_confirmed_at is set.
RequestRow == [status: {"NONE", "PENDING", "SIGNED"}, doc: Document \cup {None},
               used: BOOLEAN, expired: BOOLEAN, pairing: Pairing, token: BOOLEAN,
               code: BOOLEAN, lapsed: BOOLEAN, confirmed: BOOLEAN]
NoRow == [status |-> "NONE", doc |-> None, used |-> FALSE, expired |-> FALSE,
          pairing |-> "NOT_STARTED", token |-> FALSE, code |-> FALSE,
          lapsed |-> FALSE, confirmed |-> FALSE]

\* attrs: the digest, its pickled context and the signed attributes; pdf: the file.
SessionRow == [status: {"NONE", "PREPARED", "COMPLETED"}, attrs: Run, pdf: Run]
NoSession  == [status |-> "NONE", attrs |-> 0, pdf |-> 0]

\* attrs: what signature_value was made over; digest: signed_hash.
RecordRow == [exists: BOOLEAN, attrs: Run, digest: Run]
NoRecord  == [exists |-> FALSE, attrs |-> 0, digest |-> 0]

\* Every signed PDF gets a file name of its own, so the row stands for the file.
DocumentRow == [status: {"UPLOADED", "PENDING_SIGN", "SIGNED"}, current: Pdf]

Creating  == {"create", "issue", "mark"}
Preparing == {"prepare", "unsigned", "reloaded", "laidOut", "storing"}
Checking  == {"submit", "pending", "fresh", "session", "verified", "filled"}
BeforeSeal == {"recorded"}
AfterSeal  == {"sealed", "completed", "approvalCreate", "consume"}
Finishing  == Checking \cup {"docSaved"} \cup BeforeSeal \cup AfterSeal
PC == {"idle", "pair", "confirm"} \cup Creating \cup Preparing \cup Finishing

\* via: the local signer with its token, or the REST endpoint with a login;
\* run: the PDF a prepare has laid out; signed: what the submitted signature covers;
\* attrs, pdf, digest: what a finish has read of the session, at three times.
Local == [request: Request \cup {None}, doc: Document \cup {None},
          via: {"none", "app", "rest"}, expire: BOOLEAN, run: Run, signed: Run,
          attrs: Run, pdf: Run, digest: Run]
NoLocal == [request |-> None, doc |-> None, via |-> "none", expire |-> FALSE, run |-> 0,
            signed |-> 0, attrs |-> 0, pdf |-> 0, digest |-> 0]

Typed ==
  /\ req \in [Request -> RequestRow]
  /\ session \in [Request -> SessionRow]
  /\ record \in [Request -> RecordRow]
  /\ doc \in [Document -> DocumentRow]
  /\ approvals \in [Document -> [asked: Nat, signed: Nat]]
  /\ active \in [Document -> BOOLEAN]
  /\ officer \in BOOLEAN
  /\ payload \in [Request -> SUBSET Run]
  /\ prepared \in Run
  /\ executor \in Worker \cup {None}
  /\ pc \in [Worker -> PC]
  /\ loc \in [Worker -> Local]
  /\ events \in Nat /\ crashes \in Nat
  /\ lost \in SUBSET Request

\* A row that exists belongs to a document, and nothing precedes its row.
RowsComplete ==
  \A r \in Request : IF req[r].status = "NONE"
                       THEN session[r] = NoSession /\ record[r] = NoRecord
                       ELSE req[r].doc \in Document

\* Every variable has its type and the foreign keys of the rows are set.
TypeOK == Typed /\ RowsComplete

-----------------------------------------------------------------------------
RequestsOn(d) == {r \in Request : req[r].status # "NONE" /\ req[r].doc = d}

\* Bound: a view starts only while there is a primary key left for each of them.
RoomForRow == Cardinality({r \in Request : req[r].status = "NONE"})
                > Cardinality({w \in Worker : pc[w] = "create"})

\* Bound: a prepare starts only while there is a number left for its PDF.
RoomForPdf == prepared + Cardinality({w \in Worker : pc[w] \in {"prepare", "unsigned", "reloaded"}})
                < MaxPrepares

Goto(w, from, to) == pc[w] = from /\ pc' = [pc EXCEPT ![w] = to]

\* The handler of w returns or raises: its local state is gone.
Return(w) == /\ pc' = [pc EXCEPT ![w] = "idle"]
             /\ loc' = [loc EXCEPT ![w] = NoLocal]

\* A call through sync_to_async that is a job of one database statement.
Job == executor = None /\ UNCHANGED executor

\* A job of several statements holds the thread from its first to its last.
StartJob(w)  == executor = None /\ executor' = w
InJob(w)     == executor = w /\ UNCHANGED executor
EndJob(w)    == executor = w /\ executor' = None

Init ==
  /\ req = [r \in Request |-> NoRow]
  /\ session = [r \in Request |-> NoSession]
  /\ record = [r \in Request |-> NoRecord]
  /\ doc = [d \in Document |-> [status |-> "UPLOADED", current |-> <<>>]]
  /\ approvals = [d \in Document |-> [asked |-> 0, signed |-> 0]]
  /\ active \in [Document -> BOOLEAN]
  /\ officer \in BOOLEAN
  /\ payload = [r \in Request |-> {}]
  /\ prepared = 0
  /\ executor = None
  /\ pc = [w \in Worker |-> "idle"]
  /\ loc = [w \in Worker |-> NoLocal]
  /\ events = 0 /\ crashes = 0
  /\ lost = {}

-----------------------------------------------------------------------------
(***************************************************************************)
(* CreateClientSignRequestView.  The row exists before it can be paired.   *)
(***************************************************************************)

BeginCreate(w, d) ==
  /\ active[d]
  /\ ~\E r \in RequestsOn(d) : req[r].status = "PENDING"
  /\ RoomForRow
  /\ Goto(w, "idle", "create")
  /\ loc' = [loc EXCEPT ![w] = [NoLocal EXCEPT !.doc = d]]
  /\ UNCHANGED <<dbVars, envVars, payload, prepared, executor>>

\* Faulty: the document is left out.
CreateUnattached(w, r) ==
  /\ req[r].status = "NONE"
  /\ Goto(w, "create", "issue")
  /\ req' = [req EXCEPT ![r] = [NoRow EXCEPT !.status = "PENDING"]]
  /\ loc' = [loc EXCEPT ![w].request = r]
  /\ UNCHANGED <<session, record, doc, approvals, envVars, payload, prepared, executor>>

CreateRequest(w, r) ==
  /\ req[r].status = "NONE"
  /\ Goto(w, "create", "issue")
  /\ req' = [req EXCEPT ![r] = [NoRow EXCEPT !.status = "PENDING", !.doc = loc[w].doc]]
  /\ loc' = [loc EXCEPT ![w].request = r]
  /\ UNCHANGED <<session, record, doc, approvals, envVars, payload, prepared, executor>>

\* issue_client_pairing_session: a token and a pairing code, for ten minutes.
IssueSession(w) ==
  LET r == loc[w].request IN
  /\ Goto(w, "issue", "mark")
  /\ req' = [req EXCEPT ![r] = [@ EXCEPT !.token = TRUE, !.code = TRUE, !.lapsed = FALSE,
                                         !.pairing = "WAITING_DEVICE", !.confirmed = FALSE]]
  /\ UNCHANGED <<session, record, doc, approvals, loc, envVars, payload, prepared, executor>>

MarkPendingSign(w) ==
  /\ pc[w] = "mark"
  /\ doc' = [doc EXCEPT ![loc[w].doc].status = "PENDING_SIGN"]
  /\ Return(w)
  /\ UNCHANGED <<req, session, record, approvals, envVars, payload, prepared, executor>>

-----------------------------------------------------------------------------
(***************************************************************************)
(* Pairing: the row is read in one statement and saved in another.  That   *)
(* a later call comes from the paired device is a check of its device key, *)
(* which is not modelled.                                                  *)
(***************************************************************************)

\* pair_client_device, with the code the portal showed: any pairing status will do.
BeginPairing(w, r) ==
  /\ req[r].code /\ req[r].status = "PENDING"
  /\ Goto(w, "idle", "pair")
  /\ loc' = [loc EXCEPT ![w] = [NoLocal EXCEPT !.request = r, !.doc = req[r].doc,
                                               !.expire = req[r].lapsed]]
  /\ UNCHANGED <<dbVars, envVars, payload, prepared, executor>>

SavePairing(w) ==
  /\ pc[w] = "pair"
  /\ req' = [req EXCEPT ![loc[w].request].pairing =
               IF loc[w].expire THEN "EXPIRED" ELSE "DEVICE_PAIRED"]
  /\ Return(w)
  /\ UNCHANGED <<session, record, doc, approvals, envVars, payload, prepared, executor>>

\* ConfirmClientPairingView.
BeginConfirmation(w, r) ==
  /\ req[r].status = "PENDING" /\ ~req[r].used /\ ~req[r].expired
  /\ ~(req[r].token /\ req[r].lapsed)
  /\ req[r].pairing = "DEVICE_PAIRED"
  /\ Goto(w, "idle", "confirm")
  /\ loc' = [loc EXCEPT ![w] = [NoLocal EXCEPT !.request = r, !.doc = req[r].doc]]
  /\ UNCHANGED <<dbVars, envVars, payload, prepared, executor>>

SaveConfirmation(w) ==
  /\ pc[w] = "confirm"
  /\ req' = [req EXCEPT ![loc[w].request] = [@ EXCEPT !.pairing = "CONFIRMED", !.confirmed = TRUE]]
  /\ Return(w)
  /\ UNCHANGED <<session, record, doc, approvals, envVars, payload, prepared, executor>>

\* Faulty: a paired device is served before the signer has confirmed it.
ServesPaired(r) ==
  /\ req[r].token /\ ~req[r].lapsed
  /\ req[r].status = "PENDING" /\ ~req[r].used /\ ~req[r].expired
  /\ req[r].pairing \in {"DEVICE_PAIRED", "CONFIRMED"}

\* _get_request_by_client_session: what the local signer may work on.
Serves(r) ==
  /\ req[r].token /\ ~req[r].lapsed
  /\ req[r].status = "PENDING" /\ ~req[r].used /\ ~req[r].expired
  /\ req[r].pairing = "CONFIRMED"

\* The REST endpoints ask for the signer's login and a PENDING request only.
MayBegin(r, via) == IF via = "app" THEN Serves(r) ELSE req[r].status = "PENDING"

-----------------------------------------------------------------------------
(***************************************************************************)
(* prepare_client_signing_request: lay out a PDF and store its session.    *)
(***************************************************************************)

BeginPrepare(w, r, via) ==
  /\ MayBegin(r, via)
  /\ RoomForPdf
  /\ Goto(w, "idle", "prepare")
  /\ loc' = [loc EXCEPT ![w] = [NoLocal EXCEPT !.request = r, !.doc = req[r].doc, !.via = via]]
  /\ UNCHANGED <<dbVars, envVars, payload, prepared, executor>>

\* hasattr(signing_request, "signature_record").
CheckUnsigned(w) ==
  /\ pc[w] = "prepare"
  /\ IF record[loc[w].request].exists
       THEN Return(w)
       ELSE Goto(w, "prepare", "unsigned") /\ UNCHANGED loc
  /\ UNCHANGED <<dbVars, envVars, payload, prepared, executor>>

\* _reload_signing_request, in the thread of the handler.
ReloadToPrepare(w) ==
  /\ pc[w] = "unsigned"
  /\ IF req[loc[w].request].status # "PENDING"
       THEN Return(w)
       ELSE Goto(w, "unsigned", "reloaded") /\ UNCHANGED loc
  /\ UNCHANGED <<dbVars, envVars, payload, prepared, executor>>

\* The certificate of the signer, then the upload with an empty signature:
\* the PDF is laid out afresh, with a digest and signed attributes of its own.
LayOutPdf(w) ==
  /\ pc[w] = "reloaded"
  /\ Job
  /\ IF ~active[loc[w].doc]
       THEN Return(w) /\ UNCHANGED prepared
       ELSE /\ prepared < MaxPrepares   \* bound: BeginPrepare has made room
            /\ prepared' = prepared + 1
            /\ Goto(w, "reloaded", "laidOut")
            /\ loc' = [loc EXCEPT ![w].run = prepared + 1]
  /\ UNCHANGED <<dbVars, envVars, payload>>

\* _save_prepared_session: update_or_create (atomic in Django), without the file.
StoreSession(w) ==
  LET r == loc[w].request IN
  /\ StartJob(w)
  /\ Goto(w, "laidOut", "storing")
  /\ session' = [session EXCEPT ![r] = [@ EXCEPT !.status = "PREPARED", !.attrs = loc[w].run]]
  /\ loc' = [loc EXCEPT ![w].attrs = loc[w].run]
  /\ UNCHANGED <<req, record, doc, approvals, envVars, payload, prepared>>

\* Faulty: the file is written under its new name, the row keeps the old one.
StorePdfKeepingName(w) ==
  LET r == loc[w].request IN
  /\ pc[w] = "storing"
  /\ EndJob(w)
  /\ session' = [session EXCEPT ![r].status = "PREPARED", ![r].attrs = loc[w].attrs]
  /\ payload' \in {payload, [payload EXCEPT ![r] = @ \cup {loc[w].attrs}]}
  /\ Return(w)
  /\ UNCHANGED <<req, record, doc, approvals, envVars, prepared>>

\* Then the file, with a save of the whole instance.  The signed attributes go
\* out with the response, which the local signer may have stopped waiting for.
StorePdf(w) ==
  LET r == loc[w].request IN
  /\ pc[w] = "storing"
  /\ EndJob(w)
  /\ session' = [session EXCEPT ![r] = [status |-> "PREPARED", attrs |-> loc[w].attrs,
                                        pdf |-> loc[w].run]]
  /\ payload' \in {payload, [payload EXCEPT ![r] = @ \cup {loc[w].attrs}]}
  /\ Return(w)
  /\ UNCHANGED <<req, record, doc, approvals, envVars, prepared>>

-----------------------------------------------------------------------------
(***************************************************************************)
(* complete_client_signing_request, up to the signed PDF.                  *)
(***************************************************************************)

\* The signature covers attributes that were handed out, or (0) nothing of ours.
BeginSubmit(w, r, via, signed) ==
  /\ MayBegin(r, via)
  /\ signed \in payload[r] \cup {0}
  /\ Goto(w, "idle", "submit")
  /\ loc' = [loc EXCEPT ![w] = [NoLocal EXCEPT !.request = r, !.doc = req[r].doc,
                                               !.via = via, !.signed = signed]]
  /\ UNCHANGED <<dbVars, envVars, payload, prepared, executor>>

ReloadToFinish(w) ==
  /\ pc[w] = "submit"
  /\ IF req[loc[w].request].status # "PENDING"
       THEN Return(w)
       ELSE Goto(w, "submit", "pending") /\ UNCHANGED loc
  /\ UNCHANGED <<dbVars, envVars, payload, prepared, executor>>

CheckNoRecord(w) ==
  /\ pc[w] = "pending"
  /\ Job
  /\ IF record[loc[w].request].exists
       THEN Return(w)
       ELSE Goto(w, "pending", "fresh") /\ UNCHANGED loc
  /\ UNCHANGED <<dbVars, envVars, payload, prepared>>

ReadSession(w) ==
  LET r == loc[w].request IN
  /\ pc[w] = "fresh"
  /\ Job
  /\ IF session[r].status # "PREPARED"
       THEN Return(w)
       ELSE /\ Goto(w, "fresh", "session")
            /\ loc' = [loc EXCEPT ![w].attrs = session[r].attrs]
  /\ UNCHANGED <<dbVars, envVars, payload, prepared>>

\* Faulty: the signature is not verified.
ReadCertificateOnly(w) ==
  /\ pc[w] = "session"
  /\ Job
  /\ \/ Return(w)
     \/ /\ active[loc[w].doc]
        /\ Goto(w, "session", "verified")
        /\ UNCHANGED loc
  /\ UNCHANGED <<dbVars, envVars, payload, prepared>>

\* The certificate is active, and the signature verifies under it over the
\* signed attributes of the session.  A signature by another key does not.
VerifySignature(w) ==
  /\ pc[w] = "session"
  /\ Job
  /\ \/ Return(w)
     \/ /\ active[loc[w].doc]
        /\ loc[w].signed = loc[w].attrs
        /\ Goto(w, "session", "verified")
        /\ UNCHANGED loc
  /\ UNCHANGED <<dbVars, envVars, payload, prepared>>

\* _read_prepared_pdf_bytes loads the session a second time.
ReadPrepared(w) ==
  /\ Job
  /\ Goto(w, "verified", "filled")
  /\ loc' = [loc EXCEPT ![w].pdf = session[loc[w].request].pdf]
  /\ UNCHANGED <<dbVars, envVars, payload, prepared>>

-----------------------------------------------------------------------------
(***************************************************************************)
(* _save_finished_client_pades_result: one job of four writes.             *)
(***************************************************************************)

\* The rows are loaded once more (the session's digest goes into the record),
\* then the signed PDF replaces the current one, whatever that was.
SaveDocument(w) ==
  LET l == loc[w] IN
  /\ StartJob(w)
  /\ Goto(w, "filled", "docSaved")
  /\ doc' = [doc EXCEPT ![l.doc] =
               [status |-> "PENDING_SIGN",
                current |-> <<[request |-> l.request, bytes |-> l.pdf, attrs |-> l.signed]>>]]
  /\ loc' = [loc EXCEPT ![w].digest = session[l.request].attrs]
  /\ UNCHANGED <<req, session, record, approvals, envVars, payload, prepared>>

\* Faulty: update_or_create in the place of create.
UpdateOrCreateRecord(w) ==
  LET l == loc[w] IN
  /\ InJob(w)
  /\ Goto(w, "docSaved", "recorded")
  /\ record' = [record EXCEPT ![l.request] =
                  [exists |-> TRUE, attrs |-> l.signed, digest |-> l.digest]]
  /\ UNCHANGED <<req, session, doc, approvals, loc, envVars, payload, prepared>>

\* The one-to-one column refuses a second record, and the job ends in an exception.
CreateRecord(w) ==
  LET l == loc[w] IN
  /\ pc[w] = "docSaved"
  /\ IF record[l.request].exists
       THEN EndJob(w) /\ Return(w) /\ UNCHANGED record
       ELSE /\ InJob(w)
            /\ Goto(w, "docSaved", "recorded")
            /\ record' = [record EXCEPT ![l.request] =
                            [exists |-> TRUE, attrs |-> l.signed, digest |-> l.digest]]
            /\ UNCHANGED loc
  /\ UNCHANGED <<req, session, doc, approvals, envVars, payload, prepared>>

\* Faulty: used_at is left out.
SealStatusOnly(w) ==
  LET r == loc[w].request IN
  /\ InJob(w)
  /\ Goto(w, "recorded", "sealed")
  /\ req' = [req EXCEPT ![r] = [@ EXCEPT !.status = "SIGNED", !.token = FALSE, !.lapsed = FALSE]]
  /\ UNCHANGED <<session, record, doc, approvals, loc, envVars, payload, prepared>>

\* Faulty: the request is changed but not saved.
SealUnsaved(w) ==
  /\ InJob(w)
  /\ Goto(w, "recorded", "sealed")
  /\ UNCHANGED <<dbVars, loc, envVars, payload, prepared>>

SealRequest(w) ==
  LET r == loc[w].request IN
  /\ InJob(w)
  /\ Goto(w, "recorded", "sealed")
  /\ req' = [req EXCEPT ![r] = [@ EXCEPT !.status = "SIGNED", !.used = TRUE,
                                         !.token = FALSE, !.lapsed = FALSE]]
  /\ UNCHANGED <<session, record, doc, approvals, loc, envVars, payload, prepared>>

CompleteSession(w) ==
  /\ EndJob(w)
  /\ Goto(w, "sealed", "completed")
  /\ session' = [session EXCEPT ![loc[w].request].status = "COMPLETED"]
  /\ UNCHANGED <<req, record, doc, approvals, loc, envVars, payload, prepared>>

-----------------------------------------------------------------------------
(***************************************************************************)
(* What follows the signature, in the thread of the handler.               *)
(***************************************************************************)

\* Faulty: the condition is the wrong way round.
LookupInverted(w) ==
  /\ Goto(w, "completed",
          IF approvals[loc[w].doc].asked = 0 \/ ~officer THEN "consume" ELSE "approvalCreate")
  /\ UNCHANGED <<dbVars, loc, envVars, payload, prepared, executor>>

\* create_officer_approval_request_after_citizen_sign; the signer is the owner.
LookupApproval(w) ==
  /\ Goto(w, "completed",
          IF approvals[loc[w].doc].asked > 0 \/ ~officer THEN "consume" ELSE "approvalCreate")
  /\ UNCHANGED <<dbVars, loc, envVars, payload, prepared, executor>>

CreateApproval(w) ==
  /\ Goto(w, "approvalCreate", "consume")
  /\ approvals' = [approvals EXCEPT ![loc[w].doc].asked = @ + 1]
  /\ UNCHANGED <<req, session, record, doc, loc, envVars, payload, prepared, executor>>

\* submit_client_signature saves its own copy of the request; the REST view does not.
Consume(w) ==
  LET r == loc[w].request IN
  /\ pc[w] = "consume"
  /\ req' = IF loc[w].via = "rest" THEN req
            ELSE [req EXCEPT ![r] = [@ EXCEPT !.token = FALSE, !.code = FALSE, !.lapsed = FALSE,
                                              !.pairing = "CONSUMED", !.used = TRUE]]
  /\ Return(w)
  /\ UNCHANGED <<session, record, doc, approvals, envVars, payload, prepared, executor>>

-----------------------------------------------------------------------------
(***************************************************************************)
(* The environment.                                                        *)
(***************************************************************************)

Event == events < MaxEvents /\ events' = events + 1

\* A time limit passes: of the request, or of its token and code.
Expire(r) ==
  /\ Event
  /\ req[r].status = "PENDING"
  /\ \/ ~req[r].expired /\ req' = [req EXCEPT ![r].expired = TRUE]
     \/ req[r].token /\ ~req[r].lapsed /\ req' = [req EXCEPT ![r].lapsed = TRUE]
  /\ UNCHANGED <<session, record, doc, approvals, active, officer, payload, prepared,
                 executor, pc, loc, crashes, lost>>

\* The owner's certificate is revoked, or there is a new one.
ChangeCertificate(d) ==
  /\ Event
  /\ active' = [active EXCEPT ![d] = ~@]
  /\ UNCHANGED <<dbVars, officer, payload, prepared, executor, pc, loc, crashes, lost>>

ChangeOfficer ==
  /\ Event
  /\ officer' = ~officer
  /\ UNCHANGED <<dbVars, active, payload, prepared, executor, pc, loc, crashes, lost>>

\* The owner submits the document to the authority (RemoteSigning has the details).
AskOfficer(d) ==
  /\ Event
  /\ officer
  /\ approvals[d].asked = approvals[d].signed
  /\ approvals' = [approvals EXCEPT ![d].asked = @ + 1]
  /\ UNCHANGED <<req, session, record, doc, active, officer, payload, prepared,
                 executor, pc, loc, crashes, lost>>

\* The officer signs the current PDF (RemoteSigning has the details).
OfficerSigns(d) ==
  /\ Event
  /\ approvals[d].signed < approvals[d].asked
  /\ approvals' = [approvals EXCEPT ![d].signed = @ + 1]
  /\ doc' = [doc EXCEPT ![d] =
               [status |-> "SIGNED",
                current |-> Append(@.current, [request |-> Officer, bytes |-> 0, attrs |-> 0])]]
  /\ UNCHANGED <<req, session, record, active, officer, payload, prepared,
                 executor, pc, loc, crashes, lost>>

\* A handler dies or an unexpected exception ends it; its job ends with it.
Crash(w) ==
  /\ pc[w] # "idle"
  /\ crashes < MaxCrashes
  /\ crashes' = crashes + 1
  /\ lost' = IF pc[w] \in BeforeSeal THEN lost \cup {loc[w].request} ELSE lost
  /\ executor' = IF executor = w THEN None ELSE executor
  /\ Return(w)
  /\ UNCHANGED <<dbVars, active, officer, payload, prepared, events>>

-----------------------------------------------------------------------------
Handle(w) ==
  \/ \E r \in Request : CreateRequest(w, r)
  \/ IssueSession(w)
  \/ MarkPendingSign(w)
  \/ SavePairing(w)
  \/ SaveConfirmation(w)
  \/ CheckUnsigned(w)
  \/ ReloadToPrepare(w)
  \/ LayOutPdf(w)
  \/ StoreSession(w)
  \/ StorePdf(w)
  \/ ReloadToFinish(w)
  \/ CheckNoRecord(w)
  \/ ReadSession(w)
  \/ VerifySignature(w)
  \/ ReadPrepared(w)
  \/ SaveDocument(w)
  \/ CreateRecord(w)
  \/ SealRequest(w)
  \/ CompleteSession(w)
  \/ LookupApproval(w)
  \/ CreateApproval(w)
  \/ Consume(w)

Begin(w) ==
  \/ \E d \in Document : BeginCreate(w, d)
  \/ \E r \in Request : BeginPairing(w, r) \/ BeginConfirmation(w, r)
  \/ \E r \in Request, via \in {"app", "rest"} : BeginPrepare(w, r, via)
  \/ \E r \in Request, via \in {"app", "rest"}, signed \in Run : BeginSubmit(w, r, via, signed)

Environment ==
  \/ \E r \in Request : Expire(r)
  \/ \E d \in Document : ChangeCertificate(d) \/ AskOfficer(d) \/ OfficerSigns(d)
  \/ ChangeOfficer
  \/ \E w \in Worker : Crash(w)

Next == (\E w \in Worker : Begin(w) \/ Handle(w)) \/ Environment

Spec == Init /\ [][Next]_vars

\* A handler that has started runs on, and asgiref's thread serves the jobs in
\* the order they come: a handler waiting for it gets its turn.
Fairness == \A w \in Worker : SF_vars(Handle(w))

FairSpec == Spec /\ Fairness

(***************************************************************************)
(* The code has no lock between the two halves of the signature of one     *)
(* request.  This is the overlap that a lock would prevent: a prepare that *)
(* stores its session between the two reads of a finish.                   *)
(***************************************************************************)

SessionsApart ==
  \A v, w \in Worker :
    pc[v] = "storing" /\ pc[w] \in {"session", "verified"} => loc[v].request # loc[w].request

\* The behaviours in which this overlap does not happen.
ApartSpec == Init /\ [][Next /\ SessionsApart']_vars

FairApartSpec == ApartSpec /\ Fairness

-----------------------------------------------------------------------------
(***************************************************************************)
(* Invariants.                                                             *)
(***************************************************************************)

Signed(r) == req[r].status = "SIGNED"

\* A request is SIGNED exactly when it is used, and then it has its record; a
\* consumed session belongs to a SIGNED request and has no token and no code
\* left, in spite of the stale copies that handlers save around it.
SignedIsWithdrawn ==
  \A r \in Request :
    /\ Signed(r) <=> req[r].used
    /\ Signed(r) => record[r].exists
    /\ req[r].pairing = "CONSUMED" => Signed(r) /\ ~req[r].token /\ ~req[r].code

\* The local signer is served, and a session consumed, only after the signer
\* confirmed the pairing in the portal, however the saves of the pairing status
\* by three views are ordered.
ConfirmedFirst ==
  /\ \A r \in Request : req[r].pairing \in {"CONFIRMED", "CONSUMED"} => req[r].confirmed
  /\ \A w \in Worker : loc[w].via = "app" => req[loc[w].request].confirmed

\* A signature that is recorded was made over signed attributes the portal had
\* prepared for this very request.
RecordVerified ==
  \A r \in Request : record[r].exists => record[r].attrs \in payload[r]

\* A document with a recorded client signature has a signed PDF, wherever the
\* handler that recorded it has died.
RecordHasPdf ==
  \A r \in Request : record[r].exists => doc[req[r].doc].current # <<>>

\* A record without a SIGNED request belongs to the job that is finishing it,
\* unless the handler died there.
UnfinishedIsOwned ==
  \A r \in Request : record[r].exists /\ ~Signed(r) =>
    \/ r \in lost
    \/ \E w \in Worker : executor = w /\ pc[w] = "recorded" /\ loc[w].request = r

\* A session is COMPLETED only after its request is SIGNED.
CompletedIsSigned ==
  \A r \in Request : session[r].status = "COMPLETED" => Signed(r)

\* A session whose signed attributes were handed out holds the PDF they cover,
\* wherever the handlers died that stored its row in one statement and its file
\* in the next: attributes without their PDF never reach the local signer.
HandedOutHasPdf ==
  \A r \in Request : session[r].attrs \in payload[r] => session[r].pdf = session[r].attrs

\* What the position of a handler says about the tables, whatever the others
\* did meanwhile: its request exists; the code of a request that is being paired
\* was issued; a signature that goes on past the verification covers attributes
\* handed out for the request; a record and a signed PDF that the handler has
\* written, or the seal, are still there.
HandlersAgree ==
  \A w \in Worker :
    LET l == loc[w]
        r == l.request IN
    /\ pc[w] = "create" => l.doc \in Document
    /\ pc[w] \notin {"idle", "create"} => r \in Request /\ req[r].status # "NONE" /\ l.doc = req[r].doc
    /\ l.via # "none" <=> pc[w] \in Preparing \cup Finishing
    /\ pc[w] = "issue" => req[r].pairing = "NOT_STARTED"
    /\ pc[w] \in {"pair", "confirm"} => req[r].pairing # "NOT_STARTED"
    /\ pc[w] \in {"laidOut", "storing"} => l.run # 0
    /\ pc[w] \in {"storing", "session"} => l.attrs # 0
    /\ pc[w] \in Checking => l.signed \in payload[r] \cup {0}
    /\ pc[w] \in {"verified", "filled", "docSaved"} => l.signed \in payload[r]
    /\ pc[w] = "docSaved" => doc[l.doc].current # <<>>
    /\ pc[w] \in BeforeSeal => record[r].exists
    /\ pc[w] \in AfterSeal => Signed(r)

\* The CMS in the current PDF covers the bytes it was put into: the digest in
\* its signed attributes is the digest of the prepared PDF it fills.
EmbeddedVerifies ==
  \A d \in Document : \A i \in DOMAIN doc[d].current :
    doc[d].current[i].attrs = doc[d].current[i].bytes

-----------------------------------------------------------------------------
(***************************************************************************)
(* What a step may never do.                                               *)
(***************************************************************************)

SignatureOf(row) == [exists |-> row.exists, attrs |-> row.attrs]

Abstract == INSTANCE OneShotSigning WITH
  Signature   <- [exists : {TRUE}, attrs : Run],
  NoSignature <- SignatureOf(NoRecord),
  signature   <- [r \in Request |-> SignatureOf(record[r])],
  closed      <- {r \in Request : Signed(r)}

\* Each client request is signed at most once, for good, and before it is closed.
ImplementsOneShot == Abstract!Spec

-----------------------------------------------------------------------------
(***************************************************************************)
(* What must happen.                                                       *)
(***************************************************************************)

\* A recorded signature leads to a SIGNED request, unless its handler died.
RecordIsSealed ==
  \A r \in Request : record[r].exists ~> Signed(r) \/ r \in lost

\* A handler that recorded a signature leads to an officer's request on the
\* document, unless no officer was available meanwhile or a handler died.
ApprovalFollows ==
  \A w \in Worker, d \in Document :
    pc[w] = "recorded" /\ loc[w].doc = d ~> approvals[d].asked > 0 \/ ~officer \/ crashes > 0
=============================================================================
