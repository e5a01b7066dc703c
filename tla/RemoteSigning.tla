--------------------------- MODULE RemoteSigning ---------------------------
(***************************************************************************)
(* The remote signing of a document: the views that create a remote        *)
(* signing request (frontend/views.py), the service                        *)
(* remote_sign_signing_request (signing/services.py) and the sequential    *)
(* PAdES step it ends with (signing/pades_sequential_services.py).         *)
(*                                                                         *)
(* The portal runs one thread per HTTP request on a database in            *)
(* autocommit, without row locks and without transactions: every ORM       *)
(* statement commits on its own and two handlers interleave at every       *)
(* statement.  A worker is such a thread; its action is one statement (or  *)
(* one file or TSP access) of the handler it runs.  What a handler read    *)
(* earlier is its local state, and it may be stale when it is used.        *)
(***************************************************************************)
EXTENDS Naturals, Sequences, FiniteSets

CONSTANTS
  Worker,       \* HTTP handler threads
  Request,      \* primary keys of SigningRequest rows
  Document,     \* primary keys of Document rows
  Citizen,      \* users with role CITIZEN
  Officer,      \* users with role OFFICER: no view chooses an ADMIN as signer
  Owner,        \* the owner of each document
  MaxSerial,    \* bound: certificates issued per user
  MaxEvents,    \* bound: what the registration authority and the clock do
  MaxCrashes    \* bound: workers that die in the middle of a handler

User == Citizen \cup Officer

\* The names of the files that are not named after a signature record.
Original == "original"
Final    == "final"
None     == "none"

ASSUME Constants ==
  /\ Owner \in [Document -> User]
  /\ Citizen \cap Officer = {}
  /\ MaxSerial \in Nat /\ MaxEvents \in Nat /\ MaxCrashes \in Nat
  /\ Request \cap {Original, Final, None} = {}
  /\ None \notin User \cup Document

VARIABLES
  req,       \* the SigningRequest table
  record,    \* the SignatureRecord table, keyed by its unique signing request
  doc,       \* the Document table
  files,     \* the signed PDFs of each document under MEDIA_ROOT, by name
  user,      \* users and their UserCertificate row
  pc, loc,   \* where each worker is in its handler, and what it has read
  events, crashes,  \* what has been used up of the two bounds
  lost       \* history: requests whose worker died after the record, before the seal

dbVars == <<req, record, doc, files, user>>
envVars == <<events, crashes, lost>>
vars == <<req, record, doc, files, user, pc, loc, events, crashes, lost>>

(***************************************************************************)
(* Types.  A PDF is the sequence of the requests whose PAdES signature it  *)
(* embeds: signing appends an incremental update to the bytes it reads.    *)
(* A hash is the content it was computed from.                             *)
(***************************************************************************)
Pdf  == Seq(Request)
Path == Request \cup {Original, Final}

Purpose == {"CITIZEN_REMOTE_SIGN", "OFFICER_APPROVAL"}

\* status "NONE": there is no such row; expired: expires_at is in the past.
RequestRow == [status: {"NONE", "PENDING", "SIGNED"}, doc: Document \cup {None},
               signer: User \cup {None}, purpose: Purpose \cup {None},
               used: BOOLEAN, expired: BOOLEAN]
NoRow == [status |-> "NONE", doc |-> None, signer |-> None, purpose |-> None,
          used |-> FALSE, expired |-> FALSE]

\* serial: of the certificate the signature was made with; input: the bytes signed;
\* stamped: timestamp_status says valid, invalid or error.
RecordRow == [exists: BOOLEAN, serial: Nat, input: Pdf,
              stamped: BOOLEAN]
NoRecord  == [exists |-> FALSE, serial |-> 0, input |-> <<>>, stamped |-> FALSE]

DocumentRow == [status: {"UPLOADED", "PENDING_SIGN", "SIGNED"},
                current: Path \cup {None}, currentHash: Pdf,
                final: {Final, None}, finalHash: Pdf]

\* "lapsed": the row still says ACTIVE but valid_to is in the past.
UserRow == [verified: BOOLEAN, cert: {"none", "active", "lapsed", "revoked"},
            serial: Nat, keyRef: BOOLEAN]

BeforeRecord == {"loaded", "fresh", "certified", "input", "tspDone"}
BeforeSeal   == {"recorded", "stamped", "docSaved"}
AfterSeal    == {"sealed", "padesRead", "padesWritten", "padesHashed",
                 "finalHashed", "approval", "approvalCreate"}
Signing      == BeforeRecord \cup BeforeSeal \cup AfterSeal
Creating     == {"create", "mark"}
PC           == {"idle"} \cup Signing \cup Creating

\* kind, signer: the view that creates a request and the signer it chose;
\* read, current, final: the Document instance of the handler, once it is loaded;
\* serial, keyRef: the certificate it read; pdf: the bytes it holds;
\* hash, finalHash: the hashes it computed of its output file.
Local == [request: Request \cup {None}, doc: Document \cup {None},
          kind: {"none", "citizen", "officer", "authority"}, signer: User \cup {None},
          read: BOOLEAN, current: Path \cup {None}, final: {Final, None},
          serial: Nat, keyRef: BOOLEAN, pdf: Pdf, hash: Pdf, finalHash: Pdf]
NoLocal == [request |-> None, doc |-> None, kind |-> "none", signer |-> None,
            read |-> FALSE, current |-> None, final |-> None,
            serial |-> 0, keyRef |-> FALSE, pdf |-> <<>>, hash |-> <<>>, finalHash |-> <<>>]

Typed ==
  /\ req \in [Request -> RequestRow]
  /\ record \in [Request -> RecordRow]
  /\ doc \in [Document -> DocumentRow]
  /\ files \in [Document -> [Path -> Pdf]]
  /\ user \in [User -> UserRow]
  /\ pc \in [Worker -> PC]
  /\ loc \in [Worker -> Local]
  /\ events \in Nat /\ crashes \in Nat
  /\ lost \in SUBSET Request

\* A row that exists is complete, and a record has a row to belong to.
RowsComplete ==
  \A r \in Request :
    IF req[r].status = "NONE"
      THEN ~record[r].exists
      ELSE req[r].doc \in Document /\ req[r].signer \in User /\ req[r].purpose \in Purpose

\* Every variable has its type and the foreign keys of the rows are set.
TypeOK == Typed /\ RowsComplete

-----------------------------------------------------------------------------
(***************************************************************************)
(* Helper formulas.                                                        *)
(***************************************************************************)

\* get_document_input_path_for_signing: the latest signed PDF, else the upload.
InputPath(current, final) ==
  IF current # None THEN current ELSE IF final # None THEN final ELSE Original

\* The rows of the requests on document d.
RequestsOn(d) == {r \in Request : req[r].status # "NONE" /\ req[r].doc = d}

OfficerRequests(d) == {r \in RequestsOn(d) : req[r].signer \in Officer}

\* certificate_profile.status = ACTIVE in a query: valid_to is not looked at.
ActiveInDb(u) == user[u].cert \in {"active", "lapsed"}

\* One of these is what .filter(role=OFFICER, verified, active).first() returns.
AvailableOfficers == {o \in Officer : user[o].verified /\ ActiveInDb(o)}

\* _get_role_name = "officer": the owner signs as citizen whatever the role is.
SignsAsOfficer(r) == req[r].signer # Owner[req[r].doc] /\ req[r].signer \in Officer

OutputPath(r) == IF SignsAsOfficer(r) THEN Final ELSE r

\* Bound: a handler that may insert a row starts only while there is a primary
\* key left for every such handler.
MayInsert(w) == \/ pc[w] \in {"create", "approvalCreate"}
                \/ /\ pc[w] \in Signing
                   /\ req[loc[w].request].purpose = "CITIZEN_REMOTE_SIGN"
RoomForRow == Cardinality({r \in Request : req[r].status = "NONE"})
                > Cardinality({w \in Worker : MayInsert(w)})

Goto(w, from, to) == pc[w] = from /\ pc' = [pc EXCEPT ![w] = to]

\* The handler of w returns or raises: its local state is gone.
Return(w) == /\ pc' = [pc EXCEPT ![w] = "idle"]
             /\ loc' = [loc EXCEPT ![w] = NoLocal]

-----------------------------------------------------------------------------
NewUser   == [verified |-> FALSE, cert |-> "none", serial |-> 0, keyRef |-> FALSE]
ReadyUser == [verified |-> TRUE, cert |-> "active", serial |-> 1, keyRef |-> TRUE]

Init ==
  /\ req = [r \in Request |-> NoRow]
  /\ record = [r \in Request |-> NoRecord]
  /\ doc = [d \in Document |-> [status |-> "UPLOADED", current |-> None,
                                currentHash |-> <<>>, final |-> None,
                                finalHash |-> <<>>]]
  /\ files = [d \in Document |-> [p \in Path |-> <<>>]]
  /\ user \in [User -> {NewUser, ReadyUser}]
  /\ pc = [w \in Worker |-> "idle"]
  /\ loc = [w \in Worker |-> NoLocal]
  /\ events = 0 /\ crashes = 0
  /\ lost = {}

-----------------------------------------------------------------------------
(***************************************************************************)
(* The views that create a remote signing request.  Each reads the         *)
(* document, its checks and its queries first; the row and, in two of      *)
(* them, the status of the document are written after it.  A view that     *)
(* refuses changes nothing and is not an action.                           *)
(***************************************************************************)

OwnerMayRequest(d) == /\ Owner[d] \in Citizen
                      /\ user[Owner[d]].verified
                      /\ ActiveInDb(Owner[d])

BeginCreate(w, d, kind, signer) ==
  /\ RoomForRow
  /\ Goto(w, "idle", "create")
  /\ loc' = [loc EXCEPT ![w] = [NoLocal EXCEPT !.doc = d, !.kind = kind, !.signer = signer]]
  /\ UNCHANGED <<dbVars, envVars>>

\* CreateCitizenRemoteSignRequestView: the owner will sign with the remote key.
BeginCitizenRequest(w, d) ==
  /\ OwnerMayRequest(d)
  /\ ~\E r \in RequestsOn(d) : /\ req[r].signer = Owner[d]
                               /\ req[r].status = "PENDING"
                               /\ req[r].purpose = "CITIZEN_REMOTE_SIGN"
  /\ BeginCreate(w, d, "citizen", Owner[d])

\* CreateRemoteOfficerRequestView: an officer will approve.  Only a pending
\* request of the same officer stands in the way; no citizen signature is asked.
BeginOfficerRequest(w, d, o) ==
  /\ OwnerMayRequest(d)
  /\ o \in AvailableOfficers
  /\ ~\E r \in RequestsOn(d) : req[r].signer = o /\ req[r].status = "PENDING"
  /\ BeginCreate(w, d, "officer", o)

\* Faulty: forgets to look for a pending approval.
BeginAuthorityUnchecked(w, d, o) ==
  /\ doc[d].final = None
  /\ o \in AvailableOfficers
  /\ BeginCreate(w, d, "authority", o)

\* SubmitAuthoritySigningRequestView: any pending approval stands in the way.
BeginAuthorityRequest(w, d, o) ==
  /\ doc[d].final = None
  /\ ~\E r \in RequestsOn(d) : /\ req[r].purpose = "OFFICER_APPROVAL"
                               /\ req[r].status = "PENDING"
  /\ o \in AvailableOfficers
  /\ BeginCreate(w, d, "authority", o)

\* Faulty: forgets the signer.
NewRowUnassigned(d, signer, purpose) ==
  [NoRow EXCEPT !.status = "PENDING", !.doc = d, !.purpose = purpose]

NewRow(d, signer, purpose) ==
  [NoRow EXCEPT !.status = "PENDING", !.doc = d, !.signer = signer, !.purpose = purpose]

\* SigningRequest.objects.create(...) of the three views.
CreateRequest(w, r) ==
  LET l == loc[w] IN
  /\ pc[w] = "create"
  /\ req[r].status = "NONE"
  /\ req' = [req EXCEPT ![r] =
               NewRow(l.doc, l.signer, IF l.kind = "citizen" THEN "CITIZEN_REMOTE_SIGN"
                                                             ELSE "OFFICER_APPROVAL")]
  /\ IF l.kind = "authority" THEN Return(w)
                             ELSE /\ pc' = [pc EXCEPT ![w] = "mark"]
                                  /\ UNCHANGED loc
  /\ UNCHANGED <<record, doc, files, user, envVars>>

\* document.status = PENDING_SIGN, whatever the status was.
MarkPendingSign(w) ==
  /\ pc[w] = "mark"
  /\ doc' = [doc EXCEPT ![loc[w].doc].status = "PENDING_SIGN"]
  /\ Return(w)
  /\ UNCHANGED <<req, record, files, user, envVars>>

-----------------------------------------------------------------------------
(***************************************************************************)
(* remote_sign_signing_request, up to the signature record.                *)
(***************************************************************************)

\* The view loads the row and the signer; the service checks what was loaded.
\* preloaded: the API view selects the document with it, the page does not.
LoadRequest(w, r, preloaded) ==
  LET row == req[r] IN
  /\ row.status = "PENDING" /\ ~row.expired /\ ~row.used
  /\ row.signer \in Citizen => user[row.signer].verified
  /\ row.purpose = "CITIZEN_REMOTE_SIGN" => RoomForRow
  /\ Goto(w, "idle", "loaded")
  /\ loc' = [loc EXCEPT ![w] =
               [NoLocal EXCEPT !.request = r, !.doc = row.doc, !.read = preloaded,
                               !.current = IF preloaded THEN doc[row.doc].current ELSE None,
                               !.final = IF preloaded THEN doc[row.doc].final ELSE None]]
  /\ UNCHANGED <<dbVars, envVars>>

\* hasattr(signing_request, "signature_record") queries the record table.
CheckNoRecord(w) ==
  /\ pc[w] = "loaded"
  /\ IF record[loc[w].request].exists
       THEN Return(w)
       ELSE Goto(w, "loaded", "fresh") /\ UNCHANGED loc
  /\ UNCHANGED <<dbVars, envVars>>

\* The signer's certificate: it exists, is ACTIVE, and now is in its window.
ReadCertificate(w) ==
  LET u == user[req[loc[w].request].signer] IN
  /\ pc[w] = "fresh"
  /\ IF u.cert # "active"
       THEN Return(w)
       ELSE /\ Goto(w, "fresh", "certified")
            /\ loc' = [loc EXCEPT ![w].serial = u.serial, ![w].keyRef = u.keyRef]
  /\ UNCHANGED <<dbVars, envVars>>

\* The document, unless it came with the request, then the bytes to sign.
ReadInput(w) ==
  LET l  == loc[w]
      cu == IF l.read THEN l.current ELSE doc[l.doc].current
      fi == IF l.read THEN l.final ELSE doc[l.doc].final
  IN
  /\ Goto(w, "certified", "input")
  /\ loc' = [loc EXCEPT ![w].read = TRUE, ![w].current = cu, ![w].final = fi,
                        ![w].pdf = files[l.doc][InputPath(cu, fi)]]
  /\ UNCHANGED <<dbVars, envVars>>

\* Faulty: a failure of the TSP is logged and the request closed all the same.
CallTspIgnoringFailure(w) ==
  /\ pc[w] = "input"
  /\ IF loc[w].keyRef THEN Goto(w, "input", "tspDone") ELSE Goto(w, "input", "docSaved")
  /\ UNCHANGED <<loc, dbVars, envVars>>

\* external_tsp_sign: without a key reference, or when the TSP fails, it raises.
CallTsp(w) ==
  /\ pc[w] = "input"
  /\ \/ Return(w)
     \/ /\ loc[w].keyRef
        /\ Goto(w, "input", "tspDone")
        /\ UNCHANGED loc
  /\ UNCHANGED <<dbVars, envVars>>

\* Faulty: update_or_create in the place of create.
UpdateOrCreateRecord(w) ==
  LET l == loc[w] IN
  /\ Goto(w, "tspDone", "recorded")
  /\ record' = [record EXCEPT ![l.request] =
                  [exists |-> TRUE, serial |-> l.serial, input |-> l.pdf, stamped |-> FALSE]]
  /\ UNCHANGED <<req, doc, files, user, loc, envVars>>

\* SignatureRecord.objects.create: the one-to-one column refuses a second row.
CreateRecord(w) ==
  LET l == loc[w] IN
  /\ pc[w] = "tspDone"
  /\ IF record[l.request].exists
       THEN Return(w) /\ UNCHANGED record
       ELSE /\ record' = [record EXCEPT ![l.request] =
                            [exists |-> TRUE, serial |-> l.serial, input |-> l.pdf,
                             stamped |-> FALSE]]
            /\ Goto(w, "tspDone", "recorded")
            /\ UNCHANGED loc
  /\ UNCHANGED <<req, doc, files, user, envVars>>

-----------------------------------------------------------------------------
(***************************************************************************)
(* From the record to the seal: the request becomes SIGNED and used.       *)
(***************************************************************************)

\* Faulty: a TSA that fails raises out of the service.
SaveTimestampOrRaise(w) ==
  /\ pc[w] = "recorded"
  /\ \/ Return(w) /\ UNCHANGED record
     \/ /\ Goto(w, "recorded", "stamped")
        /\ record' = [record EXCEPT ![loc[w].request].stamped = TRUE]
        /\ UNCHANGED loc
  /\ UNCHANGED <<req, doc, files, user, envVars>>

\* Whether the TSA answers, answers wrongly or fails, the outcome is saved.
SaveTimestamp(w) ==
  /\ Goto(w, "recorded", "stamped")
  /\ record' = [record EXCEPT ![loc[w].request].stamped = TRUE]
  /\ UNCHANGED <<req, doc, files, user, loc, envVars>>

SaveDocumentStatus(w) ==
  LET r == loc[w].request IN
  /\ Goto(w, "stamped", "docSaved")
  /\ doc' = [doc EXCEPT ![req[r].doc].status =
               IF req[r].purpose = "OFFICER_APPROVAL" THEN "SIGNED" ELSE "PENDING_SIGN"]
  /\ UNCHANGED <<req, record, files, user, loc, envVars>>

\* Faulty: saves the status without the used flag.
SealStatusOnly(w) ==
  /\ Goto(w, "docSaved", "sealed")
  /\ req' = [req EXCEPT ![loc[w].request].status = "SIGNED"]
  /\ UNCHANGED <<record, doc, files, user, loc, envVars>>

\* Faulty: forgets to save the request.
SealUnsaved(w) ==
  /\ Goto(w, "docSaved", "sealed")
  /\ UNCHANGED <<loc, dbVars, envVars>>

SealRequest(w) ==
  /\ Goto(w, "docSaved", "sealed")
  /\ req' = [req EXCEPT ![loc[w].request].status = "SIGNED",
                        ![loc[w].request].used = TRUE]
  /\ UNCHANGED <<record, doc, files, user, loc, envVars>>

-----------------------------------------------------------------------------
(***************************************************************************)
(* create_sequential_pades_for_signature_record.                           *)
(***************************************************************************)

\* Faulty: the PAdES step always takes the upload.
ReadPadesOriginal(w) ==
  LET l == loc[w] IN
  /\ pc[w] = "sealed"
  /\ \/ Return(w)
     \/ /\ ActiveInDb(req[l.request].signer)
        /\ Goto(w, "sealed", "padesRead")
        /\ loc' = [loc EXCEPT ![w].pdf = files[l.doc][Original]]
  /\ UNCHANGED <<dbVars, envVars>>

\* The certificate is queried again, the input path is the one of the Document
\* instance.  Without an active certificate, for a file that is not a PDF, or
\* when the signing tool fails, the result is not ok and the service returns.
ReadPadesInput(w) ==
  LET l == loc[w] IN
  /\ pc[w] = "sealed"
  /\ \/ Return(w)
     \/ /\ ActiveInDb(req[l.request].signer)
        /\ Goto(w, "sealed", "padesRead")
        /\ loc' = [loc EXCEPT ![w].pdf =
                     files[l.doc][IF l.current # None THEN l.current ELSE Original]]
  /\ UNCHANGED <<dbVars, envVars>>

WritePades(w) ==
  LET l == loc[w] IN
  /\ Goto(w, "padesRead", "padesWritten")
  /\ files' = [files EXCEPT ![l.doc][OutputPath(l.request)] = Append(l.pdf, l.request)]
  /\ UNCHANGED <<req, record, doc, user, loc, envVars>>

\* Faulty: hashes the input of the PAdES step.
HashPadesInput(w) ==
  /\ Goto(w, "padesWritten", "padesHashed")
  /\ loc' = [loc EXCEPT ![w].hash = loc[w].pdf]
  /\ UNCHANGED <<dbVars, envVars>>

\* calculate_sha256_path of the output file, as it is by now.
HashPades(w) ==
  LET l == loc[w] IN
  /\ Goto(w, "padesWritten", "padesHashed")
  /\ loc' = [loc EXCEPT ![w].hash = files[l.doc][OutputPath(l.request)]]
  /\ UNCHANGED <<dbVars, envVars>>

\* The officer's file is hashed a second time.
HashFinal(w) ==
  LET l == loc[w] IN
  /\ Goto(w, "padesHashed", "finalHashed")
  /\ SignsAsOfficer(l.request)
  /\ loc' = [loc EXCEPT ![w].finalHash = files[l.doc][Final]]
  /\ UNCHANGED <<dbVars, envVars>>

SavePades(w) ==
  LET l == loc[w]
      r == l.request
      row == [doc[l.doc] EXCEPT !.current = OutputPath(r), !.currentHash = l.hash]
  IN
  /\ \/ pc[w] = "padesHashed" /\ ~SignsAsOfficer(r)
     \/ pc[w] = "finalHashed" /\ SignsAsOfficer(r)
  /\ doc' = [doc EXCEPT ![l.doc] =
               IF SignsAsOfficer(r) THEN [row EXCEPT !.final = Final, !.finalHash = l.finalHash]
                                    ELSE row]
  /\ IF req[r].purpose = "CITIZEN_REMOTE_SIGN"
       THEN pc' = [pc EXCEPT ![w] = "approval"] /\ UNCHANGED loc
       ELSE Return(w)
  /\ UNCHANGED <<req, record, files, user, envVars>>

-----------------------------------------------------------------------------
(***************************************************************************)
(* create_officer_approval_request_after_citizen_sign.                     *)
(***************************************************************************)

\* Faulty: any request on the document counts as an officer's.
LookupAnyRequest(w) ==
  LET d == loc[w].doc IN
  /\ pc[w] = "approval"
  /\ IF RequestsOn(d) # {} \/ AvailableOfficers = {}
       THEN Return(w)
       ELSE \E o \in AvailableOfficers :
              /\ Goto(w, "approval", "approvalCreate")
              /\ loc' = [loc EXCEPT ![w].signer = o]
  /\ UNCHANGED <<dbVars, envVars>>

\* An officer's request on the document, pending (even expired) or signed, is
\* enough; otherwise an officer is looked for, and there may be none.
LookupApproval(w) ==
  LET d == loc[w].doc IN
  /\ pc[w] = "approval"
  /\ IF \/ Owner[d] # req[loc[w].request].signer
        \/ OfficerRequests(d) # {}
        \/ AvailableOfficers = {}
       THEN Return(w)
       ELSE \E o \in AvailableOfficers :
              /\ Goto(w, "approval", "approvalCreate")
              /\ loc' = [loc EXCEPT ![w].signer = o]
  /\ UNCHANGED <<dbVars, envVars>>

CreateApproval(w, r) ==
  /\ pc[w] = "approvalCreate"
  /\ req[r].status = "NONE"
  /\ req' = [req EXCEPT ![r] = NewRow(loc[w].doc, loc[w].signer, "OFFICER_APPROVAL")]
  /\ Return(w)
  /\ UNCHANGED <<record, doc, files, user, envVars>>

-----------------------------------------------------------------------------
(***************************************************************************)
(* The environment: time, the registration authority, crashes.             *)
(***************************************************************************)

Expire(r) ==
  /\ req[r].status = "PENDING" /\ ~req[r].expired
  /\ events < MaxEvents
  /\ events' = events + 1
  /\ req' = [req EXCEPT ![r].expired = TRUE]
  /\ UNCHANGED <<record, doc, files, user, pc, loc, crashes, lost>>

SetUser(u, row) ==
  /\ events < MaxEvents
  /\ events' = events + 1
  /\ user' = [user EXCEPT ![u] = row]
  /\ UNCHANGED <<req, record, doc, files, pc, loc, crashes, lost>>

Verify(u) == ~user[u].verified /\ SetUser(u, [user[u] EXCEPT !.verified = TRUE])
Reject(u) == user[u].verified /\ SetUser(u, [user[u] EXCEPT !.verified = FALSE])
Revoke(u) == ActiveInDb(u) /\ SetUser(u, [user[u] EXCEPT !.cert = "revoked"])
Lapse(u)  == user[u].cert = "active" /\ SetUser(u, [user[u] EXCEPT !.cert = "lapsed"])

\* A certificate from a CSR replaces the row; the key reference may be missing.
Enrol(u, keyRef) ==
  /\ u \in Citizen => user[u].verified
  /\ user[u].serial < MaxSerial
  /\ SetUser(u, [user[u] EXCEPT !.cert = "active", !.serial = @ + 1, !.keyRef = keyRef])

\* A worker dies with its process, or an exception ends its handler.
Crash(w) ==
  /\ pc[w] # "idle"
  /\ crashes < MaxCrashes
  /\ crashes' = crashes + 1
  /\ lost' = IF pc[w] \in BeforeSeal THEN lost \cup {loc[w].request} ELSE lost
  /\ Return(w)
  /\ UNCHANGED <<dbVars, events>>

-----------------------------------------------------------------------------
Sign(w) ==
  \/ CheckNoRecord(w)
  \/ ReadCertificate(w)
  \/ ReadInput(w)
  \/ CallTsp(w)
  \/ CreateRecord(w)
  \/ SaveTimestamp(w)
  \/ SaveDocumentStatus(w)
  \/ SealRequest(w)
  \/ ReadPadesInput(w)
  \/ WritePades(w)
  \/ HashPades(w)
  \/ HashFinal(w)
  \/ SavePades(w)
  \/ LookupApproval(w)
  \/ \E r \in Request : CreateApproval(w, r)

Create(w) ==
  \/ \E r \in Request : CreateRequest(w, r)
  \/ MarkPendingSign(w)

Begin(w) ==
  \/ \E d \in Document : BeginCitizenRequest(w, d)
  \/ \E d \in Document, o \in Officer : BeginOfficerRequest(w, d, o)
  \/ \E d \in Document, o \in Officer : BeginAuthorityRequest(w, d, o)
  \/ \E r \in Request, preloaded \in BOOLEAN : LoadRequest(w, r, preloaded)

Environment ==
  \/ \E r \in Request : Expire(r)
  \/ \E u \in User : Verify(u) \/ Reject(u) \/ Revoke(u) \/ Lapse(u)
  \/ \E u \in User, keyRef \in BOOLEAN : Enrol(u, keyRef)
  \/ \E w \in Worker : Crash(w)

Next == (\E w \in Worker : Begin(w) \/ Create(w) \/ Sign(w)) \/ Environment

Spec == Init /\ [][Next]_vars

\* A handler that has started runs on; nobody has to post a form, and time,
\* the registration authority and crashes are under no obligation.
Fairness == \A w \in Worker : WF_vars(Create(w) \/ Sign(w))

FairSpec == Spec /\ Fairness

(***************************************************************************)
(* The code has no lock; these are the overlaps that a lock would prevent, *)
(* and whatever else handlers do to each other is left in.                 *)
(***************************************************************************)

\* Handler w has looked for a request to officer o and may still insert one.
Asking(w, d, o) ==
  /\ pc[w] = "approvalCreate" \/ (pc[w] = "create" /\ loc[w].kind # "citizen")
  /\ loc[w].doc = d /\ loc[w].signer = o

\* Nobody else asks the same officer on the document meanwhile.
AskersApart ==
  \A d \in Document, o \in Officer, v, w \in Worker : Asking(v, d, o) /\ Asking(w, d, o) => v = w

\* Handler w works on an instance of document d that it may still save.
Holding(w, d) == loc[w].read /\ loc[w].doc = d /\ pc[w] \notin {"approval", "approvalCreate"}

\* Nobody else signs another request of the document meanwhile.
SignersApart ==
  \A d \in Document, v, w \in Worker :
    Holding(v, d) /\ Holding(w, d) => loc[v].request = loc[w].request

\* The behaviours in which these overlaps do not happen.
ApartSpec == Init /\ [][Next /\ AskersApart' /\ SignersApart']_vars

FairApartSpec == ApartSpec /\ Fairness

-----------------------------------------------------------------------------
(***************************************************************************)
(* Invariants.                                                             *)
(***************************************************************************)

Signed(r)  == req[r].status = "SIGNED"
Embedded(pdf) == {pdf[i] : i \in DOMAIN pdf}

\* A request is SIGNED exactly when it is used, and then its signature record
\* exists and carries a timestamp outcome, although four statements of the
\* service write these facts one by one (services.py, 311-346).
SealedRequests ==
  \A r \in Request : /\ Signed(r) <=> req[r].used
                     /\ Signed(r) => record[r].exists /\ record[r].stamped

\* Two handlers of the same request may both reach the TSP, but only one of
\* them gets past the insertion of the record and finishes the request.
SingleFinisher ==
  \A v, w \in Worker :
    /\ pc[v] \in BeforeSeal \cup AfterSeal
    /\ pc[w] \in BeforeSeal \cup AfterSeal
    /\ loc[v].request = loc[w].request
    => v = w

\* A request with a record that is still PENDING is being finished by some
\* handler, unless the handler that inserted the record has died.
UnfinishedIsOwned ==
  \A r \in Request :
    record[r].exists /\ ~Signed(r) =>
      \/ r \in lost
      \/ \E w \in Worker : pc[w] \in BeforeSeal /\ loc[w].request = r

\* A request whose handler died there stays PENDING with its record for good:
\* nothing repairs it, and "already been signed" refuses every retry.
LostStaysPending ==
  \A r \in lost : record[r].exists /\ req[r].status = "PENDING"

\* Every signature embedded in a stored PDF of a document belongs to a SIGNED
\* request on that document: no PDF is signed ahead of the database, in
\* whatever order the handlers write files and rows.
SignaturesBacked ==
  \A d \in Document, p \in Path :
    \A r \in Embedded(files[d][p]) : req[r].doc = d /\ Signed(r)

\* A document whose status says SIGNED has an officer's approval on record.
SignedDocumentApproved ==
  \A d \in Document : doc[d].status = "SIGNED" =>
    \E r \in Request : /\ req[r].doc = d
                       /\ req[r].purpose = "OFFICER_APPROVAL"
                       /\ record[r].exists

\* Officers have been asked at most once for document d.
OneOfficerRequest(d) == \A q, r \in OfficerRequests(d) : q = r

\* The published hash of the current PDF is the hash of the file it names: for
\* a citizen's version always, for the officer's file, whose name is fixed, as
\* long as the document had a single officer request (a second one rewrites it).
HashesMatchFiles ==
  \A d \in Document :
    LET cu == doc[d].current IN
    cu # None /\ (cu = Final => OneOfficerRequest(d)) => doc[d].currentHash = files[d][cu]

PendingApproval(d, r) == /\ req[r].doc = d /\ req[r].status = "PENDING"
                         /\ req[r].purpose = "OFFICER_APPROVAL"

\* No officer is asked twice at a time for the approval of a document: the two
\* views and the service look for a pending request before they create another.
OneApprovalPerOfficer ==
  \A d \in Document, q, r \in Request :
    PendingApproval(d, q) /\ PendingApproval(d, r) /\ req[q].signer = req[r].signer => q = r

\* What the position of a handler says about the tables, whatever the others
\* did meanwhile: its request exists, is PENDING with a record between the
\* record and the seal and SIGNED after it, and the bytes it holds carry only
\* signatures of SIGNED requests on its document.
HandlersAgree ==
  \A w \in Worker :
    LET l == loc[w]
        r == l.request IN
    /\ pc[w] \in Signing => r \in Request /\ req[r].status # "NONE" /\ l.doc = req[r].doc
    /\ pc[w] \in Creating \cup {"approvalCreate"} => l.doc \in Document /\ l.signer \in User
    /\ pc[w] \in BeforeSeal => /\ record[r].exists
                               /\ req[r].status = "PENDING"
                               /\ r \notin lost
    /\ pc[w] \in {"stamped", "docSaved"} => record[r].stamped
    /\ pc[w] \in AfterSeal => Signed(r)
    /\ \A q \in Embedded(l.pdf) : req[q].doc = l.doc /\ Signed(q)

-----------------------------------------------------------------------------
(***************************************************************************)
(* What a step may never do.                                               *)
(***************************************************************************)

\* Once a signature record exists it is never replaced, and its certificate and
\* the bytes it signed never change; only the timestamp is added to it.
RecordPermanent ==
  [][\A r \in Request : record[r].exists =>
       /\ record'[r].exists
       /\ record'[r].serial = record[r].serial
       /\ record'[r].input = record[r].input
       /\ record[r].stamped => record'[r].stamped]_record

CurrentPdf(d) == IF doc[d].current = None THEN <<>> ELSE files[d][doc[d].current]

Extends(pdf, base) == Len(base) <= Len(pdf) /\ \A i \in 1..Len(base) : pdf[i] = base[i]

\* The current signed PDF of a document only gains signatures: "Officer signs
\* the latest already-signed PDF" (pades_sequential_services.py, 42).
NoSignatureDropped ==
  [][\A d \in Document : Extends(CurrentPdf(d)', CurrentPdf(d))]_<<doc, files>>

SignatureOf(row) == [exists |-> row.exists, serial |-> row.serial, input |-> row.input]

Abstract == INSTANCE OneShotSigning WITH
  Signature   <- [exists : {TRUE}, serial : Nat, input : Pdf],
  NoSignature <- SignatureOf(NoRecord),
  signature   <- [r \in Request |-> SignatureOf(record[r])],
  closed      <- {r \in Request : Signed(r)}

\* Each request is signed at most once, for good, and before it is closed.
\* The service implements the promise of OneShotSigning.
ImplementsOneShot == Abstract!Spec

-----------------------------------------------------------------------------
(***************************************************************************)
(* What must happen.                                                       *)
(***************************************************************************)

\* A signature that was recorded leads to a SIGNED request, unless the handler
\* that recorded it dies.
RecordIsSealed == \A r \in Request : record[r].exists ~> Signed(r) \/ r \in lost

\* A handler that has written the PDF of a citizen's remote request leads to an
\* officer's request on the document, unless no officer was available meanwhile
\* or a handler died.
ApprovalFollows ==
  \A w \in Worker, d \in Document :
    /\ pc[w] = "padesWritten" /\ loc[w].doc = d
    /\ req[loc[w].request].purpose = "CITIZEN_REMOTE_SIGN"
    ~> OfficerRequests(d) # {} \/ AvailableOfficers = {} \/ crashes > 0
=============================================================================
