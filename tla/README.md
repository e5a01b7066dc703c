# Verification of the citizen portal's digital signatures

TLA+ models, TLC runs and TLAPS proofs for the Django portal in this
repository: remote and client-side signing of documents, the certificates of
the signers, and the verification of signatures. `PROJECT.json` lists the
components, runs, mutants, the lines each definition stands for, the findings,
the hazards and the theorems; this file says how to read them.

All paths are relative to `src/`.

## 1. The system and how it runs

`docker-compose.yml` starts `python manage.py runserver`: one process, one
thread per HTTP request, WSGI. PostgreSQL is used in autocommit (READ
COMMITTED): no `ATOMIC_REQUESTS`, no `transaction.atomic`, no
`select_for_update`. The only transaction is inside `update_or_create`. So

* every ORM statement commits on its own and two handlers interleave between
  any two statements;
* a handler works on *instances* it loaded earlier, and `save(update_fields=…)`
  writes fields of such an instance, whatever the row says by then;
* a file is written beside the row that describes it, in another step;
* a process that dies leaves exactly what it had committed.

These four facts are the model of the handlers: one action per statement, what
a handler has read is its local state (`loc`), and `Crash` may end it between
any two. Above them are two longer stories in which a whole handler, or a whole
HTTP call, is one step: the life of a document through all views
(`DocumentWorkflow`), and the conversation of the local signer with the portal
(`LocalSigner`), whose calls may be given up, delayed and repeated.

### Inventory

| component | state it keeps | operations | what is hard | what makes it correct |
|---|---|---|---|---|
| Request creation views (`frontend/views.py`, `forms.py`) | `SigningRequest`, `Document.status` | three views that create a remote request, one that creates a client request, the generated form, the generic form | look-up and insertion are separate statements with no constraint behind them; each look-up asks for something else; nothing closes a request that expired | at most one approval pending; no officer asked twice; a citizen's signature followed by an approval; the final PDF reached |
| Remote signing service (`signing/services.py`) | `SigningRequest`, `SignatureRecord`, `Document` | `remote_sign_signing_request`: load, check, read, TSP, record, timestamp, document, seal, PAdES, approval | five commits; concurrent submissions of one request; death between commits; instances loaded before the signature | signed once; record, seal and timestamp agree; a recorded request is sealed or its handler died |
| Sequential PAdES (`signing/pades_sequential_services.py`) | signed PDFs in `MEDIA_ROOT`, hashes in `Document` | read the input, write the output, hash it, save the row | the input path comes from an old instance; the officer's file has a fixed name | no signature lost; hashes match files; a PDF never runs ahead of the database |
| Client-side signing, in the portal (`signing/client_api_views.py`, `signing/pades_external_client_services.py`) | pairing fields of `SigningRequest`, `ClientPadesSession`, `SignatureRecord`, `Document` | create, pair, confirm, prepare, finish, consume | three views save overlapping sets of pairing fields; the finish reads the session three times; asgiref runs database calls of async code on one thread | only a confirmed device is served; what is recorded was verified; what is embedded matches the PDF |
| Client-side signing, on the citizen's computer (`client-signer-local/client_signer_gui.py`) and the page that confirms it | device key, token and listed request, all in memory | pair, refresh, sign; confirm | calls given up after 20 or 30 s and carried out later; restarts; a second pairing after the confirmation; replies that say ok and mean wait | only what the user agreed to is signed, by the confirmed device; what the app says is true; a user who goes on gets there |
| REST signing endpoints (`signing/views.py`, `serializers.py`) | none of their own | creation of requests; second entries of remote signing, prepare and finish | they check other things than the pages do | as above |
| Registration authority (`accounts/`) | `User.is_verified_identity`, `UserCertificate`, SoftHSM key pairs | verify, reject, issue, enrol a CSR | issuance and enrolment overlap; key without certificate after a failure; re-enrolment replaces the row | rows hold their user's certificates; keys are owned; a revoked certificate is never ACTIVE again |
| Revocation and CRL (`accounts/revocation_services.py`, `admin.py`, `verification/crl_utils.py`) | `UserCertificate.status`, `lab_ca.crl.pem` | mark, query the REVOKED rows, truncate, write | no lock around query and write; the file is torn while it is written; failure after the UPDATE | the list is complete; what the officer is told is true |
| Verification (`verification/`) | `VerificationResult` | stored verification (REST, page), public verification of raw, CMS and PAdES signatures | delete and create around checks that raise; a torn CRL; OCSP answers of any kind; a serial without a row passes | a result is not lost; a revoked certificate is not accepted |
| Documents (`documents/`) | `Document` rows and files | upload, generated form | client signatures start from the upload, remote ones from the current PDF | the approved PDF is not lost; SIGNED means the final PDF is the current one |
| Audit log, artifacts and CMS, demo seeding, experiments | rows and files nobody reads back for a decision | — | — | not modelled, see section 7 |

The components interact through the tables: a certificate that is revoked or
replaced changes what signing reads (twice: for the record, and again for
PAdES) and what verification looks up; a citizen's remote signature creates the
officer's request; an officer's signature takes the PDF the citizen's left.

## 2. Modules

| module | models | theorems in |
|---|---|---|
| `OneShotSigning` | what a signing service promises: each request gets at most one signature, for good, and is closed only after it | — |
| `RemoteSigning` | request creation, remote signing, sequential PAdES, follow-up approval | `RemoteSigningProofs`, `HashesProofs`, `ApartProofs` |
| `ClientSigning` | client request, pairing, confirmation, prepare, finish, consumption | `ClientSigningProofs` |
| `TrustedCertificates` | what the registration authority promises: a certificate is trusted once or never, and revoked, given up or reported for good | — |
| `CertificateLifecycle` | identity, issuance, enrolment, revocation, the CRL | `CertificateProofs` |
| `Verification` | composes `CertificateLifecycle` with verifiers and records | `VerificationProofs` |
| `DocumentWorkflow` | the life of a document: all ways to ask for a signature and to give one, expiry, identity decisions, certificates | `DocumentWorkflowProofs` |
| `LocalSigner` | the local signer, the client API and the confirmation page, with lost, late and repeated calls | `LocalSignerProofs` |
| `MC…` | the instances for TLC | |

**State to code.** `req`, `record`, `session`, `doc`, `user`/`cert`, `result`,
`sig` are tables, keyed by primary key or by the unique foreign key. `files`
and `crl` are files; `keys` is the token. `pc[w]` is where handler thread `w`
is, named after what it has just done (`"recorded"`, `"sealed"`), and `loc[w]`
is what it holds in its variables. `events`, `crashes`, `deaths` count what was
used up of a bound. Variables marked *history* (`lost`, `revoked`, `confirmed`,
`disturbed`, `orphaned`, `had`, `failed`) are written and read by no code; only
properties look at them; so are `unattended` in `DocumentWorkflow` and `agreed`,
`confirmed`, `told`, `overtaken` in `LocalSigner`.

**Actions to code.** An action is named after the step. A view that refuses
changes nothing and is not an action; refusals after the handler has begun are
`Return(w)`. Failures that the code turns into an early return (TSP, PAdES
tool, CSR) are disjuncts; exceptions at any other place are `Crash`.
Definitions under a comment `Faulty:` are not part of any specification: they
are the plausible bugs that each property is tried against.

**Data.** A PDF is the sequence of signatures it embeds; a hash is the content
it was computed from; a certificate is its serial, which is the number of the
CA signature it comes from. In `ClientSigning` a prepared PDF is a number
(`Run`), and a mark in a PDF records which prepared bytes it sits in and which
signed attributes it was made over: these are the same number exactly when the
embedded signature verifies. In `Verification`, hash, signature, issuer and
validity of a record are one attribute `sound`, because nothing else in the
portal changes them; the checks that depend on what others do meanwhile (row,
CRL, OCSP) are steps.

### RemoteSigning

`BeginCitizenRequest`, `BeginOfficerRequest`, `BeginAuthorityRequest` are the
queries of the three views, `CreateRequest` and `MarkPendingSign` their writes.
`LoadRequest` … `SealRequest` follow `remote_sign_signing_request` statement by
statement, with the flag `preloaded` for the REST view, which fetches the
document together with the request, and the page, which fetches it when it is
first used. `ReadPadesInput` … `SavePades` are the PAdES step on the *same*
document instance, `LookupApproval` and `CreateApproval` the officer's request.
The registration authority appears as events: verify, reject, revoke, lapse,
enrol.

### ClientSigning

`BeginCreate`, `CreateRequest`, `IssueSession`, `MarkPendingSign` create a
request and its pairing code. `BeginPairing`/`SavePairing` and
`BeginConfirmation`/`SaveConfirmation` are load and save of two views that both
write `pairing_status`. A prepare is `BeginPrepare`, `CheckUnsigned`,
`ReloadToPrepare`, `LayOutPdf`, `StoreSession`, `StorePdf`; a finish is
`BeginSubmit`, `CheckNoRecord`, `ReloadToFinish`, `ReadSession`,
`VerifySignature`, `ReadPrepared`, `SaveDocument`, `CreateRecord`,
`SealRequest`, `CompleteSession`, the approval, and `Consume`, with which the
view saves the copy of the request it had loaded before. `executor` is asgiref's
single thread: the async halves wrap their database functions in
`sync_to_async(thread_sensitive=True)`, so such functions never overlap each
other, although views and plain service code overlap with all of them.

### CertificateLifecycle and Verification

`BeginEnroll`, `SignCsr`, `UpsertCertificate`; `BeginIssue`, `ReadProfile`,
`CheckKey`, `GenerateKey`, `SignIssued`, `InsertCertificate`; `BeginRevoke`,
`MarkRevoked`, `QueryRevoked`, `TruncateCrl`, `WriteCrl`. The file is `torn`
between `open("wb")` and the end of the write. A missing file counts as one
that lists nothing, as `crl_utils.py` has it. `Verification` adds to it
`SignRecord` and the verifiers: `DeleteResult`, `LookUpCertificate`, `ReadCrl`
or `ReadTornCrl`, `AskOcsp`, `CreateResult` for the stored verification;
`FindByFingerprint` for PAdES; `Answer` for the public ones. `late` remembers
that the revocation of the certificate had been reported before the
verification began, which is what makes "revoked, hence invalid" a fair demand.

### DocumentWorkflow

A handler is one action here; what overlapping handlers do to each other is the
subject of the modules above. `Upload`, `GenerateForm` make documents;
`FormRequest` (the generic form with all of `SigningRequestForm.clean`),
`RestRequest`, `ClientRequest`, `CitizenRemoteRequest`, `OfficerRequest` and
`SubmitAuthority` ask for signatures, each with its own look-up for an earlier
request; `OfficerSign`, `CitizenRemoteSign` and `ClientSign` give them, with
`FollowUp` in the last two, and `SignWithoutPdf` is the remote signature whose
PAdES step fails, which the code survives with the status already changed. The
clock and the authority are `Expire`, `Verify`, `Reject`, `Certify`, `Revoke`
and `Lapse` (`cert[u] = "lapsed"`: the row is ACTIVE and `valid_to` has passed,
a difference that only the remote service looks at). `Request` is a set of
numbers because the sequence of the table hands out keys in order, and `Rank`
stands for the officers' keys: `.first()` takes the lowest.

### LocalSigner

`app` is what the process keeps in memory (device key, token, the listed
request), `call` the HTTP call it waits for, `answer` the reply it has not read,
`late` the calls it gave up on and the portal may still carry out. `PairDevice`,
`Refresh` and `SignSelected` are the buttons; they always work, as in the code,
but a press that the app's own messages do not ask for counts as *odd* and is
bounded, as are time-outs (`GiveUp`), restarts (`Restart`, with a new device
key), failing handlers and limits that pass. `Serve(c)` is the portal carrying
out call `c`, current or late: `ServePair` accepts the code in any pairing
status, `ServeWaiting` is the reply "ok, waiting" that `ReadSubmitted` cannot
tell from success. `page` is the browser: an offer of confirmation may be older
than the last pairing. `tabs` are the offers that other tabs, and "Back", have
kept: `LoadPage` offers a confirmation only while there was none, but
`ConfirmClientPairingView` does not look at `pairing_confirmed_at`, so
`ConfirmElsewhere` (an odd step) confirms again, for whatever device is paired
by then. An offer never leaves `tabs`, which stands for any number of tabs.
`overtaken` is the number of the attributes that were prepared last when a
device last paired. The request is one of those the portal made through its
document page, with a code; `odd` and the numbers of keys and prepared sessions
are otherwise unbounded, and the theorems hold for every `MaxOdd`.

## 3. Runs

| run | configuration | states (distinct) | what it shows |
|---|---|---|---|
| `remote` | 2 workers, 2 requests, 1 event, 1 crash | 203,807 | safety of remote signing when handlers of the same or of two requests overlap and one dies; it implements `OneShotSigning` |
| `apart` | 2 workers, 2 requests, 2 officers, 1 crash, fair, two overlaps excluded | 166,429 | without these overlaps no officer is asked twice and no signature is dropped; liveness: a recorded signature is sealed, the approval follows |
| `dropped` | 2 workers, 2 requests | about 3,500 to the violation | finding 1 |
| `client` | 2 workers, 1 request, 2 prepared PDFs, 1 event, 1 crash | 1,041,372 | safety of client signing under overlap and death; it implements `OneShotSigning` |
| `clientapart` | 2 workers, 1 request, 2 prepared PDFs, 1 crash, fair, one overlap excluded | 246,841 | without this overlap what is embedded verifies; a recorded client signature is sealed, the approval follows |
| `clienttorn` | 2 workers, 1 request | about 8,000 to the violation | finding 2 |
| `certificates` | 2 workers, 2 users, 3 certificates, 1 crash | 2,002,308 | safety of issuance, enrolment, revocation and the CRL; they implement `TrustedCertificates` |
| `verification` | 1 worker, 1 user, 2 certificates, 2 verifiers, 1 record, 1 verifier dies | 1,520,502 | results survive, revocations are seen |
| `revokedvalid` | 1 worker, 1 verifier, 2 certificates, no failure | about 30,000 to the violation | finding 3 |
| `workflow` | 1 document, 3 requests, 2 officers, 2 events, fair | 87,834 | every order of asking and signing: approvals, follow-ups and the PDFs stay consistent, and the approval is reached or stuck for a named reason |
| `signer` | 2 requests, 2 odd steps, fair | 160,804 | only what the user agreed to is signed, by the device confirmed last; what the app calls signed is what was signed, or overtaken by a pairing; and the user gets there or is stranded |
| `told` | 1 request, 2 odd steps | about 2,500 to the violation | finding 4 |

**Bounds.** Two handlers suffice for every race in this code: each hazard is
between a check or a read of one handler and a write of another one. Two
requests on one document give a citizen's and an officer's signature, or two
officers' requests. Three, in `workflow`, give the whole life of a document:
the citizen's signature, the officer's, and a further one of any kind, or a
request that stands in the way of the other two. Two officers are needed for the
first one to lose the certificate, or the identity, between two look-ups; two
events are that loss and an expiry, or a loss and its repair. In `signer`, two
odd steps give every pair of a time-out and what it may meet: another time-out,
a restart, a second pairing, a second confirmation, a limit. Two requests let the token of one meet the
listed item of the other. Two prepared PDFs are what a torn
session needs. Three certificates allow a revoked one, its successor and one of
another user; in `verification`, one user and two certificates are what a
superseded certificate needs. Handlers begin only while there is room for the
rows, prepared PDFs or certificates that the running ones may still make
(`RoomForRow`, `RoomForPdf`, `RoomForSerial`), so no handler is cut off by a
bound (`DocumentWorkflow` counts the full table among the reasons of `Stuck`
instead). Crashes and deaths are bounded by one: after it the others run on.
Requests, workers and verifiers are interchangeable, which the symmetry uses in
safety runs only. Runs with fairness use none.

**Excluded overlaps.** Two properties of remote signing and one of client
signing do not hold of all behaviours: the code has no lock, and findings 1 and
2 are what it lets through. `apart` and `clientapart` check them of the
behaviours in which one named overlap never happens, and nothing else is
excluded; handlers still interleave at every statement, and die.

* `AskersApart`: no two handlers are between the look-up for a request to an
  officer and its insertion, for the same document and officer.
* `SignersApart`: no two handlers hold a document for two of its requests, from
  the read of `signed_file` to the save of the new one. Two handlers of the
  *same* request may.
* `SessionsApart`: no session is stored between the two reads of it by a finish
  of the same request.

`ApartSpec` takes only steps into such states, and the theorems `ApartBehaviours`
show that it has exactly the behaviours of `Spec` in which the hypothesis always
holds; `FairApartSpec` are the fair ones among these. A handler that is about to
enter an overlap comes later instead; the one in its way ends by its own
fairness, so none waits for ever. Nothing in the portal enforces the
hypotheses; they say what a lock would have to do.

`CHECK_DEADLOCK FALSE`: a portal may be idle for ever. When the tables are full
and all handlers have returned, no action is enabled, and that is no fault; nor is it one when
all requests of a `signer` are over and the app has nothing left to do.

**Fairness.** `RemoteSigning` assumes weak fairness of each handler that has
begun (`Create(w) \/ Sign(w)`): a thread that can execute its next statement
does so. Nobody has to post a form, and time, the authority and crashes are
under no obligation. `ClientSigning` assumes strong fairness of each handler,
because the steps that are jobs are disabled whenever the single asgiref thread
serves another handler; that thread serves a FIFO queue, so a waiting handler
is not passed over for ever. `DocumentWorkflow` assumes weak fairness of two
things people do: owners press "submit" on a document without a final PDF as
long as the page lets them, and officers sign the approvals in their list.
`LocalSigner` assumes that the portal carries out the call the app waits for
(weak), that the user reads replies and looks at the page (weak), and presses
each button again and again as long as the app asks for it (strong, because a
time-out or a reply may disable a button in between). Nothing is assumed of
what is given up, lost or odd, nor of the calls in `late`.

### Properties worth a word

* `SealedRequests`, `SignedIsWithdrawn`: SIGNED, used, recorded (and stamped,
  consumed) agree although they are written by several statements, some of them
  from stale copies.
* `UnfinishedIsOwned`: the only way to a PENDING request with a record is a
  dead handler. (It then stays so, since "already been signed" refuses every
  retry: theorem `LostForGood`. There is no repair in the code.)
* `SignaturesBacked`, `HashesMatchFiles`, `NoSignatureDropped`: the file side
  against the table side.
* `ConfirmedFirst`: three views write `pairing_status`, in any order, yet no
  device is served before the confirmation.
* `KeyIsOwned`, `CrlComplete`, `RevocationSeen`,
  `PublicRevocationSeen`: these name the exceptions as part of the statement
  (died, superseded, overlapped, torn CRL). Each exception was a counterexample
  to the stronger statement and describes a behaviour of the code.
* `RecordIsSealed`, `ApprovalFollows` exclude a handler that died (`lost`,
  `crashes`), and nothing else: a timestamp authority or a PAdES step that
  fails is no excuse for the seal.
* `OneApprovalPerOfficer`: two submissions that overlap both insert an approval
  (`frontend/views.py:1829` and 1866 are separate statements), so of the handlers
  it is stated under `AskersApart`; of whole views (`workflow`) it holds for all
  ways to ask. That at most one approval is pending *in all* is not true: a
  second officer may be asked beside the first.
* `HandedOutHasPdf`: a prepare stores the row of the session, then its PDF, and
  may die between the two; attributes that were *handed out* have their PDF all
  the same, because the reply is sent after both.
* `ImplementsTrust`: enrolment replaces a row, revocation updates it, a report
  speaks of a row read earlier, and all three overlap; yet what the portal trusts
  follows one simple machine, in which trust never comes back.
* `CitizenSignatureFollowed`, `FinalInCurrent`, `SignedIsFinal` relate PDFs,
  requests and the status of a document after any number of signatures of both
  types; their exceptions (no officer, a client signature that starts over, an
  approval sealed without a PDF) are branches of the code.
* `ApprovalReached` is what an owner may count on: no request of another kind,
  served or not, expired or not, keeps the document from its approval. `Stuck`
  names what does, and its second case is observation 2 below.
* `SignedIsAgreed` and `SubmitterConfirmed` are end-to-end: they relate the
  signature in the table to what the user saw in the app and whom the signer
  confirmed in the browser, over calls that arrive late or twice.
* `ToldUnlessOvertaken` relates three places: what the app said was signed, to
  the very attributes, what the record holds, and when a device last paired. The
  exception is needed (finding 4) and is about a pairing *after* these
  attributes were handed out; how often the signer confirms makes no difference:
  a second confirmation, from another tab, may leave a request CONFIRMED that
  the app calls signed.
* `SignedOrStranded` is liveness of the whole conversation; `Stranded` is
  observation 1.

### What the exceptions leave out

An exception in a property, or a hypothesis of a run, is there because the code
does what it excuses. The properties do not catch these outcomes, and
`PROJECT.json` says so at each hazard:

| outcome | excused by |
|---|---|
| two overlapping requests to one officer are both inserted | `AskersApart` in `OneApprovalPerOfficer` (whole views in `workflow`) |
| two officers' requests of one document write the same file | `OneOfficerRequest` in `HashesMatchFiles` |
| a losing client submission replaces the PDF | nothing compares the two PDFs; both verify |
| the digest that a client record takes from a later read of the session | nothing compares it |
| a device pairs inside the confirmation view | one step in `LocalSigner`, no keys in `ClientSigning` |
| the request of a dead handler stays PENDING; its follow-up is missing | `lost`, `crashes` in `RecordIsSealed`, `ApprovalFollows`, `UnfinishedIsOwned` |
| a CRL that lacks a serial after overlapping or failing revocations | `disturbed` in `CrlComplete`, `PublicRevocationSeen` |
| a report of a serial whose row was replaced | `Report` of `TrustedCertificates` |
| a revoked serial that enrolment removed | superseded rows in `RevocationSeen`; caught by `RevokedNeverValid` (finding 3) |
| the key of an issuance that died | `orphaned` in `KeyIsOwned` |
| a certificate check that failed, or found no row | `unread`, superseded in `PublicRevocationSeen` |
| a pairing that the page offers no confirmation for | `Stranded` |
| an approval nobody can sign any more | `Stuck` |

## 4. Findings

1. **`dropped`** A signature disappears. The PAdES step picks its input from the
   `Document` instance loaded at the start of the handler. Two overlapping
   signatures of one document start from the same PDF and the later save wins.
   `pades_sequential_services.py:42` says "Officer signs the latest
   already-signed PDF."
2. **`clienttorn`** A finish verifies the signature against the session it read
   first and embeds it into the PDF of the session it reads later; a prepare in
   between has replaced that PDF. The comment at
   `pades_external_client_services.py:338` wants the signature verified before
   it is embedded.
3. **`revokedvalid`** With one handler and no failure: revoke, enrol again, revoke
   again. The enrolment replaced the row that remembered the first serial, the
   CRL that the second revocation (of anybody) rebuilds does not list it, and
   the old signature verifies as VALID.
   `experiments/README.md:32` expects "revoked/invalid behavior".
4. **`told`** "Signed successfully!" (`client_signer_gui.py:413`) without a
   signature: the code is entered again after a request was listed, the new
   pairing waits for its confirmation, and the portal answers the submission
   with `"ok": True, "status": "waiting_portal_confirmation"`
   (`signing/client_api_views.py:132`). The app looks at "ok" only, and throws
   its token away.

Observations without a run of their own, each named as an exception in a
property or visible in a definition:

1. After a confirmed pairing, pairing again leaves DEVICE_PAIRED with
   `pairing_confirmed_at` set. A page loaded from then on does not offer the
   confirmation (`frontend/views.py:480-483`), although the reply of the pairing
   says "Please confirm this signing session in the portal."
   (`signing/client_api_views.py:272`): `Stranded`. Only a tab that was loaded
   before can still confirm, because `ConfirmClientPairingView`
   (`frontend/views.py:1767-1776`) does not look at `pairing_confirmed_at`.
2. A pending approval that expired, or whose officer can no longer sign, is
   found by every look-up and closed by nobody, so no other officer is asked:
   `Stuck`.
3. The generic form and the REST endpoint create remote requests of the default
   purpose, which `signing/services.py:296` refuses to sign, and client requests
   without a pairing code.
4. The client finish accepts a certificate whose `valid_to` has passed; the
   remote service does not (`ActiveInDb` against `cert = "active"`).
5. A client signature starts from the upload: it drops the signatures of the
   current PDF and opens a SIGNED document again (`ClientSign`).
6. A second, overlapping client submission replaces the signed PDF
   (`pades_external_client_services.py:177`) before its own record is refused.
7. After two overlapping revocations, or one that fails while it rebuilds the
   CRL, a REVOKED row may stay off the list, although the officer reads
   "Certificate revoked and lab CRL regenerated." (`frontend/views.py:819`):
   the exceptions of `CrlComplete`.
8. The pairing code is shown from the browser session only: another browser
   cannot show it, and the check for an existing request returns that request.

## 5. Proofs

The theorems hold for every value of the constants that satisfies the named
assumptions (`Constants`, `CertificateConstants`, `VerificationConstants`,
`WorkflowConstants`, `LocalConstants`):
disjoint sorts, natural bounds, nothing about finiteness or size. Each proof
module has the same plan: an inductive invariant `IInv`; `IInvInit` and
`IInvStep` (`InvInit`, `InvStep`); one lemma per conjunct with one step per
action or group of actions; `Invariance` by PTL; corollaries.

**RemoteSigningProofs.** No invariant is inductive alone. `SealedRequests`
needs to know that a handler that seals has a stamped record, which is
`HandlersAgree`; that in turn survives the other handlers only because
`SingleFinisher` gives each recorded request one handler; and `SingleFinisher`
holds because the insertion of the record is unique and `UnfinishedIsOwned`
and `LostStaysPending` say who may be past it. So `IInv` is their conjunction
with types, `RowsComplete`, `SignaturesBacked` and `SignedDocumentApproved`.
From it follow `RecordPermanent` and, as a step simulation, `Refinement`:
`CreateRecord` is the abstract `Commit`, `SealRequest` is `Close`, all other
steps stutter.

**HashesProofs.** `HashesMatchFiles` on top of that invariant. A signed PDF is
written, hashed and published by three steps, and other handlers write files of
the same document between them, so `HInv` speaks of both ends: a handler that
has hashed its file holds the hash of what the file contains now (`HashedAt`),
and the current PDF is the file of a SIGNED request that no handler will write
again (`SavedOn`, `Settled`). `SameFile` says that two requests of a document
write different files unless officers were asked twice, which is the condition
in the property; `FileWritten`, that only the handler of the request that owns a
file changes it; `SingleFinisher`, that there is one such handler.

**ApartProofs.** Which overlaps cost what. `AskedOncePerOfficer`: if
`AskersApart` always holds, no officer has two pending approvals of a document.
The invariant is `Clear`, what a handler found in its look-up is still true; only
an insertion by another asker of the same officer could undo it (`NewApproval`),
and an asker that is new has just looked (`NewAsker`). `NothingDropped`: if
`SignersApart` always holds, no step takes a signature out of a document's
current PDF. Its invariant `Latest` says what a handler's old `Document` instance
still agrees with, position by position, and excludes handlers whose request was
recorded by another: these hold a stale instance and will be refused
(`Undisturbed`). So the two overlaps are the *only* causes, of any number of
handlers and requests, crashes included.

**ClientSigningProofs.** Beside the properties of the runs, `HandlersAgree`,
`RecordHasPdf` and `CompletedIsSigned`, `IInv` has three facts about a request's beginning:
`SoleIssuer` (one handler issues a request's pairing code), `Unissued` (before
that there is no token, code or confirmation) and `SessionPrepared` (a PREPARED
session holds attributes). The mapping to `OneShotSigning` is the same.
`HandedOut` needs besides that the number of a prepared PDF is its own: nobody
else lays it out and it has not been handed out yet (`Numbered`, `OwnRun`).
`NothingTorn` needs what a finish knows between its reads (`Verifying`), which
`SessionsApart` keeps true: finding 2 has that one cause.

**CertificateProofs.** Every action is one of a few *moves* (`Moves`): a handler
starts, gives up, advances, the CA signs, a certificate enters a row, …. The
strengthening is about certificates *on their way* into a row: they are new to
every other handler and to the histories (`PendingFresh`), so a row that is
written never revives a revoked certificate; and about revocations: while
nothing was disturbed they run one at a time (`OneRevocation`), and those past
their UPDATE have revoked their certificate or been overtaken (`Underway`).
`TrustKept` is the refinement of `TrustedCertificates`: a signature of the lab CA
is `Sign`, the write of a row is `Install`, an UPDATE is `Revoke` when the row is
ACTIVE and stutters otherwise, the end of a revocation is `Report`, a handler that dies with a certificate is
`GiveUp`. `PendingFresh` is what makes the write and the report legal steps.
`NeverTrustedAgain` is then proved from the abstract machine alone (`TrustInv`)
and holds of the code because of the refinement.

**VerificationProofs.** `Embedding`: a step of `Verification` is a step of
`CertificateLifecycle` or leaves its variables alone, hence
`Spec => LifecycleSpec` and every theorem of `CertificateProofs` holds here.
`VInv` then says per position of a verifier what it knows (`KindAt`, `LateAt`,
`SeenAt`): at the CRL, a late stored verification can only be of a superseded
certificate, since the look-up by serial found no REVOKED row; it stays
superseded because serials are never reused (`LifecycleKeeps`).

**DocumentWorkflowProofs.** The properties speak of what a PDF embeds, so the
strengthening is about PDFs (`PdfsSound`), document by document: what `current`
and `final` embed are SIGNED requests of that document (`PdfOn`), which is why a
new signature is in neither; beside it the three properties as they read for one
document (`FollowedOn`, `FinalOn`, `ShownOn`). `RowsKept` says that a row that
exists only expires or is signed; with it, a document whose PDFs a step leaves
alone stays sound by one lemma, and each action is left with the one document it
signs. `ApprovalShape` (an approval is remote and asks an officer) is what makes
the three different look-ups agree, hence `AskedOnce`. `Appended` and `Alone`
are the facts about sequences.

**LocalSignerProofs.** A call on its way must say nothing that was not true when
it was sent, whenever it arrives. `WireSound` says it of the call, the reply,
the listed item and the late calls: a submission carries attributes that were
handed out and that the user agreed to; a reply "ok" to a submission means that they are in the record, or that a device
has paired since they were handed out. `RowSound` ties the key of a CONFIRMED
row to the latest confirmation, and says that nothing is handed out while a
pairing waits for its confirmation, so that all attributes prepared so far are
overtaken; this is what `ReadSubmitted` needs when the reply "waiting" looks
like success. Nothing in it says how often a request is confirmed. `Books`,
`Now` and `Later` say that rows, agreements and pairings only grow, and carry
the calls over every step.

**Only model-checked**: the liveness properties `RecordIsSealed`,
`ApprovalFollows`, `ApprovalReached` and `SignedOrStranded`. Liveness under
fairness and ENABLED are beyond TLAPS here, as is induction over data, which none
of the theorems needs. Every safety property of a passing run is a theorem; of
`OneApprovalPerOfficer`, `NoSignatureDropped` and `EmbeddedVerifies` under the
hypotheses above, without which they are false.

**Proved beyond the runs.** `LostForGood`, `Approved`, `Agreement`, `Permanent`
(remote), `Agreement`, `Completed`, `HasPdf` (client), `OwnCertificates`,
`OnlyRevokedListed`, `RevokedForGood`, `ReportsTrue` and `NeverTrustedAgain`
(certificates) state parts of the inductive invariants, or consequences of them, that a reader may
want by themselves; no run checks them. The two `ApartBehaviours` say what the
runs `apart` and `clientapart` are of.

## 6. Assumptions taken from the environment

* `settings.py` names an ML-DSA key for the lab CA; issuance and the CRL load it
  with `cryptography`, which must support it. If it does not, every issuance and
  every revocation ends as in `Crash`.
* Serials are unique. `openssl x509 -CAcreateserial` increments its file without
  a lock, so overlapping enrolments might collide; the unique column refuses the
  second row.
* The CRL committed with the lab PKI lists no modelled certificate.
* The OCSP responder is not part of the portal and may answer anything.
* The status EXPIRED of a request or certificate is never written; time is seen
  in comparisons only (`expired`, `lapsed`, `"lapsed"`).

## 7. What is not modelled

* Evidence archiving, artifact generation, appended timestamp messages and
  `attach_non_repudiation_evidence`: no decision reads them back, and failures
  of the first two are swallowed. `verify_ltv` and the timestamp only add
  information to a result.
* The audit log: append-only, after the effect it describes.
* `pairing_attempts`, which is compared with a limit and never incremented, and
  with it the pairing status FAILED; the nonce of a call and its window of two
  minutes, except that a late call may never arrive. The device key is in
  `LocalSigner`, not in `ClientSigning`.
* In `LocalSigner`, load and save of the confirmation are one step. They are
  apart in `ClientSigning`, which has no device keys, so no property is about a
  device that pairs between the two and is confirmed unseen.
* In `LocalSigner`, several listed requests (the API lists the one of the
  token), and a second app beside the first: a restarted app with late calls of
  the old one stands for both.
* In `DocumentWorkflow`, the REST upload stands for both uploads (the page
  checks more), and a request whose view died before it had a code, which
  `ClientSigning` has.
* Registration, deletion of rows in the admin site, import of certificates into
  the token (failures swallowed).
* The admin action that revokes several rows reads them all first; here each
  row is a handler of its own, which allows more interleavings but one fewer:
  the read of a later row before the UPDATE of an earlier one is the stale read
  that `BeginRevoke` and `MarkRevoked` already have apart.
* Cryptography, PDF syntax, formatting, HTML.

## 8. Plan

Done: `OneShotSigning`, `TrustedCertificates`, `RemoteSigning`,
`ClientSigning`, `CertificateLifecycle`, `Verification`, `DocumentWorkflow`, `LocalSigner`, their
runs and proofs.

What would come next:

1. `Verification` against `TrustedCertificates`: a verification that begins
   after a report refuses the certificate, as long as rows are not replaced and
   revocations do not overlap: the exceptions of `RevocationSeen` and
   `PublicRevocationSeen` as a refinement statement.
2. `DocumentWorkflow` as the abstraction of `RemoteSigning` and `ClientSigning`
   under `AskersApart`, `SignersApart` and `SessionsApart`.
3. Liveness of verification: a verification that nobody disturbs stores a
   result.
4. `Evidence`: the archive made at signing time against the CRL of that moment,
   and what `verify_ltv` recomputes.
