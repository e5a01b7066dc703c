-------------------------- MODULE DocumentWorkflow --------------------------
(***************************************************************************)
(* The life of a document across all the ways the portal offers to ask for *)
(* a signature and to give one: the five views of frontend/views.py, the   *)
(* generic form (frontend/forms.py), the REST serializer                   *)
(* (signing/serializers.py), the remote service, the client finish and the *)
(* officer's request that follows a citizen's signature                    *)
(* (signing/services.py).                                                  *)
(*                                                                         *)
(* Here a handler is one action.  What overlapping handlers do to each     *)
(* other is the subject of RemoteSigning and ClientSigning; the subject of *)
(* this module is what remains when they do not overlap: which sequences   *)
(* of legal calls lead where, with requests that expire and users whose    *)
(* standing changes between two calls.                                     *)
(***************************************************************************)
EXTENDS Naturals, Sequences, FiniteSets

CONSTANTS
  Request,      \* primary keys of SigningRequest rows
  Document,     \* primary keys of Document rows
  Citizen,      \* users with role CITIZEN
  Officer,      \* users with role OFFICER
  Admin,        \* users with role ADMIN
  Owner,        \* the citizen who owns each document
  Rank,         \* the order of the officers' primary keys
  MaxEvents     \* bound: what the authority, the clock and failing signers do

Authority == Officer \cup Admin
User      == Citizen \cup Authority
None      == "none"

ASSUME WorkflowConstants ==
  /\ Request \subseteq Nat
  /\ Owner \in [Document -> Citizen]
  /\ Rank \in [Officer -> Nat]
  /\ Citizen \cap Authority = {}
  /\ Officer \cap Admin = {}
  /\ None \notin User \cup Document
  /\ MaxEvents \in Nat

VARIABLES
  req,        \* the SigningRequest table
  doc,        \* the Document table
  verified,   \* the users with is_verified_identity
  cert,       \* the state of each user's UserCertificate row
  unattended, \* history: documents signed by their owner while no officer was available
  events      \* what has been used up of the bound

vars == <<req, doc, verified, cert, unattended, events>>

(***************************************************************************)
(* Types.  A signed PDF is the sequence of the requests whose signatures   *)
(* it embeds; the empty sequence stands for an empty file field.           *)
(***************************************************************************)
Type    == {"REMOTE", "CLIENT"}
Purpose == {"CITIZEN_LOCAL_SIGN", "CITIZEN_REMOTE_SIGN", "OFFICER_APPROVAL"}

RequestRow == [status: {"NONE", "PENDING", "SIGNED"}, doc: Document \cup {None},
               signer: User \cup {None}, type: Type, purpose: Purpose, expired: BOOLEAN]
NoRequest == [status |-> "NONE", doc |-> None, signer |-> None, type |-> "REMOTE",
              purpose |-> "CITIZEN_LOCAL_SIGN", expired |-> FALSE]

DocumentRow == [status: {"NONE", "UPLOADED", "PENDING_SIGN", "SIGNED"},
                current: Seq(Request), final: Seq(Request)]

\* "lapsed": the row says ACTIVE and valid_to is in the past.
CertState == {"none", "active", "lapsed", "revoked"}

Typed ==
  /\ req \in [Request -> RequestRow]
  /\ doc \in [Document -> DocumentRow]
  /\ verified \in SUBSET User
  /\ cert \in [User -> CertState]
  /\ unattended \in SUBSET Document
  /\ events \in Nat

\* The foreign keys of a request are set, and it asks for a document that exists.
RowsComplete ==
  \A r \in Request : req[r].status # "NONE" =>
    req[r].doc \in Document /\ req[r].signer \in User /\ doc[req[r].doc].status # "NONE"

\* Every variable has its type and the foreign keys of the rows are set.
TypeOK == Typed /\ RowsComplete

-----------------------------------------------------------------------------
(***************************************************************************)
(* Helper formulas: the queries of the handlers.                           *)
(***************************************************************************)

Free == {r \in Request : req[r].status = "NONE"}

\* The key the sequence of the table hands out next.
NextKey(r) == r \in Free /\ \A q \in Free : r <= q

On(d)      == {r \in Request : req[r].status # "NONE" /\ req[r].doc = d}
Pending(d) == {r \in On(d) : req[r].status = "PENDING"}
Signed(d)  == {r \in On(d) : req[r].status = "SIGNED"}

\* The pending requests of officer_approval purpose, whoever created them.
Approvals(d) == {r \in Pending(d) : req[r].purpose = "OFFICER_APPROVAL"}

\* has_active_certificate: the row decides, not the dates in it.
ActiveInDb(u) == cert[u] \in {"active", "lapsed"}

Eligible(u) == u \in verified /\ ActiveInDb(u)

Available == {o \in Officer : Eligible(o)}

\* User.objects.filter(...).first(): the available officer with the lowest key.
IsFirst(o) == o \in Available /\ \A p \in Available : Rank[o] <= Rank[p]

\* Faulty: the document is left out.
RowWithoutDocument(d, s, t, p) ==
  [status |-> "PENDING", doc |-> None, signer |-> s, type |-> t, purpose |-> p, expired |-> FALSE]

NewRow(d, s, t, p) ==
  [status |-> "PENDING", doc |-> d, signer |-> s, type |-> t, purpose |-> p, expired |-> FALSE]

Insert(r, row) == NextKey(r) /\ req' = [req EXCEPT ![r] = row]

SetStatus(d, s) == doc' = [doc EXCEPT ![d].status = s]

Exists(d) == doc[d].status # "NONE"

-----------------------------------------------------------------------------
Init ==
  /\ req = [r \in Request |-> NoRequest]
  /\ doc = [d \in Document |-> [status |-> "NONE", current |-> <<>>, final |-> <<>>]]
  /\ verified = User
  /\ cert = [u \in User |-> "active"]
  /\ unattended = {}
  /\ events = 0

(***************************************************************************)
(* Documents.                                                              *)
(***************************************************************************)

\* The REST upload asks for a login only.
Upload(d) ==
  /\ ~Exists(d)
  /\ SetStatus(d, "UPLOADED")
  /\ UNCHANGED <<req, verified, cert, unattended, events>>

\* The generated form: the portal writes the PDF and asks for the citizen's
\* client signature in the same view.
GenerateForm(d, r) ==
  /\ ~Exists(d) /\ Eligible(Owner[d])
  /\ Insert(r, NewRow(d, Owner[d], "CLIENT", "CITIZEN_LOCAL_SIGN"))
  /\ SetStatus(d, "PENDING_SIGN")
  /\ UNCHANGED <<verified, cert, unattended, events>>

(***************************************************************************)
(* Requests.                                                               *)
(***************************************************************************)

\* What the views do once their checks passed.
Ask(d, r, row) ==
  /\ Insert(r, row)
  /\ SetStatus(d, "PENDING_SIGN")
  /\ UNCHANGED <<verified, cert, unattended, events>>

SignedBy(d, users) == \E r \in Signed(d) : req[r].signer \in users

\* SigningRequestForm.clean and SigningRequestCreateView: the owner signs first,
\* then an officer or admin.  The purpose keeps its default, also for them.
FormRequest(d, r, s, t) ==
  /\ doc[d].status \in {"UPLOADED", "PENDING_SIGN"}
  /\ Eligible(Owner[d]) /\ Eligible(s)
  /\ ~SignedBy(d, Authority)
  /\ IF SignedBy(d, {Owner[d]}) THEN s \in Authority ELSE s = Owner[d]
  /\ \A q \in Pending(d) : req[q].signer # s
  /\ Ask(d, r, NewRow(d, s, t, "CITIZEN_LOCAL_SIGN"))

\* SigningRequestSerializer: for an uploaded document, any user may be the signer.
RestRequest(d, r, s, t) ==
  /\ doc[d].status = "UPLOADED"
  /\ Ask(d, r, NewRow(d, s, t, "CITIZEN_LOCAL_SIGN"))

ClientRequest(d, r) ==
  /\ Exists(d) /\ Eligible(Owner[d])
  /\ \A q \in Pending(d) : ~(req[q].signer = Owner[d] /\ req[q].type = "CLIENT")
  /\ Ask(d, r, NewRow(d, Owner[d], "CLIENT", "CITIZEN_LOCAL_SIGN"))

CitizenRemoteRequest(d, r) ==
  /\ Exists(d) /\ Eligible(Owner[d])
  /\ \A q \in Pending(d) : ~(/\ req[q].signer = Owner[d] /\ req[q].type = "REMOTE"
                             /\ req[q].purpose = "CITIZEN_REMOTE_SIGN")
  /\ Ask(d, r, NewRow(d, Owner[d], "REMOTE", "CITIZEN_REMOTE_SIGN"))

\* Faulty: the look-up asks for the citizen, as in the citizen's view.
OfficerRequestAnew(d, r, o) ==
  /\ Exists(d) /\ Eligible(Owner[d]) /\ IsFirst(o)
  /\ \A q \in Pending(d) : ~(req[q].signer = Owner[d] /\ req[q].type = "REMOTE")
  /\ Ask(d, r, NewRow(d, o, "REMOTE", "OFFICER_APPROVAL"))

\* The purpose is not part of the look-up here: any pending remote request of
\* the officer stands in the way.
OfficerRequest(d, r, o) ==
  /\ Exists(d) /\ Eligible(Owner[d]) /\ IsFirst(o)
  /\ \A q \in Pending(d) : ~(req[q].signer = o /\ req[q].type = "REMOTE")
  /\ Ask(d, r, NewRow(d, o, "REMOTE", "OFFICER_APPROVAL"))

\* Faulty: the look-up goes by the role of the signer, not by the purpose.
SubmitBesideNone(d, r, o) ==
  /\ Exists(d)
  /\ doc[d].final = <<>>
  /\ \A q \in Pending(d) : req[q].signer \notin Authority
  /\ IsFirst(o)
  /\ Insert(r, NewRow(d, o, "REMOTE", "OFFICER_APPROVAL"))
  /\ UNCHANGED <<doc, verified, cert, unattended, events>>

\* The authority submission does not touch the status of the document.
SubmitAuthority(d, r, o) ==
  /\ Exists(d)
  /\ doc[d].final = <<>>
  /\ Approvals(d) = {}
  /\ IsFirst(o)
  /\ Insert(r, NewRow(d, o, "REMOTE", "OFFICER_APPROVAL"))
  /\ UNCHANGED <<doc, verified, cert, unattended, events>>

-----------------------------------------------------------------------------
(***************************************************************************)
(* Signatures.                                                             *)
(***************************************************************************)

Sealed(r) == [req EXCEPT ![r].status = "SIGNED"]

\* Faulty: any other remote request counts as an officer's.
FollowUpUnlessRemote(r, d, f, o) ==
  IF req[r].signer # Owner[d] \/ \E q \in On(d) \ {r} : req[q].type = "REMOTE"
    THEN req' = Sealed(r) /\ UNCHANGED unattended
    ELSE \/ /\ Available = {}
            /\ req' = Sealed(r)
            /\ unattended' = unattended \cup {d}
         \/ /\ IsFirst(o) /\ NextKey(f)
            /\ req' = [Sealed(r) EXCEPT ![f] = NewRow(d, o, "REMOTE", "OFFICER_APPROVAL")]
            /\ UNCHANGED unattended

\* create_officer_approval_request_after_citizen_sign, after request r on d was
\* sealed: nothing for another signer than the owner or beside an earlier
\* request to an officer or admin (expired or not, of any purpose), else a new
\* row f for the first officer, if there is one.
FollowUp(r, d, f, o) ==
  IF req[r].signer # Owner[d] \/ \E q \in On(d) : req[q].signer \in Authority
    THEN req' = Sealed(r) /\ UNCHANGED unattended
    ELSE \/ /\ Available = {}
            /\ req' = Sealed(r)
            /\ unattended' = unattended \cup {d}
         \/ /\ IsFirst(o) /\ NextKey(f)
            /\ req' = [Sealed(r) EXCEPT ![f] = NewRow(d, o, "REMOTE", "OFFICER_APPROVAL")]
            /\ UNCHANGED unattended

\* Faulty: every signature starts from the upload.
SignatureOnUpload(r, d) == <<r>>

\* The input of the next remote signature is the current PDF, else the upload.
Signature(r, d) == Append(doc[d].current, r)

\* remote_sign_signing_request accepts the request.
Accepted(r) ==
  /\ req[r].status = "PENDING" /\ req[r].type = "REMOTE" /\ ~req[r].expired
  /\ req[r].signer \in Citizen => req[r].signer \in verified
  /\ cert[req[r].signer] = "active"
  /\ req[r].purpose \in {"CITIZEN_REMOTE_SIGN", "OFFICER_APPROVAL"}

\* An officer signs: with the final PDF, the document is SIGNED.
OfficerSign(r) ==
  LET d == req[r].doc IN
  /\ Accepted(r) /\ req[r].purpose = "OFFICER_APPROVAL"
  /\ req' = Sealed(r)
  /\ doc' = [doc EXCEPT ![d] = [status |-> "SIGNED", current |-> Signature(r, d),
                                final |-> Signature(r, d)]]
  /\ UNCHANGED <<verified, cert, unattended, events>>

\* The citizen signs remotely, and an officer is asked next.
CitizenRemoteSign(r, f, o) ==
  LET d == req[r].doc IN
  /\ Accepted(r) /\ req[r].purpose = "CITIZEN_REMOTE_SIGN"
  /\ doc' = [doc EXCEPT ![d].status = "PENDING_SIGN", ![d].current = Signature(r, d)]
  /\ FollowUp(r, d, f, o)
  /\ UNCHANGED <<verified, cert, events>>

\* The record is made and sealed, and the PAdES step fails: the status changes
\* as if there were a PDF, and nobody is asked next.
SignWithoutPdf(r) ==
  /\ Accepted(r)
  /\ events < MaxEvents
  /\ events' = events + 1
  /\ req' = Sealed(r)
  /\ SetStatus(req[r].doc, IF req[r].purpose = "OFFICER_APPROVAL" THEN "SIGNED"
                                                                  ELSE "PENDING_SIGN")
  /\ UNCHANGED <<verified, cert, unattended>>

\* Faulty: the status is left out of update_fields.
ClientSignQuietly(r, f, o) ==
  LET d == req[r].doc IN
  /\ req[r].status = "PENDING" /\ req[r].type = "CLIENT"
  /\ ActiveInDb(req[r].signer)
  /\ doc' = [doc EXCEPT ![d].current = <<r>>]
  /\ FollowUp(r, d, f, o)
  /\ UNCHANGED <<verified, cert, events>>

\* The client signature, through the local signer or the REST endpoints, which
\* look neither at expires_at nor at the dates of the certificate: it starts
\* from the upload whatever the current PDF is, and sets the status back, also
\* of a document that was SIGNED.
ClientSign(r, f, o) ==
  LET d == req[r].doc IN
  /\ req[r].status = "PENDING" /\ req[r].type = "CLIENT"
  /\ ActiveInDb(req[r].signer)
  /\ doc' = [doc EXCEPT ![d].status = "PENDING_SIGN", ![d].current = <<r>>]
  /\ FollowUp(r, d, f, o)
  /\ UNCHANGED <<verified, cert, events>>

-----------------------------------------------------------------------------
(***************************************************************************)
(* The environment: time and the registration authority.                   *)
(***************************************************************************)

Event ==
  /\ events < MaxEvents
  /\ events' = events + 1
  /\ UNCHANGED <<doc, unattended>>

Expire(r) ==
  /\ req[r].status = "PENDING" /\ ~req[r].expired
  /\ req' = [req EXCEPT ![r].expired = TRUE]
  /\ Event /\ UNCHANGED <<verified, cert>>

Verify(u) ==
  /\ u \notin verified /\ verified' = verified \cup {u}
  /\ Event /\ UNCHANGED <<req, cert>>

Reject(u) ==
  /\ u \in verified /\ verified' = verified \ {u}
  /\ Event /\ UNCHANGED <<req, cert>>

\* Issuing and enrolling replace any row; a citizen must be verified.
Certify(u) ==
  /\ cert[u] # "active" /\ (u \in Citizen => u \in verified)
  /\ cert' = [cert EXCEPT ![u] = "active"]
  /\ Event /\ UNCHANGED <<req, verified>>

Revoke(u) ==
  /\ ActiveInDb(u)
  /\ cert' = [cert EXCEPT ![u] = "revoked"]
  /\ Event /\ UNCHANGED <<req, verified>>

Lapse(u) ==
  /\ cert[u] = "active"
  /\ cert' = [cert EXCEPT ![u] = "lapsed"]
  /\ Event /\ UNCHANGED <<req, verified>>

-----------------------------------------------------------------------------
Submit(d) == \E r \in Request, o \in Officer : SubmitAuthority(d, r, o)

Ordering(d) ==
  \E r \in Request :
    \/ GenerateForm(d, r) \/ ClientRequest(d, r) \/ CitizenRemoteRequest(d, r)
    \/ \E s \in User, t \in Type : FormRequest(d, r, s, t) \/ RestRequest(d, r, s, t)
    \/ \E o \in Officer : OfficerRequest(d, r, o)

Signing(r) ==
  \/ OfficerSign(r) \/ SignWithoutPdf(r)
  \/ \E f \in Request, o \in Officer : CitizenRemoteSign(r, f, o) \/ ClientSign(r, f, o)

Environment ==
  \/ \E r \in Request : Expire(r)
  \/ \E u \in User : Verify(u) \/ Reject(u) \/ Certify(u) \/ Revoke(u) \/ Lapse(u)

Next ==
  \/ \E d \in Document : Upload(d) \/ Submit(d) \/ Ordering(d)
  \/ \E r \in Request : Signing(r)
  \/ Environment

Spec == Init /\ [][Next]_vars

\* Owners submit what has no final PDF, and officers sign what they can: the
\* pages of both show them what is waiting.
Fairness ==
  /\ \A d \in Document : WF_vars(Submit(d))
  /\ \A r \in Request : WF_vars(OfficerSign(r))

FairSpec == Spec /\ Fairness

-----------------------------------------------------------------------------
(***************************************************************************)
(* Properties.                                                             *)
(***************************************************************************)

In(r, pdf) == \E i \in 1..Len(pdf) : pdf[i] = r

Extends(pdf, base) ==
  Len(base) <= Len(pdf) /\ \A i \in 1..Len(base) : pdf[i] = base[i]

\* Three places create an approval, each with a look-up of its own: an officer
\* is never asked twice for the same document at the same time.
OneApprovalPerOfficer ==
  \A d \in Document : \A q, r \in Approvals(d) : req[q].signer = req[r].signer => q = r

\* A signature of the owner in the current PDF, remote or by a client, has been
\* followed by a request to an officer or admin, unless there was no officer.
CitizenSignatureFollowed ==
  \A d \in Document \ unattended :
    (\E r \in Request : In(r, doc[d].current) /\ req[r].signer = Owner[d])
      => \E r \in On(d) : req[r].signer \in Authority

\* What an officer approved stays the beginning of the current PDF, through any
\* number of later remote signatures, until a client signature starts over.
FinalInCurrent ==
  \A d \in Document :
    \/ Extends(doc[d].current, doc[d].final)
    \/ /\ doc[d].current # <<>>
       /\ req[doc[d].current[1]].type = "CLIENT" /\ ~In(doc[d].current[1], doc[d].final)

\* A document shown as SIGNED has a final PDF, and it is the current one; only
\* an approval that was sealed without a PDF can leave the two apart.
SignedIsFinal ==
  \A d \in Document : doc[d].status = "SIGNED" =>
    \/ doc[d].final # <<>> /\ doc[d].current = doc[d].final
    \/ \E r \in Signed(d) : req[r].purpose = "OFFICER_APPROVAL" /\ ~In(r, doc[d].final)

\* The approval of d cannot proceed: the first officer cannot sign, or a pending
\* approval is one nobody can sign any more (nothing closes such a request), or
\* the bounded table is full.
Stuck(d) ==
  \/ ~\E o \in Officer : IsFirst(o) /\ cert[o] = "active"
  \/ \E r \in Approvals(d) : req[r].expired \/ cert[req[r].signer] # "active"
  \/ Free = {}

\* Whatever was asked for before, and through whichever view, a document gets
\* its final PDF or is stuck for one of the reasons above: no request of another
\* kind and no state of the document can keep the owner and the officer from it.
ApprovalReached ==
  \A d \in Document : Exists(d) ~> doc[d].final # <<>> \/ Stuck(d)
=============================================================================
