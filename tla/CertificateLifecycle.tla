------------------------ MODULE CertificateLifecycle ------------------------
(***************************************************************************)
(* The life of a signer's certificate: identity verification, issuance on  *)
(* a SoftHSM key by the registration authority, enrolment from a CSR by    *)
(* the user, revocation and the CRL file that is rebuilt from the table.   *)
(* The code: accounts/services.py, accounts/revocation_services.py,        *)
(* accounts/pkcs11_utils.py, accounts/views.py, accounts/admin.py and      *)
(* RAActionView of frontend/views.py.                                      *)
(*                                                                         *)
(* A worker is a thread that serves one HTTP request; each action is one   *)
(* statement on the database, one access to the token or one access to the *)
(* CRL file.  The database commits every statement on its own.             *)
(***************************************************************************)
EXTENDS Naturals, Sequences, FiniteSets

CONSTANTS
  Worker,      \* HTTP handler threads
  User,        \* users
  Citizen,     \* the users with role CITIZEN: the others need no verified identity
  MaxSerials,  \* bound: certificates the lab CA signs
  MaxCrashes   \* bound: workers that die in the middle of a handler

None == "none"

ASSUME CertificateConstants ==
  /\ Citizen \subseteq User
  /\ None \notin User
  /\ MaxSerials \in Nat /\ MaxCrashes \in Nat

VARIABLES
  verified,   \* User.is_verified_identity
  cert,       \* the UserCertificate table, keyed by its unique user
  owner,      \* owner[n]: the user the lab CA signed its n-th certificate for
  keys,       \* SoftHSM: key pairs under the label of each user
  crl,        \* the file lab_ca.crl.pem
  pc, loc,    \* where each worker is in its handler, and what it has read
  crashes,    \* what has been used up of MaxCrashes
  revoked,    \* history: certificates that were REVOKED in the table
  confirmed,  \* history: certificates whose revocation was reported to the officer
  disturbed,  \* history: two revocations overlapped, or one died
  orphaned    \* history: users whose issuance died after the key was generated

certVars == <<verified, cert, owner, keys, crl, revoked, confirmed, disturbed, orphaned>>
lifecycleVars == <<verified, cert, owner, keys, crl, pc, loc, crashes,
                   revoked, confirmed, disturbed, orphaned>>

(***************************************************************************)
(* A certificate is the number of the signature of the lab CA it comes     *)
(* from, which stands for its serial number.                               *)
(***************************************************************************)
Serial == 1 .. Len(owner)

\* A status "none" means that the user has no row.
CertRow == [status: {"none", "active", "revoked"}, serial: Nat]

\* The file was truncated by open("wb"), or is a whole CRL.  A file that does not
\* exist yet is read as one that lists nothing (crl_utils.py, 6).
CrlFile == [state: {"torn", "whole"}, listed: SUBSET Nat]

Enrolling == {"csr", "upsert"}
Issuing   == {"profile", "checkKey", "generate", "certify", "insert"}
Revoking  == {"mark", "query", "truncate", "write"}

\* serial: of the row read, or of the certificate just signed;
\* listed: the serials of the CRL that is being built.
Local   == [user: User \cup {None}, serial: Nat, listed: SUBSET Nat]
NoLocal == [user |-> None, serial |-> 0, listed |-> {}]

\* Every variable has its type.
CertTypeOK ==
  /\ verified \in [User -> BOOLEAN]
  /\ cert \in [User -> CertRow]
  /\ owner \in Seq(User)
  /\ keys \in [User -> Nat]
  /\ crl \in CrlFile
  /\ pc \in [Worker -> {"idle"} \cup Enrolling \cup Issuing \cup Revoking]
  /\ loc \in [Worker -> Local]
  /\ \A w \in Worker : pc[w] # "idle" => loc[w].user \in User
  /\ crashes \in Nat
  /\ revoked \in SUBSET Nat /\ confirmed \in SUBSET Nat
  /\ disturbed \in BOOLEAN
  /\ orphaned \in SUBSET User

LifecycleInit ==
  /\ verified = [u \in User |-> FALSE]
  /\ cert = [u \in User |-> [status |-> "none", serial |-> 0]]
  /\ owner = <<>>
  /\ keys = [u \in User |-> 0]
  /\ crl = [state |-> "whole", listed |-> {}]
  /\ pc = [w \in Worker |-> "idle"]
  /\ loc = [w \in Worker |-> NoLocal]
  /\ crashes = 0
  /\ revoked = {} /\ confirmed = {} /\ orphaned = {}
  /\ disturbed = FALSE

-----------------------------------------------------------------------------
(***************************************************************************)
(* Steps of a handler.                                                     *)
(***************************************************************************)

\* The rows whose status is REVOKED, by serial.
RevokedRows == {cert[u].serial : u \in {v \in User : cert[v].status = "revoked"}}

MayBeIssued(u) == u \in Citizen => verified[u]

\* Room for one more certificate, besides those the other workers may still sign.
RoomForSerial ==
  Len(owner) + Cardinality({w \in Worker : pc[w] \in {"csr"} \cup (Issuing \ {"insert"})})
    < MaxSerials

\* Faulty: the enrolment does not insist on an authenticated user.
BeginAnonymous(w, u, first) ==
  /\ pc[w] = "idle"
  /\ pc' = [pc EXCEPT ![w] = first]
  /\ UNCHANGED loc

Begin(w, u, first) ==
  /\ pc[w] = "idle"
  /\ pc' = [pc EXCEPT ![w] = first]
  /\ loc' = [loc EXCEPT ![w] = [NoLocal EXCEPT !.user = u]]

Goto(w, next) ==
  /\ pc' = [pc EXCEPT ![w] = next]
  /\ UNCHANGED loc

Return(w) ==
  /\ pc' = [pc EXCEPT ![w] = "idle"]
  /\ loc' = [loc EXCEPT ![w] = NoLocal]

\* The lab CA signs a certificate for the user of worker w: its serial is new.
LabCaSigns(w, next) ==
  /\ owner' = Append(owner, loc[w].user)
  /\ loc' = [loc EXCEPT ![w].serial = Len(owner) + 1]
  /\ pc' = [pc EXCEPT ![w] = next]

-----------------------------------------------------------------------------
(***************************************************************************)
(* Identity: VerifyIdentityView, RejectIdentityView and the actions verify *)
(* and reject of RAActionView write one column of the user's row.  Nothing *)
(* reads it for a user who is not a citizen.                               *)
(***************************************************************************)
DecideIdentity(u) ==
  /\ u \in Citizen
  /\ verified' = [verified EXCEPT ![u] = ~verified[u]]
  /\ UNCHANGED <<cert, owner, keys, crl, pc, loc, crashes, revoked, confirmed, disturbed, orphaned>>

(***************************************************************************)
(* Enrolment from a CSR.                                                   *)
(***************************************************************************)
BeginEnroll(w, u) ==
  /\ MayBeIssued(u)
  /\ RoomForSerial
  /\ Begin(w, u, "csr")
  /\ UNCHANGED <<certVars, crashes>>

\* The CSR is refused, or openssl x509 -req signs a certificate.
SignCsr(w) ==
  /\ pc[w] = "csr"
  /\ \/ LabCaSigns(w, "upsert")
     \/ Return(w) /\ UNCHANGED owner
  /\ UNCHANGED <<verified, cert, keys, crl, crashes, revoked, confirmed, disturbed, orphaned>>

\* Faulty: the serial is left out of the defaults of update_or_create.
UpsertKeepingSerial(w) ==
  /\ pc[w] = "upsert"
  /\ cert' = [cert EXCEPT ![loc[w].user] =
        [status |-> "active", serial |-> IF @.status = "none" THEN loc[w].serial ELSE @.serial]]
  /\ Return(w)
  /\ UNCHANGED <<verified, owner, keys, crl, crashes, revoked, confirmed, disturbed, orphaned>>

\* update_or_create: one transaction on the row of the user.
UpsertCertificate(w) ==
  /\ pc[w] = "upsert"
  /\ cert' = [cert EXCEPT ![loc[w].user] = [status |-> "active", serial |-> loc[w].serial]]
  /\ Return(w)
  /\ UNCHANGED <<verified, owner, keys, crl, crashes, revoked, confirmed, disturbed, orphaned>>

(***************************************************************************)
(* Issuance by the registration authority, on a key pair in SoftHSM.       *)
(***************************************************************************)
BeginIssue(w, u) ==
  /\ MayBeIssued(u)
  /\ RoomForSerial
  /\ Begin(w, u, "profile")
  /\ UNCHANGED <<certVars, crashes>>

\* An existing profile is returned as it is, a revoked one too.
ReadProfile(w) ==
  /\ pc[w] = "profile"
  /\ IF cert[loc[w].user].status # "none" THEN Return(w) ELSE Goto(w, "checkKey")
  /\ UNCHANGED <<certVars, crashes>>

\* A private key under the label of the user raises: key already exists.
CheckKey(w) ==
  /\ pc[w] = "checkKey"
  /\ IF keys[loc[w].user] > 0 THEN Return(w) ELSE Goto(w, "generate")
  /\ UNCHANGED <<certVars, crashes>>

GenerateKey(w) ==
  /\ pc[w] = "generate"
  /\ keys' = [keys EXCEPT ![loc[w].user] = @ + 1]
  /\ Goto(w, "certify")
  /\ UNCHANGED <<verified, cert, owner, crl, crashes, revoked, confirmed, disturbed, orphaned>>

\* Faulty: a failure of the lab CA is swallowed.
SignOrGiveUp(w) ==
  /\ pc[w] = "certify"
  /\ LabCaSigns(w, "insert") \/ (Return(w) /\ UNCHANGED owner)
  /\ UNCHANGED <<verified, cert, keys, crl, crashes, revoked, confirmed, disturbed, orphaned>>

\* The public key is looked up by its label; the lab CA's key is loaded in the process.
SignIssued(w) ==
  /\ pc[w] = "certify"
  /\ LabCaSigns(w, "insert")
  /\ UNCHANGED <<verified, cert, keys, crl, crashes, revoked, confirmed, disturbed, orphaned>>

\* UserCertificate.objects.create: the user is unique, a second row is an IntegrityError.
InsertCertificate(w) ==
  /\ pc[w] = "insert"
  /\ IF cert[loc[w].user].status = "none"
       THEN cert' = [cert EXCEPT ![loc[w].user] =
                       [status |-> "active", serial |-> loc[w].serial]]
       ELSE UNCHANGED cert
  /\ Return(w)
  /\ UNCHANGED <<verified, owner, keys, crl, crashes, revoked, confirmed, disturbed, orphaned>>

(***************************************************************************)
(* Revocation.  RAActionView turns a REVOKED row away; the action of the   *)
(* admin site rebuilds the CRL for it.                                     *)
(***************************************************************************)
BeginRevoke(w, u) ==
  /\ cert[u].status # "none"
  /\ pc[w] = "idle"
  /\ pc' = [pc EXCEPT ![w] = IF cert[u].status = "active" THEN "mark" ELSE "query"]
  /\ loc' = [loc EXCEPT ![w] = [NoLocal EXCEPT !.user = u, !.serial = cert[u].serial]]
  /\ disturbed' = (disturbed \/ \E x \in Worker : pc[x] \in Revoking)
  /\ UNCHANGED <<verified, cert, owner, keys, crl, crashes, revoked, confirmed, orphaned>>

\* Faulty: the revoked rows are read before the status is saved.
MarkAfterQuery(w) ==
  /\ pc[w] = "mark"
  /\ cert' = [cert EXCEPT ![loc[w].user].status = "revoked"]
  /\ revoked' = revoked \cup {cert[loc[w].user].serial}
  /\ loc' = [loc EXCEPT ![w].listed = RevokedRows]
  /\ pc' = [pc EXCEPT ![w] = "truncate"]
  /\ UNCHANGED <<verified, owner, keys, crl, crashes, confirmed, disturbed, orphaned>>

\* save(update_fields=["status"]): the row is found by its primary key,
\* whatever certificate it holds by now.
MarkRevoked(w) ==
  /\ pc[w] = "mark"
  /\ cert' = [cert EXCEPT ![loc[w].user].status = "revoked"]
  /\ revoked' = revoked \cup {cert[loc[w].user].serial}
  /\ Goto(w, "query")
  /\ UNCHANGED <<verified, owner, keys, crl, crashes, confirmed, disturbed, orphaned>>

QueryRevoked(w) ==
  /\ pc[w] = "query"
  /\ loc' = [loc EXCEPT ![w].listed = RevokedRows]
  /\ pc' = [pc EXCEPT ![w] = "truncate"]
  /\ UNCHANGED <<certVars, crashes>>

\* write_bytes: open("wb") truncates the file before the bytes arrive.
TruncateCrl(w) ==
  /\ pc[w] = "truncate"
  /\ crl' = [state |-> "torn", listed |-> {}]
  /\ Goto(w, "write")
  /\ UNCHANGED <<verified, cert, owner, keys, crashes, revoked, confirmed, disturbed, orphaned>>

\* The view then reports the serial of the row it read: "Certificate revoked".
WriteCrl(w) ==
  /\ pc[w] = "write"
  /\ crl' = [state |-> "whole", listed |-> loc[w].listed]
  /\ confirmed' = confirmed \cup {loc[w].serial}
  /\ Return(w)
  /\ UNCHANGED <<verified, cert, owner, keys, crashes, revoked, disturbed, orphaned>>

(***************************************************************************)
(* The thread dies, or an exception (a CA file or a token that cannot be   *)
(* read, a failing statement) ends the handler with what it has done.      *)
(***************************************************************************)
Crash(w) ==
  /\ pc[w] # "idle"
  /\ crashes < MaxCrashes
  /\ crashes' = crashes + 1
  /\ disturbed' = (disturbed \/ pc[w] \in Revoking)
  /\ orphaned' = IF pc[w] \in {"certify", "insert"}
                   THEN orphaned \cup {loc[w].user} ELSE orphaned
  /\ Return(w)
  /\ UNCHANGED <<verified, cert, owner, keys, crl, revoked, confirmed>>

Enroll(w) == (\E u \in User : BeginEnroll(w, u)) \/ SignCsr(w) \/ UpsertCertificate(w)

Issue(w) ==
  \/ \E u \in User : BeginIssue(w, u)
  \/ ReadProfile(w) \/ CheckKey(w) \/ GenerateKey(w) \/ SignIssued(w) \/ InsertCertificate(w)

Revoke(w) ==
  \/ \E u \in User : BeginRevoke(w, u)
  \/ MarkRevoked(w) \/ QueryRevoked(w) \/ TruncateCrl(w) \/ WriteCrl(w)

LifecycleNext ==
  \/ \E u \in User : DecideIdentity(u)
  \/ \E w \in Worker : Enroll(w) \/ Issue(w) \/ Revoke(w) \/ Crash(w)

LifecycleSpec == LifecycleInit /\ [][LifecycleNext]_lifecycleVars

-----------------------------------------------------------------------------
(***************************************************************************)
(* Invariants.                                                             *)
(***************************************************************************)

\* Certificate s is no longer the one in the row of the user it was signed for.
Superseded(s) == s \in Serial /\ cert[owner[s]].serial # s

\* A row holds a certificate that the lab CA signed for the user of that row,
\* however the enrolments and issuances of several users overlap.
RowsOwnCertificates ==
  \A u \in User : cert[u].status # "none" =>
    cert[u].serial \in Serial /\ owner[cert[u].serial] = u

\* A key pair in SoftHSM of a user without a certificate belongs to an issuance
\* that is under way or that has died: a key that nobody owns would make every
\* later issuance raise "SoftHSM key already exists" (pkcs11_utils.py, 47).
KeyIsOwned ==
  \A u \in User : keys[u] > 0 /\ cert[u].status = "none" =>
    \/ u \in orphaned
    \/ \E w \in Worker : pc[w] \in {"certify", "insert"} /\ loc[w].user = u

\* The CRL, and every CRL under construction, lists only certificates that
\* were revoked, although it is built from rows that enrolments replace.
ListedWasRevoked ==
  /\ crl.listed \subseteq revoked
  /\ \A w \in Worker : loc[w].listed \subseteq revoked

\* A certificate that was revoked is never the ACTIVE certificate of a row
\* again: update_or_create writes the status and the serial together.
ActiveNotRevoked ==
  \A u \in User : cert[u].status = "active" => cert[u].serial \notin revoked

\* A revocation that was reported revoked the certificate it names, or an
\* enrolment took that certificate's place before the UPDATE arrived, which
\* goes by the primary key of the row.
ReportedIsRevoked == \A s \in confirmed : s \in revoked \/ Superseded(s)

\* As long as revocations neither overlap nor die, no REVOKED row is missing
\* from the CRL, except while the CRL that will list it is on its way.
CrlComplete ==
  disturbed \/
    IF \E w \in Worker : pc[w] \in {"query", "truncate", "write"}
      THEN \A w \in Worker : pc[w] \in {"truncate", "write"} => RevokedRows \subseteq loc[w].listed
      ELSE crl.state # "torn" /\ RevokedRows \subseteq crl.listed

-----------------------------------------------------------------------------
(***************************************************************************)
(* What a step may never do.                                               *)
(***************************************************************************)

\* Certificates that are on their way into the row of their user.
Pending == {"upsert", "insert"}

PendingSerials == {loc[w].serial : w \in {x \in Worker : pc[x] \in Pending}}
ActiveSerials  == {cert[u].serial : u \in {v \in User : cert[v].status = "active"}}

Trust == INSTANCE TrustedCertificates WITH
  holder    <- owner,
  pending   <- PendingSerials,
  current   <- ActiveSerials,
  revoked   <- revoked,
  reported  <- confirmed,
  published <- crl.listed

\* A certificate is trusted once, after the lab CA signed it and for its own
\* user only; it is given up or revoked for good; and it is reported and
\* published only then, however many handlers work on the same row.
ImplementsTrust == Trust!Spec
=============================================================================
