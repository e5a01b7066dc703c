---------------------------- MODULE Verification ----------------------------
(***************************************************************************)
(* The verification of signatures beside the life of certificates: the     *)
(* service verify_signature_record and the result it stores                *)
(* (verification/services.py), its two entries (verification/serializers.py*)
(* and VerifySignatureView), and the three public verifications            *)
(* (verification/public_verify_services.py), which answer and store        *)
(* nothing.  A verifier is a thread that serves one such HTTP request.     *)
(***************************************************************************)
EXTENDS CertificateLifecycle

CONSTANTS
  Verifier,   \* threads that verify
  Record,     \* signature records
  MaxDeaths   \* bound: verifiers that die or raise in the middle of a handler

ASSUME VerificationConstants == None \notin Record /\ MaxDeaths \in Nat

VARIABLES
  sig,        \* the SignatureRecord table: the certificate, and whether hash and
              \* signature match the file of the document
  result,     \* the VerificationResult table, keyed by its unique record
  vpc, vloc,  \* where each verifier is, and what it has read
  deaths,     \* what has been used up of MaxDeaths
  had,        \* history: records that have had a result
  failed      \* history: records one of whose verifications deleted and then raised

verVars == <<sig, result, vpc, vloc, deaths, had, failed>>
vars == <<verified, cert, owner, keys, crl, pc, loc, crashes, revoked, confirmed, disturbed,
          orphaned, sig, result, vpc, vloc, deaths, had, failed>>

Entry  == {"rest", "page"}           \* entries of verify_signature_record
Public == {"raw", "cms", "pades"}    \* public verifications, by signature format

\* serial 0: the record does not exist yet.
SigRow == [serial: Nat, sound: BOOLEAN]
NoSig  == [serial |-> 0, sound |-> FALSE]

\* late: the revocation of the certificate was reported before this verification began.
ResultRow == [status: {"none", "valid", "invalid"}, late: BOOLEAN]
NoResult  == [status |-> "none", late |-> FALSE]

\* Where a verification of the service has deleted the earlier result.
Deleted == {"lookup", "crl", "ocsp", "create"}

\* kind: "stored" for the service; late: as in ResultRow;
\* flag: a REVOKED row or a listed serial was seen; unread: the CRL did not parse.
VLocal == [kind: {"stored", None} \cup Public, record: Record \cup {None},
           late: BOOLEAN, flag: BOOLEAN, unread: BOOLEAN,
           verdict: {"none", "valid", "invalid", "error"}]
NoVLocal == [kind |-> None, record |-> None, late |-> FALSE,
             flag |-> FALSE, unread |-> FALSE, verdict |-> "none"]

VerTypeOK ==
  /\ sig \in [Record -> SigRow]
  /\ result \in [Record -> ResultRow]
  /\ vpc \in [Verifier -> {"idle", "delete", "fingerprint", "answer"} \cup Deleted]
  /\ vloc \in [Verifier -> VLocal]
  /\ \A v \in Verifier : vpc[v] # "idle" =>
       vloc[v].record \in Record /\ vloc[v].kind # None
  /\ deaths \in Nat
  /\ had \in SUBSET Record /\ failed \in SUBSET Record

\* Every variable has its type.
TypeOK == CertTypeOK /\ VerTypeOK

Init ==
  /\ LifecycleInit
  /\ sig = [r \in Record |-> NoSig]
  /\ result = [r \in Record |-> NoResult]
  /\ vpc = [v \in Verifier |-> "idle"]
  /\ vloc = [v \in Verifier |-> NoVLocal]
  /\ deaths = 0
  /\ had = {} /\ failed = {}

-----------------------------------------------------------------------------
(***************************************************************************)
(* Helper formulas.                                                        *)
(***************************************************************************)

\* Faulty: the hexadecimal form of the serial, which no row and no list has.
SerialAsHex(v) == 0

\* The serial of the certificate in the record of verifier v.
SerialOf(v) == sig[vloc[v].record].serial

\* The users whose row holds certificate s: at most one, serials being unique.
RowsWith(s) == {u \in User : cert[u].status # "none" /\ cert[u].serial = s}

\* check_certificate_ocsp_status: the responder is not the portal's and any answer
\* may come; "unavailable" stands for "error" and for the check being disabled too.
OcspStatus == {"good", "revoked", "unknown", "unavailable"}

VGoto(v, next) ==
  /\ vpc' = [vpc EXCEPT ![v] = next]
  /\ UNCHANGED vloc

\* The verdict is reached: the service saves it, a public verification answers it.
Conclude(v, verdict) ==
  /\ vpc' = [vpc EXCEPT ![v] = IF vloc[v].kind = "stored" THEN "create" ELSE "answer"]
  /\ vloc' = [vloc EXCEPT ![v].verdict = verdict]

VReturn(v) ==
  /\ vpc' = [vpc EXCEPT ![v] = "idle"]
  /\ vloc' = [vloc EXCEPT ![v] = NoVLocal]

Verdict(ok) == IF ok THEN "valid" ELSE "invalid"

SoundOf(v) == sig[vloc[v].record].sound

-----------------------------------------------------------------------------
(***************************************************************************)
(* Signing: a record is made with the ACTIVE certificate of its signer.    *)
(* It is sound when its signature covers the file the user uploaded: the   *)
(* service reads that file, and a later signature of a document covers     *)
(* another one.  The certificate is read some statements before the record *)
(* is inserted; nothing looks at the record in between, so both are here.  *)
(***************************************************************************)
SignRecord(r, u, sound) ==
  /\ sig[r] = NoSig
  /\ cert[u].status = "active"
  /\ sig' = [sig EXCEPT ![r] = [serial |-> cert[u].serial, sound |-> sound]]
  /\ UNCHANGED <<lifecycleVars, result, vpc, vloc, deaths, had, failed>>

(***************************************************************************)
(* The five entries.  The REST endpoint refuses a record that has a        *)
(* result: "already been verified"; the page does not look.                *)
(***************************************************************************)
Start(v, r, kind, first) ==
  /\ vpc[v] = "idle"
  /\ sig[r] # NoSig
  /\ vpc' = [vpc EXCEPT ![v] = first]
  /\ vloc' = [vloc EXCEPT ![v] = [NoVLocal EXCEPT !.kind = kind, !.record = r,
                                    !.late = (sig[r].serial \in confirmed)]]
  /\ UNCHANGED <<lifecycleVars, sig, result, deaths, had, failed>>

BeginStored(v, r, entry) ==
  /\ entry = "rest" => result[r].status = "none"
  /\ Start(v, r, "stored", "delete")

BeginPublic(v, r, kind) ==
  Start(v, r, kind, IF kind = "pades" THEN "fingerprint" ELSE "crl")

\* The earlier result goes first; then the file, hash, signature, issuer and
\* validity are checked, on data that no other handler changes.
DeleteResult(v) ==
  /\ vpc[v] = "delete"
  /\ result' = [result EXCEPT ![vloc[v].record] = NoResult]
  /\ IF SoundOf(v) THEN VGoto(v, "lookup") ELSE Conclude(v, "invalid")
  /\ UNCHANGED <<lifecycleVars, sig, deaths, had, failed>>

\* Faulty: without a row the service returns early, with no result.
LookUpOrReturn(v) ==
  /\ vpc[v] = "lookup"
  /\ IF RowsWith(SerialOf(v)) = {} THEN VReturn(v)
       ELSE IF \E u \in RowsWith(SerialOf(v)) : cert[u].status # "active"
         THEN Conclude(v, "invalid")
         ELSE VGoto(v, "crl")
  /\ UNCHANGED <<lifecycleVars, sig, result, deaths, had, failed>>

\* A serial without a row passes: the row may hold a later certificate.
LookUpCertificate(v) ==
  /\ vpc[v] = "lookup"
  /\ IF \E u \in RowsWith(SerialOf(v)) : cert[u].status # "active"
       THEN Conclude(v, "invalid")
       ELSE VGoto(v, "crl")
  /\ UNCHANGED <<lifecycleVars, sig, result, deaths, had, failed>>

\* PAdES: without a row that has the fingerprint, neither CRL nor OCSP is asked.
FindByFingerprint(v) ==
  /\ vpc[v] = "fingerprint"
  /\ \/ RowsWith(SerialOf(v)) = {} /\ Conclude(v, Verdict(SoundOf(v)))
     \/ \E u \in RowsWith(SerialOf(v)) :
          /\ vpc' = [vpc EXCEPT ![v] = "crl"]
          /\ vloc' = [vloc EXCEPT ![v].flag = (cert[u].status = "revoked")]
  /\ UNCHANGED <<lifecycleVars, sig, result, deaths, had, failed>>

\* is_cert_revoked_in_crl: no file means not revoked.
ReadCrl(v) ==
  /\ vpc[v] = "crl" /\ crl.state # "torn"
  /\ LET listed == SerialOf(v) \in crl.listed IN
     IF listed /\ vloc[v].kind = "stored"
       THEN Conclude(v, "invalid")
       ELSE /\ vpc' = [vpc EXCEPT ![v] = "ocsp"]
            /\ vloc' = [vloc EXCEPT ![v].flag = @ \/ listed]
  /\ UNCHANGED <<lifecycleVars, sig, result, deaths, had, failed>>

\* Faulty: the exception is stored as the status of the result.
ReadTornCrlStored(v) ==
  /\ vpc[v] = "crl" /\ crl.state = "torn"
  /\ Conclude(v, "error")
  /\ UNCHANGED <<lifecycleVars, sig, result, deaths, had, failed>>

\* Faulty: a CRL that does not parse revokes nothing.
ReadTornCrlOpen(v) ==
  /\ vpc[v] = "crl" /\ crl.state = "torn"
  /\ VGoto(v, "ocsp")
  /\ UNCHANGED <<lifecycleVars, sig, result, deaths, had, failed>>

\* A truncated CRL does not parse.  The service raises and its result stays
\* deleted, the raw and PAdES verifications answer an error; the CMS one goes on
\* without any certificate check, and its policy takes "not checked" for good.
ReadTornCrl(v) ==
  /\ vpc[v] = "crl" /\ crl.state = "torn"
  /\ \/ /\ vloc[v].kind = "stored"
        /\ VReturn(v)
        /\ failed' = failed \cup {vloc[v].record}
     \/ /\ vloc[v].kind \in {"raw", "pades"}
        /\ Conclude(v, "error")
        /\ UNCHANGED failed
     \/ /\ vloc[v].kind = "cms"
        /\ vpc' = [vpc EXCEPT ![v] = "answer"]
        /\ vloc' = [vloc EXCEPT ![v].unread = TRUE, ![v].verdict = Verdict(SoundOf(v))]
        /\ UNCHANGED failed
  /\ UNCHANGED <<lifecycleVars, sig, result, deaths, had>>

\* An unknown certificate is refused by the service and by the raw verification;
\* an unavailable responder is passed over by all.
AskOcsp(v, ocsp) ==
  /\ vpc[v] = "ocsp"
  /\ LET refused == IF vloc[v].kind \in {"cms", "pades"} THEN {"revoked"}
                                                       ELSE {"revoked", "unknown"}
     IN Conclude(v, Verdict(SoundOf(v) /\ ~vloc[v].flag /\ ocsp \notin refused))
  /\ UNCHANGED <<lifecycleVars, sig, result, deaths, had, failed>>

\* The record of a result is unique: a second one is an IntegrityError.
CreateResult(v) ==
  /\ vpc[v] = "create"
  /\ LET r == vloc[v].record IN
     IF result[r].status = "none"
       THEN /\ result' = [result EXCEPT ![r] =
                            [status |-> vloc[v].verdict, late |-> vloc[v].late]]
            /\ had' = had \cup {r}
       ELSE UNCHANGED <<result, had>>
  /\ VReturn(v)
  /\ UNCHANGED <<lifecycleVars, sig, deaths, failed>>

Answer(v) ==
  /\ vpc[v] = "answer"
  /\ VReturn(v)
  /\ UNCHANGED <<lifecycleVars, sig, result, deaths, had, failed>>

\* The thread dies, or a statement or a file that cannot be read ends it.
VerifierDies(v) ==
  /\ vpc[v] # "idle"
  /\ deaths < MaxDeaths
  /\ deaths' = deaths + 1
  /\ failed' = IF vloc[v].kind = "stored" /\ vpc[v] \in Deleted
                 THEN failed \cup {vloc[v].record} ELSE failed
  /\ VReturn(v)
  /\ UNCHANGED <<lifecycleVars, sig, result, had>>

Verify(v) ==
  \/ \E r \in Record, entry \in Entry : BeginStored(v, r, entry)
  \/ \E r \in Record, kind \in Public : BeginPublic(v, r, kind)
  \/ DeleteResult(v) \/ LookUpCertificate(v) \/ FindByFingerprint(v)
  \/ ReadCrl(v) \/ ReadTornCrl(v)
  \/ \E ocsp \in OcspStatus : AskOcsp(v, ocsp)
  \/ CreateResult(v) \/ Answer(v) \/ VerifierDies(v)

Next ==
  \/ LifecycleNext /\ UNCHANGED verVars
  \/ \E r \in Record, u \in User, sound \in BOOLEAN : SignRecord(r, u, sound)
  \/ \E v \in Verifier : Verify(v)

Spec == Init /\ [][Next]_vars

-----------------------------------------------------------------------------
(***************************************************************************)
(* Invariants.                                                             *)
(***************************************************************************)

\* A record that has had a result has one, unless a verification is between its
\* delete and its create or has raised there: overlapping verifications delete
\* each other's results but never leave the record without one.
ResultKept ==
  \A r \in had : result[r].status = "none" =>
    \/ r \in failed
    \/ \E v \in Verifier : /\ vloc[v].kind = "stored" /\ vloc[v].record = r
                           /\ vpc[v] \in Deleted

\* The service says VALID of a certificate whose revocation was reported before
\* it began only if an enrolment has since taken the certificate's row, by
\* which it looks for the revocation (services.py, 206).
RevocationSeen ==
  \A r \in Record : result[r].status = "valid" /\ result[r].late => Superseded(sig[r].serial)

\* A public verification says valid of a certificate whose revocation was
\* reported before it began only if an enrolment has since taken the row, if
\* revocations overlapped or died (raw and CMS see nothing but the CRL), or if
\* the CRL was being rewritten (CMS passes over that).
PublicRevocationSeen ==
  \A v \in Verifier :
    vpc[v] = "answer" /\ vloc[v].verdict = "valid" /\ vloc[v].late =>
      \/ Superseded(SerialOf(v))
      \/ disturbed /\ vloc[v].kind # "pades"
      \/ vloc[v].unread /\ vloc[v].kind = "cms"

\* What experiments/README.md, 32, expects of a revoked signer: "Re-verify and
\* show revoked/invalid behavior."
RevokedNeverValid == \A r \in Record : ~(result[r].status = "valid" /\ result[r].late)
=============================================================================
