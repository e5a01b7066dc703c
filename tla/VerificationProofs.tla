-------------------------- MODULE VerificationProofs --------------------------
(***************************************************************************)
(* Proofs about Verification for any number of workers, users, verifiers   *)
(* and records.  The life of certificates is not disturbed by verifiers,   *)
(* so what CertificateProofs proves of it holds here too.                  *)
(***************************************************************************)
EXTENDS Verification, CertificateProofs

\* No handler is about to put certificate s into a row.
NotPending(s) == \A w \in Worker : pc[w] \in Pending => loc[w].serial # s

\* A record that is signed has a certificate that has been in a row.
SigsKnown ==
  \A r \in Record : sig[r] # NoSig => sig[r].serial \in Serial /\ NotPending(sig[r].serial)

\* The certificate of the record of a verification with local state l.
SerialIn(l) == sig[l.record].serial

\* Which verification is at p, and what it has by then.
KindAt(p, l) ==
  /\ p # "idle" => sig[l.record] # NoSig
  /\ p \in {"delete", "lookup", "create"} => l.kind = "stored"
  /\ p = "fingerprint" => l.kind = "pades"
  /\ p = "answer" => l.kind \in Public
  /\ p = "create" => l.verdict \in {"valid", "invalid"}

Kinds == \A v \in Verifier : KindAt(vpc[v], vloc[v])

\* A verification that began late is of a certificate reported revoked.
LateAt(p, l) == p # "idle" /\ l.late => SerialIn(l) \in confirmed

LateConfirmed == \A v \in Verifier : LateAt(vpc[v], vloc[v])

\* What a late verification knows at p.
SeenAt(p, l) ==
  p # "idle" /\ l.late =>
    /\ p \in {"crl", "ocsp"} /\ l.kind = "stored" => Superseded(SerialIn(l))
    /\ p \in {"crl", "ocsp"} /\ l.kind = "pades" => l.flag \/ Superseded(SerialIn(l))
    /\ p = "ocsp" /\ l.kind \in {"raw", "cms"} =>
         l.flag \/ Superseded(SerialIn(l)) \/ disturbed
    /\ p = "create" /\ l.verdict = "valid" => Superseded(SerialIn(l))
    /\ p = "answer" /\ l.verdict = "valid" =>
         \/ Superseded(SerialIn(l))
         \/ disturbed /\ l.kind # "pades"
         \/ l.unread /\ l.kind = "cms"

Seen == \A v \in Verifier : SeenAt(vpc[v], vloc[v])

\* A result is of a record that is signed.
ResultsSigned == \A r \in Record : result[r].status # "none" => sig[r] # NoSig

\* The inductive invariant, besides the one of certificates.
VInv ==
  /\ VerTypeOK /\ SigsKnown /\ Kinds /\ LateConfirmed /\ Seen
  /\ ResultsSigned /\ RevocationSeen /\ ResultKept

\* The domain of vpc.
VPC == {"idle", "delete", "fingerprint", "answer"} \cup Deleted

(***************************************************************************)
(* What certificates do meanwhile.                                         *)
(***************************************************************************)

\* A certificate that is not on its way into a row stays known, stays
\* superseded and is never on its way again.
LEMMA LifecycleKeeps ==
  ASSUME IInv, LifecycleNext, NEW s \in Serial, NotPending(s)
  PROVE  /\ s \in Serial' /\ NotPending(s)' /\ owner'[s] = owner[s]
         /\ Superseded(s) => Superseded(s)'
<1>1. Move /\ CertTypeOK /\ HandlersOwn
  BY Moves DEF IInv
<1> DEFINE Kept == s \in Serial' /\ NotPending(s)' /\ owner'[s] = owner[s]
                   /\ (Superseded(s) => Superseded(s)')
<1>2. ASSUME UNCHANGED owner, \A u \in User : cert'[u].serial = cert[u].serial,
             \A x \in Worker : pc'[x] \in Pending => pc[x] \in Pending /\ loc'[x] = loc[x]
      PROVE  Kept
  <2>1. owner[s] \in User
    BY <1>1 DEF CertTypeOK, Serial
  <2>2. NotPending(s)'
    BY <1>2 DEF NotPending
  <2>3. QED
    BY <1>2, <2>1, <2>2 DEF Serial, Superseded
<1>3. ASSUME NEW u \in User, DecideIdentity(u) PROVE Kept
  BY <1>1, <1>2, <1>3 DEF DecideIdentity, Pending, CertTypeOK, CertRow
<1>4. ASSUME NEW w \in Worker, NEW u \in User, Starts(w, u) PROVE Kept
  BY <1>1, <1>2, <1>4 DEF Starts, NoLocal, Pending, CertTypeOK, CertRow
<1>5. ASSUME NEW w \in Worker, NEW u \in User, BeginRevoke(w, u) PROVE Kept
  BY <1>1, <1>2, <1>5 DEF BeginRevoke, Pending, CertTypeOK, CertRow
<1>6. ASSUME NEW w \in Worker, Abandons(w) PROVE Kept
  BY <1>1, <1>2, <1>6 DEF Abandons, Return, Pending, CertTypeOK, CertRow
<1>7. ASSUME NEW w \in Worker, Advances(w) PROVE Kept
  BY <1>1, <1>2, <1>7 DEF Advances, Goto, Pending, CertTypeOK, CertRow
<1>8. ASSUME NEW w \in Worker, GenerateKey(w) PROVE Kept
  BY <1>1, <1>2, <1>8 DEF GenerateKey, Goto, Pending, CertTypeOK, CertRow
<1>9. ASSUME NEW w \in Worker, Crash(w) PROVE Kept
  BY <1>1, <1>2, <1>9 DEF Crash, Return, Pending, CertTypeOK, CertRow
<1>10. ASSUME NEW w \in Worker, MarkRevoked(w) PROVE Kept
  BY <1>1, <1>2, <1>10 DEF MarkRevoked, Goto, Pending, CertTypeOK, CertRow
<1>11. ASSUME NEW w \in Worker, QueryRevoked(w) PROVE Kept
  BY <1>1, <1>2, <1>11 DEF QueryRevoked, certVars, Pending, CertTypeOK, CertRow
<1>12. ASSUME NEW w \in Worker, TruncateCrl(w) PROVE Kept
  BY <1>1, <1>2, <1>12 DEF TruncateCrl, Goto, Pending, CertTypeOK, CertRow
<1>13. ASSUME NEW w \in Worker, WriteCrl(w) PROVE Kept
  BY <1>1, <1>2, <1>13 DEF WriteCrl, Return, Pending, CertTypeOK, CertRow
<1>14. ASSUME NEW w \in Worker, Signs(w) PROVE Kept
  <2>1. SignsEffect(w)
    BY <1>1, <1>14, SignsStep
  <2>2. s \in Serial' /\ owner'[s] = owner[s] /\ s # Len(owner) + 1 /\ cert' = cert
    BY <2>1 DEF SignsEffect, Serial
  <2>3. NotPending(s)'
    BY <2>1, <2>2 DEF SignsEffect, NotPending, Pending
  <2>4. QED
    BY <2>2, <2>3 DEF Superseded
<1>15. ASSUME NEW w \in Worker, SetsRow(w) PROVE Kept
  <2>1. loc[w].user \in User /\ loc[w].serial # s /\ UNCHANGED owner
    BY <1>1, <1>15 DEF SetsRow, NotPending, CertTypeOK, Pending
  <2>2. \A u \in User : cert'[u].serial = cert[u].serial \/ cert'[u].serial # s
    BY <1>1, <1>15, <2>1 DEF SetsRow, CertTypeOK, CertRow
  <2>3. NotPending(s)'
    BY <1>1, <1>15 DEF SetsRow, Return, NotPending, Pending, CertTypeOK
  <2>4. owner[s] \in User
    BY <1>1 DEF CertTypeOK, Serial
  <2>5. QED
    BY <2>1, <2>2, <2>3, <2>4 DEF Superseded, Serial
<1>16. QED
  BY <1>1, <1>3, <1>4, <1>5, <1>6, <1>7, <1>8, <1>9, <1>10, <1>11, <1>12, <1>13, <1>14, <1>15
     DEF Move

\* Histories only grow.
LEMMA HistoriesGrow ==
  ASSUME LifecycleNext
  PROVE  confirmed \subseteq confirmed' /\ (disturbed => disturbed')
<1> DEFINE Grow == confirmed \subseteq confirmed' /\ (disturbed => disturbed')
<1>1. Move
  BY Moves
<1>2. ASSUME NEW u \in User, DecideIdentity(u) PROVE Grow
  BY <1>2 DEF DecideIdentity
<1>3. ASSUME NEW w \in Worker, NEW u \in User, Starts(w, u) PROVE Grow
  BY <1>3 DEF Starts
<1>4. ASSUME NEW w \in Worker, NEW u \in User, BeginRevoke(w, u) PROVE Grow
  BY <1>4 DEF BeginRevoke
<1>5. ASSUME NEW w \in Worker, Abandons(w) PROVE Grow
  BY <1>5 DEF Abandons
<1>6. ASSUME NEW w \in Worker, Advances(w) PROVE Grow
  BY <1>6 DEF Advances
<1>7. ASSUME NEW w \in Worker, Signs(w) PROVE Grow
  BY <1>7 DEF Signs
<1>8. ASSUME NEW w \in Worker, SetsRow(w) PROVE Grow
  BY <1>8 DEF SetsRow
<1>9. ASSUME NEW w \in Worker, GenerateKey(w) PROVE Grow
  BY <1>9 DEF GenerateKey
<1>10. ASSUME NEW w \in Worker, Crash(w) PROVE Grow
  BY <1>10 DEF Crash
<1>11. ASSUME NEW w \in Worker, MarkRevoked(w) PROVE Grow
  BY <1>11 DEF MarkRevoked
<1>12. ASSUME NEW w \in Worker, QueryRevoked(w) PROVE Grow
  BY <1>12 DEF QueryRevoked, certVars
<1>13. ASSUME NEW w \in Worker, TruncateCrl(w) PROVE Grow
  BY <1>13 DEF TruncateCrl
<1>14. ASSUME NEW w \in Worker, WriteCrl(w) PROVE Grow
  BY <1>14 DEF WriteCrl
<1>15. QED
  BY <1>1, <1>2, <1>3, <1>4, <1>5, <1>6, <1>7, <1>8, <1>9, <1>10, <1>11, <1>12, <1>13, <1>14
     DEF Move

(***************************************************************************)
(* What verifications do.                                                  *)
(***************************************************************************)

\* Verifier v, and no other, goes to p with the local state l.
VTo(v, p, l) ==
  /\ vpc' = [vpc EXCEPT ![v] = p]
  /\ vloc' = [vloc EXCEPT ![v] = l]

Started(k, r, b)      == [NoVLocal EXCEPT !.kind = k, !.record = r, !.late = b]
Concluded(l, verdict) == [l EXCEPT !.verdict = verdict]
Flagged(l, b)         == [l EXCEPT !.flag = b]

\* It starts, with the certificate of record r.
VStarts(v, r, k) ==
  /\ vpc[v] = "idle" /\ sig[r] # NoSig
  /\ VTo(v, CASE k = "stored" -> "delete" [] k = "pades" -> "fingerprint" [] OTHER -> "crl",
            Started(k, r, sig[r].serial \in confirmed))
  /\ UNCHANGED <<result, deaths, had, failed>>

\* It deletes the result, and goes on or refuses.
VDeletes(v) ==
  /\ vpc[v] = "delete"
  /\ result' = [result EXCEPT ![vloc[v].record] = NoResult]
  /\ VTo(v, "lookup", vloc[v]) \/ VTo(v, "create", Concluded(vloc[v], "invalid"))
  /\ UNCHANGED <<deaths, had, failed>>

\* It reads a table or a file, and changes nothing but its own state.
VReads(v) ==
  /\ \/ /\ vpc[v] = "lookup"
        /\ \/ VTo(v, "create", Concluded(vloc[v], "invalid"))
           \/ /\ \A u \in RowsWith(SerialOf(v)) : cert[u].status = "active"
              /\ VTo(v, "crl", vloc[v])
     \/ /\ vpc[v] = "fingerprint"
        /\ \/ /\ RowsWith(SerialOf(v)) = {}
              /\ \E d \in {"valid", "invalid"} : VTo(v, "answer", Concluded(vloc[v], d))
           \/ \E u \in RowsWith(SerialOf(v)) :
                VTo(v, "crl", Flagged(vloc[v], cert[u].status = "revoked"))
     \/ /\ vpc[v] = "crl" /\ vloc[v].kind = "stored"
        /\ VTo(v, "create", Concluded(vloc[v], "invalid"))
     \/ /\ vpc[v] = "crl" /\ crl.state # "torn"
        /\ VTo(v, "ocsp", Flagged(vloc[v], vloc[v].flag \/ SerialOf(v) \in crl.listed))
     \/ /\ vpc[v] = "crl" /\ vloc[v].kind \in {"raw", "pades"}
        /\ VTo(v, "answer", Concluded(vloc[v], "error"))
     \/ /\ vpc[v] = "crl" /\ vloc[v].kind = "cms"
        /\ \E d \in {"valid", "invalid"} :
             VTo(v, "answer", [vloc[v] EXCEPT !.unread = TRUE, !.verdict = d])
     \/ /\ vpc[v] = "ocsp"
        /\ \E d \in {"valid", "invalid"} :
             /\ d = "valid" => ~vloc[v].flag
             /\ VTo(v, IF vloc[v].kind = "stored" THEN "create" ELSE "answer",
                       Concluded(vloc[v], d))
  /\ UNCHANGED <<result, deaths, had, failed>>

\* It stores its verdict, unless there is a result.
VStores(v) ==
  /\ vpc[v] = "create"
  /\ VTo(v, "idle", NoVLocal)
  /\ LET r == vloc[v].record IN
     \/ /\ result[r].status = "none"
        /\ result' = [result EXCEPT ![r] = [status |-> vloc[v].verdict, late |-> vloc[v].late]]
        /\ had' = had \cup {r}
     \/ /\ result[r].status # "none"
        /\ UNCHANGED <<result, had>>
  /\ UNCHANGED <<deaths, failed>>

\* It ends without storing: a service that has deleted is noted as failed.
VEnds(v) ==
  /\ vpc[v] # "idle"
  /\ VTo(v, "idle", NoVLocal)
  /\ \/ failed' = failed \cup {vloc[v].record}
     \/ ~(vloc[v].kind = "stored" /\ vpc[v] \in Deleted) /\ failed' = failed
  /\ deaths' \in Nat
  /\ UNCHANGED <<result, had>>

VMove(v) ==
  /\ UNCHANGED <<lifecycleVars, sig>>
  /\ \/ \E r \in Record, k \in {"stored"} \cup Public : VStarts(v, r, k)
     \/ VDeletes(v) \/ VReads(v) \/ VStores(v) \/ VEnds(v)

\* Assigning what is there already changes nothing.
LEMMA VStay ==
  ASSUME VerTypeOK, NEW v \in Verifier
  PROVE  vloc = [vloc EXCEPT ![v] = vloc[v]]
BY DEF VerTypeOK

\* Every step of a verifier is one of these moves.
LEMMA VMoves ==
  ASSUME VerTypeOK, Kinds, NEW v \in Verifier, Verify(v)
  PROVE  VMove(v)
<1>1. ASSUME NEW r \in Record, NEW k \in {"stored"} \cup Public,
             Start(v, r, k, CASE k = "stored" -> "delete" [] k = "pades" -> "fingerprint"
                              [] OTHER -> "crl")
      PROVE  VMove(v)
  BY <1>1 DEF Start, VMove, VStarts, VTo, Started
<1>2. ASSUME NEW r \in Record, NEW entry \in Entry, BeginStored(v, r, entry) PROVE VMove(v)
  BY <1>1, <1>2 DEF BeginStored
<1>3. ASSUME NEW r \in Record, NEW k \in Public, BeginPublic(v, r, k) PROVE VMove(v)
  BY <1>1, <1>3 DEF BeginPublic, Public
<1>4. ASSUME DeleteResult(v) PROVE VMove(v)
  <2>1. vloc[v].kind = "stored"
    BY <1>4 DEF DeleteResult, Kinds, KindAt
  <2>2. CASE SoundOf(v)
    BY <1>4, <2>2, VStay DEF DeleteResult, VGoto, VMove, VDeletes, VTo
  <2>3. CASE ~SoundOf(v)
    BY <1>4, <2>1, <2>3 DEF DeleteResult, Conclude, VMove, VDeletes, VTo, Concluded
  <2>4. QED
    BY <2>2, <2>3
<1>5. ASSUME LookUpCertificate(v) PROVE VMove(v)
  <2>1. vloc[v].kind = "stored" /\ vpc[v] = "lookup"
    BY <1>5 DEF LookUpCertificate, Kinds, KindAt
  <2>2. CASE \E u \in RowsWith(SerialOf(v)) : cert[u].status # "active"
    <3>1. VTo(v, "create", Concluded(vloc[v], "invalid"))
      BY <1>5, <2>1, <2>2 DEF LookUpCertificate, Conclude, VTo, Concluded
    <3>2. QED
      BY <1>5, <2>1, <3>1 DEF LookUpCertificate, VMove, VReads
  <2>3. CASE \A u \in RowsWith(SerialOf(v)) : cert[u].status = "active"
    <3>1. VTo(v, "crl", vloc[v])
      BY <1>5, <2>3, VStay DEF LookUpCertificate, VGoto, VTo
    <3>2. QED
      BY <1>5, <2>1, <2>3, <3>1 DEF LookUpCertificate, VMove, VReads
  <2>4. QED
    BY <2>2, <2>3
<1>6. ASSUME FindByFingerprint(v) PROVE VMove(v)
  <2>1. vloc[v].kind = "pades" /\ vpc[v] = "fingerprint"
    BY <1>6 DEF FindByFingerprint, Kinds, KindAt
  <2>2. CASE RowsWith(SerialOf(v)) = {} /\ Conclude(v, Verdict(SoundOf(v)))
    <3>1. VTo(v, "answer", Concluded(vloc[v], Verdict(SoundOf(v))))
      BY <2>1, <2>2 DEF Conclude, VTo, Concluded
    <3>2. QED
      BY <1>6, <2>1, <2>2, <3>1 DEF FindByFingerprint, VMove, VReads, Verdict
  <2>3. ASSUME NEW u \in RowsWith(SerialOf(v)),
               vpc' = [vpc EXCEPT ![v] = "crl"],
               vloc' = [vloc EXCEPT ![v].flag = (cert[u].status = "revoked")]
        PROVE  VMove(v)
    <3>1. VTo(v, "crl", Flagged(vloc[v], cert[u].status = "revoked"))
      BY <2>3 DEF VTo, Flagged
    <3>2. QED
      BY <1>6, <2>1, <3>1 DEF FindByFingerprint, VMove, VReads
  <2>4. QED
    BY <1>6, <2>2, <2>3 DEF FindByFingerprint
<1>7. ASSUME ReadCrl(v) PROVE VMove(v)
  <2> DEFINE listed == SerialOf(v) \in crl.listed
  <2>1. CASE listed /\ vloc[v].kind = "stored"
    <3>1. VTo(v, "create", Concluded(vloc[v], "invalid"))
      BY <1>7, <2>1 DEF ReadCrl, Conclude, VTo, Concluded
    <3>2. QED
      BY <1>7, <2>1, <3>1 DEF ReadCrl, VMove, VReads
  <2>2. CASE ~(listed /\ vloc[v].kind = "stored")
    <3>1. VTo(v, "ocsp", Flagged(vloc[v], vloc[v].flag \/ listed))
      BY <1>7, <2>2 DEF ReadCrl, VTo, Flagged
    <3>2. QED
      BY <1>7, <3>1 DEF ReadCrl, VMove, VReads
  <2>3. QED
    BY <2>1, <2>2
<1>8. ASSUME ReadTornCrl(v) PROVE VMove(v)
  <2>1. CASE vloc[v].kind = "stored" /\ VReturn(v) /\ failed' = failed \cup {vloc[v].record}
    BY <1>8, <2>1 DEF ReadTornCrl, VReturn, VMove, VEnds, VTo, VerTypeOK
  <2>2. CASE vloc[v].kind \in {"raw", "pades"} /\ Conclude(v, "error") /\ UNCHANGED failed
    <3>1. VTo(v, "answer", Concluded(vloc[v], "error"))
      BY <2>2 DEF Conclude, VTo, Concluded
    <3>2. QED
      BY <1>8, <2>2, <3>1 DEF ReadTornCrl, VMove, VReads
  <2>3. CASE /\ vloc[v].kind = "cms"
             /\ vpc' = [vpc EXCEPT ![v] = "answer"]
             /\ vloc' = [vloc EXCEPT ![v].unread = TRUE, ![v].verdict = Verdict(SoundOf(v))]
             /\ UNCHANGED failed
    <3>1. VTo(v, "answer", [vloc[v] EXCEPT !.unread = TRUE, !.verdict = Verdict(SoundOf(v))])
      BY <2>3 DEF VTo, VerTypeOK
    <3>2. QED
      BY <1>8, <2>3, <3>1 DEF ReadTornCrl, VMove, VReads, Verdict
  <2>4. QED
    BY <1>8, <2>1, <2>2, <2>3 DEF ReadTornCrl
<1>9. ASSUME NEW ocsp \in OcspStatus, AskOcsp(v, ocsp) PROVE VMove(v)
  <2>1. PICK d \in {"valid", "invalid"} : (d = "valid" => ~vloc[v].flag) /\ Conclude(v, d)
    BY <1>9 DEF AskOcsp, Verdict
  <2>2. VTo(v, IF vloc[v].kind = "stored" THEN "create" ELSE "answer", Concluded(vloc[v], d))
    BY <2>1 DEF Conclude, VTo, Concluded
  <2>3. QED
    BY <1>9, <2>1, <2>2 DEF AskOcsp, VMove, VReads
<1>10. ASSUME CreateResult(v) PROVE VMove(v)
  BY <1>10 DEF CreateResult, VReturn, VMove, VStores, VTo
<1>11. ASSUME Answer(v) PROVE VMove(v)
  BY <1>11 DEF Answer, VReturn, VMove, VEnds, VTo, Deleted, VerTypeOK
<1>12. ASSUME VerifierDies(v) PROVE VMove(v)
  BY <1>12 DEF VerifierDies, VReturn, VMove, VEnds, VTo, VerTypeOK
<1>13. QED
  BY <1>2, <1>3, <1>4, <1>5, <1>6, <1>7, <1>8, <1>9, <1>10, <1>11, <1>12 DEF Verify

(***************************************************************************)
(* Verifiers do not disturb the life of certificates.                      *)
(***************************************************************************)

\* Every step of the whole is a step of certificates, or they stutter.
LEMMA StepEmbeds == ASSUME [Next]_vars PROVE [LifecycleNext]_lifecycleVars
<1>1. ASSUME NEW r \in Record, NEW u \in User, NEW sound \in BOOLEAN, SignRecord(r, u, sound)
      PROVE  UNCHANGED lifecycleVars
  BY <1>1 DEF SignRecord
<1>2. ASSUME NEW v \in Verifier, Verify(v) PROVE UNCHANGED lifecycleVars
  <2>1. ASSUME NEW r \in Record, NEW k \in {"stored"} \cup Public, NEW first,
               Start(v, r, k, first)
        PROVE  UNCHANGED lifecycleVars
    BY <2>1 DEF Start
  <2>2. ASSUME NEW r \in Record, NEW entry \in Entry, BeginStored(v, r, entry)
        PROVE  UNCHANGED lifecycleVars
    BY <2>1, <2>2 DEF BeginStored
  <2>3. ASSUME NEW r \in Record, NEW k \in Public, BeginPublic(v, r, k)
        PROVE  UNCHANGED lifecycleVars
    BY <2>1, <2>3 DEF BeginPublic
  <2>4. ASSUME DeleteResult(v) PROVE UNCHANGED lifecycleVars
    BY <2>4 DEF DeleteResult
  <2>5. ASSUME LookUpCertificate(v) PROVE UNCHANGED lifecycleVars
    BY <2>5 DEF LookUpCertificate
  <2>6. ASSUME FindByFingerprint(v) PROVE UNCHANGED lifecycleVars
    BY <2>6 DEF FindByFingerprint
  <2>7. ASSUME ReadCrl(v) PROVE UNCHANGED lifecycleVars
    BY <2>7 DEF ReadCrl
  <2>8. ASSUME ReadTornCrl(v) PROVE UNCHANGED lifecycleVars
    BY <2>8 DEF ReadTornCrl
  <2>9. ASSUME NEW ocsp \in OcspStatus, AskOcsp(v, ocsp) PROVE UNCHANGED lifecycleVars
    BY <2>9 DEF AskOcsp
  <2>10. ASSUME CreateResult(v) PROVE UNCHANGED lifecycleVars
    BY <2>10 DEF CreateResult
  <2>11. ASSUME Answer(v) PROVE UNCHANGED lifecycleVars
    BY <2>11 DEF Answer
  <2>12. ASSUME VerifierDies(v) PROVE UNCHANGED lifecycleVars
    BY <2>12 DEF VerifierDies
  <2>13. QED
    BY <1>2, <2>2, <2>3, <2>4, <2>5, <2>6, <2>7, <2>8, <2>9, <2>10, <2>11, <2>12 DEF Verify
<1>3. CASE UNCHANGED vars
  BY <1>3 DEF vars, lifecycleVars
<1>4. QED
  BY <1>1, <1>2, <1>3 DEF Next

\* The life of certificates, with verifiers beside it, is the one of
\* CertificateLifecycle: whatever is proved there holds here.
THEOREM Embedding == Spec => LifecycleSpec
<1>1. Init => LifecycleInit
  BY DEF Init
<1>2. QED
  BY <1>1, StepEmbeds, PTL DEF Spec, LifecycleSpec

\* The invariant holds initially.
LEMMA VInvInit == Init => VInv
<1> SUFFICES ASSUME Init PROVE VInv
  OBVIOUS
<1>1. NoSig \in SigRow /\ NoResult \in ResultRow /\ NoVLocal \in VLocal
  BY DEF NoSig, SigRow, NoResult, ResultRow, NoVLocal, VLocal
<1>2. VerTypeOK
  BY <1>1 DEF Init, VerTypeOK
<1>3. SigsKnown /\ ResultsSigned /\ RevocationSeen /\ ResultKept
  BY DEF Init, SigsKnown, ResultsSigned, RevocationSeen, ResultKept, NoResult
<1>4. Kinds /\ LateConfirmed /\ Seen
  BY DEF Init, Kinds, KindAt, LateConfirmed, LateAt, Seen, SeenAt
<1>5. QED
  BY <1>2, <1>3, <1>4 DEF VInv

(***************************************************************************)
(* A step of certificates.                                                 *)
(***************************************************************************)

\* A step of certificates preserves the invariant of verifications.
LEMMA VInvLifecycle ==
  ASSUME IInv, VInv, LifecycleNext, UNCHANGED verVars
  PROVE  VInv'
<1> USE DEF verVars
<1>1. confirmed \subseteq confirmed' /\ (disturbed => disturbed')
  BY HistoriesGrow
<1>2. ASSUME NEW r \in Record, sig[r] # NoSig
      PROVE  /\ sig[r].serial \in Serial' /\ NotPending(sig[r].serial)'
             /\ Superseded(sig[r].serial) => Superseded(sig[r].serial)'
  <2>1. sig[r].serial \in Serial /\ NotPending(sig[r].serial)
    BY <1>2 DEF VInv, SigsKnown
  <2>2. QED
    BY <2>1, LifecycleKeeps
<1>3. VerTypeOK' /\ Kinds' /\ ResultsSigned' /\ ResultKept'
  BY DEF VInv, VerTypeOK, Kinds, KindAt, ResultsSigned, ResultKept
<1>4. SigsKnown'
  BY <1>2 DEF SigsKnown, NotPending
<1>5. LateConfirmed'
  BY <1>1 DEF VInv, LateConfirmed, LateAt, SerialIn
<1>6. Seen'
  <2> SUFFICES ASSUME NEW v \in Verifier, vpc[v] # "idle", vloc[v].late
               PROVE  SeenAt(vpc[v], vloc[v])'
    BY DEF Seen, SeenAt
  <2>1. vloc[v].record \in Record /\ sig[vloc[v].record] # NoSig
    BY DEF VInv, VerTypeOK, Kinds, KindAt
  <2>2. Superseded(SerialIn(vloc[v])) => Superseded(SerialIn(vloc[v]))'
    BY <2>1, <1>2 DEF SerialIn
  <2>3. SeenAt(vpc[v], vloc[v])
    BY DEF VInv, Seen
  <2>4. QED
    BY <1>1, <2>2, <2>3 DEF SeenAt
<1>7. RevocationSeen'
  <2> SUFFICES ASSUME NEW r \in Record, result[r].status = "valid", result[r].late
               PROVE  Superseded(sig[r].serial)'
    BY DEF RevocationSeen
  <2>1. sig[r] # NoSig /\ Superseded(sig[r].serial)
    BY DEF VInv, ResultsSigned, RevocationSeen
  <2>2. QED
    BY <2>1, <1>2
<1>8. QED
  BY <1>3, <1>4, <1>5, <1>6, <1>7 DEF VInv

(***************************************************************************)
(* A signature.                                                            *)
(***************************************************************************)

\* Signing a record preserves the invariant: its certificate is in a row.
LEMMA VInvSign ==
  ASSUME IInv, VInv, NEW r \in Record, NEW u \in User, NEW sound \in BOOLEAN,
         SignRecord(r, u, sound)
  PROVE  VInv'
<1> DEFINE s == cert[u].serial
<1>1. UNCHANGED <<lifecycleVars, result, vpc, vloc, deaths, had, failed>>
  BY DEF SignRecord
<1>2. sig' \in [Record -> SigRow] /\ sig'[r] = [serial |-> s, sound |-> sound]
      /\ (\A x \in Record : x # r => sig'[x] = sig[x]) /\ sig[r] = NoSig
  <2>1. s \in Nat
    BY DEF IInv, CertTypeOK, CertRow
  <2>2. [serial |-> s, sound |-> sound] \in SigRow
    BY <2>1 DEF SigRow
  <2>3. QED
    BY <2>2 DEF SignRecord, VInv, VerTypeOK
<1>3. VerTypeOK'
  BY <1>1, <1>2 DEF VInv, VerTypeOK
<1>4. s \in Serial /\ NotPending(s)
  BY DEF SignRecord, IInv, RowsOwn, RowsOwnCertificates, PendingFresh, NotPending
<1>5. SigsKnown'
  <2>1. s \in Serial' /\ NotPending(s)'
    BY <1>1, <1>4 DEF lifecycleVars, Serial, NotPending
  <2>2. ASSUME NEW x \in Record, x # r, sig'[x] # NoSig
        PROVE  sig'[x].serial \in Serial' /\ (NotPending(sig[x].serial))'
    BY <1>1, <1>2, <2>2 DEF lifecycleVars, VInv, SigsKnown, Serial, NotPending
  <2>3. QED
    BY <1>1, <1>2, <2>1, <2>2 DEF lifecycleVars, SigsKnown, NotPending
<1>6. ASSUME NEW v \in Verifier, vpc[v] # "idle"
      PROVE  vloc[v].record \in Record /\ vloc[v].record # r
  BY <1>2, <1>6 DEF VInv, VerTypeOK, Kinds, KindAt
<1>7. ASSUME NEW v \in Verifier, vpc[v] # "idle"
      PROVE  sig'[vloc[v].record] = sig[vloc[v].record]
  BY <1>2, <1>6, <1>7
<1>8. Kinds'
  BY <1>1, <1>7 DEF VInv, Kinds, KindAt
<1>9. LateConfirmed'
  BY <1>1, <1>7 DEF lifecycleVars, VInv, LateConfirmed, LateAt, SerialIn
<1>10. Seen'
  BY <1>1, <1>7 DEF lifecycleVars, VInv, Seen, SeenAt, SerialIn, Superseded, Serial
<1>11. result[r].status = "none"
  BY <1>2 DEF VInv, ResultsSigned
<1>12. ResultsSigned' /\ ResultKept'
  BY <1>1, <1>2, <1>11 DEF VInv, ResultsSigned, ResultKept
<1>13. RevocationSeen'
  BY <1>1, <1>2, <1>11 DEF lifecycleVars, VInv, RevocationSeen, Superseded, Serial
<1>14. QED
  BY <1>3, <1>5, <1>8, <1>9, <1>10, <1>12, <1>13 DEF VInv

(***************************************************************************)
(* A step of a verifier.                                                   *)
(***************************************************************************)

\* The row of its user has a certificate that is not superseded, and no other
\* row has it.
LEMMA RowTells ==
  ASSUME IInv, NEW s \in confirmed, ~Superseded(s)
  PROVE  /\ s \in RevokedRows
         /\ \E u \in RowsWith(s) : cert[u].status = "revoked"
         /\ \A u \in RowsWith(s) : cert[u].status = "revoked"
<1>1. s \in Serial /\ s \in revoked
  BY DEF IInv, HistoriesOwn, ReportedIsRevoked
<1>2. owner[s] \in User
  BY <1>1 DEF IInv, CertTypeOK, Serial
<1> DEFINE u == owner[s]
<1>3. cert[u].serial = s /\ s \in Nat /\ s # 0
  BY <1>1 DEF Superseded, Serial
<1>4. cert[u].status # "none" /\ cert[u].status # "active"
  BY <1>1, <1>2, <1>3 DEF IInv, RowsOwn, ActiveNotRevoked
<1>5. cert[u].status = "revoked" /\ u \in RowsWith(s) /\ s \in RevokedRows
  BY <1>2, <1>3, <1>4 DEF IInv, CertTypeOK, CertRow, RowsWith, RevokedRows
<1>6. ASSUME NEW x \in RowsWith(s) PROVE x = u
  BY <1>6 DEF RowsWith, IInv, RowsOwn, RowsOwnCertificates
<1>7. QED
  BY <1>5, <1>6

\* Where a verifier may be, and with what.
Fits(p, l) ==
  /\ p \in VPC /\ l \in VLocal
  /\ p # "idle" => l.record \in Record /\ l.kind # None
  /\ KindAt(p, l) /\ LateAt(p, l) /\ SeenAt(p, l)

\* The fields of a local state with a verdict.
LEMMA ConcludedStates ==
  ASSUME NEW l \in VLocal, NEW d \in {"none", "valid", "invalid", "error"}
  PROVE  /\ Concluded(l, d) \in VLocal /\ Concluded(l, d).record = l.record
         /\ Concluded(l, d).kind = l.kind /\ Concluded(l, d).late = l.late
         /\ Concluded(l, d).flag = l.flag /\ Concluded(l, d).verdict = d
BY DEF VLocal, Concluded

\* The fields of a local state with a flag.
LEMMA FlaggedStates ==
  ASSUME NEW l \in VLocal, NEW b \in BOOLEAN
  PROVE  /\ Flagged(l, b) \in VLocal /\ Flagged(l, b).record = l.record
         /\ Flagged(l, b).kind = l.kind /\ Flagged(l, b).late = l.late
         /\ Flagged(l, b).flag = b /\ Flagged(l, b).verdict = l.verdict
BY DEF VLocal, Flagged

\* The fields of the local state a verification starts with.
LEMMA StartedStates ==
  ASSUME NEW k \in {"stored"} \cup Public, NEW r \in Record, NEW b \in BOOLEAN
  PROVE  /\ Started(k, r, b) \in VLocal /\ Started(k, r, b).record = r
         /\ Started(k, r, b).kind = k /\ Started(k, r, b).verdict = "none"
         /\ Started(k, r, b).late = b
BY DEF Started, NoVLocal, VLocal, Public

\* The initial local state of a verification.
LEMMA FreshState == Fits("idle", NoVLocal) /\ NoVLocal \in VLocal
BY DEF Fits, VPC, VLocal, NoVLocal, KindAt, LateAt, SeenAt

\* A verification that starts fits its place.
LEMMA StartFits ==
  ASSUME NEW v \in Verifier, NEW r \in Record, NEW k \in {"stored"} \cup Public, VStarts(v, r, k),
         VerificationConstants
  PROVE  \E p, l : VTo(v, p, l) /\ Fits(p, l)
<1> DEFINE p == CASE k = "stored" -> "delete" [] k = "pades" -> "fingerprint" [] OTHER -> "crl"
           l == Started(k, r, sig[r].serial \in confirmed)
<1>1. /\ l \in VLocal /\ l.record = r /\ l.kind = k /\ l.verdict = "none"
      /\ l.late = (sig[r].serial \in confirmed) /\ k # None
  <2>1. k # None
    BY DEF Public, None
  <2>2. \A b \in BOOLEAN :
          /\ Started(k, r, b) \in VLocal /\ Started(k, r, b).record = r
          /\ Started(k, r, b).kind = k /\ Started(k, r, b).verdict = "none"
          /\ Started(k, r, b).late = b
    BY StartedStates
  <2>3. CASE sig[r].serial \in confirmed
    <3>1. (sig[r].serial \in confirmed) = TRUE
      BY <2>3
    <3>2. QED
      BY <2>1, <2>2, <3>1
  <2>4. CASE sig[r].serial \notin confirmed
    <3>1. (sig[r].serial \in confirmed) = FALSE
      BY <2>4
    <3>2. QED
      BY <2>1, <2>2, <3>1
  <2>5. QED
    BY <2>3, <2>4
<1>2. /\ p \in VPC /\ p \in {"delete", "fingerprint", "crl"}
      /\ p = "delete" => k = "stored"
      /\ p = "fingerprint" => k = "pades"
      /\ p = "crl" => k \in {"raw", "cms"}
  BY DEF VPC, Deleted, Public
<1>3. sig[r] # NoSig /\ VTo(v, p, l)
  BY DEF VStarts
<1>4. KindAt(p, l)
  BY <1>1, <1>2, <1>3 DEF KindAt
<1>5. LateAt(p, l)
  BY <1>1 DEF LateAt, SerialIn
<1>6. SeenAt(p, l)
  BY <1>1, <1>2 DEF SeenAt
<1>7. QED
  BY <1>1, <1>2, <1>3, <1>4, <1>5, <1>6 DEF Fits

\* A verification that reads fits its next place, and keeps what it is about;
\* the service does not leave the places behind its delete.
LEMMA ReadFits ==
  ASSUME IInv, NEW v \in Verifier, Fits(vpc[v], vloc[v]), VReads(v)
  PROVE  \E p, l : /\ VTo(v, p, l) /\ Fits(p, l)
                   /\ l.kind = vloc[v].kind /\ l.record = vloc[v].record
                   /\ vpc[v] \in Deleted /\ l.kind = "stored" => p \in Deleted
<1> DEFINE o == vloc[v]
           s == SerialIn(o)
           Goal == \E p, l : /\ VTo(v, p, l) /\ Fits(p, l)
                             /\ l.kind = o.kind /\ l.record = o.record
                             /\ vpc[v] \in Deleted /\ l.kind = "stored" => p \in Deleted
<1>1. /\ vpc[v] \in {"lookup", "fingerprint", "crl", "ocsp"} /\ o \in VLocal
      /\ o.record \in Record /\ sig[o.record] # NoSig /\ o.kind \in {"stored"} \cup Public
      /\ o.late => s \in confirmed
  BY DEF VReads, Fits, VLocal, KindAt, LateAt
<1>2. SerialOf(v) = s
  BY DEF SerialOf, SerialIn
<1>3. KindAt(vpc[v], o) /\ SeenAt(vpc[v], o)
  BY DEF Fits
<1>4. o.kind # None
  BY <1>1 DEF Fits
<1>5. ASSUME NEW p \in {"crl", "ocsp", "create", "answer"}, NEW l \in VLocal, VTo(v, p, l),
             l.kind = o.kind, l.record = o.record, l.late = o.late,
             p = "create" => o.kind = "stored" /\ l.verdict \in {"valid", "invalid"},
             p = "answer" => o.kind \in Public,
             o.late => SeenAt(p, l)
      PROVE  Goal
  <2>1. KindAt(p, l)
    BY <1>1, <1>5 DEF KindAt
  <2>2. LateAt(p, l) /\ SeenAt(p, l)
    BY <1>1, <1>5 DEF LateAt, SeenAt, SerialIn
  <2>3. p \in VPC /\ (l.kind = "stored" => p \in Deleted)
    BY <1>5 DEF VPC, Deleted, Public
  <2>4. Fits(p, l)
    BY <1>1, <1>4, <1>5, <2>1, <2>2, <2>3 DEF Fits
  <2>5. QED
    BY <1>5, <2>3, <2>4
<1>6. ASSUME vpc[v] \in {"lookup", "crl"}, o.kind = "stored",
             VTo(v, "create", Concluded(o, "invalid"))
      PROVE  Goal
  <2>1. SeenAt("create", Concluded(o, "invalid"))
    BY <1>1, ConcludedStates DEF SeenAt
  <2>2. QED
    BY <1>1, <1>5, <1>6, <2>1, ConcludedStates
<1>7. ASSUME vpc[v] = "lookup", \A u \in RowsWith(s) : cert[u].status = "active",
             VTo(v, "crl", o)
      PROVE  Goal
  <2>1. o.kind = "stored"
    BY <1>3, <1>7 DEF KindAt
  <2>2. ASSUME o.late PROVE Superseded(s)
    BY <1>1, <1>7, <2>2, RowTells
  <2>3. o.late => SeenAt("crl", o)
    BY <2>1, <2>2 DEF SeenAt
  <2>4. QED
    BY <1>1, <1>5, <1>7, <2>3
<1>8. ASSUME NEW d \in {"valid", "invalid"}, vpc[v] = "fingerprint", RowsWith(s) = {},
             VTo(v, "answer", Concluded(o, d))
      PROVE  Goal
  <2>1. o.kind = "pades"
    BY <1>3, <1>8 DEF KindAt
  <2>2. ASSUME o.late PROVE Superseded(s)
    BY <1>1, <1>8, <2>2, RowTells
  <2> DEFINE l == Concluded(o, d)
  <2>3. l \in VLocal /\ l.kind = o.kind /\ l.record = o.record /\ l.late = o.late
    BY <1>1, <1>8, ConcludedStates
  <2>4. o.late => SeenAt("answer", l)
    BY <2>2, <2>3 DEF SeenAt, SerialIn
  <2>5. QED
    BY <1>1, <1>5, <1>8, <2>1, <2>3, <2>4 DEF Public
<1>9. ASSUME vpc[v] = "fingerprint", NEW u \in RowsWith(s),
             VTo(v, "crl", Flagged(o, cert[u].status = "revoked"))
      PROVE  Goal
  <2>1. o.kind = "pades"
    BY <1>3, <1>9 DEF KindAt
  <2> DEFINE l == Flagged(o, cert[u].status = "revoked")
  <2>2. /\ l \in VLocal /\ l.kind = o.kind /\ l.record = o.record /\ l.late = o.late
        /\ l.flag = (cert[u].status = "revoked")
    BY <1>1, FlaggedStates
  <2>3. ASSUME o.late PROVE l.flag \/ Superseded(s)
    BY <1>1, <1>9, <2>2, <2>3, RowTells
  <2>4. o.late => SeenAt("crl", l)
    BY <2>1, <2>2, <2>3 DEF SeenAt, SerialIn
  <2>5. QED
    BY <1>1, <1>5, <1>9, <2>2, <2>4
<1>10. ASSUME vpc[v] = "crl", crl.state # "torn",
              VTo(v, "ocsp", Flagged(o, o.flag \/ s \in crl.listed))
       PROVE  Goal
  <2> DEFINE l == Flagged(o, o.flag \/ s \in crl.listed)
  <2>1. /\ l \in VLocal /\ l.kind = o.kind /\ l.record = o.record /\ l.late = o.late
        /\ l.flag = (o.flag \/ s \in crl.listed)
    BY <1>1, FlaggedStates DEF VLocal
  <2>2. ASSUME o.late PROVE l.flag \/ Superseded(s) \/ disturbed
    BY <1>1, <1>10, <2>1, <2>2, RowTells DEF IInv, ConfirmedListed
  <2>3. ASSUME o.late PROVE /\ o.kind = "stored" => Superseded(s)
                            /\ o.kind = "pades" => l.flag \/ Superseded(s)
    BY <1>3, <1>10, <2>1, <2>3 DEF SeenAt
  <2>4. o.late => SeenAt("ocsp", l)
    BY <2>1, <2>2, <2>3 DEF SeenAt, SerialIn
  <2>5. QED
    BY <1>1, <1>5, <1>10, <2>1, <2>4
<1>11. ASSUME vpc[v] = "crl", o.kind \in {"raw", "pades"},
              VTo(v, "answer", Concluded(o, "error"))
       PROVE  Goal
  <2>1. SeenAt("answer", Concluded(o, "error"))
    BY <1>1, ConcludedStates DEF SeenAt
  <2>2. QED
    BY <1>1, <1>5, <1>11, <2>1, ConcludedStates DEF Public
<1>12. ASSUME NEW d \in {"valid", "invalid"}, vpc[v] = "crl", o.kind = "cms",
              VTo(v, "answer", [o EXCEPT !.unread = TRUE, !.verdict = d])
       PROVE  Goal
  <2> DEFINE l == [o EXCEPT !.unread = TRUE, !.verdict = d]
  <2>1. l \in VLocal /\ l.kind = o.kind /\ l.record = o.record /\ l.late = o.late /\ l.unread
    BY <1>1 DEF VLocal
  <2>2. SeenAt("answer", l)
    BY <1>12, <2>1 DEF SeenAt
  <2>3. QED
    BY <1>1, <1>5, <1>12, <2>1, <2>2 DEF Public
<1>13. ASSUME NEW d \in {"valid", "invalid"}, vpc[v] = "ocsp", d = "valid" => ~o.flag,
              VTo(v, IF o.kind = "stored" THEN "create" ELSE "answer", Concluded(o, d))
       PROVE  Goal
  <2> DEFINE l == Concluded(o, d)
             p == IF o.kind = "stored" THEN "create" ELSE "answer"
  <2>1. /\ l \in VLocal /\ l.kind = o.kind /\ l.record = o.record /\ l.late = o.late
        /\ l.verdict = d
    BY <1>1, <1>13, ConcludedStates
  <2>2. ASSUME o.late, d = "valid"
        PROVE  /\ o.kind \in {"stored", "pades"} => Superseded(s)
               /\ o.kind \in {"raw", "cms"} => Superseded(s) \/ disturbed
    BY <1>3, <1>13, <2>2 DEF SeenAt
  <2>3. o.late => SeenAt(p, l)
    BY <1>1, <2>1, <2>2 DEF SeenAt, SerialIn, Public
  <2>4. QED
    BY <1>1, <1>5, <1>13, <2>1, <2>3
<1>14. QED
  <2>1. vpc[v] = "lookup" => o.kind = "stored"
    BY <1>3 DEF KindAt
  <2>2. QED
    BY <1>2, <1>6, <1>7, <1>8, <1>9, <1>10, <1>11, <1>12, <1>13, <2>1 DEF VReads

\* Only the state of verifier v changes.
LEMMA OneMoves ==
  ASSUME VerTypeOK, NEW v \in Verifier, NEW p, NEW l, VTo(v, p, l)
  PROVE  /\ vpc'[v] = p /\ vloc'[v] = l
         /\ \A x \in Verifier : x # v => vpc'[x] = vpc[x] /\ vloc'[x] = vloc[x]
         /\ p \in VPC => vpc' \in [Verifier -> VPC]
         /\ l \in VLocal => vloc' \in [Verifier -> VLocal]
BY DEF VerTypeOK, VTo, VPC

\* Fitting verifiers make a state that has the invariant.
LEMMA AllFit ==
  ASSUME VInv, UNCHANGED <<lifecycleVars, sig>>, NEW v \in Verifier, NEW p, NEW l,
         VTo(v, p, l), Fits(p, l)
  PROVE  /\ vpc' \in [Verifier -> VPC] /\ vloc' \in [Verifier -> VLocal]
         /\ \A x \in Verifier : vpc'[x] # "idle" =>
              vloc'[x].record \in Record /\ vloc'[x].kind # None
         /\ Kinds' /\ LateConfirmed' /\ Seen' /\ SigsKnown'
<1>1. /\ vpc'[v] = p /\ vloc'[v] = l
      /\ \A x \in Verifier : x # v => vpc'[x] = vpc[x] /\ vloc'[x] = vloc[x]
      /\ vpc' \in [Verifier -> VPC] /\ vloc' \in [Verifier -> VLocal]
  BY OneMoves DEF Fits, VInv
<1>2. ASSUME NEW x \in Verifier PROVE Fits(vpc'[x], vloc'[x])
  <2>1. CASE x = v
    BY <1>1, <2>1
  <2>2. CASE x # v
    <3>1. Fits(vpc[x], vloc[x])
      BY DEF VInv, VerTypeOK, VPC, Kinds, LateConfirmed, Seen, Fits
    <3>2. QED
      BY <1>1, <2>2, <3>1
  <2>3. QED
    BY <2>1, <2>2
<1>3. Kinds'
  BY <1>2 DEF Fits, Kinds, KindAt
<1>4. LateConfirmed'
  BY <1>2 DEF Fits, LateConfirmed, LateAt, SerialIn, lifecycleVars
<1>5. Seen'
  BY <1>2 DEF Fits, Seen, SeenAt, SerialIn, Superseded, Serial, lifecycleVars
<1>6. SigsKnown'
  BY DEF VInv, SigsKnown, NotPending, Serial, lifecycleVars
<1>7. QED
  BY <1>1, <1>2, <1>3, <1>4, <1>5, <1>6 DEF Fits

\* A step of a verifier preserves the invariant.
LEMMA VInvMove ==
  ASSUME IInv, VInv, NEW v \in Verifier, VMove(v)
  PROVE  VInv'
<1> USE VerificationConstants
<1>1. UNCHANGED <<lifecycleVars, sig>>
  BY DEF VMove
<1>2. Fits(vpc[v], vloc[v])
  BY DEF VInv, VerTypeOK, VPC, Kinds, LateConfirmed, Seen, Fits
<1> DEFINE Placed == /\ vpc' \in [Verifier -> VPC] /\ vloc' \in [Verifier -> VLocal]
                     /\ \A x \in Verifier : vpc'[x] # "idle" =>
                          vloc'[x].record \in Record /\ vloc'[x].kind # None
                     /\ Kinds' /\ LateConfirmed' /\ Seen' /\ SigsKnown'
           Kept == UNCHANGED <<result, had>> /\ failed \subseteq failed'
           r == vloc[v].record
<1>3. ASSUME result' \in [Record -> ResultRow], deaths' \in Nat, had' \in SUBSET Record,
             failed' \in SUBSET Record, Placed, ResultsSigned', RevocationSeen', ResultKept'
      PROVE  VInv'
  <2>1. VerTypeOK'
    <3>1. sig' \in [Record -> SigRow]
      BY <1>1 DEF VInv, VerTypeOK
    <3>2. QED
      BY <1>3, <3>1 DEF VerTypeOK, VPC
  <2>2. QED
    BY <1>3, <2>1 DEF VInv
<1>4. ASSUME UNCHANGED result PROVE ResultsSigned' /\ RevocationSeen'
  BY <1>1, <1>4 DEF VInv, ResultsSigned, RevocationSeen, Superseded, Serial, lifecycleVars
<1>5. ASSUME NEW a \in Record, NEW k \in {"stored"} \cup Public, VStarts(v, a, k) PROVE VInv'
  <2>1. PICK p, l : VTo(v, p, l) /\ Fits(p, l)
    BY <1>5, StartFits
  <2>2. Placed
    BY <1>1, <2>1, AllFit
  <2>3. ResultKept'
    <3>1. UNCHANGED <<result, had, failed>> /\ vpc[v] \notin Deleted
      BY <1>5 DEF VStarts, Deleted
    <3>2. \A x \in Verifier : x # v => vpc'[x] = vpc[x] /\ vloc'[x] = vloc[x]
      BY <2>1, OneMoves DEF VInv
    <3>3. QED
      BY <3>1, <3>2 DEF VInv, ResultKept
  <2>4. QED
    BY <1>3, <1>4, <1>5, <2>2, <2>3 DEF VStarts, VInv, VerTypeOK
<1>6. ASSUME VReads(v) PROVE VInv'
  <2>1. PICK p, l : /\ VTo(v, p, l) /\ Fits(p, l)
                    /\ l.kind = vloc[v].kind /\ l.record = r
                    /\ vpc[v] \in Deleted /\ l.kind = "stored" => p \in Deleted
    BY <1>2, <1>6, ReadFits
  <2>2. Placed
    BY <1>1, <2>1, AllFit
  <2>3. ResultKept'
    <3>1. UNCHANGED <<result, had, failed>>
      BY <1>6 DEF VReads
    <3>2. /\ vpc'[v] = p /\ vloc'[v] = l
          /\ \A x \in Verifier : x # v => vpc'[x] = vpc[x] /\ vloc'[x] = vloc[x]
      BY <2>1, OneMoves DEF VInv
    <3>3. QED
      BY <2>1, <3>1, <3>2 DEF VInv, ResultKept
  <2>4. QED
    BY <1>3, <1>4, <1>6, <2>2, <2>3 DEF VReads, VInv, VerTypeOK
<1>7. ASSUME VDeletes(v) PROVE VInv'
  <2>1. PICK p \in {"lookup", "create"}, l \in VLocal :
          /\ VTo(v, p, l) /\ Fits(p, l)
          /\ l.kind = "stored" /\ l.record = r
    <3>1. /\ vloc[v] \in VLocal /\ vloc[v].kind = "stored" /\ vloc[v].kind # None
          /\ r \in Record /\ sig[r] # NoSig /\ vpc[v] = "delete"
          /\ LateAt("delete", vloc[v])
      BY <1>2, <1>7 DEF Fits, VDeletes, KindAt
    <3>2. Fits("lookup", vloc[v])
      BY <3>1 DEF Fits, VPC, Deleted, KindAt, LateAt, SeenAt
    <3> DEFINE l == Concluded(vloc[v], "invalid")
    <3>3. /\ l \in VLocal /\ l.kind = "stored" /\ l.record = r /\ l.late = vloc[v].late
          /\ l.verdict = "invalid"
      BY <3>1, ConcludedStates
    <3>4. Fits("create", l)
      BY <3>1, <3>3 DEF Fits, VPC, Deleted, KindAt, LateAt, SeenAt, SerialIn
    <3>5. QED
      BY <1>7, <3>1, <3>2, <3>3, <3>4 DEF VDeletes
  <2>2. Placed
    BY <1>1, <2>1, AllFit
  <2>3. /\ r \in Record /\ result' \in [Record -> ResultRow] /\ result'[r] = NoResult
        /\ \A a \in Record : a # r => result'[a] = result[a]
    <3>1. NoResult \in ResultRow /\ r \in Record
      BY <1>2, <1>7 DEF NoResult, ResultRow, Fits, VDeletes
    <3>2. QED
      BY <1>7, <3>1 DEF VDeletes, VInv, VerTypeOK
  <2>4. ResultsSigned' /\ RevocationSeen'
    BY <1>1, <2>3 DEF NoResult, VInv, ResultsSigned, RevocationSeen, Superseded, Serial,
       lifecycleVars
  <2>5. ResultKept'
    <3>1. /\ vpc'[v] = p /\ vloc'[v] = l
          /\ \A x \in Verifier : x # v => vpc'[x] = vpc[x] /\ vloc'[x] = vloc[x]
      BY <2>1, OneMoves DEF VInv
    <3>2. vpc[v] \notin Deleted /\ vpc'[v] \in Deleted /\ UNCHANGED <<had, failed>>
      BY <1>7, <2>1, <3>1 DEF VDeletes, Deleted
    <3>3. QED
      BY <2>1, <2>3, <3>1, <3>2 DEF VInv, VerTypeOK, ResultKept
  <2>6. QED
    BY <1>3, <1>7, <2>2, <2>3, <2>4, <2>5 DEF VDeletes, VInv, VerTypeOK
<1>8. ASSUME VStores(v) PROVE VInv'
  <2>1. /\ r \in Record /\ sig[r] # NoSig /\ vloc[v].verdict \in {"valid", "invalid"}
        /\ vloc[v].late \in BOOLEAN
        /\ vloc[v].late /\ vloc[v].verdict = "valid" => Superseded(sig[r].serial)
    BY <1>2, <1>8 DEF VStores, Fits, KindAt, SeenAt, SerialIn, VLocal
  <2>2. VTo(v, "idle", NoVLocal)
    BY <1>8 DEF VStores
  <2>3. Placed
    BY <1>1, <2>2, AllFit, FreshState
  <2>4. \A x \in Verifier : x # v => vpc'[x] = vpc[x] /\ vloc'[x] = vloc[x]
    BY <2>2, OneMoves DEF VInv
  <2>5. CASE result[r].status # "none"
    <3>1. UNCHANGED <<result, had, failed, deaths>>
      BY <1>8, <2>5 DEF VStores
    <3>2. ResultKept'
      BY <2>4, <2>5, <3>1 DEF VInv, ResultKept
    <3>3. QED
      BY <1>3, <1>4, <2>3, <3>1, <3>2 DEF VInv, VerTypeOK
  <2>6. CASE result[r].status = "none"
    <3> DEFINE row == [status |-> vloc[v].verdict, late |-> vloc[v].late]
    <3>1. /\ result' = [result EXCEPT ![r] = row] /\ had' = had \cup {r}
          /\ UNCHANGED <<failed, deaths>>
      BY <1>8, <2>6 DEF VStores
    <3>2. row \in ResultRow /\ row.status = vloc[v].verdict /\ row.late = vloc[v].late
      BY <2>1 DEF ResultRow
    <3>3. /\ result' \in [Record -> ResultRow] /\ result'[r] = row
          /\ \A a \in Record : a # r => result'[a] = result[a]
      BY <2>1, <3>1, <3>2 DEF VInv, VerTypeOK
    <3>4. ResultsSigned'
      BY <1>1, <2>1, <3>3 DEF VInv, ResultsSigned
    <3>5. RevocationSeen'
      <4>1. ASSUME NEW a \in Record, result'[a].status = "valid", result'[a].late
            PROVE  Superseded(sig[a].serial)
        BY <2>1, <3>2, <3>3, <4>1 DEF VInv, RevocationSeen
      <4>2. QED
        BY <1>1, <4>1 DEF RevocationSeen, Superseded, Serial, lifecycleVars
    <3>6. ResultKept'
      BY <2>1, <2>4, <3>1, <3>2, <3>3 DEF VInv, VerTypeOK, ResultKept
    <3>7. QED
      BY <1>3, <2>1, <2>3, <3>1, <3>3, <3>4, <3>5, <3>6 DEF VInv, VerTypeOK
  <2>7. QED
    BY <2>5, <2>6
<1>9. ASSUME VEnds(v) PROVE VInv'
  <2>1. VTo(v, "idle", NoVLocal) /\ r \in Record /\ UNCHANGED <<result, had>>
    BY <1>2, <1>9 DEF VEnds, Fits
  <2>2. Placed
    BY <1>1, <2>1, AllFit, FreshState
  <2>3. \A x \in Verifier : x # v => vpc'[x] = vpc[x] /\ vloc'[x] = vloc[x]
    BY <2>1, OneMoves DEF VInv
  <2>4. /\ failed \subseteq failed' /\ failed' \in SUBSET Record
        /\ vloc[v].kind = "stored" /\ vpc[v] \in Deleted => r \in failed'
    BY <1>9, <2>1 DEF VEnds, VInv, VerTypeOK
  <2>5. ResultKept'
    BY <2>1, <2>3, <2>4 DEF VInv, ResultKept
  <2>6. QED
    BY <1>3, <1>4, <1>9, <2>1, <2>2, <2>4, <2>5 DEF VEnds, VInv, VerTypeOK
<1>10. QED
  BY <1>5, <1>6, <1>7, <1>8, <1>9 DEF VMove

\* The invariant is inductive, given the one of certificates.
LEMMA VInvStep == ASSUME IInv, VInv, [Next]_vars PROVE VInv'
<1>1. CASE LifecycleNext /\ UNCHANGED verVars
  BY <1>1, VInvLifecycle
<1>2. ASSUME NEW r \in Record, NEW u \in User, NEW sound \in BOOLEAN, SignRecord(r, u, sound)
      PROVE  VInv'
  BY <1>2, VInvSign
<1>3. ASSUME NEW v \in Verifier, Verify(v) PROVE VInv'
  BY <1>3, VMoves, VInvMove DEF VInv
<1>4. CASE UNCHANGED vars
  BY <1>4 DEF vars, VInv, VerTypeOK, SigsKnown, NotPending, Serial, Kinds, KindAt, LateConfirmed,
     LateAt, Seen, SeenAt, SerialIn, Superseded, ResultsSigned, RevocationSeen, ResultKept
<1>5. QED
  BY <1>1, <1>2, <1>3, <1>4 DEF Next

\* The inductive invariant of verifications, beside the one of certificates.
THEOREM VerificationInvariance == Spec => [](IInv /\ VInv)
<1>1. Spec => []IInv
  BY Embedding, Invariance, PTL
<1>2. QED
  BY <1>1, VInvInit, VInvStep, PTL DEF Spec

\* Every variable keeps its type (Verification's state).
THEOREM VerificationTypeCorrect == Spec => []TypeOK
BY VerificationInvariance, PTL DEF TypeOK, IInv, VInv

\* Overlapping verifications never leave a record without its result, unless one
\* of them raised after its delete (verification/services.py, 66).
THEOREM ResultNeverLost == Spec => []ResultKept
BY VerificationInvariance, PTL DEF VInv

\* The service accepts a revoked certificate only after its row was replaced.
THEOREM RevocationAlwaysSeen == Spec => []RevocationSeen
BY VerificationInvariance, PTL DEF VInv

\* What the places of Seen say of an answer.
LEMMA AnswersSeen == VInv => PublicRevocationSeen
BY DEF VInv, Seen, SeenAt, SerialIn, SerialOf, PublicRevocationSeen

\* A public verification accepts a revoked certificate only in the cases that
\* PublicRevocationSeen lists (verification/public_verify_services.py).
THEOREM PublicAlwaysSeen == Spec => []PublicRevocationSeen
BY VerificationInvariance, AnswersSeen, PTL
===============================================================================
