------------------------- MODULE CertificateProofs -------------------------
(***************************************************************************)
(* Proofs about CertificateLifecycle for any number of workers, users,     *)
(* certificates and crashes.                                               *)
(***************************************************************************)
EXTENDS CertificateLifecycle, TLAPS

\* What an owner, a serial and a row have to do with each other.
RowsOwn ==
  /\ RowsOwnCertificates
  /\ \A u \in User : cert[u].status = "none" => cert[u].serial = 0

\* The certificate of a pending row, or of the row a revocation has read,
\* belongs to the handler's user.
HandlersOwn ==
  /\ \A w \in Worker : pc[w] \in Pending \cup Revoking =>
       loc[w].serial \in Serial /\ owner[loc[w].serial] = loc[w].user
  /\ \A w \in Worker : pc[w] \in Revoking => cert[loc[w].user].status # "none"

\* Histories are of certificates that exist, and of REVOKED rows.
HistoriesOwn ==
  /\ revoked \subseteq Serial /\ confirmed \subseteq Serial
  /\ RevokedRows \subseteq revoked

\* A certificate on its way into a row has been nowhere before.
PendingFresh ==
  \A w \in Worker : pc[w] \in Pending =>
    /\ loc[w].serial \notin revoked \cup confirmed
    /\ \A u \in User : cert[u].serial # loc[w].serial
    /\ \A x \in Worker : x # w /\ pc[x] \in Pending \cup Revoking =>
         loc[x].serial # loc[w].serial

\* A revocation past its UPDATE revoked its certificate or was overtaken.
Underway ==
  \A w \in Worker : pc[w] \in {"query", "truncate", "write"} =>
    loc[w].serial \in revoked \/ Superseded(loc[w].serial)

\* While nothing was disturbed, revocations ran one after the other.
OneRevocation ==
  disturbed \/ \A x, y \in Worker : pc[x] \in Revoking /\ pc[y] \in Revoking => x = y

\* While nothing was disturbed, a reported revocation stays on the CRL.
ConfirmedListed ==
  disturbed \/ crl.state = "torn" \/ RevokedRows \cap confirmed \subseteq crl.listed

\* The inductive invariant.
IInv ==
  /\ CertTypeOK /\ RowsOwn /\ HandlersOwn /\ HistoriesOwn /\ PendingFresh
  /\ KeyIsOwned /\ ListedWasRevoked /\ ActiveNotRevoked /\ Underway /\ ReportedIsRevoked
  /\ OneRevocation /\ CrlComplete /\ ConfirmedListed

(***************************************************************************)
(* Most actions do one of five things to the tables.                       *)
(***************************************************************************)

\* A handler starts on the certificate of user u.
Starts(w, u) ==
  /\ pc[w] = "idle"
  /\ pc' = [pc EXCEPT ![w] = "csr"] \/ pc' = [pc EXCEPT ![w] = "profile"]
  /\ loc' = [loc EXCEPT ![w] = [NoLocal EXCEPT !.user = u]]
  /\ UNCHANGED <<verified, cert, owner, keys, crl, crashes, revoked, confirmed, disturbed, orphaned>>

\* A handler returns without having changed anything.
Abandons(w) ==
  /\ pc[w] \in {"csr", "profile", "checkKey", "insert"}
  /\ pc[w] = "insert" => cert[loc[w].user].status # "none"
  /\ Return(w)
  /\ UNCHANGED <<verified, cert, owner, keys, crl, crashes, revoked, confirmed, disturbed, orphaned>>

\* An issuance passes one of its checks.
Advances(w) ==
  /\ pc[w] \in {"profile", "checkKey"}
  /\ Goto(w, IF pc[w] = "profile" THEN "checkKey" ELSE "generate")
  /\ UNCHANGED <<verified, cert, owner, keys, crl, crashes, revoked, confirmed, disturbed, orphaned>>

\* The lab CA signs a certificate.
Signs(w) ==
  /\ pc[w] \in {"csr", "certify"}
  /\ LabCaSigns(w, IF pc[w] = "csr" THEN "upsert" ELSE "insert")
  /\ UNCHANGED <<verified, cert, keys, crl, crashes, revoked, confirmed, disturbed, orphaned>>

\* A certificate enters the row of its user.
SetsRow(w) ==
  /\ pc[w] \in Pending
  /\ pc[w] = "insert" => cert[loc[w].user].status = "none"
  /\ cert' = [cert EXCEPT ![loc[w].user] = [status |-> "active", serial |-> loc[w].serial]]
  /\ Return(w)
  /\ UNCHANGED <<verified, owner, keys, crl, crashes, revoked, confirmed, disturbed, orphaned>>

Move ==
  \/ \E u \in User : DecideIdentity(u)
  \/ \E w \in Worker, u \in User : Starts(w, u) \/ BeginRevoke(w, u)
  \/ \E w \in Worker : \/ Abandons(w) \/ Advances(w) \/ Signs(w) \/ SetsRow(w)
                        \/ GenerateKey(w) \/ Crash(w)
                        \/ MarkRevoked(w) \/ QueryRevoked(w) \/ TruncateCrl(w) \/ WriteCrl(w)

\* Every step of the system is one of these moves.
LEMMA Moves == ASSUME LifecycleNext PROVE Move
<1>1. ASSUME NEW w \in Worker, Enroll(w) PROVE Move
  <2>1. ASSUME NEW u \in User, BeginEnroll(w, u) PROVE Move
    BY <2>1 DEF BeginEnroll, Begin, Move, Starts, certVars
  <2>2. ASSUME SignCsr(w) PROVE Signs(w) \/ Abandons(w)
    <3>1. CASE LabCaSigns(w, "upsert")
      BY <2>2, <3>1 DEF SignCsr, Signs, LabCaSigns
    <3>2. CASE Return(w) /\ UNCHANGED owner
      BY <2>2, <3>2 DEF SignCsr, Abandons
    <3>3. QED
      BY <2>2, <3>1, <3>2 DEF SignCsr
  <2>3. ASSUME UpsertCertificate(w) PROVE SetsRow(w)
    BY <2>3 DEF UpsertCertificate, SetsRow, Pending
  <2>4. QED
    BY <1>1, <2>1, <2>2, <2>3 DEF Enroll, Move
<1>2. ASSUME NEW w \in Worker, Issue(w) PROVE Move
  <2>1. ASSUME NEW u \in User, BeginIssue(w, u) PROVE Move
    BY <2>1 DEF BeginIssue, Begin, Move, Starts, certVars
  <2>2. ASSUME ReadProfile(w) PROVE Abandons(w) \/ Advances(w)
    BY <2>2 DEF ReadProfile, Abandons, Advances, certVars
  <2>3. ASSUME CheckKey(w) PROVE Abandons(w) \/ Advances(w)
    BY <2>3 DEF CheckKey, Abandons, Advances, certVars
  <2>4. ASSUME SignIssued(w) PROVE Signs(w)
    BY <2>4 DEF SignIssued, Signs, LabCaSigns
  <2>5. ASSUME InsertCertificate(w) PROVE SetsRow(w) \/ Abandons(w)
    BY <2>5 DEF InsertCertificate, SetsRow, Abandons, Pending
  <2>6. QED
    BY <1>2, <2>1, <2>2, <2>3, <2>4, <2>5 DEF Issue, Move
<1>3. ASSUME NEW w \in Worker, Revoke(w) PROVE Move
  BY <1>3 DEF Revoke, Move
<1>4. QED
  BY <1>1, <1>2, <1>3 DEF LifecycleNext, Move

\* Signing a certificate adds a serial and changes the owner of no other.
LEMMA SerialGrows ==
  ASSUME owner \in Seq(User), NEW u \in User, owner' = Append(owner, u)
  PROVE  /\ owner' \in Seq(User) /\ Len(owner') = Len(owner) + 1
         /\ owner'[Len(owner) + 1] = u
         /\ \A s \in 1 .. Len(owner) : s \in 1 .. Len(owner') /\ owner'[s] = owner[s]
         /\ Len(owner) \in Nat
OBVIOUS

\* What a signature of the lab CA does, in the form the proofs use.
SignsEffect(w) ==
  /\ pc[w] \in {"csr", "certify"} /\ pc'[w] \in {"upsert", "insert"}
  /\ pc' \in [Worker -> {"idle"} \cup Enrolling \cup Issuing \cup Revoking]
  /\ pc[w] = "certify" => pc'[w] = "insert"
  /\ \A x \in Worker : x # w => pc'[x] = pc[x] /\ loc'[x] = loc[x]
  /\ loc'[w].serial = Len(owner) + 1
  /\ loc'[w].user = loc[w].user /\ loc'[w].listed = loc[w].listed
  /\ loc[w].user \in User /\ loc' \in [Worker -> Local]
  /\ owner' \in Seq(User) /\ Len(owner') = Len(owner) + 1
  /\ owner'[Len(owner) + 1] = loc[w].user
  /\ \A s \in 1 .. Len(owner) : s \in 1 .. Len(owner') /\ owner'[s] = owner[s]
  /\ Len(owner) \in Nat
  /\ UNCHANGED <<verified, cert, keys, crl, crashes, revoked, confirmed,
                 disturbed, orphaned>>

\* The lab CA gives a handler a serial that nothing had, and disturbs no other.
LEMMA SignsStep ==
  ASSUME CertTypeOK, NEW w \in Worker, Signs(w) PROVE SignsEffect(w)
<1>1. loc[w].user \in User /\ loc[w] \in Local /\ owner \in Seq(User)
  BY DEF CertTypeOK, Signs
<1>2. owner' = Append(owner, loc[w].user)
  BY DEF Signs, LabCaSigns
<1>3. Len(owner) \in Nat
  BY <1>1
<1>4. [loc[w] EXCEPT !.serial = Len(owner) + 1] \in Local
  BY <1>1, <1>3 DEF Local
<1>5. loc' = [loc EXCEPT ![w] = [loc[w] EXCEPT !.serial = Len(owner) + 1]]
  BY DEF Signs, LabCaSigns
<1>6. /\ loc' \in [Worker -> Local] /\ loc'[w].serial = Len(owner) + 1
      /\ loc'[w].user = loc[w].user /\ loc'[w].listed = loc[w].listed
      /\ \A x \in Worker : x # w => loc'[x] = loc[x]
  BY <1>1, <1>4, <1>5 DEF CertTypeOK, Local
<1>7. /\ pc[w] \in {"csr", "certify"} /\ pc'[w] \in {"upsert", "insert"}
      /\ pc' \in [Worker -> {"idle"} \cup Enrolling \cup Issuing \cup Revoking]
      /\ pc[w] = "certify" => pc'[w] = "insert"
      /\ \A x \in Worker : x # w => pc'[x] = pc[x]
  BY DEF Signs, LabCaSigns, Enrolling, Issuing, CertTypeOK
<1>8. QED
  BY <1>1, <1>2, <1>3, <1>6, <1>7, SerialGrows DEF Signs, SignsEffect

\* Every variable keeps its type.
LEMMA CertTypeOKStep ==
  ASSUME CertTypeOK, HistoriesOwn, Move PROVE CertTypeOK'
<1>1. ASSUME NEW u \in User, DecideIdentity(u) PROVE CertTypeOK'
  BY <1>1 DEF DecideIdentity, CertTypeOK
<1>2. ASSUME NEW w \in Worker, NEW u \in User, Starts(w, u) PROVE CertTypeOK'
  BY <1>2 DEF Starts, CertTypeOK, Local, NoLocal, Enrolling, Issuing
<1>3. ASSUME NEW w \in Worker, NEW u \in User, BeginRevoke(w, u) PROVE CertTypeOK'
  BY <1>3 DEF BeginRevoke, CertTypeOK, CertRow, Local, NoLocal, Revoking
<1>4. ASSUME NEW w \in Worker, Abandons(w) PROVE CertTypeOK'
  BY <1>4 DEF Abandons, Return, CertTypeOK, Local, NoLocal
<1>5. ASSUME NEW w \in Worker, Advances(w) PROVE CertTypeOK'
  BY <1>5 DEF Advances, Goto, CertTypeOK, Issuing
<1>6. ASSUME NEW w \in Worker, Signs(w) PROVE CertTypeOK'
  <2>1. SignsEffect(w)
    BY <1>6, SignsStep
  <2>2. \A x \in Worker : pc'[x] # "idle" => loc'[x].user \in User
    BY <2>1 DEF SignsEffect, CertTypeOK
  <2>3. QED
    BY <2>1, <2>2 DEF SignsEffect, CertTypeOK
<1>7. ASSUME NEW w \in Worker, SetsRow(w) PROVE CertTypeOK'
  BY <1>7 DEF SetsRow, Return, CertTypeOK, CertRow, Local, NoLocal
<1>8. ASSUME NEW w \in Worker, GenerateKey(w) PROVE CertTypeOK'
  BY <1>8 DEF GenerateKey, Goto, CertTypeOK, Issuing
<1>9. ASSUME NEW w \in Worker, Crash(w) PROVE CertTypeOK'
  BY <1>9 DEF Crash, Return, CertTypeOK, Local, NoLocal
<1>10. ASSUME NEW w \in Worker, MarkRevoked(w) PROVE CertTypeOK'
  <2>1. /\ loc[w].user \in User /\ cert[loc[w].user] \in CertRow
        /\ UNCHANGED <<verified, owner, keys, crl, loc, crashes, confirmed, disturbed, orphaned>>
    BY <1>10 DEF MarkRevoked, Goto, CertTypeOK
  <2>2. [cert[loc[w].user] EXCEPT !.status = "revoked"] \in CertRow
        /\ cert[loc[w].user].serial \in Nat
    BY <2>1 DEF CertRow
  <2>3. cert' \in [User -> CertRow] /\ revoked' \in SUBSET Nat
    BY <1>10, <2>1, <2>2 DEF MarkRevoked, CertTypeOK
  <2>4. /\ pc' \in [Worker -> {"idle"} \cup Enrolling \cup Issuing \cup Revoking]
        /\ \A x \in Worker : pc'[x] # "idle" => pc[x] # "idle"
    BY <1>10 DEF MarkRevoked, Goto, CertTypeOK, Revoking
  <2>5. QED
    BY <2>1, <2>3, <2>4 DEF CertTypeOK
<1>11. ASSUME NEW w \in Worker, QueryRevoked(w) PROVE CertTypeOK'
  BY <1>11 DEF QueryRevoked, certVars, CertTypeOK, CertRow, CrlFile, Local, NoLocal, Enrolling,
     Issuing, Revoking, RevokedRows, HistoriesOwn, Serial, Pending
<1>12. ASSUME NEW w \in Worker, TruncateCrl(w) PROVE CertTypeOK'
  BY <1>12 DEF TruncateCrl, Goto, CertTypeOK, CrlFile, Revoking
<1>13. ASSUME NEW w \in Worker, WriteCrl(w) PROVE CertTypeOK'
  BY <1>13 DEF WriteCrl, Return, CertTypeOK, CrlFile, Local, NoLocal
<1>14. QED
  BY <1>1, <1>2, <1>3, <1>4, <1>5, <1>6, <1>7, <1>8, <1>9, <1>10, <1>11, <1>12, <1>13 DEF Move

\* Rows keep holding certificates of their own user.
LEMMA RowsOwnStep ==
  ASSUME CertTypeOK, RowsOwn, HandlersOwn, Move PROVE RowsOwn'
<1>1. ASSUME NEW u \in User, DecideIdentity(u) PROVE RowsOwn'
  BY <1>1 DEF DecideIdentity, RowsOwn, RowsOwnCertificates, Serial
<1>2. ASSUME NEW w \in Worker, NEW u \in User, Starts(w, u) PROVE RowsOwn'
  BY <1>2 DEF Starts, RowsOwn, RowsOwnCertificates, Serial
<1>3. ASSUME NEW w \in Worker, NEW u \in User, BeginRevoke(w, u) PROVE RowsOwn'
  BY <1>3 DEF BeginRevoke, RowsOwn, RowsOwnCertificates, Serial
<1>4. ASSUME NEW w \in Worker, Abandons(w) PROVE RowsOwn'
  BY <1>4 DEF Abandons, RowsOwn, RowsOwnCertificates, Serial
<1>5. ASSUME NEW w \in Worker, Advances(w) PROVE RowsOwn'
  BY <1>5 DEF Advances, RowsOwn, RowsOwnCertificates, Serial
<1>6. ASSUME NEW w \in Worker, Signs(w) PROVE RowsOwn'
  <2>1. SignsEffect(w)
    BY <1>6, SignsStep
  <2>2. QED
    BY <2>1 DEF SignsEffect, RowsOwn, RowsOwnCertificates, HandlersOwn, Pending, Serial
<1>7. ASSUME NEW w \in Worker, SetsRow(w) PROVE RowsOwn'
  BY <1>7 DEF SetsRow, RowsOwn, RowsOwnCertificates, HandlersOwn, Serial
<1>8. ASSUME NEW w \in Worker, GenerateKey(w) PROVE RowsOwn'
  BY <1>8 DEF GenerateKey, RowsOwn, RowsOwnCertificates, Serial
<1>9. ASSUME NEW w \in Worker, Crash(w) PROVE RowsOwn'
  BY <1>9 DEF Crash, RowsOwn, RowsOwnCertificates, Serial
<1>10. ASSUME NEW w \in Worker, MarkRevoked(w) PROVE RowsOwn'
  BY <1>10 DEF MarkRevoked, Revoking, RowsOwn, RowsOwnCertificates, HandlersOwn, Serial
<1>11. ASSUME NEW w \in Worker, QueryRevoked(w) PROVE RowsOwn'
  BY <1>11 DEF QueryRevoked, certVars, RowsOwn, RowsOwnCertificates, Serial
<1>12. ASSUME NEW w \in Worker, TruncateCrl(w) PROVE RowsOwn'
  BY <1>12 DEF TruncateCrl, RowsOwn, RowsOwnCertificates, Serial
<1>13. ASSUME NEW w \in Worker, WriteCrl(w) PROVE RowsOwn'
  BY <1>13 DEF WriteCrl, RowsOwn, RowsOwnCertificates, Serial
<1>14. QED
  BY <1>1, <1>2, <1>3, <1>4, <1>5, <1>6, <1>7, <1>8, <1>9, <1>10, <1>11, <1>12, <1>13 DEF Move

\* Handlers keep holding certificates of their own user.
LEMMA HandlersOwnStep ==
  ASSUME CertTypeOK, RowsOwn, HandlersOwn, Move PROVE HandlersOwn'
<1>1. ASSUME NEW u \in User, DecideIdentity(u) PROVE HandlersOwn'
  BY <1>1 DEF DecideIdentity, HandlersOwn, Serial
<1>2. ASSUME NEW w \in Worker, NEW u \in User, Starts(w, u) PROVE HandlersOwn'
  BY <1>2 DEF Starts, CertTypeOK, Revoking, HandlersOwn, Pending, Serial
<1>3. ASSUME NEW w \in Worker, NEW u \in User, BeginRevoke(w, u) PROVE HandlersOwn'
  BY <1>3 DEF BeginRevoke, CertTypeOK, RowsOwn, RowsOwnCertificates, HandlersOwn, Serial
<1>4. ASSUME NEW w \in Worker, Abandons(w) PROVE HandlersOwn'
  BY <1>4 DEF Abandons, Return, CertTypeOK, Revoking, HandlersOwn, Pending, Serial
<1>5. ASSUME NEW w \in Worker, Advances(w) PROVE HandlersOwn'
  BY <1>5 DEF Advances, Goto, Revoking, HandlersOwn, Pending, Serial
<1>6. ASSUME NEW w \in Worker, Signs(w) PROVE HandlersOwn'
  <2>1. SignsEffect(w)
    BY <1>6, SignsStep
  <2>2. loc'[w].serial \in Serial' /\ owner'[loc'[w].serial] = loc'[w].user
    BY <2>1 DEF SignsEffect, Serial
  <2>3. pc'[w] \notin Revoking
    BY <2>1 DEF SignsEffect, Revoking
  <2>4. ASSUME NEW x \in Worker, x # w, pc'[x] \in Pending \cup Revoking
        PROVE  loc'[x].serial \in Serial' /\ owner'[loc'[x].serial] = loc'[x].user
    BY <2>1, <2>4 DEF SignsEffect, Serial, HandlersOwn
  <2>5. ASSUME NEW x \in Worker, x # w, pc'[x] \in Revoking
        PROVE  cert'[loc'[x].user].status # "none"
    BY <2>1, <2>5 DEF SignsEffect, HandlersOwn
  <2>6. QED
    BY <2>2, <2>3, <2>4, <2>5 DEF HandlersOwn
<1>7. ASSUME NEW w \in Worker, SetsRow(w) PROVE HandlersOwn'
  BY <1>7 DEF SetsRow, Return, Pending, CertTypeOK, Revoking, HandlersOwn, Serial
<1>8. ASSUME NEW w \in Worker, GenerateKey(w) PROVE HandlersOwn'
  BY <1>8 DEF GenerateKey, Goto, Revoking, HandlersOwn, Pending, Serial
<1>9. ASSUME NEW w \in Worker, Crash(w) PROVE HandlersOwn'
  BY <1>9 DEF Crash, Return, CertTypeOK, Revoking, HandlersOwn, Pending, Serial
<1>10. ASSUME NEW w \in Worker, MarkRevoked(w) PROVE HandlersOwn'
  BY <1>10 DEF MarkRevoked, Goto, Revoking, HandlersOwn, Serial
<1>11. ASSUME NEW w \in Worker, QueryRevoked(w) PROVE HandlersOwn'
  BY <1>11 DEF QueryRevoked, certVars, Revoking, HandlersOwn, Serial
<1>12. ASSUME NEW w \in Worker, TruncateCrl(w) PROVE HandlersOwn'
  BY <1>12 DEF TruncateCrl, Goto, CertTypeOK, Enrolling, Issuing, HandlersOwn, Serial
<1>13. ASSUME NEW w \in Worker, WriteCrl(w) PROVE HandlersOwn'
  BY <1>13 DEF WriteCrl, Return, CertTypeOK, Revoking, HandlersOwn, Pending, Serial
<1>14. QED
  BY <1>1, <1>2, <1>3, <1>4, <1>5, <1>6, <1>7, <1>8, <1>9, <1>10, <1>11, <1>12, <1>13 DEF Move

\* Histories are only of certificates that exist.
LEMMA HistoriesOwnStep ==
  ASSUME CertTypeOK, RowsOwn, HandlersOwn, HistoriesOwn, Move PROVE HistoriesOwn'
<1>1. ASSUME NEW u \in User, DecideIdentity(u) PROVE HistoriesOwn'
  BY <1>1 DEF DecideIdentity, HistoriesOwn, RevokedRows, Serial
<1>2. ASSUME NEW w \in Worker, NEW u \in User, Starts(w, u) PROVE HistoriesOwn'
  BY <1>2 DEF Starts, HistoriesOwn, RevokedRows, Serial
<1>3. ASSUME NEW w \in Worker, NEW u \in User, BeginRevoke(w, u) PROVE HistoriesOwn'
  BY <1>3 DEF BeginRevoke, HistoriesOwn, RevokedRows, Serial
<1>4. ASSUME NEW w \in Worker, Abandons(w) PROVE HistoriesOwn'
  BY <1>4 DEF Abandons, HistoriesOwn, RevokedRows, Serial
<1>5. ASSUME NEW w \in Worker, Advances(w) PROVE HistoriesOwn'
  BY <1>5 DEF Advances, HistoriesOwn, RevokedRows, Serial
<1>6. ASSUME NEW w \in Worker, Signs(w) PROVE HistoriesOwn'
  <2>1. SignsEffect(w)
    BY <1>6, SignsStep
  <2>2. QED
    BY <2>1 DEF SignsEffect, HistoriesOwn, RevokedRows, Serial
<1>7. ASSUME NEW w \in Worker, SetsRow(w) PROVE HistoriesOwn'
  BY <1>7 DEF SetsRow, HistoriesOwn, RevokedRows, Serial
<1>8. ASSUME NEW w \in Worker, GenerateKey(w) PROVE HistoriesOwn'
  BY <1>8 DEF GenerateKey, HistoriesOwn, RevokedRows, Serial
<1>9. ASSUME NEW w \in Worker, Crash(w) PROVE HistoriesOwn'
  BY <1>9 DEF Crash, HistoriesOwn, RevokedRows, Serial
<1>10. ASSUME NEW w \in Worker, MarkRevoked(w) PROVE HistoriesOwn'
  BY <1>10 DEF MarkRevoked, CertTypeOK, Revoking, RowsOwn, RowsOwnCertificates, HandlersOwn,
     HistoriesOwn, RevokedRows, Serial
<1>11. ASSUME NEW w \in Worker, QueryRevoked(w) PROVE HistoriesOwn'
  BY <1>11 DEF QueryRevoked, certVars, HistoriesOwn, RevokedRows, Serial
<1>12. ASSUME NEW w \in Worker, TruncateCrl(w) PROVE HistoriesOwn'
  BY <1>12 DEF TruncateCrl, HistoriesOwn, RevokedRows, Serial
<1>13. ASSUME NEW w \in Worker, WriteCrl(w) PROVE HistoriesOwn'
  <2>1. loc[w].serial \in Serial
    BY <1>13 DEF WriteCrl, HandlersOwn, Revoking
  <2>2. /\ UNCHANGED <<cert, owner, revoked>>
        /\ confirmed' = confirmed \cup {loc[w].serial}
    BY <1>13 DEF WriteCrl
  <2>3. QED
    BY <2>1, <2>2 DEF HistoriesOwn, RevokedRows, Serial
<1>14. QED
  BY <1>1, <1>2, <1>3, <1>4, <1>5, <1>6, <1>7, <1>8, <1>9, <1>10, <1>11, <1>12, <1>13 DEF Move

\* A certificate on its way stays new to everybody else.
LEMMA PendingFreshStep ==
  ASSUME CertTypeOK, RowsOwn, HandlersOwn, HistoriesOwn, PendingFresh, Move PROVE PendingFresh'
<1>1. ASSUME NEW u \in User, DecideIdentity(u) PROVE PendingFresh'
  BY <1>1 DEF DecideIdentity, PendingFresh
<1>2. ASSUME NEW w \in Worker, NEW u \in User, Starts(w, u) PROVE PendingFresh'
  BY <1>2 DEF Starts, CertTypeOK, Revoking, PendingFresh, Pending
<1>3. ASSUME NEW w \in Worker, NEW u \in User, BeginRevoke(w, u) PROVE PendingFresh'
  BY <1>3 DEF BeginRevoke, CertTypeOK, PendingFresh, Pending
<1>4. ASSUME NEW w \in Worker, Abandons(w) PROVE PendingFresh'
  BY <1>4 DEF Abandons, Return, CertTypeOK, Revoking, PendingFresh, Pending
<1>5. ASSUME NEW w \in Worker, Advances(w) PROVE PendingFresh'
  BY <1>5 DEF Advances, Goto, Revoking, PendingFresh, Pending
<1>6. ASSUME NEW w \in Worker, Signs(w) PROVE PendingFresh'
  <2>1. SignsEffect(w)
    BY <1>6, SignsStep
  <2> DEFINE new == Len(owner) + 1
  <2>2. /\ new \notin Serial /\ new # 0
        /\ loc'[w].serial = new
        /\ UNCHANGED <<cert, revoked, confirmed>>
        /\ \A x \in Worker : x # w => pc'[x] = pc[x] /\ loc'[x] = loc[x]
    BY <2>1 DEF SignsEffect, Serial
  <2>3. new \notin revoked \cup confirmed /\ \A u \in User : cert[u].serial # new
    BY <2>2 DEF HistoriesOwn, RowsOwn, RowsOwnCertificates
  <2>4. \A x \in Worker : x # w /\ pc'[x] \in Pending \cup Revoking => loc'[x].serial # new
    BY <2>2 DEF HandlersOwn
  <2>5. ASSUME NEW y \in Worker, y # w, pc'[y] \in Pending
        PROVE  /\ loc'[y].serial \notin (revoked \cup confirmed)'
               /\ \A u \in User : cert'[u].serial # loc'[y].serial
               /\ \A x \in Worker : x # y /\ pc'[x] \in Pending \cup Revoking =>
                    loc'[x].serial # loc'[y].serial
    <3>1. pc[y] \in Pending /\ loc'[y] = loc[y] /\ loc[y].serial # new
      BY <2>2, <2>4, <2>5
    <3>2. ASSUME NEW x \in Worker, x # y, pc'[x] \in Pending \cup Revoking
          PROVE  loc'[x].serial # loc'[y].serial
      <4>1. CASE x = w
        BY <2>2, <3>1, <4>1
      <4>2. CASE x # w
        BY <2>2, <3>1, <3>2, <4>2 DEF PendingFresh
      <4>3. QED
        BY <4>1, <4>2
    <3>3. QED
      BY <2>2, <3>1, <3>2 DEF PendingFresh
  <2>6. QED
    BY <2>2, <2>3, <2>4, <2>5 DEF PendingFresh
<1>7. ASSUME NEW w \in Worker, SetsRow(w) PROVE PendingFresh'
  BY <1>7 DEF SetsRow, Return, Pending, CertTypeOK, Revoking, PendingFresh
<1>8. ASSUME NEW w \in Worker, GenerateKey(w) PROVE PendingFresh'
  BY <1>8 DEF GenerateKey, Goto, Revoking, PendingFresh, Pending
<1>9. ASSUME NEW w \in Worker, Crash(w) PROVE PendingFresh'
  BY <1>9 DEF Crash, Return, CertTypeOK, Revoking, PendingFresh, Pending
<1>10. ASSUME NEW w \in Worker, MarkRevoked(w) PROVE PendingFresh'
  BY <1>10 DEF MarkRevoked, Goto, CertTypeOK, Revoking, PendingFresh, Pending
<1>11. ASSUME NEW w \in Worker, QueryRevoked(w) PROVE PendingFresh'
  BY <1>11 DEF QueryRevoked, certVars, Revoking, PendingFresh, Pending
<1>12. ASSUME NEW w \in Worker, TruncateCrl(w) PROVE PendingFresh'
  BY <1>12 DEF TruncateCrl, Goto, CertTypeOK, Enrolling, Issuing, PendingFresh, Pending
<1>13. ASSUME NEW w \in Worker, WriteCrl(w) PROVE PendingFresh'
  BY <1>13 DEF WriteCrl, Return, CertTypeOK, Revoking, PendingFresh, Pending
<1>14. QED
  BY <1>1, <1>2, <1>3, <1>4, <1>5, <1>6, <1>7, <1>8, <1>9, <1>10, <1>11, <1>12, <1>13 DEF Move

\* Keys without a row keep an owner.
LEMMA KeyIsOwnedStep ==
  ASSUME CertTypeOK, KeyIsOwned, Move PROVE KeyIsOwned'
<1>1. ASSUME NEW u \in User, DecideIdentity(u) PROVE KeyIsOwned'
  BY <1>1 DEF DecideIdentity, KeyIsOwned
<1>2. ASSUME NEW w \in Worker, NEW u \in User, Starts(w, u) PROVE KeyIsOwned'
  BY <1>2 DEF Starts, CertTypeOK, KeyIsOwned
<1>3. ASSUME NEW w \in Worker, NEW u \in User, BeginRevoke(w, u) PROVE KeyIsOwned'
  BY <1>3 DEF BeginRevoke, KeyIsOwned
<1>4. ASSUME NEW w \in Worker, Abandons(w) PROVE KeyIsOwned'
  BY <1>4 DEF Abandons, Return, KeyIsOwned
<1>5. ASSUME NEW w \in Worker, Advances(w) PROVE KeyIsOwned'
  BY <1>5 DEF Advances, Goto, KeyIsOwned
<1>6. ASSUME NEW w \in Worker, Signs(w) PROVE KeyIsOwned'
  <2>1. SignsEffect(w)
    BY <1>6, SignsStep
  <2>2. ASSUME NEW u \in User, keys'[u] > 0, cert'[u].status = "none", u \notin orphaned'
        PROVE  \E x \in Worker : pc'[x] \in {"certify", "insert"} /\ loc'[x].user = u
    <3>1. PICK x \in Worker : pc[x] \in {"certify", "insert"} /\ loc[x].user = u
      BY <2>1, <2>2 DEF SignsEffect, KeyIsOwned
    <3>2. CASE x = w
      BY <2>1, <3>1, <3>2 DEF SignsEffect
    <3>3. CASE x # w
      BY <2>1, <3>1, <3>3 DEF SignsEffect
    <3>4. QED
      BY <3>2, <3>3
  <2>3. QED
    BY <2>2 DEF KeyIsOwned
<1>7. ASSUME NEW w \in Worker, SetsRow(w) PROVE KeyIsOwned'
  BY <1>7 DEF SetsRow, Return, CertTypeOK, KeyIsOwned
<1>8. ASSUME NEW w \in Worker, GenerateKey(w) PROVE KeyIsOwned'
  BY <1>8 DEF GenerateKey, Goto, CertTypeOK, KeyIsOwned
<1>9. ASSUME NEW w \in Worker, Crash(w) PROVE KeyIsOwned'
  BY <1>9 DEF Crash, Return, KeyIsOwned
<1>10. ASSUME NEW w \in Worker, MarkRevoked(w) PROVE KeyIsOwned'
  BY <1>10 DEF MarkRevoked, Goto, KeyIsOwned
<1>11. ASSUME NEW w \in Worker, QueryRevoked(w) PROVE KeyIsOwned'
  BY <1>11 DEF QueryRevoked, certVars, KeyIsOwned
<1>12. ASSUME NEW w \in Worker, TruncateCrl(w) PROVE KeyIsOwned'
  BY <1>12 DEF TruncateCrl, Goto, KeyIsOwned
<1>13. ASSUME NEW w \in Worker, WriteCrl(w) PROVE KeyIsOwned'
  BY <1>13 DEF WriteCrl, Return, KeyIsOwned
<1>14. QED
  BY <1>1, <1>2, <1>3, <1>4, <1>5, <1>6, <1>7, <1>8, <1>9, <1>10, <1>11, <1>12, <1>13 DEF Move

\* Lists only ever hold revoked certificates.
LEMMA ListedWasRevokedStep ==
  ASSUME CertTypeOK, HistoriesOwn, ListedWasRevoked, Move PROVE ListedWasRevoked'
<1>1. ASSUME NEW u \in User, DecideIdentity(u) PROVE ListedWasRevoked'
  BY <1>1 DEF DecideIdentity, ListedWasRevoked
<1>2. ASSUME NEW w \in Worker, NEW u \in User, Starts(w, u) PROVE ListedWasRevoked'
  BY <1>2 DEF Starts, NoLocal, ListedWasRevoked
<1>3. ASSUME NEW w \in Worker, NEW u \in User, BeginRevoke(w, u) PROVE ListedWasRevoked'
  BY <1>3 DEF BeginRevoke, NoLocal, ListedWasRevoked
<1>4. ASSUME NEW w \in Worker, Abandons(w) PROVE ListedWasRevoked'
  BY <1>4 DEF Abandons, Return, NoLocal, ListedWasRevoked
<1>5. ASSUME NEW w \in Worker, Advances(w) PROVE ListedWasRevoked'
  BY <1>5 DEF Advances, Goto, ListedWasRevoked
<1>6. ASSUME NEW w \in Worker, Signs(w) PROVE ListedWasRevoked'
  <2>1. SignsEffect(w)
    BY <1>6, SignsStep
  <2>2. QED
    BY <2>1 DEF SignsEffect, ListedWasRevoked
<1>7. ASSUME NEW w \in Worker, SetsRow(w) PROVE ListedWasRevoked'
  BY <1>7 DEF SetsRow, Return, NoLocal, ListedWasRevoked
<1>8. ASSUME NEW w \in Worker, GenerateKey(w) PROVE ListedWasRevoked'
  BY <1>8 DEF GenerateKey, Goto, ListedWasRevoked
<1>9. ASSUME NEW w \in Worker, Crash(w) PROVE ListedWasRevoked'
  BY <1>9 DEF Crash, Return, NoLocal, ListedWasRevoked
<1>10. ASSUME NEW w \in Worker, MarkRevoked(w) PROVE ListedWasRevoked'
  BY <1>10 DEF MarkRevoked, Goto, ListedWasRevoked
<1>11. ASSUME NEW w \in Worker, QueryRevoked(w) PROVE ListedWasRevoked'
  BY <1>11 DEF QueryRevoked, certVars, HistoriesOwn, ListedWasRevoked
<1>12. ASSUME NEW w \in Worker, TruncateCrl(w) PROVE ListedWasRevoked'
  BY <1>12 DEF TruncateCrl, Goto, ListedWasRevoked
<1>13. ASSUME NEW w \in Worker, WriteCrl(w) PROVE ListedWasRevoked'
  BY <1>13 DEF WriteCrl, Return, NoLocal, ListedWasRevoked
<1>14. QED
  BY <1>1, <1>2, <1>3, <1>4, <1>5, <1>6, <1>7, <1>8, <1>9, <1>10, <1>11, <1>12, <1>13 DEF Move

\* A revoked certificate does not come back.
LEMMA ActiveNotRevokedStep ==
  ASSUME CertTypeOK, RowsOwn, HandlersOwn, PendingFresh, ActiveNotRevoked, Move PROVE ActiveNotRevoked'
<1>1. ASSUME NEW u \in User, DecideIdentity(u) PROVE ActiveNotRevoked'
  BY <1>1 DEF DecideIdentity, ActiveNotRevoked
<1>2. ASSUME NEW w \in Worker, NEW u \in User, Starts(w, u) PROVE ActiveNotRevoked'
  BY <1>2 DEF Starts, ActiveNotRevoked
<1>3. ASSUME NEW w \in Worker, NEW u \in User, BeginRevoke(w, u) PROVE ActiveNotRevoked'
  BY <1>3 DEF BeginRevoke, ActiveNotRevoked
<1>4. ASSUME NEW w \in Worker, Abandons(w) PROVE ActiveNotRevoked'
  BY <1>4 DEF Abandons, ActiveNotRevoked
<1>5. ASSUME NEW w \in Worker, Advances(w) PROVE ActiveNotRevoked'
  BY <1>5 DEF Advances, ActiveNotRevoked
<1>6. ASSUME NEW w \in Worker, Signs(w) PROVE ActiveNotRevoked'
  <2>1. SignsEffect(w)
    BY <1>6, SignsStep
  <2>2. QED
    BY <2>1 DEF SignsEffect, ActiveNotRevoked
<1>7. ASSUME NEW w \in Worker, SetsRow(w) PROVE ActiveNotRevoked'
  BY <1>7 DEF SetsRow, PendingFresh, ActiveNotRevoked
<1>8. ASSUME NEW w \in Worker, GenerateKey(w) PROVE ActiveNotRevoked'
  BY <1>8 DEF GenerateKey, ActiveNotRevoked
<1>9. ASSUME NEW w \in Worker, Crash(w) PROVE ActiveNotRevoked'
  BY <1>9 DEF Crash, ActiveNotRevoked
<1>10. ASSUME NEW w \in Worker, MarkRevoked(w) PROVE ActiveNotRevoked'
  <2>1. /\ loc[w].user \in User
        /\ cert' = [cert EXCEPT ![loc[w].user].status = "revoked"]
        /\ revoked' = revoked \cup {cert[loc[w].user].serial}
    BY <1>10 DEF MarkRevoked, CertTypeOK
  <2>2. cert'[loc[w].user].status = "revoked"
    BY <2>1 DEF CertTypeOK, CertRow
  <2>3. ASSUME NEW u \in User, cert'[u].status = "active" PROVE cert'[u].serial \notin revoked'
    <3>1. u # loc[w].user
      BY <2>2, <2>3
    <3>2. cert'[u] = cert[u]
      BY <2>1, <3>1 DEF CertTypeOK
    <3>3. cert[u].serial # cert[loc[w].user].serial
      BY <1>10, <2>1, <2>3, <3>1, <3>2 DEF RowsOwn, RowsOwnCertificates, MarkRevoked,
         HandlersOwn, Revoking
    <3>4. QED
      BY <2>1, <2>3, <3>2, <3>3 DEF ActiveNotRevoked
  <2>4. QED
    BY <2>3 DEF ActiveNotRevoked
<1>11. ASSUME NEW w \in Worker, QueryRevoked(w) PROVE ActiveNotRevoked'
  BY <1>11 DEF QueryRevoked, certVars, ActiveNotRevoked
<1>12. ASSUME NEW w \in Worker, TruncateCrl(w) PROVE ActiveNotRevoked'
  BY <1>12 DEF TruncateCrl, ActiveNotRevoked
<1>13. ASSUME NEW w \in Worker, WriteCrl(w) PROVE ActiveNotRevoked'
  BY <1>13 DEF WriteCrl, ActiveNotRevoked
<1>14. QED
  BY <1>1, <1>2, <1>3, <1>4, <1>5, <1>6, <1>7, <1>8, <1>9, <1>10, <1>11, <1>12, <1>13 DEF Move

\* A revocation that goes on has revoked or was overtaken.
LEMMA UnderwayStep ==
  ASSUME CertTypeOK, RowsOwn, HandlersOwn, HistoriesOwn, PendingFresh, Underway, Move PROVE Underway'
<1>1. ASSUME NEW u \in User, DecideIdentity(u) PROVE Underway'
  BY <1>1 DEF DecideIdentity, Superseded, Serial, Underway
<1>2. ASSUME NEW w \in Worker, NEW u \in User, Starts(w, u) PROVE Underway'
  BY <1>2 DEF Starts, CertTypeOK, Superseded, Serial, Underway
<1>3. ASSUME NEW w \in Worker, NEW u \in User, BeginRevoke(w, u) PROVE Underway'
  BY <1>3 DEF BeginRevoke, CertTypeOK, CertRow, Issuing, HistoriesOwn, RevokedRows, Superseded,
     Serial, Underway
<1>4. ASSUME NEW w \in Worker, Abandons(w) PROVE Underway'
  BY <1>4 DEF Abandons, Return, Superseded, Serial, Underway
<1>5. ASSUME NEW w \in Worker, Advances(w) PROVE Underway'
  BY <1>5 DEF Advances, Goto, Superseded, Serial, Underway
<1>6. ASSUME NEW w \in Worker, Signs(w) PROVE Underway'
  <2>1. SignsEffect(w)
    BY <1>6, SignsStep
  <2>2. ASSUME NEW x \in Worker, pc'[x] \in {"query", "truncate", "write"}
        PROVE  (loc[x].serial \in revoked \/ Superseded(loc[x].serial))'
    <3>1. x # w /\ pc[x] = pc'[x] /\ loc'[x] = loc[x]
      BY <2>1, <2>2 DEF SignsEffect
    <3>2. loc[x].serial \in revoked \/ Superseded(loc[x].serial)
      BY <2>2, <3>1 DEF Underway
    <3>3. ASSUME NEW s \in Serial
          PROVE  s \in Serial' /\ owner'[s] = owner[s] /\ cert' = cert /\ revoked' = revoked
      BY <2>1, <3>3 DEF SignsEffect, Serial
    <3>4. revoked' = revoked
      BY <2>1 DEF SignsEffect
    <3>5. QED
      BY <3>1, <3>2, <3>3, <3>4 DEF Superseded
  <2>3. QED
    BY <2>2 DEF Underway
<1>7. ASSUME NEW w \in Worker, SetsRow(w) PROVE Underway'
  BY <1>7 DEF SetsRow, Return, Pending, Revoking, PendingFresh, Superseded, Serial, Underway
<1>8. ASSUME NEW w \in Worker, GenerateKey(w) PROVE Underway'
  BY <1>8 DEF GenerateKey, Goto, Superseded, Serial, Underway
<1>9. ASSUME NEW w \in Worker, Crash(w) PROVE Underway'
  BY <1>9 DEF Crash, Return, CertTypeOK, Superseded, Serial, Underway
<1>10. ASSUME NEW w \in Worker, MarkRevoked(w) PROVE Underway'
  BY <1>10 DEF MarkRevoked, Goto, Enrolling, Revoking, HistoriesOwn, RevokedRows, RowsOwn,
     RowsOwnCertificates, HandlersOwn, PendingFresh, Pending, Superseded, Serial, Underway
<1>11. ASSUME NEW w \in Worker, QueryRevoked(w) PROVE Underway'
  BY <1>11 DEF QueryRevoked, certVars, Superseded, Serial, Underway
<1>12. ASSUME NEW w \in Worker, TruncateCrl(w) PROVE Underway'
  BY <1>12 DEF TruncateCrl, Goto, Superseded, Serial, Underway
<1>13. ASSUME NEW w \in Worker, WriteCrl(w) PROVE Underway'
  BY <1>13 DEF WriteCrl, Return, CertTypeOK, Superseded, Serial, Underway
<1>14. QED
  BY <1>1, <1>2, <1>3, <1>4, <1>5, <1>6, <1>7, <1>8, <1>9, <1>10, <1>11, <1>12, <1>13 DEF Move

\* Reported revocations stay revoked or overtaken.
LEMMA ReportedIsRevokedStep ==
  ASSUME CertTypeOK, RowsOwn, HandlersOwn, HistoriesOwn, PendingFresh, Underway, ReportedIsRevoked, Move PROVE ReportedIsRevoked'
<1>1. ASSUME NEW u \in User, DecideIdentity(u) PROVE ReportedIsRevoked'
  BY <1>1 DEF DecideIdentity, Superseded, Serial, ReportedIsRevoked
<1>2. ASSUME NEW w \in Worker, NEW u \in User, Starts(w, u) PROVE ReportedIsRevoked'
  BY <1>2 DEF Starts, Superseded, Serial, ReportedIsRevoked
<1>3. ASSUME NEW w \in Worker, NEW u \in User, BeginRevoke(w, u) PROVE ReportedIsRevoked'
  BY <1>3 DEF BeginRevoke, Superseded, Serial, ReportedIsRevoked
<1>4. ASSUME NEW w \in Worker, Abandons(w) PROVE ReportedIsRevoked'
  BY <1>4 DEF Abandons, Superseded, Serial, ReportedIsRevoked
<1>5. ASSUME NEW w \in Worker, Advances(w) PROVE ReportedIsRevoked'
  BY <1>5 DEF Advances, Superseded, Serial, ReportedIsRevoked
<1>6. ASSUME NEW w \in Worker, Signs(w) PROVE ReportedIsRevoked'
  <2>1. SignsEffect(w)
    BY <1>6, SignsStep
  <2>2. QED
    BY <2>1 DEF SignsEffect, Superseded, Serial, ReportedIsRevoked
<1>7. ASSUME NEW w \in Worker, SetsRow(w) PROVE ReportedIsRevoked'
  BY <1>7 DEF SetsRow, PendingFresh, Superseded, Serial, ReportedIsRevoked
<1>8. ASSUME NEW w \in Worker, GenerateKey(w) PROVE ReportedIsRevoked'
  BY <1>8 DEF GenerateKey, Superseded, Serial, ReportedIsRevoked
<1>9. ASSUME NEW w \in Worker, Crash(w) PROVE ReportedIsRevoked'
  BY <1>9 DEF Crash, Superseded, Serial, ReportedIsRevoked
<1>10. ASSUME NEW w \in Worker, MarkRevoked(w) PROVE ReportedIsRevoked'
  BY <1>10 DEF MarkRevoked, Superseded, Serial, ReportedIsRevoked
<1>11. ASSUME NEW w \in Worker, QueryRevoked(w) PROVE ReportedIsRevoked'
  BY <1>11 DEF QueryRevoked, certVars, Superseded, Serial, ReportedIsRevoked
<1>12. ASSUME NEW w \in Worker, TruncateCrl(w) PROVE ReportedIsRevoked'
  BY <1>12 DEF TruncateCrl, Superseded, Serial, ReportedIsRevoked
<1>13. ASSUME NEW w \in Worker, WriteCrl(w) PROVE ReportedIsRevoked'
  BY <1>13 DEF WriteCrl, Superseded, Serial, Underway, ReportedIsRevoked
<1>14. QED
  BY <1>1, <1>2, <1>3, <1>4, <1>5, <1>6, <1>7, <1>8, <1>9, <1>10, <1>11, <1>12, <1>13 DEF Move

\* Revocations do not overlap unless that is noted.
LEMMA OneRevocationStep ==
  ASSUME CertTypeOK, OneRevocation, Move PROVE OneRevocation'
<1>1. ASSUME NEW u \in User, DecideIdentity(u) PROVE OneRevocation'
  BY <1>1 DEF DecideIdentity, OneRevocation
<1>2. ASSUME NEW w \in Worker, NEW u \in User, Starts(w, u) PROVE OneRevocation'
  BY <1>2 DEF Starts, CertTypeOK, Enrolling, Issuing, Revoking, OneRevocation
<1>3. ASSUME NEW w \in Worker, NEW u \in User, BeginRevoke(w, u) PROVE OneRevocation'
  <2>1. CASE disturbed'
    BY <2>1 DEF OneRevocation
  <2>2. CASE ~disturbed'
    <3>1. \A x \in Worker : pc[x] \notin Revoking
      BY <1>3, <2>2 DEF BeginRevoke
    <3>2. \A x \in Worker : x # w => pc'[x] = pc[x]
      BY <1>3 DEF BeginRevoke, CertTypeOK
    <3>3. QED
      BY <3>1, <3>2 DEF OneRevocation
  <2>3. QED
    BY <2>1, <2>2
<1>4. ASSUME NEW w \in Worker, Abandons(w) PROVE OneRevocation'
  BY <1>4 DEF Abandons, Return, Revoking, OneRevocation
<1>5. ASSUME NEW w \in Worker, Advances(w) PROVE OneRevocation'
  BY <1>5 DEF Advances, Goto, Revoking, OneRevocation
<1>6. ASSUME NEW w \in Worker, Signs(w) PROVE OneRevocation'
  <2>1. SignsEffect(w)
    BY <1>6, SignsStep
  <2>2. QED
    BY <2>1 DEF SignsEffect, Revoking, OneRevocation
<1>7. ASSUME NEW w \in Worker, SetsRow(w) PROVE OneRevocation'
  BY <1>7 DEF SetsRow, Return, Revoking, OneRevocation
<1>8. ASSUME NEW w \in Worker, GenerateKey(w) PROVE OneRevocation'
  BY <1>8 DEF GenerateKey, Goto, Revoking, OneRevocation
<1>9. ASSUME NEW w \in Worker, Crash(w) PROVE OneRevocation'
  BY <1>9 DEF Crash, Return, CertTypeOK, Revoking, OneRevocation
<1>10. ASSUME NEW w \in Worker, MarkRevoked(w) PROVE OneRevocation'
  BY <1>10 DEF MarkRevoked, Goto, Revoking, OneRevocation
<1>11. ASSUME NEW w \in Worker, QueryRevoked(w) PROVE OneRevocation'
  BY <1>11 DEF QueryRevoked, certVars, Revoking, OneRevocation
<1>12. ASSUME NEW w \in Worker, TruncateCrl(w) PROVE OneRevocation'
  BY <1>12 DEF TruncateCrl, Goto, Revoking, OneRevocation
<1>13. ASSUME NEW w \in Worker, WriteCrl(w) PROVE OneRevocation'
  BY <1>13 DEF WriteCrl, Return, Revoking, OneRevocation
<1>14. QED
  BY <1>1, <1>2, <1>3, <1>4, <1>5, <1>6, <1>7, <1>8, <1>9, <1>10, <1>11, <1>12, <1>13 DEF Move

\* The CRL stays complete.
LEMMA CrlCompleteStep ==
  ASSUME CertTypeOK, OneRevocation, CrlComplete, Move PROVE CrlComplete'
<1>1. ASSUME NEW u \in User, DecideIdentity(u) PROVE CrlComplete'
  BY <1>1 DEF DecideIdentity, CrlComplete, RevokedRows
<1>2. ASSUME NEW w \in Worker, NEW u \in User, Starts(w, u) PROVE CrlComplete'
  BY <1>2 DEF Starts, CertTypeOK, CrlComplete, RevokedRows
<1>3. ASSUME NEW w \in Worker, NEW u \in User, BeginRevoke(w, u) PROVE CrlComplete'
  BY <1>3 DEF BeginRevoke, CertTypeOK, CrlComplete, RevokedRows
<1>4. ASSUME NEW w \in Worker, Abandons(w) PROVE CrlComplete'
  BY <1>4 DEF Abandons, Return, CrlComplete, RevokedRows
<1>5. ASSUME NEW w \in Worker, Advances(w) PROVE CrlComplete'
  BY <1>5 DEF Advances, Goto, CrlComplete, RevokedRows
<1>6. ASSUME NEW w \in Worker, Signs(w) PROVE CrlComplete'
  <2>1. SignsEffect(w)
    BY <1>6, SignsStep
  <2>2. \A x \in Worker, s \in {"query", "truncate", "write"} : (pc'[x] = s) <=> (pc[x] = s)
    BY <2>1 DEF SignsEffect
  <2>3. \A x \in Worker : loc'[x].listed = loc[x].listed
    BY <2>1 DEF SignsEffect
  <2>4. RevokedRows' = RevokedRows /\ UNCHANGED <<crl, disturbed>>
    BY <2>1 DEF SignsEffect, RevokedRows
  <2>5. QED
    BY <2>2, <2>3, <2>4 DEF CrlComplete
<1>7. ASSUME NEW w \in Worker, SetsRow(w) PROVE CrlComplete'
  BY <1>7 DEF SetsRow, Return, Pending, CrlComplete, RevokedRows
<1>8. ASSUME NEW w \in Worker, GenerateKey(w) PROVE CrlComplete'
  BY <1>8 DEF GenerateKey, Goto, CrlComplete, RevokedRows
<1>9. ASSUME NEW w \in Worker, Crash(w) PROVE CrlComplete'
  <2>1. CASE disturbed \/ pc[w] \in Revoking
    BY <1>9, <2>1 DEF Crash, CrlComplete
  <2>2. CASE ~disturbed /\ pc[w] \notin Revoking
    <3>1. /\ \A x \in Worker : x # w => pc'[x] = pc[x] /\ loc'[x] = loc[x]
          /\ pc'[w] = "idle"
          /\ UNCHANGED <<cert, crl>>
      BY <1>9 DEF Crash, Return, CertTypeOK
    <3>2. \A x \in Worker, s \in Revoking : pc'[x] = s <=> pc[x] = s
      BY <2>2, <3>1 DEF Revoking
    <3>3. \A x \in Worker : pc'[x] \in Revoking => loc'[x] = loc[x]
      BY <3>1 DEF Revoking
    <3>4. RevokedRows' = RevokedRows
      BY <3>1 DEF RevokedRows
    <3>5. QED
      BY <2>2, <3>1, <3>2, <3>3, <3>4 DEF CrlComplete, Revoking
  <2>3. QED
    BY <2>1, <2>2
<1>10. ASSUME NEW w \in Worker, MarkRevoked(w) PROVE CrlComplete'
  BY <1>10 DEF MarkRevoked, Goto, CertTypeOK, Revoking, OneRevocation, CrlComplete
<1>11. ASSUME NEW w \in Worker, QueryRevoked(w) PROVE CrlComplete'
  BY <1>11 DEF QueryRevoked, certVars, CertTypeOK, CrlComplete, RevokedRows
<1>12. ASSUME NEW w \in Worker, TruncateCrl(w) PROVE CrlComplete'
  BY <1>12 DEF TruncateCrl, Goto, CrlComplete, RevokedRows
<1>13. ASSUME NEW w \in Worker, WriteCrl(w) PROVE CrlComplete'
  BY <1>13 DEF WriteCrl, Return, CertTypeOK, CrlComplete, RevokedRows
<1>14. QED
  BY <1>1, <1>2, <1>3, <1>4, <1>5, <1>6, <1>7, <1>8, <1>9, <1>10, <1>11, <1>12, <1>13 DEF Move

\* Reported revocations stay listed.
LEMMA ConfirmedListedStep ==
  ASSUME CertTypeOK, RowsOwn, HistoriesOwn, HandlersOwn, ActiveNotRevoked,
         ReportedIsRevoked, OneRevocation, CrlComplete, ConfirmedListed, Move PROVE ConfirmedListed'
<1>1. ASSUME NEW u \in User, DecideIdentity(u) PROVE ConfirmedListed'
  BY <1>1 DEF DecideIdentity, ConfirmedListed, RevokedRows
<1>2. ASSUME NEW w \in Worker, NEW u \in User, Starts(w, u) PROVE ConfirmedListed'
  BY <1>2 DEF Starts, ConfirmedListed, RevokedRows
<1>3. ASSUME NEW w \in Worker, NEW u \in User, BeginRevoke(w, u) PROVE ConfirmedListed'
  BY <1>3 DEF BeginRevoke, ConfirmedListed, RevokedRows
<1>4. ASSUME NEW w \in Worker, Abandons(w) PROVE ConfirmedListed'
  BY <1>4 DEF Abandons, ConfirmedListed, RevokedRows
<1>5. ASSUME NEW w \in Worker, Advances(w) PROVE ConfirmedListed'
  BY <1>5 DEF Advances, ConfirmedListed, RevokedRows
<1>6. ASSUME NEW w \in Worker, Signs(w) PROVE ConfirmedListed'
  <2>1. SignsEffect(w)
    BY <1>6, SignsStep
  <2>2. QED
    BY <2>1 DEF SignsEffect, ConfirmedListed, RevokedRows
<1>7. ASSUME NEW w \in Worker, SetsRow(w) PROVE ConfirmedListed'
  BY <1>7 DEF SetsRow, ConfirmedListed, RevokedRows
<1>8. ASSUME NEW w \in Worker, GenerateKey(w) PROVE ConfirmedListed'
  BY <1>8 DEF GenerateKey, ConfirmedListed, RevokedRows
<1>9. ASSUME NEW w \in Worker, Crash(w) PROVE ConfirmedListed'
  BY <1>9 DEF Crash, ConfirmedListed, RevokedRows
<1>10. ASSUME NEW w \in Worker, MarkRevoked(w) PROVE ConfirmedListed'
  <2> DEFINE u == loc[w].user
  <2>1. u \in User /\ cert[u].status # "none"
    BY <1>10 DEF MarkRevoked, CertTypeOK, HandlersOwn, Revoking
  <2>2. cert[u].status = "active" => cert[u].serial \notin confirmed
    BY <2>1 DEF RowsOwn, RowsOwnCertificates, ActiveNotRevoked, ReportedIsRevoked, Superseded
  <2>3. /\ cert'[u].serial = cert[u].serial
        /\ \A x \in User : x # u => cert'[x] = cert[x]
    BY <1>10, <2>1 DEF MarkRevoked, CertTypeOK, CertRow
  <2>4. ASSUME NEW s \in RevokedRows', s \in confirmed PROVE s \in RevokedRows
    <3>1. PICK x \in User : cert'[x].status = "revoked" /\ s = cert'[x].serial
      BY <2>4 DEF RevokedRows
    <3>2. CASE x = u
      <4>1. cert[u].status = "revoked"
        BY <2>1, <2>2, <2>3, <2>4, <3>1, <3>2 DEF CertTypeOK, CertRow
      <4>2. QED
        BY <2>1, <2>3, <3>1, <3>2, <4>1 DEF RevokedRows
    <3>3. CASE x # u
      BY <2>3, <3>1, <3>3 DEF RevokedRows
    <3>4. QED
      BY <3>2, <3>3
  <2>5. UNCHANGED <<crl, confirmed, disturbed>>
    BY <1>10 DEF MarkRevoked
  <2>6. QED
    BY <2>4, <2>5 DEF ConfirmedListed
<1>11. ASSUME NEW w \in Worker, QueryRevoked(w) PROVE ConfirmedListed'
  BY <1>11 DEF QueryRevoked, certVars, ConfirmedListed, RevokedRows
<1>12. ASSUME NEW w \in Worker, TruncateCrl(w) PROVE ConfirmedListed'
  BY <1>12 DEF TruncateCrl, ConfirmedListed
<1>13. ASSUME NEW w \in Worker, WriteCrl(w) PROVE ConfirmedListed'
  BY <1>13 DEF WriteCrl, CrlComplete, ConfirmedListed, RevokedRows
<1>14. QED
  BY <1>1, <1>2, <1>3, <1>4, <1>5, <1>6, <1>7, <1>8, <1>9, <1>10, <1>11, <1>12, <1>13 DEF Move

\* A step keeps the inductive invariant.
LEMMA InvStep == ASSUME IInv, [LifecycleNext]_lifecycleVars PROVE IInv'
<1>1. CASE LifecycleNext
  <2>1. Move
    BY <1>1, Moves
  <2>2. CertTypeOK' /\ RowsOwn' /\ HandlersOwn' /\ HistoriesOwn' /\ PendingFresh'
    BY <2>1, CertTypeOKStep, RowsOwnStep, HandlersOwnStep, HistoriesOwnStep, PendingFreshStep
       DEF IInv
  <2>3. KeyIsOwned' /\ ListedWasRevoked' /\ ActiveNotRevoked' /\ Underway' /\ ReportedIsRevoked'
    BY <2>1, KeyIsOwnedStep, ListedWasRevokedStep, ActiveNotRevokedStep, UnderwayStep,
       ReportedIsRevokedStep
       DEF IInv
  <2>4. OneRevocation' /\ CrlComplete' /\ ConfirmedListed'
    BY <2>1, OneRevocationStep, CrlCompleteStep, ConfirmedListedStep DEF IInv
  <2>5. QED
    BY <2>2, <2>3, <2>4 DEF IInv
<1>2. CASE UNCHANGED lifecycleVars
  <2>1. CertTypeOK' /\ RowsOwn' /\ HandlersOwn' /\ HistoriesOwn' /\ PendingFresh'
    BY <1>2 DEF lifecycleVars, IInv, CertTypeOK, RowsOwn, RowsOwnCertificates, HandlersOwn,
       HistoriesOwn, RevokedRows, PendingFresh, Serial
  <2>2. KeyIsOwned' /\ ListedWasRevoked' /\ ActiveNotRevoked' /\ Underway' /\ ReportedIsRevoked'
    BY <1>2 DEF lifecycleVars, IInv, KeyIsOwned, ListedWasRevoked, ActiveNotRevoked, Underway,
       ReportedIsRevoked, Superseded, Serial
  <2>3. OneRevocation' /\ CrlComplete' /\ ConfirmedListed'
    BY <1>2 DEF lifecycleVars, IInv, OneRevocation, CrlComplete, ConfirmedListed, RevokedRows
  <2>4. QED
    BY <2>1, <2>2, <2>3 DEF IInv
<1>3. QED
  BY <1>1, <1>2

\* The invariant holds at first, when there is no certificate at all.
LEMMA InvInit == LifecycleInit => IInv
<1> SUFFICES ASSUME LifecycleInit PROVE IInv
  OBVIOUS
<1>1. CertTypeOK
  <2>1. NoLocal \in Local
    BY DEF NoLocal, Local
  <2>2. [status |-> "none", serial |-> 0] \in CertRow
    BY DEF CertRow
  <2>3. crl \in CrlFile /\ owner \in Seq(User)
    BY DEF LifecycleInit, CrlFile
  <2>4. cert \in [User -> CertRow] /\ loc \in [Worker -> Local]
    BY <2>1, <2>2 DEF LifecycleInit
  <2>5. QED
    BY <2>3, <2>4 DEF LifecycleInit, CertTypeOK
<1>2. RevokedRows = {}
  BY DEF LifecycleInit, RevokedRows
<1>3. RowsOwn /\ HandlersOwn /\ HistoriesOwn /\ PendingFresh
  BY <1>2 DEF LifecycleInit, RowsOwn, RowsOwnCertificates, HandlersOwn, HistoriesOwn,
     PendingFresh, Pending, Revoking
<1>4. KeyIsOwned /\ ListedWasRevoked /\ ActiveNotRevoked /\ Underway /\ ReportedIsRevoked
  BY DEF LifecycleInit, KeyIsOwned, ListedWasRevoked, ActiveNotRevoked, Underway,
     ReportedIsRevoked, NoLocal
<1>5. OneRevocation /\ CrlComplete /\ ConfirmedListed
  BY <1>2 DEF LifecycleInit, OneRevocation, CrlComplete, ConfirmedListed, Revoking
<1>6. QED
  BY <1>1, <1>3, <1>4, <1>5 DEF IInv

\* The inductive invariant of the life of certificates.
THEOREM Invariance == LifecycleSpec => []IInv
BY InvInit, InvStep, PTL DEF LifecycleSpec

\* Every variable keeps its type (CertificateLifecycle's state).
THEOREM TypeCorrect == LifecycleSpec => []CertTypeOK
BY Invariance, PTL DEF IInv

\* Nobody's row ever holds the certificate of somebody else, however
\* enrolments and issuances overlap (accounts/services.py).
THEOREM OwnCertificates == LifecycleSpec => []RowsOwnCertificates
BY Invariance, PTL DEF IInv, RowsOwn

\* A SoftHSM key without a certificate is being certified, or its issuance died.
THEOREM KeysOwned == LifecycleSpec => []KeyIsOwned
BY Invariance, PTL DEF IInv

\* No CRL ever lists a certificate that was not revoked.
THEOREM OnlyRevokedListed == LifecycleSpec => []ListedWasRevoked
BY Invariance, PTL DEF IInv

\* A revoked certificate never becomes ACTIVE again.
THEOREM RevokedForGood == LifecycleSpec => []ActiveNotRevoked
BY Invariance, PTL DEF IInv

\* What an officer was told is revoked was revoked, or replaced before it could be.
THEOREM ReportsTrue == LifecycleSpec => []ReportedIsRevoked
BY Invariance, PTL DEF IInv

\* Without overlapping or dying revocations the CRL never misses a REVOKED row.
THEOREM CrlKept == LifecycleSpec => []CrlComplete
BY Invariance, PTL DEF IInv

-----------------------------------------------------------------------------
(***************************************************************************)
(* The life of certificates implements TrustedCertificates.                *)
(***************************************************************************)

\* No certificate is on its way into a row, or leaves it, when no handler does.
LEMMA PendingSame ==
  ASSUME \A x \in Worker : (pc'[x] \in Pending <=> pc[x] \in Pending)
                            /\ (pc[x] \in Pending => loc'[x].serial = loc[x].serial)
  PROVE  PendingSerials' = PendingSerials
BY DEF PendingSerials

\* A pending certificate has one handler: with it, it is no longer pending.
LEMMA PendingLess ==
  ASSUME PendingFresh, NEW w \in Worker, pc[w] \in Pending, pc'[w] \notin Pending,
         \A x \in Worker \ {w} : pc'[x] = pc[x] /\ loc'[x] = loc[x]
  PROVE  /\ loc[w].serial \in PendingSerials
         /\ PendingSerials' = PendingSerials \ {loc[w].serial}
BY DEF PendingSerials, PendingFresh

\* The rows of the users decide which certificates are trusted.
LEMMA ActiveSame == UNCHANGED cert => ActiveSerials' = ActiveSerials
BY DEF ActiveSerials

\* The certificates that the portal trusts were signed for the users of their rows.
LEMMA ActiveOwn ==
  ASSUME RowsOwn, NEW u \in User, cert[u].status = "active"
  PROVE  cert[u].serial \in Serial /\ owner[cert[u].serial] = u
BY DEF RowsOwn, RowsOwnCertificates

\* Handlers that have signed nothing change no certificate by going on.
LEMMA QuietMoves ==
  ASSUME CertTypeOK,
         \/ \E u \in User : DecideIdentity(u)
         \/ \E w \in Worker, u \in User : Starts(w, u) \/ BeginRevoke(w, u)
         \/ \E w \in Worker : Advances(w) \/ GenerateKey(w) \/ QueryRevoked(w)
  PROVE  UNCHANGED Trust!vars
<1> SUFFICES UNCHANGED <<cert, owner, revoked, confirmed, crl>> /\ PendingSerials' = PendingSerials
  BY ActiveSame DEF Trust!vars
<1> USE DEF Pending, CertTypeOK
<1>1. ASSUME NEW u \in User, DecideIdentity(u)
      PROVE  UNCHANGED <<cert, owner, revoked, confirmed, crl, pc, loc>>
  BY <1>1 DEF DecideIdentity
<1>2. ASSUME NEW w \in Worker, NEW u \in User, Starts(w, u) \/ BeginRevoke(w, u)
      PROVE  /\ UNCHANGED <<cert, owner, revoked, confirmed, crl>>
             /\ pc[w] \notin Pending /\ pc'[w] \notin Pending
             /\ \A x \in Worker \ {w} : pc'[x] = pc[x] /\ loc'[x] = loc[x]
  BY <1>2 DEF Starts, BeginRevoke
<1>3. ASSUME NEW w \in Worker, Advances(w) \/ GenerateKey(w) \/ QueryRevoked(w)
      PROVE  /\ UNCHANGED <<cert, owner, revoked, confirmed, crl>>
             /\ pc[w] \notin Pending /\ pc'[w] \notin Pending
             /\ \A x \in Worker \ {w} : pc'[x] = pc[x] /\ loc'[x] = loc[x]
  BY <1>3 DEF Advances, GenerateKey, QueryRevoked, Goto, certVars
<1> HIDE DEF Pending, CertTypeOK
<1>4. QED
  BY <1>1, <1>2, <1>3, PendingSame

\* A handler that dies or returns early gives its certificate up, if it has one.
LEMMA GivingUp ==
  ASSUME CertTypeOK, HandlersOwn, PendingFresh, NEW w \in Worker, Abandons(w) \/ Crash(w)
  PROVE  Trust!Next \/ UNCHANGED Trust!vars
<1>1. /\ UNCHANGED <<cert, owner, revoked, confirmed, crl>> /\ pc'[w] \notin Pending
      /\ \A x \in Worker \ {w} : pc'[x] = pc[x] /\ loc'[x] = loc[x]
  BY DEF Abandons, Crash, Return, CertTypeOK, Pending
<1>2. CASE pc[w] \in Pending
  <2>1. loc[w].serial \in DOMAIN owner
    BY <1>2 DEF HandlersOwn, Serial, CertTypeOK
  <2>2. Trust!GiveUp(loc[w].serial)
    BY <1>1, <1>2, PendingLess, ActiveSame DEF Trust!GiveUp
  <2>3. QED
    BY <2>1, <2>2 DEF Trust!Next
<1>3. CASE pc[w] \notin Pending
  BY <1>1, <1>3, PendingSame, ActiveSame DEF Trust!vars
<1>4. QED
  BY <1>2, <1>3

\* The lab CA signs one certificate at a time.
LEMMA Signing ==
  ASSUME CertTypeOK, NEW w \in Worker, Signs(w)
  PROVE  Trust!Next
<1>1. SignsEffect(w) /\ owner' = Append(owner, loc[w].user)
  BY SignsStep DEF Signs, LabCaSigns
<1>2. pc[w] \notin Pending /\ pc'[w] \in Pending /\ loc'[w].serial = Len(owner) + 1
  BY <1>1 DEF SignsEffect, Pending
<1>3. \A x \in Worker \ {w} : pc'[x] = pc[x] /\ loc'[x] = loc[x]
  BY <1>1 DEF SignsEffect
<1>4. PendingSerials' = PendingSerials \cup {Len(owner) + 1}
  BY <1>2, <1>3 DEF PendingSerials
<1>5. Trust!Sign(loc[w].user) /\ loc[w].user \in User
  BY <1>1, <1>4, ActiveSame DEF Trust!Sign, SignsEffect
<1>6. QED
  BY <1>5 DEF Trust!Next

\* A row that takes a certificate in gives up the one it held.
LEMMA Installing ==
  ASSUME CertTypeOK, RowsOwn, HandlersOwn, PendingFresh, NEW w \in Worker, SetsRow(w)
  PROVE  Trust!Next
<1> DEFINE u == loc[w].user
           c == loc[w].serial
<1>1. c \in DOMAIN owner /\ owner[c] = u
  BY DEF HandlersOwn, SetsRow, Serial, CertTypeOK
<1>2. u \in User
  BY DEF CertTypeOK, SetsRow, Pending
<1>3. /\ UNCHANGED <<owner, revoked, confirmed, crl>> /\ pc[w] \in Pending /\ pc'[w] \notin Pending
      /\ \A x \in Worker \ {w} : pc'[x] = pc[x] /\ loc'[x] = loc[x]
  BY DEF SetsRow, Return, CertTypeOK, Pending
<1>4. /\ cert'[u].status = "active" /\ cert'[u].serial = c
      /\ \A v \in User \ {u} : cert'[v] = cert[v]
  BY <1>2 DEF SetsRow, CertTypeOK
<1>5. ActiveSerials' = {d \in ActiveSerials : owner[d] # owner[c]} \cup {c}
  <2>1. \A d \in ActiveSerials' : d = c \/ (d \in ActiveSerials /\ owner[d] # owner[c])
    <3>1. ASSUME NEW v \in User, v # u, cert[v].status = "active"
          PROVE  cert[v].serial \in ActiveSerials /\ owner[cert[v].serial] # owner[c]
      BY <1>1, <3>1, ActiveOwn DEF ActiveSerials
    <3>2. QED
      BY <1>4, <3>1 DEF ActiveSerials
  <2>2. \A d \in ActiveSerials : owner[d] # owner[c] => d \in ActiveSerials'
    <3>1. ASSUME NEW v \in User, cert[v].status = "active", owner[cert[v].serial] # owner[c]
          PROVE  cert[v].serial \in ActiveSerials'
      <4>1. v # u
        BY <1>1, <3>1, ActiveOwn
      <4>2. cert'[v] = cert[v]
        BY <1>4, <4>1
      <4>3. QED
        BY <3>1, <4>2 DEF ActiveSerials
    <3>2. QED
      BY <3>1 DEF ActiveSerials
  <2>3. c \in ActiveSerials'
    BY <1>2, <1>4 DEF ActiveSerials
  <2>4. QED
    BY <2>1, <2>2, <2>3
<1>6. Trust!Install(c)
  BY <1>3, <1>5, PendingLess DEF Trust!Install
<1>7. QED
  BY <1>1, <1>6 DEF Trust!Next

\* The UPDATE of a revocation revokes the certificate that its row holds by now.
LEMMA MarkingRevoked ==
  ASSUME CertTypeOK, RowsOwn, HandlersOwn, HistoriesOwn, NEW w \in Worker, MarkRevoked(w)
  PROVE  Trust!Next \/ UNCHANGED Trust!vars
<1> DEFINE u == loc[w].user
           c == cert[u].serial
<1>1. u \in User /\ cert[u].status # "none"
  BY DEF CertTypeOK, MarkRevoked, HandlersOwn, Revoking
<1>2. /\ UNCHANGED <<owner, confirmed, crl>> /\ revoked' = revoked \cup {c}
      /\ PendingSerials' = PendingSerials
  <2>1. /\ UNCHANGED <<owner, confirmed, crl>> /\ revoked' = revoked \cup {c}
        /\ pc[w] \notin Pending /\ pc'[w] \notin Pending
        /\ \A x \in Worker \ {w} : pc'[x] = pc[x] /\ loc'[x] = loc[x]
    BY DEF MarkRevoked, Goto, CertTypeOK, Pending
  <2>2. QED
    BY <2>1, PendingSame
<1>3. /\ cert'[u].status = "revoked"
      /\ \A v \in User \ {u} : cert'[v] = cert[v]
  BY <1>1 DEF MarkRevoked, CertTypeOK, CertRow
<1>4. \A v \in User \ {u} : cert[v].status = "active" => cert[v].serial # c
  BY <1>1, ActiveOwn DEF RowsOwn, RowsOwnCertificates
<1>5. ActiveSerials' = ActiveSerials \ {c}
  <2>1. \A d \in ActiveSerials' : d \in ActiveSerials /\ d # c
    BY <1>3, <1>4 DEF ActiveSerials
  <2>2. \A d \in ActiveSerials : d # c => d \in ActiveSerials'
    BY <1>3 DEF ActiveSerials
  <2>3. QED
    BY <2>1, <2>2
<1>6. CASE cert[u].status = "active"
  <2>1. c \in ActiveSerials /\ c \in DOMAIN owner
    BY <1>1, <1>6, ActiveOwn DEF ActiveSerials, Serial, CertTypeOK
  <2>2. Trust!Revoke(c)
    BY <1>2, <1>5, <2>1 DEF Trust!Revoke
  <2>3. QED
    BY <2>1, <2>2 DEF Trust!Next
<1>7. CASE cert[u].status = "revoked"
  <2>1. c \in revoked
    BY <1>1, <1>7 DEF HistoriesOwn, RevokedRows
  <2>2. c \notin ActiveSerials
    BY <1>4, <1>7 DEF ActiveSerials
  <2>3. QED
    BY <1>2, <1>5, <2>1, <2>2 DEF Trust!vars
<1>8. QED
  BY <1>1, <1>6, <1>7 DEF CertTypeOK, CertRow

\* A CRL that is written lists revoked certificates, and the report that goes
\* with it names one that is trusted no more.
LEMMA Reporting ==
  ASSUME IInv, NEW w \in Worker, TruncateCrl(w) \/ WriteCrl(w)
  PROVE  Trust!Next
<1> USE DEF IInv
<1> DEFINE c == loc[w].serial
<1>1. /\ UNCHANGED <<cert, owner, revoked>> /\ pc[w] \in {"truncate", "write"} /\ pc'[w] \notin Pending
      /\ \A x \in Worker \ {w} : pc'[x] = pc[x] /\ loc'[x] = loc[x]
  BY DEF TruncateCrl, WriteCrl, Goto, Return, CertTypeOK, Pending
<1>2. PendingSerials' = PendingSerials /\ ActiveSerials' = ActiveSerials
  BY <1>1, PendingSame, ActiveSame DEF Pending
<1>3. CASE TruncateCrl(w)
  BY <1>1, <1>2, <1>3 DEF TruncateCrl, Trust!Withdraw, Trust!Next
<1>4. CASE WriteCrl(w)
  <2>1. c \in Serial /\ c \in DOMAIN owner
    BY <1>1 DEF HandlersOwn, Revoking, Serial, CertTypeOK
  <2>2. c \notin PendingSerials
    BY <1>1 DEF PendingFresh, PendingSerials, Revoking, Pending
  <2>3. ASSUME NEW u \in User, cert[u].status = "active" PROVE cert[u].serial # c
    <3>1. cert[u].serial \notin revoked /\ owner[cert[u].serial] = u
      BY <2>3, ActiveOwn DEF ActiveNotRevoked
    <3>2. c \in revoked \/ cert[owner[c]].serial # c
      BY <1>1 DEF Underway, Superseded
    <3>3. QED
      BY <3>1, <3>2
  <2>4. c \notin ActiveSerials
    BY <2>3 DEF ActiveSerials
  <2>5. crl'.listed \in SUBSET revoked /\ confirmed' = confirmed \cup {c}
    BY <1>4 DEF WriteCrl, ListedWasRevoked
  <2>6. Trust!Report(c)
    BY <1>1, <1>2, <2>1, <2>2, <2>4, <2>5 DEF Trust!Report
  <2>7. QED
    BY <2>1, <2>6 DEF Trust!Next
<1>5. QED
  BY <1>3, <1>4

\* Every step is a step of TrustedCertificates, or nothing that it sees.
LEMMA TrustStep == IInv /\ [LifecycleNext]_lifecycleVars => [Trust!Next]_Trust!vars
<1> SUFFICES ASSUME IInv, [LifecycleNext]_lifecycleVars PROVE Trust!Next \/ UNCHANGED Trust!vars
  OBVIOUS
<1> USE DEF IInv
<1>1. CASE UNCHANGED lifecycleVars
  BY <1>1 DEF lifecycleVars, Trust!vars, PendingSerials, ActiveSerials
<1>2. CASE Move
  BY <1>2, QuietMoves, GivingUp, Signing, Installing, MarkingRevoked, Reporting DEF Move
<1>3. QED
  BY <1>1, <1>2, Moves

\* Enrolment, issuance and revocation implement TrustedCertificates, for any
\* number of handlers, users and crashes: a certificate is trusted once, and once
\* it is given up, revoked or reported, it is never trusted again.
THEOREM TrustKept == LifecycleSpec => ImplementsTrust
<1>1. LifecycleInit => Trust!Init
  BY DEF LifecycleInit, Trust!Init, PendingSerials, ActiveSerials, Pending
<1>2. QED
  BY <1>1, TrustStep, Invariance, PTL DEF LifecycleSpec, ImplementsTrust, Trust!Spec

\* The inductive invariant of TrustedCertificates.
TrustInv ==
  /\ owner \in Seq(User)
  /\ PendingSerials \cup ActiveSerials \cup revoked \cup confirmed \subseteq DOMAIN owner
  /\ PendingSerials \cap ActiveSerials = {}
  /\ Trust!NeverAgain /\ Trust!OnePerHolder

\* It follows from what TrustedCertificates allows, whoever implements it.
LEMMA TrustInvStep == TrustInv /\ [Trust!Next]_Trust!vars => TrustInv'
<1> SUFFICES ASSUME TrustInv, [Trust!Next]_Trust!vars PROVE TrustInv'
  OBVIOUS
<1> USE DEF TrustInv, Trust!NeverAgain, Trust!OnePerHolder
<1>1. ASSUME NEW u \in User, Trust!Sign(u) PROVE TrustInv'
  <2>1. /\ owner' \in Seq(User) /\ Len(owner') = Len(owner) + 1
        /\ \A c \in DOMAIN owner : c \in DOMAIN owner' /\ owner'[c] = owner[c]
        /\ Len(owner) + 1 \in DOMAIN owner' /\ Len(owner) + 1 \notin DOMAIN owner
    BY <1>1, SerialGrows DEF Trust!Sign
  <2>2. QED
    BY <1>1, <2>1 DEF Trust!Sign
<1>2. ASSUME NEW c \in DOMAIN owner, Trust!Install(c) PROVE TrustInv'
  BY <1>2 DEF Trust!Install
<1>3. ASSUME NEW c \in DOMAIN owner, Trust!GiveUp(c) \/ Trust!Revoke(c) \/ Trust!Report(c)
      PROVE  TrustInv'
  BY <1>3 DEF Trust!GiveUp, Trust!Revoke, Trust!Report
<1>4. CASE Trust!Withdraw \/ UNCHANGED Trust!vars
  BY <1>4 DEF Trust!Withdraw, Trust!vars
<1>5. QED
  BY <1>1, <1>2, <1>3, <1>4 DEF Trust!Next

\* So no certificate of the portal is trusted again after it was revoked, or
\* after its revocation was reported to an officer, and no user has two.
THEOREM NeverTrustedAgain == LifecycleSpec => [](Trust!NeverAgain /\ Trust!OnePerHolder)
<1>1. Trust!Init => TrustInv
  BY DEF Trust!Init, TrustInv, Trust!NeverAgain, Trust!OnePerHolder
<1>2. TrustInv => Trust!NeverAgain /\ Trust!OnePerHolder
  BY DEF TrustInv
<1>3. QED
  BY <1>1, <1>2, TrustInvStep, TrustKept, PTL DEF ImplementsTrust, Trust!Spec
=============================================================================
