------------------------- MODULE RemoteSigningProofs -------------------------
(***************************************************************************)
(* Proofs about RemoteSigning for any number of workers, requests,         *)
(* documents and users.                                                    *)
(***************************************************************************)
EXTENDS RemoteSigning, TLAPS

\* Every variable starts with a value of its type.
LEMMA TypeInit == Init => Typed
<1> SUFFICES ASSUME Init PROVE Typed
  OBVIOUS
<1>1. req \in [Request -> RequestRow]
  BY DEF Init, RequestRow, NoRow
<1>2. record \in [Request -> RecordRow]
  BY DEF Init, RecordRow, NoRecord, Pdf
<1>3. doc \in [Document -> DocumentRow]
  BY DEF Init, DocumentRow, Pdf, Path
<1>4. files \in [Document -> [Path -> Pdf]]
  BY DEF Init, Pdf
<1>5. user \in [User -> UserRow]
  <2>1. NewUser \in UserRow /\ ReadyUser \in UserRow
    BY DEF UserRow, NewUser, ReadyUser
  <2>2. QED
    BY <2>1 DEF Init
<1>6. pc \in [Worker -> PC] /\ loc \in [Worker -> Local]
  BY DEF Init, PC, Local, NoLocal, Pdf, Path
<1>7. QED
  BY <1>1, <1>2, <1>3, <1>4, <1>5, <1>6 DEF Typed, Init

\* The three views that begin to create a request.
LEMMA BeginCreateStep ==
  ASSUME NEW w \in Worker, Begin(w), ~\E r \in Request, b \in BOOLEAN : LoadRequest(w, r, b)
  PROVE  \E d \in Document, u \in User, k \in {"citizen", "officer", "authority"} :
           BeginCreate(w, d, k, u)
<1> USE Constants DEF User
<1>1. CASE \E d \in Document : BeginCitizenRequest(w, d)
  BY <1>1 DEF BeginCitizenRequest
<1>2. CASE \E d \in Document, o \in Officer : BeginOfficerRequest(w, d, o)
  BY <1>2 DEF BeginOfficerRequest
<1>3. CASE \E d \in Document, o \in Officer : BeginAuthorityRequest(w, d, o)
  BY <1>3 DEF BeginAuthorityRequest
<1>4. QED
  BY <1>1, <1>2, <1>3 DEF Begin

\* An input of the signing service is a PDF.
LEMMA InputPathType ==
  ASSUME NEW cu \in Path \cup {None}, NEW fi \in {Final, None}
  PROVE  InputPath(cu, fi) \in Path
BY DEF InputPath, Path

\* The output of the PAdES step is the file of the request or the final file.
LEMMA OutputPathType ==
  ASSUME NEW r \in Request
  PROVE  OutputPath(r) \in Path
BY DEF OutputPath, Path

\* The local state of an idle handler, and the row that is not there.
LEMMA NoLocalType == NoLocal \in Local
BY DEF Local, NoLocal, Pdf

\* A row that is not there has the type of rows.
LEMMA NoRowType == NoRow \in RequestRow
BY DEF NoRow, RequestRow

\* The fields that a handler assigns in its local state keep it well typed.
LEMMA LocalTypes ==
  ASSUME NEW l \in Local
  PROVE  /\ \A p \in Pdf : /\ [l EXCEPT !.pdf = p] \in Local
                            /\ [l EXCEPT !.hash = p] \in Local
                            /\ [l EXCEPT !.finalHash = p] \in Local
         /\ \A u \in User : [l EXCEPT !.signer = u] \in Local
         /\ \A n \in Nat, b \in BOOLEAN : [l EXCEPT !.serial = n, !.keyRef = b] \in Local
         /\ \A d \in Document, k \in {"none", "citizen", "officer", "authority"}, u \in User :
              [l EXCEPT !.doc = d, !.kind = k, !.signer = u] \in Local
<1>1. \A p \in Pdf : /\ [l EXCEPT !.pdf = p] \in Local
                      /\ [l EXCEPT !.hash = p] \in Local
                      /\ [l EXCEPT !.finalHash = p] \in Local
  BY DEF Local
<1>2. \A u \in User : [l EXCEPT !.signer = u] \in Local
  BY DEF Local
<1>3. \A n \in Nat, b \in BOOLEAN : [l EXCEPT !.serial = n, !.keyRef = b] \in Local
  BY DEF Local
<1>4. \A d \in Document, k \in {"none", "citizen", "officer", "authority"}, u \in User :
        [l EXCEPT !.doc = d, !.kind = k, !.signer = u] \in Local
  BY DEF Local
<1>5. QED
  BY <1>1, <1>2, <1>3, <1>4

\* The row and the document that a handler loads make a well-typed local state.
LEMMA LoadedType ==
  ASSUME NEW l \in Local, NEW r \in Request, NEW d \in Document, NEW b \in BOOLEAN,
         NEW cu \in Path \cup {None}, NEW fi \in {Final, None}
  PROVE  [l EXCEPT !.request = r, !.doc = d, !.read = b, !.current = cu, !.final = fi] \in Local
BY DEF Local

\* So do the document and the bytes that it reads before it signs.
LEMMA ReadType ==
  ASSUME NEW l \in Local, NEW p \in Pdf,
         NEW cu \in Path \cup {None}, NEW fi \in {Final, None}
  PROVE  [l EXCEPT !.read = TRUE, !.current = cu, !.final = fi, !.pdf = p] \in Local
BY DEF Local

\* The assignments to a document's row keep it well typed.
LEMMA DocumentTypes ==
  ASSUME NEW x \in DocumentRow
  PROVE  /\ \A s \in {"UPLOADED", "PENDING_SIGN", "SIGNED"} : [x EXCEPT !.status = s] \in DocumentRow
         /\ \A p \in Path, h \in Pdf : [x EXCEPT !.current = p, !.currentHash = h] \in DocumentRow
         /\ \A h \in Pdf : [x EXCEPT !.final = Final, !.finalHash = h] \in DocumentRow
BY DEF DocumentRow

\* The assignments to a request's row keep it well typed.
LEMMA RequestTypes ==
  ASSUME NEW x \in RequestRow
  PROVE  /\ [x EXCEPT !.status = "SIGNED", !.used = TRUE] \in RequestRow
         /\ [x EXCEPT !.expired = TRUE] \in RequestRow
         /\ \A d \in Document, u \in User, p \in Purpose : NewRow(d, u, p) \in RequestRow
BY DEF RequestRow, NewRow, NoRow

\* The assignments to a certificate's row keep it well typed.
LEMMA UserTypes ==
  ASSUME NEW x \in UserRow
  PROVE  /\ \A b \in BOOLEAN : [x EXCEPT !.verified = b] \in UserRow
         /\ \A c \in {"none", "active", "lapsed", "revoked"} : [x EXCEPT !.cert = c] \in UserRow
         /\ \A n \in Nat, k \in BOOLEAN :
              [x EXCEPT !.cert = "active", !.serial = n, !.keyRef = k] \in UserRow
BY DEF UserRow

\* The positions of a handler.
LEMMA PCTypes ==
  /\ "idle" \in PC /\ "create" \in PC /\ "mark" \in PC
  /\ "loaded" \in PC /\ "fresh" \in PC /\ "certified" \in PC /\ "input" \in PC
  /\ "tspDone" \in PC /\ "recorded" \in PC /\ "stamped" \in PC /\ "docSaved" \in PC
  /\ "sealed" \in PC /\ "padesRead" \in PC /\ "padesWritten" \in PC
  /\ "padesHashed" \in PC /\ "finalHashed" \in PC /\ "approval" \in PC /\ "approvalCreate" \in PC
BY DEF PC, Signing, Creating, BeforeRecord, BeforeSeal, AfterSeal

\* What HandlersAgree says of one handler.
LEMMA SigningHandler ==
  ASSUME Typed, RowsComplete, HandlersAgree, NEW w \in Worker, pc[w] \in Signing
  PROVE  /\ loc[w] \in Local
         /\ loc[w].request \in Request
         /\ loc[w].doc = req[loc[w].request].doc
         /\ loc[w].doc \in Document
         /\ req[loc[w].request].signer \in User
<1>1. loc[w] \in Local
  BY DEF Typed
<1>2. /\ loc[w].request \in Request
      /\ req[loc[w].request].status # "NONE"
      /\ loc[w].doc = req[loc[w].request].doc
  BY DEF HandlersAgree
<1>3. QED
  BY <1>1, <1>2 DEF RowsComplete

\* What HandlersAgree says of a handler that is about to create a request.
LEMMA CreatingHandler ==
  ASSUME Typed, HandlersAgree, NEW w \in Worker, pc[w] \in Creating \cup {"approvalCreate"}
  PROVE  loc[w].doc \in Document /\ loc[w].signer \in User
BY DEF HandlersAgree

\* Types survive a view that begins.
LEMMA BeginTypes ==
  ASSUME Typed, RowsComplete, HandlersAgree, NEW w \in Worker, Begin(w)
  PROVE  Typed'
<1>1. ASSUME NEW d \in Document, NEW u \in User,
             NEW k \in {"citizen", "officer", "authority"},
             BeginCreate(w, d, k, u)
      PROVE  Typed'
  <2>1. [NoLocal EXCEPT !.doc = d, !.kind = k, !.signer = u] \in Local
    BY LocalTypes, NoLocalType
  <2>2. QED
    BY <1>1, <2>1, PCTypes DEF BeginCreate, Goto, dbVars, envVars, Typed
<1>2. ASSUME NEW r \in Request, NEW b \in BOOLEAN, LoadRequest(w, r, b)
      PROVE  Typed'
  <2>1. req[r].doc \in Document
    BY <1>2 DEF LoadRequest, RowsComplete
  <2>2. doc[req[r].doc].current \in Path \cup {None} /\ doc[req[r].doc].final \in {Final, None}
    <3>1. doc[req[r].doc] \in DocumentRow
      BY <2>1 DEF Typed
    <3>2. QED
      BY <3>1 DEF DocumentRow
  <2>3. [NoLocal EXCEPT !.request = r, !.doc = req[r].doc, !.read = b,
                        !.current = IF b THEN doc[req[r].doc].current ELSE None,
                        !.final = IF b THEN doc[req[r].doc].final ELSE None] \in Local
    <3> DEFINE cu == IF b THEN doc[req[r].doc].current ELSE None
               fi == IF b THEN doc[req[r].doc].final ELSE None
    <3>1. cu \in Path \cup {None} /\ fi \in {Final, None}
      BY <2>2
    <3> HIDE DEF cu, fi
    <3>2. [NoLocal EXCEPT !.request = r, !.doc = req[r].doc, !.read = b,
                          !.current = cu, !.final = fi] \in Local
      BY <2>1, <3>1, NoLocalType, LoadedType
    <3>3. QED
      BY <3>2 DEF cu, fi
  <2>4. QED
    BY <1>2, <2>3, PCTypes DEF LoadRequest, Goto, dbVars, envVars, Typed
<1>3. QED
  BY <1>1, <1>2, BeginCreateStep

\* Types survive the writes of a view that creates a request.
LEMMA CreateTypes ==
  ASSUME Typed, RowsComplete, HandlersAgree, NEW w \in Worker, Create(w)
  PROVE  Typed'
<1>1. ASSUME NEW r \in Request, CreateRequest(w, r) PROVE Typed'
  <2>1. loc[w].doc \in Document /\ loc[w].signer \in User
    BY <1>1, CreatingHandler DEF CreateRequest, Creating
  <2>2. \A pu \in Purpose : NewRow(loc[w].doc, loc[w].signer, pu) \in RequestRow
    BY <2>1, RequestTypes, NoRowType
  <2>3. req' \in [Request -> RequestRow]
    BY <1>1, <2>2 DEF CreateRequest, Typed, Purpose
  <2>4. QED
    BY <1>1, <2>3, PCTypes, NoLocalType DEF CreateRequest, Return, envVars, Typed
<1>2. CASE MarkPendingSign(w)
  <2>1. doc' \in [Document -> DocumentRow]
    BY <1>2, DocumentTypes DEF MarkPendingSign, Typed
  <2>2. QED
    BY <1>2, <2>1, PCTypes, NoLocalType DEF MarkPendingSign, Return, envVars, Typed
<1>3. QED
  BY <1>1, <1>2 DEF Create

\* Types survive the steps of the signing service.
LEMMA SignTypes ==
  ASSUME Typed, RowsComplete, HandlersAgree, NEW w \in Worker, Sign(w)
  PROVE  Typed'
<1> USE PCTypes, NoLocalType DEF Goto, Return, dbVars, envVars
<1>1. CASE CheckNoRecord(w)
  BY <1>1 DEF CheckNoRecord, Typed
<1>2. CASE ReadCertificate(w)
  <2> DEFINE u == user[req[loc[w].request].signer]
  <2>1. u \in UserRow /\ loc[w] \in Local
    BY <1>2, SigningHandler DEF ReadCertificate, Typed, Signing, BeforeRecord
  <2>2. [loc[w] EXCEPT !.serial = u.serial, !.keyRef = u.keyRef] \in Local
    BY <2>1 DEF UserRow, Local
  <2>3. QED
    BY <1>2, <2>2 DEF ReadCertificate, Typed
<1>3. CASE ReadInput(w)
  <2> DEFINE l == loc[w]
             cu == IF l.read THEN l.current ELSE doc[l.doc].current
             fi == IF l.read THEN l.final ELSE doc[l.doc].final
  <2>1. l \in Local /\ l.doc \in Document
    BY <1>3, SigningHandler DEF ReadInput, Signing, BeforeRecord
  <2>2. cu \in Path \cup {None} /\ fi \in {Final, None}
    BY <2>1 DEF Typed, DocumentRow, Local
  <2>3. files[l.doc][InputPath(cu, fi)] \in Pdf
    BY <2>1, <2>2, InputPathType DEF Typed
  <2>4. [l EXCEPT !.read = TRUE, !.current = cu, !.final = fi,
                  !.pdf = files[l.doc][InputPath(cu, fi)]] \in Local
    <3> DEFINE p == files[l.doc][InputPath(cu, fi)]
    <3> HIDE DEF l, cu, fi, p
    <3> QED
      BY <2>1, <2>2, <2>3, ReadType DEF p
  <2>5. QED
    BY <1>3, <2>4 DEF ReadInput, Typed
<1>4. CASE CallTsp(w)
  BY <1>4 DEF CallTsp, Typed
<1>5. CASE CreateRecord(w)
  <2>1. [exists |-> TRUE, serial |-> loc[w].serial, input |-> loc[w].pdf,
         stamped |-> FALSE] \in RecordRow
    BY DEF Typed, Local, RecordRow
  <2>2. QED
    BY <1>5, <2>1 DEF CreateRecord, Typed
<1>6. CASE SaveTimestamp(w)
  <2>1. record' \in [Request -> RecordRow]
    BY <1>6 DEF SaveTimestamp, Typed, RecordRow
  <2>2. QED
    BY <1>6, <2>1 DEF SaveTimestamp, Typed
<1>7. CASE SaveDocumentStatus(w)
  <2>1. doc' \in [Document -> DocumentRow]
    BY <1>7, DocumentTypes DEF SaveDocumentStatus, Typed
  <2>2. QED
    BY <1>7, <2>1 DEF SaveDocumentStatus, Typed
<1>8. CASE SealRequest(w)
  <2>1. req' \in [Request -> RequestRow]
    BY <1>8, RequestTypes DEF SealRequest, Typed
  <2>2. QED
    BY <1>8, <2>1 DEF SealRequest, Typed
<1>9. CASE ReadPadesInput(w)
  <2> DEFINE p == IF loc[w].current # None THEN loc[w].current ELSE Original
  <2>1. loc[w] \in Local /\ loc[w].doc \in Document
    BY <1>9, SigningHandler DEF ReadPadesInput, Signing, AfterSeal
  <2>2. p \in Path
    BY <2>1 DEF Local, Path
  <2>3. files[loc[w].doc][p] \in Pdf
    BY <2>1, <2>2 DEF Typed
  <2>4. [loc[w] EXCEPT !.pdf = files[loc[w].doc][p]] \in Local
    BY <2>1, <2>3, LocalTypes
  <2>5. QED
    BY <1>9, <2>4 DEF ReadPadesInput, Typed
<1>10. CASE WritePades(w)
  <2>1. loc[w] \in Local /\ loc[w].doc \in Document /\ loc[w].request \in Request
    BY <1>10, SigningHandler DEF WritePades, Signing, AfterSeal
  <2>2. Append(loc[w].pdf, loc[w].request) \in Pdf
    BY <2>1 DEF Local, Pdf
  <2>3. files' \in [Document -> [Path -> Pdf]]
    BY <1>10, <2>2 DEF WritePades, Typed
  <2>4. QED
    BY <1>10, <2>3 DEF WritePades, Typed
<1>11. CASE HashPades(w)
  <2>1. loc[w] \in Local /\ loc[w].doc \in Document /\ loc[w].request \in Request
    BY <1>11, SigningHandler DEF HashPades, Signing, AfterSeal
  <2>2. files[loc[w].doc][OutputPath(loc[w].request)] \in Pdf
    BY <2>1, OutputPathType DEF Typed
  <2>3. QED
    BY <1>11, <2>1, <2>2, LocalTypes DEF HashPades, Typed
<1>16. CASE HashFinal(w)
  <2>1. loc[w] \in Local /\ loc[w].doc \in Document
    BY <1>16, SigningHandler DEF HashFinal, Signing, AfterSeal
  <2>2. files[loc[w].doc][Final] \in Pdf
    BY <2>1 DEF Typed, Path
  <2>3. [loc[w] EXCEPT !.finalHash = files[loc[w].doc][Final]] \in Local
    BY <2>1, <2>2, LocalTypes
  <2>4. QED
    BY <1>16, <2>3 DEF HashFinal, Typed
<1>12. CASE SavePades(w)
  <2> DEFINE l == loc[w]
             r == l.request
             row == [doc[l.doc] EXCEPT !.current = OutputPath(r), !.currentHash = l.hash]
  <2>1. l \in Local /\ l.doc \in Document /\ r \in Request
    BY <1>12, SigningHandler DEF SavePades, Signing, AfterSeal
  <2>2. doc[l.doc] \in DocumentRow /\ l.hash \in Pdf /\ l.finalHash \in Pdf /\ OutputPath(r) \in Path
    BY <2>1, OutputPathType DEF Typed, Local
  <2>3. row \in DocumentRow /\ [row EXCEPT !.final = Final, !.finalHash = l.finalHash] \in DocumentRow
    BY <2>2 DEF DocumentRow
  <2>4. doc' \in [Document -> DocumentRow]
    BY <1>12, <2>3 DEF SavePades, Typed
  <2>5. QED
    BY <1>12, <2>4 DEF SavePades, Typed
<1>13. CASE LookupApproval(w)
  <2>1. loc[w] \in Local /\ AvailableOfficers \subseteq User
    BY DEF Typed, AvailableOfficers, User
  <2>2. \A o \in AvailableOfficers : [loc[w] EXCEPT !.signer = o] \in Local
    BY <2>1, LocalTypes
  <2>3. QED
    BY <1>13, <2>2 DEF LookupApproval, Typed
<1>14. ASSUME NEW r \in Request, CreateApproval(w, r) PROVE Typed'
  <2>1. loc[w].doc \in Document /\ loc[w].signer \in User
    BY <1>14, CreatingHandler DEF CreateApproval
  <2>2. NewRow(loc[w].doc, loc[w].signer, "OFFICER_APPROVAL") \in RequestRow
    BY <2>1 DEF NewRow, NoRow, RequestRow, Purpose
  <2>3. QED
    BY <1>14, <2>2 DEF CreateApproval, Typed
<1>15. QED
  BY <1>1, <1>2, <1>3, <1>4, <1>5, <1>6, <1>7, <1>8, <1>9, <1>10, <1>11, <1>16, <1>12,
     <1>13, <1>14 DEF Sign

\* Types survive the environment.
LEMMA EnvironmentTypes ==
  ASSUME Typed, RowsComplete, HandlersAgree, Environment
  PROVE  Typed'
<1>1. ASSUME NEW r \in Request, Expire(r) PROVE Typed'
  <2>1. req' \in [Request -> RequestRow]
    BY <1>1, RequestTypes DEF Expire, Typed
  <2>2. QED
    BY <1>1, <2>1 DEF Expire, Typed
<1>2. ASSUME NEW u \in User, NEW row \in UserRow, SetUser(u, row) PROVE Typed'
  BY <1>2 DEF SetUser, Typed
<1>3. ASSUME NEW w \in Worker, Crash(w) PROVE Typed'
  <2>1. lost' \in SUBSET Request
    BY <1>3, SigningHandler DEF Crash, Typed, Signing
  <2>2. QED
    BY <1>3, <2>1, PCTypes, NoLocalType DEF Crash, Return, dbVars, Typed
<1>4. ASSUME NEW u \in User, Verify(u) \/ Reject(u) \/ Revoke(u) \/ Lapse(u)
      PROVE  Typed'
  <2>1. PICK row \in UserRow : SetUser(u, row)
    BY <1>4 DEF Verify, Reject, Revoke, Lapse, Typed, UserRow
  <2>2. QED
    BY <1>2, <2>1
<1>5. ASSUME NEW u \in User, NEW k \in BOOLEAN, Enrol(u, k) PROVE Typed'
  <2>1. [user[u] EXCEPT !.cert = "active", !.serial = @ + 1, !.keyRef = k] \in UserRow
    <3>1. user[u] \in UserRow /\ user[u].serial + 1 \in Nat
      BY DEF Typed, UserRow
    <3>2. QED
      BY <3>1, UserTypes
  <2>2. QED
    BY <1>2, <1>5, <2>1 DEF Enrol
<1>6. QED
  BY <1>1, <1>3, <1>4, <1>5 DEF Environment

\* Types survive every step, with what HandlersAgree says of the handlers.
LEMMA TypeStep == Typed /\ RowsComplete /\ HandlersAgree /\ [Next]_vars => Typed'
<1>1. Typed /\ UNCHANGED vars => Typed'
  BY DEF vars, Typed
<1>2. QED
  BY <1>1, BeginTypes, CreateTypes, SignTypes, EnvironmentTypes DEF Next

-----------------------------------------------------------------------------
(***************************************************************************)
(* Who writes what.  Of the steps of the portal only six touch the tables  *)
(* of requests and records, and a handler moves nobody but itself.         *)
(***************************************************************************)

\* A handler inserts the row of a request.
InsertsRequest(w, r) ==
  /\ pc[w] \in {"create", "approvalCreate"}
  /\ req[r].status = "NONE"
  /\ \E pu \in Purpose : req' = [req EXCEPT ![r] = NewRow(loc[w].doc, loc[w].signer, pu)]
  /\ UNCHANGED <<record, lost>>

\* Every step of a handler is one of the writers or leaves the tables alone.
LEMMA HandlerWrites ==
  ASSUME NEW w \in Worker, Begin(w) \/ Create(w) \/ Sign(w)
  PROVE  \/ UNCHANGED <<req, record, lost>>
         \/ \E r \in Request : InsertsRequest(w, r)
         \/ CreateRecord(w) \/ SaveTimestamp(w) \/ SealRequest(w)
<1> USE DEF dbVars, envVars
<1>1. CASE Begin(w)
  BY <1>1 DEF Begin, BeginCitizenRequest, BeginOfficerRequest, BeginAuthorityRequest,
              BeginCreate, LoadRequest
<1>2. ASSUME NEW r \in Request, CreateRequest(w, r) PROVE InsertsRequest(w, r)
  BY <1>2 DEF CreateRequest, InsertsRequest, Purpose
<1>3. ASSUME NEW r \in Request, CreateApproval(w, r) PROVE InsertsRequest(w, r)
  BY <1>3 DEF CreateApproval, InsertsRequest, Purpose
<1>4. CASE MarkPendingSign(w)
  BY <1>4 DEF MarkPendingSign
<1>5. CASE CheckNoRecord(w) \/ ReadCertificate(w) \/ ReadInput(w) \/ CallTsp(w)
  BY <1>5 DEF CheckNoRecord, ReadCertificate, ReadInput, CallTsp
<1>6. CASE SaveDocumentStatus(w) \/ ReadPadesInput(w) \/ WritePades(w) \/ HashPades(w) \/ HashFinal(w)
  BY <1>6 DEF SaveDocumentStatus, ReadPadesInput, WritePades, HashPades, HashFinal
<1>7. CASE SavePades(w) \/ LookupApproval(w)
  BY <1>7 DEF SavePades, LookupApproval
<1>8. QED
  BY <1>1, <1>2, <1>3, <1>4, <1>5, <1>6, <1>7 DEF Create, Sign

\* The environment writes a request's row only when it expires.
LEMMA EnvironmentWrites ==
  ASSUME Environment
  PROVE  \/ UNCHANGED <<req, record, lost, pc, loc>>
         \/ \E r \in Request : Expire(r)
         \/ \E w \in Worker : Crash(w)
BY DEF Environment, Verify, Reject, Revoke, Lapse, Enrol, SetUser

\* Three statements write the table of documents, one writes files.
LEMMA DocumentWrites ==
  ASSUME [Next]_vars
  PROVE  /\ UNCHANGED doc \/ \E w \in Worker :
                               SaveDocumentStatus(w) \/ SavePades(w) \/ MarkPendingSign(w)
         /\ UNCHANGED files \/ \E w \in Worker : WritePades(w)
<1> USE DEF dbVars, envVars
<1>1. CASE UNCHANGED vars
  BY <1>1 DEF vars
<1>2. ASSUME NEW w \in Worker, Begin(w) PROVE UNCHANGED <<doc, files>>
  BY <1>2 DEF Begin, BeginCitizenRequest, BeginOfficerRequest, BeginAuthorityRequest,
              BeginCreate, LoadRequest
<1>3. ASSUME NEW w \in Worker, Create(w), ~MarkPendingSign(w) PROVE UNCHANGED <<doc, files>>
  BY <1>3 DEF Create, CreateRequest
<1>4. ASSUME NEW w \in Worker, Sign(w) PROVE \/ UNCHANGED <<doc, files>>
                                             \/ SaveDocumentStatus(w) /\ UNCHANGED files
                                             \/ SavePades(w) /\ UNCHANGED files
                                             \/ WritePades(w) /\ UNCHANGED doc
  BY <1>4 DEF Sign, CheckNoRecord, ReadCertificate, ReadInput, CallTsp, CreateRecord,
              SaveTimestamp, SaveDocumentStatus, SealRequest, ReadPadesInput, WritePades,
              HashPades, HashFinal, SavePades, LookupApproval, CreateApproval
<1>5. ASSUME NEW w \in Worker, MarkPendingSign(w) PROVE UNCHANGED files
  BY <1>5 DEF MarkPendingSign
<1>6. CASE Environment
  BY <1>6 DEF Environment, Expire, Verify, Reject, Revoke, Lapse, Enrol, SetUser, Crash
<1>7. QED
  BY <1>1, <1>2, <1>3, <1>4, <1>5, <1>6 DEF Next

\* A handler's step leaves the position and the local state of the others alone.
LEMMA OthersStay ==
  ASSUME Typed, NEW w \in Worker, Begin(w) \/ Create(w) \/ Sign(w) \/ Crash(w),
         NEW v \in Worker, v # w
  PROVE  pc'[v] = pc[v] /\ loc'[v] = loc[v]
<1> USE DEF Typed, Goto, Return
<1>1. CASE Begin(w)
  BY <1>1 DEF Begin, BeginCitizenRequest, BeginOfficerRequest, BeginAuthorityRequest,
              BeginCreate, LoadRequest
<1>2. CASE Create(w)
  BY <1>2 DEF Create, CreateRequest, MarkPendingSign
<1>3. CASE CheckNoRecord(w) \/ ReadCertificate(w) \/ ReadInput(w) \/ CallTsp(w) \/ CreateRecord(w)
  BY <1>3 DEF CheckNoRecord, ReadCertificate, ReadInput, CallTsp, CreateRecord
<1>4. CASE SaveTimestamp(w) \/ SaveDocumentStatus(w) \/ SealRequest(w)
  BY <1>4 DEF SaveTimestamp, SaveDocumentStatus, SealRequest
<1>5. CASE ReadPadesInput(w) \/ WritePades(w) \/ HashPades(w) \/ HashFinal(w) \/ SavePades(w)
  BY <1>5 DEF ReadPadesInput, WritePades, HashPades, HashFinal, SavePades
<1>6. CASE LookupApproval(w) \/ \E r \in Request : CreateApproval(w, r)
  BY <1>6 DEF LookupApproval, CreateApproval
<1>7. CASE Crash(w)
  BY <1>7 DEF Crash
<1>8. QED
  BY <1>1, <1>2, <1>3, <1>4, <1>5, <1>6, <1>7 DEF Sign

\* A step is of the environment, or of one handler while the others stay.
LEMMA OneMoves ==
  ASSUME Typed, [Next]_vars
  PROVE  \/ UNCHANGED <<pc, loc>>
         \/ \E w \in Worker : /\ Begin(w) \/ Create(w) \/ Sign(w) \/ Crash(w)
                              /\ \A v \in Worker \ {w} : pc'[v] = pc[v] /\ loc'[v] = loc[v]
<1>1. CASE UNCHANGED vars
  BY <1>1 DEF vars
<1>2. ASSUME NEW w \in Worker, Begin(w) \/ Create(w) \/ Sign(w) \/ Crash(w)
      PROVE  \A v \in Worker \ {w} : pc'[v] = pc[v] /\ loc'[v] = loc[v]
  BY <1>2, OthersStay
<1>3. CASE Environment
  BY <1>2, <1>3 DEF Environment, Expire, Verify, Reject, Revoke, Lapse, Enrol, SetUser
<1>4. QED
  BY <1>1, <1>2, <1>3 DEF Next

\* The rows only grow: a request keeps what it was created with, SIGNED stays,
\* a record stays, and so does its timestamp.
Keeps ==
  \A r \in Request :
    /\ req[r].status # "NONE" => /\ req'[r].status # "NONE"
                                 /\ req'[r].doc = req[r].doc
                                 /\ req'[r].signer = req[r].signer
                                 /\ req'[r].purpose = req[r].purpose
    /\ req[r].status = "SIGNED" => req'[r].status = "SIGNED"
    /\ record[r].exists => record'[r].exists
    /\ record[r].exists /\ record[r].stamped => record'[r].stamped

\* No step of the portal takes back what a table says.
LEMMA KeepsStep ==
  ASSUME Typed, RowsComplete, HandlersAgree, [Next]_vars
  PROVE  Keeps
<1>1. ASSUME UNCHANGED <<req, record>> PROVE Keeps
  BY <1>1 DEF Keeps
<1>2. ASSUME NEW w \in Worker, NEW r \in Request, InsertsRequest(w, r) PROVE Keeps
  BY <1>2 DEF InsertsRequest, Keeps, Typed, RequestRow
<1>3. ASSUME NEW w \in Worker, CreateRecord(w) PROVE Keeps
  BY <1>3 DEF CreateRecord, Keeps, Typed, RecordRow
<1>4. ASSUME NEW w \in Worker, SaveTimestamp(w) PROVE Keeps
  BY <1>4 DEF SaveTimestamp, Keeps, Typed, RecordRow
<1>5. ASSUME NEW w \in Worker, SealRequest(w) PROVE Keeps
  BY <1>5 DEF SealRequest, Keeps, Typed, RequestRow
<1>6. ASSUME NEW r \in Request, Expire(r) PROVE Keeps
  BY <1>6 DEF Expire, Keeps, Typed, RequestRow
<1>7. ASSUME NEW w \in Worker, Crash(w) PROVE Keeps
  BY <1>1, <1>7 DEF Crash, dbVars
<1>8. CASE UNCHANGED vars
  BY <1>1, <1>8 DEF vars
<1>9. ASSUME NEW w \in Worker, Begin(w) \/ Create(w) \/ Sign(w) PROVE Keeps
  BY <1>1, <1>2, <1>3, <1>4, <1>5, <1>9, HandlerWrites
<1>10. CASE Environment
  BY <1>1, <1>6, <1>7, <1>10, EnvironmentWrites
<1>11. QED
  BY <1>8, <1>9, <1>10 DEF Next

-----------------------------------------------------------------------------
(***************************************************************************)
(* The inductive invariant.                                                *)
(***************************************************************************)

IInv ==
  /\ Typed /\ RowsComplete /\ HandlersAgree
  /\ SealedRequests /\ SingleFinisher /\ UnfinishedIsOwned /\ LostStaysPending
  /\ SignaturesBacked /\ SignedDocumentApproved

Late == BeforeSeal \cup AfterSeal

\* A handler is past the insertion of the record only if it was so before, with
\* the same request, or inserts it now.
LEMMA LateStep ==
  ASSUME Typed, NEW w \in Worker, Begin(w) \/ Create(w) \/ Sign(w) \/ Crash(w),
         pc'[w] \in Late, ~CreateRecord(w)
  PROVE  pc[w] \in Late /\ loc'[w].request = loc[w].request
<1> USE DEF Typed, Goto, Return, Late, BeforeSeal, AfterSeal
<1>1. CASE Begin(w)
  BY <1>1 DEF Begin, BeginCitizenRequest, BeginOfficerRequest, BeginAuthorityRequest,
              BeginCreate, LoadRequest
<1>2. CASE Create(w)
  BY <1>2 DEF Create, CreateRequest, MarkPendingSign
<1>3. CASE CheckNoRecord(w) \/ ReadCertificate(w) \/ ReadInput(w) \/ CallTsp(w)
  BY <1>3, ZenonT(30) DEF CheckNoRecord, ReadCertificate, ReadInput, CallTsp
<1>4. CASE SaveTimestamp(w) \/ SaveDocumentStatus(w) \/ SealRequest(w)
  BY <1>4 DEF SaveTimestamp, SaveDocumentStatus, SealRequest
<1>5. CASE ReadPadesInput(w) \/ WritePades(w) \/ HashPades(w) \/ HashFinal(w) \/ SavePades(w)
  <2>1. loc[w] \in Local
    BY DEF Typed
  <2>2. QED
    BY <1>5, <2>1 DEF ReadPadesInput, WritePades, HashPades, HashFinal, SavePades, Local
<1>6. CASE LookupApproval(w) \/ \E r \in Request : CreateApproval(w, r)
  <2>1. loc[w] \in Local
    BY DEF Typed
  <2>2. QED
    BY <1>6, <2>1 DEF LookupApproval, CreateApproval, Local
<1>7. CASE Crash(w)
  BY <1>7 DEF Crash
<1>8. QED
  BY <1>1, <1>2, <1>3, <1>4, <1>5, <1>6, <1>7 DEF Sign

\* Between the record and the seal a handler goes on to the seal or dies.
LEMMA BeforeSealStep ==
  ASSUME Typed, NEW w \in Worker, pc[w] \in BeforeSeal, Begin(w) \/ Create(w) \/ Sign(w)
  PROVE  \/ SealRequest(w)
         \/ pc'[w] \in BeforeSeal /\ loc'[w].request = loc[w].request /\ UNCHANGED lost
<1> USE DEF Typed, Goto, Return, BeforeSeal, dbVars, envVars
<1>1. CASE Begin(w)
  BY <1>1 DEF Begin, BeginCitizenRequest, BeginOfficerRequest, BeginAuthorityRequest,
              BeginCreate, LoadRequest
<1>2. CASE Create(w)
  BY <1>2 DEF Create, CreateRequest, MarkPendingSign
<1>3. CASE CheckNoRecord(w) \/ ReadCertificate(w) \/ ReadInput(w) \/ CallTsp(w) \/ CreateRecord(w)
  BY <1>3 DEF CheckNoRecord, ReadCertificate, ReadInput, CallTsp, CreateRecord
<1>4. CASE SaveTimestamp(w) \/ SaveDocumentStatus(w)
  BY <1>4 DEF SaveTimestamp, SaveDocumentStatus
<1>5. CASE ReadPadesInput(w) \/ WritePades(w) \/ HashPades(w) \/ HashFinal(w) \/ SavePades(w)
  BY <1>5 DEF ReadPadesInput, WritePades, HashPades, HashFinal, SavePades
<1>6. CASE LookupApproval(w) \/ \E r \in Request : CreateApproval(w, r)
  BY <1>6 DEF LookupApproval, CreateApproval
<1>7. QED
  BY <1>1, <1>2, <1>3, <1>4, <1>5, <1>6 DEF Sign

\* What the proof of an invariant on the tables has to look at.
LEMMA TableSteps ==
  ASSUME [Next]_vars
  PROVE  \/ UNCHANGED <<req, record, lost>>
         \/ \E w \in Worker, r \in Request : InsertsRequest(w, r)
         \/ \E w \in Worker : CreateRecord(w) \/ SaveTimestamp(w) \/ SealRequest(w) \/ Crash(w)
         \/ \E r \in Request : Expire(r)
<1>1. CASE UNCHANGED vars
  BY <1>1 DEF vars
<1>2. ASSUME NEW w \in Worker, Begin(w) \/ Create(w) \/ Sign(w)
      PROVE  \/ UNCHANGED <<req, record, lost>>
             \/ \E r \in Request : InsertsRequest(w, r)
             \/ CreateRecord(w) \/ SaveTimestamp(w) \/ SealRequest(w)
  BY <1>2, HandlerWrites
<1>3. CASE Environment
  BY <1>3, EnvironmentWrites
<1>4. QED
  BY <1>1, <1>2, <1>3 DEF Next

\* RowsComplete is preserved.
LEMMA RowsCompleteStep == IInv /\ [Next]_vars => RowsComplete'
<1> SUFFICES ASSUME IInv, [Next]_vars PROVE RowsComplete'
  OBVIOUS
<1> USE DEF IInv
<1>1. CASE UNCHANGED <<req, record, lost>>
  BY <1>1 DEF RowsComplete
<1>2. ASSUME NEW w \in Worker, NEW r \in Request, InsertsRequest(w, r) PROVE RowsComplete'
  <2>1. loc[w].doc \in Document /\ loc[w].signer \in User
    BY <1>2, CreatingHandler DEF InsertsRequest, Creating
  <2>2. QED
    BY <1>2, <2>1 DEF InsertsRequest, NewRow, NoRow, RowsComplete, Typed, RequestRow
<1>3. ASSUME NEW w \in Worker, CreateRecord(w) PROVE RowsComplete'
  <2>1. loc[w].request \in Request /\ req[loc[w].request].status # "NONE"
    BY <1>3 DEF CreateRecord, HandlersAgree, Signing, BeforeRecord
  <2>2. QED
    BY <1>3, <2>1 DEF CreateRecord, RowsComplete, Typed
<1>4. ASSUME NEW w \in Worker, SaveTimestamp(w) PROVE RowsComplete'
  BY <1>4 DEF SaveTimestamp, RowsComplete, Typed, RecordRow
<1>5. ASSUME NEW w \in Worker, SealRequest(w) PROVE RowsComplete'
  <2>1. loc[w].request \in Request /\ req[loc[w].request].status # "NONE"
    BY <1>5 DEF SealRequest, Goto, HandlersAgree, Signing, BeforeSeal
  <2>2. QED
    BY <1>5, <2>1 DEF SealRequest, RowsComplete, Typed, RequestRow
<1>6. ASSUME NEW r \in Request, Expire(r) PROVE RowsComplete'
  BY <1>6 DEF Expire, RowsComplete, Typed, RequestRow
<1>7. ASSUME NEW w \in Worker, Crash(w) PROVE RowsComplete'
  BY <1>7 DEF Crash, dbVars, RowsComplete
<1>8. QED
  BY <1>1, <1>2, <1>3, <1>4, <1>5, <1>6, <1>7, TableSteps

\* SealedRequests is preserved: the seal finds a stamped record.
LEMMA SealedStep == IInv /\ [Next]_vars => SealedRequests'
<1> SUFFICES ASSUME IInv, [Next]_vars PROVE SealedRequests'
  OBVIOUS
<1> USE DEF IInv, Signed
<1>1. CASE UNCHANGED <<req, record, lost>>
  BY <1>1 DEF SealedRequests
<1>2. ASSUME NEW w \in Worker, NEW r \in Request, InsertsRequest(w, r) PROVE SealedRequests'
  BY <1>2 DEF InsertsRequest, NewRow, NoRow, SealedRequests, Typed, RequestRow
<1>3. ASSUME NEW w \in Worker, CreateRecord(w) PROVE SealedRequests'
  BY <1>3 DEF CreateRecord, SealedRequests, Typed
<1>4. ASSUME NEW w \in Worker, SaveTimestamp(w) PROVE SealedRequests'
  BY <1>4 DEF SaveTimestamp, SealedRequests, Typed, RecordRow
<1>5. ASSUME NEW w \in Worker, SealRequest(w) PROVE SealedRequests'
  <2>1. record[loc[w].request].exists /\ record[loc[w].request].stamped
    BY <1>5 DEF SealRequest, Goto, HandlersAgree, BeforeSeal
  <2>2. QED
    BY <1>5, <2>1 DEF SealRequest, SealedRequests, Typed, RequestRow
<1>6. ASSUME NEW r \in Request, Expire(r) PROVE SealedRequests'
  BY <1>6 DEF Expire, SealedRequests, Typed, RequestRow
<1>7. ASSUME NEW w \in Worker, Crash(w) PROVE SealedRequests'
  BY <1>7 DEF Crash, dbVars, SealedRequests
<1>8. QED
  BY <1>1, <1>2, <1>3, <1>4, <1>5, <1>6, <1>7, TableSteps

\* SingleFinisher is preserved: the insertion lets a handler through only when
\* the request has no record, and every handler already past it has one.
LEMMA FinisherStep == IInv /\ [Next]_vars => SingleFinisher'
<1> SUFFICES ASSUME IInv, [Next]_vars PROVE SingleFinisher'
  OBVIOUS
<1> USE DEF IInv
<1>1. ASSUME NEW w \in Worker, Begin(w) \/ Create(w) \/ Sign(w) \/ Crash(w), ~CreateRecord(w)
      PROVE  SingleFinisher'
  <2>1. \A v \in Worker : pc'[v] \in Late => pc[v] \in Late /\ loc'[v].request = loc[v].request
    BY <1>1, LateStep, OthersStay
  <2>2. QED
    BY <2>1 DEF SingleFinisher, Late
<1>2. ASSUME NEW w \in Worker, CreateRecord(w) PROVE SingleFinisher'
  <2>1. \A v \in Worker : pc[v] \in Late => record[loc[v].request].exists
    BY DEF HandlersAgree, SealedRequests, Late, Signing
  <2>2. \A v \in Worker \ {w} : pc'[v] = pc[v] /\ loc'[v] = loc[v]
    BY <1>2, OthersStay DEF Sign
  <2>3. CASE record[loc[w].request].exists
    <3>1. pc'[w] \notin Late
      BY <1>2, <2>3 DEF CreateRecord, Return, Typed, Late, BeforeSeal, AfterSeal
    <3>2. QED
      BY <2>2, <3>1 DEF SingleFinisher, Late
  <2>4. CASE ~record[loc[w].request].exists
    <3>1. loc' = loc
      BY <1>2, <2>4 DEF CreateRecord
    <3>2. QED
      BY <2>1, <2>2, <2>4, <3>1 DEF SingleFinisher, Late
  <2>5. QED
    BY <2>3, <2>4
<1>3. ASSUME UNCHANGED <<pc, loc>> PROVE SingleFinisher'
  BY <1>3 DEF SingleFinisher
<1>4. CASE UNCHANGED vars
  BY <1>3, <1>4 DEF vars
<1>5. CASE Environment
  <2>1. ASSUME NEW w \in Worker, Crash(w) PROVE SingleFinisher'
    <3>1. ~CreateRecord(w)
      BY <2>1 DEF Crash, CreateRecord, envVars, Typed
    <3>2. QED
      BY <1>1, <2>1, <3>1
  <2>2. QED
    BY <1>3, <1>5, <2>1, EnvironmentWrites DEF Expire
<1>6. QED
  BY <1>1, <1>2, <1>4, <1>5 DEF Next

\* UnfinishedIsOwned is preserved: a handler leaves an unsealed record only by
\* sealing it or by dying.
LEMMA OwnedStep == IInv /\ [Next]_vars => UnfinishedIsOwned'
<1> SUFFICES ASSUME IInv, [Next]_vars PROVE UnfinishedIsOwned'
  OBVIOUS
<1> USE DEF IInv, Signed
<1>1. CASE UNCHANGED vars
  BY <1>1 DEF vars, UnfinishedIsOwned
<1>2. ASSUME NEW w \in Worker, Begin(w) \/ Create(w) \/ Sign(w) PROVE UnfinishedIsOwned'
  <2> SUFFICES ASSUME NEW r \in Request, record'[r].exists, req'[r].status # "SIGNED"
               PROVE  \/ r \in lost'
                      \/ \E v \in Worker : pc'[v] \in BeforeSeal /\ loc'[v].request = r
    BY DEF UnfinishedIsOwned
  <2>1. lost' = lost
    BY <1>2, HandlerWrites DEF InsertsRequest, CreateRecord, SaveTimestamp, SealRequest, envVars
  <2>2. \A v \in Worker \ {w} : pc'[v] = pc[v] /\ loc'[v] = loc[v]
    BY <1>2, OthersStay
  <2>3. CASE record[r].exists
    <3>1. Keeps
      BY KeepsStep
    <3>2. req[r].status # "SIGNED"
      BY <3>1 DEF Keeps
    <3>3. CASE r \in lost
      BY <2>1, <3>3
    <3>4. ASSUME NEW v \in Worker, pc[v] \in BeforeSeal, loc[v].request = r
          PROVE  pc'[v] \in BeforeSeal /\ loc'[v].request = r
      <4>1. CASE v # w
        BY <2>2, <3>4, <4>1
      <4>2. CASE v = w
        <5>1. ~SealRequest(w)
          BY <3>4, <4>2 DEF SealRequest, Typed, RequestRow
        <5>2. QED
          BY <1>2, <3>4, <4>2, <5>1, BeforeSealStep
      <4>3. QED
        BY <4>1, <4>2
    <3>5. QED
      BY <2>3, <3>2, <3>3, <3>4 DEF UnfinishedIsOwned
  <2>4. CASE ~record[r].exists
    <3>1. CreateRecord(w) /\ r = loc[w].request
      BY <1>2, <2>4, HandlerWrites, ZenonT(30)
         DEF InsertsRequest, CreateRecord, SaveTimestamp, SealRequest, Typed, RecordRow
    <3>2. pc'[w] = "recorded" /\ loc' = loc
      BY <2>4, <3>1 DEF CreateRecord, Goto, Typed
    <3>3. QED
      BY <3>1, <3>2 DEF BeforeSeal
  <2>5. QED
    BY <2>3, <2>4
<1>3. ASSUME NEW w \in Worker, Crash(w) PROVE UnfinishedIsOwned'
  <2>1. \A v \in Worker \ {w} : pc'[v] = pc[v] /\ loc'[v] = loc[v]
    BY <1>3, OthersStay
  <2>2. UNCHANGED <<req, record>> /\ lost \subseteq lost'
    BY <1>3 DEF Crash, dbVars
  <2>3. pc[w] \in BeforeSeal => loc[w].request \in lost'
    BY <1>3 DEF Crash
  <2>4. QED
    BY <2>1, <2>2, <2>3 DEF UnfinishedIsOwned
<1>4. ASSUME NEW r \in Request, Expire(r) PROVE UnfinishedIsOwned'
  <2>1. \A q \in Request : req'[q].status = req[q].status
    BY <1>4 DEF Expire, Typed, RequestRow
  <2>2. QED
    BY <1>4, <2>1 DEF Expire, UnfinishedIsOwned
<1>5. ASSUME UNCHANGED <<req, record, lost, pc, loc>> PROVE UnfinishedIsOwned'
  BY <1>5 DEF UnfinishedIsOwned
<1>6. CASE Environment
  BY <1>3, <1>4, <1>5, <1>6, EnvironmentWrites
<1>7. QED
  BY <1>1, <1>2, <1>6 DEF Next

\* LostStaysPending is preserved: no handler is left that could seal the request.
LEMMA LostStep == IInv /\ [Next]_vars => LostStaysPending'
<1> SUFFICES ASSUME IInv, [Next]_vars PROVE LostStaysPending'
  OBVIOUS
<1> USE DEF IInv
<1>1. CASE UNCHANGED <<req, record, lost>>
  BY <1>1 DEF LostStaysPending
<1>2. ASSUME NEW w \in Worker, NEW r \in Request, InsertsRequest(w, r) PROVE LostStaysPending'
  BY <1>2 DEF InsertsRequest, LostStaysPending, Typed, RequestRow
<1>3. ASSUME NEW w \in Worker, CreateRecord(w) PROVE LostStaysPending'
  BY <1>3 DEF CreateRecord, envVars, LostStaysPending, Typed
<1>4. ASSUME NEW w \in Worker, SaveTimestamp(w) PROVE LostStaysPending'
  BY <1>4 DEF SaveTimestamp, envVars, LostStaysPending, Typed, RecordRow
<1>5. ASSUME NEW w \in Worker, SealRequest(w) PROVE LostStaysPending'
  <2>1. loc[w].request \notin lost
    BY <1>5 DEF SealRequest, Goto, HandlersAgree, BeforeSeal
  <2>2. QED
    BY <1>5, <2>1 DEF SealRequest, envVars, LostStaysPending, Typed, RequestRow
<1>6. ASSUME NEW r \in Request, Expire(r) PROVE LostStaysPending'
  BY <1>6 DEF Expire, LostStaysPending, Typed, RequestRow
<1>7. ASSUME NEW w \in Worker, Crash(w) PROVE LostStaysPending'
  BY <1>7 DEF Crash, dbVars, LostStaysPending, HandlersAgree
<1>8. QED
  BY <1>1, <1>2, <1>3, <1>4, <1>5, <1>6, <1>7, TableSteps

\* SignedDocumentApproved is preserved.
LEMMA ApprovedStep == IInv /\ [Next]_vars => SignedDocumentApproved'
<1> SUFFICES ASSUME IInv, [Next]_vars PROVE SignedDocumentApproved'
  OBVIOUS
<1> USE DEF IInv
<1>1. Keeps
  BY KeepsStep
<1>2. \A r \in Request : record[r].exists => /\ record'[r].exists
                                             /\ req'[r].doc = req[r].doc
                                             /\ req'[r].purpose = req[r].purpose
  BY <1>1 DEF Keeps, RowsComplete
<1>3. ASSUME \A d \in Document : doc'[d].status = "SIGNED" => doc[d].status = "SIGNED"
      PROVE  SignedDocumentApproved'
  BY <1>2, <1>3 DEF SignedDocumentApproved
<1>4. ASSUME NEW w \in Worker, SaveDocumentStatus(w) PROVE SignedDocumentApproved'
  <2> DEFINE r == loc[w].request
  <2>1. r \in Request /\ record[r].exists
    BY <1>4 DEF SaveDocumentStatus, Goto, HandlersAgree, Signing, BeforeSeal
  <2>2. UNCHANGED <<req, record>>
    BY <1>4 DEF SaveDocumentStatus
  <2>3. \A d \in Document : doc'[d].status = "SIGNED" =>
          \/ doc[d].status = "SIGNED"
          \/ d = req[r].doc /\ req[r].purpose = "OFFICER_APPROVAL"
    BY <1>4 DEF SaveDocumentStatus, Typed, DocumentRow
  <2>4. QED
    BY <2>1, <2>2, <2>3 DEF SignedDocumentApproved
<1>5. ASSUME NEW w \in Worker, SavePades(w) PROVE SignedDocumentApproved'
  <2>1. \A d \in Document : doc'[d].status = doc[d].status
    BY <1>5 DEF SavePades, Typed, DocumentRow
  <2>2. QED
    BY <1>3, <2>1
<1>6. ASSUME NEW w \in Worker, MarkPendingSign(w) PROVE SignedDocumentApproved'
  <2>1. \A d \in Document : doc'[d].status = "SIGNED" => doc[d].status = "SIGNED"
    BY <1>6 DEF MarkPendingSign, Typed, DocumentRow
  <2>2. QED
    BY <1>3, <2>1
<1>7. ASSUME UNCHANGED doc PROVE SignedDocumentApproved'
  BY <1>3, <1>7
<1>8. UNCHANGED doc \/ \E w \in Worker : SaveDocumentStatus(w) \/ SavePades(w) \/ MarkPendingSign(w)
  BY DocumentWrites
<1>9. QED
  BY <1>4, <1>5, <1>6, <1>7, <1>8

\* The signatures in a PDF, in an empty one, and in one with another signature.
LEMMA EmbeddedFacts ==
  /\ Embedded(<<>>) = {}
  /\ \A pdf \in Pdf : Embedded(pdf) \subseteq Request
  /\ \A pdf \in Pdf, r \in Request : Embedded(Append(pdf, r)) \subseteq Embedded(pdf) \cup {r}
BY DEF Embedded, Pdf

\* What is in a PDF of a document stays backed by a SIGNED request.
LEMMA BackedKeeps ==
  ASSUME Keeps, RowsComplete, NEW d, NEW pdf \in Pdf,
         \A r \in Embedded(pdf) : req[r].doc = d /\ req[r].status = "SIGNED"
  PROVE  \A r \in Embedded(pdf) : req'[r].doc = d /\ req'[r].status = "SIGNED"
BY EmbeddedFacts DEF Keeps

\* SignaturesBacked is preserved: a PDF is written from bytes that are backed,
\* and by a handler whose request is SIGNED.
LEMMA BackedStep == IInv /\ [Next]_vars => SignaturesBacked'
<1> SUFFICES ASSUME IInv, [Next]_vars PROVE SignaturesBacked'
  OBVIOUS
<1> USE DEF IInv, Signed
<1>1. Keeps
  BY KeepsStep
<1>2. \A d \in Document, p \in Path : files[d][p] \in Pdf
  BY DEF Typed
<1>3. CASE UNCHANGED files
  BY <1>1, <1>2, <1>3, BackedKeeps DEF SignaturesBacked
<1>4. ASSUME NEW w \in Worker, WritePades(w) PROVE SignaturesBacked'
  <2> DEFINE l == loc[w]
             r == l.request
  <2>1. l \in Local /\ r \in Request /\ l.doc = req[r].doc /\ l.doc \in Document
    BY <1>4, SigningHandler DEF WritePades, Goto, Signing, AfterSeal
  <2>2. req[r].status = "SIGNED" /\ \A q \in Embedded(l.pdf) : req[q].doc = l.doc /\ req[q].status = "SIGNED"
    BY <1>4 DEF WritePades, Goto, AfterSeal, HandlersAgree
  <2>3. l.pdf \in Pdf /\ OutputPath(r) \in Path
    BY <2>1, OutputPathType DEF Local
  <2>4. UNCHANGED req
    BY <1>4 DEF WritePades
  <2>5. SUFFICES ASSUME NEW d \in Document, NEW p \in Path, NEW q \in Embedded(files'[d][p])
                 PROVE  req[q].doc = d /\ req[q].status = "SIGNED"
    BY <2>4 DEF SignaturesBacked
  <2>6. CASE d = l.doc /\ p = OutputPath(r)
    <3>1. files'[d][p] = Append(l.pdf, r)
      BY <1>4, <2>6, <2>3, <2>1 DEF WritePades, Typed
    <3>2. Embedded(Append(l.pdf, r)) \subseteq Embedded(l.pdf) \cup {r}
      BY <2>1, <2>3, EmbeddedFacts
    <3>3. q \in Embedded(l.pdf) \cup {r}
      BY <2>5, <3>1, <3>2
    <3>4. QED
      BY <2>1, <2>2, <2>6, <3>3
  <2>7. CASE ~(d = l.doc /\ p = OutputPath(r))
    <3>1. files'[d][p] = files[d][p]
      BY <1>4, <2>7 DEF WritePades, Typed
    <3>2. QED
      BY <3>1, <2>5 DEF SignaturesBacked
  <2>8. QED
    BY <2>6, <2>7
<1>5. QED
  BY <1>3, <1>4, DocumentWrites

\* HandlersAgree, of one handler.
Agrees(w) ==
  LET l == loc[w]
      r == l.request IN
  /\ pc[w] \in Signing => r \in Request /\ req[r].status # "NONE" /\ l.doc = req[r].doc
  /\ pc[w] \in Creating \cup {"approvalCreate"} => l.doc \in Document /\ l.signer \in User
  /\ pc[w] \in BeforeSeal => record[r].exists /\ req[r].status = "PENDING" /\ r \notin lost
  /\ pc[w] \in {"stamped", "docSaved"} => record[r].stamped
  /\ pc[w] \in AfterSeal => req[r].status = "SIGNED"
  /\ \A q \in Embedded(l.pdf) : req[q].doc = l.doc /\ req[q].status = "SIGNED"

\* HandlersAgree says it of all of them.
LEMMA AgreesAll == HandlersAgree <=> \A w \in Worker : Agrees(w)
BY DEF HandlersAgree, Agrees, Signed

\* A handler that does not move stays in agreement, unless its own record is
\* sealed or abandoned by another.
LEMMA AgreesKept ==
  ASSUME IInv, Keeps, NEW v \in Worker, pc'[v] = pc[v], loc'[v] = loc[v],
         pc[v] \in BeforeSeal => /\ req'[loc[v].request].status = "PENDING"
                                 /\ loc[v].request \notin lost'
  PROVE  Agrees(v)'
<1>1. Agrees(v) /\ loc[v] \in Local
  <2>1. Agrees(v)
    BY AgreesAll DEF IInv
  <2>2. loc[v] \in Local
    BY DEF IInv, Typed
  <2>3. QED
    BY <2>1, <2>2
<1>2. \A q \in Embedded(loc[v].pdf) : req'[q].doc = loc[v].doc /\ req'[q].status = "SIGNED"
  <2>1. loc[v].pdf \in Pdf
    BY <1>1 DEF Local
  <2>2. QED
    BY <1>1, <2>1, BackedKeeps, SMTT(20) DEF Agrees, IInv
<1>3. pc[v] \in Signing => /\ loc[v].request \in Request
                           /\ req'[loc[v].request].status # "NONE"
                           /\ loc[v].doc = req'[loc[v].request].doc
  BY <1>1 DEF Agrees, Keeps
<1>4. pc[v] \in BeforeSeal => record'[loc[v].request].exists
  BY <1>1 DEF Agrees, Keeps, Signing
<1>5. pc[v] \in {"stamped", "docSaved"} => record'[loc[v].request].stamped
  BY <1>1 DEF Agrees, Keeps, Signing, BeforeSeal
<1>6. pc[v] \in AfterSeal => req'[loc[v].request].status = "SIGNED"
  BY <1>1 DEF Agrees, Keeps, Signing
<1>7. QED
  BY <1>1, <1>2, <1>3, <1>4, <1>5, <1>6 DEF Agrees

\* A handler that returns is in agreement.
LEMMA AgreesIdle ==
  ASSUME NEW w \in Worker, pc'[w] = "idle", loc'[w] = NoLocal
  PROVE  Agrees(w)'
BY EmbeddedFacts
   DEF Agrees, NoLocal, Signing, Creating, BeforeRecord, BeforeSeal, AfterSeal

\* What a handler of the signing service keeps while it goes on.
LEMMA GoesOn ==
  ASSUME IInv, Keeps, NEW w \in Worker, pc[w] \in Signing,
         loc'[w].request = loc[w].request, loc'[w].doc = loc[w].doc
  PROVE  /\ loc'[w].request \in Request
         /\ req'[loc'[w].request].status # "NONE"
         /\ loc'[w].doc = req'[loc'[w].request].doc
         /\ pc[w] \in AfterSeal => req'[loc'[w].request].status = "SIGNED"
         /\ pc[w] \in BeforeSeal => record'[loc'[w].request].exists
         /\ \A q \in Embedded(loc[w].pdf) : req'[q].doc = loc'[w].doc /\ req'[q].status = "SIGNED"
<1>1. Agrees(w) /\ loc[w] \in Local
  <2>1. Agrees(w)
    BY AgreesAll DEF IInv
  <2>2. loc[w] \in Local
    BY DEF IInv, Typed
  <2>3. QED
    BY <2>1, <2>2
<1>2. \A q \in Embedded(loc[w].pdf) : req'[q].doc = loc[w].doc /\ req'[q].status = "SIGNED"
  <2>1. loc[w].pdf \in Pdf
    BY <1>1 DEF Local
  <2>2. QED
    BY <1>1, <2>1, BackedKeeps DEF Agrees, IInv
<1>3. QED
  BY <1>1, <1>2 DEF Agrees, Keeps

\* The bytes that a handler reads of its document are backed.
LEMMA ReadIsBacked ==
  ASSUME IInv, NEW d \in Document, NEW p \in Path
  PROVE  \A q \in Embedded(files[d][p]) : req[q].doc = d /\ req[q].status = "SIGNED"
BY DEF IInv, SignaturesBacked, Signed

\* The steps of a handler that begins or creates a request.
LEMMA AgreesCreating ==
  ASSUME IInv, Keeps, NEW w \in Worker, Begin(w) \/ Create(w)
  PROVE  Agrees(w)'
<1> USE DEF IInv
<1>1. ASSUME NEW d \in Document, NEW u \in User,
             NEW k \in {"citizen", "officer", "authority"}, BeginCreate(w, d, k, u)
      PROVE  Agrees(w)'
  <2>1. pc'[w] = "create" /\ loc'[w] = [NoLocal EXCEPT !.doc = d, !.kind = k, !.signer = u]
    BY <1>1 DEF BeginCreate, Goto, Typed
  <2>2. loc'[w].doc = d /\ loc'[w].signer = u /\ loc'[w].pdf = <<>>
    BY <2>1 DEF NoLocal
  <2>3. QED
    BY <2>1, <2>2, EmbeddedFacts
       DEF Agrees, Signing, Creating, BeforeRecord, BeforeSeal, AfterSeal
<1>2. ASSUME NEW r \in Request, NEW b \in BOOLEAN, LoadRequest(w, r, b) PROVE Agrees(w)'
  <2>1. pc'[w] = "loaded" /\ UNCHANGED req /\ req[r].status = "PENDING"
    BY <1>2 DEF LoadRequest, Goto, Typed, dbVars
  <2>2. loc'[w].request = r /\ loc'[w].doc = req[r].doc /\ loc'[w].pdf = <<>>
    BY <1>2 DEF LoadRequest, Typed, NoLocal
  <2>3. QED
    BY <2>1, <2>2, EmbeddedFacts
       DEF Agrees, Signing, Creating, BeforeRecord, BeforeSeal, AfterSeal
<1>3. ASSUME NEW r \in Request, CreateRequest(w, r) PROVE Agrees(w)'
  <2>1. pc[w] = "create" /\ Agrees(w) /\ loc[w] \in Local
    BY <1>3, AgreesAll DEF CreateRequest, Typed
  <2>2. CASE loc[w].kind = "authority"
    <3>1. pc'[w] = "idle" /\ loc'[w] = NoLocal
      BY <1>3, <2>2 DEF CreateRequest, Return, Typed
    <3>2. QED
      BY <3>1, AgreesIdle
  <2>3. CASE loc[w].kind # "authority"
    <3>1. pc'[w] = "mark" /\ loc'[w] = loc[w]
      BY <1>3, <2>3 DEF CreateRequest, Typed
    <3>2. \A q \in Embedded(loc[w].pdf) : req'[q].doc = loc[w].doc /\ req'[q].status = "SIGNED"
      BY <2>1, BackedKeeps DEF Agrees, Local
    <3>3. loc[w].doc \in Document /\ loc[w].signer \in User
      BY <2>1 DEF Agrees, Creating
    <3>4. QED
      BY <3>1, <3>2, <3>3 DEF Agrees, Signing, Creating, BeforeRecord, BeforeSeal, AfterSeal
  <2>4. QED
    BY <2>2, <2>3
<1>4. CASE MarkPendingSign(w)
  BY <1>4, AgreesIdle DEF MarkPendingSign, Return, Typed
<1>5. QED
  BY <1>1, <1>2, <1>3, <1>4, BeginCreateStep DEF Create

\* The steps of the signing service up to the record.
LEMMA AgreesBeforeRecord ==
  ASSUME IInv, Keeps, NEW w \in Worker,
         \/ CheckNoRecord(w) \/ ReadCertificate(w) \/ ReadInput(w) \/ CallTsp(w)
         \/ CreateRecord(w)
  PROVE  Agrees(w)'
<1> USE DEF IInv
<1>1. pc[w] \in BeforeRecord /\ pc[w] \in Signing
  BY DEF CheckNoRecord, ReadCertificate, ReadInput, CallTsp, CreateRecord, Goto,
         BeforeRecord, Signing
<1>2. ASSUME pc'[w] \in BeforeRecord, loc'[w].request = loc[w].request,
             loc'[w].doc = loc[w].doc, loc'[w].pdf = loc[w].pdf
      PROVE  Agrees(w)'
  BY <1>1, <1>2, GoesOn DEF Agrees, Signing, Creating, BeforeRecord, BeforeSeal, AfterSeal
<1>3. ASSUME pc'[w] = "idle", loc'[w] = NoLocal PROVE Agrees(w)'
  BY <1>3, AgreesIdle
<1>4. loc[w] \in Local
  BY DEF Typed
<1>5. CASE CheckNoRecord(w)
  BY <1>2, <1>3, <1>5 DEF CheckNoRecord, Return, Goto, Typed, BeforeRecord
<1>6. CASE ReadCertificate(w)
  <2>1. CASE pc'[w] = "idle" /\ loc'[w] = NoLocal
    BY <1>3, <2>1
  <2>2. CASE ~(pc'[w] = "idle" /\ loc'[w] = NoLocal)
    <3> DEFINE u == user[req[loc[w].request].signer]
    <3>1. ~Return(w)
      BY <2>2 DEF Return, Typed
    <3>2. /\ pc' = [pc EXCEPT ![w] = "certified"]
          /\ loc' = [loc EXCEPT ![w].serial = u.serial, ![w].keyRef = u.keyRef]
      BY <1>6, <3>1 DEF ReadCertificate, Goto
    <3>3. pc'[w] = "certified" /\ loc'[w] = [loc[w] EXCEPT !.serial = u.serial, !.keyRef = u.keyRef]
      BY <3>2 DEF Typed
    <3>4. loc'[w].request = loc[w].request /\ loc'[w].doc = loc[w].doc /\ loc'[w].pdf = loc[w].pdf
      BY <1>4, <3>3 DEF Local
    <3>5. QED
      BY <1>2, <3>3, <3>4 DEF BeforeRecord
  <2>3. QED
    BY <2>1, <2>2
<1>7. CASE CallTsp(w)
  BY <1>2, <1>3, <1>7 DEF CallTsp, Return, Goto, Typed, BeforeRecord
<1>8. CASE ReadInput(w)
  <2> DEFINE l == loc[w]
             cu == IF l.read THEN l.current ELSE doc[l.doc].current
             fi == IF l.read THEN l.final ELSE doc[l.doc].final
  <2>1. l.doc \in Document
    BY <1>1, SigningHandler
  <2>2. InputPath(cu, fi) \in Path
    BY <1>4, <2>1, InputPathType DEF Typed, DocumentRow, Local
  <2>3. /\ pc'[w] = "input" /\ UNCHANGED req
        /\ loc'[w].request = l.request /\ loc'[w].doc = l.doc
        /\ loc'[w].pdf = files[l.doc][InputPath(cu, fi)]
    BY <1>4, <1>8 DEF ReadInput, Goto, Typed, dbVars, Local
  <2>4. \A q \in Embedded(loc'[w].pdf) : req'[q].doc = l.doc /\ req'[q].status = "SIGNED"
    BY <2>1, <2>2, <2>3, ReadIsBacked
  <2>5. QED
    BY <1>1, <2>3, <2>4, GoesOn
       DEF Agrees, Signing, Creating, BeforeRecord, BeforeSeal, AfterSeal
<1>9. CASE CreateRecord(w)
  <2> DEFINE r == loc[w].request
  <2>1. CASE record[r].exists
    BY <1>3, <1>9, <2>1 DEF CreateRecord, Return, Typed
  <2>2. CASE ~record[r].exists
    <3>1. r \in Request /\ req[r].status # "NONE"
      BY <1>1 DEF HandlersAgree
    <3>2. req[r].status = "PENDING" /\ r \notin lost
      BY <2>2, <3>1 DEF SealedRequests, LostStaysPending, Signed, Typed, RequestRow
    <3>3. pc'[w] = "recorded" /\ loc'[w] = loc[w] /\ UNCHANGED <<req, lost>> /\ record'[r].exists
      BY <1>9, <2>2, <3>1 DEF CreateRecord, Goto, Typed, envVars
    <3>4. QED
      BY <1>1, <3>2, <3>3, GoesOn
         DEF Agrees, Signing, Creating, BeforeRecord, BeforeSeal, AfterSeal
  <2>3. QED
    BY <2>1, <2>2
<1>10. QED
  BY <1>5, <1>6, <1>7, <1>8, <1>9

\* The steps from the record to the seal.
LEMMA AgreesBeforeSeal ==
  ASSUME IInv, Keeps, NEW w \in Worker,
         SaveTimestamp(w) \/ SaveDocumentStatus(w) \/ SealRequest(w)
  PROVE  Agrees(w)'
<1> USE DEF IInv
<1> DEFINE r == loc[w].request
<1>1. pc[w] \in BeforeSeal /\ pc[w] \in Signing /\ loc'[w] = loc[w]
  BY DEF SaveTimestamp, SaveDocumentStatus, SealRequest, Goto, BeforeSeal, Signing
<1>2. r \in Request /\ req[r].status = "PENDING" /\ r \notin lost
  BY <1>1 DEF HandlersAgree
<1>3. CASE SaveTimestamp(w)
  <2>1. pc'[w] = "stamped" /\ UNCHANGED <<req, lost>> /\ record'[r].stamped
    BY <1>2, <1>3 DEF SaveTimestamp, Goto, Typed, RecordRow, envVars
  <2>2. QED
    BY <1>1, <1>2, <2>1, GoesOn
       DEF Agrees, Signing, Creating, BeforeRecord, BeforeSeal, AfterSeal
<1>4. CASE SaveDocumentStatus(w)
  <2>1. pc'[w] = "docSaved" /\ UNCHANGED <<req, lost, record>> /\ record[r].stamped
    BY <1>4 DEF SaveDocumentStatus, Goto, Typed, envVars, HandlersAgree
  <2>2. QED
    BY <1>1, <1>2, <2>1, GoesOn
       DEF Agrees, Signing, Creating, BeforeRecord, BeforeSeal, AfterSeal
<1>5. CASE SealRequest(w)
  <2>1. pc'[w] = "sealed" /\ req'[r].status = "SIGNED"
    BY <1>2, <1>5 DEF SealRequest, Goto, Typed, RequestRow
  <2>2. QED
    BY <1>1, <2>1, GoesOn
       DEF Agrees, Signing, Creating, BeforeRecord, BeforeSeal, AfterSeal
<1>6. QED
  BY <1>3, <1>4, <1>5

\* The steps of the PAdES service and of the approval that follows it.
LEMMA AgreesAfterSeal ==
  ASSUME IInv, Keeps, NEW w \in Worker,
         \/ ReadPadesInput(w) \/ WritePades(w) \/ HashPades(w) \/ HashFinal(w) \/ SavePades(w)
         \/ LookupApproval(w) \/ \E r \in Request : CreateApproval(w, r)
  PROVE  Agrees(w)'
<1> USE DEF IInv
<1>1. pc[w] \in AfterSeal /\ pc[w] \in Signing
  BY DEF ReadPadesInput, WritePades, HashPades, HashFinal, SavePades, LookupApproval, CreateApproval,
         Goto, AfterSeal, Signing
<1>2. ASSUME pc'[w] \in AfterSeal \ {"approvalCreate"}, loc'[w].request = loc[w].request,
             loc'[w].doc = loc[w].doc, loc'[w].pdf = loc[w].pdf
      PROVE  Agrees(w)'
  BY <1>1, <1>2, GoesOn DEF Agrees, Signing, Creating, BeforeRecord, BeforeSeal, AfterSeal
<1>3. ASSUME pc'[w] = "idle", loc'[w] = NoLocal PROVE Agrees(w)'
  BY <1>3, AgreesIdle
<1>4. loc[w] \in Local /\ loc[w].doc \in Document
  BY <1>1, SigningHandler
<1>5. CASE WritePades(w) \/ HashPades(w) \/ HashFinal(w) \/ SavePades(w)
  BY <1>2, <1>3, <1>4, <1>5
     DEF WritePades, HashPades, HashFinal, SavePades, Return, Goto, Typed, AfterSeal, Local
<1>6. CASE ReadPadesInput(w)
  <2> DEFINE p == IF loc[w].current # None THEN loc[w].current ELSE Original
  <2>1. CASE pc'[w] = "idle" /\ loc'[w] = NoLocal
    BY <1>3, <2>1
  <2>2. CASE ~(pc'[w] = "idle" /\ loc'[w] = NoLocal)
    <3>1. /\ pc'[w] = "padesRead" /\ UNCHANGED req
          /\ loc'[w].request = loc[w].request /\ loc'[w].doc = loc[w].doc
          /\ loc'[w].pdf = files[loc[w].doc][p]
      BY <1>4, <1>6, <2>2 DEF ReadPadesInput, Return, Goto, Typed, dbVars, Local
    <3>2. p \in Path
      BY <1>4 DEF Local, Path
    <3>3. \A q \in Embedded(loc'[w].pdf) : req'[q].doc = loc'[w].doc /\ req'[q].status = "SIGNED"
      BY <1>4, <3>1, <3>2, ReadIsBacked
    <3>4. QED
      BY <1>1, <3>1, <3>3, GoesOn
         DEF Agrees, Signing, Creating, BeforeRecord, BeforeSeal, AfterSeal
  <2>3. QED
    BY <2>1, <2>2
<1>7. CASE LookupApproval(w)
  <2>1. CASE pc'[w] = "idle" /\ loc'[w] = NoLocal
    BY <1>3, <2>1
  <2>2. CASE ~(pc'[w] = "idle" /\ loc'[w] = NoLocal)
    <3>1. PICK o \in Officer : pc'[w] = "approvalCreate" /\ loc' = [loc EXCEPT ![w].signer = o]
      BY <1>7, <2>2 DEF LookupApproval, Return, Goto, Typed, AvailableOfficers
    <3>2. /\ loc'[w].request = loc[w].request /\ loc'[w].doc = loc[w].doc
          /\ loc'[w].pdf = loc[w].pdf /\ loc'[w].signer \in User
      BY <1>4, <3>1 DEF Typed, Local, User
    <3>3. QED
      BY <1>1, <1>4, <3>1, <3>2, GoesOn
         DEF Agrees, Signing, Creating, BeforeRecord, BeforeSeal, AfterSeal
  <2>3. QED
    BY <2>1, <2>2
<1>8. ASSUME NEW r \in Request, CreateApproval(w, r) PROVE Agrees(w)'
  BY <1>3, <1>8 DEF CreateApproval, Return, Typed
<1>9. QED
  BY <1>5, <1>6, <1>7, <1>8

\* HandlersAgree is preserved: by the handler's own steps, and by those of the
\* others, which neither seal nor abandon its record.
LEMMA HandlersStep == IInv /\ [Next]_vars => HandlersAgree'
<1> SUFFICES ASSUME IInv, [Next]_vars PROVE HandlersAgree'
  OBVIOUS
<1> USE DEF IInv
<1>1. Keeps
  BY KeepsStep
<1>2. SUFFICES \A v \in Worker : Agrees(v)'
  BY DEF HandlersAgree, Agrees, Signed
<1>3. \A v \in Worker : pc[v] \in BeforeSeal => /\ loc[v].request \in Request
                                               /\ req[loc[v].request].status = "PENDING"
                                               /\ loc[v].request \notin lost
  BY DEF HandlersAgree, Signing
<1>4. ASSUME UNCHANGED <<pc, loc, lost>>, \A r \in Request : req'[r].status = req[r].status
      PROVE  \A v \in Worker : Agrees(v)'
  BY <1>1, <1>3, <1>4, AgreesKept
<1>5. ASSUME NEW w \in Worker, Begin(w) \/ Create(w) \/ Sign(w)
      PROVE  \A v \in Worker : Agrees(v)'
  <2>1. Agrees(w)'
    BY <1>1, <1>5, AgreesCreating, AgreesBeforeRecord, AgreesBeforeSeal, AgreesAfterSeal DEF Sign
  <2>2. ASSUME NEW v \in Worker, v # w PROVE Agrees(v)'
    <3>1. pc'[v] = pc[v] /\ loc'[v] = loc[v]
      BY <1>5, <2>2, OthersStay
    <3>2. UNCHANGED lost
      BY <1>5, HandlerWrites DEF InsertsRequest, CreateRecord, SaveTimestamp, SealRequest, envVars
    <3>3. ASSUME pc[v] \in BeforeSeal PROVE req'[loc[v].request].status = "PENDING"
      <4> DEFINE r == loc[v].request
      <4>1. r \in Request /\ req[r].status = "PENDING"
        BY <1>3, <3>3
      <4>2. ASSUME NEW q \in Request, InsertsRequest(w, q) PROVE req'[r] = req[r]
        BY <4>1, <4>2 DEF InsertsRequest, Typed
      <4>3. ASSUME SealRequest(w) PROVE req'[r] = req[r]
        <5>1. loc[w].request # r
          BY <2>2, <3>3, <4>3 DEF SealRequest, Goto, SingleFinisher, BeforeSeal
        <5>2. QED
          BY <4>1, <4>3, <5>1 DEF SealRequest, Typed
      <4>4. QED
        BY <1>5, <4>1, <4>2, <4>3, HandlerWrites DEF CreateRecord, SaveTimestamp
    <3>4. QED
      BY <1>1, <1>3, <3>1, <3>2, <3>3, AgreesKept
  <2>3. QED
    BY <2>1, <2>2
<1>6. ASSUME NEW w \in Worker, Crash(w) PROVE \A v \in Worker : Agrees(v)'
  <2>1. Agrees(w)'
    BY <1>6, AgreesIdle DEF Crash, Return, Typed
  <2>2. ASSUME NEW v \in Worker, v # w PROVE Agrees(v)'
    <3>1. pc'[v] = pc[v] /\ loc'[v] = loc[v] /\ UNCHANGED req
      BY <1>6, <2>2, OthersStay DEF Crash, dbVars
    <3>2. pc[v] \in BeforeSeal => loc[v].request \notin lost'
      BY <1>3, <1>6, <2>2 DEF Crash, SingleFinisher
    <3>3. QED
      BY <1>1, <1>3, <3>1, <3>2, AgreesKept
  <2>3. QED
    BY <2>1, <2>2
<1>7. CASE UNCHANGED vars
  BY <1>4, <1>7 DEF vars
<1>8. ASSUME NEW r \in Request, Expire(r) PROVE \A v \in Worker : Agrees(v)'
  <2>1. \A q \in Request : req'[q].status = req[q].status
    BY <1>8 DEF Expire, Typed, RequestRow
  <2>2. QED
    BY <1>4, <1>8, <2>1 DEF Expire
<1>9. CASE Environment
  BY <1>4, <1>6, <1>8, <1>9, EnvironmentWrites
<1>10. QED
  BY <1>5, <1>7, <1>9 DEF Next

\* The inductive invariant holds at the start.
LEMMA IInvInit == Init => IInv
<1> SUFFICES ASSUME Init PROVE IInv
  OBVIOUS
<1>1. Typed
  BY TypeInit
<1>2. /\ \A r \in Request : req[r] = NoRow /\ record[r] = NoRecord
      /\ \A d \in Document : doc[d].status = "UPLOADED" /\ \A p \in Path : files[d][p] = <<>>
      /\ \A w \in Worker : pc[w] = "idle" /\ loc[w] = NoLocal
      /\ lost = {}
  BY DEF Init
<1>3. RowsComplete /\ SealedRequests /\ UnfinishedIsOwned /\ LostStaysPending
  BY <1>2 DEF RowsComplete, SealedRequests, UnfinishedIsOwned, LostStaysPending, Signed,
              NoRow, NoRecord
<1>4. HandlersAgree
  BY <1>2, EmbeddedFacts
     DEF HandlersAgree, NoLocal, Signing, Creating, BeforeRecord, BeforeSeal, AfterSeal
<1>5. SingleFinisher
  BY <1>2 DEF SingleFinisher, BeforeSeal, AfterSeal
<1>6. SignaturesBacked /\ SignedDocumentApproved
  BY <1>2, EmbeddedFacts DEF SignaturesBacked, SignedDocumentApproved
<1>7. QED
  BY <1>1, <1>3, <1>4, <1>5, <1>6 DEF IInv

\* The inductive invariant is preserved by every step.
LEMMA IInvStep == IInv /\ [Next]_vars => IInv'
BY TypeStep, RowsCompleteStep, HandlersStep, SealedStep, FinisherStep, OwnedStep, LostStep,
   BackedStep, ApprovedStep
   DEF IInv

\* The inductive invariant holds in every reachable state.
THEOREM Invariance == Spec => []IInv
BY IInvInit, IInvStep, PTL DEF Spec

-----------------------------------------------------------------------------
(***************************************************************************)
(* What the inductive invariant gives.                                     *)
(***************************************************************************)

\* Every reachable state is well typed.
THEOREM TypeCorrect == Spec => []TypeOK
BY Invariance, PTL DEF IInv, TypeOK

\* A request is SIGNED exactly when it is used, and then its record exists and
\* is stamped, however many handlers work on it.
THEOREM Sealed == Spec => []SealedRequests
BY Invariance, PTL DEF IInv

\* At most one handler finishes a request.
THEOREM OneFinisher == Spec => []SingleFinisher
BY Invariance, PTL DEF IInv

\* A record without a seal is being worked on or its handler died.
THEOREM Owned == Spec => []UnfinishedIsOwned
BY Invariance, PTL DEF IInv

\* A request that lost its handler stays PENDING with a record.
THEOREM LostForGood == Spec => []LostStaysPending
BY Invariance, PTL DEF IInv

\* No stored PDF embeds the signature of a request that is not SIGNED.
THEOREM Backed == Spec => []SignaturesBacked
BY Invariance, PTL DEF IInv

\* No document is SIGNED without an officer's signature on record.
THEOREM Approved == Spec => []SignedDocumentApproved
BY Invariance, PTL DEF IInv

\* What a handler relies on when it goes on is true whatever the others did.
THEOREM Agreement == Spec => []HandlersAgree
BY Invariance, PTL DEF IInv

-----------------------------------------------------------------------------
(***************************************************************************)
(* Records are permanent, and the service implements OneShotSigning.       *)
(***************************************************************************)

\* A request without a record has nothing in the place of its record.
Blank == \A r \in Request : ~record[r].exists => record[r] = NoRecord

\* Of the steps only two write records: one inserts a record where there is
\* none, the other stamps one that exists.
LEMMA RecordWrites ==
  ASSUME IInv, [Next]_vars
  PROVE  \/ UNCHANGED record
         \/ \E r \in Request :
              /\ ~record[r].exists
              /\ \E row \in [exists : {TRUE}, serial : Nat, input : Pdf, stamped : {FALSE}] :
                   record' = [record EXCEPT ![r] = row]
              /\ UNCHANGED req
         \/ \E r \in Request :
              /\ record[r].exists
              /\ record' = [record EXCEPT ![r].stamped = TRUE]
              /\ UNCHANGED req
<1> USE DEF IInv
<1>1. ASSUME NEW w \in Worker, CreateRecord(w), record' # record
      PROVE  \E r \in Request :
               /\ ~record[r].exists
               /\ \E row \in [exists : {TRUE}, serial : Nat, input : Pdf, stamped : {FALSE}] :
                    record' = [record EXCEPT ![r] = row]
               /\ UNCHANGED req
  <2> DEFINE l == loc[w]
             row == [exists |-> TRUE, serial |-> l.serial, input |-> l.pdf, stamped |-> FALSE]
  <2>1. l \in Local /\ l.request \in Request
    BY <1>1, SigningHandler DEF CreateRecord, Signing, BeforeRecord
  <2>2. row \in [exists : {TRUE}, serial : Nat, input : Pdf, stamped : {FALSE}]
    BY <2>1 DEF Local
  <2>3. ~record[l.request].exists /\ record' = [record EXCEPT ![l.request] = row] /\ UNCHANGED req
    BY <1>1 DEF CreateRecord
  <2>4. QED
    BY <2>1, <2>2, <2>3
<1>2. ASSUME NEW w \in Worker, SaveTimestamp(w)
      PROVE  \E r \in Request : /\ record[r].exists
                                /\ record' = [record EXCEPT ![r].stamped = TRUE]
                                /\ UNCHANGED req
  <2>1. loc[w].request \in Request /\ record[loc[w].request].exists
    BY <1>2 DEF SaveTimestamp, Goto, HandlersAgree, Signing, BeforeSeal
  <2>2. QED
    BY <1>2, <2>1 DEF SaveTimestamp
<1>3. ASSUME NEW w \in Worker, SealRequest(w) \/ Crash(w) PROVE UNCHANGED record
  BY <1>3 DEF SealRequest, Crash, dbVars
<1>4. ASSUME NEW r \in Request, Expire(r) PROVE UNCHANGED record
  BY <1>4 DEF Expire
<1>5. QED
  BY <1>1, <1>2, <1>3, <1>4, TableSteps DEF InsertsRequest

\* Blank is an invariant.
LEMMA BlankInvariant == Spec => []Blank
<1>1. Init => Blank
  BY DEF Init, Blank
<1>2. IInv /\ Blank /\ [Next]_vars => Blank'
  BY RecordWrites, ZenonT(30) DEF Blank, IInv, Typed, RecordRow
<1>3. QED
  BY <1>1, <1>2, Invariance, PTL DEF Spec

\* A step keeps every record that exists, up to its timestamp.
LEMMA RecordStep ==
  ASSUME IInv, [Next]_vars
  PROVE  \A r \in Request : record[r].exists =>
           /\ record'[r].exists
           /\ record'[r].serial = record[r].serial
           /\ record'[r].input = record[r].input
           /\ record[r].stamped => record'[r].stamped
<1> SUFFICES ASSUME NEW r \in Request, record[r].exists
             PROVE  /\ record'[r].exists
                    /\ record'[r].serial = record[r].serial
                    /\ record'[r].input = record[r].input
                    /\ record[r].stamped => record'[r].stamped
  OBVIOUS
<1>1. record \in [Request -> RecordRow]
  BY DEF IInv, Typed
<1>2. ASSUME NEW q \in Request, ~record[q].exists, NEW row, record' = [record EXCEPT ![q] = row]
      PROVE  record'[r] = record[r]
  BY <1>1, <1>2
<1>3. ASSUME NEW q \in Request, record' = [record EXCEPT ![q].stamped = TRUE]
      PROVE  record'[r] = record[r] \/ record'[r] = [record[r] EXCEPT !.stamped = TRUE]
  BY <1>1, <1>3
<1>4. \/ record'[r] = record[r]
      \/ record'[r] = [record[r] EXCEPT !.stamped = TRUE]
  BY <1>2, <1>3, RecordWrites
<1>5. QED
  BY <1>1, <1>4 DEF RecordRow

\* No step ever replaces or alters a signature record, except for its timestamp.
THEOREM Permanent == Spec => RecordPermanent
<1>1. IInv /\ [Next]_vars =>
        [\A r \in Request : record[r].exists =>
           /\ record'[r].exists
           /\ record'[r].serial = record[r].serial
           /\ record'[r].input = record[r].input
           /\ record[r].stamped => record'[r].stamped]_record
  BY RecordStep
<1>2. QED
  BY <1>1, Invariance, PTL DEF Spec, RecordPermanent

\* Every step of the service commits a signature, closes a request or does
\* nothing that OneShotSigning sees.
LEMMA RefinementStep ==
  ASSUME IInv, Blank, IInv', [Next]_vars
  PROVE  [Abstract!Next]_Abstract!vars
<1> DEFINE sig == [r \in Request |-> SignatureOf(record[r])]
           closedSet == {r \in Request : Signed(r)}
<1> USE DEF IInv
<1>1. ASSUME NEW r \in Request, ~record[r].exists, UNCHANGED req,
             NEW row \in [exists : {TRUE}, serial : Nat, input : Pdf, stamped : {FALSE}],
             record' = [record EXCEPT ![r] = row]
      PROVE  Abstract!Commit(r)
  <2>1. sig[r] = SignatureOf(NoRecord)
    BY <1>1 DEF Blank
  <2>2. record'[r] = row /\ \A q \in Request \ {r} : record'[q] = record[q]
    BY <1>1 DEF Typed
  <2>3. sig'[r] \in [exists : {TRUE}, serial : Nat, input : Pdf]
    BY <2>2 DEF SignatureOf
  <2>4. \A q \in Request \ {r} : sig'[q] = sig[q]
    BY <2>2
  <2>5. closedSet' = closedSet
    BY <1>1 DEF Signed
  <2>6. QED
    BY <2>1, <2>3, <2>4, <2>5 DEF Abstract!Commit
<1>2. ASSUME NEW r \in Request, record[r].exists, UNCHANGED req,
             record' = [record EXCEPT ![r].stamped = TRUE]
      PROVE  UNCHANGED Abstract!vars
  <2>1. \A q \in Request : SignatureOf(record'[q]) = SignatureOf(record[q])
    BY <1>2 DEF SignatureOf, Typed, RecordRow
  <2>2. QED
    BY <1>2, <2>1 DEF Abstract!vars, Signed
<1>3. ASSUME NEW w \in Worker, SealRequest(w) PROVE \E r \in Request : Abstract!Close(r)
  <2> DEFINE r == loc[w].request
  <2>1. r \in Request /\ record[r].exists /\ UNCHANGED record
    BY <1>3 DEF SealRequest, Goto, HandlersAgree, Signing, BeforeSeal
  <2>2. closedSet' = closedSet \cup {r}
    BY <1>3, <2>1 DEF SealRequest, Signed, Typed, RequestRow
  <2>3. sig[r] # SignatureOf(NoRecord) /\ sig' = sig
    BY <2>1 DEF SignatureOf, NoRecord
  <2>4. QED
    BY <2>1, <2>2, <2>3 DEF Abstract!Close
<1>4. ASSUME UNCHANGED record, ~\E w \in Worker : SealRequest(w)
      PROVE  \A r \in Request : (req'[r].status = "SIGNED") <=> (req[r].status = "SIGNED")
  <2>1. ASSUME NEW w \in Worker, NEW r \in Request, InsertsRequest(w, r)
        PROVE  \A q \in Request : (req'[q].status = "SIGNED") <=> (req[q].status = "SIGNED")
    BY <2>1 DEF InsertsRequest, NewRow, NoRow, Typed, RequestRow
  <2>2. ASSUME NEW r \in Request, Expire(r)
        PROVE  \A q \in Request : (req'[q].status = "SIGNED") <=> (req[q].status = "SIGNED")
    BY <2>2 DEF Expire, Typed, RequestRow
  <2>3. ASSUME NEW w \in Worker, CreateRecord(w) \/ SaveTimestamp(w) \/ Crash(w)
        PROVE  UNCHANGED req
    BY <2>3 DEF CreateRecord, SaveTimestamp, Crash, dbVars
  <2>4. QED
    BY <1>4, <2>1, <2>2, <2>3, TableSteps
<1>5. ASSUME UNCHANGED record,
             \A r \in Request : (req'[r].status = "SIGNED") <=> (req[r].status = "SIGNED")
      PROVE  UNCHANGED Abstract!vars
  BY <1>5 DEF Abstract!vars, Signed
<1>6. QED
  BY <1>1, <1>2, <1>3, <1>4, <1>5, RecordWrites DEF Abstract!Next

\* The signing service implements OneShotSigning: a request is signed at most
\* once, its signature is never replaced, and only signed requests are closed.
THEOREM Refinement == Spec => ImplementsOneShot
<1>1. Init => Abstract!Init
  BY DEF Init, Abstract!Init, Signed, NoRow
<1>2. QED
  BY <1>1, RefinementStep, Invariance, BlankInvariant, PTL
     DEF Spec, ImplementsOneShot, Abstract!Spec
=============================================================================
