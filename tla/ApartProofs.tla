------------------------------ MODULE ApartProofs ------------------------------
(***************************************************************************)
(* What remote signing would keep if handlers did not overlap in two ways  *)
(* (AskersApart, SignersApart of RemoteSigning), whatever else they do to  *)
(* each other: these overlaps are the only causes of an officer being      *)
(* asked twice and of a signature being dropped.                           *)
(***************************************************************************)
EXTENDS RemoteSigningProofs

(***************************************************************************)
(* Asking officers.                                                        *)
(***************************************************************************)

\* Handler w has looked for a request to the officer it will ask.
Asker(w) == pc[w] = "approvalCreate" \/ (pc[w] = "create" /\ loc[w].kind # "citizen")

\* What it found out is still true.
Clear(w) ==
  Asker(w) => /\ loc[w].doc \in Document /\ loc[w].signer \in Officer
              /\ \A r \in Request :
                   ~(PendingApproval(loc[w].doc, r) /\ req[r].signer = loc[w].signer)

\* The inductive invariant of the askers.
AInv == IInv /\ OneApprovalPerOfficer /\ \A w \in Worker : Clear(w)

\* The steps that write the table of requests.
LEMMA RequestWrites ==
  ASSUME [Next]_vars
  PROVE  \/ UNCHANGED req
         \/ \E w \in Worker, r \in Request : CreateRequest(w, r) \/ CreateApproval(w, r)
         \/ \E w \in Worker : SealRequest(w)
         \/ \E r \in Request : Expire(r)
<1> USE DEF dbVars, envVars
<1>1. CASE UNCHANGED vars
  BY <1>1 DEF vars
<1>2. ASSUME NEW w \in Worker, Begin(w) PROVE UNCHANGED req
  BY <1>2 DEF Begin, BeginCitizenRequest, BeginOfficerRequest, BeginAuthorityRequest,
              BeginCreate, LoadRequest
<1>3. ASSUME NEW w \in Worker, MarkPendingSign(w) PROVE UNCHANGED req
  BY <1>3 DEF MarkPendingSign
<1>4. ASSUME NEW w \in Worker, Sign(w), ~SealRequest(w),
             ~\E r \in Request : CreateApproval(w, r)
      PROVE  UNCHANGED req
  BY <1>4 DEF Sign, CheckNoRecord, ReadCertificate, ReadInput, CallTsp, CreateRecord,
              SaveTimestamp, SaveDocumentStatus, ReadPadesInput, WritePades, HashPades,
              HashFinal, SavePades, LookupApproval
<1>5. ASSUME Environment, ~\E r \in Request : Expire(r) PROVE UNCHANGED req
  BY <1>5 DEF Environment, Verify, Reject, Revoke, Lapse, Enrol, SetUser, Crash
<1>6. QED
  BY <1>1, <1>2, <1>3, <1>4, <1>5 DEF Next, Create

\* An approval that is pending was so before, or an asker inserts it now.
LEMMA NewApproval ==
  ASSUME IInv, [Next]_vars, NEW d \in Document, NEW r \in Request, PendingApproval(d, r)'
  PROVE  \/ PendingApproval(d, r) /\ req'[r].signer = req[r].signer
         \/ \E w \in Worker : /\ Asker(w) /\ ~Asker(w)'
                              /\ loc[w].doc = d /\ req'[r].signer = loc[w].signer
                              /\ \A q \in Request \ {r} : req'[q] = req[q]
                              /\ \A v \in Worker \ {w} : pc'[v] = pc[v] /\ loc'[v] = loc[v]
<1> USE DEF IInv
<1>1. CASE UNCHANGED req
  BY <1>1 DEF PendingApproval
<1>2. ASSUME NEW w \in Worker, NEW q \in Request, CreateRequest(w, q) \/ CreateApproval(w, q)
      PROVE  \/ PendingApproval(d, r) /\ req'[r].signer = req[r].signer
             \/ /\ Asker(w) /\ ~Asker(w)'
                /\ loc[w].doc = d /\ req'[r].signer = loc[w].signer
                /\ \A x \in Request \ {r} : req'[x] = req[x]
                /\ \A v \in Worker \ {w} : pc'[v] = pc[v] /\ loc'[v] = loc[v]
  <2>1. \A v \in Worker \ {w} : pc'[v] = pc[v] /\ loc'[v] = loc[v]
    BY <1>2, OthersStay DEF Create, Sign
  <2>2. \A x \in Request \ {q} : req'[x] = req[x]
    BY <1>2 DEF CreateRequest, CreateApproval, Typed
  <2>3. CASE q # r
    BY <2>2, <2>3 DEF PendingApproval
  <2>4. CASE q = r
    <3>1. ~Asker(w)'
      BY <1>2 DEF CreateRequest, CreateApproval, Return, Asker, Typed
    <3>2. CASE CreateApproval(w, r)
      BY <2>1, <2>2, <2>4, <3>1, <3>2
         DEF CreateApproval, Asker, NewRow, NoRow, PendingApproval, Typed
    <3>3. CASE CreateRequest(w, r)
      <4>1. req'[r] = NewRow(loc[w].doc, loc[w].signer,
                             IF loc[w].kind = "citizen" THEN "CITIZEN_REMOTE_SIGN"
                                                        ELSE "OFFICER_APPROVAL")
        BY <3>3 DEF CreateRequest, Typed
      <4>2. loc[w].kind # "citizen" /\ loc[w].doc = d /\ req'[r].signer = loc[w].signer
        BY <4>1 DEF NewRow, NoRow, PendingApproval
      <4>3. Asker(w)
        BY <3>3, <4>2 DEF CreateRequest, Asker
      <4>4. QED
        BY <2>1, <2>2, <2>4, <3>1, <4>2, <4>3
    <3>4. QED
      BY <1>2, <2>4, <3>2, <3>3
  <2>5. QED
    BY <2>3, <2>4
<1>3. ASSUME NEW w \in Worker, SealRequest(w)
      PROVE  PendingApproval(d, r) /\ req'[r].signer = req[r].signer
  BY <1>3 DEF SealRequest, PendingApproval, Typed, RequestRow
<1>4. ASSUME NEW q \in Request, Expire(q)
      PROVE  PendingApproval(d, r) /\ req'[r].signer = req[r].signer
  BY <1>4 DEF Expire, PendingApproval, Typed, RequestRow
<1>5. QED
  BY <1>1, <1>2, <1>3, <1>4, RequestWrites

\* A handler that is an asker was one before, or has just found nothing in its way.
LEMMA NewAsker ==
  ASSUME IInv, [Next]_vars, NEW w \in Worker, Asker(w)'
  PROVE  (Asker(w) /\ loc'[w] = loc[w]) \/ Clear(w)'
<1> USE DEF IInv
<1>1. CASE pc'[w] = pc[w] /\ loc'[w] = loc[w]
  BY <1>1 DEF Asker
<1>2. CASE Begin(w) \/ Create(w) \/ Sign(w) \/ Crash(w)
  <2> USE DEF Typed, Goto, Return, Asker, PendingApproval
  <2>1. ASSUME NEW d \in Document, NEW o \in Officer, BeginOfficerRequest(w, d, o)
        PROVE  Clear(w)'
    <3>1. loc'[w].doc = d /\ loc'[w].signer = o /\ UNCHANGED req
      BY <2>1 DEF BeginOfficerRequest, BeginCreate, NoLocal, dbVars
    <3>2. \A r \in RequestsOn(d) : ~(req[r].signer = o /\ req[r].status = "PENDING")
      BY <2>1 DEF BeginOfficerRequest
    <3>3. QED
      BY <3>1, <3>2 DEF Clear, RequestsOn
  <2>2. ASSUME NEW d \in Document, NEW o \in Officer, BeginAuthorityRequest(w, d, o)
        PROVE  Clear(w)'
    <3>1. loc'[w].doc = d /\ loc'[w].signer = o /\ UNCHANGED req
      BY <2>2 DEF BeginAuthorityRequest, BeginCreate, NoLocal, dbVars
    <3>2. \A r \in RequestsOn(d) :
            ~(req[r].purpose = "OFFICER_APPROVAL" /\ req[r].status = "PENDING")
      BY <2>2 DEF BeginAuthorityRequest
    <3>3. QED
      BY <3>1, <3>2 DEF Clear, RequestsOn
  <2>3. CASE LookupApproval(w)
    <3>1. pc'[w] # "idle" /\ pc'[w] # "create"
      BY <2>3 DEF LookupApproval
    <3>2. PICK o \in AvailableOfficers : loc' = [loc EXCEPT ![w].signer = o]
      BY <2>3, <3>1 DEF LookupApproval
    <3>3. OfficerRequests(loc[w].doc) = {} /\ UNCHANGED req
      BY <2>3, <3>1 DEF LookupApproval, dbVars
    <3>4. loc[w] \in Local /\ loc[w].doc \in Document /\ o \in Officer
      BY <2>3, SigningHandler DEF LookupApproval, Signing, AfterSeal, AvailableOfficers
    <3>5. loc'[w].doc = loc[w].doc /\ loc'[w].signer = o
      BY <3>2, <3>4 DEF Local
    <3>6. QED
      BY <3>3, <3>4, <3>5 DEF Clear, OfficerRequests, RequestsOn
  <2>4. CASE \E d \in Document : BeginCitizenRequest(w, d)
    BY <2>4 DEF BeginCitizenRequest, BeginCreate, NoLocal
  <2>5. CASE \E r \in Request, b \in BOOLEAN : LoadRequest(w, r, b)
    BY <2>5 DEF LoadRequest
  <2>6. CASE Create(w)
    BY <2>6 DEF Create, CreateRequest, MarkPendingSign
  <2>7. CASE CheckNoRecord(w) \/ ReadCertificate(w) \/ ReadInput(w) \/ CallTsp(w) \/ CreateRecord(w)
    BY <2>7 DEF CheckNoRecord, ReadCertificate, ReadInput, CallTsp, CreateRecord
  <2>8. CASE SaveTimestamp(w) \/ SaveDocumentStatus(w) \/ SealRequest(w)
    BY <2>8 DEF SaveTimestamp, SaveDocumentStatus, SealRequest
  <2>9. CASE ReadPadesInput(w) \/ WritePades(w) \/ HashPades(w) \/ HashFinal(w) \/ SavePades(w)
    BY <2>9 DEF ReadPadesInput, WritePades, HashPades, HashFinal, SavePades
  <2>10. CASE (\E r \in Request : CreateApproval(w, r)) \/ Crash(w)
    BY <2>10 DEF CreateApproval, Crash
  <2>11. QED
    BY <1>2, <2>1, <2>2, <2>3, <2>4, <2>5, <2>6, <2>7, <2>8, <2>9, <2>10 DEF Begin, Sign
<1>3. QED
  BY <1>1, <1>2, OneMoves

\* While nobody else asks the same officer, what an asker found out stays true.
LEMMA ClearStep ==
  ASSUME AInv, AskersApart, [Next]_vars, NEW w \in Worker
  PROVE  Clear(w)'
<1> USE DEF AInv
<1> SUFFICES ASSUME Asker(w)', ~Clear(w)' PROVE FALSE
  BY DEF Clear
<1>1. Asker(w) /\ loc'[w] = loc[w]
  BY NewAsker
<1>2. loc[w].doc \in Document /\ loc[w].signer \in Officer
  BY <1>1 DEF Clear
<1>3. PICK r \in Request : PendingApproval(loc[w].doc, r)' /\ req'[r].signer = loc[w].signer
  BY <1>1, <1>2 DEF Clear, PendingApproval
<1>4. ~(PendingApproval(loc[w].doc, r) /\ req[r].signer = loc[w].signer)
  BY <1>1 DEF Clear
<1> PICK d \in Document : d = loc[w].doc
  BY <1>2
<1>5. PendingApproval(d, r)'
  BY <1>3, <1>1 DEF PendingApproval
<1>6. PICK v \in Worker : /\ Asker(v) /\ ~Asker(v)'
                          /\ loc[v].doc = d /\ loc[v].signer = loc[w].signer
  BY <1>3, <1>4, <1>5, NewApproval
<1>7. v = w
  BY <1>1, <1>2, <1>6 DEF AskersApart, Asking, Asker
<1>8. QED
  BY <1>6, <1>7

\* So no officer is asked twice.
LEMMA ApprovalStep ==
  ASSUME AInv, [Next]_vars
  PROVE  OneApprovalPerOfficer'
<1> USE DEF AInv
<1> SUFFICES ASSUME NEW d \in Document, NEW q \in Request, NEW r \in Request,
                    PendingApproval(d, q)', PendingApproval(d, r)',
                    req'[q].signer = req'[r].signer, q # r
             PROVE  FALSE
  BY DEF OneApprovalPerOfficer
<1>1. ASSUME NEW x \in Request, NEW y \in Request, x # y, PendingApproval(d, y)',
             req'[x].signer = req'[y].signer,
             NEW w \in Worker, Asker(w), loc[w].doc = d, req'[x].signer = loc[w].signer,
             \A z \in Request \ {x} : req'[z] = req[z]
      PROVE  FALSE
  BY <1>1 DEF Clear, PendingApproval
<1>2. PendingApproval(d, q) /\ req'[q].signer = req[q].signer
  BY <1>1, NewApproval
<1>3. PendingApproval(d, r) /\ req'[r].signer = req[r].signer
  BY <1>1, NewApproval
<1>4. QED
  BY <1>2, <1>3 DEF OneApprovalPerOfficer

\* No officer is asked twice at a time for a document, for any number of
\* officers and handlers, unless two handlers are between look-up and insertion
\* of a request to the same officer at once: no other overlap can do it.
THEOREM AskedOncePerOfficer == Spec /\ []AskersApart => []OneApprovalPerOfficer
<1>1. Init => AInv
  BY IInvInit, Constants DEF Init, AInv, OneApprovalPerOfficer, PendingApproval, NoRow, Clear, Asker
<1>2. AInv /\ AskersApart /\ [Next]_vars => AInv'
  BY IInvStep, ClearStep, ApprovalStep DEF AInv
<1>3. AInv => OneApprovalPerOfficer
  BY DEF AInv
<1>4. QED
  BY <1>1, <1>2, <1>3, PTL DEF Spec
-----------------------------------------------------------------------------
(***************************************************************************)
(* Signing the latest PDF.                                                 *)
(***************************************************************************)

\* A PDF extends itself, and stays an extension when it grows.
LEMMA ExtendsFacts ==
  /\ \A s \in Pdf : Extends(s, s) /\ Extends(s, <<>>)
  /\ \A s, t \in Pdf, r \in Request : Extends(s, t) => Extends(Append(s, r), t)
<1>1. \A s \in Pdf : Extends(s, s) /\ Extends(s, <<>>)
  BY DEF Extends, Pdf
<1>2. ASSUME NEW s \in Pdf, NEW t \in Pdf, NEW r \in Request, Extends(s, t)
      PROVE  Extends(Append(s, r), t)
  <2>1. Len(Append(s, r)) = Len(s) + 1 /\ Len(s) \in Nat /\ Len(t) \in Nat
    BY DEF Pdf
  <2>2. \A i \in 1..Len(s) : Append(s, r)[i] = s[i]
    BY DEF Pdf
  <2>3. QED
    BY <1>2, <2>1, <2>2 DEF Extends
<1>3. QED
  BY <1>1, <1>2

\* A handler that has loaded the document may still sign, but has not inserted
\* its record yet.
Early == {"loaded", "fresh", "certified", "input", "tspDone"}

\* It has inserted its record, and has not written its PDF yet.
Reading == {"recorded", "stamped", "docSaved", "sealed", "padesRead"}

\* It has written its PDF, and has not saved the document yet.
Written == {"padesWritten", "padesHashed", "finalHashed"}

\* What handler w holds of its document is the current PDF, unless another
\* handler of the same request was first; and so is what it signs.
Latest(w) ==
  LET l == loc[w]
      d == loc[w].doc IN
  /\ pc[w] \in {"input", "tspDone"} \cup Reading \cup Written => l.read
  /\ pc[w] \in Early /\ l.read /\ ~record[l.request].exists => l.current = doc[d].current
  /\ pc[w] \in Reading => l.current = doc[d].current
  /\ pc[w] = "padesRead" => Extends(l.pdf, CurrentPdf(d))
  /\ pc[w] \in Written => Extends(files[d][OutputPath(l.request)], CurrentPdf(d))

\* The inductive invariant of the signers.
SInv == IInv /\ \A w \in Worker : Latest(w)

\* The current PDF of a document is a PDF.
LEMMA CurrentType ==
  ASSUME Typed, NEW d \in Document
  PROVE  CurrentPdf(d) \in Pdf /\ doc[d].current \in Path \cup {None}
BY Constants DEF Typed, DocumentRow, CurrentPdf, Pdf, Path

\* What a handler is working on, past LoadRequest.
LEMMA Handler ==
  ASSUME SInv, NEW w \in Worker, pc[w] \in Early \cup Reading \cup Written
  PROVE  /\ loc[w] \in Local /\ loc[w].request \in Request
         /\ loc[w].doc = req[loc[w].request].doc /\ loc[w].doc \in Document
         /\ OutputPath(loc[w].request) \in Path
<1>1. pc[w] \in Signing
  BY DEF Early, Reading, Written, Signing, BeforeRecord, BeforeSeal, AfterSeal
<1>2. QED
  BY <1>1, SigningHandler, OutputPathType DEF SInv, IInv

\* While nobody else signs another request of the document, only the handler
\* that has the record may touch the current PDF.
LEMMA Undisturbed ==
  ASSUME SInv, SignersApart, [Next]_vars,
         NEW v \in Worker, SavePades(v) \/ WritePades(v),
         NEW w \in Worker, v # w, pc[w] \in Early \cup Reading \cup Written,
         loc[w].read, loc[w].doc = loc[v].doc
  PROVE  pc[w] \in Early /\ record[loc[w].request].exists
<1> USE DEF SInv, IInv
<1>1. pc[v] \in Reading \cup Written /\ pc[v] \in AfterSeal /\ pc[v] \notin {"approval", "approvalCreate"}
  BY DEF SavePades, WritePades, Goto, Reading, Written, AfterSeal
<1>2. loc[v].read /\ loc[v].doc \in Document /\ loc[v].request \in Request
  BY <1>1, Handler DEF Latest, Reading
<1>3. pc[w] \notin {"approval", "approvalCreate"}
  BY DEF Early, Reading, Written
<1>4. Holding(v, loc[v].doc) /\ Holding(w, loc[v].doc)
  BY <1>1, <1>2, <1>3 DEF Holding
<1>5. loc[w].request = loc[v].request
  BY <1>2, <1>4 DEF SignersApart
<1>6. record[loc[v].request].exists
  BY <1>1, <1>2 DEF HandlersAgree, SealedRequests, Signed
<1>7. pc[w] \notin Reading \cup Written
  BY <1>1, <1>5 DEF SingleFinisher, Reading, Written, AfterSeal, BeforeSeal
<1>8. QED
  BY <1>5, <1>6, <1>7

\* The current PDF of a document, and which one it is, change only by a handler
\* that signs the document.
LEMMA PdfKept ==
  ASSUME Typed, [Next]_vars, NEW d \in Document,
         ~\E v \in Worker : (SavePades(v) \/ WritePades(v)) /\ loc[v].doc = d
  PROVE  doc'[d].current = doc[d].current /\ files'[d] = files[d]
<1>1. doc[d] \in DocumentRow
  BY DEF Typed
<1>2. ASSUME NEW w \in Worker, SaveDocumentStatus(w) \/ MarkPendingSign(w)
      PROVE  doc'[d].current = doc[d].current
  BY <1>1, <1>2 DEF SaveDocumentStatus, MarkPendingSign, Typed, DocumentRow
<1>3. ASSUME NEW w \in Worker, SavePades(w) PROVE doc'[d] = doc[d]
  BY <1>3 DEF SavePades, Typed
<1>4. ASSUME NEW w \in Worker, WritePades(w) PROVE files'[d] = files[d]
  BY <1>4 DEF WritePades, Typed
<1>5. QED
  BY <1>2, <1>3, <1>4, DocumentWrites
\* Latest in the next state, of a handler that will be on request r of document d.
LEMMA LatestNext ==
  ASSUME NEW w \in Worker, NEW d \in Document, NEW r \in Request,
         loc'[w].doc = d, loc'[w].request = r,
         pc'[w] \in {"input", "tspDone"} \cup Reading \cup Written => loc'[w].read,
         pc'[w] \in Early /\ loc'[w].read /\ ~record'[r].exists
           => loc'[w].current = doc'[d].current,
         pc'[w] \in Reading => loc'[w].current = doc'[d].current,
         pc'[w] = "padesRead" => Extends(loc'[w].pdf, CurrentPdf(d)'),
         pc'[w] \in Written => Extends(files'[d][OutputPath(r)'], CurrentPdf(d)')
  PROVE  Latest(w)'
BY DEF Latest, CurrentPdf, OutputPath, SignsAsOfficer

\* A handler that stays where it is keeps the latest PDF.
LEMMA LatestStays ==
  ASSUME SInv, SignersApart, [Next]_vars,
         NEW w \in Worker, pc'[w] = pc[w], loc'[w] = loc[w]
  PROVE  Latest(w)'
<1> USE DEF SInv, IInv
<1>1. Keeps
  BY KeepsStep
<1>2. CASE pc[w] \notin Early \cup Reading \cup Written
  BY <1>2 DEF Latest, Early, Reading, Written
<1>3. CASE pc[w] \in Early \cup Reading \cup Written
  <2> PICK d \in Document, r \in Request : d = loc[w].doc /\ r = loc[w].request
    BY <1>3, Handler
  <2>1. req[r].status # "NONE" /\ req[r].doc = d
    BY <1>3 DEF HandlersAgree, Early, Reading, Written, Signing, BeforeRecord, BeforeSeal, AfterSeal
  <2>2. OutputPath(r)' = OutputPath(r) /\ (~record'[r].exists => ~record[r].exists)
    BY <1>1, <2>1 DEF Keeps, OutputPath, SignsAsOfficer
  <2>3. CASE ~\E v \in Worker : (SavePades(v) \/ WritePades(v)) /\ loc[v].doc = d
    <3>1. doc'[d].current = doc[d].current /\ files'[d] = files[d]
      BY <2>3, PdfKept
    <3>2. CurrentPdf(d)' = CurrentPdf(d)
      BY <3>1 DEF CurrentPdf
    <3>3. Latest(w)
      OBVIOUS
    <3>4. QED
      BY <2>2, <3>1, <3>2, <3>3, LatestNext DEF Latest
  <2>4. ASSUME NEW v \in Worker, SavePades(v) \/ WritePades(v), loc[v].doc = d
        PROVE  Latest(w)'
    <3>1. v # w
      BY <2>4 DEF SavePades, WritePades, Goto, Return, Typed
    <3>2. CASE loc[w].read
      <4>1. pc[w] \in Early /\ record[r].exists
        BY <1>3, <2>4, <3>1, <3>2, Undisturbed
      <4>2. Latest(w)
        OBVIOUS
      <4>3. QED
        BY <2>2, <3>2, <4>1, LatestNext DEF Early, Reading, Written
    <3>3. CASE ~loc[w].read
      <4>1. pc[w] \in Early \ {"input", "tspDone"}
        BY <1>3, <3>3 DEF Latest
      <4>2. QED
        BY <3>3, <4>1, LatestNext DEF Early, Reading, Written
    <3>4. QED
      BY <3>2, <3>3
  <2>5. QED
    BY <2>3, <2>4
<1>4. QED
  BY <1>2, <1>3

\* What a handler writes extends the current PDF, also when it is that PDF.
LEMMA WriteExtends ==
  ASSUME SInv, [Next]_vars, NEW w \in Worker, WritePades(w),
         NEW d \in Document, d = loc[w].doc
  PROVE  /\ Extends(CurrentPdf(d)', CurrentPdf(d))
         /\ Extends(files'[d][OutputPath(loc[w].request)], CurrentPdf(d)')
<1> USE DEF SInv, IInv
<1>1. pc[w] = "padesRead"
  BY DEF WritePades, Goto
<1> PICK r \in Request : r = loc[w].request
  BY <1>1, Handler DEF Reading
<1>2. loc[w].pdf \in Pdf /\ OutputPath(r) \in Path /\ UNCHANGED doc
  BY <1>1, Handler, OutputPathType DEF Reading, Local, WritePades
<1>3. Extends(loc[w].pdf, CurrentPdf(d))
  BY <1>1 DEF Latest
<1> DEFINE new == Append(loc[w].pdf, r)
<1>4. files' = [files EXCEPT ![d][OutputPath(r)] = new]
  BY DEF WritePades
<1>5. new \in Pdf
  BY <1>2 DEF Pdf
<1>6. Extends(new, CurrentPdf(d)) /\ Extends(new, new) /\ Extends(CurrentPdf(d), CurrentPdf(d))
  BY <1>2, <1>3, <1>5, ExtendsFacts, CurrentType
<1>7. files'[d][OutputPath(r)] = new
  BY <1>2, <1>4 DEF Typed
<1>8. CurrentPdf(d)' = IF doc[d].current = OutputPath(r) THEN new ELSE CurrentPdf(d)
  <2>1. OutputPath(r) # None
    BY Constants DEF OutputPath, Path, Final, None
  <2>2. doc[d].current \in Path \cup {None}
    BY CurrentType
  <2>3. \A p \in Path : files'[d][p] = IF p = OutputPath(r) THEN new ELSE files[d][p]
    BY <1>2, <1>4 DEF Typed
  <2>4. QED
    BY <1>2, <2>1, <2>2, <2>3 DEF CurrentPdf
<1>9. QED
  BY <1>6, <1>7, <1>8
\* A handler that moves on keeps the latest PDF, or has just loaded it.
LEMMA LatestMoves ==
  ASSUME SInv, [Next]_vars,
         NEW w \in Worker, Begin(w) \/ Create(w) \/ Sign(w) \/ Crash(w)
  PROVE  Latest(w)'
<1> USE DEF SInv, IInv
<1>1. ASSUME pc'[w] \notin Early \cup Reading \cup Written PROVE Latest(w)'
  BY <1>1 DEF Latest, Early, Reading, Written
<1>2. ASSUME NEW r \in Request, NEW b \in BOOLEAN, LoadRequest(w, r, b) PROVE Latest(w)'
  <2> DEFINE d == req[r].doc
  <2>1. d \in Document
    BY <1>2 DEF LoadRequest, RowsComplete
  <2>2. pc'[w] = "loaded" /\ UNCHANGED <<doc, record>>
    BY <1>2 DEF LoadRequest, Goto, Typed, dbVars
  <2>3. loc'[w].doc = d /\ loc'[w].request = r /\ (loc'[w].read => loc'[w].current = doc[d].current)
    BY <1>2 DEF LoadRequest, NoLocal, Typed
  <2>4. PICK e \in Document : e = d
    BY <2>1
  <2>5. QED
    BY <2>2, <2>3, <2>4, LatestNext DEF Early, Reading, Written
<1>3. CASE Begin(w) /\ ~\E r \in Request, b \in BOOLEAN : LoadRequest(w, r, b)
  <2>1. pc'[w] = "create"
    BY <1>3, BeginCreateStep DEF BeginCreate, Goto, Typed
  <2>2. QED
    BY <1>1, <2>1 DEF Early, Reading, Written
<1>4. CASE Create(w)
  <2>1. pc'[w] \in {"idle", "mark"}
    BY <1>4 DEF Create, CreateRequest, MarkPendingSign, Return, Typed
  <2>2. QED
    BY <1>1, <2>1 DEF Early, Reading, Written
<1>5. CASE SavePades(w) \/ LookupApproval(w) \/ (\E r \in Request : CreateApproval(w, r)) \/ Crash(w)
  <2>1. pc'[w] \in {"idle", "approval", "approvalCreate"}
    BY <1>5 DEF SavePades, LookupApproval, CreateApproval, Crash, Goto, Return, Typed
  <2>2. QED
    BY <1>1, <2>1 DEF Early, Reading, Written
<1>6. CASE /\ CheckNoRecord(w) \/ ReadCertificate(w) \/ ReadInput(w) \/ CallTsp(w) \/ CreateRecord(w)
              \/ SaveTimestamp(w) \/ SaveDocumentStatus(w) \/ SealRequest(w)
              \/ ReadPadesInput(w) \/ WritePades(w) \/ HashPades(w) \/ HashFinal(w)
           /\ pc'[w] \in Early \cup Reading \cup Written
  <2>1. pc[w] \in Early \cup Reading \cup Written
    BY <1>6 DEF CheckNoRecord, ReadCertificate, ReadInput, CallTsp, CreateRecord, SaveTimestamp,
                SaveDocumentStatus, SealRequest, ReadPadesInput, WritePades, HashPades, HashFinal,
                Goto, Early, Reading, Written
  <2> PICK d \in Document, r \in Request : d = loc[w].doc /\ r = loc[w].request
    BY <2>1, Handler
  <2>2. loc[w] \in Local /\ Latest(w) /\ OutputPath(r) \in Path
    BY <2>1, Handler
  <2> USE DEF Typed, Goto, Return, dbVars
  <2>3. CASE CheckNoRecord(w) \/ CallTsp(w)
    <3>1. UNCHANGED <<doc, files, record, loc>> /\ pc'[w] \in {"fresh", "tspDone"}
      BY <1>6, <2>3 DEF CheckNoRecord, CallTsp, Early, Reading, Written
    <3>2. pc'[w] = "tspDone" => pc[w] = "input"
      BY <2>3 DEF CheckNoRecord, CallTsp
    <3>3. pc[w] \in Early
      BY <2>3 DEF CheckNoRecord, CallTsp, Early
    <3>4. QED
      BY <2>2, <3>1, <3>2, <3>3, LatestNext DEF Latest, Early, Reading, Written
  <2>4. CASE ReadCertificate(w)
    <3>1. UNCHANGED <<doc, files, record>> /\ pc'[w] = "certified" /\ pc[w] = "fresh"
      BY <1>6, <2>4 DEF ReadCertificate, Early, Reading, Written
    <3>2. /\ loc'[w].doc = d /\ loc'[w].request = r
          /\ loc'[w].read = loc[w].read /\ loc'[w].current = loc[w].current
      BY <2>2, <2>4, <3>1 DEF ReadCertificate, Local
    <3>3. QED
      BY <2>2, <3>1, <3>2, LatestNext DEF Latest, Early, Reading, Written
  <2>5. CASE ReadInput(w)
    <3>1. UNCHANGED <<doc, files, record>> /\ pc'[w] = "input" /\ pc[w] = "certified"
      BY <2>5 DEF ReadInput
    <3>2. /\ loc'[w].doc = d /\ loc'[w].request = r /\ loc'[w].read
          /\ loc'[w].current = IF loc[w].read THEN loc[w].current ELSE doc[d].current
      BY <2>2, <2>5 DEF ReadInput, Local
    <3>3. QED
      BY <2>2, <3>1, <3>2, LatestNext DEF Latest, Early, Reading, Written
  <2>6. CASE CreateRecord(w)
    <3>1. UNCHANGED <<doc, files, loc>> /\ pc'[w] = "recorded" /\ pc[w] = "tspDone"
      BY <1>6, <2>6 DEF CreateRecord, Early, Reading, Written
    <3>2. ~record[r].exists
      BY <2>6, <3>1 DEF CreateRecord
    <3>3. QED
      BY <2>2, <3>1, <3>2, LatestNext DEF Latest, Early, Reading, Written
  <2>7. CASE SaveTimestamp(w) \/ SaveDocumentStatus(w) \/ SealRequest(w)
    <3>1. /\ UNCHANGED <<files, loc>>
          /\ pc[w] \in {"recorded", "stamped", "docSaved"} /\ pc'[w] \in {"stamped", "docSaved", "sealed"}
      BY <2>7 DEF SaveTimestamp, SaveDocumentStatus, SealRequest
    <3>2. doc'[d].current = doc[d].current
      <4>1. doc[d] \in DocumentRow
        OBVIOUS
      <4>2. QED
        BY <2>7, <4>1 DEF SaveTimestamp, SaveDocumentStatus, SealRequest, DocumentRow
    <3>3. QED
      BY <2>2, <3>1, <3>2, LatestNext DEF Latest, Early, Reading, Written
  <2>8. CASE ReadPadesInput(w)
    <3>1. UNCHANGED <<doc, files>> /\ pc[w] = "sealed" /\ pc'[w] = "padesRead"
      BY <1>6, <2>8 DEF ReadPadesInput, Early, Reading, Written
    <3>2. loc' = [loc EXCEPT ![w].pdf =
                    files[d][IF loc[w].current # None THEN loc[w].current ELSE Original]]
      BY <2>8, <3>1 DEF ReadPadesInput
    <3>3. /\ loc'[w].doc = d /\ loc'[w].request = r
          /\ loc'[w].read = loc[w].read /\ loc'[w].current = loc[w].current
          /\ loc'[w].pdf = files[d][IF loc[w].current # None THEN loc[w].current ELSE Original]
      BY <2>2, <3>2 DEF Local
    <3>4. loc[w].current = doc[d].current /\ loc[w].read
      BY <2>2, <3>1 DEF Latest, Reading
    <3>5. Extends(loc'[w].pdf, CurrentPdf(d))
      <4>1. files[d][Original] \in Pdf /\ CurrentPdf(d) \in Pdf
        BY CurrentType DEF Path
      <4>2. QED
        BY <3>3, <3>4, <4>1, ExtendsFacts DEF CurrentPdf
    <3>6. CurrentPdf(d)' = CurrentPdf(d)
      BY <3>1 DEF CurrentPdf
    <3>7. QED
      BY <3>1, <3>3, <3>4, <3>5, <3>6, LatestNext DEF Early, Reading, Written
  <2>9. CASE WritePades(w)
    <3>1. pc[w] = "padesRead" /\ pc'[w] = "padesWritten" /\ UNCHANGED <<doc, req, loc>>
      BY <2>9 DEF WritePades
    <3>2. Extends(files'[d][OutputPath(r)], CurrentPdf(d)') /\ OutputPath(r)' = OutputPath(r)
      BY <2>9, <3>1, WriteExtends DEF OutputPath, SignsAsOfficer
    <3>3. loc'[w].read
      BY <2>2, <3>1 DEF Latest, Reading
    <3>4. QED
      BY <3>1, <3>2, <3>3, LatestNext DEF Early, Reading, Written
  <2>10. CASE HashPades(w) \/ HashFinal(w)
    <3>1. /\ UNCHANGED <<doc, files, req>>
          /\ pc[w] \in Written /\ pc'[w] \in Written
      BY <2>10 DEF HashPades, HashFinal, Written
    <3>2. loc'[w].doc = d /\ loc'[w].request = r /\ loc'[w].read = loc[w].read
      BY <2>2, <2>10 DEF HashPades, HashFinal, Local
    <3>3. CurrentPdf(d)' = CurrentPdf(d) /\ OutputPath(r)' = OutputPath(r)
      BY <3>1 DEF CurrentPdf, OutputPath, SignsAsOfficer
    <3>4. QED
      BY <2>2, <3>1, <3>2, <3>3, LatestNext DEF Latest, Early, Reading, Written
  <2>11. QED
    BY <1>6, <2>3, <2>4, <2>5, <2>6, <2>7, <2>8, <2>9, <2>10
<1>7. QED
  BY <1>1, <1>2, <1>3, <1>4, <1>5, <1>6 DEF Sign

\* A step drops no signature of a current PDF.
LEMMA ExtendsStep ==
  ASSUME SInv, [Next]_vars, NEW d \in Document
  PROVE  Extends(CurrentPdf(d)', CurrentPdf(d))
<1> USE DEF SInv, IInv
<1>1. CASE ~\E v \in Worker : (SavePades(v) \/ WritePades(v)) /\ loc[v].doc = d
  <2>1. CurrentPdf(d)' = CurrentPdf(d)
    BY <1>1, PdfKept DEF CurrentPdf
  <2>2. QED
    BY <2>1, CurrentType, ExtendsFacts
<1>2. ASSUME NEW v \in Worker, WritePades(v), loc[v].doc = d
      PROVE  Extends(CurrentPdf(d)', CurrentPdf(d))
  BY <1>2, WriteExtends
<1>3. ASSUME NEW v \in Worker, SavePades(v), loc[v].doc = d
      PROVE  Extends(CurrentPdf(d)', CurrentPdf(d))
  <2>1. pc[v] \in Written /\ UNCHANGED files
    BY <1>3 DEF SavePades, Written
  <2> PICK r \in Request : r = loc[v].request
    BY <2>1, Handler
  <2>2. Extends(files[d][OutputPath(r)], CurrentPdf(d)) /\ OutputPath(r) \in Path
    BY <1>3, <2>1, Handler DEF Latest
  <2>3. doc'[d].current = OutputPath(r)
    <3>1. doc[d] \in DocumentRow
      BY DEF Typed
    <3>2. QED
      BY <1>3, <3>1 DEF SavePades, Typed, DocumentRow
  <2>4. OutputPath(r) # None
    BY <2>2, Constants DEF Path, Final, Original, None
  <2>5. CurrentPdf(d)' = files[d][OutputPath(r)]
    BY <2>1, <2>3, <2>4 DEF CurrentPdf
  <2>6. QED
    BY <2>2, <2>5
<1>4. QED
  BY <1>1, <1>2, <1>3

\* The invariant of the signers is preserved while signers are apart.
LEMMA SInvStep ==
  ASSUME SInv, SignersApart, [Next]_vars
  PROVE  SInv'
<1>1. IInv'
  BY IInvStep DEF SInv
<1>2. ASSUME NEW w \in Worker PROVE Latest(w)'
  <2>1. (pc'[w] = pc[w] /\ loc'[w] = loc[w]) \/ Begin(w) \/ Create(w) \/ Sign(w) \/ Crash(w)
    BY OneMoves DEF SInv, IInv
  <2>2. QED
    BY <2>1, LatestStays, LatestMoves
<1>3. QED
  BY <1>1, <1>2 DEF SInv

\* No signature disappears from the current PDF of a document, for any number of
\* handlers that create, sign and die, unless two handlers hold the document for
\* two of its requests at once: no other overlap can do it.
THEOREM NothingDropped == Spec /\ []SignersApart => NoSignatureDropped
<1>1. Init => SInv
  BY IInvInit DEF Init, SInv, Latest, Early, Reading, Written
<1>2. SInv /\ SignersApart /\ [Next]_vars => SInv'
  BY SInvStep
<1>3. SInv /\ [Next]_vars =>
        [\A d \in Document : Extends(CurrentPdf(d)', CurrentPdf(d))]_<<doc, files>>
  BY ExtendsStep
<1>4. QED
  BY <1>1, <1>2, <1>3, PTL DEF Spec, NoSignatureDropped

\* The behaviours without the two overlaps are those of ApartSpec.
THEOREM ApartBehaviours == ApartSpec <=> Spec /\ []AskersApart /\ []SignersApart
<1>1. Init => AskersApart /\ SignersApart
  BY DEF Init, AskersApart, SignersApart, Asking, Holding, NoLocal
<1>2. [Next /\ AskersApart' /\ SignersApart']_vars /\ AskersApart /\ SignersApart
        => AskersApart' /\ SignersApart'
  BY DEF vars, AskersApart, SignersApart, Asking, Holding
<1>3. [Next /\ AskersApart' /\ SignersApart']_vars => [Next]_vars
  OBVIOUS
<1>4. [Next]_vars /\ AskersApart' /\ SignersApart' => [Next /\ AskersApart' /\ SignersApart']_vars
  OBVIOUS
<1>5. QED
  BY <1>1, <1>2, <1>3, <1>4, PTL DEF Spec, ApartSpec
=============================================================================
