----------------------------- MODULE HashesProofs -----------------------------
(***************************************************************************)
(* The published hash of a signed PDF (HashesMatchFiles of RemoteSigning), *)
(* for any number of workers, requests and documents.  The file is         *)
(* written, hashed and published by three steps, and other handlers may    *)
(* write files of the same document between them.                          *)
(***************************************************************************)
EXTENDS RemoteSigningProofs

\* A handler there may still write the file of its request, or publish its hash.
Unsaved == {"sealed", "padesRead", "padesWritten", "padesHashed", "finalHashed"}

\* No handler will write the file of r any more.
Settled(r) == \A w \in Worker : pc[w] \in Unsaved => loc[w].request # r

\* No other request on the document writes the file that r writes.
SoleWriter(r) == SignsAsOfficer(r) => OneOfficerRequest(req[r].doc)

\* The current PDF of d is the file of r.
SavedOn(d, r) ==
  /\ Signed(r) /\ req[r].doc = d /\ OutputPath(r) = doc[d].current
  /\ Settled(r)
  /\ SoleWriter(r) => doc[d].currentHash = files[d][doc[d].current]

CurrentSaved == \A d \in Document : doc[d].current # None => \E r \in Request : SavedOn(d, r)

\* A handler that has hashed its file holds the hash of what the file contains.
HashedAt(w) ==
  pc[w] \in {"padesHashed", "finalHashed"} /\ SoleWriter(loc[w].request)
    => loc[w].hash = files[loc[w].doc][OutputPath(loc[w].request)]

\* The inductive invariant.
HInv == IInv /\ CurrentSaved /\ \A w \in Worker : HashedAt(w)

-----------------------------------------------------------------------------
(***************************************************************************)
(* Who writes which file.                                                  *)
(***************************************************************************)

\* Two requests on one document write different files, unless officers were
\* asked twice.
LEMMA SameFile ==
  ASSUME NEW q \in Request, NEW r \in Request,
         req[q].status # "NONE", req[r].status # "NONE", req[q].doc = req[r].doc,
         OutputPath(q) = OutputPath(r), SoleWriter(r)
  PROVE  q = r
<1>1. q # Final /\ r # Final
  BY Constants
<1>2. CASE SignsAsOfficer(r)
  <2>1. SignsAsOfficer(q)
    BY <1>1, <1>2 DEF OutputPath
  <2>2. q \in OfficerRequests(req[r].doc) /\ r \in OfficerRequests(req[r].doc)
    BY <1>2, <2>1 DEF SignsAsOfficer, OfficerRequests, RequestsOn
  <2>3. QED
    BY <1>2, <2>2 DEF SoleWriter, OneOfficerRequest
<1>3. CASE ~SignsAsOfficer(r)
  BY <1>1, <1>3 DEF OutputPath
<1>4. QED
  BY <1>2, <1>3

\* A request writes the same file for good, and is a sole writer only if it
\* always was.
LEMMA FileKept ==
  ASSUME Keeps, NEW r \in Request, req[r].status # "NONE"
  PROVE  /\ req'[r].status # "NONE" /\ req'[r].doc = req[r].doc
         /\ OutputPath(r)' = OutputPath(r)
         /\ SoleWriter(r)' => SoleWriter(r)
<1>1. req'[r].status # "NONE" /\ req'[r].doc = req[r].doc /\ req'[r].signer = req[r].signer
  BY DEF Keeps
<1>2. SignsAsOfficer(r)' = SignsAsOfficer(r)
  BY <1>1 DEF SignsAsOfficer
<1>3. OutputPath(r)' = OutputPath(r)
  BY <1>2 DEF OutputPath
<1>4. \A d : OfficerRequests(d) \subseteq OfficerRequests(d)'
  BY DEF Keeps, OfficerRequests, RequestsOn
<1>5. OneOfficerRequest(req[r].doc)' => OneOfficerRequest(req[r].doc)
  BY <1>1, <1>4 DEF OneOfficerRequest
<1>6. SoleWriter(r)' => SoleWriter(r)
  BY <1>1, <1>2, <1>5 DEF SoleWriter
<1>7. QED
  BY <1>1, <1>3, <1>6

\* A handler whose position is one of Unsaved was there before, or has sealed
\* its request just now.
LEMMA UnsavedStep ==
  ASSUME IInv, [Next]_vars, NEW w \in Worker, pc'[w] \in Unsaved
  PROVE  loc'[w].request = loc[w].request /\ pc[w] \in BeforeSeal \cup Unsaved
<1> USE DEF IInv
<1>1. CASE pc'[w] = pc[w] /\ loc'[w] = loc[w]
  BY <1>1
<1>2. CASE Begin(w) \/ Create(w) \/ Sign(w) \/ Crash(w)
  <2>1. ~CreateRecord(w)
    BY DEF CreateRecord, Goto, Return, Typed, Unsaved
  <2>2. pc[w] \in Late /\ loc'[w].request = loc[w].request
    BY <1>2, <2>1, LateStep DEF Unsaved, Late, AfterSeal
  <2>3. ASSUME pc[w] \in {"approval", "approvalCreate"} PROVE FALSE
    <3> USE <2>3 DEF Typed, Goto, Return, Unsaved
    <3>1. CASE Begin(w)
      BY <3>1 DEF Begin, BeginCitizenRequest, BeginOfficerRequest, BeginAuthorityRequest,
                  BeginCreate, LoadRequest
    <3>2. CASE Create(w)
      BY <3>2 DEF Create, CreateRequest, MarkPendingSign
    <3>3. CASE CheckNoRecord(w) \/ ReadCertificate(w) \/ ReadInput(w) \/ CallTsp(w)
      BY <3>3 DEF CheckNoRecord, ReadCertificate, ReadInput, CallTsp
    <3>4. CASE SaveTimestamp(w) \/ SaveDocumentStatus(w) \/ SealRequest(w)
      BY <3>4 DEF SaveTimestamp, SaveDocumentStatus, SealRequest
    <3>5. CASE ReadPadesInput(w) \/ WritePades(w) \/ HashPades(w) \/ HashFinal(w) \/ SavePades(w)
      BY <3>5 DEF ReadPadesInput, WritePades, HashPades, HashFinal, SavePades
    <3>6. CASE LookupApproval(w) \/ \E r \in Request : CreateApproval(w, r)
      BY <3>6 DEF LookupApproval, CreateApproval
    <3>7. CASE Crash(w)
      BY <3>7 DEF Crash
    <3>8. QED
      BY <1>2, <2>1, <3>1, <3>2, <3>3, <3>4, <3>5, <3>6, <3>7 DEF Sign
  <2>4. QED
    BY <2>2, <2>3 DEF Late, AfterSeal, Unsaved
<1>3. QED
  BY <1>1, <1>2, OneMoves

\* A handler that has hashed its file has done so before, or does it now.
LEMMA HashedStep ==
  ASSUME Typed, [Next]_vars, NEW w \in Worker, pc'[w] \in {"padesHashed", "finalHashed"}
  PROVE  \/ pc'[w] = pc[w] /\ loc'[w] = loc[w]
         \/ HashPades(w) \/ HashFinal(w)
<1>1. ASSUME Begin(w) \/ Create(w) \/ Sign(w) \/ Crash(w) PROVE HashPades(w) \/ HashFinal(w)
  <2> USE DEF Typed, Goto, Return
  <2>1. CASE Begin(w)
    BY <2>1 DEF Begin, BeginCitizenRequest, BeginOfficerRequest, BeginAuthorityRequest,
                BeginCreate, LoadRequest
  <2>2. CASE Create(w)
    BY <2>2 DEF Create, CreateRequest, MarkPendingSign
  <2>3. CASE CheckNoRecord(w) \/ ReadCertificate(w) \/ ReadInput(w) \/ CallTsp(w) \/ CreateRecord(w)
    BY <2>3 DEF CheckNoRecord, ReadCertificate, ReadInput, CallTsp, CreateRecord
  <2>4. CASE SaveTimestamp(w) \/ SaveDocumentStatus(w) \/ SealRequest(w)
    BY <2>4 DEF SaveTimestamp, SaveDocumentStatus, SealRequest
  <2>5. CASE ReadPadesInput(w) \/ WritePades(w) \/ SavePades(w)
    BY <2>5 DEF ReadPadesInput, WritePades, SavePades
  <2>6. CASE LookupApproval(w) \/ \E r \in Request : CreateApproval(w, r)
    BY <2>6 DEF LookupApproval, CreateApproval
  <2>7. CASE Crash(w)
    BY <2>7 DEF Crash
  <2>8. QED
    BY <1>1, <2>1, <2>2, <2>3, <2>4, <2>5, <2>6, <2>7 DEF Sign
<1>2. QED
  BY <1>1, OneMoves

\* A handler in Unsaved has a SIGNED request on its document.
LEMMA UnsavedHandler ==
  ASSUME IInv, NEW w \in Worker, pc[w] \in Unsaved
  PROVE  /\ loc[w].request \in Request /\ Signed(loc[w].request)
         /\ loc[w].doc = req[loc[w].request].doc /\ loc[w].doc \in Document
         /\ loc[w] \in Local
<1>1. pc[w] \in AfterSeal /\ pc[w] \in Signing
  BY DEF Unsaved, AfterSeal, Signing
<1>2. QED
  BY <1>1, SigningHandler DEF IInv, HandlersAgree

\* A file changes only by the handler of a request that writes it.
LEMMA FileWritten ==
  ASSUME IInv, [Next]_vars, NEW d \in Document, NEW r \in Request,
         Signed(r), req[r].doc = d, SoleWriter(r),
         files'[d][OutputPath(r)] # files[d][OutputPath(r)]
  PROVE  \E w \in Worker : WritePades(w) /\ pc[w] \in Unsaved /\ loc[w].request = r
<1>1. PICK w \in Worker : WritePades(w)
  BY DocumentWrites
<1>2. pc[w] \in Unsaved
  BY <1>1 DEF WritePades, Goto, Unsaved
<1> DEFINE q == loc[w].request
<1>3. q \in Request /\ Signed(q) /\ loc[w].doc = req[q].doc /\ loc[w].doc \in Document
  BY <1>2, UnsavedHandler
<1>4. OutputPath(q) \in Path /\ OutputPath(r) \in Path
  BY <1>3, OutputPathType
<1>5. loc[w].doc = d /\ OutputPath(q) = OutputPath(r)
  BY <1>1, <1>3, <1>4 DEF WritePades, IInv, Typed
<1>6. q = r
  BY <1>3, <1>5, SameFile DEF Signed
<1>7. QED
  BY <1>1, <1>2, <1>6

-----------------------------------------------------------------------------
(***************************************************************************)
(* The inductive invariant.                                                *)
(***************************************************************************)

\* The hash that a handler holds stays the hash of its file.
LEMMA HashedKept ==
  ASSUME HInv, [Next]_vars, NEW w \in Worker
  PROVE  HashedAt(w)'
<1> USE DEF HInv
<1> SUFFICES ASSUME pc'[w] \in {"padesHashed", "finalHashed"}, SoleWriter(loc[w].request)'
             PROVE  loc'[w].hash = (files[loc[w].doc][OutputPath(loc[w].request)])'
  BY DEF HashedAt
<1>1. Typed /\ Keeps
  BY KeepsStep DEF IInv
<1>2. (pc'[w] = pc[w] /\ loc'[w] = loc[w]) \/ HashPades(w) \/ HashFinal(w)
  BY <1>1, HashedStep
<1>3. pc[w] \in Unsaved
  BY <1>2 DEF HashPades, HashFinal, Goto, Unsaved
<1>4. PICK r \in Request : r = loc[w].request
  BY <1>3, UnsavedHandler
<1>5. Signed(r) /\ loc[w].doc = req[r].doc /\ loc[w].doc \in Document /\ loc[w] \in Local
  BY <1>3, <1>4, UnsavedHandler
<1>6. loc'[w].request = r /\ loc'[w].doc = loc[w].doc
  BY <1>1, <1>2, <1>4, <1>5 DEF HashPades, HashFinal, Typed, Local
<1>7. OutputPath(r)' = OutputPath(r) /\ (SoleWriter(r)' => SoleWriter(r))
  BY <1>1, <1>5, FileKept DEF Signed
<1>8. SoleWriter(loc[w].request)' => SoleWriter(r)'
  BY <1>6 DEF SoleWriter, SignsAsOfficer
<1>9. OutputPath(loc[w].request)' = OutputPath(r)'
  BY <1>6 DEF OutputPath, SignsAsOfficer
<1>10. SoleWriter(r)
  BY <1>7, <1>8
<1> SUFFICES loc'[w].hash = files'[loc[w].doc][OutputPath(r)]
  BY <1>6, <1>7, <1>9
<1>11. CASE pc'[w] = pc[w] /\ loc'[w] = loc[w]
  <2>1. loc[w].hash = files[loc[w].doc][OutputPath(r)]
    BY <1>4, <1>10, <1>11 DEF HashedAt
  <2>2. files'[loc[w].doc][OutputPath(r)] = files[loc[w].doc][OutputPath(r)]
    <3> SUFFICES ASSUME files'[loc[w].doc][OutputPath(r)] # files[loc[w].doc][OutputPath(r)]
                 PROVE  FALSE
      OBVIOUS
    <3>1. PICK v \in Worker : WritePades(v) /\ pc[v] \in Unsaved /\ loc[v].request = r
      BY <1>5, <1>10, FileWritten
    <3>2. v = w
      BY <1>3, <1>4, <3>1 DEF IInv, SingleFinisher, Unsaved, AfterSeal
    <3>3. QED
      BY <1>1, <1>11, <3>1, <3>2 DEF WritePades, Goto, Typed
  <2>3. QED
    BY <1>11, <2>1, <2>2
<1>12. CASE HashPades(w)
  BY <1>1, <1>4, <1>5, <1>12 DEF HashPades, Typed, Local, dbVars
<1>13. CASE HashFinal(w)
  <2>1. loc'[w].hash = loc[w].hash /\ UNCHANGED files /\ pc[w] = "padesHashed"
    BY <1>1, <1>5, <1>13 DEF HashFinal, Goto, Typed, Local, dbVars
  <2>2. QED
    BY <1>4, <1>10, <2>1 DEF HashedAt
<1>14. QED
  BY <1>2, <1>11, <1>12, <1>13

\* Nobody comes back to a request that is settled.
LEMMA SettledKept ==
  ASSUME IInv, [Next]_vars, NEW r \in Request, Signed(r), Settled(r)
  PROVE  Settled(r)'
<1> SUFFICES ASSUME NEW w \in Worker, pc'[w] \in Unsaved, loc'[w].request = r PROVE FALSE
  BY DEF Settled
<1>1. loc[w].request = r /\ pc[w] \in BeforeSeal
  BY UnsavedStep DEF Settled
<1>2. QED
  BY <1>1 DEF IInv, HandlersAgree, Signed

\* The current PDF changes only by the handler that saves it.
LEMMA CurrentKept ==
  ASSUME Typed, [Next]_vars, NEW d \in Document,
         ~\E w \in Worker : SavePades(w) /\ loc[w].doc = d
  PROVE  doc'[d].current = doc[d].current /\ doc'[d].currentHash = doc[d].currentHash
<1>1. doc[d] \in DocumentRow
  BY DEF Typed
<1>2. CASE UNCHANGED doc
  BY <1>2
<1>3. ASSUME NEW w \in Worker, SaveDocumentStatus(w) \/ MarkPendingSign(w)
      PROVE  doc'[d].current = doc[d].current /\ doc'[d].currentHash = doc[d].currentHash
  BY <1>1, <1>3 DEF SaveDocumentStatus, MarkPendingSign, Typed, DocumentRow
<1>4. ASSUME NEW w \in Worker, SavePades(w) PROVE doc'[d] = doc[d]
  BY <1>4 DEF SavePades, Typed
<1>5. QED
  BY <1>2, <1>3, <1>4, DocumentWrites

\* The current PDF stays the settled file of a SIGNED request, under its hash.
LEMMA CurrentStep ==
  ASSUME HInv, [Next]_vars
  PROVE  CurrentSaved'
<1> USE DEF HInv
<1>1. Typed /\ Keeps
  BY KeepsStep DEF IInv
<1> SUFFICES ASSUME NEW d \in Document, doc'[d].current # None
             PROVE  \E r \in Request : SavedOn(d, r)'
  BY DEF CurrentSaved
<1>2. ASSUME NEW w \in Worker, SavePades(w), loc[w].doc = d
      PROVE  \E r \in Request : SavedOn(d, r)'
  <2>1. pc[w] \in Unsaved /\ pc[w] \in {"padesHashed", "finalHashed"}
    BY <1>2 DEF SavePades, Unsaved
  <2> PICK r \in Request : r = loc[w].request
    BY <2>1, UnsavedHandler
  <2>2. Signed(r) /\ req[r].doc = d
    BY <1>2, <2>1, UnsavedHandler
  <2>3. UNCHANGED <<req, files>> /\ pc'[w] \in {"approval", "idle"}
    BY <1>1, <1>2 DEF SavePades, Return, Typed
  <2>4. Signed(r)' /\ req'[r].doc = d /\ OutputPath(r)' = OutputPath(r) /\ (SoleWriter(r)' => SoleWriter(r))
    BY <1>1, <2>2, <2>3, FileKept DEF Signed
  <2>5. doc'[d].current = OutputPath(r) /\ doc'[d].currentHash = loc[w].hash
    <3>1. doc[d] \in DocumentRow
      BY <1>1 DEF Typed
    <3>2. QED
      BY <1>1, <1>2, <3>1 DEF SavePades, Typed, DocumentRow
  <2>6. Settled(r)'
    <3> SUFFICES ASSUME NEW v \in Worker, pc'[v] \in Unsaved, loc'[v].request = r PROVE FALSE
      BY DEF Settled
    <3>1. v # w
      BY <2>3 DEF Unsaved
    <3>2. pc[v] \in Unsaved /\ loc[v].request = r
      BY <1>1, <1>2, <3>1, OthersStay DEF Sign
    <3>3. QED
      BY <2>1, <3>1, <3>2 DEF IInv, SingleFinisher, Unsaved, AfterSeal
  <2>7. SoleWriter(r) => loc[w].hash = files[d][OutputPath(r)]
    BY <1>2, <2>1 DEF HashedAt
  <2>8. QED
    BY <2>2, <2>3, <2>4, <2>5, <2>6, <2>7 DEF SavedOn
<1>3. CASE ~\E w \in Worker : SavePades(w) /\ loc[w].doc = d
  <2>1. doc'[d].current = doc[d].current /\ doc'[d].currentHash = doc[d].currentHash
    BY <1>1, <1>3, CurrentKept
  <2>2. PICK r \in Request : SavedOn(d, r)
    BY <2>1 DEF CurrentSaved
  <2>3. Signed(r) /\ req[r].doc = d /\ OutputPath(r) = doc[d].current /\ Settled(r)
    BY <2>2 DEF SavedOn
  <2>4. Signed(r)'
    BY <1>1, <2>3 DEF Keeps, Signed
  <2>5. req'[r].doc = d /\ OutputPath(r)' = OutputPath(r) /\ (SoleWriter(r)' => SoleWriter(r))
    BY <1>1, <2>3, FileKept DEF Signed
  <2>6. Settled(r)'
    BY <2>3, SettledKept
  <2>7. ASSUME SoleWriter(r)' PROVE files'[d][doc[d].current] = files[d][doc[d].current]
    BY <2>3, <2>5, <2>7, FileWritten DEF Settled
  <2>8. SoleWriter(r)' => doc'[d].currentHash = files'[d][doc'[d].current]
    BY <2>1, <2>2, <2>5, <2>7 DEF SavedOn
  <2>9. SavedOn(d, r)'
    BY <2>1, <2>3, <2>4, <2>5, <2>6, <2>8 DEF SavedOn
  <2>10. QED
    BY <2>9
<1>4. QED
  BY <1>2, <1>3

\* At first nothing is published, and no handler holds a hash.
LEMMA HInvInit == Init => HInv
<1> SUFFICES ASSUME Init PROVE HInv
  OBVIOUS
<1>1. CurrentSaved
  BY DEF Init, CurrentSaved
<1>2. \A w \in Worker : HashedAt(w)
  BY DEF Init, HashedAt
<1>3. QED
  BY <1>1, <1>2, IInvInit DEF HInv

\* A step keeps the invariant.
LEMMA HInvStep == HInv /\ [Next]_vars => HInv'
<1> SUFFICES ASSUME HInv, [Next]_vars PROVE HInv'
  OBVIOUS
<1>1. IInv'
  BY IInvStep DEF HInv
<1>2. CurrentSaved'
  BY CurrentStep
<1>3. ASSUME NEW w \in Worker PROVE HashedAt(w)'
  BY HashedKept
<1>4. QED
  BY <1>1, <1>2, <1>3 DEF HInv

\* What the invariant says of a published hash.
LEMMA HInvHashes == HInv => HashesMatchFiles
<1> SUFFICES ASSUME HInv, NEW d \in Document, doc[d].current # None,
                    doc[d].current = Final => OneOfficerRequest(d)
             PROVE  doc[d].currentHash = files[d][doc[d].current]
  BY DEF HashesMatchFiles
<1>1. PICK r \in Request : SavedOn(d, r)
  BY DEF HInv, CurrentSaved
<1>2. SoleWriter(r)
  BY <1>1 DEF SavedOn, SoleWriter, OutputPath
<1>3. QED
  BY <1>1, <1>2 DEF SavedOn

\* The published hash of the current PDF is that of its file, for any number of
\* handlers that write files of the document meanwhile, as long as officers
\* were not asked twice.
THEOREM HashesPublished == Spec => []HashesMatchFiles
BY HInvInit, HInvStep, HInvHashes, PTL DEF Spec
=============================================================================
