------------------------ MODULE DocumentWorkflowProofs ------------------------
(***************************************************************************)
(* Proofs about DocumentWorkflow for any number of documents, requests,    *)
(* citizens and officers.                                                  *)
(***************************************************************************)
EXTENDS DocumentWorkflow, TLAPS

\* What a PDF of d embeds are the signatures of SIGNED requests on d.
PdfOn(d) ==
  \A q \in Request :
    In(q, doc[d].current) \/ In(q, doc[d].final) => q \in Signed(d)

FollowedOn(d) ==
  (\E q \in Request : In(q, doc[d].current) /\ req[q].signer = Owner[d])
    => \E q \in On(d) : req[q].signer \in Authority

FinalOn(d) ==
  \/ Extends(doc[d].current, doc[d].final)
  \/ /\ doc[d].current # <<>>
     /\ req[doc[d].current[1]].type = "CLIENT" /\ ~In(doc[d].current[1], doc[d].final)

ShownOn(d) ==
  doc[d].status = "SIGNED" =>
    \/ doc[d].final # <<>> /\ doc[d].current = doc[d].final
    \/ \E q \in Signed(d) : req[q].purpose = "OFFICER_APPROVAL" /\ ~In(q, doc[d].final)

PdfsSound ==
  \A d \in Document :
    PdfOn(d) /\ (d \notin unattended => FollowedOn(d)) /\ FinalOn(d) /\ ShownOn(d)

\* Only officers are asked for approvals, and only for remote ones.
ApprovalShape ==
  \A q \in Request : req[q].purpose = "OFFICER_APPROVAL" =>
    req[q].type = "REMOTE" /\ req[q].signer \in Officer

\* The inductive invariant.
IInv == TypeOK /\ PdfsSound /\ ApprovalShape /\ OneApprovalPerOfficer

\* Rows are written once; after that they only expire or are signed.
RowsKept ==
  \A q \in Request : req[q].status # "NONE" =>
    /\ req'[q].status # "NONE"
    /\ req[q].status = "SIGNED" => req'[q].status = "SIGNED"
    /\ req'[q].doc = req[q].doc /\ req'[q].signer = req[q].signer
    /\ req'[q].type = req[q].type /\ req'[q].purpose = req[q].purpose

-----------------------------------------------------------------------------
(***************************************************************************)
(* Signed PDFs.                                                            *)
(***************************************************************************)

\* A signature is added at the end.
LEMMA Appended ==
  ASSUME NEW pdf \in Seq(Request), NEW r \in Request
  PROVE  /\ Append(pdf, r) \in Seq(Request) /\ Append(pdf, r) # <<>>
         /\ \A q : In(q, Append(pdf, r)) <=> In(q, pdf) \/ q = r
         /\ pdf # <<>> => Append(pdf, r)[1] = pdf[1]
         /\ \A base \in Seq(Request) : Extends(pdf, base) => Extends(Append(pdf, r), base)
<1>1. /\ Append(pdf, r) \in Seq(Request) /\ Append(pdf, r) # <<>>
      /\ Len(Append(pdf, r)) = Len(pdf) + 1 /\ Len(pdf) \in Nat
      /\ \A i \in 1..Len(pdf) : Append(pdf, r)[i] = pdf[i]
      /\ Append(pdf, r)[Len(pdf) + 1] = r
  OBVIOUS
<1>2. ASSUME NEW q PROVE In(q, Append(pdf, r)) <=> In(q, pdf) \/ q = r
  <2>1. CASE In(q, Append(pdf, r))
    <3>1. PICK i \in 1..(Len(pdf) + 1) : Append(pdf, r)[i] = q
      BY <1>1, <2>1 DEF In
    <3>2. i \in 1..Len(pdf) \/ i = Len(pdf) + 1
      BY <1>1
    <3>3. QED
      BY <1>1, <2>1, <3>1, <3>2 DEF In
  <2>2. ASSUME In(q, pdf) PROVE In(q, Append(pdf, r))
    <3>1. PICK i \in 1..Len(pdf) : pdf[i] = q
      BY <2>2 DEF In
    <3>2. i \in 1..Len(Append(pdf, r)) /\ Append(pdf, r)[i] = q
      BY <1>1, <3>1
    <3>3. QED
      BY <3>2 DEF In
  <2>3. In(r, Append(pdf, r))
    <3>1. Len(pdf) + 1 \in 1..Len(Append(pdf, r))
      BY <1>1
    <3>2. QED
      BY <1>1, <3>1 DEF In
  <2>4. QED
    BY <2>1, <2>2, <2>3
<1>3. ASSUME pdf # <<>> PROVE Append(pdf, r)[1] = pdf[1]
  <2>1. 1 \in 1..Len(pdf)
    BY <1>1, <1>3
  <2>2. QED
    BY <1>1, <2>1
<1>4. ASSUME NEW base \in Seq(Request), Extends(pdf, base)
      PROVE  Extends(Append(pdf, r), base)
  <2>1. Len(base) \in Nat /\ Len(base) <= Len(pdf)
    BY <1>4 DEF Extends
  <2>2. \A i \in 1..Len(base) : i \in 1..Len(pdf) /\ pdf[i] = base[i]
    BY <1>1, <1>4, <2>1 DEF Extends
  <2>3. QED
    BY <1>1, <2>1, <2>2 DEF Extends
<1>5. QED
  BY <1>1, <1>2, <1>3, <1>4

\* A PDF with one signature.
LEMMA Alone ==
  ASSUME NEW r \in Request
  PROVE  /\ <<r>> \in Seq(Request) /\ <<r>> # <<>> /\ <<r>>[1] = r
         /\ \A q : In(q, <<r>>) <=> q = r
<1>1. <<r>> \in Seq(Request) /\ <<r>> # <<>> /\ <<r>>[1] = r /\ Len(<<r>>) = 1
  OBVIOUS
<1>2. 1 \in 1..1 /\ \A i \in 1..1 : i = 1
  OBVIOUS
<1>3. QED
  BY <1>1, <1>2 DEF In

\* The first signature of a signed PDF is in it.
LEMMA FirstIn ==
  ASSUME NEW pdf \in Seq(Request), pdf # <<>>
  PROVE  pdf[1] \in Request /\ In(pdf[1], pdf)
<1>1. 1 \in 1..Len(pdf)
  OBVIOUS
<1>2. QED
  BY <1>1 DEF In

\* Every PDF extends itself and the upload; the upload has no signature.
LEMMA OfEmpty ==
  ASSUME NEW pdf \in Seq(Request)
  PROVE  /\ Extends(pdf, pdf) /\ Extends(pdf, <<>>)
         /\ Extends(<<>>, pdf) => pdf = <<>>
         /\ \A q : ~In(q, <<>>)
<1>1. Len(<<>>) = 0 /\ Len(pdf) \in Nat /\ 1..0 = {}
  OBVIOUS
<1>2. Len(pdf) = 0 => pdf = <<>>
  OBVIOUS
<1>3. QED
  BY <1>1, <1>2 DEF Extends, In

\* A document whose PDFs stay as they are stays sound, if its status stays, too,
\* or is not set to SIGNED.
LEMMA SameDocument ==
  ASSUME IInv, RowsKept, NEW d \in Document,
         doc'[d].current = doc[d].current, doc'[d].final = doc[d].final,
         doc'[d].status = doc[d].status \/ doc'[d].status # "SIGNED"
  PROVE  PdfOn(d)' /\ (d \notin unattended => FollowedOn(d)') /\ FinalOn(d)' /\ ShownOn(d)'
<1> USE DEF IInv, PdfsSound
<1>1. doc[d].current \in Seq(Request) /\ doc[d].final \in Seq(Request)
  BY DEF TypeOK, Typed, DocumentRow
<1>2. \A q \in Signed(d) : q \in Signed(d)' /\ req'[q].purpose = req[q].purpose
                           /\ req'[q].type = req[q].type /\ req'[q].signer = req[q].signer
  BY DEF Signed, On, RowsKept
<1>3. \A q \in On(d) : q \in On(d)' /\ req'[q].signer = req[q].signer
  BY DEF On, RowsKept
<1>4. PdfOn(d)'
  BY <1>2 DEF PdfOn
<1>5. ASSUME d \notin unattended PROVE FollowedOn(d)'
  BY <1>2, <1>3, <1>5 DEF PdfOn, FollowedOn
<1>6. FinalOn(d)'
  BY <1>1, <1>2, FirstIn DEF PdfOn, FinalOn
<1>7. ShownOn(d)'
  BY <1>2 DEF ShownOn
<1>8. QED
  BY <1>4, <1>5, <1>6, <1>7

-----------------------------------------------------------------------------
(***************************************************************************)
(* What the handlers do to the table of requests.                          *)
(***************************************************************************)

\* A new row has the type of rows, and says what it was made of.
LEMMA RowIsTyped ==
  ASSUME NEW d \in Document, NEW s \in User, NEW t \in Type, NEW p \in Purpose
  PROVE  /\ NewRow(d, s, t, p) \in RequestRow
         /\ NewRow(d, s, t, p).status = "PENDING"
         /\ NewRow(d, s, t, p).doc = d /\ NewRow(d, s, t, p).signer = s
         /\ NewRow(d, s, t, p).type = t /\ NewRow(d, s, t, p).purpose = p
BY DEF NewRow, RequestRow

\* A new row takes a free key.
LEMMA Inserted ==
  ASSUME req \in [Request -> RequestRow], NEW r \in Request, NEW row \in RequestRow,
         row.status # "NONE", Insert(r, row)
  PROVE  /\ req' \in [Request -> RequestRow] /\ RowsKept
         /\ req[r].status = "NONE" /\ req'[r] = row
         /\ \A q \in Request : q # r => req'[q] = req[q]
<1>1. req[r].status = "NONE" /\ req' = [req EXCEPT ![r] = row]
  BY DEF Insert, NextKey, Free
<1>2. req' \in [Request -> RequestRow] /\ req'[r] = row
      /\ \A q \in Request : q # r => req'[q] = req[q]
  BY <1>1
<1>3. RowsKept
  BY <1>1, <1>2 DEF RowsKept
<1>4. QED
  BY <1>1, <1>2, <1>3

\* A pending row is sealed.
LEMMA SealedRow ==
  ASSUME req \in [Request -> RequestRow], NEW r \in Request, req[r].status = "PENDING",
         req' = Sealed(r)
  PROVE  /\ req' \in [Request -> RequestRow] /\ RowsKept
         /\ req'[r] = [req[r] EXCEPT !.status = "SIGNED"]
         /\ \A q \in Request : q # r => req'[q] = req[q]
<1>1. req' = [req EXCEPT ![r] = [req[r] EXCEPT !.status = "SIGNED"]]
  BY DEF Sealed, RequestRow
<1>2. [req[r] EXCEPT !.status = "SIGNED"] \in RequestRow
  BY DEF RequestRow
<1>3. req' \in [Request -> RequestRow] /\ req'[r] = [req[r] EXCEPT !.status = "SIGNED"]
      /\ \A q \in Request : q # r => req'[q] = req[q]
  BY <1>1, <1>2
<1>4. RowsKept
  BY <1>3 DEF RowsKept, RequestRow
<1>5. QED
  BY <1>3, <1>4

\* A pending row is sealed, and a free key taken for the request that follows.
LEMMA SealedAndAsked ==
  ASSUME req \in [Request -> RequestRow], NEW r \in Request, req[r].status = "PENDING",
         NEW f \in Request, req[f].status = "NONE",
         NEW row \in RequestRow, row.status = "PENDING",
         req' = [Sealed(r) EXCEPT ![f] = row]
  PROVE  /\ req' \in [Request -> RequestRow] /\ RowsKept
         /\ req'[r] = [req[r] EXCEPT !.status = "SIGNED"] /\ req'[f] = row
         /\ \A q \in Request : q \notin {r, f} => req'[q] = req[q]
<1>1. Sealed(r) = [req EXCEPT ![r] = [req[r] EXCEPT !.status = "SIGNED"]]
  BY DEF Sealed, RequestRow
<1>2. [req[r] EXCEPT !.status = "SIGNED"] \in RequestRow /\ r # f
  BY DEF RequestRow
<1>3. Sealed(r) \in [Request -> RequestRow]
      /\ Sealed(r)[r] = [req[r] EXCEPT !.status = "SIGNED"]
      /\ \A q \in Request : q # r => Sealed(r)[q] = req[q]
  BY <1>1, <1>2
<1>4. req' \in [Request -> RequestRow]
      /\ req'[r] = [req[r] EXCEPT !.status = "SIGNED"] /\ req'[f] = row
      /\ \A q \in Request : q \notin {r, f} => req'[q] = req[q]
  BY <1>2, <1>3
<1>5. RowsKept
  BY <1>4 DEF RowsKept, RequestRow
<1>6. QED
  BY <1>4, <1>5

\* The officer a look-up returns is an officer.
LEMMA FirstIsOfficer ==
  ASSUME NEW o, IsFirst(o) PROVE o \in Officer /\ o \in Authority /\ o \in User
BY DEF IsFirst, Available, Authority, User

\* The invariants about rows alone, after a step that adds at most one row.
LEMMA RowsSound ==
  ASSUME IInv, req' \in [Request -> RequestRow], RowsKept,
         doc' \in [Document -> DocumentRow],
         \A d \in Document : Exists(d) => Exists(d)',
         NEW f \in Request,
         \A q \in Request : q # f /\ req'[q].status # "NONE" => req[q].status # "NONE",
         \A q \in Request : q # f => req'[q].purpose = req[q].purpose
                                     /\ req'[q].type = req[q].type
                                     /\ req'[q].signer = req[q].signer,
         \A q \in Request : q # f /\ req'[q].status = "PENDING" => req[q].status = "PENDING",
         \/ /\ \/ req'[f].status = req[f].status
               \/ req[f].status = "PENDING" /\ req'[f].status = "SIGNED"
            /\ req'[f].purpose = req[f].purpose
            /\ req'[f].type = req[f].type /\ req'[f].signer = req[f].signer
         \/ /\ req'[f].doc \in Document /\ req'[f].signer \in User /\ doc'[req'[f].doc].status # "NONE"
            /\ req'[f].purpose = "OFFICER_APPROVAL" =>
                 /\ req'[f].type = "REMOTE" /\ req'[f].signer \in Officer
                 /\ \A q \in Approvals(req'[f].doc) : q # f => req'[q].status = "SIGNED"
                      \/ req[q].signer # req'[f].signer
  PROVE  RowsComplete' /\ ApprovalShape' /\ OneApprovalPerOfficer'
<1> USE DEF IInv
<1>1. ApprovalShape'
  BY DEF ApprovalShape
<1>2. RowsComplete'
  <2>1. ASSUME NEW q \in Request, req'[q].status # "NONE", req[q].status # "NONE"
        PROVE  req'[q].doc \in Document /\ req'[q].signer \in User /\ doc'[req'[q].doc].status # "NONE"
    BY <2>1 DEF TypeOK, RowsComplete, RowsKept, Exists
  <2>2. ASSUME NEW q \in Request, req'[q].status # "NONE", req[q].status = "NONE"
        PROVE  req'[q].doc \in Document /\ req'[q].signer \in User /\ doc'[req'[q].doc].status # "NONE"
    <3>1. q = f
      BY <2>2
    <3>2. QED
      BY <2>2, <3>1 DEF Exists
  <2>3. QED
    BY <2>1, <2>2 DEF RowsComplete
<1>3. ASSUME NEW d \in Document, NEW q \in Approvals(d)', NEW r \in Approvals(d)',
             req'[q].signer = req'[r].signer
      PROVE  q = r
  <2>1. \A x \in Approvals(d)' : x # f => x \in Approvals(d) /\ req'[x].signer = req[x].signer
    <3>1. ASSUME NEW x \in Approvals(d)', x # f
          PROVE x \in Approvals(d) /\ req'[x].signer = req[x].signer
      <4>1. x \in Request /\ req'[x].status = "PENDING" /\ req'[x].doc = d
            /\ req'[x].purpose = "OFFICER_APPROVAL"
        BY <3>1 DEF Approvals, Pending, On
      <4>2. req[x].status = "PENDING" /\ req[x].purpose = "OFFICER_APPROVAL"
            /\ req'[x].signer = req[x].signer
        BY <3>1, <4>1
      <4>3. req[x].doc = d
        BY <4>1, <4>2 DEF RowsKept
      <4>4. QED
        BY <4>1, <4>2, <4>3 DEF Approvals, Pending, On
    <3>2. QED
      BY <3>1
  <2>2. CASE q # f /\ r # f
    BY <1>3, <2>1, <2>2 DEF OneApprovalPerOfficer
  <2>3. ASSUME NEW x \in Approvals(d)', f \in Approvals(d)', x # f,
               req'[x].signer = req'[f].signer
        PROVE  FALSE
    <3>1. x \in Approvals(d) /\ req'[x].signer = req[x].signer
      BY <2>1, <2>3
    <3>2. req'[x].status = "PENDING" /\ req'[f].doc = d /\ x \in Request
          /\ req'[f].purpose = "OFFICER_APPROVAL" /\ req'[f].status = "PENDING"
      BY <2>3 DEF Approvals, Pending, On
    <3>3. CASE /\ \/ req'[f].status = req[f].status
                  \/ req[f].status = "PENDING" /\ req'[f].status = "SIGNED"
               /\ req'[f].purpose = req[f].purpose
               /\ req'[f].signer = req[f].signer
      <4>1. f \in Approvals(d)
        BY <3>2, <3>3 DEF Approvals, Pending, On, RowsKept
      <4>2. QED
        BY <2>3, <3>1, <3>3, <4>1 DEF OneApprovalPerOfficer
    <3>4. CASE \A y \in Approvals(req'[f].doc) : y # f => req'[y].status = "SIGNED"
                      \/ req[y].signer # req'[f].signer
      BY <2>3, <3>1, <3>2, <3>4
    <3>5. QED
      BY <3>2, <3>3, <3>4
  <2>4. QED
    BY <1>3, <2>2, <2>3
<1>4. OneApprovalPerOfficer'
  BY <1>3 DEF OneApprovalPerOfficer
<1>5. QED
  BY <1>1, <1>2, <1>4

\* A step that changes no PDF and makes no document SIGNED keeps all documents sound.
LEMMA DocumentsKept ==
  ASSUME IInv, RowsKept, unattended \subseteq unattended',
         \A d \in Document : /\ doc'[d].current = doc[d].current
                             /\ doc'[d].final = doc[d].final
                             /\ doc'[d].status = doc[d].status \/ doc'[d].status # "SIGNED"
  PROVE  PdfsSound'
<1>1. ASSUME NEW d \in Document
      PROVE  PdfOn(d)' /\ (d \notin unattended' => FollowedOn(d)') /\ FinalOn(d)' /\ ShownOn(d)'
  BY SameDocument
<1>2. QED
  BY <1>1 DEF PdfsSound

\* Setting the status of a document changes nothing else.
LEMMA StatusSet ==
  ASSUME doc \in [Document -> DocumentRow], NEW d \in Document,
         NEW s \in {"UPLOADED", "PENDING_SIGN", "SIGNED"}, SetStatus(d, s)
  PROVE  /\ doc' \in [Document -> DocumentRow] /\ doc'[d].status = s
         /\ \A e \in Document : /\ e # d => doc'[e] = doc[e]
                                /\ doc'[e].current = doc[e].current
                                /\ doc'[e].final = doc[e].final
                                /\ Exists(e) => Exists(e)'
<1>1. doc' = [doc EXCEPT ![d] = [doc[d] EXCEPT !.status = s]]
  BY DEF SetStatus, DocumentRow
<1>2. [doc[d] EXCEPT !.status = s] \in DocumentRow
  BY DEF DocumentRow
<1>3. /\ doc' \in [Document -> DocumentRow] /\ doc'[d] = [doc[d] EXCEPT !.status = s]
      /\ \A e \in Document : e # d => doc'[e] = doc[e]
  BY <1>1, <1>2
<1>4. QED
  BY <1>3 DEF Exists, DocumentRow

-----------------------------------------------------------------------------
(***************************************************************************)
(* Steps that give no signature.                                           *)
(***************************************************************************)

\* A row is inserted for a document that exists, or comes into being with it.
LEMMA AskSound ==
  ASSUME IInv, NEW d \in Document, NEW r \in Request, NEW s \in User, NEW t \in Type,
         NEW p \in Purpose, Insert(r, NewRow(d, s, t, p)),
         SetStatus(d, "PENDING_SIGN") \/ (doc' = doc /\ Exists(d)),
         p = "OFFICER_APPROVAL" =>
           t = "REMOTE" /\ s \in Officer /\ \A q \in Approvals(d) : req[q].signer # s,
         UNCHANGED <<verified, cert, unattended, events>>
  PROVE  IInv'
<1> DEFINE row == NewRow(d, s, t, p)
<1>1. /\ row \in RequestRow /\ row.status = "PENDING" /\ row.doc = d /\ row.signer = s
      /\ row.type = t /\ row.purpose = p
  BY RowIsTyped
<1>2. /\ req' \in [Request -> RequestRow] /\ RowsKept
      /\ req[r].status = "NONE" /\ req'[r] = row
      /\ \A q \in Request : q # r => req'[q] = req[q]
  <2>1. req \in [Request -> RequestRow] /\ row.status # "NONE" /\ Insert(r, row)
    BY <1>1 DEF IInv, TypeOK, Typed
  <2> HIDE DEF row
  <2>2. QED
    BY <1>1, <2>1, Inserted
<1> HIDE DEF row
<1>3. /\ doc' \in [Document -> DocumentRow]
      /\ \A e \in Document : /\ doc'[e].current = doc[e].current
                             /\ doc'[e].final = doc[e].final
                             /\ doc'[e].status = doc[e].status \/ doc'[e].status # "SIGNED"
                             /\ Exists(e) => Exists(e)'
      /\ doc'[d].status # "NONE"
  <2>1. doc \in [Document -> DocumentRow]
    BY DEF IInv, TypeOK, Typed
  <2>2. CASE SetStatus(d, "PENDING_SIGN")
    BY <2>1, <2>2, StatusSet
  <2>3. CASE doc' = doc /\ Exists(d)
    BY <2>1, <2>3 DEF Exists
  <2>4. QED
    BY <2>2, <2>3
<1>4. PdfsSound'
  BY <1>2, <1>3, DocumentsKept
<1>5. Typed'
  BY <1>2, <1>3 DEF IInv, TypeOK, Typed
<1>6. RowsComplete' /\ ApprovalShape' /\ OneApprovalPerOfficer'
  <2>1. /\ req'[r].doc \in Document /\ req'[r].signer \in User
        /\ doc'[req'[r].doc].status # "NONE"
    BY <1>1, <1>2, <1>3
  <2>2. req'[r].purpose = "OFFICER_APPROVAL" =>
          /\ req'[r].type = "REMOTE" /\ req'[r].signer \in Officer
          /\ \A q \in Approvals(req'[r].doc) : q # r => req'[q].status = "SIGNED"
                                                 \/ req[q].signer # req'[r].signer
    BY <1>1, <1>2
  <2>3. \A q \in Request : q # r =>
          /\ req'[q].status # "NONE" => req[q].status # "NONE"
          /\ req'[q].purpose = req[q].purpose /\ req'[q].type = req[q].type
          /\ req'[q].signer = req[q].signer
          /\ req'[q].status = "PENDING" => req[q].status = "PENDING"
    BY <1>2
  <2>4. QED
    BY <1>2, <1>3, <2>1, <2>2, <2>3, RowsSound
<1>7. QED
  BY <1>4, <1>5, <1>6 DEF IInv, TypeOK

\* The views, the form and the serializer that ask for a signature.
LEMMA OrderingSound ==
  ASSUME IInv, NEW d \in Document, Ordering(d) PROVE IInv'
<1> USE DEF Ask, Type, Purpose
<1>0. Owner[d] \in User
  BY WorkflowConstants DEF User
<1>1. ASSUME NEW r \in Request, GenerateForm(d, r) PROVE IInv'
  BY <1>0, <1>1, AskSound DEF GenerateForm
<1>2. ASSUME NEW r \in Request, ClientRequest(d, r) PROVE IInv'
  BY <1>0, <1>2, AskSound DEF ClientRequest
<1>3. ASSUME NEW r \in Request, CitizenRemoteRequest(d, r) PROVE IInv'
  BY <1>0, <1>3, AskSound DEF CitizenRemoteRequest
<1>4. ASSUME NEW r \in Request, NEW s \in User, NEW t \in Type, FormRequest(d, r, s, t)
      PROVE  IInv'
  BY <1>4, AskSound DEF FormRequest
<1>5. ASSUME NEW r \in Request, NEW s \in User, NEW t \in Type, RestRequest(d, r, s, t)
      PROVE  IInv'
  BY <1>5, AskSound DEF RestRequest
<1>6. ASSUME NEW r \in Request, NEW o \in Officer, OfficerRequest(d, r, o) PROVE IInv'
  <2>1. \A q \in Approvals(d) : req[q].signer # o
    BY <1>6 DEF OfficerRequest, Approvals, Pending, On, IInv, ApprovalShape
  <2>2. Insert(r, NewRow(d, o, "REMOTE", "OFFICER_APPROVAL")) /\ SetStatus(d, "PENDING_SIGN")
        /\ UNCHANGED <<verified, cert, unattended, events>>
    BY <1>6 DEF OfficerRequest
  <2>3. o \in User
    BY DEF User, Authority
  <2>4. QED
    BY <2>1, <2>2, <2>3, AskSound
<1>7. QED
  BY <1>1, <1>2, <1>3, <1>4, <1>5, <1>6 DEF Ordering

\* The authority submission.
LEMMA SubmitSound ==
  ASSUME IInv, NEW d \in Document, Submit(d) PROVE IInv'
<1>1. PICK r \in Request, o \in Officer : SubmitAuthority(d, r, o)
  BY DEF Submit
<1>2. \A q \in Approvals(d) : req[q].signer # o
  BY <1>1 DEF SubmitAuthority
<1>3. o \in User
  BY DEF User, Authority
<1>4. QED
  BY <1>1, <1>2, <1>3, AskSound DEF SubmitAuthority, Type, Purpose

\* What only rows are about stays true while they stay.
LEMMA SameRows ==
  ASSUME IInv, UNCHANGED req PROVE RowsKept /\ ApprovalShape' /\ OneApprovalPerOfficer'
BY DEF IInv, RowsKept, ApprovalShape, OneApprovalPerOfficer, Approvals, Pending, On

\* The upload.
LEMMA UploadSound ==
  ASSUME IInv, NEW d \in Document, Upload(d) PROVE IInv'
<1>1. SetStatus(d, "UPLOADED") /\ UNCHANGED <<req, verified, cert, unattended, events>>
  BY DEF Upload
<1>2. doc \in [Document -> DocumentRow]
  BY DEF IInv, TypeOK, Typed
<1>3. /\ doc' \in [Document -> DocumentRow] /\ doc'[d].status = "UPLOADED"
      /\ \A e \in Document : /\ e # d => doc'[e] = doc[e]
                             /\ doc'[e].current = doc[e].current
                             /\ doc'[e].final = doc[e].final
                             /\ Exists(e) => Exists(e)'
  BY <1>1, <1>2, StatusSet
<1>4. RowsKept /\ ApprovalShape' /\ OneApprovalPerOfficer'
  BY <1>1, SameRows
<1>5. PdfsSound'
  BY <1>1, <1>3, <1>4, DocumentsKept
<1>6. TypeOK'
  BY <1>1, <1>3 DEF IInv, TypeOK, Typed, RowsComplete, Exists
<1>7. QED
  BY <1>4, <1>5, <1>6 DEF IInv

\* The authority's decisions change no row of the workflow.
LEMMA StandingSound ==
  ASSUME IInv, NEW u \in User, Verify(u) \/ Reject(u) \/ Certify(u) \/ Revoke(u) \/ Lapse(u)
  PROVE  IInv'
<1>1. UNCHANGED <<req, doc, unattended>> /\ events' \in Nat
  BY DEF Verify, Reject, Certify, Revoke, Lapse, Event, IInv, TypeOK, Typed
<1>2. verified' \in SUBSET User /\ cert' \in [User -> CertState]
  BY DEF Verify, Reject, Certify, Revoke, Lapse, CertState, IInv, TypeOK, Typed
<1>3. RowsKept /\ ApprovalShape' /\ OneApprovalPerOfficer'
  BY <1>1, SameRows
<1>4. PdfsSound'
  BY <1>1, <1>3, DocumentsKept
<1>5. TypeOK'
  BY <1>1, <1>2 DEF IInv, TypeOK, Typed, RowsComplete
<1>6. QED
  BY <1>3, <1>4, <1>5 DEF IInv

\* Expiry.
LEMMA ExpireSound ==
  ASSUME IInv, NEW r \in Request, Expire(r) PROVE IInv'
<1>1. /\ req' = [req EXCEPT ![r].expired = TRUE]
      /\ UNCHANGED <<doc, unattended, verified, cert>> /\ events' \in Nat
  BY DEF Expire, Event, IInv, TypeOK, Typed
<1>2. /\ req' \in [Request -> RequestRow]
      /\ \A q \in Request : /\ req'[q].status = req[q].status /\ req'[q].doc = req[q].doc
                            /\ req'[q].signer = req[q].signer /\ req'[q].type = req[q].type
                            /\ req'[q].purpose = req[q].purpose
  BY <1>1 DEF IInv, TypeOK, Typed, RequestRow
<1>3. RowsKept
  BY <1>2 DEF RowsKept
<1>4. PdfsSound'
  BY <1>1, <1>3, DocumentsKept
<1>5. TypeOK'
  BY <1>1, <1>2 DEF IInv, TypeOK, Typed, RowsComplete
<1>6. ApprovalShape'
  BY <1>2 DEF IInv, ApprovalShape
<1>7. \A d \in Document : Approvals(d)' = Approvals(d)
  BY <1>2 DEF Approvals, Pending, On
<1>8. OneApprovalPerOfficer'
  BY <1>2, <1>7 DEF IInv, OneApprovalPerOfficer, Approvals, Pending, On
<1>9. QED
  BY <1>4, <1>5, <1>6, <1>8 DEF IInv

-----------------------------------------------------------------------------
(***************************************************************************)
(* Signatures.                                                             *)
(***************************************************************************)

\* What the rows of a sealing step look like, with and without a request that
\* follows.
LEMMA SealSound ==
  ASSUME IInv, NEW r \in Request, req[r].status = "PENDING", req' = Sealed(r),
         doc' \in [Document -> DocumentRow],
         \A d \in Document : Exists(d) => Exists(d)'
  PROVE  /\ req' \in [Request -> RequestRow] /\ RowsKept
         /\ req'[r].status = "SIGNED" /\ req[r].doc \in Document
         /\ RowsComplete' /\ ApprovalShape' /\ OneApprovalPerOfficer'
<1>1. /\ req' \in [Request -> RequestRow] /\ RowsKept
      /\ req'[r] = [req[r] EXCEPT !.status = "SIGNED"]
      /\ \A q \in Request : q # r => req'[q] = req[q]
  BY SealedRow DEF IInv, TypeOK, Typed
<1>2. /\ req'[r].status = "SIGNED" /\ req'[r].purpose = req[r].purpose
      /\ req'[r].type = req[r].type /\ req'[r].signer = req[r].signer
  BY <1>1 DEF IInv, TypeOK, Typed, RequestRow
<1>3. req[r].doc \in Document
  BY DEF IInv, TypeOK, RowsComplete
<1>4. RowsComplete' /\ ApprovalShape' /\ OneApprovalPerOfficer'
  <2>1. \A q \in Request : q # r =>
          /\ req'[q].status # "NONE" => req[q].status # "NONE"
          /\ req'[q].purpose = req[q].purpose /\ req'[q].type = req[q].type
          /\ req'[q].signer = req[q].signer
          /\ req'[q].status = "PENDING" => req[q].status = "PENDING"
    BY <1>1
  <2>2. QED
    BY <1>1, <1>2, <2>1, RowsSound
<1>5. QED
  BY <1>1, <1>2, <1>3, <1>4

\* After the signature r on d, its rows are sound, and an officer or admin was
\* asked about d if it is the owner's and there was an officer to ask.
LEMMA FollowUpSound ==
  ASSUME IInv, NEW r \in Request, req[r].status = "PENDING", NEW d \in Document,
         req[r].doc = d, NEW f \in Request, NEW o \in Officer, FollowUp(r, d, f, o),
         doc' \in [Document -> DocumentRow],
         \A e \in Document : Exists(e) => Exists(e)'
  PROVE  /\ req' \in [Request -> RequestRow] /\ RowsKept /\ req'[r].status = "SIGNED"
         /\ unattended \subseteq unattended' /\ unattended' \in SUBSET Document
         /\ RowsComplete' /\ ApprovalShape' /\ OneApprovalPerOfficer'
         /\ d \notin unattended' /\ req[r].signer = Owner[d] =>
              \E q \in On(d)' : req'[q].signer \in Authority
<1>0. unattended \in SUBSET Document /\ req \in [Request -> RequestRow]
  BY DEF IInv, TypeOK, Typed
<1>1. CASE /\ req[r].signer # Owner[d] \/ \E q \in On(d) : req[q].signer \in Authority
           /\ req' = Sealed(r) /\ UNCHANGED unattended
  <2>1. /\ req' \in [Request -> RequestRow] /\ RowsKept /\ req'[r].status = "SIGNED"
        /\ RowsComplete' /\ ApprovalShape' /\ OneApprovalPerOfficer'
    BY <1>1, SealSound
  <2>2. ASSUME req[r].signer = Owner[d]
        PROVE  \E q \in On(d)' : req'[q].signer \in Authority
    <3>1. PICK q \in On(d) : req[q].signer \in Authority
      BY <1>1, <2>2
    <3>2. q \in On(d)' /\ req'[q].signer = req[q].signer
      BY <2>1, <3>1 DEF On, RowsKept
    <3>3. QED
      BY <3>1, <3>2
  <2>3. QED
    BY <1>0, <1>1, <2>1, <2>2
<1>2. CASE req' = Sealed(r) /\ unattended' = unattended \cup {d}
  <2>1. /\ req' \in [Request -> RequestRow] /\ RowsKept /\ req'[r].status = "SIGNED"
        /\ RowsComplete' /\ ApprovalShape' /\ OneApprovalPerOfficer'
    BY <1>2, SealSound
  <2>2. QED
    BY <1>0, <1>2, <2>1
<1>3. CASE /\ ~\E q \in On(d) : req[q].signer \in Authority
           /\ IsFirst(o) /\ NextKey(f)
           /\ req' = [Sealed(r) EXCEPT ![f] = NewRow(d, o, "REMOTE", "OFFICER_APPROVAL")]
           /\ UNCHANGED unattended
  <2> DEFINE row == NewRow(d, o, "REMOTE", "OFFICER_APPROVAL")
  <2>1. o \in User /\ o \in Authority /\ req[f].status = "NONE"
    BY <1>3 DEF User, Authority, NextKey, Free
  <2>2. /\ row \in RequestRow /\ row.status = "PENDING" /\ row.doc = d /\ row.signer = o
        /\ row.type = "REMOTE" /\ row.purpose = "OFFICER_APPROVAL"
    BY <2>1, RowIsTyped DEF Type, Purpose
  <2>3. req' = [Sealed(r) EXCEPT ![f] = row]
    BY <1>3
  <2> HIDE DEF row
  <2>4. /\ req' \in [Request -> RequestRow] /\ RowsKept
        /\ req'[r] = [req[r] EXCEPT !.status = "SIGNED"] /\ req'[f] = row
        /\ \A q \in Request : q \notin {r, f} => req'[q] = req[q]
    BY <1>0, <2>1, <2>2, <2>3, SealedAndAsked
  <2>5. /\ req'[r].status = "SIGNED" /\ req'[r].purpose = req[r].purpose
        /\ req'[r].type = req[r].type /\ req'[r].signer = req[r].signer
    BY <1>0, <2>4 DEF RequestRow
  <2>6. Approvals(d) = {}
    BY <1>3 DEF Approvals, Pending, On, IInv, ApprovalShape, Authority
  <2>7. /\ req'[f].doc \in Document /\ req'[f].signer \in User
        /\ doc'[req'[f].doc].status # "NONE"
        /\ req'[f].type = "REMOTE" /\ req'[f].signer \in Officer
        /\ Approvals(req'[f].doc) = {}
    <3>1. Exists(d)
      BY DEF IInv, TypeOK, RowsComplete, Exists
    <3>2. Exists(d)'
      BY <3>1
    <3>3. QED
      BY <2>1, <2>2, <2>4, <2>6, <3>2 DEF Exists
  <2>8. \A q \in Request : q # f =>
          /\ req'[q].status # "NONE" => req[q].status # "NONE"
          /\ req'[q].purpose = req[q].purpose /\ req'[q].type = req[q].type
          /\ req'[q].signer = req[q].signer
          /\ req'[q].status = "PENDING" => req[q].status = "PENDING"
    BY <2>4, <2>5
  <2>9. RowsComplete' /\ ApprovalShape' /\ OneApprovalPerOfficer'
    BY <2>4, <2>7, <2>8, RowsSound
  <2>10. f \in On(d)' /\ req'[f].signer \in Authority
    BY <2>1, <2>2, <2>4 DEF On
  <2>11. QED
    BY <1>0, <1>3, <2>4, <2>5, <2>9, <2>10
<1>4. QED
  BY <1>1, <1>2, <1>3 DEF FollowUp

\* A signature that just was given is in no PDF yet.
LEMMA PendingInNone ==
  ASSUME IInv, NEW d \in Document, NEW r \in Request, req[r].status = "PENDING"
  PROVE  ~In(r, doc[d].current) /\ ~In(r, doc[d].final)
BY DEF IInv, PdfsSound, PdfOn, Signed, On

\* The document whose current PDF the owner's signature r extends, or starts over.
LEMMA CitizenPdf ==
  ASSUME IInv, RowsKept, NEW d \in Document, NEW r \in Request,
         req[r].status = "PENDING", req[r].doc = d, req'[r].status = "SIGNED",
         doc'[d].status = "PENDING_SIGN", doc'[d].final = doc[d].final,
         \/ doc'[d].current = Append(doc[d].current, r)
         \/ doc'[d].current = <<r>> /\ req[r].type = "CLIENT",
         unattended \subseteq unattended',
         d \notin unattended' /\ req[r].signer = Owner[d] =>
           \E q \in On(d)' : req'[q].signer \in Authority
  PROVE  PdfOn(d)' /\ (d \notin unattended' => FollowedOn(d)') /\ FinalOn(d)' /\ ShownOn(d)'
<1> DEFINE old == doc[d].current
<1> DEFINE fin == doc[d].final
<1> DEFINE new == doc'[d].current
<1>1. old \in Seq(Request) /\ fin \in Seq(Request)
  BY DEF IInv, TypeOK, Typed, DocumentRow
<1>2. /\ \A q : In(q, new) => In(q, old) \/ q = r
      /\ new # <<>>
  <2>1. CASE new = Append(old, r)
    <3>1. \A q : In(q, Append(old, r)) => In(q, old) \/ q = r
      BY <1>1, Appended
    <3>2. Append(old, r) # <<>>
      BY <1>1, Appended
    <3>3. QED
      BY <2>1, <3>1, <3>2
  <2>2. CASE new = <<r>>
    <3>1. (\A q : In(q, <<r>>) => q = r) /\ <<r>> # <<>>
      BY Alone
    <3>2. QED
      BY <2>2, <3>1
  <2>3. QED
    BY <2>1, <2>2
<1>3. r \in Signed(d)' /\ req'[r].signer = req[r].signer /\ req'[r].type = req[r].type
  BY DEF Signed, On, RowsKept
<1>4. \A q \in Signed(d) : q \in Signed(d)' /\ req'[q].signer = req[q].signer
                           /\ req'[q].type = req[q].type
  BY DEF Signed, On, RowsKept
<1>5. \A q \in Request : In(q, old) \/ In(q, fin) => q \in Signed(d)
  BY DEF IInv, PdfsSound, PdfOn
<1>6. PdfOn(d)'
  BY <1>2, <1>3, <1>4, <1>5 DEF PdfOn
<1>7. ASSUME d \notin unattended' PROVE FollowedOn(d)'
  <2>1. ASSUME NEW q \in Request, In(q, new), req'[q].signer = Owner[d]
        PROVE  \E x \in On(d)' : req'[x].signer \in Authority
    <3>1. CASE q = r
      BY <1>3, <1>7, <2>1, <3>1
    <3>2. CASE In(q, old)
      <4>1. req[q].signer = Owner[d] /\ d \notin unattended
        BY <1>4, <1>5, <1>7, <2>1, <3>2
      <4>2. PICK x \in On(d) : req[x].signer \in Authority
        BY <3>2, <4>1 DEF IInv, PdfsSound, FollowedOn
      <4>3. x \in On(d)' /\ req'[x].signer = req[x].signer
        BY <4>2 DEF On, RowsKept
      <4>4. QED
        BY <4>2, <4>3
    <3>3. QED
      BY <1>2, <2>1, <3>1, <3>2
  <2>2. QED
    BY <2>1 DEF FollowedOn
<1>8. FinalOn(d)'
  <2>1. CASE new = Append(old, r)
    <3>1. CASE Extends(old, fin)
      <4>1. Extends(new, fin)
        BY <1>1, <2>1, <3>1, Appended
      <4>2. QED
        BY <4>1 DEF FinalOn
    <3>2. CASE old # <<>> /\ req[old[1]].type = "CLIENT" /\ ~In(old[1], fin)
      <4>1. old[1] \in Request /\ In(old[1], old) /\ new[1] = old[1]
        BY <1>1, <2>1, <3>2, FirstIn, Appended
      <4>2. req'[new[1]].type = "CLIENT"
        BY <1>4, <1>5, <3>2, <4>1
      <4>3. QED
        BY <1>2, <3>2, <4>1, <4>2 DEF FinalOn
    <3>3. QED
      BY <3>1, <3>2 DEF IInv, PdfsSound, FinalOn
  <2>2. CASE new = <<r>> /\ req[r].type = "CLIENT"
    <3>1. new[1] = r /\ ~In(r, fin)
      BY <2>2, Alone, PendingInNone
    <3>2. QED
      BY <1>2, <1>3, <2>2, <3>1 DEF FinalOn
  <2>3. QED
    BY <2>1, <2>2
<1>9. ShownOn(d)'
  BY DEF ShownOn
<1>10. QED
  BY <1>6, <1>7, <1>8, <1>9

\* The current PDF of a document is replaced.
LEMMA PdfReplaced ==
  ASSUME doc \in [Document -> DocumentRow], NEW d \in Document, NEW pdf \in Seq(Request),
         doc' = [doc EXCEPT ![d].status = "PENDING_SIGN", ![d].current = pdf]
  PROVE  /\ doc' \in [Document -> DocumentRow]
         /\ doc'[d].status = "PENDING_SIGN" /\ doc'[d].current = pdf
         /\ doc'[d].final = doc[d].final
         /\ \A e \in Document : (e # d => doc'[e] = doc[e]) /\ (Exists(e) => Exists(e)')
<1>1. doc' = [doc EXCEPT ![d] = [doc[d] EXCEPT !.status = "PENDING_SIGN", !.current = pdf]]
  BY DEF DocumentRow
<1>2. [doc[d] EXCEPT !.status = "PENDING_SIGN", !.current = pdf] \in DocumentRow
  BY DEF DocumentRow
<1>3. /\ doc' \in [Document -> DocumentRow]
      /\ doc'[d] = [doc[d] EXCEPT !.status = "PENDING_SIGN", !.current = pdf]
      /\ \A e \in Document : e # d => doc'[e] = doc[e]
  BY <1>1, <1>2
<1>4. QED
  BY <1>3 DEF Exists, DocumentRow

\* The owner's signatures, remote and by a client.
LEMMA CitizenSignSound ==
  ASSUME IInv, NEW r \in Request, NEW f \in Request, NEW o \in Officer,
         CitizenRemoteSign(r, f, o) \/ ClientSign(r, f, o)
  PROVE  IInv'
<1>0. PICK d \in Document : req[r].doc = d
  <2>1. req[r].status # "NONE"
    BY DEF CitizenRemoteSign, ClientSign, Accepted
  <2>2. QED
    BY <2>1 DEF IInv, TypeOK, RowsComplete
<1>1. req[r].status = "PENDING" /\ FollowUp(r, d, f, o) /\ UNCHANGED <<verified, cert, events>>
  BY <1>0 DEF CitizenRemoteSign, ClientSign, Accepted
<1>2. d \in Document /\ doc[d].current \in Seq(Request) /\ doc \in [Document -> DocumentRow]
  BY <1>1 DEF IInv, TypeOK, Typed, RowsComplete, DocumentRow
<1>3. PICK pdf \in Seq(Request) :
        /\ doc' = [doc EXCEPT ![d].status = "PENDING_SIGN", ![d].current = pdf]
        /\ \/ pdf = Append(doc[d].current, r)
           \/ pdf = <<r>> /\ req[r].type = "CLIENT"
  <2>1. CASE CitizenRemoteSign(r, f, o)
    BY <1>0, <1>2, <2>1, Appended DEF CitizenRemoteSign, Signature
  <2>2. CASE ClientSign(r, f, o)
    BY <1>0, <2>2, Alone DEF ClientSign
  <2>3. QED
    BY <2>1, <2>2
<1>4. /\ doc' \in [Document -> DocumentRow]
      /\ doc'[d].status = "PENDING_SIGN" /\ doc'[d].current = pdf
      /\ doc'[d].final = doc[d].final
      /\ \A e \in Document : (e # d => doc'[e] = doc[e]) /\ (Exists(e) => Exists(e)')
  BY <1>2, <1>3, PdfReplaced
<1>5. req[r].doc = d
  BY <1>0
<1>6. /\ req' \in [Request -> RequestRow] /\ RowsKept /\ req'[r].status = "SIGNED"
      /\ unattended \subseteq unattended' /\ unattended' \in SUBSET Document
      /\ RowsComplete' /\ ApprovalShape' /\ OneApprovalPerOfficer'
      /\ d \notin unattended' /\ req[r].signer = Owner[d] =>
           \E q \in On(d)' : req'[q].signer \in Authority
  BY <1>1, <1>2, <1>4, <1>5, FollowUpSound
<1>7. PdfOn(d)' /\ (d \notin unattended' => FollowedOn(d)') /\ FinalOn(d)' /\ ShownOn(d)'
  BY <1>1, <1>2, <1>3, <1>4, <1>5, <1>6, CitizenPdf
<1>8. ASSUME NEW e \in Document
      PROVE  PdfOn(e)' /\ (e \notin unattended' => FollowedOn(e)') /\ FinalOn(e)' /\ ShownOn(e)'
  <2>1. CASE e = d
    BY <1>7, <2>1
  <2>2. CASE e # d
    BY <1>4, <1>6, <2>2, SameDocument
  <2>3. QED
    BY <2>1, <2>2
<1>9. PdfsSound'
  BY <1>8 DEF PdfsSound
<1>10. Typed'
  BY <1>1, <1>4, <1>6 DEF IInv, TypeOK, Typed
<1>11. QED
  BY <1>6, <1>9, <1>10 DEF IInv, TypeOK

\* The approval.
LEMMA OfficerSignSound ==
  ASSUME IInv, NEW r \in Request, OfficerSign(r) PROVE IInv'
<1>0. PICK d \in Document : req[r].doc = d
  <2>1. req[r].status # "NONE"
    BY DEF OfficerSign, Accepted
  <2>2. QED
    BY <2>1 DEF IInv, TypeOK, RowsComplete
<1> DEFINE pdf == Append(doc[d].current, r)
<1>1. /\ req[r].status = "PENDING" /\ req[r].purpose = "OFFICER_APPROVAL" /\ req' = Sealed(r)
      /\ doc' = [doc EXCEPT ![d] = [status |-> "SIGNED", current |-> pdf, final |-> pdf]]
      /\ UNCHANGED <<verified, cert, unattended, events>>
  BY <1>0 DEF OfficerSign, Accepted, Signature
<1>2. /\ d \in Document /\ doc[d].current \in Seq(Request) /\ doc[d].final \in Seq(Request)
      /\ doc \in [Document -> DocumentRow]
  BY <1>1 DEF IInv, TypeOK, Typed, RowsComplete, DocumentRow
<1>3. pdf \in Seq(Request) /\ pdf # <<>> /\ \A q : In(q, pdf) <=> In(q, doc[d].current) \/ q = r
  BY <1>2, Appended
<1>4. req[r].doc = d
  BY <1>0
<1> HIDE DEF pdf
<1>5. /\ doc' \in [Document -> DocumentRow] /\ doc'[d].status = "SIGNED"
      /\ doc'[d].current = pdf /\ doc'[d].final = pdf
      /\ \A e \in Document : (e # d => doc'[e] = doc[e]) /\ (Exists(e) => Exists(e)')
  <2>1. [status |-> "SIGNED", current |-> pdf, final |-> pdf] \in DocumentRow
    BY <1>3 DEF DocumentRow
  <2>2. QED
    BY <1>1, <1>2, <2>1 DEF Exists
<1>6. /\ req' \in [Request -> RequestRow] /\ RowsKept /\ req'[r].status = "SIGNED"
      /\ RowsComplete' /\ ApprovalShape' /\ OneApprovalPerOfficer'
  BY <1>1, <1>5, SealSound
<1>7. \A q \in Signed(d) : q \in Signed(d)' /\ req'[q].signer = req[q].signer
  BY <1>6 DEF Signed, On, RowsKept
<1>8. r \in Signed(d)' /\ req'[r].signer = req[r].signer
  BY <1>1, <1>4, <1>6 DEF Signed, On, RowsKept
<1>9. PdfOn(d)'
  BY <1>2, <1>3, <1>5, <1>7, <1>8 DEF PdfOn, IInv, PdfsSound
<1>10. ASSUME d \notin unattended' PROVE FollowedOn(d)'
  <2>1. req[r].signer # Owner[d]
    BY <1>1, <1>2, WorkflowConstants DEF IInv, ApprovalShape, Authority
  <2>2. ASSUME NEW q \in Request, In(q, pdf), req'[q].signer = Owner[d]
        PROVE  \E x \in On(d)' : req'[x].signer \in Authority
    <3>1. In(q, doc[d].current) /\ req[q].signer = Owner[d]
      BY <1>2, <1>3, <1>7, <1>8, <2>1, <2>2 DEF IInv, PdfsSound, PdfOn
    <3>2. PICK x \in On(d) : req[x].signer \in Authority
      BY <1>1, <1>2, <1>10, <3>1 DEF IInv, PdfsSound, FollowedOn
    <3>3. x \in On(d)' /\ req'[x].signer = req[x].signer
      BY <1>6, <3>2 DEF On, RowsKept
    <3>4. QED
      BY <3>2, <3>3
  <2>3. QED
    BY <1>5, <2>2 DEF FollowedOn
<1>11. FinalOn(d)'
  BY <1>3, <1>5, OfEmpty DEF FinalOn
<1>12. ShownOn(d)'
  BY <1>3, <1>5 DEF ShownOn
<1>13. ASSUME NEW e \in Document
       PROVE  PdfOn(e)' /\ (e \notin unattended' => FollowedOn(e)') /\ FinalOn(e)' /\ ShownOn(e)'
  <2>1. CASE e = d
    BY <1>9, <1>10, <1>11, <1>12, <2>1
  <2>2. CASE e # d
    BY <1>1, <1>5, <1>6, <2>2, SameDocument
  <2>3. QED
    BY <2>1, <2>2
<1>14. PdfsSound'
  BY <1>13 DEF PdfsSound
<1>15. Typed'
  BY <1>1, <1>5, <1>6 DEF IInv, TypeOK, Typed
<1>16. QED
  BY <1>6, <1>14, <1>15 DEF IInv, TypeOK

\* The seal whose PAdES step fails.
LEMMA SignWithoutPdfSound ==
  ASSUME IInv, NEW r \in Request, SignWithoutPdf(r) PROVE IInv'
<1>0. PICK d \in Document : req[r].doc = d
  <2>1. req[r].status # "NONE"
    BY DEF SignWithoutPdf, Accepted
  <2>2. QED
    BY <2>1 DEF IInv, TypeOK, RowsComplete
<1> DEFINE s == IF req[r].purpose = "OFFICER_APPROVAL" THEN "SIGNED" ELSE "PENDING_SIGN"
<1>1. /\ req[r].status = "PENDING" /\ req' = Sealed(r) /\ SetStatus(d, s)
      /\ events' = events + 1 /\ UNCHANGED <<verified, cert, unattended>>
  BY <1>0 DEF SignWithoutPdf, Accepted
<1>2. d \in Document /\ doc \in [Document -> DocumentRow]
  BY <1>1 DEF IInv, TypeOK, Typed, RowsComplete
<1>3. req[r].doc = d
  BY <1>0
<1>4. s \in {"PENDING_SIGN", "SIGNED"}
      /\ (s = "SIGNED" => req[r].purpose = "OFFICER_APPROVAL")
  OBVIOUS
<1> HIDE DEF s
<1>5. /\ doc' \in [Document -> DocumentRow] /\ doc'[d].status = s
      /\ \A e \in Document : /\ e # d => doc'[e] = doc[e]
                             /\ doc'[e].current = doc[e].current
                             /\ doc'[e].final = doc[e].final
                             /\ Exists(e) => Exists(e)'
  BY <1>1, <1>2, <1>4, StatusSet
<1>6. /\ req' \in [Request -> RequestRow] /\ RowsKept /\ req'[r].status = "SIGNED"
      /\ RowsComplete' /\ ApprovalShape' /\ OneApprovalPerOfficer'
  BY <1>1, <1>5, SealSound
<1>7. PdfOn(d)' /\ (d \notin unattended => FollowedOn(d)') /\ FinalOn(d)' /\ ShownOn(d)'
  <2>1. CASE s = "PENDING_SIGN"
    BY <1>2, <1>5, <1>6, <2>1, SameDocument
  <2>2. CASE s = "SIGNED"
    <3>1. r \in Signed(d)' /\ req'[r].purpose = "OFFICER_APPROVAL"
      BY <1>1, <1>3, <1>4, <1>6, <2>2 DEF Signed, On, RowsKept
    <3>2. ~In(r, doc'[d].final)
      BY <1>1, <1>2, <1>5, PendingInNone
    <3>3. ShownOn(d)'
      BY <3>1, <3>2 DEF ShownOn
    <3>4. \A q \in Signed(d) : q \in Signed(d)' /\ req'[q].type = req[q].type
                               /\ req'[q].signer = req[q].signer
      BY <1>6 DEF Signed, On, RowsKept
    <3>5. PdfOn(d)'
      BY <1>2, <1>5, <3>4 DEF PdfOn, IInv, PdfsSound
    <3>6. \A q \in On(d) : q \in On(d)' /\ req'[q].signer = req[q].signer
      BY <1>6 DEF On, RowsKept
    <3>7. d \notin unattended => FollowedOn(d)'
      BY <1>2, <1>5, <3>4, <3>6 DEF FollowedOn, PdfOn, IInv, PdfsSound
    <3>8. FinalOn(d)'
      <4>1. doc[d].current \in Seq(Request)
        BY <1>2 DEF DocumentRow
      <4>2. QED
        BY <1>2, <1>5, <3>4, <4>1, FirstIn DEF FinalOn, PdfOn, IInv, PdfsSound
    <3>9. QED
      BY <3>3, <3>5, <3>7, <3>8
  <2>3. QED
    BY <1>4, <2>1, <2>2
<1>8. ASSUME NEW e \in Document
      PROVE  PdfOn(e)' /\ (e \notin unattended' => FollowedOn(e)') /\ FinalOn(e)' /\ ShownOn(e)'
  <2>1. CASE e = d
    BY <1>1, <1>7, <2>1
  <2>2. CASE e # d
    BY <1>1, <1>5, <1>6, <2>2, SameDocument
  <2>3. QED
    BY <2>1, <2>2
<1>9. PdfsSound'
  BY <1>8 DEF PdfsSound
<1>10. Typed'
  BY <1>1, <1>5, <1>6 DEF IInv, TypeOK, Typed
<1>11. QED
  BY <1>6, <1>9, <1>10 DEF IInv, TypeOK

-----------------------------------------------------------------------------
\* The empty portal is sound.
LEMMA Initially == ASSUME Init PROVE IInv
<1>1. Typed
  <2>1. <<>> \in Seq(Request)
    OBVIOUS
  <2>2. NoRequest \in RequestRow
    BY DEF NoRequest, RequestRow, Type, Purpose
  <2>3. QED
    BY <2>1, <2>2 DEF Init, Typed, DocumentRow, CertState
<1>2. \A q \in Request : req[q].status = "NONE" /\ req[q].purpose # "OFFICER_APPROVAL"
  BY DEF Init, NoRequest
<1>3. \A d \in Document : doc[d].current = <<>> /\ doc[d].final = <<>> /\ doc[d].status = "NONE"
  BY DEF Init
<1>4. <<>> \in Seq(Request)
  OBVIOUS
<1>5. Extends(<<>>, <<>>) /\ \A q : ~In(q, <<>>)
  BY <1>4, OfEmpty
<1>6. PdfsSound
  BY <1>3, <1>5 DEF PdfsSound, PdfOn, FollowedOn, FinalOn, ShownOn
<1>7. RowsComplete /\ ApprovalShape /\ OneApprovalPerOfficer
  BY <1>2 DEF RowsComplete, ApprovalShape, OneApprovalPerOfficer, Approvals, Pending, On
<1>8. QED
  BY <1>1, <1>6, <1>7 DEF IInv, TypeOK

\* Every step keeps the invariant.
LEMMA Step == ASSUME IInv, Next PROVE IInv'
<1>1. ASSUME NEW d \in Document, Upload(d) \/ Submit(d) \/ Ordering(d) PROVE IInv'
  BY <1>1, UploadSound, SubmitSound, OrderingSound
<1>2. ASSUME NEW r \in Request, Signing(r) PROVE IInv'
  <2>1. ASSUME NEW f \in Request, NEW o \in Officer,
               CitizenRemoteSign(r, f, o) \/ ClientSign(r, f, o)
        PROVE  IInv'
    BY <2>1, CitizenSignSound
  <2>2. QED
    BY <1>2, <2>1, OfficerSignSound, SignWithoutPdfSound DEF Signing
<1>3. CASE Environment
  BY <1>3, ExpireSound, StandingSound DEF Environment
<1>4. QED
  BY <1>1, <1>2, <1>3 DEF Next

\* So does a step of somebody else.
LEMMA Stutter == ASSUME IInv, UNCHANGED vars PROVE IInv'
<1>1. UNCHANGED <<req, doc, verified, cert, unattended, events>>
  BY DEF vars
<1>2. RowsKept /\ ApprovalShape' /\ OneApprovalPerOfficer'
  BY <1>1, SameRows
<1>3. PdfsSound'
  BY <1>1, <1>2, DocumentsKept
<1>4. TypeOK'
  BY <1>1 DEF IInv, TypeOK, Typed, RowsComplete
<1>5. QED
  BY <1>2, <1>3, <1>4 DEF IInv

\* The invariant holds in every reachable state.
LEMMA Invariance == Spec => []IInv
<1>1. Init => IInv
  BY Initially
<1>2. IInv /\ [Next]_vars => IInv'
  BY Step, Stutter
<1>3. QED
  BY <1>1, <1>2, PTL DEF Spec

\* Every variable has its type, and the foreign keys of the rows are set.
THEOREM WorkflowTypeCorrect == Spec => []TypeOK
BY Invariance, PTL DEF IInv

\* No officer is asked twice for the same document at the same time, whichever
\* of the three views and services asks (frontend/views.py, signing/services.py).
THEOREM AskedOnce == Spec => []OneApprovalPerOfficer
BY Invariance, PTL DEF IInv

\* The owner's signature was followed by a request to an officer or admin, unless
\* none was available when it was given (signing/services.py).
THEOREM SignatureFollowed == Spec => []CitizenSignatureFollowed
<1>1. IInv => CitizenSignatureFollowed
  BY DEF IInv, PdfsSound, FollowedOn, CitizenSignatureFollowed
<1>2. QED
  BY <1>1, Invariance, PTL

\* What an officer approved begins the current PDF until a client signature
\* starts over from the upload (signing/pades_sequential_services.py).
THEOREM ApprovedPdfKept == Spec => []FinalInCurrent
<1>1. IInv => FinalInCurrent
  BY DEF IInv, PdfsSound, FinalOn, FinalInCurrent
<1>2. QED
  BY <1>1, Invariance, PTL

\* A SIGNED document's current PDF is its final one, unless an approval was
\* sealed without a PDF (signing/services.py).
THEOREM SignedShowsFinal == Spec => []SignedIsFinal
<1>1. IInv => SignedIsFinal
  BY DEF IInv, PdfsSound, ShownOn, SignedIsFinal
<1>2. QED
  BY <1>1, Invariance, PTL
=============================================================================
