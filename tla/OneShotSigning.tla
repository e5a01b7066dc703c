--------------------------- MODULE OneShotSigning ---------------------------
(***************************************************************************)
(* What the portal promises of a signing request, whoever signs it and     *)
(* wherever the key is: a request is open; one signature is committed to   *)
(* it, once; then the request may be closed.  The signature of a request   *)
(* is never replaced and never withdrawn, and no request is closed         *)
(* without one.  (SignatureRecord is one-to-one with SigningRequest,       *)
(* signing/models.py, and "used" requests are refused.)                    *)
(***************************************************************************)
CONSTANTS Request, Signature,
          NoSignature  \* a value that is not in Signature

VARIABLES signature, closed

vars == <<signature, closed>>

TypeOK == /\ signature \in [Request -> Signature \cup {NoSignature}]
          /\ closed \in SUBSET Request

Init == /\ signature = [r \in Request |-> NoSignature]
        /\ closed = {}

Commit(r) == /\ signature[r] = NoSignature
             /\ signature'[r] \in Signature
             /\ \A q \in Request \ {r} : signature'[q] = signature[q]
             /\ DOMAIN signature' = Request
             /\ UNCHANGED closed

Close(r) == /\ signature[r] # NoSignature
            /\ closed' = closed \cup {r}
            /\ UNCHANGED signature

Next == \E r \in Request : Commit(r) \/ Close(r)

Spec == Init /\ [][Next]_vars
=============================================================================
