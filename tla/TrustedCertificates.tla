------------------------ MODULE TrustedCertificates ------------------------
(***************************************************************************)
(* What the registration authority promises of certificates, however many  *)
(* handlers enrol, issue and revoke at a time.  The lab CA signs a         *)
(* certificate for one user.  It becomes the certificate the portal trusts *)
(* for that user once or never, in the place of the one before, and is     *)
(* given up or revoked for good.  Only a certificate that is trusted no    *)
(* more is reported as revoked to an officer, and only revoked ones are    *)
(* published.  (UserCertificate.user and .serial_number are unique,        *)
(* accounts/models.py; the CRL is rebuilt from the REVOKED rows.)          *)
(***************************************************************************)
EXTENDS Naturals, Sequences

CONSTANT User

VARIABLES
  holder,    \* holder[c]: the user the lab CA signed its c-th certificate for
  pending,   \* certificates that are signed and on their way to their user's row
  current,   \* certificates that the portal trusts
  revoked,   \* certificates that were revoked
  reported,  \* certificates whose revocation was reported
  published  \* certificates on the CRL

vars == <<holder, pending, current, revoked, reported, published>>

Init ==
  /\ holder = <<>>
  /\ pending = {} /\ current = {} /\ revoked = {} /\ reported = {} /\ published = {}

Sign(u) ==
  /\ holder' = Append(holder, u)
  /\ pending' = pending \cup {Len(holder) + 1}
  /\ UNCHANGED <<current, revoked, reported, published>>

\* The user's certificate before this one, if it is current, is given up.
Install(c) ==
  /\ c \in pending
  /\ pending' = pending \ {c}
  /\ current' = {d \in current : holder[d] # holder[c]} \cup {c}
  /\ UNCHANGED <<holder, revoked, reported, published>>

GiveUp(c) ==
  /\ c \in pending
  /\ pending' = pending \ {c}
  /\ UNCHANGED <<holder, current, revoked, reported, published>>

Revoke(c) ==
  /\ c \in current
  /\ current' = current \ {c}
  /\ revoked' = revoked \cup {c}
  /\ UNCHANGED <<holder, pending, reported, published>>

\* The CRL that goes with the report may be an old one, but lists nothing else.
Report(c) ==
  /\ c \in DOMAIN holder \ (pending \cup current)
  /\ reported' = reported \cup {c}
  /\ published' \in SUBSET revoked
  /\ UNCHANGED <<holder, pending, current, revoked>>

\* While the file is being written there is nothing in it.
Withdraw ==
  /\ published' = {}
  /\ UNCHANGED <<holder, pending, current, revoked, reported>>

Next ==
  \/ \E u \in User : Sign(u)
  \/ \E c \in DOMAIN holder : Install(c) \/ GiveUp(c) \/ Revoke(c) \/ Report(c)
  \/ Withdraw

Spec == Init /\ [][Next]_vars

-----------------------------------------------------------------------------
\* A certificate that was revoked, or reported as revoked, is never trusted
\* again nor on its way to it.
NeverAgain == (revoked \cup reported) \cap (pending \cup current) = {}

\* The portal trusts one certificate of a user at a time.
OnePerHolder == \A c, d \in current : holder[c] = holder[d] => c = d
=============================================================================
