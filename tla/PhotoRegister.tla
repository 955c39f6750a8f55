---------------------------- MODULE PhotoRegister ----------------------------
(***************************************************************************)
(* What the private image service promises to the rest of the system, with *)
(* no requests, locks or timeouts in sight.                                *)
(*                                                                         *)
(* Every record (a student, a teacher, a guardian or a profile) shows at   *)
(* most one private image.  An image may be shown only while its bytes are *)
(* kept.  An image that nobody shows may be condemned, once and for all;   *)
(* only condemned images lose their bytes, except the bytes of an upload   *)
(* that never completed, which nobody was ever told about.                 *)
(***************************************************************************)
CONSTANTS Media, Owner, None

VARIABLES
  shown,      \* the image each record shows, or None
  offered,    \* images a client was told it may show
  condemned,  \* images given up for good
  bytes       \* images whose bytes exist in the storage service

vars == <<shown, offered, condemned, bytes>>

Init ==
  /\ shown = [o \in Owner |-> None]
  /\ offered = {}
  /\ condemned = {}
  /\ bytes = {}

(* Bytes reach the storage before anything refers to them.                 *)
Write(m) ==
  /\ m \notin offered \cup condemned
  /\ bytes' = bytes \cup {m}
  /\ UNCHANGED <<shown, offered, condemned>>

(* A client learns of an image: its bytes are there and will be kept.      *)
Offer(m) ==
  /\ m \in bytes \ condemned
  /\ offered' = offered \cup {m}
  /\ UNCHANGED <<shown, condemned, bytes>>

(* A record starts to show an image, whatever it showed before.            *)
Show(o, m) ==
  /\ m \in (offered \cap bytes) \ condemned
  /\ \A other \in Owner \ {o} : shown[other] # m
  /\ shown' = [shown EXCEPT ![o] = m]
  /\ UNCHANGED <<offered, condemned, bytes>>

Hide(o) ==
  /\ shown' = [shown EXCEPT ![o] = None]
  /\ UNCHANGED <<offered, condemned, bytes>>

Condemn(m) ==
  /\ \A o \in Owner : shown[o] # m
  /\ condemned' = condemned \cup {m}
  /\ UNCHANGED <<shown, offered, bytes>>

(* Bytes disappear for a condemned image or for a failed upload.           *)
Erase(m) ==
  /\ m \in condemned \/ m \notin offered
  /\ bytes' = bytes \ {m}
  /\ UNCHANGED <<shown, offered, condemned>>

Next ==
  \/ \E m \in Media : Write(m) \/ Offer(m) \/ Condemn(m) \/ Erase(m)
  \/ \E o \in Owner : Hide(o) \/ \E m \in Media : Show(o, m)

Spec == Init /\ [][Next]_vars
=============================================================================
