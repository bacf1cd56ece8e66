----------------------------- MODULE MeshTransfer -----------------------------
(***************************************************************************)
(* What the edgebreaker codec promises of a mesh's connectivity, without   *)
(* symbols, stacks or split events: a mesh is refused or sent; of a mesh   *)
(* that was sent, the receiver glues only edges that were glued, never     *)
(* unglues one, and ends with all of them.  A receiver does not give up.   *)
(***************************************************************************)
EXTENDS Naturals

VARIABLES
  status,        \* "open", "refused", "sent" or "delivered"
  sent,          \* the glued pairs of corners of the mesh that was sent
  received       \* the pairs the receiver has glued, as corners of that mesh

transferVars == <<status, sent, received>>

IsGluing(S) == S \subseteq Nat \X Nat /\ \A p \in S : <<p[2], p[1]>> \in S

TransferInit == status = "open" /\ sent = {} /\ received = {}

Refuse ==
  /\ status = "open"
  /\ status' = "refused"
  /\ UNCHANGED <<sent, received>>

Send ==
  /\ status = "open"
  /\ status' = "sent"
  /\ IsGluing(sent')
  /\ UNCHANGED received

Receive ==
  /\ status = "sent"
  /\ received \subseteq received'
  /\ received' \subseteq sent
  /\ UNCHANGED <<status, sent>>

Deliver ==
  /\ status = "sent"
  /\ received = sent
  /\ status' = "delivered"
  /\ UNCHANGED <<sent, received>>

TransferNext == Refuse \/ Send \/ Receive \/ Deliver

(* The codec may not stop half-way.                                        *)
TransferSpec ==
  /\ TransferInit
  /\ [][TransferNext]_transferVars
  /\ <>(status \in {"refused", "delivered"})

=============================================================================
