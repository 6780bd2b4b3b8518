----------------------------- MODULE RoomLedger -----------------------------
(***************************************************************************)
(* The room implements the ledger: what a new instance would open plays    *)
(* the ledger, whatever happens to memory, storage, archive and sockets.   *)
(***************************************************************************)
EXTENDS Room

Promised == INSTANCE Ledger WITH
  doc <- Durable.doc, commit <- Durable.commit, receipts <- storage.receipts

\* Every step of the room either leaves the durable copy as it is or accepts
\* exactly one proposal, under the next commit and, for a command, the next
\* sequence of its session; archiving, purging, restoring, crashing and failing
\* writes are invisible, but for the receipts an idle day forgets.
ImplementsLedger == Promised!Spec
=============================================================================
