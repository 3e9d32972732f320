--------------------------- MODULE MCArbExecution ---------------------------
(***************************************************************************)
(* The venues of the model-checking runs of ArbExecution: which of the     *)
(* misleading answers of FaultKinds each role's adapter may give.          *)
(***************************************************************************)
EXTENDS ArbExecution

\* The adapters tell the truth, though perhaps before the order is over.
EarlyAnswers == {"answers_early"}

\* A primary whose answer may be lost, late or in doubt.
UnreliablePrimary == {"timeout", "raises_late", "fails_late", "answers_early",
                      "poll_unknown", "cancel_lost"}

\* A secondary the engine may lose touch with: everything but an order reported
\* dead that is not (fails_late, poll_failed) or empty that is not
\* (ended_as_cancelled).
UnreliableSecondary == {"timeout", "raises_late", "answers_early", "poll_unknown",
                        "partial_while_live", "cancel_lost", "fok_partial",
                        "cancel_acks_ended"}

UnreliableUnwind == {"answers_early", "fails_late"}

\* polymarket_us: an order that ended half filled keeps its venue status.
EndsAsCancelled == {"ended_as_cancelled"}

\* asyncio.wait_for gives up on the secondary.
TimesOut == {"timeout"}

NoFaults == {}

=============================================================================
