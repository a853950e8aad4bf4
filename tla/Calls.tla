--------------------------------- MODULE Calls ---------------------------------
(***************************************************************************)
(* What is asked of models and kept of it: the routes that say which model *)
(* is asked (ModelRouting), completions (LlmRequests), streams (LlmStreams)*)
(* and images (ImageTasks).  They share no state.                          *)
(***************************************************************************)
EXTENDS LlmRequests, LlmStreams, ImageTasks, ModelRouting

\* Every call goes to the model that was set, its ledger tells what came of it, and
\* nothing is told, paid for or left behind twice, beside all the others.
CallsAccounted == RoutesSound /\ LedgerHonest /\ StreamsSound /\ ImagesAccounted
================================================================================
