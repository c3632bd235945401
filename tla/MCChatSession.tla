----------------------------- MODULE MCChatSession -----------------------------
(***************************************************************************)
(* Answers of the model and failure points for the runs of ChatSession.tla *)
(***************************************************************************)
EXTENDS ChatSession

Anything == {"model", "exec", "final", "submit"}
Nothing == {}

(* An answer with several calls, one of which stages a change. *)
ProposalAndRead == {<<"propose", "read">>}
OneProposal == {<<"propose">>}
================================================================================
