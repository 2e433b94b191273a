--------------------------- MODULE MCChatApproval ---------------------------
(***************************************************************************)
(* Where streams may die in the runs of ChatApproval.                      *)
(***************************************************************************)
EXTENDS ChatApproval

AllPoints == {"load", "attach", "start", "agent", "approve", "interrupted",
              "asked", "wait", "tools", "ran", "compact", "end"}

\* Everywhere but between the checkpoint that waits at approve and the row of
\* its approval, and but inside the tools node.
RestartPoints == AllPoints \ {"approve", "interrupted", "ran"}

\* The model call raises (an API error).
ModelErrors == {"agent"}
NoPoints == {}
=============================================================================
