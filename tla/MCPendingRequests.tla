------------------------- MODULE MCPendingRequests -------------------------
(* Instances of PendingRequests for TLC.                                   *)
EXTENDS PendingRequests, TLC

CONSTANTS g1, d1, u1

OneRegular == {g1}
OneDownload == {d1}
OneUpload == {u1}

\* Beside the regular request, a download or an upload is started, not both.
OneLarge == \E r \in Large : pc[r] = "idle"
=============================================================================
