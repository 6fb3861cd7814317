---------------------------- MODULE NodeProtocol ----------------------------
(***************************************************************************)
(* The calls of a coordinator to an execution node about one attempt, and  *)
(* what they may do to the node's record of it.  Pure definitions: the     *)
(* execution manager is modelled against them, and the node agent is shown *)
(* to keep to them.                                                        *)
(***************************************************************************)

(* The statuses an execution node reports of an attempt.  The record of one *)
(* whose Hermes run could not be started ("stillborn") reports failed.     *)
Reported ==
  {"queued", "running", "success", "needs_review", "failed", "cancelling",
   "cancelled", "cancel_failed"}
RemoteStatus == Reported \cup {"absent", "stillborn"}

Report(s) == IF s = "stillborn" THEN "failed" ELSE s

(* A stop that Hermes has not confirmed, or has not answered.              *)
Unconfirmed == {"cancelling", "cancel_failed"}

(* Served(call, s): what a node whose record is s turns it into, and       *)
(* answers.  The calls not named are the cancels.                          *)
Served(call, s) ==
  CASE call = "create"  -> IF s = "absent" THEN {<<"queued", "queued">>}
                                           ELSE {<<s, Report(s)>>}
    [] call = "upload"  -> {<<s, IF s = "queued" THEN "ok" ELSE "refused">>}
    [] call = "start"   -> CASE s = "absent" -> {<<s, "refused">>}
                             [] s = "queued" -> {<<r, Report(r)>> : r \in {"running", "stillborn"}}
                             [] OTHER        -> {<<s, Report(s)>>}
    [] call = "get"     -> {<<s, IF s = "absent" THEN "refused" ELSE Report(s)>>}
    [] call = "collect" -> {<<s, "ok">>}
    [] OTHER            -> CASE s = "absent" -> {<<s, "refused">>}
                             [] s \in {"queued", "stillborn"} -> {<<s, Report(s)>>}
                             [] OTHER -> {<<r, r>> : r \in {"cancelled"} \cup Unconfirmed}

(* How an execution may end; one with a manual verification step is        *)
(* reviewed instead of successful.                                         *)
Outcomes(reviewed) == {"failed", IF reviewed THEN "needs_review" ELSE "success"}

(* What a poll may find of a record that was s.                            *)
Progress(s, reviewed) ==
  CASE s = "running"    -> Outcomes(reviewed)
    [] s = "cancelling" -> Outcomes(reviewed) \cup {"cancelled", "cancel_failed"}
    [] OTHER            -> {}
=============================================================================
