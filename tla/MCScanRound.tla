---------------------------- MODULE MCScanRound ----------------------------
(* Two pids, two roots, one path; a group that is visited and one that is  *)
(* not.  At first one process runs, which has files to make.               *)
EXTENDS ScanRound

MCWalked  == <<"web.slice">>
MCGroupOf == [d \in {"web.slice"} |-> "web"]

MCTables ==
    {[p \in Pid |-> IF p = 2 THEN [root |-> "host", path |-> "/run/app", dir |-> "web.slice"]
                    ELSE NoProcess]}

=============================================================================
