---------------------------- MODULE TransferJobs ----------------------------
(***************************************************************************)
(* What the copy pipeline promises about the files it is given, and no     *)
(* more: files leave the transfer queue in the order they entered it, each *)
(* at most once, and a file whose copy is settled - copied, failed or      *)
(* dropped - stays settled.  Threads, device and GUI are absent; MtpRetag  *)
(* implements this module under a refinement mapping.                      *)
(***************************************************************************)
EXTENDS Naturals

CONSTANT NumJobs      \* jobs are numbered in the order they are submitted

VARIABLE status       \* status[j]: where job j is

Jobs == 1 .. NumJobs

Settled == {"ok", "failed", "dropped"}

Init == status = [j \in Jobs |-> "new"]

Become(j, s) == status' = [status EXCEPT ![j] = s]

Submit(j) ==
  /\ status[j] = "new"
  /\ \A i \in 1 .. j - 1 : status[i] # "new"
  /\ Become(j, "queued")

Take(j) ==
  /\ status[j] = "queued"
  /\ \A i \in 1 .. j - 1 : status[i] # "queued"
  /\ Become(j, "taken")

Settle(j) ==
  /\ status[j] = "taken"
  /\ \E s \in Settled : Become(j, s)

Next == \E j \in Jobs : Submit(j) \/ Take(j) \/ Settle(j)

Spec == Init /\ [][Next]_status
=============================================================================
