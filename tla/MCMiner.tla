------------------------------- MODULE MCMiner -------------------------------
(***************************************************************************)
(* Miner on a small instance: three sectors, the last with deals, in four  *)
(* deadlines of one epoch.  focus, chosen at the start, says which         *)
(* messages are sent besides proofs, and whether the miner starts new or   *)
(* in the middle of its life, with proven sectors.  A new miner takes its  *)
(* sectors without deals in order, and is followed for seven epochs.       *)
(***************************************************************************)
EXTENDS Miner

VARIABLE focus

mcvars == <<vars, focus>>

(* Sectors ss, active since epoch 0, proven in the window of deadline d    *)
(* before epoch 4, and their cron.                                         *)
Seasoned(ss, d) ==
    LET power(n) == QaPower(7 + n, IF n \in DealSectors THEN DealWeight ELSE 0)
        info == [n \in ss |-> [expiration |-> 7 + n, activation |-> 0,
                               weight |-> IF n \in DealSectors THEN DealWeight ELSE 0,
                               power |-> power(n), pledge |-> power(n)]]
        dl == CHOOSE x \in AddSectors(NewDeadline, PartitionSize, TRUE, ss, info, d) : TRUE
    IN  /\ st = [NewState EXCEPT
                    !.allocated = ss, !.sectors = info,
                    !.deadlines[d] = [dl EXCEPT !.partitions_snapshot = dl.partitions],
                    !.initial_pledge = PledgeOf(ss, info), !.deadline_cron_active = TRUE]
        /\ claim = PowerOf(ss, info)
        /\ pledged = PledgeOf(ss, info)
        /\ balance = Funds + PledgeOf(ss, info)
        /\ events = <<[epoch |-> 4, type |-> "deadline"]>>
        /\ epoch = 4 /\ proofs = {} /\ phase = "messages" /\ budget = Budget

MCInit ==
    \/ focus = "seal" /\ Init
    \/ focus \in {"faults", "ends"} /\ Seasoned(Sectors, 0)
    \/ focus = "upgrade" /\ Seasoned(Sectors \ DealSectors, 3)
    \/ focus = "funds" /\ Seasoned({1}, 0)

MCNext ==
    /\ UNCHANGED focus
    /\ \/ focus \in {"seal", "upgrade"} /\ Seal /\ (2 \in st'.allocated => 1 \in st'.allocated)
       \/ focus \in {"seal", "faults", "ends"} /\ Prove
       \/ focus \in {"faults", "upgrade"} /\ Fault
       \/ focus \in {"ends"} /\ Finish
       \/ focus \in {"funds"} /\ Fund
       \/ (focus = "seal" => epoch < 7) /\ EndOfEpoch

MCSpec == MCInit /\ [][MCNext]_mcvars

=============================================================================
