------------------------------ MODULE Partition ------------------------------
(***************************************************************************)
(* A partition of a deadline of the storage miner actor: the sectors       *)
(* proven together, which of them are unproven, faulty, recovering or      *)
(* terminated, the power of each of these sets, the queue of their         *)
(* expirations, and the sectors terminated early whose fee is still to be  *)
(* paid, by the epoch of their termination.                                *)
(*                                                                         *)
(* The queue (expiration_queue.rs) goes from an epoch, quantised to the    *)
(* last epoch of the partition's deadline, to the sectors that end then,   *)
(* on time or early because of a fault, with the pledge the on-time ones   *)
(* return and the active and the faulty power that ends with them.         *)
(*                                                                         *)
(* An operator that can fail in the code gives the set of its results: {}  *)
(* is an error; the state a partition operation leaves has to pass         *)
(* validate_state.  info maps a sector to its on-chain record; power       *)
(* stands for the pair of raw and quality-adjusted power.                  *)
(***************************************************************************)
EXTENDS Integers, FiniteSets, FiniteSetsExt

CONSTANTS
    WPoStPeriodDeadlines,   \* deadlines in a proving period
    WPoStChallengeWindow    \* epochs in a deadline

WPoStProvingPeriod == WPoStPeriodDeadlines * WPoStChallengeWindow

(* The least epoch from e on that is a last epoch of deadline d.           *)
QuantizeUp(e, d) ==
    LET offset == (d + 1) * WPoStChallengeWindow - 1
    IN  e + ((offset - e) % WPoStProvingPeriod)

PowerOf(ss, info) == MapThenSumSet(LAMBDA s : info[s].power, ss)

PledgeOf(ss, info) == MapThenSumSet(LAMBDA s : info[s].pledge, ss)

-----------------------------------------------------------------------------
(* One entry: an ExpirationSet.                                            *)

EmptyEntry ==
    [on_time |-> {}, early |-> {}, pledge |-> 0, active |-> 0, faulty |-> 0]

OnTime(ss, info) ==
    [EmptyEntry EXCEPT !.on_time = ss, !.pledge = PledgeOf(ss, info),
                       !.active = PowerOf(ss, info)]

Early(ss, power) == [EmptyEntry EXCEPT !.early = ss, !.faulty = power]

EntryPlus(x, y) ==
    [on_time |-> x.on_time \cup y.on_time, early |-> x.early \cup y.early,
     pledge |-> x.pledge + y.pledge, active |-> x.active + y.active,
     faulty |-> x.faulty + y.faulty]

EntryMinus(x, y) ==
    [on_time |-> x.on_time \ y.on_time, early |-> x.early \ y.early,
     pledge |-> x.pledge - y.pledge, active |-> x.active - y.active,
     faulty |-> x.faulty - y.faulty]

ValidEntry(x) == x.pledge >= 0 /\ x.active >= 0 /\ x.faulty >= 0

MayGet(q, e) == IF e \in DOMAIN q THEN q[e] ELSE EmptyEntry

(* The queue with its empty entries deleted: a result only if no entry was *)
(* left negative.                                                          *)
Checked(q) ==
    IF \A e \in DOMAIN q : ValidEntry(q[e])
    THEN {[e \in {k \in DOMAIN q : q[k].on_time \cup q[k].early # {}} |-> q[e]]}
    ELSE {}

Add(q, e, x) ==
    [k \in DOMAIN q \cup {e} |-> IF k = e THEN EntryPlus(MayGet(q, e), x) ELSE q[k]]

-----------------------------------------------------------------------------
(* The operations.  d is the partition's deadline, whose last epochs the   *)
(* entries are quantised to.                                               *)

AddActiveSectors(q, ss, info, d) ==
    LET due(s) == QuantizeUp(info[s].expiration, d)
        new == {due(s) : s \in ss}
    IN  [e \in DOMAIN q \cup new |->
            EntryPlus(MayGet(q, e), OnTime({s \in ss : due(s) = e}, info))]

(* The entries that hold s among their on-time sectors.  A sector is       *)
(* scheduled once, so there is at most one, and the order in which the     *)
(* code looks for it does not matter.                                      *)
FindByExpiration(q, s) == {e \in DOMAIN q : s \in q[e].on_time}

AllFound(q, ss) == \A s \in ss : FindByExpiration(q, s) # {}

RemoveActiveSectors(q, ss, info) ==
    IF ~AllFound(q, ss) THEN {}
    ELSE Checked([e \in DOMAIN q |->
                    EntryMinus(q[e], OnTime(ss \cap q[e].on_time, info))])

RescheduleExpirations(q, new, ss, info, d) ==
    {IF ss = {} THEN r ELSE Add(r, QuantizeUp(new, d), OnTime(ss, info)) :
        r \in RemoveActiveSectors(q, ss, info)}

(* Sectors due by the fault expiration stay where they are, their power    *)
(* now faulty; later ones are moved there to end early, and lose their     *)
(* on-time pledge.                                                         *)
RescheduleAsFaults(q, new, ss, info, d) ==
    LET limit == QuantizeUp(new, d)
        moved == UNION {ss \cap q[e].on_time : e \in {k \in DOMAIN q : k > limit}}
        changed(e) ==
            LET here == ss \cap q[e].on_time
                power == PowerOf(here, info)
            IN  IF e <= limit
                THEN [q[e] EXCEPT !.active = @ - power, !.faulty = @ + power]
                ELSE EntryMinus(q[e], OnTime(here, info))
    IN  IF ~AllFound(q, ss) THEN {}
        ELSE {IF moved = {} THEN r
              ELSE Add(r, limit, Early(moved, PowerOf(moved, info))) :
                r \in Checked([e \in DOMAIN q |-> changed(e)])}

(* Mutant: sectors due before the fault expiration are moved there too.    *)
MoveAllToFaultExpiration(q, new, d) ==
    {[e \in {QuantizeUp(new, d)} |->
        Early(UNION {q[k].on_time \cup q[k].early : k \in DOMAIN q},
              MapThenSumSet(LAMBDA k : q[k].active + q[k].faulty, DOMAIN q))]}

RescheduleAllAsFaults(q, new, d) ==
    LET limit == QuantizeUp(new, d)
        later == {e \in DOMAIN q : e > limit}
        kept == [e \in DOMAIN q \ later |->
                    [q[e] EXCEPT !.faulty = @ + q[e].active, !.active = 0]]
    IN  IF \E e \in later : q[e].early # {} THEN {}
        ELSE IF later = {} THEN {kept}
        ELSE {Add(kept, limit,
                  Early(UNION {q[e].on_time : e \in later},
                        MapThenSumSet(LAMBDA e : q[e].active + q[e].faulty, later)))}

(* Recovered sectors that end on time are active again where they are; the *)
(* ones that would have ended early go back to their own expiration.       *)
RescheduleRecovered(q, ss, info, d) ==
    LET onTime(e) == ss \cap q[e].on_time
        early(e) == (ss \cap q[e].early) \ q[e].on_time
        changed(e) ==
            [q[e] EXCEPT !.early = @ \ early(e),
                         !.active = @ + PowerOf(onTime(e), info),
                         !.faulty = @ - PowerOf(early(e) \cup onTime(e), info)]
    IN  IF ~(ss \subseteq UNION {q[e].on_time \cup q[e].early : e \in DOMAIN q}) THEN {}
        ELSE {AddActiveSectors(r, UNION {early(e) : e \in DOMAIN q}, info, d) :
                r \in Checked([e \in DOMAIN q |-> changed(e)])}

(* Takes sectors out of the queue, wherever they are: the queue, the       *)
(* removed entry and the power of those that were recovering.              *)
RemoveSectors(q, ss, faults, recovering, info) ==
    LET bad == ss \cap faults
        taken(e) == [on_time |-> bad \cap q[e].on_time, early |-> bad \cap q[e].early,
                     pledge |-> PledgeOf(bad \cap q[e].on_time, info), active |-> 0,
                     faulty |-> PowerOf(bad \cap (q[e].on_time \cup q[e].early), info)]
        early == UNION {bad \cap q[e].early : e \in DOMAIN q}
        onTime == ss \ early
    IN  IF ~(bad \subseteq UNION {q[e].on_time \cup q[e].early : e \in DOMAIN q}) THEN {}
        ELSE {[queue |-> r,
               removed |-> [on_time |-> onTime, early |-> early,
                            pledge |-> PledgeOf(onTime, info),
                            active |-> PowerOf(ss \ bad, info),
                            faulty |-> PowerOf(bad, info)],
               recovering |-> PowerOf(bad \cap recovering, info)] :
                r \in UNION {Checked([e \in DOMAIN p |-> EntryMinus(p[e], taken(e))]) :
                               p \in RemoveActiveSectors(q, ss \ faults, info)}}

PopUntil(q, until) ==
    LET due == {e \in DOMAIN q : e <= until}
    IN  [queue |-> [e \in DOMAIN q \ due |-> q[e]],
         popped |-> [on_time |-> UNION {q[e].on_time : e \in due},
                     early |-> UNION {q[e].early : e \in due},
                     pledge |-> MapThenSumSet(LAMBDA e : q[e].pledge, due),
                     active |-> MapThenSumSet(LAMBDA e : q[e].active, due),
                     faulty |-> MapThenSumSet(LAMBDA e : q[e].faulty, due)]]

-----------------------------------------------------------------------------
(* The partition *)

NoEntries == [e \in {} |-> {}]

NewPartition ==
    [sectors |-> {}, unproven |-> {}, faults |-> {}, recoveries |-> {},
     terminated |-> {}, expirations |-> NoEntries, early_terminated |-> NoEntries,
     live_power |-> 0, unproven_power |-> 0, faulty_power |-> 0, recovering_power |-> 0]

LiveSectors(p) == p.sectors \ p.terminated

ActiveSectors(p) == (LiveSectors(p) \ p.faults) \ p.unproven

ActivePower(p) == p.live_power - p.faulty_power - p.unproven_power

ValidPower(p) ==
    /\ 0 <= p.unproven_power /\ p.unproven_power <= p.live_power
    /\ 0 <= p.faulty_power /\ p.faulty_power <= p.live_power
    /\ 0 <= p.recovering_power /\ p.recovering_power <= p.faulty_power

ValidSectors(p) ==
    /\ p.terminated \cap (p.unproven \cup p.faults) = {}
    /\ p.unproven \cup p.faults \cup p.terminated \subseteq p.sectors
    /\ p.recoveries \subseteq p.faults

ValidPartition(p) == ValidPower(p) /\ ValidSectors(p)

(* BitFieldQueue.add_to_queue, without quantisation.                       *)
AddToQueue(q, e, ss) ==
    IF ss = {} THEN q
    ELSE [k \in DOMAIN q \cup {e} |->
            (IF k \in DOMAIN q THEN q[k] ELSE {}) \cup (IF k = e THEN ss ELSE {})]

-----------------------------------------------------------------------------

AddSectorsTo(p, proven, ss, info, d) ==
    LET power == PowerOf(ss, info)
        new == [p EXCEPT !.sectors = @ \cup ss, !.live_power = @ + power,
                         !.expirations = AddActiveSectors(@, ss, info, d),
                         !.unproven = IF proven THEN @ ELSE @ \cup ss,
                         !.unproven_power = IF proven THEN @ ELSE @ + power]
    IN  {r \in {new} : ss \cap p.sectors = {} /\ ValidPartition(new)}

(* Gives the partition, the change of its active power and the power that  *)
(* became faulty.                                                          *)
AddFaults(p, ss, expiration, info, d) ==
    LET power == PowerOf(ss, info)
        lost == PowerOf(ss \cap p.unproven, info)
    IN  {r \in {[partition |->
                    [p EXCEPT !.expirations = q, !.faults = @ \cup ss,
                              !.faulty_power = @ + power, !.unproven = @ \ ss,
                              !.unproven_power = @ - lost],
                 delta |-> lost - power, faulty |-> power] :
                    q \in RescheduleAsFaults(p.expirations, expiration, ss, info, d)} :
            ValidPartition(r.partition)}

(* Recoveries among the declared sectors are not new faults, and nothing   *)
(* retracts them.                                                          *)
RecordFaultsIn(p, ss, expiration, info, d) ==
    LET new == ((ss \ (p.recoveries \cap ss)) \ p.terminated) \ p.faults
    IN  IF ~(ss \subseteq p.sectors) THEN {}
        ELSE IF new = {} THEN {[partition |-> p, delta |-> 0, faulty |-> 0, new |-> {}]}
        ELSE {[partition |-> r.partition, delta |-> r.delta, faulty |-> r.faulty,
               new |-> new] : r \in AddFaults(p, new, expiration, info, d)}

RecoverFaults(p, info, d) ==
    LET power == PowerOf(p.recoveries, info)
    IN  {r \in {[partition |->
                    [p EXCEPT !.expirations = q, !.faults = @ \ p.recoveries,
                              !.recoveries = {}, !.faulty_power = @ - power,
                              !.recovering_power = @ - power],
                 recovered |-> power] :
                    q \in RescheduleRecovered(p.expirations, p.recoveries, info, d)} :
            ValidPartition(r.partition)}

ActivateUnproven(p) == [p EXCEPT !.unproven = {}, !.unproven_power = 0]

DeclareRecoveredIn(p, ss, info) ==
    LET new == (ss \cap p.faults) \ p.recoveries
        after == [p EXCEPT !.recoveries = @ \cup new,
                           !.recovering_power = @ + PowerOf(new, info)]
    IN  {r \in {after} : ss \subseteq p.sectors /\ ValidPartition(after)}

(* Sectors that are missing, terminated or faulty are left as they are.    *)
RescheduleIn(p, new, ss, info, d) ==
    LET active == ((ss \cap p.sectors) \ p.terminated) \ p.faults
    IN  {[partition |-> [p EXCEPT !.expirations = q], replaced |-> active] :
            q \in RescheduleExpirations(p.expirations, new, active, info, d)}

(* Sectors keep their numbers and change their records from old to info.   *)
ReplaceSectors(p, ss, old, info, d) ==
    LET power == PowerOf(ss, info) - PowerOf(ss, old)
    IN  {r \in {[partition |-> [p EXCEPT !.expirations = AddActiveSectors(q, ss, info, d),
                                         !.live_power = @ + power],
                 delta |-> power] : q \in RemoveActiveSectors(p.expirations, ss, old)} :
            ss \subseteq ActiveSectors(p) /\ ValidPartition(r.partition)}

(* Gives the partition and the entry removed, whose active power leaves    *)
(* out what was not yet proven.                                            *)
TerminateIn(p, epoch, ss, info, d) ==
    LET unproven == PowerOf(ss \cap p.unproven, info)
        after(r) ==
            [p EXCEPT !.expirations = r.queue,
                      !.early_terminated = AddToQueue(@, epoch, ss),
                      !.faults = @ \ ss, !.recoveries = @ \ ss,
                      !.terminated = @ \cup ss, !.unproven = @ \ ss,
                      !.live_power = @ - r.removed.active - r.removed.faulty,
                      !.faulty_power = @ - r.removed.faulty,
                      !.recovering_power = @ - r.recovering,
                      !.unproven_power = @ - unproven]
    IN  {x \in {[partition |-> after(r),
                 removed |-> [r.removed EXCEPT !.active = @ - unproven]] :
                    r \in RemoveSectors(p.expirations, ss, p.faults, p.recoveries, info)} :
            ss \subseteq LiveSectors(p) /\ ValidPartition(x.partition)}

PopExpiredIn(p, until) ==
    LET r == PopUntil(p.expirations, until)
        expired == r.popped.on_time \cup r.popped.early
        after == [p EXCEPT !.expirations = r.queue, !.terminated = @ \cup expired,
                           !.faults = @ \ expired,
                           !.live_power = @ - r.popped.active - r.popped.faulty,
                           !.faulty_power = @ - r.popped.faulty,
                           !.early_terminated = AddToQueue(@, until, r.popped.early)]
    IN  {x \in {[partition |-> after, popped |-> r.popped]} :
            /\ p.unproven = {} /\ p.recoveries = {} /\ p.recovering_power = 0
            /\ p.terminated \cap expired = {} /\ ValidPartition(after)}

(* Mutant: recoveries that were not proven in time stay declared.          *)
MissedPostKeepsRecoveries(p, expiration, d) ==
    LET faulty == p.live_power - p.faulty_power
    IN  {r \in {[partition |->
                    [p EXCEPT !.expirations = q, !.faults = LiveSectors(p),
                              !.unproven = {}, !.faulty_power = p.live_power,
                              !.unproven_power = 0],
                 delta |-> p.unproven_power - faulty, faulty |-> faulty] :
                    q \in RescheduleAllAsFaults(p.expirations, expiration, d)} :
            ValidPartition(r.partition)}

(* The whole partition becomes faulty.                                     *)
RecordMissedPost(p, expiration, d) ==
    LET faulty == p.live_power - p.faulty_power
    IN  {r \in {[partition |->
                    [p EXCEPT !.expirations = q, !.faults = LiveSectors(p),
                              !.recoveries = {}, !.unproven = {},
                              !.faulty_power = p.live_power, !.recovering_power = 0,
                              !.unproven_power = 0],
                 delta |-> p.unproven_power - faulty, faulty |-> faulty] :
                    q \in RescheduleAllAsFaults(p.expirations, expiration, d)} :
            ValidPartition(r.partition)}

(* The sectors terminated early whose fee is still to be paid.             *)
Unprocessed(p) == UNION {p.early_terminated[e] : e \in DOMAIN p.early_terminated}

(* The n least elements.                                                   *)
Lowest(ss, n) == {s \in ss : Cardinality({t \in ss : t <= s}) <= n}

(* Takes max > 0 sectors in the order of their epochs, splitting the entry *)
(* that would exceed max.                                                  *)
PopEarlyIn(p, max) ==
    LET q == p.early_terminated
        before(e) == Cardinality(UNION {q[k] : k \in {j \in DOMAIN q : j < e}})
        left(e) == q[e] \ Lowest(q[e], max - before(e))
    IN  [p EXCEPT !.early_terminated = [e \in {k \in DOMAIN q : left(k) # {}} |-> left(e)]]

(* Skipped sectors become faulty, and here recoveries are retracted.       *)
RecordSkippedFaults(p, skipped, expiration, info, d) ==
    LET retracted == p.recoveries \cap skipped
        new == (skipped \ p.terminated) \ p.faults
    IN  IF skipped = {} THEN {[partition |-> p, delta |-> 0, faulty |-> 0, new |-> FALSE]}
        ELSE IF ~(skipped \subseteq p.sectors) THEN {}
        ELSE {x \in {[partition |->
                         [r.partition EXCEPT !.recoveries = @ \ retracted,
                            !.recovering_power = @ - PowerOf(retracted, info)],
                      delta |-> r.delta, faulty |-> r.faulty, new |-> new # {}] :
                        r \in AddFaults(p, new, expiration, info, d)} :
                ValidPartition(x.partition)}

=============================================================================
