----------------------------- MODULE ChainMuxer -----------------------------
(***************************************************************************)
(* The chain muxer (chain_sync/src/chain_muxer.rs): it samples the tipsets *)
(* that the network gossips, bootstraps when the node is behind, and else  *)
(* follows the network, passing tipsets to the tipset processor.  The      *)
(* processor runs only while the muxer follows; blocks submitted over the  *)
(* RPC go into the tipset channel at any time.  Tipsets received during    *)
(* the bootstrap are dropped, and Follow does not end, as the node holds   *)
(* both ends of the channels.                                              *)
(***************************************************************************)
EXTENDS TipsetProcessor

CONSTANT tipset_sample_size

ASSUME SampleAssumption == tipset_sample_size \in Nat \ {0}

VARIABLES
    muxer,          \* ChainMuxerState; Idle leads to Connect in the same poll
    sample,         \* Connect: the tipsets received
    bootstrapping,  \* Bootstrap: the network head and the local head
    outgoing,       \* Follow: the tipset being sent to the processor
    settled         \* does the network gossip nothing but its head by now?

muxer_vars == <<muxer, sample, bootstrapping, outgoing, settled>>
all_vars == <<vars, muxer_vars>>

NoBootstrap == <<NoTipset, NoTipset>>

MuxerTypeOK ==
    /\ TypeOK
    /\ muxer \in {"Connect", "Bootstrap", "Follow"}
    /\ sample \in Seq(Tipset)
    /\ Len(sample) < tipset_sample_size
    /\ muxer # "Connect" => sample = <<>>
    /\ bootstrapping \in (Tipset \X Tipset) \cup {NoBootstrap}
    /\ (bootstrapping # NoBootstrap) = (muxer = "Bootstrap")
    /\ outgoing \in Tipset \cup {NoTipset}
    /\ outgoing # NoTipset => muxer = "Follow"
    /\ state # "Idle" => muxer = "Follow"
    /\ settled \in BOOLEAN

MuxerInit ==
    /\ Init
    /\ muxer = "Connect"
    /\ sample = <<>>
    /\ bootstrapping = NoBootstrap
    /\ outgoing = NoTipset
    /\ settled = FALSE

NetworkHead == {ts \in Tipset : \A t \in Tipset : ChainWeight[t] <= ChainWeight[ts]}

Settle ==
    /\ ~settled
    /\ settled' = TRUE
    /\ UNCHANGED <<vars, muxer, sample, bootstrapping, outgoing>>

IsGossiped(ts) == settled => ts \in NetworkHead

\* evaluate_network_head, once the sample is complete.
Evaluate(network_head) ==
    \/ /\ HeaderWeight[head] >= HeaderWeight[network_head]
       /\ muxer' = "Follow"
       /\ UNCHANGED <<bootstrapping, outgoing>>
    \/ /\ HeaderWeight[head] < HeaderWeight[network_head]
       /\ Epoch[network_head] - Epoch[head] = 1
       /\ muxer' = "Follow"
       /\ outgoing' = network_head
       /\ UNCHANGED bootstrapping
    \/ /\ HeaderWeight[head] < HeaderWeight[network_head]
       /\ Epoch[network_head] - Epoch[head] # 1
       /\ muxer' = "Bootstrap"
       /\ bootstrapping' = <<network_head, head>>
       /\ UNCHANGED outgoing

ReceiveConnect(ts) ==
    LET received_tipsets == Append(sample, ts)
    IN  /\ muxer = "Connect"
        /\ IsGossiped(ts)
        /\ IF Len(received_tipsets) < tipset_sample_size
           THEN sample' = received_tipsets /\ UNCHANGED <<muxer, bootstrapping, outgoing>>
           ELSE /\ sample' = <<>>
                /\ \E network_head \in HeaviestOf({received_tipsets[i] : i \in DOMAIN received_tipsets}) :
                     Evaluate(network_head)
        /\ UNCHANGED <<vars, settled>>

IsFollowed(ts) == HeaderWeight[ts] >= HeaderWeight[head]

\* A tipset lighter than the head is dropped.
ReceiveFollow(ts) ==
    /\ muxer = "Follow"
    /\ outgoing = NoTipset
    /\ IsGossiped(ts)
    /\ IsFollowed(ts)
    /\ outgoing' = ts
    /\ UNCHANGED <<vars, muxer, sample, bootstrapping, settled>>

SendOutgoing ==
    /\ outgoing # NoTipset
    /\ Len(channel) < ChannelCap
    /\ channel' = Append(channel, outgoing)
    /\ outgoing' = NoTipset
    /\ UNCHANGED <<state, finding, current_sync, next_sync, syncer, head, sent, failed, received,
                   muxer, sample, bootstrapping, settled>>

BootstrapEnds ==
    /\ muxer' = "Connect"
    /\ bootstrapping' = NoBootstrap
    /\ UNCHANGED <<channel, state, finding, current_sync, next_sync, syncer, sent, received,
                   sample, outgoing, settled>>

BootstrapDone ==
    /\ muxer = "Bootstrap"
    /\ Epoch[bootstrapping[1]] >= Epoch[bootstrapping[2]]
    /\ PutTipset(bootstrapping[1])
    /\ UNCHANGED failed
    /\ BootstrapEnds

\* The range length is negative, or a task failed.
BootstrapFailed ==
    /\ muxer = "Bootstrap"
    /\ \/ Epoch[bootstrapping[1]] < Epoch[bootstrapping[2]] /\ UNCHANGED failed
       \/ failed < MaxFailed /\ failed' = failed + 1
    /\ BootstrapEnds
    /\ UNCHANGED head

Follow == muxer = "Follow" /\ (Gather \/ Drive) /\ UNCHANGED muxer_vars

\* sync_submit_block
SubmitBlock(ts) == SendTipset(ts) /\ UNCHANGED muxer_vars

MuxerNext ==
    \/ \E ts \in Tipset : ReceiveConnect(ts) \/ ReceiveFollow(ts) \/ SubmitBlock(ts)
    \/ Settle
    \/ SendOutgoing
    \/ BootstrapDone
    \/ BootstrapFailed
    \/ Follow

MuxerSpec == MuxerInit /\ [][MuxerNext]_all_vars

\* The muxer's future and those it owns are polled; the network agrees on a
\* head and goes on gossiping it.
MuxerFairSpec ==
    /\ MuxerSpec
    /\ WF_all_vars(Settle)
    /\ WF_all_vars(SendOutgoing)
    /\ WF_all_vars(BootstrapDone \/ BootstrapFailed)
    /\ WF_all_vars(muxer = "Follow" /\ Gather /\ UNCHANGED muxer_vars)
    /\ WF_all_vars(muxer = "Follow" /\ Drive /\ UNCHANGED muxer_vars)
    /\ \A ts \in NetworkHead : SF_all_vars(ReceiveConnect(ts)) /\ SF_all_vars(ReceiveFollow(ts))

\* The node catches up: once the network gossips nothing but its head, and syncs no
\* longer fail, the node gets to it, from whatever it was bootstrapping, finding or
\* syncing, and whatever tipsets its sample, its channel and its queue dropped.
CatchesUp == <>[](head \in NetworkHead)

\* The queue of the processor is what the muxer relies on: its groups agree, and
\* the next range is that of the heaviest tipset received.
QueueIsSound == MuxerTypeOK /\ GroupsAgree /\ NextIsHeaviest

=============================================================================
