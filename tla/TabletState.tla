---------------------------- MODULE TabletState ----------------------------
(***************************************************************************)
(* The transition tables the master drives tablets and tablet nodes with:  *)
(* TabletStateMachine (master/tablet_state_machine.cc) and TabletNode's    *)
(* table (master/tabletnode_manager.cc).  An event with no rule leaves the *)
(* state as it is: DoStateTransition returns false and every caller        *)
(* ignores that result.                                                    *)
(***************************************************************************)

TabletStatus == {"kTabletOffline", "kTabletDelayOffline", "kTabletLoading", "kTabletReady",
                 "kTabletUnloading", "kTabletLoadFail", "kTabletUnloadFail", "kTabletDisable",
                 "kTabletSplitted", "kTabletMerged"}

NodeState == {"kOffline", "kReady", "kWaitKick", "kKicked"}

TabletRules ==
    [ kTabletOffline      |-> [kLoadTablet |-> "kTabletLoading",
                               kTsDelayOffline |-> "kTabletDelayOffline",
                               kTabletLoadFail |-> "kTabletLoadFail",
                               kTsOffline |-> "kTabletOffline",
                               kTableDisable |-> "kTabletDisable",
                               kFinishSplitTablet |-> "kTabletSplitted",
                               kFinishMergeTablet |-> "kTabletMerged"],
      kTabletDelayOffline |-> [kTsOffline |-> "kTabletOffline",
                               kTsRestart |-> "kTabletOffline"],
      kTabletLoading      |-> [kTsLoadSucc |-> "kTabletReady",
                               kTsLoadFail |-> "kTabletLoadFail",
                               kTsDelayOffline |-> "kTabletDelayOffline",
                               kTsOffline |-> "kTabletOffline",
                               kTsRestart |-> "kTabletOffline"],
      kTabletUnloading    |-> [kTsUnLoadSucc |-> "kTabletOffline",
                               kTsUnLoadFail |-> "kTabletUnloadFail",
                               kTsOffline |-> "kTabletOffline"],
      kTabletReady        |-> [kUnLoadTablet |-> "kTabletUnloading",
                               kTsOffline |-> "kTabletOffline",
                               kTsDelayOffline |-> "kTabletDelayOffline"],
      kTabletUnloadFail   |-> [kTsOffline |-> "kTabletOffline"],
      kTabletLoadFail     |-> [kLoadTablet |-> "kTabletLoading",
                               kTsOffline |-> "kTabletOffline",
                               kTableDisable |-> "kTabletDisable"],
      kTabletDisable      |-> [kTableEnable |-> "kTabletOffline"] ]

NodeRules ==
    [ kOffline  |-> [kZkNodeCreated |-> "kReady"],
      kReady    |-> [kZkSessionTimeout |-> "kOffline",
                     kPrepareKickTs |-> "kWaitKick"],
      kWaitKick |-> [kCancelKickTs |-> "kReady",
                     kZkKickNodeCreated |-> "kKicked",
                     kZkSessionTimeout |-> "kOffline"],
      kKicked   |-> [kZkSessionTimeout |-> "kOffline"] ]

Post(rules, from, event) ==
    IF from \in DOMAIN rules /\ event \in DOMAIN rules[from] THEN rules[from][event] ELSE from

\* Tablet::DoStateTransition
TabletPost(from, event) == Post(TabletRules, from, event)

\* TabletNode::DoStateTransition
NodePost(from, event) == Post(NodeRules, from, event)

=============================================================================
