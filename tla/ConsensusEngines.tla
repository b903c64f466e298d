-------------------------- MODULE ConsensusEngines --------------------------
(***************************************************************************)
(* consensus/registry.py: an application picks its engine by name, and all *)
(* nodes run the same one.  kind is that choice; an engine that was not    *)
(* chosen stays in its initial state, so that a property of one engine can *)
(* be stated of all behaviours.  Slush, Snowflake and Snowball of examples/*)
(* are used the same way.                                                  *)
(***************************************************************************)
EXTENDS PBFT, HotStuff, Avalanche, Hashgraph, Relay, DAGcoin, Lattice,
        MinedChain, BeaconChain, SnowFamily

VARIABLE kind

engineVars == <<kind, pbftVars, hsVars, avaVars, hgVars, relayVars, dagVars,
                latVars, powVars, beaconVars, snowVars>>

Kind == {"pbft", "hotstuff", "avalanche", "hashgraph", "relay", "dagcoin",
         "nano_lattice", "pow", "beacon", "snow"}

(* The idle engines' parameters are left at any one value. *)
EngineInit ==
  /\ kind \in Kind
  /\ PbftInit /\ HsInit /\ AvaInit /\ HgInit /\ RelayInit /\ DagInit
  /\ LatInit /\ PowInit /\ BeaconInit /\ SnowInit
  /\ kind # "beacon" => source = "hash_chain"
  /\ kind # "snow" => rule = "slush"
  /\ kind # "nano_lattice" => latShared = {}

(* create: the step is one of the chosen engine's. *)
EngineNext ==
  \/ /\ kind = "pbft" /\ PbftNext
     /\ UNCHANGED <<kind, hsVars, avaVars, hgVars, relayVars, dagVars, latVars,
                    powVars, beaconVars, snowVars>>
  \/ /\ kind = "hotstuff" /\ HsNext
     /\ UNCHANGED <<kind, pbftVars, avaVars, hgVars, relayVars, dagVars, latVars,
                    powVars, beaconVars, snowVars>>
  \/ /\ kind = "avalanche" /\ AvaNext
     /\ UNCHANGED <<kind, pbftVars, hsVars, hgVars, relayVars, dagVars, latVars,
                    powVars, beaconVars, snowVars>>
  \/ /\ kind = "hashgraph" /\ HgNext
     /\ UNCHANGED <<kind, pbftVars, hsVars, avaVars, relayVars, dagVars, latVars,
                    powVars, beaconVars, snowVars>>
  \/ /\ kind = "relay" /\ RelayNext
     /\ UNCHANGED <<kind, pbftVars, hsVars, avaVars, hgVars, dagVars, latVars,
                    powVars, beaconVars, snowVars>>
  \/ /\ kind = "dagcoin" /\ DagNext
     /\ UNCHANGED <<kind, pbftVars, hsVars, avaVars, hgVars, relayVars, latVars,
                    powVars, beaconVars, snowVars>>
  \/ /\ kind = "nano_lattice" /\ LatNext
     /\ UNCHANGED <<kind, pbftVars, hsVars, avaVars, hgVars, relayVars, dagVars,
                    powVars, beaconVars, snowVars>>
  \/ /\ kind = "pow" /\ PowNext
     /\ UNCHANGED <<kind, pbftVars, hsVars, avaVars, hgVars, relayVars, dagVars,
                    latVars, beaconVars, snowVars>>
  \/ /\ kind = "beacon" /\ BeaconNext
     /\ UNCHANGED <<kind, pbftVars, hsVars, avaVars, hgVars, relayVars, dagVars,
                    latVars, powVars, snowVars>>
  \/ /\ kind = "snow" /\ SnowNext
     /\ UNCHANGED <<kind, pbftVars, hsVars, avaVars, hgVars, relayVars, dagVars,
                    latVars, powVars, beaconVars>>

EngineSpec == EngineInit /\ [][EngineNext]_engineVars

(* The type invariants of the engines. *)
EngineTypeOK ==
  /\ kind \in Kind
  /\ PbftTypeOK /\ HsTypeOK /\ AvaTypeOK /\ HgTypeOK /\ RelayTypeOK /\ DagTypeOK
  /\ LatTypeOK /\ PowTypeOK /\ BeaconTypeOK /\ SnowTypeOK
=============================================================================
