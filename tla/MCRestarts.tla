----------------------------- MODULE MCRestarts -----------------------------
(***************************************************************************)
(* What outlives a process and is found by the next one: the iptables      *)
(* rules of a server, or the connections and keys of a tray.  The two run  *)
(* on different machines and share nothing, so a behaviour is about one of *)
(* them, and the other one stands still.                                   *)
(***************************************************************************)
EXTENDS Naturals, TLC

CONSTANTS
  Machines,                                 \* which of the two a run is about
  MaxFailures,                              \* Firewall
  Keys, FileNames, Imported, MaxLen, NoKey  \* ConnectionList

VARIABLES
  machine,
  chain, docker, pc, k, allowPrivate, withDocker, ended, spoiled, failures,
  file, aside, configKey, screen, connections, fields, loaded, subject, kept,
  risked

serverVars == <<chain, docker, pc, k, allowPrivate, withDocker, ended, spoiled, failures>>
clientVars == <<file, aside, configKey, screen, connections, fields, loaded, subject, kept,
                risked>>

FW == INSTANCE Firewall
List == INSTANCE ConnectionList WITH gui <- screen, None <- NoKey

ASSUME RestartsAssumption ==
  Machines \subseteq {"server", "client"} /\ MaxFailures \in Nat /\ List!ListAssumption

MCInit ==
  /\ machine \in Machines
  /\ FW!Init /\ List!Init
  /\ machine = "server" => file.state = "absent" /\ configKey = NoKey
  /\ machine = "client" => chain["FORWARD"] = <<>> /\ ~docker

OnServer == machine = "server" /\ FW!Next /\ UNCHANGED clientVars
OnClient == machine = "client" /\ List!Next /\ UNCHANGED serverVars
MCNext == (OnServer \/ OnClient) /\ UNCHANGED machine

MCSpec == MCInit /\ [][MCNext]_<<machine, serverVars, clientVars>>

(* Clients reach what they may and nothing else, no rule is missing, and   *)
(* an orderly end leaves nothing (vpn_setup.go:241-333).                   *)
Protected == FW!Protected
NothingMissing == FW!NothingMissing
NothingStays == FW!NothingStays

(* What the repository says of the rules where a failing command breaks it *)
(* (vpn_setup.go:305-309, 327-333).                                        *)
DropsComeFirst == FW!DropsComeFirst
AllRemoved == FW!AllRemoved

(* No key is lost but by the user's will (tray/connections.go:101-106,     *)
(* 183-203, 247-254).                                                      *)
KeysSurvive == List!KeysSurvive

(* What the repository says of the same keys where the code does not keep  *)
(* it (tray/connections.go:95-104, 141-173, 247-272, tray/main.go:60-62).  *)
WritesKeepKeys == List!WritesKeepKeys
ConfigKeyIsSaved == List!ConfigKeyIsSaved
OthersStayAsTheyAre == List!OthersStayAsTheyAre
RenamesAddNothing == List!RenamesAddNothing

KeySymmetry == Permutations(Keys)
=============================================================================
