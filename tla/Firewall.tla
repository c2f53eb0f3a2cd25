------------------------------ MODULE Firewall ------------------------------
(***************************************************************************)
(* The iptables rules of the vpn channel (cmd/server/vpn_setup.go) over    *)
(* starts, failed starts, shutdowns and crashes of the server              *)
(* (cmd/server/main.go).                                                   *)
(*                                                                         *)
(* The kernel keeps the rules, the server adds and deletes them one        *)
(* command at a time: any command may fail, also -C and -D for a rule that *)
(* is there, and the server may die between any two of them and be started *)
(* again with another setting.  What the rules do to traffic depends on    *)
(* their order in a chain, so chains are sequences.  One rule stands for   *)
(* all rules that differ only in the network they name.                    *)
(***************************************************************************)
EXTENDS Integers, Sequences, SequencesExt

CONSTANT MaxFailures   \* bound: how often a command fails for a rule that is there

Chains == {"nat", "INPUT", "FORWARD", "DOCKER-USER", "mangle"}

(* By name: DROP by destination or port for what comes out of the tunnel,  *)
(* "replies" and "inbound" for what goes into it, "outbound" the ACCEPT    *)
(* for the rest.  "all inbound" is the ACCEPT of older versions.           *)
Names == {"masquerade", "input", "metadata", "private", "public", "smtp", "replies",
          "inbound", "outbound", "all inbound", "mss"}

VARIABLES
  chain,         \* the rules of each chain, top to bottom
  docker,        \* whether docker has made its DOCKER-USER chain
  pc,            \* "down", "setup", "stale", "apply", "undo", "serving", "cleanup"
  k,             \* the rule of the list that is next
  allowPrivate,  \* allow_private_destinations of this start
  withDocker,    \* the list has rules for DOCKER-USER
  ended,         \* history: how the server went down after it touched a rule
  spoiled,       \* history: the rules for which a command failed while they were there
  failures       \* how often that happened

history == <<spoiled, failures>>
vars == <<chain, docker, pc, k, allowPrivate, withDocker, ended, history>>
settings == <<docker, allowPrivate, withDocker>>

TypeOK ==
  /\ chain \in [Chains -> Seq(Names)]
  /\ {docker, allowPrivate, withDocker} \subseteq BOOLEAN
  /\ pc \in {"down", "setup", "stale", "apply", "undo", "serving", "cleanup"}
  /\ k \in Nat
  /\ ended \in {"never", "orderly", "crashed"}
  /\ spoiled \in [Chains -> SUBSET Names] /\ failures \in Nat

(* Nothing is set up, or an older version has left its rules. *)
Init ==
  /\ chain \in {[c \in Chains |-> <<>>],
                [c \in Chains |-> IF c = "FORWARD" THEN <<"outbound", "all inbound">> ELSE <<>>]}
  /\ docker \in BOOLEAN
  /\ pc = "down" /\ k = 0
  /\ allowPrivate = FALSE /\ withDocker = FALSE
  /\ ended = "never"
  /\ spoiled = [c \in Chains |-> {}] /\ failures = 0

-----------------------------------------------------------------------------
(* newVPNFirewall: the rules in the order they end up in each chain, and   *)
(* those of older versions or other settings.                              *)
Rule(c, n) == [chain |-> c, name |-> n]
InChain(c, names) == [i \in DOMAIN names |-> Rule(c, names[i])]

ForwardRules(c) ==
  InChain(c, <<"metadata">> \o (IF allowPrivate THEN <<>> ELSE <<"private">>)
             \o <<"public", "smtp", "replies", "inbound", "outbound">>)
StaleRules(c) ==
  InChain(c, (IF allowPrivate THEN <<"private">> ELSE <<>>) \o <<"all inbound">>)

OverChains(R(_)) == R("FORWARD") \o (IF withDocker THEN R("DOCKER-USER") ELSE <<>>)

Rules ==
  <<Rule("nat", "masquerade"), Rule("INPUT", "input")>>
    \o OverChains(ForwardRules) \o <<Rule("mangle", "mss")>>
Stale == OverChains(StaleRules)

Inserted(r) == r.chain \notin {"nat", "mangle"}

\* Variant with a bug: every rule that cannot be added is only a warning.
AnyRule(r) == r.chain \in Chains
Optional(r) == r.chain = "mangle"

(* iptables: -C, -I or -A, and -D of the first rule that is the same.  The *)
(* server takes every error of -C for "not there" and ignores those of -D. *)
Has(r) == r.name \in ToSet(chain[r.chain])
Fails(c, names) ==
  /\ failures < MaxFailures /\ failures' = failures + 1
  /\ spoiled' = [spoiled EXCEPT ![c] = @ \union names]
Add(r) ==
  chain' = [chain EXCEPT ![r.chain] = IF Inserted(r) THEN <<r.name>> \o @ ELSE Append(@, r.name)]
Delete(r) ==
  \/ chain' = [chain EXCEPT ![r.chain] = RemoveFirst(@, r.name)] /\ UNCHANGED history
  \/ Has(r) /\ Fails(r.chain, {r.name}) /\ UNCHANGED chain

-----------------------------------------------------------------------------
(* main listens on everything before it touches a rule.  A listener that   *)
(* cannot be opened changes nothing.                                       *)
Listen(allow) ==
  /\ pc = "down" /\ pc' = "setup"
  /\ allowPrivate' = allow
  /\ UNCHANGED <<chain, docker, k, withDocker, ended, history>>

(* setupVPNTun up to apply: no usable subnet, TUN, address, forwarding or  *)
(* egress interface, and the TUN is closed again;                          *)
SetupFails ==
  /\ pc = "setup" /\ pc' = "down"
  /\ UNCHANGED <<chain, k, settings, ended, history>>

(* or all is well and newVPNFirewall asks for docker's chain.  Any error   *)
(* of -S means that there is none, and what an earlier start has left in   *)
(* that chain is then in no list.                                          *)
NewFirewall ==
  /\ pc = "setup" /\ pc' = "stale" /\ k' = 1
  /\ \/ withDocker' = docker /\ UNCHANGED history
     \/ docker /\ withDocker' = FALSE /\ Fails("DOCKER-USER", ToSet(chain["DOCKER-USER"]))
  /\ UNCHANGED <<chain, docker, allowPrivate, ended>>

(* apply: the stale rules first. *)
DeleteStale ==
  /\ pc = "stale"
  /\ IF k > Len(Stale)
       THEN pc' = "apply" /\ k' = 1 /\ UNCHANGED <<chain, history>>
       ELSE Delete(Stale[k]) /\ k' = k + 1 /\ UNCHANGED pc
  /\ UNCHANGED <<settings, ended>>

(* Then every rule that -C does not find, the last one first: every insert *)
(* goes on top.                                                            *)
\* Variant with a bug: the first one first.
FromTheTop(i) == Rules[i]
FromTheEnd(i) == Rules[Len(Rules) + 1 - i]

ApplyRule ==
  /\ pc = "apply" /\ k \in DOMAIN Rules
  /\ LET r == FromTheEnd(k) IN
     \/ Has(r) /\ UNCHANGED <<chain, history>>
     \/ ~Has(r) /\ Add(r) /\ UNCHANGED history
     \/ Has(r) /\ Fails(r.chain, {r.name}) /\ Add(r)
  /\ k' = k + 1
  /\ UNCHANGED <<pc, settings, ended>>

\* Variant with a bug: only what this start has added is removed.
RemoveAdded == Len(Rules) + 2 - k
RemoveAll == 1

(* -C has failed or not found the rule, and -I or -A fails. *)
CannotAdd ==
  /\ pc = "apply" /\ k \in DOMAIN Rules
  /\ IF Optional(FromTheEnd(k)) THEN k' = k + 1 /\ UNCHANGED pc
                                ELSE pc' = "undo" /\ k' = RemoveAll
  /\ UNCHANGED <<chain, settings, ended, history>>

(* setupVPNTun returns, the loops are started. *)
Serve ==
  /\ pc = "apply" /\ k \notin DOMAIN Rules
  /\ pc' = "serving" /\ k' = 0
  /\ UNCHANGED <<chain, settings, ended, history>>

(* SIGTERM: the listeners are closed, then cleanup. *)
Shutdown ==
  /\ pc = "serving" /\ pc' = "cleanup" /\ k' = 1
  /\ UNCHANGED <<chain, settings, ended, history>>

(* remove, called by apply or by cleanup; then the TUN is closed and the   *)
(* program ends.                                                           *)
RemoveRules ==
  /\ pc \in {"undo", "cleanup"}
  /\ IF k > Len(Rules)
       THEN /\ pc' = "down" /\ k' = 0 /\ ended' = "orderly"
            /\ spoiled' = [c \in Chains |-> spoiled[c] \intersect ToSet(chain[c])]
            /\ UNCHANGED <<chain, failures>>
       ELSE Delete(Rules[k]) /\ k' = k + 1 /\ UNCHANGED <<pc, ended>>
  /\ UNCHANGED settings

-----------------------------------------------------------------------------
Crash ==
  /\ pc # "down" /\ pc' = "down" /\ k' = 0
  /\ ended' = IF pc = "setup" THEN ended ELSE "crashed"
  /\ UNCHANGED <<chain, settings, history>>

DockerStarts ==
  /\ ~docker /\ docker' = TRUE
  /\ UNCHANGED <<chain, pc, k, allowPrivate, withDocker, ended, history>>

Next ==
  \/ \E allow \in BOOLEAN : Listen(allow)
  \/ SetupFails \/ NewFirewall \/ DeleteStale \/ ApplyRule \/ CannotAdd \/ Serve
  \/ Shutdown \/ RemoveRules \/ Crash \/ DockerStarts

Spec == Init /\ [][Next]_vars

-----------------------------------------------------------------------------
(* What the kernel does to a forwarded packet: the first rule that matches *)
(* decides, in DOCKER-USER and then in FORWARD.                            *)
Outgoing == {"metadata", "private", "public", "smtp", "web"}
Incoming == {"reply", "stranger"}

Matches(n, class) ==
  \/ n = class
  \/ n = "outbound" /\ class \in Outgoing
  \/ n = "replies" /\ class = "reply"
  \/ n \in {"inbound", "all inbound"} /\ class \in Incoming

Accepts(n) == n \in {"outbound", "replies", "all inbound"}

Passes(class) ==
  LET rules == chain["DOCKER-USER"] \o chain["FORWARD"] IN
  \E i \in DOMAIN rules :
    /\ Matches(rules[i], class) /\ Accepts(rules[i])
    /\ \A j \in 1 .. i - 1 : ~Matches(rules[j], class)

Allowed == {"web", "reply"} \union (IF allowPrivate THEN {"private"} ELSE {})
Guarded ==
  /\ chain["INPUT"] # <<>>
  /\ \A class \in Outgoing \union Incoming : Passes(class) <=> class \in Allowed

(* As long as -C, -D and -S tell the truth about the rules that are there, *)
(* clients reach what they may and nothing else while they are served,     *)
(* whatever an earlier start has left and whichever rule could not be      *)
(* added, and also while cleanup takes the rules away: NAT never outlives  *)
(* a DROP (vpn_setup.go:241-297, 300-303, 305-325, 329-333).               *)
Unspoiled == \A c \in Chains : spoiled[c] = {}
Protected ==
  Unspoiled =>
    /\ pc = "serving" => Guarded /\ chain["nat"] # <<>>
    /\ pc = "cleanup" /\ chain["nat"] # <<>> => Guarded

(* Whichever commands fail, no rule but the one for the MSS is missing     *)
(* while clients are served: a start that cannot add one does not serve    *)
(* (vpn_setup.go:299-301, 307-323).                                        *)
NothingMissing ==
  pc = "serving" => \A i \in DOMAIN Rules : Rules[i].chain = "mangle" \/ Has(Rules[i])

(* A start that fails at a rule and a shutdown leave no rule behind, not   *)
(* even what an earlier start left when it crashed, but those for which a  *)
(* command had failed (vpn_setup.go:300-303, 328-333).                     *)
NothingStays ==
  pc = "down" /\ ended = "orderly" =>
    \A c \in Chains : ToSet(chain[c]) \subseteq spoiled[c]

-----------------------------------------------------------------------------
(* What the repository says of the same rules without that condition, and  *)
(* the code does not keep when a command fails.                            *)

(* "The DROPs must come before the ACCEPTs" (vpn_setup_test.go:90-91),     *)
(* which "going from the last rule up leaves them in list order" is for    *)
(* (vpn_setup.go:305-306).                                                 *)
DropsComeFirst ==
  pc = "serving" => \A c \in {"FORWARD", "DOCKER-USER"} : \A i, j \in DOMAIN chain[c] :
    chain[c][i] \in Outgoing /\ chain[c][j] = "outbound" => i < j

(* "remove deletes all rules of the list" (vpn_setup.go:327), also when    *)
(* only apply was misled.                                                  *)
AllRemoved == pc = "down" /\ ended = "orderly" => \A c \in Chains : chain[c] = <<>>
=============================================================================
