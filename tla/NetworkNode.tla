--------------------------- MODULE NetworkNode ---------------------------
(***************************************************************************)
(* One node's place in the mesh (p2p.go): what its configuration makes of  *)
(* it, the connections that keepAlive repairs, the gossip that tells it of *)
(* peers and their addresses, and the local listener (tunnel) it opens for *)
(* each of them at the peer's virtual address.                             *)
(*                                                                         *)
(* libp2p is external: a dial succeeds when the peer lives and one of its  *)
(* known addresses leads to it, fails otherwise, and is refused without    *)
(* trying while the peer is backed off.  An ordinary peer's address comes  *)
(* from gossip, with a circuit through every seed beside it; addresses are *)
(* kept for two minutes, longer than the 90 s after which GetPeers drops   *)
(* the peer, so here they go together.                                     *)
(***************************************************************************)
EXTENDS Integers, FiniteSets

CONSTANTS Others,     \* the other nodes
          Direct,     \* those whose own address can be dialled from here
          Vips,       \* local addresses that virtual IPs may take
          Vip,        \* generateVIP: a function of the peer's id; two ids may collide
          Configs,    \* configurations the operator may have written
          MaxUpsets   \* bound: deaths, lost connections and taken addresses

ASSUME NetworkAssumptions ==
    /\ Direct \subseteq Others /\ Vip \in [Others -> Vips] /\ MaxUpsets \in Nat
    /\ \A c \in Configs :
          c \in [seeds : SUBSET Others, seedsParse : BOOLEAN, hub : BOOLEAN, key : BOOLEAN,
                 announce : {"none", "good", "bad"}, nat : {"unset", "yes", "no"},
                 publicInterface : BOOLEAN]

VARIABLES
    config,    \* config.json and the swarm key
    node,      \* "down", "up", "refused" (Start returned an error) or "stopped"
    reach,     \* what libp2p is told of this node's reachability
    alive,     \* environment: the others that run
    conn,      \* connected peers
    backoff,   \* peers libp2p refuses to dial
    heard,     \* peers whose last gossip is at most 90 s old: peerRecords, Peerstore
    proxies,   \* activeProxies: peers a listener is open or being opened for
    listening, \* peers whose listener is open; none is ever closed
    taken,     \* environment: virtual addresses another process holds
    pass,      \* keepAlive: the phase of its pass and the peers still to visit
    upsets     \* how often the environment interfered

selfVars == <<config, node, reach>>
linkVars == <<conn, backoff>>
tunnelVars == <<proxies, listening>>
worldVars == <<alive, taken, upsets>>
netVars == <<selfVars, linkVars, tunnelVars, worldVars, heard, pass>>

Resting == [phase |-> "idle", todo |-> {}]

NetInit ==
    /\ config \in Configs /\ node = "down" /\ reach = "auto"
    /\ alive = Others /\ conn = {} /\ backoff = {} /\ heard = {}
    /\ proxies = {} /\ listening = {} /\ taken = {} /\ pass = Resting /\ upsets = 0

NetTypeOK ==
    /\ config \in Configs /\ node \in {"down", "up", "refused", "stopped"}
    /\ reach \in {"auto", "public", "private"}
    /\ alive \subseteq Others /\ conn \subseteq alive /\ backoff \subseteq Others
    /\ heard \subseteq Others
    /\ proxies \subseteq Others /\ listening \subseteq proxies /\ taken \subseteq Vips
    /\ pass \in [phase : {"idle", "seeds", "peers"}, todo : SUBSET Others]
    /\ upsets \in 0..MaxUpsets

(* Start: what it refuses.  One seed address that does not parse is enough. *)
Refused(c) ==
    \/ ~c.seedsParse
    \/ c.seeds = {} /\ ~c.hub
    \/ ~c.key
    \/ c.announce = "bad"
    \/ c.announce = "good" /\ c.nat = "yes"

(* An announced address asserts a public node; behind_nat, or without it a *)
(* machine with no public interface, asserts a private one.                *)
Reach(c) ==
    CASE c.announce = "good" -> "public"
      [] c.announce # "good" /\ (IF c.nat = "unset" THEN ~c.publicInterface ELSE c.nat = "yes")
            -> "private"
      [] OTHER -> "auto"

(* The address of a seed is configured, and its relay is a hop to every    *)
(* peer heard of.                                                          *)
Dialable(p) ==
    /\ p \in alive
    /\ \/ p \in Direct /\ p \in heard \cup config.seeds
       \/ p \in heard /\ \E q \in config.seeds \ {p} : q \in conn

(* host.Connect, for a peer that is not backed off. *)
Dial(p) ==
    /\ conn' = IF Dialable(p) THEN conn \cup {p} ELSE conn
    /\ backoff' = IF Dialable(p) THEN backoff \ {p} ELSE backoff \cup {p}

(* Start, with bootstrapNode dialling every seed once. *)
Start ==
    /\ node = "down"
    /\ IF Refused(config)
       THEN node' = "refused" /\ UNCHANGED <<linkVars, reach>>
       ELSE /\ node' = "up" /\ reach' = Reach(config)
            /\ conn' = config.seeds \cap alive \cap Direct
            /\ backoff' = config.seeds \ conn'
    /\ UNCHANGED <<tunnelVars, worldVars, config, heard, pass>>

(* Any other dial: a dispatch that opens a stream, a peer found by mDNS. *)
OtherDial(p) ==
    /\ node = "up" /\ p \notin conn /\ p \notin backoff /\ Dial(p)
    /\ UNCHANGED <<selfVars, tunnelVars, worldVars, heard, pass>>

(* A peer that needs no dial from here connects to this node. *)
Inbound(p) ==
    /\ node = "up" /\ p \in alive \ conn /\ conn' = conn \cup {p}
    /\ UNCHANGED <<selfVars, tunnelVars, worldVars, backoff, heard, pass>>

-----------------------------------------------------------------------------
(* gossipSubscriber *)

Free(p) == Vip[p] \notin taken /\ \A q \in listening : Vip[q] # Vip[p]

Listen(p) == listening' = IF p \notin proxies /\ Free(p) THEN listening \cup {p} ELSE listening

(* Seeded fault: the entry stays when its address could not be bound. *)
OpenTunnelOnce(p) == Listen(p) /\ proxies' = proxies \cup {p}

(* Seeded fault: the entry goes when the function returns, listener or not. *)
OpenTunnelForgets(p) == Listen(p) /\ proxies' = proxies \ {p}

(* startLocalProxyForPeer: an entry is made once, and withdrawn when the   *)
(* address cannot be bound, so that the next message tries again.          *)
OpenTunnel(p) == Listen(p) /\ proxies' = IF Free(p) THEN proxies \cup {p} ELSE proxies

(* A message of p reaches this node, over whichever connection it has. *)
Hear(p) ==
    /\ node = "up" /\ p \in alive /\ conn # {}
    /\ heard' = heard \cup {p} /\ OpenTunnel(p)
    /\ UNCHANGED <<selfVars, linkVars, worldVars, pass>>

(* No message of p for 90 s. *)
Silent(p) ==
    /\ p \in heard /\ p \notin alive /\ heard' = heard \ {p}
    /\ UNCHANGED <<selfVars, linkVars, tunnelVars, worldVars, pass>>

-----------------------------------------------------------------------------
(* keepAlive.  Its loop has no end: it goes on after Stop, when every      *)
(* Connect fails.                                                          *)

PassBegins ==
    /\ node \in {"up", "stopped"} /\ pass.phase = "idle"
    /\ pass' = [phase |-> "seeds", todo |-> config.seeds]
    /\ UNCHANGED <<selfVars, linkVars, tunnelVars, worldVars, heard>>

(* After the seeds, a copy of GetPeers; after the copy, the next tick. *)
PassGoesOn ==
    /\ pass.phase # "idle" /\ pass.todo = {}
    /\ pass' = IF pass.phase = "seeds" THEN [phase |-> "peers", todo |-> heard] ELSE Resting
    /\ UNCHANGED <<selfVars, linkVars, tunnelVars, worldVars, heard>>

(* Seeded fault: the back-off is left to expire. *)
RedialPolitely(p) ==
    IF p \in conn \cup backoff \/ node = "stopped" THEN UNCHANGED <<linkVars>> ELSE Dial(p)

(* A disconnected peer is dialled, its back-off cleared first. *)
Redial(p) ==
    IF p \in conn \/ node = "stopped" THEN UNCHANGED <<linkVars>> ELSE Dial(p)

Visit(p) ==
    /\ p \in pass.todo /\ pass' = [pass EXCEPT !.todo = @ \ {p}]
    /\ Redial(p)
    /\ UNCHANGED <<selfVars, tunnelVars, worldVars, heard>>

-----------------------------------------------------------------------------
(* The environment, and Stop *)

Upset == upsets < MaxUpsets /\ upsets' = upsets + 1

Dies(p) ==
    /\ Upset /\ p \in alive /\ alive' = alive \ {p} /\ conn' = conn \ {p}
    /\ UNCHANGED <<selfVars, tunnelVars, backoff, heard, taken, pass>>

Returns(p) ==
    /\ p \notin alive /\ alive' = alive \cup {p}
    /\ UNCHANGED <<selfVars, linkVars, tunnelVars, heard, taken, pass, upsets>>

Drops(p) ==
    /\ Upset /\ p \in conn /\ conn' = conn \ {p}
    /\ UNCHANGED <<selfVars, tunnelVars, alive, backoff, heard, taken, pass>>

Takes(v) ==
    /\ Upset /\ v \notin taken /\ (\A q \in listening : Vip[q] # v) /\ taken' = taken \cup {v}
    /\ UNCHANGED <<selfVars, linkVars, tunnelVars, alive, heard, pass>>

Frees(v) ==
    /\ v \in taken /\ taken' = taken \ {v}
    /\ UNCHANGED <<selfVars, linkVars, tunnelVars, alive, heard, pass, upsets>>

Stop ==
    /\ node = "up" /\ node' = "stopped" /\ conn' = {}
    /\ UNCHANGED <<tunnelVars, worldVars, config, reach, backoff, heard, pass>>

NetNext ==
    \/ Start \/ PassBegins \/ PassGoesOn \/ Stop
    \/ \E p \in Others : \/ OtherDial(p) \/ Inbound(p) \/ Hear(p) \/ Silent(p) \/ Visit(p)
                         \/ Dies(p) \/ Returns(p) \/ Drops(p)
    \/ \E v \in Vips : Takes(v) \/ Frees(v)

NetSpec == NetInit /\ [][NetNext]_netVars

-----------------------------------------------------------------------------
(* Properties *)

(* Everyone runs, and a seed that can be dialled is configured. *)
Settled == node = "up" /\ alive = Others /\ config.seeds \cap Direct # {}

(* keepAlive repairs connections without waiting for a back-off to expire, *)
(* a peer behind a NAT by way of a seed (p2p.go:699, 782), and leaves a    *)
(* dead ordinary peer alone once its gossip is 90 s old (p2p.go:688).      *)
RedialsFollowLife ==
    /\ <>[]Settled => <>[](conn = Others)
    /\ \A p \in Others : <>[](p \notin alive \cup config.seeds) => <>[](p \notin pass.todo)

(* A peer that is heard of gets a listener at its virtual address as soon  *)
(* as no other process holds the address, although the attempts before     *)
(* failed (p2p.go:856); of peers whose addresses collide, one does.        *)
TunnelsRecover ==
    \A p \in Others : <>[](Settled /\ Vip[p] \notin taken)
                        => <>(\E q \in listening : Vip[q] = Vip[p])
=============================================================================
